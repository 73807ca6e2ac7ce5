--------------------------- MODULE UnifiedMemory ---------------------------
(***************************************************************************)
(* The allocator ceiling of a worker whose GPU shares the host's memory    *)
(* (utils/mem_utils.py and v1/worker/gpu_worker.py), over the phases of a  *)
(* start: the worker samples the host before each phase and caps PyTorch,  *)
(* while the rest of the host goes on using memory.                        *)
(*                                                                         *)
(* PyTorch's caching allocator is external: what it has allocated, what it *)
(* has reserved from the host (it keeps what is freed, and can reuse all   *)
(* of it: the containers run with expandable segments), and the limit      *)
(* set_per_process_memory_fraction puts on that.  MemAvailable may be up   *)
(* to `slack' below what can really be had.                                *)
(***************************************************************************)
EXTENDS Integers

CONSTANTS
    Configs,    \* sizes of a host, settings of a worker and needs of its model
    None,       \* no sample, no floor
    MaxChanges  \* bound: how often the rest of the host changes its use

\* c.reserve is VLLM_UNIFIED_MEMORY_HOST_RESERVE_BYTES; c.floor whether the launcher
\* derives VLLM_UNIFIED_MEMORY_ALLOCATOR_BUDGET_BYTES, c.deducted what it takes off its
\* sample (6 GiB) and c.weaker what the weakest host of the fleet has less; c.requested
\* is what request_memory returns; c.fixed and c.kv are kv_cache_memory_bytes.
ASSUME MemoryAssumption ==
    /\ MaxChanges \in Nat /\ None \notin Int
    /\ \A c \in Configs :
        /\ {c.cuda, c.host, c.reserve, c.deducted, c.weaker, c.slack, c.requested} \subseteq Nat
        /\ {c.weights, c.loadPeak, c.profilePeak, c.kv, c.graphs, c.activation} \subseteq Nat
        /\ c.others \subseteq 0 .. c.host
        /\ c.cuda =< c.host   \* else PyTorch's limit is a fraction of more than the pool
        /\ {c.floor, c.loadCeiling, c.fixed, c.eager} \subseteq BOOLEAN

VARIABLES
    conf,
    pc,        \* the phase of the start
    others,    \* memory that is not PyTorch's: other processes, CUDA, NCCL
    alloc,     \* allocated and
    reserved,  \* reserved by PyTorch
    cap,       \* the most it may reserve
    seen,      \* history: `others' at the last sample of a ceiling
    launched,  \* `others' when the launcher sampled the host
    snap,      \* free memory of init_snapshot
    kv,        \* bytes for the KV cache
    changes

torch == <<alloc, reserved>>
vars == <<conf, pc, others, torch, cap, seen, launched, snap, kv, changes>>

Least(x, y) == IF x =< y THEN x ELSE y
Most(x, y) == IF x >= y THEN x ELSE y

Left == conf.host - others - reserved
Samples == {Left - s : s \in 0 .. conf.slack}   \* psutil.virtual_memory().available

Init ==
    /\ conf \in Configs
    /\ pc = "init_device" /\ others \in conf.others /\ launched = others
    /\ alloc = 0 /\ reserved = 0 /\ cap = conf.cuda
    /\ seen = None /\ snap = 0 /\ kv = conf.kv /\ changes = 0

-----------------------------------------------------------------------------
(* The ceiling *)

Pool == Least(conf.cuda, conf.host)
PoolCeiling == Pool - conf.reserve
Baseline == Most(alloc, reserved)

\* The launcher's floor: its sample of the weakest host, less a fixed deduction.
Floor == IF conf.floor THEN conf.host - launched - conf.weaker - conf.deducted ELSE None

\* Mutant: the floor is applied after the hard cap.
RequestedFloorLast(available) ==
    LET incremental == Most(0, available - conf.reserve)
    IN IF Floor = None THEN Least(PoolCeiling, Baseline + incremental)
       ELSE Most(Least(PoolCeiling, Baseline + incremental), Floor)

\* requested_ceiling_bytes
Requested(available) ==
    LET incremental == Most(0, available - conf.reserve)
    IN IF Floor = None THEN Least(PoolCeiling, Baseline + incremental)
       ELSE Least(PoolCeiling, Most(Baseline + incremental, Floor))

\* What compute_unified_memory_allocator_ceiling raises an error for.
Unsafe(available) ==
    \/ available < 0
    \/ Floor /= None /\ Floor < 0
    \/ Pool = 0 \/ ~(0 < conf.reserve /\ conf.reserve < Pool)
    \/ available =< conf.reserve
    \/ Baseline > PoolCeiling
    \/ Requested(available) < Baseline

\* apply_unified_memory_allocator_ceiling: the largest fraction whose product does not
\* exceed the request; it may fall short by one.
Applied(requested) == {requested - 1, requested}

\* Mutant: the rounded ceiling is not compared with the residency.
RefusesUnrounded(available, applied) == Unsafe(available)

Refuses(available, applied) == Unsafe(available) \/ applied < Baseline

\* _refresh_unified_memory_limit; an error ends the start, else the caller goes on.
_refresh_unified_memory_limit(next) ==
    /\ \E available \in Samples : \E applied \in Applied(Requested(available)) :
         IF Refuses(available, applied)
         THEN pc' = "failed" /\ UNCHANGED <<cap, seen>>
         ELSE cap' = applied /\ seen' = others /\ pc' = next
    /\ UNCHANGED <<conf, others, torch, launched, snap, kv, changes>>

\* PyTorch allocates `keep' bytes for good and `peak' at most; it fails at its limit,
\* and the host has nothing left to give at its own.
Allocate(keep, peak, next) ==
    LET held == Most(reserved, alloc + peak)
    IN /\ IF alloc + peak > cap
          THEN pc' = "failed" /\ UNCHANGED torch
          ELSE IF held > conf.host - others
          THEN pc' = "exhausted" /\ UNCHANGED torch
          ELSE pc' = next /\ alloc' = alloc + keep /\ reserved' = held
       /\ UNCHANGED <<conf, others, cap, seen, launched, snap, changes>>

-----------------------------------------------------------------------------
(* Phases *)

\* init_device: the snapshot, and request_memory's check of it.
init_device ==
    /\ pc = "init_device"
    /\ \E available \in Samples :
         /\ snap' = available
         /\ pc' = IF available < conf.requested THEN "failed" ELSE "load"
    /\ UNCHANGED <<conf, others, torch, cap, seen, launched, kv, changes>>

\* load_model, with its ceiling unless VLLM_UNIFIED_MEMORY_LOAD_CEILING is 0.
LoadCeiling ==
    /\ pc = "load" /\ conf.loadCeiling
    /\ _refresh_unified_memory_limit("loading")
load_model ==
    /\ pc = IF conf.loadCeiling THEN "loading" ELSE "load"
    /\ Allocate(conf.weights, conf.weights + conf.loadPeak, "profile")
    /\ UNCHANGED kv

\* determine_available_memory: a ceiling, then a dummy forward pass.
ProfileCeiling ==
    /\ pc = "profile"
    /\ _refresh_unified_memory_limit("profiling")
ProfileFixed ==
    /\ pc = "profiling" /\ conf.fixed
    /\ Allocate(0, conf.profilePeak, "kv")
    /\ UNCHANGED kv

\* memory_profiling empties PyTorch's cache before and after; what init_snapshot had
\* free must not have grown; the rest of the request is the KV cache's, and an engine
\* without any refuses to start.
ProfileMeasured ==
    /\ pc = "profiling" /\ ~conf.fixed
    /\ IF alloc + conf.profilePeak > cap
       THEN pc' = "failed" /\ UNCHANGED <<reserved, kv>>
       ELSE IF alloc + conf.profilePeak > conf.host - others
       THEN pc' = "exhausted" /\ UNCHANGED <<reserved, kv>>
       ELSE /\ reserved' = alloc
            /\ \E slack \in 0 .. conf.slack :
                 LET free == conf.host - others - alloc - slack
                     consumed == snap - free
                 IN /\ kv' = conf.requested - consumed - conf.profilePeak
                    /\ pc' = IF consumed < 0 \/ kv' =< 0 THEN "failed" ELSE "kv"
    /\ UNCHANGED <<conf, others, alloc, cap, seen, launched, snap, changes>>

\* Mutant: the cached part of the residency counts against the KV cache.
KVFitsReserved(applied) == reserved + kv =< applied

\* initialize_from_config: a fixed cache must fit under a fresh ceiling.
KVFits(applied) == alloc + kv =< applied
KVCeiling ==
    /\ pc = "kv" /\ conf.fixed
    /\ _refresh_unified_memory_limit(IF KVFits(cap') THEN "allocating" ELSE "failed")
initialize_kv_cache ==
    /\ pc = IF conf.fixed THEN "allocating" ELSE "kv"
    /\ Allocate(kv, kv, "graphs")
    /\ UNCHANGED kv

\* compile_or_warm_up_model: capture under a ceiling, unless enforce_eager.
GraphCeiling ==
    /\ pc = "graphs" /\ ~conf.eager
    /\ _refresh_unified_memory_limit("capturing")
capture_model ==
    /\ pc = "capturing"
    /\ Allocate(conf.graphs, conf.graphs, "serving")
    /\ UNCHANGED kv
SkipCapture ==
    /\ pc = "graphs" /\ conf.eager /\ pc' = "serving"
    /\ UNCHANGED <<conf, others, torch, cap, seen, launched, snap, kv, changes>>

\* Serving goes on under the last ceiling.
execute_model ==
    /\ pc = "serving"
    /\ Allocate(0, conf.activation, "serving")
    /\ UNCHANGED kv

\* Whatever else runs on the host takes or returns memory, at any time.
OthersChange ==
    /\ pc \notin {"failed", "exhausted"} /\ changes < MaxChanges
    /\ others' \in conf.others \ {others} /\ others' + reserved =< conf.host
    /\ changes' = changes + 1
    /\ UNCHANGED <<conf, pc, torch, cap, seen, launched, snap, kv>>

Next ==
    \/ init_device \/ LoadCeiling \/ load_model \/ ProfileCeiling \/ ProfileFixed
    \/ ProfileMeasured \/ KVCeiling \/ initialize_kv_cache \/ GraphCeiling
    \/ capture_model \/ SkipCapture \/ execute_model \/ OthersChange

Spec == Init /\ [][Next]_vars

-----------------------------------------------------------------------------
\* Types; PyTorch holds what it has allocated, and never more than its limit.
TypeOK ==
    /\ conf \in Configs
    /\ pc \in {"init_device", "load", "loading", "profile", "profiling", "kv", "allocating",
               "graphs", "capturing", "serving", "failed", "exhausted"}
    /\ others \in conf.others /\ launched \in conf.others
    /\ alloc \in Nat /\ reserved \in Nat /\ cap \in Nat
    /\ alloc =< reserved /\ reserved =< cap
    /\ seen \in conf.others \cup {None} /\ snap \in Int /\ kv \in Int
    /\ changes \in 0 .. MaxChanges

\* envs.py: "The PyTorch allocator ceiling never allows growth into this reserve."
\* From the first ceiling on, whatever phase, cached residency or stale limit: only
\* what the rest of the host has taken since the last sample comes out of the
\* reserve; with a floor, also what it has taken since the launcher's sample, beyond
\* what the launcher deducts more than the reserve.  T - R is never exceeded.
HostReserveKept ==
    seen /= None =>
        /\ reserved =< PoolCeiling
        /\ conf.reserve - Left =< IF Floor = None THEN others - seen
                                  ELSE Most(others - seen, others - launched - (conf.deducted - conf.reserve))

Peak == Most(conf.weights + Most(conf.loadPeak, conf.profilePeak),
             conf.weights + conf.kv + conf.graphs + conf.activation)

\* The checks are no stricter than they need be: on a quiet host a model whose peak
\* residency leaves the reserve free, with one byte for the strict comparison and the
\* rounding of the fraction, is never refused in any phase.
RoomyStartSucceeds ==
    (/\ conf.fixed /\ changes = 0 /\ 0 < conf.reserve
     /\ Peak + conf.reserve + conf.slack < conf.host - launched
     /\ Peak + conf.reserve < conf.cuda
     /\ conf.requested + conf.slack =< conf.host - launched
     /\ (Floor /= None => Floor >= 0))
    => pc \notin {"failed", "exhausted"}
=============================================================================
