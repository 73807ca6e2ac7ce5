------------------------ MODULE UnifiedMemoryProofs ------------------------
(***************************************************************************)
(* Proofs about UnifiedMemory for every host, setting and model size: the  *)
(* reserve is kept, and a start with room for its peak is not refused.     *)
(***************************************************************************)
EXTENDS UnifiedMemory, TLAPS

Phases == {"init_device", "load", "loading", "profile", "profiling", "kv", "allocating",
           "graphs", "capturing", "serving", "failed", "exhausted"}

\* What a ceiling sampled while the rest of the host used x may not exceed.
Bound(x) == IF conf.floor THEN Most(conf.host - x - conf.reserve,
                                    conf.host - launched - conf.weaker - conf.deducted)
            ELSE conf.host - x - conf.reserve

\* The limit in force is one that the last sample allowed.
CapSound ==
    seen /= None => cap =< PoolCeiling /\ cap =< Bound(seen)

\* A KV cache of negative size is never allocated.
KVSound == pc \notin {"failed"} => kv >= 0

IInv == TypeOK /\ CapSound /\ KVSound

\* The numbers of a configuration.
LEMMA Numbers ==
    ASSUME NEW c \in Configs
    PROVE  /\ c.cuda \in Nat /\ c.host \in Nat /\ c.reserve \in Nat /\ c.deducted \in Nat
           /\ c.weaker \in Nat /\ c.slack \in Nat /\ c.requested \in Nat
           /\ c.weights \in Nat /\ c.loadPeak \in Nat /\ c.profilePeak \in Nat
           /\ c.kv \in Nat /\ c.graphs \in Nat /\ c.activation \in Nat
           /\ c.others \subseteq Nat /\ c.cuda =< c.host
           /\ c.floor \in BOOLEAN /\ c.fixed \in BOOLEAN
  BY MemoryAssumption

\* The variables are numbers.
LEMMA State ==
    ASSUME TypeOK
    PROVE  /\ conf \in Configs
           /\ others \in Nat /\ launched \in Nat
           /\ alloc \in Nat /\ reserved \in Nat /\ cap \in Nat
           /\ alloc =< reserved /\ reserved =< cap
           /\ snap \in Int /\ kv \in Int
           /\ seen \in Nat \cup {None} /\ None \notin Int
  BY Numbers, MemoryAssumption DEF TypeOK

\* A ceiling that is not refused holds the residency, and is one the sample allows.
LEMMA CeilingSound ==
    ASSUME TypeOK, NEW available \in Samples, NEW applied \in Applied(Requested(available)),
           ~Refuses(available, applied)
    PROVE  /\ applied \in Nat /\ reserved =< applied
           /\ applied =< PoolCeiling /\ applied =< Bound(others)
  <1> USE State, Numbers
  <1>1. available \in Int /\ available =< conf.host - others - reserved
    BY DEF Samples, Left
  <1>2. Baseline = reserved
    BY DEF Baseline, Most
  <1>3. PoolCeiling \in Int
    BY DEF PoolCeiling, Pool, Least
  <1>4. available > conf.reserve /\ ~(applied < Baseline)
    BY <1>1 DEF Refuses, Unsafe
  <1>5. conf.floor => /\ Floor = conf.host - launched - conf.weaker - conf.deducted
                      /\ Floor /= None /\ Floor \in Int
    BY DEF Floor
  <1>6. ~conf.floor => Floor = None
    BY DEF Floor
  <1>7. /\ Requested(available) \in Int /\ Requested(available) =< PoolCeiling
        /\ Requested(available) =< Bound(others)
    BY <1>1, <1>2, <1>3, <1>4, <1>5, <1>6 DEF Requested, Bound, Most, Least
  <1>8. applied \in Int /\ applied =< Requested(available)
    BY <1>7 DEF Applied
  <1>9. Bound(others) \in Int
    BY DEF Bound, Most
  <1> QED
    BY <1>2, <1>3, <1>4, <1>7, <1>8, <1>9

\* A refresh, whatever its caller makes of the ceiling, preserves the invariant.
LEMMA RefreshStep ==
    ASSUME IInv, pc' \in Phases,
           \/ pc' = "failed" /\ UNCHANGED <<cap, seen>>
           \/ \E available \in Samples : \E applied \in Applied(Requested(available)) :
                ~Refuses(available, applied) /\ cap' = applied /\ seen' = others,
           pc /= "failed",
           UNCHANGED <<conf, others, torch, launched, snap, kv, changes>>
    PROVE  IInv'
  <1> USE DEF torch
  <1>1. CASE pc' = "failed" /\ UNCHANGED <<cap, seen>>
    BY <1>1 DEF IInv, TypeOK, CapSound, KVSound, Phases, PoolCeiling, Pool, Bound
  <1>2. CASE \E available \in Samples : \E applied \in Applied(Requested(available)) :
               ~Refuses(available, applied) /\ cap' = applied /\ seen' = others
    <2>0. PICK available \in Samples : \E applied \in Applied(Requested(available)) :
            ~Refuses(available, applied) /\ cap' = applied /\ seen' = others
      BY <1>2
    <2>1. PICK applied \in Applied(Requested(available)) :
            ~Refuses(available, applied) /\ cap' = applied /\ seen' = others
      BY <2>0
    <2>2. /\ applied \in Nat /\ reserved =< applied
          /\ applied =< PoolCeiling /\ applied =< Bound(others)
      BY <2>1, CeilingSound DEF IInv
    <2>3. TypeOK'
      BY <2>1, <2>2 DEF IInv, TypeOK, Phases
    <2>4. CapSound'
      BY <2>1, <2>2 DEF CapSound, PoolCeiling, Pool, Bound
    <2>5. KVSound'
      BY DEF IInv, KVSound
    <2> QED
      BY <2>3, <2>4, <2>5 DEF IInv
  <1> QED
    BY <1>1, <1>2

\* An allocation under the limit preserves the invariant.
LEMMA AllocateStep ==
    ASSUME IInv, pc /= "failed", NEW keep \in Nat, NEW peak \in Nat, keep =< peak,
           NEW next \in Phases, Allocate(keep, peak, next), kv' = kv
    PROVE  IInv'
  <1> USE DEF torch
  <1>1. CASE UNCHANGED torch
    <2>1. pc' \in Phases /\ UNCHANGED <<conf, others, cap, seen, launched, snap, changes>>
      BY DEF Allocate, Phases
    <2> QED
      BY <1>1, <2>1 DEF IInv, TypeOK, CapSound, KVSound, Phases, PoolCeiling, Pool, Bound
  <1>2. CASE ~(alloc + peak > cap) /\ pc' = next /\ alloc' = alloc + keep
             /\ reserved' = Most(reserved, alloc + peak)
    <2>1. UNCHANGED <<conf, others, cap, seen, launched, snap, changes>>
      BY DEF Allocate
    <2>2. /\ alloc' \in Nat /\ reserved' \in Nat
          /\ alloc' =< reserved' /\ reserved' =< cap
      BY <1>2, State DEF IInv, Most
    <2>3. TypeOK'
      BY <1>2, <2>1, <2>2 DEF IInv, TypeOK, Phases
    <2>4. CapSound' /\ KVSound'
      BY <2>1 DEF IInv, CapSound, KVSound, PoolCeiling, Pool, Bound
    <2> QED
      BY <2>3, <2>4 DEF IInv
  <1> QED
    BY <1>1, <1>2 DEF Allocate

-----------------------------------------------------------------------------
\* The allocator starts empty and unlimited but for the device.
LEMMA InitIInv == Init => IInv
  <1> SUFFICES ASSUME Init PROVE IInv
    OBVIOUS
  <1>1. TypeOK
    BY Numbers, MemoryAssumption DEF Init, TypeOK
  <1>2. CapSound /\ KVSound
    BY Numbers DEF Init, CapSound, KVSound
  <1> QED
    BY <1>1, <1>2 DEF IInv

\* What a ceiling's action does, in the form that RefreshStep asks for.
LEMMA CeilingStep ==
    ASSUME IInv, LoadCeiling \/ ProfileCeiling \/ KVCeiling \/ GraphCeiling
    PROVE  IInv'
  <1>1. /\ pc' \in Phases /\ pc /= "failed"
        /\ UNCHANGED <<conf, others, torch, launched, snap, kv, changes>>
        /\ \/ pc' = "failed" /\ UNCHANGED <<cap, seen>>
           \/ \E available \in Samples : \E applied \in Applied(Requested(available)) :
                ~Refuses(available, applied) /\ cap' = applied /\ seen' = others
    <2>1. CASE LoadCeiling
      BY <2>1, Zenon DEF LoadCeiling, _refresh_unified_memory_limit, Phases
    <2>2. CASE ProfileCeiling
      BY <2>2, Zenon DEF ProfileCeiling, _refresh_unified_memory_limit, Phases
    <2>3. CASE KVCeiling
      BY <2>3, Zenon DEF KVCeiling, _refresh_unified_memory_limit, Phases
    <2>4. CASE GraphCeiling
      BY <2>4, Zenon DEF GraphCeiling, _refresh_unified_memory_limit, Phases
    <2> QED
      BY <2>1, <2>2, <2>3, <2>4
  <1> QED
    BY <1>1, RefreshStep

\* Each phase allocates below the limit and each refresh sets a sound one.
LEMMA NextIInv == IInv /\ [Next]_vars => IInv'
  <1> SUFFICES ASSUME IInv, [Next]_vars PROVE IInv'
    OBVIOUS
  <1>n. /\ conf \in Configs /\ conf.weights \in Nat /\ conf.loadPeak \in Nat
        /\ conf.profilePeak \in Nat /\ conf.graphs \in Nat /\ conf.activation \in Nat
        /\ conf.slack \in Nat /\ conf.requested \in Nat /\ conf.host \in Nat
    BY State, Numbers DEF IInv
  <1>1. CASE init_device
    <2>1. snap' \in Int
      BY <1>1, <1>n, State DEF IInv, init_device, Samples, Left
    <2> QED
      BY <1>1, <2>1 DEF init_device, torch, IInv, TypeOK, CapSound, KVSound, PoolCeiling, Pool, Bound
  <1>2. CASE LoadCeiling \/ ProfileCeiling \/ KVCeiling \/ GraphCeiling
    BY <1>2, CeilingStep
  <1>3. CASE load_model
    BY <1>3, <1>n, AllocateStep DEF load_model, Phases
  <1>4. CASE ProfileFixed
    BY <1>4, <1>n, AllocateStep DEF ProfileFixed, Phases
  <1>5. CASE ProfileMeasured
    <2>1. /\ pc' \in Phases /\ reserved' \in {reserved, alloc}
          /\ UNCHANGED <<conf, others, alloc, cap, seen, launched, snap, changes>>
      BY <1>5 DEF ProfileMeasured, Phases
    <2>2. kv' \in Int /\ (pc' /= "failed" => kv' >= 0)
      <3>1. CASE kv' = kv
        BY <1>5, <3>1, State DEF IInv, KVSound, ProfileMeasured
      <3>2. CASE \E slack \in 0 .. conf.slack :
                   LET free == conf.host - others - alloc - slack
                       consumed == snap - free
                   IN /\ kv' = conf.requested - consumed - conf.profilePeak
                      /\ pc' = IF consumed < 0 \/ kv' =< 0 THEN "failed" ELSE "kv"
        BY <3>2, <1>n, State DEF IInv
      <3> QED
        BY <1>5, <3>1, <3>2 DEF ProfileMeasured
    <2>3. TypeOK'
      BY <2>1, <2>2, State DEF IInv, TypeOK, Phases
    <2>4. CapSound' /\ KVSound'
      BY <2>1, <2>2 DEF IInv, CapSound, KVSound, PoolCeiling, Pool, Bound
    <2> QED
      BY <2>3, <2>4 DEF IInv
  <1>6. CASE initialize_kv_cache
    <2>1. pc /= "failed" /\ kv \in Nat
      BY <1>6, State DEF IInv, KVSound, initialize_kv_cache
    <2> QED
      BY <1>6, <2>1, AllocateStep DEF initialize_kv_cache, Phases
  <1>7. CASE capture_model
    BY <1>7, <1>n, AllocateStep DEF capture_model, Phases
  <1>8. CASE SkipCapture
    BY <1>8 DEF SkipCapture, torch, IInv, TypeOK, CapSound, KVSound, PoolCeiling, Pool, Bound
  <1>9. CASE execute_model
    BY <1>9, <1>n, AllocateStep DEF execute_model, Phases
  <1>10. CASE OthersChange
    BY <1>10, MemoryAssumption
    DEF OthersChange, torch, IInv, TypeOK, CapSound, KVSound, PoolCeiling, Pool, Bound
  <1>11. CASE UNCHANGED vars
    BY <1>11 DEF vars, torch, IInv, TypeOK, CapSound, KVSound, PoolCeiling, Pool, Bound
  <1> QED
    BY <1>1, <1>2, <1>3, <1>4, <1>5, <1>6, <1>7, <1>8, <1>9, <1>10, <1>11 DEF Next

\* So the invariant holds throughout.
LEMMA Invariance == Spec => []IInv
  BY InitIInv, NextIInv, PTL DEF Spec

\* In every state PyTorch has reserved what it has allocated and at most what the
\* ceiling in force allows, whatever the host, the settings and the model.
THEOREM TypesHold == Spec => []TypeOK
  <1>1. IInv => TypeOK
    BY DEF IInv
  <1> QED
    BY <1>1, Invariance, PTL

\* From the first ceiling on, _refresh_unified_memory_limit's caps leave the reserve to
\* the host up to what the rest of the host has taken since the worker's sample and,
\* with the launcher's floor, since the launcher's.
THEOREM ReserveHolds == Spec => []HostReserveKept
  <1>1. ASSUME IInv PROVE HostReserveKept
    <2> SUFFICES ASSUME seen /= None PROVE HostReserveKept
      BY DEF HostReserveKept
    <2> USE <1>1, State, Numbers DEF IInv
    <2>1. seen \in Nat /\ conf \in Configs
      OBVIOUS
    <2>2. cap =< PoolCeiling /\ cap =< Bound(seen)
      BY DEF CapSound
    <2>3. PoolCeiling \in Int /\ reserved =< PoolCeiling
      BY <2>2 DEF PoolCeiling, Pool, Least
    <2>4. CASE conf.floor
      <3>1. Floor /= None
        BY <2>4 DEF Floor
      <3> QED
        BY <2>1, <2>2, <2>3, <2>4, <3>1 DEF HostReserveKept, Bound, Left, Most
    <2>5. CASE ~conf.floor
      <3>1. Floor = None
        BY <2>5 DEF Floor
      <3> QED
        BY <2>1, <2>2, <2>3, <2>5, <3>1 DEF HostReserveKept, Bound, Left
    <2> QED
      BY <2>4, <2>5
  <1> QED
    BY <1>1, Invariance, PTL

-----------------------------------------------------------------------------
(* Starts with room *)

\* The premise of RoomyStartSucceeds.
Roomy ==
    /\ conf.fixed /\ changes = 0 /\ 0 < conf.reserve
    /\ Peak + conf.reserve + conf.slack < conf.host - launched
    /\ Peak + conf.reserve < conf.cuda
    /\ conf.requested + conf.slack =< conf.host - launched
    /\ (Floor /= None => Floor >= 0)

\* What is allocated in each phase of a start with a fixed KV cache.
Allocated ==
    /\ pc = "init_device" => reserved = 0
    /\ pc \in {"init_device", "load", "loading"} => alloc = 0
    /\ pc \in {"profile", "profiling", "kv", "allocating"} => alloc = conf.weights
    /\ pc \in {"graphs", "capturing"} => alloc = conf.weights + conf.kv
    /\ pc = "serving" => alloc =< conf.weights + conf.kv + conf.graphs

\* With room, residency and limit stay on either side of the peak.
RoomInv ==
    /\ changes = 0 => others = launched
    /\ conf.fixed => kv = conf.kv
    /\ Roomy => /\ pc \notin {"failed", "exhausted"}
                /\ reserved =< Peak /\ Peak =< cap
                /\ Allocated

\* The peak bounds the needs of every phase.
LEMMA PeakBounds ==
    ASSUME conf \in Configs
    PROVE  /\ Peak \in Nat
           /\ conf.weights + conf.loadPeak =< Peak
           /\ conf.weights + conf.profilePeak =< Peak
           /\ conf.weights + conf.kv + conf.graphs + conf.activation =< Peak
  BY Numbers DEF Peak, Most

\* A step leaves the premise as it was, or makes it false.
LEMMA RoomyBefore ==
    ASSUME IInv, conf' = conf, launched' = launched, changes' \in {changes, changes + 1}, Roomy'
    PROVE  Roomy /\ changes' = changes /\ Peak' = Peak
  <1>1. changes \in Nat
    BY DEF IInv, TypeOK
  <1>2. changes' = 0 /\ changes = 0
    BY <1>1 DEF Roomy
  <1>3. Peak' = Peak /\ Floor' = Floor
    BY DEF Peak, Floor
  <1> QED
    BY <1>2, <1>3 DEF Roomy

\* With room no ceiling is refused, and each leaves the peak below it.
LEMMA RoomyCeiling ==
    ASSUME IInv, RoomInv, Roomy, NEW available \in Samples,
           NEW applied \in Applied(Requested(available))
    PROVE  ~Refuses(available, applied) /\ Peak =< applied
  <1> USE State, Numbers, PeakBounds DEF IInv
  <1>1. /\ reserved =< Peak /\ others = launched
        /\ 0 < conf.reserve
        /\ Peak + conf.reserve + conf.slack < conf.host - launched
        /\ Peak + conf.reserve < conf.cuda
        /\ (Floor /= None => Floor >= 0)
    BY DEF RoomInv, Roomy
  <1>2. available \in Int /\ available >= conf.host - others - reserved - conf.slack
    BY DEF Samples, Left
  <1>3. Baseline = reserved
    <2>1. alloc \in Nat /\ reserved \in Nat /\ alloc =< reserved
      OBVIOUS
    <2> QED
      BY ONLY <2>1 DEF Baseline, Most
  <1>4. Pool = conf.cuda /\ PoolCeiling = conf.cuda - conf.reserve
    BY DEF PoolCeiling, Pool, Least
  <1>5. available > conf.reserve
    BY <1>1, <1>2
  <1>6. Floor = None \/ Floor \in Int
    BY DEF Floor
  <1>7. reserved + (available - conf.reserve) > Peak /\ PoolCeiling > Peak
    BY <1>1, <1>2, <1>4
  <1>8. Requested(available) \in Int /\ Requested(available) > Peak
    <2>1. Most(0, available - conf.reserve) = available - conf.reserve
      BY <1>2, <1>5 DEF Most
    <2>2. CASE Floor = None
      BY <1>2, <1>3, <1>4, <1>7, <2>1, <2>2 DEF Requested, Least
    <2>3. CASE Floor /= None
      BY <1>2, <1>3, <1>4, <1>6, <1>7, <2>1, <2>3 DEF Requested, Least, Most
    <2> QED
      BY <2>2, <2>3
  <1>9. applied \in Int /\ Peak =< applied
    BY <1>8 DEF Applied
  <1>10. ~Unsafe(available)
    BY <1>1, <1>2, <1>3, <1>4, <1>5, <1>6, <1>7, <1>8 DEF Unsafe
  <1> QED
    BY <1>1, <1>3, <1>9, <1>10 DEF Refuses

\* With room an allocation up to the peak succeeds.
LEMMA RoomyAllocate ==
    ASSUME IInv, RoomInv, Roomy, NEW keep \in Nat, NEW peak \in Nat,
           alloc + peak =< Peak, NEW next, Allocate(keep, peak, next)
    PROVE  /\ pc' = next /\ alloc' = alloc + keep /\ reserved' =< Peak
           /\ UNCHANGED <<conf, others, cap, launched, changes>>
  <1> USE State, Numbers, PeakBounds DEF IInv
  <1>1. /\ reserved =< Peak /\ Peak =< cap /\ others = launched
        /\ Peak + conf.reserve + conf.slack < conf.host - launched
    BY DEF RoomInv, Roomy
  <1>2. Most(reserved, alloc + peak) =< Peak
    BY <1>1 DEF Most
  <1>3. Most(reserved, alloc + peak) \in Int
    BY DEF Most
  <1>4. ~(alloc + peak > cap) /\ ~(Most(reserved, alloc + peak) > conf.host - others)
    BY <1>1, <1>2, <1>3
  <1> QED
    BY <1>2, <1>4 DEF Allocate

\* Nothing is allocated before the device is initialised.
LEMMA RoomInit == Init => RoomInv
  <1> SUFFICES ASSUME Init PROVE RoomInv
    OBVIOUS
  <1>1. conf \in Configs /\ others = launched /\ kv = conf.kv
    BY DEF Init
  <1>2. pc = "init_device" /\ alloc = 0 /\ reserved = 0 /\ cap = conf.cuda
    BY DEF Init
  <1>3. Allocated
    BY <1>2 DEF Allocated
  <1>4. Roomy => reserved =< Peak /\ Peak =< cap
    BY <1>1, <1>2, PeakBounds, Numbers DEF Roomy
  <1> QED
    BY <1>1, <1>2, <1>3, <1>4 DEF RoomInv

\* On a roomy host each refreshed ceiling is at least the peak that is to come.
LEMMA RoomStep == IInv /\ RoomInv /\ [Next]_vars => RoomInv'
  <1> SUFFICES ASSUME IInv, RoomInv, [Next]_vars PROVE RoomInv'
    OBVIOUS
  <1> USE DEF torch
  <1>c. conf' = conf /\ launched' = launched /\ changes' \in {changes, changes + 1}
    BY DEF Next, vars, init_device, LoadCeiling, load_model, ProfileCeiling, ProfileFixed,
           ProfileMeasured, KVCeiling, initialize_kv_cache, GraphCeiling, capture_model,
           SkipCapture, execute_model, OthersChange, _refresh_unified_memory_limit, Allocate
  <1>n. /\ conf \in Configs /\ changes \in Nat
        /\ conf.weights \in Nat /\ conf.loadPeak \in Nat /\ conf.profilePeak \in Nat
        /\ conf.kv \in Nat /\ conf.graphs \in Nat /\ conf.activation \in Nat
        /\ alloc \in Nat /\ reserved \in Nat
    BY State, Numbers DEF IInv, TypeOK
  <1>o. changes' = 0 => others' = launched'
    <2>1. CASE OthersChange
      BY <2>1, <1>n DEF OthersChange
    <2>2. CASE others' = others /\ changes' = changes
      BY <2>2, <1>c DEF RoomInv
    <2> QED
      BY <2>1, <2>2
      DEF Next, vars, init_device, LoadCeiling, load_model, ProfileCeiling, ProfileFixed,
          ProfileMeasured, KVCeiling, initialize_kv_cache, GraphCeiling, capture_model,
          SkipCapture, execute_model, _refresh_unified_memory_limit, Allocate
  <1>k. conf'.fixed => kv' = conf'.kv
    <2>1. conf.fixed => kv' = kv
      BY DEF Next, vars, init_device, LoadCeiling, load_model, ProfileCeiling, ProfileFixed,
             ProfileMeasured, KVCeiling, initialize_kv_cache, GraphCeiling, capture_model,
             SkipCapture, execute_model, OthersChange, _refresh_unified_memory_limit
    <2> QED
      BY <2>1, <1>c DEF RoomInv
  <1> SUFFICES ASSUME Roomy'
               PROVE  /\ pc' \notin {"failed", "exhausted"}
                      /\ reserved' =< Peak' /\ Peak' =< cap'
                      /\ Allocated'
    BY <1>o, <1>k DEF RoomInv
  <1>r. Roomy /\ changes' = changes /\ Peak' = Peak
    BY <1>c, RoomyBefore
  <1>i. /\ pc \notin {"failed", "exhausted"}
        /\ reserved =< Peak /\ Peak =< cap
        /\ Allocated /\ conf.fixed /\ kv = conf.kv /\ others = launched
    BY <1>r DEF RoomInv, Roomy
  <1>p. /\ Peak \in Nat
        /\ conf.weights + conf.loadPeak =< Peak
        /\ conf.weights + conf.profilePeak =< Peak
        /\ conf.weights + conf.kv + conf.graphs + conf.activation =< Peak
    BY <1>n, PeakBounds
  <1>1. CASE init_device
    <2>1. pc = "init_device" /\ UNCHANGED <<alloc, reserved, cap>>
      BY <1>1 DEF init_device
    <2>2. PICK available \in Samples :
            pc' = IF available < conf.requested THEN "failed" ELSE "load"
      BY <1>1 DEF init_device
    <2>3. available >= conf.requested /\ alloc = 0
      BY <1>i, <1>r, <1>n, <2>1, State, Numbers DEF IInv, Samples, Left, Roomy, Allocated
    <2>4. pc' = "load"
      BY <2>2, <2>3, <1>n, State, Numbers DEF IInv, Samples, Left
    <2> QED
      BY <1>i, <1>r, <2>1, <2>3, <2>4 DEF Allocated
  <1>2. CASE LoadCeiling \/ ProfileCeiling \/ KVCeiling \/ GraphCeiling
    <2>1. PICK available \in Samples : \E applied \in Applied(Requested(available)) :
            \/ Refuses(available, applied)
            \/ /\ cap' = applied
               /\ \/ pc = "load" /\ pc' = "loading"
                  \/ pc = "profile" /\ pc' = "profiling"
                  \/ pc = "kv" /\ pc' = IF KVFits(cap') THEN "allocating" ELSE "failed"
                  \/ pc = "graphs" /\ pc' = "capturing"
      <3>1. CASE LoadCeiling
        BY <3>1 DEF LoadCeiling, _refresh_unified_memory_limit
      <3>2. CASE ProfileCeiling
        BY <3>2 DEF ProfileCeiling, _refresh_unified_memory_limit
      <3>3. CASE KVCeiling
        BY <3>3 DEF KVCeiling, _refresh_unified_memory_limit
      <3>4. CASE GraphCeiling
        BY <3>4 DEF GraphCeiling, _refresh_unified_memory_limit
      <3> QED
        BY <1>2, <3>1, <3>2, <3>3, <3>4
    <2>2. PICK applied \in Applied(Requested(available)) :
            \/ Refuses(available, applied)
            \/ /\ cap' = applied
               /\ \/ pc = "load" /\ pc' = "loading"
                  \/ pc = "profile" /\ pc' = "profiling"
                  \/ pc = "kv" /\ pc' = IF KVFits(cap') THEN "allocating" ELSE "failed"
                  \/ pc = "graphs" /\ pc' = "capturing"
      BY <2>1
    <2>3. ~Refuses(available, applied) /\ Peak =< applied
      BY <1>r, RoomyCeiling
    <2>4. UNCHANGED <<alloc, reserved>>
      BY <1>2 DEF LoadCeiling, ProfileCeiling, KVCeiling, GraphCeiling,
                  _refresh_unified_memory_limit
    <2>5. applied \in Int
      <3>1. Requested(available) \in Int
        BY State, Numbers DEF IInv, Requested, Samples, Left, PoolCeiling, Pool, Least, Most,
                              Baseline, Floor
      <3> QED
        BY <3>1 DEF Applied
    <2>6. pc = "kv" /\ cap' = applied => KVFits(cap')
      BY <1>i, <1>n, <1>p, <2>3, <2>5 DEF KVFits, Allocated
    <2> QED
      BY <1>c, <1>i, <1>r, <2>2, <2>3, <2>4, <2>6 DEF Allocated
  <1>3. CASE load_model
    <2>1. /\ alloc = 0 /\ Allocate(conf.weights, conf.weights + conf.loadPeak, "profile")
      BY <1>3, <1>i DEF load_model, Allocated
    <2>2. pc' = "profile" /\ alloc' = conf.weights /\ reserved' =< Peak /\ cap' = cap
      BY <2>1, <1>n, <1>p, <1>r, RoomyAllocate
    <2> QED
      BY <1>c, <1>i, <1>r, <2>2 DEF Allocated
  <1>4. CASE ProfileFixed
    <2>1. /\ alloc = conf.weights /\ Allocate(0, conf.profilePeak, "kv")
      BY <1>4, <1>i DEF ProfileFixed, Allocated
    <2>2. pc' = "kv" /\ alloc' = conf.weights /\ reserved' =< Peak /\ cap' = cap
      BY <2>1, <1>n, <1>p, <1>r, RoomyAllocate
    <2> QED
      BY <1>c, <1>i, <1>r, <2>2 DEF Allocated
  <1>5. CASE ProfileMeasured
    BY <1>5, <1>i DEF ProfileMeasured
  <1>6. CASE initialize_kv_cache
    <2>1. /\ alloc = conf.weights /\ Allocate(conf.kv, conf.kv, "graphs")
      BY <1>6, <1>i DEF initialize_kv_cache, Allocated
    <2>2. pc' = "graphs" /\ alloc' = conf.weights + conf.kv /\ reserved' =< Peak /\ cap' = cap
      BY <2>1, <1>n, <1>p, <1>r, RoomyAllocate
    <2> QED
      BY <1>c, <1>i, <1>r, <2>2 DEF Allocated
  <1>7. CASE capture_model
    <2>1. /\ alloc = conf.weights + conf.kv /\ Allocate(conf.graphs, conf.graphs, "serving")
      BY <1>7, <1>i DEF capture_model, Allocated
    <2>2. /\ pc' = "serving" /\ alloc' = conf.weights + conf.kv + conf.graphs
          /\ reserved' =< Peak /\ cap' = cap
      BY <2>1, <1>n, <1>p, <1>r, RoomyAllocate
    <2> QED
      BY <1>c, <1>i, <1>n, <1>r, <2>2 DEF Allocated
  <1>8. CASE SkipCapture
    <2>1. pc = "graphs" /\ pc' = "serving" /\ UNCHANGED <<alloc, reserved, cap>>
      BY <1>8 DEF SkipCapture
    <2> QED
      BY <1>c, <1>i, <1>n, <1>r, <2>1 DEF Allocated
  <1>9. CASE execute_model
    <2>1. /\ alloc =< conf.weights + conf.kv + conf.graphs
          /\ Allocate(0, conf.activation, "serving")
      BY <1>9, <1>i DEF execute_model, Allocated
    <2>2. pc' = "serving" /\ alloc' = alloc /\ reserved' =< Peak /\ cap' = cap
      BY <2>1, <1>n, <1>p, <1>r, RoomyAllocate
    <2> QED
      BY <1>c, <1>i, <1>r, <2>1, <2>2 DEF Allocated
  <1>10. CASE OthersChange
    BY <1>10, <1>n, <1>r DEF OthersChange
  <1>11. CASE UNCHANGED vars
    BY <1>11, <1>i, <1>r DEF vars, Allocated
  <1> QED
    BY <1>1, <1>2, <1>3, <1>4, <1>5, <1>6, <1>7, <1>8, <1>9, <1>10, <1>11 DEF Next

\* On a quiet host no phase refuses a model whose peak leaves the reserve free, for
\* every host, reserve, floor, rounding and error of the samples up to the slack.
THEOREM RoomyStarts == Spec => []RoomyStartSucceeds
  <1>1. Init => IInv /\ RoomInv
    BY InitIInv, RoomInit
  <1>2. IInv /\ RoomInv /\ [Next]_vars => (IInv /\ RoomInv)'
    BY NextIInv, RoomStep
  <1>3. RoomInv => RoomyStartSucceeds
    BY DEF RoomInv, Roomy, RoomyStartSucceeds
  <1> QED
    BY <1>1, <1>2, <1>3, PTL DEF Spec
=============================================================================
