--------------------------- MODULE KVBlockFences ---------------------------
(***************************************************************************)
(* When the scheduler may give KV blocks back to the pool while steps are  *)
(* in flight and a KV connector fills blocks on its own (scheduler.py with *)
(* defer_block_free set: overlapping batches and a consuming connector).   *)
(*                                                                         *)
(* A step in flight reads and writes the blocks its requests held when it  *)
(* was scheduled; an asynchronous load writes its request's blocks and is  *)
(* not ordered against any step.  Which requests a step takes, and which   *)
(* it preempts, is left open here: EngineScheduler has the policy.         *)
(***************************************************************************)
EXTENDS Naturals, Sequences, FiniteSets

CONSTANTS
    Req, Block,
    Batches,     \* max_concurrent_batches
    MaxSteps     \* bound: non-empty steps scheduled

ASSUME FenceAssumption == Batches \in Nat /\ MaxSteps \in Nat

VARIABLES
    status,    \* of each request; FINISHED ones wait for the connector
    own,       \* blocks allocated to the request, which its steps write
    shared,    \* prefix-cache blocks it holds a reference to
    lastSeq,   \* last_sched_seq
    sched,     \* sched_step_seq
    processed, \* processed_step_seq
    uses,      \* blocks the steps in flight read or write
    deferred,  \* deferred_frees: a queue of blocks behind a fence
    loads,     \* blocks the connector is writing for the request
    sends,     \* blocks the connector is reading for the finished request
    received,  \* finished_recving_kv_req_ids
    failed     \* failed_recving_kv_req_ids, with nothing valid loaded

steps == <<lastSeq, sched, processed, uses>>
connector == <<loads, sends, received, failed>>
vars == <<status, own, shared, deferred, steps, connector>>

Holds(r) == own[r] \cup shared[r]
Waits(i) == deferred[i].blocks
Held == (UNION {Holds(r) : r \in Req}) \cup (UNION {Waits(i) : i \in DOMAIN deferred})
Free == Block \ Held

\* What is being loaded enters the prefix cache when the load is done
\* (delay_cache_blocks); any other block may hold a prefix.
Loading(r) == status[r] = "LOADING" \/ loads[r] /= {}

\* Mutant: blocks are cached when they are allocated.
CachedEager == Block

Cached == Block \ UNION {own[r] : r \in {q \in Req : Loading(q)}}

Init ==
    /\ status = [r \in Req |-> "NEW"]
    /\ own = [r \in Req |-> {}] /\ shared = [r \in Req |-> {}]
    /\ lastSeq = [r \in Req |-> 0]
    /\ sched = 0 /\ processed = 0 /\ uses = {} /\ deferred = <<>>
    /\ loads = [r \in Req |-> {}] /\ sends = [r \in Req |-> {}]
    /\ received = {} /\ failed = {}

add_request(r) ==
    /\ status[r] = "NEW"
    /\ status' = [status EXCEPT ![r] = "WAITING"]
    /\ UNCHANGED <<own, shared, deferred, steps, connector>>

-----------------------------------------------------------------------------
(* Giving blocks back *)

\* Mutant: the fence is a step that may never be scheduled.
FenceTooHigh == sched + 1

Fence == sched

\* Mutant: a request whose last step is the one being processed counts as idle.
StepsDoneEarly(r) == lastSeq[r] =< processed + 1

StepsDone(r) == lastSeq[r] =< processed

\* _free_request_blocks: at once if no step in flight touches the request's
\* blocks, else behind a fence that all of them have to pass.
_free_request_blocks(r) ==
    /\ own' = [own EXCEPT ![r] = {}]
    /\ shared' = [shared EXCEPT ![r] = {}]
    /\ deferred' = IF StepsDone(r) \/ Holds(r) = {} THEN deferred
                   ELSE Append(deferred, [fence |-> Fence, blocks |-> Holds(r)])

\* _preempt_request, of a running request.
_preempt_request(r) ==
    /\ status[r] = "RUNNING"
    /\ _free_request_blocks(r)
    /\ status' = [status EXCEPT ![r] = "WAITING"]
    /\ UNCHANGED <<steps, connector>>

\* _free_request: the connector may keep the blocks to send them on.
_free_request(r) ==
    \/ /\ _free_request_blocks(r)
       /\ status' = [status EXCEPT ![r] = "FREED"]
       /\ UNCHANGED sends
    \/ /\ Holds(r) /= {}
       /\ status' = [status EXCEPT ![r] = "FINISHED"]
       /\ sends' = [sends EXCEPT ![r] = Holds(r)]
       /\ UNCHANGED <<own, shared, deferred>>

DelaysFree(r) == status[r] = "LOADING" /\ r \notin received

\* finish_requests (abort), or a stop found in update_from_output.  The blocks of
\* a request that is still loading are kept until the load ends.
finish_requests(r) ==
    /\ status[r] \in {"WAITING", "RUNNING", "LOADING"}
    /\ IF DelaysFree(r)
       THEN /\ status' = [status EXCEPT ![r] = "FINISHED"]
            /\ UNCHANGED <<own, shared, deferred, sends>>
       ELSE _free_request(r)
    /\ received' = received \ {r}
    /\ failed' = failed \ {r}
    /\ UNCHANGED <<steps, loads>>

-----------------------------------------------------------------------------
(* Steps *)

\* A request with a token to compute has a block to put it in; only one that
\* comes from the waiting queue without blocks looks into the prefix cache.
Allocates(r, new, hit) ==
    /\ status[r] \in {"WAITING", "RUNNING"}
    /\ new \subseteq Free /\ hit \subseteq Cached
    /\ Holds(r) \cup new /= {}
    /\ hit /= {} => status[r] = "WAITING" /\ Holds(r) = {}

\* schedule(): requests `batch' get `new' blocks each, and references to `hit'.
\* A partly filled block `cow' of the cache is first copied to a new block, and a
\* reference to it retained until the step has run.
schedule(batch, new, hit, cow) ==
    /\ batch /= {} /\ sched < MaxSteps /\ sched - processed < Batches
    /\ \A r \in batch : Allocates(r, new[r], hit[r])
    /\ \A r, q \in batch : r /= q => new[r] \cap new[q] = {}
    /\ \A r, q \in batch : new[r] \cap hit[q] = {}
    /\ cow \subseteq Cached /\ \A r \in batch : new[r] \cap cow = {}
    /\ cow /= {} => \E r \in batch : Holds(r) = {}
    /\ sched' = sched + 1
    /\ status' = [r \in Req |-> IF r \in batch THEN "RUNNING" ELSE status[r]]
    /\ lastSeq' = [r \in Req |-> IF r \in batch THEN sched + 1 ELSE lastSeq[r]]
    /\ own' = [r \in Req |-> IF r \in batch THEN own[r] \cup new[r] ELSE own[r]]
    /\ shared' = [r \in Req |-> IF r \in batch THEN shared[r] \cup hit[r] ELSE shared[r]]
    /\ uses' = uses
         \cup {[seq |-> sched + 1, req |-> r, block |-> b] : r \in batch, b \in cow}
         \cup UNION {{[seq |-> sched + 1, req |-> r, block |-> b] :
                        b \in Holds(r) \cup new[r] \cup hit[r]} : r \in batch}
    /\ deferred' = IF cow = {} THEN deferred
                   ELSE Append(deferred, [fence |-> sched + 1, blocks |-> cow])
    /\ UNCHANGED <<processed, connector>>

\* Mutant: a step is counted twice.
CompletedTwice == processed + 2

Completed == processed + 1

\* update_from_output for the oldest step: it has run, and the entries of the
\* queue whose fence is passed go back, up to the first that is not.
update_from_output ==
    /\ processed < sched
    /\ processed' = Completed
    /\ uses' = {u \in uses : u.seq /= Completed}
    /\ \E n \in 0 .. Len(deferred) :
        /\ \A i \in 1 .. n : deferred[i].fence =< Completed
        /\ n < Len(deferred) => deferred[n + 1].fence > Completed
        /\ deferred' = SubSeq(deferred, n + 1, Len(deferred))
    /\ UNCHANGED <<status, own, shared, lastSeq, sched, connector>>

-----------------------------------------------------------------------------
(* The connector *)

\* A waiting request's prefix is fetched: blocks are allocated for it, no step.
begin_load(r, new, hit) ==
    /\ status[r] = "WAITING" /\ Holds(r) = {}
    /\ new /= {} /\ new \subseteq Free /\ hit \subseteq Cached \ new
    /\ status' = [status EXCEPT ![r] = "LOADING"]
    /\ own' = [own EXCEPT ![r] = new]
    /\ shared' = [shared EXCEPT ![r] = hit]
    /\ loads' = [loads EXCEPT ![r] = new]
    /\ UNCHANGED <<deferred, steps, sends, received, failed>>

\* _handle_invalid_blocks: the connector reports that nothing of a load arrived.
\* (A load that fails half-way keeps its blocks, as one that succeeds does.)
_handle_invalid_blocks(r) ==
    /\ status[r] = "LOADING" /\ loads[r] /= {}
    /\ failed' = failed \cup {r}
    /\ UNCHANGED <<status, own, shared, deferred, steps, loads, sends, received>>

\* _update_from_kv_xfer_finished: the end of a load lets its request go on, or
\* frees the blocks of one that ended meanwhile.
finished_recving(r) ==
    /\ loads[r] /= {}
    /\ loads' = [loads EXCEPT ![r] = {}]
    /\ IF status[r] = "LOADING"
       THEN /\ received' = received \cup {r}
            /\ UNCHANGED <<status, own, shared, deferred>>
       ELSE /\ _free_request_blocks(r)
            /\ status' = [status EXCEPT ![r] = "FREED"]
            /\ UNCHANGED received
    /\ UNCHANGED <<steps, sends, failed>>

finished_sending(r) ==
    /\ sends[r] /= {}
    /\ sends' = [sends EXCEPT ![r] = {}]
    /\ _free_request_blocks(r)
    /\ status' = [status EXCEPT ![r] = "FREED"]
    /\ UNCHANGED <<steps, loads, received, failed>>

\* _try_promote_blocked_waiting_request: a failed load starts over without blocks.
_update_waiting_for_remote_kv(r) ==
    /\ status[r] = "LOADING" /\ r \in received
    /\ status' = [status EXCEPT ![r] = "WAITING"]
    /\ IF r \in failed
       THEN own' = [own EXCEPT ![r] = {}] /\ shared' = [shared EXCEPT ![r] = {}]
       ELSE UNCHANGED <<own, shared>>
    /\ received' = received \ {r}
    /\ failed' = failed \ {r}
    /\ UNCHANGED <<deferred, steps, loads, sends>>

Next ==
    \/ update_from_output
    \/ \E r \in Req :
        \/ add_request(r) \/ _preempt_request(r) \/ finish_requests(r)
        \/ _handle_invalid_blocks(r) \/ finished_recving(r) \/ finished_sending(r)
        \/ _update_waiting_for_remote_kv(r)
        \/ \E new, hit \in SUBSET Block : begin_load(r, new, hit)
    \/ \E batch \in SUBSET Req, cow \in SUBSET Block :
        \E new, hit \in [batch -> SUBSET Block] : schedule(batch, new, hit, cow)

Spec == Init /\ [][Next]_vars

\* Every step in flight ends and its output is processed.
FairSpec == Spec /\ WF_vars(update_from_output)

-----------------------------------------------------------------------------
\* Types, and steps are processed in the order they were scheduled in.
TypeOK ==
    /\ status \in [Req -> {"NEW", "WAITING", "RUNNING", "LOADING", "FINISHED", "FREED"}]
    /\ own \in [Req -> SUBSET Block] /\ shared \in [Req -> SUBSET Block]
    /\ lastSeq \in [Req -> Nat] /\ sched \in Nat /\ processed \in Nat /\ processed =< sched
    /\ uses \subseteq [seq : processed + 1 .. sched, req : Req, block : Block]
    /\ deferred \in Seq([fence : Nat, blocks : SUBSET Block])
    /\ loads \in [Req -> SUBSET Block] /\ sends \in [Req -> SUBSET Block]
    /\ received \subseteq Req /\ failed \subseteq Req

\* No block in the pool is touched by a step in flight or by a transfer: whoever
\* allocates it next has it alone.
NoFreeBlockInUse ==
    /\ \A u \in uses : u.block \notin Free
    /\ \A r \in Req : (loads[r] \cup sends[r]) \cap Free = {}

\* The blocks a load writes, that of an aborted request too, are touched by no
\* step in flight and held by nothing else: the load needs no ordering.
LoadsExclusive ==
    \A r \in Req :
        /\ \A u \in uses : u.block \notin loads[r]
        /\ \A q \in Req \ {r} : loads[r] \cap (Holds(q) \cup loads[q] \cup sends[q]) = {}
        /\ \A i \in DOMAIN deferred : loads[r] \cap Waits(i) = {}

\* Blocks behind a fence come back: no entry waits for a step nobody schedules.
DeferredReturned ==
    \A b \in Block : (\E i \in DOMAIN deferred : b \in Waits(i))
                     ~> (\A i \in DOMAIN deferred : b \notin Waits(i))
=============================================================================
