-------------------------- MODULE EngineScheduler --------------------------
(***************************************************************************)
(* The engine's request scheduler (v1/core/sched/scheduler.py): schedule() *)
(* builds a step from the running and the waiting requests, up to          *)
(* conf.batches steps are in flight at once (async scheduling), and        *)
(* update_from_output() applies the result of the oldest one.  In between, *)
(* requests arrive, are aborted, preempted, paused and reset.              *)
(*                                                                         *)
(* schedule() runs in one thread and nothing interrupts it; its two loops  *)
(* are unfolded into one action per iteration (`cur' holds the locals) and *)
(* every other action waits for it to return.  A token is represented by   *)
(* the position it was sampled for, so `out' is the answer as the client   *)
(* receives it.                                                            *)
(***************************************************************************)
EXTENDS Integers, Sequences, FiniteSets, SequencesExt, FiniteSetsExt

CONSTANTS
    Configs,      \* the configurations a run starts the scheduler with
    MaxRequests   \* bound: requests that arrive, in any configuration

Pauses == {"UNPAUSED", "PAUSED_NEW", "PAUSED_ALL"}

ASSUME BoundsAssumption ==
    /\ MaxRequests \in Nat
    /\ \A c \in Configs : c.requests =< MaxRequests

\* The attributes are numbers and switches; the front end (not part of the
\* repository) admits no empty prompt and none that leaves no room for an answer.
ASSUME ConfigAssumption ==
    \A c \in Configs :
        /\ {c.maxSeqs, c.batchTokens, c.modelLen, c.blocks, c.spec, c.longThreshold,
            c.decodeBudget, c.idleBudget, c.maxLong, c.batches, c.requests} \subseteq Nat
        /\ {c.maxTokens, c.blockSize} \subseteq Nat \ {0}
        /\ {c.padding, c.decodeAware} \subseteq BOOLEAN
        /\ c.throttles \subseteq BOOLEAN /\ c.resumable \subseteq BOOLEAN
        /\ c.pauses \subseteq Pauses
        /\ c.prompts \subseteq 1 .. c.modelLen - 1
        /\ c.cached \subseteq Nat

VARIABLES
    conf,      \* attributes __init__ copies from the configuration, never changed
    req,       \* the requests, by arrival; a finished one keeps its record
    running, waiting, skipped,   \* queues of request ids
    held,      \* num_waiting_for_streaming_input
    last,      \* _long_prefill_last_scheduled, as ranks; 0 is "absent"
    pause,     \* _pause_state
    saturated, \* prefill_capacity_bound
    inflight,  \* the steps given to the model runner and not yet processed
    cur,       \* the locals of the schedule() call in progress
    chunks, disturb   \* bounds: session inputs; aborts, resets and pauses so far

queues == <<running, waiting, skipped, held>>
env == <<chunks, disturb>>
vars == <<conf, req, queues, last, pause, saturated, inflight, cur, env>>

Idle == [pc |-> "idle"]
Ids == 1 .. Len(req)
Least(a, b) == IF a < b THEN a ELSE b
Most(a, b) == IF a < b THEN b ELSE a
Total(f, S) == MapThenSumSet(LAMBDA x : f[x], S)

\* A queue without some requests.
Without(q, ids) ==
    LET rest[i \in 0 .. Len(q)] ==
            IF i = 0 THEN <<>>
            ELSE IF q[i] \in ids THEN rest[i - 1] ELSE Append(rest[i - 1], q[i])
    IN rest[Len(q)]

num_tokens(q) == q.prompt + Len(q.out)
is_finished(q) == q.status = "FINISHED"
Live == {id \in Ids : ~is_finished(req[id])}

(***************************************************************************)
(* KVCacheManager (not part of the repository): a request owns whole       *)
(* blocks for its computed, new and lookahead tokens; allocate_slots fails *)
(* when the pool has too few.                                              *)
(***************************************************************************)
Blocks(tokens) == (tokens + conf.blockSize - 1) \div conf.blockSize
SlotBlocks(computed, n) == Blocks(Least(computed + n + conf.spec, conf.modelLen))
FreeBlocks == conf.blocks - Total([id \in Ids |-> req[id].blocks], Ids)

\* Mutant: one block too many is promised.
AllocateOptimistic(q, computed, n) ==
    SlotBlocks(computed, n) - q.blocks =< FreeBlocks + 1

allocate_slots(q, computed, n) ==
    SlotBlocks(computed, n) - q.blocks =< FreeBlocks

-----------------------------------------------------------------------------
(* Decode-aware prefill: which long prefills may run in this step *)

_is_long_prefill_request(q) ==
    /\ q.prompt > conf.longThreshold
    /\ \/ q.status = "RUNNING" /\ q.chunk
       \/ q.status \in {"WAITING", "PREEMPTED"}

\* by_age(): the least recently scheduled first, ties in order of arrival.
Older(a, b) == last[a] < last[b] \/ (last[a] = last[b] /\ req[a].arrival < req[b].arrival)
Oldest(ids, n) == {a \in ids : Cardinality({b \in ids : Older(b, a)}) < n}

_select_long_prefill_request_ids ==
    LET long == {id \in Live : _is_long_prefill_request(req[id])}
        inRunning == long \cap Range(running)
        inWaiting == (long \cap (Range(waiting) \cup Range(skipped))) \ inRunning
        admittable == Most(0, conf.maxSeqs - Len(running))
    IN IF conf.decodeAware
       THEN Oldest(inRunning \cup Oldest(inWaiting, admittable), conf.maxLong)
       ELSE {}

\* Only the order of the recorded steps is ever used: keep their ranks, this
\* step's (Now) being the largest, and forget the requests that are gone.
Now == MaxRequests + 1
Rank(f) ==
    [id \in DOMAIN f |->
        IF id \notin Live THEN 0
        ELSE Cardinality({f[x] : x \in {y \in Live : f[y] > 0 /\ f[y] =< f[id]}})]

\* Mutant: a turn that produced no work is not charged.
DebitNothing(f) == f

_debit_unused_long_prefill_turns(f) ==
    IF ~conf.decodeAware \/ cur.defer \/ pause = "PAUSED_ALL" THEN f
    ELSE [id \in DOMAIN f |->
            IF id \in cur.selected \ DOMAIN cur.step THEN Now ELSE f[id]]

-----------------------------------------------------------------------------
(* Requests from outside *)

End == 0   \* the sentinel of a session's inputs

\* arrival_time, of requests and of session inputs.
Arrives == Len(req) + chunks + 1

NewRequest(prompt, resumable) ==
    [status |-> "WAITING", prompt |-> prompt, arrival |-> Arrives, out |-> <<>>,
     resumable |-> resumable, streaming |-> <<>>, computed |-> 0, placeholders |-> 0,
     inflight |-> 0, stale |-> 0, drop |-> FALSE, chunk |-> FALSE, spec |-> 0,
     blocks |-> 0, evicted |-> FALSE, pos |-> prompt, stalePos |-> prompt]

add_request ==
    /\ cur = Idle
    /\ Len(req) < conf.requests
    /\ \E prompt \in conf.prompts, resumable \in conf.resumable :
          req' = Append(req, NewRequest(prompt, resumable))
    /\ waiting' = Append(waiting, Len(req) + 1)
    /\ last' = Append(last, 0)
    /\ UNCHANGED <<conf, running, skipped, held, pause, saturated, inflight, cur, env>>

\* _update_request_as_session: the computed tokens become the prompt of the next
\* chunk; the last sampled one is not computed and is discarded.
_update_request_as_session(q, arrival) ==
    LET prompt == Least(num_tokens(q), q.computed) + 1
    IN [q EXCEPT !.prompt = prompt, !.out = <<>>, !.arrival = arrival, !.status = "WAITING"]

\* _free_request: the blocks go back and the request leaves self.requests.
_free_request(q) ==
    [q EXCEPT !.status = "FINISHED", !.blocks = 0, !.computed = 0, !.placeholders = 0,
              !.inflight = 0, !.stale = 0, !.drop = FALSE, !.chunk = FALSE,
              !.spec = 0, !.streaming = <<>>, !.evicted = FALSE, !.pos = 0, !.stalePos = 0]

\* finish_requests for one id: out of its queue, then freed.
Finish(id) ==
    /\ running' = Without(running, {id})
    /\ waiting' = Without(waiting, {id})
    /\ skipped' = Without(skipped, {id})
    /\ held' = IF req[id].status = "WAITING_FOR_STREAMING_REQ" THEN held - 1 ELSE held
    /\ req' = [req EXCEPT ![id] = _free_request(@)]

finish_requests ==
    /\ cur = Idle
    /\ disturb < conf.disturb
    /\ disturb' = disturb + 1
    /\ \E id \in Live : Finish(id)
    /\ UNCHANGED <<conf, last, pause, saturated, inflight, cur, chunks>>

\* add_request for the id of an open session: the next input chunk, by its arrival,
\* or the end.
add_session_input ==
    /\ cur = Idle
    /\ chunks < conf.chunks
    /\ chunks' = chunks + 1
    /\ \E id \in Live, input \in {Arrives, End} :
        /\ req[id].resumable
        /\ \/ /\ req[id].status /= "WAITING_FOR_STREAMING_REQ"
              /\ req' = [req EXCEPT ![id].streaming = Append(@, input)]
              /\ UNCHANGED queues
           \/ /\ req[id].status = "WAITING_FOR_STREAMING_REQ" /\ input /= End
              /\ req' = [req EXCEPT ![id] = _update_request_as_session(@, input)]
              /\ held' = held - 1
              /\ UNCHANGED <<running, waiting, skipped>>
           \/ /\ req[id].status = "WAITING_FOR_STREAMING_REQ" /\ input = End
              /\ Finish(id)
    /\ UNCHANGED <<conf, last, pause, saturated, inflight, cur, disturb>>

set_pause_state ==
    /\ cur = Idle
    /\ disturb < conf.disturb
    /\ disturb' = disturb + 1
    /\ pause' \in conf.pauses \ {pause}
    /\ UNCHANGED <<conf, req, queues, last, saturated, inflight, cur, chunks>>

\* Mutant: the stale share is added to what is still undrained.
PreemptAccumulating(q, drop) ==
    [q EXCEPT !.status = "PREEMPTED", !.blocks = 0, !.computed = 0, !.spec = 0,
              !.drop = drop \/ (q.drop /\ q.stale > 0),
              !.stale = @ + q.inflight, !.placeholders = 0, !.stalePos = q.pos]

\* _preempt_request, the queue aside: everything in flight becomes stale.  (pos
\* and stalePos are history: how far the model runner has sampled since the
\* request was last admitted, and in the admission before that.)
_preempt_request(q, drop) ==
    [q EXCEPT !.status = "PREEMPTED", !.blocks = 0, !.computed = 0, !.spec = 0,
              !.drop = drop \/ (q.drop /\ q.stale > 0),
              !.stale = q.inflight, !.placeholders = 0, !.stalePos = q.pos]

\* History: the shares of these requests in flight predate their preemption.
Outdate(ids) ==
    [i \in DOMAIN inflight |->
        [id \in DOMAIN inflight[i] |->
            IF id \in ids THEN [inflight[i][id] EXCEPT !.old = TRUE] ELSE inflight[i][id]]]

\* All running requests, last first, so that they keep their order.
reset_prefix_cache ==
    /\ cur = Idle
    /\ conf.resets /\ running /= <<>>
    /\ disturb < conf.disturb
    /\ disturb' = disturb + 1
    /\ req' = [id \in Ids |-> IF id \in Range(running) THEN _preempt_request(req[id], TRUE)
                              ELSE req[id]]
    /\ waiting' = running \o waiting
    /\ running' = <<>>
    /\ inflight' = Outdate(Range(running))
    /\ UNCHANGED <<conf, skipped, held, last, pause, saturated, cur, chunks>>

-----------------------------------------------------------------------------
(* schedule() *)

\* What a step asks of the model runner for one request: n tokens, of which
\* `drafts' are speculative.  The rest is history: whether the request samples
\* at the end of it, was still catching up with its own tokens, and whether it
\* was preempted since.
Share(q, n, drafts, computed) ==
    [n |-> n, drafts |-> drafts, old |-> FALSE,
     samples |-> computed + n >= num_tokens(q) + q.placeholders,
     behind |-> num_tokens(q) + q.placeholders - computed > 1]

BeginSchedule ==
    /\ cur = Idle
    /\ Live /= {}
    /\ Len(inflight) < conf.batches
    /\ \E throttle_prefills \in conf.throttles :
        LET decoding == \E id \in Range(running) : ~req[id].chunk
            budget == IF pause = "PAUSED_ALL" THEN 0 ELSE conf.batchTokens
        IN cur' = [pc |-> "running", index |-> 1, budget |-> budget,
                   defer |-> throttle_prefills /\ ~saturated /\ decoding,
                   decoding |-> decoding,
                   prefill |-> IF conf.decodeAware
                               THEN Least(IF decoding THEN conf.decodeBudget
                                          ELSE conf.idleBudget, conf.batchTokens)
                               ELSE budget,
                   selected |-> _select_long_prefill_request_ids,
                   prefilling |-> FALSE, preempted |-> FALSE, ran |-> FALSE, passed |-> <<>>,
                   step |-> <<>>, marks |-> {}]
    /\ UNCHANGED <<conf, req, queues, last, pause, saturated, inflight, env>>

\* Tokens the running request q may be given in this step.
RunningTokens(q) ==
    LET prefill == conf.decodeAware /\ q.chunk
        wanted == num_tokens(q) + q.spec + q.placeholders - q.computed
        capped == IF ~prefill /\ 0 < conf.longThreshold THEN Least(wanted, conf.longThreshold)
                  ELSE wanted
        granted == Least(capped, cur.budget)
        shared == IF prefill THEN Least(granted, cur.prefill) ELSE granted
    IN Least(shared, conf.modelLen - q.computed - 1)

\* A running request the loop passes over.
SkipsRunning(id) ==
    LET q == req[id]
    IN \/ q.placeholders > 0 /\ q.computed + 2 - q.placeholders >= q.prompt + conf.maxTokens
       \/ cur.defer /\ q.chunk
       \/ conf.decodeAware /\ _is_long_prefill_request(q) /\ id \notin cur.selected
       \/ conf.decodeAware /\ q.chunk /\ cur.prefill =< 0
       \/ RunningTokens(q) = 0

ScheduleRunning ==
    /\ cur.pc = "running"
    /\ cur.index =< Len(running) /\ cur.budget > 0
    /\ LET id == running[cur.index]
           q == req[id]
           n == RunningTokens(q)
           drafts == Least(q.spec, Most(0, n + q.computed - num_tokens(q) - q.placeholders))
           prefill == conf.decodeAware /\ q.chunk
       IN \/ /\ SkipsRunning(id)
             /\ cur' = [cur EXCEPT !.index = @ + 1]
             /\ UNCHANGED req
          \/ /\ ~SkipsRunning(id)
             /\ allocate_slots(q, q.computed, n)
             /\ req' = [req EXCEPT ![id].blocks = Most(@, SlotBlocks(q.computed, n)),
                                   ![id].spec = 0]
             /\ cur' = [cur EXCEPT !.index = @ + 1, !.budget = @ - n,
                                   !.prefill = IF prefill THEN @ - n ELSE @,
                                   !.prefilling = @ \/ q.chunk,
                                   !.marks = IF prefill /\ _is_long_prefill_request(q)
                                             THEN @ \cup {id} ELSE @,
                                   !.step = [x \in DOMAIN @ \cup {id} |->
                                               IF x = id THEN Share(q, n, drafts, q.computed)
                                               ELSE @[x]]]
    /\ UNCHANGED <<conf, queues, last, pause, saturated, inflight, env>>

\* No room: the last running request gives its blocks up, until there is room or
\* the request itself was the last.
PreemptRunning ==
    /\ cur.pc = "running"
    /\ cur.index =< Len(running) /\ cur.budget > 0
    /\ LET id == running[cur.index]
           victim == Last(running)
       IN /\ ~SkipsRunning(id)
          /\ ~allocate_slots(req[id], req[id].computed, RunningTokens(req[id]))
          /\ req' = [req EXCEPT ![victim] = _preempt_request(@, FALSE)]
          /\ inflight' = Outdate({victim})
          /\ running' = Front(running)
          /\ waiting' = <<victim>> \o waiting
          /\ cur' = [cur EXCEPT !.preempted = TRUE,
                                !.pc = IF victim = id THEN "return" ELSE @]
    /\ UNCHANGED <<conf, skipped, held, last, pause, saturated, env>>

\* The running loop is over; the waiting loop runs unless something was preempted.
EndRunning ==
    /\ cur.pc = "running"
    /\ cur.index > Len(running) \/ cur.budget = 0
    /\ cur' = [cur EXCEPT !.pc = IF ~cur.preempted /\ pause = "UNPAUSED" THEN "waiting"
                                 ELSE "return",
                          !.ran = DOMAIN cur.step /= {}]
    /\ UNCHANGED <<conf, req, queues, last, pause, saturated, inflight, env>>

\* _select_waiting_queue_for_scheduling (FCFS): the skipped requests come first.
Candidate == IF skipped /= <<>> THEN Head(skipped) ELSE Head(waiting)
PopCandidate ==
    IF skipped /= <<>> THEN skipped' = Tail(skipped) /\ UNCHANGED waiting
    ELSE waiting' = Tail(waiting) /\ UNCHANGED skipped

WaitingLoop ==
    /\ cur.pc = "waiting"
    /\ waiting /= <<>> \/ skipped /= <<>>
    /\ cur.budget > 0
    /\ Len(running) + held < conf.maxSeqs

\* Mutant: a preempted request resumes while its output is in flight.
PassSessionsOnly(q) == q.status = "WAITING_FOR_STREAMING_REQ"

\* A session without input, or a request whose deliverable output is in flight.
MustPass(q) ==
    \/ q.status = "WAITING_FOR_STREAMING_REQ"
    \/ q.stale > 0 /\ ~q.drop

PassWaiting ==
    /\ WaitingLoop
    /\ MustPass(req[Candidate])
    /\ PopCandidate
    /\ cur' = [cur EXCEPT !.passed = Append(@, Candidate)]
    /\ UNCHANGED <<conf, req, running, held, last, pause, saturated, inflight, env>>

\* A new decode is padded to the uniform width of a speculative step.
Pads(q, computed) ==
    /\ conf.spec > 0 /\ conf.padding
    /\ num_tokens(q) - computed = 1
    /\ cur.ran /\ ~cur.prefilling

\* Mutant: the waiting loop ignores what is left of the prefill budget.
PrefillUncapped(n) == n

PrefillCapped(n) == IF conf.decodeAware THEN Least(n, cur.prefill) ELSE n

\* The tokens the waiting request q gets with `computed' of them cached; 0 when
\* the loop stops at it.
WaitingTokens(q, computed) ==
    LET missing == num_tokens(q) - computed
        padded == IF Pads(q, computed) THEN 1 + conf.spec ELSE missing
        capped == IF ~conf.decodeAware /\ 0 < conf.longThreshold
                  THEN Least(padded, conf.longThreshold) ELSE padded
        granted == Least(capped, cur.budget)
    IN IF \/ cur.defer /\ computed < num_tokens(q) - 1
          \/ Pads(q, computed) /\ (padded > cur.budget \/ computed + padded > conf.modelLen)
          \/ conf.decodeAware /\ cur.prefill =< 0
       THEN 0
       ELSE PrefillCapped(granted)

\* Tokens found in the prefix cache: whole blocks, never the last token.
CachedTokens(q) ==
    IF q.computed > 0 THEN {q.computed}
    ELSE {t \in {conf.blockSize * b : b \in conf.cached} : t < num_tokens(q)}

AdmitWaiting ==
    /\ WaitingLoop
    /\ LET id == Candidate
           q == req[id]
       IN /\ ~MustPass(q)
          /\ \E computed \in CachedTokens(q) :
              LET n == WaitingTokens(q, computed)
                  drafts == IF Pads(q, computed) THEN conf.spec ELSE 0
              IN \/ /\ n = 0 \/ ~allocate_slots(q, computed, n)
                    /\ cur' = [cur EXCEPT !.pc = "waited"]
                    /\ UNCHANGED <<req, running, waiting, skipped>>
                 \/ /\ n > 0 /\ allocate_slots(q, computed, n)
                    /\ PopCandidate
                    /\ running' = Append(running, id)
                    /\ req' = [req EXCEPT ![id] =
                          [q EXCEPT !.status = "RUNNING", !.computed = computed,
                                    !.blocks = Most(@, SlotBlocks(computed, n)),
                                    !.pos = num_tokens(q), !.evicted = FALSE]]
                    /\ cur' = [cur EXCEPT !.budget = @ - n,
                          !.prefill = IF conf.decodeAware THEN @ - n ELSE @,
                          !.marks = IF conf.decodeAware /\ _is_long_prefill_request(q)
                                    THEN @ \cup {id} ELSE @,
                          !.step = [x \in DOMAIN @ \cup {id} |->
                                      IF x = id THEN Share(q, n, drafts, computed) ELSE @[x]]]
    /\ UNCHANGED <<conf, held, last, pause, saturated, inflight, env>>

EndWaiting ==
    /\ cur.pc = "waiting"
    /\ ~WaitingLoop
    /\ cur' = [cur EXCEPT !.pc = "waited"]
    /\ UNCHANGED <<conf, req, queues, last, pause, saturated, inflight, env>>

\* Mutant: the requests passed over are not put back.
PassedForgotten == skipped

PassedFirst == cur.passed \o skipped

\* The requests passed over go back ahead of the older skipped ones.
RequeuePassed ==
    /\ cur.pc = "waited"
    /\ skipped' = PassedFirst
    /\ saturated' = IF cur.defer THEN saturated ELSE waiting /= <<>>
    /\ cur' = [cur EXCEPT !.pc = "return"]
    /\ UNCHANGED <<conf, req, running, waiting, held, last, pause, inflight, env>>

\* _update_after_schedule for one request, with what AsyncScheduler (not part of
\* the repository) adds: placeholders for the tokens to come, and for the drafts
\* of the next step.
_update_after_schedule(q, share) ==
    LET computed == q.computed + share.n
        chunk == computed < num_tokens(q) + q.placeholders
    IN [q EXCEPT !.computed = computed, !.inflight = @ + share.n, !.chunk = chunk,
                 !.placeholders = IF chunk THEN @ ELSE @ + 1 + share.drafts,
                 !.spec = IF chunk THEN @ ELSE conf.spec]

ReturnStep ==
    /\ cur.pc = "return"
    /\ req' = [id \in Ids |-> IF id \in DOMAIN cur.step
                              THEN _update_after_schedule(req[id], cur.step[id])
                              ELSE req[id]]
    /\ last' = Rank(_debit_unused_long_prefill_turns(
                       [id \in Ids |-> IF id \in cur.marks THEN Now ELSE last[id]]))
    /\ inflight' = IF DOMAIN cur.step = {} THEN inflight ELSE Append(inflight, cur.step)
    /\ cur' = Idle
    /\ UNCHANGED <<conf, queues, pause, saturated, env>>

-----------------------------------------------------------------------------
(* update_from_output() *)

\* The tokens appended of the k a request's share produced: up to the first that
\* ends the answer (check_stop).
Kept(q, k, eos) ==
    IF eos THEN Least(k, 1)
    ELSE Least(k, Most(1, Least(conf.maxTokens - Len(q.out), conf.modelLen - num_tokens(q))))

Stops(q, k, eos) ==
    /\ k > 0
    /\ \/ eos
       \/ Len(q.out) + Kept(q, k, eos) >= conf.maxTokens
       \/ num_tokens(q) + Kept(q, k, eos) >= conf.modelLen

\* The share leaves the pipeline; a stale share is drained in lockstep.
Drained(q, share, k) ==
    [q EXCEPT !.inflight = @ - share.n,
              !.stale = IF @ > 0 THEN @ - share.n ELSE @,
              !.pos = IF share.old THEN @ ELSE @ + k,
              !.stalePos = IF share.old THEN @ + k ELSE @]

\* Mutant: the sampled token is taken for an accepted draft.
RejectedOneShort(share, k) == IF share.drafts > 0 /\ k > 0 THEN share.drafts - k ELSE 0

Rejected(share, k) == IF share.drafts > 0 /\ k > 0 THEN share.drafts - (k - 1) ELSE 0

\* Rejected drafts are rolled back and the tokens appended; a stale output must
\* not touch the counters the preemption has reset.
Delivered(q, share, k, eos) ==
    LET stale == q.stale > 0
        rejected == Rejected(share, k)
        kept == Kept(q, k, eos)
        base == IF share.old THEN q.stalePos ELSE q.pos
    IN [Drained(q, share, k) EXCEPT
          !.computed = IF ~stale /\ @ > 0 THEN @ - rejected ELSE @,
          !.placeholders = IF stale THEN @
                           ELSE (IF @ > 0 THEN @ - rejected ELSE @) - kept,
          !.out = @ \o [i \in 1 .. kept |-> base + i]]

\* _handle_stopped_request: a session goes on with its next chunk or waits for it.
_handle_stopped_request(q) ==
    IF ~q.resumable \/ (q.streaming /= <<>> /\ Head(q.streaming) = End) THEN _free_request(q)
    ELSE IF q.streaming /= <<>>
    THEN [_update_request_as_session(q, Head(q.streaming)) EXCEPT !.streaming = Tail(@)]
    ELSE [q EXCEPT !.status = "WAITING_FOR_STREAMING_REQ"]

\* The output is for nobody: the request finished, its stale share is to be
\* dropped, or the model runner had already evicted it.
Ignored(q, absent) == is_finished(q) \/ (q.stale > 0 /\ q.drop) \/ absent

update_from_output ==
    /\ cur = Idle
    /\ inflight /= <<>>
    /\ LET step == Head(inflight)
           ids == DOMAIN step
           evictable == {id \in ids : req[id].stale > 0 /\ ~req[id].drop}
       IN \E sampled \in [ids -> 0 .. 1 + conf.spec], eos \in SUBSET ids,
             absent \in SUBSET evictable :
           LET stopped == {id \in ids : /\ ~Ignored(req[id], id \in absent)
                                        /\ Stops(req[id], sampled[id], id \in eos)}
               After(id) ==
                   LET q == req[id]
                   IN IF is_finished(q) THEN q
                      ELSE IF id \in absent
                      THEN [Drained(q, step[id], sampled[id]) EXCEPT !.evicted = TRUE]
                      ELSE IF Ignored(q, FALSE) THEN Drained(q, step[id], sampled[id])
                      ELSE IF id \in stopped
                      THEN _handle_stopped_request(Delivered(q, step[id], sampled[id], id \in eos))
                      ELSE Delivered(q, step[id], sampled[id], id \in eos)
               resuming == {id \in stopped : After(id).status = "WAITING"}
               idling == {id \in stopped : After(id).status = "WAITING_FOR_STREAMING_REQ"}
               stopped_running == {id \in stopped : req[id].status = "RUNNING"}
               stopped_preempted == stopped \ stopped_running
           IN /\ \A id \in ids : IF step[id].samples THEN sampled[id] \in 1 .. 1 + step[id].drafts
                                 ELSE sampled[id] = 0
              /\ eos \subseteq conf.eos /\ \A id \in eos : step[id].samples
              /\ {id \in evictable : req[id].evicted} \subseteq absent
              /\ conf.evicts \/ absent = {}
              /\ req' = [id \in Ids |-> IF id \in ids THEN After(id) ELSE req[id]]
              /\ running' = Without(running, stopped_running)
              /\ waiting' = Without(waiting \o SetToSeq(resuming), stopped_preempted)
              /\ skipped' = Without(skipped \o SetToSeq(idling), stopped_preempted)
              /\ held' = held + Cardinality(idling)
    /\ inflight' = Tail(inflight)
    /\ UNCHANGED <<conf, last, pause, saturated, cur, env>>

-----------------------------------------------------------------------------
Init ==
    /\ conf \in Configs
    /\ req = <<>> /\ running = <<>> /\ waiting = <<>> /\ skipped = <<>>
    /\ held = 0 /\ last = <<>> /\ pause = "UNPAUSED" /\ saturated = FALSE
    /\ inflight = <<>> /\ cur = Idle /\ chunks = 0 /\ disturb = 0

schedule ==
    \/ BeginSchedule \/ ScheduleRunning \/ PreemptRunning \/ EndRunning \/ PassWaiting
    \/ AdmitWaiting \/ EndWaiting \/ RequeuePassed \/ ReturnStep

Next ==
    \/ add_request \/ add_session_input \/ finish_requests \/ set_pause_state
    \/ reset_prefix_cache \/ schedule \/ update_from_output

Spec == Init /\ [][Next]_vars

\* The engine loop keeps calling schedule() while there are requests, and blocks
\* on the oldest step whenever its queue is full or a call scheduled nothing: no
\* step in flight is left unprocessed for ever.
FairSpec == Spec /\ WF_vars(schedule) /\ SF_vars(update_from_output)

-----------------------------------------------------------------------------
Shares(id) == {i \in DOMAIN inflight : id \in DOMAIN inflight[i]}

\* Types: queues of known requests without repetition, counters that never go
\* below zero (the code asserts this of num_stale_output_tokens), every share of
\* at least one token (asserted in update_from_output), and never more running
\* requests or in-flight steps than configured.
TypeOK ==
    /\ Range(running) \cup Range(waiting) \cup Range(skipped) \subseteq Ids
    /\ Len(running) =< conf.maxSeqs /\ Len(inflight) =< conf.batches
    /\ \A id \in Ids : /\ {req[id].computed, req[id].placeholders, req[id].inflight,
                           req[id].stale, req[id].blocks} \subseteq Nat
                       /\ \A i \in Shares(id) : inflight[i][id].n > 0
    /\ FreeBlocks >= 0

\* Every answer is delivered once and in order: the token appended at a position
\* was sampled for that position, whatever was preempted, reset, resumed or
\* dropped while its step was in flight.
DeliveredInOrder ==
    \A id \in Ids : ~req[id].resumable =>
        \A i \in DOMAIN req[id].out : req[id].out[i] = req[id].prompt + i

\* num_in_flight_tokens is what the steps in flight hold of the request, and
\* num_stale_output_tokens exactly the part that predates its last preemption.
CountersMatchPipeline ==
    \A id \in Live :
        LET n == [i \in Shares(id) |-> inflight[i][id].n]
        IN /\ req[id].inflight = Total(n, Shares(id))
           /\ req[id].stale = Total(n, {i \in Shares(id) : inflight[i][id].old})

\* Once nothing is in flight for a running request, every placeholder has been
\* replaced or rolled back, and all but the last of its tokens are computed
\* unless it is still prefilling.
SettledWhenDrained ==
    \A id \in Ids :
        (cur = Idle /\ req[id].status = "RUNNING" /\ req[id].inflight = 0 /\ ~req[id].resumable)
        => /\ req[id].placeholders = 0
           /\ IF req[id].chunk THEN req[id].computed < num_tokens(req[id])
              ELSE req[id].computed = num_tokens(req[id]) - 1

\* A step that starts with a decode in progress gives no more than
\* decode_prefill_token_budget tokens to requests that are catching up, over both
\* loops of schedule().
PrefillWithinBudget ==
    (conf.decodeAware /\ cur /= Idle) =>
        Total([id \in DOMAIN cur.step |-> cur.step[id].n],
              {id \in DOMAIN cur.step : cur.step[id].behind})
        =< IF cur.decoding THEN conf.decodeBudget ELSE conf.idleBudget

\* An unfinished request is in exactly one queue, and in the one its status says.
UnfinishedIsQueued ==
    cur = Idle =>
        /\ \A id \in Live :
             IF req[id].status = "RUNNING" THEN id \in Range(running)
             ELSE id \in Range(waiting) \cup Range(skipped)
        /\ Len(running) + Len(waiting) + Len(skipped) = Cardinality(Live)
        /\ held = Cardinality({id \in Live : req[id].status = "WAITING_FOR_STREAMING_REQ"})

\* A padded decode keeps its full width: a share always holds the sampled token
\* and all the drafts it carries.
DraftsFitShare ==
    \A i \in DOMAIN inflight : \A id \in DOMAIN inflight[i] :
        inflight[i][id].n > inflight[i][id].drafts

\* Every request is answered: it finishes, unless the scheduler is paused for
\* good, or sessions that wait for their clients hold every slot.
EveryRequestServed ==
    \A id \in 1 .. MaxRequests :
        (id \in Ids /\ id \in Live)
        ~> (id \in Ids /\ (\/ is_finished(req[id])
                          \/ req[id].status = "WAITING_FOR_STREAMING_REQ"
                          \/ held = conf.maxSeqs \/ pause /= "UNPAUSED"))
=============================================================================
