------------------------ MODULE KVBlockFencesProofs ------------------------
(***************************************************************************)
(* Proofs about KVBlockFences for any requests, blocks, pipeline depth and *)
(* number of steps: the pool never holds a block a step or a transfer      *)
(* still touches, and a load shares its blocks with nobody.                *)
(***************************************************************************)
EXTENDS KVBlockFences, TLAPS

(* The inductive invariant *)

\* What keeps the block of a use out of the pool: the request still holds it and
\* the use counts in its last_sched_seq, or it waits behind a fence no earlier
\* than the use.  A request that is loading does not count, because a failed load
\* gives its blocks back without looking at the steps in flight.
HeldByRequest(u) ==
    /\ status[u.req] /= "LOADING"
    /\ u.block \in Holds(u.req)
    /\ u.seq =< lastSeq[u.req]
HeldByFence(u) == \E i \in DOMAIN deferred : u.block \in Waits(i) /\ u.seq =< deferred[i].fence
UsesCovered == \A u \in uses : HeldByRequest(u) \/ HeldByFence(u)

\* What the connector touches belongs to the request it works for.
TransfersHeld ==
    \A r \in Req :
        /\ loads[r] \subseteq own[r] /\ sends[r] \subseteq Holds(r)
        /\ loads[r] /= {} => status[r] \in {"LOADING", "FINISHED"}
        /\ sends[r] /= {} => status[r] = "FINISHED" /\ loads[r] = {}
        /\ r \in received => status[r] = "LOADING" /\ loads[r] = {}

\* What a loading request was given, nothing else touches or holds.
Alone(r) ==
    /\ \A u \in uses : u.block \notin own[r]
    /\ \A q \in Req \ {r} : own[r] \cap Holds(q) = {}
    /\ \A i \in DOMAIN deferred : own[r] \cap Waits(i) = {}
LoadingAlone == \A r \in Req : Loading(r) => Alone(r)

IInv == TypeOK /\ UsesCovered /\ TransfersHeld /\ LoadingAlone

-----------------------------------------------------------------------------
(* Facts about the pool *)

\* A block in the pool is held by no request and waits behind no fence.
LEMMA FreeMeans ==
    ASSUME NEW b \in Free
    PROVE  /\ \A r \in Req : b \notin Holds(r)
           /\ \A i \in DOMAIN deferred : b \notin Waits(i)
  BY DEF Free, Held

\* A block that is held or waits is not in the pool.
LEMMA HeldMeans ==
    ASSUME NEW b
    PROVE  /\ (\E r \in Req : b \in Holds(r)) => b \notin Free
           /\ (\E i \in DOMAIN deferred : b \in Waits(i)) => b \notin Free
  BY DEF Free, Held

\* A block of the prefix cache is in no loading request's allocation.
LEMMA CachedMeans ==
    ASSUME NEW b \in Cached, NEW r \in Req, Loading(r)
    PROVE  b \notin own[r]
  BY DEF Cached

\* A use that is covered is of a block outside the pool.
LEMMA CoveredNotFree ==
    ASSUME TypeOK, UsesCovered, NEW u \in uses
    PROVE  u.block \notin Free
  <1>1. u.req \in Req
    BY DEF TypeOK
  <1>2. CASE HeldByRequest(u)
    BY <1>1, <1>2, HeldMeans DEF HeldByRequest
  <1>3. CASE HeldByFence(u)
    BY <1>3, HeldMeans DEF HeldByFence
  <1> QED
    BY <1>2, <1>3 DEF UsesCovered

\* The invariant implies the two properties of the runs.
LEMMA IInvImplies ==
    ASSUME IInv
    PROVE  NoFreeBlockInUse /\ LoadsExclusive
  <1>1. NoFreeBlockInUse
    <2>1. \A u \in uses : u.block \notin Free
      BY CoveredNotFree DEF IInv
    <2>2. ASSUME NEW r \in Req, NEW b \in loads[r] \cup sends[r] PROVE b \notin Free
      <3>1. b \in Holds(r)
        BY <2>2 DEF IInv, TransfersHeld, Holds
      <3> QED
        BY <3>1, HeldMeans
    <2> QED
      BY <2>1, <2>2 DEF NoFreeBlockInUse
  <1>2. LoadsExclusive
    <2> SUFFICES ASSUME NEW r \in Req, loads[r] /= {}
                 PROVE  /\ \A u \in uses : u.block \notin loads[r]
                        /\ \A q \in Req \ {r} :
                             loads[r] \cap (Holds(q) \cup loads[q] \cup sends[q]) = {}
                        /\ \A i \in DOMAIN deferred : loads[r] \cap Waits(i) = {}
      BY DEF LoadsExclusive
    <2>1. Alone(r) /\ loads[r] \subseteq own[r]
      BY DEF IInv, LoadingAlone, TransfersHeld, Loading
    <2>2. \A q \in Req : loads[q] \subseteq Holds(q) /\ sends[q] \subseteq Holds(q)
      BY DEF IInv, TransfersHeld, Holds
    <2> QED
      BY <2>1, <2>2 DEF Alone
  <1> QED
    BY <1>1, <1>2

-----------------------------------------------------------------------------
(* Giving blocks back *)

\* After _free_request_blocks the uses of the request are covered by a fence, if
\* there are any: either its last step was processed, and no use is left, or the
\* new entry waits for every step scheduled so far.
LEMMA FreeKeepsCovered ==
    ASSUME TypeOK, UsesCovered, NEW r \in Req, _free_request_blocks(r),
           UNCHANGED <<lastSeq, uses>>,
           \A q \in Req \ {r} : status'[q] = status[q]
    PROVE  UsesCovered'
  <1> SUFFICES ASSUME NEW u \in uses
               PROVE  HeldByRequest(u)' \/ HeldByFence(u)'
    BY DEF UsesCovered
  <1>1. /\ u.req \in Req /\ u.seq \in processed + 1 .. sched
        /\ processed \in Nat /\ sched \in Nat /\ lastSeq[u.req] \in Nat
        /\ deferred \in Seq([fence : Nat, blocks : SUBSET Block])
        /\ Holds(r) \subseteq Block
    BY DEF TypeOK, Holds
  <1>2. HeldByFence(u) => HeldByFence(u)'
    <2> SUFFICES ASSUME NEW i \in DOMAIN deferred, u.block \in Waits(i),
                        u.seq =< deferred[i].fence
                 PROVE  HeldByFence(u)'
      BY DEF HeldByFence
    <2>1. i \in DOMAIN deferred' /\ deferred'[i] = deferred[i]
      BY <1>1 DEF _free_request_blocks, Fence, TypeOK
    <2> QED
      BY <2>1 DEF HeldByFence, Waits
  <1>3. CASE HeldByRequest(u) /\ u.req /= r
    <2>1. Holds(u.req)' = Holds(u.req)
      BY <1>1, <1>3 DEF TypeOK, Holds, _free_request_blocks
    <2> QED
      BY <1>1, <1>3, <2>1 DEF HeldByRequest
  <1>4. CASE HeldByRequest(u) /\ u.req = r
    <2>1. ~StepsDone(r) /\ Holds(r) /= {}
      BY <1>1, <1>4 DEF HeldByRequest, StepsDone
    <2>2. deferred' = Append(deferred, [fence |-> sched, blocks |-> Holds(r)])
      BY <2>1 DEF _free_request_blocks, Fence
    <2>3. Len(deferred) + 1 \in DOMAIN deferred'
          /\ deferred'[Len(deferred) + 1] = [fence |-> sched, blocks |-> Holds(r)]
      BY <1>1, <2>2
    <2> QED
      BY <1>1, <1>4, <2>3 DEF HeldByRequest, HeldByFence, Waits
  <1> QED
    BY <1>2, <1>3, <1>4 DEF UsesCovered

\* A request that gives its blocks back and is not loading leaves the ones that
\* are loading alone.
LEMMA FreeKeepsAlone ==
    ASSUME TypeOK, LoadingAlone, NEW r \in Req, _free_request_blocks(r), uses' = uses,
           \A q \in Req \ {r} : Loading(q)' => Loading(q),
           ~Loading(r)'
    PROVE  LoadingAlone'
  <1> SUFFICES ASSUME NEW q \in Req, Loading(q)'
               PROVE  Alone(q)'
    BY DEF LoadingAlone
  <1>1. q /= r /\ Alone(q)
    BY DEF LoadingAlone
  <1>2. own'[q] = own[q] /\ \A p \in Req : Holds(p)' \subseteq Holds(p)
    BY <1>1 DEF TypeOK, Holds, _free_request_blocks
  <1>3. ASSUME NEW i \in DOMAIN deferred'
        PROVE  own[q] \cap Waits(i)' = {}
    <2>1. deferred \in Seq([fence : Nat, blocks : SUBSET Block])
      BY DEF TypeOK
    <2>2. CASE i \in DOMAIN deferred
      <3>1. deferred'[i] = deferred[i]
        BY <2>1, <2>2 DEF _free_request_blocks
      <3> QED
        BY <1>1, <2>2, <3>1 DEF Alone, Waits
    <2>3. CASE i \notin DOMAIN deferred
      <3>1. deferred' = Append(deferred, [fence |-> Fence, blocks |-> Holds(r)])
        BY <2>3 DEF _free_request_blocks
      <3>2. deferred'[i].blocks = Holds(r)
        BY <2>1, <2>3, <3>1
      <3> QED
        BY <1>1, <3>2 DEF Alone, Waits
    <2> QED
      BY <2>2, <2>3
  <1>4. \A u \in uses' : u.block \notin own'[q]
    BY <1>1, <1>2 DEF Alone
  <1>5. \A p \in Req \ {q} : own'[q] \cap Holds(p)' = {}
    BY <1>1, <1>2 DEF Alone
  <1> QED
    BY <1>2, <1>3, <1>4, <1>5 DEF Alone

\* Giving blocks back keeps the types.
LEMMA FreeKeepsTypes ==
    ASSUME TypeOK, NEW r \in Req, _free_request_blocks(r)
    PROVE  /\ own' \in [Req -> SUBSET Block] /\ shared' \in [Req -> SUBSET Block]
           /\ deferred' \in Seq([fence : Nat, blocks : SUBSET Block])
           /\ own'[r] = {} /\ shared'[r] = {}
           /\ \A q \in Req \ {r} : own'[q] = own[q] /\ shared'[q] = shared[q]
  <1>2. deferred' \in Seq([fence : Nat, blocks : SUBSET Block])
    <2> DEFINE Entry == [fence : Nat, blocks : SUBSET Block]
               e == [fence |-> Fence, blocks |-> Holds(r)]
    <2>1. e \in Entry /\ deferred \in Seq(Entry)
      BY DEF TypeOK, Holds, Fence
    <2>2. deferred' \in {deferred, Append(deferred, e)}
      BY DEF _free_request_blocks
    <2> HIDE DEF Entry, e
    <2>3. deferred' \in Seq(Entry)
      BY <2>1, <2>2
    <2> QED
      BY <2>3 DEF Entry
  <1>3. /\ own' \in [Req -> SUBSET Block] /\ shared' \in [Req -> SUBSET Block]
        /\ own'[r] = {} /\ shared'[r] = {}
        /\ \A q \in Req \ {r} : own'[q] = own[q] /\ shared'[q] = shared[q]
    BY DEF TypeOK, _free_request_blocks
  <1> QED
    BY <1>2, <1>3

-----------------------------------------------------------------------------
(* One lemma per action *)

\* A request arrives.
LEMMA AddKeeps ==
    ASSUME IInv, NEW r \in Req, add_request(r)
    PROVE  IInv'
  <1> USE DEF add_request, steps, connector
  <1>1. TypeOK'
    BY DEF IInv, TypeOK
  <1>2. UsesCovered'
    BY DEF IInv, TypeOK, UsesCovered, HeldByRequest, HeldByFence, Holds, Waits
  <1>3. TransfersHeld'
    BY DEF IInv, TypeOK, TransfersHeld, Holds
  <1>4. LoadingAlone'
    BY DEF IInv, TypeOK, LoadingAlone, Loading, Alone, Holds, Waits
  <1> QED
    BY <1>1, <1>2, <1>3, <1>4 DEF IInv

\* A running request is preempted: nothing of it is loading.
LEMMA PreemptKeeps ==
    ASSUME IInv, NEW r \in Req, _preempt_request(r)
    PROVE  IInv'
  <1> USE DEF _preempt_request, steps, connector
  <1>1. TypeOK'
    BY FreeKeepsTypes DEF IInv, TypeOK
  <1>2. UsesCovered'
    BY FreeKeepsCovered DEF IInv, TypeOK
  <1>3. loads[r] = {} /\ sends[r] = {} /\ r \notin received
    BY DEF IInv, TransfersHeld
  <1>4. TransfersHeld'
    BY <1>3, FreeKeepsTypes DEF IInv, TypeOK, TransfersHeld, Holds
  <1>5. LoadingAlone'
    BY <1>3, FreeKeepsAlone DEF IInv, TypeOK, Loading
  <1> QED
    BY <1>1, <1>2, <1>4, <1>5 DEF IInv

\* A request ends: its blocks go back, or stay with the connector.
LEMMA FinishKeeps ==
    ASSUME IInv, NEW r \in Req, finish_requests(r)
    PROVE  IInv'
  <1>0. /\ status[r] \in {"WAITING", "RUNNING", "LOADING"}
        /\ UNCHANGED <<lastSeq, sched, processed, uses, loads>>
        /\ received' = received \ {r} /\ failed' = failed \ {r}
    BY DEF finish_requests, steps
  <1>1. sends[r] = {}
    BY <1>0 DEF IInv, TransfersHeld
  <1>2. CASE DelaysFree(r)
    <2>0. /\ status' = [status EXCEPT ![r] = "FINISHED"]
          /\ UNCHANGED <<own, shared, deferred, sends>> /\ status[r] = "LOADING"
      BY <1>2 DEF finish_requests, DelaysFree
    <2>1. TypeOK'
      BY <1>0, <2>0 DEF IInv, TypeOK
    <2>2. UsesCovered'
      BY <1>0, <2>0 DEF IInv, TypeOK, UsesCovered, HeldByRequest, HeldByFence, Holds, Waits
    <2>3. TransfersHeld'
      BY <1>0, <1>1, <2>0 DEF IInv, TypeOK, TransfersHeld, Holds
    <2>4. LoadingAlone'
      BY <1>0, <2>0 DEF IInv, TypeOK, LoadingAlone, Loading, Alone, Holds, Waits
    <2> QED
      BY <2>1, <2>2, <2>3, <2>4 DEF IInv
  <1>3. CASE ~DelaysFree(r)
    <2>0. loads[r] = {}
      BY <1>0, <1>3 DEF IInv, TransfersHeld, DelaysFree
    <2>1. CASE /\ _free_request_blocks(r)
               /\ status' = [status EXCEPT ![r] = "FREED"] /\ sends' = sends
      <3>1. TypeOK'
        BY <1>0, <2>1, FreeKeepsTypes DEF IInv, TypeOK
      <3>2. UsesCovered'
        BY <1>0, <2>1, FreeKeepsCovered DEF IInv, TypeOK
      <3>3. TransfersHeld'
        BY <1>0, <1>1, <2>0, <2>1, FreeKeepsTypes DEF IInv, TypeOK, TransfersHeld, Holds
      <3>4. LoadingAlone'
        BY <1>0, <2>0, <2>1, FreeKeepsAlone DEF IInv, TypeOK, Loading
      <3> QED
        BY <3>1, <3>2, <3>3, <3>4 DEF IInv
    <2>2. CASE /\ status' = [status EXCEPT ![r] = "FINISHED"]
               /\ sends' = [sends EXCEPT ![r] = Holds(r)]
               /\ UNCHANGED <<own, shared, deferred>>
      <3>1. TypeOK'
        BY <1>0, <2>2 DEF IInv, TypeOK, Holds
      <3>2. UsesCovered'
        BY <1>0, <2>2 DEF IInv, TypeOK, UsesCovered, HeldByRequest, HeldByFence, Holds, Waits
      <3>3. TransfersHeld'
        BY <1>0, <2>0, <2>2 DEF IInv, TypeOK, TransfersHeld, Holds
      <3>4. LoadingAlone'
        BY <1>0, <2>2 DEF IInv, TypeOK, LoadingAlone, Loading, Alone, Holds, Waits
      <3> QED
        BY <3>1, <3>2, <3>3, <3>4 DEF IInv
    <2> QED
      BY <1>3, <2>1, <2>2 DEF finish_requests, _free_request
  <1> QED
    BY <1>2, <1>3

\* A step is scheduled: it takes free blocks and cached ones, none of which is
\* being loaded, and a copied block is retained behind the fence of the step.
LEMMA ScheduleKeeps ==
    ASSUME IInv, NEW batch \in SUBSET Req, NEW cow \in SUBSET Block,
           NEW new \in [batch -> SUBSET Block], NEW hit \in [batch -> SUBSET Block],
           schedule(batch, new, hit, cow)
    PROVE  IInv'
  <1> DEFINE U(r) == Holds(r) \cup new[r] \cup hit[r] \cup cow
             Entry == [fence : Nat, blocks : SUBSET Block]
             e == [fence |-> sched + 1, blocks |-> cow]
  <1>0. /\ sched' = sched + 1 /\ UNCHANGED <<processed, loads, sends, received, failed>>
        /\ \A r \in batch : Allocates(r, new[r], hit[r])
        /\ cow \subseteq Cached
        /\ status' = [r \in Req |-> IF r \in batch THEN "RUNNING" ELSE status[r]]
        /\ lastSeq' = [r \in Req |-> IF r \in batch THEN sched + 1 ELSE lastSeq[r]]
        /\ own' = [r \in Req |-> IF r \in batch THEN own[r] \cup new[r] ELSE own[r]]
        /\ shared' = [r \in Req |-> IF r \in batch THEN shared[r] \cup hit[r] ELSE shared[r]]
        /\ deferred' = IF cow = {} THEN deferred ELSE Append(deferred, e)
    BY DEF schedule, connector
  <1>1. \A u \in uses' : \/ u \in uses
                         \/ \E r \in batch, b \in Block :
                                b \in U(r) /\ u = [seq |-> sched + 1, req |-> r, block |-> b]
    BY DEF schedule, IInv, TypeOK, Holds
  <1>2. \A r \in batch : new[r] \subseteq Free /\ hit[r] \subseteq Cached
    BY <1>0 DEF Allocates
  <1>3. deferred \in Seq(Entry) /\ e \in Entry
    BY DEF IInv, TypeOK
  <1>4. \A i \in DOMAIN deferred : i \in DOMAIN deferred' /\ deferred'[i] = deferred[i]
    BY <1>0, <1>3
  <1>5. TypeOK'
    <2>1. deferred' \in Seq(Entry)
      <3> HIDE DEF Entry, e
      <3> QED
        BY <1>0, <1>3
    <2>2. uses' \subseteq [seq : processed' + 1 .. sched', req : Req, block : Block]
      <3> SUFFICES ASSUME NEW u \in uses'
                   PROVE  u \in [seq : processed' + 1 .. sched', req : Req, block : Block]
        OBVIOUS
      <3>1. CASE u \in uses
        BY <1>0, <3>1 DEF IInv, TypeOK
      <3>2. CASE u \notin uses
        <4>1. PICK r \in batch, b \in Block :
                       b \in U(r) /\ u = [seq |-> sched + 1, req |-> r, block |-> b]
          BY <1>1, <3>2
        <4>2. b \in Block /\ r \in Req
          BY <4>1 DEF IInv, TypeOK, Holds
        <4> QED
          BY <1>0, <4>1, <4>2 DEF IInv, TypeOK
      <3> QED
        BY <3>1, <3>2
    <2>3. /\ own' \in [Req -> SUBSET Block] /\ shared' \in [Req -> SUBSET Block]
          /\ status' \in [Req -> {"NEW", "WAITING", "RUNNING", "LOADING", "FINISHED", "FREED"}]
          /\ lastSeq' \in [Req -> Nat]
      BY <1>0 DEF IInv, TypeOK
    <2> QED
      BY <1>0, <2>1, <2>2, <2>3 DEF IInv, TypeOK
  <1>6. UsesCovered'
    <2> SUFFICES ASSUME NEW u \in uses'
                 PROVE  HeldByRequest(u)' \/ HeldByFence(u)'
      BY DEF UsesCovered
    <2>1. CASE u \in uses
      <3>0. u.req \in Req /\ u.seq \in processed + 1 .. sched
        BY <2>1 DEF IInv, TypeOK
      <3>1. CASE HeldByFence(u)
        BY <1>4, <3>1 DEF HeldByFence, Waits
      <3>2. CASE HeldByRequest(u)
        <4>1. u.block \in Holds(u.req)' /\ u.seq =< lastSeq'[u.req]
          BY <1>0, <3>0, <3>2 DEF HeldByRequest, Holds, IInv, TypeOK
        <4>2. status'[u.req] /= "LOADING"
          BY <1>0, <3>0, <3>2 DEF HeldByRequest
        <4> QED
          BY <4>1, <4>2 DEF HeldByRequest
      <3> QED
        BY <2>1, <3>1, <3>2 DEF IInv, UsesCovered
    <2>2. CASE u \notin uses
      <3>1. PICK r \in batch, b \in Block :
                       b \in U(r) /\ u = [seq |-> sched + 1, req |-> r, block |-> b]
        BY <1>1, <2>2
      <3>2. CASE b \in cow
        <4>1. Len(deferred) + 1 \in DOMAIN deferred' /\ deferred'[Len(deferred) + 1] = e
          BY <1>0, <1>3, <3>2
        <4>2. /\ deferred'[Len(deferred) + 1].blocks = cow
              /\ deferred'[Len(deferred) + 1].fence = sched + 1
              /\ u.block \in cow /\ u.seq = sched + 1 /\ sched \in Nat
          BY <3>1, <3>2, <4>1 DEF IInv, TypeOK
        <4> QED
          BY <4>1, <4>2 DEF HeldByFence, Waits
      <3>3. CASE b \notin cow
        <4>1. r \in Req /\ b \in Holds(r)'
          BY <1>0, <3>1, <3>3 DEF Holds
        <4>2. u.req = r /\ u.block = b /\ u.seq = sched + 1
          BY <3>1
        <4>3. status'[r] = "RUNNING" /\ lastSeq'[r] = sched + 1 /\ sched \in Nat
          BY <1>0, <4>1 DEF IInv, TypeOK
        <4> QED
          BY <4>1, <4>2, <4>3 DEF HeldByRequest
      <3> QED
        BY <3>2, <3>3
    <2> QED
      BY <2>1, <2>2
  <1>7. TransfersHeld'
    <2> SUFFICES ASSUME NEW r \in Req
                 PROVE  /\ loads[r] \subseteq own'[r] /\ sends[r] \subseteq Holds(r)'
                        /\ loads[r] /= {} => status'[r] \in {"LOADING", "FINISHED"}
                        /\ sends[r] /= {} => status'[r] = "FINISHED" /\ loads[r] = {}
                        /\ r \in received => status'[r] = "LOADING" /\ loads[r] = {}
      BY <1>0 DEF TransfersHeld
    <2>1. CASE r \in batch
      BY <1>0, <2>1 DEF Allocates, IInv, TransfersHeld, Holds
    <2>2. CASE r \notin batch
      BY <1>0, <2>2 DEF IInv, TransfersHeld, Holds
    <2> QED
      BY <2>1, <2>2
  <1>8. LoadingAlone'
    <2> SUFFICES ASSUME NEW r \in Req, Loading(r)'
                 PROVE  Alone(r)'
      BY DEF LoadingAlone
    <2>1. r \notin batch /\ Loading(r)
      BY <1>0 DEF Loading, Allocates, IInv, TransfersHeld
    <2>2. Alone(r) /\ own'[r] = own[r]
      BY <1>0, <2>1 DEF IInv, LoadingAlone
    <2>3. ASSUME NEW q \in batch PROVE own[r] \cap U(q) = {}
      <3>1. own[r] \cap Holds(q) = {}
        BY <2>1, <2>2 DEF Alone
      <3>2. own[r] \cap new[q] = {}
        BY <1>2, FreeMeans DEF Holds
      <3>3. own[r] \cap (hit[q] \cup cow) = {}
        BY <1>0, <1>2, <2>1, CachedMeans
      <3> QED
        BY <3>1, <3>2, <3>3
    <2>4. \A u \in uses' : u.block \notin own'[r]
      <3> SUFFICES ASSUME NEW u \in uses', u \notin uses
                   PROVE  u.block \notin own[r]
        BY <2>2 DEF Alone
      <3>1. PICK q \in batch, b \in Block :
                       b \in U(q) /\ u = [seq |-> sched + 1, req |-> q, block |-> b]
        BY <1>1
      <3> QED
        BY <2>3, <3>1
    <2>5. \A q \in Req \ {r} : own'[r] \cap Holds(q)' = {}
      <3> SUFFICES ASSUME NEW q \in Req \ {r}
                   PROVE  own[r] \cap Holds(q)' = {}
        BY <2>2
      <3>1. CASE q \in batch
        <4>1. Holds(q)' \subseteq U(q)
          BY <1>0, <3>1 DEF Holds
        <4> QED
          BY <2>3, <3>1, <4>1
      <3>2. CASE q \notin batch
        BY <1>0, <2>2, <3>2 DEF Holds, Alone
      <3> QED
        BY <3>1, <3>2
    <2>6. \A i \in DOMAIN deferred' : own'[r] \cap Waits(i)' = {}
      <3> SUFFICES ASSUME NEW i \in DOMAIN deferred'
                   PROVE  own[r] \cap deferred'[i].blocks = {}
        BY <2>2 DEF Waits
      <3>1. CASE i \in DOMAIN deferred
        BY <1>4, <2>2, <3>1 DEF Alone, Waits
      <3>2. CASE i \notin DOMAIN deferred
        <4>1. deferred'[i] = e
          BY <1>0, <1>3, <3>2
        <4>2. own[r] \cap cow = {}
          BY <1>0, <2>1, CachedMeans
        <4> QED
          BY <4>1, <4>2
      <3> QED
        BY <3>1, <3>2
    <2> QED
      BY <2>4, <2>5, <2>6 DEF Alone
  <1> QED
    BY <1>5, <1>6, <1>7, <1>8 DEF IInv

\* The oldest step has run: what it used and waited for is let go, and an entry
\* that a later step needs has a fence beyond it.
LEMMA UpdateKeeps ==
    ASSUME IInv, update_from_output
    PROVE  IInv'
  <1> DEFINE Entry == [fence : Nat, blocks : SUBSET Block]
  <1>0. /\ processed < sched /\ processed' = processed + 1
        /\ uses' = {u \in uses : u.seq /= processed + 1}
        /\ UNCHANGED <<status, own, shared, lastSeq, sched, loads, sends, received, failed>>
    BY DEF update_from_output, Completed, connector
  <1>1. PICK n \in 0 .. Len(deferred) :
            /\ \A i \in 1 .. n : deferred[i].fence =< processed + 1
            /\ deferred' = SubSeq(deferred, n + 1, Len(deferred))
    BY DEF update_from_output, Completed
  <1>2. deferred \in Seq(Entry) /\ processed \in Nat /\ sched \in Nat
    BY DEF IInv, TypeOK
  <1>3. /\ deferred' \in Seq(Entry) /\ Len(deferred') = Len(deferred) - n
        /\ \A i \in 1 .. Len(deferred) - n : deferred'[i] = deferred[i + n]
    <2> HIDE DEF Entry
    <2> QED
      BY <1>1, <1>2
  <1>4. TypeOK'
    <2>1. uses' \subseteq [seq : processed' + 1 .. sched', req : Req, block : Block]
      <3> SUFFICES ASSUME NEW u \in uses, u.seq /= processed + 1
                   PROVE  u \in [seq : processed + 2 .. sched, req : Req, block : Block]
        BY <1>0, <1>2
      <3>1. u \in [seq : processed + 1 .. sched, req : Req, block : Block]
        BY DEF IInv, TypeOK
      <3>2. u.seq \in processed + 2 .. sched
        BY <1>2, <3>1
      <3> QED
        BY <3>1, <3>2
    <2> QED
      BY <1>0, <1>2, <1>3, <2>1 DEF IInv, TypeOK
  <1>5. UsesCovered'
    <2> SUFFICES ASSUME NEW u \in uses, u.seq /= processed + 1
                 PROVE  HeldByRequest(u)' \/ HeldByFence(u)'
      BY <1>0 DEF UsesCovered
    <2>0. u.seq \in Nat /\ u.seq > processed + 1
      BY <1>2 DEF IInv, TypeOK
    <2>1. CASE HeldByRequest(u)
      BY <1>0, <2>1 DEF HeldByRequest, Holds
    <2>2. CASE HeldByFence(u)
      <3>1. PICK i \in DOMAIN deferred : u.block \in Waits(i) /\ u.seq =< deferred[i].fence
        BY <2>2 DEF HeldByFence
      <3>2. i \in 1 .. Len(deferred) /\ deferred[i].fence \in Nat
        <4>1. deferred[i] \in Entry
          <5> HIDE DEF Entry
          <5> QED
            BY <1>2
        <4> QED
          BY <1>2, <4>1
      <3>3. i > n
        BY <1>1, <1>2, <2>0, <3>1, <3>2
      <3>4. i - n \in DOMAIN deferred' /\ deferred'[i - n] = deferred[i]
        BY <1>2, <1>3, <3>2, <3>3
      <3> QED
        BY <3>1, <3>4 DEF HeldByFence, Waits
    <2> QED
      BY <2>1, <2>2 DEF IInv, UsesCovered
  <1>6. TransfersHeld'
    BY <1>0 DEF IInv, TransfersHeld, Holds
  <1>7. LoadingAlone'
    <2> SUFFICES ASSUME NEW r \in Req, Loading(r)'
                 PROVE  Alone(r)'
      BY DEF LoadingAlone
    <2>1. Alone(r)
      BY <1>0 DEF Loading, IInv, LoadingAlone
    <2>2. ASSUME NEW i \in DOMAIN deferred' PROVE own'[r] \cap Waits(i)' = {}
      <3>1. i + n \in DOMAIN deferred /\ deferred'[i] = deferred[i + n]
        BY <1>2, <1>3
      <3> QED
        BY <1>0, <2>1, <3>1 DEF Alone, Waits
    <2> QED
      BY <1>0, <2>1, <2>2 DEF Alone, Holds
  <1> QED
    BY <1>4, <1>5, <1>6, <1>7 DEF IInv

\* A load begins with blocks from the pool, which nothing touches.
LEMMA LoadKeeps ==
    ASSUME IInv, NEW r \in Req, NEW new \in SUBSET Block, NEW hit \in SUBSET Block,
           begin_load(r, new, hit)
    PROVE  IInv'
  <1>0. /\ status[r] = "WAITING" /\ Holds(r) = {} /\ new \subseteq Free
        /\ hit \subseteq Cached /\ hit \cap new = {}
        /\ status' = [status EXCEPT ![r] = "LOADING"]
        /\ own' = [own EXCEPT ![r] = new] /\ shared' = [shared EXCEPT ![r] = hit]
        /\ loads' = [loads EXCEPT ![r] = new]
        /\ UNCHANGED <<deferred, lastSeq, sched, processed, uses, sends, received, failed>>
    BY DEF begin_load, steps
  <1>1. TypeOK'
    BY <1>0 DEF IInv, TypeOK
  <1>2. sends[r] = {} /\ r \notin received /\ loads[r] = {}
    BY <1>0 DEF IInv, TransfersHeld
  <1>3. UsesCovered'
    <2> SUFFICES ASSUME NEW u \in uses
                 PROVE  HeldByRequest(u)' \/ HeldByFence(u)'
      BY <1>0 DEF UsesCovered
    <2>1. u.req \in Req
      BY DEF IInv, TypeOK
    <2>2. CASE HeldByRequest(u)
      <3>1. u.req /= r
        BY <1>0, <2>2 DEF HeldByRequest
      <3> QED
        BY <1>0, <2>1, <2>2, <3>1 DEF HeldByRequest, Holds, IInv, TypeOK
    <2>3. CASE HeldByFence(u)
      BY <1>0, <2>3 DEF HeldByFence, Waits
    <2> QED
      BY <2>2, <2>3 DEF IInv, UsesCovered
  <1>4. TransfersHeld'
    BY <1>0, <1>2 DEF IInv, TypeOK, TransfersHeld, Holds
  <1>5. LoadingAlone'
    <2> SUFFICES ASSUME NEW q \in Req, Loading(q)'
                 PROVE  Alone(q)'
      BY DEF LoadingAlone
    <2>1. CASE q = r
      <3>1. own'[r] = new /\ \A p \in Req \ {r} : Holds(p)' = Holds(p)
        BY <1>0 DEF Holds, IInv, TypeOK
      <3>4. \A i \in DOMAIN deferred' : Waits(i)' = Waits(i)
        BY <1>0 DEF Waits
      <3>2. \A u \in uses : u.block \notin new
        BY <1>0, CoveredNotFree DEF IInv
      <3>3. /\ \A p \in Req : new \cap Holds(p) = {}
            /\ \A i \in DOMAIN deferred : new \cap Waits(i) = {}
        BY <1>0, FreeMeans
      <3> QED
        BY <1>0, <2>1, <3>1, <3>2, <3>3, <3>4 DEF Alone
    <2>2. CASE q /= r
      <3>1. Loading(q) /\ Alone(q) /\ own'[q] = own[q]
        BY <1>0, <2>2 DEF Loading, IInv, TypeOK, LoadingAlone
      <3>2. own[q] \cap new = {}
        BY <1>0, FreeMeans DEF Holds
      <3>3. own[q] \cap hit = {}
        BY <1>0, <3>1, CachedMeans
      <3>4. Holds(r)' = new \cup hit /\ \A p \in Req \ {r} : Holds(p)' = Holds(p)
        BY <1>0 DEF Holds, IInv, TypeOK
      <3>5. \A p \in Req \ {q} : own'[q] \cap Holds(p)' = {}
        BY <3>1, <3>2, <3>3, <3>4 DEF Alone
      <3> QED
        BY <1>0, <3>1, <3>5 DEF Alone, Waits
    <2> QED
      BY <2>1, <2>2
  <1> QED
    BY <1>1, <1>3, <1>4, <1>5 DEF IInv

\* The connector reports a load that brought nothing.
LEMMA InvalidKeeps ==
    ASSUME IInv, NEW r \in Req, _handle_invalid_blocks(r)
    PROVE  IInv'
  <1> USE DEF _handle_invalid_blocks, steps
  <1>1. TypeOK'
    BY DEF IInv, TypeOK
  <1>2. UsesCovered' /\ TransfersHeld'
    BY DEF IInv, UsesCovered, HeldByRequest, HeldByFence, TransfersHeld, Holds, Waits
  <1>3. LoadingAlone'
    BY DEF IInv, LoadingAlone, Loading, Alone, Holds, Waits
  <1> QED
    BY <1>1, <1>2, <1>3 DEF IInv

\* A load ends, for a request that waits for it or for one that has ended.
LEMMA RecvingKeeps ==
    ASSUME IInv, NEW r \in Req, finished_recving(r)
    PROVE  IInv'
  <1>0. /\ loads[r] /= {} /\ loads' = [loads EXCEPT ![r] = {}]
        /\ UNCHANGED <<lastSeq, sched, processed, uses, sends, failed>>
    BY DEF finished_recving, steps
  <1>1. CASE status[r] = "LOADING"
    <2>0. received' = received \cup {r} /\ UNCHANGED <<status, own, shared, deferred>>
      BY <1>1 DEF finished_recving
    <2>1. TypeOK'
      BY <1>0, <2>0 DEF IInv, TypeOK
    <2>2. UsesCovered'
      BY <1>0, <2>0 DEF IInv, UsesCovered, HeldByRequest, HeldByFence, Holds, Waits
    <2>3. TransfersHeld'
      BY <1>0, <1>1, <2>0 DEF IInv, TypeOK, TransfersHeld, Holds
    <2>4. LoadingAlone'
      BY <1>0, <1>1, <2>0 DEF IInv, TypeOK, LoadingAlone, Loading, Alone, Holds, Waits
    <2> QED
      BY <2>1, <2>2, <2>3, <2>4 DEF IInv
  <1>2. CASE status[r] /= "LOADING"
    <2>0. /\ _free_request_blocks(r) /\ received' = received
          /\ status' = [status EXCEPT ![r] = "FREED"]
      BY <1>2 DEF finished_recving
    <2>1. sends[r] = {} /\ r \notin received
      BY <1>0 DEF IInv, TransfersHeld
    <2>2. TypeOK'
      BY <1>0, <2>0, FreeKeepsTypes DEF IInv, TypeOK
    <2>3. UsesCovered'
      BY <1>0, <2>0, FreeKeepsCovered DEF IInv, TypeOK
    <2>4. TransfersHeld'
      BY <1>0, <2>0, <2>1, FreeKeepsTypes DEF IInv, TypeOK, TransfersHeld, Holds
    <2>5. LoadingAlone'
      BY <1>0, <2>0, FreeKeepsAlone DEF IInv, TypeOK, Loading
    <2> QED
      BY <2>2, <2>3, <2>4, <2>5 DEF IInv
  <1> QED
    BY <1>1, <1>2

\* A send ends.
LEMMA SendingKeeps ==
    ASSUME IInv, NEW r \in Req, finished_sending(r)
    PROVE  IInv'
  <1>0. /\ sends[r] /= {} /\ sends' = [sends EXCEPT ![r] = {}]
        /\ UNCHANGED <<lastSeq, sched, processed, uses, loads, received, failed>>
        /\ _free_request_blocks(r) /\ status' = [status EXCEPT ![r] = "FREED"]
    BY DEF finished_sending, steps
  <1>1. loads[r] = {} /\ r \notin received
    BY <1>0 DEF IInv, TransfersHeld
  <1>2. TypeOK'
    BY <1>0, FreeKeepsTypes DEF IInv, TypeOK
  <1>3. UsesCovered'
    BY <1>0, FreeKeepsCovered DEF IInv, TypeOK
  <1>4. TransfersHeld'
    BY <1>0, <1>1, FreeKeepsTypes DEF IInv, TypeOK, TransfersHeld, Holds
  <1>5. LoadingAlone'
    BY <1>0, <1>1, FreeKeepsAlone DEF IInv, TypeOK, Loading
  <1> QED
    BY <1>2, <1>3, <1>4, <1>5 DEF IInv

\* A request whose load has ended goes back to the queue; if the load failed its
\* blocks return at once, which is safe because no use counts on a loading request.
LEMMA PromoteKeeps ==
    ASSUME IInv, NEW r \in Req, _update_waiting_for_remote_kv(r)
    PROVE  IInv'
  <1>0. /\ status[r] = "LOADING" /\ r \in received
        /\ status' = [status EXCEPT ![r] = "WAITING"]
        /\ received' = received \ {r} /\ failed' = failed \ {r}
        /\ UNCHANGED <<deferred, lastSeq, sched, processed, uses, loads, sends>>
    BY DEF _update_waiting_for_remote_kv, steps
  <1>1. /\ own' \in [Req -> SUBSET Block] /\ shared' \in [Req -> SUBSET Block]
        /\ \A q \in Req : own'[q] \subseteq own[q] /\ shared'[q] \subseteq shared[q]
        /\ \A q \in Req \ {r} : own'[q] = own[q] /\ shared'[q] = shared[q]
    BY DEF _update_waiting_for_remote_kv, IInv, TypeOK
  <1>2. loads[r] = {} /\ sends[r] = {}
    BY <1>0 DEF IInv, TransfersHeld
  <1>3. TypeOK'
    BY <1>0, <1>1 DEF IInv, TypeOK
  <1>4. UsesCovered'
    <2> SUFFICES ASSUME NEW u \in uses
                 PROVE  HeldByRequest(u)' \/ HeldByFence(u)'
      BY <1>0 DEF UsesCovered
    <2>1. u.req \in Req
      BY DEF IInv, TypeOK
    <2>2. CASE HeldByRequest(u)
      <3>1. u.req /= r
        BY <1>0, <2>2 DEF HeldByRequest
      <3> QED
        BY <1>0, <1>1, <2>1, <2>2, <3>1 DEF HeldByRequest, Holds, IInv, TypeOK
    <2>3. CASE HeldByFence(u)
      BY <1>0, <2>3 DEF HeldByFence, Waits
    <2> QED
      BY <2>2, <2>3 DEF IInv, UsesCovered
  <1>5. TransfersHeld'
    BY <1>0, <1>1, <1>2 DEF IInv, TypeOK, TransfersHeld, Holds
  <1>6. LoadingAlone'
    <2> SUFFICES ASSUME NEW q \in Req, Loading(q)'
                 PROVE  Alone(q)'
      BY DEF LoadingAlone
    <2>1. q /= r /\ Loading(q) /\ Alone(q)
      BY <1>0, <1>2 DEF Loading, IInv, TypeOK, LoadingAlone
    <2>2. \A p \in Req : Holds(p)' \subseteq Holds(p)
      BY <1>1 DEF Holds
    <2> QED
      BY <1>0, <1>1, <2>1, <2>2 DEF Alone, Waits
  <1> QED
    BY <1>3, <1>4, <1>5, <1>6 DEF IInv

-----------------------------------------------------------------------------
(* The invariant is inductive *)

\* With nothing scheduled nothing is used, so the invariant holds at the start.
LEMMA InitEstablishes ==
    ASSUME Init
    PROVE  IInv
  <1>1. TypeOK
    BY DEF Init, TypeOK
  <1>2. UsesCovered /\ TransfersHeld /\ LoadingAlone
    BY DEF Init, UsesCovered, TransfersHeld, LoadingAlone, Loading
  <1> QED
    BY <1>1, <1>2 DEF IInv

\* A stuttering step changes nothing.
LEMMA StutterKeeps ==
    ASSUME IInv, UNCHANGED vars
    PROVE  IInv'
  BY DEF vars, steps, connector, IInv, TypeOK, UsesCovered, HeldByRequest, HeldByFence,
         TransfersHeld, LoadingAlone, Loading, Alone, Holds, Waits

\* Every step keeps the invariant.
LEMMA StepKeeps ==
    ASSUME IInv, [Next]_vars
    PROVE  IInv'
  <1>1. CASE update_from_output
    BY <1>1, UpdateKeeps
  <1>2. CASE \E r \in Req :
                 \/ add_request(r) \/ _preempt_request(r) \/ finish_requests(r)
                 \/ _handle_invalid_blocks(r) \/ finished_recving(r) \/ finished_sending(r)
                 \/ _update_waiting_for_remote_kv(r)
    BY <1>2, AddKeeps, PreemptKeeps, FinishKeeps, InvalidKeeps, RecvingKeeps, SendingKeeps,
       PromoteKeeps
  <1>3. CASE \E r \in Req : \E new, hit \in SUBSET Block : begin_load(r, new, hit)
    BY <1>3, LoadKeeps
  <1>4. CASE \E batch \in SUBSET Req, cow \in SUBSET Block :
                 \E new, hit \in [batch -> SUBSET Block] : schedule(batch, new, hit, cow)
    BY <1>4, ScheduleKeeps
  <1>5. CASE UNCHANGED vars
    BY <1>5, StutterKeeps
  <1> QED
    BY <1>1, <1>2, <1>3, <1>4, <1>5 DEF Next

\* The invariant holds in every reachable state.
LEMMA Invariance == Spec => []IInv
  BY InitEstablishes, StepKeeps, PTL DEF Spec

\* Types hold in every reachable state, for any number of requests and blocks.
THEOREM TypesHold == Spec => []TypeOK
  <1>1. IInv => TypeOK
    BY DEF IInv
  <1> QED
    BY <1>1, Invariance, PTL

\* _free_request_blocks, _free_cow_retained_blocks and _drain_deferred_frees never
\* return a block that a step in flight or a transfer still touches.
THEOREM PoolIsQuiet == Spec => []NoFreeBlockInUse
  BY Invariance, IInvImplies, PTL

\* An asynchronous load, the load of an aborted request too, has its blocks alone.
THEOREM LoadsAreExclusive == Spec => []LoadsExclusive
  BY Invariance, IInvImplies, PTL
=============================================================================
