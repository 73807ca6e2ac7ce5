-------------------------- MODULE FleetLockProofs --------------------------
(***************************************************************************)
(* The safety of the fleet lock for any set of coordinators and any        *)
(* bounds.  LockCoversMutation is not inductive: whether READY still means *)
(* anything when PollReady sees it depends on the writer having been open  *)
(* ever since, which SessionInv records.                                   *)
(***************************************************************************)
EXTENDS FleetLock, TLAPS

\* At most one remote shell holds the flock.
HolderInv ==
    \A c, d \in Coord : remote[c] = "holding" /\ remote[d] = "holding" => c = d

\* The writer is open exactly while the coordinator polls or holds; nothing of
\* a session exists before it; a coordinator that holds has seen READY, which
\* only a shell that took the flock prints; only a coordinator that holds, or
\* was killed, has a command under way.
ControlInv ==
    \A c \in Coord :
        /\ writer[c] <=> lpc[c] \in {"polling", "held"}
        /\ lpc[c] = "idle" => /\ ~ready[c]
                              /\ pid[c] = "none"
                              /\ remote[c] = "none"
        /\ lpc[c] = "held" => ready[c]
        /\ ready[c] => remote[c] \in {"holding", "gone"}
        /\ inflight[c] => lpc[c] \in {"held", "crashed"}

\* Between READY and the release, on a connection that is up, the remote shell
\* holds the flock and the ssh child is alive.
SessionInv ==
    \A c \in Coord : writer[c] /\ ready[c] /\ ~down[c]
        => remote[c] = "holding" /\ pid[c] = "alive"

LockInv == TypeOK /\ HolderInv /\ ControlInv /\ SessionInv

-----------------------------------------------------------------------------
\* Initially no session exists.
LEMMA InitLockInv == Init => LockInv
BY DEF Init, LockInv, TypeOK, HolderInv, ControlInv, SessionInv, LockPc

\* A step of the coordinator itself keeps the invariant.
LEMMA CoordStepLockInv ==
    ASSUME LockInv, NEW c \in Coord, CoordStep(c)
    PROVE  LockInv'
<1> USE DEF LockInv, TypeOK, LockPc, BeginRelease, fleet_lock_assert_held
<1>0. ReadyAttempts \in Nat /\ ReleaseAttempts \in Nat
    BY FleetLockAssumption DEF FleetLockAssumption
<1>1. CASE fleet_lock_acquire(c)
    <2>1. TypeOK'
        BY <1>0, <1>1 DEF fleet_lock_acquire
    <2>2. HolderInv' /\ ControlInv' /\ SessionInv'
        BY <1>1 DEF fleet_lock_acquire, HolderInv, ControlInv, SessionInv
    <2> QED BY <2>1, <2>2
<1>2. CASE PollReady(c)
    <2>1. TypeOK'
        <3>1. CASE ready[c] /\ fleet_lock_assert_held(c)
            BY <1>2, <3>1 DEF PollReady
        <3>2. CASE ~ready[c] /\ pid[c] = "alive" /\ tries[c] > 1
            <4>1. tries' = [tries EXCEPT ![c] = tries[c] - 1] /\ UNCHANGED <<lpc, writer>>
                BY <1>2, <3>2 DEF PollReady
            <4>2. tries[c] - 1 \in Nat
                BY <3>2
            <4> QED BY <1>2, <4>1, <4>2 DEF PollReady
        <3>3. CASE BeginRelease(c)
            BY <1>0, <1>2, <3>3 DEF PollReady
        <3> QED BY <1>2, <3>1, <3>2, <3>3 DEF PollReady
    <2>2. HolderInv'
        BY <1>2 DEF PollReady, HolderInv
    <2>3. ControlInv'
        BY <1>2 DEF PollReady, ControlInv
    <2>4. SessionInv'
        BY <1>2 DEF PollReady, ControlInv, SessionInv
    <2> QED BY <2>1, <2>2, <2>3, <2>4
<1>3. CASE AssertThenMutate(c)
    <2>1. TypeOK'
        <3>1. CASE BeginRelease(c) /\ UNCHANGED <<inflight, work>>
            BY <1>0, <1>3, <3>1 DEF AssertThenMutate
        <3>2. CASE /\ inflight' = [inflight EXCEPT ![c] = TRUE]
                   /\ work' = [work EXCEPT ![c] = work[c] + 1]
                   /\ UNCHANGED <<lpc, writer, tries>>
            <4>1. work[c] + 1 \in Nat
                OBVIOUS
            <4> QED BY <1>3, <3>2, <4>1 DEF AssertThenMutate
        <3> QED BY <1>3, <3>1, <3>2 DEF AssertThenMutate
    <2>2. HolderInv' /\ ControlInv'
        BY <1>3 DEF AssertThenMutate, HolderInv, ControlInv
    <2>3. SessionInv'
        BY <1>3 DEF AssertThenMutate, ControlInv, SessionInv
    <2> QED BY <2>1, <2>2, <2>3
<1>4. CASE MutationEnds(c)
    BY <1>4 DEF MutationEnds, HolderInv, ControlInv, SessionInv
<1>5. CASE fleet_lock_release(c)
    BY <1>0, <1>5 DEF fleet_lock_release, HolderInv, ControlInv, SessionInv
<1>6. CASE AwaitChild(c)
    BY <1>0, <1>6 DEF AwaitChild, HolderInv, ControlInv, SessionInv
<1> QED BY <1>1, <1>2, <1>3, <1>4, <1>5, <1>6 DEF CoordStep

\* A step of the remote shell, the ssh client, the network or a kill keeps it.
LEMMA OtherStepLockInv ==
    ASSUME LockInv, NEW c \in Coord,
           RemoteStep(c) \/ ClientStep(c) \/ Crash(c) \/ ConnectionLoss(c)
    PROVE  LockInv'
<1> USE DEF LockInv, TypeOK, LockPc
<1>1. CASE RemoteFlock(c)
    BY <1>1 DEF RemoteFlock, HolderInv, ControlInv, SessionInv
<1>2. CASE RemoteRefuse(c)
    BY <1>2 DEF RemoteRefuse, HolderInv, ControlInv, SessionInv
<1>3. CASE RemoteExit(c)
    BY <1>3 DEF RemoteExit, HolderInv, ControlInv, SessionInv
<1>4. CASE DeliverReady(c)
    BY <1>4 DEF DeliverReady, HolderInv, ControlInv, SessionInv
<1>5. CASE ChildExit(c)
    BY <1>5 DEF ChildExit, HolderInv, ControlInv, SessionInv
<1>6. CASE Crash(c)
    BY <1>6 DEF Crash, HolderInv, ControlInv, SessionInv
<1>7. CASE ConnectionLoss(c)
    BY <1>7 DEF ConnectionLoss, HolderInv, ControlInv, SessionInv
<1> QED BY <1>1, <1>2, <1>3, <1>4, <1>5, <1>6, <1>7 DEF RemoteStep, ClientStep

\* The invariant is inductive.
THEOREM LockInvariant == Spec => []LockInv
<1>1. Init => LockInv
    BY InitLockInv
<1>2. LockInv /\ [Next]_vars => LockInv'
    <2> SUFFICES ASSUME LockInv, [Next]_vars PROVE LockInv'
        OBVIOUS
    <2>1. CASE Next
        BY <2>1, CoordStepLockInv, OtherStepLockInv DEF Next
    <2>2. CASE UNCHANGED vars
        BY <2>2 DEF vars, LockInv, TypeOK, HolderInv, ControlInv, SessionInv
    <2> QED BY <2>1, <2>2
<1> QED BY <1>1, <1>2, PTL DEF Spec

\* The variables of the lock protocol keep their types.
THEOREM LockTypeCorrect == Spec => []TypeOK
BY LockInvariant, PTL DEF LockInv

\* A mutating command executes under the flock of its coordinator, unless that
\* coordinator lost its connection or was killed.
THEOREM LockCovers == Spec => []LockCoversMutation
<1>1. LockInv => LockCoversMutation
    BY DEF LockInv, TypeOK, ControlInv, SessionInv, LockCoversMutation, Excused
<1> QED BY <1>1, LockInvariant, PTL

\* Hence two coordinators without excuse never mutate the fleet at once.
THEOREM LockExcludes == Spec => []MutationsExclusive
<1>1. LockInv => MutationsExclusive
    BY DEF LockInv, TypeOK, HolderInv, ControlInv, SessionInv, MutationsExclusive, Excused
<1> QED BY <1>1, LockInvariant, PTL

-----------------------------------------------------------------------------
(* The shell code implements LockService.  *)

\* A step that changes neither the abstract session nor the abstract holders.
LEMMA StutterRefines ==
    ASSUME LockInv, UNCHANGED down,
           \A c \in Coord : AbsSession'[c] = AbsSession[c],
           \A c \in Coord : c \in AbsFlock' <=> c \in AbsFlock
    PROVE  UNCHANGED Abs!lockVars
<1>1. AbsSession' = AbsSession
    BY DEF AbsSession
<1>2. AbsFlock' = AbsFlock
    BY DEF AbsFlock
<1> QED BY <1>1, <1>2 DEF Abs!lockVars

\* Steps of the coordinator: PollReady is Grant or Deny, leaving is Close.
LEMMA CoordStepRefines ==
    ASSUME LockInv, NEW c \in Coord, CoordStep(c)
    PROVE  Abs!LockNext \/ UNCHANGED Abs!lockVars
<1> USE DEF LockInv, TypeOK, LockPc, ControlInv, BeginRelease, fleet_lock_assert_held
<1>1. CASE fleet_lock_acquire(c)
    BY <1>1, StutterRefines DEF fleet_lock_acquire, AbsSession, AbsFlock
<1>2. CASE PollReady(c) /\ UNCHANGED lpc
    BY <1>2, StutterRefines DEF PollReady, AbsSession, AbsFlock
<1>3. CASE PollReady(c) /\ lpc' = [lpc EXCEPT ![c] = "held"]
    <2>1. AbsSession[c] = "none" /\ AbsSession' = [AbsSession EXCEPT ![c] = "open"]
        BY <1>3 DEF PollReady, AbsSession
    <2>2. \/ AbsFlock = {} /\ AbsFlock' = {c}
          \/ down[c] /\ AbsFlock' = AbsFlock
        BY <1>3 DEF PollReady, HolderInv, SessionInv, AbsFlock
    <2>3. Abs!Grant(c)
        BY <1>3, <2>1, <2>2 DEF PollReady, Abs!Grant
    <2> QED BY <2>3 DEF Abs!LockNext
<1>4. CASE PollReady(c) /\ lpc' = [lpc EXCEPT ![c] = "releasing"]
    <2>1. AbsSession[c] = "none" /\ AbsSession' = [AbsSession EXCEPT ![c] = "closed"]
        BY <1>4 DEF PollReady, AbsSession
    <2>2. \/ AbsFlock' = AbsFlock
          \/ AbsFlock = {} /\ AbsFlock' = {c}
        BY <1>4 DEF PollReady, HolderInv, AbsFlock
    <2>3. Abs!Deny(c)
        BY <1>4, <2>1, <2>2 DEF PollReady, Abs!Deny
    <2> QED BY <2>3 DEF Abs!LockNext
<1>5. CASE AssertThenMutate(c) /\ UNCHANGED lpc
    BY <1>5, StutterRefines DEF AssertThenMutate, AbsSession, AbsFlock
<1>6. CASE (AssertThenMutate(c) \/ fleet_lock_release(c)) /\ BeginRelease(c)
    <2>0. lpc[c] = "held" /\ lpc' = [lpc EXCEPT ![c] = "releasing"] /\ pid' = pid
        BY <1>6 DEF AssertThenMutate, fleet_lock_release
    <2>1. /\ AbsSession[c] \in {"open", "lost"}
          /\ AbsSession' = [AbsSession EXCEPT ![c] = "closed"]
        BY <2>0 DEF AbsSession
    <2>2. AbsFlock' = AbsFlock
        BY <1>6 DEF AssertThenMutate, fleet_lock_release, AbsFlock
    <2>3. Abs!Close(c)
        BY <1>6, <2>1, <2>2 DEF AssertThenMutate, fleet_lock_release, Abs!Close
    <2> QED BY <2>3 DEF Abs!LockNext
<1>7. CASE MutationEnds(c)
    BY <1>7, StutterRefines DEF MutationEnds, AbsSession, AbsFlock
<1>8. CASE AwaitChild(c)
    BY <1>8, StutterRefines DEF AwaitChild, AbsSession, AbsFlock
<1> QED
    BY <1>1, <1>2, <1>3, <1>4, <1>5, <1>6, <1>7, <1>8
    DEF CoordStep, PollReady, AssertThenMutate, fleet_lock_release

\* Steps of the remote shell: LateTake and Vanish, or invisible.
LEMMA RemoteStepRefines ==
    ASSUME LockInv, NEW c \in Coord, RemoteStep(c)
    PROVE  Abs!LockNext \/ UNCHANGED Abs!lockVars
<1> USE DEF LockInv, TypeOK, LockPc, ControlInv
<1>1. CASE RemoteFlock(c) /\ lpc[c] \in {"idle", "polling"}
    BY <1>1, StutterRefines DEF RemoteFlock, AbsSession, AbsFlock
<1>2. CASE RemoteFlock(c) /\ lpc[c] \notin {"idle", "polling"}
    <2>1. AbsSession[c] = "closed" /\ AbsSession' = AbsSession
        BY <1>2 DEF RemoteFlock, AbsSession
    <2>2. AbsFlock = {} /\ AbsFlock' = {c}
        BY <1>2 DEF RemoteFlock, AbsFlock
    <2>3. Abs!LateTake(c)
        BY <1>2, <2>1, <2>2 DEF RemoteFlock, Abs!LateTake
    <2> QED BY <2>3 DEF Abs!LockNext, Abs!LockEnvironment
<1>3. CASE RemoteRefuse(c)
    BY <1>3, StutterRefines DEF RemoteRefuse, AbsSession, AbsFlock
<1>4. CASE RemoteExit(c) /\ c \notin AbsFlock
    BY <1>4, StutterRefines DEF RemoteExit, AbsSession, AbsFlock
<1>5. CASE RemoteExit(c) /\ c \in AbsFlock
    <2>1. AbsSession' = AbsSession
        BY <1>5 DEF RemoteExit, AbsSession
    <2>2. AbsSession[c] = "closed" \/ down[c]
        BY <1>5 DEF RemoteExit, AbsSession, AbsFlock, SessionInv
    <2>3. AbsFlock' = AbsFlock \ {c}
        BY <1>5 DEF RemoteExit, AbsFlock
    <2>4. Abs!Vanish(c)
        BY <1>5, <2>1, <2>2, <2>3 DEF RemoteExit, Abs!Vanish
    <2> QED BY <2>4 DEF Abs!LockNext, Abs!LockEnvironment
<1> QED BY <1>1, <1>2, <1>3, <1>4, <1>5 DEF RemoteStep

\* Steps of the ssh client, of the network and kills: Notice, Drop, Deny, Close.
LEMMA OtherStepRefines ==
    ASSUME LockInv, NEW c \in Coord, ClientStep(c) \/ Crash(c) \/ ConnectionLoss(c)
    PROVE  Abs!LockNext \/ UNCHANGED Abs!lockVars
<1> USE DEF LockInv, TypeOK, LockPc, ControlInv
<1>1. CASE DeliverReady(c)
    BY <1>1, StutterRefines DEF DeliverReady, AbsSession, AbsFlock
<1>2. CASE ChildExit(c) /\ lpc[c] # "held"
    BY <1>2, StutterRefines DEF ChildExit, AbsSession, AbsFlock
<1>3. CASE ChildExit(c) /\ lpc[c] = "held"
    <2>1. AbsSession[c] = "open" /\ AbsSession' = [AbsSession EXCEPT ![c] = "lost"]
        BY <1>3 DEF ChildExit, AbsSession
    <2>2. down[c]
        BY <1>3 DEF ChildExit, SessionInv
    <2>3. AbsFlock' = AbsFlock
        BY <1>3 DEF ChildExit, AbsFlock
    <2>4. Abs!Notice(c)
        BY <1>3, <2>1, <2>2, <2>3 DEF ChildExit, Abs!Notice
    <2> QED BY <2>4 DEF Abs!LockNext, Abs!LockEnvironment
<1>4. CASE Crash(c) /\ lpc[c] = "polling"
    <2>1. AbsSession[c] = "none" /\ AbsSession' = [AbsSession EXCEPT ![c] = "closed"]
        BY <1>4 DEF Crash, AbsSession
    <2>2. \/ AbsFlock' = AbsFlock
          \/ AbsFlock = {} /\ AbsFlock' = {c}
        BY <1>4 DEF Crash, HolderInv, AbsFlock
    <2>3. Abs!Deny(c)
        BY <1>4, <2>1, <2>2 DEF Crash, Abs!Deny
    <2> QED BY <2>3 DEF Abs!LockNext
<1>5. CASE Crash(c) /\ lpc[c] = "held"
    <2>1. /\ AbsSession[c] \in {"open", "lost"}
          /\ AbsSession' = [AbsSession EXCEPT ![c] = "closed"]
        BY <1>5 DEF Crash, AbsSession
    <2>2. AbsFlock' = AbsFlock
        BY <1>5 DEF Crash, AbsFlock
    <2>3. Abs!Close(c)
        BY <1>5, <2>1, <2>2 DEF Crash, Abs!Close
    <2> QED BY <2>3 DEF Abs!LockNext
<1>6. CASE Crash(c) /\ lpc[c] = "releasing"
    BY <1>6, StutterRefines DEF Crash, AbsSession, AbsFlock
<1>7. CASE ConnectionLoss(c)
    <2>1. AbsSession' = AbsSession /\ AbsFlock' = AbsFlock
        BY <1>7 DEF ConnectionLoss, AbsSession, AbsFlock
    <2>2. Abs!Drop(c)
        BY <1>7, <2>1 DEF ConnectionLoss, Abs!Drop
    <2> QED BY <2>2 DEF Abs!LockNext, Abs!LockEnvironment
<1> QED BY <1>1, <1>2, <1>3, <1>4, <1>5, <1>6, <1>7 DEF ClientStep, Crash

\* Every behaviour of the shell code is a behaviour of the lock service.
THEOREM LockRefinement == Spec => ImplementsLockService
<1>1. Init => Abs!LockInit
    BY DEF Init, Abs!LockInit, AbsSession, AbsFlock
<1>2. LockInv /\ [Next]_vars => [Abs!LockNext]_(Abs!lockVars)
    <2> SUFFICES ASSUME LockInv, [Next]_vars
                 PROVE  Abs!LockNext \/ UNCHANGED Abs!lockVars
        OBVIOUS
    <2>1. CASE Next
        BY <2>1, CoordStepRefines, RemoteStepRefines, OtherStepRefines DEF Next
    <2>2. CASE UNCHANGED vars
        BY <2>2 DEF vars, Abs!lockVars, AbsSession, AbsFlock
    <2> QED BY <2>1, <2>2
<1> QED BY <1>1, <1>2, LockInvariant, PTL DEF Spec, ImplementsLockService, Abs!LockSpec
=============================================================================
