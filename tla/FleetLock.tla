----------------------------- MODULE FleetLock -----------------------------
(***************************************************************************)
(* The canonical fleet lock as scripts/lib/fleet.sh builds it: a local     *)
(* `ssh rank0 ... flock -n 9 ... cat' child whose standard input is a FIFO *)
(* that the coordinator keeps open on descriptor 8.  The remote shell      *)
(* holds the flock while its cat runs; closing descriptor 8 ends the cat.  *)
(*                                                                         *)
(* A coordinator is one run of launch_cluster.sh, stop_cluster.sh or       *)
(* stage_image.sh; here its work is a bounded series of mutating remote    *)
(* commands, each issued after fleet_lock_assert_held.                     *)
(*                                                                         *)
(* Left out: the temporary directory and its files, the exit codes 69, 70  *)
(* and 73 (all end the remote shell), the wording of the errors.  A TCP    *)
(* connection that is lost never comes back.                               *)
(***************************************************************************)
EXTENDS Integers, FiniteSets

CONSTANTS
    Coord,              \* coordinator processes
    ReadyAttempts,      \* CHAMPION_LOCK_READY_ATTEMPTS (100)
    ReleaseAttempts,    \* CHAMPION_LOCK_RELEASE_ATTEMPTS (40)
    MaxWork,            \* bound: mutating commands of one coordinator
    MaxDrops,           \* bound: lost connections
    MaxCrashes          \* bound: coordinators killed by SIGKILL

ASSUME FleetLockAssumption ==
    /\ IsFiniteSet(Coord)
    /\ ReadyAttempts \in Nat \ {0}
    /\ ReleaseAttempts \in Nat \ {0}
    /\ MaxWork \in Nat
    /\ MaxDrops \in Nat
    /\ MaxCrashes \in Nat

VARIABLES
    lpc,        \* lpc[c]: where coordinator c stands in the lock protocol
    pid,        \* pid[c]: the ssh child (CHAMPION_REMOTE_LOCK_PID)
    writer,     \* writer[c]: descriptor 8 is open (.._LOCK_WRITER_OPEN)
    ready,      \* ready[c]: the READY line is in the child's stdout file
    tries,      \* tries[c]: iterations left of the loop c is in
    remote,     \* remote[c]: the remote shell of c's session
    down,       \* down[c]: the connection of c's session is lost
    inflight,   \* inflight[c]: a mutating remote command of c is executing
    work        \* work[c]: mutating commands c has issued

vars == <<lpc, pid, writer, ready, tries, remote, down, inflight, work>>

LockPc == {"idle", "polling", "held", "releasing", "done", "crashed"}

TypeOK ==
    /\ lpc \in [Coord -> LockPc]
    /\ pid \in [Coord -> {"none", "alive", "exited"}]
    /\ writer \in [Coord -> BOOLEAN]
    /\ ready \in [Coord -> BOOLEAN]
    /\ tries \in [Coord -> Nat]
    /\ remote \in [Coord -> {"none", "starting", "holding", "gone"}]
    /\ down \in [Coord -> BOOLEAN]
    /\ inflight \in [Coord -> BOOLEAN]
    /\ work \in [Coord -> Nat]

Init ==
    /\ lpc = [c \in Coord |-> "idle"]
    /\ pid = [c \in Coord |-> "none"]
    /\ writer = [c \in Coord |-> FALSE]
    /\ ready = [c \in Coord |-> FALSE]
    /\ tries = [c \in Coord |-> 0]
    /\ remote = [c \in Coord |-> "none"]
    /\ down = [c \in Coord |-> FALSE]
    /\ inflight = [c \in Coord |-> FALSE]
    /\ work = [c \in Coord |-> 0]

-----------------------------------------------------------------------------
(* The coordinator.  *)

\* The child is started in the background, then the FIFO opened for writing.
fleet_lock_acquire(c) ==
    /\ lpc[c] = "idle"
    /\ lpc' = [lpc EXCEPT ![c] = "polling"]
    /\ pid' = [pid EXCEPT ![c] = "alive"]
    /\ writer' = [writer EXCEPT ![c] = TRUE]
    /\ tries' = [tries EXCEPT ![c] = ReadyAttempts]
    /\ remote' = [remote EXCEPT ![c] = "starting"]
    /\ UNCHANGED <<ready, down, inflight, work>>

\* fleet_lock_assert_held: the writer is open and kill -0 reaches the child.
fleet_lock_assert_held(c) == writer[c] /\ pid[c] = "alive"

\* The first lines of fleet_lock_release: descriptor 8 is closed before the
\* loop that waits for the child begins.
BeginRelease(c) ==
    /\ lpc' = [lpc EXCEPT ![c] = "releasing"]
    /\ writer' = [writer EXCEPT ![c] = FALSE]
    /\ tries' = [tries EXCEPT ![c] = ReleaseAttempts]

\* Mutant: the loop accepts a live child before its READY line.
PollAnyLiveChild(c) ==
    /\ lpc[c] = "polling"
    /\ \/ /\ fleet_lock_assert_held(c)
          /\ lpc' = [lpc EXCEPT ![c] = "held"]
          /\ UNCHANGED <<writer, tries>>
       \/ pid[c] # "alive" /\ BeginRelease(c)
    /\ UNCHANGED <<pid, ready, remote, down, inflight, work>>

\* Mutant: the loop tests its counter after counting down.
PollOneTooMany(c) ==
    /\ lpc[c] = "polling" /\ ~ready[c] /\ pid[c] = "alive"
    /\ tries' = [tries EXCEPT ![c] = @ - 1]
    /\ UNCHANGED <<lpc, pid, writer, ready, remote, down, inflight, work>>

\* Mutant: the loop waits for READY alone, without bound and without kill -0.
PollWithoutBound(c) ==
    /\ lpc[c] = "polling" /\ ready[c] /\ fleet_lock_assert_held(c)
    /\ lpc' = [lpc EXCEPT ![c] = "held"]
    /\ UNCHANGED <<pid, writer, ready, tries, remote, down, inflight, work>>

\* One iteration of the loop that waits for READY.  The last iteration sleeps
\* and gives up, whatever arrived meanwhile.
PollReady(c) ==
    /\ lpc[c] = "polling"
    /\ \/ /\ ready[c] /\ fleet_lock_assert_held(c)
          /\ lpc' = [lpc EXCEPT ![c] = "held"]
          /\ UNCHANGED <<writer, tries>>
       \/ /\ ~ready[c] /\ pid[c] = "alive" /\ tries[c] > 1
          /\ tries' = [tries EXCEPT ![c] = @ - 1]
          /\ UNCHANGED <<lpc, writer>>
       \/ /\ pid[c] # "alive" \/ (~ready[c] /\ tries[c] <= 1)
          /\ BeginRelease(c)
    /\ UNCHANGED <<pid, ready, remote, down, inflight, work>>

\* `fleet_lock_assert_held || return', then a mutating remote command; the
\* failing branch leads to the EXIT trap and fleet_lock_release.
AssertThenMutate(c) ==
    /\ lpc[c] = "held" /\ ~inflight[c] /\ work[c] < MaxWork
    /\ \/ /\ fleet_lock_assert_held(c)
          /\ inflight' = [inflight EXCEPT ![c] = TRUE]
          /\ work' = [work EXCEPT ![c] = @ + 1]
          /\ UNCHANGED <<lpc, writer, tries>>
       \/ /\ ~fleet_lock_assert_held(c)
          /\ BeginRelease(c)
          /\ UNCHANGED <<inflight, work>>
    /\ UNCHANGED <<pid, ready, remote, down>>

\* The remote command ends; that of a killed coordinator ends by itself.
MutationEnds(c) ==
    /\ inflight[c]
    /\ inflight' = [inflight EXCEPT ![c] = FALSE]
    /\ UNCHANGED <<lpc, pid, writer, ready, tries, remote, down, work>>

\* The script is over and its EXIT trap runs fleet_lock_release.
fleet_lock_release(c) ==
    /\ lpc[c] = "held" /\ ~inflight[c]
    /\ BeginRelease(c)
    /\ UNCHANGED <<pid, ready, remote, down, inflight, work>>

\* One iteration of the wait for the child; after the last one the child is
\* killed.  Either way it is waited for and the variables are unset.
AwaitChild(c) ==
    /\ lpc[c] = "releasing"
    /\ \/ /\ pid[c] = "alive" /\ tries[c] > 0
          /\ tries' = [tries EXCEPT ![c] = @ - 1]
          /\ UNCHANGED <<lpc, pid>>
       \/ /\ pid[c] = "exited" \/ tries[c] = 0
          /\ pid' = [pid EXCEPT ![c] = "exited"]
          /\ lpc' = [lpc EXCEPT ![c] = "done"]
          /\ UNCHANGED tries
    /\ UNCHANGED <<writer, ready, remote, down, inflight, work>>

\* Mutant: descriptor 8 opened before the ssh child, which inherits it.
CrashWriterInherited(c) ==
    /\ lpc[c] \in {"polling", "held", "releasing"}
    /\ Cardinality({d \in Coord : lpc[d] = "crashed"}) < MaxCrashes
    /\ lpc' = [lpc EXCEPT ![c] = "crashed"]
    /\ UNCHANGED <<pid, writer, ready, tries, remote, down, inflight, work>>

\* SIGKILL: no trap runs, the kernel closes descriptor 8, the ssh child and a
\* remote command under way live on.
Crash(c) ==
    /\ lpc[c] \in {"polling", "held", "releasing"}
    /\ Cardinality({d \in Coord : lpc[d] = "crashed"}) < MaxCrashes
    /\ lpc' = [lpc EXCEPT ![c] = "crashed"]
    /\ writer' = [writer EXCEPT ![c] = FALSE]
    /\ UNCHANGED <<pid, ready, tries, remote, down, inflight, work>>

-----------------------------------------------------------------------------
(* The remote shell, the ssh client and the network.  *)

\* Mutant: the exit status of flock is not tested.
RemoteFlockUntested(c) ==
    /\ remote[c] = "starting"
    /\ remote' = [remote EXCEPT ![c] = "holding"]
    /\ UNCHANGED <<lpc, pid, writer, ready, tries, down, inflight, work>>

\* flock -n succeeds.  The shell does not depend on its connection for this.
RemoteFlock(c) ==
    /\ remote[c] = "starting"
    /\ \A d \in Coord : remote[d] # "holding"
    /\ remote' = [remote EXCEPT ![c] = "holding"]
    /\ UNCHANGED <<lpc, pid, writer, ready, tries, down, inflight, work>>

\* flock -n fails, or the shell cannot prepare the lock file: it exits.
RemoteRefuse(c) ==
    /\ remote[c] = "starting"
    /\ remote' = [remote EXCEPT ![c] = "gone"]
    /\ UNCHANGED <<lpc, pid, writer, ready, tries, down, inflight, work>>

\* The READY line reaches the coordinator's stdout file.
DeliverReady(c) ==
    /\ remote[c] = "holding" /\ ~ready[c] /\ ~down[c] /\ pid[c] = "alive"
    /\ ready' = [ready EXCEPT ![c] = TRUE]
    /\ UNCHANGED <<lpc, pid, writer, tries, remote, down, inflight, work>>

\* Mutant: no cat keeps the remote shell alive after READY.
RemoteExitWithoutCat(c) ==
    /\ remote[c] = "holding"
    /\ remote' = [remote EXCEPT ![c] = "gone"]
    /\ UNCHANGED <<lpc, pid, writer, ready, tries, down, inflight, work>>

\* The remote cat ends: it reads end of file (the writer is closed, or the ssh
\* client is gone), or sshd gives up on a lost connection.
RemoteExit(c) ==
    /\ \/ remote[c] = "holding" /\ ~writer[c]
       \/ remote[c] = "holding" /\ pid[c] = "exited"
       \/ remote[c] \in {"starting", "holding"} /\ down[c]
    /\ remote' = [remote EXCEPT ![c] = "gone"]
    /\ UNCHANGED <<lpc, pid, writer, ready, tries, down, inflight, work>>

\* The ssh client exits with its remote shell or on a lost connection.
ChildExit(c) ==
    /\ pid[c] = "alive"
    /\ remote[c] = "gone" \/ down[c]
    /\ pid' = [pid EXCEPT ![c] = "exited"]
    /\ UNCHANGED <<lpc, writer, ready, tries, remote, down, inflight, work>>

\* The connection is lost.  Either end notices later, independently.
ConnectionLoss(c) ==
    /\ pid[c] = "alive" /\ ~down[c]
    /\ Cardinality({d \in Coord : down[d]}) < MaxDrops
    /\ down' = [down EXCEPT ![c] = TRUE]
    /\ UNCHANGED <<lpc, pid, writer, ready, tries, remote, inflight, work>>

-----------------------------------------------------------------------------
CoordStep(c) ==
    \/ fleet_lock_acquire(c) \/ PollReady(c) \/ AssertThenMutate(c)
    \/ MutationEnds(c) \/ fleet_lock_release(c) \/ AwaitChild(c)

RemoteStep(c) == RemoteFlock(c) \/ RemoteRefuse(c) \/ RemoteExit(c)

ClientStep(c) == DeliverReady(c) \/ ChildExit(c)

Next ==
    \E c \in Coord :
        \/ CoordStep(c) \/ RemoteStep(c) \/ ClientStep(c)
        \/ Crash(c) \/ ConnectionLoss(c)

Spec == Init /\ [][Next]_vars

\* The operating systems run every process, and TCP keep-alive makes either end
\* notice a lost connection at last; nothing obliges a connection to be lost or
\* a coordinator to be killed.
Fairness ==
    \A c \in Coord :
        WF_vars(CoordStep(c)) /\ WF_vars(RemoteStep(c)) /\ WF_vars(ClientStep(c))

FairSpec == Spec /\ Fairness

-----------------------------------------------------------------------------
(* Properties.  *)

\* A coordinator that the lock library cannot be blamed for: its connection is
\* lost (and perhaps unnoticed), or it was killed with a command under way.
Excused(c) == down[c] \/ lpc[c] = "crashed"

\* A mutating command executes only while the remote shell of its coordinator
\* holds the flock, unless the coordinator is excused.
LockCoversMutation ==
    \A c \in Coord : inflight[c] /\ ~Excused(c) => remote[c] = "holding"

\* Two coordinators mutate the fleet at once only if one of them is excused:
\* what acquire, assert-held and release give the scripts that use them.
MutationsExclusive ==
    \A c, d \in Coord :
        c # d /\ inflight[c] /\ inflight[d] => Excused(c) \/ Excused(d)

\* Every coordinator leaves the protocol: the polling loop and the wait for the
\* child are bounded, whatever the remote side does.
EveryCoordinatorLeaves == \A c \in Coord : <>(lpc[c] \in {"done", "crashed"})

\* The flock never outlives its coordinator for good: end of file on
\* descriptor 8 frees it even after SIGKILL or an abandoned attempt.
FlockAlwaysFreed == \A c \in Coord : (remote[c] = "holding") ~> (remote[c] = "gone")

-----------------------------------------------------------------------------
(* The shell code implements LockService: a session is open from the READY *)
(* that PollReady sees until release, crash or the exit of the ssh child;  *)
(* the flock counts once the coordinator has left the polling loop.        *)
AbsSession ==
    [c \in Coord |-> IF lpc[c] \in {"idle", "polling"} THEN "none"
                     ELSE IF lpc[c] # "held" THEN "closed"
                     ELSE IF pid[c] = "alive" THEN "open" ELSE "lost"]

AbsFlock == {c \in Coord : remote[c] = "holding" /\ lpc[c] \notin {"idle", "polling"}}

Abs == INSTANCE LockService WITH
    LossProne <- Coord, session <- AbsSession, flock <- AbsFlock

\* Every behaviour of the shell code is one of the lock service.
ImplementsLockService == Abs!LockSpec
=============================================================================
