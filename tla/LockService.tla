---------------------------- MODULE LockService ----------------------------
(***************************************************************************)
(* What scripts/lib/fleet.sh promises the scripts that source it: the      *)
(* canonical fleet lock, an flock(2) on rank 0 whose life is tied to an    *)
(* SSH session of the coordinator (fleet_lock_acquire, _assert_held and    *)
(* _release, lines 78-168).                                                *)
(*                                                                         *)
(* The service is deliberately weak where the code is weak: once the       *)
(* connection of a coordinator is down, the flock may vanish before the    *)
(* coordinator notices, and an attempt that was given up may still take    *)
(* the flock for a while.  FleetLock shows that the shell code implements  *)
(* this module; FleetController is built on top of it.                     *)
(***************************************************************************)
CONSTANTS
    Coord,      \* coordinator processes: one run of launch, stop or stage-image
    LossProne   \* the coordinators whose connection may be lost

ASSUME LockServiceAssumption ==
    LossProne \subseteq Coord

VARIABLES
    session,    \* session[c]: what coordinator c believes of its lock session
    flock,      \* the coordinators whose remote shell holds the flock
    down        \* down[c]: the connection that carries c's session is lost

lockVars == <<session, flock, down>>

LockTypeOK ==
    /\ session \in [Coord -> {"none", "open", "lost", "closed"}]
    /\ flock \in SUBSET Coord
    /\ down \in [Coord -> BOOLEAN]

LockInit ==
    /\ session = [c \in Coord |-> "none"]
    /\ flock = {}
    /\ down = [c \in Coord |-> FALSE]

\* fleet_lock_acquire returned 0.  READY was printed by a remote shell that
\* held the flock; it may hold it no longer if the connection is lost since.
Grant(c) ==
    /\ session[c] = "none"
    /\ session' = [session EXCEPT ![c] = "open"]
    /\ \/ flock = {} /\ flock' = {c}
       \/ down[c] /\ UNCHANGED flock
    /\ UNCHANGED down

\* fleet_lock_acquire returned 1 (busy, timed out, or the process died).  The
\* remote shell may have taken the flock all the same.
Deny(c) ==
    /\ session[c] = "none"
    /\ session' = [session EXCEPT ![c] = "closed"]
    /\ \/ UNCHANGED flock
       \/ flock = {} /\ flock' = {c}
    /\ UNCHANGED down

\* The remote shell of an attempt that was given up reaches its flock -n late.
LateTake(c) ==
    /\ session[c] = "closed"
    /\ flock = {}
    /\ flock' = {c}
    /\ UNCHANGED <<session, down>>

\* The connection of c's session is lost; nobody has noticed yet.
Drop(c) ==
    /\ c \in LossProne /\ ~down[c]
    /\ down' = [down EXCEPT ![c] = TRUE]
    /\ UNCHANGED <<session, flock>>

\* c's local ssh child exits because its connection is lost.
Notice(c) ==
    /\ down[c]
    /\ session[c] = "open"
    /\ session' = [session EXCEPT ![c] = "lost"]
    /\ UNCHANGED <<flock, down>>

\* c's remote shell ends and the kernel drops the flock: c closed its end, or
\* the connection is lost.
Vanish(c) ==
    /\ c \in flock
    /\ session[c] = "closed" \/ down[c]
    /\ flock' = flock \ {c}
    /\ UNCHANGED <<session, down>>

\* fleet_lock_release, or the death of the coordinator.
Close(c) ==
    /\ session[c] \in {"open", "lost"}
    /\ session' = [session EXCEPT ![c] = "closed"]
    /\ UNCHANGED <<flock, down>>

\* The steps of the service that no coordinator takes.
LockEnvironment(c) == LateTake(c) \/ Drop(c) \/ Notice(c) \/ Vanish(c)

LockNext == \E c \in Coord : Grant(c) \/ Deny(c) \/ Close(c) \/ LockEnvironment(c)

LockSpec == LockInit /\ [][LockNext]_lockVars

-----------------------------------------------------------------------------
(* The promise.  *)

\* The flock has at most one holder.
FlockExclusive == \A c, d \in flock : c = d

\* A coordinator that believes its session open holds the flock, unless its
\* connection is lost.
OpenSessionHolds == \A c \in Coord : session[c] = "open" => c \in flock \/ down[c]

\* fleet_lock_assert_held: what the coordinator can tell locally.
AssertHeld(c) == session[c] = "open"
=============================================================================
