----------------------- MODULE FleetControllerProofs -----------------------
(***************************************************************************)
(* The safety of the fleet controller for any number of ranks, runs and    *)
(* coordinators.  The first invariant needs nothing of the lock: the       *)
(* receipts, docker's refusal of a taken name and the one port of the Ray  *)
(* head are enough.  The second is about a fleet on which no connection is *)
(* lost (LossProne = {}): then one coordinator works at a time.            *)
(***************************************************************************)
EXTENDS FleetController, TLAPS

\* The blocks of a launch, before, while and after it creates its containers.
Sizing == {"preflight", "existing", "consume", "compact", "sample", "replace"}
Creating == {"check", "create"}
Created == {"readback", "rayhead", "rayworker", "serve", "health", "models",
            "rankgate", "loggate", "chat", "sparse", "idle", "postidle", "postlogs",
            "final", "pin", "pinverify", "pinprobe", "rollback", "rollbackprobe"}
FastOnly == {"existing", "consume", "compact", "sample", "sparse", "pin",
             "pinverify", "pinprobe", "rollback", "rollbackprobe"}

\* The blocks in which a coordinator has its lock session open.
Working == Sizing \cup Creating \cup Created \cup {"stop", "stage", "staged"}

\* Which script, profile and loop a block belongs to.
ControlInv ==
    \A c \in Coord :
        /\ pc[c] \in Sizing \cup Creating \cup Created => job[c].kind = "launch"
        /\ pc[c] \in FastOnly => Fast(c)
        /\ pc[c] = "replace" => job[c].replace # None
        /\ pc[c] = "stop" => job[c].kind = "stop"
        /\ pc[c] \in {"stage", "staged"} => job[c].kind = "stage"
        /\ pc[c] = "rayworker" => ix[c] > 0
        /\ pc[c] \in {"observe", "failstop"} => loc[c].started /\ ~loc[c].ready
        /\ pc[c] \in Working \cup {"start", "onexit"} => loc[c].round = 0
        /\ pc[c] = "observe" => loc[c].round <= 2

\* A coordinator that may compact has the receipt of its nonce, and nobody else
\* has the same.
HasConsumed(c) == pc[c] = "compact" \/ c \in compacted

NonceInv ==
    /\ \A c \in Coord : HasConsumed(c) => job[c].nonce \in receipts
    /\ \A c, d \in Coord : HasConsumed(c) /\ HasConsumed(d) /\ c # d
            => job[c].nonce # job[d].nonce

\* The container of c's run on host h is one that c created.
Has(c, h) == Mine(c, h).label = "own" /\ Mine(c, h).born = c

\* The containers of a run have the creator of its rank 0; a launch before the
\* loop that creates them has none, one in the loop has the lower ranks, one
\* beyond the loop has them all.
CreatorInv ==
    /\ \A h \in Rank, r \in Runs : cont[h][r].label = "own" =>
            /\ cont[0][r].label = "own"
            /\ cont[h][r].born = cont[0][r].born
            /\ cont[h][r].born \in Coord
            /\ job[cont[h][r].born].run = r
    /\ \A c \in Coord :
            /\ pc[c] \in Sizing \cup {"start"} => \A h \in Rank : ~Has(c, h)
            /\ pc[c] \in Creating => \A h \in Rank : h < ix[c] => Has(c, h)
            /\ pc[c] \in Created => \A h \in Rank : Has(c, h)
            /\ loc[c].started => Has(c, 0)

\* The ranks that the loops over docker update have reached.
PinInv ==
    \A c \in Coord, h \in Rank :
        /\ pc[c] = "pin" /\ h < ix[c] => Mine(c, h).pin = "big"
        /\ pc[c] \in {"pinverify", "pinprobe"} => Mine(c, h).pin = "big"
        /\ pc[c] = "final" /\ Fast(c) => Mine(c, h).pin = "big"
        /\ pc[c] = "rollback" /\ h < ix[c] => Mine(c, h).pin = "all"
        /\ pc[c] = "rollbackprobe" => Mine(c, h).pin = "all"

\* One run owns the port of the Ray head, and only its engine gets to the GPUs.
HeadInv ==
    /\ \A r \in Runs : cont[0][r].ray # None => cont[0][r].ray = r /\ rayHead = r
    /\ \A r \in Runs : serve[r] \in {"gpu", "up"} => rayHead = r

\* The raylets of a launch: none before they are started, its own cluster if its
\* head took the port, and its own once rank_gate saw one on every rank.
RayInv ==
    /\ HeadInv
    /\ \A c \in Coord, h \in Rank :
        /\ pc[c] \in Creating \cup {"readback", "rayhead"} /\ Has(c, h)
                => Mine(c, h).ray = None
        /\ pc[c] \in {"rayworker", "serve", "health", "models", "rankgate"}
           /\ Mine(c, 0).ray # None => Mine(c, h).ray \in {None, job[c].run}
        /\ pc[c] \in {"loggate", "chat", "sparse"} /\ Mine(c, h).up
                => Mine(c, h).ray = job[c].run

\* min_mem and max_mem have their initial values.
Unsampled(c) ==
    \/ pc[c] \in {"start", "existing", "consume", "compact"}
    \/ pc[c] = "preflight" /\ Fast(c)
    \/ pc[c] = "sample" /\ ix[c] = 0

\* The blocks before any host is sized.
Unsized == {"start", "preflight", "existing", "consume", "compact", "sample"}

\* What a coordinator sampled and what it asks docker for.
CoordSize(d) ==
    /\ Unsampled(d) => loc[d].lo = 0 /\ loc[d].hi = 0
    /\ pc[d] = "sample" /\ ix[d] > 0 => loc[d].lo > 0
    /\ pc[d] = "sample" => \A h \in Rank : h < ix[d] =>
            loc[d].lo <= loc[d].sampled[h] /\ loc[d].sampled[h] <= loc[d].hi
    /\ pc[d] \in Unsized => \A h \in Rank : loc[d].want[h] = 0
    /\ \A h \in Rank : loc[d].want[h] > 0 => Fits(d, h, loc[d].want[h])
    /\ pc[d] \in Creating \cup {"replace", "readback"} /\ Fast(d) =>
            \A g, h \in Rank : loc[d].want[h] > 0 /\ loc[d].want[g] = loc[d].want[h]
    /\ pc[d] \in Creating \cup {"readback"} /\ Fast(d) =>
            \A h \in Rank : Has(d, h) => Mine(d, h).floor = loc[d].want[h]
    /\ pc[d] \in {"rayhead", "rayworker"} /\ Fast(d) =>
            \A g, h \in Rank : Mine(d, h).floor > 0 /\ Mine(d, g).floor = Mine(d, h).floor

\* The floors of the containers; a raylet of Fast runs when all ranks have theirs.
FloorInv ==
    \A r \in Runs, g, h \in Rank :
        /\ cont[g][r].floor > 0 => /\ cont[g][r].label = "own"
                                   /\ Fits(cont[g][r].born, g, cont[g][r].floor)
        /\ cont[g][r].ray # None => cont[g][r].label = "own"
        /\ cont[g][r].ray # None /\ Fast(cont[g][r].born) =>
                /\ cont[h][r].label = "own"
                /\ cont[h][r].floor > 0
                /\ cont[g][r].floor = cont[h][r].floor

SizeInv == (\A c \in Coord : CoordSize(c)) /\ FloorInv

\* The observation of a failed launch has passed rank h.
Condemned(c, h) ==
    \/ pc[c] = "observe" /\ (loc[c].round > 0 \/ h < ix[c])
    \/ pc[c] = "failstop"

\* A container found failed is not healthy again, and no query failed.
ObserveInv ==
    faults = 0 =>
        \A c \in Coord, h \in Rank :
            Condemned(c, h) => Mine(c, h).label = "own" /\ ~Healthy(Mine(c, h))

\* The invariant.  No part of it mentions the lock.
FleetInv ==
    /\ TypeOK
    /\ ControlInv
    /\ NonceInv
    /\ CreatorInv
    /\ PinInv
    /\ RayInv
    /\ SizeInv
    /\ ObserveInv

-----------------------------------------------------------------------------
\* Without a lost connection a coordinator at work has its session open and its
\* shell the flock.
SessionInv ==
    /\ FlockExclusive
    /\ OpenSessionHolds
    /\ \A c \in Coord :
        /\ ~down[c]
        /\ session[c] # "lost"
        /\ pc[c] = "start" => session[c] = "none"
        /\ pc[c] \in Working => session[c] = "open"

\* Nobody changes, beside the coordinator at work, what that coordinator has read.
Sole(d) ==
    /\ pc[d] = "stop" /\ faults = 0 =>
            \A h \in Rank : h > ix[d] /\ Mine(d, h).label = "own" => ~Mine(d, h).up
    /\ pc[d] \in {"loggate", "chat", "sparse"} => rayHead \in {None, job[d].run}

SoleInv == \A c \in Coord : Sole(c)

SoundInv == FleetInv /\ SessionInv /\ SoleInv

-----------------------------------------------------------------------------
\* A coordinator goes on elsewhere: control and locals of the others stay.
Elsewhere(c) ==
    \A d \in Coord : d # c => pc'[d] = pc[d] /\ ix'[d] = ix[d] /\ loc'[d] = loc[d]

\* The locals of c that matter to the invariant stay.
SameLocals(c) ==
    /\ loc'[c].started = loc[c].started
    /\ loc'[c].ready = loc[c].ready
    /\ loc'[c].lo = loc[c].lo
    /\ loc'[c].hi = loc[c].hi
    /\ loc'[c].want = loc[c].want
    /\ loc'[c].sampled = loc[c].sampled
    /\ loc'[c].round = loc[c].round

\* The types of what belongs to the coordinators.
CtlType ==
    /\ pc \in [Coord -> Labels]
    /\ ix \in [Coord -> Rank]
    /\ loc \in [Coord -> Locals]

\* Rank 0 and the last rank are ranks.
LEMMA RankEnds == N \in Nat \ {0} /\ 0 \in Rank /\ N - 1 \in Rank
BY ControllerAssumption DEF ControllerAssumption, Rank

\* A read of MemAvailable is a number.
LEMMA MemFacts ==
    ASSUME CtlType, NEW c \in Coord, NEW m \in MemValues[ix[c]]
    PROVE  m \in Nat
BY ControllerAssumption DEF ControllerAssumption, CtlType

\* A script goes on at block l and rank i with locals v.
LEMMA MoveFacts ==
    ASSUME CtlType, NEW c \in Coord, NEW l \in Labels, NEW i \in Rank, NEW v \in Locals,
           Goto(c, l, i), loc' = [loc EXCEPT ![c] = v]
    PROVE  /\ CtlType'
           /\ pc'[c] = l /\ ix'[c] = i /\ loc'[c] = v
           /\ Elsewhere(c)
BY DEF CtlType, Goto, Elsewhere

\* A script goes on and keeps its locals.
LEMMA GotoFacts ==
    ASSUME CtlType, NEW c \in Coord, NEW l \in Labels, NEW i \in Rank,
           Goto(c, l, i), UNCHANGED loc
    PROVE  /\ CtlType'
           /\ pc'[c] = l /\ ix'[c] = i /\ loc'[c] = loc[c]
           /\ SameLocals(c) /\ Elsewhere(c)
BY DEF CtlType, Goto, Elsewhere, SameLocals

\* An ascending loop has a next rank, or ends after the last.
LEMMA NextRankFacts ==
    ASSUME CtlType, NEW c \in Coord, NEW l \in Labels, NEW i \in Rank,
           NextRank(c, l, i)
    PROVE  \/ /\ ix[c] < N - 1
              /\ ix[c] + 1 \in Rank
              /\ pc[c] \in Labels
              /\ Goto(c, pc[c], ix[c] + 1)
           \/ /\ ix[c] = N - 1
              /\ Goto(c, l, i)
<1>1. ix[c] \in 0 .. N - 1 /\ pc[c] \in Labels
    BY DEF CtlType, Rank
<1> QED BY <1>1, RankEnds DEF NextRank, Rank

\* A descending loop has a next rank, or ends after rank 0.
LEMMA PrevRankFacts ==
    ASSUME CtlType, NEW c \in Coord, NEW l \in Labels, PrevRank(c, l)
    PROVE  \/ /\ ix[c] > 0
              /\ ix[c] - 1 \in Rank
              /\ pc[c] \in Labels
              /\ Goto(c, pc[c], ix[c] - 1)
           \/ /\ ix[c] = 0
              /\ Goto(c, l, 0)
<1>1. ix[c] \in 0 .. N - 1 /\ pc[c] \in Labels
    BY DEF CtlType, Rank
<1> QED BY <1>1, RankEnds DEF PrevRank, Rank

\* A script that exits enters its EXIT trap, and only the result changes.
LEMMA ExitFacts ==
    ASSUME CtlType, NEW c \in Coord, NEW res \in {"FAIL", "PASS", "RESTORED", "PRESERVED"},
           Exit(c, res)
    PROVE  /\ CtlType'
           /\ pc'[c] = "onexit" /\ ix'[c] = 0 /\ SameLocals(c) /\ loc'[c].result = res
           /\ Elsewhere(c)
<1>1. "onexit" \in Labels /\ 0 \in Rank
    BY RankEnds DEF Labels
<1>2. loc[c] \in Locals
    BY DEF CtlType
<1> DEFINE v == [loc[c] EXCEPT !.result = res]
<1>3. v \in Locals
    BY <1>2 DEF Locals
<1>4. loc' = [loc EXCEPT ![c] = v] /\ Goto(c, "onexit", 0)
    BY DEF Exit
<1>5. /\ CtlType' /\ Elsewhere(c)
      /\ pc'[c] = "onexit" /\ ix'[c] = 0 /\ loc'[c] = v
    BY <1>1, <1>3, <1>4, MoveFacts
<1> QED BY <1>2, <1>5 DEF SameLocals, Locals
-----------------------------------------------------------------------------
(* What a step does, in the terms of the invariant.  The failing branches  *)
(* of the scripts are one case; so are the gates that only go on.          *)

\* Nothing that the invariant is about changes, but control and locals.
Quiet == UNCHANGED <<job, fleet, receipts, compacted, faults>>

\* c is in its EXIT trap, or has ended.
Gone(c) ==
    /\ pc'[c] \in {"onexit", "release", "done", "dead"}
    /\ pc'[c] = "onexit" => pc[c] \in Working \cup {"start"}
    /\ SameLocals(c)
    /\ Elsewhere(c)

\* c goes on at block l and rank i.
Goes(c, l, i) == pc'[c] = l /\ ix'[c] = i /\ SameLocals(c) /\ Elsewhere(c)

\* The lock is granted and the first block begins.
Begins(c) ==
    /\ pc[c] = "start"
    /\ \/ job[c].kind = "launch" /\ Goes(c, "preflight", 0)
       \/ job[c].kind = "stop" /\ Goes(c, "stop", N - 1)
       \/ job[c].kind = "stage" /\ Goes(c, "stage", 0)

\* The blocks that only lead to one another.
PassEdges == {<<"existing", "existing">>, <<"existing", "consume">>,
              <<"health", "models">>, <<"models", "rankgate">>, <<"loggate", "chat">>,
              <<"chat", "sparse">>, <<"chat", "idle">>, <<"sparse", "idle">>,
              <<"idle", "postidle">>, <<"postidle", "postlogs">>,
              <<"postlogs", "pin">>, <<"postlogs", "final">>,
              <<"pinverify", "pinverify">>, <<"pinverify", "pinprobe">>,
              <<"pinverify", "rollback">>, <<"pinprobe", "final">>,
              <<"pinprobe", "rollback">>, <<"stage", "stage">>, <<"stage", "staged">>}

\* c goes on along one of them.
Passes(c) ==
    /\ <<pc[c], pc'[c]>> \in PassEdges
    /\ pc'[c] # pc[c] => ix'[c] = 0
    /\ pc'[c] \in {"sparse", "pin"} => Fast(c)
    /\ pc[c] = "postlogs" /\ pc'[c] = "final" => ~Fast(c)
    /\ loc'[c].started = loc[c].started
    /\ loc'[c].lo = loc[c].lo
    /\ loc'[c].hi = loc[c].hi
    /\ loc'[c].want = loc[c].want
    /\ loc'[c].sampled = loc[c].sampled
    /\ loc'[c].round = loc[c].round
    /\ Elsewhere(c)

\* The blocks that assert the lock are blocks of work.
LEMMA LabelFacts ==
    /\ Working \subseteq Labels
    /\ Guarded \subseteq Working
    /\ {"start", "onexit", "observe", "failstop", "release", "done", "dead"} \subseteq Labels
BY DEF Labels, Guarded, Working, Sizing, Creating, Created

\* A script that fails at work is in its EXIT trap.
LEMMA FailFacts ==
    ASSUME CtlType, NEW c \in Coord, Fail(c), pc[c] \in Working \cup {"start"}
    PROVE  CtlType' /\ Gone(c) /\ loc'[c].result = "FAIL"
BY ExitFacts DEF Fail, Gone

\* fleet_lock_acquire begins the script or fails it.
LEMMA AcquireFacts ==
    ASSUME CtlType, job \in [Coord -> Job], NEW c \in Coord, Acquire(c)
    PROVE  CtlType' /\ Quiet /\ (Gone(c) \/ Begins(c))
<1>1. job[c].kind \in {"launch", "stop", "stage"}
    BY DEF Job
<1>2. Quiet /\ pc[c] = "start"
    BY DEF Acquire, Quiet, host, budget
<1>3. CASE Fail(c)
    BY <1>2, <1>3, FailFacts
<1>4. CASE Goto(c, FirstBlock(c)[1], FirstBlock(c)[2]) /\ UNCHANGED loc
    <2>1. CASE job[c].kind = "launch"
        <3>1. Goto(c, "preflight", 0)
            BY <1>4, <2>1 DEF FirstBlock
        <3> QED BY <1>2, <1>4, <2>1, <3>1, GotoFacts, RankEnds DEF Labels, Guarded, Begins, Goes
    <2>2. CASE job[c].kind = "stop"
        <3>1. Goto(c, "stop", N - 1)
            BY <1>4, <2>2 DEF FirstBlock
        <3> QED BY <1>2, <1>4, <2>2, <3>1, GotoFacts, RankEnds DEF Labels, Guarded, Begins, Goes
    <2>3. CASE job[c].kind = "stage"
        <3>1. Goto(c, "stage", 0)
            BY <1>4, <2>3 DEF FirstBlock
        <3> QED BY <1>2, <1>4, <2>3, <3>1, GotoFacts, RankEnds DEF Labels, Guarded, Begins, Goes
    <2> QED BY <1>1, <2>1, <2>2, <2>3
<1> QED BY <1>3, <1>4 DEF Acquire

\* A lost lock, the release and a kill end a script.
LEMMA EndFacts ==
    ASSUME CtlType, NEW c \in Coord, LockLost(c) \/ Release(c) \/ Kill(c)
    PROVE  CtlType' /\ Quiet /\ Gone(c)
<1>1. CASE LockLost(c)
    <2>1. Fail(c) /\ pc[c] \in Working /\ Quiet
        BY <1>1, LabelFacts DEF LockLost, Quiet, host, budget
    <2> QED BY <2>1, FailFacts
<1>2. CASE Release(c)
    <2>1. Goto(c, "done", 0) /\ UNCHANGED loc /\ Quiet
        BY <1>2 DEF Release, Quiet, host, budget
    <2> QED BY <2>1, LabelFacts, RankEnds, GotoFacts DEF Gone
<1>3. CASE Kill(c)
    <2>1. Goto(c, "dead", 0) /\ UNCHANGED loc /\ Quiet
        BY <1>3 DEF Kill, Quiet, host, budget
    <2> QED BY <2>1, LabelFacts, RankEnds, GotoFacts DEF Gone
<1> QED BY <1>1, <1>2, <1>3

\* A gate goes on or the script fails.
LEMMA GateFacts ==
    ASSUME CtlType, NEW c \in Coord, NEW label \in Working, NEW holds, NEW next \in Labels,
           Gate(c, label, holds, next)
    PROVE  /\ CtlType' /\ Quiet /\ pc[c] = label
           /\ Gone(c) \/ (holds /\ Goes(c, next, 0))
<1>1. Quiet /\ pc[c] = label
    BY DEF Gate, At, Quiet, host, budget
<1>2. CASE Fail(c)
    BY <1>1, <1>2, FailFacts
<1>3. CASE holds /\ Goto(c, next, 0) /\ UNCHANGED loc
    BY <1>1, <1>3, RankEnds, GotoFacts DEF Goes
<1> QED BY <1>2, <1>3 DEF Gate

\* Going on along one of PassEdges is a pass.
LEMMA GoesPasses ==
    ASSUME NEW c, NEW l, NEW i, Goes(c, l, i), <<pc[c], l>> \in PassEdges,
           l # pc[c] => i = 0, l \in {"sparse", "pin"} => Fast(c),
           pc[c] = "postlogs" /\ l = "final" => ~Fast(c)
    PROVE  Passes(c)
BY DEF Goes, Passes, SameLocals

\* The last probe of readiness.
LEMMA ReadinessFacts ==
    ASSUME CtlType, NEW c \in Coord, NEW label \in {"chat", "sparse"}, ReadinessProbe(c, label)
    PROVE  CtlType' /\ Quiet /\ (Gone(c) \/ Passes(c))
<1>1. Quiet /\ pc[c] = label /\ label \in Working
    BY DEF ReadinessProbe, At, Quiet, host, budget, Working, Created
<1>2. CASE Fail(c)
    BY <1>1, <1>2, FailFacts
<1>3. CASE Goto(c, "idle", 0) /\ loc' = [loc EXCEPT ![c].ready = TRUE]
    <2> DEFINE v == [loc[c] EXCEPT !.ready = TRUE]
    <2>1. loc[c] \in Locals /\ v \in Locals /\ loc' = [loc EXCEPT ![c] = v]
        BY <1>3 DEF CtlType, Locals
    <2>2. /\ CtlType' /\ Elsewhere(c)
          /\ pc'[c] = "idle" /\ ix'[c] = 0 /\ loc'[c] = v
        <3>1. "idle" \in Labels
            BY DEF Labels
        <3> HIDE DEF v
        <3> QED BY <1>3, <2>1, <3>1, MoveFacts, RankEnds
    <2>3. <<pc[c], pc'[c]>> \in PassEdges
        BY <1>1, <2>2 DEF PassEdges
    <2> QED BY <1>1, <2>1, <2>2, <2>3 DEF Passes, Locals
<1> QED BY <1>2, <1>3 DEF ReadinessProbe

\* The gates of readiness and the probes around them.
LEMMA ReadinessGateFacts ==
    ASSUME CtlType, NEW c \in Coord,
           \/ AwaitHealth(c) \/ ModelsGate(c) \/ transport_and_log_gate(c)
           \/ ImmediateChat(c) \/ cache_busted_sparse_indexer_probe(c)
           \/ IdleWindow(c) \/ PostIdleProbe(c) \/ PostIdleLogs(c)
    PROVE  CtlType' /\ Quiet /\ (Gone(c) \/ Passes(c))
<1>0. {"health", "models", "loggate", "chat", "idle", "postidle", "postlogs", "sparse",
       "rankgate", "pin", "final"} \subseteq Working \cap Labels
    BY LabelFacts DEF Working, Created
<1>1. CASE AwaitHealth(c)
    <2>1. CtlType' /\ Quiet /\ pc[c] = "health" /\ (Gone(c) \/ Goes(c, "models", 0))
        BY <1>0, <1>1, GateFacts DEF AwaitHealth
    <2> QED BY <2>1, GoesPasses DEF PassEdges
<1>2. CASE ModelsGate(c)
    <2>1. CtlType' /\ Quiet /\ pc[c] = "models" /\ (Gone(c) \/ Goes(c, "rankgate", 0))
        BY <1>0, <1>2, GateFacts DEF ModelsGate
    <2> QED BY <2>1, GoesPasses DEF PassEdges
<1>3. CASE transport_and_log_gate(c)
    <2>1. CtlType' /\ Quiet /\ pc[c] = "loggate" /\ (Gone(c) \/ Goes(c, "chat", 0))
        BY <1>0, <1>3, GateFacts DEF transport_and_log_gate
    <2> QED BY <2>1, GoesPasses DEF PassEdges
<1>4. CASE ImmediateChat(c) /\ Fast(c)
    <2>1. CtlType' /\ Quiet /\ pc[c] = "chat" /\ (Gone(c) \/ Goes(c, "sparse", 0))
        BY <1>0, <1>4, GateFacts DEF ImmediateChat
    <2> QED BY <1>4, <2>1, GoesPasses DEF PassEdges
<1>5. CASE ImmediateChat(c) /\ ~Fast(c)
    BY <1>5, ReadinessFacts DEF ImmediateChat
<1>6. CASE cache_busted_sparse_indexer_probe(c)
    BY <1>6, ReadinessFacts DEF cache_busted_sparse_indexer_probe
<1>7. CASE IdleWindow(c)
    <2>1. CtlType' /\ Quiet /\ pc[c] = "idle" /\ (Gone(c) \/ Goes(c, "postidle", 0))
        BY <1>0, <1>7, GateFacts DEF IdleWindow
    <2> QED BY <2>1, GoesPasses DEF PassEdges
<1>8. CASE PostIdleProbe(c)
    <2>1. CtlType' /\ Quiet /\ pc[c] = "postidle" /\ (Gone(c) \/ Goes(c, "postlogs", 0))
        BY <1>0, <1>8, GateFacts DEF PostIdleProbe
    <2> QED BY <2>1, GoesPasses DEF PassEdges
<1>9. CASE PostIdleLogs(c)
    <2> DEFINE l == IF Fast(c) THEN "pin" ELSE "final"
    <2>1. CtlType' /\ Quiet /\ pc[c] = "postlogs" /\ (Gone(c) \/ Goes(c, l, 0))
        BY <1>0, <1>9, GateFacts DEF PostIdleLogs
    <2> QED BY <2>1, GoesPasses DEF PassEdges
<1> QED BY <1>1, <1>2, <1>3, <1>4, <1>5, <1>6, <1>7, <1>8, <1>9

\* The other blocks that change neither the fleet nor a receipt.
LEMMA QuietFacts ==
    ASSUME CtlType, NEW c \in Coord,
           \/ FinalAssert(c) \/ StageDone(c) \/ RollBackProbe(c)
           \/ VerifyPin(c) \/ PinProbe(c) \/ ExistingBeforeNonce(c) \/ StageImage(c)
    PROVE  CtlType' /\ Quiet /\ (Gone(c) \/ Passes(c))
<1>0. {"final", "staged", "rollbackprobe", "pinverify", "pinprobe", "rollback", "existing",
       "consume", "stage"} \subseteq Working \cap Labels
    BY LabelFacts DEF Working, Created, Sizing
<1>1. CASE FinalAssert(c) \/ StageDone(c) \/ RollBackProbe(c)
    <2>1. Quiet /\ pc[c] \in Working
        BY <1>0, <1>1 DEF FinalAssert, StageDone, RollBackProbe, At, Quiet, host, budget
    <2>2. \E res \in {"PASS", "RESTORED", "PRESERVED"} : Exit(c, res)
        BY <1>1 DEF FinalAssert, StageDone, RollBackProbe
    <2> QED BY <2>1, <2>2, ExitFacts DEF Gone
<1>2. CASE VerifyPin(c)
    <2>1. Quiet /\ pc[c] = "pinverify"
        BY <1>2 DEF VerifyPin, Quiet, host, budget
    <2>2. UNCHANGED loc /\ (NextRank(c, "pinprobe", 0) \/ Goto(c, "rollback", 0))
        BY <1>2 DEF VerifyPin, RollBack
    <2>3. \/ ix[c] + 1 \in Rank /\ Goto(c, "pinverify", ix[c] + 1)
          \/ Goto(c, "pinprobe", 0)
          \/ Goto(c, "rollback", 0)
        BY <1>0, <2>1, <2>2, NextRankFacts, RankEnds
    <2>4. CtlType' /\ (Goes(c, "pinverify", ix[c] + 1) \/ Goes(c, "pinprobe", 0) \/ Goes(c, "rollback", 0))
        BY <1>0, <2>2, <2>3, GotoFacts, RankEnds DEF Goes
    <2> QED BY <2>1, <2>4, GoesPasses DEF PassEdges
<1>3. CASE PinProbe(c)
    <2>1. Quiet /\ pc[c] = "pinprobe"
        BY <1>3 DEF PinProbe, Quiet, host, budget
    <2>2. UNCHANGED loc /\ (Goto(c, "final", 0) \/ Goto(c, "rollback", 0))
        BY <1>3 DEF PinProbe, RollBack
    <2>3. CtlType' /\ (Goes(c, "final", 0) \/ Goes(c, "rollback", 0))
        BY <1>0, <2>2, GotoFacts, RankEnds DEF Goes
    <2> QED BY <2>1, <2>3, GoesPasses DEF PassEdges
<1>4. CASE ExistingBeforeNonce(c)
    <2>1. Quiet /\ pc[c] = "existing"
        BY <1>4 DEF ExistingBeforeNonce, At, Quiet, host, budget
    <2>2. CASE Fail(c)
        BY <1>0, <2>1, <2>2, FailFacts
    <2>3. CASE NextRank(c, "consume", 0) /\ UNCHANGED loc
        <3>1. \/ ix[c] + 1 \in Rank /\ Goto(c, "existing", ix[c] + 1)
              \/ Goto(c, "consume", 0)
            BY <1>0, <2>1, <2>3, NextRankFacts, RankEnds
        <3>2. CtlType' /\ (Goes(c, "existing", ix[c] + 1) \/ Goes(c, "consume", 0))
            BY <1>0, <2>3, <3>1, GotoFacts, RankEnds DEF Goes
        <3> QED BY <2>1, <3>2, GoesPasses DEF PassEdges
    <2> QED BY <1>4, <2>2, <2>3 DEF ExistingBeforeNonce
<1>5. CASE StageImage(c)
    <2>1. Quiet /\ pc[c] = "stage"
        BY <1>5 DEF StageImage, At, Quiet, budget
    <2>2. CASE Fail(c)
        BY <1>0, <2>1, <2>2, FailFacts
    <2>3. CASE NextRank(c, "staged", 0) /\ UNCHANGED loc
        <3>1. \/ ix[c] + 1 \in Rank /\ Goto(c, "stage", ix[c] + 1)
              \/ Goto(c, "staged", 0)
            BY <1>0, <2>1, <2>3, NextRankFacts, RankEnds
        <3>2. CtlType' /\ (Goes(c, "stage", ix[c] + 1) \/ Goes(c, "staged", 0))
            BY <1>0, <2>3, <3>1, GotoFacts, RankEnds DEF Goes
        <3> QED BY <2>1, <3>2, GoesPasses DEF PassEdges
    <2> QED BY <1>5, <2>2, <2>3 DEF StageImage
<1> QED BY <1>1, <1>2, <1>3, <1>4, <1>5

\* One more host is verified.
Verifies(c) ==
    /\ pc[c] = "preflight"
    /\ loc'[c].started = loc[c].started
    /\ loc'[c].ready = loc[c].ready
    /\ loc'[c].result = loc[c].result
    /\ loc'[c].want = loc[c].want
    /\ loc'[c].sampled = loc[c].sampled
    /\ loc'[c].round = loc[c].round
    /\ Fast(c) => loc'[c].lo = 0 /\ loc'[c].hi = 0
    /\ Elsewhere(c)
    /\ \/ pc'[c] = "preflight"
       \/ Fast(c) /\ pc'[c] = "existing"
       \/ ~Fast(c) /\ job[c].replace # None /\ pc'[c] = "replace"
       \/ ~Fast(c) /\ pc'[c] = "check" /\ ix'[c] = 0

\* One iteration of verify_hosts.
LEMMA VerifyFacts ==
    ASSUME CtlType, NEW c \in Coord, verify_hosts(c)
    PROVE  CtlType' /\ Quiet /\ ((Fail(c) /\ Gone(c)) \/ Verifies(c))
<1>0. {"preflight", "existing", "replace", "check"} \subseteq Working \cap Labels
    BY LabelFacts DEF Working, Sizing, Creating
<1>1. Quiet /\ pc[c] = "preflight"
    BY DEF verify_hosts, At, Quiet, host, budget
<1>2. CASE Fail(c)
    BY <1>0, <1>1, <1>2, FailFacts
<1> DEFINE after == IF Fast(c) THEN <<"existing", 0>> ELSE AfterSizing(c)
<1>3. ASSUME NEW lo \in Nat, NEW hi \in Nat, Fast(c) => lo = 0 /\ hi = 0,
             NextRank(c, after[1], after[2]), loc' = [loc EXCEPT ![c].lo = lo, ![c].hi = hi]
      PROVE  CtlType' /\ Verifies(c)
    <2> DEFINE v == [loc[c] EXCEPT !.lo = lo, !.hi = hi]
    <2>1. loc[c] \in Locals /\ ix[c] \in Rank
        BY DEF CtlType
    <2>3. v \in Locals
        BY <2>1 DEF Locals
    <2>4. loc' = [loc EXCEPT ![c] = v]
        BY <1>3 DEF CtlType
    <2>5. /\ v.started = loc[c].started
          /\ v.ready = loc[c].ready
          /\ v.result = loc[c].result
          /\ v.want = loc[c].want
          /\ v.sampled = loc[c].sampled
          /\ v.round = loc[c].round
          /\ v.lo = lo /\ v.hi = hi
        BY <2>1 DEF Locals
    <2>6. after[1] \in Labels /\ after[2] \in Rank
        BY <1>0, RankEnds DEF AfterSizing
    <2>7. \E l \in Labels, i \in Rank :
            /\ Goto(c, l, i)
            /\ \/ l = "preflight"
               \/ Fast(c) /\ l = "existing"
               \/ ~Fast(c) /\ job[c].replace # None /\ l = "replace"
               \/ ~Fast(c) /\ l = "check" /\ i = 0
        <3>1. CASE Goto(c, pc[c], ix[c] + 1) /\ ix[c] + 1 \in Rank
            BY <1>0, <1>1, <3>1
        <3>2. CASE Goto(c, after[1], after[2])
            BY <1>0, <2>6, <3>2 DEF AfterSizing
        <3> HIDE DEF after
        <3> QED BY <1>3, <2>6, <3>1, <3>2, NextRankFacts
    <2>8. PICK l \in Labels, i \in Rank :
            /\ Goto(c, l, i)
            /\ \/ l = "preflight"
               \/ Fast(c) /\ l = "existing"
               \/ ~Fast(c) /\ job[c].replace # None /\ l = "replace"
               \/ ~Fast(c) /\ l = "check" /\ i = 0
        BY <2>7
    <2> HIDE DEF v
    <2>9. /\ CtlType' /\ Elsewhere(c)
          /\ pc'[c] = l /\ ix'[c] = i /\ loc'[c] = v
        BY <2>3, <2>4, <2>8, MoveFacts
    <2> QED BY <1>1, <1>3, <2>5, <2>8, <2>9 DEF Verifies
<1>4. CASE ~Fail(c)
    <2>1. PICK m \in MemValues[ix[c]] :
            /\ NextRank(c, after[1], after[2])
            /\ loc' = IF ~Fast(c) /\ ix[c] < N - 1
                      THEN [loc EXCEPT ![c].lo = Lower(c, m), ![c].hi = Upper(c, m)]
                      ELSE [loc EXCEPT ![c].lo = 0, ![c].hi = 0]
        BY <1>4 DEF verify_hosts
    <2>2. Lower(c, m) \in Nat /\ Upper(c, m) \in Nat
        BY MemFacts DEF CtlType, Lower, Upper, Locals
    <2> HIDE DEF after
    <2>3. CASE ~Fast(c) /\ ix[c] < N - 1
        BY <1>1, <1>3, <2>1, <2>2, <2>3
    <2>4. CASE ~(~Fast(c) /\ ix[c] < N - 1)
        BY <1>1, <1>3, <2>1, <2>4
    <2> QED BY <2>3, <2>4
<1> QED BY <1>1, <1>2, <1>4, FailFacts, <1>0

\* The receipt of the nonce is new.
Consumes(c) ==
    /\ pc[c] = "consume"
    /\ job[c].nonce \notin receipts
    /\ receipts' = receipts \cup {job[c].nonce}
    /\ Gone(c) \/ Goes(c, "compact", 0)
    /\ UNCHANGED <<job, fleet, compacted, faults>>

\* The nonce is consumed, or the launch fails without a new receipt.
LEMMA ConsumeFacts ==
    ASSUME CtlType, NEW c \in Coord, fleet_consume_compaction_nonce_hash(c)
    PROVE  CtlType' /\ ((Quiet /\ Gone(c)) \/ Consumes(c))
<1>0. {"consume", "compact"} \subseteq Working \cap Labels
    BY LabelFacts DEF Working, Sizing
<1>1. pc[c] = "consume" /\ UNCHANGED <<job, fleet, compacted, faults>>
    BY DEF fleet_consume_compaction_nonce_hash, At, budget
<1>2. CASE Fail(c)
    <2>1. CtlType' /\ Gone(c)
        BY <1>0, <1>1, <1>2, FailFacts
    <2> QED BY <1>1, <1>2, <2>1 DEF fleet_consume_compaction_nonce_hash, Consumes, Quiet
<1>3. CASE Goto(c, "compact", 0) /\ UNCHANGED loc
    <2>1. CtlType' /\ Goes(c, "compact", 0)
        BY <1>0, <1>3, GotoFacts, RankEnds DEF Goes
    <2>2. pc'[c] # "onexit"
        BY <2>1 DEF Goes
    <2>3. ~Fail(c)
        BY <2>2, <1>0, <1>1, FailFacts, ExitFacts DEF Fail
    <2> QED BY <1>1, <1>3, <2>1, <2>3 DEF fleet_consume_compaction_nonce_hash, Consumes
<1> QED BY <1>2, <1>3 DEF fleet_consume_compaction_nonce_hash

\* drop_caches was issued on one host.
Compacts(c) ==
    /\ pc[c] = "compact"
    /\ compacted' = compacted \cup {c}
    /\ Gone(c) \/ Goes(c, "compact", ix[c] + 1) \/ Goes(c, "sample", 0)
    /\ UNCHANGED <<job, fleet, receipts, faults>>

\* drop_caches on one host.
LEMMA CompactFacts ==
    ASSUME CtlType, NEW c \in Coord, Compact(c)
    PROVE  CtlType' /\ ((Quiet /\ Gone(c)) \/ Compacts(c))
<1>0. {"sample", "compact"} \subseteq Working \cap Labels
    BY LabelFacts DEF Working, Sizing
<1>1. pc[c] = "compact" /\ UNCHANGED <<job, fleet, receipts, faults>>
    BY DEF Compact, At, budget
<1>2. CASE Fail(c)
    BY <1>0, <1>1, <1>2, FailFacts DEF Compact, Quiet, Compacts
<1>3. CASE compacted' = compacted \cup {c} /\ NextRank(c, "sample", 0) /\ UNCHANGED loc
    <2>1. \/ ix[c] + 1 \in Rank /\ Goto(c, "compact", ix[c] + 1)
          \/ Goto(c, "sample", 0)
        BY <1>0, <1>1, <1>3, NextRankFacts, RankEnds
    <2>2. CtlType' /\ (Goes(c, "compact", ix[c] + 1) \/ Goes(c, "sample", 0))
        BY <1>0, <1>3, <2>1, GotoFacts, RankEnds DEF Goes
    <2> QED BY <1>1, <1>3, <2>2 DEF Compacts
<1> QED BY <1>2, <1>3 DEF Compact

\* Where launch_profile goes once the hosts are sized.
Sized(c) ==
    \/ job[c].replace # None /\ pc'[c] = "replace" /\ ix'[c] = N - 1
    \/ pc'[c] = "check" /\ ix'[c] = 0

\* What the step of c reads on the host it is at.
Read(c) == loc'[c].sampled[ix[c]]

\* One more host is sampled; after the last one the floor is computed.
Samples(c) ==
    /\ pc[c] = "sample"
    /\ Read(c) \in Nat /\ Read(c) >= MinMem
    /\ \A h \in Rank : h # ix[c] => loc'[c].sampled[h] = loc[c].sampled[h]
    /\ loc'[c].started = loc[c].started
    /\ loc'[c].ready = loc[c].ready
    /\ loc'[c].result = loc[c].result
    /\ loc'[c].round = loc[c].round
    /\ Elsewhere(c)
    /\ \/ /\ ix[c] < N - 1
          /\ pc'[c] = "sample" /\ ix'[c] = ix[c] + 1
          /\ loc'[c].lo = Lower(c, Read(c))
          /\ loc'[c].hi = Upper(c, Read(c))
          /\ loc'[c].want = loc[c].want
       \/ /\ ix[c] = N - 1
          /\ Sized(c)
          /\ Upper(c, Read(c)) - Lower(c, Read(c)) <= Spread
          /\ Lower(c, Read(c)) > Reserve
          /\ \A h \in Rank : loc'[c].want[h] = Lower(c, Read(c)) - Reserve

\* One sample of MemAvailable and, after the last, the floor.
LEMMA SampleFacts ==
    ASSUME CtlType, NEW c \in Coord, SampleAndSize(c)
    PROVE  CtlType' /\ Quiet /\ ((Fail(c) /\ Gone(c)) \/ Samples(c))
<1>0. {"sample", "replace", "check"} \subseteq Working \cap Labels
    BY LabelFacts DEF Working, Sizing, Creating
<1>1. Quiet /\ pc[c] = "sample"
    BY DEF SampleAndSize, At, Quiet, host, budget
<1>2. CASE Fail(c)
    BY <1>0, <1>1, <1>2, FailFacts
<1>3. CASE ~Fail(c)
    <2> DEFINE last == ix[c] = N - 1
    <2>0. PICK m \in MemValues[ix[c]] :
            /\ m >= MinMem
            /\ last => Upper(c, m) - Lower(c, m) <= Spread /\ Lower(c, m) > Reserve
            /\ NextRank(c, AfterSizing(c)[1], AfterSizing(c)[2])
            /\ loc' = [loc EXCEPT
                         ![c].lo = IF last THEN 0 ELSE Lower(c, m),
                         ![c].hi = IF last THEN 0 ELSE Upper(c, m),
                         ![c].sampled[ix[c]] = m,
                         ![c].want = IF last THEN [h \in Rank |-> Lower(c, m) - Reserve] ELSE @]
        BY <1>3 DEF SampleAndSize
    <2> DEFINE lo == IF last THEN 0 ELSE Lower(c, m)
               hi == IF last THEN 0 ELSE Upper(c, m)
               want == IF last THEN [h \in Rank |-> Lower(c, m) - Reserve] ELSE loc[c].want
               sampled == [loc[c].sampled EXCEPT ![ix[c]] = m]
               v == [loc[c] EXCEPT !.lo = lo, !.hi = hi, !.sampled = sampled, !.want = want]
    <2>1. loc[c] \in Locals /\ ix[c] \in Rank /\ m \in Nat
        BY MemFacts DEF CtlType
    <2>2. Lower(c, m) \in Nat /\ Upper(c, m) \in Nat /\ lo \in Nat /\ hi \in Nat
        BY <2>1 DEF Lower, Upper, Locals
    <2>3. want \in [Rank -> Nat] /\ (last => \A h \in Rank : want[h] = Lower(c, m) - Reserve)
        <3>1. Reserve \in Nat
            BY ControllerAssumption DEF ControllerAssumption
        <3> QED BY <2>0, <2>1, <2>2, <3>1 DEF Locals
    <2>4. loc' = [loc EXCEPT ![c] = v]
        <3> HIDE DEF last
        <3> QED BY <2>0, <2>1 DEF CtlType, Locals
    <2>5. /\ sampled \in [Rank -> Nat] /\ sampled[ix[c]] = m
          /\ \A h \in Rank : h # ix[c] => sampled[h] = loc[c].sampled[h]
        BY <2>1 DEF Locals
    <2> HIDE DEF lo, hi, want, sampled
    <2>6. v \in Locals
        BY <2>1, <2>2, <2>3, <2>5 DEF Locals
    <2>7. /\ v.started = loc[c].started
          /\ v.ready = loc[c].ready
          /\ v.result = loc[c].result
          /\ v.round = loc[c].round
          /\ v.lo = lo /\ v.hi = hi /\ v.want = want /\ v.sampled = sampled
        BY <2>1, <2>2 DEF Locals
    <2>8. AfterSizing(c)[1] \in Labels /\ AfterSizing(c)[2] \in Rank
        BY <1>0, RankEnds DEF AfterSizing
    <2> HIDE DEF v
    <2>9. CASE ix[c] < N - 1 /\ ix[c] + 1 \in Rank /\ Goto(c, pc[c], ix[c] + 1)
        <3>1. /\ CtlType' /\ Elsewhere(c)
              /\ pc'[c] = "sample" /\ ix'[c] = ix[c] + 1 /\ loc'[c] = v
            BY <1>0, <1>1, <2>4, <2>6, <2>9, MoveFacts
        <3>2. ix[c] # N - 1
            BY <2>9, RankEnds
        <3>3. want = loc[c].want /\ lo = Lower(c, m) /\ hi = Upper(c, m)
            BY <3>2 DEF want, lo, hi
        <3>4. Read(c) = m
            BY <2>5, <2>7, <3>1 DEF Read
        <3> QED BY <1>1, <2>0, <2>1, <2>5, <2>7, <2>9, <3>1, <3>3, <3>4 DEF Samples
    <2>10. CASE last /\ Goto(c, AfterSizing(c)[1], AfterSizing(c)[2])
        <3>1. \/ job[c].replace # None /\ Goto(c, "replace", N - 1)
              \/ Goto(c, "check", 0)
            BY <2>10 DEF AfterSizing
        <3>2. CtlType' /\ Elsewhere(c) /\ loc'[c] = v /\ Sized(c)
            BY <1>0, <2>4, <2>6, <3>1, MoveFacts, RankEnds DEF Sized
        <3>3. Read(c) = m
            BY <2>5, <2>7, <3>2 DEF Read
        <3> QED BY <1>1, <2>0, <2>1, <2>3, <2>5, <2>7, <2>10, <3>2, <3>3 DEF Samples
    <2> QED BY <1>1, <2>0, <2>8, <2>9, <2>10, NextRankFacts
<1> QED BY <1>2, <1>3

\* The name is free and the floor of the rank is known.
Checks(c) ==
    /\ pc[c] = "check" /\ pc'[c] = "create" /\ ix'[c] = ix[c]
    /\ Mine(c, ix[c]).label = "absent"
    /\ loc'[c].started = loc[c].started
    /\ loc'[c].ready = loc[c].ready
    /\ loc'[c].result = loc[c].result
    /\ loc'[c].round = loc[c].round
    /\ \/ SameLocals(c)
       \/ /\ ~Fast(c)
          /\ loc'[c].want[ix[c]] + Reserve = Read(c)
          /\ \A h \in Rank : h # ix[c] =>
                loc'[c].want[h] = loc[c].want[h] /\ loc'[c].sampled[h] = loc[c].sampled[h]
    /\ Elsewhere(c)

\* The existence check of one rank.
LEMMA CheckFacts ==
    ASSUME CtlType, NEW c \in Coord, CheckRank(c)
    PROVE  CtlType' /\ Quiet /\ ((Fail(c) /\ Gone(c)) \/ Checks(c))
<1>0. {"create", "check"} \subseteq Working \cap Labels
    BY LabelFacts DEF Working, Creating
<1>1. Quiet /\ pc[c] = "check"
    BY DEF CheckRank, At, Quiet, host, budget
<1>2. CASE Fail(c)
    BY <1>0, <1>1, <1>2, FailFacts
<1>3. loc[c] \in Locals /\ ix[c] \in Rank
    BY DEF CtlType
<1>4. CASE Mine(c, ix[c]).label = "absent" /\ Goto(c, "create", ix[c]) /\ UNCHANGED loc
    <2>1. CtlType' /\ Goes(c, "create", ix[c]) /\ loc'[c] = loc[c]
        BY <1>0, <1>3, <1>4, GotoFacts DEF Goes
    <2> QED BY <1>1, <1>4, <2>1 DEF Checks, Goes, SameLocals
<1>5. ASSUME ~Fast(c), Mine(c, ix[c]).label = "absent", Goto(c, "create", ix[c]),
             NEW m \in MemValues[ix[c]], m > Reserve,
             loc' = [loc EXCEPT ![c].want[ix[c]] = m - Reserve, ![c].sampled[ix[c]] = m]
      PROVE  CtlType' /\ Checks(c)
    <2> DEFINE w == m - Reserve
               v == [loc[c] EXCEPT !.want = [loc[c].want EXCEPT ![ix[c]] = w],
                                   !.sampled = [loc[c].sampled EXCEPT ![ix[c]] = m]]
    <2>1. m \in Nat /\ w \in Nat /\ w + Reserve = m
        BY <1>5, MemFacts, ControllerAssumption DEF ControllerAssumption
    <2>2. loc' = [loc EXCEPT ![c].want[ix[c]] = w, ![c].sampled[ix[c]] = m]
        BY <1>5
    <2> HIDE DEF w
    <2>3. v \in Locals /\ loc' = [loc EXCEPT ![c] = v]
        BY <1>3, <2>1, <2>2 DEF Locals, CtlType
    <2>4. /\ v.started = loc[c].started
          /\ v.ready = loc[c].ready
          /\ v.result = loc[c].result
          /\ v.round = loc[c].round
          /\ v.want[ix[c]] = w /\ v.sampled[ix[c]] = m
          /\ \A h \in Rank : h # ix[c] =>
                v.want[h] = loc[c].want[h] /\ v.sampled[h] = loc[c].sampled[h]
        BY <1>3, <2>1 DEF Locals
    <2> HIDE DEF v
    <2>5. /\ CtlType' /\ Elsewhere(c)
          /\ pc'[c] = "create" /\ ix'[c] = ix[c] /\ loc'[c] = v
        BY <1>0, <1>3, <1>5, <2>3, MoveFacts
    <2> QED BY <1>1, <1>5, <2>1, <2>4, <2>5 DEF Checks, Read
<1> QED BY <1>1, <1>2, <1>4, <1>5 DEF CheckRank, Fast

\* The types of the fleet.
FleetType ==
    /\ cont \in [Rank -> [Runs -> Container]]
    /\ rayHead \in Runs \cup {None}
    /\ serve \in [Runs -> {"off", "starting", "gpu", "up"}]

\* All that is known of a container but whether it runs, its pin and its raylet.
SameBirth(g, s) ==
    /\ cont'[g][s].label = cont[g][s].label
    /\ cont'[g][s].born = cont[g][s].born
    /\ cont'[g][s].floor = cont[g][s].floor

\* One container is replaced.
LEMMA PutFacts ==
    ASSUME FleetType, NEW h \in Rank, NEW r \in Runs, NEW v \in Container,
           cont' = [cont EXCEPT ![h][r] = v]
    PROVE  /\ cont' \in [Rank -> [Runs -> Container]]
           /\ \A g \in Rank, s \in Runs :
                cont'[g][s] = IF g = h /\ s = r THEN v ELSE cont[g][s]
BY DEF FleetType

\* The container of run r on host h is down, and its processes are gone.
Downed(h, r) ==
    /\ \A g \in Rank, s \in Runs :
        /\ SameBirth(g, s)
        /\ cont'[g][s].pin = cont[g][s].pin
        /\ cont'[g][s].clean = cont[g][s].clean
        /\ IF g = h /\ s = r
           THEN ~cont'[g][s].up /\ cont'[g][s].ray = None
           ELSE cont'[g][s].up = cont[g][s].up /\ cont'[g][s].ray = cont[g][s].ray
    /\ rayHead' = IF h = 0 /\ rayHead = r THEN None ELSE rayHead
    /\ \A s \in Runs : serve'[s] = IF h = 0 /\ s = r THEN "off" ELSE serve[s]

\* A container goes down.
LEMMA DownFacts ==
    ASSUME FleetType, NEW h \in Rank, NEW r \in Runs, DownEffect(h, r)
    PROVE  FleetType' /\ Downed(h, r)
<1> DEFINE v == [cont[h][r] EXCEPT !.up = FALSE, !.ray = None]
<1>1. cont[h][r] \in Container
    BY DEF FleetType
<1>2. /\ v \in Container
      /\ v.label = cont[h][r].label /\ v.born = cont[h][r].born
      /\ v.floor = cont[h][r].floor /\ v.pin = cont[h][r].pin
      /\ v.clean = cont[h][r].clean /\ ~v.up /\ v.ray = None
    BY <1>1 DEF Container
<1>3. cont' = [cont EXCEPT ![h][r] = v]
    BY DEF DownEffect, FleetType, Container
<1> HIDE DEF v
<1>4. /\ cont' \in [Rank -> [Runs -> Container]]
      /\ \A g \in Rank, s \in Runs :
            cont'[g][s] = IF g = h /\ s = r THEN v ELSE cont[g][s]
    BY <1>2, <1>3, PutFacts
<1>5. /\ rayHead' = IF h = 0 /\ rayHead = r THEN None ELSE rayHead
      /\ serve' = IF h = 0 THEN [serve EXCEPT ![r] = "off"] ELSE serve
    BY DEF DownEffect
<1>6. FleetType'
    BY <1>4, <1>5 DEF FleetType
<1>7. \A s \in Runs : serve'[s] = IF h = 0 /\ s = r THEN "off" ELSE serve[s]
    BY <1>5 DEF FleetType
<1>8. \A g \in Rank, s \in Runs :
        /\ SameBirth(g, s)
        /\ cont'[g][s].pin = cont[g][s].pin
        /\ cont'[g][s].clean = cont[g][s].clean
        /\ IF g = h /\ s = r
           THEN ~cont'[g][s].up /\ cont'[g][s].ray = None
           ELSE cont'[g][s].up = cont[g][s].up /\ cont'[g][s].ray = cont[g][s].ray
    BY <1>2, <1>4 DEF SameBirth
<1> QED BY <1>5, <1>6, <1>7, <1>8 DEF Downed

\* The containers but for one field of one of them.
RayPut(h, r, v) ==
    \A g \in Rank, s \in Runs :
        /\ SameBirth(g, s)
        /\ cont'[g][s].pin = cont[g][s].pin
        /\ cont'[g][s].clean = cont[g][s].clean
        /\ cont'[g][s].up = cont[g][s].up
        /\ cont'[g][s].ray = IF g = h /\ s = r THEN v ELSE cont[g][s].ray

\* The same, of its pin.
PinPut(h, r, v) ==
    \A g \in Rank, s \in Runs :
        /\ SameBirth(g, s)
        /\ cont'[g][s].ray = cont[g][s].ray
        /\ cont'[g][s].clean = cont[g][s].clean
        /\ cont'[g][s].up = cont[g][s].up
        /\ cont'[g][s].pin = IF g = h /\ s = r THEN v ELSE cont[g][s].pin

\* A raylet is started in one container.
LEMMA RayPutFacts ==
    ASSUME FleetType, NEW h \in Rank, NEW r \in Runs, NEW x \in Runs \cup {None},
           cont' = [cont EXCEPT ![h][r].ray = x]
    PROVE  cont' \in [Rank -> [Runs -> Container]] /\ RayPut(h, r, x)
<1> DEFINE v == [cont[h][r] EXCEPT !.ray = x]
<1>1. cont[h][r] \in Container
    BY DEF FleetType
<1>2. /\ v \in Container
      /\ v.label = cont[h][r].label /\ v.born = cont[h][r].born
      /\ v.floor = cont[h][r].floor /\ v.pin = cont[h][r].pin
      /\ v.clean = cont[h][r].clean /\ v.up = cont[h][r].up /\ v.ray = x
    BY <1>1 DEF Container
<1>3. cont' = [cont EXCEPT ![h][r] = v]
    BY DEF FleetType, Container
<1> HIDE DEF v
<1>4. /\ cont' \in [Rank -> [Runs -> Container]]
      /\ \A g \in Rank, s \in Runs :
            cont'[g][s] = IF g = h /\ s = r THEN v ELSE cont[g][s]
    BY <1>2, <1>3 DEF FleetType
<1> QED BY <1>2, <1>4 DEF RayPut, SameBirth

\* docker update of one container.
LEMMA PinPutFacts ==
    ASSUME FleetType, NEW h \in Rank, NEW r \in Runs, NEW x \in {"all", "big"},
           cont' = [cont EXCEPT ![h][r].pin = x]
    PROVE  cont' \in [Rank -> [Runs -> Container]] /\ PinPut(h, r, x)
<1> DEFINE v == [cont[h][r] EXCEPT !.pin = x]
<1>1. cont[h][r] \in Container
    BY DEF FleetType
<1>2. /\ v \in Container
      /\ v.label = cont[h][r].label /\ v.born = cont[h][r].born
      /\ v.floor = cont[h][r].floor /\ v.pin = x
      /\ v.clean = cont[h][r].clean /\ v.up = cont[h][r].up /\ v.ray = cont[h][r].ray
    BY <1>1 DEF Container
<1>3. cont' = [cont EXCEPT ![h][r] = v]
    BY DEF FleetType, Container
<1> HIDE DEF v
<1>4. /\ cont' \in [Rank -> [Runs -> Container]]
      /\ \A g \in Rank, s \in Runs :
            cont'[g][s] = IF g = h /\ s = r THEN v ELSE cont[g][s]
    BY <1>2, <1>3 DEF FleetType
<1> QED BY <1>2, <1>4 DEF PinPut, SameBirth

\* docker run created the container; the launch goes on or fails.
Creates(c) ==
    /\ pc[c] = "create"
    /\ Mine(c, ix[c]).label = "absent"
    /\ \A g \in Rank, s \in Runs :
        IF g = ix[c] /\ s = job[c].run
        THEN /\ cont'[g][s].label = "own"
             /\ cont'[g][s].born = c
             /\ cont'[g][s].floor = loc[c].want[g]
             /\ cont'[g][s].ray = None
        ELSE cont'[g][s] = cont[g][s]
    /\ \/ Gone(c)
       \/ /\ \/ ix[c] < N - 1 /\ pc'[c] = "check" /\ ix'[c] = ix[c] + 1
             \/ ix[c] = N - 1 /\ pc'[c] = "readback" /\ ix'[c] = 0
          /\ loc'[c].want = loc[c].want
          /\ loc'[c].sampled = loc[c].sampled
          /\ loc'[c].round = loc[c].round
          /\ Elsewhere(c)
    /\ UNCHANGED <<job, rayHead, serve, receipts, compacted, faults>>

\* docker run of one rank.
LEMMA CreateFacts ==
    ASSUME CtlType, FleetType, job \in [Coord -> Job], NEW c \in Coord, CreateRank(c)
    PROVE  CtlType' /\ FleetType' /\ ((Quiet /\ Gone(c)) \/ Creates(c))
<1>0. {"create", "check", "readback"} \subseteq Working \cap Labels
    BY LabelFacts DEF Working, Creating, Created
<1>1. /\ pc[c] = "create"
      /\ UNCHANGED <<job, rayHead, serve, receipts, compacted, faults>>
    BY DEF CreateRank, host, budget
<1>2. CASE Fail(c) /\ UNCHANGED cont
    BY <1>0, <1>1, <1>2, FailFacts DEF Quiet, fleet, FleetType
<1>3. loc[c] \in Locals /\ ix[c] \in Rank /\ job[c].run \in Runs
    BY DEF CtlType, Job
<1>4. ix[c] \in 0 .. N - 1
    BY <1>3 DEF Rank
<1> DEFINE k == NewContainer(c, ix[c])
<1>5. CASE /\ Mine(c, ix[c]).label = "absent"
           /\ cont' = [cont EXCEPT ![ix[c]][job[c].run] = k]
           /\ \/ /\ loc' = [loc EXCEPT ![c].started = TRUE]
                 /\ IF ix[c] < N - 1 THEN Goto(c, "check", ix[c] + 1)
                    ELSE Goto(c, "readback", 0)
              \/ Fail(c)
    <2>1. /\ k \in Container
          /\ k.label = "own" /\ k.born = c /\ k.floor = loc[c].want[ix[c]] /\ k.ray = None
        BY <1>3 DEF NewContainer, Absent, Container, Locals
    <2> HIDE DEF k
    <2>2. /\ cont' \in [Rank -> [Runs -> Container]]
          /\ \A g \in Rank, s \in Runs :
                cont'[g][s] = IF g = ix[c] /\ s = job[c].run THEN k ELSE cont[g][s]
        BY <1>3, <1>5, <2>1, PutFacts
    <2>3. FleetType'
        BY <1>1, <2>2 DEF FleetType
    <2>4. CASE Fail(c)
        BY <1>0, <1>1, <1>5, <2>1, <2>2, <2>3, <2>4, FailFacts DEF Creates
    <2>5. CASE /\ loc' = [loc EXCEPT ![c].started = TRUE]
               /\ IF ix[c] < N - 1 THEN Goto(c, "check", ix[c] + 1)
                  ELSE Goto(c, "readback", 0)
        <3> DEFINE v == [loc[c] EXCEPT !.started = TRUE]
        <3>1. /\ v \in Locals /\ loc' = [loc EXCEPT ![c] = v]
              /\ v.want = loc[c].want /\ v.sampled = loc[c].sampled /\ v.round = loc[c].round
            BY <1>3, <2>5 DEF CtlType, Locals
        <3>2. \/ ix[c] < N - 1 /\ ix[c] + 1 \in Rank /\ Goto(c, "check", ix[c] + 1)
              \/ ix[c] = N - 1 /\ Goto(c, "readback", 0)
            BY <1>4, <2>5, RankEnds DEF Rank
        <3> HIDE DEF v
        <3>3. /\ CtlType' /\ Elsewhere(c) /\ loc'[c] = v
              /\ \/ ix[c] < N - 1 /\ pc'[c] = "check" /\ ix'[c] = ix[c] + 1
                 \/ ix[c] = N - 1 /\ pc'[c] = "readback" /\ ix'[c] = 0
            <4>1. CASE ix[c] < N - 1 /\ ix[c] + 1 \in Rank /\ Goto(c, "check", ix[c] + 1)
                <5> DEFINE i == ix[c] + 1
                <5>1. i \in Rank /\ Goto(c, "check", i)
                    BY <4>1
                <5> HIDE DEF i
                <5>2. /\ CtlType' /\ Elsewhere(c) /\ loc'[c] = v
                      /\ pc'[c] = "check" /\ ix'[c] = i
                    BY <1>0, <3>1, <5>1, MoveFacts
                <5> QED BY <4>1, <5>2 DEF i
            <4>2. CASE ix[c] = N - 1 /\ Goto(c, "readback", 0)
                BY <1>0, <3>1, <4>2, MoveFacts, RankEnds
            <4> QED BY <3>2, <4>1, <4>2
        <3> QED BY <1>1, <1>5, <2>1, <2>2, <2>3, <3>1, <3>3 DEF Creates
    <2> QED BY <1>5, <2>4, <2>5
<1> QED BY <1>2, <1>5 DEF CreateRank

\* The floors that docker reports are the ones asked for.
ReadsBack(c) ==
    /\ pc[c] = "readback"
    /\ \A h \in Rank : Mine(c, h).floor = loc[c].want[h]
    /\ Goes(c, "rayhead", 0)

\* Every rank has a raylet.
RanksPass(c) ==
    /\ pc[c] = "rankgate"
    /\ \A h \in Rank : Mine(c, h).ray # None
    /\ Goes(c, "loggate", 0)

\* The readback of the environments and the rank gate.
LEMMA RankGateFacts ==
    ASSUME CtlType, NEW c \in Coord, allocator_readback_gate(c) \/ rank_gate(c)
    PROVE  CtlType' /\ Quiet /\ (Gone(c) \/ ReadsBack(c) \/ RanksPass(c))
<1>0. {"readback", "rayhead", "rankgate", "loggate"} \subseteq Working \cap Labels
    BY LabelFacts DEF Working, Created
<1>1. Quiet /\ pc[c] \in {"readback", "rankgate"}
    BY DEF allocator_readback_gate, rank_gate, At, Quiet, host, budget
<1>2. CASE Fail(c)
    BY <1>0, <1>1, <1>2, FailFacts
<1>3. CASE /\ pc[c] = "readback"
           /\ \A h \in Rank : Mine(c, h).floor = loc[c].want[h]
           /\ Goto(c, "rayhead", 0) /\ UNCHANGED loc
    BY <1>0, <1>1, <1>3, GotoFacts, RankEnds DEF ReadsBack, Goes
<1>4. CASE /\ pc[c] = "rankgate"
           /\ \A h \in Rank : Mine(c, h).ray # None
           /\ Goto(c, "loggate", 0) /\ UNCHANGED loc
    BY <1>0, <1>1, <1>4, GotoFacts, RankEnds DEF RanksPass, Goes
<1> QED BY <1>2, <1>3, <1>4 DEF allocator_readback_gate, rank_gate, At

\* `ray start --head' took the port, or somebody has it.
HeadStarts(c) ==
    /\ pc[c] = "rayhead"
    /\ \/ rayHead # None /\ UNCHANGED <<cont, rayHead>>
       \/ rayHead = None /\ rayHead' = job[c].run /\ RayPut(0, job[c].run, job[c].run)
    /\ Goes(c, "rayworker", 1) \/ Goes(c, "serve", 0)
    /\ UNCHANGED <<job, serve, receipts, compacted, faults>>

\* The Ray head of a launch.
LEMMA HeadFacts ==
    ASSUME CtlType, FleetType, job \in [Coord -> Job], NEW c \in Coord, StartRayHead(c)
    PROVE  CtlType' /\ FleetType' /\ ((Quiet /\ Gone(c)) \/ HeadStarts(c))
<1>0. {"rayhead", "rayworker", "serve"} \subseteq Working \cap Labels
    BY LabelFacts DEF Working, Created
<1>1. pc[c] = "rayhead" /\ UNCHANGED <<job, serve, receipts, compacted, faults>>
    BY DEF StartRayHead, At, host, budget
<1>2. CASE Fail(c) /\ UNCHANGED <<rayHead, cont>>
    BY <1>0, <1>1, <1>2, FailFacts DEF Quiet, fleet, FleetType
<1>3. CASE /\ rayHead' = IF rayHead = None THEN job[c].run ELSE rayHead
           /\ cont' = IF rayHead = None THEN [cont EXCEPT ![0][job[c].run].ray = job[c].run]
                      ELSE cont
           /\ IF N > 1 THEN Goto(c, "rayworker", 1) ELSE Goto(c, "serve", 0)
           /\ UNCHANGED loc
    <2>1. job[c].run \in Runs
        BY DEF Job
    <2>2. /\ cont' \in [Rank -> [Runs -> Container]]
          /\ rayHead = None => RayPut(0, job[c].run, job[c].run)
        <3>1. CASE rayHead = None
            BY <1>3, <2>1, <3>1, RankEnds, RayPutFacts
        <3>2. CASE rayHead # None
            BY <1>3, <3>2 DEF FleetType
        <3> QED BY <3>1, <3>2
    <2>3. FleetType'
        BY <1>1, <1>3, <2>1, <2>2 DEF FleetType
    <2>4. N > 1 => 1 \in Rank
        BY RankEnds DEF Rank
    <2>5. CtlType' /\ (Goes(c, "rayworker", 1) \/ Goes(c, "serve", 0))
        BY <1>0, <1>3, <2>4, GotoFacts, RankEnds DEF Goes
    <2> QED BY <1>1, <1>3, <2>2, <2>3, <2>5 DEF HeadStarts
<1> QED BY <1>2, <1>3 DEF StartRayHead

\* A worker joined the cluster of the port's owner, if there is one.
WorkerJoins(c) ==
    /\ pc[c] = "rayworker"
    /\ RayPut(ix[c], job[c].run, rayHead)
    /\ Goes(c, "rayworker", ix[c] + 1) \/ Goes(c, "serve", 0)
    /\ UNCHANGED <<job, rayHead, serve, receipts, compacted, faults>>

\* A Ray worker of a launch.
LEMMA WorkerFacts ==
    ASSUME CtlType, FleetType, job \in [Coord -> Job], NEW c \in Coord, StartRayWorker(c)
    PROVE  CtlType' /\ FleetType' /\ ((Quiet /\ Gone(c)) \/ WorkerJoins(c))
<1>0. {"rayworker", "serve"} \subseteq Working \cap Labels
    BY LabelFacts DEF Working, Created
<1>1. pc[c] = "rayworker" /\ UNCHANGED <<job, rayHead, serve, receipts, compacted, faults>>
    BY DEF StartRayWorker, At, host, budget
<1>2. CASE Fail(c) /\ UNCHANGED cont
    BY <1>0, <1>1, <1>2, FailFacts DEF Quiet, fleet, FleetType
<1>3. CASE /\ cont' = [cont EXCEPT ![ix[c]][job[c].run].ray = rayHead]
           /\ NextRank(c, "serve", 0)
           /\ UNCHANGED loc
    <2>1. job[c].run \in Runs /\ ix[c] \in Rank /\ rayHead \in Runs \cup {None}
        BY DEF Job, CtlType, FleetType
    <2>2. cont' \in [Rank -> [Runs -> Container]] /\ RayPut(ix[c], job[c].run, rayHead)
        BY <1>3, <2>1, RayPutFacts
    <2>3. FleetType'
        BY <1>1, <2>2 DEF FleetType
    <2>4. \/ ix[c] + 1 \in Rank /\ Goto(c, "rayworker", ix[c] + 1)
          \/ Goto(c, "serve", 0)
        BY <1>0, <1>1, <1>3, NextRankFacts, RankEnds
    <2>5. CtlType' /\ (Goes(c, "rayworker", ix[c] + 1) \/ Goes(c, "serve", 0))
        BY <1>0, <1>3, <2>4, GotoFacts, RankEnds DEF Goes
    <2> QED BY <1>1, <2>2, <2>3, <2>5 DEF WorkerJoins
<1> QED BY <1>2, <1>3 DEF StartRayWorker

\* The engine of the run is started.
Serves(c) ==
    /\ pc[c] = "serve"
    /\ \A s \in Runs : serve'[s] = IF s = job[c].run THEN "starting" ELSE serve[s]
    /\ Goes(c, "health", 0)
    /\ UNCHANGED <<job, cont, rayHead, receipts, compacted, faults>>

\* vllm serve.
LEMMA ServeFacts ==
    ASSUME CtlType, FleetType, job \in [Coord -> Job], NEW c \in Coord, Serve(c)
    PROVE  CtlType' /\ FleetType' /\ ((Quiet /\ Gone(c)) \/ Serves(c))
<1>0. {"health", "serve"} \subseteq Working \cap Labels
    BY LabelFacts DEF Working, Created
<1>1. pc[c] = "serve" /\ UNCHANGED <<job, cont, rayHead, receipts, compacted, faults>>
    BY DEF Serve, At, host, budget
<1>2. CASE Fail(c) /\ UNCHANGED serve
    BY <1>0, <1>1, <1>2, FailFacts DEF Quiet, fleet, FleetType
<1>3. CASE /\ serve' = [serve EXCEPT ![job[c].run] = "starting"]
           /\ Goto(c, "health", 0)
           /\ UNCHANGED loc
    <2>1. job[c].run \in Runs
        BY DEF Job
    <2>2. FleetType' /\ \A s \in Runs : serve'[s] = IF s = job[c].run THEN "starting" ELSE serve[s]
        BY <1>1, <1>3, <2>1 DEF FleetType
    <2>3. CtlType' /\ Goes(c, "health", 0)
        BY <1>0, <1>3, GotoFacts, RankEnds DEF Goes
    <2> QED BY <1>1, <2>2, <2>3 DEF Serves
<1> QED BY <1>2, <1>3 DEF Serve

\* docker update of one rank, or its failure, with or without effect.
Pins(c) ==
    /\ \/ /\ pc[c] = "pin"
          /\ \/ /\ PinPut(ix[c], job[c].run, "big")
                /\ \/ Goes(c, "pin", ix[c] + 1)
                   \/ ix[c] = N - 1 /\ Goes(c, "pinverify", 0)
                   \/ Goes(c, "rollback", 0)
             \/ UNCHANGED cont /\ Goes(c, "rollback", 0)
       \/ /\ pc[c] = "rollback"
          /\ \/ /\ PinPut(ix[c], job[c].run, "all")
                /\ \/ Goes(c, "rollback", ix[c] + 1)
                   \/ ix[c] = N - 1 /\ Goes(c, "rollbackprobe", 0)
                   \/ Gone(c)
             \/ UNCHANGED cont /\ Gone(c)
    /\ UNCHANGED <<job, rayHead, serve, receipts, compacted, faults>>

\* One rank of apply_fast_pin or rollback_fast_pin.
LEMMA PinFacts ==
    ASSUME CtlType, FleetType, job \in [Coord -> Job], NEW c \in Coord,
           PinRank(c) \/ RollBackRank(c)
    PROVE  CtlType' /\ FleetType' /\ Pins(c)
<1>0. {"pin", "pinverify", "rollback", "rollbackprobe"} \subseteq Working \cap Labels
    BY LabelFacts DEF Working, Created
<1>1. job[c].run \in Runs /\ ix[c] \in Rank
    BY DEF Job, CtlType
<1>2. UNCHANGED <<job, rayHead, serve, receipts, compacted, faults>>
    BY DEF PinRank, RollBackRank, host, budget
<1>3. CASE PinRank(c)
    <2>1. pc[c] = "pin"
        BY <1>3 DEF PinRank
    <2>2. \/ /\ cont' = [cont EXCEPT ![ix[c]][job[c].run].pin = "big"]
             /\ UNCHANGED loc
             /\ NextRank(c, "pinverify", 0) \/ Goto(c, "rollback", 0)
          \/ UNCHANGED <<cont, loc>> /\ Goto(c, "rollback", 0)
        BY <1>3 DEF PinRank, UpdatePin, RollBack
    <2>3. \/ ix[c] + 1 \in Rank /\ Goto(c, "pin", ix[c] + 1)
          \/ ix[c] = N - 1 /\ Goto(c, "pinverify", 0)
          \/ Goto(c, "rollback", 0)
        BY <1>0, <2>1, <2>2, NextRankFacts, RankEnds
    <2>4. /\ CtlType'
          /\ \/ Goes(c, "pin", ix[c] + 1)
             \/ ix[c] = N - 1 /\ Goes(c, "pinverify", 0)
             \/ Goes(c, "rollback", 0)
        BY <1>0, <2>2, <2>3, GotoFacts, RankEnds DEF Goes
    <2>5. CASE cont' = [cont EXCEPT ![ix[c]][job[c].run].pin = "big"]
        <3>1. cont' \in [Rank -> [Runs -> Container]] /\ PinPut(ix[c], job[c].run, "big")
            BY <1>1, <2>5, PinPutFacts
        <3> QED BY <1>2, <2>1, <2>4, <3>1 DEF Pins, FleetType
    <2>6. CASE UNCHANGED <<cont, loc>> /\ Goto(c, "rollback", 0)
        <3>1. CtlType' /\ Goes(c, "rollback", 0)
            BY <1>0, <2>6, GotoFacts, RankEnds DEF Goes
        <3> QED BY <1>2, <2>1, <2>6, <3>1 DEF Pins, FleetType
    <2> QED BY <2>2, <2>5, <2>6
<1>4. CASE RollBackRank(c)
    <2>1. pc[c] = "rollback"
        BY <1>4 DEF RollBackRank
    <2>2. \/ /\ cont' = [cont EXCEPT ![ix[c]][job[c].run].pin = "all"]
             /\ (NextRank(c, "rollbackprobe", 0) /\ UNCHANGED loc) \/ Exit(c, "PRESERVED")
          \/ UNCHANGED cont /\ Exit(c, "PRESERVED")
        BY <1>4 DEF RollBackRank, UpdatePin
    <2>3. /\ CtlType'
          /\ \/ Goes(c, "rollback", ix[c] + 1)
             \/ ix[c] = N - 1 /\ Goes(c, "rollbackprobe", 0)
             \/ Gone(c)
          /\ UNCHANGED cont /\ Exit(c, "PRESERVED") => Gone(c)
        <3>1. CASE Exit(c, "PRESERVED")
            BY <1>0, <2>1, <3>1, ExitFacts DEF Gone
        <3>2. CASE NextRank(c, "rollbackprobe", 0) /\ UNCHANGED loc
            <4>1. \/ ix[c] + 1 \in Rank /\ Goto(c, "rollback", ix[c] + 1)
                  \/ ix[c] = N - 1 /\ Goto(c, "rollbackprobe", 0)
                BY <1>0, <2>1, <3>2, NextRankFacts, RankEnds
            <4> QED BY <1>0, <3>1, <3>2, <4>1, GotoFacts, RankEnds DEF Goes
        <3> QED BY <2>2, <3>1, <3>2
    <2>5. CASE cont' = [cont EXCEPT ![ix[c]][job[c].run].pin = "all"]
        <3>1. cont' \in [Rank -> [Runs -> Container]] /\ PinPut(ix[c], job[c].run, "all")
            BY <1>1, <2>5, PinPutFacts
        <3> QED BY <1>2, <2>1, <2>3, <3>1 DEF Pins, FleetType
    <2>6. CASE UNCHANGED cont /\ Exit(c, "PRESERVED")
        BY <1>2, <2>1, <2>3, <2>6 DEF Pins, FleetType
    <2> QED BY <2>2, <2>5, <2>6
<1> QED BY <1>3, <1>4

\* The EXIT trap of a launch that STARTED and was not ready begins to observe.
Watches(c) ==
    /\ pc[c] = "onexit"
    /\ loc[c].started /\ ~loc[c].ready
    /\ Goes(c, "observe", 0)

\* The EXIT trap.
LEMMA OnExitFacts ==
    ASSUME CtlType, NEW c \in Coord, on_exit(c)
    PROVE  CtlType' /\ Quiet /\ (Gone(c) \/ Watches(c))
<1>1. Quiet /\ pc[c] = "onexit" /\ UNCHANGED loc
    BY DEF on_exit, Quiet, host, budget
<1>2. CASE Goto(c, "release", 0)
    BY <1>1, <1>2, GotoFacts, LabelFacts, RankEnds DEF Gone
<1>3. CASE loc[c].started /\ ~loc[c].ready /\ Goto(c, "observe", 0)
    BY <1>1, <1>3, GotoFacts, LabelFacts, RankEnds DEF Watches, Goes
<1> QED BY <1>2, <1>3 DEF on_exit

\* One more rank of the launch is found failed.
Observes(c) ==
    /\ pc[c] = "observe"
    /\ Mine(c, ix[c]).label = "own"
    /\ faults' \in 0 .. MaxFaults
    /\ faults' = 0 => faults = 0 /\ ~Healthy(Mine(c, ix[c]))
    /\ loc'[c].started = loc[c].started
    /\ loc'[c].ready = loc[c].ready
    /\ loc'[c].lo = loc[c].lo
    /\ loc'[c].hi = loc[c].hi
    /\ loc'[c].want = loc[c].want
    /\ loc'[c].sampled = loc[c].sampled
    /\ Elsewhere(c)
    /\ \/ /\ ix[c] < N - 1 /\ pc'[c] = "observe" /\ ix'[c] = ix[c] + 1
          /\ loc'[c].round = loc[c].round
       \/ /\ ix[c] = N - 1 /\ loc'[c].round = loc[c].round + 1
          /\ \/ loc[c].round # 2 /\ pc'[c] = "observe" /\ ix'[c] = 0
             \/ loc[c].round = 2 /\ pc'[c] = "failstop" /\ ix'[c] = N - 1
    /\ UNCHANGED <<job, fleet, receipts, compacted>>

\* One rank of one round of the failure observation.
LEMMA ObserveFacts ==
    ASSUME CtlType, faults \in 0 .. MaxFaults, NEW c \in Coord,
           pc[c] = "observe" => loc[c].round <= 2, fleet_observe_failed_three_times(c)
    PROVE  CtlType' /\ ((Quiet /\ Gone(c)) \/ Observes(c))
<1>1. /\ pc[c] = "observe"
      /\ UNCHANGED <<job, fleet, receipts, compacted>>
    BY DEF fleet_observe_failed_three_times, host
<1>2. loc[c] \in Locals /\ ix[c] \in 0 .. N - 1 /\ MaxFaults \in Nat
    BY ControllerAssumption DEF CtlType, Rank, ControllerAssumption
<1> DEFINE k == Mine(c, ix[c])
           last == ix[c] = N - 1
           goOn == /\ loc' = IF last THEN [loc EXCEPT ![c].round = @ + 1] ELSE loc
                   /\ IF last /\ loc[c].round = 2 THEN Goto(c, "failstop", N - 1)
                      ELSE NextRank(c, "observe", 0)
<1>3. CASE Goto(c, "release", 0) /\ UNCHANGED <<loc, faults>>
    BY <1>1, <1>3, GotoFacts, LabelFacts, RankEnds DEF Gone, Quiet
<1>4. CASE /\ Identity(k) = "EXACT"
           /\ \/ ~Healthy(k) /\ UNCHANGED faults
              \/ faults < MaxFaults /\ faults' = faults + 1
           /\ goOn
    <2>1. k.label = "own"
        BY <1>4 DEF Identity
    <2>2. faults' \in 0 .. MaxFaults /\ (faults' = 0 => faults = 0 /\ ~Healthy(k))
        BY <1>2, <1>4
    <2> DEFINE v == IF last THEN [loc[c] EXCEPT !.round = loc[c].round + 1] ELSE loc[c]
    <2>3. v \in Locals /\ loc' = [loc EXCEPT ![c] = v]
        <3>1. loc[c].round + 1 \in 0 .. 3
            BY <1>1, <1>2 DEF Locals
        <3> QED BY <1>2, <1>4, <3>1 DEF Locals, CtlType
    <2>4. /\ v.started = loc[c].started /\ v.ready = loc[c].ready
          /\ v.lo = loc[c].lo /\ v.hi = loc[c].hi /\ v.want = loc[c].want
          /\ v.sampled = loc[c].sampled
          /\ v.round = IF last THEN loc[c].round + 1 ELSE loc[c].round
        BY <1>2 DEF Locals
    <2> HIDE DEF v
    <2>5. \/ /\ ix[c] < N - 1 /\ ix[c] + 1 \in Rank
             /\ Goto(c, "observe", ix[c] + 1)
          \/ last /\ loc[c].round # 2 /\ Goto(c, "observe", 0)
          \/ last /\ loc[c].round = 2 /\ Goto(c, "failstop", N - 1)
        BY <1>1, <1>4, NextRankFacts, RankEnds, LabelFacts
    <2>6. /\ CtlType' /\ Elsewhere(c) /\ loc'[c] = v
          /\ \/ ix[c] < N - 1 /\ pc'[c] = "observe" /\ ix'[c] = ix[c] + 1
             \/ last /\ loc[c].round # 2 /\ pc'[c] = "observe" /\ ix'[c] = 0
             \/ last /\ loc[c].round = 2 /\ pc'[c] = "failstop" /\ ix'[c] = N - 1
        <3>1. CASE ix[c] < N - 1 /\ ix[c] + 1 \in Rank /\ Goto(c, "observe", ix[c] + 1)
            <4> DEFINE i == ix[c] + 1
            <4>1. i \in Rank /\ Goto(c, "observe", i) /\ "observe" \in Labels
                BY <3>1, LabelFacts
            <4> HIDE DEF i
            <4>2. CtlType' /\ Elsewhere(c) /\ loc'[c] = v /\ pc'[c] = "observe" /\ ix'[c] = i
                BY <2>3, <4>1, MoveFacts
            <4> QED BY <3>1, <4>2 DEF i
        <3>2. CASE last /\ loc[c].round # 2 /\ Goto(c, "observe", 0)
            BY <2>3, <3>2, MoveFacts, LabelFacts, RankEnds
        <3>3. CASE last /\ loc[c].round = 2 /\ Goto(c, "failstop", N - 1)
            <4> DEFINE i == N - 1
            <4>1. i \in Rank /\ Goto(c, "failstop", i) /\ "failstop" \in Labels
                BY <3>3, LabelFacts, RankEnds
            <4> HIDE DEF i
            <4>2. CtlType' /\ Elsewhere(c) /\ loc'[c] = v /\ pc'[c] = "failstop" /\ ix'[c] = i
                BY <2>3, <4>1, MoveFacts
            <4> QED BY <3>3, <4>2 DEF i
        <3> QED BY <2>5, <3>1, <3>2, <3>3
    <2>7. ix[c] < N - 1 => ~last
        BY <1>2, RankEnds
    <2> QED BY <1>1, <2>1, <2>2, <2>4, <2>6, <2>7 DEF Observes
<1> QED BY <1>3, <1>4 DEF fleet_observe_failed_three_times

\* The run that the stop loop of c is about.
StopTarget(c) == IF pc[c] = "replace" THEN job[c].replace ELSE job[c].run

\* The container of run r on host h does not run.
StoppedAt(h, r) == cont'[h][r].label = "own" => ~cont'[h][r].up

\* One iteration of fleet_stop_exact_ordered.
Stops(c) ==
    /\ pc[c] \in {"stop", "replace", "failstop"}
    /\ Downed(ix[c], StopTarget(c)) \/ UNCHANGED fleet
    /\ faults' \in 0 .. MaxFaults
    /\ faults' = 0 => faults = 0
    /\ \/ Gone(c)
       \/ /\ pc[c] = "stop" /\ Goes(c, "stop", ix[c] - 1)
          /\ faults' = 0 => StoppedAt(ix[c], job[c].run)
       \/ pc[c] = "replace" /\ (Goes(c, "replace", ix[c] - 1) \/ Goes(c, "check", 0))
       \/ pc[c] = "failstop" /\ Goes(c, "failstop", ix[c] - 1)
    /\ pc[c] = "stop" /\ loc'[c].result = "PASS" /\ pc'[c] = "onexit" =>
            ix[c] = 0 /\ (faults' = 0 => StoppedAt(0, job[c].run))
    /\ UNCHANGED <<job, receipts, compacted>>

\* An iteration that returned 0 left no running container, unless a failed
\* query read ABSENT.
LEMMA StopIterationFacts ==
    ASSUME CtlType, FleetType, faults \in 0 .. MaxFaults,
           NEW c \in Coord, NEW r \in Runs,
           NEW seen \in {"EXACT", "ABSENT", "UNKNOWN"}, NEW ok \in BOOLEAN,
           StopIteration(c, r, seen, ok)
    PROVE  /\ FleetType'
           /\ Downed(ix[c], r) \/ UNCHANGED fleet
           /\ faults' \in 0 .. MaxFaults
           /\ faults' = 0 => faults = 0
           /\ ok /\ faults' = 0 => StoppedAt(ix[c], r)
<1>1. ix[c] \in Rank /\ MaxFaults \in Nat
    BY ControllerAssumption DEF CtlType, ControllerAssumption
<1>2. /\ faults' \in 0 .. MaxFaults
      /\ faults' = 0 => faults = 0 /\ seen = Identity(cont[ix[c]][r])
    BY <1>1 DEF StopIteration, fleet_exact_identity
<1>3. CASE DownEffect(ix[c], r)
    BY <1>1, <1>2, <1>3, DownFacts DEF Downed, StoppedAt
<1>4. CASE UNCHANGED fleet /\ (~ok \/ seen = "ABSENT")
    <2>1. FleetType'
        BY <1>4 DEF fleet, FleetType
    <2>2. seen = "ABSENT" /\ seen = Identity(cont[ix[c]][r]) => cont[ix[c]][r].label # "own"
        BY DEF Identity
    <2> QED BY <1>2, <1>4, <2>1, <2>2 DEF StoppedAt, fleet
<1>5. DownEffect(ix[c], r) \/ (UNCHANGED fleet /\ (~ok \/ seen = "ABSENT"))
    <2>1. CASE seen = "EXACT"
        BY <2>1 DEF StopIteration
    <2>2. CASE seen = "ABSENT"
        BY <2>2 DEF StopIteration
    <2>3. CASE seen = "UNKNOWN"
        BY <2>3 DEF StopIteration
    <2> QED BY <2>1, <2>2, <2>3
<1> QED BY <1>3, <1>4, <1>5

\* The three callers of fleet_stop_exact_ordered.
LEMMA StopFacts ==
    ASSUME CtlType, FleetType, faults \in 0 .. MaxFaults, job \in [Coord -> Job],
           NEW c \in Coord, pc[c] = "replace" => job[c].replace # None,
           StopCluster(c) \/ ReplaceRun(c) \/ StopFailedAttempt(c)
    PROVE  CtlType' /\ FleetType' /\ ((Quiet /\ Gone(c)) \/ Stops(c))
<1>0. {"stop", "replace", "check"} \subseteq Working \cap Labels
    BY LabelFacts DEF Working, Sizing, Creating
<1>1. /\ job[c].run \in Runs
      /\ job[c].replace \in Runs \cup {None}
      /\ ix[c] \in Rank
    BY DEF Job, CtlType
<1>2. UNCHANGED <<job, receipts, compacted>>
    BY DEF StopCluster, ReplaceRun, StopFailedAttempt, host
<1>3. CASE StopCluster(c)
    <2>1. pc[c] = "stop"
        BY <1>3 DEF StopCluster, At
    <2>2. PICK seen \in {"EXACT", "ABSENT", "UNKNOWN"}, ok \in BOOLEAN :
            /\ StopIteration(c, job[c].run, seen, ok)
            /\ CASE ~ok -> Fail(c)
                 [] ok /\ ix[c] > 0 -> PrevRank(c, "stop") /\ UNCHANGED loc
                 [] OTHER -> Exit(c, "PASS")
        BY <1>3 DEF StopCluster
    <2>3. /\ FleetType'
          /\ Downed(ix[c], job[c].run) \/ UNCHANGED fleet
          /\ faults' \in 0 .. MaxFaults
          /\ faults' = 0 => faults = 0
          /\ ok /\ faults' = 0 => StoppedAt(ix[c], job[c].run)
        BY <1>1, <2>2, StopIterationFacts
    <2>4. StopTarget(c) = job[c].run
        BY <2>1 DEF StopTarget
    <2>5. CASE ~ok
        <3>1. Fail(c)
            BY <2>2, <2>5
        <3>2. CtlType' /\ Gone(c) /\ loc'[c].result = "FAIL"
            BY <1>0, <2>1, <3>1, FailFacts
        <3> QED BY <1>2, <2>1, <2>3, <2>4, <3>2 DEF Stops
    <2>6. CASE ok /\ ix[c] > 0
        <3>1. PrevRank(c, "stop") /\ UNCHANGED loc
            BY <2>2, <2>6
        <3>2. ix[c] - 1 \in Rank /\ Goto(c, "stop", ix[c] - 1)
            BY <1>0, <2>1, <2>6, <3>1, PrevRankFacts
        <3>3. CtlType' /\ Goes(c, "stop", ix[c] - 1)
            BY <1>0, <3>1, <3>2, GotoFacts DEF Goes
        <3> QED BY <1>2, <2>1, <2>3, <2>4, <2>6, <3>3 DEF Stops, Goes
    <2>7. CASE ok /\ ~(ix[c] > 0)
        <3>1. Exit(c, "PASS") /\ ix[c] = 0
            BY <1>1, <2>2, <2>7 DEF Rank
        <3>2. CtlType' /\ Gone(c)
            BY <1>0, <2>1, <3>1, ExitFacts DEF Gone
        <3> QED BY <1>2, <2>1, <2>3, <2>4, <2>7, <3>1, <3>2 DEF Stops
    <2> QED BY <2>5, <2>6, <2>7
<1>4. CASE ReplaceRun(c)
    <2>1. pc[c] = "replace" /\ job[c].replace \in Runs
        BY <1>1, <1>4 DEF ReplaceRun, At
    <2>2. PICK seen \in {"EXACT", "ABSENT", "UNKNOWN"}, ok \in BOOLEAN :
            /\ StopIteration(c, job[c].replace, seen, ok)
            /\ Fail(c) \/ (PrevRank(c, "check") /\ UNCHANGED loc)
        BY <1>4 DEF ReplaceRun
    <2>3. /\ FleetType'
          /\ Downed(ix[c], job[c].replace) \/ UNCHANGED fleet
          /\ faults' \in 0 .. MaxFaults
          /\ faults' = 0 => faults = 0
        BY <2>1, <2>2, StopIterationFacts
    <2>4. StopTarget(c) = job[c].replace
        BY <2>1 DEF StopTarget
    <2>5. CASE Fail(c)
        <3>1. CtlType' /\ Gone(c)
            BY <1>0, <2>1, <2>5, FailFacts
        <3> QED BY <1>2, <2>1, <2>3, <2>4, <3>1 DEF Stops
    <2>6. CASE PrevRank(c, "check") /\ UNCHANGED loc
        <3>1. \/ ix[c] - 1 \in Rank /\ Goto(c, "replace", ix[c] - 1)
              \/ Goto(c, "check", 0)
            BY <1>0, <2>1, <2>6, PrevRankFacts
        <3>2. CtlType' /\ (Goes(c, "replace", ix[c] - 1) \/ Goes(c, "check", 0))
            BY <1>0, <2>6, <3>1, GotoFacts, RankEnds DEF Goes
        <3> QED BY <1>2, <2>1, <2>3, <2>4, <3>2 DEF Stops
    <2> QED BY <2>2, <2>5, <2>6
<1>5. CASE StopFailedAttempt(c)
    <2>1. pc[c] = "failstop" /\ UNCHANGED loc
        BY <1>5 DEF StopFailedAttempt
    <2>2. CASE Goto(c, "release", 0) /\ UNCHANGED <<fleet, faults>>
        BY <1>2, <2>1, <2>2, GotoFacts, LabelFacts, RankEnds DEF Gone, Quiet, FleetType, fleet
    <2>3. ASSUME NEW seen \in {"EXACT", "ABSENT", "UNKNOWN"}, NEW ok \in BOOLEAN,
                 StopIteration(c, job[c].run, seen, ok),
                 Goto(c, "release", 0) \/ PrevRank(c, "release")
          PROVE  CtlType' /\ FleetType' /\ Stops(c)
        <3>1. /\ FleetType'
              /\ Downed(ix[c], job[c].run) \/ UNCHANGED fleet
              /\ faults' \in 0 .. MaxFaults
              /\ faults' = 0 => faults = 0
            BY <1>1, <2>3, StopIterationFacts
        <3>2. StopTarget(c) = job[c].run
            BY <2>1 DEF StopTarget
        <3>3. \/ ix[c] - 1 \in Rank /\ Goto(c, "failstop", ix[c] - 1)
              \/ Goto(c, "release", 0)
            BY <2>1, <2>3, PrevRankFacts, LabelFacts
        <3>4. CtlType' /\ (Goes(c, "failstop", ix[c] - 1) \/ Gone(c))
            BY <2>1, <3>3, GotoFacts, LabelFacts, RankEnds DEF Goes, Gone
        <3> QED BY <1>2, <2>1, <3>1, <3>2, <3>4 DEF Stops
    <2> QED BY <1>5, <2>2, <2>3 DEF StopFailedAttempt
<1> QED BY <1>3, <1>4, <1>5

-----------------------------------------------------------------------------
(* The steps of Next as cases.  *)

\* A step of the script of c, by its effect.
ScriptCase(c) ==
    \/ /\ Quiet
       /\ \/ Gone(c) \/ Begins(c) \/ Passes(c) \/ Verifies(c) \/ Samples(c)
          \/ Checks(c) \/ ReadsBack(c) \/ RanksPass(c) \/ Watches(c)
    \/ Consumes(c) \/ Compacts(c) \/ Creates(c) \/ HeadStarts(c) \/ WorkerJoins(c)
    \/ Serves(c) \/ Pins(c) \/ Observes(c) \/ Stops(c)

\* Every step of a script is one of the cases.
LEMMA ScriptFacts ==
    ASSUME TypeOK, ControlInv, NEW c \in Coord, ScriptStep(c) \/ Kill(c)
    PROVE  CtlType' /\ FleetType' /\ ScriptCase(c)
<1>0. /\ CtlType /\ FleetType /\ job \in [Coord -> Job]
      /\ faults \in 0 .. MaxFaults
      /\ pc[c] = "replace" => job[c].replace # None
      /\ pc[c] = "observe" => loc[c].round <= 2
    BY DEF TypeOK, CtlType, FleetType, ControlInv
<1>1. Quiet => FleetType'
    BY <1>0 DEF Quiet, fleet, FleetType
<1>2. CASE Acquire(c)
    BY <1>0, <1>1, <1>2, AcquireFacts DEF ScriptCase
<1>3. CASE LockLost(c) \/ Release(c) \/ Kill(c)
    BY <1>0, <1>1, <1>3, EndFacts DEF ScriptCase
<1>4. CASE verify_hosts(c)
    BY <1>0, <1>1, <1>4, VerifyFacts DEF ScriptCase
<1>5. CASE fleet_consume_compaction_nonce_hash(c)
    BY <1>0, <1>1, <1>5, ConsumeFacts DEF ScriptCase, Consumes, FleetType, fleet
<1>6. CASE Compact(c)
    BY <1>0, <1>1, <1>6, CompactFacts DEF ScriptCase, Compacts, FleetType, fleet
<1>7. CASE SampleAndSize(c)
    BY <1>0, <1>1, <1>7, SampleFacts DEF ScriptCase
<1>8. CASE ReplaceRun(c) \/ StopCluster(c) \/ StopFailedAttempt(c)
    BY <1>0, <1>1, <1>8, StopFacts DEF ScriptCase
<1>9. CASE CheckRank(c)
    BY <1>0, <1>1, <1>9, CheckFacts DEF ScriptCase
<1>10. CASE CreateRank(c)
    BY <1>0, <1>10, CreateFacts DEF ScriptCase
<1>11. CASE allocator_readback_gate(c) \/ rank_gate(c)
    BY <1>0, <1>1, <1>11, RankGateFacts DEF ScriptCase
<1>12. CASE StartRayHead(c)
    BY <1>0, <1>12, HeadFacts DEF ScriptCase
<1>13. CASE StartRayWorker(c)
    BY <1>0, <1>13, WorkerFacts DEF ScriptCase
<1>14. CASE Serve(c)
    BY <1>0, <1>14, ServeFacts DEF ScriptCase
<1>15. CASE \/ AwaitHealth(c) \/ ModelsGate(c) \/ transport_and_log_gate(c)
            \/ ImmediateChat(c) \/ cache_busted_sparse_indexer_probe(c)
            \/ IdleWindow(c) \/ PostIdleProbe(c) \/ PostIdleLogs(c)
    BY <1>0, <1>1, <1>15, ReadinessGateFacts DEF ScriptCase
<1>16. CASE \/ FinalAssert(c) \/ StageDone(c) \/ RollBackProbe(c)
            \/ VerifyPin(c) \/ PinProbe(c) \/ ExistingBeforeNonce(c) \/ StageImage(c)
    BY <1>0, <1>1, <1>16, QuietFacts DEF ScriptCase
<1>17. CASE PinRank(c) \/ RollBackRank(c)
    BY <1>0, <1>17, PinFacts DEF ScriptCase
<1>18. CASE on_exit(c)
    BY <1>0, <1>1, <1>18, OnExitFacts DEF ScriptCase
<1>19. CASE fleet_observe_failed_three_times(c)
    BY <1>0, <1>1, <1>19, ObserveFacts DEF ScriptCase, Observes, FleetType, fleet
<1> QED
    BY <1>2, <1>3, <1>4, <1>5, <1>6, <1>7, <1>8, <1>9, <1>10, <1>11, <1>12, <1>13,
       <1>14, <1>15, <1>16, <1>17, <1>18, <1>19 DEF ScriptStep

\* Only the two ends of a script move the lock, and only stage_image loads images.
LEMMA ScriptFrame ==
    ASSUME NEW c \in Coord, ScriptStep(c) \/ Kill(c)
    PROVE  /\ \/ pc[c] # "start" /\ UNCHANGED lockVars
              \/ pc[c] = "start" /\ (Grant(c) \/ (Deny(c) /\ Fail(c)))
              \/ pc[c] # "start" /\ Close(c) /\ (Goto(c, "done", 0) \/ Goto(c, "dead", 0))
           /\ UNCHANGED image \/ image' = image \cup {ix[c]}
           /\ UNCHANGED fails
<1> USE DEF host, budget, At
<1>1. CASE \/ Acquire(c) \/ LockLost(c) \/ Release(c) \/ Kill(c)
    BY <1>1 DEF Acquire, LockLost, Release, Kill, Guarded
<1>2. CASE \/ verify_hosts(c) \/ ExistingBeforeNonce(c)
           \/ fleet_consume_compaction_nonce_hash(c) \/ Compact(c) \/ SampleAndSize(c)
    BY <1>2 DEF verify_hosts, ExistingBeforeNonce, fleet_consume_compaction_nonce_hash,
                Compact, SampleAndSize
<1>3. CASE \/ ReplaceRun(c) \/ StopCluster(c) \/ StopFailedAttempt(c)
           \/ CheckRank(c) \/ CreateRank(c) \/ allocator_readback_gate(c)
    BY <1>3 DEF ReplaceRun, StopCluster, StopFailedAttempt, CheckRank, CreateRank,
                allocator_readback_gate
<1>4. CASE \/ StartRayHead(c) \/ StartRayWorker(c) \/ Serve(c)
           \/ AwaitHealth(c) \/ ModelsGate(c) \/ rank_gate(c) \/ transport_and_log_gate(c)
    BY <1>4 DEF StartRayHead, StartRayWorker, Serve, AwaitHealth, ModelsGate, rank_gate,
                transport_and_log_gate, Gate
<1>5. CASE \/ ImmediateChat(c) \/ cache_busted_sparse_indexer_probe(c)
           \/ IdleWindow(c) \/ PostIdleProbe(c) \/ PostIdleLogs(c) \/ FinalAssert(c)
    BY <1>5 DEF ImmediateChat, cache_busted_sparse_indexer_probe, ReadinessProbe,
                IdleWindow, PostIdleProbe, PostIdleLogs, FinalAssert, Gate
<1>6. CASE \/ PinRank(c) \/ VerifyPin(c) \/ PinProbe(c) \/ RollBackRank(c) \/ RollBackProbe(c)
    BY <1>6 DEF PinRank, VerifyPin, PinProbe, RollBackRank, RollBackProbe
<1>7. CASE \/ on_exit(c) \/ fleet_observe_failed_three_times(c) \/ StageImage(c) \/ StageDone(c)
    BY <1>7 DEF on_exit, fleet_observe_failed_three_times, StageImage, StageDone
<1> QED BY <1>1, <1>2, <1>3, <1>4, <1>5, <1>6, <1>7 DEF ScriptStep

\* A container is down, or no longer clean.
Fails(h, r) ==
    /\ \/ Downed(h, r)
       \/ /\ \A g \in Rank, s \in Runs :
                /\ SameBirth(g, s)
                /\ cont'[g][s].pin = cont[g][s].pin
                /\ cont'[g][s].ray = cont[g][s].ray
                /\ cont'[g][s].up = cont[g][s].up
                /\ cont'[g][s].clean => cont[g][s].clean
          /\ UNCHANGED <<rayHead, serve>>
    /\ UNCHANGED <<job, pc, ix, loc, receipts, compacted, faults>>

\* A container that fails.
LEMMA ContainerFacts ==
    ASSUME FleetType, NEW h \in Rank, NEW r \in Runs, ContainerFails(h, r)
    PROVE  FleetType' /\ Fails(h, r) /\ UNCHANGED <<lockVars, image>> /\ fails' = fails + 1
           /\ fails < MaxFails
<1>1. /\ UNCHANGED <<job, pc, ix, loc, receipts, compacted, faults>>
      /\ UNCHANGED <<lockVars, image>> /\ fails' = fails + 1 /\ fails < MaxFails
    BY DEF ContainerFails, ctl, host
<1>2. CASE DownEffect(h, r)
    BY <1>1, <1>2, DownFacts DEF Fails
<1>3. CASE cont' = [cont EXCEPT ![h][r].clean = FALSE] /\ UNCHANGED <<rayHead, serve>>
    <2> DEFINE v == [cont[h][r] EXCEPT !.clean = FALSE]
    <2>1. cont[h][r] \in Container
        BY DEF FleetType
    <2>2. /\ v \in Container
          /\ v.label = cont[h][r].label /\ v.born = cont[h][r].born
          /\ v.floor = cont[h][r].floor /\ v.pin = cont[h][r].pin
          /\ ~v.clean /\ v.up = cont[h][r].up /\ v.ray = cont[h][r].ray
        BY <2>1 DEF Container
    <2>3. cont' = [cont EXCEPT ![h][r] = v]
        BY <1>3 DEF FleetType, Container
    <2> HIDE DEF v
    <2>4. /\ cont' \in [Rank -> [Runs -> Container]]
          /\ \A g \in Rank, s \in Runs :
                cont'[g][s] = IF g = h /\ s = r THEN v ELSE cont[g][s]
        BY <2>2, <2>3 DEF FleetType
    <2> QED BY <1>1, <1>3, <2>2, <2>4 DEF Fails, SameBirth, FleetType
<1> QED BY <1>2, <1>3 DEF ContainerFails

\* The engine of r gets on; only the owner of the port gets to the GPUs.
Progresses(r) ==
    /\ \A s \in Runs : s # r => serve'[s] = serve[s]
    /\ (serve[r] = "starting" /\ rayHead = r) \/ serve[r] = "gpu"
    /\ serve'[r] \in {"gpu", "up"}
    /\ UNCHANGED <<job, pc, ix, loc, cont, rayHead, receipts, compacted, faults>>

\* An engine that gets on.
LEMMA EngineFacts ==
    ASSUME FleetType, NEW r \in Runs, EngineProgress(r)
    PROVE  FleetType' /\ Progresses(r) /\ UNCHANGED <<lockVars, image, fails>>
<1>1. UNCHANGED <<job, pc, ix, loc, cont, rayHead, receipts, compacted, faults>>
      /\ UNCHANGED <<lockVars, image, fails>>
    BY DEF EngineProgress, ctl, host, budget
<1>2. \/ serve[r] = "starting" /\ rayHead = r /\ serve' = [serve EXCEPT ![r] = "gpu"]
      \/ serve[r] = "gpu" /\ serve' = [serve EXCEPT ![r] = "up"]
    BY DEF EngineProgress
<1>3. FleetType'
    BY <1>1, <1>2 DEF FleetType
<1> QED BY <1>1, <1>2, <1>3 DEF Progresses, FleetType

\* The lock service keeps its types.
LEMMA LockStepType ==
    ASSUME LockTypeOK, NEW c \in Coord,
           Grant(c) \/ Deny(c) \/ Close(c) \/ LockEnvironment(c) \/ UNCHANGED lockVars
    PROVE  LockTypeOK'
BY DEF LockTypeOK, Grant, Deny, Close, LockEnvironment, LateTake, Drop, Notice, Vanish, lockVars

-----------------------------------------------------------------------------
(* Types.  *)

\* Every step keeps the types.
LEMMA TypeStep ==
    ASSUME TypeOK, ControlInv, Next
    PROVE  TypeOK'
<1>0. /\ CtlType /\ FleetType /\ LockTypeOK
      /\ {MaxFaults, MaxFails} \subseteq Nat
    BY ControllerAssumption DEF TypeOK, CtlType, FleetType, ControllerAssumption
<1>1. ASSUME NEW c \in Coord, ScriptStep(c) \/ Kill(c)
      PROVE  TypeOK'
    <2>1. CtlType' /\ FleetType' /\ ScriptCase(c)
        BY <1>1, ScriptFacts
    <2>2. LockTypeOK'
        BY <1>0, <1>1, ScriptFrame, LockStepType
    <2>3. image' \in SUBSET Rank /\ fails' \in 0 .. MaxFails
        BY <1>1, ScriptFrame DEF TypeOK
    <2>4. /\ job' = job
          /\ compacted' \in SUBSET Coord
          /\ faults' \in 0 .. MaxFaults
        BY <2>1 DEF ScriptCase, Quiet, Consumes, Compacts, Creates, HeadStarts, WorkerJoins,
                    Serves, Pins, Observes, Stops, TypeOK
    <2>5. receipts' \in SUBSET Nonces
        <3>1. CASE Consumes(c)
            <4>1. job[c] \in Job /\ job[c].kind = "launch" /\ job[c].profile = "fast"
                BY <3>1 DEF Consumes, ControlInv, Sizing, FastOnly, Fast, TypeOK
            <4>2. job[c].nonce \in Nonces
                BY <4>1 DEF Job
            <4> QED BY <3>1, <4>2 DEF Consumes, TypeOK
        <3>2. CASE ~Consumes(c)
            BY <2>1, <3>2 DEF ScriptCase, Quiet, Compacts, Creates, HeadStarts, WorkerJoins,
                              Serves, Pins, Observes, Stops, TypeOK
        <3> QED BY <3>1, <3>2
    <2> QED BY <2>1, <2>2, <2>3, <2>4, <2>5 DEF TypeOK, CtlType, FleetType
<1>2. ASSUME NEW c \in Coord, LockMoves(c)
      PROVE  TypeOK'
    <2>1. LockTypeOK'
        BY <1>0, <1>2, LockStepType DEF LockMoves
    <2> QED BY <1>2, <2>1 DEF LockMoves, TypeOK, ctl, fleet, host, budget
<1>3. ASSUME NEW h \in Rank, NEW r \in Runs, ContainerFails(h, r)
      PROVE  TypeOK'
    <2>1. FleetType' /\ Fails(h, r) /\ UNCHANGED <<lockVars, image>> /\ fails' = fails + 1
          /\ fails < MaxFails
        BY <1>0, <1>3, ContainerFacts
    <2>2. fails' \in 0 .. MaxFails
        BY <1>0, <2>1 DEF TypeOK
    <2> QED BY <2>1, <2>2 DEF Fails, TypeOK, FleetType, LockTypeOK, lockVars
<1>4. ASSUME NEW r \in Runs, EngineProgress(r)
      PROVE  TypeOK'
    <2>1. FleetType' /\ Progresses(r) /\ UNCHANGED <<lockVars, image, fails>>
        BY <1>0, <1>4, EngineFacts
    <2> QED BY <2>1 DEF Progresses, TypeOK, FleetType, LockTypeOK, lockVars
<1> QED BY <1>1, <1>2, <1>3, <1>4 DEF Next

\* A step of a script keeps every block in its script, profile and loop.
LEMMA ControlStep ==
    ASSUME ControlInv, CtlType, NEW c \in Coord, ScriptCase(c), CtlType'
    PROVE  ControlInv'
<1> DEFINE P(d) ==
        /\ pc[d] \in Sizing \cup Creating \cup Created => job[d].kind = "launch"
        /\ pc[d] \in FastOnly => Fast(d)
        /\ pc[d] = "replace" => job[d].replace # None
        /\ pc[d] = "stop" => job[d].kind = "stop"
        /\ pc[d] \in {"stage", "staged"} => job[d].kind = "stage"
        /\ pc[d] = "rayworker" => ix[d] > 0
        /\ pc[d] \in {"observe", "failstop"} => loc[d].started /\ ~loc[d].ready
        /\ pc[d] \in Working \cup {"start", "onexit"} => loc[d].round = 0
        /\ pc[d] = "observe" => loc[d].round <= 2
<1>1. job' = job /\ Elsewhere(c)
    BY DEF ScriptCase, Quiet, Gone, Goes, Begins, Passes, Verifies, Samples, Checks, ReadsBack,
           RanksPass, Watches, Consumes, Compacts, Creates, HeadStarts, WorkerJoins, Serves,
           Pins, Observes, Stops
<1>2. \A d \in Coord : d # c => P(d)'
    BY <1>1 DEF ControlInv, Elsewhere, Fast
<1>3. P(c)'
    <2> USE <1>1 DEF Fast, Working, Sizing, Creating, Created, FastOnly
    <2>0. P(c) /\ ix[c] \in Int /\ ix'[c] \in Int /\ loc[c] \in Locals /\ loc'[c] \in Locals
        BY RankEnds DEF ControlInv, CtlType, Rank
    <2>1. CASE Gone(c)
        BY <2>0, <2>1 DEF Gone, SameLocals
    <2>2. CASE Begins(c) \/ ReadsBack(c) \/ RanksPass(c) \/ Watches(c)
        BY <2>0, <2>2 DEF Begins, ReadsBack, RanksPass, Watches, Goes, SameLocals
    <2>3. CASE Passes(c)
        BY <2>0, <2>3 DEF Passes, PassEdges
    <2>4. CASE Verifies(c)
        BY <2>0, <2>4 DEF Verifies
    <2>5. CASE Samples(c) \/ Checks(c)
        BY <2>0, <2>5 DEF Samples, Sized, Checks
    <2>6. CASE ~Gone(c) /\ (Consumes(c) \/ Compacts(c) \/ Creates(c))
        BY <2>0, <2>6 DEF Consumes, Compacts, Creates, Goes, SameLocals
    <2>7. CASE ~Gone(c) /\ (HeadStarts(c) \/ WorkerJoins(c) \/ Serves(c))
        BY <2>0, <2>7 DEF HeadStarts, WorkerJoins, Serves, Goes, SameLocals
    <2>8. CASE ~Gone(c) /\ Pins(c)
        BY <2>0, <2>8 DEF Pins, Goes, SameLocals
    <2>9. CASE Observes(c)
        BY <2>0, <2>9 DEF Observes, Locals
    <2>10. CASE ~Gone(c) /\ Stops(c)
        BY <2>0, <2>10 DEF Stops, Goes, SameLocals
    <2> QED BY <2>1, <2>2, <2>3, <2>4, <2>5, <2>6, <2>7, <2>8, <2>9, <2>10 DEF ScriptCase
<1> QED BY <1>2, <1>3 DEF ControlInv

-----------------------------------------------------------------------------
(* What a step of a script leaves alone.  *)

\* The command lines and the other coordinators.
LEMMA ScriptOthers ==
    ASSUME NEW c \in Coord, ScriptCase(c)
    PROVE  job' = job /\ Elsewhere(c)
BY DEF ScriptCase, Quiet, Gone, Goes, Begins, Passes, Verifies, Samples, Checks, ReadsBack,
       RanksPass, Watches, Consumes, Compacts, Creates, HeadStarts, WorkerJoins, Serves,
       Pins, Observes, Stops

\* A step that creates no container leaves what the containers were created with.
LEMMA ScriptBirths ==
    ASSUME NEW c \in Coord, ScriptCase(c), ~Creates(c)
    PROVE  \A g \in Rank, s \in Runs : SameBirth(g, s)
<1>1. CASE UNCHANGED cont
    BY <1>1 DEF SameBirth
<1>2. CASE HeadStarts(c) \/ WorkerJoins(c)
    BY <1>1, <1>2 DEF HeadStarts, WorkerJoins, RayPut
<1>3. CASE Pins(c)
    BY <1>1, <1>3 DEF Pins, PinPut
<1>4. CASE Stops(c)
    BY <1>1, <1>4 DEF Stops, Downed, fleet
<1>5. CASE Serves(c)
    BY <1>1, <1>5 DEF Serves
<1>6. CASE Quiet \/ Consumes(c) \/ Compacts(c) \/ Observes(c)
    BY <1>1, <1>6 DEF Quiet, Consumes, Compacts, Observes, fleet
<1> QED BY <1>2, <1>3, <1>4, <1>5, <1>6 DEF ScriptCase

\* A container that a coordinator created stays its own: docker run takes a free name.
LEMMA HasKept ==
    ASSUME TypeOK, NEW c \in Coord, ScriptCase(c), NEW d \in Coord, NEW h \in Rank, Has(d, h)
    PROVE  Has(d, h)'
<1>1. job' = job /\ job[d].run \in Runs
    BY ScriptOthers DEF TypeOK, Job
<1>2. CASE ~Creates(c)
    BY <1>1, <1>2, ScriptBirths DEF SameBirth, Has, Mine
<1>3. CASE Creates(c)
    BY <1>1, <1>3 DEF Creates, Has, Mine
<1> QED BY <1>2, <1>3

\* Only docker run gives a coordinator a container.
LEMMA HasBefore ==
    ASSUME TypeOK, NEW c \in Coord, ScriptCase(c), NEW d \in Coord, NEW h \in Rank, Has(d, h)',
           d # c \/ ~Creates(c)
    PROVE  Has(d, h)
<1>1. job' = job /\ job[d].run \in Runs
    BY ScriptOthers DEF TypeOK, Job
<1>2. CASE ~Creates(c)
    BY <1>1, <1>2, ScriptBirths DEF SameBirth, Has, Mine
<1>3. CASE Creates(c) /\ d # c
    BY <1>1, <1>3 DEF Creates, Has, Mine
<1> QED BY <1>2, <1>3

-----------------------------------------------------------------------------
(* Nonces: the receipt directory is the test-and-set.  *)

\* A step of a script keeps the nonces apart.
LEMMA NonceStep ==
    ASSUME NonceInv, NEW c \in Coord, ScriptCase(c)
    PROVE  NonceInv'
<1>1. job' = job /\ Elsewhere(c)
    BY ScriptOthers
<1>2. CASE Consumes(c)
    <2>1. compacted' = compacted
        BY <1>2 DEF Consumes
    <2>2. \A d \in Coord : d # c => (HasConsumed(d)' <=> HasConsumed(d))
        BY <1>1, <2>1 DEF Elsewhere, HasConsumed
    <2>3. \A d \in Coord : HasConsumed(d) => job[d].nonce # job[c].nonce
        BY <1>2 DEF NonceInv, Consumes
    <2>4. receipts' = receipts \cup {job[c].nonce}
        BY <1>2 DEF Consumes
    <2> QED BY <1>1, <2>2, <2>3, <2>4 DEF NonceInv
<1>3. CASE ~Consumes(c)
    <2>1. receipts' = receipts
        BY <1>3 DEF ScriptCase, Quiet, Compacts, Creates, HeadStarts, WorkerJoins, Serves,
                    Pins, Observes, Stops
    <2>2. \A d \in Coord : HasConsumed(d)' => HasConsumed(d)
        <3>1. CASE Compacts(c)
            BY <1>1, <3>1 DEF Compacts, Elsewhere, HasConsumed, Gone, Goes
        <3>2. CASE ~Compacts(c)
            <4>1. compacted' = compacted
                BY <1>3, <3>2 DEF ScriptCase, Quiet, Creates, HeadStarts, WorkerJoins, Serves,
                                  Pins, Observes, Stops
            <4>2. pc'[c] # "compact"
                BY <1>3, <3>2 DEF ScriptCase, Gone, Goes, Begins, Passes, PassEdges, Verifies,
                            Samples, Sized, Checks, ReadsBack, RanksPass, Watches, Creates,
                            HeadStarts, WorkerJoins, Serves, Pins, Observes, Stops
            <4> QED BY <1>1, <4>1, <4>2 DEF Elsewhere, HasConsumed
        <3> QED BY <3>1, <3>2
    <2> QED BY <1>1, <2>1, <2>2 DEF NonceInv
<1> QED BY <1>2, <1>3

-----------------------------------------------------------------------------
(* Creators: a name is taken once.  *)

\* A step of a script keeps one creator per run.
LEMMA CreatorStep ==
    ASSUME TypeOK, CreatorInv, NEW c \in Coord, ScriptCase(c), CtlType'
    PROVE  CreatorInv'
<1>0. /\ job' = job /\ Elsewhere(c)
      /\ \A d \in Coord : job[d].run \in Runs /\ ix[d] \in Rank /\ ix[d] \in Int
    BY ScriptOthers, RankEnds DEF TypeOK, Job, Rank
<1>1. ASSUME NEW h \in Rank, NEW r \in Runs, cont'[h][r].label = "own"
      PROVE  /\ cont'[0][r].label = "own"
             /\ cont'[h][r].born = cont'[0][r].born
             /\ cont'[h][r].born \in Coord
             /\ job'[cont'[h][r].born].run = r
    <2>1. CASE ~Creates(c)
        BY <1>0, <1>1, <2>1, ScriptBirths, RankEnds DEF SameBirth, CreatorInv
    <2>2. CASE Creates(c) /\ r # job[c].run
        BY <1>0, <1>1, <2>2, RankEnds DEF Creates, CreatorInv
    <2>3. CASE Creates(c) /\ r = job[c].run /\ ix[c] = 0
        <3>1. cont[0][r].label # "own"
            BY <2>3 DEF Creates, Mine
        <3>2. cont[h][r].label # "own"
            BY <3>1 DEF CreatorInv
        <3> QED BY <1>0, <1>1, <2>3, <3>2, RankEnds DEF Creates
    <2>4. CASE Creates(c) /\ r = job[c].run /\ ix[c] # 0
        <3>1. Has(c, 0)
            <4>1. 0 < ix[c]
                BY <1>0, <2>4 DEF Rank
            <4> QED BY <2>4, <4>1, RankEnds DEF Creates, Creating, CreatorInv
        <3>2. cont'[0][r] = cont[0][r] /\ cont[0][r].label = "own" /\ cont[0][r].born = c
            BY <2>4, <3>1, RankEnds DEF Creates, Has, Mine
        <3> QED BY <1>0, <1>1, <2>4, <3>2 DEF Creates, CreatorInv
    <2> QED BY <2>1, <2>2, <2>3, <2>4
<1> DEFINE P(d) ==
        /\ pc[d] \in Sizing \cup {"start"} => \A h \in Rank : ~Has(d, h)
        /\ pc[d] \in Creating => \A h \in Rank : h < ix[d] => Has(d, h)
        /\ pc[d] \in Created => \A h \in Rank : Has(d, h)
        /\ loc[d].started => Has(d, 0)
<1>2. \A d \in Coord : d # c => P(d)'
    <2>1. ASSUME NEW d \in Coord, d # c
          PROVE  P(d)'
        <3>1. pc'[d] = pc[d] /\ ix'[d] = ix[d] /\ loc'[d] = loc[d]
            BY <1>0, <2>1 DEF Elsewhere
        <3>2. P(d) /\ \A h \in Rank : Has(d, h) <=> Has(d, h)'
            BY <2>1, HasKept, HasBefore DEF CreatorInv
        <3> QED BY <3>1, <3>2, RankEnds
    <2> QED BY <2>1
<1>3. P(c)'
    <2>0. P(c) /\ (\A h \in Rank : Has(c, h) => Has(c, h)') /\ 0 \in Rank
        BY HasKept, RankEnds DEF CreatorInv
    <2>1. CASE Creates(c)
        <3>0. PICK i \in Rank : i = ix[c]
            BY <1>0
        <3>1. \A h \in Rank : h < i => Has(c, h)'
            BY <2>0, <2>1, <3>0 DEF Creates, Creating
        <3>2. Has(c, i)'
            BY <1>0, <2>1, <3>0 DEF Creates, Has, Mine
        <3>3. \A h \in Rank : h <= i => Has(c, h)'
            BY <3>1, <3>2 DEF Rank
        <3>4. Has(c, 0)'
            BY <2>0, <3>3 DEF Rank
        <3>5. CASE Gone(c)
            BY <3>4, <3>5 DEF Gone, Creating, Created, Sizing
        <3>6. CASE ix[c] < N - 1 /\ pc'[c] = "check" /\ ix'[c] = ix[c] + 1
            BY <3>0, <3>3, <3>4, <3>6 DEF Creating, Created, Sizing, Rank
        <3>7. CASE ix[c] = N - 1 /\ pc'[c] = "readback" /\ ix'[c] = 0
            BY <3>0, <3>3, <3>4, <3>7, RankEnds DEF Creating, Created, Sizing, Rank
        <3> QED BY <2>1, <3>5, <3>6, <3>7 DEF Creates
    <2>2. CASE ~Creates(c)
        <3>1. loc'[c].started = loc[c].started
            BY <2>2 DEF ScriptCase, Gone, Goes, Begins, Passes, Verifies, Samples, Checks,
                 ReadsBack, RanksPass, Watches, Consumes, Compacts, HeadStarts, WorkerJoins,
                 Serves, Pins, Observes, Stops, SameLocals
        <3>2. pc'[c] \in Created => pc[c] \in Created
            BY <2>2 DEF ScriptCase, Gone, Goes, Begins, Passes, PassEdges, Verifies, Samples,
                 Sized, Checks, ReadsBack, RanksPass, Watches, Consumes, Compacts, HeadStarts,
                 WorkerJoins, Serves, Pins, Observes, Stops, Created
        <3>3. pc'[c] \in Creating => ix'[c] = 0 \/ (pc[c] \in Creating /\ ix'[c] = ix[c])
            BY <2>2 DEF ScriptCase, Gone, Goes, Begins, Passes, PassEdges, Verifies, Samples,
                 Sized, Checks, ReadsBack, RanksPass, Watches, Consumes, Compacts, HeadStarts,
                 WorkerJoins, Serves, Pins, Observes, Stops, Creating
        <3>4. pc'[c] \in Sizing \cup {"start"} => pc[c] \in Sizing \cup {"start"}
            BY <2>2 DEF ScriptCase, Gone, Goes, Begins, Passes, PassEdges, Verifies, Samples,
                 Sized, Checks, ReadsBack, RanksPass, Watches, Consumes, Compacts, HeadStarts,
                 WorkerJoins, Serves, Pins, Observes, Stops, Sizing
        <3>5. \A h \in Rank : Has(c, h)' => Has(c, h)
            BY <2>2, HasBefore
        <3> QED BY <1>0, <2>0, <3>1, <3>2, <3>3, <3>4, <3>5 DEF Rank
    <2> QED BY <2>1, <2>2
<1> QED BY <1>1, <1>2, <1>3 DEF CreatorInv

-----------------------------------------------------------------------------
(* Pins: nobody else updates the containers of a launch.  *)

\* Beyond the loop that creates containers two launches are of different runs.
LEMMA OtherRun ==
    ASSUME TypeOK, CreatorInv, NEW c \in Coord, pc[c] \in Created,
           NEW d \in Coord, d # c, NEW h \in Rank, Has(d, h)
    PROVE  job[d].run # job[c].run
BY DEF CreatorInv, Has, Mine

\* A pin is changed only by the launch that owns the container.
LEMMA PinKept ==
    ASSUME TypeOK, CreatorInv, NEW c \in Coord, ScriptCase(c),
           NEW d \in Coord, NEW h \in Rank, Has(d, h), d # c \/ ~Pins(c)
    PROVE  Mine(d, h)'.pin = Mine(d, h).pin
<1>1. job' = job /\ job[d].run \in Runs
    BY ScriptOthers DEF TypeOK, Job
<1>2. CASE UNCHANGED cont
    BY <1>1, <1>2 DEF Mine
<1>3. CASE Pins(c) /\ d # c
    <2>1. pc[c] \in Created
        BY <1>3 DEF Pins, Created
    <2>2. job[d].run # job[c].run
        BY <1>3, <2>1, OtherRun
    <2> QED BY <1>1, <1>2, <1>3, <2>2 DEF Pins, PinPut, Mine
<1>4. CASE Creates(c)
    BY <1>1, <1>4 DEF Creates, Has, Mine
<1>5. CASE HeadStarts(c) \/ WorkerJoins(c)
    BY <1>1, <1>2, <1>5 DEF HeadStarts, WorkerJoins, RayPut, Mine
<1>6. CASE Stops(c)
    BY <1>1, <1>2, <1>6 DEF Stops, Downed, Mine, fleet
<1>7. CASE Quiet \/ Consumes(c) \/ Compacts(c) \/ Observes(c) \/ Serves(c)
    BY <1>2, <1>7 DEF Quiet, Consumes, Compacts, Observes, Serves, fleet
<1> QED BY <1>3, <1>4, <1>5, <1>6, <1>7 DEF ScriptCase

\* A step of a script keeps what the pin loops have done.
LEMMA PinStep ==
    ASSUME TypeOK, CreatorInv, PinInv, NEW c \in Coord, ScriptCase(c)
    PROVE  PinInv'
<1>0. /\ job' = job /\ Elsewhere(c)
      /\ job[c].run \in Runs /\ ix[c] \in Rank
    BY ScriptOthers DEF TypeOK, Job
<1> DEFINE P(d, h) ==
        /\ pc[d] = "pin" /\ h < ix[d] => Mine(d, h).pin = "big"
        /\ pc[d] \in {"pinverify", "pinprobe"} => Mine(d, h).pin = "big"
        /\ pc[d] = "final" /\ Fast(d) => Mine(d, h).pin = "big"
        /\ pc[d] = "rollback" /\ h < ix[d] => Mine(d, h).pin = "all"
        /\ pc[d] = "rollbackprobe" => Mine(d, h).pin = "all"
<1>1. ASSUME NEW d \in Coord, d # c, NEW h \in Rank
      PROVE  P(d, h)'
    <2>1. P(d, h) /\ pc'[d] = pc[d] /\ ix'[d] = ix[d]
        BY <1>0, <1>1 DEF Elsewhere, PinInv
    <2>2. pc[d] \in {"pin", "pinverify", "pinprobe", "final", "rollback", "rollbackprobe"}
            => Mine(d, h)'.pin = Mine(d, h).pin
        BY <1>1, PinKept DEF CreatorInv, Created
    <2> QED BY <1>0, <2>1, <2>2 DEF Fast
<1>2. ASSUME NEW h \in Rank
      PROVE  P(c, h)'
    <2>1. P(c, h)
        BY DEF PinInv
    <2>2. CASE ~Pins(c) /\ pc'[c] \in {"pin", "pinverify", "pinprobe", "final", "rollback",
                                       "rollbackprobe"}
        <3>1. Passes(c)
            BY <2>2 DEF ScriptCase, Gone, Goes, Begins, Verifies, Samples, Sized, Checks,
                 ReadsBack, RanksPass, Watches, Consumes, Compacts, Creates, HeadStarts,
                 WorkerJoins, Serves, Observes, Stops
        <3>2. pc[c] \in {"postlogs", "pinverify", "pinprobe"}
            BY <2>2, <3>1 DEF Passes, PassEdges
        <3>3. Mine(c, h)'.pin = Mine(c, h).pin
            BY <2>2, <3>2, PinKept DEF CreatorInv, Created
        <3> QED BY <1>0, <2>1, <2>2, <3>1, <3>3 DEF Passes, PassEdges, Fast, Rank
    <2>3. CASE Pins(c)
        <3>1. CASE pc'[c] \in {"pin", "pinverify"}
            <4>1. /\ pc[c] = "pin" /\ PinPut(ix[c], job[c].run, "big")
                  /\ \/ pc'[c] = "pin" /\ ix'[c] = ix[c] + 1
                     \/ ix[c] = N - 1
                BY <2>3, <3>1 DEF Pins, Goes, Gone
            <4>2. Mine(c, h)'.pin = IF h = ix[c] THEN "big" ELSE Mine(c, h).pin
                BY <1>0, <4>1 DEF PinPut, Mine
            <4> QED BY <1>0, <2>1, <3>1, <4>1, <4>2, RankEnds DEF Rank
        <3>2. CASE pc'[c] \in {"rollback", "rollbackprobe"}
            <4>1. CASE pc[c] = "pin"
                BY <2>3, <3>2, <4>1 DEF Pins, Goes, Gone, Rank
            <4>2. CASE pc[c] = "rollback"
                <5>1. /\ PinPut(ix[c], job[c].run, "all")
                      /\ \/ pc'[c] = "rollback" /\ ix'[c] = ix[c] + 1
                         \/ ix[c] = N - 1
                    BY <2>3, <3>2, <4>2 DEF Pins, Goes, Gone
                <5>2. Mine(c, h)'.pin = IF h = ix[c] THEN "all" ELSE Mine(c, h).pin
                    BY <1>0, <5>1 DEF PinPut, Mine
                <5> QED BY <1>0, <2>1, <3>2, <4>2, <5>1, <5>2, RankEnds DEF Rank
            <4> QED BY <2>3, <4>1, <4>2 DEF Pins
        <3> QED BY <2>3, <3>1, <3>2 DEF Pins, Goes, Gone
    <2> QED BY <2>2, <2>3
<1> QED BY <1>1, <1>2 DEF PinInv

-----------------------------------------------------------------------------
(* Ray: one owner of the port, and nobody else starts raylets in a launch.  *)

\* A raylet of a launch goes only with its container, unless the launch starts it.
LEMMA RayKept ==
    ASSUME TypeOK, CreatorInv, NEW c \in Coord, ScriptCase(c),
           NEW d \in Coord, NEW h \in Rank, Has(d, h),
           d # c \/ ~(HeadStarts(c) \/ WorkerJoins(c))
    PROVE  /\ Mine(d, h)'.ray \in {None, Mine(d, h).ray}
           /\ Mine(d, h)'.up => Mine(d, h).up /\ Mine(d, h)'.ray = Mine(d, h).ray
<1>1. job' = job /\ job[d].run \in Runs
    BY ScriptOthers DEF TypeOK, Job
<1>2. CASE UNCHANGED cont
    BY <1>1, <1>2 DEF Mine
<1>3. CASE (HeadStarts(c) \/ WorkerJoins(c)) /\ d # c
    <2>1. pc[c] \in Created
        BY <1>3 DEF HeadStarts, WorkerJoins, Created
    <2>2. job[d].run # job[c].run
        BY <1>3, <2>1, OtherRun
    <2> QED BY <1>1, <1>2, <1>3, <2>2 DEF HeadStarts, WorkerJoins, RayPut, Mine
<1>4. CASE Creates(c)
    BY <1>1, <1>4 DEF Creates, Has, Mine
<1>5. CASE Pins(c)
    BY <1>1, <1>2, <1>5 DEF Pins, PinPut, Mine
<1>6. CASE Stops(c)
    BY <1>1, <1>2, <1>6 DEF Stops, Downed, Mine, fleet
<1>7. CASE Quiet \/ Consumes(c) \/ Compacts(c) \/ Observes(c) \/ Serves(c)
    BY <1>2, <1>7 DEF Quiet, Consumes, Compacts, Observes, Serves, fleet
<1> QED BY <1>3, <1>4, <1>5, <1>6, <1>7 DEF ScriptCase

\* A container that goes down frees the port if it owned it.
LEMMA DownedHead ==
    ASSUME HeadInv, NEW h \in Rank, NEW r \in Runs, Downed(h, r)
    PROVE  HeadInv'
BY RankEnds DEF HeadInv, Downed

\* A step of a script keeps one owner of the port.
LEMMA HeadStep ==
    ASSUME TypeOK, ControlInv, HeadInv, NEW c \in Coord, ScriptCase(c)
    PROVE  HeadInv'
<1>0. /\ job' = job /\ job[c].run \in Runs /\ ix[c] \in Rank /\ None \notin Runs
      /\ job[c].replace \in Runs \cup {None}
    BY ScriptOthers, ControllerAssumption DEF TypeOK, Job, ControllerAssumption
<1>1. CASE UNCHANGED fleet
    BY <1>1 DEF HeadInv, fleet
<1>2. CASE HeadStarts(c)
    <2>1. CASE rayHead = None
        BY <1>0, <1>2, <2>1, RankEnds DEF HeadStarts, RayPut, HeadInv
    <2>2. CASE rayHead # None
        BY <1>1, <1>2, <2>2 DEF HeadStarts, fleet
    <2> QED BY <2>1, <2>2
<1>3. CASE WorkerJoins(c)
    <2>1. ix[c] # 0
        BY <1>3 DEF WorkerJoins, ControlInv
    <2> QED BY <1>3, <2>1, RankEnds DEF WorkerJoins, RayPut, HeadInv
<1>4. CASE Creates(c)
    BY <1>4, RankEnds DEF Creates, HeadInv
<1>5. CASE Serves(c)
    BY <1>5 DEF Serves, HeadInv
<1>6. CASE Pins(c)
    <2>1. UNCHANGED <<rayHead, serve>> /\ \A r \in Runs : cont'[0][r].ray = cont[0][r].ray
        BY <1>6, RankEnds DEF Pins, PinPut
    <2> QED BY <2>1 DEF HeadInv
<1>7. CASE Stops(c)
    <2>1. StopTarget(c) \in Runs
        BY <1>0, <1>7 DEF Stops, StopTarget, ControlInv
    <2> QED BY <1>0, <1>1, <1>7, <2>1, DownedHead DEF Stops
<1>8. CASE Quiet \/ Consumes(c) \/ Compacts(c) \/ Observes(c)
    BY <1>1, <1>8 DEF Quiet, Consumes, Compacts, Observes
<1> QED BY <1>2, <1>3, <1>4, <1>5, <1>6, <1>7, <1>8 DEF ScriptCase

\* A step of a script keeps the raylets of the launches.
LEMMA RayStep ==
    ASSUME TypeOK, ControlInv, CreatorInv, RayInv, NEW c \in Coord, ScriptCase(c)
    PROVE  RayInv'
<1>0. /\ job' = job /\ Elsewhere(c)
      /\ job[c].run \in Runs /\ ix[c] \in Rank /\ 0 \in Rank
    BY ScriptOthers, RankEnds DEF TypeOK, Job
<1>1. HeadInv /\ HeadInv'
    <2>1. HeadInv
        BY DEF RayInv
    <2> QED BY <2>1, HeadStep
<1> DEFINE Early == Creating \cup {"readback", "rayhead"}
           Joining == {"rayworker", "serve", "health", "models", "rankgate"}
           Late == {"loggate", "chat", "sparse"}
           P(d, h) ==
        /\ pc[d] \in Early /\ Has(d, h) => Mine(d, h).ray = None
        /\ pc[d] \in Joining /\ Mine(d, 0).ray # None => Mine(d, h).ray \in {None, job[d].run}
        /\ pc[d] \in Late /\ Mine(d, h).up => Mine(d, h).ray = job[d].run
<1>2. \A d \in Coord, h \in Rank : P(d, h)
    BY DEF RayInv
<1>3. ASSUME NEW d \in Coord, NEW h \in Rank, pc'[d] = pc[d],
             d # c \/ ~(HeadStarts(c) \/ WorkerJoins(c)), d # c \/ ~Creates(c)
      PROVE  P(d, h)'
    <2>1. CASE pc[d] \in Early
        <3>1. Has(d, h)' => Has(d, h)
            BY <1>3, HasBefore
        <3>2. Has(d, h) => Mine(d, h)'.ray \in {None, Mine(d, h).ray}
            BY <1>3, RayKept
        <3> QED BY <1>0, <1>2, <1>3, <2>1, <3>1, <3>2 DEF Creating
    <2>2. CASE pc[d] \in Joining \cup Late
        <3>1. Has(d, h) /\ Has(d, 0)
            BY <1>0, <2>2 DEF CreatorInv, Created
        <3>2. /\ Mine(d, h)'.ray \in {None, Mine(d, h).ray}
              /\ Mine(d, h)'.up => Mine(d, h).up /\ Mine(d, h)'.ray = Mine(d, h).ray
              /\ Mine(d, 0)'.ray \in {None, Mine(d, 0).ray}
            BY <1>0, <1>3, <3>1, RayKept
        <3>3. P(d, h)
            BY <1>2
        <3> QED BY <1>0, <1>3, <2>2, <3>2, <3>3 DEF Creating
    <2> QED BY <1>3, <2>1, <2>2
<1>4. ASSUME NEW d \in Coord, d # c, NEW h \in Rank
      PROVE  P(d, h)'
    BY <1>0, <1>3, <1>4 DEF Elsewhere
<1>5. ASSUME NEW h \in Rank
      PROVE  P(c, h)'
    <2>1. CASE Creates(c)
        <3>1. CASE h = ix[c]
            BY <1>0, <2>1, <3>1 DEF Creates, Mine, Gone, Creating
        <3>2. CASE h # ix[c]
            <4>1. cont'[h][job[c].run] = cont[h][job[c].run] /\ pc[c] \in Creating
                BY <1>0, <2>1, <3>2 DEF Creates, Creating
            <4>2. Has(c, h)' => Has(c, h)
                BY <1>0, <4>1 DEF Has, Mine
            <4> QED BY <1>0, <1>2, <2>1, <4>1, <4>2 DEF Creates, Mine, Gone, Creating
        <3> QED BY <3>1, <3>2
    <2>2. CASE HeadStarts(c)
        <3>1. pc'[c] \in {"rayworker", "serve"}
            BY <2>2 DEF HeadStarts, Goes
        <3>2. Mine(c, h).ray = None
            BY <1>2, <2>2 DEF HeadStarts, CreatorInv, Created
        <3>3. Mine(c, h)'.ray \in {None, job[c].run}
            BY <1>0, <2>2, <3>2 DEF HeadStarts, RayPut, Mine
        <3> QED BY <1>0, <3>1, <3>3 DEF Creating
    <2>3. CASE WorkerJoins(c)
        <3>1. pc'[c] \in {"rayworker", "serve"} /\ pc[c] = "rayworker"
            BY <2>3 DEF WorkerJoins, Goes
        <3>2. ix[c] # 0
            BY <3>1 DEF ControlInv
        <3>3. /\ Mine(c, 0)'.ray = Mine(c, 0).ray
              /\ Mine(c, h)'.ray = IF h = ix[c] THEN rayHead ELSE Mine(c, h).ray
            BY <1>0, <2>3, <3>2 DEF WorkerJoins, RayPut, Mine
        <3>4. Mine(c, 0).ray # None => rayHead = job[c].run
            BY <1>0, <1>1 DEF HeadInv, Mine
        <3>5. P(c, h)
            BY <1>2
        <3> QED BY <1>0, <3>1, <3>3, <3>4, <3>5 DEF Creating
    <2>4. CASE ~Creates(c) /\ ~HeadStarts(c) /\ ~WorkerJoins(c)
        <3>1. /\ pc'[c] \in Early =>
                    pc[c] \in Early \cup Sizing
              /\ pc'[c] \in Joining => pc[c] \in Joining
              /\ pc'[c] \in Late => pc[c] \in Late \/ RanksPass(c)
            BY <2>4 DEF ScriptCase, Gone, Goes, Begins, Passes, PassEdges, Verifies, Samples,
                 Sized, Checks, ReadsBack, RanksPass, Watches, Consumes, Compacts,
                 Serves, Pins, Observes, Stops, Sizing, Creating
        <3>2. Has(c, h)' => Has(c, h)
            BY <2>4, HasBefore
        <3>3. Has(c, h) => /\ Mine(c, h)'.ray \in {None, Mine(c, h).ray}
                           /\ Mine(c, h)'.up =>
                                Mine(c, h).up /\ Mine(c, h)'.ray = Mine(c, h).ray
            BY <2>4, RayKept
        <3>4. Has(c, 0) => Mine(c, 0)'.ray \in {None, Mine(c, 0).ray}
            BY <1>0, <2>4, RayKept
        <3>5. P(c, h)
            BY <1>2
        <3>6. CASE pc'[c] \in Early
            <4>1. Has(c, h) => Mine(c, h).ray = None
                BY <3>1, <3>5, <3>6 DEF CreatorInv
            <4> QED BY <1>0, <3>2, <3>3, <3>6, <4>1 DEF Creating
        <3>7. CASE pc'[c] \in Joining
            <4>1. Has(c, h) /\ Has(c, 0)
                BY <1>0, <3>1, <3>7 DEF CreatorInv, Created
            <4> QED BY <1>0, <3>1, <3>3, <3>4, <3>5, <3>7, <4>1 DEF Creating
        <3>8. CASE pc'[c] \in Late
            <4>1. pc[c] \in Late \cup {"rankgate"}
                BY <3>1, <3>8 DEF RanksPass
            <4>2. Has(c, h)
                BY <4>1 DEF CreatorInv, Created
            <4>3. Mine(c, h).up => Mine(c, h).ray = job[c].run
                BY <1>0, <3>1, <3>5, <3>8 DEF RanksPass
            <4> QED BY <1>0, <3>3, <3>8, <4>2, <4>3 DEF Creating
        <3> QED BY <3>6, <3>7, <3>8
    <2> QED BY <2>1, <2>2, <2>3, <2>4
<1> QED BY <1>1, <1>4, <1>5 DEF RayInv

-----------------------------------------------------------------------------
(* Sizes: a launch sizes a container before it exists.  *)

\* A container keeps what it was created with.
LEMMA SizeKept ==
    ASSUME TypeOK, NEW c \in Coord, ScriptCase(c)
    PROVE  \A g \in Rank, s \in Runs : cont[g][s].label = "own" => SameBirth(g, s)
<1>1. ASSUME NEW g \in Rank, NEW s \in Runs, cont[g][s].label = "own"
      PROVE  SameBirth(g, s)
    <2>1. CASE Creates(c)
        BY <1>1, <2>1 DEF Creates, Mine, SameBirth
    <2> QED BY <2>1, ScriptBirths
<1> QED BY <1>1

\* The read that sized a container is not made again: the launch samples before it
\* has containers, and reads a rank's memory when that rank's name is free.
LEMMA ReadKept ==
    ASSUME TypeOK, CreatorInv, NEW c \in Coord, ScriptCase(c),
           NEW g \in Rank, NEW r \in Runs, cont[g][r].label = "own"
    PROVE  loc'[cont[g][r].born].sampled[g] = loc[cont[g][r].born].sampled[g]
<1>1. PICK b \in Coord : b = cont[g][r].born /\ job[b].run = r
    BY DEF CreatorInv
<1>2. CASE b # c
    BY <1>1, <1>2, ScriptOthers DEF Elsewhere
<1>3. CASE b = c
    <2>1. Has(c, g)
        BY <1>1, <1>3 DEF Has, Mine
    <2>2. ~Samples(c)
        BY <2>1 DEF Samples, CreatorInv, Sizing
    <2>3. CASE Checks(c)
        BY <1>1, <1>3, <2>1, <2>3 DEF Checks, Has, SameLocals
    <2>4. CASE ~Checks(c)
        <3>1. loc'[c].sampled = loc[c].sampled
            BY <2>2, <2>4 DEF ScriptCase, Gone, Goes, Begins, Passes, Verifies, ReadsBack,
                 RanksPass, Watches, Consumes, Compacts, Creates, HeadStarts, WorkerJoins,
                 Serves, Pins, Observes, Stops, SameLocals
        <3> QED BY <1>1, <1>3, <3>1
    <2> QED BY <2>3, <2>4
<1> QED BY <1>2, <1>3

\* A coordinator whose control and locals stay, beside a step of another.
LEMMA SizeOther ==
    ASSUME TypeOK, CreatorInv, NEW c \in Coord, ScriptCase(c), NEW d \in Coord, d # c,
           CoordSize(d)
    PROVE  CoordSize(d)'
<1>0. /\ job' = job /\ pc'[d] = pc[d] /\ ix'[d] = ix[d] /\ loc'[d] = loc[d]
      /\ job[d].run \in Runs
    BY ScriptOthers DEF Elsewhere, TypeOK, Job
<1>2. \A h \in Rank : Has(d, h) => Mine(d, h)'.floor = Mine(d, h).floor
    BY <1>0, SizeKept DEF Has, Mine, SameBirth
<1>3. \A h \in Rank : Has(d, h)' => Has(d, h)
    BY HasBefore
<1>4. pc[d] \in {"rayhead", "rayworker"} => \A h \in Rank : Has(d, h)
    BY DEF CreatorInv, Created
<1>5. (Unsampled(d) => loc[d].lo = 0 /\ loc[d].hi = 0)'
    BY <1>0 DEF CoordSize, Unsampled, Fast
<1>6. /\ (pc[d] = "sample" /\ ix[d] > 0 => loc[d].lo > 0)'
      /\ (pc[d] = "sample" => \A h \in Rank : h < ix[d] =>
            loc[d].lo <= loc[d].sampled[h] /\ loc[d].sampled[h] <= loc[d].hi)'
      /\ (pc[d] \in Unsized => \A h \in Rank : loc[d].want[h] = 0)'
      /\ (\A h \in Rank : loc[d].want[h] > 0 => Fits(d, h, loc[d].want[h]))'
    BY <1>0 DEF CoordSize, Fits, Fast
<1>7. /\ (pc[d] \in Creating \cup {"replace", "readback"} /\ Fast(d) =>
            \A g, h \in Rank : loc[d].want[h] > 0 /\ loc[d].want[g] = loc[d].want[h])'
      /\ (pc[d] \in Creating \cup {"readback"} /\ Fast(d) =>
            \A h \in Rank : Has(d, h) => Mine(d, h).floor = loc[d].want[h])'
      /\ (pc[d] \in {"rayhead", "rayworker"} /\ Fast(d) =>
            \A g, h \in Rank : Mine(d, h).floor > 0 /\ Mine(d, g).floor = Mine(d, h).floor)'
    BY <1>0, <1>2, <1>3, <1>4 DEF CoordSize, Fast
<1> QED BY <1>5, <1>6, <1>7 DEF CoordSize

\* The coordinator whose step it is.
LEMMA SizeOwn ==
    ASSUME TypeOK, ControlInv, CreatorInv, NEW c \in Coord, ScriptCase(c), CtlType', CoordSize(c)
    PROVE  CoordSize(c)'
<1>0. /\ job' = job /\ job[c].run \in Runs /\ {Reserve, Spread} \subseteq Nat /\ MinMem \in Nat \ {0}
      /\ loc[c].lo \in Nat /\ loc[c].hi \in Nat /\ loc[c].want \in [Rank -> Nat]
      /\ loc'[c].lo \in Nat /\ loc'[c].hi \in Nat /\ loc'[c].want \in [Rank -> Nat]
      /\ loc[c].sampled \in [Rank -> Nat] /\ loc'[c].sampled \in [Rank -> Nat]
      /\ ix[c] \in Rank /\ ix'[c] \in Rank
    BY ScriptOthers, ControllerAssumption DEF TypeOK, CtlType, Job, Locals, ControllerAssumption
<1>2. \A h \in Rank : Has(c, h) => Mine(c, h)'.floor = Mine(c, h).floor
    BY <1>0, SizeKept DEF Has, Mine, SameBirth
<1>3. \A h \in Rank : ~Creates(c) /\ Has(c, h)' => Has(c, h)
    BY HasBefore
\* The samples.
<1>4. (Unsampled(c) => loc[c].lo = 0 /\ loc[c].hi = 0)'
    <2>1. CASE Verifies(c)
        BY <1>0, <2>1 DEF Verifies, Unsampled, Fast
    <2>2. CASE Samples(c)
        <3>1. pc'[c] = "sample" => ix'[c] # 0
            BY <1>0, <2>2 DEF Samples, Sized, Rank
        <3> QED BY <2>2, <3>1 DEF Samples, Sized, Unsampled
    <2>3. CASE Checks(c) \/ Creates(c)
        BY <2>3 DEF Checks, Creates, Gone, Unsampled
    <2>4. CASE ~Verifies(c) /\ ~Samples(c) /\ ~Checks(c) /\ ~Creates(c)
        <3>1. loc'[c].lo = loc[c].lo /\ loc'[c].hi = loc[c].hi
            BY <2>4 DEF ScriptCase, Gone, Goes, Begins, Passes, ReadsBack, RanksPass, Watches,
                 Consumes, Compacts, HeadStarts, WorkerJoins, Serves, Pins, Observes, Stops,
                 SameLocals
        <3>2. Unsampled(c)' => Unsampled(c)
            BY <1>0, <2>4 DEF ScriptCase, Gone, Goes, Begins, Passes, PassEdges, ReadsBack,
                 RanksPass, Watches, Consumes, Compacts, HeadStarts, WorkerJoins, Serves, Pins,
                 Observes, Stops, Unsampled, Fast
        <3> QED BY <3>1, <3>2 DEF CoordSize
    <2> QED BY <2>1, <2>2, <2>3, <2>4
<1>5. CASE Samples(c)
    <2> DEFINE m == Read(c)
               lo == Lower(c, m)
               hi == Upper(c, m)
    <2>1. /\ ix[c] > 0 => loc[c].lo > 0
          /\ \A h \in Rank : loc[c].want[h] = 0
          /\ Fast(c)
        BY <1>5 DEF CoordSize, Samples, Unsized, ControlInv, FastOnly
    <2>2. ix[c] = 0 => loc[c].lo = 0
        BY <1>5 DEF CoordSize, Samples, Unsampled
    <2>3. \A h \in Rank : h < ix[c] =>
            loc[c].lo <= loc[c].sampled[h] /\ loc[c].sampled[h] <= loc[c].hi
        BY <1>5 DEF CoordSize, Samples
    <2>4. UNCHANGED cont
        BY <1>5 DEF ScriptCase, Samples, Quiet, Consumes, Compacts, Creates, HeadStarts,
                    WorkerJoins, Serves, Pins, Observes, Stops, fleet
    <2>5. m \in Nat /\ m >= MinMem
        BY <1>5 DEF Samples
    <2>6. /\ lo \in Nat /\ hi \in Nat
          /\ lo > 0 /\ lo <= m /\ (loc[c].lo > 0 => lo <= loc[c].lo)
          /\ hi >= m /\ hi >= loc[c].hi
        BY <1>0, <2>5 DEF Lower, Upper
    <2>7. /\ loc'[c].sampled[ix[c]] = m
          /\ \A h \in Rank : h # ix[c] => loc'[c].sampled[h] = loc[c].sampled[h]
        BY <1>5 DEF Samples, Read
    <2> HIDE DEF m, lo, hi
    <2>8. \A h \in Rank : h <= ix[c] => lo <= loc'[c].sampled[h] /\ loc'[c].sampled[h] <= hi
        <3> SUFFICES ASSUME NEW h \in Rank, h <= ix[c]
                     PROVE  lo <= loc'[c].sampled[h] /\ loc'[c].sampled[h] <= hi
            OBVIOUS
        <3>1. CASE h = ix[c]
            BY <2>6, <2>7, <3>1
        <3>2. CASE h # ix[c]
            <4>1. h < ix[c] /\ ix[c] > 0
                <5>1. ix[c] \in Rank
                    BY <1>0
                <5> QED BY <3>2, <5>1, RankEnds DEF Rank
            <4>2. loc[c].sampled[h] \in Nat
                BY <1>0
            <4> QED BY <4>2, <1>0, <2>1, <2>3, <2>5, <2>6, <2>7, <3>2, <4>1
        <3> QED BY <3>1, <3>2
    <2>9. \A h \in Rank : ~Has(c, h)
        BY <1>5 DEF Samples, Sizing, CreatorInv
    <2>10. CASE pc'[c] = "sample"
        <3>1. /\ ix'[c] = ix[c] + 1 /\ loc'[c].want = loc[c].want
              /\ loc'[c].lo = lo /\ loc'[c].hi = hi
            BY <1>5, <2>10 DEF Samples, Sized, m, lo, hi
        <3>2. \A h \in Rank : h < ix'[c] => h <= ix[c]
            BY <1>0, <3>1 DEF Rank
        <3>3. \A h \in Rank : loc'[c].want[h] = 0 /\ ~(loc'[c].want[h] > 0)
            BY <2>1, <3>1
        <3> QED BY <1>4, <2>6, <2>8, <2>10, <3>1, <3>2, <3>3 DEF CoordSize, Creating
    <2>11. CASE pc'[c] # "sample"
        <3>1. /\ ix[c] = N - 1 /\ Sized(c)
              /\ hi - lo <= Spread
              /\ lo > Reserve
              /\ \A h \in Rank : loc'[c].want[h] = lo - Reserve
            BY <1>5, <2>11 DEF Samples, m, lo, hi
        <3>2. \A h \in Rank : lo <= loc'[c].sampled[h] /\ loc'[c].sampled[h] <= hi
            BY <2>8, <3>1, RankEnds DEF Rank
        <3>3. Fast(c)'
            BY <1>0, <2>1 DEF Fast
        <3>4. ASSUME NEW h \in Rank
              PROVE  loc'[c].want[h] > 0 /\ Fits(c, h, loc[c].want[h])'
            <4>1. /\ lo <= loc'[c].sampled[h] /\ loc'[c].sampled[h] <= hi
                  /\ loc'[c].want[h] = lo - Reserve /\ loc'[c].sampled[h] \in Nat
                BY <1>0, <3>1, <3>2
            <4>2. /\ loc'[c].want[h] > 0
                  /\ loc'[c].want[h] + Reserve <= loc'[c].sampled[h]
                  /\ loc'[c].sampled[h] <= loc'[c].want[h] + Reserve + Spread
                BY <1>0, <2>6, <3>1, <4>1
            <4> QED BY <3>3, <4>2 DEF Fits
        <3>5. \A h \in Rank : ~Has(c, h)'
            BY <1>0, <2>4, <2>9 DEF Has, Mine
        <3> QED BY <1>0, <1>4, <2>11, <3>1, <3>4, <3>5 DEF CoordSize, Sized, Unsized
    <2> QED BY <2>10, <2>11
<1>6. CASE ~Samples(c)
    <2>1. /\ (pc[c] = "sample" /\ ix[c] > 0 => loc[c].lo > 0)'
          /\ (pc[c] = "sample" => \A h \in Rank : h < ix[c] =>
                loc[c].lo <= loc[c].sampled[h] /\ loc[c].sampled[h] <= loc[c].hi)'
        <3>1. pc'[c] = "sample" => ix'[c] = 0
            BY <1>6 DEF ScriptCase, Gone, Goes, Begins, Passes, PassEdges, Verifies,
                 Sized, Checks, ReadsBack, RanksPass, Watches, Consumes, Compacts,
                 Creates, HeadStarts, WorkerJoins, Serves, Pins, Observes, Stops
        <3> QED BY <3>1 DEF Rank
    <2>2. Checks(c) \/ (loc'[c].want = loc[c].want /\ loc'[c].sampled = loc[c].sampled)
        BY <1>6 DEF ScriptCase, Gone, Goes, Begins, Passes, Verifies, ReadsBack,
             RanksPass, Watches, Consumes, Compacts, Creates, HeadStarts, WorkerJoins,
             Serves, Pins, Observes, Stops, SameLocals
    <2>3. ASSUME NEW h \in Rank, loc'[c].want[h] > 0
          PROVE  Fits(c, h, loc[c].want[h])'
        <3>1. CASE loc'[c].want[h] = loc[c].want[h] /\ loc'[c].sampled[h] = loc[c].sampled[h]
            BY <1>0, <2>3, <3>1 DEF CoordSize, Fits, Fast
        <3>2. CASE ~Fast(c) /\ loc'[c].want[h] + Reserve = loc'[c].sampled[h]
            <4>1. ~Fast(c)'
                BY <1>0, <3>2 DEF Fast
            <4> QED BY <1>0, <3>2, <4>1 DEF Fits
        <3> QED BY <2>2, <3>1, <3>2 DEF Checks, SameLocals, Read
    <2>4. (pc[c] \in Unsized => \A h \in Rank : loc[c].want[h] = 0)'
        <3>1. pc'[c] \in Unsized => pc[c] \in Unsized /\ ~Checks(c)
            BY <1>6 DEF ScriptCase, Gone, Goes, Begins, Passes, PassEdges, Verifies, Sized,
                 Checks, ReadsBack, RanksPass, Watches, Consumes, Compacts, Creates, HeadStarts,
                 WorkerJoins, Serves, Pins, Observes, Stops, Unsized
        <3> QED BY <2>2, <3>1 DEF CoordSize
    <2>5. pc'[c] \in Creating \cup {"replace", "readback", "rayhead", "rayworker"} /\ Fast(c) =>
            /\ loc'[c].want = loc[c].want
            /\ pc'[c] \in Creating \cup {"replace", "readback"} =>
                    pc[c] \in Creating \cup {"replace"}
            /\ pc'[c] \in Creating \cup {"readback"} =>
                    pc[c] = "replace" \/ pc[c] \in Creating
            /\ pc'[c] \in {"rayhead", "rayworker"} =>
                    pc[c] \in {"rayhead", "rayworker"} \/ ReadsBack(c)
        BY <1>6 DEF ScriptCase, Gone, Goes, Begins, Passes, PassEdges, Verifies,
                 Checks, ReadsBack, RanksPass, Watches, Consumes, Compacts,
                 Creates, HeadStarts, WorkerJoins, Serves, Pins, Observes, Stops, SameLocals,
                 Creating
    <2>6. (pc[c] \in Creating \cup {"replace", "readback"} /\ Fast(c) =>
            \A g, h \in Rank : loc[c].want[h] > 0 /\ loc[c].want[g] = loc[c].want[h])'
        BY <1>0, <2>5 DEF CoordSize, Fast
    <2>7. (pc[c] \in Creating \cup {"readback"} /\ Fast(c) =>
            \A h \in Rank : Has(c, h) => Mine(c, h).floor = loc[c].want[h])'
        <3> SUFFICES ASSUME pc'[c] \in Creating \cup {"readback"}, Fast(c),
                            NEW h \in Rank, Has(c, h)'
                     PROVE  Mine(c, h)'.floor = loc'[c].want[h]
            BY <1>0 DEF Fast
        <3>1. CASE Has(c, h)
            BY <1>2, <2>5, <3>1 DEF CoordSize, CreatorInv, Sizing
        <3>2. CASE ~Has(c, h)
            <4>1. Creates(c)
                BY <1>3, <3>2
            <4>2. h = ix[c]
                BY <1>0, <3>2, <4>1 DEF Creates, Has, Mine
            <4> QED BY <1>0, <2>5, <4>1, <4>2 DEF Creates, Mine
        <3> QED BY <3>1, <3>2
    <2>8. (pc[c] \in {"rayhead", "rayworker"} /\ Fast(c) =>
            \A g, h \in Rank : Mine(c, h).floor > 0 /\ Mine(c, g).floor = Mine(c, h).floor)'
        <3> SUFFICES ASSUME pc'[c] \in {"rayhead", "rayworker"}, Fast(c)
                     PROVE  \A g, h \in Rank : /\ Mine(c, h)'.floor > 0
                                               /\ Mine(c, g)'.floor = Mine(c, h)'.floor
            BY <1>0 DEF Fast
        <3>1. \A h \in Rank : Has(c, h)
            BY <2>5 DEF ReadsBack, CreatorInv, Created
        <3>2. \A g, h \in Rank : Mine(c, h).floor > 0 /\ Mine(c, g).floor = Mine(c, h).floor
            BY <2>5 DEF CoordSize, ReadsBack
        <3> QED BY <1>2, <3>1, <3>2
    <2> QED BY <1>4, <2>1, <2>3, <2>4, <2>6, <2>7, <2>8 DEF CoordSize
<1> QED BY <1>5, <1>6

\* A step that creates nothing, gives nobody a raylet and reads nothing again.
LEMMA FloorKept ==
    ASSUME FloorInv, UNCHANGED <<job>>,
           \A g \in Rank, s \in Runs : cont[g][s].label = "own" =>
                loc'[cont[g][s].born].sampled[g] = loc[cont[g][s].born].sampled[g],
           \A g \in Rank, s \in Runs :
                SameBirth(g, s) /\ cont'[g][s].ray \in {None, cont[g][s].ray}
    PROVE  FloorInv'
<1> SUFFICES ASSUME NEW r \in Runs, NEW g \in Rank, NEW h \in Rank
             PROVE  /\ cont'[g][r].floor > 0 =>
                            /\ cont'[g][r].label = "own"
                            /\ Fits(cont[g][r].born, g, cont[g][r].floor)'
                    /\ cont'[g][r].ray # None => cont'[g][r].label = "own"
                    /\ cont'[g][r].ray # None /\ Fast(cont'[g][r].born) =>
                            /\ cont'[h][r].label = "own"
                            /\ cont'[h][r].floor > 0
                            /\ cont'[g][r].floor = cont'[h][r].floor
    BY DEF FloorInv, Fast
<1>1. /\ SameBirth(g, r) /\ SameBirth(h, r)
      /\ cont'[g][r].ray \in {None, cont[g][r].ray}
    OBVIOUS
<1>2. cont'[g][r].floor > 0 => /\ cont'[g][r].label = "own"
                               /\ Fits(cont[g][r].born, g, cont[g][r].floor)'
    BY <1>1 DEF FloorInv, SameBirth, Fits, Fast
<1> QED BY <1>1, <1>2 DEF FloorInv, SameBirth

\* A step of a script keeps the floors of the containers.
LEMMA FloorStep ==
    ASSUME TypeOK, CreatorInv, \A d \in Coord : CoordSize(d), FloorInv,
           NEW c \in Coord, ScriptCase(c)
    PROVE  FloorInv'
<1>0. job' = job /\ job[c].run \in Runs /\ ix[c] \in Rank
    BY ScriptOthers DEF TypeOK, Job
<1>1. \A g \in Rank, r \in Runs : cont[g][r].label = "own" =>
            loc'[cont[g][r].born].sampled[g] = loc[cont[g][r].born].sampled[g]
    BY ReadKept
<1>2. CASE Creates(c)
    <2> SUFFICES ASSUME NEW r \in Runs, NEW g \in Rank, NEW h \in Rank
                 PROVE  /\ cont'[g][r].floor > 0 =>
                                /\ cont'[g][r].label = "own"
                                /\ Fits(cont[g][r].born, g, cont[g][r].floor)'
                        /\ cont'[g][r].ray # None => cont'[g][r].label = "own"
                        /\ cont'[g][r].ray # None /\ Fast(cont'[g][r].born) =>
                                /\ cont'[h][r].label = "own"
                                /\ cont'[h][r].floor > 0
                                /\ cont'[g][r].floor = cont'[h][r].floor
        BY <1>0 DEF FloorInv, Fast
    <2>1. CASE g = ix[c] /\ r = job[c].run
        <3>1. /\ cont'[g][r].label = "own" /\ cont'[g][r].floor = loc[c].want[g]
              /\ cont'[g][r].born = c /\ cont'[g][r].ray = None
            BY <1>0, <1>2, <2>1 DEF Creates
        <3>2. loc[c].want[g] > 0 => Fits(c, g, loc[c].want[g])
            BY DEF CoordSize
        <3>3. loc'[c].sampled = loc[c].sampled
            BY <1>2 DEF Creates, Gone, SameLocals
        <3> QED BY <1>0, <3>1, <3>2, <3>3 DEF Fits, Fast
    <2>2. CASE ~(g = ix[c] /\ r = job[c].run)
        <3>1. cont'[g][r] = cont[g][r]
            BY <1>2, <2>2 DEF Creates
        <3>2. cont[g][r].ray # None /\ Fast(cont[g][r].born) => ~(h = ix[c] /\ r = job[c].run)
            BY <1>2 DEF Creates, Mine, FloorInv
        <3>3. cont[g][r].ray # None /\ Fast(cont[g][r].born) => cont'[h][r] = cont[h][r]
            BY <1>2, <3>2 DEF Creates
        <3>4. cont'[g][r].floor > 0 => /\ cont'[g][r].label = "own"
                                       /\ Fits(cont[g][r].born, g, cont[g][r].floor)'
            BY <1>0, <1>1, <3>1 DEF FloorInv, Fits, Fast
        <3> QED BY <1>0, <3>1, <3>3, <3>4 DEF FloorInv
    <2> QED BY <2>1, <2>2
<1>3. CASE HeadStarts(c) \/ WorkerJoins(c)
    <2>1. /\ pc[c] \in {"rayhead", "rayworker"}
          /\ \A g \in Rank, s \in Runs : SameBirth(g, s)
          /\ \A g \in Rank, s \in Runs :
                s # job[c].run => cont'[g][s].ray = cont[g][s].ray
        BY <1>3, ScriptBirths DEF HeadStarts, WorkerJoins, RayPut, Creates
    <2>2. \A g \in Rank : Has(c, g)
        BY <2>1 DEF CreatorInv, Created
    <2>3. Fast(c) => \A g, h \in Rank : Mine(c, h).floor > 0 /\ Mine(c, g).floor = Mine(c, h).floor
        BY <2>1 DEF CoordSize
    <2> SUFFICES ASSUME NEW r \in Runs, NEW g \in Rank, NEW h \in Rank
                 PROVE  /\ cont'[g][r].floor > 0 =>
                                /\ cont'[g][r].label = "own"
                                /\ Fits(cont[g][r].born, g, cont[g][r].floor)'
                        /\ cont'[g][r].ray # None => cont'[g][r].label = "own"
                        /\ cont'[g][r].ray # None /\ Fast(cont'[g][r].born) =>
                                /\ cont'[h][r].label = "own"
                                /\ cont'[h][r].floor > 0
                                /\ cont'[g][r].floor = cont'[h][r].floor
        BY <1>0 DEF FloorInv, Fast
    <2>4. SameBirth(g, r) /\ SameBirth(h, r)
        BY <2>1
    <2>5. cont'[g][r].floor > 0 => /\ cont'[g][r].label = "own"
                                   /\ Fits(cont[g][r].born, g, cont[g][r].floor)'
        BY <1>0, <1>1, <2>4 DEF FloorInv, SameBirth, Fits, Fast
    <2>6. CASE r = job[c].run
        BY <1>0, <2>1, <2>2, <2>3, <2>4, <2>5, <2>6 DEF FloorInv, SameBirth, Has, Mine
    <2>7. CASE r # job[c].run
        BY <1>0, <2>1, <2>4, <2>5, <2>7 DEF FloorInv, SameBirth
    <2> QED BY <2>6, <2>7
<1>4. CASE ~Creates(c) /\ ~HeadStarts(c) /\ ~WorkerJoins(c)
    <2>1. \A g \in Rank, s \in Runs : cont'[g][s].ray \in {None, cont[g][s].ray}
        BY <1>4 DEF ScriptCase, Quiet, Consumes, Compacts, Serves, Pins, PinPut, Observes,
                    Stops, Downed, fleet
    <2>2. \A g \in Rank, s \in Runs : SameBirth(g, s)
        BY <1>4, ScriptBirths
    <2> QED BY <1>0, <1>1, <2>1, <2>2, FloorKept
<1> QED BY <1>2, <1>3, <1>4

\* A step of a script keeps samples and floors.
LEMMA SizeStep ==
    ASSUME TypeOK, ControlInv, CreatorInv, SizeInv, NEW c \in Coord, ScriptCase(c), CtlType'
    PROVE  SizeInv'
<1>1. (\A d \in Coord : CoordSize(d)) /\ FloorInv
    BY DEF SizeInv
<1>2. \A d \in Coord : CoordSize(d)'
    BY <1>1, SizeOther, SizeOwn
<1>3. FloorInv'
    BY <1>1, FloorStep
<1> QED BY <1>2, <1>3 DEF SizeInv

-----------------------------------------------------------------------------
(* The observation: a container found failed stays failed.  *)

\* A container that a launch has is not healthy again.
LEMMA HealthKept ==
    ASSUME TypeOK, NEW c \in Coord, ScriptCase(c), NEW g \in Rank, NEW s \in Runs,
           cont[g][s].label = "own"
    PROVE  cont'[g][s].label = "own" /\ (Healthy(cont'[g][s]) => Healthy(cont[g][s]))
<1>1. cont'[g][s].label = "own"
    BY SizeKept DEF SameBirth
<1>2. Healthy(cont'[g][s]) => Healthy(cont[g][s])
    <2>1. CASE UNCHANGED cont
        BY <2>1
    <2>2. CASE Creates(c)
        BY <2>2 DEF Creates, Mine
    <2>3. CASE HeadStarts(c) \/ WorkerJoins(c)
        BY <2>1, <2>3 DEF HeadStarts, WorkerJoins, RayPut, Healthy
    <2>4. CASE Pins(c)
        BY <2>1, <2>4 DEF Pins, PinPut, Healthy
    <2>5. CASE Stops(c)
        BY <2>1, <2>5 DEF Stops, Downed, Healthy, fleet
    <2>6. CASE Quiet \/ Consumes(c) \/ Compacts(c) \/ Observes(c) \/ Serves(c)
        BY <2>1, <2>6 DEF Quiet, Consumes, Compacts, Observes, Serves, fleet
    <2> QED BY <2>2, <2>3, <2>4, <2>5, <2>6 DEF ScriptCase
<1> QED BY <1>1, <1>2

\* A step of a script keeps what the observation has found.
LEMMA ObserveStep ==
    ASSUME TypeOK, ControlInv, ObserveInv, NEW c \in Coord, ScriptCase(c), CtlType'
    PROVE  ObserveInv'
<1>0. /\ job' = job /\ Elsewhere(c)
      /\ \A d \in Coord : job[d].run \in Runs /\ ix[d] \in Rank
    BY ScriptOthers DEF TypeOK, Job
<1> SUFFICES ASSUME faults' = 0, NEW d \in Coord, NEW h \in Rank, Condemned(d, h)'
             PROVE  Mine(d, h)'.label = "own" /\ ~Healthy(Mine(d, h)')
    BY DEF ObserveInv, Healthy
<1>1. faults = 0
    <2>1. CASE Stops(c) \/ Observes(c)
        BY <2>1 DEF Stops, Observes
    <2> QED BY <2>1 DEF ScriptCase, Quiet, Consumes, Compacts, Creates, HeadStarts, WorkerJoins,
                        Serves, Pins
<1>2. CASE Mine(d, h).label = "own" /\ ~Healthy(Mine(d, h))
    BY <1>0, <1>2, HealthKept DEF Mine
<1>3. CASE Condemned(d, h)
    BY <1>1, <1>2, <1>3 DEF ObserveInv
<1>4. CASE ~Condemned(d, h)
    <2>1. d = c
        BY <1>0, <1>4 DEF Elsewhere, Condemned
    <2>2. Observes(c)
        <3>1. CASE Watches(c)
            <4>1. loc'[c].round = 0 /\ ix'[c] = 0 /\ pc'[c] = "observe"
                BY <3>1 DEF Watches, Goes, SameLocals, ControlInv
            <4> QED BY <2>1, <4>1 DEF Condemned, Rank
        <3>2. CASE ~Watches(c) /\ ~Observes(c)
            <4>1. pc'[c] # "observe" /\ (pc'[c] = "failstop" => pc[c] = "failstop")
                BY <3>2 DEF ScriptCase, Gone, Goes, Begins, Passes, PassEdges, Verifies,
                 Samples, Sized, Checks, ReadsBack, RanksPass, Consumes, Compacts,
                 Creates, HeadStarts, WorkerJoins, Serves, Pins, Stops
            <4> QED BY <1>4, <2>1, <4>1 DEF Condemned
        <3> QED BY <3>1, <3>2
    <2>3. h = ix[c]
        <3>1. ix[c] \in Int /\ N \in Int /\ loc[c].round \in 0 .. 3 /\ h \in 0 .. N - 1
            BY <1>0, RankEnds DEF Rank, TypeOK, Locals
        <3>2. CASE pc'[c] = "observe"
            BY <1>4, <2>1, <2>2, <3>1, <3>2 DEF Observes, Condemned
        <3>3. CASE pc'[c] = "failstop"
            BY <1>4, <2>1, <2>2, <3>1, <3>3 DEF Observes, Condemned
        <3> QED BY <2>1, <3>2, <3>3 DEF Condemned
    <2>4. Mine(c, ix[c]).label = "own" /\ ~Healthy(Mine(c, ix[c]))
        BY <2>2 DEF Observes
    <2> QED BY <1>2, <2>1, <2>3, <2>4
<1> QED BY <1>3, <1>4

-----------------------------------------------------------------------------
(* The steps that no script takes: containers fail, engines get on.  *)

\* Containers only lose what they had.
Weakens ==
    \A g \in Rank, s \in Runs :
        /\ SameBirth(g, s)
        /\ cont'[g][s].pin = cont[g][s].pin
        /\ cont'[g][s].ray \in {None, cont[g][s].ray}
        /\ cont'[g][s].up => cont[g][s].up /\ cont'[g][s].ray = cont[g][s].ray
        /\ Healthy(cont'[g][s]) => Healthy(cont[g][s])

\* The invariant survives what only weakens containers.
LEMMA WeakenedInv ==
    ASSUME FleetInv, TypeOK', HeadInv', Weakens,
           UNCHANGED <<job, pc, ix, loc, receipts, compacted, faults>>
    PROVE  FleetInv'
<1>0. \A d \in Coord : job[d].run \in Runs
    BY DEF FleetInv, TypeOK, Job
<1>1. \A d \in Coord, h \in Rank : Has(d, h)' <=> Has(d, h)
    BY <1>0 DEF Weakens, SameBirth, Has, Mine
<1>2. ControlInv'
    BY DEF FleetInv, ControlInv, Fast
<1>3. NonceInv'
    BY DEF FleetInv, NonceInv, HasConsumed
<1>4. CreatorInv'
    <2>1. \A h \in Rank, r \in Runs : SameBirth(h, r) /\ SameBirth(0, r)
        BY RankEnds DEF Weakens
    <2>2. \A h \in Rank, r \in Runs : cont'[h][r].label = "own" =>
            /\ cont'[0][r].label = "own"
            /\ cont'[h][r].born = cont'[0][r].born
            /\ cont'[h][r].born \in Coord
            /\ job'[cont'[h][r].born].run = r
        BY <2>1 DEF FleetInv, CreatorInv, SameBirth
    <2> QED BY <1>1, <2>2, RankEnds DEF FleetInv, CreatorInv
<1>5. PinInv'
    <2>1. \A d \in Coord, h \in Rank : Mine(d, h)'.pin = Mine(d, h).pin
        BY <1>0 DEF Weakens, Mine
    <2> QED BY <2>1 DEF FleetInv, PinInv, Fast
<1>6. RayInv'
    <2>1. \A d \in Coord, h \in Rank :
            /\ Mine(d, h)'.ray \in {None, Mine(d, h).ray}
            /\ Mine(d, h)'.up => Mine(d, h).up /\ Mine(d, h)'.ray = Mine(d, h).ray
        BY <1>0 DEF Weakens, Mine
    <2> QED BY <1>1, <2>1, RankEnds DEF FleetInv, RayInv
<1>7. SizeInv'
    <2>1. \A d \in Coord, h \in Rank : Mine(d, h)'.floor = Mine(d, h).floor
        BY <1>0 DEF Weakens, SameBirth, Mine
    <2>2. \A d \in Coord : CoordSize(d)'
        BY <1>1, <2>1 DEF FleetInv, SizeInv, CoordSize, Unsampled, Fits, Fast
    <2>3. FloorInv'
        BY FloorKept DEF Weakens, FleetInv, SizeInv
    <2> QED BY <2>2, <2>3 DEF SizeInv
<1>8. ObserveInv'
    <2>1. \A d \in Coord, h \in Rank :
            /\ Mine(d, h)'.label = Mine(d, h).label
            /\ Healthy(Mine(d, h)') => Healthy(Mine(d, h))
        BY <1>0 DEF Weakens, SameBirth, Mine
    <2>2. \A d \in Coord, h \in Rank : Condemned(d, h)' <=> Condemned(d, h)
        BY DEF Condemned
    <2> QED BY <2>1, <2>2 DEF FleetInv, ObserveInv, Healthy
<1> QED BY <1>2, <1>3, <1>4, <1>5, <1>6, <1>7, <1>8 DEF FleetInv

\* A failing container only loses what it had.
LEMMA FailsWeakens ==
    ASSUME FleetInv, NEW h \in Rank, NEW r \in Runs, Fails(h, r)
    PROVE  Weakens /\ HeadInv'
<1>0. HeadInv
    BY DEF FleetInv, RayInv
<1>1. CASE Downed(h, r)
    BY <1>0, <1>1, DownedHead DEF Downed, Weakens, Healthy
<1>2. CASE ~Downed(h, r)
    BY <1>0, <1>2, RankEnds DEF Fails, Weakens, Healthy, HeadInv
<1> QED BY <1>1, <1>2

\* So does a fleet that stays as it is.
LEMMA SameWeakens ==
    ASSUME UNCHANGED cont
    PROVE  Weakens
BY DEF Weakens, SameBirth

-----------------------------------------------------------------------------
(* The invariant.  *)

\* The invariant holds of an idle fleet.
LEMMA FleetInit == Init => FleetInv
<1> SUFFICES ASSUME Init PROVE FleetInv
    OBVIOUS
<1>0. /\ 0 \in Rank /\ N \in Nat \ {0}
      /\ {MaxFaults, MaxFails, MaxKills} \subseteq Nat
      /\ Imaged \subseteq Rank
    BY RankEnds, ControllerAssumption DEF ControllerAssumption
<1>1. \A h \in Rank, r \in Runs : cont[h][r] \in {Alien, Absent}
    BY DEF Init
<1>2. /\ Alien \in Container /\ Absent \in Container
      /\ Alien.label # "own" /\ Absent.label # "own"
      /\ Alien.floor = 0 /\ Absent.floor = 0
      /\ Alien.ray = None /\ Absent.ray = None
    BY DEF Alien, Absent, Container
<1>3. \A h \in Rank, r \in Runs :
        cont[h][r].label # "own" /\ cont[h][r].floor = 0 /\ cont[h][r].ray = None
    BY <1>1, <1>2
<1>4. /\ \A c \in Coord : pc[c] = "start" /\ ix[c] = 0
      /\ \A c \in Coord : /\ ~loc[c].started /\ loc[c].lo = 0 /\ loc[c].hi = 0
                          /\ loc[c].round = 0 /\ \A h \in Rank : loc[c].want[h] = 0
    BY DEF Init
<1>5. TypeOK
    <2>1. LockTypeOK
        BY DEF Init, LockInit, LockTypeOK
    <2>2. job \in [Coord -> Job]
        BY DEF Init
    <2>3. pc \in [Coord -> Labels] /\ ix \in [Coord -> Rank]
        BY <1>0, LabelFacts DEF Init
    <2>4. loc \in [Coord -> Locals]
        BY DEF Init, Locals
    <2>5. cont \in [Rank -> [Runs -> Container]]
        <3> HIDE DEF Alien, Absent
        <3> QED BY <1>2 DEF Init
    <2>6. /\ rayHead \in Runs \cup {None}
          /\ serve \in [Runs -> {"off", "starting", "gpu", "up"}]
          /\ image \in SUBSET Rank
          /\ receipts \in SUBSET Nonces
          /\ compacted \in SUBSET Coord
          /\ faults \in 0 .. MaxFaults
          /\ fails \in 0 .. MaxFails
        BY <1>0 DEF Init
    <2> QED BY <2>1, <2>2, <2>3, <2>4, <2>5, <2>6 DEF TypeOK
<1>6. \A c \in Coord, h \in Rank : ~Has(c, h)
    BY <1>3, <1>5 DEF Has, Mine, TypeOK, Job
<1>7. ControlInv
    BY <1>4 DEF ControlInv, Working, Sizing, Creating, Created, FastOnly
<1>8. NonceInv
    BY <1>4 DEF Init, NonceInv, HasConsumed
<1>9. CreatorInv
    BY <1>3, <1>4, <1>6 DEF CreatorInv, Creating, Created
<1>10. PinInv
    BY <1>4 DEF PinInv
<1>11. RayInv
    BY <1>0, <1>3, <1>4 DEF Init, RayInv, HeadInv, Creating
<1>12. SizeInv
    <2>1. ASSUME NEW c \in Coord
          PROVE  CoordSize(c)
        <3>1. pc[c] = "start" /\ loc[c].lo = 0 /\ loc[c].hi = 0
            BY <1>4
        <3>2. \A h \in Rank : loc[c].want[h] = 0 /\ ~(loc[c].want[h] > 0)
            BY <1>4
        <3> QED BY <3>1, <3>2 DEF CoordSize, Creating
    <2>2. FloorInv
        BY <1>3 DEF FloorInv
    <2> QED BY <2>1, <2>2 DEF SizeInv
<1>13. ObserveInv
    BY <1>4 DEF ObserveInv, Condemned
<1> QED BY <1>5, <1>7, <1>8, <1>9, <1>10, <1>11, <1>12, <1>13 DEF FleetInv

\* The invariant is inductive.
LEMMA FleetNext == FleetInv /\ [Next]_vars => FleetInv'
<1> SUFFICES ASSUME FleetInv, [Next]_vars PROVE FleetInv'
    OBVIOUS
<1>0. /\ TypeOK /\ ControlInv /\ NonceInv /\ CreatorInv /\ PinInv /\ RayInv /\ SizeInv
      /\ ObserveInv /\ CtlType /\ FleetType /\ HeadInv
    BY DEF FleetInv, TypeOK, CtlType, FleetType, RayInv
<1>1. ASSUME NEW c \in Coord, ScriptStep(c) \/ Kill(c)
      PROVE  FleetInv'
    <2>1. CtlType' /\ ScriptCase(c)
        BY <1>0, <1>1, ScriptFacts
    <2>2. TypeOK'
        BY <1>0, <1>1, TypeStep DEF Next
    <2>3. ControlInv' /\ NonceInv'
        BY <1>0, <2>1, ControlStep, NonceStep
    <2>4. CreatorInv' /\ PinInv' /\ RayInv'
        BY <1>0, <2>1, CreatorStep, PinStep, RayStep
    <2>5. SizeInv' /\ ObserveInv'
        BY <1>0, <2>1, SizeStep, ObserveStep
    <2> QED BY <2>2, <2>3, <2>4, <2>5 DEF FleetInv
<1>2. ASSUME NEW h \in Rank, NEW r \in Runs, ContainerFails(h, r)
      PROVE  FleetInv'
    <2>1. TypeOK'
        BY <1>0, <1>2, TypeStep DEF Next
    <2>2. Fails(h, r)
        BY <1>0, <1>2, ContainerFacts
    <2>3. Weakens /\ HeadInv'
        BY <2>2, FailsWeakens
    <2> QED BY <2>1, <2>2, <2>3, WeakenedInv DEF Fails
<1>3. ASSUME NEW r \in Runs, EngineProgress(r)
      PROVE  FleetInv'
    <2>1. TypeOK'
        BY <1>0, <1>3, TypeStep DEF Next
    <2>2. Progresses(r)
        BY <1>0, <1>3, EngineFacts
    <2>3. HeadInv'
        BY <1>0, <2>2 DEF Progresses, HeadInv
    <2>4. Weakens
        BY <2>2, SameWeakens DEF Progresses
    <2> QED BY <2>1, <2>2, <2>3, <2>4, WeakenedInv DEF Progresses
<1>4. CASE (\E c \in Coord : LockMoves(c)) \/ UNCHANGED vars
    <2>1. UNCHANGED <<job, pc, ix, loc, cont, rayHead, serve, receipts, compacted, faults>>
        BY <1>4 DEF LockMoves, vars, ctl, fleet, host, budget
    <2>2. TypeOK'
        <3>1. CASE \E c \in Coord : LockMoves(c)
            BY <1>0, <3>1, TypeStep DEF Next
        <3>2. CASE UNCHANGED vars
            BY <1>0, <3>2 DEF vars, ctl, fleet, host, budget, TypeOK, LockTypeOK, lockVars
        <3> QED BY <1>4, <3>1, <3>2
    <2>3. HeadInv'
        BY <1>0, <2>1 DEF HeadInv
    <2>4. Weakens
        BY <2>1, SameWeakens
    <2> QED BY <2>1, <2>2, <2>3, <2>4, WeakenedInv
<1> QED BY <1>1, <1>2, <1>3, <1>4 DEF Next

\* The invariant of the controller; it asks nothing of the lock.
THEOREM FleetInvariant == Spec => []FleetInv
BY FleetInit, FleetNext, PTL DEF Spec

\* Every variable of the controller keeps its type: no loop index leaves the
\* ranks and no block is unknown.
THEOREM ControllerTypes == Spec => []TypeOK
BY FleetInvariant, PTL DEF FleetInv

\* A nonce authorizes one compaction, whatever becomes of the lock.
THEOREM NonceOneUseTheorem == Spec => []NonceOneUse
<1>1. FleetInv => NonceOneUse
    BY DEF FleetInv, TypeOK, NonceInv, HasConsumed, NonceOneUse
<1> QED BY <1>1, FleetInvariant, PTL

\* The containers of a run come from one launch, whatever becomes of the lock.
THEOREM OneCreatorPerRunTheorem == Spec => []OneCreatorPerRun
<1>1. FleetInv => OneCreatorPerRun
    BY DEF FleetInv, CreatorInv, OneCreatorPerRun
<1> QED BY <1>1, FleetInvariant, PTL

\* The exit handler stops nothing that its own launch did not create.
THEOREM FailStopOwnAttemptOnlyTheorem == Spec => []FailStopOwnAttemptOnly
<1>1. FleetInv => FailStopOwnAttemptOnly
    <2> SUFFICES ASSUME FleetInv, NEW c \in Coord, pc[c] = "failstop", NEW h \in Rank
                 PROVE  ~loc[c].ready /\ (Mine(c, h).label = "own" => Mine(c, h).born = c)
        BY RankEnds DEF FailStopOwnAttemptOnly
    <2>1. ~loc[c].ready /\ Has(c, 0) /\ job[c].run \in Runs
        BY DEF FleetInv, ControlInv, CreatorInv, TypeOK, Job
    <2> QED BY <2>1 DEF FleetInv, CreatorInv, Has, Mine
<1> QED BY <1>1, FleetInvariant, PTL

\* Unless a failed query is taken for an answer, no rank is healthy when the
\* exit handler begins to stop.
THEOREM FailStopOnlyFailedRanksTheorem ==
    ASSUME MaxFaults = 0
    PROVE  Spec => []FailStopOnlyFailedRanks
<1>1. FleetInv => FailStopOnlyFailedRanks
    <2> SUFFICES ASSUME FleetInv, NEW c \in Coord, pc[c] = "failstop", NEW h \in Rank
                 PROVE  ~Healthy(Mine(c, h))
        BY DEF FailStopOnlyFailedRanks
    <2>1. faults = 0
        BY DEF FleetInv, TypeOK
    <2> QED BY <2>1 DEF FleetInv, ObserveInv, Condemned
<1> QED BY <1>1, FleetInvariant, PTL

-----------------------------------------------------------------------------
(* Results: which block reports what.  *)

\* The floor of a container is what its own launch read on its host less the reserve,
\* or for Fast at most the spread below, and no raylet of Fast lives before the same
\* positive floor is attached to every rank; nothing is asked of the lock, nor of what
\* memory does between two reads.
THEOREM FloorsUniformAndFitTheorem == Spec => []FloorsUniformAndFit
<1>1. FleetInv => FloorsUniformAndFit
    BY DEF FleetInv, SizeInv, FloorInv, FloorsUniformAndFit
<1> QED BY <1>1, FleetInvariant, PTL

\* A failed or preserved launch reports nothing else.
LEMMA KeepsResult ==
    ASSUME CtlType, NEW c \in Coord, NEW d \in Coord,
           \/ UNCHANGED loc
           \/ Exit(c, "FAIL") \/ Exit(c, "PRESERVED")
    PROVE  /\ loc'[d].ready = loc[d].ready
           /\ loc'[d].result = loc[d].result \/ loc'[d].result \in {"FAIL", "PRESERVED"}
<1>1. CASE UNCHANGED loc
    BY <1>1
<1>2. CASE Exit(c, "FAIL") \/ Exit(c, "PRESERVED")
    BY <1>2, ExitFacts DEF Elsewhere, SameLocals
<1> QED BY <1>1, <1>2

\* A result is PASS at the end of one of three scripts, RESTORED after the
\* rollback's probe, and readiness is passed by the last probe alone.
LEMMA ResultFacts ==
    ASSUME CtlType, NEW c \in Coord, ScriptStep(c) \/ Kill(c), NEW d \in Coord
    PROVE  /\ loc'[d].ready = loc[d].ready \/ (d = c /\ \E l \in {"chat", "sparse"} : ReadinessProbe(c, l))
           /\ \/ loc'[d].result = loc[d].result
              \/ loc'[d].result \in {"FAIL", "PRESERVED"}
              \/ d = c /\ (FinalAssert(c) \/ StopCluster(c) \/ StageDone(c)) /\ loc'[d].result = "PASS"
              \/ d = c /\ RollBackProbe(c) /\ loc'[d].result = "RESTORED"
<1> DEFINE Kept == \/ UNCHANGED loc \/ Exit(c, "FAIL") \/ Exit(c, "PRESERVED")
           Other == /\ \A e \in Coord : loc'[e].ready = loc[e].ready
                    /\ \A e \in Coord : loc'[e].result = loc[e].result
<1>0. loc \in [Coord -> Locals] /\ loc[c] \in Locals
    BY DEF CtlType
<1> USE DEF Fail
<1>1. CASE \/ Acquire(c) \/ LockLost(c) \/ Release(c) \/ Kill(c) \/ ExistingBeforeNonce(c)
           \/ fleet_consume_compaction_nonce_hash(c) \/ Compact(c)
    <2>1. Kept
        BY <1>1 DEF Acquire, LockLost, Release, Kill, ExistingBeforeNonce, Compact,
                    fleet_consume_compaction_nonce_hash
    <2> QED BY <2>1, KeepsResult
<1>2. CASE \/ ReplaceRun(c) \/ StopFailedAttempt(c) \/ allocator_readback_gate(c)
           \/ StartRayHead(c) \/ StartRayWorker(c) \/ Serve(c) \/ rank_gate(c)
    <2>1. Kept
        BY <1>2 DEF ReplaceRun, StopFailedAttempt, allocator_readback_gate,
                    StartRayHead, StartRayWorker, Serve, rank_gate
    <2> QED BY <2>1, KeepsResult
<1>3. CASE \/ AwaitHealth(c) \/ ModelsGate(c) \/ transport_and_log_gate(c)
           \/ (Fast(c) /\ ImmediateChat(c)) \/ IdleWindow(c) \/ PostIdleProbe(c) \/ PostIdleLogs(c)
    <2>1. Kept
        BY <1>3 DEF AwaitHealth, ModelsGate, transport_and_log_gate, ImmediateChat,
                    IdleWindow, PostIdleProbe, PostIdleLogs, Gate
    <2> QED BY <2>1, KeepsResult
<1>4. CASE \/ PinRank(c) \/ VerifyPin(c) \/ PinProbe(c) \/ RollBackRank(c)
           \/ on_exit(c) \/ StageImage(c)
    <2>1. Kept
        BY <1>4 DEF PinRank, VerifyPin, PinProbe, RollBackRank, UpdatePin, RollBack, on_exit,
                    StageImage
    <2> QED BY <2>1, KeepsResult
<1>5. CASE verify_hosts(c) \/ SampleAndSize(c) \/ CheckRank(c)
    <2>1. Kept \/ Verifies(c) \/ Samples(c) \/ Checks(c)
        BY <1>5, VerifyFacts, SampleFacts, CheckFacts
    <2>2. CASE Verifies(c) \/ Samples(c) \/ Checks(c)
        BY <2>2 DEF Verifies, Samples, Checks, Elsewhere
    <2> QED BY <2>1, <2>2, KeepsResult
<1>6. CASE CreateRank(c)
    <2>1. Kept \/ loc' = [loc EXCEPT ![c].started = TRUE]
        BY <1>6 DEF CreateRank
    <2>2. CASE loc' = [loc EXCEPT ![c].started = TRUE]
        BY <1>0, <2>2 DEF Locals
    <2> QED BY <2>1, <2>2, KeepsResult
<1>7. CASE fleet_observe_failed_three_times(c)
    <2>1. Kept \/ Other
        BY <1>0, <1>7 DEF fleet_observe_failed_three_times, Locals
    <2> QED BY <2>1, KeepsResult
<1>8. CASE (~Fast(c) /\ ImmediateChat(c)) \/ cache_busted_sparse_indexer_probe(c)
    <2>1. PICK l \in {"chat", "sparse"} : ReadinessProbe(c, l)
        BY <1>8 DEF ImmediateChat, cache_busted_sparse_indexer_probe
    <2>2. Kept \/ loc' = [loc EXCEPT ![c].ready = TRUE]
        BY <2>1 DEF ReadinessProbe
    <2>3. CASE loc' = [loc EXCEPT ![c].ready = TRUE]
        BY <1>0, <2>1, <2>3 DEF Locals
    <2> QED BY <2>2, <2>3, KeepsResult
<1>9. CASE FinalAssert(c) \/ StageDone(c)
    <2>1. Exit(c, "PASS")
        BY <1>9 DEF FinalAssert, StageDone
    <2> QED BY <1>9, <2>1, ExitFacts DEF Elsewhere, SameLocals
<1>10. CASE StopCluster(c)
    <2>1. Kept \/ Exit(c, "PASS")
        BY <1>10 DEF StopCluster
    <2>2. CASE Exit(c, "PASS")
        BY <1>10, <2>2, ExitFacts DEF Elsewhere, SameLocals
    <2> QED BY <2>1, <2>2, KeepsResult
<1>11. CASE RollBackProbe(c)
    <2>1. Kept \/ Exit(c, "RESTORED")
        BY <1>11 DEF RollBackProbe
    <2>2. CASE Exit(c, "RESTORED")
        BY <1>11, <2>2, ExitFacts DEF Elsewhere, SameLocals
    <2> QED BY <2>1, <2>2, KeepsResult
<1> QED BY <1>1, <1>2, <1>3, <1>4, <1>5, <1>6, <1>7, <1>8, <1>9, <1>10, <1>11
        DEF ScriptStep

\* The report of the CPU pin is true of every rank.
THEOREM PinReportTrueTheorem == Spec => PinReportTrue
<1> DEFINE A == \A c \in Coord, h \in Rank :
                    /\ Fast(c) /\ job[c].kind = "launch" /\ Finishes(c, "PASS")
                            => cont'[h][job[c].run].pin = "big"
                    /\ Finishes(c, "RESTORED") => cont'[h][job[c].run].pin = "all"
<1>1. FleetInv /\ [Next]_vars => [A]_vars
    <2> SUFFICES ASSUME FleetInv, Next, NEW d \in Coord, NEW h \in Rank
                 PROVE  /\ Fast(d) /\ job[d].kind = "launch" /\ Finishes(d, "PASS")
                                => cont'[h][job[d].run].pin = "big"
                        /\ Finishes(d, "RESTORED") => cont'[h][job[d].run].pin = "all"
        OBVIOUS
    <2>0. CtlType /\ ControlInv /\ PinInv
        BY DEF FleetInv, TypeOK, CtlType
    <2>1. CASE UNCHANGED loc
        BY <2>1 DEF Finishes
    <2>2. ASSUME NEW c \in Coord, ScriptStep(c) \/ Kill(c), loc'[d].result \in {"PASS", "RESTORED"},
                 loc[d].result = "none"
          PROVE  /\ Fast(d) /\ job[d].kind = "launch" /\ Finishes(d, "PASS")
                         => cont'[h][job[d].run].pin = "big"
                 /\ Finishes(d, "RESTORED") => cont'[h][job[d].run].pin = "all"
        <3>1. \/ d = c /\ (FinalAssert(c) \/ StopCluster(c) \/ StageDone(c)) /\ loc'[d].result = "PASS"
              \/ d = c /\ RollBackProbe(c) /\ loc'[d].result = "RESTORED"
            BY <2>0, <2>2, ResultFacts
        <3>2. CASE d = c /\ FinalAssert(c) /\ loc'[d].result = "PASS"
            <4>1. cont' = cont /\ pc[c] = "final"
                BY <3>2 DEF FinalAssert, At, fleet
            <4> QED BY <2>0, <3>2, <4>1 DEF Finishes, PinInv, Mine
        <3>3. CASE d = c /\ (StopCluster(c) \/ StageDone(c)) /\ loc'[d].result = "PASS"
            <4>1. job[c].kind # "launch"
                BY <2>0, <3>3 DEF StopCluster, StageDone, At, ControlInv
            <4> QED BY <3>3, <4>1 DEF Finishes
        <3>4. CASE d = c /\ RollBackProbe(c) /\ loc'[d].result = "RESTORED"
            <4>1. cont' = cont /\ pc[c] = "rollbackprobe"
                BY <3>4 DEF RollBackProbe, fleet
            <4> QED BY <2>0, <3>4, <4>1 DEF Finishes, PinInv, Mine
        <3> QED BY <3>1, <3>2, <3>3, <3>4
    <2>3. \/ UNCHANGED loc \/ \E c \in Coord : ScriptStep(c) \/ Kill(c)
        BY DEF Next, LockMoves, ContainerFails, EngineProgress
    <2> QED BY <2>1, <2>2, <2>3 DEF Finishes
<1> QED BY <1>1, FleetInvariant, PTL DEF Spec, PinReportTrue

-----------------------------------------------------------------------------
(* A fleet on which no connection is lost.  *)

\* Nobody has a session at the start.
LEMMA SessionInit == Init => SessionInv
BY DEF Init, LockInit, SessionInv, FlockExclusive, OpenSessionHolds, Working, Sizing,
       Creating, Created

\* A block of a script is entered from another one, or from the start.
LEMMA WorkingFrom ==
    ASSUME NEW c \in Coord, ScriptCase(c)
    PROVE  /\ pc'[c] # "start"
           /\ pc'[c] \in Working => pc[c] \in Working \/ Begins(c)
<1>1. pc'[c] # "start"
    BY DEF ScriptCase, Gone, Goes, Begins, Passes, PassEdges, Verifies, Samples, Sized, Checks,
           ReadsBack, RanksPass, Watches, Consumes, Compacts, Creates, HeadStarts,
           WorkerJoins, Serves, Pins, Observes, Stops
<1>2. pc'[c] \in Working => pc[c] \in Working \/ Begins(c)
    <2> USE DEF Working, Sizing, Creating, Created
    <2>1. CASE Gone(c) \/ Watches(c) \/ Observes(c)
        BY <2>1 DEF Gone, Watches, Goes, Observes
    <2>2. CASE Passes(c)
        BY <2>2 DEF Passes, PassEdges
    <2>3. CASE Verifies(c) \/ Samples(c) \/ Checks(c) \/ ReadsBack(c) \/ RanksPass(c)
               \/ Consumes(c) \/ Compacts(c) \/ Creates(c)
        BY <2>3 DEF Verifies, Samples, Checks, ReadsBack, RanksPass, Consumes, Compacts, Creates
    <2>4. CASE HeadStarts(c) \/ WorkerJoins(c) \/ Serves(c) \/ Pins(c)
        BY <2>4 DEF HeadStarts, WorkerJoins, Serves, Pins
    <2>5. CASE Stops(c)
        BY <2>1, <2>5 DEF Stops, Goes
    <2> QED BY <2>1, <2>2, <2>3, <2>4, <2>5 DEF ScriptCase
<1> QED BY <1>1, <1>2

\* Without a lost connection a script at work has its session open.
LEMMA SessionStep ==
    ASSUME LossProne = {}, FleetInv, SessionInv, [Next]_vars
    PROVE  SessionInv'
<1>0. LockTypeOK /\ TypeOK /\ ControlInv /\ CtlType
    BY DEF FleetInv, TypeOK, CtlType
<1> DEFINE P(d) ==
        /\ ~down[d]
        /\ session[d] # "lost"
        /\ pc[d] = "start" => session[d] = "none"
        /\ pc[d] \in Working => session[d] = "open"
<1>1. \A d \in Coord : P(d)
    BY DEF SessionInv
<1>2. CASE UNCHANGED lockVars /\ UNCHANGED pc
    BY <1>2 DEF SessionInv, FlockExclusive, OpenSessionHolds, lockVars
<1>3. ASSUME NEW c \in Coord, ScriptStep(c) \/ Kill(c)
      PROVE  SessionInv'
    <2>1. ScriptCase(c) /\ Elsewhere(c)
        BY <1>0, <1>3, ScriptFacts, ScriptOthers
    <2>2. pc'[c] # "start" /\ (pc'[c] \in Working => pc[c] \in Working \/ Begins(c))
        BY <2>1, WorkingFrom
    <2>3. CASE pc[c] # "start" /\ UNCHANGED lockVars
        <3>1. pc'[c] \in Working => pc[c] \in Working
            BY <2>2, <2>3 DEF Begins
        <3> QED BY <2>1, <2>2, <2>3, <3>1
                DEF SessionInv, FlockExclusive, OpenSessionHolds, lockVars, Elsewhere
    <2>4. CASE pc[c] = "start" /\ Grant(c)
        <3>1. flock = {} /\ flock' = {c} /\ down' = down
            BY <1>1, <2>4 DEF Grant
        <3>2. /\ session'[c] = "open"
              /\ \A d \in Coord : d # c => session'[d] = session[d] /\ session[d] # "open"
            BY <1>0, <1>1, <2>4, <3>1 DEF Grant, LockTypeOK, SessionInv, OpenSessionHolds
        <3>3. FlockExclusive' /\ OpenSessionHolds'
            BY <3>1, <3>2 DEF FlockExclusive, OpenSessionHolds
        <3> QED BY <1>1, <2>1, <2>2, <3>1, <3>2, <3>3 DEF SessionInv, Elsewhere
    <2>5. CASE pc[c] = "start" /\ Deny(c) /\ Fail(c)
        <3>1. /\ FlockExclusive' /\ OpenSessionHolds' /\ down' = down /\ session'[c] = "closed"
              /\ \A d \in Coord : d # c => session'[d] = session[d]
            BY <1>0, <2>5 DEF Deny, LockTypeOK, SessionInv, OpenSessionHolds, FlockExclusive
        <3>2. pc'[c] = "onexit"
            BY <1>0, <2>5, ExitFacts DEF Fail
        <3> QED BY <1>1, <2>1, <3>1, <3>2
                DEF SessionInv, Elsewhere, Working, Sizing, Creating, Created
    <2>6. CASE Close(c) /\ (Goto(c, "done", 0) \/ Goto(c, "dead", 0))
        <3>1. /\ FlockExclusive' /\ OpenSessionHolds' /\ down' = down /\ session'[c] = "closed"
              /\ \A d \in Coord : d # c => session'[d] = session[d]
            BY <1>0, <2>6 DEF Close, LockTypeOK, SessionInv, OpenSessionHolds, FlockExclusive
        <3>2. pc'[c] \in {"done", "dead"}
            BY <1>0, <2>6 DEF Goto, CtlType
        <3> QED BY <1>1, <2>1, <3>1, <3>2
                DEF SessionInv, Elsewhere, Working, Sizing, Creating, Created
    <2> QED BY <1>3, <2>3, <2>4, <2>5, <2>6, ScriptFrame
<1>4. ASSUME NEW c \in Coord, LockMoves(c)
      PROVE  SessionInv'
    <2>1. UNCHANGED pc /\ (LateTake(c) \/ Vanish(c))
        BY <1>1, <1>4 DEF LockMoves, LockEnvironment, Drop, Notice, ctl
    <2> QED BY <1>0, <2>1 DEF LateTake, Vanish, LockTypeOK, SessionInv, OpenSessionHolds,
                              FlockExclusive
<1>5. ASSUME NEW h \in Rank, NEW r \in Runs, ContainerFails(h, r) \/ EngineProgress(r)
      PROVE  SessionInv'
    BY <1>2, <1>5 DEF ContainerFails, EngineProgress, ctl
<1>6. CASE UNCHANGED vars
    BY <1>2, <1>6 DEF vars, ctl
<1> QED BY <1>3, <1>4, <1>5, <1>6, RankEnds DEF Next

\* One coordinator works at a time.
LEMMA OneAtWork ==
    ASSUME SessionInv, NEW c \in Coord, NEW d \in Coord, pc[c] \in Working, pc[d] \in Working
    PROVE  c = d
BY DEF SessionInv, FlockExclusive, OpenSessionHolds

-----------------------------------------------------------------------------
\* What the others may do beside the coordinator at work.
Beside ==
    /\ rayHead' \in {None, rayHead}
    /\ faults' = 0 => faults = 0
    /\ \A g \in Rank, s \in Runs :
        cont'[g][s].label = cont[g][s].label /\ (cont'[g][s].up => cont[g][s].up)

\* A script that is not at work only observes and stops.
LEMMA IdleStep ==
    ASSUME TypeOK, NEW c \in Coord, ScriptCase(c), pc[c] \notin Working
    PROVE  Beside
<1>1. \/ Quiet \/ Observes(c) \/ Stops(c)
    BY DEF ScriptCase, Consumes, Compacts, Creates, HeadStarts, WorkerJoins, Serves, Pins,
           Working, Sizing, Creating, Created
<1>2. CASE Quiet \/ Observes(c)
    BY <1>2 DEF Quiet, Observes, Beside, fleet
<1>3. CASE Stops(c) /\ UNCHANGED fleet
    BY <1>3 DEF Stops, Beside, fleet
<1>4. CASE Stops(c) /\ Downed(ix[c], StopTarget(c))
    BY <1>4 DEF Stops, Downed, Beside, SameBirth
<1> QED BY <1>1, <1>2, <1>3, <1>4 DEF Stops

\* What the coordinator at work has read survives the steps of the others,
LEMMA SoleBeside ==
    ASSUME TypeOK, Beside, NEW d \in Coord, Sole(d),
           job' = job, pc'[d] = pc[d], ix'[d] = ix[d], loc'[d] = loc[d]
    PROVE  Sole(d)'
<1>1. job[d].run \in Runs
    BY DEF TypeOK, Job
<1>2. \A h \in Rank : /\ Mine(d, h)'.label = Mine(d, h).label
                      /\ Mine(d, h)'.up => Mine(d, h).up
    BY <1>1 DEF Beside, Mine
<1> QED BY <1>2 DEF Beside, Sole, Fast

\* and its own.
LEMMA SoleOwn ==
    ASSUME FleetInv, NEW c \in Coord, ScriptCase(c), CtlType', Sole(c)
    PROVE  Sole(c)'
<1>0. /\ job' = job /\ job[c].run \in Runs /\ ix[c] \in Rank /\ ix'[c] \in Rank
      /\ N \in Nat \ {0}
    BY ScriptOthers, RankEnds DEF FleetInv, TypeOK, CtlType, Job
<1>1. (pc[c] = "stop" /\ faults = 0 =>
            \A h \in Rank : h > ix[c] /\ Mine(c, h).label = "own" => ~Mine(c, h).up)'
    <2> SUFFICES ASSUME pc'[c] = "stop", faults' = 0, NEW h \in Rank, h > ix'[c],
                        Mine(c, h)'.label = "own"
                 PROVE  ~Mine(c, h)'.up
        OBVIOUS
    <2>1. CASE Begins(c)
        <3>1. ix'[c] = N - 1
            BY <2>1 DEF Begins, Goes
        <3> QED BY <1>0, <3>1 DEF Rank
    <2>2. CASE Stops(c)
        <3>1. /\ pc[c] = "stop" /\ ix'[c] = ix[c] - 1 /\ faults = 0
              /\ StoppedAt(ix[c], job[c].run)
              /\ Downed(ix[c], job[c].run) \/ UNCHANGED fleet
            BY <2>2 DEF Stops, Goes, Gone, StopTarget
        <3>2. CASE h = ix[c]
            BY <1>0, <3>1, <3>2 DEF StoppedAt, Mine
        <3>3. CASE h # ix[c]
            <4>1. h > ix[c]
                BY <1>0, <3>1, <3>3 DEF Rank
            <4>2. cont'[h][job[c].run].label = cont[h][job[c].run].label
                  /\ (cont'[h][job[c].run].up => cont[h][job[c].run].up)
                BY <1>0, <3>1 DEF Downed, SameBirth, fleet
            <4> QED BY <1>0, <3>1, <4>1, <4>2 DEF Sole, Mine
        <3> QED BY <3>2, <3>3
    <2>3. Begins(c) \/ Stops(c)
        BY DEF ScriptCase, Gone, Goes, Passes, PassEdges, Verifies, Samples, Sized, Checks,
               ReadsBack, RanksPass, Watches, Consumes, Compacts, Creates, HeadStarts,
               WorkerJoins, Serves, Pins, Observes
    <2> QED BY <2>1, <2>2, <2>3
<1>2. (pc[c] \in {"loggate", "chat", "sparse"} => rayHead \in {None, job[c].run})'
    <2> SUFFICES ASSUME pc'[c] \in {"loggate", "chat", "sparse"}
                 PROVE  rayHead' \in {None, job[c].run}
        BY <1>0
    <2>1. RanksPass(c) \/ (Passes(c) /\ pc[c] \in {"loggate", "chat"})
        BY DEF ScriptCase, Gone, Goes, Begins, Passes, PassEdges, Verifies, Samples, Sized,
               Checks, RanksPass, ReadsBack, Watches, Consumes, Compacts, Creates, HeadStarts,
               WorkerJoins, Serves, Pins, Observes, Stops
    <2>2. UNCHANGED rayHead
        BY <2>1 DEF RanksPass, Passes, ScriptCase, Quiet, fleet, Consumes, Compacts, Creates,
               HeadStarts, WorkerJoins, Serves, Pins, Observes, Stops
    <2>3. CASE RanksPass(c)
        BY <1>0, <2>2, <2>3, RankEnds DEF RanksPass, FleetInv, RayInv, HeadInv, Mine
    <2> QED BY <2>1, <2>2, <2>3 DEF Sole
<1> QED BY <1>1, <1>2 DEF Sole

\* Nobody but the coordinator at work changes what it has read.
LEMMA SoleStep ==
    ASSUME LossProne = {}, FleetInv, SessionInv, SoleInv, [Next]_vars
    PROVE  SoleInv'
<1>0. TypeOK /\ ControlInv /\ FleetType /\ CtlType
    BY DEF FleetInv, TypeOK, FleetType, CtlType
<1>1. ASSUME NEW c \in Coord, ScriptStep(c) \/ Kill(c)
      PROVE  SoleInv'
    <2>1. ScriptCase(c) /\ CtlType' /\ job' = job /\ Elsewhere(c)
        BY <1>0, <1>1, ScriptFacts, ScriptOthers
    <2>2. Sole(c)'
        BY <2>1, SoleOwn DEF SoleInv
    <2>3. ASSUME NEW d \in Coord, d # c
          PROVE  Sole(d)'
        <3>1. Sole(d) /\ pc'[d] = pc[d] /\ ix'[d] = ix[d] /\ loc'[d] = loc[d]
            BY <2>1, <2>3 DEF SoleInv, Elsewhere
        <3>2. CASE pc[d] \in Working
            <4>1. pc[c] \notin Working
                BY <2>3, <3>2, OneAtWork
            <4>2. Beside
                BY <1>0, <2>1, <4>1, IdleStep
            <4> QED BY <1>0, <2>1, <3>1, <4>2, SoleBeside
        <3>3. CASE pc[d] \notin Working
            BY <3>1, <3>3 DEF Sole, Working, Sizing, Creating, Created
        <3> QED BY <3>2, <3>3
    <2> QED BY <2>2, <2>3 DEF SoleInv
<1>2. ASSUME Beside, UNCHANGED <<job, pc, ix, loc>>
      PROVE  SoleInv'
    BY <1>0, <1>2, SoleBeside DEF SoleInv
<1>3. ASSUME NEW h \in Rank, NEW r \in Runs, ContainerFails(h, r)
      PROVE  SoleInv'
    <2>1. Fails(h, r)
        BY <1>0, <1>3, ContainerFacts
    <2>2. Beside
        BY <2>1 DEF Fails, Downed, SameBirth, Beside
    <2> QED BY <1>2, <2>1, <2>2 DEF Fails
<1>4. ASSUME NEW r \in Runs, EngineProgress(r)
      PROVE  SoleInv'
    <2>1. Progresses(r)
        BY <1>0, <1>4, EngineFacts
    <2> QED BY <1>2, <2>1 DEF Progresses, Beside
<1>5. CASE (\E c \in Coord : LockMoves(c)) \/ UNCHANGED vars
    <2>1. UNCHANGED <<job, pc, ix, loc, cont, rayHead, faults>>
        BY <1>5 DEF LockMoves, vars, ctl, fleet, host, budget
    <2> QED BY <1>2, <2>1 DEF Beside
<1> QED BY <1>1, <1>3, <1>4, <1>5 DEF Next

\* While no connection is lost one coordinator works at a time, and finds the
\* fleet as it left it but for what failed.
THEOREM SoundFleet ==
    ASSUME LossProne = {}
    PROVE  Spec => []SoundInv
<1>1. Init => SoundInv
    <2>1. Init => SoleInv
        BY DEF Init, SoleInv, Sole, Creating
    <2> QED BY <2>1, FleetInit, SessionInit DEF SoundInv
<1>2. SoundInv /\ [Next]_vars => SoundInv'
    BY FleetNext, SessionStep, SoleStep DEF SoundInv
<1> QED BY <1>1, <1>2, PTL DEF Spec

\* The stop command reaches rank 0 only when no worker of the run is running,
\* unless a failed query is taken for the absence of a container.
THEOREM CoordinatorStoppedLastTheorem ==
    ASSUME LossProne = {}, MaxFaults = 0
    PROVE  Spec => []CoordinatorStoppedLast
<1>1. SoundInv => CoordinatorStoppedLast
    <2> SUFFICES ASSUME SoundInv PROVE CoordinatorStoppedLast
        OBVIOUS
    <2>1. faults = 0
        BY DEF SoundInv, FleetInv, TypeOK
    <2> QED BY <2>1 DEF SoundInv, SoleInv, Sole, CoordinatorStoppedLast
<1> QED BY <1>1, SoundFleet, PTL

\* stop-result=PASS is printed only when no container of the run is running.
THEOREM StopPassMeansStoppedTheorem ==
    ASSUME LossProne = {}, MaxFaults = 0
    PROVE  Spec => StopPassMeansStopped
<1> DEFINE A == \A c \in Coord : job[c].kind = "stop" /\ Finishes(c, "PASS")
                    => \A h \in Rank : cont'[h][job[c].run].label = "own"
                            => ~cont'[h][job[c].run].up
<1>1. SoundInv /\ SoundInv' /\ [Next]_vars => [A]_vars
    <2> SUFFICES ASSUME SoundInv, SoundInv', Next, NEW d \in Coord, job[d].kind = "stop",
                        Finishes(d, "PASS"), NEW h \in Rank
                 PROVE  cont'[h][job[d].run].label = "own" => ~cont'[h][job[d].run].up
        OBVIOUS
    <2>0. /\ CtlType /\ FleetType /\ ControlInv /\ job \in [Coord -> Job]
          /\ faults = 0 /\ faults' = 0 /\ faults \in 0 .. MaxFaults
          /\ job[d].run \in Runs
        BY DEF SoundInv, FleetInv, TypeOK, CtlType, FleetType, Job
    <2>1. PICK c \in Coord : ScriptStep(c) \/ Kill(c)
        BY DEF Next, LockMoves, ContainerFails, EngineProgress, Finishes
    <2>2. d = c /\ (FinalAssert(c) \/ StopCluster(c) \/ StageDone(c))
        BY <2>0, <2>1, ResultFacts DEF Finishes
    <2>3. StopCluster(c) /\ pc[c] = "stop"
        BY <2>0, <2>2 DEF FinalAssert, StageDone, StopCluster, At, ControlInv, Created
    <2>4. PICK seen \in {"EXACT", "ABSENT", "UNKNOWN"}, ok \in BOOLEAN :
            /\ StopIteration(c, job[c].run, seen, ok)
            /\ CASE ~ok -> Fail(c)
                 [] ok /\ ix[c] > 0 -> PrevRank(c, "stop") /\ UNCHANGED loc
                 [] OTHER -> Exit(c, "PASS")
        BY <2>3 DEF StopCluster
    <2>5. ok /\ ~(ix[c] > 0)
        <3>1. ~Fail(c)
            BY <2>0, <2>2, <2>3, FailFacts DEF Finishes, Working
        <3> QED BY <2>2, <2>4, <3>1 DEF Finishes
    <2>6. ix[c] = 0
        BY <2>0, <2>5 DEF CtlType, Rank
    <2>7. /\ Downed(ix[c], job[c].run) \/ UNCHANGED fleet
          /\ StoppedAt(ix[c], job[c].run)
        BY <2>0, <2>2, <2>4, <2>5, StopIterationFacts
    <2>8. CASE h = 0
        BY <2>2, <2>6, <2>7, <2>8 DEF StoppedAt
    <2>9. CASE h # 0
        <3>1. h > ix[c]
            BY <2>6, <2>9 DEF Rank
        <3>2. Mine(c, h).label = "own" => ~Mine(c, h).up
            BY <2>0, <2>3, <3>1 DEF SoundInv, SoleInv, Sole
        <3>3. /\ cont'[h][job[d].run].label = cont[h][job[d].run].label
              /\ cont'[h][job[d].run].up => cont[h][job[d].run].up
            BY <2>0, <2>7 DEF Downed, SameBirth, fleet
        <3> QED BY <2>2, <3>2, <3>3 DEF Mine
    <2> QED BY <2>8, <2>9
<1> QED BY <1>1, SoundFleet, PTL DEF Spec, StopPassMeansStopped

\* When a launch reports readiness, the API that answered is its own.
THEOREM ReadinessIsOwnTheorem ==
    ASSUME LossProne = {}
    PROVE  Spec => ReadinessIsOwn
<1> DEFINE A == \A c \in Coord : ~loc[c].ready /\ loc'[c].ready =>
                    /\ serve[job[c].run] = "up"
                    /\ \A h \in Rank : Mine(c, h).born = c /\ Mine(c, h).ray = job[c].run
<1>1. SoundInv /\ [Next]_vars => [A]_vars
    <2> SUFFICES ASSUME SoundInv, Next, NEW d \in Coord, ~loc[d].ready, loc'[d].ready
                 PROVE  /\ serve[job[d].run] = "up"
                        /\ \A h \in Rank : Mine(d, h).born = d /\ Mine(d, h).ray = job[d].run
        OBVIOUS
    <2>0. CtlType /\ CreatorInv /\ RayInv /\ None \notin Runs
        BY ControllerAssumption DEF SoundInv, FleetInv, TypeOK, CtlType, ControllerAssumption
    <2>1. PICK c \in Coord : ScriptStep(c) \/ Kill(c)
        BY DEF Next, LockMoves, ContainerFails, EngineProgress
    <2>2. d = c /\ \E l \in {"chat", "sparse"} : ReadinessProbe(c, l)
        BY <2>0, <2>1, ResultFacts
    <2>3. pc[d] \in {"chat", "sparse"} /\ chat_probe
        <3>1. Fail(c) => loc'[c].ready = loc[c].ready
            BY <2>0, ExitFacts DEF Fail, SameLocals
        <3> QED BY <2>2, <3>1 DEF ReadinessProbe, At
    <2>4. PICK r \in Runs : serve[r] = "up" /\ \A h \in Rank : cont[h][r].up
        BY <2>3 DEF chat_probe
    <2>5. r = job[d].run
        <3>1. rayHead = r
            BY <2>0, <2>4 DEF RayInv, HeadInv
        <3>2. rayHead \in {None, job[d].run}
            BY <2>3 DEF SoundInv, SoleInv, Sole
        <3> QED BY <2>0, <3>1, <3>2
    <2>6. \A h \in Rank : Has(d, h)
        BY <2>0, <2>3 DEF CreatorInv, Created
    <2>7. \A h \in Rank : Mine(d, h).ray = job[d].run
        BY <2>0, <2>3, <2>4, <2>5 DEF RayInv, Mine
    <2> QED BY <2>4, <2>5, <2>6, <2>7 DEF Has
<1> QED BY <1>1, SoundFleet, PTL DEF Spec, ReadinessIsOwn
=============================================================================
