------------------------- MODULE MCFleetController -------------------------
(* Instances of FleetController for TLC: the command lines of each run. *)
EXTENDS FleetController, TLC

CONSTANTS c1, c2, r1, r2, n1, n2

TwoCoords == {c1, c2}
BothRuns == {r1, r2}
BothNonces == {n1, n2}
NoCoords == {}
NoForeign == {}
ForeignWorker == {<<1, r2>>}
AllHosts == Rank

\* What MemAvailable reads: always the same, or moving on host 0 from read to read,
\* within the spread below the others or beyond it above them.
OneMemory == [h \in Rank |-> {8}]
MovingMemory == [h \in Rank |-> IF h = 0 THEN {7, 10} ELSE {8}]

LaunchJob(profile, run, nonce, replace) ==
    [kind |-> "launch", profile |-> profile, run |-> run, nonce |-> nonce, replace |-> replace]
StopJob(run) ==
    [kind |-> "stop", profile |-> "fast", run |-> run, nonce |-> None, replace |-> None]
StageJob == [StopJob(r1) EXCEPT !.kind = "stage"]

\* A Fast launch beside each command that can disturb it: the same run under
\* another nonce, another run with the same nonce, a stop, and a launch that
\* replaces the run by another.
Rivals(replacing) ==
    (c1 :> {LaunchJob("fast", r1, n1, None)})
    @@ (c2 :> {LaunchJob("fast", r1, n2, None), LaunchJob("fast", r2, n1, None),
               replacing, StopJob(r1)})

\* The replacement has no floor; or the rival only stages an image.
RivalJobs ==
    LET rivals == Rivals(LaunchJob("balanced", r2, None, r1))
    IN  [rivals EXCEPT ![c2] = @ \cup {StageJob}]

\* The replacement sizes each host by itself.
SizingJobs == Rivals(LaunchJob("large", r2, None, r1))
=============================================================================
