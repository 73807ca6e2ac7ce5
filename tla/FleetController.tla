-------------------------- MODULE FleetController --------------------------
(***************************************************************************)
(* The fleet controller: scripts/launch_cluster.sh, stop_cluster.sh and    *)
(* stage_image.sh run by concurrent coordinators over the hosts of the     *)
(* fleet, on top of the canonical lock (LockService).                      *)
(*                                                                         *)
(* One action is one guarded block of the script: a fleet_lock_assert_held,*)
(* the remote queries of one host and the remote mutation they authorize.  *)
(* The existence check and the docker run that follows it are two actions, *)
(* because a second coordinator can come between them once a lock is lost. *)
(* A remote query that fails where the code fails closed is an ordinary    *)
(* refusal (Fail); `faults' counts the failures that the code takes for an *)
(* answer.  A command may take effect and still report failure.            *)
(*                                                                         *)
(* Data: a host's static fitness (architecture, CPUs, GPU, RDMA, polkit,   *)
(* swap, protected containers, model hashes, core topology) is whether the *)
(* preflight refuses; MemAvailable is a small number that may be another   *)
(* one at every read; the environment of a container is its allocator      *)
(* floor (0: not set); a run has one container name per host.              *)
(***************************************************************************)
EXTENDS LockService, Integers, FiniteSets

CONSTANTS
    N,              \* ranks (4 in the code); rank 0 is the coordinator host
    Runs, Nonces,   \* run identities and compaction nonces
    Jobs,           \* Jobs[c]: the command lines coordinator c may be given
    None,           \* no run, no nonce, no coordinator
    MinMem, Spread, Reserve,    \* 116 GiB, 512 MiB, 6 GiB, scaled
    MemValues,      \* MemValues[h]: what a read of MemAvailable on host h may return
    Foreign,        \* <<host, run>>: names that somebody else may have taken
    Imaged,         \* hosts that hold the accepted image at the start
    MaxFaults,      \* bound: query failures that the code takes for an answer
    MaxFails,       \* bound: containers that exit or are OOM-killed
    MaxKills        \* bound: coordinators killed by SIGKILL

Rank == 0 .. N - 1
Profiles == {"fast", "balanced", "large"}

\* A command line; a launch names a compaction nonce exactly when it is Fast.
Job == {j \in [kind : {"launch", "stop", "stage"}, profile : Profiles, run : Runs,
                nonce : Nonces \cup {None}, replace : Runs \cup {None}] :
            j.kind = "launch" => (j.nonce # None <=> j.profile = "fast")}

ASSUME ControllerAssumption ==
    /\ N \in Nat \ {0}
    /\ Jobs \in [Coord -> SUBSET Job]
    /\ None \notin Runs \cup Nonces \cup Coord
    /\ {Spread, Reserve, MaxFaults, MaxFails, MaxKills} \subseteq Nat
    /\ MinMem \in Nat \ {0}
    /\ MemValues \in [Rank -> SUBSET Nat]
    /\ Foreign \subseteq Rank \X Runs
    /\ Imaged \subseteq Rank

VARIABLES
    job,        \* job[c]: the command line of coordinator c
    pc, ix,     \* control: the block c is at and the rank index of its loop
    loc,        \* loc[c]: the shell variables of c (see Locals)
    cont,       \* cont[h][r]: the container of run r on host h
    rayHead,    \* the run whose head owns port 6379 of host 0
    serve,      \* serve[r]: the engine and API server of run r
    image,      \* hosts that hold the accepted image
    receipts,   \* the receipt directories of rank 0: nonces consumed
    compacted,  \* history: coordinators that issued drop_caches
    faults, fails   \* spent budgets

ctl == <<pc, ix>>
fleet == <<cont, rayHead, serve>>
host == <<image, receipts, compacted>>
budget == <<faults, fails>>
vars == <<lockVars, job, ctl, loc, fleet, host, budget>>

Locals == [started : BOOLEAN,       \* STARTED
           ready : BOOLEAN,         \* READINESS_PASSED
           lo : Nat, hi : Nat,      \* min_mem and max_mem of the loop (0: no sample yet)
           want : [Rank -> Nat],    \* CHAMPION_ALLOCATOR_FLOOR_ARRAY
           sampled : [Rank -> Nat], \* history: the read that sized the floor of a host
           round : 0 .. 3,          \* rounds of the failure observation
           result : {"none", "FAIL", "PASS", "RESTORED", "PRESERVED"}]

Container == [label : {"absent", "own", "foreign"}, up : BOOLEAN, clean : BOOLEAN,
              pin : {"unset", "all", "big"}, floor : Nat,
              born : Coord \cup {None}, ray : Runs \cup {None}]

Guarded == {"preflight", "existing", "consume", "compact", "sample", "replace",
            "check", "readback", "rayhead", "rayworker", "serve", "final",
            "stop", "stage", "staged"}
Labels == Guarded \cup
          {"start", "create", "health", "models", "rankgate", "loggate", "chat",
           "sparse", "idle", "postidle", "postlogs", "pin", "pinverify",
           "pinprobe", "rollback", "rollbackprobe", "onexit", "observe",
           "failstop", "release", "done", "dead"}

TypeOK ==
    /\ LockTypeOK
    /\ job \in [Coord -> Job]
    /\ pc \in [Coord -> Labels]
    /\ ix \in [Coord -> Rank]
    /\ loc \in [Coord -> Locals]
    /\ cont \in [Rank -> [Runs -> Container]]
    /\ rayHead \in Runs \cup {None}
    /\ serve \in [Runs -> {"off", "starting", "gpu", "up"}]
    /\ image \in SUBSET Rank
    /\ receipts \in SUBSET Nonces
    /\ compacted \in SUBSET Coord
    /\ faults \in 0 .. MaxFaults
    /\ fails \in 0 .. MaxFails

Absent == [label |-> "absent", up |-> FALSE, clean |-> TRUE, pin |-> "unset",
           floor |-> 0, born |-> None, ray |-> None]
Alien == [Absent EXCEPT !.label = "foreign", !.up = TRUE]

Init ==
    /\ LockInit
    /\ job \in {f \in [Coord -> Job] : \A c \in Coord : f[c] \in Jobs[c]}
    /\ pc = [c \in Coord |-> "start"]
    /\ ix = [c \in Coord |-> 0]
    /\ loc = [c \in Coord |->
                [started |-> FALSE, ready |-> FALSE, lo |-> 0, hi |-> 0,
                 want |-> [h \in Rank |-> 0], sampled |-> [h \in Rank |-> 0],
                 round |-> 0, result |-> "none"]]
    /\ \E taken \in SUBSET Foreign :
            cont = [h \in Rank |-> [r \in Runs |->
                        IF <<h, r>> \in taken THEN Alien ELSE Absent]]
    /\ rayHead = None
    /\ serve = [r \in Runs |-> "off"]
    /\ image = Imaged
    /\ receipts = {}
    /\ compacted = {}
    /\ faults = 0
    /\ fails = 0

-----------------------------------------------------------------------------
(* Control.  *)

Goto(c, label, i) ==
    /\ pc' = [pc EXCEPT ![c] = label]
    /\ ix' = [ix EXCEPT ![c] = i]

\* The end of one iteration of `for index in 0 1 2 3'.
NextRank(c, label, i) ==
    IF ix[c] < N - 1 THEN Goto(c, pc[c], ix[c] + 1) ELSE Goto(c, label, i)

\* Mutant: the descending loop runs one index too far.
PrevRankTooFar(c, label) ==
    IF ix[c] >= 0 THEN Goto(c, pc[c], ix[c] - 1) ELSE Goto(c, label, 0)

\* The end of one iteration of `for index in 3 2 1 0'.
PrevRank(c, label) ==
    IF ix[c] > 0 THEN Goto(c, pc[c], ix[c] - 1) ELSE Goto(c, label, 0)

\* A non-zero return or errexit: the EXIT trap runs.
Exit(c, result) ==
    /\ Goto(c, "onexit", 0)
    /\ loc' = [loc EXCEPT ![c].result = result]

Fail(c) == Exit(c, "FAIL")

At(c, label) == pc[c] = label /\ (label \in Guarded => AssertHeld(c))

\* fleet_lock_assert_held fails at the head of a block.
LockLost(c) ==
    /\ pc[c] \in Guarded
    /\ ~AssertHeld(c)
    /\ Fail(c)
    /\ UNCHANGED <<lockVars, job, fleet, host, budget>>

Fast(c) == job[c].profile = "fast"
Mine(c, h) == cont[h][job[c].run]

\* Where launch_profile goes once the hosts are verified and sized.
AfterSizing(c) == IF job[c].replace # None THEN <<"replace", N - 1>> ELSE <<"check", 0>>

-----------------------------------------------------------------------------
(* Docker, Ray and the engine, as the scripts use them.  *)

Healthy(k) == k.up /\ k.clean

\* The container of run r on host h is down: its processes are gone.
DownEffect(h, r) ==
    /\ cont' = [cont EXCEPT ![h][r].up = FALSE, ![h][r].ray = None]
    /\ rayHead' = IF h = 0 /\ rayHead = r THEN None ELSE rayHead
    /\ serve' = IF h = 0 THEN [serve EXCEPT ![r] = "off"] ELSE serve

\* Raylets that joined the cluster of run r.
Cluster(r) == {p \in Rank \X Runs : cont[p[1]][p[2]].up /\ cont[p[1]][p[2]].ray = r}

GpuBusy(h) == \E r \in Runs : serve[r] \in {"gpu", "up"} /\ cont[h][r].up

api_health == \E r \in Runs : serve[r] = "up"

chat_probe == \E r \in Runs : serve[r] = "up" /\ \A h \in Rank : cont[h][r].up

\* fleet_exact_identity: a failed inspect, whatever its cause, reads ABSENT.
Identity(k) == CASE k.label = "own" -> "EXACT"
                 [] k.label = "absent" -> "ABSENT"
                 [] OTHER -> "UNKNOWN"

fleet_exact_identity(h, r, seen) ==
    \/ seen = Identity(cont[h][r]) /\ UNCHANGED faults
    \/ /\ seen = "ABSENT" /\ cont[h][r].label # "absent"
       /\ faults < MaxFaults /\ faults' = faults + 1

\* A container exits by itself or is OOM-killed (docker may restart nothing).
ContainerFails(h, r) ==
    /\ cont[h][r].label = "own" /\ cont[h][r].up
    /\ fails < MaxFails /\ fails' = fails + 1
    /\ \/ DownEffect(h, r)
       \/ /\ cont[h][r].clean
          /\ cont' = [cont EXCEPT ![h][r].clean = FALSE]
          /\ UNCHANGED <<rayHead, serve>>
    /\ UNCHANGED <<lockVars, job, ctl, loc, host, faults>>

\* The engine started by `vllm serve' claims the GPUs once its Ray cluster has
\* a rank per host, then its API server binds the port.
EngineProgress(r) ==
    /\ \/ /\ serve[r] = "starting" /\ rayHead = r
          /\ Cardinality(Cluster(r)) >= N
          /\ serve' = [serve EXCEPT ![r] = "gpu"]
       \/ /\ serve[r] = "gpu" /\ ~api_health
          /\ serve' = [serve EXCEPT ![r] = "up"]
    /\ UNCHANGED <<lockVars, job, ctl, loc, cont, rayHead, host, budget>>

-----------------------------------------------------------------------------
(* The lock around a script.  *)

\* Mutant: stop skips the last worker (`for index in 2 1 0').
FirstBlockShort(c) == CASE job[c].kind = "launch" -> <<"preflight", 0>>
                        [] job[c].kind = "stop" -> <<"stop", N - 2>>
                        [] OTHER -> <<"stage", 0>>

FirstBlock(c) == CASE job[c].kind = "launch" -> <<"preflight", 0>>
                   [] job[c].kind = "stop" -> <<"stop", N - 1>>
                   [] OTHER -> <<"stage", 0>>

Acquire(c) ==
    /\ pc[c] = "start"
    /\ \/ Grant(c) /\ Goto(c, FirstBlock(c)[1], FirstBlock(c)[2]) /\ UNCHANGED loc
       \/ Deny(c) /\ Fail(c)
    /\ UNCHANGED <<job, fleet, host, budget>>

Release(c) ==
    /\ pc[c] = "release"
    /\ Close(c) \/ (session[c] = "closed" /\ UNCHANGED lockVars)
    /\ Goto(c, "done", 0)
    /\ UNCHANGED <<job, loc, fleet, host, budget>>

\* SIGKILL: no trap runs and the kernel closes the lock's control pipe.
Kill(c) ==
    /\ pc[c] \notin {"start", "done", "dead"}
    /\ Cardinality({d \in Coord : pc[d] = "dead"}) < MaxKills
    /\ Close(c) \/ (session[c] = "closed" /\ UNCHANGED lockVars)
    /\ Goto(c, "dead", 0)
    /\ UNCHANGED <<job, loc, fleet, host, budget>>

-----------------------------------------------------------------------------
(* launch_profile: preflight, nonce, compaction, sizing.  *)

Lower(c, m) == IF loc[c].lo = 0 \/ m < loc[c].lo THEN m ELSE loc[c].lo
Upper(c, m) == IF m > loc[c].hi THEN m ELSE loc[c].hi

\* One iteration of verify_hosts, and after the last the spread check.  Fast
\* verifies with the pre-compaction policy, which does not judge memory.
verify_hosts(c) == \E m \in MemValues[ix[c]] :
    LET h == ix[c]
        strict == ~Fast(c)
        lo == Lower(c, m)
        hi == Upper(c, m)
        fits == /\ m > 0
                /\ strict => m >= MinMem
                /\ ~GpuBusy(h)
                /\ ~(h = 0 /\ api_health)
                /\ h \in image
                /\ strict /\ h = N - 1 => hi - lo <= Spread
        after == IF Fast(c) THEN <<"existing", 0>> ELSE AfterSizing(c)
    IN  /\ At(c, "preflight")
        /\ \/ /\ fits
              /\ NextRank(c, after[1], after[2])
              /\ loc' = IF strict /\ h < N - 1
                        THEN [loc EXCEPT ![c].lo = lo, ![c].hi = hi]
                        ELSE [loc EXCEPT ![c].lo = 0, ![c].hi = 0]
           \/ Fail(c)
        /\ UNCHANGED <<lockVars, job, fleet, host, budget>>

\* The names of a Fast run must be free before its nonce is spent.
ExistingBeforeNonce(c) ==
    /\ At(c, "existing")
    /\ \/ /\ Mine(c, ix[c]).label = "absent"
          /\ NextRank(c, "consume", 0)
          /\ UNCHANGED loc
       \/ Fail(c)
    /\ UNCHANGED <<lockVars, job, fleet, host, budget>>

\* Mutant: mkdir -p, which accepts a receipt that exists.
ConsumeIdempotent(c) ==
    /\ At(c, "consume")
    /\ receipts' = receipts \cup {job[c].nonce}
    /\ Goto(c, "compact", 0)
    /\ UNCHANGED <<lockVars, job, loc, fleet, image, compacted, budget>>

\* mkdir of the receipt directory on rank 0 is the atomic test-and-set; the
\* answer can be lost after it, and then the nonce is spent for nothing.
fleet_consume_compaction_nonce_hash(c) ==
    /\ At(c, "consume")
    /\ \/ /\ job[c].nonce \notin receipts
          /\ receipts' = receipts \cup {job[c].nonce}
          /\ \/ Goto(c, "compact", 0) /\ UNCHANGED loc
             \/ Fail(c)
       \/ Fail(c) /\ UNCHANGED receipts
    /\ UNCHANGED <<lockVars, job, fleet, image, compacted, budget>>

\* sync and drop_caches on one host; what it frees others may take again.
Compact(c) ==
    /\ At(c, "compact")
    /\ \/ /\ compacted' = compacted \cup {c}
          /\ \/ NextRank(c, "sample", 0) /\ UNCHANGED loc
             \/ Fail(c)
       \/ Fail(c) /\ UNCHANGED compacted
    /\ UNCHANGED <<lockVars, job, fleet, image, receipts, budget>>

\* Mutant: the floor is computed from the strongest host.
SizeFromStrongest(c) == \E m \in MemValues[ix[c]] :
    LET hi == Upper(c, m)
    IN  /\ At(c, "sample")
        /\ m >= MinMem
        /\ ix[c] = N - 1 => hi - Lower(c, m) <= Spread
        /\ NextRank(c, AfterSizing(c)[1], AfterSizing(c)[2])
        /\ loc' = [loc EXCEPT ![c].lo = Lower(c, m), ![c].hi = hi, ![c].sampled[ix[c]] = m,
                               ![c].want = [h \in Rank |-> hi - Reserve]]
        /\ UNCHANGED <<lockVars, job, fleet, host, budget>>

\* One iteration of the sampling loop, and after the last the uniform floor of
\* the weakest host, which must be positive.
SampleAndSize(c) == \E m \in MemValues[ix[c]] :
    LET lo == Lower(c, m)
        hi == Upper(c, m)
        last == ix[c] = N - 1
    IN  /\ At(c, "sample")
        /\ \/ /\ m >= MinMem
              /\ last => hi - lo <= Spread /\ lo > Reserve
              /\ NextRank(c, AfterSizing(c)[1], AfterSizing(c)[2])
              /\ loc' = [loc EXCEPT
                            ![c].lo = IF last THEN 0 ELSE lo,
                            ![c].hi = IF last THEN 0 ELSE hi,
                            ![c].sampled[ix[c]] = m,
                            ![c].want = IF last THEN [h \in Rank |-> lo - Reserve] ELSE @]
           \/ Fail(c)
        /\ UNCHANGED <<lockVars, job, fleet, host, budget>>

-----------------------------------------------------------------------------
(* fleet_stop_exact_ordered, in its three callers.  *)

\* One iteration for run r: the identity is inspected, an EXACT container is
\* stopped; a docker stop that fails may have stopped it.  `ok' is the exit
\* status of the iteration; an UNKNOWN identity returns at once.
StopIteration(c, r, seen, ok) ==
    LET h == ix[c] IN
    /\ fleet_exact_identity(h, r, seen)
    /\ CASE seen = "EXACT" -> DownEffect(h, r) \/ (~ok /\ UNCHANGED fleet)
         [] seen = "ABSENT" -> ok /\ UNCHANGED fleet
         [] OTHER -> ~ok /\ UNCHANGED fleet

\* Mutant: stop_cluster.sh goes on after a docker stop that failed.
StopClusterGoesOn(c) ==
    /\ At(c, "stop")
    /\ \E seen \in {"EXACT", "ABSENT", "UNKNOWN"}, ok \in BOOLEAN :
        /\ StopIteration(c, job[c].run, seen, ok)
        /\ IF ix[c] > 0 THEN PrevRank(c, "stop") /\ UNCHANGED loc ELSE Exit(c, "PASS")
    /\ UNCHANGED <<lockVars, job, host, fails>>

\* stop_cluster.sh runs under errexit: the first failing iteration ends it.
StopCluster(c) ==
    /\ At(c, "stop")
    /\ \E seen \in {"EXACT", "ABSENT", "UNKNOWN"}, ok \in BOOLEAN :
        /\ StopIteration(c, job[c].run, seen, ok)
        /\ CASE ~ok -> Fail(c)
             [] ok /\ ix[c] > 0 -> PrevRank(c, "stop") /\ UNCHANGED loc
             [] OTHER -> Exit(c, "PASS")
    /\ UNCHANGED <<lockVars, job, host, fails>>

\* launch calls it as `f || return', which suspends errexit inside f: a failed
\* docker stop of a worker is ignored, only the status of rank 0 counts.
ReplaceRun(c) ==
    /\ At(c, "replace")
    /\ \E seen \in {"EXACT", "ABSENT", "UNKNOWN"}, ok \in BOOLEAN :
        /\ StopIteration(c, job[c].replace, seen, ok)
        /\ \/ /\ seen = "UNKNOWN" \/ (~ok /\ ix[c] = 0)
              /\ Fail(c)
           \/ /\ ~(seen = "UNKNOWN" \/ (~ok /\ ix[c] = 0))
              /\ PrevRank(c, "check")
              /\ UNCHANGED loc
    /\ UNCHANGED <<lockVars, job, host, fails>>

\* on_exit calls it as `f || true'.
StopFailedAttempt(c) ==
    /\ pc[c] = "failstop"
    /\ \/ /\ AssertHeld(c)
          /\ \E seen \in {"EXACT", "ABSENT", "UNKNOWN"}, ok \in BOOLEAN :
              /\ StopIteration(c, job[c].run, seen, ok)
              /\ IF seen = "UNKNOWN" THEN Goto(c, "release", 0) ELSE PrevRank(c, "release")
       \/ /\ ~AssertHeld(c)
          /\ Goto(c, "release", 0)
          /\ UNCHANGED <<fleet, faults>>
    /\ UNCHANGED <<lockVars, job, loc, host, fails>>

-----------------------------------------------------------------------------
(* launch_profile: containers, Ray, the engine.  *)

\* The existence check and the allocator of one rank.  Large sizes each host
\* by a read of its own, Balanced sets no floor.
CheckRank(c) == \E m \in MemValues[ix[c]] :
    LET h == ix[c]
        perHost == job[c].profile = "large"
    IN  /\ At(c, "check")
        /\ \/ /\ Mine(c, h).label = "absent"
              /\ perHost => m > Reserve
              /\ loc' = IF perHost
                        THEN [loc EXCEPT ![c].want[h] = m - Reserve, ![c].sampled[h] = m]
                        ELSE loc
              /\ Goto(c, "create", h)
           \/ Fail(c)
        /\ UNCHANGED <<lockVars, job, fleet, host, budget>>

NewContainer(c, h) ==
    [Absent EXCEPT !.label = "own", !.up = TRUE, !.floor = loc[c].want[h], !.born = c]

\* Mutant: a refused docker run is ignored (`|| true').
CreateRankRegardless(c) ==
    LET h == ix[c] IN
    /\ pc[c] = "create"
    /\ cont' = IF Mine(c, h).label = "absent"
               THEN [cont EXCEPT ![h][job[c].run] = NewContainer(c, h)] ELSE cont
    /\ loc' = [loc EXCEPT ![c].started = TRUE]
    /\ IF h < N - 1 THEN Goto(c, "check", h + 1) ELSE Goto(c, "readback", 0)
    /\ UNCHANGED <<lockVars, job, rayHead, serve, host, budget>>

\* docker run refuses a name that is taken; it may create the container and
\* still fail.  STARTED is set only after it succeeded.
CreateRank(c) ==
    LET h == ix[c] IN
    /\ pc[c] = "create"
    /\ \/ /\ Mine(c, h).label = "absent"
          /\ cont' = [cont EXCEPT ![h][job[c].run] = NewContainer(c, h)]
          /\ \/ /\ loc' = [loc EXCEPT ![c].started = TRUE]
                /\ IF h < N - 1 THEN Goto(c, "check", h + 1) ELSE Goto(c, "readback", 0)
             \/ Fail(c)
       \/ Fail(c) /\ UNCHANGED cont
    /\ UNCHANGED <<lockVars, job, rayHead, serve, host, budget>>

\* Every container environment is read back before Ray starts.
allocator_readback_gate(c) ==
    /\ At(c, "readback")
    /\ \/ /\ \A h \in Rank : Mine(c, h).label # "absent" /\ Mine(c, h).floor = loc[c].want[h]
          /\ Goto(c, "rayhead", 0)
          /\ UNCHANGED loc
       \/ Fail(c)
    /\ UNCHANGED <<lockVars, job, fleet, host, budget>>

\* docker exec -d needs a running container; whether `ray start --head' binds
\* port 6379 is not reported.
StartRayHead(c) ==
    LET r == job[c].run IN
    /\ At(c, "rayhead")
    /\ \/ /\ Mine(c, 0).up
          /\ rayHead' = IF rayHead = None THEN r ELSE rayHead
          /\ cont' = IF rayHead = None THEN [cont EXCEPT ![0][r].ray = r] ELSE cont
          /\ IF N > 1 THEN Goto(c, "rayworker", 1) ELSE Goto(c, "serve", 0)
          /\ UNCHANGED loc
       \/ Fail(c) /\ UNCHANGED <<rayHead, cont>>
    /\ UNCHANGED <<lockVars, job, serve, host, budget>>

\* A worker joins whatever cluster answers on port 6379 of host 0.
StartRayWorker(c) ==
    LET h == ix[c] IN
    /\ At(c, "rayworker")
    /\ \/ /\ Mine(c, h).up
          /\ cont' = [cont EXCEPT ![h][job[c].run].ray = rayHead]
          /\ NextRank(c, "serve", 0)
          /\ UNCHANGED loc
       \/ Fail(c) /\ UNCHANGED cont
    /\ UNCHANGED <<lockVars, job, rayHead, serve, host, budget>>

Serve(c) ==
    /\ At(c, "serve")
    /\ \/ /\ Mine(c, 0).up
          /\ serve' = [serve EXCEPT ![job[c].run] = "starting"]
          /\ Goto(c, "health", 0)
          /\ UNCHANGED loc
       \/ Fail(c) /\ UNCHANGED serve
    /\ UNCHANGED <<lockVars, job, cont, rayHead, host, budget>>

-----------------------------------------------------------------------------
(* launch_profile: readiness.  Each gate passes or fails the launch.  *)

Gate(c, label, holds, next) ==
    /\ At(c, label)
    /\ \/ holds /\ Goto(c, next, 0) /\ UNCHANGED loc
       \/ Fail(c)
    /\ UNCHANGED <<lockVars, job, fleet, host, budget>>

\* Mutant: the launch waits for /health without a bound.
AwaitHealthForever(c) ==
    /\ pc[c] = "health" /\ api_health
    /\ Goto(c, "models", 0)
    /\ UNCHANGED <<lockVars, job, loc, fleet, host, budget>>

\* The polling loop of /health, bounded by CHAMPION_READY_ATTEMPTS: the port
\* answers, whoever owns it, or the launch times out.
AwaitHealth(c) == Gate(c, "health", api_health, "models")

ModelsGate(c) == Gate(c, "models", api_health, "rankgate")

\* Mutant: the raylet sockets are not tested.
RankGateWithoutSocket(c) ==
    /\ At(c, "rankgate")
    /\ \A h \in Rank : Identity(Mine(c, h)) = "EXACT" /\ Healthy(Mine(c, h))
    /\ serve[job[c].run] # "off"
    /\ Goto(c, "loggate", 0)
    /\ UNCHANGED <<lockVars, job, loc, fleet, host, budget>>

\* Exact identity, running and clean, a raylet socket, an API process.  The
\* line that looks for four GPUs in `ray status' has no `|| return': under the
\* caller's `rank_gate || return' its failure is forgotten, and decides nothing.
rank_gate(c) ==
    /\ At(c, "rankgate")
    /\ \/ /\ \A h \in Rank :
                /\ Identity(Mine(c, h)) = "EXACT"
                /\ Healthy(Mine(c, h))
                /\ Mine(c, h).ray # None
          /\ serve[job[c].run] # "off"
          /\ Goto(c, "loggate", 0)
          /\ UNCHANGED loc
       \/ Fail(c)
    /\ UNCHANGED <<lockVars, job, fleet, host, budget>>

transport_and_log_gate(c) == Gate(c, "loggate", Mine(c, 0).up, "chat")

\* The last probe before readiness sets READINESS_PASSED: the chat itself, or
\* for Fast the sparse-indexer probe that follows it.
ReadinessProbe(c, label) ==
    /\ At(c, label)
    /\ \/ /\ chat_probe
          /\ Goto(c, "idle", 0)
          /\ loc' = [loc EXCEPT ![c].ready = TRUE]
       \/ Fail(c)
    /\ UNCHANGED <<lockVars, job, fleet, host, budget>>

ImmediateChat(c) ==
    IF Fast(c) THEN Gate(c, "chat", chat_probe, "sparse") ELSE ReadinessProbe(c, "chat")

cache_busted_sparse_indexer_probe(c) == ReadinessProbe(c, "sparse")

IdleWindow(c) == Gate(c, "idle", TRUE, "postidle")

PostIdleProbe(c) == Gate(c, "postidle", api_health /\ chat_probe, "postlogs")

\* The log of rank 0 is read again and its new lines searched.
PostIdleLogs(c) ==
    Gate(c, "postlogs", Mine(c, 0).up, IF Fast(c) THEN "pin" ELSE "final")

\* The last assert-held, then launch-result=PASS.
FinalAssert(c) ==
    /\ At(c, "final")
    /\ Exit(c, "PASS")
    /\ UNCHANGED <<lockVars, job, fleet, host, budget>>

-----------------------------------------------------------------------------
(* The CPU pin of Fast: apply_fast_pin and rollback_fast_pin.  *)

\* assert-held, the exact identity and docker update of one rank.  On failure,
\* which may come after the update took effect, control goes to `otherwise'.
UpdatePin(c, pin, next, otherwise) ==
    LET h == ix[c] IN
    \/ /\ AssertHeld(c)
       /\ Identity(Mine(c, h)) = "EXACT"
       /\ cont' = [cont EXCEPT ![h][job[c].run].pin = pin]
       /\ (NextRank(c, next, 0) /\ UNCHANGED loc) \/ otherwise
    \/ otherwise /\ UNCHANGED cont

RollBack(c) == Goto(c, "rollback", 0) /\ UNCHANGED loc

PinRank(c) ==
    /\ pc[c] = "pin"
    /\ UpdatePin(c, "big", "pinverify", RollBack(c))
    /\ UNCHANGED <<lockVars, job, rayHead, serve, host, budget>>

VerifyPin(c) ==
    /\ pc[c] = "pinverify"
    /\ \/ /\ AssertHeld(c)
          /\ Mine(c, ix[c]).pin = "big"
          /\ NextRank(c, "pinprobe", 0)
          /\ UNCHANGED loc
       \/ RollBack(c)
    /\ UNCHANGED <<lockVars, job, fleet, host, budget>>

PinProbe(c) ==
    /\ pc[c] = "pinprobe"
    /\ \/ /\ api_health /\ chat_probe
          /\ Goto(c, "final", 0)
          /\ UNCHANGED loc
       \/ RollBack(c)
    /\ UNCHANGED <<lockVars, job, fleet, host, budget>>

\* Mutant: a docker update of the rollback that failed is ignored.
RollBackRegardless(c) ==
    /\ pc[c] = "rollback" /\ AssertHeld(c)
    /\ \/ cont' = [cont EXCEPT ![ix[c]][job[c].run].pin = "all"]
       \/ UNCHANGED cont
    /\ NextRank(c, "rollbackprobe", 0)
    /\ UNCHANGED <<lockVars, job, loc, rayHead, serve, host, budget>>

RollBackRank(c) ==
    /\ pc[c] = "rollback"
    /\ UpdatePin(c, "all", "rollbackprobe", Exit(c, "PRESERVED"))
    /\ UNCHANGED <<lockVars, job, rayHead, serve, host, budget>>

RollBackProbe(c) ==
    /\ pc[c] = "rollbackprobe"
    /\ \/ api_health /\ chat_probe /\ Exit(c, "RESTORED")
       \/ Exit(c, "PRESERVED")
    /\ UNCHANGED <<lockVars, job, fleet, host, budget>>

-----------------------------------------------------------------------------
(* The EXIT trap.  stop_cluster.sh and stage_image.sh only release.  *)

\* Mutant: the handler does not ask whether the launch STARTED.
on_exit_unstarted(c) ==
    /\ pc[c] = "onexit"
    /\ IF loc[c].result # "PASS" /\ ~loc[c].ready
       THEN Goto(c, "observe", 0)
       ELSE Goto(c, "release", 0)
    /\ UNCHANGED <<lockVars, job, loc, fleet, host, budget>>

on_exit(c) ==
    /\ pc[c] = "onexit"
    /\ IF loc[c].result # "PASS" /\ loc[c].started /\ ~loc[c].ready
       THEN Goto(c, "observe", 0)
       ELSE Goto(c, "release", 0)
    /\ UNCHANGED <<lockVars, job, loc, fleet, host, budget>>

\* Mutant: one failed rank at the end of a round condemns the fleet.
ObserveAnyRank(c) ==
    /\ pc[c] = "observe"
    /\ Identity(Mine(c, ix[c])) = "EXACT"
    /\ IF ix[c] = N - 1 /\ ~Healthy(Mine(c, ix[c]))
       THEN Goto(c, "failstop", N - 1)
       ELSE NextRank(c, "release", 0)
    /\ UNCHANGED <<lockVars, job, loc, fleet, host, budget>>

\* One rank of one of three rounds: an EXACT container that is not running
\* clean goes on to the next, anything else preserves the fleet.  A second
\* inspect that fails reads as an empty status, which is not a healthy one.
fleet_observe_failed_three_times(c) ==
    LET k == Mine(c, ix[c])
        lastRank == ix[c] = N - 1
        lastRound == loc[c].round = 2
        goOn == /\ loc' = IF lastRank THEN [loc EXCEPT ![c].round = @ + 1] ELSE loc
                /\ IF lastRank /\ lastRound THEN Goto(c, "failstop", N - 1)
                   ELSE NextRank(c, "observe", 0)
    IN  /\ pc[c] = "observe"
        /\ \/ /\ Identity(k) = "EXACT" /\ ~Healthy(k)
              /\ goOn /\ UNCHANGED faults
           \/ /\ Identity(k) = "EXACT" /\ Healthy(k)
              /\ faults < MaxFaults /\ faults' = faults + 1
              /\ goOn
           \/ Goto(c, "release", 0) /\ UNCHANGED <<loc, faults>>
        /\ UNCHANGED <<lockVars, job, fleet, host, fails>>

-----------------------------------------------------------------------------
(* stage_image.sh: docker load on every host, image storage only.  *)

StageImage(c) ==
    /\ At(c, "stage")
    /\ \/ /\ image' = image \cup {ix[c]}
          /\ (NextRank(c, "staged", 0) /\ UNCHANGED loc) \/ Fail(c)
       \/ Fail(c) /\ UNCHANGED image
    /\ UNCHANGED <<lockVars, job, fleet, receipts, compacted, budget>>

StageDone(c) ==
    /\ At(c, "staged")
    /\ Exit(c, "PASS")
    /\ UNCHANGED <<lockVars, job, fleet, host, budget>>

-----------------------------------------------------------------------------
ScriptStep(c) ==
    \/ Acquire(c) \/ LockLost(c)
    \/ verify_hosts(c) \/ ExistingBeforeNonce(c)
    \/ fleet_consume_compaction_nonce_hash(c) \/ Compact(c) \/ SampleAndSize(c)
    \/ ReplaceRun(c) \/ StopCluster(c) \/ StopFailedAttempt(c)
    \/ CheckRank(c) \/ CreateRank(c) \/ allocator_readback_gate(c)
    \/ StartRayHead(c) \/ StartRayWorker(c) \/ Serve(c)
    \/ AwaitHealth(c) \/ ModelsGate(c) \/ rank_gate(c) \/ transport_and_log_gate(c)
    \/ ImmediateChat(c) \/ cache_busted_sparse_indexer_probe(c)
    \/ IdleWindow(c) \/ PostIdleProbe(c) \/ PostIdleLogs(c) \/ FinalAssert(c)
    \/ PinRank(c) \/ VerifyPin(c) \/ PinProbe(c) \/ RollBackRank(c) \/ RollBackProbe(c)
    \/ on_exit(c) \/ fleet_observe_failed_three_times(c)
    \/ StageImage(c) \/ StageDone(c) \/ Release(c)

\* The lock service moves by itself.
LockMoves(c) ==
    /\ LockEnvironment(c)
    /\ UNCHANGED <<job, ctl, loc, fleet, host, budget>>

Next ==
    \/ \E c \in Coord : ScriptStep(c) \/ LockMoves(c) \/ Kill(c)
    \/ \E h \in Rank, r \in Runs : ContainerFails(h, r)
    \/ \E r \in Runs : EngineProgress(r)

Spec == Init /\ [][Next]_vars

\* Every script that is not killed keeps running, and its remote commands end.  The
\* latter is an assumption: the probes have time limits (launch_cluster.sh:206-232),
\* ssh and the curl of /v1/models (line 464) have none.
FairSpec == Spec /\ \A c \in Coord : WF_vars(ScriptStep(c))

-----------------------------------------------------------------------------
(* Properties.  *)

\* A nonce authorizes one compaction of the fleet: coordinators that issued
\* drop_caches have different nonces, even when a lock was lost between the
\* assert and the receipt (fleet_consume_compaction_nonce_hash).
NonceOneUse ==
    \A c, d \in compacted : c # d => job[c].nonce # job[d].nonce

\* The containers of a run come from one coordinator: two launches of the same
\* run identity never share a fleet, whatever became of the lock.
OneCreatorPerRun ==
    \A r \in Runs, g, h \in Rank :
        cont[g][r].label = "own" /\ cont[h][r].label = "own"
            => cont[g][r].born = cont[h][r].born

\* A floor of host h is what launch c read there less the reserve or, for Fast, at
\* most the allowed spread below that.
Fits(c, h, floor) ==
    /\ floor + Reserve <= loc[c].sampled[h]
    /\ loc[c].sampled[h] <= floor + Reserve + (IF Fast(c) THEN Spread ELSE 0)

\* Floors fit and are uniform.  The floor in a container is what its own launch read
\* on that host less the reserve or, for Fast, at most the allowed spread below it:
\* no floor is sized from another host's or another launch's read, however the
\* hosts' memory moves in between (and it may fall afterwards: the floor reserves
\* nothing).  And no raylet of a Fast run lives before every rank has a container
\* with the same positive floor (docs/operations.md, "The same positive floor is
\* attached to all four containers").
FloorsUniformAndFit ==
    \A r \in Runs, g, h \in Rank :
        LET k == cont[g][r]
            l == cont[h][r]
        IN /\ k.floor > 0 => Fits(k.born, g, k.floor)
           /\ k.ray # None /\ Fast(k.born) =>
                 l.label = "own" /\ l.floor = k.floor /\ l.floor > 0

\* The exit handler stops only containers that its own launch created, and only
\* before readiness: a launch refused because its names exist stops nothing.
FailStopOwnAttemptOnly ==
    \A c \in Coord : pc[c] = "failstop" =>
        /\ ~loc[c].ready
        /\ \A h \in Rank : Mine(c, h).label = "own" => Mine(c, h).born = c

\* on_exit: "three consecutive known rank failures; stopping exact failed
\* attempt only".  No rank is healthy when the handler begins to stop.
FailStopOnlyFailedRanks ==
    \A c \in Coord : pc[c] = "failstop" => \A h \in Rank : ~Healthy(Mine(c, h))

Finishes(c, result) == loc[c].result = "none" /\ loc'[c].result = result

\* stop-result=PASS is printed only when no container of the run is running.
StopPassMeansStopped ==
    [][\A c \in Coord : job[c].kind = "stop" /\ Finishes(c, "PASS")
            => \A h \in Rank : cont'[h][job[c].run].label = "own"
                    => ~cont'[h][job[c].run].up]_vars

\* bin/champion: "stop exact owned ranks 3->1->0".  The stop command reaches
\* rank 0 only when no worker of the run is running.
CoordinatorStoppedLast ==
    \A c \in Coord : pc[c] = "stop" =>
        \A h \in Rank : h > ix[c] /\ Mine(c, h).label = "own" => ~Mine(c, h).up

\* Readiness is the run's own: when READINESS_PASSED is set the API that
\* answered is served by the containers this launch created, not by an older
\* fleet that was preserved and came up late on the same port.
ReadinessIsOwn ==
    [][\A c \in Coord : ~loc[c].ready /\ loc'[c].ready =>
        /\ serve[job[c].run] = "up"
        /\ \A h \in Rank : Mine(c, h).born = c /\ Mine(c, h).ray = job[c].run]_vars

\* The pin report is true of every rank: PASS of Fast means all pinned, "healthy
\* fleet restored" means all unpinned; a mixed fleet is reported as preserved.
PinReportTrue ==
    [][\A c \in Coord, h \in Rank :
        /\ Fast(c) /\ job[c].kind = "launch" /\ Finishes(c, "PASS")
                => cont'[h][job[c].run].pin = "big"
        /\ Finishes(c, "RESTORED") => cont'[h][job[c].run].pin = "all"]_vars

\* Every script ends, by its last line, by its trap or by a kill.
EveryScriptEnds == \A c \in Coord : <>(pc[c] \in {"done", "dead"})
=============================================================================
