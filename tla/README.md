# A verification project for the champion fleet runtime

TLA+ models of the controller that launches, replaces and stops a GLM-5.2
serving fleet on four DGX Spark hosts, of the gate that decides what may be
published about it, and of the parts of the engine that this repository patches
(scheduling, speculative depth, memory ceiling), with TLC runs on small
instances and TLAPS proofs for every size. Everything below refers to the
repository at the commit in `src/`.

## 1. Inventory

The repository holds three kinds of code: the shell controller that mutates a
fleet, the Python evaluators that decide what may be published about it, and
the patched engine (vLLM and b12x overlays) that runs inside its containers.

| Component | State it keeps | Operations | What is hard |
|---|---|---|---|
| Fleet lock (`scripts/lib/fleet.sh`) | a background `ssh` child, a control fifo, a READY file; an `flock` on rank 0 held by the remote shell | acquire, assert-held, release | the lock lives on another host: loss on either side, late READY, SIGKILL, two coordinators |
| Fleet controller (`launch_cluster.sh`, `stop_cluster.sh`, `stage_image.sh`) | shell variables (STARTED, READINESS_PASSED, floors), containers on four hosts, receipt directories, the Ray cluster, the API port | launch (preflight, nonce, compaction, sizing, replacement, creation, Ray, readiness, pin, rollback), exit handler, stop, stage | partial failure of every remote command, check-then-act, errexit that is suspended in `f \|\| return` |
| Command line and rendering (`bin/champion`, `render_launch.py`, presets) | none | argument checks, dispatch, rendering | none beyond parsing |
| Publication gate (`gate_status.py`, `verify_attestation.py`, `champion_runtime/`) | `publication/status.json` | promote a claim from a pool of attested receipts | re-derivation of earlier claims from later pools, read-modify-write of one file |
| Battery evaluator and probes (`evaluate_battery.py`, `benchmarks/probe.py`, `stress_champion.py`) | captured attempts | evaluate medians and thresholds | counting rules |
| Scheduler (`v1/core/sched/scheduler.py`) | queues of running, waiting and skipped requests, per-request token counters, KV blocks, steps in flight, deferred frees | add, abort, pause, reset, schedule, update from output; connector loads and sends | two steps in flight: every decision rests on results that are not there yet; preemption, stale outputs, roll-back; turns of long prefills |
| Adaptive speculative depth (`v1/spec_decode/dynamic/*`, hooks in `scheduler.py`) | an observation window and the current depth | observe a step, change depth | observations of drafts made at an older depth, boundaries of the ladder |
| CUDA graph dispatch (`v1/worker/gpu/cudagraph_utils.py`) | the captured descriptors | capture at start, refuse a start, look a batch up | shapes fixed once, depth moving at run time |
| Unified-memory ceiling (`utils/mem_utils.py`, `v1/worker/gpu_worker.py`) | PyTorch's limit | a ceiling before load, profile, KV and capture | samples that age, min/max order, rounding, the launcher's floor |
| Build, provenance, licensing, release tooling | files | one-shot verification | none concurrent |
| Vendored kernels | device memory | attention, top-k, MoE | out of a model checker's reach |

How they interact. `bin/champion` renders a preset and execs the launcher or
the stop script. Each script sources `fleet.sh`, takes the canonical lock
through one long-lived `ssh` session to rank 0 and asserts it before every
block of remote commands. Containers are the shared state between coordinators:
names carry the run identity, labels carry ownership. Inside the containers Ray
forms a cluster over port 6379 of host 0 and the engine's API server binds one
port, which the launcher polls. Receipts written by the evaluators feed the
publication gate. The allocator floor that the launcher computes is an
environment variable of the engine, read by each worker's memory ceiling. Inside
the engine the scheduler asks the depth controller how many drafts to schedule
and feeds it what was accepted; the shapes that result are looked up among the
captured graphs; a KV connector fills and reads blocks behind the scheduler's
back.

What makes each component correct:

- *Lock*: two coordinators never mutate the fleet together while their
  connections hold; every coordinator leaves, and no flock outlives it for good.
- *Controller*: a nonce compacts once; the containers of a run have one creator;
  the exit handler stops only its own, failed attempt; workers go down before
  rank 0; a PASS is about the run it names; floors are uniform and come from the
  launch's own reads of the host; every script ends.
- *Gate*: every written claim re-derives from attested receipts; passed claims
  are about one subject; the orders in which claims can be promoted.
- *Scheduler*: answers are complete and in order whatever was preempted in
  flight; counters agree with the pipeline; budgets hold; an unfinished request
  is in a queue and is served; a block returns to the pool only when nothing
  touches it.
- *Adaptive depth and graphs*: little of an older depth leaks into a window; the
  depth settles where the text wants it; a uniform step whose drafts were not cut
  has its graph.
- *Unified memory*: growth never enters the protected reserve but for what others
  took meanwhile and, in Large, for the 2 GiB by which the launcher's deduction
  (6 GiB) stays below the reserve (8 GiB); a start that fits is not refused.

## 2. Modules and plan

Written, in this order:

1. `LockService`: the abstract lock - who holds the flock, and what a
   coordinator believes. Deliberately as weak as the code.
2. `FleetLock`: the shell protocol of `fleet.sh`, step by step of the processes
   involved. `FleetLockProofs`: its theorems, the refinement included.
3. `FleetController`: the launch, stop and stage scripts, extending
   `LockService`. `FleetControllerProofs`: its theorems.
4. `PublicationGate`: the derivations and promotions of `gate_status.py`.
   `PublicationGateProofs`: its theorems.
5. `EngineScheduler`: the scheduling policy, loop by loop.
   `EngineSchedulerProofs`: its theorems.
6. `KVBlockFences`: block lifetimes under steps in flight and a connector, the
   policy left open, so that it can be proved about. `KVBlockFencesProofs`.
7. `CudaGraphDispatch` (operators) and `SpecDepth`, which extends it with the
   controller and the scheduler's pipeline. `SpecDepthProofs`, and `SumFacts`,
   the lemmas about sums over finite sets and sequences that it and
   `EngineSchedulerProofs` need.
8. `UnifiedMemory`: the ceiling over the phases of a start, composed with the
   launcher's floor. `UnifiedMemoryProofs`.

Each `MC...` module holds the instances that the `.cfg` files name.

What could come next: a theorem of `EngineScheduler` for the deployed combination
of padding and budget, with the weaker counters that hold there (section 5), and
for sessions; the counting rules of the battery evaluator.

## 3. How the modules correspond to the code

### FleetLock

A coordinator's `lpc` is where it is in `fleet_lock_acquire` / `_release`; `pid`
is the local ssh child as `kill -0` sees it; `writer` is the fifo's write end
(descriptor 8); `ready` is the READY line having arrived; `tries` is the count
of the polling loop; `remote` is the shell on rank 0 (`none`, `starting`,
`holding`, `gone`); `down` is a lost connection; `inflight` is a fleet command
under way. The coordinator's steps, the remote shell's (flock, refuse, exit on
end of file) and the client's (deliver READY, exit) interleave freely, with
losses and SIGKILL. The 100 polls of the code are the constant `ReadyAttempts`,
the waits of the release `ReleaseAttempts`.

### FleetController

One action is one guarded block of a script: the lock assertion, the remote
queries of one host and the mutation they authorise. `pc`/`ix` are the block and
the rank of its loop, `loc` the shell variables that survive it. A check and the
`docker run` behind it are two actions. Where the code fails closed, a failed
query is a refusal; where it takes a failure for an answer (`|| true`, ABSENT)
the failure costs one of `MaxFaults`. A command may take effect and still report
failure. errexit is modelled where it matters: in a function called as `f ||
return` a failing command goes on to the next. `on_exit` is the trap. Data:
static fitness of a host is whether the preflight refuses. MemAvailable is not
kept as state: it moves with everything else on a host, so each read returns any
value that the host can show (`MemValues`), and `sampled` records, as history,
the read that a floor was sized from. The 116 GiB minimum, the 512 MiB spread
and the 6 GiB reserve are constants in one scale. A container is its label,
state, pin, floor, creator and Ray membership.

### PublicationGate

`status` is `publication/status.json`; `inflight[p]` is the new status that a
promoter has computed and not yet put in place with `os.replace`; `forged` is
history. A receipt identifier is the hash of its body, so identifiers are
receipts, and a list without duplicates is a set. A derivation returns a subject
and its evidence or is `Refused` (GateError). The ten claims have one operator
each, the order of the checks inside one being immaterial, since every failure
has the same effect. `Attested` stands for what `verify_attestation` accepts:
signature, issuer and hash checks are not opened. `Edit` is a person writing
over the file.

### EngineScheduler

`req` is `self.requests` by arrival, with the counters of `Request` under short
names (`computed`, `placeholders`, `inflight`, `stale`, `chunk`, `spec`);
`waiting`, `skipped` and `running` are the queues, `held` is
`num_waiting_for_streaming_input`, `last` the round-robin record of long
prefills (only its order matters, so it is kept as ranks). `inflight` is the
batch queue. `schedule()` is unfolded into one action per iteration of its two
loops (`cur` holds the locals), and everything else waits until it returns, as
in the one-threaded engine core. `update_from_output` is one action over a whole
step. A token is the position it was sampled for, so the order and completeness
of an answer can be read off `out`. `old`, `behind`, `pos` and `stalePos` are
history. `KVCacheManager`, `Request`, `check_stop` and `AsyncScheduler` are not
in the repository and are modelled from their use: whole blocks, placeholders
for sampled and draft tokens.

### KVBlockFences

The same scheduler seen from its blocks, with `defer_block_free` set. `own` and
`shared` are a request's blocks, `uses` what steps in flight touch, `deferred`
the queue of `(fence, blocks)`, `loads`/`sends` what the connector touches. Which
requests a step takes, and which it preempts, is open. Assumed: the blocks a
load fills are not copied on write, a load that fails has loaded nothing, and a
connector keeps no blocks of an aborted load beyond its report.

### CudaGraphDispatch and SpecDepth

`CudaGraphDispatch` has the ladder, the descriptors of `_init_candidates` and
`_init_adaptive_spec_candidates`, the start-up assertions and the lookup, as
operators of a configuration. A list ordered by priority is a set here: FULL
descriptors come first, so FULL is chosen if any is compatible. In `SpecDepth`,
`win` and `depth` are the controller, `spec` the placeholders a running request
will have verified next, `room` what is left to it of `max_model_len`, `flight`
the steps in flight. A step of the running loop gives each request what it wants
- its drafts and one token, cut by the long-prefill threshold and by `room` -
until the token budget cuts one request short and leaves the rest without a
share (`Shares`, for any order of the running list); a cut step drops the drafts
it has no tokens for. `made` keeps what was drafted beside the `drafts` that are
left. Rejected drafts give their room back, and a request without room ends. A
request joins with its last chunk of prefill or as a padded decode; prefills of
several steps, a padding that leaves a room of -1 (`scheduler.py:1305`, section
4) and a padding cut by a threshold (the finding `sched_pad`) are not repeated
here. The thresholds (0.85, 0.35, 0.70, 0.15, + 1.5) are kept as integer
inequalities. `text` says how many drafts the target accepts.

### UnifiedMemory

`others` is all memory that is not PyTorch's; `alloc`, `reserved` and `cap` are
the caching allocator (external); `pc` is the phase. Every ceiling is a sample
(`Samples`: up to `slack` below the truth), the computation with each of its
checks, and the rounding of the fraction (`Applied`). `Floor` is the launcher's
computation, from `others` at its sample. Sizes are in one coarse unit in TLC
and arbitrary naturals in the proof. CUDA's total is taken to be at most the
host's.

## 4. Runs

| Run | Question | Distinct states | Result |
|---|---|---|---|
| `fleetlock` | do acquire/assert/release exclude, implement `LockService`, end, and free the flock, with two losses and a kill? | 59 k | pass |
| `fleet_rivals` | with a sound lock: who stops what, in which order; whose readiness; does every script end? | 508 k | pass |
| `fleet_lockloss` | with lost locks, a misread failure and memory that moves from read to read: what do nonces, names, labels, samples and read-backs still give? | 1 671 k | pass |
| `gate_campaign` | in which orders can claims be promoted, over mixed and defective evidence? | 5.6 k | pass |
| `gate_concurrent` | is what is written supported and coherent under overlapping promoters, crashes and hand edits? | 5.1 k | pass |
| `sched` | are answers complete, counters exact, budgets kept, requests kept and served? | 123 k | pass |
| `sched_pad` | is a padded decode never scheduled un-padded? | - | violation (finding) |
| `sched_session` | is a preempted session in a queue when it goes on? | - | violation (finding) |
| `fences` | is a block in the pool untouched; are loads alone; do deferred blocks return? | 19 k | pass |
| `spec_depth` | what leaks into a window; which steps have their graph; does the depth settle? | 128 k | pass |
| `spec_depth_cut` | has every uniform step the scheduler produces its graph, also with cut drafts? | - | violation (finding) |
| `memory` | is the reserve kept while the host changes; does a start that fits succeed? | 145 k | pass |

**Bounds.** *Lock*: two coordinators contend for one flock, a third adds only
another loser; two polls and one release poll make both the early and the late
arrival of READY happen; two losses and one kill let both sides fail. *Fleet*:
two ranks (a coordinator host and a worker) give a loop with a first, a last and
an interrupted pass. The second coordinator is one of: the same run under
another nonce, another run under the same nonce, a replacement, a stop, a
stage-image. In `fleet_lockloss` host 0 reads 7 or 10 each time and the others
8: within the spread and the weakest, or beyond the spread, which Fast refuses;
the replacement there is a Large launch, which sizes each host by itself. Two
container failures let a whole fleet fail, one lets it be mixed. *Gate*: two
promoters; two types stand for each tuple of receipt types; pools mix two
releases, three images, two models and runs, with a failing and an incomplete
build. The profile-wise claims use one profile in TLC; the proof has any number.
*Scheduler*: two sequences, two steps in flight, two or three requests and
blocks for little more than one of them, so that every admission can preempt;
budgets of two and three tokens, with prompts on both sides of the long
threshold; four configurations (the deployed flags without padding, stock vLLM
with it, two resets of one request within the pipeline, sessions). *Fences*: two
requests over two blocks contend for every block; three steps let a fence
outlive two others. *Depth*: two requests, two steps in flight, three changes of
text or batch; the window of 32 is cut to 6, the smallest in which a probe can
outvote two stale steps; a budget of 7 cuts or holds back one of two requests, a
threshold of 4 cuts steps of four drafts, a room of 4 ends a request within a
step or two. *Memory*: ten configurations of some 15 units, two changes of the
rest of the host, so that one can fall before and one after a sample. Deadlock
is not checked: scripts, promoters, requests and starts end.

**Fairness.** Weak fairness of each script and process step. That a command a
script waits for ends is an assumption: the health, chat and sparse-indexer
probes carry `--max-time` (`launch_cluster.sh:206-235`), but the `curl` of
`/v1/models` (line 464) and the remote commands carry none and end with their
connection, whose loss TCP keep-alive makes each end notice. Losses, kills,
failures, promotions and edits have no fairness. Health is not assumed to come:
the launch's deadline ends the wait. In `EngineScheduler`, `schedule` is weakly
and `update_from_output` strongly fair: the engine loop calls `schedule()` while
there are requests and blocks on the oldest step when its queue is full or a
call scheduled nothing, but between the iterations of one call no output is
processed, so weak fairness would say too little. `KVBlockFences` needs only
that steps end, `SpecDepth` that the loop goes on. Arrivals, aborts, pauses, the
connector and the text have no fairness.

**What the runs taught.** `ReadinessIsOwn` needs a sound lock: the health, model
and chat gates name no run. With two promoters a promotion can be lost (the file
is read, then replaced, without a lock); what survives is still supported and
coherent. `bit-reproducible` must be promoted last: it brings a second build
into every later pool, and the exactly-one rule then refuses every claim that
rests on one build.

With a window below 6 and two steps in flight, every probe of the depth
controller is outvoted by the steps left over from the depth before; the
deployed 32 is far from that. Ladders with a gap (2, 5) under the general formula
never leave their lowest rung, since the accepted drafts bound the target.

**What the proofs taught.** A floor says something of the read it was sized from
and of nothing later: MemAvailable may fall between the read and the container,
and `docs/operations.md:30` and `README.md:68` deny that the deduction stays
free. `FloorsUniformAndFit` is therefore stated against the launch's own reads,
and as such needs nothing of the lock. The proof of the floors needs the minimum
memory to be positive, and that of the nonces that only Fast carries one, which
`parse_launch_authorization` enforces; both are stated in `FleetController` now.
`NonceOneUse`, `OneCreatorPerRun`, `FailStopOwnAttemptOnly`,
`FloorsUniformAndFit` and `PinReportTrue` turned out to need nothing of the
lock. `BitReproducibleComesLast` is about the evidence of one release: that the
release's claims derive from it is `ReleaseAssumption`, which TLC evaluates.

**Findings** (`PROJECT.json` quotes the lines). `sched_pad`: under the
decode-aware budget a decode padded to the uniform width is cut again and keeps
all its drafts. `sched_session`: a session preempted with its last step in
flight is put into a queue by the stop handler and taken out again by the
clean-up of the same step; with drafts, a session can also stop a second time
on a step scheduled behind the one that stopped it. `spec_depth_cut`: with FULL
graphs of their own for decodes, a step whose drafts were cut to what
`max_model_len`, the token budget or a threshold leaves is uniform at a length that
is no rung and has no graph, although the comments at the capture say that every
reachable shape has one. It then runs without a FULL graph, which costs time and
not correctness; the presets set FULL mode, where `UniformStepsReplay` holds for cut
steps too.

**Divergences without a run of their own**, met while modelling:

- `docs/operations.md:20` says that a lost connection blocks mutation;
  `fleet_lock_assert_held` sees only the local client, so a loss that the remote
  side notices first lets a second coordinator mutate beside the first. This is
  what `Excused` in `FleetLock` excepts.
- `MaxFaults = 1` in `fleet_rivals.cfg` makes `StopPassMeansStopped` fail
  (`fleet.sh:199`: a failed `docker inspect` reads as ABSENT and stop prints PASS
  with a rank running) and, with 3, `FailStopOnlyFailedRanks` (`fleet.sh:237`: a
  failed status query counts as a failed rank). Runs and theorems set `MaxFaults = 0`
  for these two properties, so they say nothing of a misread query.
- `launch_cluster.sh:326`: the result of the four-GPU check is dropped, since its
  caller suspends errexit; `README.md:40` says that four ranks are required.
- `config/scheduler.py:96-99` bounds the long prefills per iteration; the waiting
  loop does not apply the bound, as the comment at `scheduler.py:1326-1335` admits.
- `scheduler.py:1305` pads a new decode up to `max_model_len`, the running loop
  (`scheduler.py:933-938`) stops one token before it. With two or more drafts, a
  prompt near the limit and all but its last token cached, the running loop then
  computes -1 new tokens, which the test `== 0` at line 963 lets pass and the
  assertion at line 2204 refuses. TLC finds it in a configuration with
  `spec = 2` and a prompt two below `modelLen`; the theorems about the scheduler
  exclude it with `PadsHaveRoom`.
- `speculative.py:191-195` calls `num_speculative_tokens` the initial value; the
  controller starts at the lowest rung.
- `mem_utils.py:387-391` says `E = min(P, C + I, B)` and `gpu_worker.py:733-734`
  that the budget is never exceeded; line 456 is `min(P, max(C + I, B))`, where
  the budget is a floor. `envs.py:296-298` says that growth never enters the
  reserve; with a floor whose deduction (6 GiB) is below the reserve (8 GiB, the
  default) up to the difference may be used. `HostReserveKept` states what holds.
- In FULL mode the coverage assertion returns before its check
  (`cudagraph_utils.py:593-597`), so a capture limit below the largest decode
  batch is not refused; `UniformStepsReplay` excepts it.

**Mutants.** Each checked property has a mutant, defined beside the definition
it changes and never used in a specification: a dropped guard, a missing bound,
an inherited descriptor, evidence left out. TLC refutes the property under the
same configuration.

## 5. Proofs

`FleetLockProofs` assumes only `FleetLockAssumption` (natural bounds) and holds
for any finite set of coordinators. `LockCoversMutation` is not inductive: that READY
still means anything when the polling loop reads it depends on the writer having
been open since. `LockInv` strengthens it with `HolderInv` (one shell holds),
`ControlInv` (writer, READY and command against the control state) and
`SessionInv` (between READY and release, on a live connection, the shell holds
and the child lives). From it: `LockTypeCorrect`, `LockCovers`, `LockExcludes`,
and `LockRefinement`, which maps each step to a step of `LockService` or to a
stutter.

`FleetControllerProofs` assumes `ControllerAssumption` (at least one rank,
natural bounds, a positive memory minimum, a nonce exactly for Fast) and holds
for any ranks, runs, nonces and coordinators. It has two invariants.

`FleetInv` asks nothing of the lock, of the connections or of the queries:
`ControlInv` (which script, profile and loop a block belongs to), `NonceInv`
(who may compact has the receipt of its nonce, and nobody else has),
`CreatorInv` (who created the containers of a run: the coordinator whose attempt
directory it is, and only from `create` on), `PinInv` (what the pin loop has set
so far), `RayInv` (one Ray head on host 0, whose members it brought up),
`SizeInv` (samples and floors) and `ObserveInv` (what the three observation
rounds have seen). From it: `ControllerTypes`, `NonceOneUseTheorem`,
`OneCreatorPerRunTheorem`, `FailStopOwnAttemptOnlyTheorem`,
`PinReportTrueTheorem`, `FloorsUniformAndFitTheorem` and, without misread
queries (`MaxFaults = 0`), `FailStopOnlyFailedRanksTheorem`.

`SoundInv` adds, for a fleet on which no connection is lost (`LossProne = {}`),
that a coordinator inside a script holds the flock (`SessionInv`), so that one
works at a time (`OneAtWork`), and that it finds the fleet as it left it but for
what failed (`SoleInv`). From it: `ReadinessIsOwnTheorem` and, with `MaxFaults = 0`,
`CoordinatorStoppedLastTheorem` and `StopPassMeansStoppedTheorem`. Both
hypotheses are needed: section 4 has the executions that violate the properties
without them, and the runs set the same constants. The proof of a step has a
lemma per action that says what the block does (`...Facts`) and one per part of
the invariant; steps of the surroundings only weaken the fleet (`Weakens`), and
those of another coordinator happen beside a working one (`Beside`).

`PublicationGateProofs` assumes `GateAssumption` (disjoint receipt types, typed
evidence). The argument for `GateWritesSupported` is *locality*: each derivation,
repeated over any part of its pool that keeps the evidence it reported, gives
the same subject and evidence (`SourceLocal` ... `ReadbackLocal`), and that
evidence lies in the pool (`EvidenceInPool`). So a promoted entry passes the
re-derivation that later promotions apply (`PromotedSupported`); the other
entries were rechecked. `GateInv` says so of every promotion in flight - not of
the file, which somebody may have edited - and is inductive.

`GateTypes` and `GateCoheres` rest on a second fact about the ten derivations:
they are *anchored* (`SourceSound` ... `BitSound`). Each key of a derived
subject is what every anchor of that key in the whole pool says - a source
receipt, a `build-produced` receipt, a licence, a live receipt of the profile -
and the evidence holds an anchor. Two derivations over one pool therefore agree
on the keys they share (`PoolCoheres`), and a promotion re-derives every passed
entry from the pool of its own evidence (`PromotionCoheres`). `CohereInv` says
that the file and each promotion in flight cohere until somebody edits the file.
`GateOrder` uses `ReleaseAssumption` and that two images in a pool leave no
claim that rests on one (`TwoImages`, `BitClosesBuilds`).

`EngineSchedulerProofs` assumes `ConfigAssumption` (numbers, no empty prompt, none
that fills the model length) and holds for any number of requests, sequences,
steps in flight, drafts, blocks and budgets. The invariants are nested.

`QueueInv` is about the queues, also in the middle of a call: each is free of
repetitions, together with the requests that the call has passed over they hold
exactly the unfinished requests by status, and what the call has scheduled lies
before the index it visits next - which is why the last running request can be
preempted without being in the step. It gives `NoneLost`.

`PipeInv` says of every unfinished request what the pipeline holds of it (`Sound`):
`Counted` (`inflight`, `stale` and, while it runs, `placeholders` are sums over
its shares in flight; stale shares come first; a request that has resumed before
they drained drops them), `Ordered` (what the model runner has sampled is what
was delivered), `Ahead` (a running request has a token to compute and stays below
the length limit, with the share the call has given it), `Covered` (if all drafts
in flight are rejected, no more is rolled back than was computed) and `Exact` (a
request that is no longer prefilling lacks one token). `DeliveredInOrder` needs
all of it but the last two: a stale output is appended only while its request
waits, and then the position it was sampled for is the next one of the answer,
because nothing of the newer admission exists. From it: `InOrderAlways`,
`CountersAlwaysMatch`, `SettledAlways`, `WholeShares`. `Room` (blocks, slots, steps)
and `Budget` (what was given to requests that are behind, plus what is left, is
at most the budget) give `WellTyped` and `PrefillAlwaysWithinBudget`; the second
needs `Exact`, since the running loop charges only requests with the prefill
flag.

Hypotheses about the configurations, where a theorem needs them: `NoSessions`
(all; the run `sched_session` shows a lost request with sessions), `PadsHaveRoom`
(all but `NoneLost`; the longest answer leaves room for the drafts of a padded
decode, see the divergence at `scheduler.py:1305` in section 4), `PadsAreCovered`
(`WellTyped`: a padded decode is not cut, or no prompt is shorter than the
drafts) and `PadsAreWhole` (`SettledAlways`, `WholeShares`,
`PrefillAlwaysWithinBudget`: padding is used without the decode-aware budget and
below the long-prefill threshold; the run `sched_pad` shows the cut). The
configurations `Base`, `Stock` and `TwiceReset` of the run `sched` meet all four;
`PaddedUnderBudget`, the deployed combination, meets the first three.

`KVBlockFencesProofs` holds for any requests, blocks and pipeline depth.
`NoFreeBlockInUse` is not inductive: that a freed block is quiet depends on why
its last user's step is done. `IInv` adds `UsesCovered` (every block a step in
flight touches is held by its request no later than `lastSeq`, or waits behind a
fence that step has not passed), `TransfersHeld` (what the connector touches is
held by the request it works for) and `LoadingAlone` (a loading request's own
blocks are nobody else's, and cached by nobody). From it: `TypesHold`,
`PoolIsQuiet`, `LoadsAreExclusive`.

`SpecDepthProofs` holds for any ladder, capture sizes, sequences and windows
that `DepthAssumption` allows. Its invariant says that the depth, the
placeholders and the drafts made for every step in flight are rungs (padding
uses the top one), that no step verifies more drafts than were made for it, and
that a serving server was not refused; coverage of the ladder then gives
`DepthsHaveGraphs` for steps that were not cut, because the rung that was in
force when a step was drafted is as captured as the one in force now; in FULL
mode the largest graph covers a cut step as well. `DepthOnLadder` is the
invariant's first part, and `LookupsAreKept` follows from what
`_init_adaptive_spec_candidates` inherits. `DepthTypes` needs the sum of what
the requests of a step had accepted; `SumFacts` shows for the library's fold
that it exists, splits off an element and is bounded by the bounds of its terms.
The fold is a recursive function, so the induction is made as a smallest
counterexample, over sets of naturals, and needs no theorem with an operator for
a parameter. For `StaleShare` the bound is not inductive: `StaleInv` adds, for
each request, to the samples of another depth in the window its steps in flight
that will be such samples (`Behind`) and its next one if its placeholders were
made at another depth (`Lag`), and keeps the sum at or below the pipeline's
depth.

`UnifiedMemoryProofs` holds for any sizes. `HostReserveKept` is not inductive: it
speaks of what is reserved, growth is limited by `cap`. `CapSound` says it of the
limit itself, for the samples the limit rests on (`CeilingSound` is the
arithmetic of one refresh), and `KVSound` bounds what profiling leaves for the
cache. From it: `TypesHold`, `ReserveHolds`. `RoomyStarts` needs the converse of
`CapSound`: `RoomInv` says that on a quiet host with room for the peak of all
phases the limit in force is at least that peak, and what each phase has
allocated.

Only model-checked: the liveness properties `EveryCoordinatorLeaves`,
`FlockAlwaysFreed`, `EveryScriptEnds`, `EveryRequestServed`, `DeferredReturned` and
`DepthSettles` (temporal proofs under fairness need ENABLED, which the prover
does not have), and what `EngineScheduler` does with streaming sessions.

## 6. Not modelled

Most of the repository's lines are overlays of vLLM and of flash-attention:
attention, MoE, indexer and BMM kernels, model definitions, custom-op wrappers
and configuration parsing. They are numerics and declarations without control
state a model checker could explore, which is why the modelled share of all lines
stays small while the parts that coordinate something are covered. Also left out:
the command line, rendering, contracts, receipts, verifiers and the battery
evaluator (one pass over files or one response, no state); build, provenance and
licence tooling.

Inside the modelled parts: SSH host keys and quoting, the wording of messages,
the contents of logs beyond the gate they decide, cryptography of attestations,
and timing other than order. *Scheduler*: the PRIORITY policy, LoRA, encoder
inputs, Mamba block alignment, grammar waits, pipeline-parallel eligibility,
full-sequence reservation, sliding-window frees, KV events and statistics.
*Graphs*: LoRA cases, graphs of the draft model, capture. *Memory*: sleep and
wake-up, the start-up plan, the multimodal IPC reserve, CUDA totals above the
host's; the capture that profiling does to estimate the memory of the graphs
(`gpu_worker.py:588-606`, `623`), so that the cache is larger here than in the code,
and the dummy runs and kernel warm-up between the cache and the ceiling for capture
(`869-877`), which allocate under the limit already in force. *Lock*: a command in
flight inherits descriptor 8 of the fifo (`fleet.sh:104`), so after SIGKILL the
flock is freed only when that command has ended; `Crash` closes the writer at
once.
