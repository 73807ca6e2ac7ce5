----------------------------- MODULE SpecDepth -----------------------------
(***************************************************************************)
(* Adaptive speculative depth: the AcceptanceLengthController, the part of *)
(* the scheduler that feeds it and obeys it, and the graphs the resulting  *)
(* batches replay (CudaGraphDispatch), under asynchronous scheduling.      *)
(*                                                                         *)
(* The controller decides in update_from_output while later steps are in   *)
(* flight with drafts of the depth that was in force when their            *)
(* predecessors were scheduled.                                            *)
(***************************************************************************)
EXTENDS CudaGraphDispatch, Sequences

CONSTANTS
    Req,
    Configs,      \* as in CudaGraphDispatch, with window, batches, chunks, texts, and
                  \* budget  max_num_scheduled_tokens
                  \* long    long_prefill_token_threshold, 0 for none
                  \* rooms   what the first step of a request leaves of max_model_len
    MaxChanges    \* bound: arrivals, departures and changes of the text's nature

\* The room of a request that will not come near max_model_len.
Far == -1

ASSUME DepthAssumption ==
    /\ MaxChanges \in Nat /\ IsFiniteSet(Req)
    /\ \A c \in Configs : /\ c.k \in Nat \ {0} /\ c.depths \subseteq Int /\ c.seqs \in Nat
                          /\ c.sizes \subseteq Nat /\ IsFiniteSet(c.sizes)
                          /\ c.window \in Nat \ {0} /\ c.batches \in Nat \ {0}
                          /\ c.chunks \subseteq Nat \ {0} /\ c.budget \in Nat \ {0}
                          /\ c.long \in Nat /\ c.rooms \subseteq Nat \cup {Far}
                          /\ c.mode \in {"NONE", "PIECEWISE", "FULL", "FULL_AND_PIECEWISE",
                                        "FULL_DECODE_ONLY"}

VARIABLES
    conf,     \* the configuration this server was started with
    phase,    \* "starting", "serving" or "refused"
    depth,    \* num_spec_tokens of the controller
    win,      \* its counters since _reset_window
    running,  \* requests that decode
    spec,     \* number of draft tokens a running request will have verified next
    room,     \* max_model_len - num_computed_tokens - 1 of a running request
    flight,   \* steps scheduled and not yet processed, oldest first
    text,     \* how good drafts are: "easy", "hard" or "mixed"
    changes,  \* counts what MaxChanges bounds
    foreign   \* history: per request, the samples of this or the last window that
              \* were drafted at another depth

vars == <<conf, phase, depth, win, running, spec, room, flight, text, changes, foreign>>

Base == Min(Ladder(conf))
Top == conf.k
Positions == 1 .. conf.k

ZeroWindow == [steps |-> 0, drafts |-> 0, tokens |-> 0, accepted |-> 0,
               at |-> [p \in Positions |-> 0]]

Init ==
    /\ conf \in Configs /\ phase = "starting"
    /\ depth = Base /\ win = ZeroWindow
    /\ running = {} /\ spec = [r \in Req |-> 0] /\ room = [r \in Req |-> Far]
    /\ flight = <<>> /\ text \in conf.texts /\ changes = 0 /\ foreign = [r \in Req |-> 0]

\* _init_candidates builds the graphs, or aborts the start.
_init_candidates ==
    /\ phase = "starting"
    /\ phase' = IF Refused(conf) THEN "refused" ELSE "serving"
    /\ UNCHANGED <<conf, depth, win, running, spec, room, flight, text, changes, foreign>>

-----------------------------------------------------------------------------
(* The controller; w is the window the decision is taken on *)

TailGain(w) == IF conf.k >= 4 THEN w.at[3] + w.at[4] ELSE 0
FifthGain(w) == IF conf.k >= 5 THEN w.at[5] ELSE 0

\* The 2, 4, 5 policy: head acceptance decides whether to probe 4, then the tokens
\* the extra positions earned per draft.
LadderTarget(w) ==
    CASE depth = 2 ->
            IF w.tokens > 0 /\ 20 * w.accepted >= 17 * w.tokens THEN 4 ELSE 2
      [] depth = 4 ->
            IF Ladder(conf) = {2, 4, 5} /\ 10 * TailGain(w) >= 7 * w.drafts THEN 5
            ELSE IF 20 * TailGain(w) >= 7 * w.drafts THEN 4 ELSE 2
      [] OTHER ->
            IF 20 * FifthGain(w) >= 3 * w.drafts THEN 5
            ELSE IF 20 * TailGain(w) >= 7 * w.drafts THEN 4 ELSE 2

\* Any other ladder: the rung at or below floor(mean accepted + 1.5).
FormulaTarget(w) ==
    LET f == Min({conf.k, Max({1, (2 * w.accepted + 3 * w.drafts) \div (2 * w.drafts)})})
        rungs == {d \in Ladder(conf) : d =< f}
    IN IF rungs = {} THEN Base ELSE Max(rungs)

Target(w) == IF Ladder(conf) \in {{2, 4}, {2, 4, 5}} THEN LadderTarget(w) ELSE FormulaTarget(w)

\* Mutant: probes are resolved in a third of the window.
EffectiveWindowThird == IF depth = Base THEN conf.window ELSE Max({1, conf.window \div 3})

EffectiveWindow == IF depth = Base THEN conf.window ELSE Max({1, conf.window \div 2})

\* The counts update_from_output sums up over the requests `live' of a step with
\* `drafts' tokens each, of which `acc' were accepted.
Observed(drafts, acc, live) ==
    LET d(r) == drafts[r]
        a(r) == acc[r]
    IN [steps |-> win.steps + 1,
        drafts |-> win.drafts + Cardinality(live),
        tokens |-> win.tokens + MapThenSumSet(d, live),
        accepted |-> win.accepted + MapThenSumSet(a, live),
        at |-> [p \in Positions |-> win.at[p] + Cardinality({r \in live : acc[r] >= p})]]

\* Mutant: the window is one step longer.
ObserveOneMore(drafts, acc, live) ==
    LET w == Observed(drafts, acc, live)
    IN IF live = {} \/ w.steps =< EffectiveWindow
       THEN win' = (IF live = {} THEN win ELSE w) /\ UNCHANGED depth
       ELSE depth' = Target(w) /\ win' = ZeroWindow

observe_batch(drafts, acc, live) ==
    LET w == Observed(drafts, acc, live)
    IN IF live = {} \/ w.steps < EffectiveWindow
       THEN win' = (IF live = {} THEN win ELSE w) /\ UNCHANGED depth
       ELSE depth' = Target(w) /\ win' = ZeroWindow

-----------------------------------------------------------------------------
(* The scheduler *)

\* The tokens the running loop wants for a request: its drafts and the token before
\* them, cut by the long-prefill threshold and by what is left of max_model_len.
Limit(n) == IF 0 < conf.long /\ conf.long < n THEN conf.long ELSE n
Want(r) == LET n == Limit(spec[r] + 1)
           IN IF room[r] = Far THEN n ELSE Min({n, room[r]})

Total(n) == LET t(r) == n[r] IN MapThenSumSet(t, DOMAIN n)

\* The shares n with which the loop can leave the running requests, in some order
\* of its list: all they want until the token budget cuts one short, then nothing.
Shares == {n \in [running -> 0 .. conf.k + 1] :
    LET short == {r \in running : n[r] < Want(r)}
    IN /\ \A r \in running : n[r] =< Want(r)
       /\ Total(n) =< conf.budget /\ (short /= {} => Total(n) = conf.budget)
       /\ Cardinality({r \in short : n[r] > 0}) =< 1}

\* What a request that joins brings to its first step, beside the shares n: the end
\* of its prompt; or, with one token left to compute beside requests that are
\* scheduled, padding to the configured maximum (chunk = 0).
Joins(r, chunk, n) ==
    LET beside == Total(n) > 0
        tokens == IF chunk = 0 THEN conf.k + 1 ELSE chunk
    IN /\ r \notin running /\ changes < MaxChanges
       /\ chunk = 0 => beside
       /\ chunk = 1 => ~beside
       /\ Total(n) + tokens =< conf.budget /\ Limit(tokens) = tokens

\* Mutant: the placeholders are made once, for the configured maximum.
NextDraftsFixed == conf.k

\* The placeholders a scheduled request gets for its next step (AsyncScheduler).
NextDrafts == depth

\* A step: the running requests with a share, and one that may join and has `left'
\* tokens of room after it.  A share cuts the list of drafts, and the ones cut off
\* are not kept.  The depth of the moment is what the worker will draft for the
\* requests of the step, and their next one verify; a request without a share keeps
\* the drafts it has.
schedule(n, join, chunk, left) ==
    LET old == {r \in running : n[r] > 0}
        batch == old \cup join
        padded == IF chunk = 0 THEN join ELSE {}
        made == [r \in batch |-> IF r \in old THEN spec[r]
                                 ELSE IF r \in padded THEN conf.k ELSE 0]
        drafts == [r \in batch |-> IF r \in old THEN n[r] - 1 ELSE made[r]]
        query == [r \in batch |-> IF r \in join /\ chunk > 0 THEN chunk ELSE drafts[r] + 1]
    IN /\ phase = "serving" /\ Len(flight) < conf.batches /\ batch /= {}
       /\ n \in Shares
       /\ \A r \in join : Joins(r, chunk, n)
       /\ join = {} => chunk = 0 /\ left = Far
       /\ Cardinality(running \cup join) =< conf.seqs
       /\ flight' = Append(flight, [query |-> query, drafts |-> drafts, made |-> made,
                                    padded |-> padded, live |-> batch])
       /\ running' = running \cup join
       /\ spec' = [r \in Req |-> IF r \in batch THEN NextDrafts ELSE spec[r]]
       /\ room' = [r \in Req |-> IF r \in join THEN left
                                 ELSE IF r \in old /\ room[r] /= Far THEN room[r] - n[r]
                                 ELSE room[r]]
       /\ changes' = changes + Cardinality(join)
       /\ UNCHANGED <<conf, phase, depth, win, text, foreign>>

\* A request finishes or is preempted: what is in flight for it is no sample.
leave(r) ==
    /\ r \in running /\ changes < MaxChanges
    /\ running' = running \ {r} /\ spec' = [spec EXCEPT ![r] = 0]
    /\ room' = [room EXCEPT ![r] = Far]
    /\ flight' = [i \in DOMAIN flight |-> [flight[i] EXCEPT !.live = @ \ {r}]]
    /\ changes' = changes + 1
    /\ UNCHANGED <<conf, phase, depth, win, text, foreign>>

\* How many drafts verification may accept; padding is not a draft of the model.
Accepts(s, r) == CASE text = "hard" \/ r \in s.padded -> {0}
                   [] text = "easy" -> {s.drafts[r]}
                   [] OTHER -> 0 .. s.drafts[r]

\* The requests whose verification a step samples, and those among them drafted at
\* another depth than the one in force.
Samples(s) == {r \in s.live : s.drafts[r] > 0}
Other(s) == {r \in Samples(s) \ s.padded : s.made[r] /= depth}

\* update_from_output for the oldest step: rejected drafts give their room back, and
\* a request that has reached max_model_len ends.
update_from_output(acc) ==
    LET s == Head(flight)
        back == [r \in Req |-> IF r \in Samples(s) /\ room[r] /= Far
                               THEN room[r] + s.drafts[r] - acc[r] ELSE room[r]]
        ended == {r \in s.live : back[r] = 0 /\ \A i \in DOMAIN flight \ {1} : r \notin flight[i].live}
    IN /\ flight /= <<>>
       /\ acc \in [Samples(s) -> 0 .. conf.k] /\ \A r \in Samples(s) : acc[r] \in Accepts(s, r)
       /\ flight' = Tail(flight)
       /\ running' = running \ ended
       /\ spec' = [r \in Req |-> IF r \in ended THEN 0 ELSE spec[r]]
       /\ room' = [r \in Req |-> IF r \in ended THEN Far ELSE back[r]]
       /\ observe_batch(s.drafts, acc, Samples(s))
       /\ foreign' = IF Samples(s) = {} THEN foreign
                     ELSE [r \in Req |-> (IF win.steps = 0 THEN 0 ELSE foreign[r])
                                         + (IF r \in Other(s) THEN 1 ELSE 0)]
       /\ UNCHANGED <<conf, phase, text, changes>>

\* The text being generated gets easier or harder to draft.
TextChanges ==
    /\ phase = "serving" /\ changes < MaxChanges
    /\ text' \in conf.texts \ {text}
    /\ changes' = changes + 1
    /\ UNCHANGED <<conf, phase, depth, win, running, spec, room, flight, foreign>>

Process == \E acc \in [(IF flight = <<>> THEN {} ELSE Samples(Head(flight))) -> 0 .. conf.k] :
               update_from_output(acc)
Decode == \E n \in Shares : schedule(n, {}, 0, Far)
Admit == \E n \in Shares, r \in Req, chunk \in conf.chunks \cup {0}, left \in conf.rooms :
             schedule(n, {r}, chunk, left)

Next == _init_candidates \/ Decode \/ Admit \/ Process \/ TextChanges \/ \E r \in Req : leave(r)

Spec == Init /\ [][Next]_vars

\* The engine's loop goes on scheduling and processing while there is work.
FairSpec == Spec /\ WF_vars(_init_candidates) /\ WF_vars(Decode) /\ WF_vars(Process)

-----------------------------------------------------------------------------
\* Types; the depth is always a rung of the ladder.
TypeOK ==
    /\ conf \in Configs /\ phase \in {"starting", "serving", "refused"}
    /\ depth \in Ladder(conf)
    /\ win.steps \in 0 .. conf.window - 1 /\ win.drafts \in Nat /\ win.tokens \in Nat
    /\ win.accepted \in 0 .. win.tokens /\ win.at \in [Positions -> 0 .. win.drafts]
    /\ running \subseteq Req /\ spec \in [Req -> 0 .. conf.k] /\ room \in [Req -> Nat \cup {Far}]
    /\ Len(flight) =< conf.batches
    /\ \A i \in DOMAIN flight :
        /\ flight[i].live \subseteq DOMAIN flight[i].drafts
        /\ \A r \in DOMAIN flight[i].drafts : flight[i].drafts[r] \in 0 .. conf.k

\* A decision rests, for each request, on at most `batches' samples whose drafts were
\* made at another depth than the one it judges: the pipeline leaks no more into a
\* window, even through requests the token budget held back in between.
StaleShareBounded == \A r \in Req : foreign[r] =< conf.batches

Tokens(s) == LET q(r) == s.query[r] IN MapThenSumSet(q, DOMAIN s.query)

\* get_uniform_token_count
UniformCount(s) == LET counts == {s.query[r] : r \in DOMAIN s.query}
                   IN IF \E q \in counts : counts = {q} THEN Max(counts) ELSE None

RunsAs(s, cands) == dispatch(cands, Cardinality(DOMAIN s.query), Tokens(s), UniformCount(s))

\* A step of decodes that all verify the same number of drafts.
Uniform(s) ==
    LET q == UniformCount(s)
    IN q > 1 /\ \A r \in DOMAIN s.drafts : s.drafts[r] + 1 = q

\* No request of the step lost drafts to the token budget or to max_model_len.
Uncut(s) == \A r \in DOMAIN s.drafts : s.drafts[r] = s.made[r]

\* It is dispatched to a FULL graph.
Replays(s) == LET q == UniformCount(s)
                  n == Cardinality(DOMAIN s.query)
              IN dispatch(Candidates(conf, q * n), n, q * n, q) = "FULL"

\* A uniform verification step of up to 32 requests replays a FULL graph at whatever
\* depth the pipeline carries: with graphs of their own for decodes, if no drafts
\* were cut (a server whose ladder has no graph has not started); with FULL graphs
\* for all batches that reach the largest decode batch, even if they were.
UniformStepsReplay ==
    \A i \in DOMAIN flight :
        LET s == flight[i]
        IN /\ Uniform(s) /\ Cardinality(DOMAIN s.query) =< 32
           /\ \/ Separate(conf) /\ Uncut(s)
              \/ ~Separate(conf) /\ \E t \in conf.sizes : t >= (conf.k + 1) * conf.seqs
           => Replays(s)

\* What the comments at the ladder's capture say (config/vllm.py:876-877,
\* cudagraph_utils.py:455-457): with graphs of their own for decodes, every uniform
\* verification step the scheduler produces has one.  A step whose drafts were cut
\* has as many as there was room for, and no graph unless that is a rung.
EveryShapeCaptured ==
    \A i \in DOMAIN flight :
        /\ Separate(conf) /\ Uniform(flight[i]) /\ Cardinality(DOMAIN flight[i].query) =< 32
        => Replays(flight[i])

Rank(mode) == CASE mode = "FULL" -> 2 [] mode = "PIECEWISE" -> 1 [] OTHER -> 0

\* No step, mixed ones with prefills included, runs in a lesser mode than it would
\* without the graphs of the other depths.
LookupsKept ==
    \A i \in DOMAIN flight :
        LET s == flight[i]
            base == Bucket(BaseDescs(conf), Tokens(s))
        IN Rank(RunsAs(s, Candidates(conf, Tokens(s)))) >= Rank(RunsAs(s, base))

\* The depth settles where the text wants it.  While drafts are always accepted, and
\* the token budget holds a full step of every sequence, it goes to the maximum and
\* stays, so the steps left over from the depth before do not make every probe fail;
\* while they are never accepted it goes back to the lowest rung and stays.
DepthSettles ==
    /\ conf.budget >= (conf.k + 1) * conf.seqs /\ Limit(conf.k + 1) = conf.k + 1
       => (<>[](text = "easy" /\ running /= {}) => <>[](depth = Top))
    /\ conf.budget > 1 /\ conf.long /= 1
       => (<>[](text = "hard" /\ running /= {}) => <>[](depth = Base))
=============================================================================
