------------------------- MODULE CudaGraphDispatch -------------------------
(***************************************************************************)
(* Which CUDA graphs the V2 model runner captures and which one a batch    *)
(* replays (worker/gpu/cudagraph_utils.py), when the speculative depth is  *)
(* adapted at run time.  A configuration c has                             *)
(*   c.k       num_speculative_tokens                                      *)
(*   c.depths  the depths VLLM_ADAPTIVE_SPEC_DEPTHS lists                  *)
(*   c.ok      whether that variable can be parsed                         *)
(*   c.mode    the resolved cudagraph_mode                                 *)
(*   c.sizes   cudagraph_capture_sizes, their maximum being the limit      *)
(*   c.seqs    max_num_seqs                                                *)
(*   c.byBatch whether a per-batch-size schedule is configured as well     *)
(* One token is sampled per step and request, and no LoRA is loaded.       *)
(***************************************************************************)
EXTENDS Integers, FiniteSets, FiniteSetsExt

None == 0

Default == {2, 4, 5}

\* parse_adaptive_spec_depth_ladder, as the set of its depths.
Ladder(c) == {d \in IF c.ok THEN c.depths ELSE Default : 1 =< d /\ d =< c.k} \cup {c.k}

\* _maybe_override_dynamic_sd_cudagraph_mode
Mode(c) == IF c.byBatch /\ c.mode \in {"FULL", "FULL_AND_PIECEWISE", "FULL_DECODE_ONLY"}
           THEN "PIECEWISE" ELSE c.mode

\* Decode batches have graphs of their own, and what all others use.
Separate(c) == Mode(c) \in {"FULL_AND_PIECEWISE", "FULL_DECODE_ONLY"}
MixedMode(c) == CASE Mode(c) \in {"FULL_AND_PIECEWISE", "PIECEWISE"} -> "PIECEWISE"
                  [] Mode(c) = "FULL" -> "FULL"
                  [] OTHER -> "NONE"

MaxSize(c) == Max(c.sizes)
MaxReqs(c) == Min({c.seqs, 32})
round_up(x, m) == ((x + m - 1) \div m) * m

\* BatchExecutionDescriptor; reqs = None and uniform = None stand for None.
Desc(mode, tokens, reqs, uniform) ==
    [mode |-> mode, tokens |-> tokens, reqs |-> reqs, uniform |-> uniform]

\* _init_candidates: one fixed depth, rounded up from the capture sizes, and the
\* graphs of mixed batches.
FixedDescs(c) ==
    LET q == c.k + 1
        rounded == {round_up(t, q) : t \in c.sizes}
    IN {Desc("FULL", t, t \div q, q) :
            t \in {u \in rounded : Separate(c) /\ u =< c.seqs * q /\ u =< MaxSize(c)}}
MixedDescs(c) ==
    {Desc(MixedMode(c), t, IF MixedMode(c) = "FULL" THEN Min({t, c.seqs}) ELSE None, None) :
        t \in {u \in c.sizes : MixedMode(c) /= "NONE"}}
BaseDescs(c) == FixedDescs(c) \cup MixedDescs(c)

Shapes(c) == {d + 1 : d \in Ladder(c)} \X (1 .. MaxReqs(c))

\* _init_adaptive_spec_candidates: every depth of the ladder at every number of
\* requests that fits, unless it is captured already.
AdaptiveDescs(c) ==
    {Desc("FULL", s[1] * s[2], s[2], s[1]) :
        s \in {x \in Shapes(c) : /\ Separate(c)
                                 /\ x[1] * x[2] =< c.seqs * (c.k + 1)
                                 /\ x[1] * x[2] =< MaxSize(c)}} \ BaseDescs(c)

\* Mutant: request counts beyond the capture limit are taken for covered.
CoverageUpToLimit(c) ==
    \A s \in Shapes(c) : s[1] * s[2] =< MaxSize(c) =>
        Desc("FULL", s[1] * s[2], s[2], s[1]) \in BaseDescs(c) \cup AdaptiveDescs(c)

\* The shapes _assert_adaptive_spec_graph_coverage looks for.
Coverage(c) ==
    \A s \in Shapes(c) : Desc("FULL", s[1] * s[2], s[2], s[1]) \in BaseDescs(c) \cup AdaptiveDescs(c)

\* Whether _init_candidates raises: no graphs at all, no FULL ones, or a depth of
\* the ladder that was not captured.
Refused(c) ==
    \/ Mode(c) = "NONE" \/ c.sizes = {}
    \/ Mode(c) = "PIECEWISE"
    \/ Separate(c) /\ ~Coverage(c)

-----------------------------------------------------------------------------
(* dispatch *)

\* _build_candidate_ranges: the descriptors of the smallest bucket that holds n.
Bucket(descs, n) ==
    LET fits == {d.tokens : d \in {e \in descs : e.tokens >= n}}
    IN {d \in descs : fits /= {} /\ d.tokens = Min(fits)}

\* Mutant: both sets of descriptors share one partition of the token counts.
CandidatesMerged(c, n) == Bucket(AdaptiveDescs(c) \cup BaseDescs(c), n)

\* The candidates of a token count: the exact depths before the base ones.
Candidates(c, n) == Bucket(AdaptiveDescs(c), n) \cup Bucket(BaseDescs(c), n)

_is_compatible(d, reqs, tokens, uniform) ==
    /\ d.uniform = None \/ d.uniform = uniform
    /\ d.reqs = None \/ d.reqs >= reqs
    /\ d.tokens >= tokens

\* The mode a batch runs in.  Descriptors of one token count are ordered with the
\* FULL ones first, so the first that is compatible is FULL if any is.
dispatch(cands, reqs, tokens, uniform) ==
    LET modes == {d.mode : d \in {e \in cands : _is_compatible(e, reqs, tokens, uniform)}}
    IN IF "FULL" \in modes THEN "FULL"
       ELSE IF "PIECEWISE" \in modes THEN "PIECEWISE" ELSE "NONE"
=============================================================================
