-------------------------- MODULE SpecDepthProofs --------------------------
(***************************************************************************)
(* Proofs about SpecDepth and CudaGraphDispatch for every ladder, window,  *)
(* set of capture sizes and number of requests: the controller never       *)
(* leaves the ladder, what it selects has a graph, the window's counters   *)
(* stay in range, and at most a pipeline of older steps leaks into it.     *)
(***************************************************************************)
EXTENDS SpecDepth, SumFacts

(* Least and greatest elements *)

\* The least element of a non-empty set of naturals.
LEMMA MinExists ==
    ASSUME NEW S, S \subseteq Nat, S /= {}
    PROVE  Min(S) \in S /\ \A y \in S : Min(S) =< y
  <1>1. \E x \in S : \A y \in S : x =< y
    BY LeastNatural
  <1>2. Min(S) = CHOOSE z \in S : \A y \in S : z =< y
    BY DEF Min
  <1> QED
    BY <1>1, <1>2

\* A non-empty set of naturals with an upper bound has a greatest element.
LEMMA MaxExists ==
    ASSUME NEW k \in Nat, NEW S, S \subseteq 0 .. k, S /= {}
    PROVE  Max(S) \in S /\ \A y \in S : Max(S) >= y
  <1> DEFINE T == {k - y : y \in S}
  <1>1. T \subseteq Nat
    <2> SUFFICES ASSUME NEW y \in S PROVE k - y \in Nat
      OBVIOUS
    <2> QED
      OBVIOUS
  <1>2. T /= {}
    <2>1. PICK y \in S : TRUE
      OBVIOUS
    <2>2. k - y \in T
      BY <2>1
    <2> QED
      BY <2>2
  <1> DEFINE m == Min(T)
  <1>3. m \in T /\ \A t \in T : m =< t
    BY <1>1, <1>2, MinExists
  <1> HIDE DEF m
  <1>4. PICK x \in S : m = k - x
    BY <1>3
  <1>5. ASSUME NEW y \in S PROVE x >= y
    <2>1. k - y \in T
      OBVIOUS
    <2>2. m =< k - y
      BY <1>3, <2>1
    <2>3. x \in 0 .. k /\ y \in 0 .. k
      OBVIOUS
    <2> QED
      BY <1>4, <2>2, <2>3
  <1>6. Max(S) = CHOOSE z \in S : \A y \in S : z >= y
    BY DEF Max
  <1> QED
    BY <1>5, <1>6

\* The lesser of two naturals.
LEMMA MinOfTwo ==
    ASSUME NEW a \in Nat, NEW b \in Nat
    PROVE  Min({a, b}) \in {a, b} /\ Min({a, b}) =< a /\ Min({a, b}) =< b
  BY MinExists

-----------------------------------------------------------------------------
(* The ladder, and where the controller goes on it *)

\* A ladder holds depths from 1 to the configured maximum, and the maximum.
LEMMA LadderTyped ==
    ASSUME NEW c \in Configs
    PROVE  /\ c.k \in Nat \ {0}
           /\ Ladder(c) \subseteq 1 .. c.k
           /\ c.k \in Ladder(c)
  BY DepthAssumption DEF Ladder, Default

\* Whatever the counters of the window, the next depth is a rung of the ladder.
LEMMA TargetInLadder ==
    ASSUME conf \in Configs, depth \in Ladder(conf), NEW w
    PROVE  Target(w) \in Ladder(conf)
  <1>1. CASE Ladder(conf) \in {{2, 4}, {2, 4, 5}}
    <2>1. Target(w) = LadderTarget(w)
      BY <1>1 DEF Target
    <2>2. Ladder(conf) = {2, 4} \/ Ladder(conf) = {2, 4, 5}
      BY <1>1
    <2>3. depth = 2 => LadderTarget(w) \in {2, 4}
      BY DEF LadderTarget
    <2>4. depth = 4 => \/ LadderTarget(w) \in {2, 4}
                       \/ Ladder(conf) = {2, 4, 5} /\ LadderTarget(w) = 5
      BY DEF LadderTarget
    <2>5. depth = 5 => LadderTarget(w) \in {2, 4, 5}
      BY DEF LadderTarget
    <2> QED
      BY <2>1, <2>2, <2>3, <2>4, <2>5
  <1>2. CASE Ladder(conf) \notin {{2, 4}, {2, 4, 5}}
    <2> DEFINE f == Min({conf.k, Max({1, (2 * w.accepted + 3 * w.drafts) \div (2 * w.drafts)})})
               rungs == {d \in Ladder(conf) : d =< f}
    <2>1. Target(w) = IF rungs = {} THEN Min(Ladder(conf)) ELSE Max(rungs)
      BY <1>2 DEF Target, FormulaTarget, Base
    <2>2. rungs \subseteq Ladder(conf)
      OBVIOUS
    <2> HIDE DEF rungs
    <2>3. Ladder(conf) \subseteq Nat /\ Ladder(conf) /= {}
      BY LadderTyped
    <2>4. Min(Ladder(conf)) \in Ladder(conf)
      BY <2>3, MinExists
    <2>5. rungs \subseteq 0 .. conf.k /\ conf.k \in Nat
      BY <2>2, LadderTyped
    <2>6. rungs /= {} => Max(rungs) \in rungs
      BY <2>5, MaxExists
    <2> QED
      BY <2>1, <2>2, <2>4, <2>6
  <1> QED
    BY <1>1, <1>2

-----------------------------------------------------------------------------
(* Graphs *)

\* A descriptor is in the bucket of its own token count.
LEMMA ExactBucket ==
    ASSUME NEW D, \A d \in D : d.tokens \in Int, NEW e \in D, e.tokens \in Nat
    PROVE  e \in Bucket(D, e.tokens)
  <1> DEFINE fits == {d.tokens : d \in {x \in D : x.tokens >= e.tokens}}
  <1>1. fits \subseteq Nat
    <2> SUFFICES ASSUME NEW d \in D, d.tokens >= e.tokens PROVE d.tokens \in Nat
      OBVIOUS
    <2> QED
      OBVIOUS
  <1>2. e.tokens \in fits
    OBVIOUS
  <1>3. \A y \in fits : y >= e.tokens
    OBVIOUS
  <1>4. Bucket(D, e.tokens) = {d \in D : fits /= {} /\ d.tokens = Min(fits)}
    BY DEF Bucket
  <1> HIDE DEF fits
  <1>5. Min(fits) \in fits /\ Min(fits) =< e.tokens
    BY <1>1, <1>2, MinExists
  <1>6. Min(fits) = e.tokens
    <2>1. Min(fits) \in Nat /\ Min(fits) >= e.tokens
      BY <1>1, <1>3, <1>5
    <2> QED
      BY <1>5, <2>1
  <1> QED
    BY <1>2, <1>4, <1>6

\* Token counts are integers.
LEMMA TokensInt ==
    ASSUME NEW c \in Configs
    PROVE  /\ \A d \in BaseDescs(c) : d.tokens \in Int
           /\ \A d \in AdaptiveDescs(c) : d.tokens \in Int
  <1>1. c.k \in Nat \ {0} /\ c.sizes \subseteq Nat /\ Ladder(c) \subseteq 1 .. c.k
    BY DepthAssumption, LadderTyped
  <1>2. ASSUME NEW t \in c.sizes PROVE round_up(t, c.k + 1) \in Int
    BY <1>1 DEF round_up
  <1>3. \A d \in FixedDescs(c) : d.tokens \in Int
    BY <1>2 DEF FixedDescs, Desc
  <1>4. \A d \in MixedDescs(c) : d.tokens \in Int
    <2> SUFFICES ASSUME NEW d \in MixedDescs(c) PROVE d.tokens \in Int
      OBVIOUS
    <2>1. PICK t \in c.sizes :
            d = Desc(MixedMode(c), t,
                     IF MixedMode(c) = "FULL" THEN Min({t, c.seqs}) ELSE None, None)
      BY DEF MixedDescs
    <2>2. d.tokens = t
      BY <2>1 DEF Desc
    <2> QED
      BY <1>1, <2>2
  <1>5. ASSUME NEW s \in Shapes(c) PROVE s[1] * s[2] \in Int
    <2>1. s[1] \in Int /\ s[2] \in Int
      BY <1>1 DEF Shapes
    <2> QED
      BY <2>1
  <1>6. \A d \in AdaptiveDescs(c) : d.tokens \in Int
    BY <1>5 DEF AdaptiveDescs, Desc
  <1> QED
    BY <1>3, <1>4, <1>6 DEF BaseDescs

\* A compatible FULL candidate is enough for the batch to run as FULL.
LEMMA FullIsFirst ==
    ASSUME NEW cands, NEW reqs, NEW tokens, NEW uniform, NEW d \in cands,
           d.mode = "FULL", _is_compatible(d, reqs, tokens, uniform)
    PROVE  dispatch(cands, reqs, tokens, uniform) = "FULL"
  BY DEF dispatch

\* With graphs of their own for decodes, a server that has started has one for
\* every depth of its ladder at every number of requests up to 32.
LEMMA SeparateReplays ==
    ASSUME NEW c \in Configs, Separate(c), ~Refused(c),
           NEW d \in Ladder(c), NEW n \in Nat \ {0}, n =< c.seqs, n =< 32
    PROVE  dispatch(Candidates(c, (d + 1) * n), n, (d + 1) * n, d + 1) = "FULL"
  <1> DEFINE q == d + 1
             e == Desc("FULL", q * n, n, q)
  <1>1. q \in Nat /\ n \in Nat /\ c.seqs \in Nat
    BY LadderTyped, DepthAssumption
  <1>2. q * n \in Nat
    BY <1>1
  <1>3. MaxReqs(c) \in Nat /\ n =< MaxReqs(c)
    BY <1>1, MinOfTwo DEF MaxReqs
  <1>4. <<q, n>> \in Shapes(c)
    BY <1>3 DEF Shapes
  <1>5. e \in BaseDescs(c) \cup AdaptiveDescs(c)
    BY <1>4 DEF Refused, Coverage
  <1>6. /\ e.tokens = q * n /\ e.mode = "FULL"
        /\ e.reqs = n /\ e.uniform = q
    BY DEF Desc
  <1> HIDE DEF e
  <1>7. e \in Candidates(c, q * n)
    BY <1>2, <1>5, <1>6, TokensInt, ExactBucket DEF Candidates
  <1>8. _is_compatible(e, n, q * n, q)
    BY <1>1, <1>2, <1>6 DEF _is_compatible
  <1> QED
    BY <1>6, <1>7, <1>8, FullIsFirst

\* Multiplication is monotonic.
LEMMA Products ==
    ASSUME NEW a \in Nat, NEW b \in Nat, NEW x \in Nat, NEW y \in Nat, a =< b, x =< y
    PROVE  a * x =< b * y
  <1>1. PICK i \in Nat : b = a + i
    <2>1. b - a \in Nat /\ b = a + (b - a)
      OBVIOUS
    <2> QED
      BY <2>1
  <1>2. PICK j \in Nat : y = x + j
    <2>1. y - x \in Nat /\ y = x + (y - x)
      OBVIOUS
    <2> QED
      BY <2>1
  <1>3. b * y = a * x + a * j + i * x + i * j
    BY <1>1, <1>2
  <1>4. a * x \in Nat /\ a * j \in Nat /\ i * x \in Nat /\ i * j \in Nat
    OBVIOUS
  <1> QED
    BY <1>3, <1>4

\* In FULL mode the graphs of mixed batches serve uniform ones of any depth, when
\* some capture size holds the largest decode batch.
LEMMA FullReplays ==
    ASSUME NEW c \in Configs, Mode(c) = "FULL",
           NEW t0 \in c.sizes, t0 >= (c.k + 1) * c.seqs,
           NEW d \in 0 .. c.k, NEW n \in Nat \ {0}, n =< c.seqs
    PROVE  dispatch(Candidates(c, (d + 1) * n), n, (d + 1) * n, d + 1) = "FULL"
  <1> DEFINE q == d + 1
             fits == {e.tokens : e \in {x \in BaseDescs(c) : x.tokens >= q * n}}
  <1>1. /\ q \in Nat /\ 1 =< q /\ q =< c.k + 1 /\ c.k + 1 \in Nat
        /\ c.seqs \in Nat /\ c.sizes \subseteq Nat
    BY LadderTyped, DepthAssumption
  <1>2. BaseDescs(c) = {Desc("FULL", t, Min({t, c.seqs}), None) : t \in c.sizes}
    <2>1. FixedDescs(c) = {}
      BY DEF FixedDescs, Separate
    <2>2. MixedMode(c) = "FULL"
      BY DEF MixedMode
    <2>3. MixedDescs(c) = {Desc("FULL", t, Min({t, c.seqs}), None) : t \in c.sizes}
      BY <2>2 DEF MixedDescs
    <2> QED
      BY <2>1, <2>3 DEF BaseDescs
  <1>3. q * n \in Nat /\ q * n =< (c.k + 1) * c.seqs /\ n =< q * n
    <2>1. q * n =< (c.k + 1) * c.seqs
      BY <1>1, Products
    <2>2. 1 * n =< q * n
      BY <1>1, Products
    <2> QED
      BY <1>1, <2>1, <2>2
  <1>4. t0 >= q * n
    <2>1. (c.k + 1) * c.seqs \in Nat
      BY <1>1
    <2> QED
      BY <1>1, <1>3, <2>1
  <1>5. fits = {t \in c.sizes : t >= q * n}
    <2>1. \A t \in c.sizes : Desc("FULL", t, Min({t, c.seqs}), None).tokens = t
      BY DEF Desc
    <2>2. ASSUME NEW x \in fits PROVE x \in {t \in c.sizes : t >= q * n}
      <3>1. PICK y \in BaseDescs(c) : x = y.tokens /\ y.tokens >= q * n
        OBVIOUS
      <3>2. PICK t \in c.sizes : y = Desc("FULL", t, Min({t, c.seqs}), None)
        BY <1>2
      <3> QED
        BY <2>1, <3>1, <3>2
    <2>3. ASSUME NEW t \in c.sizes, t >= q * n PROVE t \in fits
      <3>1. Desc("FULL", t, Min({t, c.seqs}), None) \in BaseDescs(c)
        BY <1>2
      <3> QED
        BY <2>1, <2>3, <3>1
    <2> QED
      BY <2>2, <2>3
  <1>6. Bucket(BaseDescs(c), q * n) = {e \in BaseDescs(c) : fits /= {} /\ e.tokens = Min(fits)}
    BY DEF Bucket
  <1> HIDE DEF fits
  <1>7. PICK m \in c.sizes : m = Min(fits) /\ m >= q * n
    <2>1. fits \subseteq Nat /\ fits /= {}
      BY <1>1, <1>4, <1>5
    <2>2. Min(fits) \in fits
      BY <2>1, MinExists
    <2> QED
      BY <1>5, <2>2
  <1> DEFINE e == Desc("FULL", m, Min({m, c.seqs}), None)
  <1>8. /\ e.mode = "FULL" /\ e.tokens = m
        /\ e.reqs = Min({m, c.seqs}) /\ e.uniform = None
    BY DEF Desc
  <1>9. e \in Candidates(c, q * n)
    <2>1. e \in BaseDescs(c)
      BY <1>2
    <2>2. fits /= {}
      BY <1>4, <1>5
    <2> HIDE DEF e
    <2> QED
      BY <1>6, <1>7, <1>8, <2>1, <2>2 DEF Candidates
  <1> HIDE DEF e
  <1>10. Min({m, c.seqs}) >= n
    <2>1. m \in Nat /\ m >= n
      BY <1>1, <1>3, <1>7
    <2> QED
      BY <1>1, <2>1, MinOfTwo
  <1>11. _is_compatible(e, n, q * n, q)
    BY <1>7, <1>8, <1>10 DEF _is_compatible
  <1> QED
    BY <1>8, <1>9, <1>11, FullIsFirst

-----------------------------------------------------------------------------
(* The invariant *)

Fn == UNION {[B -> Int] : B \in SUBSET Req}
Steps == [query : Fn, drafts : Fn, made : Fn, padded : SUBSET Req, live : SUBSET Req]

\* A step in flight verifies drafts made at rungs of the ladder, or the first of
\* them, for a batch that fits.
StepOK(s) ==
    /\ DOMAIN s.query = DOMAIN s.drafts /\ DOMAIN s.made = DOMAIN s.drafts
    /\ DOMAIN s.query /= {} /\ DOMAIN s.query \subseteq Req
    /\ Cardinality(DOMAIN s.query) =< conf.seqs
    /\ \A r \in DOMAIN s.drafts : /\ s.made[r] \in Ladder(conf) \cup {0}
                                  /\ s.drafts[r] \in 0 .. s.made[r]

\* Depths of the controller, of the requests and of the pipeline are rungs, and
\* nothing is in flight on a server that was refused.
IInv ==
    /\ conf \in Configs /\ depth \in Ladder(conf)
    /\ running \subseteq Req
    /\ spec \in [Req -> Ladder(conf) \cup {0}] /\ room \in [Req -> Nat \cup {Far}]
    /\ flight \in Seq(Steps)
    /\ \A i \in DOMAIN flight : StepOK(flight[i]) /\ flight[i].live \subseteq DOMAIN flight[i].drafts
    /\ phase = "serving" \/ flight = <<>>
    /\ phase = "serving" => ~Refused(conf)

\* The invariant holds of the server that starts: at the lowest rung.
LEMMA InitIInv == Init => IInv
  <1> SUFFICES ASSUME Init PROVE IInv
    OBVIOUS
  <1>1. Ladder(conf) \subseteq Nat /\ Ladder(conf) /= {}
    BY LadderTyped DEF Init
  <1>2. depth \in Ladder(conf)
    BY <1>1, MinExists DEF Init, Base
  <1>3. flight \in Seq(Steps) /\ DOMAIN flight = {}
    BY DEF Init
  <1> QED
    BY <1>2, <1>3 DEF Init, IInv

\* The threshold never raises a share.
LEMMA LimitBound ==
    ASSUME conf \in Configs, NEW n \in Nat
    PROVE  Limit(n) \in Nat /\ Limit(n) =< n
  BY DepthAssumption DEF Limit

\* A request wants no more than its drafts and one token, and no more than its room.
LEMMA WantBound ==
    ASSUME IInv, NEW r \in Req
    PROVE  /\ Want(r) \in Nat /\ Want(r) =< spec[r] + 1
           /\ room[r] /= Far => room[r] \in Nat /\ Want(r) =< room[r]
  <1>1. spec[r] + 1 \in Nat /\ conf \in Configs /\ room[r] \in Nat \cup {Far}
    BY LadderTyped DEF IInv
  <1> DEFINE l == Limit(spec[r] + 1)
  <1>2. l \in Nat /\ l =< spec[r] + 1
    BY <1>1, LimitBound
  <1>3. Want(r) = IF room[r] = Far THEN l ELSE Min({l, room[r]})
    BY DEF Want
  <1> HIDE DEF l
  <1>4. CASE room[r] = Far
    BY <1>2, <1>3, <1>4
  <1>5. CASE room[r] /= Far
    <2>1. room[r] \in Nat
      BY <1>1, <1>5
    <2>2. Min({l, room[r]}) \in {l, room[r]} /\ Min({l, room[r]}) =< l /\ Min({l, room[r]}) =< room[r]
      BY <1>2, <2>1, MinOfTwo
    <2> QED
      BY <1>1, <1>2, <1>3, <1>5, <2>1, <2>2
  <1> QED
    BY <1>4, <1>5

\* What is known of the step that schedule appends.
Appended(n, join, s) ==
    /\ flight' = Append(flight, s)
    /\ s \in Steps /\ StepOK(s) /\ s.live = DOMAIN s.drafts
    /\ s.live = {r \in running : n[r] > 0} \cup join
    /\ \A r \in Other(s) : r \in s.live /\ r \in running /\ spec[r] /= depth

\* A scheduled step is one the invariant allows, and a sample of another depth only
\* for a running request whose placeholders were of that depth.
LEMMA StepScheduled ==
    ASSUME IInv, NEW n, NEW join \in SUBSET Req, NEW chunk \in conf.chunks \cup {0},
           NEW left, schedule(n, join, chunk, left)
    PROVE  \E s : Appended(n, join, s)
  <1> DEFINE old == {r \in running : n[r] > 0}
             batch == old \cup join
             padded == IF chunk = 0 THEN join ELSE {}
             made == [r \in batch |-> IF r \in old THEN spec[r]
                                      ELSE IF r \in padded THEN conf.k ELSE 0]
             drafts == [r \in batch |-> IF r \in old THEN n[r] - 1 ELSE made[r]]
             query == [r \in batch |-> IF r \in join /\ chunk > 0 THEN chunk ELSE drafts[r] + 1]
             s == [query |-> query, drafts |-> drafts, made |-> made, padded |-> padded,
                   live |-> batch]
  <1>1. /\ flight' = Append(flight, s) /\ batch /= {} /\ n \in Shares
        /\ Cardinality(running \cup join) =< conf.seqs
        /\ \A r \in join : r \notin running
    BY DEF schedule, Joins
  <1>2. /\ conf.k \in Ladder(conf) /\ Ladder(conf) \cup {0} \subseteq Nat
        /\ conf.chunks \subseteq Int /\ conf.seqs \in Nat
        /\ running \subseteq Req /\ batch \subseteq running \cup join /\ batch \subseteq Req
        /\ \A r \in running : spec[r] \in Ladder(conf) \cup {0}
    BY LadderTyped, DepthAssumption DEF IInv
  <1>3. ASSUME NEW r \in old PROVE n[r] \in Nat /\ n[r] - 1 \in 0 .. spec[r]
    <2>1. n \in [running -> 0 .. conf.k + 1] /\ n[r] =< Want(r) /\ r \in running /\ n[r] > 0
      BY <1>1 DEF Shares
    <2>2. n[r] \in Nat
      BY <1>2, <2>1
    <2>3. Want(r) \in Nat /\ Want(r) =< spec[r] + 1 /\ spec[r] \in Nat
      BY <1>2, <2>1, WantBound
    <2> HIDE DEF old
    <2> QED
      BY <2>1, <2>2, <2>3
  <1>4. ASSUME NEW r \in batch
        PROVE made[r] \in Ladder(conf) \cup {0} /\ drafts[r] \in 0 .. made[r]
    <2>1. CASE r \in old
      <3>1. made[r] = spec[r] /\ drafts[r] = n[r] - 1
        BY <2>1
      <3> QED
        BY <1>2, <1>3, <2>1, <3>1
    <2>2. CASE r \notin old
      <3>1. made[r] \in {conf.k, 0} /\ drafts[r] = made[r]
        BY <2>2
      <3>2. made[r] \in Nat
        BY <1>2, <3>1
      <3> HIDE DEF made, drafts
      <3> QED
        BY <1>2, <3>1, <3>2
    <2> QED
      BY <2>1, <2>2
  <1>5. ASSUME NEW r \in batch PROVE made[r] \in Int /\ drafts[r] \in Int
    <2> HIDE DEF made, drafts
    <2>1. made[r] \in Nat
      BY <1>2, <1>4
    <2> QED
      BY <1>4, <2>1
  <1>6. made \in [batch -> Int] /\ drafts \in [batch -> Int]
    BY <1>5
  <1>7. query \in [batch -> Int]
    <2> SUFFICES ASSUME NEW r \in batch
                 PROVE  (IF r \in join /\ chunk > 0 THEN chunk ELSE drafts[r] + 1) \in Int
      OBVIOUS
    <2>1. drafts[r] \in Int /\ chunk \in Int
      BY <1>2, <1>5
    <2> HIDE DEF drafts
    <2> QED
      BY <2>1
  <1>8. s \in Steps
    <2>1. made \in Fn /\ drafts \in Fn /\ query \in Fn
      BY <1>2, <1>6, <1>7 DEF Fn
    <2>2. padded \in SUBSET Req /\ batch \in SUBSET Req
      BY <1>2
    <2> HIDE DEF made, drafts, query, padded, batch
    <2> QED
      BY <2>1, <2>2 DEF Steps
  <1>9. Cardinality(batch) =< conf.seqs
    <2>1. IsFiniteSet(running \cup join)
      BY <1>2, DepthAssumption, FS_Subset
    <2>2. batch \in SUBSET (running \cup join)
      BY <1>2
    <2> HIDE DEF batch
    <2>3. IsFiniteSet(batch) /\ Cardinality(batch) =< Cardinality(running \cup join)
      BY <2>1, <2>2, FS_Subset
    <2>4. Cardinality(batch) \in Nat /\ Cardinality(running \cup join) \in Nat
      BY <2>1, <2>3, FS_CardinalityType
    <2> QED
      BY <1>1, <1>2, <2>3, <2>4
  <1>10. StepOK(s)
    <2>1. DOMAIN s.query = batch /\ DOMAIN s.drafts = batch /\ DOMAIN s.made = batch
      OBVIOUS
    <2>2. \A r \in batch : s.made[r] \in Ladder(conf) \cup {0} /\ s.drafts[r] \in 0 .. s.made[r]
      BY <1>4
    <2> HIDE DEF s, batch
    <2> QED
      BY <1>1, <1>2, <1>9, <2>1, <2>2 DEF StepOK
  <1>11. ASSUME NEW r \in Other(s) PROVE r \in batch /\ r \in running /\ spec[r] /= depth
    <2>1. r \in batch /\ drafts[r] > 0 /\ r \notin padded /\ made[r] /= depth
      BY DEF Other, Samples
    <2>2. CASE r \in old
      BY <2>1, <2>2
    <2>3. CASE r \notin old
      BY <2>1, <2>3
    <2> QED
      BY <2>2, <2>3
  <1>12. s.live = batch /\ DOMAIN s.drafts = batch
    OBVIOUS
  <1> HIDE DEF s, batch
  <1>13. Appended(n, join, s)
    BY <1>1, <1>8, <1>10, <1>11, <1>12 DEF Appended, batch, old
  <1> QED
    BY <1>13

\* Both ways to schedule.
LEMMA Scheduling ==
    ASSUME IInv, Decode \/ Admit
    PROVE  \E n \in Shares, join \in SUBSET Req, chunk \in conf.chunks \cup {0},
              left \in Nat \cup {Far} : schedule(n, join, chunk, left)
  <1>1. CASE Decode
    <2>1. PICK n \in Shares : schedule(n, {}, 0, Far)
      BY <1>1 DEF Decode
    <2>2. {} \in SUBSET Req /\ 0 \in conf.chunks \cup {0} /\ Far \in Nat \cup {Far}
      OBVIOUS
    <2> QED
      BY <2>1, <2>2, Zenon
  <1>2. CASE Admit
    <2>1. PICK n \in Shares, r \in Req, chunk \in conf.chunks \cup {0}, left \in conf.rooms :
            schedule(n, {r}, chunk, left)
      BY <1>2 DEF Admit
    <2>2. left \in Nat \cup {Far} /\ {r} \in SUBSET Req
      BY DepthAssumption DEF IInv
    <2> QED
      BY <2>1, <2>2, Zenon
  <1> QED
    BY <1>1, <1>2

\* What the verification of the oldest step may be.
LEMMA Acceptance ==
    ASSUME IInv, NEW acc, update_from_output(acc)
    PROVE  LET s == Head(flight) IN
           /\ s = flight[1] /\ 1 \in DOMAIN flight /\ s \in Steps /\ StepOK(s)
           /\ Samples(s) \in SUBSET Req
           /\ \A r \in Samples(s) : s.drafts[r] \in Nat /\ acc[r] \in 0 .. s.drafts[r]
  <1> DEFINE s == Head(flight)
  <1>1. s = flight[1] /\ 1 \in DOMAIN flight
    BY DEF IInv, update_from_output
  <1>2. s \in Steps /\ StepOK(s) /\ s.live \subseteq DOMAIN s.drafts /\ conf \in Configs
    BY <1>1 DEF IInv
  <1>3. \A r \in Samples(s) : acc[r] \in Accepts(s, r)
    BY DEF update_from_output
  <1> HIDE DEF s
  <1>4. \A r \in Samples(s) : s.drafts[r] \in Nat
    <2> SUFFICES ASSUME NEW r \in Samples(s) PROVE s.drafts[r] \in Nat
      OBVIOUS
    <2>1. s.drafts[r] \in 0 .. s.made[r]
      BY <1>2 DEF StepOK, Samples
    <2> QED
      BY <2>1
  <1>5. ASSUME NEW r \in Samples(s) PROVE acc[r] \in 0 .. s.drafts[r]
    <2>1. Accepts(s, r) \in {{0}, {s.drafts[r]}, 0 .. s.drafts[r]}
      BY DEF Accepts
    <2>2. acc[r] \in Accepts(s, r) /\ s.drafts[r] \in Nat
      BY <1>3, <1>4
    <2> HIDE DEF Accepts
    <2>3. CASE Accepts(s, r) = {0}
      BY <2>2, <2>3
    <2>4. CASE Accepts(s, r) = {s.drafts[r]}
      BY <2>2, <2>4
    <2>5. CASE Accepts(s, r) = 0 .. s.drafts[r]
      BY <2>2, <2>5
    <2> QED
      BY <2>1, <2>3, <2>4, <2>5
  <1>6. Samples(s) \in SUBSET Req
    BY <1>2 DEF Steps, Samples
  <1> QED
    BY <1>1, <1>2, <1>4, <1>5, <1>6 DEF s

\* A scheduled step keeps the invariant.
LEMMA ScheduleIInv ==
    ASSUME IInv, NEW n, NEW join \in SUBSET Req, NEW chunk \in conf.chunks \cup {0},
           NEW left \in Nat \cup {Far}, schedule(n, join, chunk, left)
    PROVE  IInv'
  <1> DEFINE old == {r \in running : n[r] > 0}
  <1>1. /\ conf' = conf /\ phase' = phase /\ depth' = depth
        /\ phase = "serving" /\ running' = running \cup join /\ n \in Shares
        /\ spec' = [r \in Req |-> IF r \in old \cup join THEN NextDrafts ELSE spec[r]]
        /\ room' = [r \in Req |-> IF r \in join THEN left
                                  ELSE IF r \in old /\ room[r] /= Far THEN room[r] - n[r]
                                  ELSE room[r]]
    BY DEF schedule
  <1> HIDE DEF old
  <1>s. PICK s : Appended(n, join, s)
    BY StepScheduled
  <1>2. flight' = Append(flight, s) /\ s \in Steps /\ StepOK(s) /\ s.live = DOMAIN s.drafts
    BY <1>s DEF Appended
  <1>3. /\ flight' \in Seq(Steps)
        /\ \A i \in DOMAIN flight' : StepOK(flight'[i]) /\ flight'[i].live \subseteq DOMAIN flight'[i].drafts
    BY <1>2 DEF IInv
  <1>4. \A i \in DOMAIN flight' : StepOK(flight[i])'
    BY <1>1, <1>3 DEF StepOK
  <1>5. spec' \in [Req -> Ladder(conf) \cup {0}]
    BY <1>1 DEF IInv, NextDrafts
  <1>6. ASSUME NEW r \in old, room[r] /= Far PROVE room[r] - n[r] \in Nat
    <2>1. n \in [running -> 0 .. conf.k + 1] /\ n[r] =< Want(r) /\ r \in running /\ r \in Req
      BY <1>1 DEF Shares, IInv, old
    <2>2. room[r] \in Nat /\ Want(r) \in Nat /\ Want(r) =< room[r]
      BY <1>6, <2>1, WantBound
    <2>3. n[r] \in Nat
      BY <2>1, LadderTyped DEF IInv
    <2> HIDE DEF old
    <2> QED
      BY <2>1, <2>2, <2>3
  <1>7. room' \in [Req -> Nat \cup {Far}]
    <2> HIDE DEF old
    <2>1. room \in [Req -> Nat \cup {Far}]
      BY DEF IInv
    <2> QED
      BY <1>1, <1>6, <2>1
  <1>8. running' \subseteq Req
    BY <1>1 DEF IInv
  <1>9. phase' = "serving" /\ ~Refused(conf)
    BY <1>1 DEF IInv
  <1> QED
    BY <1>1, <1>3, <1>4, <1>5, <1>7, <1>8, <1>9 DEF IInv

\* The steps that are left when the oldest is processed.
LEMMA TailOf ==
    ASSUME NEW S, NEW q \in Seq(S), q /= <<>>
    PROVE  /\ Tail(q) \in Seq(S) /\ Len(Tail(q)) = Len(q) - 1
           /\ DOMAIN Tail(q) = 1 .. Len(q) - 1
           /\ \A i \in 1 .. Len(q) - 1 : i + 1 \in DOMAIN q /\ Tail(q)[i] = q[i + 1]
  OBVIOUS

\* So does a processed one.
LEMMA ProcessIInv ==
    ASSUME IInv, NEW acc, update_from_output(acc)
    PROVE  IInv'
  <1> DEFINE s == Head(flight)
             back == [r \in Req |-> IF r \in Samples(s) /\ room[r] /= Far
                                    THEN room[r] + s.drafts[r] - acc[r] ELSE room[r]]
             ended == {r \in s.live : /\ back[r] = 0
                                      /\ \A i \in DOMAIN flight \ {1} : r \notin flight[i].live}
  <1>1. /\ flight /= <<>> /\ flight' = Tail(flight) /\ conf' = conf /\ phase' = phase
        /\ running' = running \ ended
        /\ spec' = [r \in Req |-> IF r \in ended THEN 0 ELSE spec[r]]
        /\ room' = [r \in Req |-> IF r \in ended THEN Far ELSE back[r]]
        /\ observe_batch(s.drafts, acc, Samples(s))
    BY DEF update_from_output
  <1>2. depth' \in Ladder(conf)
    <2> HIDE DEF s
    <2> QED
      BY <1>1, TargetInLadder DEF observe_batch, IInv
  <1>3. flight \in Seq(Steps)
    BY DEF IInv
  <1>4. /\ flight' \in Seq(Steps)
        /\ \A i \in DOMAIN flight' : i + 1 \in DOMAIN flight /\ flight'[i] = flight[i + 1]
    <2> HIDE DEF s, ended, back
    <2> QED
      BY <1>1, <1>3, TailOf
  <1>5. \A i \in DOMAIN flight' : StepOK(flight'[i]) /\ flight'[i].live \subseteq DOMAIN flight'[i].drafts
    BY <1>4 DEF IInv
  <1>6. \A i \in DOMAIN flight' : StepOK(flight[i])'
    BY <1>1, <1>5 DEF StepOK
  <1>7. \A r \in Req : back[r] \in Nat \cup {Far}
    <2> SUFFICES ASSUME NEW r \in Req PROVE back[r] \in Nat \cup {Far}
      OBVIOUS
    <2>1. room[r] \in Nat \cup {Far}
      BY DEF IInv
    <2>2. CASE r \in Samples(s) /\ room[r] /= Far
      <3>1. s.drafts[r] \in Nat /\ acc[r] \in 0 .. s.drafts[r]
        BY <2>2, Acceptance
      <3>2. back[r] = room[r] + s.drafts[r] - acc[r] /\ room[r] \in Nat
        BY <2>1, <2>2
      <3> HIDE DEF back, s
      <3> QED
        BY <3>1, <3>2
    <2>3. CASE ~(r \in Samples(s) /\ room[r] /= Far)
      BY <2>1, <2>3
    <2> QED
      BY <2>2, <2>3
  <1> HIDE DEF s, back, ended
  <1>8. room' \in [Req -> Nat \cup {Far}] /\ running' \subseteq Req
    BY <1>1, <1>7 DEF IInv
  <1>9. spec' \in [Req -> Ladder(conf) \cup {0}]
    BY <1>1 DEF IInv
  <1>10. phase' = "serving" \/ flight' = <<>>
    BY <1>1 DEF IInv
  <1> QED
    BY <1>1, <1>2, <1>4, <1>5, <1>6, <1>8, <1>9, <1>10 DEF IInv

\* A departure takes a request from every step in flight, and nothing else of it.
LEMMA LeaveKeeps ==
    ASSUME IInv, NEW r \in Req, leave(r)
    PROVE  /\ DOMAIN flight' = DOMAIN flight /\ Len(flight') = Len(flight)
           /\ flight' \in Seq(Steps)
           /\ \A i \in DOMAIN flight :
                /\ flight'[i].query = flight[i].query /\ flight'[i].drafts = flight[i].drafts
                /\ flight'[i].made = flight[i].made /\ flight'[i].padded = flight[i].padded
                /\ flight'[i].live = flight[i].live \ {r}
  <1>1. flight' = [i \in DOMAIN flight |-> [flight[i] EXCEPT !.live = @ \ {r}]]
    BY DEF leave
  <1>2. \A i \in DOMAIN flight : flight[i] \in Steps
    BY DEF IInv
  <1>3. ASSUME NEW i \in DOMAIN flight
        PROVE  /\ flight'[i] \in Steps
               /\ flight'[i].query = flight[i].query /\ flight'[i].drafts = flight[i].drafts
               /\ flight'[i].made = flight[i].made /\ flight'[i].padded = flight[i].padded
               /\ flight'[i].live = flight[i].live \ {r}
    BY <1>1, <1>2 DEF Steps
  <1>4. DOMAIN flight = 1 .. Len(flight) /\ Len(flight) \in Nat
    BY DEF IInv
  <1>5. flight' \in [1 .. Len(flight) -> Steps]
    BY <1>1, <1>3, <1>4
  <1>6. flight' \in Seq(Steps) /\ Len(flight') = Len(flight)
    BY <1>4, <1>5
  <1> QED
    BY <1>1, <1>3, <1>6

\* The configuration is the one the server was started with.
LEMMA ConfKept == ASSUME [Next]_vars PROVE conf' = conf
  <1>1. CASE Decode
    BY <1>1 DEF Decode, schedule
  <1>2. CASE Admit
    BY <1>2 DEF Admit, schedule
  <1>3. CASE Process
    BY <1>3 DEF Process, update_from_output
  <1>4. CASE _init_candidates \/ TextChanges \/ UNCHANGED vars
    BY <1>4 DEF _init_candidates, TextChanges, vars
  <1>5. CASE \E r \in Req : leave(r)
    BY <1>5 DEF leave
  <1> QED
    BY <1>1, <1>2, <1>3, <1>4, <1>5 DEF Next

\* Every step of the specification preserves the invariant.
LEMMA NextIInv == IInv /\ [Next]_vars => IInv'
  <1> SUFFICES ASSUME IInv, [Next]_vars PROVE IInv'
    OBVIOUS
  <1> DEFINE SameFlight == flight' = flight /\ conf' = conf
  <1>0. ASSUME SameFlight PROVE \A i \in DOMAIN flight' : StepOK(flight[i])'
    BY <1>0 DEF IInv, StepOK
  <1>1. CASE _init_candidates
    <2>1. SameFlight /\ UNCHANGED <<depth, running, spec, room>> /\ flight = <<>>
      BY <1>1 DEF _init_candidates, IInv
    <2>2. phase' = IF Refused(conf) THEN "refused" ELSE "serving"
      BY <1>1 DEF _init_candidates
    <2>3. phase' = "serving" => ~Refused(conf)
      BY <2>2
    <2> QED
      BY <1>0, <2>1, <2>3 DEF IInv
  <1>2. CASE Decode \/ Admit
    <2>1. PICK n \in Shares, join \in SUBSET Req, chunk \in conf.chunks \cup {0},
                left \in Nat \cup {Far} :
            schedule(n, join, chunk, left)
      BY <1>2, Scheduling
    <2> QED
      BY <2>1, ScheduleIInv
  <1>3. CASE Process
    BY <1>3, ProcessIInv DEF Process
  <1>4. CASE TextChanges
    <2>1. SameFlight /\ UNCHANGED <<phase, depth, running, spec, room>>
      BY <1>4 DEF TextChanges
    <2> QED
      BY <1>0, <2>1 DEF IInv
  <1>5. ASSUME NEW r \in Req, leave(r) PROVE IInv'
    <2>1. /\ conf' = conf /\ phase' = phase /\ depth' = depth
          /\ running' = running \ {r} /\ spec' = [spec EXCEPT ![r] = 0]
          /\ room' = [room EXCEPT ![r] = Far]
      BY <1>5 DEF leave
    <2>2. /\ DOMAIN flight' = DOMAIN flight /\ Len(flight') = Len(flight) /\ flight' \in Seq(Steps)
          /\ \A i \in DOMAIN flight :
               /\ flight'[i].query = flight[i].query /\ flight'[i].drafts = flight[i].drafts
               /\ flight'[i].made = flight[i].made /\ flight'[i].live = flight[i].live \ {r}
      BY <1>5, LeaveKeeps
    <2>3. ASSUME NEW i \in DOMAIN flight'
          PROVE  StepOK(flight[i])' /\ flight'[i].live \subseteq DOMAIN flight'[i].drafts
      <3>1. StepOK(flight[i]) /\ i \in DOMAIN flight /\ flight[i].live \subseteq DOMAIN flight[i].drafts
        BY <2>2 DEF IInv
      <3> QED
        BY <2>1, <2>2, <3>1 DEF StepOK
    <2>4. flight = <<>> => flight' = <<>>
      BY <2>2
    <2>5. /\ spec' \in [Req -> Ladder(conf) \cup {0}] /\ running' \subseteq Req
          /\ room' \in [Req -> Nat \cup {Far}]
      BY <2>1 DEF IInv
    <2> QED
      BY <2>1, <2>2, <2>3, <2>4, <2>5 DEF IInv
  <1>6. CASE UNCHANGED vars
    <2>1. SameFlight /\ UNCHANGED <<phase, depth, running, spec, room>>
      BY <1>6 DEF vars
    <2> QED
      BY <1>0, <2>1 DEF IInv
  <1> QED
    BY <1>1, <1>2, <1>3, <1>4, <1>5, <1>6 DEF Next

\* The invariant, and what is proved of SpecDepth as a whole.
LEMMA Invariance == Spec => []IInv
  BY InitIInv, NextIInv, PTL DEF Spec

\* What the invariant says of the steps in flight.
LEMMA IInvReplays == IInv => UniformStepsReplay
  <1> SUFFICES ASSUME IInv, NEW i \in DOMAIN flight,
                      Uniform(flight[i]), Cardinality(DOMAIN flight[i].query) =< 32,
                      \/ Separate(conf) /\ Uncut(flight[i])
                      \/ ~Separate(conf) /\ \E t \in conf.sizes : t >= (conf.k + 1) * conf.seqs
               PROVE  Replays(flight[i])
    BY DEF UniformStepsReplay
  <1> DEFINE s == flight[i]
             q == UniformCount(s)
             n == Cardinality(DOMAIN s.query)
  <1>1. StepOK(s) /\ conf \in Configs /\ ~Refused(conf)
    BY DEF IInv
  <1>2. n \in Nat \ {0} /\ n =< conf.seqs
    <2>1. IsFiniteSet(DOMAIN s.query) /\ DOMAIN s.query /= {}
      BY <1>1, DepthAssumption, FS_Subset DEF StepOK
    <2> QED
      BY <1>1, <2>1, FS_CardinalityType, FS_EmptySet DEF StepOK
  <1>3. PICK d \in 0 .. conf.k : q = d + 1 /\ (Uncut(s) => d \in Ladder(conf))
    <2>1. PICK r \in DOMAIN s.drafts : /\ s.made[r] \in Ladder(conf) \cup {0}
                                       /\ s.drafts[r] \in 0 .. s.made[r]
      BY <1>1 DEF StepOK
    <2>2. s.drafts[r] + 1 = q /\ q > 1
      BY <2>1 DEF Uniform
    <2>3. s.made[r] \in 0 .. conf.k /\ conf.k \in Nat
      BY <1>1, <2>1, LadderTyped
    <2>4. s.drafts[r] \in 0 .. conf.k /\ s.drafts[r] /= 0
      BY <2>1, <2>2, <2>3
    <2>5. Uncut(s) => s.drafts[r] \in Ladder(conf)
      BY <2>1, <2>4 DEF Uncut
    <2> QED
      BY <2>2, <2>4, <2>5
  <1>4. Separate(conf) \/ Mode(conf) = "FULL"
    BY <1>1, DepthAssumption DEF Refused, Separate, Mode
  <1>5. n =< 32
    OBVIOUS
  <1>6. Replays(s) <=> dispatch(Candidates(conf, q * n), n, q * n, q) = "FULL"
    BY DEF Replays
  <1> HIDE DEF q, n
  <1>7. CASE Separate(conf)
    <2>1. d \in Ladder(conf)
      BY <1>3, <1>7
    <2>2. dispatch(Candidates(conf, (d + 1) * n), n, (d + 1) * n, d + 1) = "FULL"
      BY <1>1, <1>2, <1>5, <1>7, <2>1, SeparateReplays
    <2> QED
      BY <1>3, <1>6, <2>2
  <1>8. CASE ~Separate(conf)
    <2>1. PICK t \in conf.sizes : t >= (conf.k + 1) * conf.seqs
      BY <1>8
    <2>2. dispatch(Candidates(conf, (d + 1) * n), n, (d + 1) * n, d + 1) = "FULL"
      BY <1>1, <1>2, <1>4, <1>8, <2>1, FullReplays
    <2> QED
      BY <1>3, <1>6, <2>2
  <1> QED
    BY <1>7, <1>8

-----------------------------------------------------------------------------
(* Theorems *)

\* For every ladder, capture size, batch limit, window, token budget and length of
\* request: a uniform verification step of at most 32 requests is off the FULL graphs
\* only when decodes have graphs of their own and its drafts were cut, whichever
\* depth the controller has moved to and however far behind the steps in flight are.
THEOREM DepthsHaveGraphs == Spec => []UniformStepsReplay
  BY Invariance, IInvReplays, PTL

\* The depth, the placeholders of every request and the drafts made for every step
\* in flight are rungs of the configured ladder, for every acceptance history and
\* pipeline depth; what token budget, threshold and max_model_len leave of a step's
\* drafts is never more than was made.
THEOREM DepthOnLadder ==
    Spec => [](/\ depth \in Ladder(conf)
               /\ \A r \in Req : spec[r] \in Ladder(conf) \cup {0}
               /\ \A i \in DOMAIN flight : \A r \in DOMAIN flight[i].drafts :
                    /\ flight[i].made[r] \in Ladder(conf) \cup {0}
                    /\ flight[i].drafts[r] \in 0 .. flight[i].made[r])
  <1>1. IInv => /\ depth \in Ladder(conf)
                /\ \A r \in Req : spec[r] \in Ladder(conf) \cup {0}
                /\ \A i \in DOMAIN flight : \A r \in DOMAIN flight[i].drafts :
                     /\ flight[i].made[r] \in Ladder(conf) \cup {0}
                     /\ flight[i].drafts[r] \in 0 .. flight[i].made[r]
    BY DEF IInv, StepOK
  <1> QED
    BY <1>1, Invariance, PTL

-----------------------------------------------------------------------------
(* Types *)

\* A window is at most as long as configured.
LEMMA WindowLength ==
    ASSUME conf \in Configs
    PROVE  EffectiveWindow \in Nat /\ EffectiveWindow =< conf.window
  <1>1. conf.window \in Nat \ {0}
    BY DepthAssumption
  <1>2. conf.window \div 2 \in Nat /\ conf.window \div 2 =< conf.window
    BY <1>1
  <1> DEFINE S == {1, conf.window \div 2}
  <1>3. S \subseteq 0 .. conf.window /\ S /= {}
    BY <1>1, <1>2
  <1>4. Max(S) \in S
    BY <1>1, <1>3, MaxExists
  <1> QED
    BY <1>1, <1>3, <1>4 DEF EffectiveWindow

\* The counters of a window: the accepted tokens are among the drafted ones, and
\* no position was accepted more often than there were drafts.
WindowOK(w) ==
    /\ w.drafts \in Nat /\ w.tokens \in Nat
    /\ w.accepted \in 0 .. w.tokens /\ w.at \in [Positions -> 0 .. w.drafts]

\* What update_from_output adds up keeps the counters in these bounds.
LEMMA ObservedOK ==
    ASSUME conf \in Configs, WindowOK(win), win.steps \in Nat,
           NEW live \in SUBSET Req, NEW drafts, NEW acc,
           \A r \in live : drafts[r] \in Nat /\ acc[r] \in 0 .. drafts[r]
    PROVE  /\ WindowOK(Observed(drafts, acc, live))
           /\ Observed(drafts, acc, live).steps = win.steps + 1
  <1> DEFINE w == Observed(drafts, acc, live)
             At(p) == {r \in live : acc[r] >= p}
  <1>1. /\ w.steps = win.steps + 1
        /\ w.drafts = win.drafts + Cardinality(live)
        /\ w.tokens = win.tokens + SumOver(drafts, live)
        /\ w.accepted = win.accepted + SumOver(acc, live)
        /\ w.at = [p \in Positions |-> win.at[p] + Cardinality(At(p))]
    BY DEF Observed, SumOver
  <1>2. IsFiniteSet(live) /\ Cardinality(live) \in Nat
    BY DepthAssumption, FS_Subset, FS_CardinalityType
  <1>3. SumOver(drafts, live) \in Nat /\ SumOver(acc, live) \in 0 .. SumOver(drafts, live)
    BY <1>2, SumBounds
  <1>4. \A p : Cardinality(At(p)) \in Nat /\ Cardinality(At(p)) =< Cardinality(live)
    <2> TAKE p
    <2>1. At(p) \in SUBSET live
      OBVIOUS
    <2> QED
      BY <1>2, <2>1, FS_Subset, FS_CardinalityType
  <1> HIDE DEF w, At
  <1>5. w.at \in [Positions -> 0 .. w.drafts]
    BY <1>1, <1>2, <1>4 DEF WindowOK
  <1>6. w.tokens \in Nat /\ w.accepted \in 0 .. w.tokens
    BY <1>1, <1>3 DEF WindowOK
  <1> QED
    BY <1>1, <1>2, <1>5, <1>6 DEF WindowOK, w

\* A fresh window is within its bounds.
LEMMA ZeroOK == conf \in Configs => WindowOK(ZeroWindow) /\ ZeroWindow.steps = 0
  BY DEF WindowOK, ZeroWindow, Positions

\* What TypeOK says beyond the invariant.
Shape ==
    /\ phase \in {"starting", "serving", "refused"}
    /\ WindowOK(win) /\ win.steps \in 0 .. conf.window - 1
    /\ Len(flight) =< conf.batches

\* The shape implies the type invariant.
LEMMA ShapeTypes == IInv /\ Shape => TypeOK
  <1> SUFFICES ASSUME IInv, Shape PROVE TypeOK
    OBVIOUS
  <1>1. Ladder(conf) \cup {0} \subseteq 0 .. conf.k
    BY LadderTyped DEF IInv
  <1>2. spec \in [Req -> 0 .. conf.k]
    BY <1>1 DEF IInv
  <1>3. \A i \in DOMAIN flight : \A r \in DOMAIN flight[i].drafts :
            flight[i].drafts[r] \in 0 .. conf.k
    <2> SUFFICES ASSUME NEW i \in DOMAIN flight, NEW r \in DOMAIN flight[i].drafts
                 PROVE  flight[i].drafts[r] \in 0 .. conf.k
      OBVIOUS
    <2>1. /\ flight[i].made[r] \in Ladder(conf) \cup {0}
          /\ flight[i].drafts[r] \in 0 .. flight[i].made[r]
      BY DEF IInv, StepOK
    <2>2. flight[i].made[r] \in 0 .. conf.k /\ conf.k \in Nat
      BY <1>1, <2>1, LadderTyped DEF IInv
    <2> QED
      BY <2>1, <2>2
  <1> QED
    BY <1>2, <1>3 DEF IInv, Shape, TypeOK, WindowOK

\* An empty window has the shape.
LEMMA ShapeInit == Init => Shape
  <1> SUFFICES ASSUME Init PROVE Shape
    OBVIOUS
  <1>1. conf \in Configs /\ conf.window \in Nat \ {0} /\ conf.batches \in Nat \ {0}
    BY DepthAssumption DEF Init
  <1>2. WindowOK(win) /\ win.steps = 0
    BY <1>1, ZeroOK DEF Init
  <1>3. Len(flight) = 0 /\ DOMAIN flight = {}
    BY DEF Init
  <1> QED
    BY <1>1, <1>2, <1>3 DEF Init, Shape

\* An observed step adds to each counter of the window no more than its requests
\* and its depth allow, and a full window is emptied.
LEMMA ShapeStep == IInv /\ Shape /\ [Next]_vars => Shape'
  <1> SUFFICES ASSUME IInv, Shape, [Next]_vars PROVE Shape'
    OBVIOUS
  <1>c. conf' = conf
    BY ConfKept
  <1>0. /\ conf \in Configs /\ conf.window \in Nat \ {0} /\ conf.batches \in Nat \ {0}
        /\ flight \in Seq(Steps) /\ Len(flight) \in Nat
    BY DepthAssumption DEF IInv
  <1>w. ASSUME win' = win PROVE WindowOK(win)' /\ win'.steps \in 0 .. conf'.window - 1
    BY <1>w, <1>c DEF Shape, WindowOK, Positions
  <1>1. CASE _init_candidates
    <2>1. win' = win /\ flight' = flight /\ phase' \in {"refused", "serving"}
      BY <1>1 DEF _init_candidates
    <2> QED
      BY <1>c, <1>w, <2>1 DEF Shape
  <1>2. CASE Decode \/ Admit
    <2>1. PICK n \in Shares, join \in SUBSET Req, chunk \in conf.chunks \cup {0},
                left \in Nat \cup {Far} :
            schedule(n, join, chunk, left)
      BY <1>2, Scheduling
    <2>2. Len(flight) < conf.batches /\ win' = win /\ phase' = phase
      BY <2>1 DEF schedule
    <2>s. PICK s : Appended(n, join, s)
      BY <2>1, StepScheduled
    <2>3. flight' = Append(flight, s)
      BY <2>s DEF Appended
    <2>4. Len(flight') = Len(flight) + 1
      BY <1>0, <2>3
    <2>5. Len(flight') =< conf'.batches
      BY <1>0, <1>c, <2>2, <2>4
    <2> QED
      BY <1>w, <2>2, <2>5 DEF Shape
  <1>3. CASE Process
    <2>1. PICK acc : update_from_output(acc)
      BY <1>3 DEF Process
    <2> DEFINE s == Head(flight)
               w == Observed(s.drafts, acc, Samples(s))
    <2>2. /\ flight /= <<>> /\ flight' = Tail(flight) /\ phase' = phase
          /\ IF Samples(s) = {} \/ w.steps < EffectiveWindow
             THEN win' = (IF Samples(s) = {} THEN win ELSE w) /\ UNCHANGED depth
             ELSE depth' = Target(w) /\ win' = ZeroWindow
      BY <2>1 DEF update_from_output, observe_batch
    <2>3. WindowOK(w) /\ w.steps = win.steps + 1
      <3>1. /\ Samples(s) \in SUBSET Req
            /\ \A r \in Samples(s) : s.drafts[r] \in Nat /\ acc[r] \in 0 .. s.drafts[r]
        BY <2>1, Acceptance
      <3>2. WindowOK(win) /\ win.steps \in Nat
        BY <1>0 DEF Shape
      <3> HIDE DEF s
      <3> QED
        BY <1>0, <3>1, <3>2, ObservedOK
    <2> HIDE DEF w
    <2>4. \/ win' = win
          \/ win' = w /\ w.steps < EffectiveWindow
          \/ win' = ZeroWindow
      BY <2>2
    <2>5. WindowOK(win') /\ win'.steps \in 0 .. conf.window - 1
      <3>1. CASE win' = win
        BY <3>1 DEF Shape
      <3>2. CASE win' = w /\ w.steps < EffectiveWindow
        <4>1. win.steps \in Nat
          BY <1>0 DEF Shape
        <4>2. w.steps \in Nat /\ w.steps < conf.window
          BY <1>0, <2>3, <3>2, <4>1, WindowLength
        <4> QED
          BY <1>0, <2>3, <3>2, <4>2
      <3>3. CASE win' = ZeroWindow
        BY <1>0, <3>3, ZeroOK
      <3> QED
        BY <2>4, <3>1, <3>2, <3>3
    <2>6. WindowOK(win)' /\ win'.steps \in 0 .. conf'.window - 1
      BY <1>c, <2>5 DEF WindowOK, Positions
    <2>7. Len(flight') = Len(flight) - 1
      BY <1>0, <2>2, TailOf
    <2>8. Len(flight') =< conf'.batches
      BY <1>0, <1>c, <2>7 DEF Shape
    <2> QED
      BY <2>2, <2>6, <2>8 DEF Shape
  <1>4. CASE TextChanges
    <2>1. win' = win /\ flight' = flight /\ phase' = phase
      BY <1>4 DEF TextChanges
    <2> QED
      BY <1>c, <1>w, <2>1 DEF Shape
  <1>5. ASSUME NEW r \in Req, leave(r) PROVE Shape'
    <2>1. win' = win /\ phase' = phase
      BY <1>5 DEF leave
    <2>2. Len(flight') = Len(flight)
      BY <1>5, LeaveKeeps
    <2> QED
      BY <1>c, <1>w, <2>1, <2>2 DEF Shape
  <1>6. CASE UNCHANGED vars
    <2>1. win' = win /\ flight' = flight /\ phase' = phase
      BY <1>6 DEF vars
    <2> QED
      BY <1>c, <1>w, <2>1 DEF Shape
  <1> QED
    BY <1>1, <1>2, <1>3, <1>4, <1>5, <1>6 DEF Next

\* Windows, depths and steps in flight always have their shape.
LEMMA ShapeInvariance == Spec => [](IInv /\ Shape)
  <1>1. Init => IInv /\ Shape
    BY InitIInv, ShapeInit
  <1>2. IInv /\ Shape /\ [Next]_vars => (IInv /\ Shape)'
    BY NextIInv, ShapeStep
  <1> QED
    BY <1>1, <1>2, PTL DEF Spec

\* The window's counters stay within what they count for every window length and
\* any number of requests: accepted tokens never outnumber the drafted ones, nor
\* the acceptances of a position the drafts.
THEOREM DepthTypes == Spec => []TypeOK
  BY ShapeInvariance, ShapeTypes, PTL

-----------------------------------------------------------------------------
(* What the pipeline leaks into a window *)

\* The positions of a sequence.
LEMMA Prefix ==
    ASSUME NEW n \in Nat
    PROVE  IsFiniteSet(1 .. n) /\ Cardinality(1 .. n) = n
  <1>1. 1 \in Int /\ n \in Int
    OBVIOUS
  <1>2. IsFiniteSet(1 .. n) /\ Cardinality(1 .. n) = IF 1 > n THEN 0 ELSE n - 1 + 1
    BY <1>1, FS_Interval
  <1> QED
    BY <1>2

\* As many positions are left behind the first when the sequence moves up by one.
LEMMA Shift ==
    ASSUME NEW n \in Nat, NEW S \in SUBSET (1 .. n)
    PROVE  LET T == {i \in 1 .. n - 1 : i + 1 \in S}
           IN /\ IsFiniteSet(T) /\ IsFiniteSet(S)
              /\ Cardinality(T) = Cardinality(S) - (IF 1 \in S THEN 1 ELSE 0)
  <1> DEFINE T == {i \in 1 .. n - 1 : i + 1 \in S}
             U == S \ {1}
             f == [i \in T |-> i + 1]
  <1>1. IsFiniteSet(1 .. n) /\ IsFiniteSet(S)
    <2>1. IsFiniteSet(1 .. n)
      BY Prefix
    <2> QED
      BY <2>1, FS_Subset
  <1>2. IsFiniteSet(T)
    <2>1. T \in SUBSET (1 .. n)
      OBVIOUS
    <2> QED
      BY <1>1, <2>1, FS_Subset
  <1>3. f \in Bijection(T, U)
    <2>1. f \in [T -> U]
      OBVIOUS
    <2>2. \A i, j \in T : f[i] = f[j] => i = j
      OBVIOUS
    <2>3. ASSUME NEW u \in U PROVE \E i \in T : f[i] = u
      <3>1. u - 1 \in T /\ f[u - 1] = u
        OBVIOUS
      <3> QED
        BY <3>1
    <2> HIDE DEF f, T, U
    <2> QED
      BY <2>1, <2>2, <2>3 DEF Bijection, Injection, IsInjective, Surjection
  <1>4. Cardinality(U) = Cardinality(T)
    <2>1. ExistsBijection(T, U)
      BY <1>3 DEF ExistsBijection
    <2> HIDE DEF T, U, f
    <2> QED
      BY <1>2, <2>1, FS_Bijection
  <1>5. Cardinality(U) = IF 1 \in S THEN Cardinality(S) - 1 ELSE Cardinality(S)
    BY <1>1, FS_RemoveElement
  <1>6. Cardinality(S) \in Nat
    BY <1>1, FS_CardinalityType
  <1> QED
    BY <1>1, <1>2, <1>4, <1>5, <1>6

\* The steps in flight that will be samples of another depth for a request, and
\* whether its next one will be.
Behind(r) == {i \in DOMAIN flight : r \in Other(flight[i])}
Lag(r) == IF r \in running /\ spec[r] /= depth THEN 1 ELSE 0

\* These and the ones already counted are at most `batches', unless a new window
\* is about to forget the count.
StaleInv ==
    /\ foreign \in [Req -> 0 .. conf.batches]
    /\ \A r \in Req :
        /\ Cardinality(Behind(r)) + Lag(r) =< conf.batches
        /\ win.steps /= 0 => foreign[r] + Cardinality(Behind(r)) + Lag(r) =< conf.batches

\* Nothing is in flight, so nothing is left over.
LEMMA StaleInit == Init => StaleInv
  <1> SUFFICES ASSUME Init PROVE StaleInv
    OBVIOUS
  <1>1. conf.batches \in Nat
    BY DepthAssumption DEF Init
  <1>2. \A r \in Req : Behind(r) = {} /\ Lag(r) = 0
    BY DEF Init, Behind, Lag
  <1>3. foreign = [r \in Req |-> 0] /\ win.steps = 0
    BY DEF Init, ZeroWindow
  <1>4. Cardinality({}) = 0
    BY FS_EmptySet
  <1>5. foreign \in [Req -> 0 .. conf.batches]
    BY <1>1, <1>3
  <1>6. \A r \in Req : Cardinality(Behind(r)) + Lag(r) =< conf.batches
    BY <1>1, <1>2, <1>4
  <1> QED
    BY <1>3, <1>5, <1>6 DEF StaleInv

\* Counts are natural numbers.
LEMMA BehindFinite ==
    ASSUME IInv, NEW r
    PROVE  /\ Behind(r) \in SUBSET (1 .. Len(flight)) /\ IsFiniteSet(Behind(r))
           /\ Cardinality(Behind(r)) \in 0 .. Len(flight) /\ Len(flight) \in Nat
           /\ Lag(r) \in {0, 1}
  <1>1. Behind(r) \in SUBSET (1 .. Len(flight)) /\ Len(flight) \in Nat
    BY DEF IInv, Behind
  <1>2. IsFiniteSet(1 .. Len(flight)) /\ Cardinality(1 .. Len(flight)) = Len(flight)
    BY <1>1, Prefix
  <1>3. IsFiniteSet(Behind(r)) /\ Cardinality(Behind(r)) =< Len(flight)
    BY <1>1, <1>2, FS_Subset
  <1>4. Cardinality(Behind(r)) \in Nat
    BY <1>3, FS_CardinalityType
  <1> QED
    BY <1>1, <1>3, <1>4 DEF Lag

\* A step is scheduled: what lagged may now be in flight.
LEMMA StaleSchedule ==
    ASSUME IInv, IInv', NEW n, NEW join \in SUBSET Req, NEW chunk \in conf.chunks \cup {0},
           NEW left, schedule(n, join, chunk, left), NEW r \in Req
    PROVE  Cardinality(Behind(r))' + Lag(r)' =< Cardinality(Behind(r)) + Lag(r)
  <1> DEFINE L == Len(flight)
  <1>s. PICK s : Appended(n, join, s)
    BY StepScheduled
  <1>1. /\ depth' = depth /\ running' = running \cup join /\ \A q \in join : q \notin running
        /\ spec' = [q \in Req |-> IF q \in {x \in running : n[x] > 0} \cup join
                                  THEN NextDrafts ELSE spec[q]]
    BY DEF schedule, Joins
  <1>2. /\ flight' = Append(flight, s) /\ s.live = {x \in running : n[x] > 0} \cup join
        /\ \A q \in Other(s) : q \in s.live /\ q \in running /\ spec[q] /= depth
    BY <1>s DEF Appended
  <1>3. /\ L \in Nat /\ DOMAIN flight = 1 .. L /\ DOMAIN flight' = 1 .. L + 1
        /\ flight'[L + 1] = s /\ \A i \in 1 .. L : flight'[i] = flight[i]
    BY <1>2 DEF IInv
  <1>4. \A t : Other(t)' = Other(t)
    BY <1>1 DEF Other
  <1>5. Behind(r)' = {i \in DOMAIN flight' : r \in Other(flight'[i])}
    BY <1>1 DEF Behind, Other
  <1>6. IsFiniteSet(Behind(r)) /\ L + 1 \notin Behind(r) /\ Cardinality(Behind(r)) \in Nat
    <2>1. IsFiniteSet(Behind(r)) /\ Cardinality(Behind(r)) \in Nat
      BY BehindFinite
    <2>2. L + 1 \notin DOMAIN flight
      BY <1>3
    <2> QED
      BY <2>1, <2>2 DEF Behind
  <1>7. CASE r \in Other(s)
    <2>1. Behind(r)' = Behind(r) \cup {L + 1}
      BY <1>3, <1>5, <1>7 DEF Behind
    <2>2. Cardinality(Behind(r))' = Cardinality(Behind(r)) + 1
      BY <1>6, <2>1, FS_AddElement
    <2>3. Lag(r) = 1
      BY <1>2, <1>7 DEF Lag
    <2>4. Lag(r)' = 0
      <3>1. spec'[r] = depth'
        BY <1>1, <1>2, <1>7 DEF NextDrafts
      <3> QED
        BY <3>1 DEF Lag
    <2> QED
      BY <1>6, <2>2, <2>3, <2>4
  <1>8. CASE r \notin Other(s)
    <2>1. Behind(r)' = Behind(r)
      BY <1>3, <1>5, <1>8 DEF Behind
    <2>2. Lag(r)' =< Lag(r)
      <3>1. CASE r \in s.live
        <4>1. spec'[r] = depth'
          BY <1>1, <1>2, <3>1 DEF NextDrafts
        <4>2. Lag(r)' = 0
          BY <4>1 DEF Lag
        <4> QED
          BY <4>2 DEF Lag
      <3>2. CASE r \notin s.live
        <4>1. spec'[r] = spec[r] /\ (r \in running' <=> r \in running)
          BY <1>1, <1>2, <3>2
        <4>2. Lag(r)' = Lag(r)
          BY <1>1, <4>1 DEF Lag
        <4> QED
          BY <4>2 DEF Lag
      <3> QED
        BY <3>1, <3>2
    <2>3. Lag(r)' \in {0, 1} /\ Lag(r) \in {0, 1}
      BY DEF Lag
    <2>4. Cardinality(Behind(r))' = Cardinality(Behind(r))
      BY <2>1
    <2> QED
      BY <1>6, <2>2, <2>3, <2>4
  <1> QED
    BY <1>7, <1>8

\* The oldest step is processed and the depth stays: what it was a sample of is no
\* longer in flight.
LEMMA StaleProcess ==
    ASSUME IInv, NEW acc, update_from_output(acc), depth' = depth, NEW r \in Req
    PROVE  /\ Cardinality(Behind(r))' = Cardinality(Behind(r))
                                         - (IF r \in Other(Head(flight)) THEN 1 ELSE 0)
           /\ Lag(r)' =< Lag(r)
  <1> DEFINE L == Len(flight)
             s == Head(flight)
  <1>1. flight /= <<>> /\ flight' = Tail(flight) /\ flight \in Seq(Steps) /\ L \in Nat
    BY DEF update_from_output, IInv
  <1>2. /\ DOMAIN flight = 1 .. L /\ DOMAIN flight' = 1 .. L - 1 /\ s = flight[1] /\ L >= 1
        /\ \A i \in 1 .. L - 1 : i + 1 \in DOMAIN flight /\ flight'[i] = flight[i + 1]
    BY <1>1, TailOf
  <1>3. Behind(r)' = {i \in 1 .. L - 1 : i + 1 \in Behind(r)}
    <2>1. Behind(r)' = {i \in DOMAIN flight' : r \in Other(flight'[i])}
      BY DEF Behind, Other
    <2> QED
      BY <1>2, <2>1 DEF Behind
  <1>4. 1 \in Behind(r) <=> r \in Other(s)
    BY <1>2 DEF Behind
  <1>5. Behind(r) \in SUBSET (1 .. L)
    BY BehindFinite
  <1> HIDE DEF L, s
  <1>6. Cardinality(Behind(r))' = Cardinality(Behind(r)) - (IF 1 \in Behind(r) THEN 1 ELSE 0)
    BY <1>1, <1>3, <1>5, Shift
  <1>7. /\ running' \subseteq running
        /\ r \in running' => spec'[r] = spec[r]
    BY DEF update_from_output
  <1>8. Lag(r)' =< Lag(r)
    BY <1>7 DEF Lag
  <1> QED
    BY <1>4, <1>6, <1>8 DEF s

\* A change of depth empties the window and leaves the pipeline behind it; from
\* then on every sample of a request is either one of those or of the new depth.
LEMMA StaleStep == IInv /\ Shape /\ StaleInv /\ [Next]_vars => StaleInv'
  <1> SUFFICES ASSUME IInv, Shape, StaleInv, [Next]_vars PROVE StaleInv'
    OBVIOUS
  <1>c. conf' = conf
    BY ConfKept
  <1>i. IInv'
    BY NextIInv
  <1>0. /\ conf.batches \in Nat \ {0} /\ flight \in Seq(Steps) /\ Len(flight) \in Nat
        /\ Len(flight) =< conf.batches /\ win.steps \in Nat
        /\ foreign \in [Req -> 0 .. conf.batches]
    BY DepthAssumption DEF IInv, Shape, StaleInv
  <1>b. \A r \in Req : /\ Cardinality(Behind(r)) \in Nat /\ Lag(r) \in {0, 1}
                       /\ Cardinality(Behind(r))' \in Nat /\ Lag(r)' \in {0, 1}
    <2> SUFFICES ASSUME NEW r \in Req
                 PROVE  /\ Cardinality(Behind(r)) \in Nat /\ Lag(r) \in {0, 1}
                        /\ Cardinality(Behind(r))' \in Nat /\ Lag(r)' \in {0, 1}
      OBVIOUS
    <2>1. Cardinality(Behind(r)) \in Nat
      BY BehindFinite
    <2>2. IsFiniteSet(Behind(r)')
      <3>1. DOMAIN flight' = 1 .. Len(flight') /\ Len(flight') \in Nat
        BY <1>i DEF IInv
      <3>2. Behind(r)' \in SUBSET (1 .. Len(flight'))
        BY <3>1 DEF Behind
      <3>3. IsFiniteSet(1 .. Len(flight'))
        BY <3>1, Prefix
      <3> QED
        BY <3>2, <3>3, FS_Subset
    <2>3. Cardinality(Behind(r))' \in Nat
      BY <2>2, FS_CardinalityType
    <2> QED
      BY <2>1, <2>3 DEF Lag
  <1>k. ASSUME \A r \in Req : Cardinality(Behind(r))' + Lag(r)' =< Cardinality(Behind(r)) + Lag(r),
               foreign' = foreign, win' = win
        PROVE  StaleInv'
    <2>1. foreign' \in [Req -> 0 .. conf'.batches]
      BY <1>0, <1>c, <1>k
    <2>2. ASSUME NEW r \in Req
          PROVE  /\ Cardinality(Behind(r))' + Lag(r)' =< conf'.batches
                 /\ win'.steps /= 0 => foreign'[r] + Cardinality(Behind(r))' + Lag(r)' =< conf'.batches
      <3>1. Cardinality(Behind(r)) + Lag(r) =< conf.batches
        BY DEF StaleInv
      <3>2. win.steps /= 0 => foreign[r] + Cardinality(Behind(r)) + Lag(r) =< conf.batches
        BY DEF StaleInv
      <3>3. foreign[r] \in Nat /\ conf'.batches = conf.batches
        BY <1>0, <1>c
      <3> QED
        BY <1>0, <1>b, <1>k, <3>1, <3>2, <3>3
    <2> QED
      BY <2>1, <2>2 DEF StaleInv
  <1>u. ASSUME UNCHANGED <<flight, running, spec, depth, foreign, win>> PROVE StaleInv'
    <2>1. \A r \in Req : Behind(r)' = Behind(r) /\ Lag(r)' = Lag(r)
      BY <1>u DEF Behind, Other, Lag
    <2> QED
      BY <1>u, <1>c, <2>1 DEF StaleInv
  <1>1. CASE _init_candidates
    BY <1>1, <1>u DEF _init_candidates
  <1>2. CASE Decode \/ Admit
    <2>1. PICK n \in Shares, join \in SUBSET Req, chunk \in conf.chunks \cup {0},
                left \in Nat \cup {Far} :
            schedule(n, join, chunk, left)
      BY <1>2, Scheduling
    <2>2. foreign' = foreign /\ win' = win
      BY <2>1 DEF schedule
    <2>3. \A r \in Req : Cardinality(Behind(r))' + Lag(r)' =< Cardinality(Behind(r)) + Lag(r)
      BY <1>i, <2>1, StaleSchedule
    <2> QED
      BY <1>k, <2>2, <2>3
  <1>3. CASE Process
    <2>1. PICK acc : update_from_output(acc)
      BY <1>3 DEF Process
    <2> DEFINE s == Head(flight)
               w == Observed(s.drafts, acc, Samples(s))
               one(r) == IF r \in Other(s) THEN 1 ELSE 0
    <2>2. /\ flight /= <<>> /\ flight' = Tail(flight)
          /\ IF Samples(s) = {} \/ w.steps < EffectiveWindow
             THEN win' = (IF Samples(s) = {} THEN win ELSE w) /\ UNCHANGED depth
             ELSE depth' = Target(w) /\ win' = ZeroWindow
          /\ foreign' = IF Samples(s) = {} THEN foreign
                        ELSE [r \in Req |-> (IF win.steps = 0 THEN 0 ELSE foreign[r]) + one(r)]
      BY <2>1 DEF update_from_output, observe_batch
    <2>3. w.steps = win.steps + 1
      BY DEF Observed
    <2>4. Len(flight') = Len(flight) - 1 /\ Len(flight) >= 1
      <3> HIDE DEF w, s, one
      <3> QED
        BY <1>0, <2>2, TailOf
    <2>5. \A r \in Req : one(r) \in {0, 1} /\ (one(r) = 1 => Cardinality(Behind(r)) >= 1)
      <3> SUFFICES ASSUME NEW r \in Req, r \in Other(s) PROVE Cardinality(Behind(r)) >= 1
        OBVIOUS
      <3>1. 1 \in Behind(r)
        BY <2>1, Acceptance DEF Behind
      <3>2. IsFiniteSet(Behind(r)) /\ Cardinality(Behind(r)) \in Nat
        BY BehindFinite
      <3>3. Cardinality(Behind(r)) /= 0
        BY <3>1, <3>2, FS_EmptySet
      <3> QED
        BY <3>2, <3>3
    <2>6. Samples(s) = {} => \A r \in Req : one(r) = 0
      BY DEF Other
    <2>7. foreign' \in [Req -> 0 .. conf.batches]
      <3>1. CASE Samples(s) = {}
        BY <1>0, <2>2, <3>1
      <3>2. CASE Samples(s) /= {}
        <4>1. foreign' = [r \in Req |-> (IF win.steps = 0 THEN 0 ELSE foreign[r]) + one(r)]
          BY <2>2, <3>2
        <4>2. ASSUME NEW r \in Req
              PROVE  (IF win.steps = 0 THEN 0 ELSE foreign[r]) + one(r) \in 0 .. conf.batches
          <5>1. one(r) \in {0, 1} /\ (one(r) = 1 => Cardinality(Behind(r)) >= 1)
            BY <2>5
          <5>2. win.steps /= 0 => foreign[r] + Cardinality(Behind(r)) + Lag(r) =< conf.batches
            BY DEF StaleInv
          <5>3. foreign[r] \in 0 .. conf.batches /\ Cardinality(Behind(r)) \in Nat /\ Lag(r) \in {0, 1}
            BY <1>0, <1>b
          <5> HIDE DEF one
          <5> QED
            BY <1>0, <5>1, <5>2, <5>3
        <4> HIDE DEF one
        <4> QED
          BY <4>1, <4>2
      <3> QED
        BY <3>1, <3>2
    <2> HIDE DEF w
    <2>8. CASE Samples(s) = {} \/ w.steps < EffectiveWindow
      <3>1. depth' = depth
        BY <2>2, <2>8
      <3>2. \A r \in Req : /\ Cardinality(Behind(r))' = Cardinality(Behind(r)) - one(r)
                           /\ Lag(r)' =< Lag(r)
        BY <2>1, <3>1, StaleProcess
      <3>3. ASSUME NEW r \in Req
            PROVE  /\ Cardinality(Behind(r))' + Lag(r)' =< conf'.batches
                   /\ win'.steps /= 0 =>
                        foreign'[r] + Cardinality(Behind(r))' + Lag(r)' =< conf'.batches
        <4>1. /\ Cardinality(Behind(r)) + Lag(r) =< conf.batches
              /\ win.steps /= 0 => foreign[r] + Cardinality(Behind(r)) + Lag(r) =< conf.batches
          BY DEF StaleInv
        <4>2. \/ Samples(s) = {} /\ win' = win /\ foreign'[r] = foreign[r] /\ one(r) = 0
              \/ foreign'[r] = (IF win.steps = 0 THEN 0 ELSE foreign[r]) + one(r)
          BY <2>2, <2>6, <2>8
        <4>3. /\ foreign[r] \in Nat /\ one(r) \in {0, 1} /\ conf'.batches = conf.batches
              /\ Cardinality(Behind(r)) \in Nat /\ Lag(r) \in {0, 1}
              /\ Cardinality(Behind(r))' \in Nat /\ Lag(r)' \in {0, 1}
          BY <1>0, <1>b, <1>c, <2>5
        <4>4. /\ Cardinality(Behind(r))' = Cardinality(Behind(r)) - one(r)
              /\ Lag(r)' =< Lag(r)
          BY <3>2
        <4> HIDE DEF one
        <4>5. Cardinality(Behind(r))' + Lag(r)' + one(r) =< Cardinality(Behind(r)) + Lag(r)
          BY <4>3, <4>4
        <4>6. Cardinality(Behind(r))' + Lag(r)' =< conf'.batches
          BY <1>0, <4>1, <4>3, <4>5
        <4>7. CASE Samples(s) = {} /\ win' = win /\ foreign'[r] = foreign[r] /\ one(r) = 0
          BY <1>0, <4>1, <4>3, <4>5, <4>6, <4>7
        <4>8. CASE foreign'[r] = (IF win.steps = 0 THEN 0 ELSE foreign[r]) + one(r)
          BY <1>0, <4>1, <4>3, <4>5, <4>6, <4>8
        <4> QED
          BY <4>2, <4>7, <4>8
      <3> QED
        BY <1>c, <2>7, <3>3 DEF StaleInv
    <2>9. CASE ~(Samples(s) = {} \/ w.steps < EffectiveWindow)
      <3>1. win'.steps = 0
        BY <2>2, <2>9 DEF ZeroWindow
      <3>2. ASSUME NEW r \in Req PROVE Cardinality(Behind(r))' + Lag(r)' =< conf'.batches
        <4>1. DOMAIN flight' = 1 .. Len(flight') /\ Len(flight') \in Nat
          BY <1>i DEF IInv
        <4>2. Behind(r)' \in SUBSET (1 .. Len(flight'))
          BY <4>1 DEF Behind
        <4>3. IsFiniteSet(1 .. Len(flight')) /\ Cardinality(1 .. Len(flight')) = Len(flight')
          BY <4>1, Prefix
        <4>4. Cardinality(Behind(r)') =< Len(flight')
          BY <4>2, <4>3, FS_Subset
        <4>5. /\ Cardinality(Behind(r))' \in Nat /\ Lag(r)' \in {0, 1}
              /\ conf'.batches = conf.batches /\ Cardinality(Behind(r))' =< Len(flight')
          BY <1>b, <1>c, <4>4
        <4> HIDE DEF s, one
        <4> QED
          BY <1>0, <2>4, <4>1, <4>5
      <3> QED
        BY <1>c, <2>7, <3>1, <3>2 DEF StaleInv
    <2> QED
      BY <2>8, <2>9
  <1>4. CASE TextChanges
    BY <1>4, <1>u DEF TextChanges
  <1>5. ASSUME NEW q \in Req, leave(q) PROVE StaleInv'
    <2>1. /\ win' = win /\ depth' = depth /\ foreign' = foreign
          /\ running' = running \ {q} /\ spec' = [spec EXCEPT ![q] = 0]
      BY <1>5 DEF leave
    <2>2. /\ DOMAIN flight' = DOMAIN flight
          /\ \A i \in DOMAIN flight :
               /\ flight'[i].drafts = flight[i].drafts /\ flight'[i].made = flight[i].made
               /\ flight'[i].padded = flight[i].padded
               /\ flight'[i].live = flight[i].live \ {q}
      BY <1>5, LeaveKeeps
    <2>3. ASSUME NEW r \in Req
          PROVE  Cardinality(Behind(r))' + Lag(r)' =< Cardinality(Behind(r)) + Lag(r)
      <3>1. Behind(r)' = {i \in DOMAIN flight' : r \in Other(flight'[i])}
        BY <2>1 DEF Behind, Other
      <3>2. \A i \in DOMAIN flight : Other(flight'[i]) \subseteq Other(flight[i])
        BY <2>2 DEF Other, Samples
      <3>3. Behind(r)' \in SUBSET Behind(r)
        BY <2>2, <3>1, <3>2 DEF Behind
      <3>4. Cardinality(Behind(r)') =< Cardinality(Behind(r))
        BY <3>3, BehindFinite, FS_Subset
      <3>5. Lag(r)' =< Lag(r)
        BY <2>1 DEF Lag, IInv
      <3>6. Cardinality(Behind(r))' =< Cardinality(Behind(r))
        BY <3>4
      <3> QED
        BY <1>b, <3>5, <3>6
    <2> QED
      BY <1>k, <2>1, <2>3
  <1>6. CASE UNCHANGED vars
    BY <1>6, <1>u DEF vars
  <1> QED
    BY <1>1, <1>2, <1>3, <1>4, <1>5, <1>6 DEF Next

\* A decision of the controller rests, for each request, on at most `batches' samples
\* that were drafted at another depth, for every ladder, window, pipeline depth, token
\* budget and any arrivals, departures and preemptions: one per step in flight when
\* the depth changed, and the next one, whose placeholders were made before, however
\* long the request waits for it.
THEOREM StaleShare == Spec => []StaleShareBounded
  <1>1. Init => IInv /\ Shape /\ StaleInv
    BY InitIInv, ShapeInit, StaleInit
  <1>2. IInv /\ Shape /\ StaleInv /\ [Next]_vars => (IInv /\ Shape /\ StaleInv)'
    BY NextIInv, ShapeStep, StaleStep
  <1>3. IInv /\ StaleInv => StaleShareBounded
    <2> SUFFICES ASSUME IInv, StaleInv, NEW r \in Req PROVE foreign[r] =< conf.batches
      BY DEF StaleShareBounded
    <2>1. foreign[r] \in 0 .. conf.batches /\ conf.batches \in Nat
      BY DepthAssumption DEF IInv, StaleInv
    <2> QED
      BY <2>1
  <1> QED
    BY <1>1, <1>2, <1>3, PTL DEF Spec

-----------------------------------------------------------------------------
(* Lookups *)

\* More candidates never make a batch run in a lesser mode.
LEMMA DispatchGrows ==
    ASSUME NEW A, NEW B, A \subseteq B, NEW n, NEW t, NEW u
    PROVE  Rank(dispatch(B, n, t, u)) >= Rank(dispatch(A, n, t, u))
  <1> DEFINE modes(C) == {d.mode : d \in {e \in C : _is_compatible(e, n, t, u)}}
  <1>1. modes(A) \subseteq modes(B)
    OBVIOUS
  <1>2. \A C : dispatch(C, n, t, u) = IF "FULL" \in modes(C) THEN "FULL"
                                      ELSE IF "PIECEWISE" \in modes(C) THEN "PIECEWISE" ELSE "NONE"
    BY DEF dispatch
  <1> HIDE DEF modes
  <1> QED
    BY <1>1, <1>2 DEF Rank

\* The graphs of the other depths take none of the base graphs from a batch: no
\* step in flight runs in a lesser mode than without them, for every configuration.
THEOREM LookupsAreKept == Spec => []LookupsKept
  <1>1. LookupsKept
    BY DispatchGrows DEF LookupsKept, RunsAs, Candidates
  <1> QED
    BY <1>1, PTL
=============================================================================
