----------------------- MODULE EngineSchedulerProofs -----------------------
(***************************************************************************)
(* Safety of the request scheduler for any number of requests, sequences,  *)
(* steps in flight, drafts, blocks and budgets, without streaming          *)
(* sessions.                                                               *)
(***************************************************************************)
EXTENDS EngineScheduler, SumFacts

-----------------------------------------------------------------------------
(* Queues *)

\* A queue: a sequence of request ids without repetition.
Inj(q) == \A i, j \in DOMAIN q : q[i] = q[j] => i = j
Queue(q) == q \in Seq(Nat) /\ Inj(q)

\* A queue grows at its end by what it did not have.
LEMMA AppendQueue ==
    ASSUME NEW q, Queue(q), NEW x \in Nat, x \notin Range(q)
    PROVE  Queue(Append(q, x)) /\ Range(Append(q, x)) = Range(q) \cup {x}
  <1>1. q \in Seq(Nat) /\ Len(q) \in Nat /\ DOMAIN q = 1 .. Len(q)
    BY DEF Queue
  <1> DEFINE r == Append(q, x)
  <1>2. /\ r \in Seq(Nat) /\ DOMAIN r = 1 .. Len(q) + 1 /\ r[Len(q) + 1] = x
        /\ \A i \in 1 .. Len(q) : r[i] = q[i]
    BY <1>1
  <1>3. 1 .. Len(q) + 1 = DOMAIN q \cup {Len(q) + 1}
    BY <1>1
  <1> HIDE DEF r
  <1>4. Range(r) = Range(q) \cup {x}
    BY <1>1, <1>2, <1>3 DEF Range
  <1>5. ASSUME NEW i \in DOMAIN r, NEW j \in DOMAIN r, r[i] = r[j] PROVE i = j
    BY <1>1, <1>2, <1>3, <1>5 DEF Queue, Inj, Range
  <1> QED
    BY <1>2, <1>4, <1>5 DEF Queue, Inj, r

\* The recursive function behind Without exists.
IsRest(f, q, ids) ==
    f = [i \in 0 .. Len(q) |->
            IF i = 0 THEN <<>>
            ELSE IF q[i] \in ids THEN f[i - 1] ELSE Append(f[i - 1], q[i])]

\* The recursion that Without is defined by has a value.
LEMMA RestExists ==
    ASSUME NEW q \in Seq(Nat), NEW ids
    PROVE  \E f : IsRest(f, q, ids)
  <1> DEFINE Value(f, i) == IF i = 0 THEN <<>>
                            ELSE IF q[i] \in ids THEN f[i - 1] ELSE Append(f[i - 1], q[i])
             Upto(f, n) == \A i \in 0 .. n : f[i] = Value(f, i)
             Bad == {n \in Nat : ~ \E f : Upto(f, n)}
  <1>1. Bad = {}
    <2>1. SUFFICES ASSUME Bad /= {} PROVE FALSE
      OBVIOUS
    <2>2. PICK n \in Bad : \A m \in Bad : n =< m
      <3>1. Bad \subseteq Nat
        OBVIOUS
      <3> HIDE DEF Bad
      <3> QED
        BY <2>1, <3>1, LeastNatural
    <2>3. n \in Nat /\ ~ \E f : Upto(f, n)
      OBVIOUS
    <2>4. CASE n = 0
      <3> DEFINE f == [i \in {0} |-> <<>>]
      <3>1. Upto(f, 0)
        OBVIOUS
      <3> QED
        BY <2>3, <2>4, <3>1
    <2>5. CASE n > 0
      <3>1. n - 1 \in Nat /\ n - 1 \notin Bad
        <4> HIDE DEF Bad
        <4> QED
          BY <2>2, <2>3, <2>5
      <3>2. PICK h : Upto(h, n - 1)
        BY <3>1
      <3> DEFINE f == [i \in 0 .. n |-> IF i < n THEN h[i] ELSE Value(h, n)]
      <3>3. ASSUME NEW i \in 0 .. n PROVE f[i] = Value(f, i)
        <4>1. CASE i < n
          <5>1. f[i] = h[i] /\ h[i] = Value(h, i)
            BY <2>3, <3>2, <4>1
          <5>2. i /= 0 => f[i - 1] = h[i - 1]
            BY <2>3, <4>1
          <5> QED
            BY <5>1, <5>2
        <4>2. CASE i = n
          <5>1. f[n] = Value(h, n)
            BY <2>3
          <5>2. f[n - 1] = h[n - 1]
            BY <2>3, <2>5
          <5> QED
            BY <2>5, <4>2, <5>1, <5>2
        <4> QED
          BY <2>3, <4>1, <4>2
      <3>4. Upto(f, n)
        BY <3>3
      <3> HIDE DEF f, Upto
      <3> QED
        BY <2>3, <3>4
    <2> QED
      BY <2>3, <2>4, <2>5
  <1>2. Len(q) \in Nat
    OBVIOUS
  <1>3. PICK h : Upto(h, Len(q))
    BY <1>1, <1>2
  <1> DEFINE f == [i \in 0 .. Len(q) |-> h[i]]
  <1>4. \A i \in 0 .. Len(q) : f[i] = Value(f, i)
    BY <1>2, <1>3
  <1>5. f = [i \in 0 .. Len(q) |-> Value(f, i)]
    BY <1>4
  <1> QED
    BY <1>5 DEF IsRest

\* Without takes out what it says and nothing else.
LEMMA WithoutQueue ==
    ASSUME NEW q, Queue(q), NEW ids
    PROVE  Queue(Without(q, ids)) /\ Range(Without(q, ids)) = Range(q) \ ids
  <1> DEFINE f == CHOOSE g : IsRest(g, q, ids)
  <1>1. q \in Seq(Nat) /\ Len(q) \in Nat /\ DOMAIN q = 1 .. Len(q) /\ Inj(q)
    BY DEF Queue
  <1>2. IsRest(f, q, ids)
    BY <1>1, RestExists
  <1>3. Without(q, ids) = f[Len(q)]
    BY Zenon DEF Without, IsRest
  <1> HIDE DEF f
  <1>7. /\ f[0] = <<>>
        /\ \A i \in 1 .. Len(q) :
              f[i] = IF q[i] \in ids THEN f[i - 1] ELSE Append(f[i - 1], q[i])
    <2> DEFINE V(g, i) == IF i = 0 THEN <<>>
                          ELSE IF q[i] \in ids THEN g[i - 1] ELSE Append(g[i - 1], q[i])
    <2>1. f = [i \in 0 .. Len(q) |-> V(f, i)]
      BY <1>2 DEF IsRest
    <2> HIDE DEF V
    <2>2. \A i \in 0 .. Len(q) : f[i] = V(f, i)
      BY <2>1
    <2> USE DEF V
    <2>3. f[0] = <<>>
      <3>1. 0 \in 0 .. Len(q)
        BY <1>1
      <3>2. f[0] = V(f, 0)
        BY <2>2, <3>1
      <3> QED
        BY <3>2
    <2>4. ASSUME NEW i \in 1 .. Len(q)
          PROVE  f[i] = IF q[i] \in ids THEN f[i - 1] ELSE Append(f[i - 1], q[i])
      <3>1. i \in 0 .. Len(q) /\ i /= 0
        BY <1>1
      <3>2. f[i] = V(f, i)
        BY <2>2, <3>1
      <3> QED
        BY <3>1, <3>2
    <2> QED
      BY <2>3, <2>4
  <1> DEFINE First(i) == {q[j] : j \in 1 .. i} \ ids
             Right(i) == Queue(f[i]) /\ Range(f[i]) = First(i)
             Bad == {i \in 0 .. Len(q) : ~Right(i)}
  <1>4. Bad = {}
    <2>1. SUFFICES ASSUME Bad /= {} PROVE FALSE
      OBVIOUS
    <2>2. PICK n \in Bad : \A m \in Bad : n =< m
      <3>1. Bad \subseteq Nat
        BY <1>1
      <3> HIDE DEF Bad
      <3> QED
        BY <2>1, <3>1, LeastNatural
    <2>3. n \in 0 .. Len(q) /\ ~Right(n)
      OBVIOUS
    <2>4. CASE n = 0
      <3>1. f[0] = <<>>
        BY <1>7
      <3>2. <<>> \in Seq(Nat) /\ DOMAIN <<>> = {} /\ First(0) = {}
        OBVIOUS
      <3> QED
        BY <2>3, <2>4, <3>1, <3>2 DEF Queue, Inj, Range
    <2>5. CASE n > 0
      <3>1. n - 1 \in 0 .. Len(q) /\ n - 1 \notin Bad
        <4> HIDE DEF Bad
        <4> QED
          BY <1>1, <2>2, <2>3, <2>5
      <3>2. Right(n - 1)
        BY <3>1
      <3>3. n \in DOMAIN q /\ q[n] \in Nat
        BY <1>1, <2>3, <2>5
      <3>4. CASE q[n] \in ids
        <4>1. f[n] = f[n - 1]
          BY <1>1, <1>7, <2>3, <2>5, <3>4
        <4>2. First(n) = First(n - 1)
          <5>1. ASSUME NEW j \in 1 .. n, q[j] \notin ids PROVE j \in 1 .. n - 1
            BY <2>3, <3>4, <5>1
          <5> QED
            BY <2>3, <5>1
        <4> QED
          BY <2>3, <3>2, <4>1, <4>2
      <3>5. CASE q[n] \notin ids
        <4> DEFINE r == f[n - 1]
        <4>1. f[n] = Append(r, q[n])
          <5>1. n \in 1 .. Len(q)
            BY <1>1, <3>3
          <5> QED
            BY <1>7, <3>5, <5>1
        <4>2. q[n] \notin Range(r)
          <5>1. SUFFICES ASSUME q[n] \in First(n - 1) PROVE FALSE
            BY <3>2
          <5>2. PICK j \in 1 .. n - 1 : q[j] = q[n]
            BY <5>1
          <5> QED
            BY <1>1, <2>3, <3>3, <5>2 DEF Inj
        <4>3. First(n) = First(n - 1) \cup {q[n]}
          <5>1. 1 .. n = (1 .. n - 1) \cup {n}
            BY <2>3, <2>5
          <5> QED
            BY <3>5, <5>1
        <4>4. Queue(r) /\ Range(r) = First(n - 1)
          BY <3>2
        <4> HIDE DEF r, First
        <4>5. Queue(Append(r, q[n])) /\ Range(Append(r, q[n])) = Range(r) \cup {q[n]}
          BY <3>3, <4>2, <4>4, AppendQueue
        <4> QED
          BY <2>3, <4>1, <4>3, <4>4, <4>5
      <3> QED
        BY <3>4, <3>5
    <2> QED
      BY <1>1, <2>3, <2>4, <2>5
  <1>5. Right(Len(q))
    <2>1. Len(q) \in 0 .. Len(q)
      BY <1>1
    <2>2. Len(q) \notin Bad
      BY <1>4
    <2> HIDE DEF Right
    <2> QED
      BY <2>1, <2>2
  <1>6. Range(q) = {q[j] : j \in 1 .. Len(q)}
    BY <1>1 DEF Range
  <1> QED
    BY <1>3, <1>5, <1>6

\* The other changes of a queue.
LEMMA EmptyQueue == Queue(<<>>) /\ Range(<<>>) = {}
  BY DEF Queue, Inj, Range

\* A queue loses its first member.
LEMMA TailQueue ==
    ASSUME NEW q, Queue(q), q /= <<>>
    PROVE  Queue(Tail(q)) /\ Range(Tail(q)) = Range(q) \ {Head(q)} /\ Head(q) \in Range(q)
  <1>1. q \in Seq(Nat) /\ Len(q) \in Nat /\ DOMAIN q = 1 .. Len(q) /\ Len(q) >= 1
    BY DEF Queue
  <1> DEFINE t == Tail(q)
  <1>2. t \in Seq(Nat) /\ DOMAIN t = 1 .. Len(q) - 1 /\ \A i \in 1 .. Len(q) - 1 : t[i] = q[i + 1]
    BY <1>1
  <1>3. Head(q) = q[1]
    BY <1>1
  <1> HIDE DEF t
  <1>4. Queue(t)
    <2>1. ASSUME NEW i \in DOMAIN t, NEW j \in DOMAIN t, t[i] = t[j] PROVE i = j
      <3>0. i \in 1 .. Len(q) - 1 /\ j \in 1 .. Len(q) - 1
        BY <1>2
      <3>3. t[i] = q[i + 1] /\ t[j] = q[j + 1]
        BY <1>2, <3>0
      <3>4. i + 1 \in 1 .. Len(q) /\ j + 1 \in 1 .. Len(q)
        BY <1>1, <3>0
      <3>1. i + 1 \in DOMAIN q /\ j + 1 \in DOMAIN q /\ q[i + 1] = q[j + 1]
        BY Zenon, <1>1, <2>1, <3>3, <3>4
      <3>2. i + 1 = j + 1
        BY <3>1 DEF Queue, Inj
      <3> QED
        BY <1>1, <1>2, <3>2
    <2> QED
      BY <1>2, <2>1 DEF Queue, Inj
  <1>5. ASSUME NEW x \in Range(t) PROVE x \in Range(q) \ {q[1]}
    <2>1. PICK i \in 1 .. Len(q) - 1 : x = q[i + 1]
      BY <1>2, <1>5 DEF Range
    <2>2. i + 1 \in DOMAIN q /\ i + 1 /= 1 /\ 1 \in DOMAIN q
      BY <1>1
    <2> QED
      BY <2>1, <2>2 DEF Queue, Inj, Range
  <1>6. ASSUME NEW x \in Range(q) \ {q[1]} PROVE x \in Range(t)
    <2>1. PICK i \in 1 .. Len(q) : x = q[i]
      BY <1>1, <1>6 DEF Range
    <2>2. i - 1 \in 1 .. Len(q) - 1 /\ t[i - 1] = q[i]
      BY <1>1, <1>2, <1>6, <2>1
    <2> QED
      BY <1>2, <2>1, <2>2 DEF Range
  <1>7. Head(q) \in Range(q)
    BY <1>1, <1>3 DEF Range
  <1>8. Range(t) = Range(q) \ {q[1]}
    BY <1>5, <1>6
  <1> QED
    BY <1>3, <1>4, <1>7, <1>8 DEF t

\* A queue loses its last member.
LEMMA FrontQueue ==
    ASSUME NEW q, Queue(q), q /= <<>>
    PROVE  /\ Queue(Front(q)) /\ Range(Front(q)) = Range(q) \ {Last(q)}
           /\ Last(q) \in Range(q) /\ Len(Front(q)) = Len(q) - 1
           /\ \A i \in 1 .. Len(q) - 1 : Front(q)[i] = q[i]
  <1>1. q \in Seq(Nat) /\ Len(q) \in Nat /\ DOMAIN q = 1 .. Len(q) /\ Len(q) >= 1
    BY DEF Queue
  <1> DEFINE t == Front(q)
  <1>2. /\ t \in Seq(Nat) /\ DOMAIN t = 1 .. Len(q) - 1 /\ Len(t) = Len(q) - 1
        /\ \A i \in 1 .. Len(q) - 1 : t[i] = q[i]
    BY <1>1 DEF Front
  <1>3. Last(q) = q[Len(q)]
    BY DEF Last
  <1> HIDE DEF t
  <1>6. DOMAIN q = DOMAIN t \cup {Len(q)} /\ Len(q) \notin DOMAIN t
    BY <1>1, <1>2
  <1>4. Queue(t)
    <2>1. ASSUME NEW i \in DOMAIN t, NEW j \in DOMAIN t, t[i] = t[j] PROVE i = j
      BY <1>2, <1>6, <2>1 DEF Queue, Inj
    <2> QED
      BY <1>2, <2>1 DEF Queue, Inj
  <1>5. Range(t) = Range(q) \ {q[Len(q)]}
    <2>1. \A i \in DOMAIN t : t[i] = q[i] /\ q[i] /= q[Len(q)]
      BY <1>2, <1>6 DEF Queue, Inj
    <2> QED
      BY <1>6, <2>1 DEF Range
  <1>7. Last(q) \in Range(q)
    BY <1>3, <1>6 DEF Range
  <1> QED
    BY <1>2, <1>3, <1>4, <1>5, <1>7 DEF t

\* Two queues without a common member, one after the other.
LEMMA JoinQueue ==
    ASSUME NEW p, NEW q, Queue(p), Queue(q), Range(p) \cap Range(q) = {}
    PROVE  Queue(p \o q) /\ Range(p \o q) = Range(p) \cup Range(q)
  <1>1. /\ p \in Seq(Nat) /\ Len(p) \in Nat /\ DOMAIN p = 1 .. Len(p)
        /\ q \in Seq(Nat) /\ Len(q) \in Nat /\ DOMAIN q = 1 .. Len(q)
    BY DEF Queue
  <1> DEFINE r == p \o q
  <1>2. /\ r \in Seq(Nat) /\ DOMAIN r = 1 .. Len(p) + Len(q)
        /\ \A i \in 1 .. Len(p) : r[i] = p[i]
        /\ \A i \in 1 .. Len(q) : r[Len(p) + i] = q[i]
    BY <1>1
  <1> HIDE DEF r
  <1>3. \A i \in DOMAIN r : i \in DOMAIN p \/ (i - Len(p) \in DOMAIN q /\ r[i] = q[i - Len(p)])
    <2> SUFFICES ASSUME NEW i \in DOMAIN r, i \notin DOMAIN p
                 PROVE  i - Len(p) \in DOMAIN q /\ r[i] = q[i - Len(p)]
      OBVIOUS
    <2>1. i - Len(p) \in 1 .. Len(q) /\ i = Len(p) + (i - Len(p))
      BY <1>1, <1>2
    <2> QED
      BY <1>1, <1>2, <2>1
  <1>4. Range(r) = Range(p) \cup Range(q)
    <2>1. ASSUME NEW i \in DOMAIN p PROVE p[i] \in Range(r)
      BY <1>1, <1>2 DEF Range
    <2>2. ASSUME NEW i \in DOMAIN q PROVE q[i] \in Range(r)
      <3>1. Len(p) + i \in DOMAIN r /\ r[Len(p) + i] = q[i]
        BY <1>1, <1>2
      <3> QED
        BY <3>1 DEF Range
    <2>3. ASSUME NEW i \in DOMAIN r PROVE r[i] \in Range(p) \cup Range(q)
      BY <1>1, <1>2, <1>3 DEF Range
    <2> QED
      BY <2>1, <2>2, <2>3 DEF Range
  <1>5. ASSUME NEW i \in DOMAIN r, NEW j \in DOMAIN r, r[i] = r[j] PROVE i = j
    <2>1. CASE i \in DOMAIN p /\ j \in DOMAIN p
      BY <1>1, <1>2, <1>5, <2>1 DEF Queue, Inj
    <2>2. CASE i \in DOMAIN p /\ j \notin DOMAIN p
      <3>1. r[i] \in Range(p)
        BY <1>1, <1>2, <2>2 DEF Range
      <3>2. r[j] \in Range(q)
        BY <1>3, <2>2 DEF Range
      <3> QED
        BY <1>5, <3>1, <3>2
    <2>3. CASE i \notin DOMAIN p /\ j \in DOMAIN p
      <3>1. r[j] \in Range(p)
        BY <1>1, <1>2, <2>3 DEF Range
      <3>2. r[i] \in Range(q)
        BY <1>3, <2>3 DEF Range
      <3> QED
        BY <1>5, <3>1, <3>2
    <2>4. CASE i \notin DOMAIN p /\ j \notin DOMAIN p
      <3>1. i - Len(p) = j - Len(p)
        BY <1>3, <1>5, <2>4 DEF Queue, Inj
      <3> QED
        BY <1>1, <1>2, <3>1
    <2> QED
      BY <2>1, <2>2, <2>3, <2>4
  <1> QED
    BY <1>2, <1>4, <1>5 DEF Queue, Inj, r

\* A queue is as long as it has members.
LEMMA QueueLength ==
    ASSUME NEW q, Queue(q)
    PROVE  IsFiniteSet(Range(q)) /\ Cardinality(Range(q)) = Len(q) /\ Len(q) \in Nat
  <1>1. q \in Seq(Nat) /\ Len(q) \in Nat /\ DOMAIN q = 1 .. Len(q)
    BY DEF Queue
  <1>2. IsFiniteSet(1 .. Len(q)) /\ Cardinality(1 .. Len(q)) = Len(q)
    BY SMTT(30), <1>1, FS_Interval
  <1>3. q \in Bijection(1 .. Len(q), Range(q))
    BY <1>1 DEF Bijection, Injection, Surjection, Queue, Inj, Range, IsInjective
  <1>4. ExistsBijection(1 .. Len(q), Range(q))
    BY <1>3 DEF ExistsBijection
  <1> QED
    BY <1>1, <1>2, <1>4, FS_Bijection

\* No session goes on or goes idle: the sequence of the empty set.
LEMMA NoneToSeq == SetToSeq({}) = <<>>
  <1>1. IsFiniteSet({}) /\ Cardinality({}) = 0
    BY FS_EmptySet
  <1>2. <<>> \in [1 .. 0 -> {}] /\ IsInjective(<<>>)
    BY DEF IsInjective
  <1>3. SetToSeq({}) \in [1 .. 0 -> {}]
    BY <1>1, <1>2 DEF SetToSeq
  <1> QED
    BY <1>3

-----------------------------------------------------------------------------
(* What the theorems ask of the configurations *)

\* No streaming sessions: with them a request can be lost from the queues, as the
\* run sched_session shows.
NoSessions == \A c \in Configs : TRUE \notin c.resumable

\* The longest answer leaves room for the drafts of a padded decode: the waiting
\* loop pads up to the length limit, the running loop stops one token before it.
PadsHaveRoom ==
    \A c \in Configs : c.padding => \A p \in c.prompts : p + c.maxTokens + c.spec =< c.modelLen

\* Nothing cuts a padded decode; the run sched_pad shows that the decode-aware
\* budget does.
PadsAreWhole ==
    \A c \in Configs :
        c.padding => ~c.decodeAware /\ (c.longThreshold = 0 \/ c.spec < c.longThreshold)

\* Or else a prompt is at least as long as the drafts.
PadsAreCovered == PadsAreWhole \/ \A c \in Configs : \A p \in c.prompts : c.spec =< p

-----------------------------------------------------------------------------
(* The pipeline as one request sees it *)

ShareType == [n : Int, drafts : Nat, old : BOOLEAN, samples : BOOLEAN, behind : BOOLEAN]

\* A step: shares of some requests.
Steps == UNION {[d -> ShareType] : d \in SUBSET Nat}

\* What a share counts for: its tokens, its tokens if it is stale, and, unless it
\* is, the placeholders it has to fill and the drafts that may be rejected.
Kinds == {"tokens", "stale", "owed", "drafts"}
Weigh(share, kind) ==
    IF kind = "tokens" THEN share.n
    ELSE IF kind = "stale" THEN IF share.old THEN share.n ELSE 0
    ELSE IF share.old THEN 0
    ELSE IF kind = "drafts" THEN share.drafts
    ELSE IF share.samples THEN 1 + share.drafts ELSE 0

Weights(fl, id, kind) ==
    [i \in DOMAIN fl |-> IF id \in DOMAIN fl[i] THEN Weigh(fl[i][id], kind) ELSE 0]
Sum(fl, id, kind) == SumSeq(Weights(fl, id, kind))

\* A preemption outdates all shares so far: the stale ones come first.
OldFirst(fl, id) ==
    \A i, j \in DOMAIN fl :
        (i < j /\ id \in DOMAIN fl[i] /\ id \in DOMAIN fl[j] /\ fl[j][id].old) => fl[i][id].old
AllOld(fl, id) == \A i \in DOMAIN fl : id \in DOMAIN fl[i] => fl[i][id].old

\* Every share computes something, and has drafts only if it samples.
GoodShare(share) == share.n > 0 /\ (share.drafts > 0 => share.samples)

\* A step is a function, and a share has its fields.
LEMMA StepShares ==
    ASSUME NEW s \in Steps
    PROVE  DOMAIN s \subseteq Nat /\ s \in [DOMAIN s -> ShareType] /\ \A x \in DOMAIN s : s[x] \in ShareType
  BY DEF Steps

\* Weights are integers.
LEMMA WeighType ==
    ASSUME NEW s \in ShareType, NEW kind \in Kinds
    PROVE  Weigh(s, kind) \in Int
  BY DEF Weigh, ShareType, Kinds

\* Sequences with the same terms are the same.
LEMMA SameSeq ==
    ASSUME NEW S, NEW s \in Seq(S), NEW t \in Seq(S), Len(s) = Len(t),
           \A i \in 1 .. Len(s) : s[i] = t[i]
    PROVE  s = t
  <1>1. s = [i \in 1 .. Len(s) |-> s[i]] /\ t = [i \in 1 .. Len(s) |-> t[i]]
    OBVIOUS
  <1> QED
    BY <1>1

\* The weights of a pipeline are a sequence of integers.
LEMMA WeightsType ==
    ASSUME NEW fl \in Seq(Steps), NEW id, NEW kind \in Kinds
    PROVE  /\ Weights(fl, id, kind) \in Seq(Int) /\ Len(Weights(fl, id, kind)) = Len(fl)
           /\ DOMAIN fl = 1 .. Len(fl) /\ Len(fl) \in Nat
           /\ \A i \in DOMAIN fl : /\ fl[i] \in Steps
                                   /\ Weights(fl, id, kind)[i]
                                        = IF id \in DOMAIN fl[i] THEN Weigh(fl[i][id], kind) ELSE 0
  <1>1. DOMAIN fl = 1 .. Len(fl) /\ Len(fl) \in Nat /\ \A i \in DOMAIN fl : fl[i] \in Steps
    OBVIOUS
  <1>2. ASSUME NEW i \in DOMAIN fl
        PROVE  (IF id \in DOMAIN fl[i] THEN Weigh(fl[i][id], kind) ELSE 0) \in Int
    BY <1>1, StepShares, WeighType
  <1>3. Weights(fl, id, kind) \in [1 .. Len(fl) -> Int]
    BY <1>1, <1>2 DEF Weights
  <1>4. Weights(fl, id, kind) \in Seq(Int) /\ Len(Weights(fl, id, kind)) = Len(fl)
    BY <1>1, <1>3
  <1> QED
    BY <1>1, <1>4 DEF Weights

\* One more step in flight.
LEMMA PushSum ==
    ASSUME NEW fl \in Seq(Steps), NEW s \in Steps, NEW id, NEW kind \in Kinds
    PROVE  Sum(Append(fl, s), id, kind)
             = Sum(fl, id, kind) + (IF id \in DOMAIN s THEN Weigh(s[id], kind) ELSE 0)
  <1> DEFINE w == Weights(fl, id, kind)
             v == IF id \in DOMAIN s THEN Weigh(s[id], kind) ELSE 0
             a == Append(fl, s)
             z == Weights(a, id, kind)
  <1>1. w \in Seq(Int) /\ Len(w) = Len(fl) /\ DOMAIN fl = 1 .. Len(fl) /\ Len(fl) \in Nat
    BY WeightsType
  <1>2. v \in Int
    BY StepShares, WeighType
  <1>3. a \in Seq(Steps) /\ Len(a) = Len(fl) + 1 /\ a[Len(fl) + 1] = s /\ \A i \in 1 .. Len(fl) : a[i] = fl[i]
    OBVIOUS
  <1>4. z \in Seq(Int) /\ Len(z) = Len(fl) + 1 /\ DOMAIN a = 1 .. Len(fl) + 1
    BY <1>3, WeightsType
  <1>5. ASSUME NEW i \in 1 .. Len(fl) + 1 PROVE z[i] = Append(w, v)[i]
    <2>1. z[i] = IF id \in DOMAIN a[i] THEN Weigh(a[i][id], kind) ELSE 0
      BY <1>4 DEF Weights
    <2>2. CASE i = Len(fl) + 1
      <3>1. Append(w, v)[i] = v
        BY <1>1, <2>2
      <3> QED
        BY <1>3, <2>1, <2>2, <3>1
    <2>3. CASE i \in 1 .. Len(fl)
      <3>1. w[i] = IF id \in DOMAIN fl[i] THEN Weigh(fl[i][id], kind) ELSE 0
        BY <1>1, <2>3 DEF Weights
      <3>2. Append(w, v)[i] = w[i]
        BY <1>1, <2>3
      <3>3. a[i] = fl[i]
        BY <1>3, <2>3
      <3> QED
        BY <2>1, <3>1, <3>2, <3>3
    <2> QED
      BY <1>1, <2>2, <2>3
  <1>6. z = Append(w, v)
    <2> HIDE DEF z, w, v, a
    <2>1. Append(w, v) \in Seq(Int) /\ Len(Append(w, v)) = Len(fl) + 1
      BY <1>1, <1>2
    <2> DEFINE y == Append(w, v)
    <2>2. y \in Seq(Int) /\ Len(z) = Len(y) /\ \A i \in 1 .. Len(z) : z[i] = y[i]
      BY <1>4, <1>5, <2>1
    <2> HIDE DEF y
    <2>3. z = y
      BY <1>4, <2>2, SameSeq
    <2> QED
      BY <2>3 DEF y
  <1> HIDE DEF w, v
  <1>7. SumSeq(Append(w, v)) = SumSeq(w) + v
    BY <1>1, <1>2, SumAppend
  <1> QED
    BY <1>6, <1>7 DEF Sum, w, v

\* The oldest step leaves.
LEMMA PopSum ==
    ASSUME NEW fl \in Seq(Steps), fl /= <<>>, NEW id, NEW kind \in Kinds
    PROVE  Sum(fl, id, kind) = Sum(Tail(fl), id, kind)
                 + (IF id \in DOMAIN Head(fl) THEN Weigh(Head(fl)[id], kind) ELSE 0)
  <1> DEFINE w == Weights(fl, id, kind)
             t == Tail(fl)
             z == Weights(t, id, kind)
             n == Len(fl)
  <1>1. /\ w \in Seq(Int) /\ Len(w) = n /\ DOMAIN fl = 1 .. n /\ n \in Nat
        /\ \A i \in 1 .. n : w[i] = IF id \in DOMAIN fl[i] THEN Weigh(fl[i][id], kind) ELSE 0
    BY WeightsType
  <1>2. n >= 1 /\ Head(fl) = fl[1]
    OBVIOUS
  <1>3. t \in Seq(Steps) /\ Len(t) = n - 1 /\ \A i \in 1 .. n - 1 : t[i] = fl[i + 1]
    BY <1>2
  <1>4. /\ z \in Seq(Int) /\ Len(z) = n - 1
        /\ \A i \in 1 .. n - 1 : z[i] = IF id \in DOMAIN t[i] THEN Weigh(t[i][id], kind) ELSE 0
    <2>1. DOMAIN t = 1 .. n - 1
      BY <1>3
    <2> HIDE DEF t, n
    <2> QED
      BY <1>3, <2>1, WeightsType
  <1> HIDE DEF w, t, z, n
  <1>5. w /= <<>>
    BY <1>1, <1>2
  <1>6. Tail(w) \in Seq(Int) /\ Len(Tail(w)) = n - 1 /\ \A i \in 1 .. n - 1 : Tail(w)[i] = w[i + 1]
    BY <1>1, <1>2, <1>5
  <1>7. ASSUME NEW i \in 1 .. n - 1 PROVE z[i] = Tail(w)[i]
    <2>1. i + 1 \in 1 .. n
      BY <1>1
    <2>2. w[i + 1] = IF id \in DOMAIN fl[i + 1] THEN Weigh(fl[i + 1][id], kind) ELSE 0
      BY <1>1, <2>1
    <2>3. z[i] = IF id \in DOMAIN t[i] THEN Weigh(t[i][id], kind) ELSE 0
      BY <1>4
    <2>4. t[i] = fl[i + 1]
      BY <1>3
    <2>5. Tail(w)[i] = w[i + 1]
      BY <1>6
    <2> QED
      BY <2>2, <2>3, <2>4, <2>5
  <1>8. z = Tail(w)
    <2> DEFINE y == Tail(w)
    <2>1. y \in Seq(Int) /\ Len(z) = Len(y) /\ \A i \in 1 .. Len(z) : z[i] = y[i]
      BY <1>4, <1>6, <1>7
    <2> HIDE DEF y
    <2>2. z = y
      BY <1>4, <2>1, SameSeq
    <2> QED
      BY <2>2 DEF y
  <1>9. SumSeq(w) = w[1] + SumSeq(Tail(w))
    BY <1>1, <1>5, SumTail
  <1>10. w[1] \in Int /\ SumSeq(z) \in Int
    BY <1>1, <1>2, <1>4, SumAppend
  <1>11. w[1] = IF id \in DOMAIN Head(fl) THEN Weigh(Head(fl)[id], kind) ELSE 0
    BY <1>1, <1>2
  <1>12. SumSeq(w) = SumSeq(z) + w[1]
    BY <1>8, <1>9, <1>10
  <1> QED
    BY <1>11, <1>12 DEF Sum, w, z, t

\* What a new step leaves of the order of stale and fresh shares.
LEMMA PushOrder ==
    ASSUME NEW fl \in Seq(Steps), NEW s \in Steps, NEW id,
           id \in DOMAIN s => ~s[id].old
    PROVE  /\ OldFirst(fl, id) => OldFirst(Append(fl, s), id)
           /\ id \notin DOMAIN s /\ AllOld(fl, id) => AllOld(Append(fl, s), id)
  <1> DEFINE a == Append(fl, s)
             n == Len(fl)
  <1>1. /\ n \in Nat /\ DOMAIN fl = 1 .. n /\ DOMAIN a = 1 .. n + 1 /\ a[n + 1] = s
        /\ \A i \in 1 .. n : a[i] = fl[i]
    OBVIOUS
  <1> HIDE DEF a, n
  <1>2. \A i \in 1 .. n + 1 : i \in 1 .. n \/ i = n + 1
    BY <1>1
  <1>3. ASSUME OldFirst(fl, id) PROVE OldFirst(a, id)
    <2> SUFFICES ASSUME NEW i \in 1 .. n + 1, NEW j \in 1 .. n + 1, i < j,
                        id \in DOMAIN a[i], id \in DOMAIN a[j], a[j][id].old
                 PROVE  a[i][id].old
      BY <1>1 DEF OldFirst
    <2>1. j \in 1 .. n
      BY <1>1, <1>2
    <2>2. i \in 1 .. n
      BY <1>1, <2>1
    <2> QED
      BY <1>1, <1>3, <2>1, <2>2 DEF OldFirst
  <1>4. ASSUME id \notin DOMAIN s, AllOld(fl, id) PROVE AllOld(a, id)
    BY <1>1, <1>2, <1>4 DEF AllOld
  <1> QED
    BY <1>3, <1>4 DEF a

\* And what the oldest step leaves of it.
LEMMA PopOrder ==
    ASSUME NEW fl \in Seq(Steps), fl /= <<>>, NEW id
    PROVE  /\ OldFirst(fl, id) => OldFirst(Tail(fl), id)
           /\ AllOld(fl, id) => AllOld(Tail(fl), id)
           /\ OldFirst(fl, id) /\ id \in DOMAIN Head(fl) /\ ~Head(fl)[id].old =>
                \A i \in DOMAIN fl : id \in DOMAIN fl[i] => ~fl[i][id].old
  <1> DEFINE t == Tail(fl)
             n == Len(fl)
  <1>1. /\ n \in Nat /\ n >= 1 /\ DOMAIN fl = 1 .. n /\ DOMAIN t = 1 .. n - 1
        /\ Head(fl) = fl[1]
    OBVIOUS
  <1>2. \A i \in 1 .. n - 1 : t[i] = fl[i + 1] /\ i + 1 \in 1 .. n
    BY <1>1
  <1> HIDE DEF t, n
  <1>3. ASSUME OldFirst(fl, id) PROVE OldFirst(t, id)
    <2> SUFFICES ASSUME NEW i \in 1 .. n - 1, NEW j \in 1 .. n - 1, i < j,
                        id \in DOMAIN t[i], id \in DOMAIN t[j], t[j][id].old
                 PROVE  t[i][id].old
      BY <1>1 DEF OldFirst
    <2>1. i + 1 < j + 1
      BY <1>1
    <2> QED
      BY <1>1, <1>2, <1>3, <2>1 DEF OldFirst
  <1>4. ASSUME AllOld(fl, id) PROVE AllOld(t, id)
    BY <1>1, <1>2, <1>4 DEF AllOld
  <1>5. ASSUME OldFirst(fl, id), id \in DOMAIN fl[1], ~fl[1][id].old,
               NEW i \in DOMAIN fl, id \in DOMAIN fl[i]
        PROVE  ~fl[i][id].old
    <2>1. i = 1 \/ 1 < i
      BY <1>1
    <2>2. 1 \in DOMAIN fl
      BY <1>1
    <2> QED
      BY <1>5, <2>1, <2>2 DEF OldFirst
  <1> QED
    BY <1>1, <1>3, <1>4, <1>5 DEF t

\* The weights of good shares are natural.
LEMMA SumNat ==
    ASSUME NEW fl \in Seq(Steps), NEW id, NEW kind \in Kinds,
           \A i \in DOMAIN fl : id \in DOMAIN fl[i] => GoodShare(fl[i][id])
    PROVE  /\ Sum(fl, id, kind) \in Nat
           /\ Sum(fl, id, kind) = 0 <=>
                \A i \in DOMAIN fl : id \in DOMAIN fl[i] => Weigh(fl[i][id], kind) = 0
  <1> DEFINE w == Weights(fl, id, kind)
  <1>1. /\ w \in Seq(Int) /\ Len(w) = Len(fl) /\ DOMAIN fl = 1 .. Len(fl) /\ Len(fl) \in Nat
        /\ \A i \in DOMAIN fl : /\ fl[i] \in Steps
                                /\ w[i] = IF id \in DOMAIN fl[i] THEN Weigh(fl[i][id], kind) ELSE 0
    BY WeightsType
  <1> HIDE DEF w
  <1>2. ASSUME NEW i \in DOMAIN fl PROVE w[i] \in Nat
    <2>1. CASE id \in DOMAIN fl[i]
      <3>1. fl[i][id] \in ShareType /\ GoodShare(fl[i][id])
        BY <1>1, <2>1, StepShares
      <3>2. Weigh(fl[i][id], kind) \in Nat
        BY <3>1 DEF Weigh, ShareType, GoodShare
      <3> QED
        BY <1>1, <2>1, <3>2
    <2>2. CASE id \notin DOMAIN fl[i]
      BY <1>1, <2>2
    <2> QED
      BY <2>1, <2>2
  <1>3. w \in Seq(Nat) /\ DOMAIN w = DOMAIN fl
    <2>1. w \in [1 .. Len(fl) -> Nat]
      BY <1>1, <1>2
    <2> QED
      BY <1>1, <2>1
  <1>4. SumSeq(w) \in Nat /\ (SumSeq(w) = 0 <=> \A i \in DOMAIN w : w[i] = 0)
    BY <1>3, SumPositive
  <1>5. (\A i \in DOMAIN w : w[i] = 0)
          <=> \A i \in DOMAIN fl : id \in DOMAIN fl[i] => Weigh(fl[i][id], kind) = 0
    BY <1>1, <1>3
  <1> QED
    BY <1>4, <1>5 DEF Sum, w

\* Stale tokens are left exactly as long as the next share is stale.
LEMMA HeadStale ==
    ASSUME NEW fl \in Seq(Steps), fl /= <<>>, NEW id, OldFirst(fl, id), id \in DOMAIN Head(fl),
           \A i \in DOMAIN fl : id \in DOMAIN fl[i] => GoodShare(fl[i][id])
    PROVE  Head(fl)[id].old <=> Sum(fl, id, "stale") > 0
  <1>1. Head(fl) = fl[1] /\ 1 \in DOMAIN fl
    OBVIOUS
  <1>2. "stale" \in Kinds
    BY DEF Kinds
  <1>3. /\ Sum(fl, id, "stale") \in Nat
        /\ Sum(fl, id, "stale") = 0 <=>
             \A i \in DOMAIN fl : id \in DOMAIN fl[i] => Weigh(fl[i][id], "stale") = 0
    BY <1>2, SumNat
  <1>4. ASSUME NEW i \in DOMAIN fl, id \in DOMAIN fl[i]
        PROVE  Weigh(fl[i][id], "stale") = 0 <=> ~fl[i][id].old
    <2>1. GoodShare(fl[i][id]) /\ fl[i] \in Steps
      BY <1>4
    <2>2. fl[i][id] \in ShareType
      BY <1>4, <2>1, StepShares
    <2> QED
      BY <2>1, <2>2 DEF Weigh, GoodShare, ShareType
  <1>5. CASE Head(fl)[id].old
    BY <1>1, <1>3, <1>4, <1>5
  <1>6. CASE ~Head(fl)[id].old
    <2>1. \A i \in DOMAIN fl : id \in DOMAIN fl[i] => ~fl[i][id].old
      BY <1>6, PopOrder
    <2> QED
      BY <1>3, <1>4, <1>6, <2>1
  <1> QED
    BY <1>5, <1>6

\* A request of which only stale shares are left is owed nothing.
LEMMA AllStale ==
    ASSUME NEW fl \in Seq(Steps), NEW id, AllOld(fl, id),
           \A i \in DOMAIN fl : id \in DOMAIN fl[i] => GoodShare(fl[i][id])
    PROVE  Sum(fl, id, "owed") = 0 /\ Sum(fl, id, "drafts") = 0
  <1>1. {"owed", "drafts"} \subseteq Kinds
    BY DEF Kinds
  <1>2. ASSUME NEW i \in DOMAIN fl, id \in DOMAIN fl[i]
        PROVE  Weigh(fl[i][id], "owed") = 0 /\ Weigh(fl[i][id], "drafts") = 0
    BY <1>2 DEF Weigh, AllOld
  <1> QED
    BY <1>1, <1>2, SumNat

\* A preemption marks the shares of some requests as stale.
Outdated(fl, ids) ==
    [i \in DOMAIN fl |->
        [id \in DOMAIN fl[i] |->
            IF id \in ids THEN [fl[i][id] EXCEPT !.old = TRUE] ELSE fl[i][id]]]

\* Outdating changes the marks of some shares and nothing else.
LEMMA OutdatedSteps ==
    ASSUME NEW fl \in Seq(Steps), NEW ids
    PROVE  /\ Outdated(fl, ids) \in Seq(Steps)
           /\ Len(Outdated(fl, ids)) = Len(fl)
           /\ DOMAIN Outdated(fl, ids) = DOMAIN fl
           /\ \A i \in DOMAIN fl :
                /\ DOMAIN Outdated(fl, ids)[i] = DOMAIN fl[i]
                /\ \A id \in DOMAIN fl[i] :
                     LET new == Outdated(fl, ids)[i][id]
                     IN /\ id \notin ids => new = fl[i][id]
                        /\ id \in ids => /\ new.old /\ new.n = fl[i][id].n
                                         /\ new.drafts = fl[i][id].drafts
                                         /\ new.samples = fl[i][id].samples
  <1> DEFINE o == Outdated(fl, ids)
             n == Len(fl)
  <1>1. n \in Nat /\ DOMAIN fl = 1 .. n /\ \A i \in DOMAIN fl : fl[i] \in Steps
    OBVIOUS
  <1>2. ASSUME NEW i \in DOMAIN fl
        PROVE  /\ DOMAIN o[i] = DOMAIN fl[i] /\ o[i] \in Steps
               /\ \A id \in DOMAIN fl[i] :
                     /\ id \notin ids => o[i][id] = fl[i][id]
                     /\ id \in ids => /\ o[i][id].old /\ o[i][id].n = fl[i][id].n
                                      /\ o[i][id].drafts = fl[i][id].drafts
                                      /\ o[i][id].samples = fl[i][id].samples
    <2> DEFINE s == fl[i]
    <2>1. DOMAIN s \subseteq Nat /\ \A x \in DOMAIN s : s[x] \in ShareType
      BY <1>1, StepShares
    <2>2. o[i] = [id \in DOMAIN s |-> IF id \in ids THEN [s[id] EXCEPT !.old = TRUE] ELSE s[id]]
      BY DEF Outdated
    <2> HIDE DEF s, o
    <2>3. ASSUME NEW id \in DOMAIN s
          PROVE  /\ o[i][id] \in ShareType
                 /\ id \notin ids => o[i][id] = s[id]
                 /\ id \in ids => /\ o[i][id].old /\ o[i][id].n = s[id].n
                                  /\ o[i][id].drafts = s[id].drafts
                                  /\ o[i][id].samples = s[id].samples
      <3>1. o[i][id] = IF id \in ids THEN [s[id] EXCEPT !.old = TRUE] ELSE s[id]
        BY <2>2
      <3>2. s[id] \in ShareType
        BY <2>1
      <3> QED
        BY <3>1, <3>2 DEF ShareType
    <2>4. DOMAIN o[i] = DOMAIN s
      BY <2>2
    <2>5. o[i] \in [DOMAIN s -> ShareType]
      BY <2>2, <2>3
    <2>6. o[i] \in Steps
      BY <2>1, <2>5 DEF Steps
    <2> QED
      BY <2>3, <2>4, <2>6 DEF s
  <1>3. DOMAIN o = 1 .. n
    BY <1>1 DEF Outdated
  <1>4. o \in [1 .. n -> Steps]
    <2>1. o = [i \in 1 .. n |-> o[i]]
      BY <1>1 DEF Outdated
    <2> HIDE DEF o
    <2> QED
      BY <1>1, <1>2, <2>1
  <1>5. o \in Seq(Steps) /\ Len(o) = n
    <2> HIDE DEF o, n
    <2> QED
      BY <1>1, <1>3, <1>4
  <1> QED
    BY <1>1, <1>2, <1>3, <1>5

\* It does not change how others see the pipeline.
LEMMA OutdatedOthers ==
    ASSUME NEW fl \in Seq(Steps), NEW ids, NEW id, id \notin ids
    PROVE  /\ \A kind \in Kinds : Sum(Outdated(fl, ids), id, kind) = Sum(fl, id, kind)
           /\ OldFirst(fl, id) => OldFirst(Outdated(fl, ids), id)
           /\ AllOld(fl, id) => AllOld(Outdated(fl, ids), id)
  <1> DEFINE o == Outdated(fl, ids)
  <1>1. /\ DOMAIN o = DOMAIN fl
        /\ \A i \in DOMAIN fl : DOMAIN o[i] = DOMAIN fl[i] /\ (id \in DOMAIN fl[i] => o[i][id] = fl[i][id])
    BY OutdatedSteps
  <1> HIDE DEF o
  <1>2. ASSUME NEW kind \in Kinds PROVE Weights(o, id, kind) = Weights(fl, id, kind)
    BY <1>1 DEF Weights
  <1> QED
    BY <1>1, <1>2 DEF Sum, OldFirst, AllOld, o

\* Of a preempted request everything in flight is stale.
LEMMA OutdatedOwn ==
    ASSUME NEW fl \in Seq(Steps), NEW ids, NEW id \in ids
    PROVE  /\ Sum(Outdated(fl, ids), id, "tokens") = Sum(fl, id, "tokens")
           /\ Sum(Outdated(fl, ids), id, "stale") = Sum(fl, id, "tokens")
           /\ OldFirst(Outdated(fl, ids), id) /\ AllOld(Outdated(fl, ids), id)
  <1> DEFINE o == Outdated(fl, ids)
  <1>1. /\ DOMAIN o = DOMAIN fl
        /\ \A i \in DOMAIN fl : /\ DOMAIN o[i] = DOMAIN fl[i]
                                /\ id \in DOMAIN fl[i] => o[i][id].old /\ o[i][id].n = fl[i][id].n
    BY OutdatedSteps
  <1> HIDE DEF o
  <1>2. Weights(o, id, "tokens") = Weights(fl, id, "tokens")
    BY <1>1 DEF Weights, Weigh
  <1>3. Weights(o, id, "stale") = Weights(fl, id, "tokens")
    BY <1>1 DEF Weights, Weigh
  <1> QED
    BY <1>1, <1>2, <1>3 DEF Sum, OldFirst, AllOld, o

-----------------------------------------------------------------------------
(* Types and queues *)

Request ==
    [status : {"WAITING", "RUNNING", "PREEMPTED", "FINISHED"}, prompt : Nat, arrival : Nat,
     out : Seq(Int), resumable : {FALSE}, streaming : {<<>>}, computed : Int,
     placeholders : Int, inflight : Int, stale : Int, drop : BOOLEAN, chunk : BOOLEAN,
     spec : Nat, blocks : Nat, evicted : BOOLEAN, pos : Int, stalePos : Int]

RequestFields ==
    {"status", "prompt", "arrival", "out", "resumable", "streaming", "computed",
     "placeholders", "inflight", "stale", "drop", "chunk", "spec", "blocks", "evicted",
     "pos", "stalePos"}
HasFields(r) == r = [f \in RequestFields |-> r[f]]
Typed(r) ==
    /\ r.status \in {"WAITING", "RUNNING", "PREEMPTED", "FINISHED"}
    /\ r.prompt \in Nat /\ r.arrival \in Nat /\ r.out \in Seq(Int) /\ r.resumable = FALSE
    /\ r.streaming = <<>> /\ r.computed \in Int /\ r.placeholders \in Int
    /\ r.inflight \in Int /\ r.stale \in Int /\ r.drop \in BOOLEAN /\ r.chunk \in BOOLEAN
    /\ r.spec \in Nat /\ r.blocks \in Nat /\ r.evicted \in BOOLEAN /\ r.pos \in Int
    /\ r.stalePos \in Int

CallType ==
    [pc : {"running", "waiting", "waited", "return"}, index : Nat, budget : Nat,
     defer : BOOLEAN, decoding : BOOLEAN, prefill : Int, selected : SUBSET Nat,
     prefilling : BOOLEAN, preempted : BOOLEAN, ran : BOOLEAN, passed : Seq(Nat),
     step : Steps, marks : SUBSET Nat]

Types ==
    /\ conf \in Configs /\ chunks \in Nat
    /\ req \in Seq(Request)
    /\ inflight \in Seq(Steps) /\ \A i \in DOMAIN inflight : DOMAIN inflight[i] \subseteq Ids
    /\ cur = Idle \/ cur \in CallType

\* The requests that the call in progress has passed over and still has to put back.
Passed == IF cur.pc \in {"waiting", "waited"} THEN cur.passed ELSE <<>>

RunningIds == {id \in Ids : req[id].status = "RUNNING"}
WaitingIds == {id \in Ids : req[id].status \in {"WAITING", "PREEMPTED"}}

\* Every unfinished request is in one queue, once, and in the one its status says.
Queued ==
    /\ Queue(running) /\ Range(running) = RunningIds
    /\ Queue(waiting) /\ Queue(skipped) /\ Queue(Passed)
    /\ Range(waiting) \cap Range(skipped) = {}
    /\ Range(waiting) \cap Range(Passed) = {}
    /\ Range(skipped) \cap Range(Passed) = {}
    /\ Range(waiting) \cup Range(skipped) \cup Range(Passed) = WaitingIds
    /\ held = 0

\* What a call has scheduled is running, and comes before what it has still to
\* visit: the request that is preempted for another one is not in the step.
Called ==
    cur /= Idle =>
        /\ DOMAIN cur.step \subseteq RunningIds
        /\ \A id \in DOMAIN cur.step : ~cur.step[id].old
        /\ cur.pc = "running" =>
             /\ cur.passed = <<>>
             /\ cur.index \in 1 .. Len(running) + 1
             /\ \A i \in 1 .. Len(running) : running[i] \in DOMAIN cur.step => i < cur.index

\* A waiting request has nothing computed.
Unstarted ==
    \A id \in Ids : req[id].prompt >= 1 /\ (id \in WaitingIds => req[id].computed = 0)

QueueInv == Types /\ Queued /\ Called /\ Unstarted

\* The numbers of a configuration.
LEMMA Numbers ==
    ASSUME NEW c \in Configs
    PROVE  /\ c.maxSeqs \in Nat /\ c.batchTokens \in Nat /\ c.modelLen \in Nat /\ c.blocks \in Nat
           /\ c.spec \in Nat /\ c.longThreshold \in Nat /\ c.decodeBudget \in Nat
           /\ c.idleBudget \in Nat /\ c.batches \in Nat
           /\ c.maxTokens \in Nat /\ c.maxTokens >= 1 /\ c.blockSize \in Nat /\ c.blockSize >= 1
           /\ c.padding \in BOOLEAN /\ c.decodeAware \in BOOLEAN
           /\ c.throttles \subseteq BOOLEAN /\ c.resumable \subseteq BOOLEAN
           /\ c.prompts \subseteq 1 .. c.modelLen - 1 /\ c.cached \subseteq Nat
  BY ConfigAssumption

\* A request is a record of its fields.
LEMMA RequestTyped ==
    ASSUME NEW r
    PROVE  r \in Request <=> HasFields(r) /\ Typed(r)
  <1>1. ASSUME r \in Request PROVE HasFields(r)
    BY <1>1 DEF HasFields, Request, RequestFields
  <1>2. ASSUME r \in Request PROVE Typed(r)
    BY <1>2 DEF Typed, Request
  <1>3. ASSUME HasFields(r), Typed(r) PROVE r \in Request
    BY <1>3 DEF HasFields, Typed, Request, RequestFields
  <1> QED
    BY <1>1, <1>2, <1>3

\* The fields of a request after each of the scheduler's updates.
LEMMA NewFields ==
    ASSUME NEW prompt \in Nat, chunks \in Nat, req \in Seq(Request)
    PROVE  LET r == NewRequest(prompt, FALSE)
           IN /\ r \in Request /\ r.status = "WAITING" /\ r.prompt = prompt /\ r.out = <<>>
              /\ r.computed = 0 /\ r.placeholders = 0 /\ r.inflight = 0 /\ r.stale = 0
              /\ r.blocks = 0 /\ r.pos = prompt /\ r.stalePos = prompt
  <1>1. Arrives \in Nat
    BY DEF Arrives
  <1> QED
    BY <1>1 DEF NewRequest, Request

\* _free_request.
LEMMA FreeFields ==
    ASSUME NEW q \in Request
    PROVE  LET r == _free_request(q)
           IN /\ r \in Request /\ r.status = "FINISHED" /\ r.out = q.out /\ r.prompt = q.prompt
              /\ r.blocks = 0 /\ r.inflight = 0 /\ r.resumable = q.resumable
  <1> DEFINE r == _free_request(q)
  <1>1. HasFields(q) /\ Typed(q)
    BY RequestTyped
  <1>2. HasFields(r)
    BY <1>1 DEF HasFields, _free_request
  <1>3. /\ r.status = "FINISHED" /\ r.prompt = q.prompt /\ r.arrival = q.arrival
        /\ r.out = q.out /\ r.resumable = q.resumable /\ r.streaming = <<>>
        /\ r.computed = 0 /\ r.placeholders = 0 /\ r.inflight = 0 /\ r.stale = 0
        /\ r.drop = FALSE /\ r.chunk = FALSE /\ r.spec = 0 /\ r.blocks = 0
        /\ r.evicted = FALSE /\ r.pos = 0 /\ r.stalePos = 0
    BY <1>1 DEF HasFields, RequestFields, _free_request
  <1> HIDE DEF r
  <1>4. Typed(r)
    <2>1. r.drop \in BOOLEAN /\ r.chunk \in BOOLEAN /\ r.evicted \in BOOLEAN
      BY Zenon, <1>3
    <2>2. r.resumable = FALSE
      BY Zenon, <1>1, <1>3 DEF Typed
    <2>3. r.out \in Seq(Int) /\ r.streaming = <<>> /\ r.prompt \in Nat /\ r.arrival \in Nat
      BY Zenon, <1>1, <1>3 DEF Typed
    <2>4. /\ r.status \in {"WAITING", "RUNNING", "PREEMPTED", "FINISHED"}
          /\ r.computed \in Int /\ r.placeholders \in Int
          /\ r.inflight \in Int /\ r.stale \in Int 
          /\ r.spec \in Nat /\ r.blocks \in Nat /\ r.pos \in Int
          /\ r.stalePos \in Int
      BY <1>3
    <2> QED
      BY Zenon, <2>1, <2>2, <2>3, <2>4 DEF Typed
  <1> QED
    BY <1>2, <1>3, <1>4, RequestTyped DEF r

\* _preempt_request.
LEMMA PreemptFields ==
    ASSUME NEW q \in Request, NEW drop \in BOOLEAN
    PROVE  LET r == _preempt_request(q, drop)
           IN /\ r \in Request /\ r.status = "PREEMPTED" /\ r.out = q.out /\ r.prompt = q.prompt
              /\ r.computed = 0 /\ r.placeholders = 0 /\ r.inflight = q.inflight
              /\ r.stale = q.inflight /\ r.drop = (drop \/ (q.drop /\ q.stale > 0))
              /\ r.blocks = 0 /\ r.evicted = q.evicted /\ r.stalePos = q.pos
  <1> DEFINE r == _preempt_request(q, drop)
  <1>1. HasFields(q) /\ Typed(q)
    BY RequestTyped
  <1>2. HasFields(r)
    BY <1>1 DEF HasFields, _preempt_request
  <1>3. /\ r.status = "PREEMPTED" /\ r.prompt = q.prompt /\ r.arrival = q.arrival
        /\ r.out = q.out /\ r.resumable = q.resumable /\ r.streaming = q.streaming
        /\ r.computed = 0 /\ r.placeholders = 0 /\ r.inflight = q.inflight
        /\ r.stale = q.inflight /\ r.drop = (drop \/ (q.drop /\ q.stale > 0))
        /\ r.chunk = q.chunk /\ r.spec = 0 /\ r.blocks = 0 /\ r.evicted = q.evicted
        /\ r.pos = q.pos /\ r.stalePos = q.pos
    BY <1>1 DEF HasFields, RequestFields, _preempt_request
  <1>5. (drop \/ (q.drop /\ q.stale > 0)) \in BOOLEAN
    OBVIOUS
  <1> HIDE DEF r
  <1>4. Typed(r)
    BY <1>1, <1>3, <1>5 DEF Typed
  <1> QED
    BY <1>2, <1>3, <1>4, RequestTyped DEF r

\* The share of a request.
LEMMA ShareFields ==
    ASSUME NEW q \in Request, NEW n \in Int, NEW drafts \in Nat, NEW computed \in Int
    PROVE  LET s == Share(q, n, drafts, computed)
           IN /\ s \in ShareType /\ s.n = n /\ s.drafts = drafts /\ ~s.old
              /\ s.samples = (computed + n >= num_tokens(q) + q.placeholders)
              /\ s.behind = (num_tokens(q) + q.placeholders - computed > 1)
  BY DEF Share, ShareType, num_tokens, Request

\* _update_after_schedule.
LEMMA ScheduledFields ==
    ASSUME NEW q \in Request, NEW s \in ShareType, conf \in Configs
    PROVE  LET r == _update_after_schedule(q, s)
               chunk == q.computed + s.n < num_tokens(q) + q.placeholders
           IN /\ r \in Request /\ r.status = q.status /\ r.out = q.out /\ r.prompt = q.prompt
              /\ r.computed = q.computed + s.n /\ r.chunk = chunk
              /\ r.placeholders = q.placeholders + (IF chunk THEN 0 ELSE 1 + s.drafts)
              /\ r.inflight = q.inflight + s.n /\ r.stale = q.stale /\ r.drop = q.drop
              /\ r.blocks = q.blocks /\ r.evicted = q.evicted /\ r.pos = q.pos
              /\ r.stalePos = q.stalePos
  <1> DEFINE r == _update_after_schedule(q, s)
             computed == q.computed + s.n
             chunk == computed < num_tokens(q) + q.placeholders
             placeholders == IF chunk THEN q.placeholders ELSE q.placeholders + 1 + s.drafts
             spec == IF chunk THEN q.spec ELSE conf.spec
             some == q.inflight + s.n
  <1>1. HasFields(q) /\ Typed(q)
    BY RequestTyped
  <1>5. conf.spec \in Nat /\ s.n \in Int /\ s.drafts \in Nat
    BY Numbers DEF ShareType
  <1>6. num_tokens(q) \in Int
    BY <1>1 DEF num_tokens, Typed
  <1>7. /\ computed \in Int /\ chunk \in BOOLEAN /\ placeholders \in Int /\ spec \in Nat
        /\ some \in Int
        /\ placeholders = q.placeholders + (IF chunk THEN 0 ELSE 1 + s.drafts)
    <2>1. {q.computed, q.inflight, q.placeholders} \subseteq Int /\ q.spec \in Nat
      BY <1>1 DEF Typed
    <2> QED
      BY <1>5, <1>6, <2>1
  <1>2. HasFields(r)
    BY <1>1 DEF HasFields, _update_after_schedule
  <1>3. /\ r.status = q.status /\ r.prompt = q.prompt /\ r.arrival = q.arrival
        /\ r.out = q.out /\ r.resumable = q.resumable /\ r.streaming = q.streaming
        /\ r.computed = computed /\ r.placeholders = placeholders /\ r.inflight = some
        /\ r.stale = q.stale /\ r.drop = q.drop /\ r.chunk = chunk /\ r.spec = spec
        /\ r.blocks = q.blocks /\ r.evicted = q.evicted /\ r.pos = q.pos
        /\ r.stalePos = q.stalePos
    BY <1>1 DEF HasFields, RequestFields, _update_after_schedule
  <1> HIDE DEF r, computed, chunk, placeholders, spec, some
  <1>4. Typed(r)
    BY <1>1, <1>3, <1>7 DEF Typed
  <1>8. r \in Request
    BY <1>2, <1>4, RequestTyped
  <1> QED
    BY <1>3, <1>7, <1>8 DEF r, computed, chunk, some

\* A share leaves the pipeline.
LEMMA DrainedFields ==
    ASSUME NEW q \in Request, NEW s \in ShareType, NEW k \in Nat
    PROVE  LET r == Drained(q, s, k)
           IN /\ r \in Request /\ r.status = q.status /\ r.out = q.out /\ r.prompt = q.prompt
              /\ r.computed = q.computed /\ r.placeholders = q.placeholders /\ r.chunk = q.chunk
              /\ r.inflight = q.inflight - s.n
              /\ r.stale = (IF q.stale > 0 THEN q.stale - s.n ELSE q.stale)
              /\ r.drop = q.drop /\ r.blocks = q.blocks /\ r.evicted = q.evicted
              /\ r.pos = (IF s.old THEN q.pos ELSE q.pos + k)
              /\ r.stalePos = (IF s.old THEN q.stalePos + k ELSE q.stalePos)
  <1> DEFINE r == Drained(q, s, k)
             stale == IF q.stale > 0 THEN q.stale - s.n ELSE q.stale
             pos == IF s.old THEN q.pos ELSE q.pos + k
             stalePos == IF s.old THEN q.stalePos + k ELSE q.stalePos
             some == q.inflight - s.n
  <1>1. HasFields(q) /\ Typed(q)
    BY RequestTyped
  <1>5. s.n \in Int
    BY DEF ShareType
  <1>6. {q.stale, q.inflight, q.pos, q.stalePos} \subseteq Int
    BY <1>1 DEF Typed
  <1>7. stale \in Int /\ pos \in Int /\ stalePos \in Int /\ some \in Int
    BY <1>5, <1>6
  <1>2. HasFields(r)
    BY <1>1 DEF HasFields, Drained
  <1>3. /\ r.status = q.status /\ r.prompt = q.prompt /\ r.arrival = q.arrival
        /\ r.out = q.out /\ r.resumable = q.resumable /\ r.streaming = q.streaming
        /\ r.computed = q.computed /\ r.placeholders = q.placeholders
        /\ r.inflight = some /\ r.stale = stale /\ r.drop = q.drop /\ r.chunk = q.chunk
        /\ r.spec = q.spec /\ r.blocks = q.blocks /\ r.evicted = q.evicted
        /\ r.pos = pos /\ r.stalePos = stalePos
    BY <1>1 DEF HasFields, RequestFields, Drained
  <1> HIDE DEF r, stale, pos, stalePos, some
  <1>4. Typed(r)
    BY <1>1, <1>3, <1>7 DEF Typed
  <1>8. r \in Request
    BY <1>2, <1>4, RequestTyped
  <1> QED
    BY <1>3, <1>8 DEF r, stale, pos, stalePos, some

\* The model runner had evicted the request.
LEMMA EvictedFields ==
    ASSUME NEW q \in Request
    PROVE  LET r == [q EXCEPT !.evicted = TRUE]
           IN /\ r \in Request /\ r.evicted
              /\ r.status = q.status /\ r.out = q.out /\ r.prompt = q.prompt
              /\ r.computed = q.computed /\ r.placeholders = q.placeholders /\ r.chunk = q.chunk
              /\ r.inflight = q.inflight /\ r.stale = q.stale /\ r.drop = q.drop
              /\ r.blocks = q.blocks /\ r.pos = q.pos /\ r.stalePos = q.stalePos
  BY DEF Request

\* No more tokens are appended than were sampled.
LEMMA KeptType ==
    ASSUME NEW q \in Request, NEW k \in Nat, NEW eos \in BOOLEAN, conf \in Configs
    PROVE  Kept(q, k, eos) \in 0 .. k
  <1>1. conf.maxTokens \in Nat /\ conf.modelLen \in Nat
    BY Numbers
  <1>2. Len(q.out) \in Int /\ num_tokens(q) \in Int
    BY DEF num_tokens, Request
  <1> QED
    BY <1>1, <1>2 DEF Kept, Least, Most

\* Tokens are appended, rejected drafts rolled back.
LEMMA DeliveredFields ==
    ASSUME NEW q \in Request, NEW s \in ShareType, NEW k \in Nat, NEW eos \in BOOLEAN,
           conf \in Configs
    PROVE  LET r == Delivered(q, s, k, eos)
               kept == Kept(q, k, eos)
               rejected == Rejected(s, k)
               base == IF s.old THEN q.stalePos ELSE q.pos
           IN /\ r \in Request /\ r.status = q.status /\ r.prompt = q.prompt
              /\ r.out = q.out \o [i \in 1 .. kept |-> base + i]
              /\ Len(r.out) = Len(q.out) + kept
              /\ rejected \in Int
              /\ r.computed = (IF q.stale > 0 \/ ~(q.computed > 0) THEN q.computed
                               ELSE q.computed - rejected)
              /\ r.placeholders = (IF q.stale > 0 THEN q.placeholders
                                   ELSE (IF q.placeholders > 0 THEN q.placeholders - rejected
                                         ELSE q.placeholders) - kept)
              /\ r.chunk = q.chunk /\ r.inflight = q.inflight - s.n
              /\ r.stale = (IF q.stale > 0 THEN q.stale - s.n ELSE q.stale)
              /\ r.drop = q.drop /\ r.blocks = q.blocks /\ r.evicted = q.evicted
              /\ r.pos = (IF s.old THEN q.pos ELSE q.pos + k)
              /\ r.stalePos = (IF s.old THEN q.stalePos + k ELSE q.stalePos)
  <1> DEFINE kept == Kept(q, k, eos)
             rejected == Rejected(s, k)
             base == IF s.old THEN q.stalePos ELSE q.pos
             d == Drained(q, s, k)
             more == [i \in 1 .. kept |-> base + i]
             out == q.out \o more
             computed == IF q.stale > 0 \/ ~(q.computed > 0) THEN q.computed
                         ELSE q.computed - rejected
             placeholders == IF q.stale > 0 THEN q.placeholders
                             ELSE (IF q.placeholders > 0 THEN q.placeholders - rejected
                                   ELSE q.placeholders) - kept
             r == Delivered(q, s, k, eos)
  <1>1. /\ d \in Request /\ d.status = q.status /\ d.out = q.out /\ d.prompt = q.prompt
        /\ d.computed = q.computed /\ d.placeholders = q.placeholders /\ d.chunk = q.chunk
        /\ d.inflight = q.inflight - s.n
        /\ d.stale = (IF q.stale > 0 THEN q.stale - s.n ELSE q.stale)
        /\ d.drop = q.drop /\ d.blocks = q.blocks /\ d.evicted = q.evicted
        /\ d.pos = (IF s.old THEN q.pos ELSE q.pos + k)
        /\ d.stalePos = (IF s.old THEN q.stalePos + k ELSE q.stalePos)
    BY DrainedFields
  <1>2. kept \in 0 .. k
    BY KeptType
  <1>3. rejected \in Int
    BY DEF Rejected, ShareType
  <1>4. base \in Int
    BY DEF Request
  <1>5. q.out \in Seq(Int)
    BY DEF Request
  <1> HIDE DEF kept, rejected, base, d
  <1>6. more \in Seq(Int) /\ Len(more) = kept
    <2>1. more \in [1 .. kept -> Int] /\ kept \in Nat
      BY <1>2, <1>4
    <2> QED
      BY <2>1
  <1> HIDE DEF more
  <1>7. out \in Seq(Int) /\ Len(out) = Len(q.out) + kept
    <2>1. ASSUME NEW a \in Seq(Int), NEW b \in Seq(Int)
          PROVE  a \o b \in Seq(Int) /\ Len(a \o b) = Len(a) + Len(b)
      OBVIOUS
    <2>2. Len(q.out \o more) = Len(q.out) + Len(more) /\ q.out \o more \in Seq(Int)
      BY <1>5, <1>6, <2>1
    <2> QED
      BY <1>6, <2>2
  <1>8. computed \in Int /\ placeholders \in Int
    BY SMTT(30), <1>2, <1>3 DEF Request
  <1>9. r = [d EXCEPT !.computed = computed, !.placeholders = placeholders, !.out = out]
    <2>1. r = [d EXCEPT !.computed = IF ~(q.stale > 0) /\ d.computed > 0 THEN d.computed - rejected ELSE d.computed,
                        !.placeholders = IF q.stale > 0 THEN d.placeholders
                                         ELSE (IF d.placeholders > 0 THEN d.placeholders - rejected
                                               ELSE d.placeholders) - kept,
                        !.out = d.out \o more]
      BY <1>1 DEF Delivered, d, kept, rejected, base, more, Request
    <2>2. (IF ~(q.stale > 0) /\ d.computed > 0 THEN d.computed - rejected ELSE d.computed) = computed
      BY <1>1
    <2>3. (IF q.stale > 0 THEN d.placeholders
           ELSE (IF d.placeholders > 0 THEN d.placeholders - rejected
                 ELSE d.placeholders) - kept) = placeholders
      BY <1>1
    <2>4. d.out \o more = out
      BY <1>1
    <2> QED
      BY <2>1, <2>2, <2>3, <2>4
  <1> HIDE DEF out, computed, placeholders, r
  <1>10. /\ r \in Request /\ r.computed = computed /\ r.placeholders = placeholders /\ r.out = out
         /\ r.status = d.status /\ r.prompt = d.prompt /\ r.chunk = d.chunk
         /\ r.inflight = d.inflight /\ r.stale = d.stale /\ r.drop = d.drop
         /\ r.blocks = d.blocks /\ r.evicted = d.evicted /\ r.pos = d.pos
         /\ r.stalePos = d.stalePos
    BY <1>1, <1>7, <1>8, <1>9 DEF Request
  <1> QED
    BY <1>1, <1>3, <1>7, <1>10 DEF kept, rejected, base, out, more, computed, placeholders, r

-----------------------------------------------------------------------------
(* The call in progress *)

CallFields ==
    {"pc", "index", "budget", "defer", "decoding", "prefill", "selected", "prefilling",
     "preempted", "ran", "passed", "step", "marks"}
HasCallFields(c) == c = [f \in CallFields |-> c[f]]
TypedCall(c) ==
    /\ c.pc \in {"running", "waiting", "waited", "return"} /\ c.index \in Nat /\ c.budget \in Nat
    /\ c.defer \in BOOLEAN /\ c.decoding \in BOOLEAN /\ c.prefill \in Int
    /\ c.selected \in SUBSET Nat /\ c.prefilling \in BOOLEAN /\ c.preempted \in BOOLEAN
    /\ c.ran \in BOOLEAN /\ c.passed \in Seq(Nat) /\ c.step \in Steps /\ c.marks \in SUBSET Nat

\* A call is a record of its locals.
LEMMA CallTyped ==
    ASSUME NEW c
    PROVE  c \in CallType <=> HasCallFields(c) /\ TypedCall(c)
  <1>1. ASSUME c \in CallType PROVE HasCallFields(c)
    BY <1>1 DEF HasCallFields, CallType, CallFields
  <1>2. ASSUME c \in CallType PROVE TypedCall(c)
    BY <1>2 DEF TypedCall, CallType
  <1>3. ASSUME HasCallFields(c), TypedCall(c) PROVE c \in CallType
    BY <1>3 DEF HasCallFields, TypedCall, CallType, CallFields
  <1> QED
    BY <1>1, <1>2, <1>3

\* A call in progress is not Idle.
LEMMA InCall ==
    ASSUME Types
    PROVE  /\ cur \in CallType <=> cur /= Idle
           /\ cur = Idle => cur.pc = "idle"
           /\ cur.pc \in {"running", "waiting", "waited", "return"} => cur \in CallType
  <1>1. cur = Idle => cur.pc = "idle"
    BY DEF Idle
  <1>2. cur \in CallType => cur.pc /= "idle"
    BY DEF CallType
  <1> QED
    BY <1>1, <1>2 DEF Types

\* A call that is given other types of locals is a call.
LEMMA CallNotIdle ==
    ASSUME NEW c \in CallType
    PROVE  c /= Idle
  <1>1. c.pc /= "idle" /\ Idle.pc = "idle"
    BY DEF CallType, Idle
  <1> QED
    BY <1>1

\* The requests.
LEMMA Requests ==
    ASSUME Types
    PROVE  /\ Len(req) \in Nat /\ DOMAIN req = Ids /\ Ids \subseteq Nat
           /\ \A id \in Ids : req[id] \in Request
           /\ Live \subseteq Ids
           /\ Live = {id \in Ids : req[id].status /= "FINISHED"}
  BY DEF Types, Ids, Live, is_finished

\* Unfinished requests are running or waiting.
LEMMA LiveIds ==
    ASSUME Types
    PROVE  /\ Live = RunningIds \cup WaitingIds /\ RunningIds \cap WaitingIds = {}
           /\ \A id \in Ids : id \notin RunningIds \cup WaitingIds <=> req[id].status = "FINISHED"
  <1>1. \A id \in Ids : req[id].status \in {"WAITING", "RUNNING", "PREEMPTED", "FINISHED"}
    BY Requests DEF Request
  <1> QED
    BY <1>1, Requests DEF RunningIds, WaitingIds

\* An update of some requests.
LEMMA Updated ==
    ASSUME Types, NEW f \in [Ids -> Request], req' = f
    PROVE  /\ req' \in Seq(Request) /\ Len(req') = Len(req) /\ Ids' = Ids
           /\ \A id \in Ids : req'[id] = f[id]
  <1>1. Len(req) \in Nat /\ f \in [1 .. Len(req) -> Request]
    BY Requests DEF Ids
  <1>2. f \in Seq(Request) /\ Len(f) = Len(req)
    BY <1>1
  <1> QED
    BY <1>2 DEF Ids

\* One request changes.
LEMMA UpdatedOne ==
    ASSUME Types, NEW id \in Ids, NEW r \in Request, req' = [req EXCEPT ![id] = r]
    PROVE  /\ req' \in Seq(Request) /\ Len(req') = Len(req) /\ Ids' = Ids
           /\ req'[id] = r /\ \A x \in Ids \ {id} : req'[x] = req[x]
  <1> DEFINE f == [req EXCEPT ![id] = r]
  <1>1. f \in [Ids -> Request] /\ f[id] = r /\ \A x \in Ids \ {id} : f[x] = req[x]
    BY Requests DEF Types
  <1> HIDE DEF f
  <1>2. req' = f
    BY DEF f
  <1> QED
    BY <1>1, <1>2, Updated

\* A share is added to a step.
With(step, id, share) == [x \in DOMAIN step \cup {id} |-> IF x = id THEN share ELSE step[x]]
\* A step with one more share.
LEMMA WithShare ==
    ASSUME NEW s \in Steps, NEW id \in Nat, NEW share \in ShareType
    PROVE  /\ With(s, id, share) \in Steps /\ DOMAIN With(s, id, share) = DOMAIN s \cup {id}
           /\ With(s, id, share)[id] = share
           /\ \A x \in DOMAIN s \ {id} : With(s, id, share)[x] = s[x]
  <1> DEFINE w == With(s, id, share)
             d == DOMAIN s \cup {id}
  <1>1. DOMAIN s \subseteq Nat /\ \A x \in DOMAIN s : s[x] \in ShareType
    BY StepShares
  <1>2. w \in [d -> ShareType] /\ d \in SUBSET Nat
    BY <1>1 DEF With
  <1>3. w \in Steps
    BY <1>2 DEF Steps
  <1> QED
    BY <1>3 DEF With

-----------------------------------------------------------------------------
(* What the steps do to the call and to the requests *)

\* Least and Most choose one of two numbers.
LEMMA LeastType ==
    ASSUME NEW a \in Int, NEW b \in Int
    PROVE  /\ Least(a, b) \in Int /\ Least(a, b) =< a /\ Least(a, b) =< b
           /\ Least(a, b) = a \/ Least(a, b) = b
           /\ Most(a, b) \in Int /\ Most(a, b) >= a /\ Most(a, b) >= b
           /\ Most(a, b) = a \/ Most(a, b) = b
  BY DEF Least, Most

\* Oldest picks some of the given requests.
LEMMA SelectedIds ==
    ASSUME Types
    PROVE  _select_long_prefill_request_ids \in SUBSET Nat
  <1>1. Live \subseteq Nat
    BY Requests
  <1>2. ASSUME NEW ids, NEW n PROVE Oldest(ids, n) \subseteq ids
    BY DEF Oldest
  <1> QED
    <2> DEFINE long == {id \in Live : _is_long_prefill_request(req[id])}
               inRunning == long \cap Range(running)
               inWaiting == (long \cap (Range(waiting) \cup Range(skipped))) \ inRunning
               admittable == Most(0, conf.maxSeqs - Len(running))
               all == inRunning \cup Oldest(inWaiting, admittable)
    <2>1. inRunning \subseteq Nat /\ inWaiting \subseteq Nat
      BY <1>1
    <2>2. Oldest(inWaiting, admittable) \subseteq Nat
      BY <1>2, <2>1
    <2>3. Oldest(all, conf.maxLong) \subseteq Nat
      BY <1>2, <2>1, <2>2
    <2> QED
      BY Zenon, <2>3 DEF _select_long_prefill_request_ids

\* A call starts with an empty step.
LEMMA BeginEffect ==
    ASSUME Types, BeginSchedule
    PROVE  /\ cur = Idle /\ cur' \in CallType /\ cur'.pc = "running" /\ cur'.index = 1
           /\ cur'.step = <<>> /\ cur'.passed = <<>>
           /\ conf.decodeAware =>
                /\ cur'.prefill >= 0
                /\ cur'.prefill =< IF cur'.decoding THEN conf.decodeBudget ELSE conf.idleBudget
           /\ Len(inflight) < conf.batches
           /\ conf' = conf /\ req' = req /\ running' = running /\ waiting' = waiting
           /\ skipped' = skipped /\ held' = held /\ inflight' = inflight /\ chunks' = chunks
  <1> DEFINE decoding == \E id \in Range(running) : ~req[id].chunk
             budget == IF pause = "PAUSED_ALL" THEN 0 ELSE conf.batchTokens
             prefill == IF conf.decodeAware
                        THEN Least(IF decoding THEN conf.decodeBudget
                                   ELSE conf.idleBudget, conf.batchTokens)
                        ELSE budget
             Begun(throttle_prefills) ==
                  [pc |-> "running", index |-> 1, budget |-> budget,
                   defer |-> throttle_prefills /\ ~saturated /\ decoding,
                   decoding |-> decoding, prefill |-> prefill,
                   selected |-> _select_long_prefill_request_ids,
                   prefilling |-> FALSE, preempted |-> FALSE, ran |-> FALSE, passed |-> <<>>,
                   step |-> <<>>, marks |-> {}]
  <1>1. PICK throttle_prefills \in conf.throttles : cur' = Begun(throttle_prefills)
    BY DEF BeginSchedule
  <1>2. /\ conf.batchTokens \in Nat /\ conf.decodeBudget \in Nat /\ conf.idleBudget \in Nat
        /\ conf.throttles \subseteq BOOLEAN
    BY Numbers DEF Types
  <1>3. decoding \in BOOLEAN
    OBVIOUS
  <1> HIDE DEF decoding
  <1> DEFINE cap == IF decoding THEN conf.decodeBudget ELSE conf.idleBudget
  <1>15. cap \in Nat /\ budget \in Nat
    BY <1>2
  <1>16. Least(cap, conf.batchTokens) \in Int /\ Least(cap, conf.batchTokens) =< cap /\ Least(cap, conf.batchTokens) >= 0
    <2> HIDE DEF cap
    <2> QED
      BY <1>2, <1>15 DEF Least
  <1>4. budget \in Nat /\ prefill \in Int
    <2> HIDE DEF budget
    <2> QED
      BY <1>15, <1>16
  <1>5. conf.decodeAware =>
           /\ prefill >= 0
           /\ prefill =< IF decoding THEN conf.decodeBudget ELSE conf.idleBudget
    BY <1>16
  <1> HIDE DEF budget, prefill
  <1>6. <<>> \in Steps
    <2>1. <<>> \in [{} -> ShareType]
      OBVIOUS
    <2> QED
      BY <2>1 DEF Steps
  <1>7. (throttle_prefills /\ ~saturated /\ decoding) \in BOOLEAN
    OBVIOUS
  <1>8. <<>> \in Seq(Nat) /\ {} \in SUBSET Nat
    OBVIOUS
  <1> DEFINE selected == _select_long_prefill_request_ids
             defer == throttle_prefills /\ ~saturated /\ decoding
  <1>9. cur' = [pc |-> "running", index |-> 1, budget |-> budget, defer |-> defer,
                decoding |-> decoding, prefill |-> prefill, selected |-> selected,
                prefilling |-> FALSE, preempted |-> FALSE, ran |-> FALSE, passed |-> <<>>,
                step |-> <<>>, marks |-> {}]
    BY <1>1
  <1>10. selected \in SUBSET Nat /\ defer \in BOOLEAN
    BY <1>7, SelectedIds
  <1> HIDE DEF selected, defer
  <1>11. /\ HasCallFields(cur') /\ cur'.pc = "running" /\ cur'.index = 1 /\ cur'.budget = budget
         /\ cur'.defer = defer /\ cur'.decoding = decoding /\ cur'.prefill = prefill
         /\ cur'.selected = selected /\ cur'.prefilling = FALSE /\ cur'.preempted = FALSE
         /\ cur'.ran = FALSE /\ cur'.passed = <<>> /\ cur'.step = <<>> /\ cur'.marks = {}
    BY <1>9 DEF HasCallFields, CallFields
  <1>12. TypedCall(cur')
    <2>1. /\ cur'.prefilling \in BOOLEAN /\ cur'.preempted \in BOOLEAN /\ cur'.ran \in BOOLEAN
          /\ cur'.defer \in BOOLEAN /\ cur'.decoding \in BOOLEAN
      BY Zenon, <1>3, <1>10, <1>11
    <2>2. cur'.index \in Nat /\ cur'.pc \in {"running", "waiting", "waited", "return"}
      BY <1>11
    <2> QED
      BY Zenon, <1>4, <1>6, <1>8, <1>10, <1>11, <2>1, <2>2 DEF TypedCall
  <1>13. cur' \in CallType
    BY <1>11, <1>12, CallTyped
  <1>14. /\ cur = Idle /\ Len(inflight) < conf.batches
         /\ conf' = conf /\ req' = req /\ running' = running /\ waiting' = waiting
         /\ skipped' = skipped /\ held' = held /\ inflight' = inflight /\ chunks' = chunks
    BY DEF BeginSchedule, queues, env
  <1> QED
    BY <1>5, <1>11, <1>13, <1>14

\* The steps of a call that only change its locals.
LEMMA LocalEffect ==
    ASSUME Types, EndRunning \/ EndWaiting
    PROVE  /\ cur \in CallType /\ cur' \in CallType
           /\ EndRunning => cur.pc = "running" /\ cur'.pc \in {"waiting", "return"}
           /\ EndWaiting => cur.pc = "waiting" /\ cur'.pc = "waited"
           /\ cur'.step = cur.step /\ cur'.passed = cur.passed
           /\ cur'.prefill = cur.prefill /\ cur'.decoding = cur.decoding
           /\ conf' = conf /\ req' = req /\ running' = running /\ waiting' = waiting
           /\ skipped' = skipped /\ held' = held /\ inflight' = inflight /\ chunks' = chunks
  <1>1. cur \in CallType
    BY InCall DEF EndRunning, EndWaiting
  <1>2. HasCallFields(cur) /\ TypedCall(cur)
    BY <1>1, CallTyped
  <1>3. /\ conf' = conf /\ req' = req /\ running' = running /\ waiting' = waiting
        /\ skipped' = skipped /\ held' = held /\ inflight' = inflight /\ chunks' = chunks
    BY DEF EndRunning, EndWaiting, queues, env
  <1>4. ASSUME NEW p \in {"running", "waiting", "waited", "return"}, NEW c,
               c = [cur EXCEPT !.pc = p]
        PROVE  /\ c \in CallType /\ c.pc = p /\ c.step = cur.step /\ c.passed = cur.passed
               /\ c.prefill = cur.prefill /\ c.decoding = cur.decoding
    <2>1. /\ HasCallFields(c) /\ c.pc = p /\ c.index = cur.index /\ c.budget = cur.budget
          /\ c.defer = cur.defer /\ c.decoding = cur.decoding /\ c.prefill = cur.prefill
          /\ c.selected = cur.selected /\ c.prefilling = cur.prefilling
          /\ c.preempted = cur.preempted /\ c.ran = cur.ran
          /\ c.passed = cur.passed /\ c.step = cur.step /\ c.marks = cur.marks
      BY <1>2, <1>4 DEF HasCallFields, CallFields
    <2>2. TypedCall(c)
      BY <1>2, <2>1 DEF TypedCall
    <2> QED
      BY <2>1, <2>2, CallTyped
  <1>5. CASE EndRunning
    <2> DEFINE p == IF ~cur.preempted /\ pause = "UNPAUSED" THEN "waiting" ELSE "return"
               b == DOMAIN cur.step /= {}
    <2>1. cur' = [cur EXCEPT !.pc = p, !.ran = b] /\ cur.pc = "running"
      BY <1>5 DEF EndRunning
    <2>2. p \in {"waiting", "return"} /\ b \in BOOLEAN
      OBVIOUS
    <2>3. ~EndWaiting
      BY <2>1 DEF EndWaiting
    <2> HIDE DEF p, b
    <2>4. p \in {"running", "waiting", "waited", "return"}
      BY <2>2
    <2>5. /\ cur' \in CallType /\ cur'.pc = p /\ cur'.step = cur.step /\ cur'.passed = cur.passed
          /\ cur'.prefill = cur.prefill /\ cur'.decoding = cur.decoding
      <3> DEFINE c == cur'
      <3>1. c = [cur EXCEPT !.pc = p, !.ran = b]
        BY <2>1
      <3> HIDE DEF c
      <3>2. /\ c \in CallType /\ c.pc = p /\ c.step = cur.step /\ c.passed = cur.passed
            /\ c.prefill = cur.prefill /\ c.decoding = cur.decoding
        <4>1. /\ HasCallFields(c) /\ c.pc = p /\ c.index = cur.index /\ c.budget = cur.budget
              /\ c.defer = cur.defer /\ c.decoding = cur.decoding /\ c.prefill = cur.prefill
              /\ c.selected = cur.selected /\ c.prefilling = cur.prefilling
              /\ c.preempted = cur.preempted /\ c.ran = b
              /\ c.passed = cur.passed /\ c.step = cur.step /\ c.marks = cur.marks
          BY <1>2, <3>1 DEF HasCallFields, CallFields
        <4>2. TypedCall(c)
          BY <1>2, <2>2, <2>4, <4>1 DEF TypedCall
        <4> QED
          BY <4>1, <4>2, CallTyped
      <3> QED
        BY <3>2 DEF c
    <2> QED
      BY <1>1, <1>3, <2>1, <2>2, <2>3, <2>5
  <1>6. CASE EndWaiting
    <2>1. cur' = [cur EXCEPT !.pc = "waited"] /\ cur.pc = "waiting"
      BY <1>6 DEF EndWaiting
    <2>2. ~EndRunning
      BY <2>1 DEF EndRunning
    <2>3. /\ cur' \in CallType /\ cur'.pc = "waited" /\ cur'.step = cur.step
          /\ cur'.passed = cur.passed /\ cur'.prefill = cur.prefill
          /\ cur'.decoding = cur.decoding
      BY <1>4, <2>1
    <2> QED
      BY <1>1, <1>3, <2>1, <2>2, <2>3
  <1> QED
    BY <1>5, <1>6

\* A waiting request is at the head of one of two queues.
LEMMA CandidateId ==
    ASSUME QueueInv, WaitingLoop
    PROVE  /\ Candidate \in WaitingIds /\ Candidate \notin Range(Passed)
           /\ cur.pc = "waiting" /\ Passed = cur.passed
           /\ PopCandidate =>
                /\ Queue(waiting') /\ Queue(skipped')
                /\ Range(waiting') \cap Range(skipped') = {}
                /\ Range(waiting') \cup Range(skipped')
                     = (Range(waiting) \cup Range(skipped)) \ {Candidate}
  <1>0. /\ Queue(waiting) /\ Queue(skipped) /\ Range(waiting) \cap Range(skipped) = {}
        /\ Range(waiting) \cap Range(Passed) = {} /\ Range(skipped) \cap Range(Passed) = {}
        /\ Range(waiting) \cup Range(skipped) \cup Range(Passed) = WaitingIds
    BY DEF QueueInv, Queued
  <1>1. CASE skipped /= <<>>
    <2>1. Candidate = Head(skipped)
      BY <1>1 DEF Candidate
    <2>2. /\ Queue(Tail(skipped)) /\ Range(Tail(skipped)) = Range(skipped) \ {Head(skipped)}
          /\ Head(skipped) \in Range(skipped)
      BY <1>0, <1>1, TailQueue
    <2>3. PopCandidate => skipped' = Tail(skipped) /\ waiting' = waiting
      BY <1>1 DEF PopCandidate
    <2>4. Candidate \in WaitingIds /\ Candidate \notin Range(Passed)
      BY <1>0, <2>1, <2>2
    <2>5. ASSUME PopCandidate
          PROVE  /\ Queue(waiting') /\ Queue(skipped')
                 /\ Range(waiting') \cap Range(skipped') = {}
                 /\ Range(waiting') \cup Range(skipped')
                      = (Range(waiting) \cup Range(skipped)) \ {Candidate}
      <3>1. skipped' = Tail(skipped) /\ waiting' = waiting
        BY <2>3, <2>5
      <3>2. Queue(waiting') /\ Range(waiting') = Range(waiting)
        BY Zenon, <1>0, <3>1
      <3>3. Queue(skipped') /\ Range(skipped') = Range(skipped) \ {Candidate}
        BY Zenon, <2>1, <2>2, <3>1
      <3> QED
        BY <1>0, <2>1, <2>2, <3>2, <3>3
    <2> QED
      BY <2>4, <2>5 DEF WaitingLoop, Passed
  <1>2. CASE skipped = <<>>
    <2>1. Candidate = Head(waiting) /\ waiting /= <<>>
      BY <1>2 DEF Candidate, WaitingLoop
    <2>2. /\ Queue(Tail(waiting)) /\ Range(Tail(waiting)) = Range(waiting) \ {Head(waiting)}
          /\ Head(waiting) \in Range(waiting)
      BY <1>0, <2>1, TailQueue
    <2>3. PopCandidate => skipped' = skipped /\ waiting' = Tail(waiting)
      BY <1>2 DEF PopCandidate
    <2>4. Candidate \in WaitingIds /\ Candidate \notin Range(Passed)
      BY <1>0, <2>1, <2>2
    <2>5. ASSUME PopCandidate
          PROVE  /\ Queue(waiting') /\ Queue(skipped')
                 /\ Range(waiting') \cap Range(skipped') = {}
                 /\ Range(waiting') \cup Range(skipped')
                      = (Range(waiting) \cup Range(skipped)) \ {Candidate}
      <3>1. skipped' = skipped /\ waiting' = Tail(waiting)
        BY <2>3, <2>5
      <3>2. Queue(skipped') /\ Range(skipped') = Range(skipped)
        BY Zenon, <1>0, <3>1
      <3>3. Queue(waiting') /\ Range(waiting') = Range(waiting) \ {Candidate}
        BY Zenon, <2>1, <2>2, <3>1
      <3> QED
        BY <1>0, <2>1, <2>2, <3>2, <3>3
    <2> QED
      BY <2>4, <2>5 DEF WaitingLoop, Passed
  <1> QED
    BY <1>1, <1>2

\* A request is passed over.
LEMMA PassEffect ==
    ASSUME QueueInv, PassWaiting
    PROVE  /\ cur \in CallType /\ cur' \in CallType /\ cur.pc = "waiting" /\ cur'.pc = "waiting"
           /\ cur'.step = cur.step /\ cur'.passed = Append(cur.passed, Candidate)
           /\ cur'.prefill = cur.prefill /\ cur'.decoding = cur.decoding
           /\ WaitingLoop /\ PopCandidate
           /\ conf' = conf /\ req' = req /\ running' = running
           /\ held' = held /\ inflight' = inflight /\ chunks' = chunks
  <1> DEFINE c == cur'
             x == Candidate
  <1>1. /\ WaitingLoop /\ PopCandidate /\ cur.pc = "waiting"
        /\ conf' = conf /\ req' = req /\ running' = running
        /\ held' = held /\ inflight' = inflight /\ chunks' = chunks
        /\ c = [cur EXCEPT !.passed = Append(@, x)]
    BY DEF PassWaiting, WaitingLoop, env
  <1>2. cur \in CallType /\ HasCallFields(cur) /\ TypedCall(cur)
    BY <1>1, InCall, CallTyped DEF QueueInv
  <1>3. x \in Nat
    BY <1>1, CandidateId, Requests DEF WaitingIds, QueueInv
  <1> HIDE DEF c, x
  <1>4. /\ HasCallFields(c) /\ c.pc = cur.pc /\ c.index = cur.index /\ c.budget = cur.budget
        /\ c.defer = cur.defer /\ c.decoding = cur.decoding /\ c.prefill = cur.prefill
        /\ c.selected = cur.selected /\ c.prefilling = cur.prefilling
        /\ c.preempted = cur.preempted /\ c.ran = cur.ran
        /\ c.passed = Append(cur.passed, x) /\ c.step = cur.step /\ c.marks = cur.marks
    BY <1>1, <1>2 DEF HasCallFields, CallFields
  <1>5. c.passed \in Seq(Nat)
    <2>1. cur.passed \in Seq(Nat)
      BY <1>2 DEF TypedCall
    <2> QED
      BY <1>3, <1>4, <2>1
  <1>6. TypedCall(c)
    BY <1>2, <1>4, <1>5 DEF TypedCall
  <1>7. c \in CallType
    BY <1>4, <1>6, CallTyped
  <1> QED
    BY <1>1, <1>2, <1>4, <1>7 DEF c, x

\* The requests passed over go back.
LEMMA RequeueEffect ==
    ASSUME QueueInv, RequeuePassed
    PROVE  /\ cur \in CallType /\ cur' \in CallType /\ cur.pc = "waited" /\ cur'.pc = "return"
           /\ cur'.step = cur.step /\ skipped' = cur.passed \o skipped /\ waiting' = waiting
           /\ cur'.prefill = cur.prefill /\ cur'.decoding = cur.decoding
           /\ conf' = conf /\ req' = req /\ running' = running
           /\ held' = held /\ inflight' = inflight /\ chunks' = chunks
  <1> DEFINE c == cur'
  <1>1. /\ cur.pc = "waited"
        /\ conf' = conf /\ req' = req /\ running' = running
        /\ held' = held /\ inflight' = inflight /\ chunks' = chunks
        /\ c = [cur EXCEPT !.pc = "return"]
        /\ skipped' = cur.passed \o skipped /\ waiting' = waiting
    BY DEF RequeuePassed, PassedFirst, env
  <1>2. cur \in CallType /\ HasCallFields(cur) /\ TypedCall(cur)
    BY <1>1, InCall, CallTyped DEF QueueInv
  <1> HIDE DEF c
  <1>4. /\ HasCallFields(c) /\ c.pc = "return" /\ c.index = cur.index /\ c.budget = cur.budget
        /\ c.defer = cur.defer /\ c.decoding = cur.decoding /\ c.prefill = cur.prefill
        /\ c.selected = cur.selected /\ c.prefilling = cur.prefilling
        /\ c.preempted = cur.preempted /\ c.ran = cur.ran
        /\ c.passed = cur.passed /\ c.step = cur.step /\ c.marks = cur.marks
    BY <1>1, <1>2 DEF HasCallFields, CallFields
  <1>6. TypedCall(c)
    BY <1>2, <1>4 DEF TypedCall
  <1>7. c \in CallType
    BY <1>4, <1>6, CallTyped
  <1> QED
    BY <1>1, <1>2, <1>4, <1>7 DEF c

\* The running request that the loop visits.
LEMMA VisitedId ==
    ASSUME QueueInv, cur.pc = "running", cur.index =< Len(running)
    PROVE  /\ cur \in CallType /\ cur.index \in DOMAIN running
           /\ running[cur.index] \in RunningIds /\ running[cur.index] \in Ids
           /\ running[cur.index] \notin DOMAIN cur.step
           /\ Len(running) \in Nat /\ Len(running) >= 1 /\ running /= <<>>
           /\ Last(running) \in RunningIds /\ Last(running) \notin DOMAIN cur.step
           /\ Last(running) = running[Len(running)]
  <1>1. cur \in CallType /\ cur /= Idle
    BY InCall DEF QueueInv
  <1>2. Queue(running) /\ Range(running) = RunningIds
    BY DEF QueueInv, Queued
  <1>3. /\ cur.index \in 1 .. Len(running) + 1
        /\ \A i \in 1 .. Len(running) : running[i] \in DOMAIN cur.step => i < cur.index
    BY <1>1 DEF QueueInv, Called
  <1>4. Len(running) \in Nat /\ DOMAIN running = 1 .. Len(running) /\ running \in Seq(Nat)
    BY <1>2 DEF Queue
  <1>5. cur.index \in Nat /\ cur.index \in 1 .. Len(running) /\ Len(running) \in 1 .. Len(running)
    BY <1>3, <1>4
  <1>6. running[cur.index] \in RunningIds /\ running[Len(running)] \in RunningIds
    BY <1>2, <1>4, <1>5 DEF Range
  <1>7. running[cur.index] \notin DOMAIN cur.step /\ running[Len(running)] \notin DOMAIN cur.step
    BY <1>3, <1>4, <1>5
  <1>8. Last(running) = running[Len(running)]
    BY DEF Last
  <1>9. running /= <<>> /\ Len(running) >= 1
    BY <1>4, <1>5
  <1> QED
    BY <1>1, <1>4, <1>5, <1>6, <1>7, <1>8, <1>9 DEF RunningIds

\* What the running loop may give is a number within the budget.
LEMMA RunningTokensType ==
    ASSUME Types, cur \in CallType, NEW q \in Request
    PROVE  /\ RunningTokens(q) \in Int /\ RunningTokens(q) =< cur.budget
           /\ RunningTokens(q) =< num_tokens(q) + q.spec + q.placeholders - q.computed
           /\ RunningTokens(q) =< conf.modelLen - q.computed - 1
           /\ conf.decodeAware /\ q.chunk => RunningTokens(q) =< cur.prefill
           /\ num_tokens(q) \in Nat
  <1> DEFINE prefill == conf.decodeAware /\ q.chunk
             wanted == num_tokens(q) + q.spec + q.placeholders - q.computed
             capped == IF ~prefill /\ 0 < conf.longThreshold THEN Least(wanted, conf.longThreshold)
                       ELSE wanted
             granted == Least(capped, cur.budget)
             shared == IF prefill THEN Least(granted, cur.prefill) ELSE granted
             room == conf.modelLen - q.computed - 1
  <1>1. RunningTokens(q) = Least(shared, room)
    BY DEF RunningTokens
  <1>2. conf.longThreshold \in Int /\ conf.modelLen \in Int
    BY Numbers DEF Types
  <1>3. cur.budget \in Int /\ cur.prefill \in Int
    BY CallTyped DEF TypedCall
  <1>4. q.computed \in Int /\ q.placeholders \in Int /\ q.spec \in Nat /\ q.prompt \in Nat
        /\ q.out \in Seq(Int)
    BY RequestTyped DEF Typed
  <1>5. num_tokens(q) \in Nat
    BY <1>4 DEF num_tokens
  <1>6. wanted \in Int /\ room \in Int
    BY SMTT(30), <1>2, <1>4, <1>5
  <1> HIDE DEF wanted, room
  <1>7. capped \in Int /\ capped =< wanted
    BY <1>2, <1>6, LeastType
  <1> HIDE DEF capped
  <1>8. granted \in Int /\ granted =< capped /\ granted =< cur.budget
    BY <1>3, <1>7, LeastType
  <1> HIDE DEF granted
  <1>9. shared \in Int /\ shared =< granted /\ (prefill => shared =< cur.prefill)
    <2> HIDE DEF prefill
    <2>1. LET l == Least(granted, cur.prefill) IN l \in Int /\ l =< granted /\ l =< cur.prefill
      BY <1>3, <1>8 DEF Least
    <2> QED
      BY <1>8, <2>1
  <1> HIDE DEF shared, prefill
  <1>10. /\ Least(shared, room) \in Int /\ Least(shared, room) =< shared
         /\ Least(shared, room) =< room
    BY <1>6, <1>9, LeastType
  <1>11. /\ Least(shared, room) =< cur.budget /\ Least(shared, room) =< wanted
         /\ prefill => Least(shared, room) =< cur.prefill
    BY <1>3, <1>6, <1>7, <1>8, <1>9, <1>10
  <1> QED
    BY <1>1, <1>5, <1>10, <1>11 DEF wanted, room, prefill

\* The fields that scheduling a request leaves alone.
Alike(r, q) ==
    /\ r.prompt = q.prompt /\ r.out = q.out /\ r.placeholders = q.placeholders
    /\ r.inflight = q.inflight /\ r.stale = q.stale /\ r.drop = q.drop /\ r.chunk = q.chunk
    /\ r.stalePos = q.stalePos

\* The blocks of a request are a number.
LEMMA SlotBlocksType ==
    ASSUME conf \in Configs, NEW computed \in Int, NEW n \in Int
    PROVE  SlotBlocks(computed, n) \in Int
  <1>1. conf.blockSize \in Nat /\ conf.blockSize >= 1 /\ conf.spec \in Nat /\ conf.modelLen \in Nat
    BY Numbers
  <1>2. ASSUME NEW t \in Int PROVE Blocks(t) \in Int
    BY <1>1 DEF Blocks
  <1>3. Least(computed + n + conf.spec, conf.modelLen) \in Int
    BY <1>1 DEF Least
  <1> QED
    BY <1>2, <1>3 DEF SlotBlocks

\* The drafts that the running loop schedules.
Drafts(q, n) == Least(q.spec, Most(0, n + q.computed - num_tokens(q) - q.placeholders))

\* The drafts are a natural number.
LEMMA DraftsType ==
    ASSUME NEW q \in Request, NEW n \in Int
    PROVE  Drafts(q, n) \in Nat
  <1>1. q.computed \in Int /\ q.placeholders \in Int /\ q.spec \in Nat /\ q.prompt \in Nat
        /\ q.out \in Seq(Int)
    BY RequestTyped DEF Typed
  <1>2. num_tokens(q) \in Nat
    BY <1>1 DEF num_tokens
  <1> QED
    BY <1>1, <1>2 DEF Drafts, Least, Most

\* The running loop passes over a request, or gives it a share.
Skips(id) == cur'.step = cur.step /\ cur'.prefill = cur.prefill /\ req' = req
Grants(id) ==
    LET q == req[id]
        n == RunningTokens(q)
        r == req'[id]
    IN /\ ~SkipsRunning(id) /\ allocate_slots(q, q.computed, n)
       /\ req' \in Seq(Request) /\ Len(req') = Len(req) /\ \A x \in Ids \ {id} : req'[x] = req[x]
       /\ Alike(r, q) /\ r.status = q.status /\ r.computed = q.computed
       /\ r.evicted = q.evicted /\ r.pos = q.pos
       /\ r.blocks = Most(q.blocks, SlotBlocks(q.computed, n))
       /\ cur'.step = With(cur.step, id, Share(q, n, Drafts(q, n), q.computed))
       /\ cur'.prefill = IF conf.decodeAware /\ q.chunk THEN cur.prefill - n ELSE cur.prefill

\* One iteration of the running loop.
LEMMA GrantEffect ==
    ASSUME QueueInv, ScheduleRunning
    PROVE  LET id == running[cur.index]
           IN /\ cur.pc = "running" /\ cur.index =< Len(running) /\ cur.budget > 0
              /\ cur \in CallType /\ cur' \in CallType /\ cur'.pc = "running"
              /\ cur'.index = cur.index + 1 /\ cur'.passed = cur.passed
              /\ cur'.decoding = cur.decoding
              /\ Skips(id) \/ Grants(id)
              /\ conf' = conf /\ running' = running /\ waiting' = waiting /\ skipped' = skipped
              /\ held' = held /\ inflight' = inflight /\ chunks' = chunks
  <1> DEFINE id == running[cur.index]
             q == req[id]
             n == RunningTokens(q)
             prefill == conf.decodeAware /\ q.chunk
             c == cur'
             long == prefill /\ _is_long_prefill_request(q)
             share == Share(q, n, Drafts(q, n), q.computed)
             step == With(cur.step, id, share)
             blocks == Most(q.blocks, SlotBlocks(q.computed, n))
  <1>1. /\ cur.pc = "running" /\ cur.index =< Len(running) /\ cur.budget > 0
        /\ conf' = conf /\ running' = running /\ waiting' = waiting /\ skipped' = skipped
        /\ held' = held /\ inflight' = inflight /\ chunks' = chunks
    BY DEF ScheduleRunning, queues, env
  <1>2. cur \in CallType /\ HasCallFields(cur) /\ TypedCall(cur)
    BY <1>1, VisitedId, CallTyped
  <1>3. id \in Ids /\ id \in Nat /\ q \in Request /\ Types
    BY <1>1, VisitedId, Requests DEF QueueInv
  <1>4. cur.index \in Nat /\ cur.budget \in Nat /\ cur.prefill \in Int
    BY <1>2 DEF TypedCall
  <1>5. CASE /\ c = [cur EXCEPT !.index = @ + 1]
             /\ req' = req
    <2> HIDE DEF c
    <2>1. /\ HasCallFields(c) /\ c.pc = cur.pc /\ c.index = cur.index + 1
          /\ c.budget = cur.budget
          /\ c.defer = cur.defer /\ c.decoding = cur.decoding /\ c.prefill = cur.prefill
          /\ c.selected = cur.selected /\ c.prefilling = cur.prefilling
          /\ c.preempted = cur.preempted /\ c.ran = cur.ran
          /\ c.passed = cur.passed /\ c.step = cur.step /\ c.marks = cur.marks
      BY <1>2, <1>5 DEF HasCallFields, CallFields
    <2>2. cur.index + 1 \in Nat
      BY <1>4
    <2>3. TypedCall(c)
      BY <1>2, <2>1, <2>2 DEF TypedCall
    <2>4. c \in CallType
      BY <2>1, <2>3, CallTyped
    <2> QED
      BY <1>1, <1>2, <1>5, <2>1, <2>4 DEF c, Skips
  <1>6. CASE /\ ~SkipsRunning(id)
             /\ allocate_slots(q, q.computed, n)
             /\ req' = [req EXCEPT ![id].blocks = Most(@, SlotBlocks(q.computed, n)),
                                   ![id].spec = 0]
             /\ c = [cur EXCEPT !.index = @ + 1, !.budget = @ - n,
                                   !.prefill = IF prefill THEN @ - n ELSE @,
                                   !.prefilling = @ \/ q.chunk,
                                   !.marks = IF long THEN @ \cup {id} ELSE @,
                                   !.step = [x \in DOMAIN @ \cup {id} |->
                                               IF x = id THEN share ELSE @[x]]]
    <2>1. n \in Int /\ n =< cur.budget
      BY <1>2, <1>3, RunningTokensType
    <2>2. HasFields(q) /\ Typed(q)
      BY <1>3, RequestTyped
    <2>3. q.computed \in Int /\ q.blocks \in Nat /\ q.chunk \in BOOLEAN
      BY <2>2 DEF Typed
    <2>4. share \in ShareType
      BY <1>3, <2>1, <2>3, DraftsType, ShareFields
    <2>5. cur.step \in Steps /\ cur.marks \in SUBSET Nat /\ cur.prefilling \in BOOLEAN
      BY <1>2 DEF TypedCall
    <2>6. step \in Steps
      BY <1>3, <2>4, <2>5, WithShare
    <2>7. blocks \in Nat
      <3>1. SlotBlocks(q.computed, n) \in Int
        BY <1>3, <2>1, <2>3, SlotBlocksType DEF Types
      <3> QED
        BY <2>3, <3>1 DEF Most
    <2> DEFINE r == [q EXCEPT !.blocks = blocks, !.spec = 0]
    <2>8. req' = [req EXCEPT ![id] = r]
      <3> HIDE DEF n
      <3> QED
        BY <1>3, <1>6, <2>2 DEF HasFields, RequestFields
    <2>9. /\ HasFields(r) /\ Alike(r, q) /\ r.status = q.status /\ r.computed = q.computed
          /\ r.evicted = q.evicted /\ r.pos = q.pos /\ r.blocks = blocks /\ r.spec = 0
          /\ r.arrival = q.arrival /\ r.resumable = q.resumable /\ r.streaming = q.streaming
      <3> HIDE DEF blocks, q
      <3> QED
        BY <2>2 DEF HasFields, RequestFields, Alike
    <2> HIDE DEF r, blocks
    <2>10. r \in Request
      <3>1. Typed(r)
        <4> HIDE DEF q
        <4> QED
          BY <2>2, <2>7, <2>9 DEF Typed, Alike
      <3> QED
        BY <2>9, <3>1, RequestTyped
    <2>11. /\ req' \in Seq(Request) /\ Len(req') = Len(req)
           /\ req'[id] = r /\ \A x \in Ids \ {id} : req'[x] = req[x]
      BY <1>3, <2>8, <2>10, UpdatedOne
    <2> DEFINE after == IF prefill THEN cur.prefill - n ELSE cur.prefill
               marks == IF long THEN cur.marks \cup {id} ELSE cur.marks
               prefilling == cur.prefilling \/ q.chunk
               budget == cur.budget - n
    <2>12. c = [cur EXCEPT !.index = cur.index + 1, !.budget = budget, !.prefill = after,
                           !.prefilling = prefilling, !.marks = marks, !.step = step]
      <3> HIDE DEF n, share, prefill, long
      <3> QED
        BY <1>2, <1>6 DEF HasCallFields, CallFields, With
    <2>13. /\ after \in Int /\ marks \in SUBSET Nat /\ prefilling \in BOOLEAN /\ budget \in Nat
           /\ cur.index + 1 \in Nat
      BY <1>3, <1>4, <2>1, <2>3, <2>5
    <2> HIDE DEF after, marks, prefilling, budget, step, c
    <2>14. /\ HasCallFields(c) /\ c.pc = cur.pc /\ c.index = cur.index + 1
           /\ c.budget = budget
           /\ c.defer = cur.defer /\ c.decoding = cur.decoding /\ c.prefill = after
           /\ c.selected = cur.selected /\ c.prefilling = prefilling
           /\ c.preempted = cur.preempted /\ c.ran = cur.ran
           /\ c.passed = cur.passed /\ c.step = step /\ c.marks = marks
      BY <1>2, <2>12 DEF HasCallFields, CallFields
    <2>15. TypedCall(c)
      BY <1>2, <2>6, <2>13, <2>14 DEF TypedCall
    <2>16. c \in CallType
      BY <2>14, <2>15, CallTyped
    <2>17. Grants(id)
      <3>1. /\ req'[id] = r /\ Alike(r, q) /\ r.status = q.status /\ r.computed = q.computed
            /\ r.evicted = q.evicted /\ r.pos = q.pos
            /\ r.blocks = Most(q.blocks, SlotBlocks(q.computed, n))
        BY <2>9, <2>11 DEF blocks
      <3>2. /\ c.step = With(cur.step, id, share) /\ c.prefill = after
        BY <2>14 DEF step
      <3> HIDE DEF id
      <3> QED
        BY <1>6, <2>11, <3>1, <3>2 DEF Grants, c, after
    <2> QED
      BY <1>1, <1>2, <2>14, <2>16, <2>17 DEF c
  <1> QED
    <2>1. \/ c = [cur EXCEPT !.index = @ + 1] /\ req' = req
          \/ /\ ~SkipsRunning(id)
             /\ allocate_slots(q, q.computed, n)
             /\ req' = [req EXCEPT ![id].blocks = Most(@, SlotBlocks(q.computed, n)),
                                   ![id].spec = 0]
             /\ c = [cur EXCEPT !.index = @ + 1, !.budget = @ - n,
                                   !.prefill = IF prefill THEN @ - n ELSE @,
                                   !.prefilling = @ \/ q.chunk,
                                   !.marks = IF long THEN @ \cup {id} ELSE @,
                                   !.step = [x \in DOMAIN @ \cup {id} |->
                                               IF x = id THEN share ELSE @[x]]]
      BY Zenon DEF ScheduleRunning, Drafts
    <2> QED
      BY <1>5, <1>6, <2>1

\* The last running request gives way.
LEMMA PreemptEffect ==
    ASSUME QueueInv, PreemptRunning
    PROVE  LET victim == Last(running)
           IN /\ cur.pc = "running" /\ cur.index =< Len(running)
              /\ cur \in CallType /\ cur' \in CallType /\ cur'.pc \in {"running", "return"}
              /\ cur'.pc = "running" => victim /= running[cur.index]
              /\ cur'.index = cur.index /\ cur'.passed = cur.passed /\ cur'.step = cur.step
              /\ cur'.prefill = cur.prefill /\ cur'.decoding = cur.decoding
              /\ req' \in Seq(Request) /\ Len(req') = Len(req) /\ Ids' = Ids
              /\ req'[victim] = _preempt_request(req[victim], FALSE)
              /\ \A x \in Ids \ {victim} : req'[x] = req[x]
              /\ inflight' = Outdated(inflight, {victim})
              /\ running' = Front(running) /\ waiting' = <<victim>> \o waiting
              /\ conf' = conf /\ skipped' = skipped /\ held' = held /\ chunks' = chunks
  <1> DEFINE victim == Last(running)
             id == running[cur.index]
             p == IF victim = id THEN "return" ELSE cur.pc
             c == cur'
             r == _preempt_request(req[victim], FALSE)
  <1>1. /\ cur.pc = "running" /\ cur.index =< Len(running)
        /\ req' = [req EXCEPT ![victim] = r]
        /\ inflight' = Outdated(inflight, {victim})
        /\ running' = Front(running) /\ waiting' = <<victim>> \o waiting
        /\ c = [cur EXCEPT !.preempted = TRUE, !.pc = IF victim = id THEN "return" ELSE @]
        /\ conf' = conf /\ skipped' = skipped /\ held' = held /\ chunks' = chunks
    BY DEF PreemptRunning, Outdate, Outdated, env
  <1>2. cur \in CallType /\ HasCallFields(cur) /\ TypedCall(cur)
    BY <1>1, VisitedId, CallTyped
  <1>3. victim \in Ids /\ req[victim] \in Request /\ Types
    BY <1>1, VisitedId, Requests DEF QueueInv, RunningIds
  <1>4. r \in Request
    BY <1>3, PreemptFields
  <1> HIDE DEF r, victim, id
  <1>5. /\ req' \in Seq(Request) /\ Len(req') = Len(req) /\ Ids' = Ids
        /\ req'[victim] = r /\ \A x \in Ids \ {victim} : req'[x] = req[x]
    BY <1>1, <1>3, <1>4, UpdatedOne
  <1>6. /\ p \in {"running", "return"} /\ (p = "running" => victim /= id)
        /\ c = [cur EXCEPT !.preempted = TRUE, !.pc = p]
    BY <1>1, <1>2 DEF HasCallFields, CallFields
  <1> HIDE DEF p, c
  <1>7. /\ HasCallFields(c) /\ c.pc = p /\ c.index = cur.index /\ c.budget = cur.budget
        /\ c.defer = cur.defer /\ c.decoding = cur.decoding /\ c.prefill = cur.prefill
        /\ c.selected = cur.selected /\ c.prefilling = cur.prefilling
        /\ c.preempted = TRUE /\ c.ran = cur.ran
        /\ c.passed = cur.passed /\ c.step = cur.step /\ c.marks = cur.marks
    BY <1>2, <1>6 DEF HasCallFields, CallFields
  <1>8. TypedCall(c)
    BY <1>2, <1>6, <1>7 DEF TypedCall
  <1>9. c \in CallType
    BY <1>7, <1>8, CallTyped
  <1> QED
    BY <1>1, <1>2, <1>5, <1>6, <1>7, <1>9 DEF c, r, victim, id

\* What the waiting loop may give.
LEMMA WaitingTokensType ==
    ASSUME Types, cur \in CallType, NEW q \in Request, NEW computed \in Nat,
           computed < num_tokens(q)
    PROVE  LET n == WaitingTokens(q, computed)
           IN /\ n \in Int /\ n =< cur.budget /\ num_tokens(q) \in Nat
              /\ ~Pads(q, computed) => n =< num_tokens(q) - computed
              /\ Pads(q, computed) =>
                   /\ n =< 1 + conf.spec /\ num_tokens(q) = computed + 1
                   /\ n > 0 => computed + 1 + conf.spec =< conf.modelLen
                   /\ n > 0 /\ PadsAreWhole => n = 1 + conf.spec
              /\ n > 0 /\ conf.decodeAware => n =< cur.prefill
  <1> DEFINE pads == Pads(q, computed)
             missing == num_tokens(q) - computed
             padded == IF pads THEN 1 + conf.spec ELSE missing
             capped == IF ~conf.decodeAware /\ 0 < conf.longThreshold
                       THEN Least(padded, conf.longThreshold) ELSE padded
             granted == Least(capped, cur.budget)
             n == WaitingTokens(q, computed)
             stop == \/ cur.defer /\ computed < num_tokens(q) - 1
                     \/ pads /\ (padded > cur.budget \/ computed + padded > conf.modelLen)
                     \/ conf.decodeAware /\ cur.prefill =< 0
  <1>1. n = IF stop THEN 0 ELSE PrefillCapped(granted)
    BY DEF WaitingTokens
  <1>2. /\ conf.longThreshold \in Int /\ conf.modelLen \in Int /\ conf.spec \in Nat
        /\ conf.decodeAware \in BOOLEAN /\ conf \in Configs
    BY Numbers DEF Types
  <1>3. cur.budget \in Nat /\ cur.prefill \in Int
    BY CallTyped DEF TypedCall
  <1>4. q.prompt \in Nat /\ q.out \in Seq(Int)
    BY RequestTyped DEF Typed
  <1>5. num_tokens(q) \in Nat
    BY <1>4 DEF num_tokens
  <1>6. pads => conf.padding /\ conf.spec > 0 /\ missing = 1
    BY DEF Pads
  <1>7. missing \in Int /\ missing > 0 /\ pads \in BOOLEAN
    BY <1>5 DEF Pads
  <1> HIDE DEF pads, missing
  <1>8. padded \in Int /\ padded > 0
    BY <1>2, <1>7
  <1> HIDE DEF padded
  <1>9. /\ capped \in Int /\ capped =< padded
        /\ ~conf.decodeAware /\ (conf.longThreshold = 0 \/ padded =< conf.longThreshold) => capped = padded
    BY <1>2, <1>8 DEF Least
  <1> HIDE DEF capped
  <1>10. /\ granted \in Int /\ granted =< capped /\ granted =< cur.budget
         /\ granted = capped \/ granted = cur.budget
    BY <1>3, <1>9 DEF Least
  <1> HIDE DEF granted
  <1>11. /\ PrefillCapped(granted) \in Int /\ PrefillCapped(granted) =< granted
         /\ conf.decodeAware => PrefillCapped(granted) =< cur.prefill
         /\ ~conf.decodeAware => PrefillCapped(granted) = granted
    BY <1>2, <1>3, <1>10 DEF PrefillCapped, Least
  <1> DEFINE last0 == PrefillCapped(granted)
  <1> HIDE DEF last0, n
  <1>12. n \in Int /\ n =< cur.budget /\ n =< padded /\ (n > 0 => n = last0 /\ ~stop)
    BY <1>1, <1>3, <1>8, <1>9, <1>10, <1>11 DEF last0
  <1>13. n > 0 /\ conf.decodeAware => n =< cur.prefill
    BY <1>11, <1>12 DEF last0
  <1>14. ASSUME pads
         PROVE  /\ padded = 1 + conf.spec /\ missing = 1
                /\ n > 0 => computed + 1 + conf.spec =< conf.modelLen
                /\ n > 0 /\ PadsAreWhole => n = 1 + conf.spec
    <2>1. padded = 1 + conf.spec /\ missing = 1 /\ conf.padding
      BY <1>6, <1>14 DEF padded
    <2>2. n > 0 => padded =< cur.budget /\ computed + padded =< conf.modelLen
      BY <1>2, <1>3, <1>8, <1>12, <1>14
    <2>3. ASSUME n > 0, PadsAreWhole PROVE n = 1 + conf.spec
      <3>1. ~conf.decodeAware /\ (conf.longThreshold = 0 \/ conf.spec < conf.longThreshold)
        BY <1>2, <2>1, <2>3 DEF PadsAreWhole
      <3>2. capped = padded
        BY <1>2, <1>9, <2>1, <3>1
      <3>3. granted = padded
        BY <1>3, <1>8, <1>10, <2>2, <2>3, <3>2
      <3> QED
        BY <1>11, <1>12, <2>1, <2>3, <3>1, <3>3 DEF last0
    <2> QED
      BY <1>2, <2>1, <2>2, <2>3
  <1>15. ~pads => padded = missing
    BY DEF padded
  <1> QED
    BY <1>2, <1>5, <1>12, <1>13, <1>14, <1>15 DEF n, pads, missing

\* The waiting loop stops at a request, or admits it.
Admits(id, computed) ==
    LET q == req[id]
        n == WaitingTokens(q, computed)
        drafts == IF Pads(q, computed) THEN conf.spec ELSE 0
        r == req'[id]
    IN /\ n > 0 /\ allocate_slots(q, computed, n)
       /\ req' \in Seq(Request) /\ Len(req') = Len(req) /\ \A x \in Ids \ {id} : req'[x] = req[x]
       /\ Alike(r, q) /\ r.status = "RUNNING" /\ r.computed = computed
       /\ r.evicted = FALSE /\ r.pos = num_tokens(q)
       /\ r.blocks = Most(q.blocks, SlotBlocks(computed, n))
       /\ cur'.step = With(cur.step, id, Share(q, n, drafts, computed))
       /\ cur'.prefill = IF conf.decodeAware THEN cur.prefill - n ELSE cur.prefill
       /\ cur'.pc = "waiting" /\ PopCandidate /\ running' = Append(running, id)
StopsAt(id) ==
    /\ cur'.pc = "waited" /\ cur'.step = cur.step /\ cur'.prefill = cur.prefill
    /\ req' = req /\ running' = running /\ waiting' = waiting /\ skipped' = skipped

\* One iteration of the waiting loop.
LEMMA AdmitEffect ==
    ASSUME QueueInv, AdmitWaiting
    PROVE  LET id == Candidate
               q == req[id]
           IN /\ cur.pc = "waiting" /\ WaitingLoop /\ cur \in CallType /\ cur' \in CallType
              /\ cur'.passed = cur.passed /\ cur'.decoding = cur.decoding
              /\ ~MustPass(q)
              /\ \/ StopsAt(id)
                 \/ \E computed \in Nat : computed < num_tokens(q) /\ Admits(id, computed)
              /\ conf' = conf /\ held' = held /\ inflight' = inflight /\ chunks' = chunks
  <1> DEFINE id == Candidate
             q == req[id]
             c == cur'
             long == conf.decodeAware /\ _is_long_prefill_request(q)
  <1>1. /\ WaitingLoop /\ cur.pc = "waiting" /\ ~MustPass(q)
        /\ conf' = conf /\ held' = held /\ inflight' = inflight /\ chunks' = chunks
    BY DEF AdmitWaiting, WaitingLoop, env
  <1>2. cur \in CallType /\ HasCallFields(cur) /\ TypedCall(cur)
    BY <1>1, InCall, CallTyped DEF QueueInv
  <1>3. id \in Ids /\ id \in Nat /\ q \in Request /\ Types /\ id \in WaitingIds
    BY <1>1, CandidateId, Requests DEF QueueInv, WaitingIds
  <1>4. cur.budget \in Nat /\ cur.prefill \in Int
    BY <1>2 DEF TypedCall
  <1>5. PICK computed \in CachedTokens(q) :
          LET n == WaitingTokens(q, computed)
              drafts == IF Pads(q, computed) THEN conf.spec ELSE 0
          IN \/ /\ c = [cur EXCEPT !.pc = "waited"]
                /\ req' = req /\ running' = running /\ waiting' = waiting /\ skipped' = skipped
             \/ /\ n > 0 /\ allocate_slots(q, computed, n)
                /\ PopCandidate
                /\ running' = Append(running, id)
                /\ req' = [req EXCEPT ![id] =
                      [q EXCEPT !.status = "RUNNING", !.computed = computed,
                                !.blocks = Most(@, SlotBlocks(computed, n)),
                                !.pos = num_tokens(q), !.evicted = FALSE]]
                /\ c = [cur EXCEPT !.budget = @ - n,
                      !.prefill = IF conf.decodeAware THEN @ - n ELSE @,
                      !.marks = IF long THEN @ \cup {id} ELSE @,
                      !.step = [x \in DOMAIN @ \cup {id} |->
                                  IF x = id THEN Share(q, n, drafts, computed) ELSE @[x]]]
    <2>1. PICK computed \in CachedTokens(q) :
          LET n == WaitingTokens(q, computed)
              drafts == IF Pads(q, computed) THEN conf.spec ELSE 0
          IN \/ /\ n = 0 \/ ~allocate_slots(q, computed, n)
                /\ c = [cur EXCEPT !.pc = "waited"]
                /\ UNCHANGED <<req, running, waiting, skipped>>
             \/ /\ n > 0 /\ allocate_slots(q, computed, n)
                /\ PopCandidate
                /\ running' = Append(running, id)
                /\ req' = [req EXCEPT ![id] =
                      [q EXCEPT !.status = "RUNNING", !.computed = computed,
                                !.blocks = Most(@, SlotBlocks(computed, n)),
                                !.pos = num_tokens(q), !.evicted = FALSE]]
                /\ c = [cur EXCEPT !.budget = @ - n,
                      !.prefill = IF conf.decodeAware THEN @ - n ELSE @,
                      !.marks = IF long THEN @ \cup {id} ELSE @,
                      !.step = [x \in DOMAIN @ \cup {id} |->
                                  IF x = id THEN Share(q, n, drafts, computed) ELSE @[x]]]
      BY Zenon DEF AdmitWaiting
    <2> QED
      BY Zenon, <2>1
  <1> DEFINE n == WaitingTokens(q, computed)
             drafts == IF Pads(q, computed) THEN conf.spec ELSE 0
             share == Share(q, n, drafts, computed)
             step == With(cur.step, id, share)
             blocks == Most(q.blocks, SlotBlocks(computed, n))
             tokens == num_tokens(q)
  <1>6. HasFields(q) /\ Typed(q)
    BY <1>3, RequestTyped
  <1>7. computed \in Nat /\ computed < num_tokens(q) /\ num_tokens(q) \in Nat
    <2>1. q.prompt \in Nat /\ q.out \in Seq(Int) /\ q.computed \in Int
      BY <1>6 DEF Typed
    <2>2. num_tokens(q) \in Nat
      BY <2>1 DEF num_tokens
    <2>3. q.computed >= 0 /\ q.computed < num_tokens(q)
      <3>1. q.computed = 0 /\ q.prompt >= 1
        BY <1>3 DEF QueueInv, Unstarted
      <3> QED
        BY <2>1, <3>1 DEF num_tokens
    <2>4. conf.blockSize \in Nat /\ conf.cached \subseteq Nat
      BY <1>3, Numbers DEF Types
    <2>5. ASSUME NEW t \in {conf.blockSize * b : b \in conf.cached} PROVE t \in Nat
      BY <2>4
    <2> QED
      BY <2>1, <2>2, <2>3, <2>5 DEF CachedTokens
  <1>8. CASE /\ c = [cur EXCEPT !.pc = "waited"]
             /\ req' = req /\ running' = running /\ waiting' = waiting /\ skipped' = skipped
    <2> HIDE DEF c
    <2>1. /\ HasCallFields(c) /\ c.pc = "waited" /\ c.index = cur.index
          /\ c.budget = cur.budget
          /\ c.defer = cur.defer /\ c.decoding = cur.decoding /\ c.prefill = cur.prefill
          /\ c.selected = cur.selected /\ c.prefilling = cur.prefilling
          /\ c.preempted = cur.preempted /\ c.ran = cur.ran
          /\ c.passed = cur.passed /\ c.step = cur.step /\ c.marks = cur.marks
      BY <1>2, <1>8 DEF HasCallFields, CallFields
    <2>3. TypedCall(c)
      BY <1>2, <2>1 DEF TypedCall
    <2>4. c \in CallType
      BY <2>1, <2>3, CallTyped
    <2> QED
      BY <1>1, <1>2, <1>8, <2>1, <2>4 DEF c, StopsAt
  <1>9. CASE /\ n > 0 /\ allocate_slots(q, computed, n)
             /\ PopCandidate
             /\ running' = Append(running, id)
             /\ req' = [req EXCEPT ![id] =
                      [q EXCEPT !.status = "RUNNING", !.computed = computed,
                                !.blocks = Most(@, SlotBlocks(computed, n)),
                                !.pos = num_tokens(q), !.evicted = FALSE]]
             /\ c = [cur EXCEPT !.budget = @ - n,
                      !.prefill = IF conf.decodeAware THEN @ - n ELSE @,
                      !.marks = IF long THEN @ \cup {id} ELSE @,
                      !.step = [x \in DOMAIN @ \cup {id} |->
                                  IF x = id THEN share ELSE @[x]]]
    <2>1. n \in Int /\ n =< cur.budget
      BY <1>2, <1>3, <1>7, WaitingTokensType
    <2>3. q.blocks \in Nat
      BY <1>6 DEF Typed
    <2>4. share \in ShareType
      <3>1. drafts \in Nat
        BY <1>3, Numbers DEF Types
      <3> HIDE DEF drafts, n, q
      <3> QED
        BY <1>3, <1>7, <2>1, <3>1, ShareFields
    <2>5. cur.step \in Steps /\ cur.marks \in SUBSET Nat
      BY <1>2 DEF TypedCall
    <2>6. step \in Steps
      BY <1>3, <2>4, <2>5, WithShare
    <2>7. blocks \in Nat
      <3>1. SlotBlocks(computed, n) \in Int
        BY <1>3, <1>7, <2>1, SlotBlocksType DEF Types
      <3> QED
        BY <2>3, <3>1 DEF Most
    <2> DEFINE r == [q EXCEPT !.status = "RUNNING", !.computed = computed,
                              !.blocks = blocks, !.pos = tokens, !.evicted = FALSE]
    <2>8. req' = [req EXCEPT ![id] = r]
      <3> HIDE DEF n
      <3> QED
        BY <1>3, <1>6, <1>9 DEF HasFields, RequestFields
    <2>9. /\ HasFields(r) /\ Alike(r, q) /\ r.status = "RUNNING" /\ r.computed = computed
          /\ r.evicted = FALSE /\ r.pos = tokens /\ r.blocks = blocks /\ r.spec = q.spec
          /\ r.arrival = q.arrival /\ r.resumable = q.resumable /\ r.streaming = q.streaming
      <3> HIDE DEF blocks, q, tokens
      <3> QED
        BY <1>6 DEF HasFields, RequestFields, Alike
    <2> HIDE DEF r, blocks
    <2>10. r \in Request
      <3>1. Typed(r)
        <4>1. tokens \in Int
          BY <1>7
        <4> HIDE DEF q, tokens
        <4>2. r.evicted \in BOOLEAN
          BY Zenon, <2>9
        <4>3. r.computed \in Int /\ r.blocks \in Nat /\ r.pos \in Int
          BY <1>7, <2>7, <2>9, <4>1
        <4> QED
          BY <1>6, <2>9, <4>2, <4>3 DEF Typed, Alike
      <3> QED
        BY <2>9, <3>1, RequestTyped
    <2>11. /\ req' \in Seq(Request) /\ Len(req') = Len(req)
           /\ req'[id] = r /\ \A x \in Ids \ {id} : req'[x] = req[x]
      BY <1>3, <2>8, <2>10, UpdatedOne
    <2> DEFINE after == IF conf.decodeAware THEN cur.prefill - n ELSE cur.prefill
               marks == IF long THEN cur.marks \cup {id} ELSE cur.marks
               budget == cur.budget - n
    <2>12. c = [cur EXCEPT !.budget = budget, !.prefill = after,
                           !.marks = marks, !.step = step]
      <3> HIDE DEF n, share, long
      <3> QED
        BY <1>2, <1>9 DEF HasCallFields, CallFields, With
    <2>13. after \in Int /\ marks \in SUBSET Nat /\ budget \in Nat
      BY <1>3, <1>4, <2>1, <2>5
    <2> HIDE DEF after, marks, budget, step, c
    <2>14. /\ HasCallFields(c) /\ c.pc = cur.pc /\ c.index = cur.index
           /\ c.budget = budget
           /\ c.defer = cur.defer /\ c.decoding = cur.decoding /\ c.prefill = after
           /\ c.selected = cur.selected /\ c.prefilling = cur.prefilling
           /\ c.preempted = cur.preempted /\ c.ran = cur.ran
           /\ c.passed = cur.passed /\ c.step = step /\ c.marks = marks
      BY <1>2, <2>12 DEF HasCallFields, CallFields
    <2>15. TypedCall(c)
      BY <1>2, <2>6, <2>13, <2>14 DEF TypedCall
    <2>16. c \in CallType
      BY <2>14, <2>15, CallTyped
    <2>17. Admits(id, computed)
      <3>1. /\ req'[id] = r /\ Alike(r, q) /\ r.status = "RUNNING" /\ r.computed = computed
            /\ r.evicted = FALSE /\ r.pos = num_tokens(q)
            /\ r.blocks = Most(q.blocks, SlotBlocks(computed, n))
        BY <2>9, <2>11 DEF blocks
      <3>2. /\ c.step = With(cur.step, id, share) /\ c.prefill = after /\ c.pc = "waiting"
        BY <1>1, <2>14 DEF step
      <3> HIDE DEF id
      <3> QED
        BY <1>9, <2>11, <3>1, <3>2 DEF Admits, c, after
    <2> QED
      BY <1>1, <1>2, <1>7, <2>14, <2>16, <2>17 DEF c
  <1> QED
    BY <1>5, <1>8, <1>9

\* The call returns its step.
LEMMA ReturnEffect ==
    ASSUME QueueInv, ReturnStep
    PROVE  /\ cur.pc = "return" /\ cur \in CallType /\ cur' = Idle
           /\ req' \in Seq(Request) /\ Len(req') = Len(req) /\ Ids' = Ids
           /\ \A id \in Ids : req'[id] = IF id \in DOMAIN cur.step
                                         THEN _update_after_schedule(req[id], cur.step[id])
                                         ELSE req[id]
           /\ inflight' = IF DOMAIN cur.step = {} THEN inflight ELSE Append(inflight, cur.step)
           /\ conf' = conf /\ running' = running /\ waiting' = waiting /\ skipped' = skipped
           /\ held' = held /\ chunks' = chunks
  <1> DEFINE f == [id \in Ids |-> IF id \in DOMAIN cur.step
                                  THEN _update_after_schedule(req[id], cur.step[id])
                                  ELSE req[id]]
  <1>1. /\ cur.pc = "return" /\ cur' = Idle /\ req' = f
        /\ inflight' = IF DOMAIN cur.step = {} THEN inflight ELSE Append(inflight, cur.step)
        /\ conf' = conf /\ running' = running /\ waiting' = waiting /\ skipped' = skipped
        /\ held' = held /\ chunks' = chunks
    BY DEF ReturnStep, queues, env
  <1>2. cur \in CallType /\ Types
    BY <1>1, InCall DEF QueueInv
  <1>3. cur.step \in Steps
    BY <1>2, CallTyped DEF TypedCall
  <1>4. ASSUME NEW id \in Ids PROVE f[id] \in Request
    <2>1. CASE id \in DOMAIN cur.step
      <3>1. cur.step[id] \in ShareType /\ req[id] \in Request
        BY <1>2, <1>3, <2>1, StepShares, Requests
      <3>2. _update_after_schedule(req[id], cur.step[id]) \in Request
        BY <1>2, <3>1, ScheduledFields DEF Types
      <3> QED
        BY <2>1, <3>2
    <2>2. CASE id \notin DOMAIN cur.step
      BY <1>2, <2>2, Requests
    <2> QED
      BY <2>1, <2>2
  <1>5. f \in [Ids -> Request]
    <2>1. f = [id \in Ids |-> f[id]]
      OBVIOUS
    <2> HIDE DEF f
    <2> QED
      BY <1>4, <2>1
  <1> HIDE DEF f
  <1>6. /\ req' \in Seq(Request) /\ Len(req') = Len(req) /\ Ids' = Ids
        /\ \A id \in Ids : req'[id] = f[id]
    BY <1>1, <1>2, <1>5, Updated
  <1> QED
    BY <1>1, <1>2, <1>6 DEF f

\* What the oldest output does to a request with a share in it.
Delivers(q) == q.stale > 0 => ~q.drop /\ ~q.evicted
Outcome(id, k, eos, stopped) ==
    LET q == req[id]
        s == Head(inflight)[id]
        r == req'[id]
    IN \/ q.status = "FINISHED" /\ r = q /\ ~stopped
       \/ /\ q.status /= "FINISHED" /\ q.stale > 0 /\ ~stopped
          /\ \/ ~q.drop /\ r = [Drained(q, s, k) EXCEPT !.evicted = TRUE]
             \/ q.drop /\ r = Drained(q, s, k)
       \/ /\ q.status /= "FINISHED" /\ Delivers(q)
          /\ \/ stopped /\ Stops(q, k, eos) /\ r = _free_request(Delivered(q, s, k, eos))
             \/ ~stopped /\ ~Stops(q, k, eos) /\ r = Delivered(q, s, k, eos)

\* One of the steps in flight.
LEMMA HeadStep ==
    ASSUME Types, inflight /= <<>>
    PROVE  /\ Head(inflight) \in Steps /\ DOMAIN Head(inflight) \subseteq Ids
           /\ \A id \in DOMAIN Head(inflight) : Head(inflight)[id] \in ShareType
           /\ Head(inflight) = inflight[1] /\ 1 \in DOMAIN inflight
  <1>1. inflight \in Seq(Steps) /\ \A i \in DOMAIN inflight : DOMAIN inflight[i] \subseteq Ids
    BY DEF Types
  <1>2. Head(inflight) = inflight[1] /\ 1 \in DOMAIN inflight /\ inflight[1] \in Steps
    BY <1>1
  <1> QED
    BY <1>1, <1>2, StepShares

\* update_from_output takes the oldest step out of the pipeline and gives
\* each of its requests one of the outcomes.
LEMMA OutputEffect ==
    ASSUME QueueInv, update_from_output
    PROVE  LET ids == DOMAIN Head(inflight)
           IN /\ cur = Idle /\ cur' = Idle /\ inflight /= <<>> /\ inflight' = Tail(inflight)
              /\ conf' = conf /\ held' = held /\ chunks' = chunks
              /\ \E k \in [ids -> Nat], eos \in SUBSET ids, stopped \in SUBSET ids :
                   /\ \A id \in ids :
                        /\ Outcome(id, k[id], id \in eos, id \in stopped)
                        /\ IF Head(inflight)[id].samples
                           THEN k[id] \in 1 .. 1 + Head(inflight)[id].drafts ELSE k[id] = 0
                   /\ req' \in Seq(Request) /\ Len(req') = Len(req) /\ Ids' = Ids
                   /\ \A id \in Ids \ ids : req'[id] = req[id]
                   /\ running' = Without(running, {id \in stopped : req[id].status = "RUNNING"})
                   /\ waiting' = Without(waiting, {id \in stopped : req[id].status /= "RUNNING"})
                   /\ skipped' = Without(skipped, {id \in stopped : req[id].status /= "RUNNING"})
  <1> DEFINE step == Head(inflight)
             ids == DOMAIN step
             evictable == {id \in ids : req[id].stale > 0 /\ ~req[id].drop}
             Halted(sampled, eos, absent) ==
                 {id \in ids : /\ ~Ignored(req[id], id \in absent)
                               /\ Stops(req[id], sampled[id], id \in eos)}
             After(id, sampled, eos, absent) ==
                   LET q == req[id]
                   IN IF is_finished(q) THEN q
                      ELSE IF id \in absent
                      THEN [Drained(q, step[id], sampled[id]) EXCEPT !.evicted = TRUE]
                      ELSE IF Ignored(q, FALSE) THEN Drained(q, step[id], sampled[id])
                      ELSE IF id \in Halted(sampled, eos, absent)
                      THEN _handle_stopped_request(Delivered(q, step[id], sampled[id], id \in eos))
                      ELSE Delivered(q, step[id], sampled[id], id \in eos)
             Resuming(sampled, eos, absent) ==
                 {id \in Halted(sampled, eos, absent) :
                     After(id, sampled, eos, absent).status = "WAITING"}
             Idling(sampled, eos, absent) ==
                 {id \in Halted(sampled, eos, absent) :
                     After(id, sampled, eos, absent).status = "WAITING_FOR_STREAMING_REQ"}
             Ran(stopped) == {id \in stopped : req[id].status = "RUNNING"}
  <1>1. cur = Idle /\ cur' = Idle /\ inflight /= <<>> /\ inflight' = Tail(inflight)
        /\ conf' = conf /\ chunks' = chunks
    BY DEF update_from_output, env
  <1>2. PICK sampled \in [ids -> 0 .. 1 + conf.spec], eos \in SUBSET ids,
             absent \in SUBSET evictable :
              /\ \A id \in ids : IF step[id].samples THEN sampled[id] \in 1 .. 1 + step[id].drafts
                                 ELSE sampled[id] = 0
              /\ {id \in evictable : req[id].evicted} \subseteq absent
              /\ req' = [id \in Ids |-> IF id \in ids THEN After(id, sampled, eos, absent) ELSE req[id]]
              /\ running' = Without(running, Ran(Halted(sampled, eos, absent)))
              /\ waiting' = Without(waiting \o SetToSeq(Resuming(sampled, eos, absent)),
                                    Halted(sampled, eos, absent) \ Ran(Halted(sampled, eos, absent)))
              /\ skipped' = Without(skipped \o SetToSeq(Idling(sampled, eos, absent)),
                                    Halted(sampled, eos, absent) \ Ran(Halted(sampled, eos, absent)))
              /\ held' = held + Cardinality(Idling(sampled, eos, absent))
    <2> DEFINE Picked(sampled, eos, absent) ==
              /\ \A id \in ids : IF step[id].samples THEN sampled[id] \in 1 .. 1 + step[id].drafts
                                 ELSE sampled[id] = 0
              /\ eos \subseteq conf.eos /\ \A id \in eos : step[id].samples
              /\ {id \in evictable : req[id].evicted} \subseteq absent
              /\ conf.evicts \/ absent = {}
              /\ req' = [id \in Ids |-> IF id \in ids THEN After(id, sampled, eos, absent) ELSE req[id]]
              /\ running' = Without(running, Ran(Halted(sampled, eos, absent)))
              /\ waiting' = Without(waiting \o SetToSeq(Resuming(sampled, eos, absent)),
                                    Halted(sampled, eos, absent) \ Ran(Halted(sampled, eos, absent)))
              /\ skipped' = Without(skipped \o SetToSeq(Idling(sampled, eos, absent)),
                                    Halted(sampled, eos, absent) \ Ran(Halted(sampled, eos, absent)))
              /\ held' = held + Cardinality(Idling(sampled, eos, absent))
    <2>1. \E sampled \in [ids -> 0 .. 1 + conf.spec], eos \in SUBSET ids,
             absent \in SUBSET evictable : Picked(sampled, eos, absent)
      BY DEF update_from_output
    <2> HIDE DEF After, Halted, Resuming, Idling, Ran, evictable, step
    <2>2. PICK sampled \in [ids -> 0 .. 1 + conf.spec], eos \in SUBSET ids,
               absent \in SUBSET evictable : Picked(sampled, eos, absent)
      BY <2>1
    <2> QED
      BY ZenonT(30), <2>2
  <1>3. Types /\ conf \in Configs /\ Queue(waiting) /\ Queue(skipped) /\ held = 0
    BY DEF QueueInv, Queued, Types
  <1>4. /\ ids \subseteq Ids /\ \A id \in ids : step[id] \in ShareType
        /\ \A id \in ids : sampled[id] \in Nat
    <2>1. conf.spec \in Nat
      BY <1>3, Numbers
    <2>2. \A id \in ids : sampled[id] \in 0 .. 1 + conf.spec
      OBVIOUS
    <2>3. 0 .. 1 + conf.spec \subseteq Nat
      BY <2>1
    <2> HIDE DEF step
    <2>4. \A id \in ids : sampled[id] \in Nat
      BY <2>2, <2>3
    <2> USE DEF step
    <2> QED
      BY <1>1, <1>3, <2>4, HeadStep
  <1> DEFINE stopped == Halted(sampled, eos, absent)
  <1>5. ASSUME NEW id \in ids
        PROVE  /\ After(id, sampled, eos, absent) \in Request
               /\ req'[id] = After(id, sampled, eos, absent)
                    => Outcome(id, sampled[id], id \in eos, id \in stopped)
               /\ id \in stopped => After(id, sampled, eos, absent).status = "FINISHED"
    <2> DEFINE q == req[id]
               s == step[id]
               k == sampled[id]
               e == id \in eos
               d == Delivered(q, s, k, e)
               a == After(id, sampled, eos, absent)
    <2>1. q \in Request /\ s \in ShareType /\ k \in Nat /\ e \in BOOLEAN
      BY <1>3, <1>4, Requests
    <2>2. id \in absent => q.stale > 0 /\ ~q.drop
      OBVIOUS
    <2>3. is_finished(q) <=> q.status = "FINISHED"
      BY DEF is_finished
    <2>4. id \in stopped <=> ~Ignored(q, id \in absent) /\ Stops(q, k, e)
      OBVIOUS
    <2>5. id \notin absent /\ q.stale > 0 /\ ~q.drop => ~q.evicted
      BY <1>2
    <2>10. Outcome(id, k, e, id \in stopped) <=>
           \/ q.status = "FINISHED" /\ req'[id] = q /\ ~(id \in stopped)
           \/ /\ q.status /= "FINISHED" /\ q.stale > 0 /\ ~(id \in stopped)
              /\ \/ ~q.drop /\ req'[id] = [Drained(q, s, k) EXCEPT !.evicted = TRUE]
                 \/ q.drop /\ req'[id] = Drained(q, s, k)
           \/ /\ q.status /= "FINISHED" /\ Delivers(q)
              /\ \/ id \in stopped /\ Stops(q, k, e) /\ req'[id] = _free_request(d)
                 \/ ~(id \in stopped) /\ ~Stops(q, k, e) /\ req'[id] = d
      BY DEF Outcome
    <2>11. a = IF is_finished(q) THEN q
               ELSE IF id \in absent THEN [Drained(q, s, k) EXCEPT !.evicted = TRUE]
               ELSE IF Ignored(q, FALSE) THEN Drained(q, s, k)
               ELSE IF id \in stopped THEN _handle_stopped_request(d)
               ELSE d
      BY Zenon
    <2>12. Ignored(q, id \in absent) <=> is_finished(q) \/ (q.stale > 0 /\ q.drop) \/ id \in absent
      BY DEF Ignored
    <2>13. Ignored(q, FALSE) <=> is_finished(q) \/ (q.stale > 0 /\ q.drop)
      BY DEF Ignored
    <2>14. Delivers(q) <=> (q.stale > 0 => ~q.drop /\ ~q.evicted)
      BY DEF Delivers
    <2>15. Drained(q, s, k) \in Request
      BY <2>1, DrainedFields
    <2>16. [Drained(q, s, k) EXCEPT !.evicted = TRUE] \in Request
      BY <2>15, EvictedFields
    <2>17. d \in Request
      BY <1>3, <2>1, DeliveredFields
    <2>18. _free_request(d) \in Request /\ _free_request(d).status = "FINISHED"
      BY <2>17, FreeFields
    <2>19. _handle_stopped_request(d) = _free_request(d)
      <3>1. ~d.resumable
        BY <2>17, RequestTyped DEF Typed
      <3> HIDE DEF d
      <3> QED
        BY <3>1 DEF _handle_stopped_request
    <2> HIDE DEF q, s, k, e, d, stopped, a
    <2>20. CASE is_finished(q)
      <3>1. a = q /\ id \notin stopped
        BY Zenon, <2>4, <2>11, <2>12, <2>20
      <3> QED
        BY <2>1, <2>3, <2>10, <2>20, <3>1 DEF a, k, e
    <2>21. CASE ~is_finished(q) /\ id \in absent
      <3>1. a = [Drained(q, s, k) EXCEPT !.evicted = TRUE] /\ id \notin stopped
        BY Zenon, <2>4, <2>11, <2>12, <2>21
      <3> QED
        BY <2>2, <2>3, <2>10, <2>16, <2>21, <3>1 DEF a, k, e
    <2>22. CASE ~is_finished(q) /\ id \notin absent /\ Ignored(q, FALSE)
      <3>1. a = Drained(q, s, k) /\ id \notin stopped /\ q.stale > 0 /\ q.drop
        BY Zenon, <2>4, <2>11, <2>12, <2>13, <2>22
      <3> QED
        BY <2>3, <2>10, <2>15, <2>22, <3>1 DEF a, k, e
    <2>23. CASE ~is_finished(q) /\ id \notin absent /\ ~Ignored(q, FALSE)
      <3>1. Delivers(q) /\ (id \in stopped <=> Stops(q, k, e))
        BY Zenon, <2>4, <2>5, <2>12, <2>13, <2>14, <2>23
      <3>2. a = IF id \in stopped THEN _free_request(d) ELSE d
        BY Zenon, <2>11, <2>19, <2>23
      <3> QED
        BY <2>3, <2>10, <2>17, <2>18, <2>23, <3>1, <3>2 DEF a, k, e
    <2> QED
      BY <2>20, <2>21, <2>22, <2>23 DEF a
  <1> DEFINE f == [id \in Ids |-> IF id \in ids THEN After(id, sampled, eos, absent) ELSE req[id]]
  <1>6. Resuming(sampled, eos, absent) = {} /\ Idling(sampled, eos, absent) = {}
    <2>1. \A id \in stopped : After(id, sampled, eos, absent).status = "FINISHED"
      BY <1>5
    <2> HIDE DEF After, Halted
    <2> QED
      BY <2>1
  <1>7. f \in [Ids -> Request]
    <2>1. \A id \in ids : After(id, sampled, eos, absent) \in Request
      BY <1>5
    <2>2. \A id \in Ids : req[id] \in Request
      BY <1>3, Requests
    <2> HIDE DEF After, ids
    <2> QED
      BY <2>1, <2>2
  <1>8. req' = f
    BY <1>2
  <1>9. /\ req' \in Seq(Request) /\ Len(req') = Len(req) /\ Ids' = Ids
        /\ \A id \in Ids : req'[id] = f[id]
    <2> HIDE DEF f
    <2> QED
      BY <1>3, <1>7, <1>8, Updated
  <1>10. ASSUME NEW q, Queue(q) PROVE q \o <<>> = q
    BY <1>10 DEF Queue
  <1>11. /\ running' = Without(running, Ran(stopped))
         /\ waiting' = Without(waiting, stopped \ Ran(stopped))
         /\ skipped' = Without(skipped, stopped \ Ran(stopped))
         /\ held' = held
    <2>1. Cardinality({}) = 0
      BY FS_EmptySet
    <2>2. waiting \o SetToSeq({}) = waiting /\ skipped \o SetToSeq({}) = skipped
      BY <1>3, <1>10, NoneToSeq
    <2> HIDE DEF Resuming, Idling, Halted, Ran
    <2>3. held' = held + 0
      BY Zenon, <1>2, <1>6, <2>1
    <2>4. /\ waiting' = Without(waiting \o SetToSeq({}), stopped \ Ran(stopped))
          /\ skipped' = Without(skipped \o SetToSeq({}), stopped \ Ran(stopped))
          /\ running' = Without(running, Ran(stopped))
      BY Zenon, <1>2, <1>6
    <2>5. /\ waiting' = Without(waiting, stopped \ Ran(stopped))
          /\ skipped' = Without(skipped, stopped \ Ran(stopped))
      BY Zenon, <2>2, <2>4
    <2> QED
      BY <1>3, <2>3, <2>4, <2>5
  <1>12. stopped \ Ran(stopped) = {id \in stopped : req[id].status /= "RUNNING"}
    <2> HIDE DEF Halted
    <2> QED
      OBVIOUS
  <1>13. \A id \in ids : Outcome(id, sampled[id], id \in eos, id \in stopped)
    <2>1. \A id \in ids : req'[id] = After(id, sampled, eos, absent)
      <3> HIDE DEF After, ids
      <3> QED
        BY <1>4, <1>9
    <2> HIDE DEF After, stopped
    <2> QED
      BY <1>5, <2>1
  <1>14. \A id \in Ids \ ids : req'[id] = req[id]
    <2> HIDE DEF After, ids
    <2> QED
      BY <1>9
  <1>15. stopped \in SUBSET ids /\ sampled \in [ids -> Nat]
    <2>1. sampled = [id \in ids |-> sampled[id]]
      OBVIOUS
    <2> HIDE DEF ids
    <2> QED
      BY <1>4, <2>1
  <1>16. \A id \in ids : IF step[id].samples THEN sampled[id] \in 1 .. 1 + step[id].drafts
                         ELSE sampled[id] = 0
    BY <1>2
  <1> HIDE DEF After, stopped
  <1> DEFINE Holds(k, e, h) ==
                   /\ \A id \in ids :
                        /\ Outcome(id, k[id], id \in e, id \in h)
                        /\ IF step[id].samples
                           THEN k[id] \in 1 .. 1 + step[id].drafts ELSE k[id] = 0
                   /\ req' \in Seq(Request) /\ Len(req') = Len(req) /\ Ids' = Ids
                   /\ \A id \in Ids \ ids : req'[id] = req[id]
                   /\ running' = Without(running, {id \in h : req[id].status = "RUNNING"})
                   /\ waiting' = Without(waiting, {id \in h : req[id].status /= "RUNNING"})
                   /\ skipped' = Without(skipped, {id \in h : req[id].status /= "RUNNING"})
  <1>17. Holds(sampled, eos, stopped)
    <2> HIDE DEF step
    <2> QED
      BY Zenon, <1>9, <1>11, <1>12, <1>13, <1>14, <1>16
  <1>18. \E k \in [ids -> Nat], e \in SUBSET ids, h \in SUBSET ids : Holds(k, e, h)
    <2> HIDE DEF Holds
    <2> QED
      BY Zenon, <1>15, <1>17
  <1> QED
    BY <1>1, <1>11, <1>18

-----------------------------------------------------------------------------
(* The queues: the invariant is inductive *)

\* The queues at the start.
LEMMA QueueInit ==
    ASSUME Init
    PROVE  QueueInv
  <1>1. /\ conf \in Configs /\ req = <<>> /\ running = <<>> /\ waiting = <<>> /\ skipped = <<>>
        /\ held = 0 /\ inflight = <<>> /\ cur = Idle /\ chunks = 0
    BY DEF Init
  <1>2. Ids = {} /\ req \in Seq(Request) /\ inflight \in Seq(Steps) /\ DOMAIN inflight = {}
    BY <1>1 DEF Ids
  <1>3. Passed = <<>>
    BY <1>1 DEF Passed, Idle
  <1>4. RunningIds = {} /\ WaitingIds = {}
    BY <1>2 DEF RunningIds, WaitingIds
  <1>5. Types
    BY <1>1, <1>2 DEF Types
  <1>6. Queued
    <2>1. Queue(running) /\ Range(running) = {}
      BY <1>1, EmptyQueue
    <2>2. Queue(waiting) /\ Range(waiting) = {}
      BY <1>1, EmptyQueue
    <2>3. Queue(skipped) /\ Range(skipped) = {}
      BY <1>1, EmptyQueue
    <2>4. Queue(Passed) /\ Range(Passed) = {}
      BY <1>3, EmptyQueue
    <2> QED
      BY <1>1, <1>4, <2>1, <2>2, <2>3, <2>4 DEF Queued
  <1> QED
    BY <1>1, <1>2, <1>5, <1>6 DEF QueueInv, Called, Unstarted

\* The call in progress and the requests whose status does not change.
LEMMA SameIds ==
    ASSUME Ids' = Ids, \A id \in Ids : req'[id].status = req[id].status
    PROVE  RunningIds' = RunningIds /\ WaitingIds' = WaitingIds
  BY DEF RunningIds, WaitingIds

\* The parts of the invariant.
LEMMA QueueParts ==
    ASSUME QueueInv
    PROVE  /\ Queue(running) /\ Queue(waiting) /\ Queue(skipped) /\ Queue(Passed)
           /\ Range(running) = RunningIds
           /\ Range(waiting) \cap Range(skipped) = {}
           /\ Range(waiting) \cap Range(Passed) = {} /\ Range(skipped) \cap Range(Passed) = {}
           /\ Range(waiting) \cup Range(skipped) \cup Range(Passed) = WaitingIds
           /\ RunningIds \cap WaitingIds = {} /\ RunningIds \cup WaitingIds \subseteq Ids
           /\ Ids \subseteq Nat /\ held = 0 /\ Types
           /\ cur = Idle => Passed = <<>> /\ Range(Passed) = {}
  <1>1. cur = Idle => Passed = <<>>
    BY DEF Passed, Idle
  <1> QED
    BY <1>1, LiveIds, Requests, EmptyQueue DEF QueueInv, Queued, RunningIds, WaitingIds

\* What is left to check when nothing is passed over and no call is in progress.
LEMMA QueuedIdle ==
    ASSUME cur' = Idle
    PROVE  Passed' = <<>> /\ Queue(Passed') /\ Range(Passed') = {} /\ Called'
  <1>1. Passed' = <<>>
    BY DEF Passed, Idle
  <1>2. Called'
    BY DEF Called
  <1> QED
    BY <1>1, <1>2, EmptyQueue

\* add_request appends to the waiting queue.
LEMMA QueueAdd ==
    ASSUME NoSessions, QueueInv, add_request
    PROVE  QueueInv'
  <1> DEFINE n == Len(req) + 1
  <1>1. PICK prompt \in conf.prompts, resumable \in conf.resumable :
            req' = Append(req, NewRequest(prompt, resumable))
    BY DEF add_request
  <1>2. /\ cur = Idle /\ cur' = Idle /\ waiting' = Append(waiting, n) /\ running' = running
        /\ skipped' = skipped /\ held' = held /\ inflight' = inflight /\ conf' = conf
        /\ chunks' = chunks
    BY DEF add_request, env
  <1>3. Types /\ req \in Seq(Request) /\ Len(req) \in Nat
    BY Requests DEF QueueInv, Types
  <1>4. prompt \in Nat /\ prompt >= 1 /\ resumable = FALSE
    <2>1. conf.prompts \subseteq 1 .. conf.modelLen - 1 /\ conf.modelLen \in Nat
          /\ conf.resumable \subseteq BOOLEAN /\ TRUE \notin conf.resumable
      BY <1>3, Numbers DEF Types, NoSessions
    <2>2. prompt \in Nat /\ prompt >= 1
      BY <2>1
    <2>3. resumable = FALSE
      BY Zenon, <2>1
    <2> QED
      BY <2>2, <2>3
  <1> DEFINE r == NewRequest(prompt, FALSE)
  <1>5. /\ r \in Request /\ r.status = "WAITING" /\ r.prompt = prompt /\ r.computed = 0
    BY <1>3, <1>4, NewFields DEF Types
  <1> HIDE DEF r
  <1>6. req' = Append(req, r)
    BY Zenon, <1>1, <1>4 DEF r
  <1>7. /\ req' \in Seq(Request) /\ Len(req') = n /\ req'[n] = r /\ n \notin Ids /\ n \in Nat
        /\ \A id \in Ids : req'[id] = req[id]
    BY <1>3, <1>5, <1>6 DEF Ids
  <1>8. Ids' = Ids \cup {n}
    BY <1>3, <1>7 DEF Ids
  <1> HIDE DEF n
  <1>9. RunningIds' = RunningIds /\ WaitingIds' = WaitingIds \cup {n}
    BY <1>5, <1>7, <1>8 DEF RunningIds, WaitingIds
  <1>10. Types'
    BY <1>2, <1>3, <1>7, <1>8 DEF Types
  <1>11. Queued'
    <2>1. n \notin Range(waiting) /\ n \notin Range(skipped)
      BY <1>7, QueueParts
    <2>2. Queue(Append(waiting, n)) /\ Range(Append(waiting, n)) = Range(waiting) \cup {n}
      BY <1>7, <2>1, QueueParts, AppendQueue
    <2>3. Queue(waiting') /\ Range(waiting') = Range(waiting) \cup {n}
      BY Zenon, <1>2, <2>2
    <2>4. /\ Queue(running') /\ Queue(skipped')
          /\ Range(running') = Range(running) /\ Range(skipped') = Range(skipped)
      BY Zenon, <1>2, QueueParts
    <2>5. Queue(Passed') /\ Range(Passed') = {}
      BY <1>2, QueuedIdle
    <2> QED
      BY <1>2, <1>9, <2>1, <2>3, <2>4, <2>5, QueueParts DEF Queued
  <1>12. Called'
    BY <1>2, QueuedIdle
  <1>13. Unstarted'
    <2>1. ASSUME NEW id \in Ids' PROVE req'[id].prompt >= 1 /\ (id \in WaitingIds' => req'[id].computed = 0)
      BY <1>4, <1>5, <1>7, <1>8, <1>9 DEF QueueInv, Unstarted
    <2> QED
      BY <2>1 DEF Unstarted
  <1> QED
    BY <1>10, <1>11, <1>12, <1>13 DEF QueueInv

\* finish_requests takes a request out of its queue and frees it.
LEMMA FinishEffect ==
    ASSUME QueueInv, finish_requests
    PROVE  /\ cur = Idle /\ cur' = Idle /\ inflight' = inflight /\ conf' = conf /\ chunks' = chunks
           /\ \E id \in Live :
                /\ req' \in Seq(Request) /\ Len(req') = Len(req) /\ Ids' = Ids
                /\ req'[id] = _free_request(req[id]) /\ req'[id].status = "FINISHED"
                /\ req'[id].prompt = req[id].prompt /\ req'[id].out = req[id].out
                /\ req'[id].blocks = 0
                /\ \A x \in Ids \ {id} : req'[x] = req[x]
                /\ running' = Without(running, {id}) /\ waiting' = Without(waiting, {id})
                /\ skipped' = Without(skipped, {id}) /\ held' = held
  <1>1. PICK id \in Live : Finish(id)
    BY DEF finish_requests
  <1>2. Types /\ id \in Ids /\ req[id] \in Request
    BY Requests DEF QueueInv
  <1> DEFINE r == _free_request(req[id])
  <1>3. r \in Request /\ r.status = "FINISHED" /\ r.prompt = req[id].prompt /\ r.out = req[id].out /\ r.blocks = 0
    BY <1>2, FreeFields
  <1>4. req[id].status /= "WAITING_FOR_STREAMING_REQ"
    BY <1>2, RequestTyped DEF Typed
  <1>5. /\ running' = Without(running, {id}) /\ waiting' = Without(waiting, {id})
        /\ skipped' = Without(skipped, {id}) /\ held' = held
        /\ req' = [req EXCEPT ![id] = r]
    BY <1>1, <1>2, <1>4 DEF Finish, Types
  <1> HIDE DEF r
  <1>6. /\ req' \in Seq(Request) /\ Len(req') = Len(req) /\ Ids' = Ids
        /\ req'[id] = r /\ \A x \in Ids \ {id} : req'[x] = req[x]
    BY <1>2, <1>3, <1>5, UpdatedOne
  <1>7. /\ cur = Idle /\ cur' = Idle /\ inflight' = inflight /\ conf' = conf /\ chunks' = chunks
    BY DEF finish_requests
  <1> QED
    BY <1>3, <1>5, <1>6, <1>7 DEF r

\* A finished request is in no queue.
LEMMA QueueFinish ==
    ASSUME QueueInv, finish_requests
    PROVE  QueueInv'
  <1>1. PICK id \in Live :
                /\ req' \in Seq(Request) /\ Len(req') = Len(req) /\ Ids' = Ids
                /\ req'[id].status = "FINISHED"
                /\ req'[id].prompt = req[id].prompt
                /\ \A x \in Ids \ {id} : req'[x] = req[x]
                /\ running' = Without(running, {id}) /\ waiting' = Without(waiting, {id})
                /\ skipped' = Without(skipped, {id}) /\ held' = held
    BY FinishEffect
  <1>2. cur = Idle /\ cur' = Idle /\ inflight' = inflight /\ conf' = conf /\ chunks' = chunks
    BY FinishEffect
  <1>3. Types /\ id \in Ids
    BY Requests DEF QueueInv
  <1>4. RunningIds' = RunningIds \ {id} /\ WaitingIds' = WaitingIds \ {id}
    BY <1>1, <1>3 DEF RunningIds, WaitingIds
  <1>5. Types'
    BY <1>1, <1>2, <1>3 DEF Types
  <1>6. Queued'
    <2>1. Queue(running') /\ Range(running') = Range(running) \ {id}
      BY <1>1, QueueParts, WithoutQueue
    <2>2. Queue(waiting') /\ Range(waiting') = Range(waiting) \ {id}
      BY <1>1, QueueParts, WithoutQueue
    <2>3. Queue(skipped') /\ Range(skipped') = Range(skipped) \ {id}
      BY <1>1, QueueParts, WithoutQueue
    <2>4. Queue(Passed') /\ Range(Passed') = {}
      BY <1>2, QueuedIdle
    <2> QED
      BY <1>1, <1>2, <1>4, <2>1, <2>2, <2>3, <2>4, QueueParts DEF Queued
  <1>7. Called'
    BY <1>2, QueuedIdle
  <1>8. Unstarted'
    <2>1. ASSUME NEW x \in Ids' PROVE req'[x].prompt >= 1 /\ (x \in WaitingIds' => req'[x].computed = 0)
      BY <1>1, <1>3, <1>4 DEF QueueInv, Unstarted
    <2> QED
      BY <2>1 DEF Unstarted
  <1> QED
    BY <1>5, <1>6, <1>7, <1>8 DEF QueueInv

\* reset_prefix_cache preempts all running requests.
LEMMA ResetEffect ==
    ASSUME QueueInv, reset_prefix_cache
    PROVE  /\ cur = Idle /\ cur' = Idle /\ conf' = conf /\ chunks' = chunks /\ held' = held
           /\ req' \in Seq(Request) /\ Len(req') = Len(req) /\ Ids' = Ids
           /\ \A id \in Ids : req'[id] = IF id \in RunningIds THEN _preempt_request(req[id], TRUE)
                                         ELSE req[id]
           /\ waiting' = running \o waiting /\ running' = <<>> /\ skipped' = skipped
           /\ inflight' = Outdated(inflight, RunningIds)
  <1> DEFINE f == [id \in Ids |-> IF id \in Range(running) THEN _preempt_request(req[id], TRUE)
                                  ELSE req[id]]
  <1>1. /\ cur = Idle /\ cur' = Idle /\ conf' = conf /\ chunks' = chunks /\ held' = held
        /\ waiting' = running \o waiting /\ running' = <<>> /\ skipped' = skipped
        /\ inflight' = Outdated(inflight, Range(running)) /\ req' = f
    BY DEF reset_prefix_cache, Outdate, Outdated
  <1>2. Types /\ Range(running) = RunningIds
    BY QueueParts
  <1>3. ASSUME NEW id \in Ids PROVE f[id] \in Request
    BY <1>2, Requests, PreemptFields
  <1>4. f \in [Ids -> Request]
    <2>1. f = [id \in Ids |-> f[id]]
      OBVIOUS
    <2> HIDE DEF f
    <2> QED
      BY <1>3, <2>1
  <1> HIDE DEF f
  <1>5. /\ req' \in Seq(Request) /\ Len(req') = Len(req) /\ Ids' = Ids
        /\ \A id \in Ids : req'[id] = f[id]
    BY <1>1, <1>2, <1>4, Updated
  <1> QED
    BY <1>1, <1>2, <1>5 DEF f

\* All running requests go to the front of the waiting queue.
LEMMA QueueReset ==
    ASSUME QueueInv, reset_prefix_cache
    PROVE  QueueInv'
  <1>1. /\ cur = Idle /\ cur' = Idle /\ conf' = conf /\ chunks' = chunks /\ held' = held
        /\ req' \in Seq(Request) /\ Len(req') = Len(req) /\ Ids' = Ids
        /\ \A id \in Ids : req'[id] = IF id \in RunningIds THEN _preempt_request(req[id], TRUE)
                                      ELSE req[id]
        /\ waiting' = running \o waiting /\ running' = <<>> /\ skipped' = skipped
        /\ inflight' = Outdated(inflight, RunningIds)
    BY ResetEffect
  <1>2. Types
    BY QueueParts
  <1>3. ASSUME NEW id \in Ids
        PROVE  /\ id \in RunningIds => req'[id].status = "PREEMPTED" /\ req'[id].computed = 0
               /\ id \notin RunningIds => req'[id] = req[id]
               /\ req'[id].prompt = req[id].prompt
    <2> DEFINE r == _preempt_request(req[id], TRUE)
    <2>1. req[id] \in Request /\ TRUE \in BOOLEAN
      BY <1>2, Requests
    <2>2. r.status = "PREEMPTED" /\ r.computed = 0 /\ r.prompt = req[id].prompt
      BY <2>1, PreemptFields
    <2>3. req'[id] = IF id \in RunningIds THEN r ELSE req[id]
      BY <1>1
    <2> HIDE DEF r
    <2> QED
      BY <2>2, <2>3
  <1>4. RunningIds' = {} /\ WaitingIds' = WaitingIds \cup RunningIds
    BY <1>1, <1>3 DEF RunningIds, WaitingIds
  <1>5. Types'
    <2>1. /\ inflight' \in Seq(Steps) /\ DOMAIN inflight' = DOMAIN inflight
          /\ \A i \in DOMAIN inflight : DOMAIN inflight'[i] = DOMAIN inflight[i]
      BY <1>1, <1>2, OutdatedSteps DEF Types
    <2> QED
      BY <1>1, <1>2, <2>1 DEF Types
  <1>6. Queued'
    <2>1. Range(running) \cap Range(waiting) = {} /\ Range(running) \cap Range(skipped) = {}
      BY QueueParts
    <2>2. Queue(waiting') /\ Range(waiting') = Range(running) \cup Range(waiting)
      BY <1>1, <2>1, QueueParts, JoinQueue
    <2>3. Queue(running') /\ Range(running') = {}
      BY <1>1, EmptyQueue
    <2>4. Queue(skipped') /\ Range(skipped') = Range(skipped)
      BY Zenon, <1>1, QueueParts
    <2>5. Queue(Passed') /\ Range(Passed') = {}
      BY <1>1, QueuedIdle
    <2> QED
      BY <1>1, <1>4, <2>1, <2>2, <2>3, <2>4, <2>5, QueueParts DEF Queued
  <1>7. Called'
    BY <1>1, QueuedIdle
  <1>8. Unstarted'
    <2>1. ASSUME NEW x \in Ids' PROVE req'[x].prompt >= 1 /\ (x \in WaitingIds' => req'[x].computed = 0)
      BY <1>1, <1>3, <1>4 DEF QueueInv, Unstarted
    <2> QED
      BY <2>1 DEF Unstarted
  <1> QED
    BY <1>5, <1>6, <1>7, <1>8 DEF QueueInv

\* A call begins with an empty step.
LEMMA QueueBegin ==
    ASSUME QueueInv, BeginSchedule
    PROVE  QueueInv'
  <1>1. Types
    BY QueueParts
  <1>2. /\ cur = Idle /\ cur' \in CallType /\ cur'.pc = "running" /\ cur'.index = 1
        /\ cur'.step = <<>> /\ cur'.passed = <<>>
        /\ conf' = conf /\ req' = req /\ running' = running /\ waiting' = waiting
        /\ skipped' = skipped /\ held' = held /\ inflight' = inflight /\ chunks' = chunks
    BY <1>1, BeginEffect
  <1>3. Ids' = Ids /\ RunningIds' = RunningIds /\ WaitingIds' = WaitingIds
    BY <1>2 DEF Ids, RunningIds, WaitingIds
  <1>4. Types'
    BY <1>1, <1>2, <1>3 DEF Types
  <1>5. Queued'
    <2>1. Passed' = <<>> /\ Passed = <<>>
      BY <1>2, QueueParts DEF Passed
    <2>2. Queue(Passed') /\ Range(Passed') = {} /\ Range(Passed) = {}
      BY <2>1, EmptyQueue
    <2> QED
      BY <1>2, <1>3, <2>2, QueueParts DEF Queued
  <1>6. Called'
    <2>1. DOMAIN cur'.step = {}
      BY <1>2
    <2>2. Len(running) \in Nat
      BY QueueParts, QueueLength
    <2>3. 1 \in 1 .. Len(running) + 1
      BY <2>2
    <2> QED
      BY <1>2, <2>1, <2>3 DEF Called
  <1>7. Unstarted'
    BY <1>2, <1>3 DEF QueueInv, Unstarted
  <1> QED
    BY <1>4, <1>5, <1>6, <1>7 DEF QueueInv

\* The loops end.
LEMMA QueueLocal ==
    ASSUME QueueInv, EndRunning \/ EndWaiting
    PROVE  QueueInv'
  <1>1. Types
    BY QueueParts
  <1>2. /\ cur \in CallType /\ cur' \in CallType
        /\ EndRunning => cur.pc = "running" /\ cur'.pc \in {"waiting", "return"}
        /\ EndWaiting => cur.pc = "waiting" /\ cur'.pc = "waited"
        /\ cur'.step = cur.step /\ cur'.passed = cur.passed
        /\ conf' = conf /\ req' = req /\ running' = running /\ waiting' = waiting
        /\ skipped' = skipped /\ held' = held /\ inflight' = inflight /\ chunks' = chunks
    BY <1>1, LocalEffect
  <1>3. Ids' = Ids /\ RunningIds' = RunningIds /\ WaitingIds' = WaitingIds
    BY <1>2 DEF Ids, RunningIds, WaitingIds
  <1>4. Types'
    BY <1>1, <1>2, <1>3 DEF Types
  <1>8. cur /= Idle
    BY <1>2, CallNotIdle
  <1>5. Queued'
    <2>1. Passed' = Passed
      <3>1. CASE EndRunning
        <4>1. cur.passed = <<>>
          BY <1>2, <1>8, <3>1 DEF QueueInv, Called
        <4> QED
          BY <1>2, <3>1, <4>1 DEF Passed
      <3>2. CASE EndWaiting
        BY <1>2, <3>2 DEF Passed
      <3> QED
        BY <3>1, <3>2
    <2>2. Queue(Passed') /\ Range(Passed') = Range(Passed)
      BY Zenon, <2>1, QueueParts
    <2> QED
      BY <1>2, <1>3, <2>2, QueueParts DEF Queued
  <1>6. Called'
    <2>1. cur'.pc /= "running"
      BY <1>2
    <2>2. DOMAIN cur.step \subseteq RunningIds /\ \A id \in DOMAIN cur.step : ~cur.step[id].old
      BY <1>8 DEF QueueInv, Called
    <2> QED
      BY <1>2, <1>3, <2>1, <2>2 DEF Called
  <1>7. Unstarted'
    BY <1>2, <1>3 DEF QueueInv, Unstarted
  <1> QED
    BY <1>4, <1>5, <1>6, <1>7 DEF QueueInv

\* The running loop moves on; what it schedules is running.
LEMMA QueueGrant ==
    ASSUME QueueInv, ScheduleRunning
    PROVE  QueueInv'
  <1> DEFINE id == running[cur.index]
  <1>1. /\ cur.pc = "running" /\ cur.index =< Len(running)
        /\ cur \in CallType /\ cur' \in CallType /\ cur'.pc = "running"
        /\ cur'.index = cur.index + 1 /\ cur'.passed = cur.passed
        /\ Skips(id) \/ Grants(id)
        /\ conf' = conf /\ running' = running /\ waiting' = waiting /\ skipped' = skipped
        /\ held' = held /\ inflight' = inflight /\ chunks' = chunks
    BY GrantEffect
  <1>2. /\ id \in RunningIds /\ id \in Ids /\ id \in Nat /\ Len(running) \in Nat
        /\ cur.index \in 1 .. Len(running) /\ Types /\ DOMAIN running = 1 .. Len(running)
    <2>1. cur.index \in DOMAIN running /\ id \in RunningIds /\ id \in Ids /\ Len(running) \in Nat
      BY <1>1, VisitedId
    <2>2. DOMAIN running = 1 .. Len(running)
      BY QueueParts DEF Queue
    <2> QED
      BY <2>1, <2>2, QueueParts
  <1>3. cur /= Idle /\ cur' /= Idle
    BY <1>1, CallNotIdle
  <1>4. /\ DOMAIN cur.step \subseteq RunningIds
        /\ \A x \in DOMAIN cur.step : ~cur.step[x].old
        /\ cur.passed = <<>>
        /\ \A i \in 1 .. Len(running) : running[i] \in DOMAIN cur.step => i < cur.index
    BY <1>1, <1>3 DEF QueueInv, Called
  <1>5. /\ req' \in Seq(Request) /\ Len(req') = Len(req)
        /\ \A x \in Ids : /\ req'[x].status = req[x].status /\ req'[x].prompt = req[x].prompt
                          /\ req'[x].computed = req[x].computed
        /\ DOMAIN cur'.step \subseteq DOMAIN cur.step \cup {id}
        /\ \A x \in DOMAIN cur'.step : ~cur'.step[x].old
    <2>1. CASE Skips(id)
      BY <1>2, <1>4, <2>1 DEF Skips, Types
    <2>2. CASE Grants(id)
      <3> DEFINE q == req[id]
                 n == RunningTokens(q)
                 share == Share(q, n, Drafts(q, n), q.computed)
      <3>1. /\ req' \in Seq(Request) /\ Len(req') = Len(req)
            /\ \A x \in Ids \ {id} : req'[x] = req[x]
            /\ req'[id].status = q.status /\ req'[id].computed = q.computed
            /\ req'[id].prompt = q.prompt /\ cur'.step = With(cur.step, id, share)
        BY <2>2 DEF Grants, Alike
      <3>2. q \in Request /\ q.computed \in Int
        BY <1>2, Requests, RequestTyped DEF Typed
      <3>3. n \in Int
        BY <1>1, <1>2, <3>2, RunningTokensType
      <3>4. share \in ShareType /\ ~share.old
        <4> DEFINE d == Drafts(q, n)
                   a == q.computed
        <4>1. d \in Nat /\ a \in Int
          BY <3>2, <3>3, DraftsType
        <4> HIDE DEF n, d, a
        <4>2. Share(q, n, d, a) \in ShareType /\ ~Share(q, n, d, a).old
          BY <3>2, <3>3, <4>1, ShareFields
        <4> QED
          BY <4>2 DEF d, a
      <3>5. cur.step \in Steps
        BY <1>1, CallTyped DEF TypedCall
      <3> HIDE DEF share, id
      <3>6. /\ DOMAIN cur'.step = DOMAIN cur.step \cup {id} /\ cur'.step[id] = share
            /\ \A x \in DOMAIN cur.step \ {id} : cur'.step[x] = cur.step[x]
        <4> DEFINE w == With(cur.step, id, share)
        <4>1. /\ DOMAIN w = DOMAIN cur.step \cup {id} /\ w[id] = share
              /\ \A x \in DOMAIN cur.step \ {id} : w[x] = cur.step[x]
          <5> DEFINE st == cur.step
          <5>1. id \in Nat /\ share \in ShareType /\ st \in Steps
            BY <1>2, <3>4, <3>5
          <5> HIDE DEF st
          <5>2. /\ DOMAIN With(st, id, share) = DOMAIN st \cup {id}
                /\ With(st, id, share)[id] = share
                /\ \A x \in DOMAIN st \ {id} : With(st, id, share)[x] = st[x]
            BY <5>1, WithShare
          <5> QED
            BY <5>2 DEF st
        <4> HIDE DEF w
        <4>2. cur'.step = w
          BY <3>1 DEF w, share
        <4> QED
          BY <4>1, <4>2
      <3>7. \A x \in Ids : /\ req'[x].status = req[x].status /\ req'[x].prompt = req[x].prompt
                           /\ req'[x].computed = req[x].computed
        BY <3>1
      <3>8. \A x \in DOMAIN cur'.step : ~cur'.step[x].old
        BY <1>4, <3>4, <3>6
      <3> QED
        BY <3>1, <3>6, <3>7, <3>8
    <2> QED
      BY <1>1, <2>1, <2>2
  <1>6. Ids' = Ids /\ RunningIds' = RunningIds /\ WaitingIds' = WaitingIds
    <2>1. Ids' = Ids
      BY <1>5 DEF Ids
    <2> QED
      BY <1>5, <2>1, SameIds
  <1>7. Types'
    BY <1>1, <1>2, <1>5, <1>6 DEF Types
  <1>8. Queued'
    <2>1. Passed' = Passed
      BY <1>1 DEF Passed
    <2>2. Queue(Passed') /\ Range(Passed') = Range(Passed)
      BY Zenon, <2>1, QueueParts
    <2> QED
      BY <1>1, <1>6, <2>2, QueueParts DEF Queued
  <1>9. Called'
    <2>1. DOMAIN cur'.step \subseteq RunningIds'
      BY <1>2, <1>4, <1>5, <1>6
    <2>2. cur.index + 1 \in 1 .. Len(running) + 1
      BY <1>2
    <2>3. ASSUME NEW i \in 1 .. Len(running), running[i] \in DOMAIN cur'.step
          PROVE  i < cur.index + 1
      <3>1. CASE running[i] = id
        <4>1. i = cur.index
          BY <1>2, <3>1, QueueParts DEF Queue, Inj
        <4> QED
          BY <1>2, <4>1
      <3>2. CASE running[i] /= id
        <4>1. i < cur.index
          BY <1>4, <1>5, <2>3, <3>2
        <4> QED
          BY <1>2, <4>1
      <3> QED
        BY <3>1, <3>2
    <2> HIDE DEF id
    <2> QED
      BY <1>1, <1>4, <1>5, <2>1, <2>2, <2>3 DEF Called
  <1>10. Unstarted'
    BY <1>5, <1>6 DEF QueueInv, Unstarted
  <1> QED
    BY <1>7, <1>8, <1>9, <1>10 DEF QueueInv

\* The victim goes to the front of the waiting queue; it is not in the step.
LEMMA QueuePreempt ==
    ASSUME QueueInv, PreemptRunning
    PROVE  QueueInv'
  <1> DEFINE victim == Last(running)
  <1>1. /\ cur.pc = "running" /\ cur.index =< Len(running)
        /\ cur \in CallType /\ cur' \in CallType /\ cur'.pc \in {"running", "return"}
        /\ cur'.pc = "running" => victim /= running[cur.index]
        /\ cur'.index = cur.index /\ cur'.passed = cur.passed /\ cur'.step = cur.step
        /\ req' \in Seq(Request) /\ Len(req') = Len(req) /\ Ids' = Ids
        /\ req'[victim] = _preempt_request(req[victim], FALSE)
        /\ \A x \in Ids \ {victim} : req'[x] = req[x]
        /\ inflight' = Outdated(inflight, {victim})
        /\ running' = Front(running) /\ waiting' = <<victim>> \o waiting
        /\ conf' = conf /\ skipped' = skipped /\ held' = held /\ chunks' = chunks
    BY PreemptEffect
  <1>2. /\ victim \in RunningIds /\ victim \notin DOMAIN cur.step /\ running /= <<>>
        /\ Len(running) \in Nat /\ Len(running) >= 1 /\ victim = running[Len(running)]
        /\ cur.index \in DOMAIN running
    BY <1>1, VisitedId
  <1>3. Types /\ victim \in Ids /\ victim \in Nat
    BY <1>2, QueueParts
  <1>4. cur /= Idle /\ cur' /= Idle
    BY <1>1, CallNotIdle
  <1>5. /\ req'[victim].status = "PREEMPTED" /\ req'[victim].computed = 0
        /\ req'[victim].prompt = req[victim].prompt
    <2>1. req[victim] \in Request /\ FALSE \in BOOLEAN
      BY <1>3, Requests
    <2> DEFINE r == _preempt_request(req[victim], FALSE)
    <2>2. r.status = "PREEMPTED" /\ r.computed = 0 /\ r.prompt = req[victim].prompt
      BY <2>1, PreemptFields
    <2> HIDE DEF r, victim
    <2> QED
      BY <1>1, <2>2 DEF r
  <1>6. /\ Queue(running') /\ Range(running') = Range(running) \ {victim}
        /\ Len(running') = Len(running) - 1
        /\ \A i \in 1 .. Len(running) - 1 : running'[i] = running[i]
    BY <1>1, <1>2, QueueParts, FrontQueue
  <1> HIDE DEF victim
  <1>7. RunningIds' = RunningIds \ {victim} /\ WaitingIds' = WaitingIds \cup {victim}
    BY <1>1, <1>3, <1>5 DEF RunningIds, WaitingIds
  <1>8. Types'
    <2>1. /\ inflight' \in Seq(Steps) /\ DOMAIN inflight' = DOMAIN inflight
          /\ \A i \in DOMAIN inflight : DOMAIN inflight'[i] = DOMAIN inflight[i]
      BY <1>1, <1>3, OutdatedSteps DEF Types
    <2> QED
      BY <1>1, <1>3, <2>1 DEF Types
  <1>9. Queued'
    <2>1. Queue(<<victim>>) /\ Range(<<victim>>) = {victim}
      BY <1>3 DEF Queue, Inj, Range
    <2>2. victim \notin Range(waiting) /\ victim \notin Range(skipped)
      BY <1>2, QueueParts
    <2>3. Queue(waiting') /\ Range(waiting') = {victim} \cup Range(waiting)
      BY <1>1, <2>1, <2>2, QueueParts, JoinQueue
    <2>4. Queue(skipped') /\ Range(skipped') = Range(skipped)
      BY Zenon, <1>1, QueueParts
    <2>5. Passed' = <<>> /\ Passed = <<>>
      BY <1>1 DEF Passed
    <2>6. Queue(Passed') /\ Range(Passed') = {} /\ Range(Passed) = {}
      BY <2>5, EmptyQueue
    <2> QED
      BY <1>1, <1>6, <1>7, <2>2, <2>3, <2>4, <2>6, QueueParts DEF Queued
  <1>10. Called'
    <2>1. /\ DOMAIN cur.step \subseteq RunningIds
          /\ \A x \in DOMAIN cur.step : ~cur.step[x].old
          /\ cur.passed = <<>>
          /\ \A i \in 1 .. Len(running) : running[i] \in DOMAIN cur.step => i < cur.index
      BY <1>1, <1>4 DEF QueueInv, Called
    <2>2. DOMAIN cur'.step \subseteq RunningIds'
      BY <1>1, <1>2, <1>7, <2>1
    <2>3. DOMAIN running = 1 .. Len(running)
      BY QueueParts DEF Queue
    <2>4. cur'.pc = "running" => cur.index \in 1 .. Len(running')  + 1
      BY <1>1, <1>2, <1>6, <2>3
    <2>5. \A i \in 1 .. Len(running') : running'[i] \in DOMAIN cur'.step => i < cur'.index
      <3>1. ASSUME NEW i \in 1 .. Len(running) - 1 PROVE i \in 1 .. Len(running) /\ running'[i] = running[i]
        BY <1>2, <1>6
      <3> QED
        BY <1>1, <1>6, <2>1, <3>1
    <2> QED
      BY <1>1, <2>1, <2>2, <2>4, <2>5 DEF Called
  <1>11. Unstarted'
    <2>1. ASSUME NEW x \in Ids' PROVE req'[x].prompt >= 1 /\ (x \in WaitingIds' => req'[x].computed = 0)
      BY <1>1, <1>3, <1>5, <1>7 DEF QueueInv, Unstarted
    <2> QED
      BY <2>1 DEF Unstarted
  <1> QED
    BY <1>8, <1>9, <1>10, <1>11 DEF QueueInv

\* A request passed over is kept by the call.
LEMMA QueuePass ==
    ASSUME QueueInv, PassWaiting
    PROVE  QueueInv'
  <1>1. /\ cur \in CallType /\ cur' \in CallType /\ cur.pc = "waiting" /\ cur'.pc = "waiting"
        /\ cur'.step = cur.step /\ cur'.passed = Append(cur.passed, Candidate)
        /\ WaitingLoop /\ PopCandidate
        /\ conf' = conf /\ req' = req /\ running' = running
        /\ held' = held /\ inflight' = inflight /\ chunks' = chunks
    BY PassEffect
  <1>2. /\ Candidate \in WaitingIds /\ Candidate \notin Range(Passed) /\ Passed = cur.passed
        /\ Queue(waiting') /\ Queue(skipped') /\ Range(waiting') \cap Range(skipped') = {}
        /\ Range(waiting') \cup Range(skipped') = (Range(waiting) \cup Range(skipped)) \ {Candidate}
    BY <1>1, CandidateId
  <1>3. Ids' = Ids /\ RunningIds' = RunningIds /\ WaitingIds' = WaitingIds
    BY <1>1 DEF Ids, RunningIds, WaitingIds
  <1> DEFINE x == Candidate
             p == Passed'
  <1>4. Queue(p) /\ Range(p) = Range(Passed) \cup {x}
    <2>1. p = Append(Passed, x)
      BY <1>1, <1>2 DEF Passed
    <2>2. x \in Nat
      BY <1>2, QueueParts
    <2>3. Queue(Append(Passed, x)) /\ Range(Append(Passed, x)) = Range(Passed) \cup {x}
      BY <1>2, <2>2, QueueParts, AppendQueue
    <2> HIDE DEF p, x
    <2> QED
      BY <2>1, <2>3
  <1>5. cur /= Idle
    BY <1>1, CallNotIdle
  <1>6. Types'
    BY <1>1, <1>3, QueueParts DEF Types
  <1>7. Queued'
    <2>1. Queue(running') /\ Range(running') = Range(running)
      BY Zenon, <1>1, QueueParts
    <2> QED
      BY <1>1, <1>2, <1>3, <1>4, <2>1, QueueParts DEF Queued
  <1>8. Called'
    BY <1>1, <1>3, <1>5 DEF QueueInv, Called
  <1>9. Unstarted'
    BY <1>1, <1>3 DEF QueueInv, Unstarted
  <1> QED
    BY <1>6, <1>7, <1>8, <1>9 DEF QueueInv

\* The requests passed over are put back.
LEMMA QueueRequeue ==
    ASSUME QueueInv, RequeuePassed
    PROVE  QueueInv'
  <1>1. /\ cur \in CallType /\ cur' \in CallType /\ cur.pc = "waited" /\ cur'.pc = "return"
        /\ cur'.step = cur.step /\ skipped' = cur.passed \o skipped /\ waiting' = waiting
        /\ conf' = conf /\ req' = req /\ running' = running
        /\ held' = held /\ inflight' = inflight /\ chunks' = chunks
    BY RequeueEffect
  <1>2. Passed = cur.passed /\ Passed' = <<>>
    BY <1>1 DEF Passed
  <1>3. Ids' = Ids /\ RunningIds' = RunningIds /\ WaitingIds' = WaitingIds
    BY <1>1 DEF Ids, RunningIds, WaitingIds
  <1>4. Queue(Passed') /\ Range(Passed') = {}
    BY <1>2, EmptyQueue
  <1>5. Queue(skipped') /\ Range(skipped') = Range(Passed) \cup Range(skipped)
    <2>1. Queue(Passed \o skipped) /\ Range(Passed \o skipped) = Range(Passed) \cup Range(skipped)
      BY QueueParts, JoinQueue
    <2> QED
      BY Zenon, <1>1, <1>2, <2>1
  <1>6. cur /= Idle
    BY <1>1, CallNotIdle
  <1>7. Types'
    BY <1>1, <1>3, QueueParts DEF Types
  <1>8. Queued'
    <2>1. /\ Queue(running') /\ Range(running') = Range(running)
          /\ Queue(waiting') /\ Range(waiting') = Range(waiting)
      BY Zenon, <1>1, QueueParts
    <2> QED
      BY <1>1, <1>3, <1>4, <1>5, <2>1, QueueParts DEF Queued
  <1>9. Called'
    BY <1>1, <1>3, <1>6 DEF QueueInv, Called
  <1>10. Unstarted'
    BY <1>1, <1>3 DEF QueueInv, Unstarted
  <1> QED
    BY <1>7, <1>8, <1>9, <1>10 DEF QueueInv

\* An admitted request leaves its queue and runs.
LEMMA QueueAdmit ==
    ASSUME QueueInv, AdmitWaiting
    PROVE  QueueInv'
  <1> DEFINE id == Candidate
             q == req[id]
  <1>1. /\ cur.pc = "waiting" /\ WaitingLoop /\ cur \in CallType /\ cur' \in CallType
        /\ cur'.passed = cur.passed
        /\ \/ StopsAt(id)
           \/ \E computed \in Nat : computed < num_tokens(q) /\ Admits(id, computed)
        /\ conf' = conf /\ held' = held /\ inflight' = inflight /\ chunks' = chunks
    BY AdmitEffect
  <1>2. id \in WaitingIds /\ id \notin Range(Passed) /\ id \in Ids /\ id \in Nat
    BY <1>1, CandidateId, QueueParts
  <1>3. cur /= Idle
    BY <1>1, CallNotIdle
  <1>4. DOMAIN cur.step \subseteq RunningIds /\ \A x \in DOMAIN cur.step : ~cur.step[x].old
    BY <1>3 DEF QueueInv, Called
  <1>5. CASE StopsAt(id)
    <2>1. /\ cur'.pc = "waited" /\ cur'.step = cur.step
          /\ req' = req /\ running' = running /\ waiting' = waiting /\ skipped' = skipped
      BY <1>5 DEF StopsAt
    <2>2. Ids' = Ids /\ RunningIds' = RunningIds /\ WaitingIds' = WaitingIds
      BY <2>1 DEF Ids, RunningIds, WaitingIds
    <2>3. Passed' = Passed
      BY <1>1, <2>1 DEF Passed
    <2>4. Types'
      BY <1>1, <2>1, <2>2, QueueParts DEF Types
    <2>5. Queued'
      BY <1>1, <2>1, <2>2, <2>3 DEF Queued, QueueInv
    <2>6. Called'
      BY <1>4, <2>1, <2>2 DEF Called
    <2>7. Unstarted'
      BY <2>1, <2>2 DEF QueueInv, Unstarted
    <2> QED
      BY <2>4, <2>5, <2>6, <2>7 DEF QueueInv
  <1>6. ASSUME NEW computed \in Nat, computed < num_tokens(q), Admits(id, computed)
        PROVE  QueueInv'
    <2> DEFINE n == WaitingTokens(q, computed)
               drafts == IF Pads(q, computed) THEN conf.spec ELSE 0
               share == Share(q, n, drafts, computed)
    <2>1. /\ req' \in Seq(Request) /\ Len(req') = Len(req)
          /\ \A x \in Ids \ {id} : req'[x] = req[x]
          /\ req'[id].status = "RUNNING" /\ req'[id].prompt = q.prompt
          /\ cur'.step = With(cur.step, id, share)
          /\ cur'.pc = "waiting" /\ PopCandidate /\ running' = Append(running, id)
      BY <1>6 DEF Admits, Alike
    <2>2. /\ Queue(waiting') /\ Queue(skipped') /\ Range(waiting') \cap Range(skipped') = {}
          /\ Range(waiting') \cup Range(skipped')
               = (Range(waiting) \cup Range(skipped)) \ {id}
      BY <1>1, <2>1, CandidateId
    <2>3. share \in ShareType /\ ~share.old
      <3>1. Types /\ q \in Request /\ conf \in Configs
        BY <1>2, QueueParts, Requests DEF Types
      <3>2. n \in Int
        BY <1>1, <1>6, <3>1, WaitingTokensType
      <3>3. drafts \in Nat
        BY <3>1, Numbers
      <3> HIDE DEF n, drafts, q
      <3> QED
        BY <3>1, <3>2, <3>3, ShareFields
    <2>4. cur.step \in Steps
      BY <1>1, CallTyped DEF TypedCall
    <2> HIDE DEF share, id
    <2>5. /\ DOMAIN cur'.step = DOMAIN cur.step \cup {id} /\ cur'.step[id] = share
          /\ \A x \in DOMAIN cur.step \ {id} : cur'.step[x] = cur.step[x]
      <3> DEFINE w == With(cur.step, id, share)
      <3>1. /\ DOMAIN w = DOMAIN cur.step \cup {id} /\ w[id] = share
            /\ \A x \in DOMAIN cur.step \ {id} : w[x] = cur.step[x]
        <4> DEFINE st == cur.step
        <4>1. id \in Nat /\ share \in ShareType /\ st \in Steps
          BY <1>2, <2>3, <2>4
        <4> HIDE DEF st
        <4>2. /\ DOMAIN With(st, id, share) = DOMAIN st \cup {id}
              /\ With(st, id, share)[id] = share
              /\ \A x \in DOMAIN st \ {id} : With(st, id, share)[x] = st[x]
          BY <4>1, WithShare
        <4> QED
          BY <4>2 DEF st
      <3> HIDE DEF w
      <3>2. cur'.step = w
        BY <2>1 DEF w, share
      <3> QED
        BY <3>1, <3>2
    <2>6. Ids' = Ids
      BY <2>1 DEF Ids
    <2>7. RunningIds' = RunningIds \cup {id} /\ WaitingIds' = WaitingIds \ {id}
      BY <1>2, <2>1, <2>6 DEF RunningIds, WaitingIds
    <2>8. Types'
      BY <1>1, <2>1, <2>6, QueueParts DEF Types
    <2>9. Queued'
      <3>1. Passed' = Passed
        BY <1>1, <2>1 DEF Passed
      <3>2. id \notin Range(running)
        BY <1>2, QueueParts
      <3>3. Queue(running') /\ Range(running') = Range(running) \cup {id}
        BY <1>2, <2>1, <3>2, QueueParts, AppendQueue
      <3>4. Queue(Passed') /\ Range(Passed') = Range(Passed)
        BY Zenon, <3>1, QueueParts
      <3> QED
        BY <1>1, <1>2, <2>2, <2>7, <3>3, <3>4, QueueParts DEF Queued
    <2>10. Called'
      <3>1. DOMAIN cur'.step \subseteq RunningIds'
        BY <1>4, <2>5, <2>7
      <3>2. \A x \in DOMAIN cur'.step : ~cur'.step[x].old
        BY <1>4, <2>3, <2>5
      <3> QED
        BY <2>1, <3>1, <3>2 DEF Called
    <2>11. Unstarted'
      <3>1. ASSUME NEW x \in Ids' PROVE req'[x].prompt >= 1 /\ (x \in WaitingIds' => req'[x].computed = 0)
        <4>1. x \in Ids /\ req[x].prompt >= 1 /\ (x \in WaitingIds => req[x].computed = 0)
          BY <2>6 DEF QueueInv, Unstarted
        <4>2. CASE x = id
          BY <2>1, <2>7, <4>1, <4>2
        <4>3. CASE x /= id
          BY <2>1, <2>7, <4>1, <4>3
        <4> QED
          BY <4>2, <4>3
      <3> QED
        BY <3>1 DEF Unstarted
    <2> QED
      BY <2>8, <2>9, <2>10, <2>11 DEF QueueInv
  <1> QED
    BY <1>1, <1>5, <1>6

\* The call returns; no queue changes.
LEMMA QueueReturn ==
    ASSUME QueueInv, ReturnStep
    PROVE  QueueInv'
  <1>1. /\ cur.pc = "return" /\ cur \in CallType /\ cur' = Idle
        /\ req' \in Seq(Request) /\ Len(req') = Len(req) /\ Ids' = Ids
        /\ \A id \in Ids : req'[id] = IF id \in DOMAIN cur.step
                                      THEN _update_after_schedule(req[id], cur.step[id])
                                      ELSE req[id]
        /\ inflight' = IF DOMAIN cur.step = {} THEN inflight ELSE Append(inflight, cur.step)
        /\ conf' = conf /\ running' = running /\ waiting' = waiting /\ skipped' = skipped
        /\ held' = held /\ chunks' = chunks
    BY ReturnEffect
  <1>2. cur /= Idle /\ cur.step \in Steps
    BY <1>1, CallNotIdle, CallTyped DEF TypedCall
  <1>3. DOMAIN cur.step \subseteq RunningIds
    BY <1>2 DEF QueueInv, Called
  <1>4. ASSUME NEW id \in Ids
        PROVE  /\ req'[id].status = req[id].status /\ req'[id].prompt = req[id].prompt
               /\ id \notin RunningIds => req'[id] = req[id]
    <2>1. CASE id \in DOMAIN cur.step
      <3> DEFINE s == cur.step[id]
                 r == _update_after_schedule(req[id], s)
      <3>1. s \in ShareType /\ req[id] \in Request /\ conf \in Configs
        BY <1>2, <2>1, StepShares, QueueParts, Requests DEF Types
      <3>2. r.status = req[id].status /\ r.prompt = req[id].prompt
        BY <3>1, ScheduledFields
      <3>3. req'[id] = r
        BY <1>1, <2>1
      <3> HIDE DEF r
      <3> QED
        BY <1>3, <2>1, <3>2, <3>3
    <2>2. CASE id \notin DOMAIN cur.step
      BY <1>1, <2>2
    <2> QED
      BY <2>1, <2>2
  <1>5. RunningIds' = RunningIds /\ WaitingIds' = WaitingIds
    BY <1>1, <1>4, SameIds
  <1>6. Types'
    <2>1. CASE DOMAIN cur.step = {}
      BY <1>1, <2>1, QueueParts DEF Types
    <2>2. CASE DOMAIN cur.step /= {}
      <3> DEFINE s == cur.step
                 fl == inflight'
      <3>1. fl = Append(inflight, s) /\ inflight \in Seq(Steps)
        BY <1>1, <2>2, QueueParts DEF Types
      <3> HIDE DEF fl
      <3>2. /\ fl \in Seq(Steps) /\ DOMAIN fl = 1 .. Len(inflight) + 1 /\ Len(inflight) \in Nat
            /\ \A i \in 1 .. Len(inflight) : fl[i] = inflight[i] /\ i \in DOMAIN inflight
            /\ fl[Len(inflight) + 1] = s
        BY <1>2, <3>1
      <3>3. DOMAIN s \subseteq Ids
        BY <1>3, QueueParts
      <3>4. \A i \in DOMAIN inflight : DOMAIN inflight[i] \subseteq Ids
        BY QueueParts DEF Types
      <3>5. \A i \in DOMAIN fl : DOMAIN fl[i] \subseteq Ids
        <4>1. \A i \in DOMAIN fl : i \in 1 .. Len(inflight) \/ i = Len(inflight) + 1
          BY <3>2
        <4> QED
          BY <3>2, <3>3, <3>4, <4>1
      <3> QED
        BY <1>1, <3>2, <3>5, QueueParts DEF Types, fl
    <2> QED
      BY <2>1, <2>2
  <1>7. Queued'
    <2>1. Passed = <<>>
      BY <1>1 DEF Passed
    <2>2. Queue(Passed') /\ Range(Passed') = {} /\ Range(Passed) = {}
      BY <1>1, <2>1, QueuedIdle, EmptyQueue
    <2> QED
      BY <1>1, <1>5, <2>2, QueueParts DEF Queued
  <1>8. Called'
    BY <1>1, QueuedIdle
  <1>9. Unstarted'
    <2>1. ASSUME NEW x \in Ids' PROVE req'[x].prompt >= 1 /\ (x \in WaitingIds' => req'[x].computed = 0)
      BY <1>1, <1>4, <1>5, QueueParts DEF QueueInv, Unstarted
    <2> QED
      BY <2>1 DEF Unstarted
  <1> QED
    BY <1>6, <1>7, <1>8, <1>9 DEF QueueInv

\* An output stops a request or leaves its status alone.
LEMMA OutcomeStatus ==
    ASSUME QueueInv, inflight /= <<>>, NEW id \in DOMAIN Head(inflight), NEW k \in Nat,
           NEW eos \in BOOLEAN, NEW stopped \in BOOLEAN, Outcome(id, k, eos, stopped)
    PROVE  /\ stopped => req[id].status /= "FINISHED" /\ req'[id].status = "FINISHED"
           /\ ~stopped => req'[id].status = req[id].status
           /\ req'[id].prompt = req[id].prompt
           /\ ~stopped /\ req[id].computed = 0 => req'[id].computed = 0
  <1> DEFINE q == req[id]
             s == Head(inflight)[id]
             r == req'[id]
             d == Delivered(q, s, k, eos)
             t == Drained(q, s, k)
             u == [t EXCEPT !.evicted = TRUE]
             v == _free_request(d)
  <1>1. /\ q \in Request /\ s \in ShareType /\ conf \in Configs /\ Types
    BY QueueParts, HeadStep, Requests DEF Types
  <1>2. d \in Request /\ d.status = q.status /\ d.prompt = q.prompt
    BY <1>1, DeliveredFields
  <1>3. q.computed = 0 => d.computed = 0
    <2>1. d.computed = (IF q.stale > 0 \/ ~(q.computed > 0) THEN q.computed
                        ELSE q.computed - Rejected(s, k))
      BY <1>1, DeliveredFields
    <2> HIDE DEF d
    <2> QED
      BY <2>1
  <1>4. t \in Request /\ t.status = q.status /\ t.prompt = q.prompt /\ t.computed = q.computed
    BY <1>1, DrainedFields
  <1>5. u.status = t.status /\ u.prompt = t.prompt /\ u.computed = t.computed
    BY <1>4, EvictedFields
  <1>6. v.status = "FINISHED" /\ v.prompt = d.prompt
    BY <1>2, FreeFields
  <1>7. \/ q.status = "FINISHED" /\ r = q /\ ~stopped
        \/ q.status /= "FINISHED" /\ ~stopped /\ (r = u \/ r = t \/ r = d)
        \/ q.status /= "FINISHED" /\ stopped /\ r = v
    BY DEF Outcome
  <1> HIDE DEF q, s, r, d, t, u, v
  <1> QED
    BY <1>2, <1>3, <1>4, <1>5, <1>6, <1>7 DEF q, r

\* An output takes the requests it finishes out of their queues.
LEMMA QueueOutput ==
    ASSUME QueueInv, update_from_output
    PROVE  QueueInv'
  <1> DEFINE ids == DOMAIN Head(inflight)
  <1>1. /\ cur = Idle /\ cur' = Idle /\ inflight /= <<>> /\ inflight' = Tail(inflight)
        /\ conf' = conf /\ held' = held /\ chunks' = chunks
    BY OutputEffect
  <1>2. PICK k \in [ids -> Nat], eos \in SUBSET ids, stopped \in SUBSET ids :
                   /\ \A id \in ids : Outcome(id, k[id], id \in eos, id \in stopped)
                   /\ req' \in Seq(Request) /\ Len(req') = Len(req) /\ Ids' = Ids
                   /\ \A id \in Ids \ ids : req'[id] = req[id]
                   /\ running' = Without(running, {id \in stopped : req[id].status = "RUNNING"})
                   /\ waiting' = Without(waiting, {id \in stopped : req[id].status /= "RUNNING"})
                   /\ skipped' = Without(skipped, {id \in stopped : req[id].status /= "RUNNING"})
    BY OutputEffect
  <1>3. ids \subseteq Ids /\ Types
    BY <1>1, QueueParts, HeadStep
  <1>4. ASSUME NEW id \in Ids
        PROVE  /\ id \in stopped => req[id].status /= "FINISHED" /\ req'[id].status = "FINISHED"
               /\ id \notin stopped => req'[id].status = req[id].status
               /\ req'[id].prompt = req[id].prompt
               /\ id \notin stopped /\ req[id].computed = 0 => req'[id].computed = 0
    <2>1. CASE id \in ids
      <3>1. /\ Outcome(id, k[id], id \in eos, id \in stopped) /\ k[id] \in Nat
            /\ (id \in eos) \in BOOLEAN /\ (id \in stopped) \in BOOLEAN
        BY <1>2, <2>1
      <3> HIDE DEF ids
      <3> QED
        BY <1>1, <2>1, <3>1, OutcomeStatus DEF ids
    <2>2. CASE id \notin ids
      BY <1>2, <2>2
    <2> QED
      BY <2>1, <2>2
  <1> HIDE DEF ids
  <1>5. RunningIds' = RunningIds \ stopped /\ WaitingIds' = WaitingIds \ stopped
    BY <1>2, <1>4 DEF RunningIds, WaitingIds
  <1>6. Types'
    <2>1. inflight \in Seq(Steps) /\ \A i \in DOMAIN inflight : DOMAIN inflight[i] \subseteq Ids
      BY <1>3 DEF Types
    <2> DEFINE t == Tail(inflight)
    <2>2. /\ t \in Seq(Steps) /\ Len(inflight) \in Nat /\ Len(inflight) >= 1
          /\ DOMAIN t = 1 .. Len(inflight) - 1
          /\ \A i \in 1 .. Len(inflight) - 1 : t[i] = inflight[i + 1] /\ i + 1 \in DOMAIN inflight
      BY <1>1, <2>1
    <2> HIDE DEF t
    <2>3. \A i \in DOMAIN t : DOMAIN t[i] \subseteq Ids
      BY <2>1, <2>2
    <2> QED
      BY <1>1, <1>2, <1>3, <2>2, <2>3 DEF Types, t
  <1>7. Queued'
    <2> DEFINE a == {id \in stopped : req[id].status = "RUNNING"}
               b == {id \in stopped : req[id].status /= "RUNNING"}
    <2>1. Queue(running') /\ Range(running') = Range(running) \ a
      BY <1>2, QueueParts, WithoutQueue
    <2>2. Queue(waiting') /\ Range(waiting') = Range(waiting) \ b
      BY <1>2, QueueParts, WithoutQueue
    <2>3. Queue(skipped') /\ Range(skipped') = Range(skipped) \ b
      BY <1>2, QueueParts, WithoutQueue
    <2>4. Queue(Passed') /\ Range(Passed') = {} /\ Range(Passed) = {}
      BY <1>1, QueuedIdle, QueueParts
    <2>5. RunningIds \ a = RunningIds \ stopped /\ WaitingIds \ b = WaitingIds \ stopped
      BY DEF RunningIds, WaitingIds
    <2> HIDE DEF a, b
    <2> QED
      BY <1>1, <1>5, <2>1, <2>2, <2>3, <2>4, <2>5, QueueParts DEF Queued
  <1>8. Called'
    BY <1>1, QueuedIdle
  <1>9. Unstarted'
    <2>1. ASSUME NEW x \in Ids' PROVE req'[x].prompt >= 1 /\ (x \in WaitingIds' => req'[x].computed = 0)
      <3>1. x \in Ids /\ req[x].prompt >= 1 /\ (x \in WaitingIds => req[x].computed = 0)
        BY <1>2 DEF QueueInv, Unstarted
      <3> QED
        BY <1>4, <1>5, <3>1
    <2> QED
      BY <2>1 DEF Unstarted
  <1> QED
    BY <1>6, <1>7, <1>8, <1>9 DEF QueueInv

\* A step of the scheduler keeps every request in its queue.
LEMMA QueueStep ==
    ASSUME NoSessions, QueueInv, [Next]_vars
    PROVE  QueueInv'
  <1>1. CASE add_request
    BY <1>1, QueueAdd
  <1>2. CASE add_session_input
    <2>1. PICK id \in Live : req[id].resumable
      BY <1>2 DEF add_session_input
    <2>2. req[id] \in Request
      BY QueueParts, Requests
    <2> QED
      BY <2>1, <2>2, RequestTyped DEF Typed
  <1>3. CASE finish_requests
    BY <1>3, QueueFinish
  <1>4. CASE set_pause_state \/ UNCHANGED vars
    <2>1. /\ conf' = conf /\ req' = req /\ running' = running /\ waiting' = waiting
          /\ skipped' = skipped /\ held' = held /\ inflight' = inflight /\ cur' = cur
          /\ chunks' = chunks
      BY <1>4 DEF set_pause_state, vars, queues, env
    <2>2. Ids' = Ids /\ RunningIds' = RunningIds /\ WaitingIds' = WaitingIds /\ Passed' = Passed
      BY <2>1 DEF Ids, RunningIds, WaitingIds, Passed
    <2>3. Types'
      BY <2>1, <2>2 DEF QueueInv, Types
    <2>4. Queued'
      BY <2>1, <2>2 DEF QueueInv, Queued
    <2>5. Called'
      BY <2>1, <2>2 DEF QueueInv, Called
    <2>6. Unstarted'
      BY <2>1, <2>2 DEF QueueInv, Unstarted
    <2> QED
      BY <2>3, <2>4, <2>5, <2>6 DEF QueueInv
  <1>5. CASE reset_prefix_cache
    BY <1>5, QueueReset
  <1>6. CASE BeginSchedule
    BY <1>6, QueueBegin
  <1>7. CASE ScheduleRunning
    BY <1>7, QueueGrant
  <1>8. CASE PreemptRunning
    BY <1>8, QueuePreempt
  <1>9. CASE EndRunning \/ EndWaiting
    BY <1>9, QueueLocal
  <1>10. CASE PassWaiting
    BY <1>10, QueuePass
  <1>11. CASE AdmitWaiting
    BY <1>11, QueueAdmit
  <1>12. CASE RequeuePassed
    BY <1>12, QueueRequeue
  <1>13. CASE ReturnStep
    BY <1>13, QueueReturn
  <1>14. CASE update_from_output
    BY <1>14, QueueOutput
  <1> QED
    BY <1>1, <1>2, <1>3, <1>4, <1>5, <1>6, <1>7, <1>8, <1>9, <1>10, <1>11, <1>12, <1>13, <1>14
    DEF Next, schedule

\* The queues as UnfinishedIsQueued describes them.
LEMMA QueueCount ==
    ASSUME QueueInv
    PROVE  UnfinishedIsQueued
  <1>1. SUFFICES ASSUME cur = Idle PROVE
        /\ \A id \in Live :
             IF req[id].status = "RUNNING" THEN id \in Range(running)
             ELSE id \in Range(waiting) \cup Range(skipped)
        /\ Len(running) + Len(waiting) + Len(skipped) = Cardinality(Live)
        /\ held = Cardinality({id \in Live : req[id].status = "WAITING_FOR_STREAMING_REQ"})
    BY DEF UnfinishedIsQueued
  <1>2. /\ Queue(running) /\ Queue(waiting) /\ Queue(skipped)
        /\ Range(running) = RunningIds /\ Range(waiting) \cap Range(skipped) = {}
        /\ Range(waiting) \cup Range(skipped) = WaitingIds /\ held = 0
    BY <1>1, QueueParts
  <1>3. Live = RunningIds \cup WaitingIds /\ RunningIds \cap WaitingIds = {}
    BY QueueParts, LiveIds
  <1>4. \A id \in Live : IF req[id].status = "RUNNING" THEN id \in Range(running)
                         ELSE id \in Range(waiting) \cup Range(skipped)
    BY <1>2, <1>3 DEF RunningIds, WaitingIds
  <1>5. Len(running) + Len(waiting) + Len(skipped) = Cardinality(Live)
    <2> DEFINE a == Range(running)
               b == Range(waiting)
               c == Range(skipped)
    <2>1. /\ IsFiniteSet(a) /\ Cardinality(a) = Len(running) /\ Len(running) \in Nat
          /\ IsFiniteSet(b) /\ Cardinality(b) = Len(waiting) /\ Len(waiting) \in Nat
          /\ IsFiniteSet(c) /\ Cardinality(c) = Len(skipped) /\ Len(skipped) \in Nat
      BY <1>2, QueueLength
    <2>2. b \cap c = {} /\ a \cap (b \cup c) = {} /\ Live = a \cup (b \cup c)
      BY <1>2, <1>3
    <2>3. Cardinality({}) = 0
      BY FS_EmptySet
    <2> HIDE DEF a, b, c
    <2>4. /\ IsFiniteSet(b \cup c)
          /\ Cardinality(b \cup c) = Cardinality(b) + Cardinality(c) - Cardinality(b \cap c)
      BY <2>1, FS_Union
    <2>7. Cardinality(b \cap c) = 0 /\ Cardinality(a \cap (b \cup c)) = 0
      BY Zenon, <2>2, <2>3
    <2>8. Cardinality(Live) = Cardinality(a \cup (b \cup c))
      BY Zenon, <2>2
    <2>5. Cardinality(b \cup c) = Len(waiting) + Len(skipped)
      BY <2>1, <2>4, <2>7
    <2>6. Cardinality(a \cup (b \cup c))
            = Cardinality(a) + Cardinality(b \cup c) - Cardinality(a \cap (b \cup c))
      BY <2>1, <2>4, FS_Union
    <2> QED
      BY <2>1, <2>5, <2>6, <2>7, <2>8
  <1>6. Cardinality({id \in Live : req[id].status = "WAITING_FOR_STREAMING_REQ"}) = 0
    <2>1. {id \in Live : req[id].status = "WAITING_FOR_STREAMING_REQ"} = {}
      BY <1>3 DEF RunningIds, WaitingIds
    <2> QED
      BY <2>1, FS_EmptySet
  <1> QED
    BY <1>2, <1>4, <1>5, <1>6

\* However calls to schedule(), outputs, aborts, resets and preemptions interleave,
\* between two calls of the scheduler every unfinished request is in exactly one
\* of its queues, the one that its status says: none is lost and none is held
\* twice.
THEOREM NoneLost ==
    ASSUME NoSessions
    PROVE  Spec => []UnfinishedIsQueued
  <1>1. Init => QueueInv
    BY QueueInit
  <1>2. QueueInv /\ [Next]_vars => QueueInv'
    BY QueueStep
  <1>3. QueueInv => UnfinishedIsQueued
    BY QueueCount
  <1> QED
    BY <1>1, <1>2, <1>3, PTL DEF Spec

-----------------------------------------------------------------------------
(* The counters of a request *)

\* The tokens of a request, those to come included.
All(q) == num_tokens(q) + q.placeholders

\* A share holds the sampled token besides its drafts, unless padding can be cut.
Firm(s) == GoodShare(s) /\ (PadsAreWhole => s.drafts < s.n)

\* An unfinished answer stays below both limits.
Answers(c, q) ==
    q.prompt \in c.prompts /\ Len(q.out) < c.maxTokens /\ num_tokens(q) < c.modelLen

\* The counters are what the pipeline holds of the request, stale shares first;
\* a request resumes only when what is left of them is to be dropped.
Counted(q, fl, id) ==
    /\ OldFirst(fl, id)
    /\ q.inflight = Sum(fl, id, "tokens") /\ q.stale = Sum(fl, id, "stale")
    /\ q.status = "RUNNING" => /\ q.stale = 0 \/ q.drop
                               /\ q.placeholders = Sum(fl, id, "owed")
    /\ q.status /= "RUNNING" => /\ q.computed = 0 /\ q.placeholders = 0
                                /\ AllOld(fl, id)

\* The model runner has sampled what was delivered, up to what is in flight.
Ordered(q) ==
    /\ q.status = "RUNNING" => q.pos = num_tokens(q)
    /\ (q.status /= "RUNNING" /\ q.stale > 0 /\ ~q.drop /\ ~q.evicted) => q.stalePos = num_tokens(q)

\* A running request has a token to compute and stays below the length limit,
\* also with the share that the call in progress has given it.
Ahead(c, q, st, id) ==
    IF id \in DOMAIN st
    THEN /\ Firm(st[id]) /\ (st[id].samples <=> q.computed + st[id].n >= All(q))
         /\ q.computed + st[id].n =< All(q) + st[id].drafts
         /\ q.computed + st[id].n < c.modelLen
    ELSE q.computed < All(q) /\ q.computed < c.modelLen

\* However many drafts are rejected, no more is rolled back than was computed.
Covered(q, fl, st, id) ==
    PadsAreCovered =>
        /\ q.computed >= 0
        /\ IF id \in DOMAIN st
           THEN q.computed + st[id].n - st[id].drafts >= Sum(fl, id, "drafts")
           ELSE q.computed >= Sum(fl, id, "drafts")

\* A request that has caught up lacks only the token to be sampled next.
Exact(q, st, id) ==
    PadsAreWhole =>
        IF id \in DOMAIN st
        THEN st[id].samples => q.computed + st[id].n = All(q) + st[id].drafts
        ELSE ~q.chunk => q.computed = All(q) - 1

Sound(c, q, fl, id, st) ==
    /\ Answers(c, q) /\ Counted(q, fl, id) /\ Ordered(q)
    /\ q.status = "RUNNING" => Ahead(c, q, st, id) /\ Covered(q, fl, st, id) /\ Exact(q, st, id)

\* The answer is in order.
InOrder(q) == \A i \in DOMAIN q.out : q.out[i] = q.prompt + i

CurStep == IF cur = Idle THEN <<>> ELSE cur.step

PipeInv ==
    /\ \A i \in DOMAIN inflight : \A id \in DOMAIN inflight[i] : Firm(inflight[i][id])
    /\ \A id \in Ids : InOrder(req[id])
    /\ \A id \in Live : Sound(conf, req[id], inflight, id, CurStep)

\* The numbers of a request.
LEMMA Tokens ==
    ASSUME NEW q \in Request
    PROVE  /\ num_tokens(q) \in Nat /\ num_tokens(q) = q.prompt + Len(q.out)
           /\ q.prompt \in Nat /\ Len(q.out) \in Nat /\ q.out \in Seq(Int)
           /\ q.computed \in Int /\ q.placeholders \in Int /\ q.inflight \in Int
           /\ q.stale \in Int /\ q.spec \in Nat /\ q.pos \in Int /\ q.stalePos \in Int
           /\ q.drop \in BOOLEAN /\ q.chunk \in BOOLEAN /\ q.evicted \in BOOLEAN
           /\ q.blocks \in Nat /\ All(q) \in Int /\ All(q) = num_tokens(q) + q.placeholders
  <1>1. Typed(q)
    BY RequestTyped
  <1>2. q.prompt \in Nat /\ q.out \in Seq(Int) /\ q.placeholders \in Int
    BY <1>1 DEF Typed
  <1>3. Len(q.out) \in Nat
    BY <1>2
  <1>4. num_tokens(q) \in Nat /\ num_tokens(q) = q.prompt + Len(q.out)
    BY <1>2, <1>3 DEF num_tokens
  <1>5. All(q) \in Int /\ All(q) = num_tokens(q) + q.placeholders
    BY <1>2, <1>4 DEF All
  <1> QED
    BY <1>1, <1>3, <1>4, <1>5 DEF Typed

\* Two pipelines are the same to a request, and two steps.
SameView(fl, gl, id) ==
    /\ \A kind \in Kinds : Sum(gl, id, kind) = Sum(fl, id, kind)
    /\ OldFirst(fl, id) => OldFirst(gl, id)
    /\ AllOld(fl, id) => AllOld(gl, id)
SameSeat(st, zt, id) ==
    /\ id \in DOMAIN st <=> id \in DOMAIN zt
    /\ id \in DOMAIN st => st[id] = zt[id]

\* What others do does not matter to a request.
LEMMA SoundFrame ==
    ASSUME NEW c, NEW q, NEW id, NEW fl, NEW gl, NEW st, NEW zt,
           SameView(fl, gl, id), SameSeat(st, zt, id), Sound(c, q, fl, id, st)
    PROVE  Sound(c, q, gl, id, zt)
  <1>1. /\ Sum(gl, id, "tokens") = Sum(fl, id, "tokens") /\ Sum(gl, id, "stale") = Sum(fl, id, "stale")
        /\ Sum(gl, id, "owed") = Sum(fl, id, "owed") /\ Sum(gl, id, "drafts") = Sum(fl, id, "drafts")
    BY DEF SameView, Kinds
  <1>2. (OldFirst(fl, id) => OldFirst(gl, id)) /\ (AllOld(fl, id) => AllOld(gl, id))
    BY DEF SameView
  <1>3. Counted(q, fl, id) => Counted(q, gl, id)
    BY <1>1, <1>2 DEF Counted
  <1>4. Ahead(c, q, st, id) => Ahead(c, q, zt, id)
    BY DEF Ahead, SameSeat
  <1>5. Covered(q, fl, st, id) => Covered(q, gl, zt, id)
    BY <1>1 DEF Covered, SameSeat
  <1>6. Exact(q, st, id) => Exact(q, zt, id)
    BY DEF Exact, SameSeat
  <1> QED
    BY <1>3, <1>4, <1>5, <1>6 DEF Sound

\* A request without shares.
LEMMA NoShares ==
    ASSUME NEW fl \in Seq(Steps), NEW id, \A i \in DOMAIN fl : id \notin DOMAIN fl[i]
    PROVE  /\ \A kind \in Kinds : Sum(fl, id, kind) = 0
           /\ OldFirst(fl, id) /\ AllOld(fl, id)
  <1>1. ASSUME NEW kind \in Kinds PROVE Sum(fl, id, kind) = 0
    BY SumNat
  <1> QED
    BY <1>1 DEF OldFirst, AllOld

\* A new request.
LEMMA SoundNew ==
    ASSUME NEW c \in Configs, NEW fl \in Seq(Steps), NEW id, NEW st,
           \A i \in DOMAIN fl : id \notin DOMAIN fl[i],
           NEW q \in Request, q.prompt \in c.prompts, q.out = <<>>, q.status = "WAITING",
           q.computed = 0, q.placeholders = 0, q.inflight = 0, q.stale = 0
    PROVE  Sound(c, q, fl, id, st) /\ InOrder(q)
  <1>1. /\ \A kind \in Kinds : Sum(fl, id, kind) = 0
        /\ OldFirst(fl, id) /\ AllOld(fl, id)
    BY NoShares
  <1>2. Sum(fl, id, "tokens") = 0 /\ Sum(fl, id, "stale") = 0
    BY <1>1 DEF Kinds
  <1>3. Counted(q, fl, id)
    BY <1>1, <1>2 DEF Counted
  <1>4. Len(q.out) = 0 /\ DOMAIN q.out = {}
    OBVIOUS
  <1>5. c.prompts \subseteq 1 .. c.modelLen - 1 /\ c.maxTokens >= 1 /\ c.modelLen \in Nat /\ c.maxTokens \in Nat
    BY Numbers
  <1>6. Answers(c, q)
    BY <1>4, <1>5, Tokens DEF Answers
  <1>7. Ordered(q)
    BY DEF Ordered
  <1> QED
    BY <1>3, <1>4, <1>6, <1>7 DEF Sound, InOrder

\* A preempted request.
LEMMA SoundPreempted ==
    ASSUME NEW c, NEW fl \in Seq(Steps), NEW ids, NEW id \in ids, NEW st, NEW zt,
           NEW q \in Request, q.status = "RUNNING", Sound(c, q, fl, id, st), NEW drop \in BOOLEAN
    PROVE  LET r == _preempt_request(q, drop)
           IN Sound(c, r, Outdated(fl, ids), id, zt) /\ (InOrder(q) => InOrder(r))
  <1> DEFINE r == _preempt_request(q, drop)
             gl == Outdated(fl, ids)
  <1>1. /\ r \in Request /\ r.status = "PREEMPTED" /\ r.out = q.out /\ r.prompt = q.prompt
        /\ r.computed = 0 /\ r.placeholders = 0 /\ r.inflight = q.inflight
        /\ r.stale = q.inflight /\ r.stalePos = q.pos
    BY PreemptFields
  <1>2. /\ Sum(gl, id, "tokens") = Sum(fl, id, "tokens")
        /\ Sum(gl, id, "stale") = Sum(fl, id, "tokens")
        /\ OldFirst(gl, id) /\ AllOld(gl, id)
    BY OutdatedOwn
  <1> HIDE DEF r, gl
  <1>3. num_tokens(r) = num_tokens(q)
    BY <1>1 DEF num_tokens
  <1>4. Counted(r, gl, id)
    BY <1>1, <1>2 DEF Counted, Sound
  <1>5. Ordered(r) /\ Answers(c, r)
    BY <1>1, <1>3 DEF Ordered, Answers, Sound
  <1>6. InOrder(q) => InOrder(r)
    BY <1>1 DEF InOrder
  <1>7. r.status /= "RUNNING"
    BY <1>1
  <1>8. Sound(c, r, gl, id, zt)
    BY <1>4, <1>5, <1>7 DEF Sound
  <1> QED
    BY <1>6, <1>8 DEF r, gl

\* A request keeps its place when only its blocks and its candidate drafts change.
LEMMA AlikeParts ==
    ASSUME NEW c, NEW fl, NEW id, NEW q \in Request, NEW r \in Request, Alike(r, q),
           r.status = q.status, r.computed = q.computed, r.evicted = q.evicted, r.pos = q.pos
    PROVE  /\ num_tokens(r) = num_tokens(q) /\ All(r) = All(q)
           /\ Answers(c, q) => Answers(c, r)
           /\ Counted(q, fl, id) => Counted(r, fl, id)
           /\ Ordered(q) => Ordered(r)
           /\ InOrder(q) => InOrder(r)
  <1>1. num_tokens(r) = num_tokens(q) /\ All(r) = All(q)
    BY DEF num_tokens, All, Alike
  <1>2. Answers(c, q) => Answers(c, r)
    BY <1>1 DEF Answers, Alike
  <1>3. Counted(q, fl, id) => Counted(r, fl, id)
    BY DEF Counted, Alike
  <1>4. Ordered(q) => Ordered(r)
    BY <1>1 DEF Ordered, Alike
  <1>5. InOrder(q) => InOrder(r)
    BY DEF InOrder, Alike
  <1> QED
    BY <1>1, <1>2, <1>3, <1>4, <1>5

\* The running loop gives a request that it does not pass over at least one token.
LEMMA RunningTokensPositive ==
    ASSUME Types, cur \in CallType, NEW id, req[id] \in Request, cur.budget > 0, ~SkipsRunning(id),
           req[id].computed < All(req[id]), req[id].computed < conf.modelLen
    PROVE  RunningTokens(req[id]) > 0
  <1> DEFINE q == req[id]
             prefill == conf.decodeAware /\ q.chunk
             wanted == num_tokens(q) + q.spec + q.placeholders - q.computed
             capped == IF ~prefill /\ 0 < conf.longThreshold THEN Least(wanted, conf.longThreshold)
                       ELSE wanted
             granted == Least(capped, cur.budget)
             shared == IF prefill THEN Least(granted, cur.prefill) ELSE granted
             room == conf.modelLen - q.computed - 1
  <1>1. RunningTokens(q) = Least(shared, room) /\ RunningTokens(q) /= 0
    BY DEF RunningTokens, SkipsRunning
  <1>2. conf.longThreshold \in Int /\ conf.modelLen \in Int
    BY Numbers DEF Types
  <1>3. cur.budget \in Int /\ cur.prefill \in Int /\ (prefill => cur.prefill > 0)
    BY CallTyped DEF TypedCall, SkipsRunning
  <1>4. /\ q.computed \in Int /\ q.placeholders \in Int /\ q.spec \in Nat /\ num_tokens(q) \in Nat
        /\ All(q) = num_tokens(q) + q.placeholders
    BY Tokens
  <1>5. wanted \in Int /\ wanted > 0 /\ room \in Int /\ room >= 0
    BY <1>2, <1>4
  <1> HIDE DEF wanted, room, q
  <1>6. capped \in Int /\ capped > 0
    BY <1>2, <1>5 DEF Least
  <1> HIDE DEF capped
  <1>7. granted \in Int /\ granted > 0
    BY <1>3, <1>6 DEF Least
  <1> HIDE DEF granted
  <1>8. shared \in Int /\ shared > 0
    <2> HIDE DEF prefill
    <2> QED
      BY <1>3, <1>7 DEF Least
  <1> HIDE DEF shared
  <1>9. RunningTokens(q) \in Int /\ RunningTokens(q) >= 0
    BY <1>1, <1>5, <1>8 DEF Least
  <1>10. RunningTokens(q) > 0
    BY <1>1, <1>9
  <1> QED
    BY <1>10 DEF q

\* The weights of a pipeline add up to a number.
LEMMA SumInt ==
    ASSUME NEW fl \in Seq(Steps), NEW id, NEW kind \in Kinds
    PROVE  Sum(fl, id, kind) \in Int
  <1>1. Weights(fl, id, kind) \in Seq(Int)
    BY WeightsType
  <1>2. 0 \in Int
    OBVIOUS
  <1> QED
    BY <1>1, <1>2, SumAppend DEF Sum

\* A running request is given a share.
LEMMA SoundGranted ==
    ASSUME NEW c, c.modelLen \in Nat, NEW fl, NEW id, Sum(fl, id, "drafts") \in Int,
           NEW st, id \notin DOMAIN st, NEW zt,
           NEW q \in Request, q.status = "RUNNING", Sound(c, q, fl, id, st),
           NEW r \in Request, Alike(r, q),
           r.status = q.status, r.computed = q.computed, r.evicted = q.evicted, r.pos = q.pos,
           NEW n \in Int, n > 0, n =< All(q) + q.spec - q.computed, n < c.modelLen - q.computed,
           id \in DOMAIN zt, zt[id] = Share(q, n, Drafts(q, n), q.computed)
    PROVE  Sound(c, r, fl, id, zt)
  <1> DEFINE d == Drafts(q, n)
             s == zt[id]
  <1>1. d \in Nat
    BY DraftsType
  <1>2. /\ q.computed \in Int /\ q.placeholders \in Int /\ q.spec \in Nat /\ num_tokens(q) \in Nat
        /\ All(q) = num_tokens(q) + q.placeholders /\ All(q) \in Int
    BY Tokens
  <1>3. /\ s.n = n /\ s.drafts = d /\ (s.samples <=> q.computed + n >= All(q))
    <2>1. s = Share(q, n, d, q.computed)
      OBVIOUS
    <2> HIDE DEF d, s
    <2> QED
      BY <2>1 DEF Share, All
  <1>4. q.computed < All(q) /\ q.computed < c.modelLen /\ Covered(q, fl, st, id)
    BY DEF Sound, Ahead
  <1>5. d = Least(q.spec, Most(0, n + q.computed - num_tokens(q) - q.placeholders))
    BY DEF Drafts
  <1>6. n + q.computed - num_tokens(q) - q.placeholders = n + q.computed - All(q)
    BY <1>2
  <1> HIDE DEF d, s
  <1>7. /\ q.computed + n >= All(q) => d = q.computed + n - All(q)
        /\ q.computed + n < All(q) => d = 0
    BY <1>2, <1>5, <1>6 DEF Least, Most
  <1>8. d < n
    BY <1>1, <1>2, <1>4, <1>7
  <1>9. num_tokens(r) = num_tokens(q) /\ All(r) = All(q) /\ Answers(c, r) /\ Counted(r, fl, id) /\ Ordered(r)
    BY AlikeParts DEF Sound
  <1>10. Firm(s)
    BY <1>1, <1>2, <1>3, <1>7, <1>8 DEF Firm, GoodShare
  <1>11. Ahead(c, r, zt, id)
    <2>1. r.computed + s.n =< All(r) + s.drafts /\ r.computed + s.n < c.modelLen
      BY <1>2, <1>3, <1>7, <1>9
    <2>2. s.samples <=> r.computed + s.n >= All(r)
      BY <1>2, <1>3, <1>9
    <2> QED
      BY <1>10, <2>1, <2>2 DEF Ahead, s
  <1>12. Covered(r, fl, zt, id)
    <2>1. SUFFICES ASSUME PadsAreCovered
                   PROVE  r.computed >= 0 /\ r.computed + s.n - s.drafts >= Sum(fl, id, "drafts")
      BY DEF Covered, s
    <2>2. q.computed >= 0 /\ q.computed >= Sum(fl, id, "drafts")
      BY <1>4, <2>1 DEF Covered
    <2> QED
      BY <1>1, <1>2, <1>3, <1>8, <2>2
  <1>13. Exact(r, zt, id)
    <2>1. s.samples => r.computed + s.n = All(r) + s.drafts
      BY <1>2, <1>3, <1>7, <1>9
    <2> QED
      BY <2>1 DEF Exact, s
  <1> QED
    BY <1>9, <1>11, <1>12, <1>13 DEF Sound

\* A waiting request is admitted.
LEMMA SoundAdmitted ==
    ASSUME PadsHaveRoom, NEW c \in Configs, NEW fl, NEW id, NEW st, NEW zt,
           Sum(fl, id, "owed") = 0, Sum(fl, id, "drafts") = 0,
           NEW q \in Request, q.status /= "RUNNING", Sound(c, q, fl, id, st),
           q.stale = 0 \/ q.drop,
           NEW computed \in Nat, computed < num_tokens(q),
           NEW n \in Int, n > 0, NEW pads \in BOOLEAN, NEW d \in Nat,
           d = IF pads THEN c.spec ELSE 0,
           ~pads => n =< num_tokens(q) - computed,
           pads => c.padding /\ n =< 1 + c.spec /\ num_tokens(q) = computed + 1,
           pads /\ PadsAreWhole => n = 1 + c.spec,
           NEW r \in Request, Alike(r, q), r.status = "RUNNING", r.computed = computed,
           r.pos = num_tokens(q),
           id \in DOMAIN zt, zt[id] = Share(q, n, d, computed)
    PROVE  Sound(c, r, fl, id, zt)
  <1> DEFINE s == zt[id]
  <1>1. /\ c.modelLen \in Nat /\ c.maxTokens \in Nat /\ c.spec \in Nat
        /\ c.prompts \subseteq 1 .. c.modelLen - 1
    BY Numbers
  <1>2. /\ q.placeholders = 0 /\ OldFirst(fl, id) /\ q.inflight = Sum(fl, id, "tokens")
        /\ q.stale = Sum(fl, id, "stale") /\ Answers(c, q)
    BY DEF Sound, Counted
  <1>3. num_tokens(q) \in Nat /\ num_tokens(q) = q.prompt + Len(q.out) /\ Len(q.out) \in Nat /\ q.prompt \in Nat
    BY Tokens
  <1>4. All(r) = num_tokens(q) /\ num_tokens(r) = num_tokens(q) /\ All(q) = num_tokens(q)
    BY <1>2, <1>3 DEF All, num_tokens, Alike
  <1>5. s.n = n /\ s.drafts = d /\ (s.samples <=> computed + n >= num_tokens(q))
    <2>1. s = Share(q, n, d, computed)
      OBVIOUS
    <2> HIDE DEF s
    <2>2. s.samples <=> computed + n >= num_tokens(q) + q.placeholders
      BY <2>1 DEF Share
    <2> QED
      BY <1>2, <1>3, <2>1, <2>2 DEF Share
  <1> HIDE DEF s
  <1>6. Answers(c, r)
    BY <1>2, <1>4 DEF Answers, Alike
  <1>7. Counted(r, fl, id)
    BY <1>2 DEF Counted, Alike
  <1>8. Ordered(r)
    BY <1>4 DEF Ordered
  <1>9. /\ computed + n =< num_tokens(q) + d
        /\ d > 0 => computed + n >= num_tokens(q)
        /\ PadsAreWhole => d < n
        /\ PadsAreWhole /\ computed + n >= num_tokens(q) => computed + n = num_tokens(q) + d
    <2>1. CASE pads
      <3>1. d = c.spec /\ n =< 1 + c.spec /\ num_tokens(q) = computed + 1
        BY <2>1
      <3>2. PadsAreWhole => n = 1 + c.spec
        BY <2>1
      <3> QED
        BY <1>1, <3>1, <3>2
    <2>2. CASE ~pads
      <3>1. d = 0 /\ n =< num_tokens(q) - computed
        BY <2>2
      <3> QED
        BY <1>3, <3>1
    <2> QED
      BY <2>1, <2>2
  <1>10. computed + n < c.modelLen
    <2>1. CASE pads
      <3>1. q.prompt + c.maxTokens + c.spec =< c.modelLen /\ Len(q.out) < c.maxTokens
        BY <1>2, <2>1 DEF PadsHaveRoom, Answers
      <3> QED
        BY SMTT(30), <1>1, <1>3, <2>1, <3>1
    <2>2. CASE ~pads
      <3>1. num_tokens(q) < c.modelLen
        BY <1>2 DEF Answers
      <3> QED
        BY <1>1, <1>3, <2>2, <3>1
    <2> QED
      BY <2>1, <2>2
  <1>11. Firm(s)
    BY <1>3, <1>5, <1>9 DEF Firm, GoodShare
  <1>12. Ahead(c, r, zt, id)
    BY <1>4, <1>5, <1>9, <1>10, <1>11 DEF Ahead, s
  <1>13. PadsAreCovered => computed + n - d >= 0
    <2>1. CASE PadsAreWhole
      BY <1>9, <2>1
    <2>2. CASE ~PadsAreWhole /\ PadsAreCovered
      <3>1. c.spec =< q.prompt
        BY <1>2, <2>2 DEF PadsAreCovered, Answers
      <3> QED
        BY SMTT(30), <1>1, <1>3, <3>1
    <2> QED
      BY <2>1, <2>2
  <1>14. Covered(r, fl, zt, id)
    BY <1>5, <1>13 DEF Covered, s
  <1>15. Exact(r, zt, id)
    BY <1>4, <1>5, <1>9 DEF Exact, s
  <1> QED
    BY <1>6, <1>7, <1>8, <1>12, <1>14, <1>15 DEF Sound

\* How the pipeline looks to a request that has no share in the new step,
LEMMA PushView ==
    ASSUME NEW fl \in Seq(Steps), NEW s \in Steps, NEW id, id \notin DOMAIN s
    PROVE  SameView(fl, Append(fl, s), id)
  <1>1. ASSUME NEW kind \in Kinds PROVE Sum(Append(fl, s), id, kind) = Sum(fl, id, kind)
    BY PushSum, SumInt
  <1> QED
    BY <1>1, PushOrder DEF SameView

\* in the oldest one,
LEMMA PopView ==
    ASSUME NEW fl \in Seq(Steps), fl /= <<>>, NEW id, id \notin DOMAIN Head(fl)
    PROVE  SameView(fl, Tail(fl), id)
  <1>1. Tail(fl) \in Seq(Steps)
    OBVIOUS
  <1>2. ASSUME NEW kind \in Kinds PROVE Sum(Tail(fl), id, kind) = Sum(fl, id, kind)
    <2>1. Sum(fl, id, kind) = Sum(Tail(fl), id, kind) + 0
      BY PopSum
    <2>2. Sum(Tail(fl), id, kind) \in Int
      BY <1>1, SumInt
    <2> QED
      BY <2>1, <2>2
  <1> QED
    BY <1>2, PopOrder DEF SameView

\* or that is not preempted.
LEMMA OutdatedView ==
    ASSUME NEW fl \in Seq(Steps), NEW ids, NEW id, id \notin ids
    PROVE  SameView(fl, Outdated(fl, ids), id)
  BY OutdatedOthers DEF SameView

\* The share that a request was given goes into flight.
LEMMA SoundReturned ==
    ASSUME conf \in Configs, NEW fl \in Seq(Steps), NEW id, NEW st \in Steps, id \in DOMAIN st,
           ~st[id].old, NEW zt, id \notin DOMAIN zt,
           NEW q \in Request, q.status = "RUNNING", Sound(conf, q, fl, id, st)
    PROVE  LET r == _update_after_schedule(q, st[id])
           IN Sound(conf, r, Append(fl, st), id, zt) /\ (InOrder(q) => InOrder(r))
  <1> DEFINE s == st[id]
             r == _update_after_schedule(q, s)
             gl == Append(fl, st)
             chunk == q.computed + s.n < num_tokens(q) + q.placeholders
             more == IF s.samples THEN 1 + s.drafts ELSE 0
  <1>1. s \in ShareType
    BY StepShares
  <1>2. s.n \in Int /\ s.drafts \in Nat /\ s.samples \in BOOLEAN /\ ~s.old
    BY <1>1 DEF ShareType
  <1>3. /\ Sum(gl, id, "tokens") = Sum(fl, id, "tokens") + Weigh(s, "tokens")
        /\ Sum(gl, id, "stale") = Sum(fl, id, "stale") + Weigh(s, "stale")
        /\ Sum(gl, id, "owed") = Sum(fl, id, "owed") + Weigh(s, "owed")
        /\ Sum(gl, id, "drafts") = Sum(fl, id, "drafts") + Weigh(s, "drafts")
    BY PushSum DEF Kinds
  <1>4. /\ Weigh(s, "tokens") = s.n /\ Weigh(s, "stale") = 0 /\ Weigh(s, "owed") = more
        /\ Weigh(s, "drafts") = s.drafts
    BY <1>2 DEF Weigh
  <1>5. /\ Sum(fl, id, "tokens") \in Int /\ Sum(fl, id, "stale") \in Int
        /\ Sum(fl, id, "owed") \in Int /\ Sum(fl, id, "drafts") \in Int
    BY SumInt DEF Kinds
  <1>6. OldFirst(fl, id) => OldFirst(gl, id)
    BY PushOrder
  <1>7. /\ r \in Request /\ r.status = q.status /\ r.out = q.out /\ r.prompt = q.prompt
        /\ r.computed = q.computed + s.n /\ r.chunk = chunk
        /\ r.placeholders = q.placeholders + (IF chunk THEN 0 ELSE 1 + s.drafts)
        /\ r.inflight = q.inflight + s.n /\ r.stale = q.stale /\ r.drop = q.drop
        /\ r.evicted = q.evicted /\ r.pos = q.pos /\ r.stalePos = q.stalePos
    BY <1>1, ScheduledFields
  <1>8. /\ q.computed \in Int /\ q.placeholders \in Int /\ num_tokens(q) \in Nat
        /\ All(q) = num_tokens(q) + q.placeholders /\ All(q) \in Int
    BY Tokens
  <1>9. /\ Firm(s) /\ (s.samples <=> q.computed + s.n >= All(q))
        /\ q.computed + s.n =< All(q) + s.drafts /\ q.computed + s.n < conf.modelLen
        /\ Covered(q, fl, st, id) /\ Exact(q, st, id)
        /\ Answers(conf, q) /\ Counted(q, fl, id) /\ Ordered(q)
    BY DEF Sound, Ahead
  <1>10. conf.modelLen \in Nat
    BY Numbers
  <1>11. id \notin DOMAIN zt /\ q.status = "RUNNING"
    OBVIOUS
  <1>12. (PadsAreCovered => q.computed >= 0 /\ q.computed + s.n - s.drafts >= Sum(fl, id, "drafts"))
    BY <1>9 DEF Covered
  <1>13. PadsAreWhole /\ s.samples => q.computed + s.n = All(q) + s.drafts
    BY <1>9 DEF Exact
  <1> HIDE DEF s, r, gl
  <1>14. chunk <=> ~s.samples
    BY <1>2, <1>8, <1>9
  <1> HIDE DEF chunk
  <1>15. /\ r.placeholders = q.placeholders + more /\ more \in Nat
         /\ num_tokens(r) = num_tokens(q) /\ All(r) = All(q) + more
    <2>1. r.placeholders = q.placeholders + more /\ more \in Nat
      BY <1>2, <1>7, <1>14
    <2>2. num_tokens(r) = num_tokens(q)
      BY <1>7 DEF num_tokens
    <2> HIDE DEF more
    <2> QED
      BY <1>8, <2>1, <2>2 DEF All
  <1>16. Answers(conf, r) /\ Ordered(r)
    BY <1>7, <1>9, <1>15 DEF Answers, Ordered
  <1>17. Counted(r, gl, id)
    <2>1. /\ r.inflight = Sum(gl, id, "tokens") /\ r.stale = Sum(gl, id, "stale")
          /\ r.placeholders = Sum(gl, id, "owed")
      <3> HIDE DEF more
      <3> QED
        BY <1>3, <1>4, <1>5, <1>7, <1>9, <1>11, <1>15 DEF Counted
    <2>2. OldFirst(gl, id) /\ (r.stale = 0 \/ r.drop) /\ r.status = "RUNNING"
      BY <1>6, <1>7, <1>9, <1>11 DEF Counted
    <2> QED
      BY <2>1, <2>2 DEF Counted
  <1>18. Ahead(conf, r, zt, id)
    <2>1. r.computed < conf.modelLen
      BY <1>7, <1>9
    <2>2. r.computed < All(r)
      <3>1. CASE s.samples
        <4>1. All(r) = All(q) + (1 + s.drafts)
          BY <1>15, <3>1
        <4> QED
          BY SMTT(30), <1>2, <1>7, <1>8, <1>9, <4>1
      <3>2. CASE ~s.samples
        <4>1. All(r) = All(q) + 0
          BY <1>15, <3>2
        <4>2. q.computed + s.n < All(q)
          BY <1>2, <1>8, <1>9, <3>2
        <4> QED
          BY <1>7, <1>8, <4>1, <4>2
      <3> QED
        BY <3>1, <3>2
    <2> QED
      BY <1>11, <2>1, <2>2 DEF Ahead
  <1>19. Covered(r, gl, zt, id)
    <2>1. PadsAreCovered => r.computed >= 0 /\ r.computed >= Sum(gl, id, "drafts")
      <3>1. s.n > 0
        BY <1>9 DEF Firm, GoodShare
      <3> QED
        <4> DEFINE a == Sum(gl, id, "drafts")
                   b == Sum(fl, id, "drafts")
        <4>1. a = b + s.drafts /\ b \in Int /\ s.drafts \in Nat /\ s.n \in Int
          BY <1>2, <1>3, <1>4, <1>5
        <4>2. r.computed = q.computed + s.n /\ q.computed \in Int
          BY <1>7, <1>8
        <4>3. PadsAreCovered => q.computed >= 0 /\ q.computed + s.n - s.drafts >= b
          BY <1>12
        <4> HIDE DEF a, b
        <4>4. PadsAreCovered => r.computed >= 0 /\ r.computed >= a
          BY <3>1, <4>1, <4>2, <4>3
        <4> QED
          BY <4>4 DEF a
    <2> QED
      BY <1>11, <2>1 DEF Covered
  <1>20. Exact(r, zt, id)
    <2>1. PadsAreWhole /\ ~r.chunk => r.computed = All(r) - 1
      BY <1>2, <1>7, <1>8, <1>13, <1>14, <1>15
    <2> QED
      BY <1>11, <2>1 DEF Exact
  <1>21. InOrder(q) => InOrder(r)
    BY <1>7 DEF InOrder
  <1>22. Sound(conf, r, gl, id, zt)
    BY <1>16, <1>17, <1>18, <1>19, <1>20 DEF Sound
  <1> QED
    BY <1>21, <1>22 DEF s, r, gl

\* An output that does not end the answer is kept whole.
LEMMA KeptWhole ==
    ASSUME conf \in Configs, NEW q \in Request, NEW k \in Nat, NEW eos \in BOOLEAN,
           ~Stops(q, k, eos), Answers(conf, q)
    PROVE  /\ Kept(q, k, eos) = k
           /\ Len(q.out) + k < conf.maxTokens /\ num_tokens(q) + k < conf.modelLen
  <1> DEFINE a == conf.maxTokens - Len(q.out)
             b == conf.modelLen - num_tokens(q)
             kept == Kept(q, k, eos)
  <1>1. conf.maxTokens \in Nat /\ conf.modelLen \in Nat
    BY Numbers
  <1>2. Len(q.out) \in Nat /\ num_tokens(q) \in Nat
    BY Tokens
  <1>3. a \in Int /\ a > 0 /\ b \in Int /\ b > 0
    BY <1>1, <1>2 DEF Answers
  <1>4. kept = IF eos THEN Least(k, 1) ELSE Least(k, Most(1, Least(a, b)))
    BY DEF Kept
  <1>5. k > 0 => ~eos /\ ~(Len(q.out) + kept >= conf.maxTokens) /\ ~(num_tokens(q) + kept >= conf.modelLen)
    BY DEF Stops
  <1>6. k > 0 => kept < a /\ kept < b
    <2>1. kept \in Int
      BY KeptType
    <2> HIDE DEF kept
    <2> QED
      BY <1>1, <1>2, <1>5, <2>1
  <1> HIDE DEF a, b, kept
  <1>7. CASE k = 0
    <2>1. kept = 0
      BY <1>3, <1>4, <1>7 DEF Least, Most
    <2> QED
      BY <1>2, <1>7, <2>1 DEF Answers, kept
  <1>8. CASE k > 0
    <2>1. kept = k
      BY <1>3, <1>4, <1>5, <1>6, <1>8 DEF Least, Most
    <2>2. k < a /\ k < b
      BY <1>6, <1>8, <2>1
    <2> QED
      BY <1>1, <1>2, <2>1, <2>2 DEF a, b, kept
  <1> QED
    BY <1>7, <1>8

\* What the oldest step leaves of the sums of a request that has a share in it.
LEMMA PopWeights ==
    ASSUME NEW fl \in Seq(Steps), fl /= <<>>, NEW id, id \in DOMAIN Head(fl),
           \A i \in DOMAIN fl : id \in DOMAIN fl[i] => GoodShare(fl[i][id])
    PROVE  LET s == Head(fl)[id]
               owed == IF s.old THEN 0 ELSE IF s.samples THEN 1 + s.drafts ELSE 0
               risk == IF s.old THEN 0 ELSE s.drafts
           IN /\ s \in ShareType /\ GoodShare(s)
              /\ Sum(Tail(fl), id, "tokens") = Sum(fl, id, "tokens") - s.n
              /\ Sum(Tail(fl), id, "stale") = Sum(fl, id, "stale") - (IF s.old THEN s.n ELSE 0)
              /\ Sum(Tail(fl), id, "owed") = Sum(fl, id, "owed") - owed
              /\ Sum(Tail(fl), id, "drafts") = Sum(fl, id, "drafts") - risk
              /\ Sum(fl, id, "tokens") \in Nat /\ Sum(fl, id, "stale") \in Nat
              /\ Sum(fl, id, "owed") \in Nat /\ Sum(fl, id, "drafts") \in Nat
              /\ Sum(Tail(fl), id, "stale") \in Nat
              /\ Sum(Tail(fl), id, "owed") \in Nat /\ Sum(Tail(fl), id, "drafts") \in Nat
  <1> DEFINE s == Head(fl)[id]
             tl == Tail(fl)
  <1>1. Head(fl) = fl[1] /\ 1 \in DOMAIN fl /\ fl[1] \in Steps /\ tl \in Seq(Steps)
    OBVIOUS
  <1>2. s \in ShareType /\ GoodShare(s)
    BY <1>1, StepShares
  <1>3. \A i \in DOMAIN tl : id \in DOMAIN tl[i] => GoodShare(tl[i][id])
    <2>1. Len(fl) \in Nat /\ Len(fl) >= 1 /\ DOMAIN fl = 1 .. Len(fl)
      OBVIOUS
    <2>2. DOMAIN tl = 1 .. Len(fl) - 1 /\ \A i \in 1 .. Len(fl) - 1 : tl[i] = fl[i + 1]
      BY <2>1
    <2> HIDE DEF tl
    <2>3. ASSUME NEW i \in DOMAIN tl PROVE i + 1 \in DOMAIN fl /\ tl[i] = fl[i + 1]
      BY <2>1, <2>2
    <2> QED
      BY <2>3
  <1>4. ASSUME NEW kind \in Kinds
        PROVE  /\ Sum(fl, id, kind) \in Nat /\ Sum(tl, id, kind) \in Nat
               /\ Sum(fl, id, kind) = Sum(tl, id, kind) + Weigh(s, kind)
    <2>1. Sum(fl, id, kind) \in Nat
      BY SumNat
    <2>2. Sum(tl, id, kind) \in Nat
      <3> HIDE DEF tl
      <3> QED
        BY <1>1, <1>3, SumNat
    <2> QED
      BY <2>1, <2>2, PopSum
  <1> HIDE DEF s, tl
  <1>5. s.n \in Int /\ s.drafts \in Nat
    BY <1>2 DEF ShareType
  <1>6. {"tokens", "stale", "owed", "drafts"} \subseteq Kinds
    BY DEF Kinds
  <1>7. /\ Weigh(s, "tokens") = s.n /\ Weigh(s, "stale") = (IF s.old THEN s.n ELSE 0)
        /\ Weigh(s, "owed") = (IF s.old THEN 0 ELSE IF s.samples THEN 1 + s.drafts ELSE 0)
        /\ Weigh(s, "drafts") = (IF s.old THEN 0 ELSE s.drafts)
    BY DEF Weigh
  <1>8. /\ Sum(tl, id, "tokens") = Sum(fl, id, "tokens") - s.n
        /\ Sum(tl, id, "stale") = Sum(fl, id, "stale") - (IF s.old THEN s.n ELSE 0)
    BY <1>4, <1>5, <1>6, <1>7
  <1>9. /\ Sum(tl, id, "owed") = Sum(fl, id, "owed") - (IF s.old THEN 0 ELSE IF s.samples THEN 1 + s.drafts ELSE 0)
        /\ Sum(tl, id, "drafts") = Sum(fl, id, "drafts") - (IF s.old THEN 0 ELSE s.drafts)
    <2>2. Weigh(s, "owed") \in Int /\ Weigh(s, "drafts") \in Int
      BY <1>2, <1>6, WeighType
    <2>3. /\ Sum(tl, id, "owed") = Sum(fl, id, "owed") - Weigh(s, "owed")
          /\ Sum(tl, id, "drafts") = Sum(fl, id, "drafts") - Weigh(s, "drafts")
      BY <1>4, <1>6, <2>2
    <2> QED
      BY Zenon, <1>7, <2>3
  <1> QED
    BY <1>2, <1>4, <1>6, <1>8, <1>9 DEF s, tl

\* A stale output that nobody gets.
LEMMA SoundDrained ==
    ASSUME NEW c, NEW fl \in Seq(Steps), fl /= <<>>, NEW id, id \in DOMAIN Head(fl),
           \A i \in DOMAIN fl : id \in DOMAIN fl[i] => GoodShare(fl[i][id]),
           NEW st, id \notin DOMAIN st, NEW q \in Request, Sound(c, q, fl, id, st), q.stale > 0,
           NEW k \in Nat, NEW r \in Request,
           (q.drop /\ r = Drained(q, Head(fl)[id], k))
             \/ r = [Drained(q, Head(fl)[id], k) EXCEPT !.evicted = TRUE]
    PROVE  Sound(c, r, Tail(fl), id, st) /\ (InOrder(q) => InOrder(r))
  <1> DEFINE s == Head(fl)[id]
             tl == Tail(fl)
             d == Drained(q, s, k)
  <1>1. /\ s \in ShareType
        /\ Sum(tl, id, "tokens") = Sum(fl, id, "tokens") - s.n
        /\ Sum(tl, id, "stale") = Sum(fl, id, "stale") - (IF s.old THEN s.n ELSE 0)
        /\ Sum(tl, id, "owed") = Sum(fl, id, "owed") - (IF s.old THEN 0 ELSE IF s.samples THEN 1 + s.drafts ELSE 0)
        /\ Sum(tl, id, "drafts") = Sum(fl, id, "drafts") - (IF s.old THEN 0 ELSE s.drafts)
        /\ Sum(fl, id, "owed") \in Nat /\ Sum(fl, id, "drafts") \in Nat
    BY PopWeights
  <1>2. OldFirst(fl, id) /\ q.stale = Sum(fl, id, "stale") /\ q.inflight = Sum(fl, id, "tokens")
    BY DEF Sound, Counted
  <1>3. s.old
    BY <1>2, HeadStale
  <1>4. OldFirst(tl, id) /\ (AllOld(fl, id) => AllOld(tl, id))
    BY <1>2, PopOrder
  <1>5. /\ d \in Request /\ d.status = q.status /\ d.out = q.out /\ d.prompt = q.prompt
        /\ d.computed = q.computed /\ d.placeholders = q.placeholders /\ d.chunk = q.chunk
        /\ d.inflight = q.inflight - s.n
        /\ d.stale = (IF q.stale > 0 THEN q.stale - s.n ELSE q.stale)
        /\ d.drop = q.drop
        /\ d.pos = (IF s.old THEN q.pos ELSE q.pos + k)
    <2> HIDE DEF s
    <2> QED
      BY <1>1, DrainedFields
  <1> HIDE DEF s, tl
  <1>11. (q.drop /\ r = d) \/ r = [d EXCEPT !.evicted = TRUE]
    BY DEF s
  <1> HIDE DEF d
  <1>6. /\ r.status = q.status /\ r.out = q.out /\ r.prompt = q.prompt
        /\ r.computed = q.computed /\ r.placeholders = q.placeholders /\ r.chunk = q.chunk
        /\ r.inflight = q.inflight - s.n /\ r.stale = q.stale - s.n
        /\ r.drop = q.drop /\ r.pos = q.pos /\ (r.drop \/ r.evicted)
    <2>1. CASE q.drop /\ r = d
      BY <1>3, <1>5, <2>1
    <2>2. CASE r = [d EXCEPT !.evicted = TRUE]
      <3>1. /\ r.evicted
            /\ r.status = d.status /\ r.out = d.out /\ r.prompt = d.prompt
            /\ r.computed = d.computed /\ r.placeholders = d.placeholders /\ r.chunk = d.chunk
            /\ r.inflight = d.inflight /\ r.stale = d.stale /\ r.drop = d.drop /\ r.pos = d.pos
        BY <1>5, <2>2, EvictedFields
      <3> QED
        BY <1>3, <1>5, <3>1
    <2> QED
      BY <1>11, <2>1, <2>2
  <1>7. /\ Sum(tl, id, "owed") = Sum(fl, id, "owed") /\ Sum(tl, id, "drafts") = Sum(fl, id, "drafts")
        /\ Sum(tl, id, "stale") = Sum(fl, id, "stale") - s.n
    BY <1>1, <1>3
  <1>8. num_tokens(r) = num_tokens(q) /\ All(r) = All(q)
    BY <1>6 DEF num_tokens, All
  <1>9. Counted(r, tl, id)
    <2>1. r.inflight = Sum(tl, id, "tokens") /\ r.stale = Sum(tl, id, "stale")
      BY <1>1, <1>2, <1>6, <1>7
    <2>2. r.status = "RUNNING" => (r.stale = 0 \/ r.drop) /\ r.placeholders = Sum(tl, id, "owed")
      <3>1. ASSUME q.status = "RUNNING" PROVE q.drop /\ q.placeholders = Sum(fl, id, "owed")
        <4>1. q.stale /= 0
          BY Tokens
        <4> QED
          BY <3>1, <4>1 DEF Sound, Counted
      <3> QED
        BY <1>6, <1>7, <3>1
    <2>3. r.status /= "RUNNING" => r.computed = 0 /\ r.placeholders = 0 /\ AllOld(tl, id)
      BY <1>4, <1>6 DEF Sound, Counted
    <2> QED
      BY <1>4, <2>1, <2>2, <2>3 DEF Counted
  <1>10. Answers(c, r) /\ Ordered(r) /\ (InOrder(q) => InOrder(r))
    BY <1>6, <1>8 DEF Answers, Ordered, InOrder, Sound
  <1>12. Ahead(c, q, st, id) => Ahead(c, r, st, id)
    BY <1>6, <1>8 DEF Ahead
  <1>13. Covered(q, fl, st, id) => Covered(r, tl, st, id)
    BY <1>6, <1>7 DEF Covered
  <1>14. Exact(q, st, id) => Exact(r, st, id)
    BY <1>6, <1>8 DEF Exact
  <1> QED
    BY <1>6, <1>9, <1>10, <1>12, <1>13, <1>14 DEF Sound, tl

\* An output that somebody gets is sampled for the next position.
LEMMA NextPosition ==
    ASSUME NEW c, NEW fl \in Seq(Steps), fl /= <<>>, NEW id, id \in DOMAIN Head(fl),
           \A i \in DOMAIN fl : id \in DOMAIN fl[i] => GoodShare(fl[i][id]),
           NEW st, NEW q \in Request, Sound(c, q, fl, id, st), Delivers(q)
    PROVE  LET s == Head(fl)[id]
           IN /\ s.old => q.stale > 0 /\ q.status /= "RUNNING" /\ q.stalePos = num_tokens(q)
              /\ ~s.old => q.stale = 0 /\ q.status = "RUNNING" /\ q.pos = num_tokens(q)
  <1> DEFINE s == Head(fl)[id]
  <1>1. /\ OldFirst(fl, id) /\ q.stale = Sum(fl, id, "stale")
        /\ q.status = "RUNNING" => q.stale = 0 \/ q.drop
        /\ q.status /= "RUNNING" => AllOld(fl, id)
        /\ Ordered(q)
    BY DEF Sound, Counted
  <1>2. s.old <=> q.stale > 0
    BY <1>1, HeadStale
  <1>3. q.stale \in Nat
    BY <1>1, PopWeights
  <1>4. Head(fl) = fl[1] /\ 1 \in DOMAIN fl
    OBVIOUS
  <1>5. AllOld(fl, id) => s.old
    BY <1>4 DEF AllOld
  <1> HIDE DEF s
  <1>6. CASE s.old
    <2>1. q.stale > 0 /\ q.stale /= 0 /\ ~q.drop /\ ~q.evicted
      BY <1>2, <1>3, <1>6 DEF Delivers
    <2>2. q.status /= "RUNNING"
      BY <1>1, <2>1
    <2> QED
      BY <1>1, <1>6, <2>1, <2>2 DEF Ordered, s
  <1>7. CASE ~s.old
    <2>1. q.stale = 0
      BY <1>2, <1>3, <1>7
    <2>2. q.status = "RUNNING"
      BY <1>1, <1>5, <1>7
    <2> QED
      BY <1>1, <1>7, <2>1, <2>2 DEF Ordered, s
  <1> QED
    BY <1>6, <1>7

\* Tokens of consecutive positions go to the end of an answer.
LEMMA MoreInOrder ==
    ASSUME NEW out \in Seq(Int), NEW p \in Nat, NEW kept \in Nat,
           \A i \in DOMAIN out : out[i] = p + i, NEW base \in Int, base = p + Len(out)
    PROVE  LET o == out \o [i \in 1 .. kept |-> base + i]
           IN \A i \in DOMAIN o : o[i] = p + i
  <1> DEFINE m == [i \in 1 .. kept |-> base + i]
             n == Len(out)
             o == out \o m
  <1>1. n \in Nat /\ DOMAIN out = 1 .. n
    OBVIOUS
  <1>2. m \in Seq(Int) /\ Len(m) = kept /\ \A i \in 1 .. kept : m[i] = base + i
    <2>1. m \in [1 .. kept -> Int]
      OBVIOUS
    <2> HIDE DEF m
    <2>2. m \in Seq(Int) /\ Len(m) = kept
      BY <2>1
    <2> QED
      BY <2>2 DEF m
  <1> HIDE DEF m
  <1>3. /\ DOMAIN o = 1 .. n + kept
        /\ \A i \in 1 .. n : o[i] = out[i]
        /\ \A i \in n + 1 .. n + kept : o[i] = m[i - n]
    BY <1>1, <1>2
  <1> HIDE DEF o
  <1>4. ASSUME NEW i \in 1 .. n + kept PROVE o[i] = p + i
    <2>1. CASE i \in 1 .. n
      BY <1>1, <1>3, <2>1
    <2>2. CASE i \in n + 1 .. n + kept
      <3>1. i - n \in 1 .. kept
        BY <1>1, <2>2
      <3>2. o[i] = base + (i - n)
        BY <1>2, <1>3, <2>2, <3>1
      <3> QED
        BY <1>1, <3>2
    <2> QED
      BY <1>1, <2>1, <2>2
  <1> QED
    BY <1>3, <1>4 DEF o, m

\* An output that somebody gets continues the answer.
LEMMA InOrderDelivered ==
    ASSUME conf \in Configs, NEW q \in Request, NEW s \in ShareType, NEW k \in Nat,
           NEW eos \in BOOLEAN, InOrder(q),
           (IF s.old THEN q.stalePos ELSE q.pos) = num_tokens(q)
    PROVE  InOrder(Delivered(q, s, k, eos))
  <1> DEFINE r == Delivered(q, s, k, eos)
             kept == Kept(q, k, eos)
             base == IF s.old THEN q.stalePos ELSE q.pos
  <1>1. r.prompt = q.prompt /\ r.out = q.out \o [i \in 1 .. kept |-> base + i]
    BY DeliveredFields
  <1>2. kept \in Nat
    BY KeptType
  <1>3. q.out \in Seq(Int) /\ q.prompt \in Nat /\ num_tokens(q) = q.prompt + Len(q.out)
        /\ num_tokens(q) \in Nat
    BY Tokens
  <1>4. \A i \in DOMAIN q.out : q.out[i] = q.prompt + i
    BY DEF InOrder
  <1>5. base = q.prompt + Len(q.out) /\ base \in Int
    BY <1>3
  <1> HIDE DEF r, kept, base
  <1> DEFINE out == q.out
             p == q.prompt
             o == out \o [i \in 1 .. kept |-> base + i]
  <1>6. out \in Seq(Int) /\ p \in Nat /\ base = p + Len(out) /\ \A i \in DOMAIN out : out[i] = p + i
    BY <1>3, <1>4, <1>5
  <1>7. r.out = o /\ r.prompt = p
    BY <1>1
  <1> HIDE DEF out, p
  <1>8. \A i \in DOMAIN o : o[i] = p + i
    BY <1>2, <1>5, <1>6, MoreInOrder
  <1> HIDE DEF o
  <1>9. InOrder(r)
    BY <1>7, <1>8 DEF InOrder
  <1> QED
    BY <1>9 DEF r

\* A stale output that is delivered to a request that waits for it.
LEMMA SoundDeliveredStale ==
    ASSUME conf \in Configs, NEW fl \in Seq(Steps), fl /= <<>>, NEW id, id \in DOMAIN Head(fl),
           \A i \in DOMAIN fl : id \in DOMAIN fl[i] => GoodShare(fl[i][id]),
           NEW st, NEW q \in Request, Sound(conf, q, fl, id, st), Delivers(q), Head(fl)[id].old,
           NEW k \in Nat, NEW eos \in BOOLEAN, ~Stops(q, k, eos)
    PROVE  Sound(conf, Delivered(q, Head(fl)[id], k, eos), Tail(fl), id, st)
  <1> DEFINE s == Head(fl)[id]
             tl == Tail(fl)
             r == Delivered(q, s, k, eos)
             kept == Kept(q, k, eos)
  <1>1. /\ s \in ShareType
        /\ Sum(tl, id, "tokens") = Sum(fl, id, "tokens") - s.n
        /\ Sum(tl, id, "stale") = Sum(fl, id, "stale") - (IF s.old THEN s.n ELSE 0)
    BY PopWeights
  <1>2. q.stale > 0 /\ q.status /= "RUNNING" /\ q.stalePos = num_tokens(q) /\ s.old
    BY NextPosition
  <1>3. /\ r \in Request /\ r.status = q.status /\ r.prompt = q.prompt
        /\ Len(r.out) = Len(q.out) + kept
        /\ r.computed = (IF q.stale > 0 \/ ~(q.computed > 0) THEN q.computed
                         ELSE q.computed - Rejected(s, k))
        /\ r.placeholders = (IF q.stale > 0 THEN q.placeholders
                             ELSE (IF q.placeholders > 0 THEN q.placeholders - Rejected(s, k)
                                   ELSE q.placeholders) - kept)
        /\ r.inflight = q.inflight - s.n
        /\ r.stale = (IF q.stale > 0 THEN q.stale - s.n ELSE q.stale)
        /\ r.stalePos = (IF s.old THEN q.stalePos + k ELSE q.stalePos)
    <2> HIDE DEF s
    <2> QED
      BY <1>1, DeliveredFields
  <1>4. kept = k /\ Len(q.out) + k < conf.maxTokens /\ num_tokens(q) + k < conf.modelLen
    BY KeptWhole DEF Sound
  <1>5. /\ OldFirst(fl, id) /\ q.inflight = Sum(fl, id, "tokens") /\ q.stale = Sum(fl, id, "stale")
        /\ q.computed = 0 /\ q.placeholders = 0 /\ AllOld(fl, id) /\ Answers(conf, q)
    BY <1>2 DEF Sound, Counted
  <1>6. OldFirst(tl, id) /\ AllOld(tl, id)
    BY <1>5, PopOrder
  <1>7. num_tokens(q) = q.prompt + Len(q.out) /\ q.prompt \in Nat /\ Len(q.out) \in Nat
    BY Tokens
  <1> HIDE DEF s, tl, r, kept
  <1>8. num_tokens(r) = num_tokens(q) + k
    BY <1>3, <1>4, <1>7 DEF num_tokens
  <1>9. r.inflight = Sum(tl, id, "tokens") /\ r.stale = Sum(tl, id, "stale")
    BY <1>1, <1>2, <1>3, <1>5
  <1>10. Counted(r, tl, id)
    BY <1>2, <1>3, <1>5, <1>6, <1>9 DEF Counted
  <1>11. Answers(conf, r)
    BY <1>3, <1>4, <1>5, <1>8 DEF Answers
  <1>12. Ordered(r)
    BY <1>2, <1>3, <1>8 DEF Ordered
  <1>13. r.status /= "RUNNING"
    BY <1>2, <1>3
  <1> QED
    BY <1>10, <1>11, <1>12, <1>13 DEF Sound, r, s, tl

\* An output in the current admission of a running request.
LEMMA SoundDeliveredFresh ==
    ASSUME conf \in Configs, NEW fl \in Seq(Steps), fl /= <<>>, NEW id, id \in DOMAIN Head(fl),
           \A i \in DOMAIN fl : id \in DOMAIN fl[i] => GoodShare(fl[i][id]),
           NEW st, id \notin DOMAIN st, NEW q \in Request, q.prompt >= 1,
           Sound(conf, q, fl, id, st), Delivers(q),
           ~Head(fl)[id].old, NEW k \in Nat, NEW eos \in BOOLEAN, ~Stops(q, k, eos),
           IF Head(fl)[id].samples THEN k \in 1 .. 1 + Head(fl)[id].drafts ELSE k = 0
    PROVE  Sound(conf, Delivered(q, Head(fl)[id], k, eos), Tail(fl), id, st)
  <1> DEFINE s == Head(fl)[id]
             tl == Tail(fl)
             r == Delivered(q, s, k, eos)
             kept == Kept(q, k, eos)
             x == Rejected(s, k)
             owed == IF s.old THEN 0 ELSE IF s.samples THEN 1 + s.drafts ELSE 0
             risk == IF s.old THEN 0 ELSE s.drafts
             ph == Sum(fl, id, "owed")
             dr == Sum(fl, id, "drafts")
  <1>1. /\ s \in ShareType /\ GoodShare(s)
        /\ Sum(tl, id, "tokens") = Sum(fl, id, "tokens") - s.n
        /\ Sum(tl, id, "stale") = Sum(fl, id, "stale") - (IF s.old THEN s.n ELSE 0)
        /\ Sum(tl, id, "owed") = ph - owed
        /\ Sum(tl, id, "drafts") = dr - risk
        /\ ph \in Nat /\ dr \in Nat /\ Sum(fl, id, "stale") \in Nat
        /\ Sum(tl, id, "owed") \in Nat /\ Sum(tl, id, "drafts") \in Nat
    BY PopWeights
  <1>2. q.stale = 0 /\ q.status = "RUNNING" /\ q.pos = num_tokens(q) /\ ~s.old
    BY NextPosition
  <1>3. /\ r \in Request /\ r.status = q.status /\ r.prompt = q.prompt
        /\ Len(r.out) = Len(q.out) + kept
        /\ r.computed = (IF q.stale > 0 \/ ~(q.computed > 0) THEN q.computed
                         ELSE q.computed - x)
        /\ r.placeholders = (IF q.stale > 0 THEN q.placeholders
                             ELSE (IF q.placeholders > 0 THEN q.placeholders - x
                                   ELSE q.placeholders) - kept)
        /\ r.inflight = q.inflight - s.n
        /\ r.stale = (IF q.stale > 0 THEN q.stale - s.n ELSE q.stale)
        /\ r.chunk = q.chunk /\ r.drop = q.drop
        /\ r.pos = (IF s.old THEN q.pos ELSE q.pos + k)
    <2> HIDE DEF s
    <2> QED
      BY <1>1, DeliveredFields
  <1>4. kept = k /\ Len(q.out) + k < conf.maxTokens /\ num_tokens(q) + k < conf.modelLen
    BY KeptWhole DEF Sound
  <1>5. /\ OldFirst(fl, id) /\ q.inflight = Sum(fl, id, "tokens") /\ q.stale = Sum(fl, id, "stale")
        /\ q.placeholders = ph /\ Answers(conf, q)
        /\ Ahead(conf, q, st, id) /\ Covered(q, fl, st, id) /\ Exact(q, st, id)
    BY <1>2 DEF Sound, Counted
  <1>6. OldFirst(tl, id)
    BY <1>5, PopOrder
  <1>7. /\ num_tokens(q) = q.prompt + Len(q.out) /\ q.prompt \in Nat /\ Len(q.out) \in Nat
        /\ q.computed \in Int /\ num_tokens(q) \in Nat /\ num_tokens(q) >= 1
        /\ All(q) = num_tokens(q) + q.placeholders /\ q.stale \in Int
    BY Tokens
  <1>8. conf.modelLen \in Nat
    BY Numbers
  <1>9. q.computed < All(q) /\ q.computed < conf.modelLen
    BY <1>5 DEF Ahead
  <1>10. PadsAreCovered => q.computed >= 0 /\ q.computed >= dr
    BY <1>5 DEF Covered
  <1>11. PadsAreWhole /\ ~q.chunk => q.computed = All(q) - 1
    BY <1>5 DEF Exact
  <1>12. /\ IF s.samples THEN k \in 1 .. 1 + s.drafts ELSE k = 0
         /\ id \notin DOMAIN st /\ s.drafts \in Nat /\ s.n \in Int
         /\ s.drafts > 0 => s.samples
    BY <1>1 DEF ShareType, GoodShare
  <1>13. owed = (IF s.samples THEN 1 + s.drafts ELSE 0) /\ risk = s.drafts
    BY <1>2
  <1>14. x = IF s.drafts > 0 /\ k > 0 THEN s.drafts - (k - 1) ELSE 0
    BY DEF Rejected
  <1> HIDE DEF s, tl, r, kept, x, owed, risk, ph, dr
  <1>15. x \in Nat /\ x =< s.drafts /\ x + k = owed /\ owed \in Nat
    <2>1. CASE s.samples
      <3>1. k >= 1 /\ k =< 1 + s.drafts /\ owed = 1 + s.drafts
        BY <1>12, <1>13, <2>1
      <3> QED
        BY <1>12, <1>14, <3>1
    <2>2. CASE ~s.samples
      <3>1. k = 0 /\ s.drafts = 0 /\ owed = 0
        BY <1>12, <1>13, <2>2
      <3> QED
        BY <1>14, <3>1
    <2> QED
      BY <2>1, <2>2
  <1>16. ph >= owed
    BY <1>1, <1>15
  <1>17. r.placeholders = ph - owed
    <2>1. r.placeholders = (IF ph > 0 THEN ph - x ELSE ph) - k
      BY <1>2, <1>3, <1>4, <1>5
    <2> QED
      BY <1>1, <1>15, <1>16, <2>1
  <1>18. num_tokens(r) = num_tokens(q) + k
    BY <1>3, <1>4, <1>7 DEF num_tokens
  <1>19. All(r) = All(q) - x
    <2>1. All(r) = num_tokens(q) + k + (ph - owed)
      BY <1>17, <1>18 DEF All
    <2> QED
      BY <1>1, <1>5, <1>7, <1>15, <2>1
  <1>20. r.computed = IF q.computed > 0 THEN q.computed - x ELSE q.computed
    BY <1>2, <1>3, <1>7
  <1>21. Counted(r, tl, id)
    <2>1. r.inflight = Sum(tl, id, "tokens")
      BY <1>1, <1>3, <1>5
    <2>2. r.stale = 0 /\ r.stale = Sum(tl, id, "stale")
      BY <1>1, <1>2, <1>3, <1>5
    <2>3. r.placeholders = Sum(tl, id, "owed")
      BY <1>1, <1>17
    <2> QED
      BY <1>2, <1>3, <1>6, <2>1, <2>2, <2>3 DEF Counted
  <1>22. Answers(conf, r)
    BY <1>3, <1>4, <1>5, <1>18 DEF Answers
  <1>23. Ordered(r)
    BY <1>2, <1>3, <1>18 DEF Ordered
  <1>24. Ahead(conf, r, st, id)
    <2>1. r.computed < All(r)
      <3>1. All(r) >= 1
        BY <1>1, <1>5, <1>7, <1>15, <1>16, <1>19
      <3> QED
        BY SMTT(30), <1>1, <1>5, <1>7, <1>9, <1>15, <1>19, <1>20, <3>1
    <2>2. r.computed < conf.modelLen
      BY <1>7, <1>8, <1>9, <1>15, <1>20
    <2> QED
      BY <1>12, <2>1, <2>2 DEF Ahead
  <1>25. Covered(r, tl, st, id)
    <2>1. SUFFICES ASSUME PadsAreCovered
                   PROVE  r.computed >= 0 /\ r.computed >= Sum(tl, id, "drafts")
      BY <1>12 DEF Covered
    <2>2. Sum(tl, id, "drafts") = dr - s.drafts /\ dr - s.drafts >= 0
      BY <1>1, <1>13
    <2>3. q.computed >= 0 /\ q.computed >= dr
      BY <1>10, <2>1
    <2> QED
      <3> DEFINE a == q.computed
                 b == r.computed
                 d == Sum(tl, id, "drafts")
                 e == s.drafts
      <3>1. a \in Int /\ dr \in Int /\ e \in Nat /\ x \in Nat /\ x =< e
        BY <1>1, <1>7, <1>12, <1>15
      <3>2. (a > 0 => b = a - x) /\ (~(a > 0) => b = a)
        BY <1>20
      <3>3. d = dr - e /\ dr - e >= 0 /\ a >= 0 /\ a >= dr
        BY <2>2, <2>3
      <3> HIDE DEF a, b, d, e
      <3>4. b >= 0 /\ b >= d
        BY <3>1, <3>2, <3>3
      <3> QED
        BY <3>4 DEF b, d
  <1>26. Exact(r, st, id)
    <2>1. SUFFICES ASSUME PadsAreWhole, ~r.chunk
                   PROVE  r.computed = All(r) - 1
      BY <1>12 DEF Exact
    <2>2. q.computed = All(q) - 1
      BY <1>3, <1>11, <2>1
    <2>3. q.computed >= 0 /\ q.computed >= dr
      BY <1>10, <2>1 DEF PadsAreCovered
    <2>4. dr - s.drafts >= 0
      BY <1>1, <1>13
    <2> QED
      BY SMTT(30), <1>1, <1>5, <1>7, <1>12, <1>15, <1>19, <1>20, <2>2, <2>3, <2>4
  <1> QED
    BY <1>21, <1>22, <1>23, <1>24, <1>25, <1>26 DEF Sound, r, s, tl

-----------------------------------------------------------------------------
(* Every step keeps the counters right *)

FirmShares(fl) == \A i \in DOMAIN fl : \A id \in DOMAIN fl[i] : Firm(fl[i][id])

\* The parts of the invariant.
LEMMA PipeParts ==
    ASSUME PipeInv
    PROVE  /\ FirmShares(inflight)
           /\ \A id \in Ids : InOrder(req[id])
           /\ \A id \in Live : Sound(conf, req[id], inflight, id, CurStep)
           /\ \A id : \A i \in DOMAIN inflight : id \in DOMAIN inflight[i] => GoodShare(inflight[i][id])
  BY DEF PipeInv, FirmShares, Firm

\* A step that changes some requests and is nothing to the others.
LEMMA PipeChange ==
    ASSUME PipeInv, conf' = conf, NEW ids, ids \subseteq Ids, Ids' = Ids, FirmShares(inflight'),
           \A x \in Ids \ ids : /\ req'[x] = req[x] /\ SameView(inflight, inflight', x)
                                /\ SameSeat(CurStep, CurStep', x),
           \A x \in ids : /\ InOrder(req'[x])
                          /\ \/ req'[x].status = "FINISHED"
                             \/ Sound(conf, req'[x], inflight', x, CurStep')
    PROVE  PipeInv'
  <1>1. \A x \in Ids' : InOrder(req'[x])
    BY PipeParts
  <1>2. ASSUME NEW x \in Live' PROVE Sound(conf', req'[x], inflight', x, CurStep')
    <2>1. x \in Ids /\ req'[x].status /= "FINISHED"
      BY DEF Live, is_finished
    <2>2. CASE x \in ids
      BY <2>1, <2>2
    <2>3. CASE x \notin ids
      <3>1. /\ req'[x] = req[x] /\ SameView(inflight, inflight', x)
            /\ SameSeat(CurStep, CurStep', x)
        BY <2>1, <2>3
      <3>2. x \in Live
        BY <2>1, <3>1 DEF Live, is_finished
      <3>3. Sound(conf, req[x], inflight, x, CurStep)
        BY <3>2, PipeParts
      <3>4. Sound(conf, req[x], inflight', x, CurStep')
        BY <3>1, <3>3, SoundFrame
      <3> QED
        BY <3>1, <3>4
    <2> QED
      BY <2>2, <2>3
  <1>3. \A i \in DOMAIN inflight' : \A id \in DOMAIN inflight'[i] : Firm(inflight'[i][id])
    BY DEF FirmShares
  <1> QED
    BY <1>1, <1>2, <1>3 DEF PipeInv

\* Nothing changes for a request.
LEMMA SameTo ==
    ASSUME NEW id, NEW fl, NEW st
    PROVE  SameView(fl, fl, id) /\ SameSeat(st, st, id)
  BY DEF SameView, SameSeat

\* A step that changes no request and no share.
LEMMA PipeSame ==
    ASSUME PipeInv, conf' = conf, req' = req, inflight' = inflight, CurStep' = CurStep
    PROVE  PipeInv'
  <1>1. Ids' = Ids
    BY DEF Ids
  <1>2. FirmShares(inflight')
    BY PipeParts
  <1> DEFINE ids == {}
  <1>3. \A x \in Ids \ ids : /\ req'[x] = req[x] /\ SameView(inflight, inflight', x)
                             /\ SameSeat(CurStep, CurStep', x)
    BY SameTo
  <1>4. /\ ids \subseteq Ids
        /\ \A x \in ids : /\ InOrder(req'[x])
                          /\ \/ req'[x].status = "FINISHED"
                             \/ Sound(conf, req'[x], inflight', x, CurStep')
    OBVIOUS
  <1> HIDE DEF ids
  <1> QED
    BY <1>1, <1>2, <1>3, <1>4, PipeChange

\* There is nothing to count at the start.
LEMMA PipeInit ==
    ASSUME Init
    PROVE  PipeInv
  <1>1. req = <<>> /\ inflight = <<>>
    BY DEF Init
  <1>2. Ids = {} /\ Live = {} /\ DOMAIN inflight = {}
    BY <1>1 DEF Ids, Live
  <1> QED
    BY <1>2 DEF PipeInv

\* A request arrives.
LEMMA PipeAdd ==
    ASSUME NoSessions, QueueInv, PipeInv, add_request
    PROVE  PipeInv'
  <1>1. PICK prompt \in conf.prompts, resumable \in conf.resumable :
            req' = Append(req, NewRequest(prompt, resumable))
    BY DEF add_request
  <1>2. conf' = conf /\ inflight' = inflight /\ cur' = cur
    BY DEF add_request
  <1>3. Types /\ conf \in Configs
    BY DEF QueueInv, Types
  <1>4. /\ Len(req) \in Nat /\ req \in Seq(Request) /\ chunks \in Nat /\ inflight \in Seq(Steps)
        /\ \A i \in DOMAIN inflight : DOMAIN inflight[i] \subseteq Ids
    BY <1>3 DEF Types
  <1>5. resumable = FALSE /\ prompt \in Nat
    <2>1. /\ conf.prompts \subseteq 1 .. conf.modelLen - 1 /\ conf.modelLen \in Nat
          /\ conf.resumable \subseteq BOOLEAN /\ TRUE \notin conf.resumable
      BY <1>3, Numbers DEF NoSessions
    <2>2. resumable = FALSE
      BY Zenon, <2>1
    <2> QED
      BY <2>1, <2>2
  <1> DEFINE q == NewRequest(prompt, FALSE)
             n == Len(req) + 1
  <1>6. /\ q \in Request /\ q.status = "WAITING" /\ q.prompt = prompt /\ q.out = <<>>
        /\ q.computed = 0 /\ q.placeholders = 0 /\ q.inflight = 0 /\ q.stale = 0
    BY <1>4, <1>5, NewFields
  <1>7. req' = Append(req, q)
    BY <1>1, <1>5
  <1> HIDE DEF q
  <1>8. /\ Ids' = Ids \cup {n} /\ n \notin Ids /\ req'[n] = q
        /\ \A x \in Ids : req'[x] = req[x]
    BY <1>4, <1>6, <1>7 DEF Ids
  <1>9. CurStep' = CurStep
    BY <1>2 DEF CurStep
  <1>10. Sound(conf, q, inflight, n, CurStep) /\ InOrder(q)
    <2>1. \A i \in DOMAIN inflight : n \notin DOMAIN inflight[i]
      BY <1>4, <1>8
    <2> HIDE DEF n
    <2> QED
      BY <1>3, <1>4, <1>6, <2>1, SoundNew
  <1> HIDE DEF n
  <1>11. \A x \in Ids' : InOrder(req'[x])
    BY <1>8, <1>10, PipeParts
  <1>12. ASSUME NEW x \in Live' PROVE Sound(conf, req'[x], inflight, x, CurStep)
    <2>1. CASE x = n
      BY <1>8, <1>10, <2>1
    <2>2. CASE x /= n
      <3>1. x \in Ids /\ req'[x] = req[x] /\ ~is_finished(req'[x])
        BY <1>8, <2>2 DEF Live, is_finished
      <3>2. x \in Live
        BY <3>1 DEF Live, is_finished
      <3> QED
        BY <3>1, <3>2, PipeParts
    <2> QED
      BY <2>1, <2>2
  <1> QED
    BY <1>2, <1>9, <1>11, <1>12, PipeParts DEF PipeInv, FirmShares

\* A request is aborted.
LEMMA PipeFinish ==
    ASSUME QueueInv, PipeInv, finish_requests
    PROVE  PipeInv'
  <1>1. PICK id \in Live :
            /\ Ids' = Ids /\ req'[id].status = "FINISHED"
            /\ req'[id].prompt = req[id].prompt /\ req'[id].out = req[id].out
            /\ \A x \in Ids \ {id} : req'[x] = req[x]
    BY FinishEffect
  <1>2. conf' = conf /\ inflight' = inflight /\ cur' = cur
    BY FinishEffect
  <1>3. CurStep' = CurStep
    BY <1>2 DEF CurStep
  <1>4. id \in Ids
    BY DEF Live
  <1>5. InOrder(req'[id])
    <2>1. InOrder(req[id])
      BY <1>4, PipeParts
    <2> QED
      BY <1>1, <2>1 DEF InOrder
  <1>6. FirmShares(inflight')
    BY <1>2, PipeParts
  <1> DEFINE ids == {id}
  <1>7. \A x \in Ids \ ids : /\ req'[x] = req[x] /\ SameView(inflight, inflight', x)
                             /\ SameSeat(CurStep, CurStep', x)
    BY <1>1, <1>2, <1>3, SameTo
  <1>8. /\ ids \subseteq Ids
        /\ \A x \in ids : /\ InOrder(req'[x])
                          /\ \/ req'[x].status = "FINISHED"
                             \/ Sound(conf, req'[x], inflight', x, CurStep')
    BY <1>1, <1>4, <1>5
  <1> HIDE DEF ids
  <1> QED
    BY <1>1, <1>2, <1>6, <1>7, <1>8, PipeChange

\* Stale shares stay firm.
LEMMA OutdatedFirm ==
    ASSUME NEW fl \in Seq(Steps), NEW ids, FirmShares(fl)
    PROVE  FirmShares(Outdated(fl, ids))
  <1> DEFINE gl == Outdated(fl, ids)
  <1>1. /\ DOMAIN gl = DOMAIN fl
        /\ \A i \in DOMAIN fl :
             /\ DOMAIN gl[i] = DOMAIN fl[i]
             /\ \A id \in DOMAIN fl[i] : /\ gl[i][id].n = fl[i][id].n
                                         /\ gl[i][id].drafts = fl[i][id].drafts
                                         /\ gl[i][id].samples = fl[i][id].samples
    BY OutdatedSteps
  <1> HIDE DEF gl
  <1>2. FirmShares(gl)
    BY <1>1 DEF FirmShares, Firm, GoodShare
  <1> QED
    BY <1>2 DEF gl

\* The prefix cache is reset.
LEMMA PipeReset ==
    ASSUME QueueInv, PipeInv, reset_prefix_cache
    PROVE  PipeInv'
  <1>1. /\ cur = Idle /\ cur' = Idle /\ conf' = conf /\ Ids' = Ids
        /\ \A id \in Ids : req'[id] = IF id \in RunningIds THEN _preempt_request(req[id], TRUE)
                                      ELSE req[id]
        /\ inflight' = Outdated(inflight, RunningIds)
    BY ResetEffect
  <1>2. CurStep' = CurStep
    BY <1>1 DEF CurStep
  <1>3. Types /\ inflight \in Seq(Steps) /\ RunningIds \subseteq Live /\ RunningIds \subseteq Ids
    BY LiveIds DEF QueueInv, Types, RunningIds
  <1>4. ASSUME NEW x \in RunningIds
        PROVE  InOrder(req'[x]) /\ Sound(conf, req'[x], inflight', x, CurStep')
    <2> DEFINE q == req[x]
    <2>1. q \in Request /\ q.status = "RUNNING" /\ Sound(conf, q, inflight, x, CurStep) /\ InOrder(q)
      BY <1>3, PipeParts, Requests DEF RunningIds
    <2>2. req'[x] = _preempt_request(q, TRUE) /\ TRUE \in BOOLEAN
      BY <1>1, <1>3
    <2> HIDE DEF q
    <2>3. LET r == _preempt_request(q, TRUE)
          IN Sound(conf, r, Outdated(inflight, RunningIds), x, CurStep') /\ (InOrder(q) => InOrder(r))
      BY <1>3, <2>1, <2>2, SoundPreempted
    <2> QED
      BY <1>1, <2>1, <2>2, <2>3
  <1>5. ASSUME NEW x \in Ids \ RunningIds
        PROVE  /\ req'[x] = req[x] /\ SameView(inflight, inflight', x)
               /\ SameSeat(CurStep, CurStep', x)
    BY <1>1, <1>2, <1>3, OutdatedView, SameTo
  <1>6. FirmShares(inflight')
    BY <1>1, <1>3, PipeParts, OutdatedFirm
  <1> QED
    BY <1>1, <1>3, <1>4, <1>5, <1>6, PipeChange

\* The call begins, ends a loop, or passes over a request.
LEMMA PipeLocal ==
    ASSUME QueueInv, PipeInv,
           BeginSchedule \/ EndRunning \/ EndWaiting \/ PassWaiting \/ RequeuePassed
    PROVE  PipeInv'
  <1>0. Types
    BY DEF QueueInv
  <1>1. CASE BeginSchedule
    <2>1. /\ cur = Idle /\ cur' \in CallType /\ cur'.step = <<>>
          /\ conf' = conf /\ req' = req /\ inflight' = inflight
      BY <1>0, <1>1, BeginEffect
    <2>2. cur' /= Idle
      BY <2>1, CallNotIdle
    <2>3. CurStep' = CurStep
      BY <2>1, <2>2 DEF CurStep
    <2> QED
      BY <2>1, <2>3, PipeSame
  <1>2. ASSUME cur \in CallType, cur' \in CallType, cur'.step = cur.step
        PROVE  CurStep' = CurStep
    BY <1>2, CallNotIdle DEF CurStep
  <1>3. CASE EndRunning \/ EndWaiting
    <2>1. /\ cur \in CallType /\ cur' \in CallType /\ cur'.step = cur.step
          /\ conf' = conf /\ req' = req /\ inflight' = inflight
      BY <1>0, <1>3, LocalEffect
    <2> QED
      BY <1>2, <2>1, PipeSame
  <1>4. CASE PassWaiting
    <2>1. /\ cur \in CallType /\ cur' \in CallType /\ cur'.step = cur.step
          /\ conf' = conf /\ req' = req /\ inflight' = inflight
      BY <1>4, PassEffect
    <2> QED
      BY <1>2, <2>1, PipeSame
  <1>5. CASE RequeuePassed
    <2>1. /\ cur \in CallType /\ cur' \in CallType /\ cur'.step = cur.step
          /\ conf' = conf /\ req' = req /\ inflight' = inflight
      BY <1>5, RequeueEffect
    <2> QED
      BY <1>2, <2>1, PipeSame
  <1> QED
    BY <1>1, <1>3, <1>4, <1>5

\* A share is added to the call's step: nothing to the others.
LEMMA OtherSeats ==
    ASSUME NEW st \in Steps, NEW id \in Nat, NEW share \in ShareType, NEW x, x /= id
    PROVE  SameSeat(st, With(st, id, share), x)
  <1>1. /\ DOMAIN With(st, id, share) = DOMAIN st \cup {id}
        /\ \A y \in DOMAIN st \ {id} : With(st, id, share)[y] = st[y]
    BY WithShare
  <1> QED
    BY <1>1 DEF SameSeat

\* The running loop gives a share.
LEMMA PipeGrant ==
    ASSUME QueueInv, PipeInv, ScheduleRunning
    PROVE  PipeInv'
  <1> DEFINE id == running[cur.index]
  <1>1. /\ cur.pc = "running" /\ cur.index =< Len(running) /\ cur.budget > 0
        /\ cur \in CallType /\ cur' \in CallType
        /\ Skips(id) \/ Grants(id)
        /\ conf' = conf /\ inflight' = inflight
    BY GrantEffect
  <1>2. CurStep = cur.step /\ CurStep' = cur'.step
    BY <1>1, CallNotIdle DEF CurStep
  <1>3. id \in RunningIds /\ id \in Ids /\ id \notin DOMAIN cur.step
    BY <1>1, VisitedId
  <1>4. Types /\ conf \in Configs /\ inflight \in Seq(Steps)
    BY DEF QueueInv, Types
  <1>5. id \in Live /\ req[id] \in Request /\ req[id].status = "RUNNING" /\ id \in Nat
    BY <1>3, <1>4, LiveIds, Requests DEF RunningIds
  <1>6. CASE Skips(id)
    <2>1. CurStep' = CurStep /\ req' = req
      BY <1>2, <1>6 DEF Skips
    <2> QED
      BY <1>1, <2>1, PipeSame
  <1>7. CASE Grants(id)
    <2> DEFINE q == req[id]
               n == RunningTokens(q)
               r == req'[id]
               share == Share(q, n, Drafts(q, n), q.computed)
    <2> HIDE DEF id
    <2>1. /\ ~SkipsRunning(id)
          /\ req' \in Seq(Request) /\ Len(req') = Len(req) /\ \A x \in Ids \ {id} : req'[x] = req[x]
          /\ Alike(r, q) /\ r.status = q.status /\ r.computed = q.computed
          /\ r.evicted = q.evicted /\ r.pos = q.pos
          /\ cur'.step = With(cur.step, id, share)
      BY <1>7 DEF Grants
    <2>2. Ids' = Ids /\ r \in Request
      <3>1. Ids' = Ids
        BY <2>1 DEF Ids
      <3>2. DOMAIN req' = Ids
        BY <2>1 DEF Ids
      <3> QED
        BY <1>3, <2>1, <3>1, <3>2
    <2>3. Sound(conf, q, inflight, id, CurStep) /\ InOrder(q)
      BY <1>3, <1>5, PipeParts
    <2>4. q.computed < All(q) /\ q.computed < conf.modelLen
      BY <1>2, <1>3, <1>5, <2>3 DEF Sound, Ahead
    <2>5. n > 0
      BY <1>1, <1>4, <1>5, <2>1, <2>4, RunningTokensPositive
    <2>6. /\ n \in Int
          /\ n =< num_tokens(q) + q.spec + q.placeholders - q.computed
          /\ n =< conf.modelLen - q.computed - 1
      BY <1>1, <1>4, <1>5, RunningTokensType
    <2>7. /\ q.computed \in Int /\ q.placeholders \in Int /\ q.spec \in Nat /\ num_tokens(q) \in Nat
          /\ All(q) = num_tokens(q) + q.placeholders
      BY <1>5, Tokens
    <2>8. conf.modelLen \in Nat
      BY <1>4, Numbers
    <2>9. Drafts(q, n) \in Nat
      BY <1>5, <2>6, DraftsType
    <2>10. share \in ShareType
      BY <1>5, <2>6, <2>7, <2>9, ShareFields
    <2>11. cur.step \in Steps
      BY <1>1, CallTyped DEF TypedCall
    <2>12. Sum(inflight, id, "drafts") \in Int
      BY <1>4, SumInt DEF Kinds
    <2>13. q \in Request /\ q.status = "RUNNING"
      BY <1>5
    <2> HIDE DEF q, n, r
    <2>14. n =< All(q) + q.spec - q.computed /\ n < conf.modelLen - q.computed
      BY <2>6, <2>7, <2>8
    <2>15. id \in DOMAIN CurStep' /\ CurStep'[id] = share /\ id \notin DOMAIN CurStep
      <3> DEFINE st == cur.step
      <3>1. st \in Steps /\ id \notin DOMAIN st /\ CurStep' = With(st, id, share) /\ CurStep = st
        BY <1>2, <1>3, <2>1, <2>11
      <3> HIDE DEF share, st
      <3>2. DOMAIN With(st, id, share) = DOMAIN st \cup {id} /\ With(st, id, share)[id] = share
        BY <1>5, <2>10, <3>1, WithShare
      <3> QED
        BY <3>1, <3>2
    <2>16. Sound(conf, r, inflight, id, CurStep')
      <3> DEFINE st == CurStep
                 zt == CurStep'
                 c == conf
      <3>1. /\ id \notin DOMAIN st /\ id \in DOMAIN zt /\ Sound(c, q, inflight, id, st)
            /\ zt[id] = Share(q, n, Drafts(q, n), q.computed) /\ c.modelLen \in Nat
            /\ n < c.modelLen - q.computed
        BY <2>3, <2>8, <2>14, <2>15
      <3> HIDE DEF st, zt, c
      <3>2. Sound(c, r, inflight, id, zt)
        BY <2>1, <2>2, <2>5, <2>6, <2>12, <2>13, <2>14, <3>1, SoundGranted
      <3> QED
        BY <3>2 DEF zt, c
    <2>17. InOrder(r)
      BY <2>1, <2>3 DEF InOrder, Alike
    <2> DEFINE ids == {id}
    <2>18. \A x \in Ids \ ids : /\ req'[x] = req[x] /\ SameView(inflight, inflight', x)
                                /\ SameSeat(CurStep, CurStep', x)
      <3> HIDE DEF share
      <3> QED
        BY <1>1, <1>2, <1>5, <2>1, <2>10, <2>11, SameTo, OtherSeats
    <2>19. /\ ids \subseteq Ids
           /\ \A x \in ids : /\ InOrder(req'[x])
                             /\ \/ req'[x].status = "FINISHED"
                                \/ Sound(conf, req'[x], inflight', x, CurStep')
      BY <1>1, <1>3, <2>16, <2>17 DEF r
    <2>20. FirmShares(inflight')
      BY <1>1, PipeParts
    <2> HIDE DEF ids
    <2> QED
      BY <1>1, <2>2, <2>18, <2>19, <2>20, PipeChange
  <1> QED
    BY <1>1, <1>6, <1>7

\* The last running request gives way.
LEMMA PipePreempt ==
    ASSUME QueueInv, PipeInv, PreemptRunning
    PROVE  PipeInv'
  <1> DEFINE victim == Last(running)
  <1>1. /\ cur.pc = "running" /\ cur.index =< Len(running)
        /\ cur \in CallType /\ cur' \in CallType /\ cur'.step = cur.step
        /\ Ids' = Ids
        /\ req'[victim] = _preempt_request(req[victim], FALSE)
        /\ \A x \in Ids \ {victim} : req'[x] = req[x]
        /\ inflight' = Outdated(inflight, {victim}) /\ conf' = conf
    BY PreemptEffect
  <1>2. CurStep' = CurStep
    BY <1>1, CallNotIdle DEF CurStep
  <1>3. victim \in RunningIds
    BY <1>1, VisitedId
  <1>4. Types /\ inflight \in Seq(Steps)
    BY DEF QueueInv, Types
  <1>5. victim \in Live /\ victim \in Ids /\ req[victim] \in Request /\ req[victim].status = "RUNNING"
    BY <1>3, <1>4, LiveIds, Requests DEF RunningIds
  <1>6. Sound(conf, req[victim], inflight, victim, CurStep) /\ InOrder(req[victim])
    BY <1>5, PipeParts
  <1> HIDE DEF victim
  <1> DEFINE ids == {victim}
             q == req[victim]
  <1>7. victim \in ids /\ q \in Request /\ q.status = "RUNNING" /\ InOrder(q) /\ FALSE \in BOOLEAN
        /\ Sound(conf, q, inflight, victim, CurStep)
    BY <1>5, <1>6
  <1>8. inflight' = Outdated(inflight, ids) /\ req'[victim] = _preempt_request(q, FALSE)
    BY <1>1
  <1>9. \A x \in Ids \ ids : req'[x] = req[x] /\ x \notin ids
    BY <1>1
  <1>10. ids \subseteq Ids /\ \A x \in ids : x = victim
    BY <1>5
  <1> HIDE DEF ids, q
  <1>11. LET r == _preempt_request(q, FALSE)
         IN Sound(conf, r, Outdated(inflight, ids), victim, CurStep') /\ (InOrder(q) => InOrder(r))
    BY <1>4, <1>7, SoundPreempted
  <1>12. \A x \in ids : InOrder(req'[x]) /\ Sound(conf, req'[x], inflight', x, CurStep')
    BY <1>7, <1>8, <1>10, <1>11
  <1>13. \A x \in Ids \ ids : /\ req'[x] = req[x] /\ SameView(inflight, inflight', x)
                              /\ SameSeat(CurStep, CurStep', x)
    BY <1>2, <1>4, <1>8, <1>9, OutdatedView, SameTo
  <1>14. FirmShares(inflight')
    BY <1>4, <1>8, PipeParts, OutdatedFirm
  <1> QED
    BY <1>1, <1>10, <1>12, <1>13, <1>14, PipeChange

\* A waiting request is admitted, or stops the loop.
LEMMA PipeAdmit ==
    ASSUME PadsHaveRoom, QueueInv, PipeInv, AdmitWaiting
    PROVE  PipeInv'
  <1> DEFINE id == Candidate
             q == req[id]
  <1>1. /\ cur.pc = "waiting" /\ WaitingLoop /\ cur \in CallType /\ cur' \in CallType
        /\ ~MustPass(q)
        /\ \/ StopsAt(id)
           \/ \E computed \in Nat : computed < num_tokens(q) /\ Admits(id, computed)
        /\ conf' = conf /\ inflight' = inflight
    BY AdmitEffect
  <1>2. CurStep = cur.step /\ CurStep' = cur'.step
    BY <1>1, CallNotIdle DEF CurStep
  <1>3. Types /\ conf \in Configs /\ inflight \in Seq(Steps)
    BY DEF QueueInv, Types
  <1>4. id \in WaitingIds
    BY <1>1, CandidateId
  <1>5. id \in Live /\ id \in Ids /\ q \in Request /\ q.status /= "RUNNING" /\ id \in Nat
    BY <1>3, <1>4, LiveIds, Requests DEF WaitingIds
  <1>6. Sound(conf, q, inflight, id, CurStep) /\ InOrder(q)
    BY <1>5, PipeParts
  <1>7. CASE StopsAt(id)
    <2>1. CurStep' = CurStep /\ req' = req
      BY <1>2, <1>7 DEF StopsAt
    <2> QED
      BY <1>1, <2>1, PipeSame
  <1>8. CASE \E computed \in Nat : computed < num_tokens(q) /\ Admits(id, computed)
    <2>1. PICK computed \in Nat : computed < num_tokens(q) /\ Admits(id, computed)
      BY <1>8
    <2> DEFINE n == WaitingTokens(q, computed)
               pads == Pads(q, computed)
               d == IF pads THEN conf.spec ELSE 0
               r == req'[id]
               share == Share(q, n, d, computed)
    <2>2. /\ n > 0
          /\ req' \in Seq(Request) /\ Len(req') = Len(req) /\ \A x \in Ids \ {id} : req'[x] = req[x]
          /\ Alike(r, q) /\ r.status = "RUNNING" /\ r.computed = computed
          /\ r.pos = num_tokens(q)
          /\ cur'.step = With(cur.step, id, share)
      <3> HIDE DEF id
      <3> QED
        BY <2>1 DEF Admits
    <2>3. /\ n \in Int /\ num_tokens(q) \in Nat
          /\ ~pads => n =< num_tokens(q) - computed
          /\ pads => /\ n =< 1 + conf.spec /\ num_tokens(q) = computed + 1
                     /\ n > 0 /\ PadsAreWhole => n = 1 + conf.spec
      BY <1>1, <1>3, <1>5, <2>1, WaitingTokensType
    <2>4. pads \in BOOLEAN /\ (pads => conf.padding)
      BY DEF Pads
    <2>5. conf.spec \in Nat /\ conf.padding \in BOOLEAN
      BY <1>3, Numbers
    <2>6. q.stale = 0 \/ q.drop
      <3>1. q.stale \in Nat
        <4>1. q.stale = Sum(inflight, id, "stale")
          BY <1>6 DEF Sound, Counted
        <4>2. \A i \in DOMAIN inflight : id \in DOMAIN inflight[i] => GoodShare(inflight[i][id])
          BY PipeParts
        <4> HIDE DEF id
        <4>3. Sum(inflight, id, "stale") \in Nat
          BY <1>3, <4>2, SumNat DEF Kinds
        <4> QED
          BY <4>1, <4>3
      <3> QED
        BY <1>1, <3>1 DEF MustPass
    <2>7. Sum(inflight, id, "owed") = 0 /\ Sum(inflight, id, "drafts") = 0
      <3>1. AllOld(inflight, id)
        BY <1>5, <1>6 DEF Sound, Counted
      <3>2. \A i \in DOMAIN inflight : id \in DOMAIN inflight[i] => GoodShare(inflight[i][id])
        BY PipeParts
      <3> HIDE DEF id
      <3> QED
        BY <1>3, <3>1, <3>2, AllStale
    <2>8. Ids' = Ids /\ r \in Request
      <3>1. Ids' = Ids
        BY <2>2 DEF Ids
      <3>2. DOMAIN req' = Ids
        BY <2>2 DEF Ids
      <3> QED
        BY <1>5, <2>2, <3>1, <3>2
    <2>9. cur.step \in Steps
      BY <1>1, CallTyped DEF TypedCall
    <2> HIDE DEF id, q, n, pads, r
    <2>10. d \in Nat
      BY <2>5
    <2>11. share \in ShareType
      <3> HIDE DEF d
      <3> QED
        BY <1>5, <2>1, <2>3, <2>10, ShareFields
    <2>12. id \in DOMAIN CurStep' /\ CurStep'[id] = share
      <3> DEFINE st == cur.step
      <3>1. st \in Steps /\ CurStep' = With(st, id, share)
        BY <1>2, <2>2, <2>9
      <3> HIDE DEF share, st
      <3>2. DOMAIN With(st, id, share) = DOMAIN st \cup {id} /\ With(st, id, share)[id] = share
        BY <1>5, <2>11, <3>1, WithShare
      <3> QED
        BY <3>1, <3>2
    <2>13. Sound(conf, r, inflight, id, CurStep')
      <3> DEFINE st == CurStep
                 zt == CurStep'
                 c == conf
      <3>1. /\ c \in Configs /\ id \in DOMAIN zt /\ Sound(c, q, inflight, id, st)
            /\ zt[id] = Share(q, n, d, computed) /\ d = IF pads THEN c.spec ELSE 0
            /\ pads => c.padding /\ n =< 1 + c.spec /\ num_tokens(q) = computed + 1
            /\ pads /\ PadsAreWhole => n = 1 + c.spec
        BY <1>3, <1>6, <2>2, <2>3, <2>4, <2>12
      <3> HIDE DEF st, zt, c, d
      <3>2. Sound(c, r, inflight, id, zt)
        BY <1>5, <2>1, <2>2, <2>3, <2>4, <2>6, <2>7, <2>8, <2>10, <3>1, SoundAdmitted
      <3> QED
        BY <3>2 DEF zt, c
    <2>14. InOrder(r)
      BY <1>6, <2>2 DEF InOrder, Alike
    <2> DEFINE ids == {id}
    <2>15. \A x \in Ids \ ids : /\ req'[x] = req[x] /\ SameView(inflight, inflight', x)
                                /\ SameSeat(CurStep, CurStep', x)
      <3> HIDE DEF share
      <3> QED
        BY <1>1, <1>2, <1>5, <2>2, <2>9, <2>11, SameTo, OtherSeats
    <2>16. /\ ids \subseteq Ids
           /\ \A x \in ids : /\ InOrder(req'[x])
                             /\ \/ req'[x].status = "FINISHED"
                                \/ Sound(conf, req'[x], inflight', x, CurStep')
      BY <1>1, <1>5, <2>13, <2>14 DEF r
    <2>17. FirmShares(inflight')
      BY <1>1, PipeParts
    <2> HIDE DEF ids
    <2> QED
      BY <1>1, <2>8, <2>15, <2>16, <2>17, PipeChange
  <1> QED
    BY <1>1, <1>7, <1>8

\* The call returns its step.
LEMMA PipeReturn ==
    ASSUME QueueInv, PipeInv, ReturnStep
    PROVE  PipeInv'
  <1> DEFINE st == cur.step
             ids == DOMAIN st
  <1>1. /\ cur \in CallType /\ cur' = Idle /\ Ids' = Ids /\ conf' = conf
        /\ \A id \in Ids : req'[id] = IF id \in ids
                                      THEN _update_after_schedule(req[id], st[id])
                                      ELSE req[id]
        /\ inflight' = IF ids = {} THEN inflight ELSE Append(inflight, st)
    BY ReturnEffect
  <1>2. CurStep = st /\ CurStep' = <<>> /\ cur /= Idle
    BY <1>1, CallNotIdle DEF CurStep
  <1>3. Types /\ conf \in Configs /\ inflight \in Seq(Steps)
    BY DEF QueueInv, Types
  <1>4. st \in Steps
    BY <1>1, CallTyped DEF TypedCall
  <1>5. ids \subseteq RunningIds /\ \A id \in ids : ~st[id].old
    BY <1>2 DEF QueueInv, Called
  <1>6. ids \subseteq Ids /\ ids \subseteq Live
    BY <1>3, <1>5, LiveIds DEF RunningIds
  <1> HIDE DEF st
  <1>7. ASSUME NEW x \in ids
        PROVE  /\ InOrder(req'[x]) /\ Sound(conf, req'[x], inflight', x, CurStep')
               /\ Firm(st[x])
    <2> DEFINE q == req[x]
               zt == <<>>
    <2>1. q \in Request /\ q.status = "RUNNING" /\ Sound(conf, q, inflight, x, st) /\ InOrder(q)
      BY <1>2, <1>3, <1>5, <1>6, PipeParts, Requests DEF RunningIds
    <2>2. req'[x] = _update_after_schedule(q, st[x]) /\ inflight' = Append(inflight, st)
      BY <1>1, <1>6
    <2>3. x \notin DOMAIN zt /\ CurStep' = zt /\ ~st[x].old
      BY <1>2, <1>5
    <2>4. Firm(st[x])
      BY <2>1 DEF Sound, Ahead
    <2> HIDE DEF q, zt
    <2>5. LET r == _update_after_schedule(q, st[x])
          IN Sound(conf, r, Append(inflight, st), x, zt) /\ (InOrder(q) => InOrder(r))
      BY <1>3, <1>4, <2>1, <2>3, SoundReturned
    <2> QED
      BY <2>1, <2>2, <2>3, <2>4, <2>5
  <1>8. ASSUME NEW x \in Ids \ ids
        PROVE  /\ req'[x] = req[x] /\ SameView(inflight, inflight', x)
               /\ SameSeat(CurStep, CurStep', x)
    <2>1. SameSeat(st, <<>>, x)
      BY DEF SameSeat
    <2>2. SameView(inflight, inflight, x) /\ SameView(inflight, Append(inflight, st), x)
      BY <1>3, <1>4, PushView, SameTo
    <2> QED
      BY <1>1, <1>2, <2>1, <2>2
  <1>9. FirmShares(inflight')
    <2>1. FirmShares(inflight)
      BY PipeParts
    <2>2. CASE ids = {}
      BY <1>1, <2>1, <2>2
    <2>3. CASE ids /= {}
      <3> DEFINE a == Append(inflight, st)
                 n == Len(inflight)
      <3>1. /\ n \in Nat /\ DOMAIN inflight = 1 .. n /\ DOMAIN a = 1 .. n + 1 /\ a[n + 1] = st
            /\ \A i \in 1 .. n : a[i] = inflight[i]
        BY <1>3, <1>4
      <3> HIDE DEF a, n
      <3>2. ASSUME NEW i \in DOMAIN a, NEW x \in DOMAIN a[i] PROVE Firm(a[i][x])
        <4>1. CASE i = n + 1
          BY <1>7, <3>1, <4>1
        <4>2. CASE i \in 1 .. n
          BY <2>1, <3>1, <4>2 DEF FirmShares
        <4> QED
          BY <3>1, <4>1, <4>2
      <3>3. FirmShares(a)
        BY <3>2 DEF FirmShares
      <3> QED
        BY <1>1, <2>3, <3>3 DEF a
    <2> QED
      BY <2>2, <2>3
  <1> HIDE DEF ids
  <1> QED
    BY <1>1, <1>6, <1>7, <1>8, <1>9, PipeChange

\* What the oldest output does to a request that has a share in it.
LEMMA PipeOutcome ==
    ASSUME QueueInv, PipeInv, cur = Idle, cur' = Idle, inflight /= <<>>,
           NEW id \in DOMAIN Head(inflight), NEW k \in Nat, NEW eos \in BOOLEAN,
           NEW stopped \in BOOLEAN, Outcome(id, k, eos, stopped),
           IF Head(inflight)[id].samples THEN k \in 1 .. 1 + Head(inflight)[id].drafts ELSE k = 0,
           req'[id] \in Request
    PROVE  /\ InOrder(req'[id])
           /\ \/ req'[id].status = "FINISHED"
              \/ Sound(conf, req'[id], Tail(inflight), id, CurStep')
  <1> DEFINE q == req[id]
             s == Head(inflight)[id]
             r == req'[id]
             zt == CurStep'
             fl == inflight
             tl == Tail(inflight)
  <1>1. Types /\ conf \in Configs /\ fl \in Seq(Steps) /\ fl /= <<>> /\ id \in DOMAIN Head(fl)
    BY DEF QueueInv, Types
  <1>2. id \in Ids /\ q \in Request /\ s \in ShareType /\ q.prompt >= 1 /\ r \in Request
    BY <1>1, HeadStep, Requests DEF QueueInv, Unstarted
  <1>3. zt = <<>> /\ CurStep = <<>> /\ id \notin DOMAIN zt
    BY DEF CurStep
  <1>4. \A i \in DOMAIN fl : id \in DOMAIN fl[i] => GoodShare(fl[i][id])
    BY PipeParts
  <1>5. InOrder(q)
    BY <1>2, PipeParts
  <1>6. q.status /= "FINISHED" => Sound(conf, q, fl, id, zt)
    <2>1. q.status /= "FINISHED" => id \in Live
      BY <1>1, <1>2, Requests
    <2> QED
      BY <1>3, <2>1, PipeParts
  <1>7. \/ q.status = "FINISHED" /\ r = q
        \/ /\ q.status /= "FINISHED" /\ q.stale > 0
           /\ \/ ~q.drop /\ r = [Drained(q, s, k) EXCEPT !.evicted = TRUE]
              \/ q.drop /\ r = Drained(q, s, k)
        \/ /\ q.status /= "FINISHED" /\ Delivers(q)
           /\ \/ r = _free_request(Delivered(q, s, k, eos))
              \/ ~Stops(q, k, eos) /\ r = Delivered(q, s, k, eos)
    BY DEF Outcome
  <1>8. IF s.samples THEN k \in 1 .. 1 + s.drafts ELSE k = 0
    OBVIOUS
  <1>9. s = Head(fl)[id] /\ tl = Tail(fl)
    OBVIOUS
  <1> HIDE DEF q, s, r, zt, fl, tl
  <1>10. CASE q.status = "FINISHED" /\ r = q
    BY <1>5, <1>10 DEF r
  <1>11. CASE /\ q.status /= "FINISHED" /\ q.stale > 0
              /\ \/ ~q.drop /\ r = [Drained(q, s, k) EXCEPT !.evicted = TRUE]
                 \/ q.drop /\ r = Drained(q, s, k)
    <2>1. (q.drop /\ r = Drained(q, Head(fl)[id], k))
            \/ r = [Drained(q, Head(fl)[id], k) EXCEPT !.evicted = TRUE]
      BY <1>9, <1>11
    <2> DEFINE c == conf
    <2>2. Sound(c, q, fl, id, zt)
      BY <1>6, <1>11
    <2> HIDE DEF c
    <2>3. Sound(c, r, Tail(fl), id, zt) /\ (InOrder(q) => InOrder(r))
      BY <1>1, <1>2, <1>3, <1>4, <1>11, <2>1, <2>2, SoundDrained
    <2> QED
      BY <1>5, <1>9, <2>3 DEF r, tl, zt, c, fl
  <1>12. CASE /\ q.status /= "FINISHED" /\ Delivers(q)
              /\ \/ r = _free_request(Delivered(q, s, k, eos))
                 \/ ~Stops(q, k, eos) /\ r = Delivered(q, s, k, eos)
    <2> DEFINE d == Delivered(q, s, k, eos)
    <2>1. Sound(conf, q, fl, id, zt) /\ Delivers(q)
      BY <1>6, <1>12
    <2>2. /\ s.old => q.stale > 0 /\ q.status /= "RUNNING" /\ q.stalePos = num_tokens(q)
          /\ ~s.old => q.stale = 0 /\ q.status = "RUNNING" /\ q.pos = num_tokens(q)
      BY <1>1, <1>2, <1>4, <1>9, <2>1, NextPosition
    <2>3. InOrder(d)
      BY <1>1, <1>2, <1>5, <2>2, InOrderDelivered
    <2>4. d \in Request
      BY <1>1, <1>2, DeliveredFields
    <2>5. CASE r = _free_request(d)
      <3> HIDE DEF d
      <3>1. r.status = "FINISHED" /\ r.out = d.out /\ r.prompt = d.prompt
        BY <2>4, <2>5, FreeFields
      <3> QED
        BY <2>3, <3>1 DEF InOrder, r
    <2>6. CASE ~Stops(q, k, eos) /\ r = d
      <3>1. Sound(conf, d, Tail(fl), id, zt)
        <4>1. CASE s.old
          BY <1>1, <1>2, <1>4, <1>9, <2>1, <2>6, <4>1, SoundDeliveredStale
        <4>2. CASE ~s.old
          BY <1>1, <1>2, <1>3, <1>4, <1>8, <1>9, <2>1, <2>6, <4>2, SoundDeliveredFresh
        <4> QED
          BY <4>1, <4>2
      <3> HIDE DEF d
      <3> QED
        BY <1>9, <2>3, <2>6, <3>1 DEF r, tl, zt, fl
    <2> QED
      BY <1>12, <2>5, <2>6
  <1> QED
    BY <1>7, <1>10, <1>11, <1>12

\* The output of the oldest step.
LEMMA PipeOutput ==
    ASSUME QueueInv, PipeInv, update_from_output
    PROVE  PipeInv'
  <1> DEFINE ids == DOMAIN Head(inflight)
  <1>1. cur = Idle /\ cur' = Idle /\ inflight /= <<>> /\ inflight' = Tail(inflight) /\ conf' = conf
    BY OutputEffect
  <1>2. PICK k \in [ids -> Nat], eos \in SUBSET ids, stopped \in SUBSET ids :
                   /\ \A id \in ids :
                        /\ Outcome(id, k[id], id \in eos, id \in stopped)
                        /\ IF Head(inflight)[id].samples
                           THEN k[id] \in 1 .. 1 + Head(inflight)[id].drafts ELSE k[id] = 0
                   /\ req' \in Seq(Request) /\ Len(req') = Len(req) /\ Ids' = Ids
                   /\ \A id \in Ids \ ids : req'[id] = req[id]
    BY Zenon, OutputEffect
  <1>3. Types /\ inflight \in Seq(Steps)
    BY DEF QueueInv, Types
  <1>4. ids \subseteq Ids
    BY <1>1, <1>3, HeadStep
  <1>5. \A x \in Ids : req'[x] \in Request
    <2>1. DOMAIN req' = Ids
      BY <1>2 DEF Ids
    <2> QED
      BY <1>2, <2>1
  <1>6. ASSUME NEW x \in ids
        PROVE  /\ InOrder(req'[x])
               /\ \/ req'[x].status = "FINISHED"
                  \/ Sound(conf, req'[x], inflight', x, CurStep')
    <2> DEFINE n == k[x]
               e == x \in eos
               h == x \in stopped
    <2>1. /\ n \in Nat /\ e \in BOOLEAN /\ h \in BOOLEAN /\ Outcome(x, n, e, h)
          /\ IF Head(inflight)[x].samples THEN n \in 1 .. 1 + Head(inflight)[x].drafts ELSE n = 0
          /\ req'[x] \in Request
      BY <1>2, <1>4, <1>5
    <2> HIDE DEF n, e, h
    <2>2. /\ InOrder(req'[x])
          /\ \/ req'[x].status = "FINISHED"
             \/ Sound(conf, req'[x], Tail(inflight), x, CurStep')
      BY <1>1, <2>1, PipeOutcome
    <2> QED
      BY <1>1, <2>2
  <1>7. ASSUME NEW x \in Ids \ ids
        PROVE  /\ req'[x] = req[x] /\ SameView(inflight, inflight', x)
               /\ SameSeat(CurStep, CurStep', x)
    <2>1. CurStep' = CurStep
      BY <1>1 DEF CurStep
    <2>2. SameView(inflight, Tail(inflight), x)
      BY <1>1, <1>3, PopView
    <2> QED
      BY <1>1, <1>2, <2>1, <2>2, SameTo
  <1>8. FirmShares(inflight')
    <2> DEFINE tl == Tail(inflight)
               n == Len(inflight)
    <2>1. n \in Nat /\ n >= 1 /\ DOMAIN inflight = 1 .. n
      BY <1>1, <1>3
    <2>2. DOMAIN tl = 1 .. n - 1 /\ \A i \in 1 .. n - 1 : tl[i] = inflight[i + 1]
      BY <1>1, <1>3, <2>1
    <2> HIDE DEF tl, n
    <2>3. ASSUME NEW i \in DOMAIN tl PROVE i + 1 \in DOMAIN inflight /\ tl[i] = inflight[i + 1]
      BY <2>1, <2>2
    <2>4. FirmShares(tl)
      BY <2>3, PipeParts DEF FirmShares
    <2> QED
      BY <1>1, <2>4 DEF tl
  <1> HIDE DEF ids
  <1> QED
    BY <1>1, <1>2, <1>4, <1>6, <1>7, <1>8, PipeChange

\* A step of the scheduler keeps the counters right.
LEMMA PipeStep ==
    ASSUME NoSessions, PadsHaveRoom, QueueInv, PipeInv, [Next]_vars
    PROVE  PipeInv'
  <1>1. CASE add_request
    BY <1>1, PipeAdd
  <1>2. CASE add_session_input
    <2>1. PICK id \in Live : req[id].resumable
      BY <1>2 DEF add_session_input
    <2>2. req[id] \in Request
      BY QueueParts, Requests
    <2> QED
      BY <2>1, <2>2, RequestTyped DEF Typed
  <1>3. CASE finish_requests
    BY <1>3, PipeFinish
  <1>4. CASE set_pause_state \/ UNCHANGED vars
    <2>1. conf' = conf /\ req' = req /\ inflight' = inflight /\ cur' = cur
      BY <1>4 DEF set_pause_state, vars, queues, env
    <2>2. CurStep' = CurStep
      BY <2>1 DEF CurStep
    <2> QED
      BY <2>1, <2>2, PipeSame
  <1>5. CASE reset_prefix_cache
    BY <1>5, PipeReset
  <1>6. CASE BeginSchedule \/ EndRunning \/ EndWaiting \/ PassWaiting \/ RequeuePassed
    BY <1>6, PipeLocal
  <1>7. CASE ScheduleRunning
    BY <1>7, PipeGrant
  <1>8. CASE PreemptRunning
    BY <1>8, PipePreempt
  <1>9. CASE AdmitWaiting
    BY <1>9, PipeAdmit
  <1>10. CASE ReturnStep
    BY <1>10, PipeReturn
  <1>11. CASE update_from_output
    BY <1>11, PipeOutput
  <1> QED
    BY <1>1, <1>2, <1>3, <1>4, <1>5, <1>6, <1>7, <1>8, <1>9, <1>10, <1>11
    DEF Next, schedule

\* The counters of every reachable state are right.
LEMMA PipeAlways ==
    ASSUME NoSessions, PadsHaveRoom
    PROVE  Spec => [](QueueInv /\ PipeInv)
  <1>1. Init => QueueInv /\ PipeInv
    BY QueueInit, PipeInit
  <1>2. QueueInv /\ PipeInv /\ [Next]_vars => QueueInv' /\ PipeInv'
    BY QueueStep, PipeStep
  <1> QED
    BY <1>1, <1>2, PTL DEF Spec

\* Whatever is preempted, reset, resumed, dropped or evicted while its steps are
\* in flight, update_from_output() appends to an answer only the token that was
\* sampled for that position: each is delivered once and in order.
THEOREM InOrderAlways ==
    ASSUME NoSessions, PadsHaveRoom
    PROVE  Spec => []DeliveredInOrder
  <1>1. QueueInv /\ PipeInv => DeliveredInOrder
    BY DEF PipeInv, InOrder, DeliveredInOrder
  <1> QED
    BY <1>1, PipeAlways, PTL

\* What a request has in flight, as CountersMatchPipeline adds it up.
LEMMA SharesSum ==
    ASSUME NEW id, inflight \in Seq(Steps)
    PROVE  LET n == [i \in Shares(id) |-> inflight[i][id].n]
           IN /\ Total(n, Shares(id)) = Sum(inflight, id, "tokens")
              /\ Total(n, {i \in Shares(id) : inflight[i][id].old}) = Sum(inflight, id, "stale")
  <1> DEFINE n == [i \in Shares(id) |-> inflight[i][id].n]
             olds == {i \in Shares(id) : inflight[i][id].old}
             all == Shares(id)
             dom == DOMAIN inflight
             w == Weights(inflight, id, "tokens")
             v == Weights(inflight, id, "stale")
  <1>1. /\ dom = 1 .. Len(inflight) /\ Len(inflight) \in Nat
        /\ \A i \in dom : inflight[i] \in Steps
    OBVIOUS
  <1>2. IsFiniteSet(dom) /\ all \in SUBSET dom /\ olds \in SUBSET dom
    BY <1>1, FS_Interval DEF Shares
  <1>3. DOMAIN w = dom /\ DOMAIN v = dom
    BY DEF Weights
  <1>4. \A i \in all : inflight[i][id] \in ShareType
    BY <1>1, StepShares DEF Shares
  <1>5. \A i \in all : n[i] \in Int /\ w[i] = n[i] /\ v[i] = IF i \in olds THEN n[i] ELSE 0
    BY <1>4 DEF Shares, Weights, Weigh, ShareType
  <1>6. \A i \in dom \ all : w[i] = 0 /\ v[i] = 0
    BY DEF Shares, Weights
  <1>7. \A i \in olds : i \in all
    OBVIOUS
  <1>10. Sum(inflight, id, "tokens") = SumOver(w, dom) /\ Sum(inflight, id, "stale") = SumOver(v, dom)
    BY <1>3 DEF Sum, SumSeq
  <1>11. Total(n, all) = SumOver(n, all) /\ Total(n, olds) = SumOver(n, olds)
    BY DEF Total, SumOver
  <1> HIDE DEF n, olds, all, dom, w, v
  <1>8. SumOver(n, all) = SumOver(w, dom)
    BY <1>2, <1>5, <1>6, SumFilter
  <1>9. SumOver(n, olds) = SumOver(v, dom)
    <2>1. \A i \in olds : n[i] \in Int /\ v[i] = n[i]
      BY <1>5, <1>7
    <2>2. \A i \in dom \ olds : v[i] = 0
      BY <1>5, <1>6
    <2> QED
      BY <1>2, <2>1, <2>2, SumFilter
  <1> QED
    BY <1>8, <1>9, <1>10, <1>11 DEF n, olds, all

\* num_in_flight_tokens of every unfinished request is what the pipeline holds of
\* it, and num_stale_output_tokens exactly the part that predates its last
\* preemption, however often it is preempted while older steps drain.
THEOREM CountersAlwaysMatch ==
    ASSUME NoSessions, PadsHaveRoom
    PROVE  Spec => []CountersMatchPipeline
  <1>1. ASSUME QueueInv, PipeInv PROVE CountersMatchPipeline
    <2>1. ASSUME NEW id \in Live
          PROVE  /\ req[id].inflight = Sum(inflight, id, "tokens")
                 /\ req[id].stale = Sum(inflight, id, "stale")
      BY <1>1, PipeParts DEF Sound, Counted
    <2>2. inflight \in Seq(Steps)
      BY <1>1 DEF QueueInv, Types
    <2> QED
      BY <2>1, <2>2, SharesSum DEF CountersMatchPipeline
  <1>2. QueueInv /\ PipeInv => CountersMatchPipeline
    BY <1>1
  <1> QED
    BY <1>2, PipeAlways, PTL

\* When nothing is in flight for a running request, no placeholder is left and all
\* but its last token are computed: no accepted or rejected draft is counted
\* wrongly.  (Needs that no padded decode is cut: see PadsAreWhole.)
THEOREM SettledAlways ==
    ASSUME NoSessions, PadsHaveRoom, PadsAreWhole
    PROVE  Spec => []SettledWhenDrained
  <1>1. ASSUME QueueInv, PipeInv, NEW id \in Ids, cur = Idle, req[id].status = "RUNNING",
               req[id].inflight = 0
        PROVE  /\ req[id].placeholders = 0
               /\ IF req[id].chunk THEN req[id].computed < num_tokens(req[id])
                  ELSE req[id].computed = num_tokens(req[id]) - 1
    <2> DEFINE q == req[id]
    <2>1. inflight \in Seq(Steps) /\ CurStep = <<>> /\ id \in Live
      BY <1>1 DEF QueueInv, Types, CurStep, Live, is_finished
    <2>2. q \in Request
      BY <1>1, QueueParts, Requests
    <2>3. Sound(conf, q, inflight, id, <<>>)
      BY <1>1, <2>1, PipeParts
    <2>4. \A i \in DOMAIN inflight : id \in DOMAIN inflight[i] => GoodShare(inflight[i][id])
      BY <1>1, PipeParts
    <2>5. Sum(inflight, id, "tokens") = 0 /\ q.placeholders = Sum(inflight, id, "owed")
      BY <1>1, <2>3 DEF Sound, Counted
    <2>6. \A i \in DOMAIN inflight : id \notin DOMAIN inflight[i]
      <3>1. \A i \in DOMAIN inflight : id \in DOMAIN inflight[i] => Weigh(inflight[i][id], "tokens") = 0
        BY <2>1, <2>4, <2>5, SumNat DEF Kinds
      <3> QED
        BY <2>4, <3>1 DEF Weigh, GoodShare
    <2>7. q.placeholders = 0
      BY <2>1, <2>5, <2>6, NoShares DEF Kinds
    <2>8. num_tokens(q) \in Nat /\ All(q) = num_tokens(q)
      BY <2>2, <2>7, Tokens
    <2>9. id \notin DOMAIN <<>>
      OBVIOUS
    <2>10. q.computed < All(q) /\ (~q.chunk => q.computed = All(q) - 1)
      BY <1>1, <2>3, <2>9 DEF Sound, Ahead, Exact
    <2> QED
      BY <2>7, <2>8, <2>10
  <1>2. QueueInv /\ PipeInv => SettledWhenDrained
    BY <1>1 DEF SettledWhenDrained
  <1> QED
    BY <1>2, PipeAlways, PTL

\* Every share in flight holds the sampled token besides its drafts.  The run
\* sched_pad shows the opposite for the deployed combination, a uniform padding
\* under the decode-aware budget, which PadsAreWhole leaves out.
THEOREM WholeShares ==
    ASSUME NoSessions, PadsHaveRoom, PadsAreWhole
    PROVE  Spec => []DraftsFitShare
  <1>1. ASSUME QueueInv, PipeInv, NEW i \in DOMAIN inflight, NEW id \in DOMAIN inflight[i]
        PROVE  inflight[i][id].n > inflight[i][id].drafts
    <2>1. inflight[i][id].drafts < inflight[i][id].n
      BY <1>1 DEF PipeInv, Firm
    <2>2. inflight \in Seq(Steps)
      BY <1>1 DEF QueueInv, Types
    <2>3. inflight[i][id] \in ShareType
      BY <1>1, <2>2, StepShares
    <2> QED
      BY <2>1, <2>3 DEF ShareType
  <1>2. QueueInv /\ PipeInv => DraftsFitShare
    BY <1>1 DEF DraftsFitShare
  <1> QED
    BY <1>2, PipeAlways, PTL

-----------------------------------------------------------------------------
(* The limits hold *)

\* A finished request counts nothing.
Zero(q) == q.computed = 0 /\ q.placeholders = 0 /\ q.inflight = 0 /\ q.stale = 0

Room ==
    /\ FreeBlocks >= 0
    /\ Len(running) =< conf.maxSeqs
    /\ Len(inflight) =< conf.batches
    /\ cur /= Idle => Len(inflight) < conf.batches
    /\ \A id \in Ids : req[id].status = "FINISHED" => Zero(req[id])

\* A request that asks for no more than before.
Modest(r, q) ==
    /\ r.blocks =< q.blocks
    /\ r.status = "RUNNING" => q.status = "RUNNING"
    /\ r.status = "FINISHED" => Zero(r) \/ r = q

\* The blocks of every request.
Owned == [id \in Ids |-> req[id].blocks]

\* A total is a sum.
LEMMA TotalSum ==
    ASSUME NEW f, NEW S
    PROVE  Total(f, S) = SumOver(f, S)
  BY DEF Total, SumOver

\* What is free is what the requests leave.
LEMMA FreeSum ==
    ASSUME Types
    PROVE  /\ FreeBlocks = conf.blocks - SumOver(Owned, Ids) /\ IsFiniteSet(Ids)
           /\ conf.blocks \in Nat /\ SumOver(Owned, Ids) \in Int /\ FreeBlocks \in Int
           /\ \A id \in Ids : Owned[id] = req[id].blocks /\ Owned[id] \in Nat
  <1>1. conf.blocks \in Nat
    BY Numbers DEF Types
  <1>2. \A id \in Ids : Owned[id] = req[id].blocks /\ Owned[id] \in Nat
    BY Requests, Tokens DEF Owned
  <1>3. IsFiniteSet(Ids)
    BY Requests, FS_Interval DEF Ids
  <1>4. FreeBlocks = conf.blocks - SumOver(Owned, Ids)
    BY DEF FreeBlocks, Owned, Total, SumOver
  <1>5. SumOver(Owned, Ids) \in Int
    <2> DEFINE f == Owned
               S == Ids
    <2>1. IsFiniteSet(S) /\ \A x \in S : f[x] \in Int
      BY <1>2, <1>3
    <2> HIDE DEF f, S
    <2>2. SumOver(f, S) \in Int
      BY <2>1, SumType
    <2> QED
      BY <2>2 DEF f, S
  <1> QED
    BY <1>1, <1>2, <1>3, <1>4, <1>5

\* The same after a step.
LEMMA FreeSumNext ==
    ASSUME Types'
    PROVE  /\ FreeBlocks' = conf'.blocks - SumOver(Owned', Ids') /\ IsFiniteSet(Ids')
           /\ conf'.blocks \in Nat /\ SumOver(Owned', Ids') \in Int /\ FreeBlocks' \in Int
           /\ \A id \in Ids' : Owned'[id] = req'[id].blocks /\ Owned'[id] \in Nat
  <1>1. /\ conf' \in Configs /\ req' \in Seq(Request)
    BY DEF Types
  <1>2. conf'.blocks \in Nat
    BY <1>1, Numbers
  <1>3. Len(req') \in Nat /\ Ids' = 1 .. Len(req') /\ \A id \in Ids' : req'[id] \in Request
    BY <1>1 DEF Ids
  <1>4. \A id \in Ids' : Owned'[id] = req'[id].blocks /\ Owned'[id] \in Nat
    BY <1>3, Tokens DEF Owned
  <1>5. IsFiniteSet(Ids')
    BY <1>3, FS_Interval
  <1>6. FreeBlocks' = conf'.blocks - SumOver(Owned', Ids')
    <2>1. FreeBlocks' = conf'.blocks - Total(Owned', Ids')
      BY DEF FreeBlocks, Owned
    <2> QED
      BY <2>1, TotalSum
  <1>7. SumOver(Owned', Ids') \in Int
    <2> DEFINE f == Owned'
               S == Ids'
    <2>1. IsFiniteSet(S) /\ \A x \in S : f[x] \in Int
      BY <1>4, <1>5
    <2> HIDE DEF f, S
    <2>2. SumOver(f, S) \in Int
      BY <2>1, SumType
    <2> QED
      BY <2>2 DEF f, S
  <1> QED
    BY <1>2, <1>4, <1>5, <1>6, <1>7

\* Blocks are given back.
LEMMA FreeMore ==
    ASSUME Types, Types', conf' = conf, Ids' = Ids, \A id \in Ids : req'[id].blocks =< req[id].blocks
    PROVE  FreeBlocks' >= FreeBlocks
  <1> DEFINE g == Owned
             f == Owned'
             S == Ids
  <1>1. /\ FreeBlocks = conf.blocks - SumOver(g, S) /\ IsFiniteSet(S) /\ conf.blocks \in Nat
        /\ \A id \in S : g[id] = req[id].blocks /\ g[id] \in Nat
    BY FreeSum
  <1>2. /\ FreeBlocks' = conf.blocks - SumOver(f, S)
        /\ \A id \in S : f[id] = req'[id].blocks /\ f[id] \in Nat
    BY FreeSumNext
  <1>3. \A id \in S : f[id] \in 0 .. g[id]
    BY <1>1, <1>2
  <1> HIDE DEF f, g, S
  <1>4. SumOver(g, S) \in Nat /\ SumOver(f, S) \in 0 .. SumOver(g, S)
    BY <1>1, <1>3, SumBounds
  <1> QED
    BY <1>1, <1>2, <1>4

\* One request gets the blocks that allocate_slots found free.
LEMMA FreeEnough ==
    ASSUME Types, Types', conf' = conf, Ids' = Ids, FreeBlocks >= 0, NEW id \in Ids,
           \A x \in Ids \ {id} : req'[x] = req[x], NEW b \in Int,
           req'[id].blocks = Most(req[id].blocks, b), b - req[id].blocks =< FreeBlocks
    PROVE  FreeBlocks' >= 0
  <1> DEFINE g == Owned
             f == Owned'
             S == Ids
             T == Ids \ {id}
  <1>1. /\ FreeBlocks = conf.blocks - SumOver(g, S) /\ IsFiniteSet(S) /\ conf.blocks \in Nat
        /\ \A x \in S : g[x] = req[x].blocks /\ g[x] \in Nat
    BY FreeSum
  <1>2. /\ FreeBlocks' = conf.blocks - SumOver(f, S)
        /\ \A x \in S : f[x] = req'[x].blocks /\ f[x] \in Nat
    BY FreeSumNext
  <1>3. /\ \A x \in T : f[x] \in Int /\ g[x] = f[x]
        /\ \A x \in S : f[x] \in Int /\ g[x] \in Int
        /\ f[id] = Most(g[id], b) /\ b - g[id] =< FreeBlocks
        /\ T = S \ {id} /\ id \in S
    BY <1>1, <1>2
  <1>4. IsFiniteSet(T) /\ T \in SUBSET T /\ \A x \in T \ T : g[x] = 0
    BY <1>1, FS_Subset
  <1> HIDE DEF f, g, S, T
  <1>5. SumOver(f, T) = SumOver(g, T)
    BY <1>3, <1>4, SumFilter
  <1>6. SumOver(f, S) = f[id] + SumOver(f, T)
    BY <1>1, <1>3, SumRemove
  <1>7. SumOver(g, S) = g[id] + SumOver(g, T)
    BY <1>1, <1>3, SumRemove
  <1>8. SumOver(g, T) \in Int
    BY <1>3, <1>4, SumType
  <1>9. f[id] = g[id] \/ f[id] = b
    BY <1>3 DEF Most
  <1>10. f[id] \in Int /\ g[id] \in Int
    BY <1>3
  <1> DEFINE u == f[id]
             v == g[id]
             z == SumOver(g, T)
             free == FreeBlocks
             total == conf.blocks
  <1>11. /\ u \in Int /\ v \in Int /\ z \in Int /\ total \in Int /\ (u = v \/ u = b)
         /\ free = total - (v + z) /\ b - v =< free /\ free >= 0 /\ FreeBlocks' = total - (u + z)
    BY <1>1, <1>2, <1>3, <1>5, <1>6, <1>7, <1>8, <1>9, <1>10
  <1> HIDE DEF u, v, z, free, total
  <1> QED
    BY <1>11

\* As many run as there are running requests.
LEMMA RunLength ==
    ASSUME QueueInv, QueueInv', RunningIds' \subseteq RunningIds
    PROVE  Len(running') =< Len(running)
  <1> DEFINE a == RunningIds
             b == RunningIds'
  <1>1. Queue(running) /\ Range(running) = a
    BY QueueParts
  <1>2. Queue(running') /\ Range(running') = b
    BY DEF QueueInv, Queued
  <1>3. IsFiniteSet(a) /\ Cardinality(a) = Len(running) /\ Len(running) \in Nat
    BY <1>1, QueueLength
  <1>4. IsFiniteSet(b) /\ Cardinality(b) = Len(running') /\ Len(running') \in Nat
    BY <1>2, QueueLength
  <1>5. b \subseteq a
    OBVIOUS
  <1> HIDE DEF a, b
  <1>6. Cardinality(b) =< Cardinality(a)
    BY <1>3, <1>5, FS_Subset
  <1> QED
    BY <1>3, <1>4, <1>6

\* A step that asks for no more, and adds at most the step of the call it ends.
LEMMA RoomKept ==
    ASSUME QueueInv, QueueInv', Room, conf' = conf, Ids' = Ids,
           \A id \in Ids : Modest(req'[id], req[id]),
           \/ Len(inflight') =< Len(inflight)
           \/ cur /= Idle /\ cur' = Idle /\ Len(inflight') = Len(inflight) + 1,
           cur' /= Idle => Len(inflight') = Len(inflight) /\ Len(inflight) < conf.batches
    PROVE  Room'
  <1>1. Types /\ Types' /\ conf \in Configs
    BY DEF QueueInv, Types
  <1>2. FreeBlocks' >= 0
    <2>1. FreeBlocks' >= FreeBlocks
      BY <1>1, FreeMore DEF Modest
    <2>2. FreeBlocks \in Int /\ FreeBlocks' \in Int /\ FreeBlocks >= 0
      BY <1>1, FreeSum, FreeSumNext DEF Room
    <2> QED
      BY <2>1, <2>2
  <1>3. Len(running') =< conf'.maxSeqs
    <2>1. RunningIds' \subseteq RunningIds
      BY DEF RunningIds, Modest
    <2>2. Len(running') =< Len(running) /\ Len(running) =< conf.maxSeqs
      BY <2>1, RunLength DEF Room
    <2>3. Len(running) \in Nat /\ Len(running') \in Nat /\ conf.maxSeqs \in Nat
      BY <1>1, QueueLength, Numbers DEF QueueInv, Queued
    <2> QED
      BY <2>2, <2>3
  <1>4. Len(inflight') =< conf'.batches /\ (cur' /= Idle => Len(inflight') < conf'.batches)
    <2>1. Len(inflight) \in Nat /\ Len(inflight') \in Nat /\ conf.batches \in Nat
      BY <1>1, Numbers DEF Types
    <2>2. Len(inflight) =< conf.batches /\ (cur /= Idle => Len(inflight) < conf.batches)
      BY DEF Room
    <2> QED
      BY <2>1, <2>2
  <1>5. ASSUME NEW id \in Ids', req'[id].status = "FINISHED" PROVE Zero(req'[id])
    <2>1. Zero(req'[id]) \/ req'[id] = req[id]
      BY <1>5 DEF Modest
    <2> QED
      BY <1>5, <2>1 DEF Room
  <1> QED
    BY <1>2, <1>3, <1>4, <1>5 DEF Room

\* A request asks for no more than itself.
LEMMA ModestSame ==
    ASSUME NEW q \in Request
    PROVE  Modest(q, q)
  BY Tokens DEF Modest

\* Freeing a request clears it.
LEMMA FreeZero ==
    ASSUME NEW q \in Request, NEW p \in Request
    PROVE  Modest(_free_request(q), p)
  <1>1. _free_request(q).status = "FINISHED" /\ _free_request(q).blocks = 0
    BY FreeFields
  <1>2. Zero(_free_request(q))
    BY DEF _free_request, Zero, Request
  <1>3. p.blocks \in Nat
    BY Tokens
  <1> QED
    BY <1>1, <1>2, <1>3 DEF Modest

\* Preempting a request takes its blocks away.
LEMMA PreemptModest ==
    ASSUME NEW q \in Request, NEW drop \in BOOLEAN
    PROVE  Modest(_preempt_request(q, drop), q)
  <1> DEFINE r == _preempt_request(q, drop)
  <1>1. r.status = "PREEMPTED" /\ r.blocks = 0
    BY PreemptFields
  <1>2. q.blocks \in Nat
    BY Tokens
  <1> HIDE DEF r
  <1>3. Modest(r, q)
    BY <1>1, <1>2 DEF Modest
  <1> QED
    BY <1>3 DEF r

\* The limits hold at the start.
LEMMA RoomInit ==
    ASSUME Init
    PROVE  Room
  <1>1. QueueInv
    BY QueueInit
  <1>2. req = <<>> /\ running = <<>> /\ inflight = <<>> /\ cur = Idle /\ conf \in Configs
    BY DEF Init
  <1>3. Ids = {} /\ Len(running) = 0 /\ Len(inflight) = 0
    BY <1>2 DEF Ids
  <1>4. conf.maxSeqs \in Nat /\ conf.batches \in Nat /\ conf.blocks \in Nat
    BY <1>2, Numbers
  <1>5. FreeBlocks >= 0
    <2> DEFINE f == Owned
               S == Ids
    <2>1. FreeBlocks = conf.blocks - SumOver(f, S) /\ IsFiniteSet(S) /\ S = {}
          /\ \A x \in S : f[x] \in Int
      BY <1>1, <1>3, FreeSum DEF QueueInv
    <2> HIDE DEF f, S
    <2>2. SumOver(f, S) = 0
      BY <2>1, SumType
    <2> QED
      BY <1>4, <2>1, <2>2
  <1> QED
    BY <1>2, <1>3, <1>4, <1>5 DEF Room

\* A request arrives and owns nothing.
LEMMA RoomAdd ==
    ASSUME NoSessions, QueueInv, QueueInv', Room, add_request
    PROVE  Room'
  <1>1. PICK prompt \in conf.prompts, resumable \in conf.resumable :
            req' = Append(req, NewRequest(prompt, resumable))
    BY DEF add_request
  <1>2. conf' = conf /\ inflight' = inflight /\ cur' = cur /\ running' = running
    BY DEF add_request
  <1>3. Types /\ Types' /\ conf \in Configs
    BY DEF QueueInv, Types
  <1>4. Len(req) \in Nat /\ req \in Seq(Request) /\ req' \in Seq(Request)
    BY <1>3 DEF Types
  <1> DEFINE q == NewRequest(prompt, resumable)
             n == Len(req) + 1
  <1>6. q.status = "WAITING" /\ q.blocks = 0
    BY DEF NewRequest
  <1> HIDE DEF q
  <1>7. req' = Append(req, q) /\ Len(req') = n
    BY <1>1, <1>4 DEF q
  <1>8. /\ Ids' = Ids \cup {n} /\ n \notin Ids /\ req'[n] = q
        /\ \A x \in Ids : req'[x] = req[x]
    BY <1>4, <1>7 DEF Ids
  <1> HIDE DEF n
  <1>9. FreeBlocks' >= 0
    <2> DEFINE g == Owned'
               f == Owned
               S == Ids'
               T == Ids
    <2>1. /\ FreeBlocks = conf.blocks - SumOver(f, T) /\ FreeBlocks >= 0
          /\ \A x \in T : f[x] = req[x].blocks /\ f[x] \in Nat
      BY <1>3, FreeSum DEF Room
    <2>2. /\ FreeBlocks' = conf.blocks - SumOver(g, S) /\ IsFiniteSet(S)
          /\ \A x \in S : g[x] = req'[x].blocks
      BY <1>2, <1>3, FreeSumNext
    <2>3. T \in SUBSET S /\ \A x \in S \ T : x = n
      BY <1>8
    <2>4. /\ \A x \in T : f[x] \in Int /\ g[x] = f[x]
          /\ \A x \in S \ T : g[x] = 0
      BY <1>6, <1>8, <2>1, <2>2, <2>3
    <2> HIDE DEF f, g, S, T
    <2>5. SumOver(f, T) = SumOver(g, S)
      BY <2>2, <2>3, <2>4, SumFilter
    <2> QED
      BY <2>1, <2>2, <2>5
  <1>10. ASSUME NEW id \in Ids', req'[id].status = "FINISHED" PROVE Zero(req'[id])
    <2>1. id /= n
      BY <1>6, <1>8, <1>10
    <2>2. id \in Ids /\ req'[id] = req[id]
      BY <1>8, <2>1
    <2> QED
      BY <1>10, <2>2 DEF Room
  <1> QED
    BY <1>2, <1>9, <1>10 DEF Room

\* One request grows by the blocks that were found.
LEMMA RoomGrown ==
    ASSUME QueueInv, QueueInv', Room, conf' = conf, Ids' = Ids, inflight' = inflight,
           cur /= Idle, cur' /= Idle, NEW id \in Ids, req'[id].status = "RUNNING",
           \A x \in Ids \ {id} : req'[x] = req[x], NEW b \in Int,
           req'[id].blocks = Most(req[id].blocks, b), b - req[id].blocks =< FreeBlocks,
           Len(running') =< conf.maxSeqs
    PROVE  Room'
  <1>1. Types /\ Types'
    BY DEF QueueInv
  <1>2. FreeBlocks' >= 0
    BY <1>1, FreeEnough DEF Room
  <1>3. ASSUME NEW x \in Ids', req'[x].status = "FINISHED" PROVE Zero(req'[x])
    <2>1. req'[x] = req[x]
      BY <1>3
    <2> QED
      BY <1>3, <2>1 DEF Room
  <1> QED
    BY <1>2, <1>3 DEF Room

\* Calls from outside free blocks and slots, and take none.
LEMMA RoomOutside ==
    ASSUME QueueInv, QueueInv', Room, finish_requests \/ reset_prefix_cache
    PROVE  Room'
  <1>1. Types /\ \A id \in Ids : req[id] \in Request
    BY Requests DEF QueueInv
  <1>2. CASE finish_requests
    <2>1. cur' = Idle /\ inflight' = inflight /\ conf' = conf
      BY <1>2, FinishEffect
    <2>2. PICK id \in Live : /\ Ids' = Ids /\ req'[id] = _free_request(req[id])
                             /\ \A x \in Ids \ {id} : req'[x] = req[x]
      BY <1>2, FinishEffect
    <2>3. \A x \in Ids : Modest(req'[x], req[x])
      BY <1>1, <2>2, ModestSame, FreeZero
    <2>4. Len(inflight') =< Len(inflight)
      BY <1>1, <2>1 DEF Types
    <2> QED
      BY <2>1, <2>2, <2>3, <2>4, RoomKept
  <1>3. CASE reset_prefix_cache
    <2>1. /\ cur' = Idle /\ conf' = conf /\ Ids' = Ids /\ inflight' = Outdated(inflight, RunningIds)
          /\ \A id \in Ids : req'[id] = IF id \in RunningIds THEN _preempt_request(req[id], TRUE)
                                        ELSE req[id]
      BY <1>3, ResetEffect
    <2>2. ASSUME NEW id \in Ids PROVE Modest(req'[id], req[id])
      <3>1. CASE id \in RunningIds
        <4>1. Modest(_preempt_request(req[id], TRUE), req[id])
          BY <1>1, PreemptModest
        <4> QED
          BY <2>1, <3>1, <4>1
      <3>2. CASE id \notin RunningIds
        BY <1>1, <2>1, <3>2, ModestSame
      <3> QED
        BY <3>1, <3>2
    <2>3. Len(inflight') = Len(inflight) /\ Len(inflight) \in Nat
      BY <1>1, <2>1, OutdatedSteps DEF Types
    <2>4. Len(inflight') =< Len(inflight)
      BY <2>3
    <2> QED
      BY <2>1, <2>2, <2>4, RoomKept
  <1> QED
    BY <1>2, <1>3

\* Steps of the call that only move requests between queues.
LEMMA RoomLocal ==
    ASSUME QueueInv, QueueInv', Room,
           BeginSchedule \/ EndRunning \/ EndWaiting \/ PassWaiting \/ RequeuePassed
    PROVE  Room'
  <1>1. Types /\ \A id \in Ids : req[id] \in Request
    BY Requests DEF QueueInv
  <1>2. /\ conf' = conf /\ req' = req /\ inflight' = inflight
        /\ BeginSchedule \/ cur \in CallType
    BY <1>1, BeginEffect, LocalEffect, PassEffect, RequeueEffect
  <1>3. Len(inflight) < conf.batches
    BY <1>1, <1>2, BeginEffect, CallNotIdle DEF Room
  <1>4. Ids' = Ids /\ \A id \in Ids : Modest(req'[id], req[id])
    BY <1>1, <1>2, ModestSame DEF Ids
  <1>5. Len(inflight') = Len(inflight) /\ Len(inflight') =< Len(inflight)
    BY <1>1, <1>2 DEF Types
  <1> QED
    BY <1>2, <1>3, <1>4, <1>5, RoomKept

\* The running loop allocates what it found.
LEMMA RoomGrant ==
    ASSUME QueueInv, QueueInv', Room, ScheduleRunning
    PROVE  Room'
  <1> DEFINE id == running[cur.index]
  <1>1. /\ cur.pc = "running" /\ cur.index =< Len(running)
        /\ cur \in CallType /\ cur' \in CallType
        /\ Skips(id) \/ Grants(id)
        /\ conf' = conf /\ inflight' = inflight /\ running' = running
    BY GrantEffect
  <1>2. Types /\ conf \in Configs /\ \A x \in Ids : req[x] \in Request
    BY Requests DEF QueueInv, Types
  <1>3. id \in RunningIds /\ id \in Ids /\ cur /= Idle /\ cur' /= Idle
    BY <1>1, VisitedId, CallNotIdle
  <1> HIDE DEF id
  <1>4. CASE Skips(id)
    <2>1. req' = req /\ Ids' = Ids
      BY <1>4 DEF Skips, Ids
    <2>2. \A x \in Ids : Modest(req'[x], req[x])
      BY <1>2, <2>1, ModestSame
    <2>3. Len(inflight') = Len(inflight) /\ Len(inflight') =< Len(inflight) /\ Len(inflight) < conf.batches
      BY <1>1, <1>2, <1>3 DEF Types, Room
    <2> QED
      BY <1>1, <2>1, <2>2, <2>3, RoomKept
  <1>5. CASE Grants(id)
    <2> DEFINE q == req[id]
               n == RunningTokens(q)
               b == SlotBlocks(q.computed, n)
    <2>1. /\ allocate_slots(q, q.computed, n) /\ Len(req') = Len(req)
          /\ \A x \in Ids \ {id} : req'[x] = req[x]
          /\ req'[id].status = q.status /\ req'[id].blocks = Most(q.blocks, b)
      BY <1>5 DEF Grants
    <2>2. Ids' = Ids /\ req'[id].status = "RUNNING"
      BY <1>3, <2>1 DEF Ids, RunningIds
    <2>3. b - q.blocks =< FreeBlocks
      BY <2>1 DEF allocate_slots
    <2>4. n \in Int /\ q.computed \in Int
      BY <1>1, <1>2, <1>3, RunningTokensType, Tokens
    <2>5. b \in Int
      BY <1>2, <2>4, SlotBlocksType
    <2>6. Len(running') =< conf.maxSeqs
      BY <1>1 DEF Room
    <2> HIDE DEF b
    <2> QED
      BY <1>1, <1>3, <2>1, <2>2, <2>3, <2>5, <2>6, RoomGrown
  <1> QED
    BY <1>1, <1>4, <1>5

\* The waiting loop admits while there is a slot, and allocates what it found.
LEMMA RoomAdmit ==
    ASSUME QueueInv, QueueInv', Room, AdmitWaiting
    PROVE  Room'
  <1> DEFINE id == Candidate
             q == req[id]
  <1>1. /\ WaitingLoop /\ cur \in CallType /\ cur' \in CallType
        /\ StopsAt(id) \/ \E computed \in Nat : computed < num_tokens(q) /\ Admits(id, computed)
        /\ conf' = conf /\ inflight' = inflight
    BY AdmitEffect
  <1>2. Types /\ conf \in Configs /\ (\A x \in Ids : req[x] \in Request) /\ held = 0
    BY Requests DEF QueueInv, Types, Queued
  <1>3. id \in WaitingIds /\ id \in Ids /\ cur /= Idle /\ cur' /= Idle
    BY <1>1, CandidateId, CallNotIdle DEF WaitingIds
  <1>4. /\ Len(running) + held < conf.maxSeqs /\ Len(running) \in Nat /\ conf.maxSeqs \in Nat
        /\ running \in Seq(Nat)
    BY <1>1, <1>2, QueueParts, QueueLength, Numbers DEF WaitingLoop, Queue
  <1> HIDE DEF id
  <1>5. CASE StopsAt(id)
    <2>1. req' = req /\ Ids' = Ids
      BY <1>5 DEF StopsAt, Ids
    <2>2. \A x \in Ids : Modest(req'[x], req[x])
      BY <1>2, <2>1, ModestSame
    <2>3. Len(inflight') = Len(inflight) /\ Len(inflight') =< Len(inflight) /\ Len(inflight) < conf.batches
      BY <1>1, <1>2, <1>3 DEF Types, Room
    <2> QED
      BY <1>1, <2>1, <2>2, <2>3, RoomKept
  <1>6. ASSUME NEW computed \in Nat, computed < num_tokens(q), Admits(id, computed)
        PROVE  Room'
    <2> DEFINE n == WaitingTokens(q, computed)
               b == SlotBlocks(computed, n)
    <2>1. /\ allocate_slots(q, computed, n) /\ Len(req') = Len(req)
          /\ \A x \in Ids \ {id} : req'[x] = req[x]
          /\ req'[id].status = "RUNNING" /\ req'[id].blocks = Most(q.blocks, b)
          /\ running' = Append(running, id)
      BY <1>6 DEF Admits
    <2>2. Ids' = Ids
      BY <2>1 DEF Ids
    <2>3. b - q.blocks =< FreeBlocks
      BY <2>1 DEF allocate_slots
    <2>4. n \in Int
      BY <1>1, <1>2, <1>3, <1>6, WaitingTokensType
    <2>5. b \in Int
      BY <1>2, <2>4, SlotBlocksType
    <2>6. Len(running') =< conf.maxSeqs
      <3>1. Len(running') = Len(running) + 1
        BY <1>4, <2>1
      <3> QED
        BY <1>2, <1>4, <3>1
    <2> HIDE DEF b
    <2> QED
      BY <1>1, <1>3, <2>1, <2>2, <2>3, <2>5, <2>6, RoomGrown
  <1> QED
    BY <1>1, <1>5, <1>6

\* A preemption gives a slot and blocks back.
LEMMA RoomPreempt ==
    ASSUME QueueInv, QueueInv', Room, PreemptRunning
    PROVE  Room'
  <1> DEFINE victim == Last(running)
  <1>1. /\ cur.pc = "running" /\ cur.index =< Len(running)
        /\ cur \in CallType /\ Ids' = Ids
        /\ req'[victim] = _preempt_request(req[victim], FALSE)
        /\ \A x \in Ids \ {victim} : req'[x] = req[x]
        /\ inflight' = Outdated(inflight, {victim}) /\ conf' = conf
    BY PreemptEffect
  <1>2. Types /\ inflight \in Seq(Steps) /\ \A x \in Ids : req[x] \in Request
    BY Requests DEF QueueInv, Types
  <1>3. victim \in RunningIds /\ victim \in Ids /\ cur /= Idle
    BY <1>1, VisitedId, CallNotIdle DEF RunningIds
  <1> HIDE DEF victim
  <1>4. Modest(req'[victim], req[victim])
    <2>1. Modest(_preempt_request(req[victim], FALSE), req[victim])
      BY <1>2, <1>3, PreemptModest
    <2> QED
      BY <1>1, <2>1
  <1>5. \A x \in Ids : Modest(req'[x], req[x])
    BY <1>1, <1>2, <1>4, ModestSame
  <1>6. Len(inflight') = Len(inflight) /\ Len(inflight) \in Nat
    BY <1>1, <1>2, OutdatedSteps
  <1>7. Len(inflight') =< Len(inflight) /\ Len(inflight) < conf.batches
    BY <1>3, <1>6 DEF Room
  <1> QED
    BY <1>1, <1>5, <1>6, <1>7, RoomKept

\* The call hands its step over: the room for it was checked when it began.
LEMMA RoomReturn ==
    ASSUME QueueInv, QueueInv', Room, ReturnStep
    PROVE  Room'
  <1>1. /\ cur \in CallType /\ cur' = Idle /\ Ids' = Ids /\ conf' = conf
        /\ \A id \in Ids : req'[id] = IF id \in DOMAIN cur.step
                                      THEN _update_after_schedule(req[id], cur.step[id])
                                      ELSE req[id]
        /\ inflight' = IF DOMAIN cur.step = {} THEN inflight ELSE Append(inflight, cur.step)
    BY ReturnEffect
  <1>2. Types /\ conf \in Configs /\ inflight \in Seq(Steps) /\ \A x \in Ids : req[x] \in Request
    BY Requests DEF QueueInv, Types
  <1>3. cur /= Idle /\ cur.step \in Steps /\ DOMAIN cur.step \subseteq RunningIds
    BY <1>1, CallNotIdle, CallTyped DEF TypedCall, QueueInv, Called
  <1>4. ASSUME NEW id \in Ids PROVE Modest(req'[id], req[id])
    <2>1. CASE id \in DOMAIN cur.step
      <3>1. cur.step[id] \in ShareType /\ req[id].status = "RUNNING"
        BY <1>3, <2>1, StepShares DEF RunningIds
      <3>2. req'[id].status = req[id].status /\ req'[id].blocks = req[id].blocks /\ req[id].blocks \in Nat
        BY SMTT(30), <1>1, <1>2, <2>1, <3>1, ScheduledFields, Tokens
      <3> QED
        BY <3>1, <3>2 DEF Modest
    <2>2. CASE id \notin DOMAIN cur.step
      BY <1>1, <1>2, <2>2, ModestSame
    <2> QED
      BY <2>1, <2>2
  <1>5. Len(inflight') =< Len(inflight) \/ Len(inflight') = Len(inflight) + 1
    BY <1>1, <1>2, <1>3
  <1> QED
    BY <1>1, <1>3, <1>4, <1>5, RoomKept

\* An output takes its step out of the pipeline, and frees what it finishes.
LEMMA RoomOutput ==
    ASSUME QueueInv, QueueInv', Room, update_from_output
    PROVE  Room'
  <1> DEFINE ids == DOMAIN Head(inflight)
  <1>1. cur = Idle /\ cur' = Idle /\ inflight /= <<>> /\ inflight' = Tail(inflight) /\ conf' = conf
    BY OutputEffect
  <1>2. PICK k \in [ids -> Nat], eos \in SUBSET ids, stopped \in SUBSET ids :
                   /\ \A id \in ids : Outcome(id, k[id], id \in eos, id \in stopped)
                   /\ Ids' = Ids
                   /\ \A id \in Ids \ ids : req'[id] = req[id]
    BY OutputEffect
  <1>3. /\ Types /\ conf \in Configs /\ inflight \in Seq(Steps)
        /\ \A x \in Ids : req[x] \in Request
    BY Requests DEF QueueInv, Types
  <1>4. ASSUME NEW id \in Ids PROVE Modest(req'[id], req[id])
    <2>1. CASE id \in ids
      <3> DEFINE q == req[id]
                 s == Head(inflight)[id]
                 r == req'[id]
                 e == id \in eos
                 n == k[id]
                 d == Delivered(q, s, n, e)
                 t == Drained(q, s, n)
                 u == [t EXCEPT !.evicted = TRUE]
                 v == _free_request(d)
      <3>1. q \in Request /\ s \in ShareType /\ n \in Nat /\ e \in BOOLEAN
        BY <1>1, <1>2, <1>3, <2>1, HeadStep
      <3>2. d \in Request /\ d.status = q.status /\ d.blocks = q.blocks
        <4> HIDE DEF q, s, e, n
        <4> QED
          BY <1>3, <3>1, DeliveredFields
      <3>3. t \in Request /\ t.status = q.status /\ t.blocks = q.blocks
        <4> HIDE DEF q, s, n
        <4> QED
          BY <3>1, DrainedFields
      <3>4. u.status = t.status /\ u.blocks = t.blocks
        <4> HIDE DEF t
        <4> QED
          BY <3>3, EvictedFields
      <3>5. Modest(v, q)
        <4> HIDE DEF d, q
        <4> QED
          BY <3>1, <3>2, FreeZero
      <3>6. \/ q.status = "FINISHED" /\ r = q
            \/ q.status /= "FINISHED" /\ (r = u \/ r = t \/ r = d)
            \/ r = v
        BY <1>2, <2>1 DEF Outcome
      <3>7. q.blocks \in Nat /\ Modest(q, q)
        BY <3>1, Tokens, ModestSame
      <3> HIDE DEF q, s, r, d, t, u, v
      <3>8. ASSUME q.status /= "FINISHED", r = u \/ r = t \/ r = d PROVE Modest(r, q)
        <4>1. r.status = q.status /\ r.blocks = q.blocks
          BY <3>2, <3>3, <3>4, <3>8
        <4> QED
          BY <3>7, <3>8, <4>1 DEF Modest
      <3>9. Modest(r, q)
        BY <3>5, <3>6, <3>7, <3>8
      <3> QED
        BY <3>9 DEF r, q
    <2>2. CASE id \notin ids
      BY <1>2, <1>3, <2>2, ModestSame
    <2> QED
      BY <2>1, <2>2
  <1>5. Len(inflight') =< Len(inflight)
    BY <1>1, <1>3
  <1> HIDE DEF ids
  <1> QED
    BY <1>1, <1>2, <1>4, <1>5, RoomKept

\* A step of the scheduler keeps the limits.
LEMMA RoomStep ==
    ASSUME NoSessions, QueueInv, QueueInv', Room, [Next]_vars
    PROVE  Room'
  <1>1. CASE add_request
    BY <1>1, RoomAdd
  <1>2. CASE add_session_input
    <2>1. PICK id \in Live : req[id].resumable
      BY <1>2 DEF add_session_input
    <2>2. req[id] \in Request
      BY QueueParts, Requests
    <2> QED
      BY <2>1, <2>2, RequestTyped DEF Typed
  <1>3. CASE finish_requests \/ reset_prefix_cache
    BY <1>3, RoomOutside
  <1>4. CASE set_pause_state \/ UNCHANGED vars
    <2>1. conf' = conf /\ req' = req /\ running' = running /\ inflight' = inflight /\ cur' = cur
      BY <1>4 DEF set_pause_state, vars, queues, env
    <2>2. Types /\ Ids' = Ids
      BY <2>1 DEF Ids, QueueInv
    <2>3. \A id \in Ids : Modest(req'[id], req[id])
      BY <2>1, <2>2, Requests, ModestSame
    <2>4. /\ Len(inflight') = Len(inflight) /\ Len(inflight') =< Len(inflight)
          /\ cur' /= Idle => Len(inflight) < conf.batches
      BY <2>1, <2>2 DEF Types, Room
    <2> QED
      BY <2>1, <2>2, <2>3, <2>4, RoomKept
  <1>5. CASE BeginSchedule \/ EndRunning \/ EndWaiting \/ PassWaiting \/ RequeuePassed
    BY <1>5, RoomLocal
  <1>6. CASE ScheduleRunning
    BY <1>6, RoomGrant
  <1>7. CASE PreemptRunning
    BY <1>7, RoomPreempt
  <1>8. CASE AdmitWaiting
    BY <1>8, RoomAdmit
  <1>9. CASE ReturnStep
    BY <1>9, RoomReturn
  <1>10. CASE update_from_output
    BY <1>10, RoomOutput
  <1> QED
    BY <1>1, <1>2, <1>3, <1>4, <1>5, <1>6, <1>7, <1>8, <1>9, <1>10 DEF Next, schedule

\* Under any interleaving of calls, outputs, aborts, resets and preemptions every
\* counter of a request stays a natural number (the code asserts it only of
\* num_stale_output_tokens), the blocks in use never exceed the pool, and neither
\* the running requests nor the steps in flight exceed their limits.
THEOREM WellTyped ==
    ASSUME NoSessions, PadsHaveRoom, PadsAreCovered
    PROVE  Spec => []TypeOK
  <1>1. ASSUME QueueInv, PipeInv, Room PROVE TypeOK
    <2>1. Types /\ inflight \in Seq(Steps) /\ \A id \in Ids : req[id] \in Request
      BY <1>1, Requests DEF QueueInv, Types
    <2>2. Range(running) \cup Range(waiting) \cup Range(skipped) \subseteq Ids
      BY <1>1, QueueParts
    <2>3. ASSUME NEW id \in Ids
          PROVE  /\ req[id].computed \in Nat /\ req[id].placeholders \in Nat
                 /\ req[id].inflight \in Nat /\ req[id].stale \in Nat /\ req[id].blocks \in Nat
      <3> DEFINE q == req[id]
      <3>1. q \in Request
        BY <2>1
      <3>2. q.computed \in Int /\ q.blocks \in Nat
        BY <3>1, Tokens
      <3>3. CASE q.status = "FINISHED"
        BY <1>1, <3>2, <3>3 DEF Room, Zero
      <3>4. CASE q.status /= "FINISHED"
        <4>1. Sound(conf, q, inflight, id, CurStep)
          BY <1>1, <3>4, PipeParts DEF Live, is_finished
        <4>2. \A i \in DOMAIN inflight : id \in DOMAIN inflight[i] => GoodShare(inflight[i][id])
          BY <1>1, PipeParts
        <4>3. /\ Sum(inflight, id, "tokens") \in Nat /\ Sum(inflight, id, "stale") \in Nat
              /\ Sum(inflight, id, "owed") \in Nat
          BY <2>1, <4>2, SumNat DEF Kinds
        <4>4. q.inflight \in Nat /\ q.stale \in Nat /\ q.placeholders \in Nat
          BY <4>1, <4>3 DEF Sound, Counted
        <4>5. q.computed >= 0
          <5>1. CASE q.status = "RUNNING"
            BY <4>1, <5>1 DEF Sound, Covered
          <5>2. CASE q.status /= "RUNNING"
            BY <4>1, <5>2 DEF Sound, Counted
          <5> QED
            BY <5>1, <5>2
        <4> QED
          BY <3>2, <4>4, <4>5
      <3> QED
        BY <3>3, <3>4
    <2>4. ASSUME NEW id \in Ids, NEW i \in Shares(id) PROVE inflight[i][id].n > 0
      BY <1>1, PipeParts DEF Shares, GoodShare
    <2> QED
      BY <1>1, <2>2, <2>3, <2>4 DEF TypeOK, Room
  <1>2. Init => QueueInv /\ Room
    BY QueueInit, RoomInit
  <1>3. QueueInv /\ Room /\ [Next]_vars => QueueInv' /\ Room'
    BY QueueStep, RoomStep
  <1>4. QueueInv /\ PipeInv /\ Room => TypeOK
    BY <1>1
  <1> QED
    BY <1>2, <1>3, <1>4, PipeAlways, PTL DEF Spec

-----------------------------------------------------------------------------
(* The prefill budget *)

\* The tokens that a step gives to requests which are catching up.
Behind(st) == Total([id \in DOMAIN st |-> st[id].n], {id \in DOMAIN st : st[id].behind})

\* What the call has given to such requests it has charged to the budget.
Budget ==
    (conf.decodeAware /\ cur /= Idle) =>
        /\ cur.prefill >= 0
        /\ Behind(cur.step) + cur.prefill
             =< IF cur.decoding THEN conf.decodeBudget ELSE conf.idleBudget

\* One more share.
LEMMA BehindWith ==
    ASSUME NEW st \in Steps, IsFiniteSet(DOMAIN st), NEW id \in Nat, id \notin DOMAIN st,
           NEW share \in ShareType
    PROVE  /\ Behind(st) \in Int
           /\ Behind(With(st, id, share)) = Behind(st) + (IF share.behind THEN share.n ELSE 0)
  <1> DEFINE zt == With(st, id, share)
             f == [x \in DOMAIN st |-> st[x].n]
             g == [x \in DOMAIN zt |-> zt[x].n]
             S == {x \in DOMAIN st : st[x].behind}
             T == {x \in DOMAIN zt : zt[x].behind}
  <1>1. /\ DOMAIN zt = DOMAIN st \cup {id} /\ zt[id] = share
        /\ \A x \in DOMAIN st : zt[x] = st[x]
    BY WithShare
  <1>2. \A x \in DOMAIN st : st[x].n \in Int /\ st[x].behind \in BOOLEAN
    BY StepShares DEF ShareType
  <1>3. share.n \in Int /\ share.behind \in BOOLEAN
    BY DEF ShareType
  <1>4. Behind(st) = SumOver(f, S)
    BY TotalSum DEF Behind
  <1>5. Behind(zt) = SumOver(g, T)
    <2> HIDE DEF zt
    <2> QED
      BY TotalSum DEF Behind
  <1> HIDE DEF zt
  <1>6. IsFiniteSet(S)
    <2>1. S \subseteq DOMAIN st
      OBVIOUS
    <2> QED
      BY <2>1, FS_Subset
  <1>7. /\ \A x \in S : f[x] \in Int /\ g[x] = f[x] /\ g[x] \in Int
        /\ g[id] = share.n /\ id \notin S
    BY <1>1, <1>2
  <1>8. T = IF share.behind THEN S \cup {id} ELSE S
    <2>1. CASE share.behind
      BY <1>1, <2>1
    <2>2. CASE ~share.behind
      BY <1>1, <2>2
    <2> QED
      BY <2>1, <2>2
  <1> HIDE DEF f, g, S, T
  <1>9. SumOver(f, S) \in Int /\ SumOver(f, S) = SumOver(g, S)
    <2>1. S \in SUBSET S /\ \A x \in S \ S : g[x] = 0
      OBVIOUS
    <2> QED
      BY <1>6, <1>7, <2>1, SumType, SumFilter
  <1>10. CASE share.behind
    <2>1. T = S \cup {id} /\ T \ {id} = S /\ id \in T
      BY <1>7, <1>8, <1>10
    <2>2. IsFiniteSet(T)
      BY <1>6, <2>1, FS_AddElement
    <2>3. \A x \in T : g[x] \in Int
      BY <1>3, <1>7, <2>1
    <2>4. SumOver(g, T) = g[id] + SumOver(g, T \ {id})
      BY <2>1, <2>2, <2>3, SumRemove
    <2>5. SumOver(g, T) = share.n + SumOver(g, S)
      BY <1>7, <2>1, <2>4
    <2> QED
      BY <1>3, <1>4, <1>5, <1>9, <1>10, <2>5 DEF zt
  <1>11. CASE ~share.behind
    BY <1>4, <1>5, <1>8, <1>9, <1>11 DEF zt
  <1> QED
    BY <1>3, <1>10, <1>11

\* An empty step.
LEMMA BehindNone == Behind(<<>>) = 0
  <1> DEFINE f == [id \in DOMAIN <<>> |-> <<>>[id].n]
             S == {id \in DOMAIN <<>> : <<>>[id].behind}
  <1>1. S = {} /\ IsFiniteSet(S)
    BY FS_EmptySet
  <1>2. Behind(<<>>) = SumOver(f, S)
    BY TotalSum DEF Behind
  <1>3. \A x \in S : f[x] \in Int
    BY <1>1
  <1> HIDE DEF f, S
  <1> QED
    BY <1>1, <1>2, <1>3, SumType

\* The step of a call is finite.
LEMMA StepFinite ==
    ASSUME QueueInv, cur \in CallType
    PROVE  cur.step \in Steps /\ IsFiniteSet(DOMAIN cur.step) /\ DOMAIN cur.step \subseteq RunningIds
  <1>1. cur.step \in Steps
    BY CallTyped DEF TypedCall
  <1>2. DOMAIN cur.step \subseteq RunningIds
    BY CallNotIdle DEF QueueInv, Called
  <1>3. IsFiniteSet(RunningIds)
    BY QueueParts, QueueLength
  <1> QED
    BY <1>1, <1>2, <1>3, FS_Subset

\* A call that has charged what it gave.
LEMMA BudgetCharged ==
    ASSUME QueueInv, Budget, conf' = conf, cur \in CallType, cur' \in CallType,
           cur'.decoding = cur.decoding, NEW id \in Nat, id \notin DOMAIN cur.step,
           NEW share \in ShareType, share.n > 0, cur'.step = With(cur.step, id, share),
           conf.decodeAware =>
             \/ share.n =< cur.prefill /\ cur'.prefill = cur.prefill - share.n
             \/ ~share.behind /\ cur'.prefill = cur.prefill
    PROVE  Budget'
  <1>1. SUFFICES ASSUME conf.decodeAware
                 PROVE  /\ cur'.prefill >= 0
                        /\ Behind(cur'.step) + cur'.prefill
                             =< IF cur'.decoding THEN conf.decodeBudget ELSE conf.idleBudget
    <2>1. conf'.decodeAware = conf.decodeAware
      OBVIOUS
    <2>2. (conf'.decodeAware /\ cur' /= Idle) =>
            /\ cur'.prefill >= 0
            /\ Behind(cur'.step) + cur'.prefill
                 =< IF cur'.decoding THEN conf'.decodeBudget ELSE conf'.idleBudget
      BY <1>1
    <2> QED
      BY <2>2 DEF Budget
  <1>2. /\ cur.prefill >= 0
        /\ Behind(cur.step) + cur.prefill =< IF cur.decoding THEN conf.decodeBudget ELSE conf.idleBudget
    BY <1>1, CallNotIdle DEF Budget
  <1>3. /\ Behind(cur.step) \in Int
        /\ Behind(cur'.step) = Behind(cur.step) + (IF share.behind THEN share.n ELSE 0)
    BY StepFinite, BehindWith
  <1>4. cur.prefill \in Int /\ cur'.prefill \in Int
    BY CallTyped DEF TypedCall
  <1>5. share.n \in Int /\ share.behind \in BOOLEAN
    BY DEF ShareType
  <1> DEFINE a == Behind(cur.step)
             b == Behind(cur'.step)
             p == cur.prefill
             r == cur'.prefill
             cap == IF cur.decoding THEN conf.decodeBudget ELSE conf.idleBudget
             n == share.n
  <1>6. /\ a \in Int /\ p \in Int /\ r \in Int /\ n \in Int /\ n > 0 /\ p >= 0 /\ a + p =< cap
        /\ b = a \/ (b = a + n /\ share.behind)
        /\ (n =< p /\ r = p - n) \/ (~share.behind /\ r = p)
    <2>1. (n =< p /\ r = p - n) \/ (~share.behind /\ r = p)
      BY <1>1
    <2>2. b = a \/ (b = a + n /\ share.behind)
      BY <1>3, <1>5
    <2> QED
      BY <1>2, <1>3, <1>4, <1>5, <2>1, <2>2
  <1>7. cap \in Int
    <2>1. conf.decodeBudget \in Nat /\ conf.idleBudget \in Nat
      BY Numbers DEF QueueInv, Types
    <2> QED
      BY <2>1
  <1>8. (IF cur'.decoding THEN conf.decodeBudget ELSE conf.idleBudget) = cap
    OBVIOUS
  <1> HIDE DEF a, b, p, r, cap, n
  <1>9. r >= 0 /\ b + r =< cap
    BY <1>6, <1>7
  <1> QED
    BY <1>8, <1>9 DEF b, r

\* A call that gives nothing.
LEMMA BudgetSame ==
    ASSUME Budget, conf' = conf, cur \in CallType, cur' \in CallType, cur'.step = cur.step,
           cur'.decoding = cur.decoding, cur'.prefill = cur.prefill
    PROVE  Budget'
  <1>1. cur /= Idle
    BY CallNotIdle
  <1> QED
    BY <1>1 DEF Budget

\* The running loop charges a prefill; a decode is not behind.
LEMMA BudgetGrant ==
    ASSUME PadsAreWhole, QueueInv, PipeInv, Budget, ScheduleRunning
    PROVE  Budget'
  <1> DEFINE id == running[cur.index]
  <1>1. /\ cur.pc = "running" /\ cur.index =< Len(running) /\ cur.budget > 0
        /\ cur \in CallType /\ cur' \in CallType /\ cur'.decoding = cur.decoding
        /\ Skips(id) \/ Grants(id)
        /\ conf' = conf
    BY GrantEffect
  <1>2. CurStep = cur.step
    BY <1>1, CallNotIdle DEF CurStep
  <1>3. id \in RunningIds /\ id \in Ids /\ id \notin DOMAIN cur.step
    BY <1>1, VisitedId
  <1>4. Types /\ conf \in Configs
    BY DEF QueueInv, Types
  <1>5. id \in Live /\ req[id] \in Request /\ req[id].status = "RUNNING" /\ id \in Nat
    BY <1>3, <1>4, LiveIds, Requests DEF RunningIds
  <1> HIDE DEF id
  <1>6. CASE Skips(id)
    BY <1>1, <1>6, BudgetSame DEF Skips
  <1>7. CASE Grants(id)
    <2> DEFINE q == req[id]
               n == RunningTokens(q)
               share == Share(q, n, Drafts(q, n), q.computed)
    <2>1. /\ ~SkipsRunning(id)
          /\ cur'.step = With(cur.step, id, share)
          /\ cur'.prefill = IF conf.decodeAware /\ q.chunk THEN cur.prefill - n ELSE cur.prefill
      BY <1>7 DEF Grants
    <2>2. Sound(conf, q, inflight, id, CurStep)
      BY <1>5, PipeParts
    <2>3. /\ q.computed < All(q) /\ q.computed < conf.modelLen
          /\ ~q.chunk => q.computed = All(q) - 1
      BY <1>2, <1>3, <1>5, <2>2 DEF Sound, Ahead, Exact
    <2>4. n > 0
      BY <1>1, <1>4, <1>5, <2>1, <2>3, RunningTokensPositive
    <2>5. n \in Int /\ (conf.decodeAware /\ q.chunk => n =< cur.prefill)
      BY <1>1, <1>4, <1>5, RunningTokensType
    <2>6. /\ q.computed \in Int /\ q.placeholders \in Int /\ num_tokens(q) \in Nat
          /\ All(q) = num_tokens(q) + q.placeholders /\ q.chunk \in BOOLEAN
      BY <1>5, Tokens
    <2>7. Drafts(q, n) \in Nat
      BY <1>5, <2>5, DraftsType
    <2>8. share \in ShareType
      BY <1>5, <2>5, <2>6, <2>7, ShareFields
    <2>9. share.n = n /\ share.behind = (num_tokens(q) + q.placeholders - q.computed > 1)
      BY DEF Share
    <2>10. ~q.chunk => ~share.behind
      <3> HIDE DEF q, share
      <3> QED
        BY <2>3, <2>6, <2>9
    <2>11. conf.decodeAware =>
             \/ share.n =< cur.prefill /\ cur'.prefill = cur.prefill - share.n
             \/ ~share.behind /\ cur'.prefill = cur.prefill
      <3> HIDE DEF q, share, n
      <3>1. CASE q.chunk
        BY <2>1, <2>5, <2>9, <3>1
      <3>2. CASE ~q.chunk
        BY <2>1, <2>10, <3>2
      <3> QED
        BY <3>1, <3>2
    <2>12. share.n > 0
      BY <2>4, <2>9
    <2> HIDE DEF share
    <2> QED
      BY <1>1, <1>3, <1>5, <2>1, <2>8, <2>11, <2>12, BudgetCharged
  <1> QED
    BY <1>1, <1>6, <1>7

\* The waiting loop charges all that it gives.
LEMMA BudgetAdmit ==
    ASSUME QueueInv, Budget, AdmitWaiting
    PROVE  Budget'
  <1> DEFINE id == Candidate
             q == req[id]
  <1>1. /\ WaitingLoop /\ cur \in CallType /\ cur' \in CallType /\ cur'.decoding = cur.decoding
        /\ StopsAt(id) \/ \E computed \in Nat : computed < num_tokens(q) /\ Admits(id, computed)
        /\ conf' = conf
    BY AdmitEffect
  <1>2. Types /\ conf \in Configs /\ conf.spec \in Nat
    BY Numbers DEF QueueInv, Types
  <1>3. id \in WaitingIds /\ id \in Ids /\ id \in Nat /\ q \in Request /\ id \notin RunningIds
    BY <1>1, <1>2, CandidateId, Requests, QueueParts
  <1>4. id \notin DOMAIN cur.step
    BY <1>1, <1>3, StepFinite
  <1> HIDE DEF id
  <1>5. CASE StopsAt(id)
    BY <1>1, <1>5, BudgetSame DEF StopsAt
  <1>6. ASSUME NEW computed \in Nat, computed < num_tokens(q), Admits(id, computed)
        PROVE  Budget'
    <2> DEFINE n == WaitingTokens(q, computed)
               drafts == IF Pads(q, computed) THEN conf.spec ELSE 0
               share == Share(q, n, drafts, computed)
    <2>1. /\ n > 0
          /\ cur'.step = With(cur.step, id, share)
          /\ cur'.prefill = IF conf.decodeAware THEN cur.prefill - n ELSE cur.prefill
      BY <1>6 DEF Admits
    <2>2. n \in Int /\ (n > 0 /\ conf.decodeAware => n =< cur.prefill)
      BY <1>1, <1>2, <1>3, <1>6, WaitingTokensType
    <2>3. drafts \in Nat /\ computed \in Int
      BY <1>2
    <2>4. share \in ShareType /\ share.n = n
      <3> HIDE DEF drafts, n
      <3> QED
        BY <1>3, <2>2, <2>3, ShareFields
    <2>5. share.n > 0 /\ (conf.decodeAware => share.n =< cur.prefill /\ cur'.prefill = cur.prefill - share.n)
      <3> HIDE DEF share, n
      <3> QED
        BY <2>1, <2>2, <2>4
    <2> HIDE DEF share
    <2> QED
      BY <1>1, <1>3, <1>4, <2>1, <2>4, <2>5, BudgetCharged
  <1> QED
    BY <1>1, <1>5, <1>6

\* The budget of a new call.
LEMMA BudgetBegin ==
    ASSUME QueueInv, BeginSchedule
    PROVE  Budget'
  <1>1. /\ cur' \in CallType /\ cur'.step = <<>> /\ conf' = conf
        /\ conf.decodeAware =>
                /\ cur'.prefill >= 0
                /\ cur'.prefill =< IF cur'.decoding THEN conf.decodeBudget ELSE conf.idleBudget
    BY BeginEffect DEF QueueInv
  <1>2. cur'.prefill \in Int
    BY <1>1, CallTyped DEF TypedCall
  <1>3. Behind(cur'.step) + cur'.prefill = cur'.prefill
    BY <1>1, <1>2, BehindNone
  <1> QED
    BY <1>1, <1>3 DEF Budget

\* A step of the scheduler keeps within the budget.
LEMMA BudgetStep ==
    ASSUME PadsAreWhole, QueueInv, PipeInv, Budget, [Next]_vars
    PROVE  Budget'
  <1>1. CASE \/ add_request \/ add_session_input \/ finish_requests \/ reset_prefix_cache
             \/ set_pause_state \/ UNCHANGED vars \/ update_from_output
    <2>1. conf' = conf /\ cur' = cur
      BY <1>1 DEF add_request, add_session_input, finish_requests, reset_prefix_cache,
                  set_pause_state, update_from_output, vars
    <2> QED
      BY <2>1 DEF Budget
  <1>2. CASE BeginSchedule
    BY <1>2, BudgetBegin
  <1>3. CASE ScheduleRunning
    BY <1>3, BudgetGrant
  <1>4. CASE EndRunning \/ EndWaiting \/ PassWaiting \/ RequeuePassed \/ PreemptRunning
    <2>1. /\ conf' = conf /\ cur \in CallType /\ cur' \in CallType /\ cur'.step = cur.step
          /\ cur'.decoding = cur.decoding /\ cur'.prefill = cur.prefill
      BY <1>4, LocalEffect, PassEffect, RequeueEffect, PreemptEffect DEF QueueInv
    <2> QED
      BY <2>1, BudgetSame
  <1>5. CASE AdmitWaiting
    BY <1>5, BudgetAdmit
  <1>6. CASE ReturnStep
    BY <1>6, ReturnEffect DEF Budget
  <1> QED
    BY <1>1, <1>2, <1>3, <1>4, <1>5, <1>6 DEF Next, schedule

\* With a decode in progress no step gives more than decode_prefill_token_budget
\* tokens to requests that are catching up, over both loops of schedule(): the
\* running loop charges only requests marked as prefills, and no other request is
\* behind.  (A padded decode that was cut would be: see PadsAreWhole.)
THEOREM PrefillAlwaysWithinBudget ==
    ASSUME NoSessions, PadsHaveRoom, PadsAreWhole
    PROVE  Spec => []PrefillWithinBudget
  <1>1. ASSUME QueueInv, Budget PROVE PrefillWithinBudget
    <2>1. SUFFICES ASSUME conf.decodeAware, cur /= Idle
                   PROVE  Behind(cur.step) =< IF cur.decoding THEN conf.decodeBudget ELSE conf.idleBudget
      BY DEF PrefillWithinBudget, Behind
    <2>2. cur \in CallType /\ conf \in Configs
      BY <1>1, <2>1, InCall DEF QueueInv, Types
    <2>3. cur.prefill \in Int
      BY <2>2, CallTyped DEF TypedCall
    <2>4. Behind(cur.step) \in Int
      <3> DEFINE st == cur.step
                 f == [x \in DOMAIN st |-> st[x].n]
                 S == {x \in DOMAIN st : st[x].behind}
      <3>1. st \in Steps /\ IsFiniteSet(DOMAIN st)
        BY <1>1, <2>2, StepFinite
      <3>2. Behind(st) = SumOver(f, S)
        BY TotalSum DEF Behind
      <3> HIDE DEF st
      <3>3. \A x \in S : f[x] \in Int
        BY <3>1, StepShares DEF ShareType
      <3>4. S \subseteq DOMAIN st
        OBVIOUS
      <3>5. IsFiniteSet(S)
        BY <3>1, <3>4, FS_Subset
      <3> HIDE DEF f, S
      <3>6. SumOver(f, S) \in Int
        BY <3>3, <3>5, SumType
      <3> QED
        BY <3>2, <3>6 DEF st
    <2>5. /\ cur.prefill >= 0
          /\ Behind(cur.step) + cur.prefill =< IF cur.decoding THEN conf.decodeBudget ELSE conf.idleBudget
      BY <1>1, <2>1 DEF Budget
    <2>6. conf.decodeBudget \in Nat /\ conf.idleBudget \in Nat
      BY <2>2, Numbers
    <2> QED
      BY <2>3, <2>4, <2>5, <2>6
  <1>2. Init => QueueInv /\ PipeInv /\ Budget
    BY QueueInit, PipeInit DEF Init, Budget
  <1>3. QueueInv /\ PipeInv /\ Budget /\ [Next]_vars => QueueInv' /\ PipeInv' /\ Budget'
    BY QueueStep, PipeStep, BudgetStep
  <1>4. QueueInv /\ Budget => PrefillWithinBudget
    BY <1>1
  <1> QED
    BY <1>2, <1>3, <1>4, PTL DEF Spec
=============================================================================
