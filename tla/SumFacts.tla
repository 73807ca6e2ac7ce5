------------------------------ MODULE SumFacts ------------------------------
(***************************************************************************)
(* Sums over finite sets, as the models write them with MapThenSumSet.     *)
(*                                                                         *)
(* The fold is a recursive function over the subsets of the set.  Its      *)
(* existence, and what is said of its values, are shown by induction on    *)
(* the number of elements, in the form of the smallest counterexample: a   *)
(* non-empty set of naturals has a least element.                          *)
(***************************************************************************)
EXTENDS Integers, Sequences, FiniteSets, FiniteSetsExt, FiniteSetTheorems, WellFoundedInduction, TLAPS

\* A non-empty set of naturals has a least element.
LEMMA LeastNatural ==
    ASSUME NEW S, S \subseteq Nat, S /= {}
    PROVE  \E x \in S : \A y \in S : x =< y
  <1> DEFINE R == OpToRel(<, Nat)
  <1>1. IsWellFoundedOn(R, Nat)
    BY NatLessThanWellFounded
  <1>2. \A a, b \in Nat : a < b => <<a, b>> \in R
    BY Zenon DEF OpToRel
  <1> HIDE DEF R
  <1>3. PICK x \in S : \A y \in S : ~(<<y, x>> \in R)
    BY <1>1, WFMin
  <1>4. ASSUME NEW y \in S PROVE x =< y
    <2>1. x \in Nat /\ y \in Nat
      OBVIOUS
    <2>2. ~(y < x)
      BY <1>2, <1>3, <2>1, Zenon
    <2> QED
      BY <2>1, <2>2
  <1> QED
    BY <1>4

\* The element that the sum takes next, and the rest.
Pick(s) == CHOOSE x \in s : TRUE
Rest(s) == s \ {Pick(s)}

\* g[s] is the sum of f over s, for every subset s of S.
IsSum(g, f, S) ==
    g = [s \in SUBSET S |-> IF s = {} THEN 0 ELSE f[Pick(s)] + g[Rest(s)]]

\* The sum of f over S.
SumOver(f, S) == MapThenSumSet(LAMBDA x : f[x], S)

\* Without the element it takes next, a set is smaller by one.
LEMMA RestOf ==
    ASSUME NEW S, IsFiniteSet(S), NEW s \in SUBSET S, s /= {}
    PROVE  /\ Pick(s) \in s /\ Rest(s) \in SUBSET S
           /\ Cardinality(s) \in Nat /\ Cardinality(Rest(s)) \in Nat
           /\ Cardinality(Rest(s)) = Cardinality(s) - 1
  <1>1. IsFiniteSet(s)
    BY FS_Subset
  <1>2. Pick(s) \in s
    BY DEF Pick
  <1>3. /\ IsFiniteSet(s \ {Pick(s)})
        /\ Cardinality(s \ {Pick(s)}) = Cardinality(s) - 1
    BY <1>1, <1>2, FS_RemoveElement
  <1> QED
    BY <1>1, <1>2, <1>3, FS_CardinalityType DEF Rest

\* Induction on finite subsets: a set of subsets that has the empty set, and each
\* subset whose rest it has, has them all.
LEMMA SubsetInduction ==
    ASSUME NEW S, IsFiniteSet(S), NEW Good,
           {} \in Good,
           \A s \in SUBSET S : s /= {} /\ Rest(s) \in Good => s \in Good
    PROVE  SUBSET S \subseteq Good
  <1> DEFINE Bad == {s \in SUBSET S : s \notin Good}
             Sizes == {Cardinality(s) : s \in Bad}
  <1>1. SUFFICES ASSUME Bad /= {} PROVE FALSE
    OBVIOUS
  <1>2. \A s \in Bad : IsFiniteSet(s) /\ Cardinality(s) \in Nat
    BY FS_Subset, FS_CardinalityType
  <1>3. Sizes \subseteq Nat /\ Sizes /= {}
    BY <1>1, <1>2
  <1>4. PICK n \in Sizes : \A m \in Sizes : n =< m
    BY <1>3, LeastNatural
  <1>5. PICK s \in Bad : n = Cardinality(s)
    BY <1>4
  <1>6. s \in SUBSET S /\ s /= {} /\ s \notin Good
    OBVIOUS
  <1>7. /\ Rest(s) \in SUBSET S
        /\ Cardinality(s) \in Nat /\ Cardinality(Rest(s)) = Cardinality(s) - 1
    BY <1>6, RestOf
  <1>8. Rest(s) \in Bad
    BY <1>6, <1>7
  <1>9. Cardinality(s) =< Cardinality(Rest(s))
    BY <1>4, <1>5, <1>8
  <1> QED
    BY <1>7, <1>9

\* The recursive function that the fold chooses exists.  It is put together from
\* the functions that sum up over the subsets with at most n elements.
LEMMA SumExists ==
    ASSUME NEW S, IsFiniteSet(S), NEW f, \A x \in S : f[x] \in Int
    PROVE  \E g : IsSum(g, f, S)
  <1> DEFINE Upto(n) == {s \in SUBSET S : Cardinality(s) =< n}
             Value(g, s) == IF s = {} THEN 0 ELSE f[Pick(s)] + g[Rest(s)]
             Sums(g, n) == \A s \in Upto(n) : g[s] = Value(g, s)
             Bad == {n \in Nat : ~ \E g : Sums(g, n)}
  <1>0. \A s \in SUBSET S : IsFiniteSet(s) /\ Cardinality(s) \in Nat
    BY FS_Subset, FS_CardinalityType
  <1>1. Bad = {}
    <2>1. SUFFICES ASSUME Bad /= {} PROVE FALSE
      OBVIOUS
    <2>2. PICK n \in Bad : \A m \in Bad : n =< m
      BY <2>1, LeastNatural
    <2>3. n \in Nat /\ ~ \E g : Sums(g, n)
      BY <2>2
    <2>4. CASE n = 0
      <3> DEFINE g == [s \in SUBSET S |-> 0]
      <3>1. \A s \in Upto(0) : s = {}
        BY <1>0, FS_EmptySet
      <3>2. Sums(g, 0)
        BY <3>1
      <3> QED
        BY <2>3, <2>4, <3>2
    <2>5. CASE n /= 0
      <3>1. n - 1 \in Nat /\ ~(n =< n - 1)
        BY <2>3, <2>5
      <3>2. n - 1 \notin Bad
        BY <2>2, <3>1
      <3>3. PICK h : Sums(h, n - 1)
        BY <3>1, <3>2
      <3> DEFINE g == [s \in SUBSET S |-> IF Cardinality(s) =< n - 1 THEN h[s] ELSE Value(h, s)]
      <3>4. ASSUME NEW s \in Upto(n) PROVE g[s] = Value(g, s)
        <4>1. s \in SUBSET S /\ Cardinality(s) \in Nat /\ Cardinality(s) =< n
          BY <1>0
        <4>2. g[s] = Value(h, s)
          <5>1. CASE Cardinality(s) =< n - 1
            BY <3>3, <4>1, <5>1
          <5>2. CASE ~(Cardinality(s) =< n - 1)
            BY <4>1, <5>2
          <5> QED
            BY <5>1, <5>2
        <4>3. CASE s = {}
          BY <4>2, <4>3
        <4>4. CASE s /= {}
          <5>1. /\ Rest(s) \in SUBSET S /\ Cardinality(Rest(s)) \in Nat
                /\ Cardinality(Rest(s)) = Cardinality(s) - 1
            BY <4>1, <4>4, RestOf
          <5>2. Cardinality(Rest(s)) =< n - 1
            BY <4>1, <5>1, <2>3
          <5>3. g[Rest(s)] = h[Rest(s)]
            BY <5>1, <5>2
          <5> HIDE DEF g
          <5> QED
            BY <4>2, <4>4, <5>3
        <4> QED
          BY <4>3, <4>4
      <3> HIDE DEF g
      <3>5. Sums(g, n)
        BY <3>4
      <3> QED
        BY <2>3, <3>5
    <2> QED
      BY <2>4, <2>5
  <1>2. Cardinality(S) \in Nat
    BY FS_CardinalityType
  <1>3. PICK h : Sums(h, Cardinality(S))
    BY <1>1, <1>2
  <1>4. \A s \in SUBSET S : s \in Upto(Cardinality(S))
    BY FS_Subset
  <1> DEFINE g == [s \in SUBSET S |-> h[s]]
  <1>5. ASSUME NEW s \in SUBSET S PROVE g[s] = Value(g, s)
    <2>1. h[s] = Value(h, s)
      BY <1>3, <1>4
    <2>2. s /= {} => Rest(s) \in SUBSET S
      BY RestOf
    <2> QED
      BY <2>1, <2>2
  <1>6. g = [s \in SUBSET S |-> g[s]]
    OBVIOUS
  <1> HIDE DEF g
  <1>7. g = [s \in SUBSET S |-> Value(g, s)]
    BY <1>5, <1>6
  <1> QED
    BY <1>7 DEF IsSum

\* Hence the sum is the value at S of a function with that equation.
LEMMA SumBy ==
    ASSUME NEW S, IsFiniteSet(S), NEW f, \A x \in S : f[x] \in Int
    PROVE  \E g : /\ SumOver(f, S) = g[S]
                  /\ g[{}] = 0
                  /\ \A s \in SUBSET S : s /= {} => g[s] = f[Pick(s)] + g[Rest(s)]
  <1> DEFINE g == CHOOSE h : IsSum(h, f, S)
  <1>1. IsSum(g, f, S)
    BY SumExists
  <1>2. SumOver(f, S) = g[S]
    BY Zenon DEF SumOver, MapThenSumSet, MapThenFoldSet, IsSum, Pick, Rest
  <1> HIDE DEF g
  <1>3. g[{}] = 0 /\ \A s \in SUBSET S : s /= {} => g[s] = f[Pick(s)] + g[Rest(s)]
    BY <1>1 DEF IsSum
  <1> QED
    BY <1>2, <1>3

\* A sum of integers that lie between 0 and the terms of another sum lies between
\* 0 and that sum.
LEMMA SumBounds ==
    ASSUME NEW S, IsFiniteSet(S), NEW f, NEW g,
           \A x \in S : g[x] \in Nat /\ f[x] \in 0 .. g[x]
    PROVE  SumOver(g, S) \in Nat /\ SumOver(f, S) \in 0 .. SumOver(g, S)
  <1>1. \A x \in S : f[x] \in Int /\ g[x] \in Int
    OBVIOUS
  <1>2. PICK F : /\ SumOver(f, S) = F[S]
                 /\ F[{}] = 0
                 /\ \A s \in SUBSET S : s /= {} => F[s] = f[Pick(s)] + F[Rest(s)]
    BY <1>1, SumBy
  <1>3. PICK G : /\ SumOver(g, S) = G[S]
                 /\ G[{}] = 0
                 /\ \A s \in SUBSET S : s /= {} => G[s] = g[Pick(s)] + G[Rest(s)]
    BY <1>1, SumBy
  <1> DEFINE Good == {s \in SUBSET S : G[s] \in Nat /\ F[s] \in 0 .. G[s]}
  <1>4. {} \in Good
    BY <1>2, <1>3
  <1>5. ASSUME NEW s \in SUBSET S, s /= {}, Rest(s) \in Good PROVE s \in Good
    <2>1. Pick(s) \in S
      BY <1>5, RestOf
    <2>2. F[s] = f[Pick(s)] + F[Rest(s)] /\ G[s] = g[Pick(s)] + G[Rest(s)]
      BY <1>2, <1>3, <1>5
    <2>3. /\ g[Pick(s)] \in Nat /\ f[Pick(s)] \in 0 .. g[Pick(s)]
          /\ G[Rest(s)] \in Nat /\ F[Rest(s)] \in 0 .. G[Rest(s)]
      BY <1>5, <2>1
    <2>4. G[s] \in Nat /\ F[s] \in 0 .. G[s]
      BY <2>2, <2>3
    <2> QED
      BY <1>5, <2>4
  <1>6. S \in Good
    <2> HIDE DEF Good
    <2> QED
      BY <1>4, <1>5, SubsetInduction
  <1> QED
    BY <1>2, <1>3, <1>6
\* A sum of integers is an integer, and the empty sum is 0.
LEMMA SumType ==
    ASSUME NEW S, IsFiniteSet(S), NEW f, \A x \in S : f[x] \in Int
    PROVE  SumOver(f, S) \in Int /\ (S = {} => SumOver(f, S) = 0)
  <1>1. PICK F : /\ SumOver(f, S) = F[S]
                 /\ F[{}] = 0
                 /\ \A s \in SUBSET S : s /= {} => F[s] = f[Pick(s)] + F[Rest(s)]
    BY SumBy
  <1> DEFINE Good == {s \in SUBSET S : F[s] \in Int}
  <1>2. {} \in Good
    BY <1>1
  <1>3. ASSUME NEW s \in SUBSET S, s /= {}, Rest(s) \in Good PROVE s \in Good
    <2>1. Pick(s) \in S
      BY <1>3, RestOf
    <2>2. F[s] = f[Pick(s)] + F[Rest(s)] /\ F[Rest(s)] \in Int
      BY <1>1, <1>3
    <2> QED
      BY <1>3, <2>1, <2>2
  <1>4. S \in Good
    <2> HIDE DEF Good
    <2> QED
      BY <1>2, <1>3, SubsetInduction
  <1> QED
    BY <1>1, <1>4

\* A sum takes its own next element first.
LEMMA SumPick ==
    ASSUME NEW S, IsFiniteSet(S), S /= {}, NEW f, \A x \in S : f[x] \in Int
    PROVE  SumOver(f, S) = f[Pick(S)] + SumOver(f, Rest(S))
  <1>1. PICK F : /\ SumOver(f, S) = F[S]
                 /\ F[{}] = 0
                 /\ \A s \in SUBSET S : s /= {} => F[s] = f[Pick(s)] + F[Rest(s)]
    BY SumBy
  <1>2. Rest(S) \in SUBSET S /\ IsFiniteSet(Rest(S))
    BY RestOf, FS_Subset
  <1>3. PICK G : /\ SumOver(f, Rest(S)) = G[Rest(S)]
                 /\ G[{}] = 0
                 /\ \A s \in SUBSET Rest(S) : s /= {} => G[s] = f[Pick(s)] + G[Rest(s)]
    BY <1>2, SumBy
  <1> DEFINE Good == {s \in SUBSET Rest(S) : F[s] = G[s]}
  <1>4. {} \in Good
    BY <1>1, <1>3
  <1>5. ASSUME NEW s \in SUBSET Rest(S), s /= {}, Rest(s) \in Good PROVE s \in Good
    BY <1>1, <1>2, <1>3, <1>5
  <1>6. Rest(S) \in Good
    <2> HIDE DEF Good
    <2> QED
      BY <1>2, <1>4, <1>5, SubsetInduction
  <1> QED
    BY <1>1, <1>3, <1>6

\* The order does not matter: any element can be taken first.
LEMMA SumRemove ==
    ASSUME NEW S, IsFiniteSet(S), NEW f, \A x \in S : f[x] \in Int, NEW a \in S
    PROVE  SumOver(f, S) = f[a] + SumOver(f, S \ {a})
  <1> DEFINE Holds(s) == \A x \in s : SumOver(f, s) = f[x] + SumOver(f, s \ {x})
             Bad == {s \in SUBSET S : ~Holds(s)}
             Sizes == {Cardinality(s) : s \in Bad}
  <1>0. ASSUME NEW s \in SUBSET S PROVE IsFiniteSet(s) /\ Cardinality(s) \in Nat
    BY FS_Subset, FS_CardinalityType
  <1>1. SUFFICES ASSUME Bad /= {} PROVE FALSE
    <2>1. S \notin Bad
      BY <1>1
    <2> QED
      BY <2>1
  <1>2. Sizes \subseteq Nat /\ Sizes /= {}
    BY <1>0, <1>1
  <1>3. PICK m \in Sizes : \A y \in Sizes : m =< y
    <2> HIDE DEF Sizes
    <2> QED
      BY <1>2, LeastNatural
  <1>4. PICK s \in Bad : m = Cardinality(s)
    OBVIOUS
  <1>5. PICK x \in s : SumOver(f, s) /= f[x] + SumOver(f, s \ {x})
    BY <1>4
  <1> DEFINE p == Pick(s)
  <1>6. /\ IsFiniteSet(s) /\ s \in SUBSET S /\ s /= {} /\ p \in s
        /\ SumOver(f, s) = f[p] + SumOver(f, s \ {p})
    BY <1>0, <1>5, RestOf, SumPick DEF Rest
  <1> HIDE DEF p
  <1>7. p /= x
    BY <1>5, <1>6
  <1>8. ASSUME NEW y \in s PROVE Holds(s \ {y})
    <2>1. Cardinality(s \ {y}) = Cardinality(s) - 1
      BY <1>6, FS_RemoveElement
    <2>2. s \ {y} \in SUBSET S /\ Cardinality(s) \in Nat
      BY <1>0, <1>6
    <2>3. s \ {y} \notin Bad
      <3>1. SUFFICES ASSUME s \ {y} \in Bad PROVE FALSE
        OBVIOUS
      <3>2. Cardinality(s \ {y}) \in Sizes
        BY <3>1
      <3>3. m =< Cardinality(s \ {y})
        <4> HIDE DEF Sizes, Bad
        <4> QED
          BY <1>3, <3>2
      <3> QED
        BY <1>4, <2>1, <2>2, <3>3
    <2> QED
      BY <2>2, <2>3
  <1>9. SumOver(f, s \ {p}) = f[x] + SumOver(f, (s \ {p}) \ {x})
    BY <1>6, <1>7, <1>8
  <1>10. SumOver(f, s \ {x}) = f[p] + SumOver(f, (s \ {x}) \ {p})
    BY <1>6, <1>7, <1>8
  <1>11. (s \ {p}) \ {x} = (s \ {x}) \ {p}
    OBVIOUS
  <1> DEFINE r == SumOver(f, (s \ {x}) \ {p})
  <1>12. r \in Int
    <2> HIDE DEF Bad
    <2>1. (s \ {x}) \ {p} \in SUBSET S
      BY <1>6
    <2> QED
      BY <1>0, <2>1, SumType
  <1>13. f[x] \in Int /\ f[p] \in Int
    BY <1>6
  <1>14. SumOver(f, s) = f[p] + (f[x] + r)
    BY <1>6, <1>9, <1>11
  <1>15. SumOver(f, s \ {x}) = f[p] + r
    BY <1>10
  <1> HIDE DEF r
  <1> QED
    BY <1>5, <1>12, <1>13, <1>14, <1>15

\* Terms that are 0 do not count: a sum over a part is the sum over the whole of
\* what agrees on the part and is 0 elsewhere.
LEMMA SumFilter ==
    ASSUME NEW S, IsFiniteSet(S), NEW T \in SUBSET S, NEW f, NEW g,
           \A x \in T : f[x] \in Int /\ g[x] = f[x],
           \A x \in S \ T : g[x] = 0
    PROVE  SumOver(f, T) = SumOver(g, S)
  <1> DEFINE Good == {s \in SUBSET S : SumOver(f, s \cap T) = SumOver(g, s)}
  <1>0. \A x \in S : g[x] \in Int
    OBVIOUS
  <1>1. {} \in Good
    <2>1. IsFiniteSet({}) /\ {} \cap T = {}
      BY FS_EmptySet
    <2>2. SumOver(f, {}) = 0 /\ SumOver(g, {}) = 0
      BY <2>1, SumType
    <2> QED
      BY <2>1, <2>2
  <1>2. ASSUME NEW s \in SUBSET S, s /= {}, Rest(s) \in Good PROVE s \in Good
    <2> DEFINE p == Pick(s)
    <2>1. p \in s /\ Rest(s) = s \ {p} /\ IsFiniteSet(s) /\ IsFiniteSet(s \cap T)
      BY <1>2, RestOf, FS_Subset DEF Rest
    <2> HIDE DEF p
    <2>2. SumOver(g, s) = g[p] + SumOver(g, s \ {p})
      BY <1>0, <2>1, SumRemove
    <2>3. SumOver(f, (s \ {p}) \cap T) = SumOver(g, s \ {p})
      BY <1>2, <2>1
    <2>4. SumOver(g, s \ {p}) \in Int
      <3>1. IsFiniteSet(s \ {p})
        BY <2>1, FS_Subset
      <3> QED
        BY <1>0, <3>1, SumType
    <2>5. CASE p \in T
      <3>1. SumOver(f, s \cap T) = f[p] + SumOver(f, (s \cap T) \ {p})
        BY <2>1, <2>5, SumRemove
      <3>2. (s \cap T) \ {p} = (s \ {p}) \cap T
        OBVIOUS
      <3> QED
        BY <2>2, <2>3, <2>5, <3>1, <3>2
    <2>6. CASE p \notin T
      <3>1. (s \ {p}) \cap T = s \cap T
        BY <2>6
      <3>2. g[p] = 0
        BY <2>1, <2>6
      <3>3. SumOver(g, s) = SumOver(g, s \ {p})
        BY <2>2, <2>4, <3>2
      <3>4. SumOver(f, s \cap T) = SumOver(g, s \ {p})
        BY Zenon, <2>3, <3>1
      <3> QED
        BY Zenon, <1>2, <3>3, <3>4
    <2> QED
      BY <2>5, <2>6
  <1>3. S \in Good
    <2> HIDE DEF Good
    <2> QED
      BY <1>1, <1>2, SubsetInduction
  <1>4. S \cap T = T
    OBVIOUS
  <1> QED
    BY <1>3, <1>4

\* The sum of a sequence of integers, and how it grows and shrinks.
SumSeq(w) == SumOver(w, DOMAIN w)

\* A sequence that is not empty is its first term and the rest.
LEMMA SumTail ==
    ASSUME NEW w \in Seq(Int), w /= <<>>
    PROVE  SumSeq(w) = w[1] + SumSeq(Tail(w))
  <1> DEFINE n == Len(w)
             S == 1 .. n
             t == Tail(w)
  <1>1. n \in Nat /\ 1 \in S /\ DOMAIN w = S /\ \A i \in S : w[i] \in Int
    OBVIOUS
  <1>2. DOMAIN t = 1 .. n - 1 /\ \A i \in 1 .. n - 1 : t[i] = w[i + 1]
    OBVIOUS
  <1>3. IsFiniteSet(S) /\ IsFiniteSet(1 .. n - 1)
    BY <1>1, FS_Interval
  <1>4. SumOver(w, S) = w[1] + SumOver(w, S \ {1})
    BY <1>1, <1>3, SumRemove
  <1> HIDE DEF n, S, t
  <1> DEFINE Back(s) == {i + 1 : i \in s}
             Good == {s \in SUBSET (1 .. n - 1) : SumOver(t, s) = SumOver(w, Back(s))}
  <1>5. {} \in Good
    <2>1. IsFiniteSet({}) /\ Back({}) = {}
      BY FS_EmptySet
    <2>2. SumOver(t, {}) = 0 /\ SumOver(w, {}) = 0
      BY <2>1, SumType
    <2> QED
      BY <2>1, <2>2
  <1>6. ASSUME NEW s \in SUBSET (1 .. n - 1), s /= {}, Rest(s) \in Good PROVE s \in Good
    <2> DEFINE p == Pick(s)
    <2>1. p \in s /\ Rest(s) = s \ {p} /\ IsFiniteSet(s)
      BY <1>3, <1>6, RestOf, FS_Subset DEF Rest
    <2> HIDE DEF p
    <2>2. Back(s) \in SUBSET S /\ p + 1 \in Back(s)
      BY <1>1, <2>1 DEF S
    <2>3. Back(s \ {p}) = Back(s) \ {p + 1}
      <3>1. \A i \in s : i \in Int
        BY <1>1
      <3> QED
        BY <2>1, <3>1
    <2>4. IsFiniteSet(Back(s))
      BY <1>3, <2>2, FS_Subset
    <2>5. \A i \in Back(s) : w[i] \in Int
      BY <1>1, <2>2
    <2>6. \A i \in s : t[i] \in Int /\ t[i] = w[i + 1]
      BY <1>1, <1>2 DEF S
    <2>7. SumOver(t, s) = t[p] + SumOver(t, s \ {p})
      BY <2>1, <2>6, SumRemove
    <2>8. SumOver(w, Back(s)) = w[p + 1] + SumOver(w, Back(s) \ {p + 1})
      <3> HIDE DEF Back
      <3> QED
        BY <2>2, <2>4, <2>5, SumRemove
    <2>9. SumOver(t, s \ {p}) = SumOver(w, Back(s \ {p}))
      BY <1>6, <2>1
    <2> QED
      BY <2>1, <2>3, <2>6, <2>7, <2>8, <2>9
  <1>7. (1 .. n - 1) \in Good
    <2> DEFINE all == 1 .. n - 1
    <2>1. IsFiniteSet(all)
      BY <1>3
    <2>2. \A s \in SUBSET all : s /= {} /\ Rest(s) \in Good => s \in Good
      BY <1>6
    <2> HIDE DEF Good, all
    <2>3. SUBSET all \subseteq Good
      BY <1>5, <2>1, <2>2, SubsetInduction
    <2> QED
      BY <2>3 DEF all
  <1>8. Back(1 .. n - 1) = S \ {1}
    <2>1. ASSUME NEW i \in S \ {1} PROVE i \in Back(1 .. n - 1)
      <3>1. i - 1 \in 1 .. n - 1 /\ i = (i - 1) + 1
        BY <1>1 DEF S
      <3> QED
        BY <3>1
    <2>2. ASSUME NEW i \in 1 .. n - 1 PROVE i + 1 \in S \ {1}
      BY <1>1 DEF S
    <2> QED
      BY <2>1, <2>2
  <1> QED
    BY <1>1, <1>2, <1>4, <1>7, <1>8 DEF SumSeq, t

\* One more term.
LEMMA SumAppend ==
    ASSUME NEW w \in Seq(Int), NEW v \in Int
    PROVE  SumSeq(Append(w, v)) = SumSeq(w) + v /\ SumSeq(w) \in Int
  <1> DEFINE n == Len(w)
             S == 1 .. n
             T == 1 .. n + 1
             a == Append(w, v)
  <1>1. /\ n \in Nat /\ DOMAIN w = S /\ DOMAIN a = T /\ T \ {n + 1} = S /\ n + 1 \in T
        /\ a[n + 1] = v /\ \A i \in S : a[i] = w[i] /\ w[i] \in Int
    OBVIOUS
  <1>2. IsFiniteSet(S) /\ IsFiniteSet(T)
    BY <1>1, FS_Interval
  <1>3. \A i \in T : a[i] \in Int
    BY <1>1
  <1> HIDE DEF n, S, T, a
  <1>4. SumOver(a, T) = v + SumOver(a, S)
    BY <1>1, <1>2, <1>3, SumRemove
  <1>5. SumOver(a, S) = SumOver(w, S)
    BY <1>1, <1>2, SumFilter
  <1>6. SumOver(w, S) \in Int
    BY <1>1, <1>2, SumType
  <1> QED
    BY <1>1, <1>4, <1>5, <1>6 DEF SumSeq, a

\* A sum of naturals is a natural; it is 0 exactly if all its terms are.
LEMMA SumPositive ==
    ASSUME NEW w \in Seq(Nat)
    PROVE  /\ SumSeq(w) \in Nat
           /\ SumSeq(w) = 0 <=> \A i \in DOMAIN w : w[i] = 0
  <1> DEFINE S == DOMAIN w
             z == [i \in S |-> 0]
  <1>1. IsFiniteSet(S) /\ \A i \in S : w[i] \in Nat
    <2>1. S = 1 .. Len(w) /\ Len(w) \in Nat
      OBVIOUS
    <2>2. IsFiniteSet(1 .. Len(w))
      BY <2>1, FS_Interval
    <2> QED
      BY <2>1, <2>2
  <1> HIDE DEF S
  <1>2. SumOver(w, S) \in Nat
    BY <1>1, SumBounds
  <1>3. ASSUME \A i \in S : w[i] = 0 PROVE SumOver(w, S) = 0
    <2>1. IsFiniteSet({}) /\ {} \in SUBSET S
      BY FS_EmptySet
    <2>2. SumOver(w, {}) = SumOver(w, S)
      BY <1>1, <1>3, <2>1, SumFilter
    <2> QED
      BY <2>1, <2>2, SumType
  <1>4. ASSUME NEW i \in S, w[i] /= 0 PROVE SumOver(w, S) /= 0
    <2>1. SumOver(w, S) = w[i] + SumOver(w, S \ {i})
      BY <1>1, SumRemove
    <2>2. SumOver(w, S \ {i}) \in Nat
      <3>1. IsFiniteSet(S \ {i})
        BY <1>1, FS_Subset
      <3> QED
        BY <1>1, <3>1, SumBounds
    <2> QED
      BY <1>1, <1>4, <2>1, <2>2
  <1> QED
    BY <1>2, <1>3, <1>4 DEF SumSeq, S
=============================================================================
