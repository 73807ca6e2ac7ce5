----------------------- MODULE PublicationGateProofs -----------------------
(***************************************************************************)
(* What the publication gate writes is supported by its own evidence, for  *)
(* every set of receipts, pools, claims and promoters.                     *)
(*                                                                         *)
(* The argument is locality: a derivation that succeeds on a pool gives    *)
(* the same result on any part of the pool that keeps the receipts it      *)
(* rests on.  Promotion re-derives the entries it carries along, and by    *)
(* locality the entry it adds would pass the same re-derivation.           *)
(*                                                                         *)
(* That the entries of one file cohere follows from another fact about the *)
(* derivations: every key of a derived subject is what certain receipts of *)
(* the pool, its anchors, say, and the evidence holds an anchor.           *)
(***************************************************************************)
EXTENDS PublicationGate, TLAPS

\* The part `sub' of a pool keeps the receipts `ids' (the hypothesis of the
\* locality lemmas).
Keeps(sub, pool, ids) == ids \subseteq sub /\ sub \subseteq pool

\* A part of the pool that keeps the receipts of some types has the same
\* receipts of these types, all together and type by type.
LEMMA OfTypeLocal ==
    ASSUME NEW pool, NEW sub, NEW T, Keeps(sub, pool, OfType(pool, T))
    PROVE  /\ OfType(sub, T) = OfType(pool, T)
           /\ \A t \in T : OfType(sub, {t}) = OfType(pool, {t})
  BY DEF OfType, Keeps

\* _one_pass gives the same answer there.
LEMMA OnePassLocal ==
    ASSUME NEW pool, NEW sub, NEW T, Keeps(sub, pool, OfType(pool, T)),
           OnePassEach(pool, T)
    PROVE  OnePassEach(sub, T)
<1>1. SUFFICES ASSUME NEW t \in T PROVE OnePass(sub, t)
  BY DEF OnePassEach
<1>2. OnePass(pool, t)
  BY DEF OnePassEach
<1>3. OfType(sub, {t}) = OfType(pool, {t})
  BY OfTypeLocal
<1>4. QED
  BY <1>2, <1>3 DEF OnePass

\* A derivation that succeeded has its record.
LEMMA DerivedFields ==
    ASSUME NEW s, NEW i
    PROVE  Derived(s, i).ok /\ Derived(s, i).subject = s /\ Derived(s, i).ids = i
  BY DEF Derived

\* A refused derivation did not succeed.
LEMMA RefusedFails == ~Refused.ok
  BY DEF Refused

\* Locality of _derive_source.
LEMMA SourceLocal ==
    ASSUME NEW pool, NEW sub, DeriveSource(pool).ok,
           Keeps(sub, pool, DeriveSource(pool).ids)
    PROVE  DeriveSource(sub) = DeriveSource(pool)
<1> DEFINE items == OfType(pool, SourceTypes)
<1>1. OnePassEach(pool, SourceTypes) /\ HasCommonSubject(items, SourceKeys)
  BY RefusedFails DEF DeriveSource
<1>2. DeriveSource(pool) = Derived(CommonSubject(items, SourceKeys), items)
  BY <1>1 DEF DeriveSource
<1>3. Keeps(sub, pool, items)
  BY <1>2, DerivedFields
<1>4. OfType(sub, SourceTypes) = items /\ OnePassEach(sub, SourceTypes)
  BY <1>1, <1>3, OfTypeLocal, OnePassLocal
<1>5. QED
  BY <1>1, <1>2, <1>4 DEF DeriveSource

\* Locality of _derive_model.
LEMMA ModelLocal ==
    ASSUME NEW pool, NEW sub, DeriveModel(pool).ok,
           Keeps(sub, pool, DeriveModel(pool).ids)
    PROVE  DeriveModel(sub) = DeriveModel(pool)
<1> DEFINE types == {"checkpoint-license", "sidecar-license"}
           checkpoint == OfType(pool, {"checkpoint-license"})
           sidecar == OfType(pool, {"sidecar-license"})
           identity == [k \in ModelKeys |->
               CommonSubject(IF k = "model_id" THEN checkpoint ELSE sidecar, {k})[k]]
<1>1. /\ OnePassEach(pool, types)
      /\ \A r \in checkpoint \cup sidecar : r.cleared
      /\ HasCommonSubject(checkpoint, {"model_id"})
      /\ HasCommonSubject(sidecar, {"sidecar_id"})
  BY RefusedFails DEF DeriveModel
<1>2. DeriveModel(pool) = Derived(identity, checkpoint \cup sidecar)
  BY <1>1 DEF DeriveModel
<1>3. Keeps(sub, pool, OfType(pool, types))
  <2>1. DeriveModel(pool).ids = checkpoint \cup sidecar
    BY <1>2, DerivedFields
  <2>2. OfType(pool, types) = checkpoint \cup sidecar
    BY DEF OfType
  <2>3. QED
    BY <2>1, <2>2
<1>4. /\ OfType(sub, {"checkpoint-license"}) = checkpoint
      /\ OfType(sub, {"sidecar-license"}) = sidecar
  BY <1>3, OfTypeLocal
<1>5. OnePassEach(sub, types)
  BY <1>1, <1>3, OnePassLocal
<1>6. QED
  BY <1>1, <1>2, <1>4, <1>5 DEF DeriveModel

\* Locality of _derive_clean.
LEMMA CleanLocal ==
    ASSUME NEW pool, NEW sub, DeriveClean(pool).ok,
           Keeps(sub, pool, DeriveClean(pool).ids)
    PROVE  DeriveClean(sub) = DeriveClean(pool)
<1> DEFINE source == DeriveSource(pool)
           items == OfType(pool, BuildTypes)
           subject == CommonSubject(items, BuildKeys)
<1>1. /\ source.ok
      /\ OnePassEach(pool, BuildTypes)
      /\ HasCommonSubject(items, BuildKeys)
      /\ Agrees(subject, source.subject)
  BY RefusedFails DEF DeriveClean
<1>2. DeriveClean(pool) = Derived(subject, source.ids \cup items)
  BY <1>1 DEF DeriveClean
<1>3. Keeps(sub, pool, source.ids) /\ Keeps(sub, pool, items)
  BY <1>2, DerivedFields DEF Keeps
<1>4. DeriveSource(sub) = source
  BY <1>1, <1>3, SourceLocal
<1>5. OfType(sub, BuildTypes) = items /\ OnePassEach(sub, BuildTypes)
  BY <1>1, <1>3, OfTypeLocal, OnePassLocal
<1>6. QED
  BY <1>1, <1>2, <1>4, <1>5 DEF DeriveClean

\* Locality carries over to the receipts of one profile.
LEMMA ProfileLocal ==
    ASSUME NEW pool, NEW sub, NEW profile, NEW T,
           Keeps(sub, pool, OfType(OfProfile(pool, profile), T))
    PROVE  Keeps(OfProfile(sub, profile), OfProfile(pool, profile),
                 OfType(OfProfile(pool, profile), T))
  BY DEF Keeps, OfType, OfProfile

\* Locality of _derive_live.
LEMMA LiveLocal ==
    ASSUME NEW pool, NEW sub, NEW profile, DeriveLive(pool, profile).ok,
           Keeps(sub, pool, DeriveLive(pool, profile).ids)
    PROVE  DeriveLive(sub, profile) = DeriveLive(pool, profile)
<1> DEFINE clean == DeriveClean(pool)
           model == DeriveModel(pool)
           types == LiveTypesOf(profile)
           items == OfType(OfProfile(pool, profile), types)
           subject == CommonSubject(items, LiveKeysOf(profile))
<1>1. /\ profile \in Profiles
      /\ clean.ok
      /\ model.ok
      /\ OnePassEach(OfProfile(pool, profile), types)
      /\ HasCommonSubject(items, LiveKeysOf(profile))
      /\ Agrees(subject, clean.subject)
      /\ Agrees(subject, model.subject)
  BY RefusedFails DEF DeriveLive
<1>2. DeriveLive(pool, profile) = Derived(subject, clean.ids \cup model.ids \cup items)
  BY <1>1 DEF DeriveLive
<1>3. Keeps(sub, pool, clean.ids) /\ Keeps(sub, pool, model.ids) /\ Keeps(sub, pool, items)
  BY <1>2, DerivedFields DEF Keeps
<1>4. DeriveClean(sub) = clean /\ DeriveModel(sub) = model
  BY <1>1, <1>3, CleanLocal, ModelLocal
<1>5. /\ OfType(OfProfile(sub, profile), types) = items
      /\ OnePassEach(OfProfile(sub, profile), types)
  BY <1>1, <1>3, ProfileLocal, OfTypeLocal, OnePassLocal
<1>6. QED
  BY <1>1, <1>2, <1>4, <1>5 DEF DeriveLive

\* Locality of _derive_benchmark.
LEMMA BenchmarkLocal ==
    ASSUME NEW pool, NEW sub, NEW profile, DeriveBenchmark(pool, profile).ok,
           Keeps(sub, pool, DeriveBenchmark(pool, profile).ids)
    PROVE  DeriveBenchmark(sub, profile) = DeriveBenchmark(pool, profile)
<1> DEFINE live == DeriveLive(pool, profile)
           attempts == OfType(OfProfile(pool, profile), {"battery"})
<1>1. live.ok
  BY RefusedFails DEF DeriveBenchmark
<1>2. DeriveBenchmark(pool, profile) = Derived(live.subject, live.ids \cup attempts)
  BY RefusedFails DEF DeriveBenchmark
<1>3. Keeps(sub, pool, live.ids) /\ Keeps(sub, pool, attempts)
  BY <1>2, DerivedFields DEF Keeps
<1>4. DeriveLive(sub, profile) = live
  BY <1>1, <1>3, LiveLocal
<1>5. OfType(OfProfile(sub, profile), {"battery"}) = attempts
  BY <1>3, ProfileLocal, OfTypeLocal
<1>6. QED
  BY <1>4, <1>5 DEF DeriveBenchmark

\* Locality of the three-profile suite.
LEMMA SuiteLocal ==
    ASSUME NEW pool, NEW sub, DeriveSuite(pool).ok,
           Keeps(sub, pool, DeriveSuite(pool).ids)
    PROVE  DeriveSuite(sub) = DeriveSuite(pool)
<1> DEFINE results(S) == {DeriveBenchmark(S, profile) : profile \in Profiles}
           shared(S) == [k \in BuildKeys \cup ModelKeys |->
                            DeriveBenchmark(S, FastProfile).subject[k]]
<1>1. \A d \in results(pool) : d.ok
  BY RefusedFails DEF DeriveSuite
<1>2. DeriveSuite(pool) = Derived(shared(pool), UNION {d.ids : d \in results(pool)})
  BY RefusedFails DEF DeriveSuite
<1>3. ASSUME NEW profile \in Profiles
      PROVE  DeriveBenchmark(sub, profile) = DeriveBenchmark(pool, profile)
  <2>1. DeriveBenchmark(pool, profile).ok
    BY <1>1
  <2>2. Keeps(sub, pool, DeriveBenchmark(pool, profile).ids)
    <3>1. DeriveSuite(pool).ids = UNION {d.ids : d \in results(pool)}
      BY <1>2, DerivedFields
    <3>2. DeriveBenchmark(pool, profile).ids \subseteq DeriveSuite(pool).ids
      BY <3>1
    <3>3. QED
      BY <3>2 DEF Keeps
  <2>3. QED
    BY <2>1, <2>2, BenchmarkLocal
<1>4. results(sub) = results(pool)
  BY <1>3
<1>5. shared(sub) = shared(pool)
  BY <1>3, GateAssumption DEF GateAssumption
<1>6. QED
  BY <1>4, <1>5 DEF DeriveSuite

\* Locality of bit-reproducible: the receipts of type build-produced are in the
\* chains, so the part of the pool has the same two digests.
LEMMA BitLocal ==
    ASSUME NEW pool, NEW sub, DeriveBitReproducible(pool).ok,
           Keeps(sub, pool, DeriveBitReproducible(pool).ids)
    PROVE  DeriveBitReproducible(sub) = DeriveBitReproducible(pool)
<1> DEFINE comparison(S) == OfType(S, {"build-comparison"})
           digests(S) == {r.subject["image_digest"] : r \in OfType(S, {"build-produced"})}
           ChainOf(S, d) == {r \in OfType(S, BuildTypes) : r.subject["image_digest"] = d}
           chains(S) == UNION {ChainOf(S, d) : d \in digests(S)}
           stable(S) == CommonSubject(chains(S), StableKeys)
           source(S) == DeriveSource(S)
           Holds(S) ==
             /\ OnePass(S, "build-comparison")
             /\ \A r \in comparison(S) : r.cleared
             /\ source(S).ok
             /\ NoId \notin digests(S)
             /\ \E d, e \in digests(S) : d # e /\ digests(S) = {d, e}
             /\ \A d \in digests(S) :
                  /\ OnePassEach(ChainOf(S, d), BuildTypes)
                  /\ HasCommonSubject(ChainOf(S, d), BuildKeys)
             /\ HasCommonSubject(chains(S), StableKeys)
             /\ Agrees(stable(S), source(S).subject)
             /\ \A r \in comparison(S) : Agrees(r.subject, stable(S))
           Result(S) == Derived(stable(S), source(S).ids \cup chains(S) \cup comparison(S))
<1>1. \A S : DeriveBitReproducible(S) = IF Holds(S) THEN Result(S) ELSE Refused
  BY DEF DeriveBitReproducible
<1>2. Holds(pool)
  <2> HIDE DEF Holds, Result
  <2> QED BY <1>1, RefusedFails
<1>3. DeriveBitReproducible(pool).ids = source(pool).ids \cup chains(pool) \cup comparison(pool)
  <2>1. DeriveBitReproducible(pool) = Result(pool)
    <3> HIDE DEF Holds, Result
    <3> QED BY <1>1, <1>2
  <2>2. QED
    BY <2>1, DerivedFields
<1>4. /\ Keeps(sub, pool, source(pool).ids)
      /\ Keeps(sub, pool, chains(pool))
      /\ Keeps(sub, pool, comparison(pool))
  <2> HIDE DEF source, chains, comparison
  <2> QED BY <1>3 DEF Keeps
<1>5. source(sub) = source(pool)
  BY <1>2, <1>4, SourceLocal
<1>6. comparison(sub) = comparison(pool) /\ OnePass(sub, "build-comparison")
  <2>1. OnePassEach(pool, {"build-comparison"})
    BY <1>2 DEF OnePassEach
  <2>2. OnePassEach(sub, {"build-comparison"})
    BY <2>1, <1>4, OnePassLocal
  <2>3. QED
    BY <2>2, <1>4, OfTypeLocal DEF OnePassEach
<1>7. OfType(pool, {"build-produced"}) \subseteq chains(pool)
  <2>1. SUFFICES ASSUME NEW r \in OfType(pool, {"build-produced"})
                 PROVE  r \in chains(pool)
    OBVIOUS
  <2>2. r \in ChainOf(pool, r.subject["image_digest"])
    BY GateAssumption DEF OfType, GateAssumption
  <2>3. r.subject["image_digest"] \in digests(pool)
    OBVIOUS
  <2>4. QED
    BY <2>2, <2>3
<1>8. digests(sub) = digests(pool)
  <2>1. Keeps(sub, pool, OfType(pool, {"build-produced"}))
    BY <1>4, <1>7 DEF Keeps
  <2>2. OfType(sub, {"build-produced"}) = OfType(pool, {"build-produced"})
    BY <2>1, OfTypeLocal
  <2>3. QED
    BY <2>2
<1>9. \A d \in digests(pool) : ChainOf(sub, d) = ChainOf(pool, d)
  <2>1. SUFFICES ASSUME NEW d \in digests(pool)
                 PROVE  ChainOf(sub, d) = ChainOf(pool, d)
    OBVIOUS
  <2>2. ChainOf(pool, d) \subseteq chains(pool)
    OBVIOUS
  <2>3. ChainOf(pool, d) \subseteq sub /\ sub \subseteq pool
    BY <2>2, <1>4 DEF Keeps
  <2>4. QED
    BY <2>3 DEF OfType
<1>10. chains(sub) = chains(pool)
  <2>1. {ChainOf(sub, d) : d \in digests(sub)} = {ChainOf(pool, d) : d \in digests(pool)}
    <3> HIDE DEF ChainOf, digests
    <3> QED BY <1>8, <1>9
  <2>2. QED
    BY <2>1
<1>11. Holds(sub) /\ Result(sub) = Result(pool)
  BY <1>2, <1>5, <1>6, <1>8, <1>9, <1>10
<1>12. QED
  <2> HIDE DEF Holds, Result
  <2> QED BY <1>1, <1>2, <1>11

\* Locality of anonymous-readback.
LEMMA AnonymousLocal ==
    ASSUME NEW pool, NEW sub, DeriveAnonymous(pool).ok,
           Keeps(sub, pool, DeriveAnonymous(pool).ids)
    PROVE  DeriveAnonymous(sub) = DeriveAnonymous(pool)
<1> DEFINE live == DeriveLive(pool, FastProfile)
           items == OfType(pool, AnonymousTypes)
           subject == CommonSubject(items, BuildKeys)
<1>1. /\ live.ok
      /\ OnePassEach(pool, AnonymousTypes)
      /\ HasCommonSubject(items, BuildKeys)
      /\ Agrees(subject, live.subject)
  BY RefusedFails DEF DeriveAnonymous
<1>2. DeriveAnonymous(pool) = Derived(subject, live.ids \cup items)
  BY <1>1 DEF DeriveAnonymous
<1>3. Keeps(sub, pool, live.ids) /\ Keeps(sub, pool, items)
  BY <1>2, DerivedFields DEF Keeps
<1>4. DeriveLive(sub, FastProfile) = live
  BY <1>1, <1>3, LiveLocal
<1>5. OfType(sub, AnonymousTypes) = items /\ OnePassEach(sub, AnonymousTypes)
  BY <1>1, <1>3, OfTypeLocal, OnePassLocal
<1>6. QED
  BY <1>1, <1>2, <1>4, <1>5 DEF DeriveAnonymous

\* Locality of convenience-image-published.
LEMMA PublishedLocal ==
    ASSUME NEW pool, NEW sub, DerivePublished(pool).ok,
           Keeps(sub, pool, DerivePublished(pool).ids)
    PROVE  DerivePublished(sub) = DerivePublished(pool)
<1> DEFINE types == {"registry-license", "registry-publish"}
           clean == DeriveClean(pool)
           items == OfType(pool, types)
<1>1. clean.ok /\ OnePassEach(pool, types)
  BY RefusedFails DEF DerivePublished
<1>2. DerivePublished(pool) = Derived(clean.subject, clean.ids \cup items)
  BY RefusedFails DEF DerivePublished
<1>3. Keeps(sub, pool, clean.ids) /\ Keeps(sub, pool, items)
  BY <1>2, DerivedFields DEF Keeps
<1>4. DeriveClean(sub) = clean
  BY <1>1, <1>3, CleanLocal
<1>5. OfType(sub, types) = items /\ OnePassEach(sub, types)
  BY <1>1, <1>3, OfTypeLocal, OnePassLocal
<1>6. QED
  BY <1>1, <1>4, <1>5 DEF DerivePublished

\* Locality of convenience-image-readback.
LEMMA ReadbackLocal ==
    ASSUME NEW pool, NEW sub, DeriveReadback(pool).ok,
           Keeps(sub, pool, DeriveReadback(pool).ids)
    PROVE  DeriveReadback(sub) = DeriveReadback(pool)
<1> DEFINE types == {"registry-readback"}
           published == DerivePublished(pool)
           items == OfType(pool, types)
<1>1. published.ok /\ OnePassEach(pool, types)
  BY RefusedFails DEF DeriveReadback, OnePassEach
<1>2. DeriveReadback(pool) = Derived(published.subject, published.ids \cup items)
  BY RefusedFails DEF DeriveReadback
<1>3. Keeps(sub, pool, published.ids) /\ Keeps(sub, pool, items)
  BY <1>2, DerivedFields DEF Keeps
<1>4. DerivePublished(sub) = published
  BY <1>1, <1>3, PublishedLocal
<1>5. OfType(sub, types) = items /\ OnePass(sub, "registry-readback")
  BY <1>1, <1>3, OfTypeLocal, OnePassLocal DEF OnePassEach
<1>6. QED
  BY <1>1, <1>4, <1>5 DEF DeriveReadback, OnePassEach

\* The evidence of a derivation is part of the pool, claim by claim.
LEMMA EvidenceInPool ==
    ASSUME NEW pool
    PROVE  /\ DeriveSource(pool).ok => DeriveSource(pool).ids \subseteq pool
           /\ DeriveModel(pool).ok => DeriveModel(pool).ids \subseteq pool
           /\ DeriveClean(pool).ok => DeriveClean(pool).ids \subseteq pool
           /\ \A profile : DeriveLive(pool, profile).ok
                    => DeriveLive(pool, profile).ids \subseteq pool
           /\ \A profile : DeriveBenchmark(pool, profile).ok
                    => DeriveBenchmark(pool, profile).ids \subseteq pool
           /\ DeriveSuite(pool).ok => DeriveSuite(pool).ids \subseteq pool
           /\ DeriveBitReproducible(pool).ok => DeriveBitReproducible(pool).ids \subseteq pool
           /\ DeriveAnonymous(pool).ok => DeriveAnonymous(pool).ids \subseteq pool
           /\ DerivePublished(pool).ok => DerivePublished(pool).ids \subseteq pool
           /\ DeriveReadback(pool).ok => DeriveReadback(pool).ids \subseteq pool
<1>0. \A T : OfType(pool, T) \subseteq pool
  BY DEF OfType
<1>p. \A T, profile : OfType(OfProfile(pool, profile), T) \subseteq pool
  BY DEF OfType, OfProfile
<1>1. DeriveSource(pool).ok => DeriveSource(pool).ids \subseteq pool
  BY <1>0, RefusedFails, DerivedFields DEF DeriveSource
<1>2. DeriveModel(pool).ok => DeriveModel(pool).ids \subseteq pool
  BY <1>0, RefusedFails, DerivedFields DEF DeriveModel
<1>3. DeriveClean(pool).ok => DeriveClean(pool).ids \subseteq pool
  BY <1>0, <1>1, RefusedFails, DerivedFields DEF DeriveClean
<1>4. ASSUME NEW profile, DeriveLive(pool, profile).ok
      PROVE  DeriveLive(pool, profile).ids \subseteq pool
  BY <1>p, <1>2, <1>3, <1>4, RefusedFails, DerivedFields DEF DeriveLive
<1>5. ASSUME NEW profile, DeriveBenchmark(pool, profile).ok
      PROVE  DeriveBenchmark(pool, profile).ids \subseteq pool
  <2> DEFINE live == DeriveLive(pool, profile)
             attempts == OfType(OfProfile(pool, profile), {"battery"})
  <2>1. live.ok
    BY <1>5, RefusedFails DEF DeriveBenchmark
  <2>2. DeriveBenchmark(pool, profile) = Derived(live.subject, live.ids \cup attempts)
    BY <1>5, RefusedFails DEF DeriveBenchmark
  <2>3. DeriveBenchmark(pool, profile).ids = live.ids \cup attempts
    BY <2>2, DerivedFields
  <2>4. live.ids \subseteq pool /\ attempts \subseteq pool
    BY <2>1, <1>4, <1>p
  <2>5. QED
    BY <2>3, <2>4
<1>6. ASSUME DeriveSuite(pool).ok
      PROVE  DeriveSuite(pool).ids \subseteq pool
  <2> DEFINE results == {DeriveBenchmark(pool, profile) : profile \in Profiles}
  <2>1. \A d \in results : d.ok
    BY <1>6, RefusedFails DEF DeriveSuite
  <2>2. DeriveSuite(pool).ids = UNION {d.ids : d \in results}
    <3> DEFINE shared == [k \in BuildKeys \cup ModelKeys |->
                            DeriveBenchmark(pool, FastProfile).subject[k]]
    <3>1. DeriveSuite(pool) = Derived(shared, UNION {d.ids : d \in results})
      BY <1>6, RefusedFails DEF DeriveSuite
    <3>2. QED
      BY <3>1, DerivedFields
  <2>3. \A d \in results : d.ids \subseteq pool
    BY <2>1, <1>5
  <2>4. QED
    BY <2>2, <2>3
<1>7. ASSUME DeriveBitReproducible(pool).ok
      PROVE  DeriveBitReproducible(pool).ids \subseteq pool
  <2> DEFINE digests == {r.subject["image_digest"] : r \in OfType(pool, {"build-produced"})}
             ChainOf(d) == {r \in OfType(pool, BuildTypes) : r.subject["image_digest"] = d}
             chains == UNION {ChainOf(d) : d \in digests}
             comparison == OfType(pool, {"build-comparison"})
  <2>1. DeriveSource(pool).ok
    BY <1>7, RefusedFails DEF DeriveBitReproducible
  <2>2. DeriveBitReproducible(pool)
          = Derived(CommonSubject(chains, StableKeys), DeriveSource(pool).ids \cup chains \cup comparison)
    BY <1>7, RefusedFails DEF DeriveBitReproducible
  <2>3. DeriveBitReproducible(pool).ids = DeriveSource(pool).ids \cup chains \cup comparison
    BY <2>2, DerivedFields
  <2>4. chains \subseteq pool
    BY <1>0
  <2>5. QED
    BY <2>1, <2>3, <2>4, <1>0, <1>1
<1>8. DeriveAnonymous(pool).ok => DeriveAnonymous(pool).ids \subseteq pool
  BY <1>0, <1>4, RefusedFails, DerivedFields DEF DeriveAnonymous
<1>9. DerivePublished(pool).ok => DerivePublished(pool).ids \subseteq pool
  BY <1>0, <1>3, RefusedFails, DerivedFields DEF DerivePublished
<1>10. DeriveReadback(pool).ok => DeriveReadback(pool).ids \subseteq pool
  BY <1>0, <1>9, RefusedFails, DerivedFields DEF DeriveReadback
<1>11. QED
  BY <1>1, <1>2, <1>3, <1>4, <1>5, <1>6, <1>7, <1>8, <1>9, <1>10

\* A derived entry passes the re-derivation that promote applies to it later.
LEMMA PromotedSupported ==
    ASSUME NEW k \in Claims, NEW pool, Derive(k, pool).ok
    PROVE  /\ Supported(k, PromotedEntry(k, pool))
           /\ PromotedEntry(k, pool).passed
           /\ PromotedEntry(k, pool).ids \subseteq pool
<1> DEFINE d == Derive(k, pool)
<1>1. \/ k.claim \in Suite
      \/ k.claim \in PerProfile
  BY GateAssumption DEF GateAssumption, ClaimKey
<1>2. d.ids \subseteq pool /\ Derive(k, d.ids) = d
  <2>1. CASE k.claim = "source-complete"
    BY <2>1, EvidenceInPool, SourceLocal DEF Derive, Keeps
  <2>2. CASE k.claim = "model-license"
    BY <2>2, EvidenceInPool, ModelLocal DEF Derive, Keeps
  <2>3. CASE k.claim = "clean-build"
    BY <2>3, EvidenceInPool, CleanLocal DEF Derive, Keeps
  <2>4. CASE k.claim = "live-launch"
    BY <2>4, EvidenceInPool, LiveLocal DEF Derive, Keeps
  <2>5. CASE k.claim = "benchmark-reproduced"
    BY <2>5, EvidenceInPool, BenchmarkLocal DEF Derive, Keeps
  <2>6. CASE k.claim = "three-profile-suite"
    BY <2>6, EvidenceInPool, SuiteLocal DEF Derive, Keeps
  <2>7. CASE k.claim = "bit-reproducible"
    BY <2>7, EvidenceInPool, BitLocal DEF Derive, Keeps
  <2>8. CASE k.claim = "anonymous-readback"
    BY <2>8, EvidenceInPool, AnonymousLocal DEF Derive, Keeps
  <2>9. CASE k.claim = "convenience-image-published"
    BY <2>9, EvidenceInPool, PublishedLocal DEF Derive, Keeps
  <2>10. CASE k.claim = "convenience-image-readback"
    BY <2>10, EvidenceInPool, ReadbackLocal DEF Derive, Keeps
  <2>11. QED
    BY <1>1, <2>1, <2>2, <2>3, <2>4, <2>5, <2>6, <2>7, <2>8, <2>9, <2>10
       DEF Suite, PerProfile
<1>3. QED
  BY <1>2 DEF Supported, PromotedEntry

-----------------------------------------------------------------------------
(* What a derived subject says, key by key.                                 *)

\* The subject that the items have in common is the subject of each of them,
\* and names an identity for every key.
LEMMA CommonSubjectOf ==
    ASSUME NEW items, NEW keys, HasCommonSubject(items, keys)
    PROVE  LET s == CommonSubject(items, keys) IN
           /\ DOMAIN s = keys
           /\ \A r \in items, k \in keys : s[k] = r.subject[k]
           /\ items \subseteq Receipt /\ keys \subseteq Keys => s \in [keys -> Ids]
<1> DEFINE s == CommonSubject(items, keys)
           q == CHOOSE r \in items : TRUE
<1>1. q \in items
  BY DEF HasCommonSubject
<1>2. s = [k \in keys |-> q.subject[k]]
  BY DEF CommonSubject
<1> HIDE DEF s, q
<1>3. \A r \in items, k \in keys : s[k] = r.subject[k]
  BY <1>1, <1>2 DEF HasCommonSubject
<1>4. ASSUME items \subseteq Receipt, keys \subseteq Keys PROVE s \in [keys -> Ids]
  <2>1. q.subject \in [Keys -> Ids \cup {NoId}]
    BY <1>1, <1>4 DEF Receipt
  <2>2. \A k \in keys : q.subject[k] # NoId
    BY <1>1 DEF HasCommonSubject
  <2>3. \A k \in keys : q.subject[k] \in Ids
    BY <2>1, <2>2, <1>4
  <2>4. QED
    BY <1>2, <2>3
<1>5. QED
  BY <1>2, <1>3, <1>4 DEF s

\* A type of which _one_pass found the receipt has a receipt.
LEMMA OnePassHas ==
    ASSUME NEW pool, NEW T, OnePassEach(pool, T), NEW t \in T
    PROVE  \E r \in OfType(pool, T) : r.type = t
<1>1. OnePass(pool, t)
  BY DEF OnePassEach
<1>2. QED
  BY <1>1 DEF OnePass, OfType

\* The receipts that settle a key of a subject.  Source, build and model keys
\* are settled by receipts that belong to no profile; a build key by the
\* receipt that records that the image was produced, since that one is in the
\* evidence of bit-reproducible too, for each of the two images.
Anchor(r, key, profile) ==
    \/ key \in SourceKeys /\ r.type \in SourceTypes
    \/ key \in BuildKeys \ SourceKeys /\ r.type = "build-produced"
    \/ key = "model_id" /\ r.type = "checkpoint-license"
    \/ key = "sidecar_id" /\ r.type = "sidecar-license"
    \/ key \in {"preset_id", "run_id", "pin_id"} /\ r.type \in LiveTypes /\ r.profile = profile

\* The subject is what every anchor in the pool says, and the evidence has an
\* anchor for every key.
Anchored(d, pool, profile) ==
    \A key \in DOMAIN d.subject :
        /\ \A r \in pool : Anchor(r, key, profile) => r.subject[key] = d.subject[key]
        /\ \E r \in d.ids : Anchor(r, key, profile)

\* A derivation's subject has one of the sets of keys, and receipts as evidence.
Sound(d, pool, keys, profile) ==
    /\ DOMAIN d.subject = keys
    /\ Anchored(d, pool, profile)
    /\ pool \subseteq Receipt => d.subject \in [keys -> Ids]

\* _source: every source receipt agrees on the source keys.
LEMMA SourceSound ==
    ASSUME NEW pool, NEW profile, DeriveSource(pool).ok
    PROVE  Sound(DeriveSource(pool), pool, SourceKeys, profile)
<1> DEFINE items == OfType(pool, SourceTypes)
           s == CommonSubject(items, SourceKeys)
           d == DeriveSource(pool)
<1>1. OnePassEach(pool, SourceTypes) /\ HasCommonSubject(items, SourceKeys)
  BY RefusedFails DEF DeriveSource
<1>2. d = Derived(s, items)
  BY <1>1 DEF DeriveSource
<1>3. d.subject = s /\ d.ids = items
  BY <1>2, DerivedFields
<1>4. SourceKeys \subseteq Keys /\ items \subseteq pool
  BY DEF Keys, LiveKeys, BuildKeys, StableKeys, OfType
<1>5. /\ DOMAIN s = SourceKeys
      /\ \A r \in items, k \in SourceKeys : s[k] = r.subject[k]
      /\ pool \subseteq Receipt => s \in [SourceKeys -> Ids]
  BY <1>1, <1>4, CommonSubjectOf
<1> HIDE DEF s, d
<1>6. \A r \in pool, key \in SourceKeys : Anchor(r, key, profile) => r \in items
  BY DEF Anchor, SourceKeys, BuildKeys, StableKeys, OfType
<1>7. \E r \in items : r.type \in SourceTypes
  BY <1>1, OnePassHas, GateAssumption DEF GateAssumption
<1>8. \A key \in SourceKeys : \E r \in items : Anchor(r, key, profile)
  BY <1>7 DEF Anchor
<1>9. QED
  BY <1>3, <1>5, <1>6, <1>8 DEF Sound, Anchored, d

\* _model: the two licences settle the model and the sidecar.
LEMMA ModelSound ==
    ASSUME NEW pool, NEW profile, DeriveModel(pool).ok
    PROVE  Sound(DeriveModel(pool), pool, ModelKeys, profile)
<1> DEFINE types == {"checkpoint-license", "sidecar-license"}
           checkpoint == OfType(pool, {"checkpoint-license"})
           sidecar == OfType(pool, {"sidecar-license"})
           Of(k) == IF k = "model_id" THEN checkpoint ELSE sidecar
           s == [k \in ModelKeys |-> CommonSubject(Of(k), {k})[k]]
           d == DeriveModel(pool)
<1>1. /\ OnePassEach(pool, types)
      /\ HasCommonSubject(checkpoint, {"model_id"})
      /\ HasCommonSubject(sidecar, {"sidecar_id"})
  BY RefusedFails DEF DeriveModel
<1>2. d = Derived(s, checkpoint \cup sidecar)
  BY RefusedFails DEF DeriveModel
<1>3. d.subject = s /\ d.ids = checkpoint \cup sidecar
  BY <1>2, DerivedFields
<1>4. ASSUME NEW key \in ModelKeys
      PROVE  /\ \A r \in Of(key) : s[key] = r.subject[key]
             /\ pool \subseteq Receipt => s[key] \in Ids
             /\ \A r \in pool : Anchor(r, key, profile) => r \in Of(key)
             /\ \E r \in Of(key) : Anchor(r, key, profile)
  <2>1. HasCommonSubject(Of(key), {key})
    BY <1>1 DEF ModelKeys
  <2>2. {key} \subseteq Keys /\ Of(key) \subseteq pool
    BY DEF Keys, LiveKeys, OfType
  <2> HIDE DEF Of
  <2>3. /\ \A r \in Of(key) : CommonSubject(Of(key), {key})[key] = r.subject[key]
        /\ pool \subseteq Receipt => CommonSubject(Of(key), {key}) \in [{key} -> Ids]
    BY <2>1, <2>2, CommonSubjectOf
  <2>4. /\ \A r \in Of(key) : s[key] = r.subject[key]
        /\ pool \subseteq Receipt => s[key] \in Ids
    BY <2>3
  <2>5. \A r \in pool : Anchor(r, key, profile) => r \in Of(key)
    BY DEF Anchor, ModelKeys, SourceKeys, BuildKeys, StableKeys, Of, OfType
  <2>6. \E r \in Of(key) : Anchor(r, key, profile)
    <3>1. \A r \in Of(key) : Anchor(r, key, profile)
      BY DEF Anchor, ModelKeys, Of, OfType
    <3>2. Of(key) # {}
      BY <2>1 DEF HasCommonSubject
    <3>3. QED
      BY <3>1, <3>2
  <2>7. QED
    BY <2>4, <2>5, <2>6
<1>5. \A key \in ModelKeys : Of(key) \subseteq checkpoint \cup sidecar
  OBVIOUS
<1>6. DOMAIN s = ModelKeys /\ (pool \subseteq Receipt => s \in [ModelKeys -> Ids])
  BY <1>4
<1> HIDE DEF s, d, Of
<1>7. QED
  BY <1>3, <1>4, <1>5, <1>6 DEF Sound, Anchored, d

\* _clean: one passing build, which its build-produced receipt settles.
LEMMA CleanSound ==
    ASSUME NEW pool, NEW profile, DeriveClean(pool).ok
    PROVE  Sound(DeriveClean(pool), pool, BuildKeys, profile)
<1> DEFINE source == DeriveSource(pool)
           items == OfType(pool, BuildTypes)
           s == CommonSubject(items, BuildKeys)
           d == DeriveClean(pool)
<1>1. /\ source.ok
      /\ OnePassEach(pool, BuildTypes)
      /\ HasCommonSubject(items, BuildKeys)
      /\ Agrees(s, source.subject)
  BY RefusedFails DEF DeriveClean
<1>2. d = Derived(s, source.ids \cup items)
  BY <1>1 DEF DeriveClean
<1>3. d.subject = s /\ d.ids = source.ids \cup items
  BY <1>2, DerivedFields
<1>4. BuildKeys \subseteq Keys /\ items \subseteq pool /\ SourceKeys \subseteq BuildKeys
  BY DEF Keys, LiveKeys, BuildKeys, StableKeys, OfType
<1>5. /\ DOMAIN s = BuildKeys
      /\ \A r \in items, k \in BuildKeys : s[k] = r.subject[k]
      /\ pool \subseteq Receipt => s \in [BuildKeys -> Ids]
  BY <1>1, <1>4, CommonSubjectOf
<1>6. Sound(source, pool, SourceKeys, profile)
  BY <1>1, SourceSound
<1> HIDE DEF s, d, source
<1>7. ASSUME NEW key \in BuildKeys
      PROVE  /\ \A r \in pool : Anchor(r, key, profile) => r.subject[key] = s[key]
             /\ \E r \in source.ids \cup items : Anchor(r, key, profile)
  <2>1. CASE key \in SourceKeys
    <3>1. s[key] = source.subject[key]
      BY <1>1, <1>4, <1>5, <1>6, <2>1 DEF Agrees, Sound
    <3>2. QED
      BY <3>1, <1>6, <2>1 DEF Sound, Anchored
  <2>2. CASE key \notin SourceKeys
    <3>1. \A r \in pool : Anchor(r, key, profile) <=> r.type = "build-produced"
      BY <2>2 DEF Anchor, BuildKeys, StableKeys, SourceKeys
    <3>2. \A r \in pool : r.type = "build-produced" => r \in items
      BY GateAssumption DEF GateAssumption, OfType
    <3>3. \E r \in items : r.type = "build-produced"
      BY <1>1, OnePassHas, GateAssumption DEF GateAssumption
    <3>4. QED
      BY <1>4, <1>5, <3>1, <3>2, <3>3
  <2>3. QED
    BY <2>1, <2>2
<1>8. QED
  BY <1>3, <1>5, <1>7 DEF Sound, Anchored, d

\* _live: run, preset and pin are the live receipts' of the profile, the rest the
\* build's and the model's.
LEMMA LiveSound ==
    ASSUME NEW pool, NEW profile, DeriveLive(pool, profile).ok
    PROVE  Sound(DeriveLive(pool, profile), pool, LiveKeysOf(profile), profile)
<1> DEFINE clean == DeriveClean(pool)
           model == DeriveModel(pool)
           types == LiveTypesOf(profile)
           mine == OfProfile(pool, profile)
           items == OfType(mine, types)
           keys == LiveKeysOf(profile)
           s == CommonSubject(items, keys)
           d == DeriveLive(pool, profile)
<1>1. /\ clean.ok
      /\ model.ok
      /\ OnePassEach(mine, types)
      /\ HasCommonSubject(items, keys)
      /\ Agrees(s, clean.subject)
      /\ Agrees(s, model.subject)
  BY RefusedFails DEF DeriveLive
<1>2. d = Derived(s, clean.ids \cup model.ids \cup items)
  BY RefusedFails DEF DeriveLive
<1>3. d.subject = s /\ d.ids = clean.ids \cup model.ids \cup items
  BY <1>2, DerivedFields
<1>4. /\ keys \subseteq Keys /\ items \subseteq pool
      /\ BuildKeys \subseteq keys /\ ModelKeys \subseteq keys
      /\ keys \subseteq BuildKeys \cup ModelKeys \cup {"preset_id", "run_id", "pin_id"}
  BY DEF Keys, LiveKeys, LiveKeysOf, OfType, OfProfile
<1>5. /\ DOMAIN s = keys
      /\ \A r \in items, k \in keys : s[k] = r.subject[k]
      /\ pool \subseteq Receipt => s \in [keys -> Ids]
  BY <1>1, <1>4, CommonSubjectOf
<1>6. Sound(clean, pool, BuildKeys, profile) /\ Sound(model, pool, ModelKeys, profile)
  BY <1>1, CleanSound, ModelSound
<1> HIDE DEF s, d, clean, model, keys
<1>7. ASSUME NEW key \in keys
      PROVE  /\ \A r \in pool : Anchor(r, key, profile) => r.subject[key] = s[key]
             /\ \E r \in clean.ids \cup model.ids \cup items : Anchor(r, key, profile)
  <2>1. CASE key \in BuildKeys
    <3>1. s[key] = clean.subject[key]
      BY <1>1, <1>4, <1>5, <1>6, <2>1 DEF Agrees, Sound
    <3>2. QED
      BY <3>1, <1>6, <2>1 DEF Sound, Anchored
  <2>2. CASE key \in ModelKeys
    <3>1. s[key] = model.subject[key]
      BY <1>1, <1>4, <1>5, <1>6, <2>2 DEF Agrees, Sound
    <3>2. QED
      BY <3>1, <1>6, <2>2 DEF Sound, Anchored
  <2>3. CASE key \in {"preset_id", "run_id", "pin_id"}
    <3>1. \A r \in pool : Anchor(r, key, profile) <=> r.type \in LiveTypes /\ r.profile = profile
      BY <2>3 DEF Anchor, BuildKeys, StableKeys, SourceKeys
    <3>2. \A r \in pool : Anchor(r, key, profile) => r \in items
      BY <3>1 DEF OfType, OfProfile, LiveTypesOf
    <3>3. PICK t \in LiveTypes : t \in types
      BY GateAssumption DEF GateAssumption, LiveTypesOf
    <3>4. \E r \in items : r.type = t
      BY <1>1, <3>3, OnePassHas
    <3>5. \A r \in items : r \in pool /\ r.profile = profile
      BY DEF OfType, OfProfile
    <3>6. \E r \in items : Anchor(r, key, profile)
      BY <3>1, <3>3, <3>4, <3>5
    <3>7. QED
      BY <1>5, <3>2, <3>6
  <2>4. QED
    BY <1>4, <2>1, <2>2, <2>3
<1>8. QED
  BY <1>3, <1>5, <1>7 DEF Sound, Anchored, d, keys

\* More evidence for the same subject.
LEMMA MoreEvidence ==
    ASSUME NEW d, NEW e, NEW pool, NEW keys, NEW profile, Sound(d, pool, keys, profile),
           e.subject = d.subject, d.ids \subseteq e.ids
    PROVE  Sound(e, pool, keys, profile)
  BY DEF Sound, Anchored

\* _benchmark takes its subject from the live derivation.
LEMMA BenchmarkSound ==
    ASSUME NEW pool, NEW profile, DeriveBenchmark(pool, profile).ok
    PROVE  /\ Sound(DeriveBenchmark(pool, profile), pool, LiveKeysOf(profile), profile)
           /\ DeriveClean(pool).ok
<1> DEFINE live == DeriveLive(pool, profile)
           attempts == OfType(OfProfile(pool, profile), {"battery"})
           d == DeriveBenchmark(pool, profile)
<1>1. live.ok
  BY RefusedFails DEF DeriveBenchmark
<1>2. d = Derived(live.subject, live.ids \cup attempts)
  BY RefusedFails DEF DeriveBenchmark
<1>3. d.subject = live.subject /\ d.ids = live.ids \cup attempts
  BY <1>2, DerivedFields
<1>4. DeriveClean(pool).ok
  BY <1>1, RefusedFails DEF DeriveLive
<1>5. Sound(live, pool, LiveKeysOf(profile), profile)
  BY <1>1, LiveSound
<1>6. QED
  <2> HIDE DEF d, live, attempts
  <2>1. Sound(d, pool, LiveKeysOf(profile), profile)
    BY <1>3, <1>5, MoreEvidence
  <2>2. QED
    BY <2>1, <1>4 DEF d

\* The suite's subject is the build and the model of the Fast profile's; it has
\* no key that belongs to a profile.
LEMMA SuiteSound ==
    ASSUME NEW pool, NEW profile, DeriveSuite(pool).ok
    PROVE  /\ Sound(DeriveSuite(pool), pool, BuildKeys \cup ModelKeys, profile)
           /\ DeriveClean(pool).ok
<1> DEFINE results == {DeriveBenchmark(pool, f) : f \in Profiles}
           fast == DeriveBenchmark(pool, FastProfile)
           keys == BuildKeys \cup ModelKeys
           s == [k \in keys |-> fast.subject[k]]
           d == DeriveSuite(pool)
<1>1. fast \in results /\ \A e \in results : e.ok
  BY GateAssumption, RefusedFails DEF DeriveSuite, GateAssumption
<1>2. d = Derived(s, UNION {e.ids : e \in results})
  BY RefusedFails DEF DeriveSuite
<1>3. d.subject = s /\ d.ids = UNION {e.ids : e \in results}
  BY <1>2, DerivedFields
<1>4. fast.ids \subseteq d.ids
  BY <1>1, <1>3
<1>5. Sound(fast, pool, LiveKeysOf(FastProfile), FastProfile) /\ DeriveClean(pool).ok
  BY <1>1, BenchmarkSound
<1>6. keys \subseteq LiveKeysOf(FastProfile)
  BY DEF LiveKeysOf, LiveKeys
<1>7. \A r, key \in keys : Anchor(r, key, profile) <=> Anchor(r, key, FastProfile)
  BY DEF Anchor, BuildKeys, StableKeys, SourceKeys, ModelKeys
<1> HIDE DEF d, fast, keys, results
<1>8. DOMAIN s = keys /\ \A key \in keys : s[key] = fast.subject[key]
  OBVIOUS
<1>9. pool \subseteq Receipt => s \in [keys -> Ids]
  BY <1>5, <1>6 DEF Sound
<1> HIDE DEF s
<1>10. Anchored(d, pool, profile)
  <2>1. SUFFICES ASSUME NEW key \in keys
                 PROVE  /\ \A r \in pool : Anchor(r, key, profile) => r.subject[key] = s[key]
                        /\ \E r \in d.ids : Anchor(r, key, profile)
    BY <1>3, <1>8 DEF Anchored
  <2>2. /\ \A r \in pool : Anchor(r, key, FastProfile) => r.subject[key] = fast.subject[key]
        /\ \E r \in fast.ids : Anchor(r, key, FastProfile)
    BY <1>5, <1>6 DEF Sound, Anchored
  <2>3. \A r : Anchor(r, key, profile) <=> Anchor(r, key, FastProfile)
    BY DEF Anchor, BuildKeys, StableKeys, SourceKeys, ModelKeys, keys
  <2>4. QED
    BY <2>2, <2>3, <1>4, <1>8
<1>11. QED
  BY <1>3, <1>5, <1>8, <1>9, <1>10 DEF Sound, d, keys

\* _anonymous: the subject agrees with the live one on every build key.
LEMMA AnonymousSound ==
    ASSUME NEW pool, NEW profile, DeriveAnonymous(pool).ok
    PROVE  /\ Sound(DeriveAnonymous(pool), pool, BuildKeys, profile)
           /\ DeriveClean(pool).ok
<1> DEFINE live == DeriveLive(pool, FastProfile)
           clean == DeriveClean(pool)
           items == OfType(pool, AnonymousTypes)
           s == CommonSubject(items, BuildKeys)
           d == DeriveAnonymous(pool)
<1>1. /\ live.ok
      /\ HasCommonSubject(items, BuildKeys)
      /\ Agrees(s, live.subject)
  BY RefusedFails DEF DeriveAnonymous
<1>2. d = Derived(s, live.ids \cup items)
  BY RefusedFails DEF DeriveAnonymous
<1>3. d.subject = s /\ d.ids = live.ids \cup items
  BY <1>2, DerivedFields
<1>4. BuildKeys \subseteq Keys /\ items \subseteq pool /\ BuildKeys \subseteq LiveKeysOf(FastProfile)
  BY DEF Keys, LiveKeys, LiveKeysOf, OfType
<1>5. DOMAIN s = BuildKeys /\ (pool \subseteq Receipt => s \in [BuildKeys -> Ids])
  BY <1>1, <1>4, CommonSubjectOf
<1>6. Sound(live, pool, LiveKeysOf(FastProfile), FastProfile)
  BY <1>1, LiveSound
<1>7. clean.ok
  BY <1>1, RefusedFails DEF DeriveLive
<1> HIDE DEF s, d, live
<1>8. ASSUME NEW key \in BuildKeys
      PROVE  /\ \A r \in pool : Anchor(r, key, profile) => r.subject[key] = s[key]
             /\ \E r \in live.ids : Anchor(r, key, profile)
  <2>1. s[key] = live.subject[key]
    BY <1>1, <1>4, <1>5, <1>6 DEF Agrees, Sound
  <2>2. /\ \A r \in pool : Anchor(r, key, FastProfile) => r.subject[key] = live.subject[key]
        /\ \E r \in live.ids : Anchor(r, key, FastProfile)
    BY <1>4, <1>6 DEF Sound, Anchored
  <2>3. \A r : Anchor(r, key, profile) <=> Anchor(r, key, FastProfile)
    BY DEF Anchor, BuildKeys, StableKeys, SourceKeys
  <2>4. QED
    BY <2>1, <2>2, <2>3
<1>9. QED
  BY <1>3, <1>5, <1>7, <1>8 DEF Sound, Anchored, d

\* _published: the subject is the build's.
LEMMA PublishedSound ==
    ASSUME NEW pool, NEW profile, DerivePublished(pool).ok
    PROVE  /\ Sound(DerivePublished(pool), pool, BuildKeys, profile)
           /\ DeriveClean(pool).ok
<1> DEFINE clean == DeriveClean(pool)
           items == OfType(pool, {"registry-license", "registry-publish"})
           d == DerivePublished(pool)
<1>1. clean.ok
  BY RefusedFails DEF DerivePublished
<1>2. d = Derived(clean.subject, clean.ids \cup items)
  BY RefusedFails DEF DerivePublished
<1>3. d.subject = clean.subject /\ d.ids = clean.ids \cup items
  BY <1>2, DerivedFields
<1>4. Sound(clean, pool, BuildKeys, profile)
  BY <1>1, CleanSound
<1> HIDE DEF d, items
<1>5. Sound(d, pool, BuildKeys, profile)
  BY <1>3, <1>4, MoreEvidence
<1>6. QED
  BY <1>1, <1>5 DEF d

\* _readback: the subject is what was published.
LEMMA ReadbackSound ==
    ASSUME NEW pool, NEW profile, DeriveReadback(pool).ok
    PROVE  /\ Sound(DeriveReadback(pool), pool, BuildKeys, profile)
           /\ DeriveClean(pool).ok
<1> DEFINE published == DerivePublished(pool)
           items == OfType(pool, {"registry-readback"})
           d == DeriveReadback(pool)
<1>1. published.ok
  BY RefusedFails DEF DeriveReadback
<1>2. d = Derived(published.subject, published.ids \cup items)
  BY RefusedFails DEF DeriveReadback
<1>3. d.subject = published.subject /\ d.ids = published.ids \cup items
  BY <1>2, DerivedFields
<1>4. Sound(published, pool, BuildKeys, profile) /\ DeriveClean(pool).ok
  BY <1>1, PublishedSound
<1> HIDE DEF d, items, published
<1>5. Sound(d, pool, BuildKeys, profile)
  BY <1>3, <1>4, MoreEvidence
<1>6. QED
  BY <1>4, <1>5 DEF d

\* Bit-reproducible: the stable part of both builds' subjects, and two images.
LEMMA BitSound ==
    ASSUME NEW pool, NEW profile, DeriveBitReproducible(pool).ok
    PROVE  /\ Sound(DeriveBitReproducible(pool), pool, StableKeys, profile)
           /\ \E r, q \in DeriveBitReproducible(pool).ids :
                /\ r.type = "build-produced" /\ q.type = "build-produced"
                /\ r.subject["image_digest"] # q.subject["image_digest"]
<1> DEFINE source == DeriveSource(pool)
           produced == OfType(pool, {"build-produced"})
           digests == {r.subject["image_digest"] : r \in produced}
           ChainOf(e) == {r \in OfType(pool, BuildTypes) : r.subject["image_digest"] = e}
           chains == UNION {ChainOf(e) : e \in digests}
           comparison == OfType(pool, {"build-comparison"})
           s == CommonSubject(chains, StableKeys)
           d == DeriveBitReproducible(pool)
<1>1. /\ source.ok
      /\ \E e, f \in digests : e # f /\ digests = {e, f}
      /\ HasCommonSubject(chains, StableKeys)
      /\ Agrees(s, source.subject)
  BY RefusedFails DEF DeriveBitReproducible
<1>2. d = Derived(s, source.ids \cup chains \cup comparison)
  BY RefusedFails DEF DeriveBitReproducible
<1>3. d.subject = s /\ d.ids = source.ids \cup chains \cup comparison
  BY <1>2, DerivedFields
<1>4. StableKeys \subseteq Keys /\ SourceKeys \subseteq StableKeys
  BY DEF Keys, LiveKeys, BuildKeys, StableKeys
<1>5. chains \subseteq pool
  BY DEF OfType
<1>6. produced \subseteq chains
  <2>1. SUFFICES ASSUME NEW r \in produced PROVE r \in chains
    OBVIOUS
  <2>2. r \in ChainOf(r.subject["image_digest"])
    BY GateAssumption DEF OfType, GateAssumption
  <2>3. r.subject["image_digest"] \in digests
    OBVIOUS
  <2>4. QED
    BY <2>2, <2>3
<1>7. PICK r, q \in produced : r.subject["image_digest"] # q.subject["image_digest"]
  BY <1>1
<1> HIDE DEF chains
<1>8. /\ DOMAIN s = StableKeys
      /\ \A x \in chains, k \in StableKeys : s[k] = x.subject[k]
      /\ pool \subseteq Receipt => s \in [StableKeys -> Ids]
  BY <1>1, <1>4, <1>5, CommonSubjectOf
<1>9. Sound(source, pool, SourceKeys, profile)
  BY <1>1, SourceSound
<1>10. \A x \in pool : x.type = "build-produced" => x \in produced
  BY DEF OfType
<1>11. r.type = "build-produced" /\ q.type = "build-produced"
  BY DEF OfType
<1> HIDE DEF s, d, source, produced, digests, comparison
<1>12. ASSUME NEW key \in StableKeys
      PROVE  /\ \A x \in pool : Anchor(x, key, profile) => x.subject[key] = s[key]
             /\ \E x \in source.ids \cup chains \cup comparison : Anchor(x, key, profile)
  <2>1. CASE key \in SourceKeys
    <3>1. s[key] = source.subject[key]
      BY <1>1, <1>4, <1>8, <1>9, <2>1 DEF Agrees, Sound
    <3>2. QED
      BY <3>1, <1>9, <2>1 DEF Sound, Anchored
  <2>2. CASE key \notin SourceKeys
    <3>1. \A x : Anchor(x, key, profile) <=> x.type = "build-produced"
      BY <2>2 DEF Anchor, BuildKeys, StableKeys, SourceKeys
    <3>2. QED
      BY <1>6, <1>8, <1>10, <1>11, <3>1
  <2>3. QED
    BY <2>1, <2>2
<1>13. Sound(d, pool, StableKeys, profile)
  BY <1>3, <1>8, <1>12 DEF Sound, Anchored
<1>14. QED
  BY <1>3, <1>6, <1>7, <1>11, <1>13 DEF d

\* Every derivation that succeeds has an anchored subject with one of the sets
\* of keys; one that rests on a build rests on a clean build.
LEMMA DeriveSound ==
    ASSUME NEW k \in Claims, NEW pool, Derive(k, pool).ok
    PROVE  /\ \E K \in KeySets : Sound(Derive(k, pool), pool, K, k.profile)
           /\ RestsOnBuild(k) => DeriveClean(pool).ok
           /\ Derive(k, pool).ids \subseteq pool
<1> DEFINE d == Derive(k, pool)
<1>1. \/ k.claim \in Suite
      \/ k.claim \in PerProfile
  BY GateAssumption DEF GateAssumption, ClaimKey
<1>2. CASE k.claim = "source-complete"
  BY <1>2, EvidenceInPool, SourceSound DEF Derive, KeySets, RestsOnBuild
<1>3. CASE k.claim = "model-license"
  BY <1>3, EvidenceInPool, ModelSound DEF Derive, KeySets, RestsOnBuild
<1>4. CASE k.claim = "clean-build"
  BY <1>4, EvidenceInPool, CleanSound DEF Derive, KeySets
<1>k. LiveKeysOf(k.profile) \in KeySets
  BY DEF LiveKeysOf, KeySets, Keys
<1>5. CASE k.claim = "live-launch"
  <2>1. DeriveClean(pool).ok
    BY <1>5, RefusedFails DEF Derive, DeriveLive
  <2>2. QED
    BY <1>5, <1>k, <2>1, EvidenceInPool, LiveSound DEF Derive
<1>6. CASE k.claim = "benchmark-reproduced"
  BY <1>6, <1>k, EvidenceInPool, BenchmarkSound DEF Derive
<1>7. CASE k.claim = "three-profile-suite"
  BY <1>7, EvidenceInPool, SuiteSound DEF Derive, KeySets
<1>8. CASE k.claim = "bit-reproducible"
  BY <1>8, EvidenceInPool, BitSound DEF Derive, KeySets, RestsOnBuild
<1>9. CASE k.claim = "anonymous-readback"
  BY <1>9, EvidenceInPool, AnonymousSound DEF Derive, KeySets
<1>10. CASE k.claim = "convenience-image-published"
  BY <1>10, EvidenceInPool, PublishedSound DEF Derive, KeySets
<1>11. CASE k.claim = "convenience-image-readback"
  BY <1>11, EvidenceInPool, ReadbackSound DEF Derive, KeySets
<1>12. QED
  BY <1>1, <1>2, <1>3, <1>4, <1>5, <1>6, <1>7, <1>8, <1>9, <1>10, <1>11
     DEF Suite, PerProfile

-----------------------------------------------------------------------------
(* The gate's inductive invariant: the file and the promotions in flight    *)
(* are functions on the claims, and what is about to be written is          *)
(* supported by attested receipts.  The file itself may be forged.          *)

IsFile(st) == st = [k \in Claims |-> st[k]]
Vouched(st) == \A k \in Claims :
    Supported(k, st[k]) /\ (st[k].passed => st[k].ids \subseteq Attested)

GateInv ==
    /\ IsFile(status)
    /\ inflight = [p \in Promoter |-> inflight[p]]
    /\ \A p \in Promoter : inflight[p] # None => IsFile(inflight[p]) /\ Vouched(inflight[p])

\* What a promotion computes is a file that attested receipts support in every
\* entry: in the promoted one by the derivation, in the others by the recheck.
LEMMA PromotionVouched ==
    ASSUME NEW k \in Claims, NEW pool \in Admitted(status, Pools), IsFile(status),
           Derive(k, pool).ok
    PROVE  LET st == [status EXCEPT ![k] = PromotedEntry(k, pool)]
           IN  IsFile(st) /\ Vouched(st)
<1> DEFINE st == [status EXCEPT ![k] = PromotedEntry(k, pool)]
<1> HIDE DEF st
<1>0. st = [l \in Claims |-> IF l = k THEN PromotedEntry(k, pool) ELSE status[l]]
  BY DEF IsFile, st
<1>1. st[k] = PromotedEntry(k, pool) /\ \A l \in Claims : l # k => st[l] = status[l]
  BY <1>0
<1>2. IsFile(st)
  BY <1>0 DEF IsFile
<1>3. pool \subseteq Attested
  BY DEF Admitted, AllAttested
<1>4. Supported(k, st[k]) /\ st[k].ids \subseteq Attested
  BY <1>1, <1>3, PromotedSupported
<1>5. ASSUME NEW l \in Claims, l # k
      PROVE  Supported(l, st[l]) /\ (st[l].passed => st[l].ids \subseteq Attested)
  <2>1. CASE status[l].passed
    <3>1. status[l].ids \subseteq pool /\ Supported(l, status[l])
      BY <2>1 DEF Admitted, Rechecked
    <3>2. st[l] = status[l]
      BY <1>1, <1>5
    <3>3. QED
      BY <1>3, <3>1, <3>2
  <2>2. CASE ~status[l].passed
    BY <1>1, <1>5, <2>2 DEF Supported
  <2>3. QED
    BY <2>1, <2>2
<1>6. Vouched(st)
  BY <1>4, <1>5 DEF Vouched
<1>7. QED
  BY <1>2, <1>6 DEF st

\* The initial file and every step of a promoter, of its death and of a hand
\* edit keep the invariant.
LEMMA GateInductive == Init => GateInv
  BY DEF Init, GateInv, IsFile

\* Every step keeps the invariant: a promotion writes what it re-derived.
LEMMA GateStep == GateInv /\ [Next]_vars => GateInv'
<1> SUFFICES ASSUME GateInv, [Next]_vars PROVE GateInv'
  OBVIOUS
<1>1. ASSUME NEW p \in Promoter, Promote(p) PROVE GateInv'
  <2>1. PICK pool \in Admitted(status, Pools), k \in Claims :
            /\ Derive(k, pool).ok
            /\ inflight' = [inflight EXCEPT ![p] = [status EXCEPT ![k] = PromotedEntry(k, pool)]]
    BY <1>1 DEF Promote
  <2> DEFINE st == [status EXCEPT ![k] = PromotedEntry(k, pool)]
  <2> HIDE DEF st
  <2>2. IsFile(st) /\ Vouched(st)
    BY <2>1, PromotionVouched DEF GateInv, st
  <2>3. inflight' = [inflight EXCEPT ![p] = st] /\ status' = status
    BY <1>1, <2>1 DEF Promote, st
  <2>4. \A q \in Promoter : inflight'[q] = IF q = p THEN st ELSE inflight[q]
    BY <2>3 DEF GateInv
  <2>5. inflight' = [q \in Promoter |-> inflight'[q]]
    BY <2>3 DEF GateInv
  <2>6. QED
    BY <2>2, <2>3, <2>4, <2>5 DEF GateInv, IsFile, Vouched
<1>2. ASSUME NEW p \in Promoter, AtomicReplace(p) PROVE GateInv'
  <2>1. IsFile(status')
    BY <1>2 DEF AtomicReplace, GateInv, IsFile
  <2>2. \A q \in Promoter : inflight'[q] = IF q = p THEN None ELSE inflight[q]
    BY <1>2 DEF AtomicReplace, GateInv
  <2>3. inflight' = [q \in Promoter |-> inflight'[q]]
    BY <1>2 DEF AtomicReplace, GateInv
  <2>4. QED
    BY <2>1, <2>2, <2>3 DEF GateInv, IsFile, Vouched
<1>3. ASSUME NEW p \in Promoter, Die(p) PROVE GateInv'
  <2>1. \A q \in Promoter : inflight'[q] = IF q = p THEN None ELSE inflight[q]
    BY <1>3 DEF Die, GateInv
  <2>2. inflight' = [q \in Promoter |-> inflight'[q]] /\ status' = status
    BY <1>3 DEF Die, GateInv
  <2>3. QED
    BY <2>1, <2>2 DEF GateInv, IsFile, Vouched
<1>4. ASSUME NEW k \in Claims, Edit(k) PROVE GateInv'
  <2>1. inflight' = inflight
    BY <1>4 DEF Edit
  <2>2. IsFile(status')
    BY <1>4 DEF Edit, GateInv, IsFile
  <2>3. QED
    BY <2>1, <2>2 DEF GateInv, IsFile, Vouched
<1>5. ASSUME UNCHANGED vars PROVE GateInv'
  BY <1>5 DEF vars, GateInv, IsFile, Vouched
<1>6. QED
  BY <1>1, <1>2, <1>3, <1>4, <1>5 DEF Next

\* What promote and _atomic_json write is supported, entry by entry, by
\* attested receipts, whatever the receipts and pools, however many promoters
\* overlap, and whatever was written into the file by hand.
THEOREM GateWritesSupported == Spec => WrittenClaimsSupported
<1>1. ASSUME GateInv, NEW p \in Promoter, AtomicReplace(p)
      PROVE  \A k \in Claims : Supported(k, status'[k])
                /\ (status'[k].passed => status'[k].ids \subseteq Attested)
  <2>1. Vouched(inflight[p]) /\ status' = inflight[p]
    BY <1>1 DEF AtomicReplace, GateInv
  <2>2. QED
    BY <2>1 DEF Vouched
<1>2. GateInv /\ [Next]_vars =>
        [\A p \in Promoter : AtomicReplace(p) =>
            \A k \in Claims : Supported(k, status'[k])
                /\ (status'[k].passed => status'[k].ids \subseteq Attested)]_vars
  BY <1>1
<1>3. QED
  BY <1>2, GateInductive, GateStep, PTL DEF Spec, WrittenClaimsSupported

-----------------------------------------------------------------------------
(* The file's types.                                                        *)

\* What a promotion enters is an entry of the file.
LEMMA PromotedIsEntry ==
    ASSUME NEW k \in Claims, NEW pool, pool \subseteq Receipt, Derive(k, pool).ok
    PROVE  IsEntry(PromotedEntry(k, pool))
<1> DEFINE d == Derive(k, pool)
<1>1. PICK K \in KeySets : Sound(d, pool, K, k.profile)
  BY DeriveSound
<1>2. d.ids \subseteq Receipt
  BY DeriveSound
<1>3. d.subject \in [K -> Ids]
  BY <1>1 DEF Sound
<1> HIDE DEF d
<1>4. PromotedEntry(k, pool) = [passed |-> TRUE, subject |-> d.subject, ids |-> d.ids]
  BY DEF PromotedEntry, d
<1>5. QED
  BY <1>2, <1>3, <1>4 DEF IsEntry

\* A file of which one entry is replaced by an entry is a file.
LEMMA StatusExcept ==
    ASSUME NEW st, IsStatus(st), NEW k \in Claims, NEW e, IsEntry(e)
    PROVE  IsStatus([st EXCEPT ![k] = e])
<1> DEFINE new == [st EXCEPT ![k] = e]
<1>1. new = [l \in Claims |-> IF l = k THEN e ELSE st[l]]
  BY DEF IsStatus
<1> HIDE DEF new
<1>2. \A l \in Claims : new[l] = IF l = k THEN e ELSE st[l]
  BY <1>1
<1>3. \A l \in Claims : IsEntry(new[l])
  BY <1>2 DEF IsStatus
<1>4. QED
  BY <1>1, <1>2, <1>3 DEF IsStatus, new

\* The gate starts well typed.
LEMMA TypesInit == Init => TypeOK
<1> SUFFICES ASSUME Init PROVE TypeOK
  OBVIOUS
<1>1. IsEntry(Pending)
  <2>1. [k \in {} |-> NoId] \in [{} -> Ids]
    OBVIOUS
  <2>2. {} \in KeySets
    BY DEF KeySets
  <2>3. QED
    BY <2>1, <2>2 DEF IsEntry, Pending
<1>2. status = [k \in Claims |-> Pending] /\ inflight = [p \in Promoter |-> None]
  BY DEF Init
<1>3. IsStatus(status)
  BY <1>1, <1>2 DEF IsStatus
<1>4. QED
  BY <1>2, <1>3 DEF Init, TypeOK

\* Every step keeps the types; a promoted subject is typed because its derivation is Sound.
LEMMA TypesStep == GateInv /\ TypeOK /\ [Next]_vars => TypeOK'
<1> SUFFICES ASSUME GateInv, TypeOK, [Next]_vars PROVE TypeOK'
  OBVIOUS
<1>1. ASSUME NEW p \in Promoter, Promote(p) PROVE TypeOK'
  <2>1. PICK pool \in Admitted(status, Pools), k \in Claims :
            /\ Derive(k, pool).ok
            /\ inflight' = [inflight EXCEPT ![p] = [status EXCEPT ![k] = PromotedEntry(k, pool)]]
    BY <1>1 DEF Promote
  <2>2. pool \subseteq Receipt
    BY GateAssumption DEF GateAssumption, Admitted
  <2> DEFINE st == [status EXCEPT ![k] = PromotedEntry(k, pool)]
  <2>3. IsStatus(st)
    BY <2>1, <2>2, PromotedIsEntry, StatusExcept DEF TypeOK
  <2> HIDE DEF st
  <2>4. inflight' = [inflight EXCEPT ![p] = st] /\ status' = status /\ forged' = forged
    BY <1>1, <2>1 DEF Promote, st
  <2>5. /\ DOMAIN inflight' = Promoter
        /\ \A q \in Promoter : inflight'[q] = IF q = p THEN st ELSE inflight[q]
    BY <2>4 DEF GateInv
  <2>6. QED
    BY <2>3, <2>4, <2>5 DEF TypeOK, IsStatus
<1>2. ASSUME NEW p \in Promoter, AtomicReplace(p) PROVE TypeOK'
  <2>1. IsStatus(status')
    BY <1>2 DEF AtomicReplace, TypeOK
  <2>2. /\ DOMAIN inflight' = Promoter /\ forged' = forged
        /\ \A q \in Promoter : inflight'[q] = IF q = p THEN None ELSE inflight[q]
    BY <1>2 DEF AtomicReplace, GateInv
  <2>3. QED
    BY <2>1, <2>2 DEF TypeOK, IsStatus
<1>3. ASSUME NEW p \in Promoter, Die(p) PROVE TypeOK'
  <2>1. /\ DOMAIN inflight' = Promoter /\ forged' = forged /\ status' = status
        /\ \A q \in Promoter : inflight'[q] = IF q = p THEN None ELSE inflight[q]
    BY <1>3 DEF Die, GateInv
  <2>2. QED
    BY <2>1 DEF TypeOK, IsStatus
<1>4. ASSUME NEW k \in Claims, Edit(k) PROVE TypeOK'
  <2>1. PICK e \in HandEntries : /\ status' = [status EXCEPT ![k] = e]
                                 /\ forged' = (forged \/ e.passed)
                                 /\ inflight' = inflight
    BY <1>4 DEF Edit
  <2>2. IsEntry(e)
    BY GateAssumption DEF GateAssumption
  <2>3. IsStatus(status')
    BY <2>1, <2>2, StatusExcept DEF TypeOK
  <2>4. forged' \in BOOLEAN
    BY <2>1
  <2>5. QED
    BY <2>1, <2>3, <2>4 DEF TypeOK, IsStatus
<1>5. ASSUME UNCHANGED vars PROVE TypeOK'
  BY <1>5 DEF vars, TypeOK, IsStatus
<1>6. QED
  BY <1>1, <1>2, <1>3, <1>4, <1>5 DEF Next

\* status.json, and every file a promoter is about to put in its place, has an
\* entry for each claim, with the keys of one derivation, an identity for every
\* key, and receipts as evidence: no derivation leaves a key of its subject open.
THEOREM GateTypes == Spec => []TypeOK
<1>1. Init => GateInv /\ TypeOK
  BY GateInductive, TypesInit
<1>2. GateInv /\ TypeOK /\ [Next]_vars => (GateInv /\ TypeOK)'
  BY GateStep, TypesStep
<1>3. QED
  BY <1>1, <1>2, PTL DEF Spec

-----------------------------------------------------------------------------
(* Coherence: the entry a promotion adds is anchored in the whole pool, and *)
(* the receipts of the entries it carries along are in that pool.           *)

\* Two passed entries do not contradict each other.
Coherent(k, e, l, f) ==
    \A key \in (DOMAIN e.subject) \cap (DOMAIN f.subject) :
        key \in BuildKeys \cup ModelKeys \/ k.profile = l.profile
            => e.subject[key] = f.subject[key]

CoherentFile(st) == \A k, l \in Claims :
    st[k].passed /\ st[l].passed => Coherent(k, st[k], l, st[l])

\* Unless somebody forged an entry, attested receipts support the file, and no
\* two of its passed entries contradict each other; and so it is for every file
\* that a promoter is about to write, which may be older than the current one.
CohereInv == ~forged =>
    /\ Vouched(status) /\ CoherentFile(status)
    /\ \A p \in Promoter : inflight[p] # None => CoherentFile(inflight[p])

\* A derivation over a pool agrees with a supported entry whose receipts are in
\* that pool.
LEMMA PoolCoheres ==
    ASSUME NEW k \in Claims, NEW pool, Derive(k, pool).ok,
           NEW l \in Claims, NEW e, e.passed, Supported(l, e), e.ids \subseteq pool
    PROVE  Coherent(k, PromotedEntry(k, pool), l, e)
<1> DEFINE d == Derive(k, pool)
           f == Derive(l, e.ids)
<1>1. f.ok /\ f.subject = e.subject /\ f.ids = e.ids
  BY DEF Supported
<1>2. PICK K \in KeySets : Sound(d, pool, K, k.profile)
  BY DeriveSound
<1>3. PICK L \in KeySets : Sound(f, e.ids, L, l.profile)
  BY <1>1, DeriveSound
<1>4. PromotedEntry(k, pool).subject = d.subject
  BY DEF PromotedEntry
<1> HIDE DEF d, f
<1>5. SUFFICES ASSUME NEW key \in (DOMAIN d.subject) \cap (DOMAIN e.subject),
                      key \in BuildKeys \cup ModelKeys \/ k.profile = l.profile
               PROVE  d.subject[key] = e.subject[key]
  BY <1>4 DEF Coherent
<1>6. PICK r \in e.ids : Anchor(r, key, l.profile)
  BY <1>1, <1>3 DEF Sound, Anchored
<1>7. r.subject[key] = e.subject[key]
  BY <1>1, <1>3, <1>6 DEF Sound, Anchored
<1>8. Anchor(r, key, k.profile)
  <2>1. CASE key \in BuildKeys \cup ModelKeys
    BY <1>6, <2>1 DEF Anchor, BuildKeys, StableKeys, SourceKeys, ModelKeys
  <2>2. CASE k.profile = l.profile
    BY <1>6, <2>2
  <2>3. QED
    BY <1>5, <2>1, <2>2
<1>9. r.subject[key] = d.subject[key]
  BY <1>2, <1>6, <1>8 DEF Sound, Anchored
<1>10. QED
  BY <1>7, <1>9

\* Hence a promotion over a coherent file computes a coherent file.
LEMMA PromotionCoheres ==
    ASSUME NEW k \in Claims, NEW pool \in Admitted(status, Pools), IsFile(status),
           Derive(k, pool).ok, CoherentFile(status)
    PROVE  CoherentFile([status EXCEPT ![k] = PromotedEntry(k, pool)])
<1> DEFINE new == PromotedEntry(k, pool)
           st == [status EXCEPT ![k] = new]
<1> HIDE DEF new
<1>1. st[k] = new /\ \A l \in Claims : l # k => st[l] = status[l]
  BY DEF IsFile
<1> HIDE DEF st
<1>2. ASSUME NEW l \in Claims, l # k, status[l].passed
      PROVE  Coherent(k, new, l, status[l]) /\ Coherent(l, status[l], k, new)
  <2>1. status[l].ids \subseteq pool /\ Supported(l, status[l])
    BY <1>2 DEF Admitted, Rechecked
  <2>2. Coherent(k, new, l, status[l])
    BY <1>2, <2>1, PoolCoheres DEF new
  <2>3. QED
    BY <2>2 DEF Coherent
<1>3. Coherent(k, new, k, new)
  BY DEF Coherent
<1>4. SUFFICES ASSUME NEW l \in Claims, NEW m \in Claims, st[l].passed, st[m].passed
               PROVE  Coherent(l, st[l], m, st[m])
  BY DEF CoherentFile, st, new
<1>5. CASE l = k /\ m = k
  BY <1>1, <1>3, <1>5
<1>6. CASE l = k /\ m # k
  BY <1>1, <1>2, <1>4, <1>6
<1>7. CASE l # k /\ m = k
  BY <1>1, <1>2, <1>4, <1>7
<1>8. CASE l # k /\ m # k
  BY <1>1, <1>4, <1>8 DEF CoherentFile
<1>9. QED
  BY <1>5, <1>6, <1>7, <1>8

\* An empty file is coherent.
LEMMA CohereInit == Init => CohereInv
<1> SUFFICES ASSUME Init PROVE CohereInv
  OBVIOUS
<1>1. \A k \in Claims : ~status[k].passed
  BY DEF Init, Pending
<1>2. \A p \in Promoter : inflight[p] = None
  BY DEF Init
<1>3. QED
  BY <1>1, <1>2 DEF CohereInv, Vouched, CoherentFile, Supported

\* A promotion writes entries that were all derived from one pool, so they agree
\* on every key they share; a crash or another promoter's write changes no entry.
LEMMA CohereStep == GateInv /\ CohereInv /\ [Next]_vars => CohereInv'
<1> SUFFICES ASSUME GateInv, CohereInv, [Next]_vars, ~forged'
             PROVE  /\ Vouched(status') /\ CoherentFile(status')
                    /\ \A q \in Promoter : inflight'[q] # None => CoherentFile(inflight'[q])
  BY DEF CohereInv, Vouched, CoherentFile, Coherent
<1>1. ASSUME NEW p \in Promoter, Promote(p), ~forged
      PROVE  /\ Vouched(status') /\ CoherentFile(status')
             /\ \A q \in Promoter : inflight'[q] # None => CoherentFile(inflight'[q])
  <2>1. PICK pool \in Admitted(status, Pools), k \in Claims :
            /\ Derive(k, pool).ok
            /\ inflight' = [inflight EXCEPT ![p] = [status EXCEPT ![k] = PromotedEntry(k, pool)]]
    BY <1>1 DEF Promote
  <2> DEFINE st == [status EXCEPT ![k] = PromotedEntry(k, pool)]
  <2>2. Vouched(status) /\ CoherentFile(status)
        /\ \A q \in Promoter : inflight[q] # None => CoherentFile(inflight[q])
    BY <1>1 DEF CohereInv
  <2>3. CoherentFile(st)
    BY <2>1, <2>2, PromotionCoheres DEF GateInv
  <2> HIDE DEF st
  <2>4. status' = status /\ inflight' = [inflight EXCEPT ![p] = st]
    BY <1>1, <2>1 DEF Promote, st
  <2>5. \A q \in Promoter : inflight'[q] = IF q = p THEN st ELSE inflight[q]
    BY <2>4 DEF GateInv
  <2>6. QED
    BY <2>2, <2>3, <2>4, <2>5
<1>2. ASSUME NEW p \in Promoter, AtomicReplace(p), ~forged
      PROVE  /\ Vouched(status') /\ CoherentFile(status')
             /\ \A q \in Promoter : inflight'[q] # None => CoherentFile(inflight'[q])
  <2>1. status' = inflight[p] /\ inflight[p] # None
    BY <1>2 DEF AtomicReplace
  <2>2. Vouched(inflight[p]) /\ CoherentFile(inflight[p])
    BY <1>2, <2>1 DEF GateInv, CohereInv
  <2>3. \A q \in Promoter : inflight'[q] = IF q = p THEN None ELSE inflight[q]
    BY <1>2 DEF AtomicReplace, GateInv
  <2>4. QED
    BY <1>2, <2>1, <2>2, <2>3 DEF CohereInv
<1>3. ASSUME NEW p \in Promoter, Die(p), ~forged
      PROVE  /\ Vouched(status') /\ CoherentFile(status')
             /\ \A q \in Promoter : inflight'[q] # None => CoherentFile(inflight'[q])
  <2>1. status' = status
        /\ \A q \in Promoter : inflight'[q] = IF q = p THEN None ELSE inflight[q]
    BY <1>3 DEF Die, GateInv
  <2>2. QED
    BY <1>3, <2>1 DEF CohereInv
<1>4. ASSUME NEW k \in Claims, Edit(k)
      PROVE  /\ Vouched(status') /\ CoherentFile(status')
             /\ \A q \in Promoter : inflight'[q] # None => CoherentFile(inflight'[q])
  <2>1. PICK e \in HandEntries : /\ status' = [status EXCEPT ![k] = e]
                                 /\ forged' = (forged \/ e.passed)
                                 /\ inflight' = inflight
    BY <1>4 DEF Edit
  <2>2. ~forged /\ ~e.passed
    BY <2>1
  <2>3. \A l \in Claims : status'[l] = IF l = k THEN e ELSE status[l]
    BY <2>1 DEF GateInv, IsFile
  <2>4. Vouched(status')
    BY <2>2, <2>3 DEF CohereInv, Vouched, Supported
  <2>5. CoherentFile(status')
    BY <2>2, <2>3 DEF CohereInv, CoherentFile
  <2>6. QED
    BY <2>1, <2>2, <2>4, <2>5 DEF CohereInv
<1>5. ASSUME UNCHANGED vars
      PROVE  /\ Vouched(status') /\ CoherentFile(status')
             /\ \A q \in Promoter : inflight'[q] # None => CoherentFile(inflight'[q])
  <2>1. status' = status /\ inflight' = inflight /\ ~forged
    BY <1>5 DEF vars
  <2>2. QED
    BY <2>1 DEF CohereInv
<1>6. (\E p \in Promoter : Promote(p) \/ AtomicReplace(p) \/ Die(p)) => ~forged
  BY DEF Promote, AtomicReplace, Die
<1>7. QED
  BY <1>1, <1>2, <1>3, <1>4, <1>5, <1>6 DEF Next

\* Until somebody edits the file by hand, it and every promotion in flight cohere.
LEMMA CohereInvariant == Spec => [](GateInv /\ CohereInv)
<1>1. Init => GateInv /\ CohereInv
  BY GateInductive, CohereInit
<1>2. GateInv /\ CohereInv /\ [Next]_vars => (GateInv /\ CohereInv)'
  BY GateStep, CohereStep
<1>3. QED
  BY <1>1, <1>2, PTL DEF Spec

\* Passed claims never contradict each other on the build, the model or the run
\* of a profile, whatever the receipts and pools, and however many promoters
\* overlap, unless somebody forged an entry of status.json.
THEOREM GateCoheres == Spec => []PassedClaimsCohere
<1>1. CohereInv => PassedClaimsCohere
  BY DEF CohereInv, CoherentFile, Coherent, PassedClaimsCohere
<1>2. QED
  BY <1>1, CohereInvariant, PTL

-----------------------------------------------------------------------------
(* The order of promotions.                                                 *)

\* Two images in a pool: no clean build derives from it.
LEMMA TwoImages ==
    ASSUME NEW pool, NEW r \in pool, NEW q \in pool,
           r.type = "build-produced", q.type = "build-produced",
           r.subject["image_digest"] # q.subject["image_digest"]
    PROVE  ~DeriveClean(pool).ok
<1>1. SUFFICES ASSUME DeriveClean(pool).ok PROVE FALSE
  OBVIOUS
<1>2. OnePassEach(pool, BuildTypes)
  BY <1>1, RefusedFails DEF DeriveClean
<1>3. OnePass(pool, "build-produced")
  BY <1>2, GateAssumption DEF OnePassEach, GateAssumption
<1>4. r \in OfType(pool, {"build-produced"}) /\ q \in OfType(pool, {"build-produced"})
  BY DEF OfType
<1>5. r = q
  BY <1>3, <1>4 DEF OnePass
<1>6. QED
  BY <1>5

\* Once bit-reproducible has passed, no pool that promote admits derives a claim
\* that rests on a build.
LEMMA BitClosesBuilds ==
    ASSUME BitReproducible \in Claims, status[BitReproducible].passed,
           NEW pool \in Admitted(status, Pools), NEW k \in Claims, RestsOnBuild(k)
    PROVE  ~Derive(k, pool).ok
<1> DEFINE e == status[BitReproducible]
<1>1. e.ids \subseteq pool /\ Supported(BitReproducible, e)
  BY DEF Admitted, Rechecked
<1>2. Derive(BitReproducible, e.ids) = DeriveBitReproducible(e.ids)
  BY DEF Derive, BitReproducible
<1>3. DeriveBitReproducible(e.ids).ok /\ DeriveBitReproducible(e.ids).ids = e.ids
  BY <1>1, <1>2 DEF Supported
<1>4. PICK r, q \in e.ids : /\ r.type = "build-produced" /\ q.type = "build-produced"
                            /\ r.subject["image_digest"] # q.subject["image_digest"]
  BY <1>3, BitSound
<1>5. ~DeriveClean(pool).ok
  BY <1>1, <1>4, TwoImages
<1>6. QED
  BY <1>5, DeriveSound

\* While the passed claims rest on the evidence of one release, promote admits
\* that evidence, and every claim of the release that is still open derives from
\* it; once bit-reproducible has passed no claim that rests on a build does.
THEOREM GateOrder == Spec => []BitReproducibleComesLast
<1>1. ASSUME CohereInv PROVE BitReproducibleComesLast
  <2>1. SUFFICES ASSUME ~forged
        PROVE  /\ (\A l \in Claims : status[l].ids \subseteq Release)
                    => /\ Release \in Admitted(status, {Release})
                       /\ \A k \in Claims : RestsOnBuild(k) => Derive(k, Release).ok
               /\ (BitReproducible \in Claims /\ status[BitReproducible].passed)
                    => \A pool \in Admitted(status, Pools), k \in Claims :
                            RestsOnBuild(k) => ~Derive(k, pool).ok
    BY DEF BitReproducibleComesLast
  <2>2. ASSUME \A l \in Claims : status[l].ids \subseteq Release
        PROVE  Release \in Admitted(status, {Release})
    <3>1. Vouched(status)
      BY <1>1, <2>1 DEF CohereInv
    <3>2. Rechecked(status, Release)
      BY <2>2, <3>1 DEF Vouched, Rechecked
    <3>3. AllAttested(Release)
      BY ReleaseAssumption DEF ReleaseAssumption, AllAttested
    <3>4. QED
      BY <3>2, <3>3 DEF Admitted
  <2>3. \A k \in Claims : RestsOnBuild(k) => Derive(k, Release).ok
    BY ReleaseAssumption DEF ReleaseAssumption
  <2>4. QED
    BY <2>2, <2>3, BitClosesBuilds
<1>2. QED
  BY <1>1, CohereInvariant, PTL
=============================================================================
