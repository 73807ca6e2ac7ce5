-------------------------- MODULE PublicationGate --------------------------
(***************************************************************************)
(* The publication gate: scripts/gate_status.py over the receipts that     *)
(* scripts/verify_attestation.py authenticates.  A promoter loads          *)
(* publication/status.json, re-derives every passed claim from the pool of *)
(* receipts it was given, derives one more and replaces the file.          *)
(*                                                                         *)
(* Data: a receipt's identifier is the hash of its body, so a receipt      *)
(* stands for its identifier and a list of identifiers is a set of         *)
(* receipts.  `cleared' is the metadata the receipt's type is judged by    *)
(* (rights_status, normalized_outputs_equal, registry_license_cleared, the *)
(* two thresholds of a battery).  A derivation that raises GateError is    *)
(* Refused; a promoter whose derivation is refused exits and changes       *)
(* nothing.  The tuples of receipt types are parameters.                   *)
(***************************************************************************)
EXTENDS Naturals, FiniteSets

CONSTANTS
    Promoter,       \* processes that run `gate_status.py promote'
    Claims,         \* the claim entries of status.json
    Profiles,       \* PROFILES; the Fast one is judged with its pin
    FastProfile,
    SourceTypes, BuildTypes, LiveTypes, AnonymousTypes,
    Ids, NoId,      \* identities of subjects; a key that a subject lacks
    None,           \* no profile, no promotion in flight
    Attested,       \* receipts that verify_attestation accepts
    Pools,          \* sets of receipts a promoter may be given
    Release,        \* the complete evidence of one image, its batteries included
    HandEntries     \* what a person may write over an entry of the file

SourceKeys == {"source_release_id"}
StableKeys == SourceKeys \cup {"build_subject_id", "build_lock_id", "source_manifest_id"}
BuildKeys == StableKeys \cup {"image_digest"}
ModelKeys == {"model_id", "sidecar_id"}
LiveKeys == BuildKeys \cup ModelKeys \cup {"preset_id", "run_id"}
Keys == LiveKeys \cup {"pin_id"}

OtherTypes == {"checkpoint-license", "sidecar-license", "pin-state", "battery",
               "build-comparison", "registry-license", "registry-publish",
               "registry-readback"}
Types == SourceTypes \cup BuildTypes \cup LiveTypes \cup AnonymousTypes \cup OtherTypes

Receipt == [type : Types, subject : [Keys -> Ids \cup {NoId}], pass : BOOLEAN,
            profile : Profiles \cup {None}, cleared : BOOLEAN,
            digest : Ids \cup {NoId}, attempt : Nat, valid : BOOLEAN]

Suite == {"source-complete", "model-license", "clean-build", "bit-reproducible",
          "three-profile-suite", "anonymous-readback",
          "convenience-image-published", "convenience-image-readback"}
PerProfile == {"live-launch", "benchmark-reproduced"}
ClaimKey == [claim : Suite, profile : {None}] \cup [claim : PerProfile, profile : Profiles]

\* A claim's subject has the keys of one of the derivations (none: not passed).
KeySets == {{}, SourceKeys, ModelKeys, StableKeys, BuildKeys, BuildKeys \cup ModelKeys,
            LiveKeys, Keys}
IsEntry(e) == \E K \in KeySets :
    e \in [passed : BOOLEAN, subject : [K -> Ids], ids : SUBSET Receipt]
IsStatus(st) == st = [k \in Claims |-> st[k]] /\ \A k \in Claims : IsEntry(st[k])

ASSUME GateAssumption ==
    /\ Claims \subseteq ClaimKey
    /\ FastProfile \in Profiles /\ None \notin Profiles
    /\ NoId \notin Ids
    /\ SourceTypes # {} /\ BuildTypes # {} /\ LiveTypes # {} /\ AnonymousTypes # {}
    /\ "build-produced" \in BuildTypes
    /\ \A T \in {BuildTypes, LiveTypes, AnonymousTypes, OtherTypes} : SourceTypes \cap T = {}
    /\ \A T \in {LiveTypes, AnonymousTypes, OtherTypes} : BuildTypes \cap T = {}
    /\ \A T \in {AnonymousTypes, OtherTypes} : LiveTypes \cap T = {}
    /\ AnonymousTypes \cap OtherTypes = {}
    /\ Attested \subseteq Receipt /\ Release \subseteq Receipt
    /\ Pools \subseteq SUBSET Receipt
    /\ \A e \in HandEntries : IsEntry(e)

VARIABLES
    status,     \* publication/status.json
    inflight,   \* inflight[p]: the status that promoter p is about to write
    forged      \* history: a passed entry was written by hand

vars == <<status, inflight, forged>>

Pending == [passed |-> FALSE, subject |-> [k \in {} |-> NoId], ids |-> {}]

TypeOK ==
    /\ IsStatus(status)
    /\ DOMAIN inflight = Promoter
    /\ \A p \in Promoter : inflight[p] # None => IsStatus(inflight[p])
    /\ forged \in BOOLEAN

Init ==
    /\ status = [k \in Claims |-> Pending]
    /\ inflight = [p \in Promoter |-> None]
    /\ forged = FALSE

-----------------------------------------------------------------------------
(* Receipts in a pool.  *)

OfType(pool, T) == {r \in pool : r.type \in T}

\* Exactly one receipt of the type, and it passed.
OnePass(pool, t) ==
    LET matches == OfType(pool, {t}) IN \E r \in matches : matches = {r} /\ r.pass

OnePassEach(pool, T) == \A t \in T : OnePass(pool, t)

\* Mutant: a key that every subject lacks is taken for a common one.
AgreeOn(items, keys) ==
    items # {} /\ \A r, q \in items, k \in keys : r.subject[k] = q.subject[k]

\* The subjects of the items have every key and agree on it.
HasCommonSubject(items, keys) ==
    /\ items # {}
    /\ \A r \in items, k \in keys : r.subject[k] # NoId
    /\ \A r, q \in items, k \in keys : r.subject[k] = q.subject[k]

CommonSubject(items, keys) == [k \in keys |-> (CHOOSE r \in items : TRUE).subject[k]]

\* Two subjects do not contradict each other.
Agrees(s, t) == \A k \in (DOMAIN s) \cap (DOMAIN t) : s[k] = t[k]

Refused == [ok |-> FALSE]
Derived(subject, ids) == [ok |-> TRUE, subject |-> subject, ids |-> ids]

-----------------------------------------------------------------------------
(* One derivation per claim: the subject and the receipts it rests on.  *)

DeriveSource(pool) ==
    LET items == OfType(pool, SourceTypes) IN
    IF OnePassEach(pool, SourceTypes) /\ HasCommonSubject(items, SourceKeys)
    THEN Derived(CommonSubject(items, SourceKeys), items)
    ELSE Refused

\* The identities of the two licences are on two receipts.
DeriveModel(pool) ==
    LET checkpoint == OfType(pool, {"checkpoint-license"})
        sidecar == OfType(pool, {"sidecar-license"})
        Identity == [k \in ModelKeys |->
            CommonSubject(IF k = "model_id" THEN checkpoint ELSE sidecar, {k})[k]]
    IN  IF /\ OnePassEach(pool, {"checkpoint-license", "sidecar-license"})
           /\ \A r \in checkpoint \cup sidecar : r.cleared
           /\ HasCommonSubject(checkpoint, {"model_id"})
           /\ HasCommonSubject(sidecar, {"sidecar_id"})
        THEN Derived(Identity, checkpoint \cup sidecar)
        ELSE Refused

DeriveClean(pool) ==
    LET source == DeriveSource(pool)
        items == OfType(pool, BuildTypes)
        subject == CommonSubject(items, BuildKeys)
    IN  IF /\ source.ok
           /\ OnePassEach(pool, BuildTypes)
           /\ HasCommonSubject(items, BuildKeys)
           /\ Agrees(subject, source.subject)
        THEN Derived(subject, source.ids \cup items)
        ELSE Refused

LiveTypesOf(profile) == LiveTypes \cup (IF profile = FastProfile THEN {"pin-state"} ELSE {})
LiveKeysOf(profile) == LiveKeys \cup (IF profile = FastProfile THEN {"pin_id"} ELSE {})
OfProfile(pool, profile) == {r \in pool : r.profile = profile}

\* Live receipts are counted per profile, over a clean build and a model.
DeriveLive(pool, profile) ==
    LET clean == DeriveClean(pool)
        model == DeriveModel(pool)
        types == LiveTypesOf(profile)
        items == OfType(OfProfile(pool, profile), types)
        subject == CommonSubject(items, LiveKeysOf(profile))
    IN  IF /\ profile \in Profiles
           /\ clean.ok
           /\ model.ok
           /\ OnePassEach(OfProfile(pool, profile), types)
           /\ HasCommonSubject(items, LiveKeysOf(profile))
           /\ Agrees(subject, clean.subject)
           /\ Agrees(subject, model.subject)
        THEN Derived(subject, clean.ids \cup model.ids \cup items)
        ELSE Refused

\* Three valid attempts in at most five, all of them on the live subject; the
\* invalid ones stay in the evidence.
DeriveBenchmark(pool, profile) ==
    LET live == DeriveLive(pool, profile)
        attempts == OfType(OfProfile(pool, profile), {"battery"})
        valid == {r \in attempts : r.valid}
    IN  IF /\ live.ok
           /\ \A r \in attempts : Agrees(r.subject, live.subject)
           /\ Cardinality(attempts) <= 5
           /\ \A r \in attempts : r.attempt \in 1 .. 5
           /\ \A r, q \in attempts : r.attempt = q.attempt => r = q
           /\ Cardinality(valid) = 3
           /\ \A r \in valid : r.pass /\ r.cleared
        THEN Derived(live.subject, live.ids \cup attempts)
        ELSE Refused

\* Every profile's benchmark, on one build and one model.
DeriveSuite(pool) ==
    LET results == {DeriveBenchmark(pool, profile) : profile \in Profiles}
        shared == [k \in BuildKeys \cup ModelKeys |-> DeriveBenchmark(pool, FastProfile).subject[k]]
    IN  IF /\ \A d \in results : d.ok
           /\ \A d \in results : Agrees(d.subject, shared)
        THEN Derived(shared, UNION {d.ids : d \in results})
        ELSE Refused

\* Mutant: the comparison receipt is left out of the evidence.
DeriveBitForgetful(pool) ==
    LET source == DeriveSource(pool)
        items == OfType(pool, BuildTypes)
    IN  IF /\ OnePass(pool, "build-comparison") /\ source.ok
           /\ HasCommonSubject(items, StableKeys)
           /\ \E r, q \in items : r.subject["image_digest"] # q.subject["image_digest"]
        THEN Derived(CommonSubject(items, StableKeys), source.ids \cup items)
        ELSE Refused

\* Two image digests, a complete chain for each, equal up to the digest, and a
\* comparison of the two.
DeriveBitReproducible(pool) ==
    LET source == DeriveSource(pool)
        comparison == OfType(pool, {"build-comparison"})
        digests == {r.subject["image_digest"] : r \in OfType(pool, {"build-produced"})}
        ChainOf(d) == {r \in OfType(pool, BuildTypes) : r.subject["image_digest"] = d}
        chains == UNION {ChainOf(d) : d \in digests}
        stable == CommonSubject(chains, StableKeys)
    IN  IF /\ OnePass(pool, "build-comparison")
           /\ \A r \in comparison : r.cleared
           /\ source.ok
           /\ NoId \notin digests
           /\ \E d, e \in digests : d # e /\ digests = {d, e}
           /\ \A d \in digests :
                /\ OnePassEach(ChainOf(d), BuildTypes)
                /\ HasCommonSubject(ChainOf(d), BuildKeys)
           /\ HasCommonSubject(chains, StableKeys)
           /\ Agrees(stable, source.subject)
           /\ \A r \in comparison : Agrees(r.subject, stable)
        THEN Derived(stable, source.ids \cup chains \cup comparison)
        ELSE Refused

DeriveAnonymous(pool) ==
    LET live == DeriveLive(pool, FastProfile)
        items == OfType(pool, AnonymousTypes)
        subject == CommonSubject(items, BuildKeys)
    IN  IF /\ live.ok
           /\ OnePassEach(pool, AnonymousTypes)
           /\ HasCommonSubject(items, BuildKeys)
           /\ Agrees(subject, live.subject)
        THEN Derived(subject, live.ids \cup items)
        ELSE Refused

\* Licence and publication name the digest of the image that was built.
DerivePublished(pool) ==
    LET clean == DeriveClean(pool)
        items == OfType(pool, {"registry-license", "registry-publish"})
    IN  IF /\ clean.ok
           /\ OnePassEach(pool, {"registry-license", "registry-publish"})
           /\ \A r \in items : r.type = "registry-license" => r.cleared
           /\ HasCommonSubject(items, BuildKeys)
           /\ CommonSubject(items, BuildKeys) = clean.subject
           /\ \A r \in items : r.digest = r.subject["image_digest"]
        THEN Derived(clean.subject, clean.ids \cup items)
        ELSE Refused

DeriveReadback(pool) ==
    LET published == DerivePublished(pool)
        items == OfType(pool, {"registry-readback"})
    IN  IF /\ published.ok
           /\ OnePass(pool, "registry-readback")
           /\ HasCommonSubject(items, BuildKeys)
           /\ CommonSubject(items, BuildKeys) = published.subject
        THEN Derived(published.subject, published.ids \cup items)
        ELSE Refused

Derive(k, pool) ==
    CASE k.claim = "source-complete" -> DeriveSource(pool)
      [] k.claim = "model-license" -> DeriveModel(pool)
      [] k.claim = "clean-build" -> DeriveClean(pool)
      [] k.claim = "live-launch" -> DeriveLive(pool, k.profile)
      [] k.claim = "benchmark-reproduced" -> DeriveBenchmark(pool, k.profile)
      [] k.claim = "three-profile-suite" -> DeriveSuite(pool)
      [] k.claim = "bit-reproducible" -> DeriveBitReproducible(pool)
      [] k.claim = "anonymous-readback" -> DeriveAnonymous(pool)
      [] k.claim = "convenience-image-published" -> DerivePublished(pool)
      [] k.claim = "convenience-image-readback" -> DeriveReadback(pool)

-----------------------------------------------------------------------------
(* Promotion.  *)

\* A passed entry says what its own receipts derive.
Supported(k, e) == e.passed =>
    LET d == Derive(k, e.ids) IN d.ok /\ d.subject = e.subject /\ d.ids = e.ids

\* Mutant: the receipts of the passed claims need not be in the pool.
RecheckedAnywhere(st, pool) == \A k \in Claims : Supported(k, st[k])

\* Every passed entry is supported, by receipts of this very pool.
Rechecked(st, pool) ==
    \A k \in Claims : st[k].passed => st[k].ids \subseteq pool /\ Supported(k, st[k])

\* verify_attestation of each receipt: one that fails ends the promotion.
AllAttested(pool) == pool \subseteq Attested

\* The pools that a promotion over the status gets as far as its own claim with.
Admitted(st, pools) == {pool \in pools : AllAttested(pool) /\ Rechecked(st, pool)}

PromotedEntry(k, pool) ==
    [passed |-> TRUE, subject |-> Derive(k, pool).subject, ids |-> Derive(k, pool).ids]

\* main up to promote: the file is read, the receipts verified, the new status
\* computed.  Nothing keeps another process from the file in the meantime.
Promote(p) ==
    /\ inflight[p] = None
    /\ \E pool \in Admitted(status, Pools), k \in Claims :
        /\ Derive(k, pool).ok
        /\ inflight' = [inflight EXCEPT ![p] = [status EXCEPT ![k] = PromotedEntry(k, pool)]]
    /\ UNCHANGED <<status, forged>>

\* _atomic_json: os.replace puts the whole new file in place.
AtomicReplace(p) ==
    /\ inflight[p] # None
    /\ status' = inflight[p]
    /\ inflight' = [inflight EXCEPT ![p] = None]
    /\ UNCHANGED forged

\* The promoter dies before os.replace: the temporary file is left or removed.
Die(p) ==
    /\ inflight[p] # None
    /\ inflight' = [inflight EXCEPT ![p] = None]
    /\ UNCHANGED <<status, forged>>

\* Somebody edits an entry of the file, or withdraws it.
Edit(k) ==
    /\ \E e \in HandEntries :
        /\ status' = [status EXCEPT ![k] = e]
        /\ forged' = (forged \/ e.passed)
    /\ UNCHANGED inflight

Next ==
    \/ \E p \in Promoter : Promote(p) \/ AtomicReplace(p) \/ Die(p)
    \/ \E k \in Claims : Edit(k)

Spec == Init /\ [][Next]_vars

-----------------------------------------------------------------------------
(* Properties.  *)

\* What a promoter writes is supported, entry by entry, by attested receipts:
\* a hand-made entry is never carried along, and a claim the gate has just
\* derived passes the gate's own re-derivation next time.
WrittenClaimsSupported ==
    [][\A p \in Promoter : AtomicReplace(p) =>
        \A k \in Claims : Supported(k, status'[k])
            /\ (status'[k].passed => status'[k].ids \subseteq Attested)]_vars

\* docs/operations.md: "The exact image/build/model/sidecar/preset/run subject
\* must remain constant."  Unless an entry was forged, passed claims never
\* contradict each other on the build or the model, nor on the run of a profile,
\* though each was derived from its own pool, at its own time, perhaps over a
\* file that another promoter has replaced since.
PassedClaimsCohere ==
    ~forged => \A k, l \in Claims : status[k].passed /\ status[l].passed =>
        \A key \in (DOMAIN status[k].subject) \cap (DOMAIN status[l].subject) :
            key \in BuildKeys \cup ModelKeys \/ k.profile = l.profile
                => status[k].subject[key] = status[l].subject[key]

BitReproducible == [claim |-> "bit-reproducible", profile |-> None]
RestsOnBuild(k) == k.claim \notin {"source-complete", "model-license", "bit-reproducible"}

\* Release is complete: each of its receipts is accepted, and each claim that
\* rests on a build derives from them.
ASSUME ReleaseAssumption ==
    Release \subseteq Attested /\ \A k \in Claims : RestsOnBuild(k) => Derive(k, Release).ok

\* The order of promotions.  While every passed claim rests on the complete
\* evidence of one release, each other claim of it can still be promoted; once
\* bit-reproducible has passed, its second build is in every later pool, and no
\* claim that rests on a build can be promoted any more.
BitReproducibleComesLast ==
    LET open == {k \in Claims : RestsOnBuild(k) /\ ~status[k].passed} IN
    ~forged /\ open # {} =>
        /\ (\A l \in Claims : status[l].ids \subseteq Release)
                => Release \in Admitted(status, {Release}) /\ \A k \in open : Derive(k, Release).ok
        /\ (BitReproducible \in Claims /\ status[BitReproducible].passed)
                => \A pool \in Admitted(status, Pools), k \in open : ~Derive(k, pool).ok
=============================================================================
