------------------------- MODULE MCPublicationGate -------------------------
(* Evidence of small campaigns for PublicationGate: two builds of a release,
   a build of a second release, two models, and bundles with a defect. *)
EXTENDS PublicationGate

CONSTANTS p1, p2

OnePromoter == {p1}
TwoPromoters == {p1, p2}
MCIds == {"s1", "s2", "b1", "b2", "d1", "d2", "d3", "m1", "m2", "w1", "q1", "r1", "r2", "k1"}
MCSource == {"source-closure", "large-file-scan"}
MCBuild == {"build-produced", "sbom"}
MCLive == {"launch", "stability"}
MCAnonymous == {"anonymous-build", "anonymous-live-fast"}
OneProfile == {"fast-320k"}

NoSubject == [k \in Keys |-> NoId]
Sourced(s) == [NoSubject EXCEPT !["source_release_id"] = s]
Built(s, b, d) ==
    [Sourced(s) EXCEPT !["build_subject_id"] = b, !["build_lock_id"] = b,
                       !["source_manifest_id"] = b, !["image_digest"] = d]
Lived(s, b, d, m, r) ==
    [Built(s, b, d) EXCEPT !["model_id"] = m, !["sidecar_id"] = "w1",
                           !["preset_id"] = "q1", !["run_id"] = r, !["pin_id"] = "k1"]

A(type, subject) ==
    [type |-> type, subject |-> subject, pass |-> TRUE, profile |-> None,
     cleared |-> TRUE, digest |-> NoId, attempt |-> 0, valid |-> FALSE]
Each(T, subject) == {A(t, subject) : t \in T}
Of(profile, R) == {[r EXCEPT !.profile = profile] : r \in R}
Spoilt(R) == {[r EXCEPT !.pass = FALSE] : r \in R}

SourceOf(s) == Each(MCSource, Sourced(s))
ModelOf(m) == {A("checkpoint-license", [NoSubject EXCEPT !["model_id"] = m]),
               A("sidecar-license", [NoSubject EXCEPT !["sidecar_id"] = "w1"])}
BuildOf(s, b, d) == Each(MCBuild, Built(s, b, d))
LiveOf(profile, subject) ==
    Of(profile, Each(IF profile = "fast-320k" THEN MCLive \cup {"pin-state"} ELSE MCLive, subject))
RegistryOf(s, b, d) ==
    {[r EXCEPT !.digest = d] :
        r \in Each({"registry-license", "registry-publish"}, Built(s, b, d))}
ReadbackOf(s, b, d) == Each({"registry-readback"}, Built(s, b, d))
BatteriesOf(profile, subject) ==
    {[A("battery", subject) EXCEPT !.profile = profile, !.attempt = n, !.valid = (n # 2)] :
        n \in 1 .. 4}
AnonymousOf(s, b, d) == Each(MCAnonymous, Built(s, b, d))
Comparison == {A("build-comparison", Built("s1", "b1", NoId))}
\* Build receipts whose subject has no lock, as an incomplete build would issue.
Keyless == {[r EXCEPT !.subject["build_lock_id"] = NoId] : r \in BuildOf("s1", "b1", "d1")}

Key(claim) == [claim |-> claim, profile |-> None]
FastClaim(claim) == [claim |-> claim, profile |-> "fast-320k"]

\* One complete release, and what else may lie beside it.
Run1 == Lived("s1", "b1", "d1", "m1", "r1")
MCRelease ==
    SourceOf("s1") \cup ModelOf("m1") \cup BuildOf("s1", "b1", "d1")
    \cup UNION {LiveOf(f, Run1) \cup BatteriesOf(f, Run1) : f \in Profiles}
    \cup AnonymousOf("s1", "b1", "d1") \cup RegistryOf("s1", "b1", "d1")
    \cup ReadbackOf("s1", "b1", "d1")

AllClaims == ClaimKey
SuitePools ==
    {MCRelease, MCRelease \cup BuildOf("s1", "b1", "d2") \cup Comparison,
     SourceOf("s1") \cup BuildOf("s1", "b1", "d1")}
NoEntries == {}

\* Campaigns in which a second build, model, run or release is at hand, or evidence
\* with a defect.
Builds == {{}, BuildOf("s1", "b1", "d1"), BuildOf("s1", "b1", "d2"),
           BuildOf("s1", "b1", "d1") \cup BuildOf("s1", "b1", "d2"),
           Spoilt(BuildOf("s1", "b1", "d1")), Keyless}
Beside == {Comparison, LiveOf("fast-320k", Lived("s1", "b1", "d2", "m2", "r2")),
           RegistryOf("s1", "b1", "d2")}
SecondRelease == SourceOf("s2") \cup BuildOf("s2", "b2", "d3")
RivalPools ==
    {SourceOf("s1") \cup ModelOf("m2") \cup b \cup x : b \in Builds, x \in Beside}
    \cup {SecondRelease, SecondRelease \cup RegistryOf("s2", "b2", "d3")}
CampaignPools == SuitePools \cup RivalPools

\* A build claim of the second release written over a first, and a withdrawal.
ForgedBuild == [passed |-> TRUE, subject |-> [k \in BuildKeys |-> "s2"],
                ids |-> BuildOf("s2", "b2", "d3")]
Forgeries == {Pending, ForgedBuild}

\* Two promoters over the claims that can contradict each other.
BuildClaims == {Key("clean-build"), Key("bit-reproducible"), Key("convenience-image-published"),
                FastClaim("live-launch")}
BuildPools ==
    {SourceOf("s1") \cup b \cup x :
        b \in {BuildOf("s1", "b1", "d1"), BuildOf("s1", "b1", "d2"),
               BuildOf("s1", "b1", "d1") \cup BuildOf("s1", "b1", "d2")},
        x \in {Comparison, RegistryOf("s1", "b1", "d1"), RegistryOf("s1", "b1", "d2"),
              LiveOf("fast-320k", Run1), LiveOf("fast-320k", Lived("s1", "b1", "d2", "m2", "r2"))}}

MCAttested ==
    (UNION (CampaignPools \cup BuildPools)) \ Spoilt(BuildOf("s1", "b1", "d1"))
=============================================================================
