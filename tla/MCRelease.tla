----------------------------- MODULE MCRelease -----------------------------
(* Instances of Release for TLC.                                           *)
EXTENDS Release, TLC

CONSTANTS a, b, c, j1a, j1b, j2a, r1, r2, c1, h, x, y, z, layer, child,
    release, sha, t1, t2, t3

Windows == [HIGH |-> 2, CRITICAL |-> 1]

Services == (j1a :> a) @@ (j1b :> b) @@ (j2a :> a)
RunOfJobs == (j1a :> r1) @@ (j1b :> r1) @@ (j2a :> r2)
Commits == [r \in {r1, r2, c1} |-> h]
Promotes == c1 :> a
BlobsOfImages == [d \in {x, y, z} |-> <<layer>>]
ChildrenOfImages == (x :> << >>) @@ (y :> <<child>>) @@ (z :> << >>)

Builds == (j1a :> {x}) @@ (j1b :> {z}) @@ (j2a :> {y})

Attestations == [platforms |-> 1, attestations |-> 1, spdx |-> TRUE, slsa |-> TRUE,
    configSources |-> {[own |-> TRUE, revision |-> h, digests |-> {}]}, materials |-> {}]
Bare == [Attestations EXCEPT !.attestations = 0]
ImageEvidence == (x :> Attestations) @@ (y :> Attestations) @@ (z :> Attestations)

Window == [allowed |-> TRUE, decision |-> "allowed_window", reason |-> "", blocking |-> 1,
    matching |-> 1, covered |-> 1, rejected |-> 0, overdue |-> 0, unmatched |-> 0,
    reintroduced |-> 0]
Passed == [result |-> "passed", classification |-> "clean", window |-> NoDecision]
Allowed == [result |-> "failed", classification |-> "actionable_vulnerability", window |-> Window]
Outcomes == (x :> {Passed}) @@ (y :> {Allowed}) @@ (z :> {Passed})

Retries == (r1 :> 1) @@ (r2 :> 2) @@ (c1 :> 1)
Enabled == (r1 :> FALSE) @@ (r2 :> TRUE)
Others == (r1 :> {<<c, y>>}) @@ (r2 :> {})
Entry(id, targets) == [id |-> id, expires |-> 1, scanTypes |-> {"image"}, targets |-> targets,
    lineage |-> {}, paths |-> {}, purls |-> {"pkg"}]
Files == (j1a :> {Entry("cve1", {x})}) @@ (j1b :> {}) @@ (j2a :> {})
CandidateFiles == c1 :> {Entry("cve1", {x})}
OtherFiles == (r1 :> {Entry("cve2", {y, z})}) @@ (r2 :> {})
ReleaseTags == h :> release
ShaTags == h :> sha
CandidateTags == (r1 :> <<t1, t2>>) @@ (r2 :> <<t3>>)

\* The gate of r1: two that may be authorized, and two that may not.
Call(path, runner, event, onMain, profile, images) ==
    [candidate |-> h, path |-> path, runner |-> runner, event |-> event, onMain |-> onMain,
     profile |-> profile, images |-> images]
Calls == {Call("hosted", "hosted", "push", TRUE, "infra", "blank"),
          Call("self-hosted", "persistent", "push", TRUE, "python", "none"),
          Call("self-hosted", "persistent", "pull_request", FALSE, "infra", "none"),
          Call("ephemeral-pr", "ephemeral", "pull_request", FALSE, "infra", "some")}
CommitOfGate == r1 :> h
Tree(clean, sparse) ==
    [head |-> TRUE, root |-> TRUE, clean |-> clean, sparse |-> sparse, absent |-> FALSE]
Trees == {Tree(TRUE, FALSE), Tree(TRUE, TRUE), Tree(FALSE, TRUE)}
=============================================================================
