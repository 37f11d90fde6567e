---------------------------- MODULE Publication ----------------------------
(***************************************************************************)
(* The publication of container images:                                    *)
(* .github/workflows/_container-build-publish.yml (push: true) with its    *)
(* helpers in scripts/container_release/, and the promotion of a           *)
(* quarantined candidate, _container-candidate-promote.yml.                *)
(*                                                                         *)
(* A run builds the images of one commit, a matrix job each: build, push   *)
(* under a candidate tag, verify the attestations, scan, record the        *)
(* decision.  When all have succeeded the set is validated as a whole, and *)
(* only then each image is promoted: two release tags are written and one  *)
(* is read back.  Last, a manifest names what was released.  Failed jobs   *)
(* may be run again.  Runs, and candidate promotions, of one commit write  *)
(* the same release tags.                                                  *)
(*                                                                         *)
(* The registry, buildx, Trivy and GitHub's artifacts are external.  An    *)
(* artifact uploaded again in a later attempt replaces the earlier one.    *)
(***************************************************************************)
EXTENDS OciPush, SecurityGate

CONSTANTS
    Run,
    RunOf,          \* [Job -> Run]
    Commit,
    CommitOf,       \* [Run \cup Promotion -> Commit]
    Inline,         \* runs with publish_mode inline: buildx itself pushes
    Strict,         \* runs with security_aggregate_exception_validation
    Unchanged,      \* [Run -> images declared unchanged: <<service, digest>>]
    Exceptions,     \* [Job -> the entries of its exceptions file]
    UnchangedExceptions,    \* [Run -> the entries of the files of unchanged images]
    WindowsEnabled, \* [Run -> security_remediation_window_enabled]
    BuildsOf,       \* [Job -> the digests its build may come out as]
    CandidateExceptions,    \* [Promotion -> the entries of its exceptions file]
    Evidence,       \* [Digest -> what the attestations of the image say]
    GateOutcomes,   \* [Digest -> the outputs the gate may give for the image]
    NetworkAttempts,    \* [Run \cup Promotion -> network_retry_attempts]
    Promotion,      \* runs of _container-candidate-promote.yml
    PromotedService,    \* [Promotion -> Service]
    NoFile,         \* no artifact of that name
    Today,
    ReleaseTag, ShaTag, \* [Commit -> Tag]: <commit> and sha-<commit>
    CandidateTag    \* [Run -> the candidate tag of each attempt] (bound: their number)

JobsOf(r) == {j \in Job : RunOf[j] = r}
Actor == Job \cup Promotion
ActorRun(a) == IF a \in Job THEN RunOf[a] ELSE a
ServiceFor(a) == IF a \in Job THEN ServiceOf[a] ELSE PromotedService[a]
CommitFor(a) == CommitOf[ActorRun(a)]

ASSUME PublicationAssumption ==
    /\ RunOf \in [Job -> Run]
    /\ CommitOf \in [Run \cup Promotion -> Commit]
    /\ PromotedService \in [Promotion -> Service]
    /\ Job \cap Promotion = {} /\ Run \cap Promotion = {}
    /\ BuildsOf \in [Job -> SUBSET Digest]
    /\ Unchanged \in [Run -> SUBSET (Service \X Digest)]
    /\ NetworkAttempts \in [Run \cup Promotion -> Nat \ {0}]
    /\ \A set \in SUBSET (Service \X Digest) : NoFile # set

\* Of two commits no release tag is the same, and a candidate tag is none
\* (candidate-<commit>-<run>-<attempt>).
ASSUME TagsAssumption ==
    /\ ReleaseTag \in [Commit -> Tag] /\ ShaTag \in [Commit -> Tag]
    /\ \A g, h \in Commit : g # h => {ReleaseTag[g], ShaTag[g]} \cap {ReleaseTag[h], ShaTag[h]} = {}
    /\ CandidateTag \in [Run -> Seq(Tag)]
    /\ \A r \in Run : \A n \in 1..Len(CandidateTag[r]), h \in Commit :
          CandidateTag[r][n] \notin {ReleaseTag[h], ShaTag[h]}

VARIABLES
    attempt,        \* [Run -> the attempt of the run, 0 before the first]
    verdict,        \* [Run -> how far its set validation and its manifest are]
    stage,          \* [Actor -> how far the build and promotion of an image are]
    fragment,       \* [Job -> artifact container-candidate-<service>-<run>]
    receipt,        \* [Run -> artifact container-policy-validation-<run>]
    candidate,      \* [Promotion -> the digest it is asked to promote]
    tries,          \* [Actor -> failed calls of imagetools create]
    released,       \* [Actor -> artifact container-manifest-<service>-<run>]
    manifest,       \* [Run \cup Promotion -> artifact release-manifest-<commit>]
    vetted          \* history: <<service, commit, digest>> of images that passed

promotionVars == <<tries, released>>
runVars == <<attempt, verdict, receipt, manifest>>
vars == <<pushVars, stage, fragment, promotionVars, runVars, candidate, vetted>>

Building == {"push", "vet"}
Promoting == {"release tag", "sha tag", "read back"}
Stage == {"queued", "built", "failed", "promoted", "unpromoted"} \cup Building \cup Promoting

Moves(a, s) == stage' = [stage EXCEPT ![a] = s]

Init ==
    /\ PushInit
    /\ attempt = [r \in Run |-> 0]
    /\ verdict = [r \in Run |-> "none"]
    /\ stage = [a \in Actor |-> "queued"]
    /\ fragment = [j \in Job |-> NoFile]
    /\ receipt = [r \in Run |-> NoFile]
    /\ candidate = [c \in Promotion |-> NoDigest]
    /\ tries = [a \in Actor |-> 0]
    /\ released = [a \in Actor |-> NoFile]
    /\ manifest = [r \in Run \cup Promotion |-> NoFile]
    /\ vetted = {}

-----------------------------------------------------------------------------
(* The attestations of an image (verify_attestations.py).                  *)

AttestationsVerified(e) ==
    e.platforms > 0 /\ e.attestations > 0 /\ e.spdx /\ e.slsa

NamesCommit(source, commit) ==
    /\ source.own
    /\ source.revision \in {NoFile, commit}
    /\ commit = source.revision \/ commit \in source.digests

\* A config source of the repository decides alone.
SourceVerified(e, commit) ==
    LET own == {source \in e.configSources : source.own} IN
    \E source \in IF own # {} THEN own ELSE e.materials : NamesCommit(source, commit)

-----------------------------------------------------------------------------
(* The build jobs of a run.                                                *)

\* The caller's workflow reaches the publication, in some attempt of the run.
StartRun(r) ==
    /\ attempt[r] = 0
    /\ \E n \in 1..Len(CandidateTag[r]) : attempt' = [attempt EXCEPT ![r] = n]
    /\ UNCHANGED <<pushVars, stage, fragment, promotionVars, verdict, receipt, manifest,
                   candidate, vetted>>

OwnTag(j) == CandidateTag[RunOf[j]][attempt[RunOf[j]]]

\* buildx itself pushes everything, the tag last, or fails before the tag.
PushInline(j, d) ==
    LET s == ServiceOf[j] IN
    \/ /\ blobs' = [blobs EXCEPT ![s] = @ \cup Members(Blobs[d])]
       /\ manifests' = [manifests EXCEPT ![s] = @ \cup Members(Children[d]) \cup {d}]
       /\ tags' = [tags EXCEPT ![s][OwnTag(j)] = d]
       /\ Moves(j, "vet")
    \/ UNCHANGED registry /\ Moves(j, "failed")

\* The image is built, as some digest, and pushed or exported to be pushed.
Build(j) ==
    /\ stage[j] = "queued"
    /\ attempt[RunOf[j]] > 0
    /\ \E d \in BuildsOf[j] :
          /\ image' = [image EXCEPT ![j] = d]
          /\ IF RunOf[j] \in Inline
                THEN PushInline(j, d) /\ UNCHANGED <<request, tag>>
                ELSE /\ Moves(j, "push")
                     /\ Goes(j, "load")
                     /\ tag' = [tag EXCEPT ![j] = OwnTag(j)]
                     /\ UNCHANGED registry
    /\ UNCHANGED <<at, refreshes, fragment, promotionVars, runVars, candidate, vetted>>

Push(j) ==
    /\ PushStep(j)
    /\ UNCHANGED <<stage, fragment, promotionVars, runVars, candidate, vetted>>

PushEnds(j) ==
    /\ stage[j] = "push"
    /\ request[j] \in {"pushed", "failed"}
    /\ Moves(j, IF request[j] = "pushed" THEN "vet" ELSE "failed")
    /\ image' = [image EXCEPT ![j] = IF request[j] = "pushed" THEN @ ELSE NoDigest]
    /\ Goes(j, "none")
    /\ at' = [at EXCEPT ![j] = 0]
    /\ refreshes' = [refreshes EXCEPT ![j] = 0]
    /\ tag' = [tag EXCEPT ![j] = NoTag]
    /\ UNCHANGED <<registry, fragment, promotionVars, runVars, candidate, vetted>>

\* What the job does with the digest it has pushed.  The attestations are
\* verified and the image is pulled and scanned, each of which may fail without
\* ending the job (outputs that are missing are not acceptable); the evidence
\* is uploaded, the gates are required, and the fragment is uploaded whatever
\* they say.  It is one step: it reads nothing but the immutable image, and
\* writes nothing but the fragment, whose passed stands for
\* attestation_verified and promotion_authorized.
Vet(j) ==
    /\ stage[j] = "vet"
    /\ \E inspected, scanned, evidenceUp, fragmentUp \in BOOLEAN,
          out \in GateOutcomes[image[j]] :
          LET passes == /\ inspected /\ AttestationsVerified(Evidence[image[j]])
                        /\ scanned
                        /\ SecurityGateAcceptable(WindowsEnabled[RunOf[j]], out)
          IN
          /\ fragment' = IF fragmentUp
                THEN [fragment EXCEPT ![j] = [digest |-> image[j], passed |-> passes]]
                ELSE fragment
          /\ vetted' = IF passes
                THEN vetted \cup {<<ServiceOf[j], CommitFor(j), image[j]>>}
                ELSE vetted
          /\ Moves(j, IF passes /\ evidenceUp /\ fragmentUp THEN "built" ELSE "failed")
    /\ image' = [image EXCEPT ![j] = NoDigest]
    /\ UNCHANGED <<registry, client, tag, promotionVars, runVars, candidate>>

\* The runner is lost, or the job cancelled, before the fragment is uploaded.
BuildLost(j) ==
    /\ stage[j] = "vet"
    /\ Moves(j, "failed")
    /\ image' = [image EXCEPT ![j] = NoDigest]
    /\ UNCHANGED <<registry, client, tag, fragment, promotionVars, runVars, candidate, vetted>>

-----------------------------------------------------------------------------
(* aggregate_policy: validate_publisher_exception_set.py.                  *)

ImagesOf(r) == {<<ServiceOf[j], fragment[j].digest>> : j \in JobsOf(r)} \cup Unchanged[r]
ActiveDigests(r) == {i[2] : i \in ImagesOf(r)}

FragmentsAccepted(r) ==
    /\ \A j \in JobsOf(r) :
          fragment[j] # NoFile /\ fragment[j].passed
    /\ \A i \in Unchanged[r], j \in JobsOf(r) : i[1] # ServiceOf[j]
    /\ \A i, k \in ImagesOf(r) : i # k => i[1] # k[1] /\ i[2] # k[2]

ExceptionSetAccepted(r) ==
    LET entries == UnchangedExceptions[r] \cup UNION {Exceptions[j] : j \in JobsOf(r)} IN
    /\ CompletePolicyAccepted(entries, ActiveDigests(r), Today)
    /\ \A x \in entries : ExceptionAccepted(x, "image", Today)

\* needs: every build job of the run has succeeded, in this attempt or before.
ValidateSet(r) ==
    /\ verdict[r] = "none"
    /\ \A j \in JobsOf(r) : stage[j] = "built"
    /\ \/ /\ FragmentsAccepted(r)
          /\ r \in Strict => ExceptionSetAccepted(r)
          /\ receipt' = [receipt EXCEPT ![r] = ImagesOf(r)]
          /\ verdict' = [verdict EXCEPT ![r] = "validated"]
       \/ /\ verdict' = [verdict EXCEPT ![r] = "refused"]
          /\ UNCHANGED receipt
    /\ UNCHANGED <<pushVars, stage, fragment, promotionVars, attempt, manifest, candidate,
                   vetted>>

-----------------------------------------------------------------------------
(* Promotion, in both workflows: imagetools create writes the two tags, one *)
(* after the other, and retry_network.py repeats a call that fails for a    *)
(* transient reason.                                                        *)

Promoted(a) == IF a \in Job THEN fragment[a].digest ELSE candidate[a]

\* Mutation: an image is promoted as soon as its own build job has succeeded.
StartPromotion_Alone(j) ==
    /\ stage[j] = "built"
    /\ Moves(j, IF fragment[j].passed THEN "release tag" ELSE "unpromoted")
    /\ UNCHANGED <<pushVars, fragment, promotionVars, runVars, candidate, vetted>>

\* The receipt must name the very image of the fragment.
StartPromotion(j) ==
    /\ stage[j] = "built"
    /\ verdict[RunOf[j]] = "validated"
    /\ Moves(j, IF /\ fragment[j].passed
                   /\ <<ServiceOf[j], fragment[j].digest>> \in receipt[RunOf[j]]
                   THEN "release tag" ELSE "unpromoted")
    /\ UNCHANGED <<pushVars, fragment, promotionVars, runVars, candidate, vetted>>

TagWritten(a, t) ==
    /\ Promoted(a) \in manifests[ServiceFor(a)]
    /\ tags' = [tags EXCEPT ![ServiceFor(a)][t] = Promoted(a)]

WriteReleaseTag(a) ==
    /\ stage[a] = "release tag"
    /\ TagWritten(a, ReleaseTag[CommitFor(a)])
    /\ Moves(a, "sha tag")
    /\ UNCHANGED <<blobs, manifests, client, image, tag, fragment, promotionVars, runVars,
                   candidate, vetted>>

WriteShaTag(a) ==
    /\ stage[a] = "sha tag"
    /\ TagWritten(a, ShaTag[CommitFor(a)])
    /\ Moves(a, "read back")
    /\ tries' = [tries EXCEPT ![a] = 0]
    /\ UNCHANGED <<blobs, manifests, client, image, tag, fragment, released, runVars,
                   candidate, vetted>>

\* retry_network.py: imagetools create has failed for a transient reason, before,
\* between or after its writes, and is called again.
TaggingRetried(a) ==
    /\ stage[a] \in {"release tag", "sha tag"}
    /\ tries[a] + 1 < NetworkAttempts[ActorRun(a)]
    /\ tries' = [tries EXCEPT ![a] = @ + 1]
    /\ Moves(a, "release tag")
    /\ \/ UNCHANGED tags
       \/ stage[a] = "sha tag" /\ TagWritten(a, ShaTag[CommitFor(a)])
    /\ UNCHANGED <<blobs, manifests, client, image, tag, fragment, released, runVars,
                   candidate, vetted>>

\* verify_published_digest, attestation, and the upload of the fragment.
ReadBack(j) ==
    /\ stage[j] = "read back"
    /\ \/ /\ tags[ServiceOf[j]][ReleaseTag[CommitFor(j)]] = Promoted(j)
          /\ released' = [released EXCEPT ![j] = <<ServiceOf[j], Promoted(j)>>]
          /\ Moves(j, "promoted")
       \/ Moves(j, "unpromoted") /\ UNCHANGED released
    /\ UNCHANGED <<pushVars, fragment, tries, runVars, candidate, vetted>>

\* A tag that cannot be written, or the runner is lost.
PromotionLost(a) ==
    /\ stage[a] \in Promoting
    /\ Moves(a, "unpromoted")
    /\ tries' = [tries EXCEPT ![a] = 0]
    /\ UNCHANGED <<pushVars, fragment, released, runVars, candidate, vetted>>

-----------------------------------------------------------------------------
\* Mutation: the manifest names what has been promoted, be it all or not.
Aggregate_WhatThereIs(r) ==
    /\ verdict[r] = "validated"
    /\ \A j \in JobsOf(r) : stage[j] \in {"promoted", "unpromoted"}
    /\ manifest' = [manifest EXCEPT ![r] = {released[j] : j \in JobsOf(r)} \ {NoFile}]
    /\ verdict' = [verdict EXCEPT ![r] = "released"]
    /\ UNCHANGED <<pushVars, stage, fragment, promotionVars, attempt, receipt, candidate,
                   vetted>>

\* aggregate: needs every promotion of the run.
Aggregate(r) ==
    /\ verdict[r] = "validated"
    /\ \A j \in JobsOf(r) : stage[j] = "promoted"
    /\ \/ /\ manifest' = [manifest EXCEPT ![r] = {released[j] : j \in JobsOf(r)}]
          /\ verdict' = [verdict EXCEPT ![r] = "released"]
       \/ /\ verdict' = [verdict EXCEPT ![r] = "unreleased"]
          /\ UNCHANGED manifest
    /\ UNCHANGED <<pushVars, stage, fragment, promotionVars, attempt, receipt, candidate,
                   vetted>>

BuildsEnded(r) ==
    /\ \A j \in JobsOf(r) : stage[j] \in {"built", "failed"}
    /\ \E j \in JobsOf(r) : stage[j] = "failed"

PromotionsEnded(r) ==
    /\ \A j \in JobsOf(r) : stage[j] \in {"promoted", "unpromoted"}
    /\ \E j \in JobsOf(r) : stage[j] = "unpromoted"

Failed(r) == BuildsEnded(r) \/ PromotionsEnded(r) \/ verdict[r] \in {"refused", "unreleased"}

\* "Re-run failed jobs": what succeeded is not done again.
Rerun(r) ==
    /\ Failed(r)
    /\ attempt[r] < Len(CandidateTag[r])
    /\ attempt' = [attempt EXCEPT ![r] = @ + 1]
    /\ stage' = [a \in Actor |->
                    IF a \notin JobsOf(r) THEN stage[a]
                    ELSE IF stage[a] = "failed" THEN "queued"
                    ELSE IF stage[a] = "unpromoted" THEN "built"
                    ELSE stage[a]]
    /\ verdict' = [verdict EXCEPT ![r] = IF @ = "refused" THEN "none"
                                         ELSE IF @ = "unreleased" THEN "validated" ELSE @]
    /\ UNCHANGED <<pushVars, fragment, promotionVars, receipt, manifest, candidate, vetted>>

-----------------------------------------------------------------------------
(* _container-candidate-promote.yml                                        *)

\* validate_candidate_exceptions.py; no file is accepted as well.
CandidateExceptionsAccepted(entries, d) ==
    /\ \A x \in entries :
          /\ x.scanTypes = {"image"} /\ x.targets = {d} /\ x.lineage = {} /\ x.purls # {}
          /\ \A y \in entries : x.id = y.id => x = y

\* Whatever digest is asked for, the image under it is checked before it is
\* tagged: attestations with their source, exceptions, a scan that passed.
CheckCandidate(c) ==
    /\ stage[c] = "queued"
    /\ \E d \in Digest, out \in UNION {GateOutcomes[e] : e \in Digest} :
          /\ out \in GateOutcomes[d]
          /\ IF /\ Whole(PromotedService[c], d)
                /\ AttestationsVerified(Evidence[d])
                /\ SourceVerified(Evidence[d], CommitOf[c])
                /\ CandidateExceptionsAccepted(CandidateExceptions[c], d)
                /\ out.result = "passed"
                THEN /\ Moves(c, "release tag")
                     /\ candidate' = [candidate EXCEPT ![c] = d]
                     /\ vetted' = vetted \cup {<<PromotedService[c], CommitOf[c], d>>}
                ELSE Moves(c, "unpromoted") /\ UNCHANGED <<candidate, vetted>>
    /\ UNCHANGED <<pushVars, fragment, promotionVars, runVars>>

\* Both tags are read back, and the manifest is written.
ReadBackBoth(c) ==
    LET s == PromotedService[c] IN
    /\ stage[c] = "read back"
    /\ \/ /\ tags[s][ReleaseTag[CommitOf[c]]] = candidate[c]
          /\ tags[s][ShaTag[CommitOf[c]]] = candidate[c]
          /\ manifest' = [manifest EXCEPT ![c] = {<<s, candidate[c]>>}]
          /\ Moves(c, "promoted")
       \/ Moves(c, "unpromoted") /\ UNCHANGED manifest
    /\ UNCHANGED <<pushVars, fragment, promotionVars, attempt, verdict, receipt, candidate,
                   vetted>>

-----------------------------------------------------------------------------
\* Steps of jobs that have been started.
JobStep(j) ==
    \/ Build(j) \/ Push(j) \/ PushEnds(j) \/ Vet(j)
    \/ StartPromotion(j) \/ ReadBack(j)

Tagging(a) == WriteReleaseTag(a) \/ WriteShaTag(a) \/ TaggingRetried(a) \/ PromotionLost(a)

RunStep(r) ==
    \/ ValidateSet(r) \/ Aggregate(r)
    \/ \E j \in JobsOf(r) : JobStep(j) \/ Tagging(j) \/ BuildLost(j)

CandidateStep(c) == ReadBackBoth(c) \/ Tagging(c)

Published ==
    \/ \E r \in Run : RunStep(r) \/ Rerun(r)
    \/ \E c \in Promotion : CheckCandidate(c) \/ CandidateStep(c)

Next == Published \/ \E r \in Run : StartRun(r)

Spec == Init /\ [][Next]_vars

\* An HTTP request ends: it has a timeout.
PushFairness == \A j \in Job : RunOf[j] \notin Inline => WF_vars(Push(j))
-----------------------------------------------------------------------------
TypeOK ==
    /\ PushTypeOK
    /\ attempt \in [Run -> Nat]
    /\ \A r \in Run : attempt[r] <= Len(CandidateTag[r])
    /\ verdict \in [Run -> {"none", "validated", "refused", "released", "unreleased"}]
    /\ stage \in [Actor -> Stage]
    /\ fragment \in [Job -> [digest : Digest, passed : BOOLEAN] \cup {NoFile}]
    /\ receipt \in [Run -> (SUBSET (Service \X Digest)) \cup {NoFile}]
    /\ candidate \in [Promotion -> Digest \cup {NoDigest}]
    /\ tries \in [Actor -> Nat]
    /\ \A a \in Actor : tries[a] \in 0..(NetworkAttempts[ActorRun(a)] - 1)
    /\ released \in [Actor -> (Service \X Digest) \cup {NoFile}]
    /\ manifest \in [Run \cup Promotion -> (SUBSET (Service \X Digest)) \cup {NoFile}]
    /\ vetted \subseteq Service \X Commit \X Digest

\* Whoever writes the two release tags of a commit, in whatever order runs,
\* attempts and candidate promotions interleave: a release tag only ever names
\* an image that was attested and let pass by a gate for that service and
\* commit, and, when a publication wrote it, every image of that run's set was
\* (aggregate_policy before promote; _container-candidate-promote.yml).
OnlyWholeSetsAreReleased ==
    \A s \in Service, h \in Commit : \A t \in {ReleaseTag[h], ShaTag[h]} :
        tags[s][t] # NoDigest =>
            /\ <<s, h, tags[s][t]>> \in vetted
            /\ \/ \E c \in Promotion : CommitOf[c] = h /\ candidate[c] = tags[s][t]
               \/ \E r \in Run :
                     /\ CommitOf[r] = h
                     /\ receipt[r] # NoFile
                     /\ <<s, tags[s][t]>> \in receipt[r]
                     /\ \A i \in receipt[r] \ Unchanged[r] : <<i[1], h, i[2]>> \in vetted

\* A manifest names one image for each service the run was asked to build, the
\* very images the set validation saw, each vetted and still whole in the
\* registry, although promotions failed, were retried and run again in between
\* (the aggregate job and the artifacts it reads).
ManifestIsWhatWasValidated ==
    \A r \in Run : manifest[r] # NoFile =>
        /\ manifest[r] = receipt[r] \ Unchanged[r]
        /\ {i[1] : i \in manifest[r]} = {ServiceOf[j] : j \in JobsOf(r)}
        /\ \A i \in manifest[r] :
              <<i[1], CommitOf[r], i[2]>> \in vetted /\ Whole(i[1], i[2])

\* A push comes to an end, whatever the registry answers: one budget of
\* credential refreshes serves all of its requests, and an upload session that
\* starts over draws on it as well (push_oci_layout.py, request and push_blob).
EveryPushEnds ==
    \A j \in Job : request[j] = "load" ~> request[j] \in {"pushed", "failed"}
=============================================================================
