-------------------------- MODULE SecurityEvidence --------------------------
(***************************************************************************)
(* scripts/security_evidence.py: what one scan job of the security suite   *)
(* records about itself, and the summary that decides about all of them;   *)
(* and the two decisions that rest on it, the attestation                  *)
(* (validation_attestation/attestation.py) and the authorization           *)
(* (validation_authorization/authorize.py).                                *)
(*                                                                         *)
(* A record is bound to a run, an attempt of it, a source commit and a     *)
(* producer; its texts are otherwise well formed.  Hashes stand for what   *)
(* they are computed from.                                                 *)
(***************************************************************************)
EXTENDS Naturals, FiniteSets

CONSTANTS NoRecord, NoArtifact

Child == {"static_lint", "filesystem_security", "dependency_policy", "sast",
          "supply_chain"}
SuiteJob == Child \cup {"profile"}
JobResult == {"success", "failure", "cancelled", "skipped"}
Profile == {"python", "node", "compose", "infra", "monorepo"}

-----------------------------------------------------------------------------
\* create_evidence_bundle: content tells whether any raw file has a byte in it
\* (the sidecar is not counted).
Bundle(identity, producer, conclusion, content) ==
    [run |-> identity.run, attempt |-> identity.attempt, source |-> identity.source,
     producer |-> producer, conclusion |-> conclusion, content |-> content,
     result |-> IF conclusion = "success" /\ content THEN "passed" ELSE "failed"]

\* main ("bundle"): the step fails where the scan claims a success it has
\* nothing to show for; it does not fail again for a scan that has failed.
BundleFails(record) == record.conclusion = "success" /\ record.result # "passed"

\* What the summary is given of a child: its record and its uploaded artifact.
NoOutput == [record |-> NoRecord, artifact |-> NoArtifact]

\* Mutation: the attempt of the run is not compared.
ChildAccepted_AnyAttempt(name, output, jobResult, expected) ==
    LET r == output.record IN
    /\ r # NoRecord
    /\ r.run = expected.run /\ r.source = expected.source
    /\ r.producer = name
    /\ r.result = "passed" => r.conclusion = "success"
    /\ jobResult = "success" => r.result = "passed"
    /\ jobResult \in {"failure", "cancelled"} => r.conclusion = jobResult
    /\ output.artifact # NoArtifact
    /\ r.result = "passed" => r.content

\* _child_evidence_issues finds none.
ChildAccepted(name, output, jobResult, expected) ==
    LET r == output.record IN
    /\ r # NoRecord
    /\ r.run = expected.run /\ r.attempt = expected.attempt /\ r.source = expected.source
    /\ r.producer = name
    /\ r.result = "passed" => r.conclusion = "success"
    /\ jobResult = "success" => r.result = "passed"
    /\ jobResult \in {"failure", "cancelled"} => r.conclusion = jobResult
    /\ output.artifact # NoArtifact
    /\ r.result = "passed" => r.content

\* summarize_security_suite.
\* images: "none", "blank" (nothing but spaces) or "some".
RequiredJobs(profile, images) ==
    {"profile", "static_lint", "filesystem_security"}
        \cup (IF profile \in {"python", "node", "monorepo"}
                 THEN {"dependency_policy", "sast"} ELSE {})
        \cup (IF profile \in {"compose", "infra", "monorepo"} /\ images = "some"
                 THEN {"supply_chain"} ELSE {})

SuitePasses(required, jobs, outputs, expected) ==
    /\ \A n \in SuiteJob : jobs[n] \notin {"failure", "cancelled"}
    /\ \A n \in required : jobs[n] = "success"
    /\ \A n \in Child :
          IF jobs[n] = "skipped" /\ n \notin required
             THEN outputs[n] = NoOutput
             ELSE ChildAccepted(n, outputs[n], jobs[n], expected)

-----------------------------------------------------------------------------
\* main, for a candidate that is the commit of its context.
Attestation(candidate, path, results) ==
    [validated |-> candidate, path |-> path,
     result |-> IF \A check \in DOMAIN results : results[check] = "success"
                   THEN "passed" ELSE "failed"]

\* authorize.
Authorized(jobResult, attestation, candidate, allowedPaths, onRequiredRef) ==
    /\ jobResult = "success"
    /\ attestation.result = "passed"
    /\ attestation.validated = candidate
    /\ attestation.path \in allowedPaths
    /\ onRequiredRef
=============================================================================
