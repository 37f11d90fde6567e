--------------------------- MODULE ValidationGate ---------------------------
(***************************************************************************)
(* .github/workflows/_validation-gate.yml and _security-suite.yml, called  *)
(* by the workflow runs of a commit, and the authorization the caller asks *)
(* for: preflight; then the repository's own validation beside the         *)
(* security suite (profile, scan jobs, summary); then the attestation.     *)
(*                                                                         *)
(* A job that has ended keeps its outputs when other jobs are run again in *)
(* a later attempt.  Jobs, their results and outputs are GitHub's and      *)
(* external; the scans of a job are any that end.                          *)
(***************************************************************************)
EXTENDS SecurityEvidence, RepositoryValidation

CONSTANTS
    GateCommit,     \* [Validation -> github.sha]
    GateCalls,      \* what a gate may be called with
    AllowedPaths,   \* allowed_paths_json
    NoSuite, NoAttestation,
    MaxAttempts, MaxFaults  \* bounds: attempts of a run, and jobs that break in it

ASSUME GateAssumption ==
    /\ MaxAttempts \in Nat \ {0} /\ MaxFaults \in Nat
    /\ \A res \in {"passed", "failed"}, n \in 1..MaxAttempts :
          NoSuite # [result |-> res, attempt |-> n]

VARIABLES
    call,           \* [Validation -> the inputs, event and runner of the gate]
    gateAttempt,    \* github.run_attempt
    result,         \* [Validation -> [GateJob -> result]]
    output,         \* [Validation -> [Child -> outputs of the scan job]]
    suite,          \* outputs of the summary
    attestation,    \* outputs of the attestation
    authorized, faults

jobVars == <<result, output, suite, attestation, authorized>>
gateVars == <<call, gateAttempt, jobVars, faults, repositoryVars>>

GateJob == Child \cup {"preflight", "repository_validation", "profile", "summary",
                       "attest", "authorize"}

-----------------------------------------------------------------------------
(* The trust of runners, checked again and again: in the preflight, in the  *)
(* profile and every scan job, and in the repository validation.            *)

SelfHosted(c) == c.runner \in {"persistent", "ephemeral"}
TrustedMain(c) == c.event \in {"push", "workflow_dispatch"} /\ c.onMain

\* Mutation: a persistent runner is open to every event.
PreflightAccepts_AnyEvent(c, commit) ==
    /\ c.candidate = commit
    /\ \/ c.path = "hosted" /\ c.runner = "hosted"
       \/ c.path = "self-hosted" /\ SelfHosted(c)
       \/ c.path = "ephemeral-pr" /\ c.runner = "ephemeral" /\ c.event = "pull_request"

\* preflight and emergency-preflight; the latter waits for its reviewers.
PreflightAccepts(c, commit) ==
    /\ c.candidate = commit
    /\ \/ c.path = "hosted" /\ c.runner = "hosted"
       \/ c.path = "self-hosted" /\ SelfHosted(c) /\ TrustedMain(c)
       \/ c.path = "ephemeral-pr" /\ c.runner = "ephemeral" /\ c.event = "pull_request"
       \/ /\ c.path = "reviewed-emergency" /\ SelfHosted(c)
          /\ c.event = "workflow_dispatch" /\ c.onMain

NeedsTrustedRef(c) == c.path \in {"self-hosted", "reviewed-emergency"}

RunnerTrusted(c) ==
    IF SelfHosted(c)
       THEN \/ NeedsTrustedRef(c) /\ TrustedMain(c)
            \/ c.path = "ephemeral-pr" /\ c.event = "pull_request" /\ c.runner = "ephemeral"
       ELSE c.runner = "hosted" /\ c.path = "hosted"

\* _repository-validation.yml leaves the event of a trusted ref to the preflight.
RepositoryRunnerAccepted(c) ==
    IF SelfHosted(c)
       THEN \/ NeedsTrustedRef(c)
            \/ c.path = "ephemeral-pr" /\ c.event = "pull_request" /\ c.runner = "ephemeral"
       ELSE c.path # "ephemeral-pr"

-----------------------------------------------------------------------------
Ended(r, n) == result[r][n] \in JobResult
Ends(r, n, res) == result' = [result EXCEPT ![r][n] = res]
Waits(r, n) == result[r][n] = "queued"

\* Bound: the environment breaks only so many jobs of a run.
Breaks(r) == faults[r] < MaxFaults /\ faults' = [faults EXCEPT ![r] = @ + 1]
Fine(r, ok) == IF ok THEN UNCHANGED faults ELSE Breaks(r)

GateInit ==
    /\ RepositoryInit
    /\ call \in [Validation -> GateCalls]
    /\ gateAttempt = [r \in Validation |-> 1]
    /\ result = [r \in Validation |-> [n \in GateJob |-> "queued"]]
    /\ output = [r \in Validation |-> [n \in Child |-> NoOutput]]
    /\ suite = [r \in Validation |-> NoSuite]
    /\ attestation = [r \in Validation |-> NoAttestation]
    /\ authorized = [r \in Validation |-> FALSE]
    /\ faults = [r \in Validation |-> 0]

Preflight(r) ==
    /\ Waits(r, "preflight")
    /\ \E ok \in BOOLEAN :
          /\ Ends(r, "preflight",
                  IF ok /\ PreflightAccepts(call[r], GateCommit[r]) THEN "success" ELSE "failure")
          /\ Fine(r, ok)
    /\ UNCHANGED <<call, gateAttempt, output, suite, attestation, authorized, repositoryVars>>

-----------------------------------------------------------------------------
(* The repository's validation.                                            *)

RepositoryValidationStarts(r) ==
    /\ Waits(r, "repository_validation")
    /\ Ended(r, "preflight")
    /\ IF result[r]["preflight"] # "success"
          THEN Ends(r, "repository_validation", "skipped") /\ UNCHANGED repositoryVars
          ELSE IF RepositoryRunnerAccepted(call[r])
          THEN Ends(r, "repository_validation", "running") /\ StartValidation(r)
          ELSE Ends(r, "repository_validation", "failure") /\ UNCHANGED repositoryVars
    /\ UNCHANGED <<call, gateAttempt, output, suite, attestation, authorized, faults>>

RepositoryValidationProceeds(r) ==
    /\ result[r]["repository_validation"] = "running"
    /\ \/ ValidationStep(r, NeedsTrustedRef(call[r])) /\ UNCHANGED faults
       \/ ValidationBreaks(r) /\ Breaks(r)
    /\ UNCHANGED <<call, gateAttempt, jobVars>>

RepositoryValidationEnds(r) ==
    /\ result[r]["repository_validation"] = "running"
    /\ step[r] \in {"passed", "failed"}
    /\ Ends(r, "repository_validation", IF step[r] = "passed" THEN "success" ELSE "failure")
    /\ UNCHANGED <<call, gateAttempt, output, suite, attestation, authorized, faults,
                   repositoryVars>>

-----------------------------------------------------------------------------
(* The security suite.                                                     *)

ProfileJob(r) ==
    /\ Waits(r, "profile")
    /\ Ended(r, "preflight")
    /\ \E ok \in BOOLEAN :
          /\ Ends(r, "profile",
                  IF result[r]["preflight"] # "success" THEN "skipped"
                  ELSE IF ok /\ RunnerTrusted(call[r]) THEN "success" ELSE "failure")
          /\ Fine(r, ok)
    /\ UNCHANGED <<call, gateAttempt, output, suite, attestation, authorized, repositoryVars>>

\* A job with image references that are blank runs, though it is not required.
Runs(c, n) ==
    \/ n \in {"static_lint", "filesystem_security"}
    \/ n \in {"dependency_policy", "sast"} /\ c.profile \in {"python", "node", "monorepo"}
    \/ n = "supply_chain" /\ c.profile \in {"compose", "infra", "monorepo"} /\ c.images # "none"

Identity(r) == [run |-> r, attempt |-> gateAttempt[r], source |-> GateCommit[r]]

\* A scan job: its gate, the evidence helper (checked out whatever the gate
\* says), the bundle, and the upload of what there is.
ScanJob(r, n) ==
    /\ Waits(r, n)
    /\ Ended(r, "profile")
    /\ IF result[r]["profile"] # "success" \/ ~Runs(call[r], n)
          THEN Ends(r, n, "skipped") /\ UNCHANGED <<output, faults>>
          ELSE \E conclusion \in {"success", "failure", "cancelled"},
                  content, helper, uploaded \in BOOLEAN :
                  LET record == Bundle(Identity(r), n, conclusion, content)
                      ok == conclusion = "success" /\ helper /\ ~BundleFails(record) /\ uploaded
                  IN
                  /\ RunnerTrusted(call[r]) \/ conclusion # "success"
                  /\ uploaded => helper \/ content
                  /\ output' = [output EXCEPT ![r][n] =
                        [record |-> IF helper THEN record ELSE NoRecord,
                         artifact |-> IF uploaded THEN n ELSE NoArtifact]]
                  /\ Ends(r, n, IF conclusion = "cancelled" THEN "cancelled"
                                ELSE IF ok THEN "success" ELSE "failure")
                  /\ Fine(r, ok)
    /\ UNCHANGED <<call, gateAttempt, suite, attestation, authorized, repositoryVars>>

SuiteJobs(r) == [n \in SuiteJob |-> result[r][n]]

\* summary: it runs whatever became of the jobs, unless the whole suite was
\* skipped; without its checkouts, or with an untrusted runner, it can only fail.
Summary(r) ==
    /\ Waits(r, "summary")
    /\ \A n \in SuiteJob : Ended(r, n)
    /\ IF result[r]["preflight"] # "success"
          THEN Ends(r, "summary", "skipped") /\ UNCHANGED <<suite, faults>>
          ELSE \E ok \in BOOLEAN :
                  LET passes == /\ ok /\ result[r]["profile"] = "success"
                                /\ SuitePasses(RequiredJobs(call[r].profile, call[r].images),
                                               SuiteJobs(r), output[r], Identity(r))
                  IN
                  /\ suite' = [suite EXCEPT ![r] =
                        [result |-> IF passes THEN "passed" ELSE "failed",
                         attempt |-> gateAttempt[r]]]
                  /\ Ends(r, "summary", IF passes THEN "success" ELSE "failure")
                  /\ Fine(r, ok)
    /\ UNCHANGED <<call, gateAttempt, output, attestation, authorized, repositoryVars>>

-----------------------------------------------------------------------------
(* The attestation and the authorization.                                  *)

\* The result of a called workflow.
WorkflowResult(r, jobs) ==
    IF \A n \in jobs : result[r][n] = "skipped" THEN "skipped"
    ELSE IF \A n \in jobs : result[r][n] \in {"success", "skipped"} THEN "success"
    ELSE "failure"

SuiteResult(r) == WorkflowResult(r, SuiteJob \cup {"summary"})

\* attest runs always; its outputs stay when the upload fails.
Attest(r) ==
    /\ Waits(r, "attest")
    /\ Ended(r, "repository_validation") /\ Ended(r, "summary")
    /\ \E ok \in BOOLEAN :
          LET made == Attestation(call[r].candidate, call[r].path,
                     [check \in {"repository_validation", "security_suite"} |->
                        IF check = "security_suite" THEN SuiteResult(r)
                        ELSE result[r]["repository_validation"]])
          IN
          /\ attestation' = [attestation EXCEPT ![r] =
                IF call[r].candidate = GateCommit[r] THEN made ELSE NoAttestation]
          /\ Ends(r, "attest", IF /\ ok /\ call[r].candidate = GateCommit[r]
                                  /\ made.result = "passed"
                                  THEN "success" ELSE "failure")
          /\ Fine(r, ok)
    /\ UNCHANGED <<call, gateAttempt, output, suite, authorized, repositoryVars>>

\* The caller's job, which runs always.
Authorize(r) ==
    LET granted == /\ attestation[r] # NoAttestation
                   /\ Authorized(WorkflowResult(r, GateJob \ {"authorize"}), attestation[r],
                                 GateCommit[r], AllowedPaths, call[r].onMain)
    IN
    /\ Waits(r, "authorize")
    /\ Ended(r, "attest")
    /\ authorized' = [authorized EXCEPT ![r] = granted]
    /\ Ends(r, "authorize", IF granted THEN "success" ELSE "failure")
    /\ UNCHANGED <<call, gateAttempt, output, suite, attestation, faults, repositoryVars>>

Dependents(n) ==
    CASE n = "preflight" -> GateJob \ {"preflight"}
      [] n = "profile" -> Child \cup {"summary", "attest", "authorize"}
      [] n \in Child -> {"summary", "attest", "authorize"}
      [] n \in {"repository_validation", "summary"} -> {"attest", "authorize"}
      [] n = "attest" -> {"authorize"}
      [] n = "authorize" -> {}

FailedJobs(r) == {n \in GateJob : result[r][n] \in {"failure", "cancelled"}}

\* "Re-run failed jobs", or one job, and with them the jobs that need them.
\* (Bound: a run that was authorized is not run again.)
RerunGate(r) ==
    /\ Ended(r, "authorize") /\ ~authorized[r]
    /\ gateAttempt[r] < MaxAttempts
    /\ gateAttempt' = [gateAttempt EXCEPT ![r] = @ + 1]
    /\ \E chosen \in {FailedJobs(r)} \cup {{n} : n \in GateJob} :
          LET again == chosen \cup UNION {Dependents(n) : n \in chosen} IN
          /\ result' = [result EXCEPT ![r] =
                [n \in GateJob |-> IF n \in again THEN "queued" ELSE @[n]]]
          /\ output' = [output EXCEPT ![r] =
                [n \in Child |-> IF n \in again THEN NoOutput ELSE @[n]]]
          /\ suite' = [suite EXCEPT ![r] = IF "summary" \in again THEN NoSuite ELSE @]
          /\ attestation' = [attestation EXCEPT ![r] =
                IF "attest" \in again THEN NoAttestation ELSE @]
          /\ step' = [step EXCEPT ![r] =
                IF "repository_validation" \in again THEN "waiting" ELSE @]
    /\ UNCHANGED <<call, authorized, faults, workspace, exits, trusted>>

GateStep(r) ==
    \/ Preflight(r)
    \/ RepositoryValidationStarts(r) \/ RepositoryValidationProceeds(r)
    \/ RepositoryValidationEnds(r)
    \/ ProfileJob(r) \/ Summary(r) \/ Attest(r) \/ Authorize(r) \/ RerunGate(r)
    \/ \E n \in Child : ScanJob(r, n)

-----------------------------------------------------------------------------
GateTypeOK ==
    /\ RepositoryTypeOK
    /\ call \in [Validation -> GateCalls]
    /\ gateAttempt \in [Validation -> 1..MaxAttempts]
    /\ result \in [Validation -> [GateJob -> JobResult \cup {"queued", "running"}]]
    /\ suite \in [Validation -> {NoSuite} \cup
                    [result : {"passed", "failed"}, attempt : 1..MaxAttempts]]
    /\ authorized \in [Validation -> BOOLEAN]
    /\ faults \in [Validation -> 0..MaxFaults]

\* However jobs fail and are run again, a suite that has passed rests on one
\* piece of evidence from each required scan, all of the commit and of the very
\* attempt in which the suite was summed up, with something in it and uploaded
\* (security_evidence.py; _security-suite.yml, summary).
SuiteRestsOnOneAttempt ==
    \A r \in Validation :
        (suite[r] # NoSuite /\ suite[r].result = "passed") =>
            \A n \in RequiredJobs(call[r].profile, call[r].images) \ {"profile"} :
                /\ output[r][n].artifact # NoArtifact
                /\ output[r][n].record # NoRecord
                /\ output[r][n].record.attempt = suite[r].attempt
                /\ output[r][n].record.source = GateCommit[r]
                /\ output[r][n].record.result = "passed" /\ output[r][n].record.content

\* An authorized commit is the one both halves of the gate have passed: its own
\* validation ran and ended well, in a trusted workspace where that is asked
\* for, and its suite passed; on the required branch, by an allowed path
\* (attestation.py; authorize.py; _validation-gate.yml).
AuthorizedMeansValidated ==
    \A r \in Validation : authorized[r] =>
        /\ call[r].candidate = GateCommit[r]
        /\ step[r] = "passed" /\ exits[r][Len(exits[r])] = "ok"
        /\ NeedsTrustedRef(call[r]) => trusted[r]
        /\ suite[r] # NoSuite /\ suite[r].result = "passed"
        /\ call[r].path \in AllowedPaths /\ call[r].onMain

\* Code of a commit is only executed on a persistent runner for a push to main
\* or a dispatch on it, and once the commit was found there
\* (_validation-gate.yml, preflight; runner.py, verify_trusted_candidate).
PersistentRunnersRunTrustedCode ==
    \A r \in Validation :
        (call[r].runner = "persistent" /\ step[r] # "waiting" /\ exits[r] # << >>) =>
            TrustedMain(call[r]) /\ (step[r] # "check out" => trusted[r])
=============================================================================
