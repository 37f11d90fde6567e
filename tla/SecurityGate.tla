---------------------------- MODULE SecurityGate ----------------------------
(***************************************************************************)
(* One call of the security gate (.github/actions/security-gate/action.yml *)
(* with scripts/security_gate/): per target an image transport, Trivy, the *)
(* reviewed exceptions and baseline; then the remediation windows; then    *)
(* the outputs, which remediation_window_contract.py accepts or not.       *)
(*                                                                         *)
(* A gate input g is a record: scanType, targets, mode, docker (how docker *)
(* answers for each target), report (what Trivy finds in each target, a    *)
(* set of findings), exceptions (a set), baseline, enabled (windows),      *)
(* service, exposure.  A finding is a record of kind, id, purl, path,      *)
(* severity and fixed (a fixed version exists); versions are part of purl. *)
(* Trivy is external: it reports what there is.                            *)
(***************************************************************************)
EXTENDS RemediationWindow

CONSTANTS
    AnyTarget,      \* the "*" of an exception's targets
    NoBaseline      \* no baseline file is configured

-----------------------------------------------------------------------------
(* prepare_image_transport: docker directly, or through sudo an archive.   *)

Unavailable(reason) == [ready |-> FALSE, reason |-> reason]

Transport(mode, d) ==
    IF mode \in {"auto", "direct"} /\ d.inspect = "ok" THEN [ready |-> TRUE, reason |-> ""]
    ELSE IF mode = "direct" THEN
        Unavailable(IF d.inspect = "invalid" THEN "docker_identity_invalid"
                                             ELSE "docker_direct_inspect_failed")
    ELSE IF d.sudoInspect # "ok" THEN
        Unavailable(IF d.sudoInspect = "invalid" THEN "docker_identity_invalid"
                    ELSE IF mode = "sudo" THEN "docker_sudo_inspect_failed"
                    ELSE "docker_access_failed")
    ELSE IF ~d.save THEN Unavailable("docker_save_failed")
    ELSE IF ~d.chown THEN Unavailable("docker_archive_ownership_failed")
    ELSE [ready |-> TRUE, reason |-> ""]

-----------------------------------------------------------------------------
(* render_exception_policy and filter_report.                              *)

\* One entry that is not accepted fails the scan, whatever it is about.
ExceptionAccepted(x, scanType, today) ==
    /\ today <= x.expires
    /\ scanType \in x.scanTypes =>
        /\ scanType = "image" => x.targets # {} \/ x.lineage # {}
        /\ scanType = "fs" => x.paths # {}
        /\ x.lineage # {} => x.purls # {}

ExceptionApplies(x, scanType, target, lineage) ==
    /\ scanType \in x.scanTypes
    /\ scanType = "image" => \/ x.targets \cap {target, AnyTarget} # {}
                             \/ x.lineage \cap lineage # {}

\* validate_complete_exception_policy: the entries of a release, against the
\* digests of its whole image set.  (Entries that repeat each other are one.)
CompletePolicyAccepted(entries, active, today) ==
    \A x \in entries :
        /\ today <= x.expires
        /\ IF "image" \in x.scanTypes
              THEN /\ x.targets # {} \/ x.lineage # {}
                   /\ x.targets \subseteq active
                   /\ x.paths # {} \/ x.purls # {}
                   /\ x.lineage # {} => x.purls # {}
              ELSE x.targets = {} /\ x.lineage = {}
        /\ "fs" \in x.scanTypes => x.paths # {}

Excepted(f, x) ==
    /\ f.id = x.id
    /\ x.paths # {} => f.path \in x.paths
    /\ x.purls # {} => f.purl \in x.purls

Rendered(g, t) ==
    {x \in g.exceptions : ExceptionApplies(x, g.scanType, t, g.docker[t].lineage)}

\* trivy --ignore-unfixed: what is fixable, and what is not a vulnerability.
Blocking(report) == {f \in report : f.kind = "vulnerability" => f.fixed}

Filtered(g, t) ==
    {f \in Blocking(g.report[t]) : \A x \in Rendered(g, t) : ~Excepted(f, x)}

-----------------------------------------------------------------------------
(* apply_baseline: exact reviewed fingerprints of one immutable image.     *)

Fingerprint5(f) == <<f.path, f.id, f.purl>>

Approved(b, t) == {item.fingerprint : item \in {i \in b.findings : i.scope = t}}

Vulnerabilities(report) == {f \in report : f.kind = "vulnerability"}

\* An expired or future review, or a fingerprint that is no longer found.
BaselineAccepted(g, t, today) ==
    \/ g.baseline = NoBaseline
    \/ /\ g.baseline.reviewedAt <= today
       /\ today <= g.baseline.expires
       /\ g.baseline.findings # {}
       /\ Approved(g.baseline, t) \subseteq
              {Fingerprint5(f) : f \in Vulnerabilities(Filtered(g, t))}

\* The findings left to block on.
Enforced(g, t) ==
    IF g.baseline = NoBaseline
       THEN Filtered(g, t)
       ELSE {f \in Filtered(g, t) :
                f.kind = "vulnerability" => Fingerprint5(f) \notin Approved(g.baseline, t)}

-----------------------------------------------------------------------------
(* The scan loop.  It leaves early, with the outputs it has set first, when *)
(* a target cannot be inspected, an exception is not accepted, or the       *)
(* baseline is not (its enforced report is then missing).                   *)

ScanRuns(g, today) ==
    /\ \A x \in g.exceptions : ExceptionAccepted(x, g.scanType, today)
    /\ \A t \in g.targets :
          /\ g.scanType = "image" => Transport(g.mode, g.docker[t]).ready
          /\ BaselineAccepted(g, t, today)

AllEnforced(g) == UNION {Enforced(g, t) : t \in g.targets}

\* main ("collect") and _canonical_observation: one observation per fixable
\* vulnerability.  The action gives neither known-exploited identifiers nor a
\* verified fixed image.
ObservationOf(g, t, f) ==
    [fingerprint |-> [service |-> g.service, advisory |-> f.id, purl |-> f.purl,
                      lineage |-> g.docker[t].lineage],
     severity |-> f.severity, exposure |-> g.exposure, image |-> t,
     knownExploited |-> FALSE, fixedImageVerified |-> FALSE,
     wellFormed |-> f.severity \in Severity /\ f.purl # ""]

Observations(g) ==
    UNION {{ObservationOf(g, t, f) : f \in Vulnerabilities(Enforced(g, t))} : t \in g.targets}

\* Observations can be collected from every target that blocks, in a context
\* the caller gives, and the windows are those of a policy that loads.
WindowRuns(g, entries, now) ==
    /\ g.scanType = "image"
    /\ \A t \in g.targets : Enforced(g, t) # {} =>
          g.docker[t].lineage # {} /\ g.service # "" /\ g.exposure # ""
    /\ PolicyAccepted(entries, now)

-----------------------------------------------------------------------------
(* aggregate_summaries and the outputs.                                    *)

Has(g, kind) == \E f \in AllEnforced(g) : f.kind = kind

\* Mutation: a fixable vulnerability is named before a secret.
Classification_SecretLast(g) ==
    IF Has(g, "vulnerability") THEN "actionable_vulnerability"
    ELSE IF Has(g, "secret") THEN "secret_detected"
    ELSE IF Has(g, "misconfiguration") THEN "misconfiguration_detected"
    ELSE IF \E t \in g.targets : Blocking(g.report[t]) # g.report[t] THEN "unfixed_warning"
    ELSE "clean"

\* The unfixed are counted in the complete report: no exception hides them.
Classification(g) ==
    IF Has(g, "secret") THEN "secret_detected"
    ELSE IF Has(g, "misconfiguration") THEN "misconfiguration_detected"
    ELSE IF Has(g, "vulnerability") THEN "actionable_vulnerability"
    ELSE IF \E t \in g.targets : Blocking(g.report[t]) # g.report[t] THEN "unfixed_warning"
    ELSE "clean"

ScannerError(w) == [result |-> "failed", classification |-> "scanner_error", window |-> w]

\* What the scan step leaves, the scans at the date scanned and the windows
\* evaluated at now: its result is also the outcome of the step.
GateOutputs(g, entries, scanned, now) ==
    IF ~ScanRuns(g, scanned) THEN ScannerError(NoDecision)
    ELSE IF g.enabled /\ ~WindowRuns(g, entries, now) THEN ScannerError(NoDecision)
    ELSE [result |-> IF AllEnforced(g) = {} THEN "passed" ELSE "failed",
          classification |-> Classification(g),
          window |-> IF g.enabled THEN Decision(Observations(g), entries, now)
                                  ELSE NoDecision]

\* security_gate_acceptable.  The texts that bind the outputs to an image and
\* a commit are always well formed here.
SecurityGateAcceptable(enabled, out) ==
    \/ out.result = "passed" /\ out.classification \in {"clean", "unfixed_warning"}
    \/ /\ out.result = "failed"
       /\ enabled
       /\ out.classification = "actionable_vulnerability"
       /\ out.window.allowed
       /\ out.window.decision = "allowed_window"
       /\ out.window.reason = ""
       /\ out.window.matching > 0
       /\ out.window.blocking > 0 /\ out.window.covered = out.window.blocking
       /\ out.window.rejected = 0 /\ out.window.overdue = 0
       /\ out.window.unmatched = 0 /\ out.window.reintroduced = 0
=============================================================================
