--------------------------- MODULE ReviewedWindows ---------------------------
(***************************************************************************)
(* The remediation policy over time.  Reviewers of a repository commit     *)
(* entries and revisions of the policy file, rightly or wrongly; the code  *)
(* cannot see earlier versions of the file, so what they may not do here   *)
(* is take a line back (docs/SECURITY_GATE.md asks them not to).  Gates    *)
(* check a commit out, scan an image, and evaluate the windows of that     *)
(* commit some time later.                                                 *)
(***************************************************************************)
EXTENDS SecurityGate, FiniteSetsExt

CONSTANTS
    Gate,           \* gate calls
    GateInputs,     \* what a gate call may be given and find
    NoInput,        \* before the call
    InitialPolicies,    \* policies there may be at first
    Fingerprint,    \* findings that reviewers begin to track
    MaxTime, MaxRevisions       \* bounds

ASSUME BoundsAssumption == MaxTime \in Nat /\ MaxRevisions \in Nat

VARIABLES
    now,
    entries,        \* the policy on the default branch
    pc,
    input,          \* what each gate call is given and finds
    commit,         \* the policy in its checkout
    scanned,        \* when it scanned
    evaluated,      \* when it evaluated the windows
    out             \* what it gave out

calls == <<pc, input, commit, scanned, evaluated, out>>
vars == <<now, entries, calls>>

Known == Fingerprint \cup
    UNION {{q[i].fingerprint : i \in 1..Len(q)} : q \in InitialPolicies}

Revision == [action : Action, firstSeen : Int, previous : Int, deadline : Int,
             reviewedAt : Int]

Entry == [id : Nat, fingerprint : Known, firstSeen : Int, deadline : Int,
          reviewedAt : Int, status : {"active"} \cup Action, history : Seq(Revision)]

ASSUME InitialPoliciesAssumption == InitialPolicies \subseteq Seq(Entry)

\* The action refuses any other scan type, and asks Trivy for these scanners
\* (action.yml:288).
ASSUME GateInputsAssumption ==
    \A g \in GateInputs :
        /\ g.scanType \in {"image", "fs"}
        /\ \A t \in g.targets : \A f \in g.report[t] :
              f.kind \in {"vulnerability", "secret", "misconfiguration"}

NoOutputs == ScannerError(NoDecision)

Init ==
    /\ now = 0
    /\ entries \in InitialPolicies
    /\ pc = [p \in Gate |-> "idle"]
    /\ input = [p \in Gate |-> NoInput]
    /\ commit = [p \in Gate |-> << >>]
    /\ scanned = [p \in Gate |-> 0]
    /\ evaluated = [p \in Gate |-> 0]
    /\ out = [p \in Gate |-> NoOutputs]

\* Bound: time need not pass once every gate is done.
Tick ==
    /\ now < MaxTime
    /\ \E p \in Gate : pc[p] # "done"
    /\ now' = now + 1
    /\ UNCHANGED <<entries, calls>>

RevisionCount == MapThenSumSet(LAMBDA i : Len(entries[i].history), 1..Len(entries))

\* Bound: nobody edits a file that no gate will read or ever accept again.
WorthEditing ==
    /\ \E p \in Gate : pc[p] = "idle"
    /\ entries = << >> \/ PolicyAccepted(entries, MaxTime + 1)

\* A finding is entered into the policy, with any sighting and any deadline.
Track(fp) ==
    /\ WorthEditing
    /\ \A i \in 1..Len(entries) : entries[i].fingerprint # fp
    /\ \E seen \in {0, now, now + 1}, length \in 0..2 : LET deadline == seen + length IN
          entries' = Append(entries,
              [id |-> Len(entries), fingerprint |-> fp, firstSeen |-> seen,
               deadline |-> deadline, reviewedAt |-> now, status |-> "active",
               history |-> << >>])
    /\ UNCHANGED <<now, calls>>

Revised(e, action, seen, previous, deadline, on, status) ==
    [id |-> e.id, fingerprint |-> e.fingerprint, firstSeen |-> e.firstSeen,
     deadline |-> e.deadline, reviewedAt |-> e.reviewedAt, status |-> status,
     history |-> Append(e.history,
        [action |-> action, firstSeen |-> seen, previous |-> previous,
         deadline |-> deadline, reviewedAt |-> on])]

\* What a reviewer may make of an entry: the right thing, or one with a slip in
\* a field the revision repeats, in its date, or in the status of the entry.
Revisions(e, action, later) ==
    LET from == EffectiveDeadline(e)
        status == IF action = "extended" THEN "active" ELSE action
    IN {Revised(e, action, e.firstSeen, from, from + later, now, status),
        Revised(e, action, now, from, from + later, now, status),
        Revised(e, action, e.firstSeen, e.deadline, from + later, now, status),
        Revised(e, action, e.firstSeen, from, from + later, now + 1, status),
        Revised(e, action, e.firstSeen, from, from + later, now, "active")}

\* A revision is appended, of any action, in any state of the entry.
Revise(i) ==
    /\ WorthEditing
    /\ RevisionCount < MaxRevisions
    /\ \E action \in Action, later \in 0..1 :
          \E e \in Revisions(entries[i], action, later) :
              entries' = [entries EXCEPT ![i] = e]
    /\ UNCHANGED <<now, calls>>

\* Checkout and the scan loop.  The policy file is read only when windows are
\* enabled (bound: without them a gate is looked at before any edit only).
Scan(p) ==
    /\ pc[p] = "idle"
    /\ \E g \in GateInputs :
          /\ g.enabled \/ entries \in InitialPolicies
          /\ input' = [input EXCEPT ![p] = g]
          /\ commit' = [commit EXCEPT ![p] = IF g.enabled THEN entries ELSE << >>]
    /\ scanned' = [scanned EXCEPT ![p] = now]
    /\ pc' = [pc EXCEPT ![p] = "scanned"]
    /\ UNCHANGED <<now, entries, evaluated, out>>

\* The windows are evaluated and the outputs written.
Evaluate(p) ==
    /\ pc[p] = "scanned"
    /\ evaluated' = [evaluated EXCEPT ![p] = now]
    /\ out' = [out EXCEPT ![p] = GateOutputs(input[p], commit[p], scanned[p], now)]
    /\ pc' = [pc EXCEPT ![p] = "done"]
    /\ UNCHANGED <<now, entries, input, commit, scanned>>

Next ==
    \/ Tick
    \/ \E fp \in Fingerprint : Track(fp)
    \/ \E i \in 1..Len(entries) : Revise(i)
    \/ \E p \in Gate : Scan(p) \/ Evaluate(p)

Spec == Init /\ [][Next]_vars

-----------------------------------------------------------------------------
Outputs ==
    [result : {"passed", "failed"},
     classification : {"clean", "unfixed_warning", "actionable_vulnerability",
                       "misconfiguration_detected", "secret_detected", "scanner_error"},
     window : [allowed : BOOLEAN, decision : {"not_applicable", "blocked", "allowed_window"},
               reason : STRING, blocking : Nat, matching : Nat, covered : Nat,
               rejected : Nat, overdue : Nat, unmatched : Nat, reintroduced : Nat]]

TypeOK ==
    /\ now \in 0..MaxTime
    /\ entries \in Seq(Entry)
    /\ RevisionCount <= MaxRevisions
    /\ pc \in [Gate -> {"idle", "scanned", "done"}]
    /\ input \in [Gate -> GateInputs \cup {NoInput}]
    /\ commit \in [Gate -> Seq(Entry)]
    /\ scanned \in [Gate -> 0..MaxTime]
    /\ evaluated \in [Gate -> 0..MaxTime]
    /\ out \in [Gate -> Outputs]

-----------------------------------------------------------------------------
(* What a release may rest on: the outputs are accepted.                   *)

Accepted(p) == pc[p] = "done" /\ SecurityGateAcceptable(input[p].enabled, out[p])

\* Somebody has reviewed the finding for this image, and the review stands.
ReviewedException(p, t, f) ==
    \E x \in input[p].exceptions :
        /\ f.id = x.id
        /\ scanned[p] <= x.expires
        /\ \/ t \in x.targets \/ AnyTarget \in x.targets
           \/ x.purls # {} /\ x.lineage \cap input[p].docker[t].lineage # {}
           \/ input[p].scanType = "fs" /\ x.paths # {}
        /\ x.paths = {} \/ f.path \in x.paths
        /\ x.purls = {} \/ f.purl \in x.purls

ReviewedBaseline(p, t, f) ==
    /\ input[p].baseline # NoBaseline
    /\ f.kind = "vulnerability"
    /\ scanned[p] <= input[p].baseline.expires
    /\ \E item \in input[p].baseline.findings :
          item.scope = t /\ item.fingerprint = Fingerprint5(f)

TrackedFinding(p, t, f) ==
    [service |-> input[p].service, advisory |-> f.id, purl |-> f.purl,
     lineage |-> input[p].docker[t].lineage]

ReviewedWindow(p, t, f) ==
    /\ input[p].enabled
    /\ f.kind = "vulnerability"
    /\ \E i \in 1..Len(commit[p]) : commit[p][i].fingerprint = TrackedFinding(p, t, f)

\* A gate whose outputs are accepted has left no finding of any image to
\* chance: each is a vulnerability nobody has fixed, or is named for that very
\* image by an exception or a baseline that had not expired at the scan, or is
\* a vulnerability tracked for the image's lineage by the policy of the commit.
\* No secret and no misconfiguration passes by a window (action.yml, the scan
\* loop; evidence.py; baseline.py; remediation_window_contract.py).
AcceptedIsReviewed ==
    \A p \in Gate : Accepted(p) =>
        \A t \in input[p].targets : \A f \in input[p].report[t] :
            \/ f.kind = "vulnerability" /\ ~f.fixed
            \/ ReviewedException(p, t, f)
            \/ ReviewedBaseline(p, t, f)
            \/ ReviewedWindow(p, t, f)

\* Findings of p on which the gate blocked.
Blocked(p) ==
    {w \in input[p].targets \X AllEnforced(input[p]) :
        w[2] \in Enforced(input[p], w[1]) /\ w[2].kind = "vulnerability"}

\* However often reviewers extend an entry, an allowed window is evaluated no
\* later than MaxWindow after the sighting the entry began with, for every
\* finding that blocked (remediation_lifecycle.py: the sighting is preserved;
\* remediation_window.py, _evaluate_one: the limit holds for the extended
\* deadline).
AllowedOnlyWithinWindow ==
    \A p \in Gate : (pc[p] = "done" /\ out[p].window.allowed) =>
        \A w \in Blocked(p) : \A i \in 1..Len(commit[p]) :
            commit[p][i].fingerprint = TrackedFinding(p, w[1], w[2]) =>
                evaluated[p] <= commit[p][i].firstSeen + MaxWindow[w[2].severity]

\* A finding that has once been recorded as resolved never gets a window
\* again, whatever is appended to its history afterwards
\* (remediation_lifecycle.py, normalize_lifecycle).
ResolvedIsNotAllowedAgain ==
    \A p \in Gate : (pc[p] = "done" /\ out[p].window.allowed) =>
        \A w \in Blocked(p) : \A i \in 1..Len(commit[p]) :
            commit[p][i].fingerprint = TrackedFinding(p, w[1], w[2]) =>
                \A j \in 1..Len(commit[p][i].history) :
                    commit[p][i].history[j].action # "resolved"
=============================================================================
