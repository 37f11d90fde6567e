------------------------- MODULE RemediationWindow -------------------------
(***************************************************************************)
(* Remediation windows: a reviewed policy may let an image be released for *)
(* a bounded time although the security gate blocks on a fixable           *)
(* vulnerability of it.  This module is the arithmetic of the window:      *)
(* scripts/security_gate/remediation_lifecycle.py (the history of one      *)
(* entry) and remediation_window.py (the policy and its evaluation).       *)
(*                                                                         *)
(* Instants are integers.  A fingerprint is whatever identifies a finding  *)
(* exactly (service, advisory, package, versions and image lineage).  A    *)
(* history of length 0 is a policy entry without a "history" key; the      *)
(* required texts (owner, reason, statement, ...) are not modelled.        *)
(***************************************************************************)
EXTENDS Integers, Sequences, FiniteSets

CONSTANTS
    MaxWindow,      \* [Severity -> the longest window granted]
    DueSoon         \* how long before its deadline a window is due soon

Severity == {"HIGH", "CRITICAL"}

ASSUME WindowAssumption == MaxWindow \in [Severity -> Nat] /\ DueSoon \in Nat

Action == {"extended", "resolved", "reintroduced"}

-----------------------------------------------------------------------------
(* normalize_lifecycle.                                                    *)

\* What the loop tracks just before it reads revision i.
DeadlineBefore(e, i) == IF i = 1 THEN e.deadline ELSE e.history[i - 1].deadline
ReviewBefore(e, i) == IF i = 1 THEN e.reviewedAt ELSE e.history[i - 1].reviewedAt
StatusBefore(e, i) ==
    IF i = 1 \/ e.history[i - 1].action = "extended"
       THEN "active"
       ELSE e.history[i - 1].action

EffectiveDeadline(e) == DeadlineBefore(e, Len(e.history) + 1)
FinalStatus(e) == StatusBefore(e, Len(e.history) + 1)

\* Mutation: an entry that was resolved may be extended again.
ActionAccepted_ExtendsAny(e, i) ==
    LET r == e.history[i] IN
    \/ r.action = "extended" /\ r.deadline > r.previous
    \/ /\ r.action = "resolved"
       /\ StatusBefore(e, i) = "active"
       /\ r.deadline = r.previous
    \/ /\ r.action = "reintroduced"
       /\ StatusBefore(e, i) = "resolved"
       /\ r.deadline = r.previous

\* What the action of revision i asks of the state before it.
ActionAccepted(e, i) ==
    LET r == e.history[i] IN
    \/ /\ r.action = "extended"
       /\ StatusBefore(e, i) = "active"
       /\ r.deadline > r.previous
    \/ /\ r.action = "resolved"
       /\ StatusBefore(e, i) = "active"
       /\ r.deadline = r.previous
    \/ /\ r.action = "reintroduced"
       /\ StatusBefore(e, i) = "resolved"
       /\ r.deadline = r.previous

RevisionAccepted(e, i, reference) ==
    /\ e.history[i].firstSeen = e.firstSeen
    /\ e.history[i].previous = DeadlineBefore(e, i)
    /\ ReviewBefore(e, i) < e.history[i].reviewedAt
    /\ e.history[i].reviewedAt <= reference
    /\ ActionAccepted(e, i)

LifecycleAccepted(e, reference) ==
    /\ e.reviewedAt <= reference
    /\ \A i \in 1..Len(e.history) : RevisionAccepted(e, i, reference)
    /\ e.status = FinalStatus(e)

-----------------------------------------------------------------------------
(* load_policy.                                                            *)

Distinct(entries) ==
    \A i, j \in 1..Len(entries) :
        \/ i = j
        \/ /\ entries[i].id # entries[j].id
           /\ entries[i].fingerprint # entries[j].fingerprint

PolicyAccepted(entries, reference) ==
    /\ entries # << >>
    /\ Distinct(entries)
    /\ \A i \in 1..Len(entries) :
          /\ entries[i].firstSeen <= reference
          /\ entries[i].firstSeen < entries[i].deadline
          /\ LifecycleAccepted(entries[i], reference)

-----------------------------------------------------------------------------
(* _evaluate_one: the state of one observation, by the first of the        *)
(* conditions that applies.                                                *)

EntriesFor(o, entries) ==
    {entries[i] : i \in {j \in 1..Len(entries) : entries[j].fingerprint = o.fingerprint}}

NeverEligible(o) ==
    \/ o.knownExploited
    \/ o.fixedImageVerified
    \/ o.severity = "CRITICAL" /\ o.exposure \in {"internet-facing", "privileged-boundary"}

\* Mutation: an extension is not held to the limit, only the first deadline.
WindowState_OriginalLimit(o, e, evaluation) ==
    IF e.status # "active" THEN "reintroduced"
    ELSE IF e.deadline - e.firstSeen > MaxWindow[o.severity] THEN "rejected"
    ELSE IF evaluation > EffectiveDeadline(e) THEN "overdue"
    ELSE IF evaluation < e.firstSeen THEN "rejected"
    ELSE IF EffectiveDeadline(e) - evaluation <= DueSoon THEN "due_soon"
    ELSE "active"

WindowState(o, e, evaluation) ==
    IF e.status # "active" THEN "reintroduced"
    ELSE IF EffectiveDeadline(e) - e.firstSeen > MaxWindow[o.severity] THEN "rejected"
    ELSE IF evaluation > EffectiveDeadline(e) THEN "overdue"
    ELSE IF evaluation < e.firstSeen THEN "rejected"
    ELSE IF EffectiveDeadline(e) - evaluation <= DueSoon THEN "due_soon"
    ELSE "active"

FindingState(o, entries, evaluation) ==
    IF ~o.wellFormed \/ NeverEligible(o) THEN "rejected"
    ELSE IF EntriesFor(o, entries) = {} THEN "unmatched"
    ELSE WindowState(o, CHOOSE e \in EntriesFor(o, entries) : TRUE, evaluation)

-----------------------------------------------------------------------------
(* evaluate_remediation_windows, once the policy is loaded: what it counts *)
(* over a set of distinct observations, and the decision.                  *)

Covered == {"active", "due_soon"}

Decision(observations, entries, evaluation) ==
    LET In(states) == {o \in observations : FindingState(o, entries, evaluation) \in states}
        uncovered == observations \ In(Covered)
        matching == {o \in observations : /\ o.wellFormed /\ ~NeverEligible(o)
                                          /\ EntriesFor(o, entries) # {}}
    IN [allowed |-> observations # {} /\ uncovered = {},
        decision |-> IF observations = {} THEN "not_applicable"
                     ELSE IF uncovered = {} THEN "allowed_window" ELSE "blocked",
        reason |-> IF uncovered = {} THEN ""
                   ELSE IF In({"reintroduced"}) # {} THEN "finding_reintroduced"
                   ELSE IF In({"overdue"}) # {} THEN "window_overdue"
                   ELSE IF In({"rejected"}) # {} THEN "window_rejected"
                   ELSE "uncovered_blocking_findings",
        blocking |-> Cardinality(observations), covered |-> Cardinality(In(Covered)),
        matching |-> Cardinality(matching), rejected |-> Cardinality(In({"rejected"})),
        overdue |-> Cardinality(In({"overdue"})),
        unmatched |-> Cardinality(In({"unmatched"})),
        reintroduced |-> Cardinality(In({"reintroduced"}))]

NoDecision ==
    [allowed |-> FALSE, decision |-> "not_applicable", reason |-> "", blocking |-> 0,
     matching |-> 0, covered |-> 0, rejected |-> 0, overdue |-> 0, unmatched |-> 0,
     reintroduced |-> 0]
=============================================================================
