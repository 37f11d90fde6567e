----------------------- MODULE ReviewedWindows_proofs -----------------------
(***************************************************************************)
(* What an allowed window means, for every set of gates, findings, inputs  *)
(* and limits: an invariant that keeps the outputs of a finished call tied *)
(* to the policy of its checkout, and two consequences of it.              *)
(***************************************************************************)
EXTENDS ReviewedWindows, SequenceTheorems, TLAPS

\* The policies are well typed, and what a finished call gave out is what the
\* gate computes from its input and its checkout.
Bound ==
    /\ now \in 0..MaxTime
    /\ entries \in Seq(Entry)
    /\ pc \in [Gate -> {"idle", "scanned", "done"}]
    /\ input \in [Gate -> GateInputs \cup {NoInput}]
    /\ commit \in [Gate -> Seq(Entry)]
    /\ scanned \in [Gate -> 0..MaxTime]
    /\ evaluated \in [Gate -> 0..MaxTime]
    /\ DOMAIN out = Gate
    /\ \A p \in Gate : pc[p] # "idle" => input[p] \in GateInputs
    /\ \A p \in Gate : pc[p] = "done" =>
          out[p] = GateOutputs(input[p], commit[p], scanned[p], evaluated[p])

-----------------------------------------------------------------------------
(* The arithmetic of one entry.                                            *)

\* The deadline in force is an integer, whatever the history.
LEMMA EffectiveDeadlineType ==
    ASSUME NEW e \in Entry
    PROVE  EffectiveDeadline(e) \in Int
<1>1. e.deadline \in Int /\ e.history \in Seq(Revision)
  BY DEF Entry
<1>2. CASE Len(e.history) = 0
  BY <1>1, <1>2 DEF EffectiveDeadline, DeadlineBefore
<1>3. CASE Len(e.history) # 0
  <2>1. Len(e.history) \in Nat /\ Len(e.history) + 1 # 1
    BY <1>1, <1>3
  <2>2. e.history[Len(e.history)] \in Revision
    BY <1>1, <1>3, <2>1, ElementOfSeq
  <2>3. EffectiveDeadline(e) = e.history[Len(e.history)].deadline
    BY <2>1 DEF EffectiveDeadline, DeadlineBefore
  <2> QED
    BY <2>2, <2>3 DEF Revision
<1> QED
  BY <1>2, <1>3

\* Of two entries of one file that name the same finding, there is one.
LEMMA OneEntryPerFinding ==
    ASSUME NEW q \in Seq(Entry), NEW t, PolicyAccepted(q, t), NEW o,
           NEW i \in 1..Len(q), q[i].fingerprint = o.fingerprint
    PROVE  (CHOOSE e \in EntriesFor(o, q) : TRUE) = q[i]
<1>1. q[i] \in EntriesFor(o, q)
  BY DEF EntriesFor
<1>2. \A e \in EntriesFor(o, q) : e = q[i]
  BY DEF EntriesFor, PolicyAccepted, Distinct
<1> QED
  BY <1>1, <1>2

\* After a resolution the lifecycle of an accepted entry can only have been
\* reintroduced, and nothing may follow that: it is never active again.
LEMMA ResolvedStaysClosed ==
    ASSUME NEW e \in Entry, NEW t, LifecycleAccepted(e, t),
           NEW j \in 1..Len(e.history), e.history[j].action = "resolved"
    PROVE  e.status # "active"
<1> DEFINE n == Len(e.history)
<1>1. n \in Nat /\ j \in 1..n
  BY DEF Entry
<1>2. \A i \in 1..n : ActionAccepted(e, i)
  BY DEF LifecycleAccepted, RevisionAccepted
<1>3. e.status = StatusBefore(e, n + 1)
  BY DEF LifecycleAccepted, FinalStatus
<1>4. CASE j = n
  <2>1. n + 1 # 1 /\ (n + 1) - 1 = n
    BY <1>1
  <2>2. StatusBefore(e, n + 1) = "resolved"
    BY <1>4, <2>1 DEF StatusBefore
  <2> QED
    BY <1>3, <2>2
<1>5. CASE j # n
  <2>1. j + 1 \in 1..n /\ j + 1 # 1 /\ (j + 1) - 1 = j
    BY <1>1, <1>5
  <2>2. StatusBefore(e, j + 1) = "resolved"
    BY <2>1 DEF StatusBefore
  <2>3. e.history[j + 1].action = "reintroduced"
    BY <1>2, <2>1, <2>2 DEF ActionAccepted
  <2>4. CASE j + 1 = n
    <3>1. n + 1 # 1 /\ (n + 1) - 1 = j + 1
      BY <1>1, <2>4
    <3>2. StatusBefore(e, n + 1) = "reintroduced"
      BY <2>3, <3>1 DEF StatusBefore
    <3> QED
      BY <1>3, <3>2
  <2>5. CASE j + 1 # n
    <3>1. j + 2 \in 1..n /\ j + 2 # 1 /\ (j + 2) - 1 = j + 1
      BY <1>1, <2>1, <2>5
    <3>2. StatusBefore(e, j + 2) = "reintroduced"
      BY <2>3, <3>1 DEF StatusBefore
    <3> QED
      BY <1>2, <3>1, <3>2 DEF ActionAccepted
  <2> QED
    BY <2>4, <2>5
<1> QED
  BY <1>4, <1>5

-----------------------------------------------------------------------------
(* From the outputs back to the policy.                                    *)

\* An allowed window means that the policy loads and that every vulnerability
\* left to block on is covered.
LEMMA AllowedMeansCovered ==
    ASSUME NEW g, NEW q, NEW s, NEW t,
           GateOutputs(g, q, s, t).window.allowed
    PROVE  /\ PolicyAccepted(q, t)
           /\ \A o \in Observations(g) : FindingState(o, q, t) \in Covered
<1>1. ~NoDecision.allowed
  BY DEF NoDecision
<1>2. ScannerError(NoDecision).window = NoDecision
  BY DEF ScannerError
<1>3. ScanRuns(g, s) /\ ~(g.enabled /\ ~WindowRuns(g, q, t))
  BY <1>1, <1>2 DEF GateOutputs
<1>4. GateOutputs(g, q, s, t).window
          = IF g.enabled THEN Decision(Observations(g), q, t) ELSE NoDecision
  BY <1>3 DEF GateOutputs
<1>5. g.enabled /\ Decision(Observations(g), q, t).allowed
  BY <1>1, <1>4
<1>6. PolicyAccepted(q, t)
  BY <1>3, <1>5 DEF WindowRuns
<1>7. Observations(g) \ {o \in Observations(g) : FindingState(o, q, t) \in Covered} = {}
  BY <1>5 DEF Decision
<1> QED
  BY <1>6, <1>7

\* What a covered observation says of the entry that covers it.
LEMMA CoveredEntry ==
    ASSUME NEW q \in Seq(Entry), NEW t \in Int, PolicyAccepted(q, t),
           NEW o, FindingState(o, q, t) \in Covered,
           NEW i \in 1..Len(q), q[i].fingerprint = o.fingerprint
    PROVE  /\ o.wellFormed
           /\ q[i].status = "active"
           /\ ~(EffectiveDeadline(q[i]) - q[i].firstSeen > MaxWindow[o.severity])
           /\ ~(t > EffectiveDeadline(q[i]))
<1> DEFINE e == CHOOSE x \in EntriesFor(o, q) : TRUE
<1>1. e = q[i]
  BY OneEntryPerFinding
<1>2. o.wellFormed /\ FindingState(o, q, t) = WindowState(o, e, t)
  BY DEF FindingState, Covered
<1>3. WindowState(o, q[i], t) \in Covered
  BY <1>1, <1>2
<1> QED
  BY <1>2, <1>3 DEF WindowState, Covered

-----------------------------------------------------------------------------
(* The invariant.                                                          *)

\* At first no gate has been called and the policy is one of the initial ones.
LEMMA BoundInit == Init => Bound
BY BoundsAssumption, InitialPoliciesAssumption, EmptySeq DEF Init, Bound

\* Reviewers keep the policy well typed.
LEMMA TrackTyped ==
    ASSUME Bound, NEW fp \in Fingerprint, Track(fp)
    PROVE  entries' \in Seq(Entry)
<1>1. PICK seen \in {0, now, now + 1}, length \in 0..2 :
          entries' = Append(entries,
              [id |-> Len(entries), fingerprint |-> fp, firstSeen |-> seen,
               deadline |-> seen + length, reviewedAt |-> now, status |-> "active",
               history |-> << >>])
  BY DEF Track
<1>2. now \in Int /\ seen \in Int /\ seen + length \in Int
  BY BoundsAssumption DEF Bound
<1>3. fp \in Known
  BY DEF Known
<1>4. Len(entries) \in Nat
  BY DEF Bound
<1>5. << >> \in Seq(Revision)
  BY EmptySeq
<1>6. [id |-> Len(entries), fingerprint |-> fp, firstSeen |-> seen,
       deadline |-> seen + length, reviewedAt |-> now, status |-> "active",
       history |-> << >>] \in Entry
  BY <1>2, <1>3, <1>4, <1>5 DEF Entry
<1> QED
  BY <1>1, <1>6, AppendProperties DEF Bound

\* Whatever revision is appended to an entry, it stays an entry.
LEMMA RevisedTyped ==
    ASSUME NEW e \in Entry, NEW action \in Action, NEW seen \in Int, NEW previous \in Int,
           NEW deadline \in Int, NEW on \in Int, NEW status \in {"active"} \cup Action
    PROVE  Revised(e, action, seen, previous, deadline, on, status) \in Entry
<1> DEFINE r == [action |-> action, firstSeen |-> seen, previous |-> previous,
                 deadline |-> deadline, reviewedAt |-> on]
<1>1. r \in Revision
  BY DEF Revision
<1>2. e.history \in Seq(Revision)
  BY DEF Entry
<1> HIDE DEF r
<1>3. Append(e.history, r) \in Seq(Revision)
  BY <1>1, <1>2, AppendProperties
<1> QED
  BY <1>3 DEF Entry, Revised, r

\* A revision of an entry leaves a well-typed policy.
LEMMA ReviseTyped ==
    ASSUME Bound, NEW i \in 1..Len(entries), Revise(i)
    PROVE  entries' \in Seq(Entry)
<1>1. entries \in Seq(Entry) /\ entries[i] \in Entry
  BY ElementOfSeq DEF Bound
<1>2. PICK action \in Action, later \in 0..1 :
          \E e \in Revisions(entries[i], action, later) : entries' = [entries EXCEPT ![i] = e]
  BY DEF Revise
<1>3. PICK e \in Revisions(entries[i], action, later) : entries' = [entries EXCEPT ![i] = e]
  BY <1>2
<1> DEFINE from == EffectiveDeadline(entries[i])
<1>4. /\ from \in Int /\ from + later \in Int
      /\ entries[i].firstSeen \in Int /\ entries[i].deadline \in Int
  BY <1>1, EffectiveDeadlineType, SMTT(30) DEF Entry
<1>5. now \in Int /\ now + 1 \in Int
  BY BoundsAssumption DEF Bound
<1>6. (IF action = "extended" THEN "active" ELSE action) \in {"active"} \cup Action
  OBVIOUS
<1>7. e \in Entry
  <2>1. \A seen, previous, deadline, on \in Int, status \in {"active"} \cup Action :
            Revised(entries[i], action, seen, previous, deadline, on, status) \in Entry
    BY <1>1, RevisedTyped
  <2>2. "active" \in {"active"} \cup Action
    OBVIOUS
  <2> DEFINE s == IF action = "extended" THEN "active" ELSE action
             R(seen, previous, on, status) ==
                 Revised(entries[i], action, seen, previous, from + later, on, status)
  <2>3. \/ e = R(entries[i].firstSeen, from, now, s)
        \/ e = R(now, from, now, s)
        \/ e = R(entries[i].firstSeen, entries[i].deadline, now, s)
        \/ e = R(entries[i].firstSeen, from, now + 1, s)
        \/ e = R(entries[i].firstSeen, from, now, "active")
    BY DEF Revisions
  <2>4. \A seen, previous, on \in Int, status \in {"active"} \cup Action :
            R(seen, previous, on, status) \in Entry
    BY <1>4, <2>1
  <2> HIDE DEF R, s, from
  <2>5. s \in {"active"} \cup Action
    BY <1>6 DEF s
  <2>6. from \in Int /\ now + 1 \in Int
    BY <1>4, <1>5
  <2> QED
    BY <1>4, <1>5, <2>2, <2>3, <2>4, <2>5, <2>6
<1> QED
  BY <1>1, <1>3, <1>7, ExceptSeq

\* Edits, time and gate calls keep the invariant: a gate's outputs are final
\* once it has evaluated (action.yml).
LEMMA BoundStep == Bound /\ [Next]_vars => Bound'
<1> SUFFICES ASSUME Bound, [Next]_vars PROVE Bound'
  OBVIOUS
<1>1. CASE Tick
  BY <1>1, BoundsAssumption DEF Tick, Bound, calls
<1>2. ASSUME NEW fp \in Fingerprint, Track(fp) PROVE Bound'
  <2>1. entries' \in Seq(Entry)
    BY <1>2, TrackTyped
  <2> QED
    BY <1>2, <2>1 DEF Track, Bound, calls
<1>3. ASSUME NEW i \in 1..Len(entries), Revise(i) PROVE Bound'
  <2>1. entries' \in Seq(Entry)
    BY <1>3, ReviseTyped
  <2> QED
    BY <1>3, <2>1 DEF Revise, Bound, calls
<1>4. ASSUME NEW p \in Gate, Scan(p) PROVE Bound'
  <2>1. << >> \in Seq(Entry)
    BY EmptySeq
  <2> QED
    BY <1>4, <2>1 DEF Scan, Bound
<1>5. ASSUME NEW p \in Gate, Evaluate(p) PROVE Bound'
  BY <1>5 DEF Evaluate, Bound
<1>6. CASE UNCHANGED vars
  BY <1>6 DEF vars, calls, Bound
<1> QED
  BY <1>1, <1>2, <1>3, <1>4, <1>5, <1>6 DEF Next

\* The invariant in every state of every behaviour.
THEOREM OutputsAreBound == Spec => []Bound
BY BoundInit, BoundStep, PTL DEF Spec

-----------------------------------------------------------------------------
\* A vulnerability a gate blocked on is one of its observations.
LEMMA BlockedIsObserved ==
    ASSUME NEW p \in Gate, NEW w \in Blocked(p)
    PROVE  /\ ObservationOf(input[p], w[1], w[2]) \in Observations(input[p])
           /\ ObservationOf(input[p], w[1], w[2]).fingerprint = TrackedFinding(p, w[1], w[2])
           /\ ObservationOf(input[p], w[1], w[2]).severity = w[2].severity
           /\ ObservationOf(input[p], w[1], w[2]).wellFormed => w[2].severity \in Severity
<1>1. w[1] \in input[p].targets /\ w[2] \in Vulnerabilities(Enforced(input[p], w[1]))
  BY DEF Blocked, Vulnerabilities
<1>2. ObservationOf(input[p], w[1], w[2]) \in Observations(input[p])
  BY <1>1 DEF Observations
<1> QED
  BY <1>2 DEF ObservationOf, TrackedFinding

\* No extension, however many there are, lets a window be allowed later than
\* the limit of the finding's severity after the sighting its entry begins with.
THEOREM AllowedWithinLimit == Spec => []AllowedOnlyWithinWindow
<1>1. Bound => AllowedOnlyWithinWindow
  <2> SUFFICES ASSUME Bound, NEW p \in Gate, pc[p] = "done", out[p].window.allowed,
                      NEW w \in Blocked(p), NEW i \in 1..Len(commit[p]),
                      commit[p][i].fingerprint = TrackedFinding(p, w[1], w[2])
               PROVE  evaluated[p] <= commit[p][i].firstSeen + MaxWindow[w[2].severity]
    BY DEF AllowedOnlyWithinWindow
  <2> DEFINE q == commit[p]
             o == ObservationOf(input[p], w[1], w[2])
  <2>1. q \in Seq(Entry) /\ evaluated[p] \in Int
    BY DEF Bound
  <2>2. /\ PolicyAccepted(q, evaluated[p])
        /\ \A x \in Observations(input[p]) : FindingState(x, q, evaluated[p]) \in Covered
    BY AllowedMeansCovered DEF Bound
  <2>3. /\ FindingState(o, q, evaluated[p]) \in Covered
        /\ q[i].fingerprint = o.fingerprint
        /\ o.severity = w[2].severity
        /\ o.wellFormed => w[2].severity \in Severity
    BY <2>2, BlockedIsObserved
  <2> HIDE DEF q, o
  <2>4. /\ o.wellFormed
        /\ ~(EffectiveDeadline(q[i]) - q[i].firstSeen > MaxWindow[o.severity])
        /\ ~(evaluated[p] > EffectiveDeadline(q[i]))
    BY <2>1, <2>2, <2>3, CoveredEntry DEF q
  <2>5. q[i] \in Entry
    BY <2>1, ElementOfSeq DEF q
  <2>6. EffectiveDeadline(q[i]) \in Int /\ q[i].firstSeen \in Int
    BY <2>5, EffectiveDeadlineType DEF Entry
  <2>7. MaxWindow[w[2].severity] \in Nat
    BY <2>3, <2>4, WindowAssumption
  <2>8. evaluated[p] <= q[i].firstSeen + MaxWindow[w[2].severity]
    BY <2>1, <2>3, <2>4, <2>6, <2>7
  <2> QED
    BY <2>8 DEF q
<1> QED
  BY <1>1, OutputsAreBound, PTL

\* A finding that is once recorded as resolved is never covered again.
THEOREM ResolvedForGood == Spec => []ResolvedIsNotAllowedAgain
<1>1. Bound => ResolvedIsNotAllowedAgain
  <2> SUFFICES ASSUME Bound, NEW p \in Gate, pc[p] = "done", out[p].window.allowed,
                      NEW w \in Blocked(p), NEW i \in 1..Len(commit[p]),
                      commit[p][i].fingerprint = TrackedFinding(p, w[1], w[2]),
                      NEW j \in 1..Len(commit[p][i].history),
                      commit[p][i].history[j].action = "resolved"
               PROVE  FALSE
    BY DEF ResolvedIsNotAllowedAgain
  <2> DEFINE q == commit[p]
             o == ObservationOf(input[p], w[1], w[2])
  <2>1. q \in Seq(Entry) /\ evaluated[p] \in Int
    BY DEF Bound
  <2>2. /\ PolicyAccepted(q, evaluated[p])
        /\ \A x \in Observations(input[p]) : FindingState(x, q, evaluated[p]) \in Covered
    BY AllowedMeansCovered DEF Bound
  <2>3. FindingState(o, q, evaluated[p]) \in Covered /\ q[i].fingerprint = o.fingerprint
    BY <2>2, BlockedIsObserved
  <2>4. q[i].status = "active"
    <3> HIDE DEF o
    <3> QED
      BY <2>1, <2>2, <2>3, CoveredEntry
  <2>5. q[i] \in Entry /\ LifecycleAccepted(q[i], evaluated[p])
    BY <2>1, <2>2, ElementOfSeq DEF PolicyAccepted
  <2> QED
    BY <2>4, <2>5, ResolvedStaysClosed
<1> QED
  BY <1>1, OutputsAreBound, PTL
-----------------------------------------------------------------------------
(* From accepted outputs back to the findings.                             *)

\* Outputs that are accepted come from a scan that ran to its end, and if it
\* blocked on anything, from an allowed window over vulnerabilities only.
LEMMA AcceptedOutputs ==
    ASSUME NEW g, NEW q, NEW s, NEW t,
           SecurityGateAcceptable(g.enabled, GateOutputs(g, q, s, t))
    PROVE  /\ ScanRuns(g, s)
           /\ AllEnforced(g) # {} =>
                 /\ g.enabled
                 /\ GateOutputs(g, q, s, t).window.allowed
                 /\ ~Has(g, "secret") /\ ~Has(g, "misconfiguration")
<1> DEFINE o == GateOutputs(g, q, s, t)
<1>1. o # ScannerError(NoDecision)
  <2>1. SecurityGateAcceptable(g.enabled, o)
    OBVIOUS
  <2>2. ScannerError(NoDecision).classification = "scanner_error"
    BY DEF ScannerError
  <2> HIDE DEF o
  <2> QED
    BY <2>1, <2>2 DEF SecurityGateAcceptable
<1>2. ScanRuns(g, s) /\ ~(g.enabled /\ ~WindowRuns(g, q, t))
  BY <1>1 DEF GateOutputs
<1>3. /\ o.result = IF AllEnforced(g) = {} THEN "passed" ELSE "failed"
      /\ o.classification = Classification(g)
  BY <1>2 DEF GateOutputs
<1> HIDE DEF o
<1>4. ASSUME AllEnforced(g) # {}
      PROVE  g.enabled /\ o.window.allowed /\ Classification(g) = "actionable_vulnerability"
  <2>1. SecurityGateAcceptable(g.enabled, o)
    BY DEF o
  <2> QED
    BY <1>3, <1>4, <2>1 DEF SecurityGateAcceptable
<1>5. Classification(g) = "actionable_vulnerability"
         => ~Has(g, "secret") /\ ~Has(g, "misconfiguration")
  BY DEF Classification
<1> QED
  BY <1>2, <1>4, <1>5 DEF o

\* What an exception that the scan has rendered says of the image at hand.
LEMMA RenderedIsReviewed ==
    ASSUME NEW g, NEW s, NEW t \in g.targets, NEW x \in Rendered(g, t),
           g.scanType \in {"image", "fs"}, ScanRuns(g, s)
    PROVE  /\ x \in g.exceptions /\ s <= x.expires
           /\ \/ t \in x.targets \/ AnyTarget \in x.targets
              \/ x.purls # {} /\ x.lineage \cap g.docker[t].lineage # {}
              \/ g.scanType = "fs" /\ x.paths # {}
<1>1. x \in g.exceptions /\ ExceptionApplies(x, g.scanType, t, g.docker[t].lineage)
  BY DEF Rendered
<1>2. ExceptionAccepted(x, g.scanType, s)
  BY <1>1 DEF ScanRuns
<1>3. CASE g.scanType = "image"
  <2>1. \/ x.targets \cap {t, AnyTarget} # {}
        \/ x.lineage \cap g.docker[t].lineage # {}
    BY <1>1, <1>3 DEF ExceptionApplies
  <2>2. x.lineage \cap g.docker[t].lineage # {} => x.purls # {}
    BY <1>1, <1>2 DEF ExceptionApplies, ExceptionAccepted
  <2> QED
    BY <1>1, <1>2, <2>1, <2>2 DEF ExceptionAccepted
<1>4. CASE g.scanType = "fs"
  BY <1>1, <1>2, <1>4 DEF ExceptionApplies, ExceptionAccepted
<1> QED
  BY <1>3, <1>4

\* A covered observation is of a finding that the policy has an entry for.
LEMMA CoveredHasEntry ==
    ASSUME NEW q, NEW t, NEW o, FindingState(o, q, t) \in Covered
    PROVE  \E i \in 1..Len(q) : q[i].fingerprint = o.fingerprint
<1>1. EntriesFor(o, q) # {}
  BY DEF FindingState, Covered
<1> QED
  BY <1>1 DEF EntriesFor

\* Whatever the inputs and however the policy is edited, accepted outputs
\* leave no finding to chance: it is unfixed, or a review names it.
THEOREM AcceptedGatesAreReviewed == Spec => []AcceptedIsReviewed
<1>1. Bound => AcceptedIsReviewed
  <2> SUFFICES ASSUME Bound, NEW p \in Gate, Accepted(p),
                      NEW t \in input[p].targets, NEW f \in input[p].report[t],
                      ~(f.kind = "vulnerability" /\ ~f.fixed)
               PROVE  \/ ReviewedException(p, t, f)
                      \/ ReviewedBaseline(p, t, f)
                      \/ ReviewedWindow(p, t, f)
    BY DEF AcceptedIsReviewed
  <2> DEFINE g == input[p]
  <2>1. /\ g \in GateInputs
        /\ out[p] = GateOutputs(g, commit[p], scanned[p], evaluated[p])
    BY DEF Bound, Accepted
  <2>2. /\ g.scanType \in {"image", "fs"}
        /\ f.kind \in {"vulnerability", "secret", "misconfiguration"}
    BY <2>1, GateInputsAssumption
  <2>3. SecurityGateAcceptable(g.enabled, GateOutputs(g, commit[p], scanned[p], evaluated[p]))
    BY <2>1 DEF Accepted
  <2> HIDE DEF g
  <2>4. /\ ScanRuns(g, scanned[p])
        /\ AllEnforced(g) # {} =>
              /\ g.enabled
              /\ GateOutputs(g, commit[p], scanned[p], evaluated[p]).window.allowed
              /\ ~Has(g, "secret") /\ ~Has(g, "misconfiguration")
    BY <2>3, AcceptedOutputs
  <2>5. f \in Blocking(g.report[t]) /\ t \in g.targets
    BY DEF g, Blocking
  <2>6. CASE f \notin Filtered(g, t)
    <3>1. PICK x \in Rendered(g, t) : Excepted(f, x)
      BY <2>5, <2>6 DEF Filtered
    <3>2. /\ x \in g.exceptions /\ scanned[p] <= x.expires
          /\ \/ t \in x.targets \/ AnyTarget \in x.targets
             \/ x.purls # {} /\ x.lineage \cap g.docker[t].lineage # {}
             \/ g.scanType = "fs" /\ x.paths # {}
      BY <2>2, <2>4, <2>5, RenderedIsReviewed
    <3> QED
      BY <3>1, <3>2 DEF ReviewedException, Excepted, g
  <2>7. CASE f \in Filtered(g, t) /\ f \notin Enforced(g, t)
    <3>1. /\ g.baseline # NoBaseline /\ f.kind = "vulnerability"
          /\ Fingerprint5(f) \in Approved(g.baseline, t)
      BY <2>7 DEF Enforced
    <3>2. scanned[p] <= g.baseline.expires
      BY <2>4, <2>5, <3>1 DEF ScanRuns, BaselineAccepted
    <3>3. \E item \in g.baseline.findings :
             item.scope = t /\ item.fingerprint = Fingerprint5(f)
      BY <3>1 DEF Approved
    <3> QED
      BY <3>1, <3>2, <3>3 DEF ReviewedBaseline, g
  <2>8. CASE f \in Enforced(g, t)
    <3>1. f \in AllEnforced(g)
      BY <2>5, <2>8 DEF AllEnforced
    <3>2. f.kind = "vulnerability" /\ g.enabled
      BY <2>2, <2>4, <3>1 DEF Has
    <3>3. ObservationOf(g, t, f) \in Observations(g)
      BY <2>5, <2>8, <3>2 DEF Observations, Vulnerabilities
    <3>4. FindingState(ObservationOf(g, t, f), commit[p], evaluated[p]) \in Covered
      BY <2>4, <3>1, <3>3, AllowedMeansCovered
    <3>5. \E i \in 1..Len(commit[p]) :
             commit[p][i].fingerprint = ObservationOf(g, t, f).fingerprint
      BY <3>4, CoveredHasEntry
    <3>6. ObservationOf(g, t, f).fingerprint = TrackedFinding(p, t, f)
      BY DEF ObservationOf, TrackedFinding, g
    <3> QED
      BY <3>2, <3>5, <3>6 DEF ReviewedWindow, g
  <2> QED
    BY <2>6, <2>7, <2>8
<1> QED
  BY <1>1, OutputsAreBound, PTL
=============================================================================
