---------------------------- MODULE MoveV1_proofs ----------------------------
(* The safety theorems of MoveV1, for every number of commits, dispatches  *)
(* and closed pull requests.                                               *)
EXTENDS MoveV1, TLAPS

\* The tag, the commits and the runs of move-v1.yml stay within their types.
THEOREM TypeCorrect == Spec => []TypeOK
<1> USE MoveV1Assumption
<1> USE DEF TypeOK, Commit, Event, Stage, Run, repository, counters, past, Ends,
            Reaches, Trigger, Cancel
<1>1. Init => TypeOK
  BY DEF Init
<1>2. TypeOK /\ [Next]_vars => TypeOK'
  <2> SUFFICES ASSUME TypeOK, [Next]_vars PROVE TypeOK'
    OBVIOUS
  <2>1. CASE UNCHANGED vars
    BY <2>1 DEF vars
  <2>2. ASSUME NEW s \in Skips, NEW r \in Relevants, Merge(s, r) PROVE TypeOK'
    BY <2>2 DEF Merge
  <2>3. CASE CloseUnmerged
    <3>1. runs' \subseteq runs /\ closings' \in 0..MaxClosings
      BY <2>3 DEF CloseUnmerged
    <3>2. \A q \in runs : q.target \in Commit
      OBVIOUS
    <3>3. lost' \subseteq Commit
      <4> HIDE DEF Commit, Run
      <4> QED
        BY <2>3, <3>2 DEF CloseUnmerged
    <3> QED
      BY <2>3, <3>1, <3>3 DEF CloseUnmerged
  <2>4. CASE Dispatch
    BY <2>4 DEF Dispatch
  <2>5. ASSUME NEW r \in runs, Scope(r) PROVE TypeOK'
    BY <2>5 DEF Scope
  <2>6. ASSUME NEW r \in runs, Validate(r) PROVE TypeOK'
    BY <2>6 DEF Validate
  <2>7. ASSUME NEW r \in runs, CheckMain(r) PROVE TypeOK'
    BY <2>7 DEF CheckMain
  <2>8. ASSUME NEW r \in runs, MoveTag(r) PROVE TypeOK'
    BY <2>8 DEF MoveTag
  <2>9. ASSUME NEW r \in runs, RunFails(r) PROVE TypeOK'
    BY <2>9 DEF RunFails
  <2> QED
    BY <2>1, <2>2, <2>3, <2>4, <2>5, <2>6, <2>7, <2>8, <2>9 DEF Next, RunStep
<1> QED
  BY <1>1, <1>2, PTL DEF Spec

-----------------------------------------------------------------------------
\* A run that has come to the job move-v1 has passed the job validate.
NeedsValidation ==
    \A r \in runs : r.stage \in {"check", "move"} => r.target \in validated

\* v1 is only ever at a commit whose validation has succeeded in some run: the
\* job move-v1 needs the jobs scope and validate of its own run.
THEOREM PublishedIsValidated == Spec => []OnlyValidatedIsPublished
<1> DEFINE Inv == NeedsValidation /\ OnlyValidatedIsPublished
<1> USE DEF NeedsValidation, OnlyValidatedIsPublished, TypeOK, Run, Ends, Reaches,
            repository, counters, past
<1>1. Init => Inv
  BY DEF Init
<1>2. TypeOK /\ Inv /\ [Next]_vars => Inv'
  <2> SUFFICES ASSUME TypeOK, Inv, [Next]_vars PROVE Inv'
    OBVIOUS
  <2>1. CASE UNCHANGED vars
    BY <2>1 DEF vars
  <2>2. ASSUME NEW s \in Skips, NEW r \in Relevants, Merge(s, r) PROVE Inv'
    BY <2>2 DEF Merge, Trigger, Cancel
  <2>3. CASE CloseUnmerged
    BY <2>3 DEF CloseUnmerged, Cancel
  <2>4. CASE Dispatch
    BY <2>4 DEF Dispatch, Trigger, Cancel
  <2>5. ASSUME NEW r \in runs, Scope(r) PROVE Inv'
    BY <2>5 DEF Scope
  <2>6. ASSUME NEW r \in runs, Validate(r) PROVE Inv'
    BY <2>6 DEF Validate
  <2>7. ASSUME NEW r \in runs, CheckMain(r) PROVE Inv'
    BY <2>7 DEF CheckMain
  <2>8. ASSUME NEW r \in runs, MoveTag(r) PROVE Inv'
    BY <2>8 DEF MoveTag
  <2>9. ASSUME NEW r \in runs, RunFails(r) PROVE Inv'
    BY <2>9 DEF RunFails
  <2> QED
    BY <2>1, <2>2, <2>3, <2>4, <2>5, <2>6, <2>7, <2>8, <2>9 DEF Next, RunStep
<1> QED
  BY <1>1, <1>2, TypeCorrect, PTL DEF Spec

-----------------------------------------------------------------------------
(* Runs of one event.                                                      *)

\* An event has one run at most, whose target is neither beyond main nor
\* behind what the event's runs have published.
OneRunPerEvent ==
    /\ \A q, r \in runs : q.event = r.event => q = r
    /\ \A r \in runs : moved[r.event] <= r.target /\ r.target <= main
    /\ \A event \in Event : moved[event] <= main

\* The runs of one event never move the tag back: a run that is triggered later
\* has the later target, and cancel-in-progress has ended the earlier run.
THEOREM EventsMoveForward == Spec => NeverMovesBack
<1> USE MoveV1Assumption
<1> USE DEF OneRunPerEvent, TypeOK, Run, Event, Commit, Ends, Reaches,
            repository, counters, past
<1>1. Init => OneRunPerEvent
  BY DEF Init
<1>2. TypeOK /\ OneRunPerEvent /\ [Next]_vars
        => OneRunPerEvent' /\ \A event \in Event : moved'[event] >= moved[event]
  <2> DEFINE Goal == OneRunPerEvent' /\ \A event \in Event : moved'[event] >= moved[event]
  <2> SUFFICES ASSUME TypeOK, OneRunPerEvent, [Next]_vars PROVE Goal
    OBVIOUS
  <2>1. CASE UNCHANGED vars
    BY <2>1 DEF vars
  <2>2. ASSUME NEW s \in Skips, NEW r \in Relevants, Merge(s, r) PROVE Goal
    BY <2>2 DEF Merge, Trigger, Cancel
  <2>3. CASE CloseUnmerged
    BY <2>3 DEF CloseUnmerged, Cancel
  <2>4. CASE Dispatch
    BY <2>4 DEF Dispatch, Trigger, Cancel
  <2>5. ASSUME NEW r \in runs, Scope(r) PROVE Goal
    BY <2>5 DEF Scope
  <2>6. ASSUME NEW r \in runs, Validate(r) PROVE Goal
    BY <2>6 DEF Validate
  <2>7. ASSUME NEW r \in runs, CheckMain(r) PROVE Goal
    BY <2>7 DEF CheckMain
  <2>8. ASSUME NEW r \in runs, MoveTag(r) PROVE Goal
    BY <2>8 DEF MoveTag
  <2>9. ASSUME NEW r \in runs, RunFails(r) PROVE Goal
    BY <2>9 DEF RunFails
  <2> QED
    BY <2>1, <2>2, <2>3, <2>4, <2>5, <2>6, <2>7, <2>8, <2>9 DEF Next, RunStep
<1> QED
  BY <1>1, <1>2, TypeCorrect, PTL DEF Spec, NeverMovesBack
=============================================================================
