------------------------------ MODULE Release ------------------------------
(***************************************************************************)
(* A release: the workflow of a commit calls the validation gate, asks for *)
(* the authorization, and only then publishes                              *)
(* (docs/VALIDATION_AUTHORIZATION.md shows the caller).  Other workflows   *)
(* may publish the same commit without the gate, or promote a candidate.   *)
(*                                                                         *)
(* The gate and the publication of a run share its attempts.               *)
(***************************************************************************)
EXTENDS Publication, ValidationGate

ASSUME GatedRunsAssumption ==
    /\ Validation \subseteq Run
    /\ \A r \in Validation : GateCommit[r] = CommitOf[r] /\ MaxAttempts = Len(CandidateTag[r])

releaseVars == <<vars, gateVars>>

ReleaseInit == Init /\ GateInit

Gate(r) ==
    /\ attempt[r] = 0
    /\ GateStep(r)
    /\ UNCHANGED vars

\* The jobs that need the authorization start in the attempt that granted it.
\* (Bound: what the gate leaves behind is not read again and is forgotten.)
Publish(r) ==
    /\ authorized[r]
    /\ StartRun(r)
    /\ attempt'[r] = gateAttempt[r]
    /\ authorized' = [authorized EXCEPT ![r] = FALSE]
    /\ call' = [call EXCEPT ![r] = CHOOSE c \in GateCalls : TRUE]
    /\ gateAttempt' = [gateAttempt EXCEPT ![r] = 1]
    /\ result' = [result EXCEPT ![r] = [n \in GateJob |-> "queued"]]
    /\ output' = [output EXCEPT ![r] = [n \in Child |-> NoOutput]]
    /\ suite' = [suite EXCEPT ![r] = NoSuite]
    /\ attestation' = [attestation EXCEPT ![r] = NoAttestation]
    /\ faults' = [faults EXCEPT ![r] = 0]
    /\ step' = [step EXCEPT ![r] = "waiting"]
    /\ workspace' = [workspace EXCEPT ![r] = CHOOSE w \in Workspaces : TRUE]
    /\ exits' = [exits EXCEPT ![r] = << >>]
    /\ trusted' = [trusted EXCEPT ![r] = FALSE]

\* Bound: a gate has no state in common with a publication, so that the steps
\* of gates are taken first; a run that has been started need not go on.
GatesFirst == \A r \in Validation : attempt[r] > 0

PublicationStep ==
    /\ GatesFirst
    /\ Published \/ \E r \in Run \ Validation : StartRun(r)
    /\ UNCHANGED gateVars

ReleaseNext == PublicationStep \/ \E r \in Validation : Gate(r) \/ Publish(r)

ReleaseSpec == ReleaseInit /\ [][ReleaseNext]_releaseVars

FairRelease == ReleaseSpec /\ PushFairness

-----------------------------------------------------------------------------
ReleaseTypeOK == TypeOK /\ GateTypeOK
=============================================================================
