--------------------------- MODULE Delivery_proofs ---------------------------
(* The safety theorems of Delivery, for every set of deliveries, services, *)
(* candidates and snapshot names, and at the end the rollback theorem of   *)
(* DeliveryRecord: manifests, snapshots and the executor together.         *)
EXTENDS DeliveryRecord, Integers, TLAPS

\* The locks, the service trees, the snapshots and every call's locals stay
\* within their types under each step of execute_delivery.
LEMMA TypeCorrect == Spec => []TypeOK
<1> USE ValuesAssumption, NoTreeAssumption
<1> USE DEF TypeOK, Tree, Stage, Protected, Unsynced, Ended, GateVerdict,
            ServiceOf, Goto, locals, files
<1>1. Init => TypeOK
  BY DEF Init
<1>2. TypeOK /\ [Next]_vars => TypeOK'
  <2> SUFFICES ASSUME TypeOK, [Next]_vars PROVE TypeOK'
    OBVIOUS
  <2>1. CASE UNCHANGED vars
    BY <2>1 DEF vars
  <2>2. ASSUME NEW d \in Delivery, LockUnavailable(d) PROVE TypeOK'
    BY <2>2 DEF LockUnavailable
  <2>3. ASSUME NEW d \in Delivery, AcquireLock(d) PROVE TypeOK'
    BY <2>3 DEF AcquireLock, TreeOf
  <2>4. ASSUME NEW d \in Delivery, LockBusy(d) PROVE TypeOK'
    BY <2>4 DEF LockBusy
  <2>5. ASSUME NEW d \in Delivery, LockTimesOut(d) PROVE TypeOK'
    BY <2>5 DEF LockTimesOut
  <2>6. ASSUME NEW d \in Delivery, Release(d) PROVE TypeOK'
    BY <2>6 DEF Release
  <2>7. ASSUME NEW d \in Delivery, CreateCheckout(d) PROVE TypeOK'
    BY <2>7 DEF CreateCheckout, SetCheckout
  <2>8. ASSUME NEW d \in Delivery, RefuseCheckout(d) PROVE TypeOK'
    BY <2>8 DEF RefuseCheckout
  <2>9. ASSUME NEW d \in Delivery, VerifyCheckout(d) PROVE TypeOK'
    BY <2>9 DEF VerifyCheckout, SetCheckout
  <2>10. ASSUME NEW d \in Delivery, CheckoutFails(d) PROVE TypeOK'
    BY <2>10 DEF CheckoutFails, SetCheckout
  <2>11. ASSUME NEW d \in Delivery, Preflight(d) PROVE TypeOK'
    BY <2>11 DEF Preflight
  <2>12. ASSUME NEW d \in Delivery, Postflight(d) PROVE TypeOK'
    BY <2>12 DEF Postflight
  <2>13. ASSUME NEW d \in Delivery, GateRunnerFails(d) PROVE TypeOK'
    BY <2>13 DEF GateRunnerFails
  <2>14. ASSUME NEW d \in Delivery, RefuseSync(d) PROVE TypeOK'
    BY <2>14 DEF RefuseSync
  <2>15. ASSUME NEW d \in Delivery, DryRun(d) PROVE TypeOK'
    <3>1. PICK n \in SnapshotName : name' = [name EXCEPT ![d] = n]
      BY <2>15 DEF DryRun
    <3>2. stage' \in [Delivery -> Stage]
      <4>1. \E s \in Stage : stage' = [stage EXCEPT ![d] = s]
        BY <2>15 DEF DryRun
      <4> QED
        BY <4>1
    <3>3. name' \in [Delivery -> SnapshotName \cup {NoName}]
      BY <3>1
    <3>4. UNCHANGED <<req, files, pre, post, saved, synced, before>>
      BY <2>15 DEF DryRun
    <3> QED
      BY <3>2, <3>3, <3>4
  <2>16. ASSUME NEW d \in Delivery, CheckSnapshot(d) PROVE TypeOK'
    BY <2>16 DEF CheckSnapshot
  <2>17. ASSUME NEW d \in Delivery, Archive(d) PROVE TypeOK'
    BY <2>17 DEF Archive, RootOf, TreeOf, SnapshotRoot
  <2>18. ASSUME NEW d \in Delivery, ArchiveFails(d) PROVE TypeOK'
    BY <2>18 DEF ArchiveFails
  <2>19. ASSUME NEW d \in Delivery, RsyncProgress(d) PROVE TypeOK'
    BY <2>19 DEF RsyncProgress, Torn
  <2>20. ASSUME NEW d \in Delivery, RsyncSucceeds(d) PROVE TypeOK'
    BY <2>20 DEF RsyncSucceeds, Candidate
  <2>21. ASSUME NEW d \in Delivery, RsyncFails(d) PROVE TypeOK'
    BY <2>21 DEF RsyncFails, Torn, Candidate, TreeOf
  <2>22. ASSUME NEW d \in Delivery, Crash(d) PROVE TypeOK'
    BY <2>22 DEF Crash
  <2> QED
    BY <2>1, <2>2, <2>3, <2>4, <2>5, <2>6, <2>7, <2>8, <2>9, <2>10, <2>11, <2>12, <2>13, <2>14, <2>15, <2>16, <2>17, <2>18, <2>19, <2>20, <2>21, <2>22 DEF Next, Step
<1> QED
  BY <1>1, <1>2, PTL DEF Spec

-----------------------------------------------------------------------------
\* A service's lock is held exactly by the one call that runs the body of "with
\* service_lock(...)" (executor.py:235): the timeout of a waiting call never
\* frees the lock of the call that holds it, and a crash frees it with the process.
THEOREM LockSafety == Spec => []LockHeldExactlyInside
<1> USE ValuesAssumption
<1> USE DEF LockHeldExactlyInside, TypeOK, Stage, Protected, Unsynced, Ended,
            ServiceOf, Goto, files
<1>1. Init => LockHeldExactlyInside
  BY DEF Init
<1>2. TypeOK /\ LockHeldExactlyInside /\ [Next]_vars => LockHeldExactlyInside'
  <2> SUFFICES ASSUME TypeOK, LockHeldExactlyInside, [Next]_vars
               PROVE  LockHeldExactlyInside'
    OBVIOUS
  <2>1. CASE UNCHANGED vars
    BY <2>1 DEF vars
  <2>2. ASSUME NEW d \in Delivery, LockUnavailable(d) PROVE LockHeldExactlyInside'
    BY <2>2 DEF LockUnavailable
  <2>3. ASSUME NEW d \in Delivery, AcquireLock(d) PROVE LockHeldExactlyInside'
    BY <2>3 DEF AcquireLock, TreeOf
  <2>4. ASSUME NEW d \in Delivery, LockBusy(d) PROVE LockHeldExactlyInside'
    BY <2>4 DEF LockBusy
  <2>5. ASSUME NEW d \in Delivery, LockTimesOut(d) PROVE LockHeldExactlyInside'
    BY <2>5 DEF LockTimesOut
  <2>6. ASSUME NEW d \in Delivery, Release(d) PROVE LockHeldExactlyInside'
    BY <2>6 DEF Release
  <2>7. ASSUME NEW d \in Delivery, CreateCheckout(d) PROVE LockHeldExactlyInside'
    BY <2>7 DEF CreateCheckout, SetCheckout
  <2>8. ASSUME NEW d \in Delivery, RefuseCheckout(d) PROVE LockHeldExactlyInside'
    BY <2>8 DEF RefuseCheckout
  <2>9. ASSUME NEW d \in Delivery, VerifyCheckout(d) PROVE LockHeldExactlyInside'
    BY <2>9 DEF VerifyCheckout, SetCheckout
  <2>10. ASSUME NEW d \in Delivery, CheckoutFails(d) PROVE LockHeldExactlyInside'
    BY <2>10 DEF CheckoutFails, SetCheckout
  <2>11. ASSUME NEW d \in Delivery, Preflight(d) PROVE LockHeldExactlyInside'
    BY <2>11 DEF Preflight
  <2>12. ASSUME NEW d \in Delivery, Postflight(d) PROVE LockHeldExactlyInside'
    BY <2>12 DEF Postflight
  <2>13. ASSUME NEW d \in Delivery, GateRunnerFails(d) PROVE LockHeldExactlyInside'
    BY <2>13 DEF GateRunnerFails
  <2>14. ASSUME NEW d \in Delivery, RefuseSync(d) PROVE LockHeldExactlyInside'
    BY <2>14 DEF RefuseSync
  <2>15. ASSUME NEW d \in Delivery, DryRun(d) PROVE LockHeldExactlyInside'
    BY <2>15 DEF DryRun
  <2>16. ASSUME NEW d \in Delivery, CheckSnapshot(d) PROVE LockHeldExactlyInside'
    BY <2>16 DEF CheckSnapshot
  <2>17. ASSUME NEW d \in Delivery, Archive(d) PROVE LockHeldExactlyInside'
    BY <2>17 DEF Archive, RootOf, TreeOf, SnapshotRoot
  <2>18. ASSUME NEW d \in Delivery, ArchiveFails(d) PROVE LockHeldExactlyInside'
    BY <2>18 DEF ArchiveFails
  <2>19. ASSUME NEW d \in Delivery, RsyncProgress(d) PROVE LockHeldExactlyInside'
    BY <2>19 DEF RsyncProgress, Torn
  <2>20. ASSUME NEW d \in Delivery, RsyncSucceeds(d) PROVE LockHeldExactlyInside'
    BY <2>20 DEF RsyncSucceeds, Candidate
  <2>21. ASSUME NEW d \in Delivery, RsyncFails(d) PROVE LockHeldExactlyInside'
    BY <2>21 DEF RsyncFails, Torn, Candidate, TreeOf
  <2>22. ASSUME NEW d \in Delivery, Crash(d) PROVE LockHeldExactlyInside'
    BY <2>22 DEF Crash
  <2> QED
    BY <2>1, <2>2, <2>3, <2>4, <2>5, <2>6, <2>7, <2>8, <2>9, <2>10, <2>11, <2>12, <2>13, <2>14, <2>15, <2>16, <2>17, <2>18, <2>19, <2>20, <2>21, <2>22 DEF Next, Step
<1> QED
  BY <1>1, <1>2, TypeCorrect, PTL DEF Spec

-----------------------------------------------------------------------------
(* What a call's local variables say at each of its stages.                *)
StageDiscipline ==
    \A d \in Delivery :
        /\ stage[d] \in {"idle", "waiting", "locked", "fetching", "preflight"}
              => pre[d] = "none" /\ saved[d] = NoName
        /\ stage[d] \in {"sync", "snapshot", "archive"}
              => pre[d] = "passed" /\ saved[d] = NoName
        /\ stage[d] \in {"rsync", "postflight"} => pre[d] = "passed"
        /\ stage[d] = "return" => pre[d] # "none"
        /\ stage[d] \in {"snapshot", "archive"} => name[d] \in SnapshotName
        /\ stage[d] \in Protected \/ saved[d] # NoName => before[d] \in Tree

\* The local variables agree with the stage, in every reachable state.
LEMMA StagesAreDisciplined == Spec => []StageDiscipline
<1> USE ValuesAssumption, NoTreeAssumption
<1> USE DEF TypeOK, Stage, Protected, Unsynced, Ended,
            ServiceOf, TreeOf, Candidate, Goto, locals, files, StageDiscipline, Tree, GateVerdict
<1>1. Init => StageDiscipline
  BY DEF Init
<1>2. TypeOK /\ StageDiscipline /\ [Next]_vars => StageDiscipline'
  <2> SUFFICES ASSUME TypeOK, StageDiscipline, [Next]_vars
               PROVE  StageDiscipline'
    OBVIOUS
  <2>1. CASE UNCHANGED vars
    BY <2>1 DEF vars
  <2>2. ASSUME NEW d \in Delivery, LockUnavailable(d) PROVE StageDiscipline'
    BY <2>2 DEF LockUnavailable
  <2>3. ASSUME NEW d \in Delivery, AcquireLock(d) PROVE StageDiscipline'
    BY <2>3 DEF AcquireLock, TreeOf
  <2>4. ASSUME NEW d \in Delivery, LockBusy(d) PROVE StageDiscipline'
    BY <2>4 DEF LockBusy
  <2>5. ASSUME NEW d \in Delivery, LockTimesOut(d) PROVE StageDiscipline'
    BY <2>5 DEF LockTimesOut
  <2>6. ASSUME NEW d \in Delivery, Release(d) PROVE StageDiscipline'
    BY <2>6 DEF Release
  <2>7. ASSUME NEW d \in Delivery, CreateCheckout(d) PROVE StageDiscipline'
    BY <2>7 DEF CreateCheckout, SetCheckout
  <2>8. ASSUME NEW d \in Delivery, RefuseCheckout(d) PROVE StageDiscipline'
    BY <2>8 DEF RefuseCheckout
  <2>9. ASSUME NEW d \in Delivery, VerifyCheckout(d) PROVE StageDiscipline'
    BY <2>9 DEF VerifyCheckout, SetCheckout
  <2>10. ASSUME NEW d \in Delivery, CheckoutFails(d) PROVE StageDiscipline'
    BY <2>10 DEF CheckoutFails, SetCheckout
  <2>11. ASSUME NEW d \in Delivery, Preflight(d) PROVE StageDiscipline'
    BY <2>11 DEF Preflight
  <2>12. ASSUME NEW d \in Delivery, Postflight(d) PROVE StageDiscipline'
    BY <2>12 DEF Postflight
  <2>13. ASSUME NEW d \in Delivery, GateRunnerFails(d) PROVE StageDiscipline'
    BY <2>13 DEF GateRunnerFails
  <2>14. ASSUME NEW d \in Delivery, RefuseSync(d) PROVE StageDiscipline'
    BY <2>14 DEF RefuseSync
  <2>15. ASSUME NEW d \in Delivery, DryRun(d) PROVE StageDiscipline'
    BY <2>15 DEF DryRun
  <2>16. ASSUME NEW d \in Delivery, CheckSnapshot(d) PROVE StageDiscipline'
    BY <2>16 DEF CheckSnapshot
  <2>17. ASSUME NEW d \in Delivery, Archive(d) PROVE StageDiscipline'
    BY <2>17 DEF Archive, RootOf, TreeOf, SnapshotRoot
  <2>18. ASSUME NEW d \in Delivery, ArchiveFails(d) PROVE StageDiscipline'
    BY <2>18 DEF ArchiveFails
  <2>19. ASSUME NEW d \in Delivery, RsyncProgress(d) PROVE StageDiscipline'
    BY <2>19 DEF RsyncProgress, Torn
  <2>20. ASSUME NEW d \in Delivery, RsyncSucceeds(d) PROVE StageDiscipline'
    BY <2>20 DEF RsyncSucceeds, Candidate
  <2>21. ASSUME NEW d \in Delivery, RsyncFails(d) PROVE StageDiscipline'
    BY <2>21 DEF RsyncFails, Torn, Candidate, TreeOf
  <2>22. ASSUME NEW d \in Delivery, Crash(d) PROVE StageDiscipline'
    BY <2>22 DEF Crash
  <2> QED
    BY <2>1, <2>2, <2>3, <2>4, <2>5, <2>6, <2>7, <2>8, <2>9, <2>10, <2>11, <2>12, <2>13, <2>14, <2>15, <2>16, <2>17, <2>18, <2>19, <2>20, <2>21, <2>22 DEF Next, Step
<1> QED
  BY <1>1, <1>2, TypeCorrect, PTL DEF Spec

\* The tree a call found when it took the lock is still there when its rsync
\* begins, and for good if its preflight failed.
THEOREM TreeSafety == Spec => []TreeUntouchedUntilSync
<1> USE ValuesAssumption, NoTreeAssumption
<1> USE DEF TypeOK, Stage, Protected, Unsynced, Ended,
            ServiceOf, TreeOf, Candidate, Goto, locals, files, LockHeldExactlyInside, StageDiscipline,
            TreeUntouchedUntilSync
<1>1. Init => TreeUntouchedUntilSync
  BY DEF Init
<1>2. TypeOK /\ LockHeldExactlyInside /\ StageDiscipline /\ TreeUntouchedUntilSync /\ [Next]_vars => TreeUntouchedUntilSync'
  <2> SUFFICES ASSUME TypeOK, LockHeldExactlyInside, StageDiscipline, TreeUntouchedUntilSync, [Next]_vars
               PROVE  TreeUntouchedUntilSync'
    OBVIOUS
  <2>1. CASE UNCHANGED vars
    BY <2>1 DEF vars
  <2>2. ASSUME NEW d \in Delivery, LockUnavailable(d) PROVE TreeUntouchedUntilSync'
    BY <2>2 DEF LockUnavailable
  <2>3. ASSUME NEW d \in Delivery, AcquireLock(d) PROVE TreeUntouchedUntilSync'
    BY <2>3 DEF AcquireLock, TreeOf
  <2>4. ASSUME NEW d \in Delivery, LockBusy(d) PROVE TreeUntouchedUntilSync'
    BY <2>4 DEF LockBusy
  <2>5. ASSUME NEW d \in Delivery, LockTimesOut(d) PROVE TreeUntouchedUntilSync'
    BY <2>5 DEF LockTimesOut
  <2>6. ASSUME NEW d \in Delivery, Release(d) PROVE TreeUntouchedUntilSync'
    BY <2>6 DEF Release
  <2>7. ASSUME NEW d \in Delivery, CreateCheckout(d) PROVE TreeUntouchedUntilSync'
    BY <2>7 DEF CreateCheckout, SetCheckout
  <2>8. ASSUME NEW d \in Delivery, RefuseCheckout(d) PROVE TreeUntouchedUntilSync'
    BY <2>8 DEF RefuseCheckout
  <2>9. ASSUME NEW d \in Delivery, VerifyCheckout(d) PROVE TreeUntouchedUntilSync'
    BY <2>9 DEF VerifyCheckout, SetCheckout
  <2>10. ASSUME NEW d \in Delivery, CheckoutFails(d) PROVE TreeUntouchedUntilSync'
    BY <2>10 DEF CheckoutFails, SetCheckout
  <2>11. ASSUME NEW d \in Delivery, Preflight(d) PROVE TreeUntouchedUntilSync'
    BY <2>11 DEF Preflight
  <2>12. ASSUME NEW d \in Delivery, Postflight(d) PROVE TreeUntouchedUntilSync'
    BY <2>12 DEF Postflight
  <2>13. ASSUME NEW d \in Delivery, GateRunnerFails(d) PROVE TreeUntouchedUntilSync'
    BY <2>13 DEF GateRunnerFails
  <2>14. ASSUME NEW d \in Delivery, RefuseSync(d) PROVE TreeUntouchedUntilSync'
    BY <2>14 DEF RefuseSync
  <2>15. ASSUME NEW d \in Delivery, DryRun(d) PROVE TreeUntouchedUntilSync'
    BY <2>15 DEF DryRun
  <2>16. ASSUME NEW d \in Delivery, CheckSnapshot(d) PROVE TreeUntouchedUntilSync'
    BY <2>16 DEF CheckSnapshot
  <2>17. ASSUME NEW d \in Delivery, Archive(d) PROVE TreeUntouchedUntilSync'
    BY <2>17 DEF Archive, RootOf, TreeOf, SnapshotRoot
  <2>18. ASSUME NEW d \in Delivery, ArchiveFails(d) PROVE TreeUntouchedUntilSync'
    BY <2>18 DEF ArchiveFails
  <2>19. ASSUME NEW d \in Delivery, RsyncProgress(d) PROVE TreeUntouchedUntilSync'
    BY <2>19 DEF RsyncProgress, Torn
  <2>20. ASSUME NEW d \in Delivery, RsyncSucceeds(d) PROVE TreeUntouchedUntilSync'
    BY <2>20 DEF RsyncSucceeds, Candidate
  <2>21. ASSUME NEW d \in Delivery, RsyncFails(d) PROVE TreeUntouchedUntilSync'
    BY <2>21 DEF RsyncFails, Torn, Candidate, TreeOf
  <2>22. ASSUME NEW d \in Delivery, Crash(d) PROVE TreeUntouchedUntilSync'
    BY <2>22 DEF Crash
  <2> QED
    BY <2>1, <2>2, <2>3, <2>4, <2>5, <2>6, <2>7, <2>8, <2>9, <2>10, <2>11, <2>12, <2>13, <2>14, <2>15, <2>16, <2>17, <2>18, <2>19, <2>20, <2>21, <2>22 DEF Next, Step
<1> QED
  BY <1>1, <1>2, TypeCorrect, LockSafety, StagesAreDisciplined, PTL DEF Spec

\* A ready result is built on the candidate's own tree.
THEOREM ReadySafety == Spec => []ReadyMeansDeployed
<1> USE ValuesAssumption, NoTreeAssumption
<1> USE DEF TypeOK, Stage, Protected, Unsynced, Ended,
            ServiceOf, TreeOf, Candidate, Goto, locals, files, LockHeldExactlyInside, StageDiscipline,
            ReadyMeansDeployed
<1>1. Init => ReadyMeansDeployed
  BY DEF Init
<1>2. TypeOK /\ LockHeldExactlyInside /\ StageDiscipline /\ ReadyMeansDeployed /\ [Next]_vars => ReadyMeansDeployed'
  <2> SUFFICES ASSUME TypeOK, LockHeldExactlyInside, StageDiscipline, ReadyMeansDeployed, [Next]_vars
               PROVE  ReadyMeansDeployed'
    OBVIOUS
  <2>1. CASE UNCHANGED vars
    BY <2>1 DEF vars
  <2>2. ASSUME NEW d \in Delivery, LockUnavailable(d) PROVE ReadyMeansDeployed'
    BY <2>2 DEF LockUnavailable
  <2>3. ASSUME NEW d \in Delivery, AcquireLock(d) PROVE ReadyMeansDeployed'
    BY <2>3 DEF AcquireLock, TreeOf
  <2>4. ASSUME NEW d \in Delivery, LockBusy(d) PROVE ReadyMeansDeployed'
    BY <2>4 DEF LockBusy
  <2>5. ASSUME NEW d \in Delivery, LockTimesOut(d) PROVE ReadyMeansDeployed'
    BY <2>5 DEF LockTimesOut
  <2>6. ASSUME NEW d \in Delivery, Release(d) PROVE ReadyMeansDeployed'
    BY <2>6 DEF Release
  <2>7. ASSUME NEW d \in Delivery, CreateCheckout(d) PROVE ReadyMeansDeployed'
    BY <2>7 DEF CreateCheckout, SetCheckout
  <2>8. ASSUME NEW d \in Delivery, RefuseCheckout(d) PROVE ReadyMeansDeployed'
    BY <2>8 DEF RefuseCheckout
  <2>9. ASSUME NEW d \in Delivery, VerifyCheckout(d) PROVE ReadyMeansDeployed'
    BY <2>9 DEF VerifyCheckout, SetCheckout
  <2>10. ASSUME NEW d \in Delivery, CheckoutFails(d) PROVE ReadyMeansDeployed'
    BY <2>10 DEF CheckoutFails, SetCheckout
  <2>11. ASSUME NEW d \in Delivery, Preflight(d) PROVE ReadyMeansDeployed'
    <3>1. live' = live /\ req' = req
      BY <2>11 DEF Preflight
    <3>2. CASE stage' = [stage EXCEPT ![d] = "sync"] /\ pre' = [pre EXCEPT ![d] = "passed"]
      BY <3>1, <3>2
    <3>3. CASE stage' = [stage EXCEPT ![d] = "return"] /\ pre' = [pre EXCEPT ![d] = "failed"]
      BY <3>1, <3>3
    <3> QED
      BY <2>11, <3>2, <3>3 DEF Preflight
  <2>12. ASSUME NEW d \in Delivery, Postflight(d) PROVE ReadyMeansDeployed'
    BY <2>12 DEF Postflight
  <2>13. ASSUME NEW d \in Delivery, GateRunnerFails(d) PROVE ReadyMeansDeployed'
    BY <2>13 DEF GateRunnerFails
  <2>14. ASSUME NEW d \in Delivery, RefuseSync(d) PROVE ReadyMeansDeployed'
    BY <2>14 DEF RefuseSync
  <2>15. ASSUME NEW d \in Delivery, DryRun(d) PROVE ReadyMeansDeployed'
    BY <2>15 DEF DryRun
  <2>16. ASSUME NEW d \in Delivery, CheckSnapshot(d) PROVE ReadyMeansDeployed'
    BY <2>16 DEF CheckSnapshot
  <2>17. ASSUME NEW d \in Delivery, Archive(d) PROVE ReadyMeansDeployed'
    BY <2>17 DEF Archive, RootOf, TreeOf, SnapshotRoot
  <2>18. ASSUME NEW d \in Delivery, ArchiveFails(d) PROVE ReadyMeansDeployed'
    BY <2>18 DEF ArchiveFails
  <2>19. ASSUME NEW d \in Delivery, RsyncProgress(d) PROVE ReadyMeansDeployed'
    BY <2>19 DEF RsyncProgress, Torn
  <2>20. ASSUME NEW d \in Delivery, RsyncSucceeds(d) PROVE ReadyMeansDeployed'
    BY <2>20 DEF RsyncSucceeds, Candidate
  <2>21. ASSUME NEW d \in Delivery, RsyncFails(d) PROVE ReadyMeansDeployed'
    BY <2>21 DEF RsyncFails, Torn, Candidate, TreeOf
  <2>22. ASSUME NEW d \in Delivery, Crash(d) PROVE ReadyMeansDeployed'
    BY <2>22 DEF Crash
  <2> QED
    BY <2>1, <2>2, <2>3, <2>4, <2>5, <2>6, <2>7, <2>8, <2>9, <2>10, <2>11, <2>12, <2>13, <2>14, <2>15, <2>16, <2>17, <2>18, <2>19, <2>20, <2>21, <2>22 DEF Next, Step
<1> QED
  BY <1>1, <1>2, TypeCorrect, LockSafety, StagesAreDisciplined, PTL DEF Spec

-----------------------------------------------------------------------------
(* The checkout directory of a candidate stands between two calls that     *)
(* want it: it exists from the verification of the first one on.           *)
PreparedInv ==
    /\ \A d \in Delivery : pre[d] # "none" => Checkout(d) # "absent"
    /\ \A d \in Delivery : stage[d] \in {"fetching", "preflight"} =>
          /\ Checkout(d) # "absent"
          /\ \A e \in Delivery : e # d /\ req[e] = req[d] => pre[e] = "none"
    /\ CandidatePreparedOnce

\* PreparedInv is an invariant: it is what makes CandidatePreparedOnce inductive.
LEMMA PreparedInvariant ==
    Spec => []PreparedInv
<1> USE ValuesAssumption, NoTreeAssumption
<1> USE DEF TypeOK, Stage, Protected, Unsynced, Ended,
            ServiceOf, TreeOf, Goto, locals, files, LockHeldExactlyInside, StageDiscipline,
            PreparedInv, CandidatePreparedOnce, Checkout
<1>1. Init => PreparedInv
  BY DEF Init
<1>2. TypeOK /\ LockHeldExactlyInside /\ StageDiscipline /\ PreparedInv /\ [Next]_vars => PreparedInv'
  <2> SUFFICES ASSUME TypeOK, LockHeldExactlyInside, StageDiscipline, PreparedInv, [Next]_vars
               PROVE  PreparedInv'
    OBVIOUS
  <2>1. CASE UNCHANGED vars
    BY <2>1 DEF vars
  <2>2. ASSUME NEW d \in Delivery, LockUnavailable(d) PROVE PreparedInv'
    BY <2>2 DEF LockUnavailable
  <2>3. ASSUME NEW d \in Delivery, AcquireLock(d) PROVE PreparedInv'
    BY <2>3 DEF AcquireLock, TreeOf
  <2>4. ASSUME NEW d \in Delivery, LockBusy(d) PROVE PreparedInv'
    BY <2>4 DEF LockBusy
  <2>5. ASSUME NEW d \in Delivery, LockTimesOut(d) PROVE PreparedInv'
    BY <2>5 DEF LockTimesOut
  <2>6. ASSUME NEW d \in Delivery, Release(d) PROVE PreparedInv'
    BY <2>6 DEF Release
  <2>7. ASSUME NEW d \in Delivery, CreateCheckout(d) PROVE PreparedInv'
    BY <2>7 DEF CreateCheckout, SetCheckout
  <2>8. ASSUME NEW d \in Delivery, RefuseCheckout(d) PROVE PreparedInv'
    BY <2>8 DEF RefuseCheckout
  <2>9. ASSUME NEW d \in Delivery, VerifyCheckout(d) PROVE PreparedInv'
    BY <2>9 DEF VerifyCheckout, SetCheckout
  <2>10. ASSUME NEW d \in Delivery, CheckoutFails(d) PROVE PreparedInv'
    <3>1. \A e \in Delivery : req[e] # req[d] => Checkout(e)' = Checkout(e)
      <4>1. \A e \in Delivery :
               req[e] # req[d] => ServiceOf(e) # ServiceOf(d) \/ req[e].sha # req[d].sha
        OBVIOUS
      <4> QED
        BY <2>10, <4>1 DEF CheckoutFails, SetCheckout
    <3>2. pre[d] = "none" /\ \A e \in Delivery : req[e] = req[d] => pre[e] = "none"
      BY <2>10 DEF CheckoutFails
    <3>3. \A e \in Delivery : e # d /\ req[e] = req[d] => stage[e] \notin {"fetching", "preflight"}
      BY <2>10 DEF CheckoutFails
    <3>4. /\ stage' = [stage EXCEPT ![d] = "raise"]
          /\ pre' = pre /\ req' = req
      BY <2>10 DEF CheckoutFails
    <3> HIDE DEF Checkout
    <3> QED
      BY <3>1, <3>2, <3>3, <3>4
  <2>11. ASSUME NEW d \in Delivery, Preflight(d) PROVE PreparedInv'
    <3>0. stage[d] = "preflight"
      BY <2>11 DEF Preflight
    <3>1. \A e \in Delivery : e # d /\ req[e] = req[d] => pre[e] = "none"
      BY <3>0
    <3>2. \A e \in Delivery :
             e # d /\ req[e] = req[d] => stage[e] \notin {"fetching", "preflight"}
      BY <2>11 DEF Preflight
    <3>3. /\ \A e \in Delivery : e # d => pre'[e] = pre[e]
          /\ \A e \in Delivery : stage'[e] \in {"fetching", "preflight"} => e # d /\ stage'[e] = stage[e]
          /\ req' = req /\ checkouts' = checkouts
          /\ Checkout(d) # "absent"
      BY <2>11 DEF Preflight
    <3> QED
      BY <3>1, <3>2, <3>3
  <2>12. ASSUME NEW d \in Delivery, Postflight(d) PROVE PreparedInv'
    BY <2>12 DEF Postflight
  <2>13. ASSUME NEW d \in Delivery, GateRunnerFails(d) PROVE PreparedInv'
    BY <2>13 DEF GateRunnerFails
  <2>14. ASSUME NEW d \in Delivery, RefuseSync(d) PROVE PreparedInv'
    BY <2>14 DEF RefuseSync
  <2>15. ASSUME NEW d \in Delivery, DryRun(d) PROVE PreparedInv'
    BY <2>15 DEF DryRun
  <2>16. ASSUME NEW d \in Delivery, CheckSnapshot(d) PROVE PreparedInv'
    BY <2>16 DEF CheckSnapshot
  <2>17. ASSUME NEW d \in Delivery, Archive(d) PROVE PreparedInv'
    BY <2>17 DEF Archive, RootOf, TreeOf, SnapshotRoot
  <2>18. ASSUME NEW d \in Delivery, ArchiveFails(d) PROVE PreparedInv'
    BY <2>18 DEF ArchiveFails
  <2>19. ASSUME NEW d \in Delivery, RsyncProgress(d) PROVE PreparedInv'
    BY <2>19 DEF RsyncProgress, Torn
  <2>20. ASSUME NEW d \in Delivery, RsyncSucceeds(d) PROVE PreparedInv'
    BY <2>20 DEF RsyncSucceeds, Candidate
  <2>21. ASSUME NEW d \in Delivery, RsyncFails(d) PROVE PreparedInv'
    BY <2>21 DEF RsyncFails, Torn, Candidate, TreeOf
  <2>22. ASSUME NEW d \in Delivery, Crash(d) PROVE PreparedInv'
    BY <2>22 DEF Crash
  <2> QED
    BY <2>1, <2>2, <2>3, <2>4, <2>5, <2>6, <2>7, <2>8, <2>9, <2>10, <2>11, <2>12, <2>13, <2>14, <2>15, <2>16, <2>17, <2>18, <2>19, <2>20, <2>21, <2>22 DEF Next, Step
<1> QED
  BY <1>1, <1>2, TypeCorrect, LockSafety, StagesAreDisciplined, PTL DEF Spec

\* At most one call ever gets a preflight verdict on a candidate of a service.
THEOREM PreparedOnce == Spec => []CandidatePreparedOnce
BY PreparedInvariant, PTL DEF PreparedInv

-----------------------------------------------------------------------------
(* Between the look for an existing snapshot and the replace, the name     *)
(* stays free, because only the holder of the service's lock writes below  *)
(* the service's snapshot root.                                            *)
SnapshotInv ==
    /\ \A d \in Delivery :
          stage[d] = "archive" => snaps[RootOf(d)][name[d]] = NoTree
    /\ SnapshotKeepsReplacedTree

\* When no two services share a snapshot root, the snapshot of a replaced tree
\* is never overwritten.
THEOREM SnapshotSafety ==
    ASSUME OwnSnapshotRoots PROVE Spec => []SnapshotKeepsReplacedTree
<1> USE ValuesAssumption, NoTreeAssumption
<1> USE DEF TypeOK, Stage, Protected, Unsynced, Ended,
            ServiceOf, TreeOf, Goto, locals, files, LockHeldExactlyInside, StageDiscipline,
            TreeUntouchedUntilSync, SnapshotInv, SnapshotKeepsReplacedTree,
            RootOf, SnapshotRoot, SnapshotExists, OwnSnapshotRoots
<1>1. Init => SnapshotInv
  BY DEF Init
<1>2. /\ TypeOK /\ LockHeldExactlyInside /\ StageDiscipline
      /\ TreeUntouchedUntilSync /\ SnapshotInv /\ [Next]_vars
      => SnapshotInv'
  <2> SUFFICES ASSUME TypeOK, LockHeldExactlyInside, StageDiscipline, TreeUntouchedUntilSync, SnapshotInv, [Next]_vars
               PROVE  SnapshotInv'
    OBVIOUS
  <2>1. CASE UNCHANGED vars
    BY <2>1 DEF vars
  <2>2. ASSUME NEW d \in Delivery, LockUnavailable(d) PROVE SnapshotInv'
    BY <2>2 DEF LockUnavailable
  <2>3. ASSUME NEW d \in Delivery, AcquireLock(d) PROVE SnapshotInv'
    BY <2>3 DEF AcquireLock, TreeOf
  <2>4. ASSUME NEW d \in Delivery, LockBusy(d) PROVE SnapshotInv'
    BY <2>4 DEF LockBusy
  <2>5. ASSUME NEW d \in Delivery, LockTimesOut(d) PROVE SnapshotInv'
    BY <2>5 DEF LockTimesOut
  <2>6. ASSUME NEW d \in Delivery, Release(d) PROVE SnapshotInv'
    BY <2>6 DEF Release
  <2>7. ASSUME NEW d \in Delivery, CreateCheckout(d) PROVE SnapshotInv'
    BY <2>7 DEF CreateCheckout, SetCheckout
  <2>8. ASSUME NEW d \in Delivery, RefuseCheckout(d) PROVE SnapshotInv'
    BY <2>8 DEF RefuseCheckout
  <2>9. ASSUME NEW d \in Delivery, VerifyCheckout(d) PROVE SnapshotInv'
    BY <2>9 DEF VerifyCheckout, SetCheckout
  <2>10. ASSUME NEW d \in Delivery, CheckoutFails(d) PROVE SnapshotInv'
    BY <2>10 DEF CheckoutFails, SetCheckout
  <2>11. ASSUME NEW d \in Delivery, Preflight(d) PROVE SnapshotInv'
    BY <2>11 DEF Preflight
  <2>12. ASSUME NEW d \in Delivery, Postflight(d) PROVE SnapshotInv'
    BY <2>12 DEF Postflight
  <2>13. ASSUME NEW d \in Delivery, GateRunnerFails(d) PROVE SnapshotInv'
    BY <2>13 DEF GateRunnerFails
  <2>14. ASSUME NEW d \in Delivery, RefuseSync(d) PROVE SnapshotInv'
    BY <2>14 DEF RefuseSync
  <2>15. ASSUME NEW d \in Delivery, DryRun(d) PROVE SnapshotInv'
    BY <2>15 DEF DryRun
  <2>16. ASSUME NEW d \in Delivery, CheckSnapshot(d) PROVE SnapshotInv'
    BY <2>16 DEF CheckSnapshot
  <2>17. ASSUME NEW d \in Delivery, Archive(d) PROVE SnapshotInv'
    <3>1. /\ TreeOf(d) = before[d] /\ before[d] \in Tree /\ saved[d] = NoName
          /\ name[d] \in SnapshotName
          /\ snaps[RootOf(d)][name[d]] = NoTree
      BY <2>17 DEF Archive
    <3>2. snaps' = [snaps EXCEPT ![RootOf(d)][name[d]] = before[d]]
      BY <2>17, <3>1 DEF Archive
    <3>3. /\ \A e \in Delivery : e # d => saved'[e] = saved[e]
          /\ saved'[d] = name[d]
          /\ req' = req /\ name' = name /\ before' = before
          /\ \A e \in Delivery : stage'[e] = "archive" => e # d /\ stage[e] = "archive"
      BY <2>17 DEF Archive
    <3>4. \A e \in Delivery : stage[e] = "archive" /\ e # d => RootOf(e) # RootOf(d)
      BY <2>17, SMTT(30) DEF Archive
    <3>5. ASSUME NEW e \in Delivery, saved[e] # NoName
          PROVE  snaps'[RootOf(e)][saved[e]] = before[e]
      <4>1. snaps[RootOf(e)][saved[e]] = before[e] /\ before[e] \in Tree
        BY <3>5
      <4>2. ~(RootOf(e) = RootOf(d) /\ saved[e] = name[d])
        BY <4>1, <3>1
      <4> QED
        BY <3>2, <4>1, <4>2, <3>5
    <3>6. snaps'[RootOf(d)][name[d]] = before[d]
      <4>1. RootOf(d) \in SnapshotRoot
        OBVIOUS
      <4>2. snaps \in [SnapshotRoot -> [SnapshotName -> Tree \cup {NoTree}]]
        OBVIOUS
      <4> HIDE DEF RootOf, SnapshotRoot, TypeOK
      <4> QED
        BY <3>1, <3>2, <4>1, <4>2
    <3>7. \A e \in Delivery : stage'[e] = "archive" => snaps'[RootOf(e)][name[e]] = NoTree
      BY <3>2, <3>3, <3>4
    <3> QED
      BY <3>1, <3>3, <3>5, <3>6, <3>7
  <2>18. ASSUME NEW d \in Delivery, ArchiveFails(d) PROVE SnapshotInv'
    BY <2>18 DEF ArchiveFails
  <2>19. ASSUME NEW d \in Delivery, RsyncProgress(d) PROVE SnapshotInv'
    BY <2>19 DEF RsyncProgress, Torn
  <2>20. ASSUME NEW d \in Delivery, RsyncSucceeds(d) PROVE SnapshotInv'
    BY <2>20 DEF RsyncSucceeds, Candidate
  <2>21. ASSUME NEW d \in Delivery, RsyncFails(d) PROVE SnapshotInv'
    BY <2>21 DEF RsyncFails, Torn, Candidate, TreeOf
  <2>22. ASSUME NEW d \in Delivery, Crash(d) PROVE SnapshotInv'
    BY <2>22 DEF Crash
  <2> QED
    BY <2>1, <2>2, <2>3, <2>4, <2>5, <2>6, <2>7, <2>8, <2>9, <2>10, <2>11, <2>12, <2>13, <2>14, <2>15, <2>16, <2>17, <2>18, <2>19, <2>20, <2>21, <2>22 DEF Next, Step
<1> QED
  BY <1>1, <1>2, TypeCorrect, LockSafety, StagesAreDisciplined, TreeSafety, PTL DEF Spec

-----------------------------------------------------------------------------
(* A torn tree is recoverable because a whole tree of the service has been *)
(* archived: by the call that tore it or, if that one found a torn tree    *)
(* already, by an earlier one.                                             *)
WholeTreeArchived(s) ==
    \E d \in Delivery :
        ServiceOf(d) = s /\ saved[d] # NoName /\ before[d].content # "torn"

TornInv ==
    \A s \in Service : SnapshotChoices[s] = {TRUE} =>
        /\ live[s].content = "torn" => WholeTreeArchived(s)
        /\ \A d \in Delivery : ServiceOf(d) = s =>
              /\ before[d] \in Tree /\ before[d].content = "torn" => WholeTreeArchived(s)
              /\ stage[d] = "rsync" => saved[d] # NoName

\* A call that has archived the tree it replaces never archives again and
\* never takes the lock again (executor.py, execute_delivery runs once).
LEMMA ArchivedIsFinal ==
    ASSUME TypeOK, StageDiscipline, [Next]_vars, NEW d \in Delivery, saved[d] # NoName
    PROVE  saved'[d] = saved[d] /\ before'[d] = before[d] /\ req' = req
<1> USE DEF TypeOK, Stage, Protected, Unsynced, Ended, Goto, locals, StageDiscipline
<1>1. CASE UNCHANGED vars
  BY <1>1 DEF vars
<1>2. ASSUME NEW e \in Delivery,
             LockUnavailable(e) \/ AcquireLock(e) \/ LockBusy(e) \/ Step(e) \/ Crash(e)
      PROVE  saved'[d] = saved[d] /\ before'[d] = before[d] /\ req' = req
  BY <1>2 DEF Step, LockUnavailable, AcquireLock, LockBusy, LockTimesOut, Release,
       CreateCheckout, RefuseCheckout, VerifyCheckout, CheckoutFails, Preflight,
       Postflight, GateRunnerFails, RefuseSync, DryRun, CheckSnapshot, Archive,
       ArchiveFails, RsyncProgress, RsyncSucceeds, RsyncFails, Crash
<1> QED
  BY <1>1, <1>2 DEF Next

\* While every delivery of a service takes snapshots, its tree is torn only
\* after a whole one was archived (snapshot_sync.py, sync_deployment).
LEMMA TornInvariant == Spec => []TornInv
<1> USE ValuesAssumption, NoTreeAssumption
<1>1. Init => TornInv
  BY DEF Init, TornInv, ServiceOf
<1>2. TypeOK /\ StageDiscipline /\ TornInv /\ [Next]_vars => TornInv'
  <2> SUFFICES ASSUME TypeOK, StageDiscipline, TornInv, [Next]_vars PROVE TornInv'
    OBVIOUS
  <2>0. \A s \in Service : WholeTreeArchived(s) => WholeTreeArchived(s)'
    BY ArchivedIsFinal DEF WholeTreeArchived, ServiceOf
  <2> USE DEF TypeOK, Stage, Protected, Unsynced, Ended, Goto, locals, files, ServiceOf, TreeOf
  <2>1. ASSUME req' = req, live' = live, before' = before, saved' = saved,
               \A d \in Delivery : stage'[d] = "rsync" => stage[d] = "rsync"
        PROVE  TornInv'
    BY <2>0, <2>1 DEF TornInv
  <2>2. ASSUME NEW d \in Delivery, AcquireLock(d) PROVE TornInv'
    <3>1. \A e \in Delivery :
             /\ before'[e] \in {before[e], TreeOf(e)}
             /\ stage'[e] = "rsync" => stage[e] = "rsync"
      BY <2>2 DEF AcquireLock
    <3>2. req' = req /\ live' = live /\ saved' = saved
      BY <2>2 DEF AcquireLock
    <3> QED
      BY <2>0, <3>1, <3>2, ZenonT(40) DEF TornInv
  <2>3. ASSUME NEW d \in Delivery, DryRun(d) PROVE TornInv'
    <3>1. \A e \in Delivery : stage'[e] = "rsync" =>
             stage[e] = "rsync" \/ (e = d /\ FALSE \in SnapshotChoices[ServiceOf(d)])
      <4>1. PICK n \in SnapshotName, enabled \in SnapshotChoices[ServiceOf(d)] :
               \/ stage' = [stage EXCEPT ![d] = "postflight"]
               \/ stage' = [stage EXCEPT ![d] = IF enabled THEN "snapshot" ELSE "rsync"]
        BY <2>3 DEF DryRun
      <4>2. SnapshotChoices[ServiceOf(d)] \subseteq BOOLEAN
        BY SnapshotChoicesAssumption
      <4>3. stage'[d] = "rsync" => enabled = FALSE
        BY <4>1, <4>2
      <4>4. \A e \in Delivery : e # d => stage'[e] = stage[e]
        BY <4>1
      <4> QED
        BY <4>3, <4>4
    <3>2. req' = req /\ live' = live /\ saved' = saved /\ before' = before
      BY <2>3 DEF DryRun
    <3> QED
      BY <2>0, <3>1, <3>2 DEF TornInv
  <2>4. ASSUME NEW d \in Delivery, Archive(d) PROVE TornInv'
    <3>1. \A e \in Delivery : stage'[e] = "rsync" /\ e # d => stage[e] = "rsync"
      BY <2>4 DEF Archive
    <3>2. req' = req /\ live' = live /\ before' = before
      BY <2>4 DEF Archive
    <3>3. saved' = [saved EXCEPT ![d] = name[d]] /\ name[d] # NoName
      BY <2>4 DEF Archive, StageDiscipline
    <3> QED
      BY <2>0, <3>1, <3>2, <3>3 DEF TornInv
  <2>5. ASSUME NEW d \in Delivery, RsyncProgress(d) \/ RsyncSucceeds(d) \/ RsyncFails(d)
        PROVE  TornInv'
    <3>1. /\ stage[d] = "rsync"
          /\ \A e \in Delivery : stage'[e] = "rsync" => stage[e] = "rsync"
          /\ req' = req /\ saved' = saved /\ before' = before
      BY <2>5 DEF RsyncProgress, RsyncSucceeds, RsyncFails
    <3>2. \A s \in Service : s # ServiceOf(d) => live'[s] = live[s]
      BY <2>5 DEF RsyncProgress, RsyncSucceeds, RsyncFails
    <3>3. SnapshotChoices[ServiceOf(d)] = {TRUE} => WholeTreeArchived(ServiceOf(d))
      <4>1. before[d] \in Tree
        BY <3>1 DEF StageDiscipline
      <4> QED
        BY <3>1, <4>1 DEF TornInv, WholeTreeArchived
    <3> QED
      BY <2>0, <3>1, <3>2, <3>3 DEF TornInv
  <2>6. CASE UNCHANGED vars
    BY <2>1, <2>6 DEF vars
  <2>7. ASSUME NEW d \in Delivery,
               \/ LockUnavailable(d) \/ LockBusy(d) \/ LockTimesOut(d) \/ Release(d)
               \/ CreateCheckout(d) \/ RefuseCheckout(d) \/ VerifyCheckout(d)
               \/ CheckoutFails(d) \/ Preflight(d) \/ Postflight(d)
               \/ GateRunnerFails(d) \/ RefuseSync(d) \/ CheckSnapshot(d)
               \/ ArchiveFails(d) \/ Crash(d)
        PROVE  TornInv'
    BY <2>1, <2>7 DEF LockUnavailable, LockBusy, LockTimesOut, Release, CreateCheckout,
         RefuseCheckout, VerifyCheckout, CheckoutFails, Preflight, Postflight,
         GateRunnerFails, RefuseSync, CheckSnapshot, ArchiveFails, Crash
  <2> QED
    BY <2>2, <2>3, <2>4, <2>5, <2>6, <2>7 DEF Next, Step
<1> QED
  BY <1>1, <1>2, TypeCorrect, StagesAreDisciplined, PTL DEF Spec

\* When no two services share a snapshot root, whoever finds a torn tree finds
\* a snapshot of a whole one, through any number of failed deliveries.
THEOREM TornTreeSafety ==
    ASSUME OwnSnapshotRoots PROVE Spec => []TornTreeIsRecoverable
<1>1. TornInv /\ SnapshotKeepsReplacedTree => TornTreeIsRecoverable
  BY DEF TornInv, WholeTreeArchived, SnapshotKeepsReplacedTree, TornTreeIsRecoverable
<1> QED
  BY <1>1, TornInvariant, SnapshotSafety, PTL

-----------------------------------------------------------------------------
(* The end of a call.  The stages of a call have an order, and no step goes *)
(* back in it.  The one step that stays where it is, a transfer of rsync,   *)
(* changes the tree, and then it is torn and stays so until rsync is done.  *)
Place ==
    [s \in Stage |->
        CASE s = "idle" -> 0 [] s = "waiting" -> 1 [] s = "locked" -> 2
          [] s = "fetching" -> 3 [] s = "preflight" -> 4 [] s = "sync" -> 5
          [] s = "snapshot" -> 6 [] s = "archive" -> 7 [] s = "rsync" -> 8
          [] s = "postflight" -> 9 [] s \in {"return", "raise"} -> 10
          [] OTHER -> 11]

Transferring(d) == stage[d] = "rsync" /\ TreeOf(d) = Torn(ServiceOf(d))

StepsLeft(d) == 2 * (11 - Place[stage[d]]) + (IF Transferring(d) THEN 0 ELSE 1)

CallStep(d) ==
    LockUnavailable(d) \/ AcquireLock(d) \/ LockBusy(d) \/ Step(d) \/ Crash(d)

EveryStepCounts ==
    [][\A d \in Delivery :
          /\ StepsLeft(d) \in 0 .. 23
          /\ StepsLeft(d)' <= StepsLeft(d)
          /\ CallStep(d) => StepsLeft(d)' < StepsLeft(d)]_vars

\* Every stage of a call (executor.py, execute_delivery) has a place.
LEMMA StagesHavePlaces == \A s \in Stage : Place[s] \in 0 .. 11
  BY SMTT(30) DEF Place, Stage, Protected, Unsynced, Ended

\* Every step of a call but a transfer of rsync goes to a later stage
\* (executor.py, lock.py, checkout.py, snapshot_sync.py: no loop but the
\* polling of the lock, nothing is tried again).
LEMMA StagesGoForward ==
    ASSUME TypeOK, NEW d \in Delivery, CallStep(d)
    PROVE  /\ RsyncProgress(d) \/ Place[stage'[d]] > Place[stage[d]]
           /\ stage'[d] \in Stage
           /\ \A e \in Delivery \ {d} : stage'[e] = stage[e]
           /\ req' = req
<1> USE DEF TypeOK, Stage, Protected, Unsynced, Ended, Goto, locals, files
<1>1. ASSUME NEW s \in Stage, stage' = [stage EXCEPT ![d] = s], req' = req,
             Place[s] > Place[stage[d]]
      PROVE  /\ Place[stage'[d]] > Place[stage[d]]
             /\ stage'[d] \in Stage
             /\ \A e \in Delivery \ {d} : stage'[e] = stage[e]
             /\ req' = req
  BY <1>1
<1>2. ASSUME LockUnavailable(d) \/ AcquireLock(d) \/ LockBusy(d) \/ LockTimesOut(d)
      PROVE  \E s \in Stage : /\ stage' = [stage EXCEPT ![d] = s] /\ req' = req
                              /\ Place[s] > Place[stage[d]]
  BY <1>2 DEF LockUnavailable, AcquireLock, LockBusy, LockTimesOut, Place
<1>3. ASSUME Release(d) \/ Crash(d)
      PROVE  \E s \in Stage : /\ stage' = [stage EXCEPT ![d] = s] /\ req' = req
                              /\ Place[s] > Place[stage[d]]
  BY <1>3 DEF Release, Crash, Place
<1>4. ASSUME CreateCheckout(d) \/ RefuseCheckout(d) \/ VerifyCheckout(d) \/ CheckoutFails(d)
      PROVE  \E s \in Stage : /\ stage' = [stage EXCEPT ![d] = s] /\ req' = req
                              /\ Place[s] > Place[stage[d]]
  BY <1>4 DEF CreateCheckout, RefuseCheckout, VerifyCheckout, CheckoutFails, Place
<1>5. ASSUME Preflight(d) \/ Postflight(d) \/ GateRunnerFails(d) \/ RefuseSync(d)
      PROVE  \E s \in Stage : /\ stage' = [stage EXCEPT ![d] = s] /\ req' = req
                              /\ Place[s] > Place[stage[d]]
  BY <1>5 DEF Preflight, Postflight, GateRunnerFails, RefuseSync, Place
<1>6. ASSUME DryRun(d) \/ CheckSnapshot(d)
      PROVE  \E s \in Stage : /\ stage' = [stage EXCEPT ![d] = s] /\ req' = req
                              /\ Place[s] > Place[stage[d]]
  <2>1. /\ req' = req
        /\ \/ /\ stage[d] = "sync"
              /\ \E s \in {"postflight", "snapshot", "rsync"} :
                    stage' = [stage EXCEPT ![d] = s]
           \/ /\ stage[d] = "snapshot"
              /\ \E s \in {"raise", "archive"} : stage' = [stage EXCEPT ![d] = s]
    BY <1>6 DEF DryRun, CheckSnapshot
  <2> QED
    BY <2>1 DEF Place
<1>7. ASSUME Archive(d) \/ ArchiveFails(d) \/ RsyncSucceeds(d) \/ RsyncFails(d)
      PROVE  \E s \in Stage : /\ stage' = [stage EXCEPT ![d] = s] /\ req' = req
                              /\ Place[s] > Place[stage[d]]
  BY <1>7 DEF Archive, ArchiveFails, RsyncSucceeds, RsyncFails, Place
<1>8. CASE RsyncProgress(d)
  BY <1>8 DEF RsyncProgress
<1> QED
  BY <1>1, <1>2, <1>3, <1>4, <1>5, <1>6, <1>7, <1>8 DEF CallStep, Step

\* Only rsync changes the tree of a service, and only under its lock, so a step
\* of one call leaves what another is about to do as it was (snapshot_sync.py).
LEMMA TransfersAreAlone ==
    ASSUME TypeOK, LockHeldExactlyInside, NEW d \in Delivery, CallStep(d),
           NEW e \in Delivery, e # d
    PROVE  StepsLeft(e)' = StepsLeft(e)
<1>1. stage'[e] = stage[e] /\ req' = req
  BY StagesGoForward
<1>2. CASE stage[e] = "rsync"
  <2>1. lock[ServiceOf(e)] = e
    BY <1>2 DEF LockHeldExactlyInside, Protected
  <2>2. CASE live' = live
    BY <1>1, <2>2 DEF StepsLeft, Transferring, TreeOf, ServiceOf
  <2>3. CASE live' # live
    <3>1. /\ stage[d] = "rsync"
          /\ \E t : live' = [live EXCEPT ![ServiceOf(d)] = t]
      BY <2>3 DEF CallStep, Step, LockUnavailable, AcquireLock, LockBusy, LockTimesOut,
           Release, CreateCheckout, RefuseCheckout, VerifyCheckout, CheckoutFails,
           Preflight, Postflight, GateRunnerFails, RefuseSync, DryRun, CheckSnapshot,
           Archive, ArchiveFails, RsyncProgress, RsyncSucceeds, RsyncFails, Crash, files
    <3>2. ServiceOf(d) # ServiceOf(e)
      BY <2>1, <3>1 DEF LockHeldExactlyInside, Protected
    <3>3. live'[ServiceOf(e)] = live[ServiceOf(e)]
      BY <3>1, <3>2 DEF TypeOK, ServiceOf
    <3> QED
      BY <1>1, <3>3 DEF StepsLeft, Transferring, TreeOf, ServiceOf
  <2> QED
    BY <2>2, <2>3
<1>3. CASE stage[e] # "rsync"
  BY <1>1, <1>3 DEF StepsLeft, Transferring
<1> QED
  BY <1>2, <1>3

\* Every step of a call leaves it fewer, a transfer of rsync too: it can only
\* tear a tree that is not torn yet (snapshot_sync.py, synchronize).
LEMMA StepsCount ==
    ASSUME TypeOK, NEW d \in Delivery, CallStep(d), vars' # vars
    PROVE  StepsLeft(d)' \in Int /\ StepsLeft(d)' < StepsLeft(d)
<1>0. Place[stage[d]] \in 0 .. 11
  <2>1. stage[d] \in Stage
    BY DEF TypeOK
  <2> QED
    BY <2>1, StagesHavePlaces
<1>1. CASE RsyncProgress(d)
  <2>1. /\ stage[d] = "rsync" /\ stage' = stage /\ req' = req
        /\ live' = [live EXCEPT ![ServiceOf(d)] = Torn(ServiceOf(d))]
        /\ live' # live
    BY <1>1 DEF RsyncProgress, vars, files
  <2>2. Transferring(d)'
    BY <2>1 DEF Transferring, TreeOf, ServiceOf, Torn, TypeOK
  <2>3. ~ Transferring(d)
    BY <2>1 DEF Transferring, TreeOf, TypeOK
  <2>4. StepsLeft(d) = 2 * (11 - Place[stage[d]]) + 1
    BY <2>3 DEF StepsLeft
  <2>5. StepsLeft(d)' = 2 * (11 - Place[stage[d]]) + 0
    BY <2>1, <2>2 DEF StepsLeft
  <2> QED
    BY <1>0, <2>4, <2>5
<1>2. CASE ~ RsyncProgress(d)
  <2>1. Place[stage'[d]] \in 0 .. 11 /\ Place[stage'[d]] > Place[stage[d]]
    BY <1>2, StagesGoForward, StagesHavePlaces
  <2>2. PICK a \in {0, 1} : StepsLeft(d) = 2 * (11 - Place[stage[d]]) + a
    BY DEF StepsLeft
  <2>3. PICK b \in {0, 1} : StepsLeft(d)' = 2 * (11 - Place[stage'[d]]) + b
    BY DEF StepsLeft
  <2>4. StepsLeft(d)' \in Int
    BY <2>1, <2>3
  <2>5. 2 * (11 - Place[stage'[d]]) + b < 2 * (11 - Place[stage[d]]) + a
    BY <1>0, <2>1
  <2> QED
    BY <2>2, <2>3, <2>4, <2>5
<1> QED
  BY <1>1, <1>2

\* A call makes at most 23 steps, whatever fails, and no step of another call
\* takes it back: neither the wait for the lock nor a failure repeats anything
\* (lock.py, service_lock; executor.py, execute_delivery).
THEOREM CallsAreBounded == Spec => EveryStepCounts
<1>1. TypeOK /\ LockHeldExactlyInside /\ [Next]_vars
      => [\A d \in Delivery :
            /\ StepsLeft(d) \in 0 .. 23
            /\ StepsLeft(d)' <= StepsLeft(d)
            /\ CallStep(d) => StepsLeft(d)' < StepsLeft(d)]_vars
  <2> SUFFICES ASSUME TypeOK, LockHeldExactlyInside, Next, vars' # vars,
                      NEW d \in Delivery
               PROVE  /\ StepsLeft(d) \in 0 .. 23
                      /\ StepsLeft(d)' <= StepsLeft(d)
                      /\ CallStep(d) => StepsLeft(d)' < StepsLeft(d)
    OBVIOUS
  <2>1. StepsLeft(d) \in 0 .. 23
    <3>1. stage[d] \in Stage
      BY DEF TypeOK
    <3>2. Place[stage[d]] \in 0 .. 11
      BY <3>1, StagesHavePlaces
    <3> QED
      BY <3>2 DEF StepsLeft
  <2>2. PICK e \in Delivery : CallStep(e)
    BY DEF Next, CallStep
  <2>3. CallStep(d) => StepsLeft(d)' \in Int /\ StepsLeft(d)' < StepsLeft(d)
    BY StepsCount
  <2>4. CASE e = d
    BY <2>1, <2>2, <2>3, <2>4
  <2>5. CASE e # d
    BY <2>1, <2>2, <2>3, <2>5, TransfersAreAlone
  <2> QED
    BY <2>4, <2>5
<1> QED
  BY <1>1, TypeCorrect, LockSafety, PTL DEF Spec, EveryStepCounts

-----------------------------------------------------------------------------
(* The refinement.  A step of a call changes no other call's outcome, so   *)
(* the abstract verdicts change at one place at most.                      *)
Verdicts == [d \in Delivery |-> Outcome(d)]

\* A step of deliver for d changes no other call's verdict.
LEMMA OneVerdictChanges ==
    ASSUME NEW d \in Delivery,
           \A e \in Delivery : e # d =>
              stage'[e] = stage[e] /\ pre'[e] = pre[e] /\ post'[e] = post[e]
    PROVE  Verdicts' = [Verdicts EXCEPT ![d] = Outcome(d)']
<1>1. ASSUME NEW e \in Delivery, e # d PROVE Outcome(e)' = Outcome(e)
  BY <1>1 DEF Outcome, Ready
<1> QED
  BY <1>1 DEF Verdicts

\* Every run of the executor is a run of ServiceDeployment.
THEOREM ExecutorImplementsPromise == Spec => ImplementsPromise
<1> DEFINE Inv == /\ TypeOK /\ LockHeldExactlyInside
                  /\ StageDiscipline /\ ReadyMeansDeployed
<1>1. Init => Promise!Init
  <2>1. Init => \A d \in Delivery : Outcome(d) = "pending"
    BY DEF Init, Outcome, Protected, Unsynced
  <2> QED
    BY <2>1 DEF Init, Promise!Init
<1>2. Inv /\ [Next]_vars => [Promise!Next]_(Promise!dvars)
  <2> SUFFICES ASSUME Inv, [Next]_vars
               PROVE  [Promise!Next]_(Promise!dvars)
    OBVIOUS
  <2> USE DEF TypeOK, Protected, Unsynced, Ended, Stage, ServiceOf, Goto
  <2>1. CASE UNCHANGED vars
    <3>1. Verdicts' = Verdicts
      BY <2>1 DEF vars, locals, Verdicts, Outcome, Ready
    <3> QED
      BY <2>1, <3>1 DEF vars, files, Promise!dvars, Verdicts
  <2>2. ASSUME NEW d \in Delivery,
               LockUnavailable(d) \/ LockTimesOut(d) \/ (Crash(d) /\ stage[d] = "waiting")
        PROVE  Promise!GiveUp(d)
    <3>1. Verdicts' = [Verdicts EXCEPT ![d] = Outcome(d)']
      BY <2>2, OneVerdictChanges DEF LockUnavailable, LockTimesOut, Crash, locals
    <3>2. Outcome(d) = "pending" /\ Outcome(d)' = "failed"
      BY <2>2 DEF LockUnavailable, LockTimesOut, Crash, Outcome
    <3>3. req' = req /\ live' = live
      BY <2>2 DEF LockUnavailable, LockTimesOut, Crash, files
    <3>4. lock' = lock
      BY <2>2, ZenonT(40) DEF LockUnavailable, LockTimesOut, Crash, files, LockHeldExactlyInside
    <3> QED
      BY <3>1, <3>2, <3>3, <3>4 DEF Promise!GiveUp, Verdicts
  <2>3. ASSUME NEW d \in Delivery, AcquireLock(d)
        PROVE  Promise!Begin(d)
    <3>1. Verdicts' = [Verdicts EXCEPT ![d] = Outcome(d)']
      BY <2>3, OneVerdictChanges DEF AcquireLock, locals
    <3>2. Outcome(d) = "pending" /\ Outcome(d)' = "open"
      BY <2>3 DEF AcquireLock, Outcome, StageDiscipline, locals
    <3> QED
      BY <2>3, <3>1, <3>2 DEF AcquireLock, Promise!Begin, Promise!Svc, Verdicts
  <2>4. ASSUME NEW d \in Delivery, Release(d) \/ (Crash(d) /\ stage[d] # "waiting")
        PROVE  Promise!End(d)
    <3>1. Verdicts' = [Verdicts EXCEPT ![d] = Outcome(d)']
      BY <2>4, OneVerdictChanges DEF Release, Crash, locals
    <3>2. lock[ServiceOf(d)] = d /\ stage[d] \in Protected
      BY <2>4 DEF Release, Crash, LockHeldExactlyInside
    <3>3. /\ Outcome(d)' \in {"ready", "notready", "failed"}
          /\ Outcome(d)' = "ready" => stage[d] = "return" /\ Ready(d)
      BY <2>4 DEF Release, Crash, Outcome, Ready, locals
    <3>4. Outcome(d)' = "ready" => Outcome(d) = "approved" /\ TreeOf(d) = Candidate(d)
      BY <3>3 DEF Outcome, Ready, ReadyMeansDeployed
    <3>5. /\ lock' = [lock EXCEPT ![ServiceOf(d)] = NoOne]
          /\ req' = req /\ live' = live
      BY <2>4, <3>2 DEF Release, Crash
    <3> QED
      BY <3>1, <3>2, <3>3, <3>4, <3>5
         DEF Promise!End, Promise!Svc, Promise!Wanted, Verdicts, TreeOf, Candidate
  <2>5. ASSUME NEW d \in Delivery, Preflight(d), pre'[d] = "passed"
        PROVE  Promise!Approve(d)
    <3>1. Verdicts' = [Verdicts EXCEPT ![d] = Outcome(d)']
      BY <2>5, OneVerdictChanges DEF Preflight
    <3>2. Outcome(d) = "open" /\ Outcome(d)' = "approved"
      BY <2>5 DEF Preflight, Outcome, StageDiscipline, GateVerdict
    <3> QED
      BY <2>5, <3>1, <3>2 DEF Preflight, files, Promise!Approve, Verdicts
  <2>6. ASSUME NEW d \in Delivery, RsyncProgress(d) \/ RsyncSucceeds(d) \/ RsyncFails(d)
        PROVE  Promise!Change(d) \/ UNCHANGED Promise!dvars
    <3>1. Verdicts' = [Verdicts EXCEPT ![d] = Outcome(d)']
      BY <2>6, OneVerdictChanges DEF RsyncProgress, RsyncSucceeds, RsyncFails, locals
    <3>2. Outcome(d) = "approved" /\ Outcome(d)' = "approved"
      BY <2>6 DEF RsyncProgress, RsyncSucceeds, RsyncFails, Outcome, StageDiscipline, locals
    <3>3. Verdicts' = Verdicts
      BY <3>1, <3>2 DEF Verdicts
    <3>4. lock[ServiceOf(d)] = d /\ lock' = lock /\ req' = req
      BY <2>6 DEF RsyncProgress, RsyncSucceeds, RsyncFails, LockHeldExactlyInside
    <3>5. \E t \in {TreeOf(d), Torn(ServiceOf(d)), Candidate(d)} :
             live' = [live EXCEPT ![ServiceOf(d)] = t]
      BY <2>6 DEF RsyncProgress, RsyncSucceeds, RsyncFails
    <3>6. CASE live' = live
      BY <3>3, <3>4, <3>6 DEF Promise!dvars, Verdicts
    <3>7. CASE live' # live
      <4>0. [live EXCEPT ![ServiceOf(d)] = TreeOf(d)] = live
        BY DEF TreeOf
      <4>1. PICK t \in {Torn(ServiceOf(d)), Candidate(d)} :
               live' = [live EXCEPT ![ServiceOf(d)] = t]
        BY <3>5, <3>7, <4>0
      <4>2. t \in Tree /\ t.service = ServiceOf(d)
        BY <4>1 DEF Tree, Torn, Candidate
      <4> QED
        BY <3>2, <3>3, <3>4, <4>1, <4>2 DEF Promise!Change, Promise!Svc, Verdicts
    <3> QED
      BY <3>6, <3>7
  <2>7. ASSUME NEW d \in Delivery,
               \/ LockBusy(d) \/ CreateCheckout(d) \/ RefuseCheckout(d)
               \/ VerifyCheckout(d) \/ CheckoutFails(d)
               \/ (Preflight(d) /\ pre'[d] # "passed")
        PROVE  UNCHANGED Promise!dvars
    <3>1. Verdicts' = [Verdicts EXCEPT ![d] = Outcome(d)']
      BY <2>7, OneVerdictChanges
         DEF LockBusy, CreateCheckout, RefuseCheckout, VerifyCheckout, CheckoutFails,
             Preflight, locals
    <3>2. Outcome(d)' = Outcome(d)
      BY <2>7
         DEF LockBusy, CreateCheckout, RefuseCheckout, VerifyCheckout, CheckoutFails,
             Preflight, locals, Outcome, StageDiscipline
    <3>3. lock' = lock /\ req' = req /\ live' = live
      BY <2>7
         DEF LockBusy, CreateCheckout, RefuseCheckout, VerifyCheckout, CheckoutFails,
             Preflight, files
    <3> QED
      BY <3>1, <3>2, <3>3 DEF Promise!dvars, Verdicts
  <2>8. ASSUME NEW d \in Delivery,
               \/ Postflight(d) \/ GateRunnerFails(d) \/ RefuseSync(d) \/ DryRun(d)
               \/ CheckSnapshot(d) \/ Archive(d) \/ ArchiveFails(d)
        PROVE  UNCHANGED Promise!dvars
    <3>1. Verdicts' = [Verdicts EXCEPT ![d] = Outcome(d)']
      BY <2>8, OneVerdictChanges
         DEF Postflight, GateRunnerFails, RefuseSync, DryRun, CheckSnapshot, Archive,
             ArchiveFails, locals
    <3>2. Outcome(d)' = Outcome(d)
      BY <2>8
         DEF Postflight, GateRunnerFails, RefuseSync, DryRun, CheckSnapshot, Archive,
             ArchiveFails, locals, Outcome, StageDiscipline
    <3>3. lock' = lock /\ req' = req /\ live' = live
      BY <2>8
         DEF Postflight, GateRunnerFails, RefuseSync, DryRun, CheckSnapshot, Archive,
             ArchiveFails, files
    <3> QED
      BY <3>1, <3>2, <3>3 DEF Promise!dvars, Verdicts
  <2> QED
    BY <2>1, <2>2, <2>3, <2>4, <2>5, <2>6, <2>7, <2>8 DEF Next, Step, Promise!Next
<1> QED
  BY <1>1, <1>2, TypeCorrect, LockSafety, StagesAreDisciplined, ReadySafety, PTL
     DEF Spec, ImplementsPromise, Promise!Spec

-----------------------------------------------------------------------------
(* The manifests and the rollback plan.                                    *)

(* Every manifest on the host tells of a call that has returned, exactly   *)
(* what that call's result says; only such calls have a manifest in hand.  *)
ManifestsAreResults ==
    /\ \A p \in Path : manifests[p] # NoManifest =>
          \E d \in Delivery : stage[d] = "returned" /\ manifests[p] = ManifestOf(d)
    /\ \A d \in Delivery : target[d] # NoPath => stage[d] = "returned"

\* A call that has returned takes no further step: its result is final.
LEMMA ResultsAreFinal ==
    ASSUME TypeOK, StageDiscipline, [Next]_vars, NEW d \in Delivery, stage[d] = "returned"
    PROVE  /\ stage'[d] = "returned"
           /\ ManifestOf(d)' = ManifestOf(d)
<1> USE DEF TypeOK, Stage, Protected, Unsynced, Ended, Goto, locals, ManifestOf,
            ServiceOf, Ready
<1>1. CASE UNCHANGED vars
  BY <1>1 DEF vars
<1>2. ASSUME NEW e \in Delivery,
             LockUnavailable(e) \/ AcquireLock(e) \/ LockBusy(e) \/ Step(e) \/ Crash(e)
      PROVE  /\ e # d
             /\ \A x \in Delivery : x # e =>
                   stage'[x] = stage[x] /\ pre'[x] = pre[x] /\ post'[x] = post[x]
                   /\ saved'[x] = saved[x] /\ synced'[x] = synced[x]
             /\ req' = req
  BY <1>2 DEF Step, LockUnavailable, AcquireLock, LockBusy, LockTimesOut, Release,
       CreateCheckout, RefuseCheckout, VerifyCheckout, CheckoutFails, Preflight,
       Postflight, GateRunnerFails, RefuseSync, DryRun, CheckSnapshot, Archive,
       ArchiveFails, RsyncProgress, RsyncSucceeds, RsyncFails, Crash
<1> QED
  BY <1>1, <1>2 DEF Next

\* Writing manifests and planning rollbacks (manifest.py, rollback.py) changes
\* nothing of the executor's own state.
LEMMA RecordRefinesDelivery == RSpec => Spec
<1>1. RInit => Init
  BY DEF RInit
<1>2. [RNext]_rvars => [Next]_vars
  BY DEF RNext, rvars, CheckManifestPath, ReplaceManifest, ManifestWriteFails
<1> QED
  BY <1>1, <1>2, PTL DEF RSpec, Spec

\* Manifests, the paths of their writers and plans stay within their types.
LEMMA RecordTypeCorrect == RSpec => []RTypeOK
<1> DEFINE Rest == /\ manifests \in [Path -> Manifest \cup {NoManifest}]
                   /\ target \in [Delivery -> Path \cup {NoPath}]
<1>1. RInit => Rest
  BY DEF RInit
<1>2. TypeOK /\ Rest /\ [RNext]_rvars => Rest'
  <2> SUFFICES ASSUME TypeOK, Rest, [RNext]_rvars PROVE Rest'
    OBVIOUS
  <2>1. ASSUME NEW d \in Delivery, CheckManifestPath(d) PROVE Rest'
    BY <2>1, PathsAssumption DEF CheckManifestPath
  <2>2. ASSUME NEW d \in Delivery, ReplaceManifest(d) PROVE Rest'
    <3>1. ManifestOf(d) \in Manifest
      BY DEF TypeOK, ManifestOf, Manifest, ServiceOf, Ready
    <3> QED
      BY <2>2, <3>1 DEF ReplaceManifest
  <2>3. ASSUME NEW d \in Delivery, ManifestWriteFails(d) PROVE Rest'
    BY <2>3 DEF ManifestWriteFails
  <2> QED
    BY <2>1, <2>2, <2>3 DEF RNext, rvars
<1> QED
  BY <1>1, <1>2, RecordRefinesDelivery, TypeCorrect, PTL DEF RSpec, RTypeOK

\* Every manifest on disk is the result of a call that has returned: it is
\* written from that call's DeliveryResult (manifest.py, write).
LEMMA ManifestsAreResultsInvariant == RSpec => []ManifestsAreResults
<1>1. RInit => ManifestsAreResults
  BY DEF RInit, ManifestsAreResults
<1>2. /\ RTypeOK /\ StageDiscipline /\ ManifestsAreResults /\ [RNext]_rvars
      => ManifestsAreResults'
  <2> SUFFICES ASSUME RTypeOK, StageDiscipline, ManifestsAreResults, [RNext]_rvars
               PROVE  ManifestsAreResults'
    OBVIOUS
  <2>1. \A d \in Delivery : stage[d] = "returned" =>
           stage'[d] = "returned" /\ ManifestOf(d)' = ManifestOf(d)
    <3>1. [Next]_vars
      BY DEF RNext, rvars, CheckManifestPath, ReplaceManifest, ManifestWriteFails
    <3> QED
      BY <3>1, ResultsAreFinal DEF RTypeOK
  <2>2. CASE UNCHANGED <<manifests, target>>
    BY <2>1, <2>2 DEF ManifestsAreResults
  <2>3. ASSUME NEW d \in Delivery, CheckManifestPath(d) PROVE ManifestsAreResults'
    BY <2>1, <2>3 DEF ManifestsAreResults, CheckManifestPath, RTypeOK
  <2>4. ASSUME NEW d \in Delivery, ReplaceManifest(d) PROVE ManifestsAreResults'
    <3>1. /\ stage[d] = "returned" /\ target[d] \in Path
          /\ manifests' = [manifests EXCEPT ![target[d]] = ManifestOf(d)]
          /\ target' = [target EXCEPT ![d] = NoPath]
      BY <2>4 DEF ManifestsAreResults, ReplaceManifest, RTypeOK
    <3>2. ASSUME NEW p \in Path, manifests'[p] # NoManifest
          PROVE  \E e \in Delivery : stage'[e] = "returned" /\ manifests'[p] = ManifestOf(e)'
      <4>1. CASE p = target[d]
        BY <2>1, <3>1, <4>1 DEF RTypeOK
      <4>2. CASE p # target[d]
        <5>1. PICK e \in Delivery : stage[e] = "returned" /\ manifests[p] = ManifestOf(e)
          BY <3>1, <3>2, <4>2 DEF ManifestsAreResults, RTypeOK
        <5> QED
          BY <2>1, <3>1, <4>2, <5>1 DEF RTypeOK
      <4> QED
        BY <4>1, <4>2
    <3>3. \A e \in Delivery : target'[e] # NoPath => stage'[e] = "returned"
      BY <2>1, <3>1 DEF ManifestsAreResults, RTypeOK
    <3> QED
      BY <3>2, <3>3 DEF ManifestsAreResults
  <2>5. ASSUME NEW d \in Delivery, ManifestWriteFails(d) PROVE ManifestsAreResults'
    BY <2>1, <2>5 DEF ManifestsAreResults, ManifestWriteFails, RTypeOK
  <2> QED
    BY <2>2, <2>3, <2>4, <2>5 DEF RNext, rvars
<1> QED
  BY <1>1, <1>2, RecordRefinesDelivery, RecordTypeCorrect, StagesAreDisciplined, PTL
     DEF RSpec

\* When no two services share a snapshot root, a granted rollback plan points
\* at the tree that the ready delivery of the confirmed SHA replaced.
THEOREM RollbackSafety ==
    ASSUME OwnSnapshotRoots PROVE RSpec => []PlanRestoresReplacedTree
<1>1. RTypeOK /\ ManifestsAreResults /\ SnapshotKeepsReplacedTree
      => PlanRestoresReplacedTree
  <2> SUFFICES ASSUME RTypeOK, ManifestsAreResults, SnapshotKeepsReplacedTree,
                      NEW p \in Path, NEW s \in Service, NEW h \in Sha,
                      PlanGranted(p, s, h)
               PROVE  \E d \in Delivery :
                          /\ req[d] = [service |-> s, sha |-> h]
                          /\ stage[d] = "returned"
                          /\ Ready(d)
                          /\ PlannedTree(manifests[p]) = before[d]
    BY DEF PlanRestoresReplacedTree
  <2>1. PICK d \in Delivery : stage[d] = "returned" /\ manifests[p] = ManifestOf(d)
    BY DEF PlanGranted, Approved, ManifestsAreResults
  <2>2. /\ ServiceOf(d) = s /\ req[d].sha = h /\ Ready(d) /\ saved[d] # NoName
        /\ manifests[p].snapshot = saved[d]
    BY <2>1 DEF PlanGranted, Approved, ManifestOf
  <2>3. req[d] = [service |-> s, sha |-> h]
    BY <2>2 DEF RTypeOK, TypeOK, ServiceOf
  <2>4. PlannedTree(manifests[p]) = before[d]
    BY <2>1, <2>2 DEF PlannedTree, PlanGranted, RootOf, SnapshotKeepsReplacedTree
  <2> QED
    BY <2>1, <2>2, <2>3, <2>4
<1> QED
  BY <1>1, RecordRefinesDelivery, RecordTypeCorrect, ManifestsAreResultsInvariant,
     SnapshotSafety, PTL
-----------------------------------------------------------------------------
(* A manifest is final if its writer alone has the path.                   *)

\* No two calls are recorded under one path.
OwnManifestPaths ==
    \A d, e \in Delivery : d # e => PathChoices[d] \cap PathChoices[e] = {}

(* The path that a writer has found free is one of its own, and still free. *)
PathsStayFree ==
    \A d \in Delivery : target[d] # NoPath =>
        target[d] \in PathChoices[d] /\ manifests[target[d]] = NoManifest

\* When every adapter chooses paths of its own, a recorded manifest is final:
\* the window between the check of the path and os.replace (manifest.py,
\* _manifest_path and _write_atomic) is open to writers of the same path only,
\* the one of a retry included, since it begins after the first has ended.
THEOREM ManifestsAreFinal ==
    ASSUME OwnManifestPaths PROVE RSpec => ManifestIsImmutable
<1> DEFINE Final == \A p \in Path : manifests[p] # NoManifest => manifests'[p] = manifests[p]
<1>1. RInit => PathsStayFree
  BY DEF RInit, PathsStayFree
<1>2. RTypeOK /\ PathsStayFree /\ [RNext]_rvars => PathsStayFree' /\ [Final]_rvars
  <2> SUFFICES ASSUME RTypeOK, PathsStayFree, [RNext]_rvars
               PROVE  PathsStayFree' /\ Final
    OBVIOUS
  <2>1. CASE UNCHANGED <<manifests, target>>
    BY <2>1 DEF PathsStayFree
  <2>2. ASSUME NEW d \in Delivery, CheckManifestPath(d)
        PROVE  PathsStayFree' /\ Final
    BY <2>2, PathsAssumption DEF CheckManifestPath, PathsStayFree, RTypeOK
  <2>3. ASSUME NEW d \in Delivery, ReplaceManifest(d)
        PROVE  PathsStayFree' /\ Final
    <3>1. target[d] \in Path /\ target[d] \in PathChoices[d] /\ manifests[target[d]] = NoManifest
      BY <2>3 DEF ReplaceManifest, PathsStayFree, RTypeOK
    <3>2. Final
      BY <2>3, <3>1 DEF ReplaceManifest, RTypeOK
    <3>3. ASSUME NEW e \in Delivery, target'[e] # NoPath
          PROVE  target'[e] \in PathChoices[e] /\ manifests'[target'[e]] = NoManifest
      <4>1. e # d /\ target'[e] = target[e]
        BY <2>3, <3>3 DEF ReplaceManifest, RTypeOK
      <4>2. target[e] \in PathChoices[e] /\ manifests[target[e]] = NoManifest
        BY <3>3, <4>1 DEF PathsStayFree
      <4>3. target[e] # target[d] /\ target[e] \in Path
        BY <3>1, <3>3, <4>1, <4>2 DEF OwnManifestPaths, RTypeOK
      <4> QED
        BY <2>3, <4>1, <4>2, <4>3 DEF ReplaceManifest, RTypeOK
    <3> QED
      BY <3>2, <3>3 DEF PathsStayFree
  <2>4. ASSUME NEW d \in Delivery, ManifestWriteFails(d)
        PROVE  PathsStayFree' /\ Final
    BY <2>4 DEF ManifestWriteFails, PathsStayFree, RTypeOK
  <2> QED
    BY <2>1, <2>2, <2>3, <2>4 DEF RNext, rvars
<1> QED
  BY <1>1, <1>2, RecordTypeCorrect, PTL DEF RSpec, ManifestIsImmutable
=============================================================================
