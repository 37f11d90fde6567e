-------------------------- MODULE VpsDeploy_proofs --------------------------
(* The safety theorems of VpsDeploy, for every set of jobs, images,        *)
(* volumes and probes, and both settings of the security policy.           *)
EXTENDS VpsDeploy, SequenceTheorems, TLAPS

Archives == Seq([tree : Tree, whole : BOOLEAN])

-----------------------------------------------------------------------------
(* Types.                                                                  *)

\* What a job starts from, and what it keeps for its final steps, is a run.
LEMMA RunTypes ==
    /\ Blank \in Run
    /\ \A r \in Run, ok \in BOOLEAN : Closed(r, ok) \in Run
<1>1. NotRun \in Gate /\ NoContract \in Contract /\ Whole(Host) \in Tree
  BY DEF NotRun, Gate, Class, NoContract, Contract, Whole, Tree, Owner
<1>2. Absent \in Id
  BY DEF Absent, Id, Owner
<1>3. Blank \in Run
  BY <1>1, <1>2 DEF Blank, Run, Mode
<1>4. ASSUME NEW r \in Run, NEW ok \in BOOLEAN PROVE Closed(r, ok) \in Run
  <2>1. r.before \in Tree /\ r.snapshot \in BOOLEAN
    BY DEF Run
  <2> HIDE DEF Blank
  <2> QED
    BY <1>3, <2>1 DEF Closed, Run
<1> QED
  BY <1>3, <1>4

\* The images that a step provides are image IDs.
LEMMA ProvidedTypes ==
    ASSUME TypeOK, NEW S \in SUBSET Image, NEW j \in Job, NEW n \in 0 .. 2, Provided(S, <<j, n>>)
    PROVE  tag' \in [Image -> Id]
<1>1. <<j, n>> \in Id
  BY DEF Id, Owner
<1>2. {tag[i] : i \in Image} \cup {<<j, n>>} \subseteq Id
  BY <1>1 DEF TypeOK
<1> HIDE DEF Id
<1> QED
  BY <1>2 DEF Provided

\* Building, pulling and the rebuild provide image IDs.
LEMMA ImageSteps ==
    ASSUME TypeOK, NEW j \in Job,
           Prepare(j) \/ Build(j) \/ Pull(j) \/ Rebuild(j) \/ Rediscover(j)
    PROVE  tag' \in [Image -> Id]
<1> USE ParametersAssumption
<1>0. /\ Image \in SUBSET Image /\ Buildable \in SUBSET Image
      /\ Image \ Buildable \in SUBSET Image /\ 1 \in 0 .. 2 /\ 2 \in 0 .. 2
  OBVIOUS
<1>1. \/ \E S \in SUBSET Image, n \in 0 .. 2 : Provided(S, <<j, n>>)
      \/ UNCHANGED tag
  BY <1>0 DEF Prepare, Build, Pull, Rebuild, Rediscover
<1>2. CASE UNCHANGED tag
  BY <1>2 DEF TypeOK
<1>3. CASE \E S \in SUBSET Image, n \in 0 .. 2 : Provided(S, <<j, n>>)
  BY <1>3, ProvidedTypes
<1> QED
  BY <1>1, <1>2, <1>3

\* The archive that is finished, and what the limits leave, are archives.
LEMMA ArchiveTypes ==
    ASSUME NEW s \in Archives
    PROVE  /\ [s EXCEPT ![Len(s)] = [@ EXCEPT !.whole = TRUE]] \in Archives
           /\ \A n \in 1 .. Len(s) : SubSeq(s, n, Len(s)) \in Archives
           /\ SubSeq(s, 1, Len(s) - 1) \in Archives
<1> DEFINE Archive == [tree : Tree, whole : BOOLEAN]
<1>1. Len(s) \in Nat /\ s \in [1 .. Len(s) -> Archive] /\ DOMAIN s = 1 .. Len(s)
  BY LenProperties DEF Archives
<1>2. \A a \in Archive : [a EXCEPT !.whole = TRUE] \in Archive
  OBVIOUS
<1> HIDE DEF Archive
<1>3. [s EXCEPT ![Len(s)] = [@ EXCEPT !.whole = TRUE]] \in Archives
  <2>1. CASE Len(s) \in 1 .. Len(s)
    BY <1>1, <1>2, <2>1, ExceptSeq DEF Archives, Archive
  <2>2. CASE Len(s) \notin 1 .. Len(s)
    BY <1>1, <2>2
  <2> QED
    BY <2>1, <2>2
<1>4. \A n \in 1 .. Len(s) : SubSeq(s, n, Len(s)) \in Archives
  <2> TAKE n \in 1 .. Len(s)
  <2>1. \A i \in n .. Len(s) : s[i] \in Archive
    BY <1>1
  <2> QED
    BY <1>1, <2>1, SubSeqProperties DEF Archives, Archive
<1>5. SubSeq(s, 1, Len(s) - 1) \in Archives
  <2>1. \A i \in 1 .. Len(s) - 1 : s[i] \in Archive
    BY <1>1
  <2> QED
    BY <1>1, <2>1, SubSeqProperties DEF Archives, Archive
<1> QED
  BY <1>3, <1>4, <1>5

\* Each output that a step writes keeps the job's record a run.
LEMMA RunUpdates ==
    ASSUME NEW r \in Run
    PROVE  /\ \A b \in BOOLEAN :
                 /\ [r EXCEPT !.ok = b] \in Run /\ [r EXCEPT !.keeps = b] \in Run
                 /\ [r EXCEPT !.snapshot = b] \in Run
           /\ \A t \in Tree, b \in BOOLEAN : [r EXCEPT !.before = t, !.snapshots = b] \in Run
           /\ \A c \in Contract, m \in SUBSET Volume :
                 [r EXCEPT !.contract = c, !.missing = m] \in Run
           /\ \A m \in SUBSET Volume, c \in Contract :
                 [r EXCEPT !.missing = m, !.contract = c] \in Run
           /\ \A m \in SUBSET Volume : [r EXCEPT !.missing = m] \in Run
           /\ \A i \in [Image -> Id] : [r EXCEPT !.images = i] \in Run
           /\ \A s \in SUBSET Id : [r EXCEPT !.refs = s] \in Run /\ [r EXCEPT !.newRefs = s] \in Run
           /\ \A g \in Gate : [r EXCEPT !.gate = g] \in Run /\ [r EXCEPT !.newGate = g] \in Run
           /\ \A b \in {"skipped", "success", "failure"} : [r EXCEPT !.rebuild = b] \in Run
  BY DEF Run

\* The first state has its types.
LEMMA TypesAtFirst == Init => TypeOK
<1> USE ParametersAssumption, RunTypes
<1> QED
  BY EmptySeq DEF Init, TypeOK, Stage, Whole, Tree, Owner, Id, Absent, Initial

\* The stages and the outputs of each job, the deploy path, the images, the
\* snapshots and the manifests stay within their types.
LEMMA TypesStay == ASSUME TypeOK, [Next]_vars PROVE TypeOK'
<1> USE ParametersAssumption, RunTypes
<1> USE DEF TypeOK, Goto, Stage, Active, Work, Before, Always, Ended, host
<1>1. CASE UNCHANGED vars
  BY <1>1 DEF vars
<1>2. ASSUME NEW j \in Job, Arrive(j) PROVE TypeOK'
  <2>1. PICK mode \in Mode, snapshots \in BOOLEAN, keeps \in BOOLEAN :
           run' = [k \in Job |->
                  IF k = j THEN [Blank EXCEPT !.mode = mode, !.snapshots = snapshots,
                                              !.keeps = keeps]
                  ELSE IF stage[k] = "pending" THEN Blank ELSE run[k]]
    BY <1>2 DEF Arrive
  <2>2. [Blank EXCEPT !.mode = mode, !.snapshots = snapshots, !.keeps = keeps] \in Run
    BY DEF Run
  <2>3. run' \in [Job -> Run]
    BY <2>1, <2>2
  <2> QED
    BY <1>2, <2>3 DEF Arrive
<1>3. ASSUME NEW j \in Job, Begin(j) PROVE TypeOK'
  BY <1>3 DEF Begin
<1>4. ASSUME NEW j \in Job, Prepare(j) PROVE TypeOK'
  <2>1. tag' \in [Image -> Id]
    BY <1>4, ImageSteps
  <2>2. override' \in Owner
    BY <1>4 DEF Prepare, Owner
  <2> QED
    BY <1>4, <2>1, <2>2 DEF Prepare
<1>5. ASSUME NEW j \in Job, FilesystemGate(j) PROVE TypeOK'
  BY <1>5 DEF FilesystemGate
<1>6. ASSUME NEW j \in Job, DryRun(j) PROVE TypeOK'
  <2>1. tree' \in Tree
    BY <1>6 DEF DryRun, Whole, Tree, Owner
  <2>2. Blank.snapshots \in BOOLEAN
    BY DEF Blank
  <2>3. run' = [run EXCEPT ![j] = [@ EXCEPT !.before = tree', !.snapshots = Blank.snapshots]]
    BY <1>6 DEF DryRun
  <2>4. run' \in [Job -> Run]
    BY <2>1, <2>2, <2>3, RunUpdates
  <2>5. stage' \in [Job -> Stage]
    BY <1>6 DEF DryRun
  <2> QED
    BY <1>6, <2>1, <2>4, <2>5 DEF DryRun
<1>7. ASSUME NEW j \in Job, ArchiveBegins(j) PROVE TypeOK'
  <2>1. [tree |-> tree, whole |-> FALSE] \in [tree : Tree, whole : BOOLEAN]
    OBVIOUS
  <2>2. snaps' \in Archives
    BY <1>7, <2>1, AppendProperties DEF ArchiveBegins, Archives
  <2> QED
    BY <1>7, <2>2 DEF ArchiveBegins, Archives
<1>8. ASSUME NEW j \in Job, ArchiveEnds(j) PROVE TypeOK'
  <2>1. snaps' \in Archives
    BY <1>8, ArchiveTypes DEF ArchiveEnds, Archives
  <2>2. run' \in [Job -> Run]
    BY <1>8, RunUpdates DEF ArchiveEnds
  <2> QED
    BY <1>8, <2>1, <2>2 DEF ArchiveEnds, Archives
<1>9. ASSUME NEW j \in Job, ArchiveFails(j) PROVE TypeOK'
  <2>1. snaps' \in Archives
    BY <1>9, ArchiveTypes DEF ArchiveFails, Archives
  <2> QED
    BY <1>9, <2>1 DEF ArchiveFails, Archives
<1>10. ASSUME NEW j \in Job, RsyncBegins(j) PROVE TypeOK'
  <2>1. tree' \in Tree
    BY <1>10 DEF RsyncBegins, Tree, Owner
  <2>2. manifests' \in Seq(Attempt) /\ last' \in SUBSET Manifest
    <3>1. \/ manifests' = manifests /\ last' = last
          \/ manifests' = << >> /\ last' = {}
      BY <1>10 DEF RsyncBegins, ManifestsDeleted
    <3>2. << >> \in Seq(Attempt)
      BY EmptySeq
    <3> QED
      BY <3>1, <3>2
  <2> QED
    BY <1>10, <2>1, <2>2 DEF RsyncBegins
<1>11. ASSUME NEW j \in Job, RsyncEnds(j) PROVE TypeOK'
  <2>1. tree' \in Tree /\ override' \in Owner
    BY <1>11 DEF RsyncEnds, Tree, Whole, Owner
  <2>2. manifests' \in Seq(Attempt) /\ last' \in SUBSET Manifest
    <3>1. \/ manifests' = manifests /\ last' = last
          \/ manifests' = << >> /\ last' = {}
      BY <1>11 DEF RsyncEnds, ManifestsDeleted
    <3>2. << >> \in Seq(Attempt)
      BY EmptySeq
    <3> QED
      BY <3>1, <3>2
  <2>3. Blank.keeps \in BOOLEAN
    BY DEF Blank
  <2>4. run' \in [Job -> Run]
    BY <1>11, <2>3, RunUpdates DEF RsyncEnds
  <2> QED
    BY <1>11, <2>1, <2>2, <2>4 DEF RsyncEnds
<1>12. ASSUME NEW j \in Job, Parity(j) PROVE TypeOK'
  BY <1>12 DEF Parity
<1>13. ASSUME NEW j \in Job, Prune(j) PROVE TypeOK'
  <2>1. snaps' \in Archives
    <3>1. snaps \in Archives
      BY DEF Archives
    <3>2. \/ UNCHANGED snaps
          \/ \E n \in 1 .. Len(snaps) : snaps' = SubSeq(snaps, n, Len(snaps))
      BY <1>13 DEF Prune
    <3> QED
      <4>1. CASE UNCHANGED snaps
        BY <3>1, <4>1
      <4>2. CASE \E n \in 1 .. Len(snaps) : snaps' = SubSeq(snaps, n, Len(snaps))
        <5>1. PICK n \in 1 .. Len(snaps) : snaps' = SubSeq(snaps, n, Len(snaps))
          BY <4>2
        <5>2. SubSeq(snaps, n, Len(snaps)) \in Archives
          BY <3>1, ArchiveTypes
        <5> QED
          BY <5>1, <5>2
      <4> QED
        BY <3>2, <4>1, <4>2
  <2> QED
    BY <1>13, <2>1 DEF Prune, Archives
<1>14. ASSUME NEW j \in Job, CheckVolumes(j) PROVE TypeOK'
  <2>1. PICK c \in Contract :
           /\ IF Missing = {} THEN UNCHANGED run
              ELSE run' = [run EXCEPT ![j].contract = c, ![j].missing = Missing]
           /\ Goto(j, IF Missing = {} THEN "build" ELSE "creating")
    BY <1>14 DEF CheckVolumes
  <2>2. Missing \in SUBSET Volume
    BY DEF Missing
  <2>3. [run[j] EXCEPT !.contract = c, !.missing = Missing] \in Run
    BY <2>2, RunUpdates
  <2>4. run' \in [Job -> Run]
    BY <2>1, <2>3
  <2>5. stage' \in [Job -> Stage]
    BY <2>1
  <2> QED
    BY <1>14, <2>4, <2>5 DEF CheckVolumes
<1>15. ASSUME NEW j \in Job, CreateVolume(j) PROVE TypeOK'
  <2>1. NoContract \in Contract
    BY DEF NoContract, Contract
  <2>2. PICK v \in run[j].missing :
           /\ volumes' = volumes \cup {v}
           /\ IF run[j].missing = {v}
                 THEN /\ run' = [run EXCEPT ![j].missing = {}, ![j].contract = NoContract]
                      /\ Goto(j, "build")
                 ELSE /\ run' = [run EXCEPT ![j].missing = @ \ {v}]
                      /\ UNCHANGED stage
    BY <1>15 DEF CreateVolume
  <2>3. run[j].missing \in SUBSET Volume
    BY DEF Run
  <2>4. /\ [run[j] EXCEPT !.missing = {}, !.contract = NoContract] \in Run
        /\ [run[j] EXCEPT !.missing = @ \ {v}] \in Run
    BY <2>1, <2>3, RunUpdates
  <2>5. run' \in [Job -> Run] /\ stage' \in [Job -> Stage]
    BY <2>2, <2>4, ZenonT(40)
  <2> QED
    BY <1>15, <2>2, <2>3, <2>5 DEF CreateVolume
<1>16. ASSUME NEW j \in Job, CreateVolumeFails(j) PROVE TypeOK'
  <2>1. run[j].missing \in SUBSET Volume
    BY DEF Run
  <2> QED
    BY <1>16, <2>1 DEF CreateVolumeFails
<1>17. ASSUME NEW j \in Job, Build(j) PROVE TypeOK'
  <2>1. tag' \in [Image -> Id]
    BY <1>17, ImageSteps
  <2> QED
    BY <1>17, <2>1 DEF Build
<1>18. ASSUME NEW j \in Job, Pull(j) PROVE TypeOK'
  <2>1. tag' \in [Image -> Id]
    BY <1>18, ImageSteps
  <2> QED
    BY <1>18, <2>1 DEF Pull
<1>19. ASSUME NEW j \in Job, Discover(j) PROVE TypeOK'
  <2>1. Available \in SUBSET Id
    BY DEF Available
  <2>2. run' \in [Job -> Run]
    BY <1>19, <2>1, RunUpdates DEF Discover
  <2> QED
    BY <1>19, <2>2 DEF Discover
<1>20. ASSUME NEW j \in Job, Scan(j) PROVE TypeOK'
  <2>1. PICK g \in Verdict :
           /\ run' = [run EXCEPT ![j].gate = g]
           /\ Goto(j, IF NeedsRebuild(j, g) THEN "rebuild" ELSE "enforce")
    BY <1>20 DEF Scan
  <2>2. run' \in [Job -> Run]
    BY <2>1, RunUpdates DEF Verdict
  <2>3. stage' \in [Job -> Stage]
    BY <2>1
  <2> QED
    BY <1>20, <2>2, <2>3 DEF Scan
<1>21. ASSUME NEW j \in Job, Rebuild(j) PROVE TypeOK'
  <2>1. tag' \in [Image -> Id]
    BY <1>21, ImageSteps
  <2>2. run' \in [Job -> Run]
    <3>1. \A b \in {"success", "failure"} : [run[j] EXCEPT !.rebuild = b] \in Run
      BY RunUpdates
    <3> QED
      BY <1>21, <3>1 DEF Rebuild
  <2>3. stage' \in [Job -> Stage]
    BY <1>21 DEF Rebuild
  <2> QED
    BY <1>21, <2>1, <2>2, <2>3 DEF Rebuild
<1>22. ASSUME NEW j \in Job, Rediscover(j) PROVE TypeOK'
  <2>1. tag' \in [Image -> Id]
    BY <1>22, ImageSteps
  <2>2. Available' \in SUBSET Id
    BY <2>1 DEF Available
  <2>3. run' \in [Job -> Run]
    BY <1>22, <2>2, RunUpdates DEF Rediscover
  <2> QED
    BY <1>22, <2>1, <2>3 DEF Rediscover
<1>23. ASSUME NEW j \in Job, Rescan(j) PROVE TypeOK'
  <2>1. run' \in [Job -> Run]
    <3>1. \A g \in Verdict : [run[j] EXCEPT !.newGate = g] \in Run
      BY RunUpdates DEF Verdict
    <3> QED
      BY <1>23, <3>1 DEF Rescan
  <2> QED
    BY <1>23, <2>1 DEF Rescan
<1>24. ASSUME NEW j \in Job, Enforce(j) PROVE TypeOK'
  BY <1>24 DEF Enforce
<1>25. ASSUME NEW j \in Job, RollOut(j) PROVE TypeOK'
  <2>1. <<j, 1>> \in Id
    BY DEF Id, Owner
  <2>2. tag' \in [Image -> Id] /\ running' \in [Image -> Id]
    BY <1>25, <2>1 DEF RollOut
  <2>3. rolled' \in Seq(Job)
    BY <1>25, AppendProperties DEF RollOut
  <2> QED
    BY <1>25, <2>2, <2>3 DEF RollOut
<1>26. ASSUME NEW j \in Job, RollOutFails(j) PROVE TypeOK'
  <2>1. running' \in [Image -> Id]
    BY <1>26 DEF RollOutFails
  <2>2. rolled' \in Seq(Job)
    BY <1>26, AppendProperties DEF RollOutFails
  <2> QED
    BY <1>26, <2>1, <2>2 DEF RollOutFails
<1>27. ASSUME NEW j \in Job, Healthy(j) PROVE TypeOK'
  BY <1>27 DEF Healthy
<1>28. ASSUME NEW j \in Job, StepFails(j) PROVE TypeOK'
  BY <1>28 DEF StepFails
<1>29. ASSUME NEW j \in Job, Evidence(j) PROVE TypeOK'
  <2>1. run[j].ok \in BOOLEAN
    BY DEF Run
  <2>2. run' \in [Job -> Run]
    <3>1. \A b \in BOOLEAN : [run[j] EXCEPT !.ok = @ /\ ~b] \in Run
      BY <2>1, RunUpdates
    <3> QED
      BY <1>29, <3>1 DEF Evidence
  <2> QED
    BY <1>29, <2>2 DEF Evidence
<1>30. ASSUME NEW j \in Job, RecordManifest(j) PROVE TypeOK'
  <2>1. AttemptOf(j) \in Attempt
    BY DEF AttemptOf, Attempt, Run
  <2>2. manifests' \in Seq(Attempt)
    BY <1>30, <2>1, AppendProperties DEF RecordManifest
  <2>3. run' \in [Job -> Run]
    BY <1>30, RunUpdates DEF RecordManifest
  <2> QED
    BY <1>30, <2>2, <2>3 DEF RecordManifest
<1>31. ASSUME NEW j \in Job, PointToLast(j) PROVE TypeOK'
  <2>1. [job |-> j, images |-> run[j].images] \in Manifest
    BY DEF Manifest, Run
  <2> QED
    BY <1>31, <2>1 DEF PointToLast
<1>32. ASSUME NEW j \in Job, TrimManifests(j) PROVE TypeOK'
  <2>1. manifests' \in Seq(Attempt)
    BY <1>32 DEF TrimManifests
  <2> QED
    BY <1>32, <2>1 DEF TrimManifests
<1>33. ASSUME NEW j \in Job, Decorate(j) PROVE TypeOK'
  BY <1>33 DEF Decorate
<1>34. ASSUME NEW j \in Job, RecorderFails(j) PROVE TypeOK'
  <2>1. run' \in [Job -> Run]
    BY <1>34, RunUpdates DEF RecorderFails
  <2> QED
    BY <1>34, <2>1 DEF RecorderFails
<1>35. ASSUME NEW j \in Job, Finish(j) PROVE TypeOK'
  BY <1>35 DEF Finish
<1>36. ASSUME NEW j \in Job, Lost(j) PROVE TypeOK'
  BY <1>36 DEF Lost
<1> QED
  BY <1>1, <1>2, <1>3, <1>4, <1>5, <1>6, <1>7, <1>8, <1>9, <1>10, <1>11, <1>12,
     <1>13, <1>14, <1>15, <1>16, <1>17, <1>18, <1>19, <1>20, <1>21, <1>22, <1>23,
     <1>24, <1>25, <1>26, <1>27, <1>28, <1>29, <1>30, <1>31, <1>32, <1>33, <1>34,
     <1>35, <1>36
     DEF Next, Step

\* The types of the specification are invariant.
THEOREM TypeCorrect == Spec => []TypeOK
  BY TypesAtFirst, TypesStay, PTL DEF Spec

-----------------------------------------------------------------------------
(* The concurrency group.                                                  *)

\* At most one job of the service is in progress.
OneAtATime == \A j, k \in Job : stage[j] \in Active /\ stage[k] \in Active => j = k

\* What a step of one job leaves of another job: it is not concerned any more,
\* or it stands where it stood, and nothing of the host moved below it.
Undisturbed(k) ==
    \/ stage'[k] \notin Active \cup {"pending"}
    \/ /\ stage'[k] = stage[k] /\ run'[k] = run[k]
       /\ stage[k] \in Active => UNCHANGED <<host, rolled>>

\* Only the job in progress takes steps other than the arrival of a job, which
\* is the first of a group, or ends the wait of the one before it.
LEMMA ActorIsAlone ==
    ASSUME TypeOK, OneAtATime, NEW j \in Job, Step(j)
    PROVE  /\ stage[j] \in Active \/ Arrive(j) \/ Begin(j)
           /\ OneAtATime'
           /\ \A k \in Job \ {j} : Undisturbed(k)
<1> USE DEF Active, Work, Before, Always
<1>1. CASE Arrive(j)
  <2>1. \A k \in Job : stage'[k] \in Active => stage[k] \in Active /\ stage'[k] = stage[k]
    BY <1>1 DEF Arrive, TypeOK
  <2>2. \A k \in Job \ {j} : Undisturbed(k)
    BY <1>1 DEF Arrive, TypeOK, Undisturbed
  <2> QED
    BY <1>1, <2>1, <2>2 DEF OneAtATime
<1>2. CASE Begin(j)
  <2>1. \A k \in Job \ {j} : stage'[k] = stage[k] /\ run'[k] = run[k] /\ stage[k] \notin Active
    BY <1>2 DEF Begin, TypeOK, Goto
  <2> QED
    BY <1>2, <2>1 DEF OneAtATime, Undisturbed
<1>3. CASE ~(Arrive(j) \/ Begin(j))
  <2>1. /\ stage[j] \in Active
        /\ \A k \in Job \ {j} : stage'[k] = stage[k] /\ run'[k] = run[k]
    <3> USE <1>3 DEF TypeOK, Goto
    <3>1. CASE \/ Prepare(j) \/ FilesystemGate(j) \/ DryRun(j) \/ ArchiveBegins(j)
               \/ ArchiveEnds(j) \/ ArchiveFails(j)
      BY <3>1 DEF Prepare, FilesystemGate, DryRun, ArchiveBegins, ArchiveEnds, ArchiveFails
    <3>2. CASE RsyncBegins(j) \/ RsyncEnds(j) \/ Parity(j) \/ Prune(j)
      BY <3>2 DEF RsyncBegins, RsyncEnds, Parity, Prune
    <3>3. CASE CheckVolumes(j) \/ CreateVolume(j) \/ CreateVolumeFails(j)
      BY <3>3 DEF CheckVolumes, CreateVolume, CreateVolumeFails
    <3>4. CASE Build(j) \/ Pull(j) \/ Discover(j) \/ Scan(j)
      BY <3>4 DEF Build, Pull, Discover, Scan
    <3>5. CASE Rebuild(j) \/ Rediscover(j) \/ Rescan(j) \/ Enforce(j)
      BY <3>5 DEF Rebuild, Rediscover, Rescan, Enforce
    <3>6. CASE RollOut(j) \/ RollOutFails(j) \/ Healthy(j) \/ StepFails(j)
      BY <3>6 DEF RollOut, RollOutFails, Healthy, StepFails
    <3>7. CASE \/ Evidence(j) \/ RecordManifest(j) \/ PointToLast(j) \/ TrimManifests(j)
               \/ Decorate(j) \/ RecorderFails(j) \/ Finish(j) \/ Lost(j)
      BY <3>7 DEF Evidence, RecordManifest, PointToLast, TrimManifests, Decorate,
                  RecorderFails, Finish, Lost
    <3> QED
      BY <3>1, <3>2, <3>3, <3>4, <3>5, <3>6, <3>7 DEF Step
  <2>2. \A k \in Job \ {j} : stage[k] \notin Active
    BY <2>1 DEF OneAtATime
  <2> QED
    BY <2>1, <2>2 DEF OneAtATime, Undisturbed
<1> QED
  BY <1>1, <1>2, <1>3

-----------------------------------------------------------------------------
(* What holds of a job at each of its steps.                               *)

BeforeGate == {"pending", "prepare", "fsgate", "sync", "archive", "archiving", "rsync",
               "rsyncing", "parity", "prune", "volumes", "creating", "build", "pull",
               "discover", "scan", "rebuild"}
Synced == {"parity", "prune", "volumes", "creating", "build", "pull", "discover",
           "scan", "rebuild", "rediscover", "rescan", "enforce", "rollout"}
WithVolumes == {"build", "pull", "discover", "scan", "rebuild", "rediscover", "rescan",
                "enforce", "rollout", "health"}
BeforeSnapshot == {"pending", "prepare", "fsgate", "sync", "archive", "archiving"}

\* Which of the two scans the images on the host are those of.
GateInv(j) ==
    LET r == run[j] IN
    /\ stage[j] \in BeforeGate => r.rebuild = "skipped"
    /\ stage[j] \in BeforeGate \cup {"rediscover", "rescan"} => r.newGate = NotRun
    /\ stage[j] = "scan" => Available = r.refs
    /\ stage[j] = "rebuild" => r.gate.class = "actionable_vulnerability"
    /\ stage[j] \in {"rediscover", "rescan"} =>
          r.rebuild = "success" /\ r.gate.class = "actionable_vulnerability"
    /\ stage[j] = "rescan" => Available = r.newRefs
    /\ stage[j] = "enforce" =>
          \/ r.rebuild = "skipped" /\ Available = r.refs /\ r.newGate = NotRun
          \/ r.rebuild = "failure" /\ r.gate.class = "actionable_vulnerability"
                /\ r.newGate = NotRun
          \/ r.rebuild = "success" /\ r.gate.class = "actionable_vulnerability"
                /\ Available = r.newRefs
    /\ stage[j] = "rollout" =>
          \/ Available = r.refs /\ Acceptable(r.gate)
          \/ Available = r.newRefs /\ Acceptable(r.newGate)

\* Whose tree is deployed, and by whose override it is configured.
TreeInv(j) ==
    /\ stage[j] \in Synced => tree = Whole(j)
    /\ stage[j] \in Work \ {"prepare", "health"} /\ run[j].mode = "prebuilt" => override = j

\* The newest snapshot is the announced one.
SnapshotInv(j) ==
    LET r == run[j] IN
    /\ stage[j] \in BeforeSnapshot => ~ r.snapshot
    /\ stage[j] \in {"archive", "archiving"} => r.before = tree
    /\ stage[j] = "archiving" =>
          snaps # << >> /\ snaps[Len(snaps)] = [tree |-> tree, whole |-> FALSE]
    /\ stage[j] \in Active /\ r.snapshot =>
          snaps # << >> /\ snaps[Len(snaps)] = [tree |-> r.before, whole |-> TRUE]

\* The volumes still to be created are all that is missing, and each may be.
VolumeInv(j) ==
    /\ stage[j] = "creating" =>
          /\ Missing \subseteq run[j].missing
          /\ \A v \in Missing : MayCreate(run[j].contract, v)
    /\ stage[j] \in WithVolumes => Missing = {}

\* Up to the pointer, a job that is still a success was the last to replace
\* containers, and they run what the images resolve to.
RolledInv(j) ==
    /\ stage[j] \in {"health", "evidence", "record"} /\ (stage[j] = "health" \/ run[j].ok) =>
          rolled # << >> /\ rolled[Len(rolled)] = j /\ running = tag
    /\ stage[j] = "point" =>
          rolled # << >> /\ rolled[Len(rolled)] = j /\ running = run[j].images

JobInv(j) ==
    GateInv(j) /\ TreeInv(j) /\ SnapshotInv(j) /\ VolumeInv(j) /\ RolledInv(j)

\* A step of another job leaves what holds of this one: the host stays below a
\* job in progress, and nothing is said of the host before a job begins.
LEMMA OthersKeepJobInv ==
    ASSUME TypeOK, NEW k \in Job, JobInv(k), Undisturbed(k)
    PROVE  JobInv(k)'
<1> USE DEF Undisturbed, Active, Work, Before, Always
<1>1. CASE stage'[k] \notin Active \cup {"pending"}
  BY <1>1 DEF JobInv, GateInv, TreeInv, SnapshotInv, VolumeInv, RolledInv,
              BeforeGate, Synced, WithVolumes, BeforeSnapshot
<1>2. CASE stage'[k] = "pending" /\ stage[k] = "pending" /\ run'[k] = run[k]
  BY <1>2 DEF JobInv, GateInv, TreeInv, SnapshotInv, VolumeInv, RolledInv,
              BeforeGate, Synced, WithVolumes, BeforeSnapshot
<1>3. CASE /\ stage'[k] = stage[k] /\ run'[k] = run[k]
           /\ UNCHANGED <<host, rolled>>
  <2>1. Available' = Available /\ Missing' = Missing
    BY <1>3 DEF host, Available, Missing
  <2>2. GateInv(k)'
    BY <1>3, <2>1 DEF JobInv, GateInv
  <2>3. TreeInv(k)' /\ SnapshotInv(k)' /\ RolledInv(k)'
    BY <1>3 DEF JobInv, TreeInv, SnapshotInv, RolledInv, host
  <2>4. VolumeInv(k)'
    BY <1>3, <2>1 DEF JobInv, VolumeInv
  <2> QED
    BY <2>2, <2>3, <2>4 DEF JobInv
<1> QED
  BY <1>1, <1>2, <1>3

\* The rebuild moves images only after a first scan that found something to
\* rebuild for, and each scan is of the images that are there.
LEMMA GateStep ==
    ASSUME TypeOK, NEW j \in Job, GateInv(j), Step(j)
    PROVE  GateInv(j)'
<1> USE DEF TypeOK, Goto, BeforeGate, GateInv
<1>1. CASE Arrive(j)
  BY <1>1 DEF Arrive, Blank
<1>2. CASE Begin(j) \/ Prepare(j) \/ FilesystemGate(j) \/ ArchiveBegins(j) \/ ArchiveFails(j)
  BY <1>2 DEF Begin, Prepare, FilesystemGate, ArchiveBegins, ArchiveFails
<1>3. CASE DryRun(j) \/ ArchiveEnds(j)
  BY <1>3 DEF DryRun, ArchiveEnds, Run
<1>4. CASE RsyncBegins(j) \/ RsyncEnds(j) \/ Parity(j) \/ Prune(j)
  BY <1>4 DEF RsyncBegins, RsyncEnds, Parity, Prune, Run
<1>5. CASE CheckVolumes(j)
  BY <1>5 DEF CheckVolumes, Run
<1>6. CASE CreateVolume(j)
  BY <1>6 DEF CreateVolume, Run
<1>7. CASE Build(j) \/ Pull(j)
  BY <1>7 DEF Build, Pull
<1>8. CASE Discover(j)
  BY <1>8 DEF Discover, Run, host, Available
<1>9. CASE Scan(j)
  BY <1>9 DEF Scan, Run, host, Available, NeedsRebuild
<1>10. CASE Rebuild(j)
  <2>1. PICK b \in {"success", "failure"} :
           /\ run' = [run EXCEPT ![j].rebuild = b]
           /\ stage'[j] = IF b = "success" THEN "rediscover" ELSE "enforce"
    BY <1>10 DEF Rebuild
  <2>2. /\ run'[j].rebuild = b /\ run'[j].newGate = run[j].newGate
        /\ run'[j].gate = run[j].gate
    BY <2>1 DEF Run
  <2> QED
    BY <1>10, <2>1, <2>2 DEF Rebuild
<1>11. CASE Rediscover(j)
  BY <1>11 DEF Rediscover, Run
<1>12. CASE Rescan(j)
  BY <1>12 DEF Rescan, Run, host, Available
<1>13. CASE Enforce(j)
  <2>1. /\ stage[j] = "enforce" /\ Admitted(run[j]) /\ run'[j] = run[j] /\ stage'[j] = "rollout"
        /\ Available' = Available
    BY <1>13 DEF Enforce, host, Available
  <2>2. \/ Available = run[j].refs /\ Acceptable(run[j].gate)
        \/ Available = run[j].newRefs /\ Acceptable(run[j].newGate)
    BY <2>1 DEF Admitted, Acceptable, InitialPasses, FinalPasses, Renewed, Retried,
                FinalResult, CompatibilityAllowed, Passing, NotRun
  <2> QED
    BY <2>1, <2>2
<1>14. CASE RollOut(j) \/ RollOutFails(j) \/ Healthy(j) \/ StepFails(j) \/ CreateVolumeFails(j)
  BY <1>14 DEF RollOut, RollOutFails, Healthy, StepFails, CreateVolumeFails
<1>15. CASE \/ Evidence(j) \/ RecordManifest(j) \/ PointToLast(j) \/ TrimManifests(j)
            \/ Decorate(j) \/ RecorderFails(j) \/ Finish(j) \/ Lost(j)
  BY <1>15 DEF Evidence, RecordManifest, PointToLast, TrimManifests, Decorate,
               RecorderFails, Finish, Lost
<1> QED
  BY <1>1, <1>2, <1>3, <1>4, <1>5, <1>6, <1>7, <1>8, <1>9, <1>10, <1>11, <1>12,
     <1>13, <1>14, <1>15
     DEF Step

\* After the synchronisation nothing but another job's writes to the deploy
\* path, and a synchronisation that keeps the pinned images keeps their override.
LEMMA TreeStep ==
    ASSUME TypeOK, NEW j \in Job, TreeInv(j), Step(j)
    PROVE  TreeInv(j)'
<1> USE DEF TypeOK, Goto, Synced, TreeInv, Work, Before
<1>1. CASE Arrive(j)
  BY <1>1 DEF Arrive
<1>2. CASE \/ Begin(j) \/ Prepare(j) \/ FilesystemGate(j)
           \/ ArchiveBegins(j) \/ ArchiveFails(j)
  BY <1>2 DEF Begin, Prepare, FilesystemGate, ArchiveBegins, ArchiveFails, host
<1>3. CASE DryRun(j) \/ ArchiveEnds(j)
  BY <1>3 DEF DryRun, ArchiveEnds, Run
<1>4. CASE RsyncBegins(j) \/ RsyncEnds(j)
  BY <1>4 DEF RsyncBegins, RsyncEnds, Run, Whole
<1>5. CASE Parity(j) \/ Prune(j)
  BY <1>5 DEF Parity, Prune, host
<1>6. CASE CheckVolumes(j) \/ CreateVolume(j)
  <2>1. /\ stage[j] \in {"volumes", "creating"} /\ stage'[j] \in {"creating", "build"}
        /\ UNCHANGED <<tree, override>>
    BY <1>6 DEF CheckVolumes, CreateVolume, host
  <2>2. run'[j].mode = run[j].mode
    <3>1. CASE CheckVolumes(j)
      BY <3>1 DEF CheckVolumes, Run
    <3>2. CASE CreateVolume(j)
      BY <3>2 DEF CreateVolume, Run
    <3> QED
      BY <1>6, <3>1, <3>2
  <2> QED
    BY <2>1, <2>2
<1>7. CASE Build(j) \/ Pull(j)
  BY <1>7 DEF Build, Pull
<1>8. CASE Discover(j) \/ Scan(j) \/ Rescan(j) \/ Enforce(j)
  BY <1>8 DEF Discover, Scan, Rescan, Enforce, Run, host
<1>9. CASE Rebuild(j) \/ Rediscover(j)
  BY <1>9 DEF Rebuild, Rediscover, Run
<1>10. CASE RollOut(j) \/ RollOutFails(j) \/ Healthy(j) \/ StepFails(j) \/ CreateVolumeFails(j)
  BY <1>10 DEF RollOut, RollOutFails, Healthy, StepFails, CreateVolumeFails
<1>11. CASE \/ Evidence(j) \/ RecordManifest(j) \/ PointToLast(j) \/ TrimManifests(j)
            \/ Decorate(j) \/ RecorderFails(j) \/ Finish(j) \/ Lost(j)
  BY <1>11 DEF Evidence, RecordManifest, PointToLast, TrimManifests, Decorate,
               RecorderFails, Finish, Lost
<1> QED
  BY <1>1, <1>2, <1>3, <1>4, <1>5, <1>6, <1>7, <1>8, <1>9, <1>10, <1>11 DEF Step

\* The volumes are looked at together, and each one that is created was missing
\* when they were.
LEMMA VolumeStep ==
    ASSUME TypeOK, NEW j \in Job, VolumeInv(j), Step(j)
    PROVE  VolumeInv(j)'
<1> USE DEF TypeOK, Goto, WithVolumes, VolumeInv
<1>1. CASE Arrive(j)
  BY <1>1 DEF Arrive
<1>2. CASE \/ Begin(j) \/ Prepare(j) \/ FilesystemGate(j) \/ DryRun(j) \/ ArchiveBegins(j)
           \/ ArchiveEnds(j) \/ ArchiveFails(j) \/ RsyncBegins(j) \/ RsyncEnds(j)
           \/ Parity(j) \/ Prune(j)
  BY <1>2 DEF Begin, Prepare, FilesystemGate, DryRun, ArchiveBegins, ArchiveEnds,
              ArchiveFails, RsyncBegins, RsyncEnds, Parity, Prune
<1>3. CASE CheckVolumes(j)
  <2>1. PICK c \in Contract :
           /\ \A v \in Missing : MayCreate(c, v)
           /\ IF Missing = {} THEN UNCHANGED run
              ELSE run' = [run EXCEPT ![j].contract = c, ![j].missing = Missing]
           /\ stage'[j] = IF Missing = {} THEN "build" ELSE "creating"
    BY <1>3 DEF CheckVolumes
  <2>2. Missing' = Missing
    BY <1>3 DEF CheckVolumes, host, Missing
  <2>3. Missing # {} => run'[j].contract = c /\ run'[j].missing = Missing
    BY <2>1 DEF Run
  <2> QED
    BY <2>1, <2>2, <2>3
<1>4. CASE CreateVolume(j)
  <2>1. PICK v \in run[j].missing :
           /\ volumes' = volumes \cup {v}
           /\ IF run[j].missing = {v}
                 THEN stage'[j] = "build"
                 ELSE /\ run' = [run EXCEPT ![j].missing = @ \ {v}]
                      /\ stage'[j] = "creating"
    BY <1>4 DEF CreateVolume
  <2>2. Missing' = Missing \ {v} /\ Missing \subseteq run[j].missing
    BY <1>4, <2>1 DEF Missing, CreateVolume
  <2>3. CASE run[j].missing = {v}
    BY <2>1, <2>2, <2>3
  <2>4. CASE run[j].missing # {v}
    <3>1. run'[j].missing = run[j].missing \ {v} /\ run'[j].contract = run[j].contract
      BY <2>1, <2>4 DEF Run
    <3> QED
      BY <1>4, <2>1, <2>2, <2>4, <3>1 DEF CreateVolume
  <2> QED
    BY <2>3, <2>4
<1>5. CASE Build(j) \/ Pull(j) \/ Rebuild(j) \/ Rediscover(j) \/ RollOut(j)
  <2>1. Missing' = Missing
    BY <1>5 DEF Build, Pull, Rebuild, Rediscover, RollOut, Missing
  <2> QED
    BY <1>5, <2>1 DEF Build, Pull, Rebuild, Rediscover, RollOut
<1>6. CASE Discover(j) \/ Scan(j) \/ Rescan(j) \/ Enforce(j)
  <2>1. Missing' = Missing
    BY <1>6 DEF Discover, Scan, Rescan, Enforce, Missing, host
  <2> QED
    BY <1>6, <2>1 DEF Discover, Scan, Rescan, Enforce
<1>7. CASE RollOutFails(j) \/ Healthy(j) \/ StepFails(j) \/ CreateVolumeFails(j)
  BY <1>7 DEF RollOutFails, Healthy, StepFails, CreateVolumeFails
<1>8. CASE \/ Evidence(j) \/ RecordManifest(j) \/ PointToLast(j) \/ TrimManifests(j)
           \/ Decorate(j) \/ RecorderFails(j) \/ Finish(j) \/ Lost(j)
  BY <1>8 DEF Evidence, RecordManifest, PointToLast, TrimManifests, Decorate,
              RecorderFails, Finish, Lost
<1> QED
  BY <1>1, <1>2, <1>3, <1>4, <1>5, <1>6, <1>7, <1>8 DEF Step

\* What the final steps keep of a job.
LEMMA ClosedKeeps ==
    ASSUME NEW r, NEW ok
    PROVE  /\ Closed(r, ok).ok = ok
           /\ Closed(r, ok).before = r.before /\ Closed(r, ok).snapshot = r.snapshot
  BY DEF Closed, Blank

\* The newest archive of a list that grew, of its completed or pruned form.
LEMMA NewestArchive ==
    ASSUME NEW s \in Archives
    PROVE  /\ \A a \in [tree : Tree, whole : BOOLEAN] :
                 /\ Append(s, a) # << >>
                 /\ Append(s, a)[Len(Append(s, a))] = a
           /\ \A n \in 1 .. Len(s) :
                 /\ SubSeq(s, n, Len(s)) # << >>
                 /\ SubSeq(s, n, Len(s))[Len(SubSeq(s, n, Len(s)))] = s[Len(s)]
           /\ s # << >> =>
                 LET e == [s EXCEPT ![Len(s)].whole = TRUE] IN
                    /\ e # << >>
                    /\ e[Len(e)] = [tree |-> s[Len(s)].tree, whole |-> TRUE]
<1> DEFINE Archive == [tree : Tree, whole : BOOLEAN]
<1>1. Len(s) \in Nat /\ s \in [1 .. Len(s) -> Archive] /\ DOMAIN s = 1 .. Len(s)
  BY LenProperties DEF Archives
<1>2. \A a \in Archive : Append(s, a) # << >> /\ Append(s, a)[Len(Append(s, a))] = a
  BY <1>1, AppendProperties DEF Archives, Archive
<1>3. ASSUME NEW n \in 1 .. Len(s)
      PROVE  /\ SubSeq(s, n, Len(s)) # << >>
             /\ SubSeq(s, n, Len(s))[Len(SubSeq(s, n, Len(s)))] = s[Len(s)]
  <2> HIDE DEF Archive
  <2> DEFINE t == SubSeq(s, n, Len(s))
             k == Len(s) - n + 1
  <2>1. \A i \in n .. Len(s) : s[i] \in Archive
    BY <1>1
  <2>2. Len(t) = k /\ \A i \in 1 .. k : t[i] = s[n + i - 1]
    BY <1>1, <2>1, SubSeqProperties
  <2>3. k \in 1 .. k /\ n + k - 1 = Len(s) /\ k # 0
    BY <1>1
  <2> HIDE DEF t, k
  <2>4. t[k] = s[Len(s)]
    BY <2>2, <2>3
  <2>5. t # << >>
    BY <2>2, <2>3, EmptySeq
  <2> QED
    BY <2>2, <2>4, <2>5 DEF t
<1>4. ASSUME s # << >>
      PROVE  LET e == [s EXCEPT ![Len(s)].whole = TRUE] IN
                /\ e # << >>
                /\ e[Len(e)] = [tree |-> s[Len(s)].tree, whole |-> TRUE]
  <2> DEFINE a == [s[Len(s)] EXCEPT !.whole = TRUE]
             e == [s EXCEPT ![Len(s)] = a]
  <2>1. Len(s) \in 1 .. Len(s)
    BY <1>1, <1>4, EmptySeq DEF Archives
  <2>2. s[Len(s)] \in Archive
    BY <1>1, <2>1
  <2>3. a \in Archive /\ a = [tree |-> s[Len(s)].tree, whole |-> TRUE]
    <3>1. \A r \in Archive : /\ [r EXCEPT !.whole = TRUE] \in Archive
                             /\ [r EXCEPT !.whole = TRUE] = [tree |-> r.tree, whole |-> TRUE]
      <4> TAKE r \in Archive
      <4>1. \A x, y \in Archive : x.tree = y.tree /\ x.whole = y.whole => x = y
        OBVIOUS
      <4>2. /\ [r EXCEPT !.whole = TRUE] \in Archive
            /\ [r EXCEPT !.whole = TRUE].tree = r.tree /\ [r EXCEPT !.whole = TRUE].whole
            /\ [tree |-> r.tree, whole |-> TRUE] \in Archive
        OBVIOUS
      <4> HIDE DEF Archive
      <4> QED
        BY <4>1, <4>2
    <3> HIDE DEF Archive
    <3> QED
      BY <2>2, <3>1
  <2>6. s \in Seq(Archive)
    BY DEF Archives
  <2> HIDE DEF a, Archive
  <2>4. Len(e) = Len(s) /\ e[Len(s)] = a
    <3>1. /\ Len([s EXCEPT ![Len(s)] = a]) = Len(s)
          /\ \A i \in 1 .. Len(s) : [s EXCEPT ![Len(s)] = a][i] = IF i = Len(s) THEN a ELSE s[i]
      BY <2>1, <2>3, <2>6, ExceptSeq
    <3> QED
      BY <2>1, <3>1
  <2>5. e # << >>
    BY <1>1, <2>1, <2>4, EmptySeq
  <2> QED
    BY <2>3, <2>4, <2>5 DEF a
<1> QED
  BY <1>2, <1>3, <1>4

\* The archive a job announces is of the tree that the dry run found, it is
\* whole by then, and the limits spare the newest.
LEMMA SnapshotStep ==
    ASSUME TypeOK, NEW j \in Job, SnapshotInv(j), Step(j)
    PROVE  SnapshotInv(j)'
<1> USE DEF TypeOK, Goto, BeforeSnapshot, SnapshotInv, Active, Work, Before, Always
<1>0. snaps \in Archives
  BY DEF Archives
<1>1. CASE Arrive(j)
  BY <1>1 DEF Arrive, Blank
<1>2. CASE Begin(j) \/ Prepare(j) \/ FilesystemGate(j)
  BY <1>2 DEF Begin, Prepare, FilesystemGate, host
<1>3. CASE DryRun(j)
  <2>1. run'[j].before = tree' /\ run'[j].snapshot = run[j].snapshot
    BY <1>3 DEF DryRun, Run
  <2>2. stage'[j] \in {"archive", "rsync"}
    BY <1>3 DEF DryRun
  <2> QED
    BY <1>3, <2>1, <2>2 DEF DryRun
<1>4. CASE ArchiveBegins(j)
  <2>1. [tree |-> tree, whole |-> FALSE] \in [tree : Tree, whole : BOOLEAN]
    OBVIOUS
  <2>2. snaps' # << >> /\ snaps'[Len(snaps')] = [tree |-> tree, whole |-> FALSE]
    BY <1>0, <1>4, <2>1, NewestArchive DEF ArchiveBegins
  <2> QED
    BY <1>4, <2>2 DEF ArchiveBegins
<1>5. CASE ArchiveEnds(j)
  <2>1. snaps' # << >> /\ snaps'[Len(snaps')] = [tree |-> snaps[Len(snaps)].tree, whole |-> TRUE]
    BY <1>0, <1>5, NewestArchive DEF ArchiveEnds
  <2>2. run'[j].before = run[j].before /\ stage'[j] = "rsync"
    BY <1>5 DEF ArchiveEnds, Run
  <2>3. snaps[Len(snaps)].tree = run[j].before
    BY <1>5 DEF ArchiveEnds
  <2> QED
    BY <2>1, <2>2, <2>3
<1>6. CASE ArchiveFails(j)
  BY <1>6 DEF ArchiveFails
<1>7. CASE RsyncBegins(j) \/ RsyncEnds(j) \/ Parity(j)
  BY <1>7, ZenonT(40) DEF RsyncBegins, RsyncEnds, Parity, Run, host
<1>8. CASE Prune(j)
  <2>1. CASE run[j].snapshot
    BY <1>0, <1>8, <2>1, NewestArchive DEF Prune
  <2>2. CASE ~run[j].snapshot
    BY <1>8, <2>2 DEF Prune
  <2> QED
    BY <2>1, <2>2
<1> DEFINE Kept == /\ stage[j] \in Active \ BeforeSnapshot
                   /\ stage'[j] \notin BeforeSnapshot
                   /\ snaps' = snaps
                   /\ run'[j].before = run[j].before /\ run'[j].snapshot = run[j].snapshot
<1>9. Kept => SnapshotInv(j)'
  OBVIOUS
<1>10. CASE CheckVolumes(j)
  <2>1. run'[j].before = run[j].before /\ run'[j].snapshot = run[j].snapshot
    BY <1>10 DEF CheckVolumes, Run
  <2> QED
    BY <1>9, <1>10, <2>1 DEF CheckVolumes, host
<1>11. CASE CreateVolume(j) \/ CreateVolumeFails(j)
  <2>1. CASE CreateVolume(j)
    <3>1. run'[j].before = run[j].before /\ run'[j].snapshot = run[j].snapshot
      BY <2>1 DEF CreateVolume, Run
    <3>2. stage[j] = "creating" /\ stage'[j] \in {"creating", "build"}
      BY <2>1 DEF CreateVolume
    <3> QED
      BY <1>9, <2>1, <3>1, <3>2 DEF CreateVolume
  <2>2. CASE CreateVolumeFails(j)
    BY <1>9, <2>2, ClosedKeeps DEF CreateVolumeFails
  <2> QED
    BY <1>11, <2>1, <2>2
<1>12. CASE Build(j) \/ Pull(j) \/ Discover(j) \/ Scan(j)
  BY <1>9, <1>12 DEF Build, Pull, Discover, Scan, Run, host
<1>13. CASE Rebuild(j) \/ Rediscover(j) \/ Rescan(j) \/ Enforce(j)
  <2>1. run'[j].before = run[j].before /\ run'[j].snapshot = run[j].snapshot
    BY <1>13 DEF Rebuild, Rediscover, Rescan, Enforce, Run
  <2> QED
    BY <1>9, <1>13, <2>1 DEF Rebuild, Rediscover, Rescan, Enforce, host
<1>14. CASE RollOut(j) \/ RollOutFails(j) \/ Healthy(j)
  <2>1. run'[j].before = run[j].before /\ run'[j].snapshot = run[j].snapshot
    <3>1. run'[j] \in {run[j], Closed(run[j], TRUE), Closed(run[j], FALSE)}
      BY <1>14 DEF RollOut, RollOutFails, Healthy
    <3>2. \A ok \in BOOLEAN : /\ Closed(run[j], ok).before = run[j].before
                             /\ Closed(run[j], ok).snapshot = run[j].snapshot
      BY ClosedKeeps
    <3> QED
      BY <3>1, <3>2
  <2> QED
    BY <1>9, <1>14, <2>1 DEF RollOut, RollOutFails, Healthy, host
<1>15. CASE StepFails(j)
  <2>1. run'[j].before = run[j].before /\ run'[j].snapshot = run[j].snapshot
    BY <1>15, ClosedKeeps DEF StepFails
  <2> QED
    BY <1>15, <2>1 DEF StepFails, host
<1>16. CASE Evidence(j) \/ RecordManifest(j) \/ RecorderFails(j)
  BY <1>9, <1>16 DEF Evidence, RecordManifest, RecorderFails, Run, host
<1>17. CASE PointToLast(j) \/ TrimManifests(j) \/ Decorate(j)
  BY <1>9, <1>17 DEF PointToLast, TrimManifests, Decorate, host
<1>18. CASE Finish(j) \/ Lost(j)
  BY <1>18 DEF Finish, Lost
<1> QED
  BY <1>1, <1>2, <1>3, <1>4, <1>5, <1>6, <1>7, <1>8, <1>10, <1>11, <1>12,
     <1>13, <1>14, <1>15, <1>16, <1>17, <1>18
     DEF Step

\* The job that has just begun to replace containers is the last that has.
LEMMA NewestRolled ==
    ASSUME NEW s \in Seq(Job), NEW j \in Job
    PROVE  /\ Append(s, j) # << >> /\ Append(s, j)[Len(Append(s, j))] = j
           /\ Len(Append(s, j)) = Len(s) + 1
           /\ \A n \in 1 .. Len(s) : Append(s, j)[n] = s[n]
  BY AppendProperties, LenProperties

\* From the rollout of a job to its pointer nothing replaces a container or
\* moves an image, and the images collected are those the tags resolve to.
LEMMA RolledStep ==
    ASSUME TypeOK, NEW j \in Job, RolledInv(j), Step(j)
    PROVE  RolledInv(j)'
<1> USE DEF TypeOK, Goto, RolledInv
<1>1. CASE Arrive(j) \/ Begin(j)
  BY <1>1 DEF Arrive, Begin
<1>2. CASE \/ Prepare(j) \/ FilesystemGate(j) \/ DryRun(j) \/ ArchiveBegins(j)
           \/ ArchiveEnds(j) \/ ArchiveFails(j) \/ RsyncBegins(j) \/ RsyncEnds(j)
           \/ Parity(j) \/ Prune(j)
  BY <1>2 DEF Prepare, FilesystemGate, DryRun, ArchiveBegins, ArchiveEnds,
              ArchiveFails, RsyncBegins, RsyncEnds, Parity, Prune
<1>3. CASE CheckVolumes(j) \/ CreateVolume(j)
  <2>1. stage'[j] \in {"creating", "build"}
    BY <1>3 DEF CheckVolumes, CreateVolume
  <2> QED
    BY <2>1
<1>4. CASE \/ Build(j) \/ Pull(j) \/ Discover(j) \/ Scan(j) \/ Rebuild(j)
           \/ Rediscover(j) \/ Rescan(j) \/ Enforce(j)
  <2>1. stage'[j] \in {"pull", "discover", "scan", "rebuild", "rediscover", "rescan",
                       "enforce", "rollout"}
    BY <1>4 DEF Build, Pull, Discover, Scan, Rebuild, Rediscover, Rescan, Enforce
  <2> QED
    BY <2>1
<1>5. CASE RollOut(j)
  <2>1. rolled' # << >> /\ rolled'[Len(rolled')] = j
    BY <1>5, NewestRolled DEF RollOut
  <2>2. stage'[j] = "health" /\ running' = tag'
    BY <1>5 DEF RollOut
  <2> QED
    BY <2>1, <2>2
<1>6. CASE RollOutFails(j) \/ StepFails(j) \/ CreateVolumeFails(j)
  <2>1. run'[j] = Closed(run[j], FALSE) /\ stage'[j] = "evidence"
    <3>1. CASE RollOutFails(j)
      BY <3>1 DEF RollOutFails
    <3>2. CASE StepFails(j) \/ CreateVolumeFails(j)
      BY <3>2 DEF StepFails, CreateVolumeFails
    <3> QED
      BY <1>6, <3>1, <3>2
  <2>2. Closed(run[j], FALSE).ok = FALSE
    BY ClosedKeeps
  <2> QED
    BY <2>1, <2>2
<1>7. CASE Healthy(j)
  BY <1>7 DEF Healthy, host
<1>8. CASE Evidence(j)
  BY <1>8 DEF Evidence, Run, host
<1>9. CASE RecordManifest(j)
  <2>1. /\ stage[j] = "record" /\ stage'[j] = IF run[j].ok THEN "point" ELSE "trim"
        /\ run'[j].images = tag
        /\ UNCHANGED <<tag, running, rolled>>
    BY <1>9 DEF RecordManifest, Run
  <2> QED
    BY <2>1
<1>10. CASE PointToLast(j) \/ TrimManifests(j) \/ Decorate(j) \/ RecorderFails(j)
  BY <1>10 DEF PointToLast, TrimManifests, Decorate, RecorderFails
<1>11. CASE Finish(j) \/ Lost(j)
  <2>1. stage'[j] \in {"success", "failure", "lost"}
    BY <1>11 DEF Finish, Lost
  <2> QED
    BY <2>1
<1> QED
  BY <1>1, <1>2, <1>3, <1>4, <1>5, <1>6, <1>7, <1>8, <1>9, <1>10, <1>11 DEF Step

-----------------------------------------------------------------------------
(* The inductive invariant and the theorems.                               *)

\* The pointer names an earlier rollout after every later one, and the newest
\* when it is written.
LEMMA PointerStep ==
    ASSUME TypeOK, NEW j \in Job, RolledInv(j), PointerIsTruthful, Step(j)
    PROVE  PointerIsTruthful'
<1> USE DEF TypeOK, Goto
<1>1. CASE /\ last' \subseteq last
           /\ UNCHANGED <<running, rolled>>
  BY <1>1 DEF PointerIsTruthful
<1>2. CASE RollOut(j) \/ RollOutFails(j)
  <2>1. last' = last /\ rolled' = Append(rolled, j)
    BY <1>2 DEF RollOut, RollOutFails
  <2>2. /\ Len(rolled') = Len(rolled) + 1 /\ Len(rolled) \in Nat
        /\ \A n \in 1 .. Len(rolled) : rolled'[n] = rolled[n]
    BY <2>1, NewestRolled, LenProperties
  <2> SUFFICES ASSUME NEW m \in last
               PROVE  \E n \in 1 .. Len(rolled') :
                         /\ rolled'[n] = m.job
                         /\ n = Len(rolled') => running' = m.images
    BY <2>1 DEF PointerIsTruthful
  <2>3. PICK n \in 1 .. Len(rolled) : rolled[n] = m.job
    BY DEF PointerIsTruthful
  <2>4. n \in 1 .. Len(rolled') /\ n # Len(rolled') /\ rolled'[n] = m.job
    BY <2>2, <2>3
  <2> QED
    BY <2>4
<1>3. CASE PointToLast(j)
  <2>1. /\ last' = {[job |-> j, images |-> run[j].images]}
        /\ UNCHANGED <<running, rolled>> /\ stage[j] = "point"
    BY <1>3 DEF PointToLast
  <2>2. rolled # << >> /\ rolled[Len(rolled)] = j /\ running = run[j].images
    BY <2>1 DEF RolledInv
  <2>3. Len(rolled) \in 1 .. Len(rolled)
    BY <2>2, EmptySeq, LenProperties
  <2> QED
    BY <2>1, <2>2, <2>3 DEF PointerIsTruthful
<1>4. CASE ~(RollOut(j) \/ RollOutFails(j) \/ PointToLast(j))
  <2> USE <1>4
  <2>1. CASE Arrive(j) \/ Begin(j) \/ Prepare(j) \/ FilesystemGate(j) \/ DryRun(j)
    BY <1>1, <2>1 DEF Arrive, Begin, Prepare, FilesystemGate, DryRun, host
  <2>2. CASE \/ ArchiveBegins(j) \/ ArchiveEnds(j) \/ ArchiveFails(j)
             \/ RsyncBegins(j) \/ RsyncEnds(j) \/ Parity(j) \/ Prune(j)
    BY <1>1, <2>2 DEF ArchiveBegins, ArchiveEnds, ArchiveFails, RsyncBegins, RsyncEnds,
                      Parity, Prune, ManifestsDeleted, host
  <2>3. CASE \/ CheckVolumes(j) \/ CreateVolume(j) \/ CreateVolumeFails(j)
             \/ Build(j) \/ Pull(j) \/ Discover(j) \/ Scan(j)
    BY <1>1, <2>3 DEF CheckVolumes, CreateVolume, CreateVolumeFails, Build, Pull, Discover,
                      Scan, host
  <2>4. CASE \/ Rebuild(j) \/ Rediscover(j) \/ Rescan(j) \/ Enforce(j)
             \/ Healthy(j) \/ StepFails(j)
    BY <1>1, <2>4 DEF Rebuild, Rediscover, Rescan, Enforce, Healthy, StepFails, host
  <2>5. CASE \/ Evidence(j) \/ RecordManifest(j) \/ TrimManifests(j)
             \/ Decorate(j) \/ RecorderFails(j) \/ Finish(j) \/ Lost(j)
    BY <1>1, <2>5 DEF Evidence, RecordManifest, TrimManifests, Decorate, RecorderFails,
                      Finish, Lost, host
  <2> QED
    BY <2>1, <2>2, <2>3, <2>4, <2>5 DEF Step
<1> QED
  BY <1>2, <1>3, <1>4

Inv == TypeOK /\ OneAtATime /\ (\A j \in Job : JobInv(j)) /\ PointerIsTruthful

\* Together they are inductive: a job's step keeps what holds of it, and leaves
\* what holds of the others.
LEMMA Invariant == Spec => []Inv
<1>1. Init => Inv
  <2> SUFFICES ASSUME Init PROVE Inv
    OBVIOUS
  <2>1. TypeOK
    BY TypesAtFirst
  <2>2. OneAtATime /\ PointerIsTruthful
    BY DEF Init, OneAtATime, PointerIsTruthful, Active, Work, Before, Always
  <2>3. \A j \in Job : JobInv(j)
    BY DEF Init, JobInv, GateInv, TreeInv, SnapshotInv, VolumeInv, RolledInv,
           BeforeGate, Synced, WithVolumes, BeforeSnapshot, Active, Work, Before, Always
  <2> QED
    BY <2>1, <2>2, <2>3 DEF Inv
<1>2. Inv /\ [Next]_vars => Inv'
  <2> SUFFICES ASSUME Inv, [Next]_vars PROVE Inv'
    OBVIOUS
  <2>1. TypeOK'
    BY TypesStay DEF Inv
  <2>2. CASE UNCHANGED vars
    <3>1. UNCHANGED <<stage, run, tree, override, tag, running, snaps, volumes, manifests,
                      last, rolled>>
      BY <2>2 DEF vars, host
    <3>2. Available' = Available /\ Missing' = Missing
      BY <3>1 DEF Available, Missing
    <3> QED
      <4>1. OneAtATime' /\ PointerIsTruthful'
        BY <3>1 DEF Inv, OneAtATime, PointerIsTruthful
      <4>2. ASSUME NEW j \in Job PROVE JobInv(j)'
        <5>1. GateInv(j)' /\ VolumeInv(j)'
          BY <3>1, <3>2 DEF Inv, JobInv, GateInv, VolumeInv
        <5>2. TreeInv(j)' /\ SnapshotInv(j)' /\ RolledInv(j)'
          BY <3>1 DEF Inv, JobInv, TreeInv, SnapshotInv, RolledInv
        <5> QED
          BY <5>1, <5>2 DEF JobInv
      <4> QED
        BY <2>1, <4>1, <4>2 DEF Inv
  <2>3. ASSUME NEW j \in Job, Step(j) PROVE Inv'
    <3>1. OneAtATime' /\ \A k \in Job \ {j} : Undisturbed(k)
      BY <2>3, ActorIsAlone DEF Inv
    <3>2. JobInv(j)'
      BY <2>3, GateStep, TreeStep, SnapshotStep, VolumeStep, RolledStep DEF Inv, JobInv
    <3>3. \A k \in Job \ {j} : JobInv(k)'
      BY <3>1, OthersKeepJobInv DEF Inv
    <3>4. PointerIsTruthful'
      BY <2>3, PointerStep DEF Inv, JobInv
    <3> QED
      BY <2>1, <3>1, <3>2, <3>3, <3>4 DEF Inv
  <2> QED
    BY <2>2, <2>3 DEF Next
<1> QED
  BY <1>1, <1>2, PTL DEF Spec

\* When containers are about to be replaced, the deploy path holds the job's own
\* candidate and a scan of this very job accepted the images that are there,
\* for every verdict of the gate and every outcome of the rebuild.
THEOREM RolloutSafety == Spec => []RolloutIsWhatWasChecked
<1>1. Inv => RolloutIsWhatWasChecked
  BY DEF Inv, JobInv, GateInv, TreeInv, RolloutIsWhatWasChecked, Synced, Work, Before
<1> QED
  BY <1>1, Invariant, PTL

\* last-successful.json names a job that replaced containers, and until another
\* one does, the images that the containers run.
THEOREM PointerSafety == Spec => []PointerIsTruthful
<1>1. Inv => PointerIsTruthful
  BY DEF Inv
<1> QED
  BY <1>1, Invariant, PTL

\* The snapshot a job announced is a whole archive of the tree it replaces,
\* until the end of the job.
THEOREM ArchiveSafety == Spec => []ReplacedTreeIsArchived
<1>1. Inv => ReplacedTreeIsArchived
  <2> SUFFICES ASSUME Inv, NEW j \in Job, stage[j] \in Active, run[j].snapshot
               PROVE  \E n \in 1 .. Len(snaps) :
                         snaps[n] = [tree |-> run[j].before, whole |-> TRUE]
    BY DEF ReplacedTreeIsArchived
  <2>1. snaps # << >> /\ snaps[Len(snaps)] = [tree |-> run[j].before, whole |-> TRUE]
    BY DEF Inv, JobInv, SnapshotInv
  <2>2. snaps \in Seq([tree : Tree, whole : BOOLEAN])
    BY DEF Inv, TypeOK
  <2>3. Len(snaps) \in 1 .. Len(snaps)
    BY <2>1, <2>2, EmptySeq, LenProperties
  <2> QED
    BY <2>1, <2>3
<1> QED
  BY <1>1, Invariant, PTL

\* No volume is created while one that may not be is missing, and none is
\* missing when containers are replaced or probed.
THEOREM VolumeSafety == Spec => []VolumesAreNotSubstituted
<1>1. Inv => VolumesAreNotSubstituted
  BY DEF Inv, JobInv, VolumeInv, VolumesAreNotSubstituted, WithVolumes
<1> QED
  BY <1>1, Invariant, PTL
=============================================================================
