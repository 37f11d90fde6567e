--------------------------- MODULE StaticSite_proofs --------------------------
(* The safety theorems of StaticSite, for every set of jobs and SHAs.      *)
EXTENDS StaticSite, Integers, TLAPS

\* Copying and deleting the files of a volume, whole or half, yields contents.
LEMMA ContentsOperators ==
    /\ Empty \in Contents
    /\ \A w \in Version : Exactly(w) \in Contents
    /\ \A c, d \in Contents :
          CopiedOver(c, d) \in Contents /\ HalfDeleted(c) \in Contents
            /\ HalfCopied(c, d) \in Contents
  BY DEF Empty, Exactly, Contents, CopiedOver, HalfDeleted, HalfCopied

\* cp -a into an empty volume makes the copy equal to its source.
LEMMA CopyIntoEmpty == \A c \in Contents : CopiedOver(Empty, c) = c
  BY DEF Empty, Contents, CopiedOver

\* Every step of the try block belongs to one of the phases the evidence names.
LEMMA PhaseOfTryStep == \A step \in TrySteps : PhaseOf(step) \in Phase
  BY DEF PhaseOf, TrySteps, Phase

\* A version names the directory that holds its source.
LEMMA VersionsAreDirectories ==
    /\ Sha \subseteq Version /\ Version \subseteq Directory
    /\ {"old", "partial", "absent"} \subseteq Directory
  BY DEF Version, Directory

\* What a step of the try block may have done before it failed is well typed.
LEMMA PartialEffectTyped ==
    ASSUME TypeOK, NEW j \in Job, PartialEffect(j)
    PROVE  /\ stable' \in Contents
           /\ candidate' \in [Sha -> Contents]
           /\ backup' \in [Sha -> Contents]
           /\ aside' \in [Sha -> Directory]
<1> USE ContentsOperators, VersionsAreDirectories DEF TypeOK
<1>1. sha[j] \in Sha /\ Exactly(sha[j]) \in Contents
  OBVIOUS
<1>2. stable' \in Contents
  <2>1. HalfDeleted(stable) \in Contents
    OBVIOUS
  <2>2. HalfCopied(stable, candidate[sha[j]]) \in Contents
    BY <1>1
  <2> QED
    BY <2>1, <2>2 DEF PartialEffect
<1>3. candidate' \in [Sha -> Contents]
  <2>1. HalfCopied(candidate[sha[j]], Exactly(sha[j])) \in Contents
    BY <1>1
  <2> QED
    BY <1>1, <2>1 DEF PartialEffect
<1>4. backup' \in [Sha -> Contents]
  <2>1. HalfCopied(backup[sha[j]], stable) \in Contents
    BY <1>1
  <2> QED
    BY <1>1, <2>1 DEF PartialEffect
<1>5. aside' \in [Sha -> Directory]
  BY <1>1 DEF PartialEffect
<1> QED
  BY <1>2, <1>3, <1>4, <1>5

\* So is what a failing command of the except block may have done.
LEMMA PartialUndoTyped ==
    ASSUME TypeOK, NEW j \in Job, PartialUndo(j)
    PROVE  stable' \in Contents
<1>1. HalfDeleted(stable) \in Contents /\ HalfCopied(stable, backup[sha[j]]) \in Contents
  BY ContentsOperators DEF TypeOK
<1> QED
  BY <1>1 DEF PartialUndo, TypeOK

\* The volumes, the directories and the jobs of deploy_static_site stay within
\* their types, also when a docker command stops half way.
THEOREM TypeCorrect == Spec => []TypeOK
<1> USE StaticSiteAssumption, ContentsOperators, PhaseOfTryStep, VersionsAreDirectories
<1> USE DEF TypeOK, Running, Ended, TrySteps, UndoSteps, At, Goto, volumes, directories,
            history
<1>1. Init => TypeOK
  BY DEF Init, Phase, Version
<1>2. TypeOK /\ [Next]_vars => TypeOK'
  <2> SUFFICES ASSUME TypeOK, [Next]_vars PROVE TypeOK'
    OBVIOUS
  <2>1. CASE UNCHANGED vars
    BY <2>1 DEF vars
  <2>2. ASSUME NEW j \in Job, Start(j) PROVE TypeOK'
    BY <2>2 DEF Start
  <2>3. ASSUME NEW j \in Job, StageSource(j) PROVE TypeOK'
    BY <2>3 DEF StageSource
  <2>4. ASSUME NEW j \in Job, StageFails(j) PROVE TypeOK'
    BY <2>4 DEF StageFails
  <2>5. ASSUME NEW j \in Job, PrepareVolumes(j) PROVE TypeOK'
    BY <2>5 DEF PrepareVolumes, RemoveVolumes
  <2>6. ASSUME NEW j \in Job, Build(j) PROVE TypeOK'
    BY <2>6 DEF Build
  <2>7. ASSUME NEW j \in Job, BackupStable(j) PROVE TypeOK'
    BY <2>7 DEF BackupStable
  <2>8. ASSUME NEW j \in Job, ClearStable(j) PROVE TypeOK'
    BY <2>8 DEF ClearStable
  <2>9. ASSUME NEW j \in Job, FillStable(j) PROVE TypeOK'
    BY <2>9 DEF FillStable
  <2>10. ASSUME NEW j \in Job, VerifyStable(j) PROVE TypeOK'
    BY <2>10 DEF VerifyStable
  <2>11. ASSUME NEW j \in Job, MoveAside(j) PROVE TypeOK'
    BY <2>11 DEF MoveAside
  <2>12. ASSUME NEW j \in Job, MoveInto(j) PROVE TypeOK'
    BY <2>12 DEF MoveInto
  <2>13. ASSUME NEW j \in Job, DropAside(j) PROVE TypeOK'
    BY <2>13 DEF DropAside
  <2>14. ASSUME NEW j \in Job, Cleanup(j) PROVE TypeOK'
    BY <2>14 DEF Cleanup, RemoveVolumes
  <2>15. ASSUME NEW j \in Job, WriteEvidence(j) PROVE TypeOK'
    BY <2>15 DEF WriteEvidence
  <2>16. ASSUME NEW j \in Job, StepFails(j) PROVE TypeOK'
    BY <2>16, PartialEffectTyped DEF StepFails
  <2>17. ASSUME NEW j \in Job, UndoClear(j) PROVE TypeOK'
    BY <2>17 DEF UndoClear
  <2>18. ASSUME NEW j \in Job, UndoFill(j) PROVE TypeOK'
    BY <2>18 DEF UndoFill
  <2>19. ASSUME NEW j \in Job, UndoFails(j) PROVE TypeOK'
    BY <2>19, PartialUndoTyped DEF UndoFails, Phase
  <2>20. ASSUME NEW j \in Job, UndoSource(j) PROVE TypeOK'
    BY <2>20 DEF UndoSource
  <2>21. ASSUME NEW j \in Job, UndoSourceFails(j) PROVE TypeOK'
    BY <2>21 DEF UndoSourceFails
  <2>22. ASSUME NEW j \in Job, UndoCleanup(j) PROVE TypeOK'
    BY <2>22 DEF UndoCleanup, RemoveVolumes
  <2>23. ASSUME NEW j \in Job, Crash(j) PROVE TypeOK'
    <3>1. CASE PartialEffect(j)
      BY <2>23, <3>1, PartialEffectTyped DEF Crash
    <3>2. CASE PartialUndo(j) /\ UNCHANGED <<candidate, backup, aside>>
      BY <2>23, <3>2, PartialUndoTyped DEF Crash
    <3> QED
      BY <2>23, <3>1, <3>2 DEF Crash
  <2> QED
    BY <2>1, <2>2, <2>3, <2>4, <2>5, <2>6, <2>7, <2>8, <2>9, <2>10, <2>11,
       <2>12, <2>13, <2>14, <2>15, <2>16, <2>17, <2>18, <2>19, <2>20, <2>21,
       <2>22, <2>23 DEF Next, Step
<1> QED
  BY <1>1, <1>2, PTL DEF Spec

-----------------------------------------------------------------------------
(* One job at a time, and what its stage says of the backup.               *)

OneRuns == \A j, k \in Job : pc[j] \in Running /\ pc[k] \in Running => j = k

BeforeBackup == {"stage", "volumes", "build", "backup"}
WithBackup == (StableChanged \ {"evidence"}) \cup {"undoclear", "undofill"}

\* Up to the backup the stable volume is as the job found it; then the backup
\* is, until the cleanup, if the job began with an empty one.
BackupInv ==
    \A j \in Job :
        /\ pc[j] \in BeforeBackup => stable = stableBefore[j]
        /\ pc[j] \in {"build", "backup"} /\ ~ leftover[j] => backup[sha[j]] = Empty
        /\ pc[j] \in WithBackup /\ phase[j] # "cleanup" /\ ~ leftover[j]
              => backup[sha[j]] = stableBefore[j]
        /\ pc[j] = "undofill" /\ phase[j] # "cleanup" => stable = Empty
        /\ (/\ pc[j] \in {"undosource", "undocleanup"}
            /\ phase[j] \notin {"cleanup", "rollback-failed"}
            /\ ~ leftover[j])
              => stable = stableBefore[j]
        /\ pc[j] \in {"idle", "stage"} \cup TrySteps => phase[j] = "none"
        /\ pc[j] = "idle" => ~ leftover[j]

\* Jobs of one site run one at a time, the stable volume is changed only while
\* its backup equals what the job found, and a rollback that works puts it back.
LEMMA BackupsAreKept == Spec => [](OneRuns /\ BackupInv)
<1> DEFINE Inv == OneRuns /\ BackupInv
<1> USE StaticSiteAssumption, ContentsOperators, CopyIntoEmpty
<1> USE DEF OneRuns, BackupInv, BeforeBackup, WithBackup, StableChanged, TypeOK,
            Running, Ended, TrySteps, UndoSteps, At, Goto, volumes, directories, history
<1>1. Init => Inv
  BY DEF Init
<1>2. TypeOK /\ Inv /\ [Next]_vars => Inv'
  <2> SUFFICES ASSUME TypeOK, Inv, [Next]_vars PROVE Inv'
    OBVIOUS
  <2>1. CASE UNCHANGED vars
    BY <2>1 DEF vars
  <2>2. ASSUME NEW j \in Job, Start(j) PROVE Inv'
    BY <2>2 DEF Start
  <2>3. ASSUME NEW j \in Job, StageSource(j) PROVE Inv'
    BY <2>3 DEF StageSource
  <2>4. ASSUME NEW j \in Job, StageFails(j) PROVE Inv'
    BY <2>4 DEF StageFails
  <2>5. ASSUME NEW j \in Job, PrepareVolumes(j) PROVE Inv'
    <3>1. /\ pc[j] = "volumes" /\ pc' = [pc EXCEPT ![j] = "build"]
          /\ UNCHANGED <<sha, stable, phase, stableBefore>>
      BY <2>5 DEF PrepareVolumes
    <3>2. leftover' = [leftover EXCEPT ![j] = backup'[sha[j]] # Empty]
      BY <2>5 DEF PrepareVolumes
    <3>3. ~ leftover'[j] => backup'[sha'[j]] = Empty
      BY <3>1, <3>2
    <3>4. \A k \in Job \ {j} : pc[k] \notin Running /\ pc'[k] = pc[k] /\ leftover'[k] = leftover[k]
      BY <3>1, <3>2
    <3> QED
      BY <3>1, <3>3, <3>4
  <2>6. ASSUME NEW j \in Job, Build(j) PROVE Inv'
    BY <2>6 DEF Build
  <2>7. ASSUME NEW j \in Job, BackupStable(j) PROVE Inv'
    BY <2>7 DEF BackupStable
  <2>8. ASSUME NEW j \in Job, ClearStable(j) PROVE Inv'
    BY <2>8 DEF ClearStable
  <2>9. ASSUME NEW j \in Job, FillStable(j) PROVE Inv'
    BY <2>9 DEF FillStable
  <2>10. ASSUME NEW j \in Job, VerifyStable(j) PROVE Inv'
    BY <2>10 DEF VerifyStable
  <2>11. ASSUME NEW j \in Job, MoveAside(j) PROVE Inv'
    BY <2>11 DEF MoveAside
  <2>12. ASSUME NEW j \in Job, MoveInto(j) PROVE Inv'
    BY <2>12 DEF MoveInto
  <2>13. ASSUME NEW j \in Job, DropAside(j) PROVE Inv'
    BY <2>13 DEF DropAside
  <2>14. ASSUME NEW j \in Job, Cleanup(j) PROVE Inv'
    BY <2>14 DEF Cleanup, RemoveVolumes
  <2>15. ASSUME NEW j \in Job, WriteEvidence(j) PROVE Inv'
    BY <2>15 DEF WriteEvidence
  <2>16. ASSUME NEW j \in Job, StepFails(j) PROVE Inv'
    <3>1. pc' = [pc EXCEPT ![j] = IF pc[j] \in StableChanged THEN "undoclear" ELSE "undosource"]
      BY <2>16 DEF StepFails
    <3>2. phase' = [phase EXCEPT ![j] = PhaseOf(pc[j])]
      BY <2>16 DEF StepFails
    <3>3. pc[j] \in TrySteps \ {"cleanup"} /\ UNCHANGED <<sha, history>>
      BY <2>16 DEF StepFails
    <3>4. \A k \in Job \ {j} : pc[k] \notin Running
      BY <3>3
    <3>5. OneRuns'
      BY <3>1, <3>3
    <3>6. CASE pc[j] \in {"volumes", "build", "backup"}
      <4>1. stable' = stable
        BY <2>16, <3>6 DEF StepFails, PartialEffect
      <4>2. pc'[j] = "undosource" /\ stable' = stableBefore'[j]
        BY <3>1, <3>3, <3>6, <4>1
      <4> QED
        BY <3>1, <3>2, <3>3, <3>4, <3>5, <4>2
    <3>7. CASE pc[j] \in StableChanged \ {"evidence"}
      <4>1. backup' = backup
        BY <2>16, <3>7 DEF StepFails, PartialEffect
      <4>2. pc'[j] = "undoclear" /\ (~ leftover'[j] => backup'[sha'[j]] = stableBefore'[j])
        BY <3>1, <3>3, <3>7, <4>1
      <4> QED
        BY <3>1, <3>2, <3>3, <3>4, <3>5, <4>2
    <3>8. CASE pc[j] = "evidence"
      <4>1. pc'[j] = "undoclear" /\ phase'[j] = "cleanup"
        BY <3>1, <3>2, <3>8 DEF PhaseOf
      <4> QED
        BY <3>1, <3>2, <3>3, <3>4, <3>5, <4>1
    <3> QED
      BY <3>3, <3>6, <3>7, <3>8
  <2>17. ASSUME NEW j \in Job, UndoClear(j) PROVE Inv'
    BY <2>17 DEF UndoClear
  <2>18. ASSUME NEW j \in Job, UndoFill(j) PROVE Inv'
    BY <2>18 DEF UndoFill
  <2>19. ASSUME NEW j \in Job, UndoFails(j) PROVE Inv'
    BY <2>19 DEF UndoFails, PartialUndo
  <2>20. ASSUME NEW j \in Job, UndoSource(j) PROVE Inv'
    BY <2>20 DEF UndoSource
  <2>21. ASSUME NEW j \in Job, UndoSourceFails(j) PROVE Inv'
    BY <2>21 DEF UndoSourceFails
  <2>22. ASSUME NEW j \in Job, UndoCleanup(j) PROVE Inv'
    BY <2>22 DEF UndoCleanup, RemoveVolumes
  <2>23. ASSUME NEW j \in Job, Crash(j) PROVE Inv'
    BY <2>23 DEF Crash, PartialEffect, PartialUndo
  <2> QED
    BY <2>1, <2>2, <2>3, <2>4, <2>5, <2>6, <2>7, <2>8, <2>9, <2>10, <2>11,
       <2>12, <2>13, <2>14, <2>15, <2>16, <2>17, <2>18, <2>19, <2>20, <2>21,
       <2>22, <2>23 DEF Next, Step
<1> QED
  BY <1>1, <1>2, TypeCorrect, PTL DEF Spec

\* While the stable volume is being changed, what the job found there exists in
\* it or in the backup, unless an earlier job's backup volume was in the way.
THEOREM BackupSafety == Spec => []BeforeIsKept
<1>1. TypeOK /\ BackupInv => BeforeIsKept
  BY DEF BackupInv, WithBackup, BeforeIsKept, TypeOK
<1> QED
  BY <1>1, TypeCorrect, BackupsAreKept, PTL

\* A job passes by writing its evidence and fails by the cleanup of the except
\* block, and by no other step (deploy_static_site, its two exits).
LEMMA LastSteps ==
    ASSUME TypeOK, [Next]_vars, NEW j \in Job
    PROVE  /\ pc[j] # "passed" /\ pc'[j] = "passed" => WriteEvidence(j)
           /\ pc[j] # "failed" /\ pc'[j] = "failed" => UndoCleanup(j)
<1> USE DEF TypeOK, At, Goto
<1>1. CASE UNCHANGED vars
  BY <1>1 DEF vars
<1>2. ASSUME NEW k \in Job, Start(k) \/ Crash(k)
      PROVE  pc'[j] \in {pc[j], "stage", "crashed"}
  BY <1>2 DEF Start, Crash
<1>3. ASSUME NEW k \in Job, Step(k), ~ WriteEvidence(k), ~ UndoCleanup(k)
      PROVE  pc'[j] = pc[j] \/ pc'[j] \notin {"passed", "failed"}
  BY <1>3 DEF Step, StageSource, StageFails, PrepareVolumes, Build, BackupStable,
       ClearStable, FillStable, VerifyStable, MoveAside, MoveInto, DropAside, Cleanup,
       StepFails, UndoClear, UndoFill, UndoFails, UndoSource, UndoSourceFails
<1>4. ASSUME NEW k \in Job, k # j, WriteEvidence(k) \/ UndoCleanup(k)
      PROVE  pc'[j] = pc[j]
  BY <1>4 DEF WriteEvidence, UndoCleanup
<1>5. WriteEvidence(j) => pc'[j] = "passed"
  BY DEF WriteEvidence
<1>6. UndoCleanup(j) => pc'[j] = "failed"
  BY DEF UndoCleanup
<1> QED
  BY <1>1, <1>2, <1>3, <1>4, <1>5, <1>6 DEF Next

\* A job that fails before its cleanup, without a failed rollback, has restored
\* the stable volume it found, unless an earlier job's backup was in the way.
THEOREM RestoreSafety == Spec => FailureRestoresVolume
<1> DEFINE Restores ==
      \A j \in Job :
          (/\ pc'[j] = "failed" /\ pc[j] # "failed"
           /\ phase[j] \notin {"cleanup", "rollback-failed"}
           /\ ~ leftover[j])
              => stable' = stableBefore[j]
<1>1. TypeOK /\ BackupInv /\ [Next]_vars => [Restores]_vars
  <2> SUFFICES ASSUME TypeOK, BackupInv, [Next]_vars,
                      NEW j \in Job, pc'[j] = "failed" /\ pc[j] # "failed",
                      phase[j] \notin {"cleanup", "rollback-failed"}, ~ leftover[j]
               PROVE  stable' = stableBefore[j]
    OBVIOUS
  <2>1. UndoCleanup(j)
    BY LastSteps
  <2> QED
    BY <2>1 DEF UndoCleanup, At, BackupInv
<1> QED
  BY <1>1, TypeCorrect, BackupsAreKept, PTL DEF Spec, FailureRestoresVolume

-----------------------------------------------------------------------------
(* What is published, and where the source directory is.                   *)

\* Files of other versions never get into a candidate volume, so that a copy
\* over a leftover one is the build of its own SHA and nothing else.
OwnFilesOnly == \A h \in Sha : \A v \in Version : v # h => candidate[h][v] = "none"

Published == {"verify", "moveaside", "moveinto", "dropaside", "cleanup", "evidence"}
Built == {"backup", "clear", "fill"}
SourceInPlace == {"dropaside", "cleanup", "evidence"}

PublishInv ==
    /\ OwnFilesOnly
    /\ \A j \in Job :
          /\ pc[j] \in TrySteps \ SourceInPlace => staged[sha[j]] = sha[j]
          /\ pc[j] \in Built => candidate[sha[j]] = Exactly(sha[j])
          /\ pc[j] = "fill" => stable = Empty
          /\ pc[j] \in Published => stable = Exactly(sha[j])
          /\ pc[j] \in SourceInPlace => root = sha[j]

\* Set aside, the source is below its backup path, if there was one at all.
SetAside(j) ==
    /\ root = "absent"
    /\ moved[j] => aside[sha[j]] = rootBefore[j] /\ rootBefore[j] # "absent"
    /\ ~ moved[j] => rootBefore[j] = "absent"

Replaced(j) ==
    root = sha[j] /\ phase[j] \in {"promote-source", "cleanup", "rollback-failed"}

SourceInv ==
    \A j \in Job :
        /\ pc[j] \in {"idle", "stage"} \cup (TrySteps \ (SourceInPlace \cup {"moveinto"}))
              => ~ moved[j]
        /\ pc[j] \in {"stage"} \cup (TrySteps \ (SourceInPlace \cup {"moveinto"}))
              => root = rootBefore[j]
        /\ pc[j] = "moveinto" => SetAside(j)
        /\ pc[j] \in {"undoclear", "undofill", "undosource"}
              => \/ root = rootBefore[j] /\ ~ moved[j]
                 \/ SetAside(j)
                 \/ Replaced(j)
        /\ pc[j] = "undocleanup" => root = rootBefore[j] \/ Replaced(j)

\* The build of a SHA over files of that SHA is exactly that version.
LEMMA CopyOverOwnFiles ==
    ASSUME NEW h \in Sha, NEW c \in Contents, \A v \in Version : v # h => c[v] = "none"
    PROVE  CopiedOver(c, Exactly(h)) = Exactly(h)
<1>1. h \in Version /\ Exactly(h)[h] = "all"
  BY DEF Version, Exactly
<1>2. Exactly(h) # Empty
  BY <1>1 DEF Empty
<1> QED
  BY <1>1, <1>2 DEF CopiedOver, Exactly, Contents

\* Nor does a build that stops half way bring files of another version.
LEMMA HalfCopyOverOwnFiles ==
    ASSUME NEW h \in Sha, NEW c \in Contents, \A v \in Version : v # h => c[v] = "none"
    PROVE  \A v \in Version : v # h => HalfCopied(c, Exactly(h))[v] = "none"
<1>1. CopiedOver(c, Exactly(h)) = Exactly(h)
  BY CopyOverOwnFiles
<1> QED
  BY <1>1 DEF HalfCopied, HalfDeleted, Exactly

\* Removing the volumes of a job and a build that fails half way keep every
\* candidate volume free of other versions.
LEMMA OwnFilesRemain ==
    ASSUME TypeOK, OwnFilesOnly, NEW j \in Job, RemoveVolumes(j) \/ PartialEffect(j)
    PROVE  OwnFilesOnly'
<1> USE DEF TypeOK
<1>1. \E c \in {candidate[sha[j]], Empty, HalfCopied(candidate[sha[j]], Exactly(sha[j]))} :
         candidate' = [candidate EXCEPT ![sha[j]] = c]
  <2>1. candidate = [candidate EXCEPT ![sha[j]] = candidate[sha[j]]]
    OBVIOUS
  <2> QED
    BY <2>1 DEF RemoveVolumes, PartialEffect
<1>2. \A v \in Version : v # sha[j] =>
         HalfCopied(candidate[sha[j]], Exactly(sha[j]))[v] = "none"
  BY HalfCopyOverOwnFiles DEF OwnFilesOnly
<1>3. \A v \in Version : v # sha[j] => candidate[sha[j]][v] = "none" /\ Empty[v] = "none"
  BY DEF OwnFilesOnly, Empty
<1> QED
  BY <1>1, <1>2, <1>3 DEF OwnFilesOnly

\* From the build on, what is promoted is the candidate of the job's own SHA
\* and the staged source is the one of its own SHA (runner.py, promote-volume
\* and promote-source).
LEMMA PublishInvariant == Spec => []PublishInv
<1> USE StaticSiteAssumption, ContentsOperators, CopyIntoEmpty
<1> USE DEF PublishInv, OwnFilesOnly, Published, Built, SourceInPlace, OneRuns, TypeOK,
            Running, Ended, TrySteps, UndoSteps, At, Goto, volumes, directories, history
<1>1. Init => PublishInv
  BY DEF Init, Empty
<1>2. TypeOK /\ OneRuns /\ PublishInv /\ [Next]_vars => PublishInv'
  <2> SUFFICES ASSUME TypeOK, OneRuns, PublishInv, [Next]_vars PROVE PublishInv'
    OBVIOUS
  <2>1. CASE UNCHANGED vars
    BY <2>1 DEF vars
  <2>2. ASSUME NEW j \in Job, Start(j) PROVE PublishInv'
    BY <2>2 DEF Start
  <2>3. ASSUME NEW j \in Job, StageSource(j) PROVE PublishInv'
    BY <2>3 DEF StageSource
  <2>4. ASSUME NEW j \in Job, StageFails(j) PROVE PublishInv'
    BY <2>4 DEF StageFails
  <2>5. ASSUME NEW j \in Job, PrepareVolumes(j) PROVE PublishInv'
    <3>1. OwnFilesOnly'
      BY <2>5, OwnFilesRemain DEF PrepareVolumes
    <3>2. \A k \in Job \ {j} : pc[k] \notin Running
      BY <2>5 DEF PrepareVolumes
    <3> QED
      BY <2>5, <3>1, <3>2 DEF PrepareVolumes
  <2>6. ASSUME NEW j \in Job, Build(j) PROVE PublishInv'
    <3>1. candidate' = [candidate EXCEPT ![sha[j]] = Exactly(sha[j])]
      <4>1. CopiedOver(candidate[sha[j]], Exactly(sha[j])) = Exactly(sha[j])
        BY CopyOverOwnFiles
      <4> QED
        BY <2>6, <4>1 DEF Build
    <3>2. OwnFilesOnly'
      BY <3>1 DEF Exactly
    <3>3. \A k \in Job \ {j} : pc[k] \notin Running
      BY <2>6 DEF Build
    <3> QED
      BY <2>6, <3>1, <3>2, <3>3 DEF Build
  <2>7. ASSUME NEW j \in Job, BackupStable(j) PROVE PublishInv'
    BY <2>7 DEF BackupStable
  <2>8. ASSUME NEW j \in Job, ClearStable(j) PROVE PublishInv'
    BY <2>8 DEF ClearStable
  <2>9. ASSUME NEW j \in Job, FillStable(j) PROVE PublishInv'
    BY <2>9 DEF FillStable
  <2>10. ASSUME NEW j \in Job, VerifyStable(j) PROVE PublishInv'
    BY <2>10 DEF VerifyStable
  <2>11. ASSUME NEW j \in Job, MoveAside(j) PROVE PublishInv'
    BY <2>11 DEF MoveAside
  <2>12. ASSUME NEW j \in Job, MoveInto(j) PROVE PublishInv'
    BY <2>12 DEF MoveInto
  <2>13. ASSUME NEW j \in Job, DropAside(j) PROVE PublishInv'
    BY <2>13 DEF DropAside
  <2>14. ASSUME NEW j \in Job, Cleanup(j) PROVE PublishInv'
    <3>1. OwnFilesOnly'
      BY <2>14, OwnFilesRemain DEF Cleanup
    <3>2. \A k \in Job \ {j} : pc[k] \notin Running
      BY <2>14 DEF Cleanup
    <3> QED
      BY <2>14, <3>1, <3>2 DEF Cleanup
  <2>15. ASSUME NEW j \in Job, WriteEvidence(j) PROVE PublishInv'
    BY <2>15 DEF WriteEvidence
  <2>16. ASSUME NEW j \in Job, StepFails(j) PROVE PublishInv'
    <3>1. OwnFilesOnly'
      BY <2>16, OwnFilesRemain DEF StepFails
    <3>2. \A k \in Job \ {j} : pc[k] \notin Running
      BY <2>16 DEF StepFails
    <3>3. pc'[j] \in {"undoclear", "undosource"} /\ \A k \in Job \ {j} : pc'[k] = pc[k]
      BY <2>16 DEF StepFails
    <3> QED
      BY <3>1, <3>2, <3>3
  <2>17. ASSUME NEW j \in Job, UndoClear(j) PROVE PublishInv'
    BY <2>17 DEF UndoClear
  <2>18. ASSUME NEW j \in Job, UndoFill(j) PROVE PublishInv'
    BY <2>18 DEF UndoFill
  <2>19. ASSUME NEW j \in Job, UndoFails(j) PROVE PublishInv'
    BY <2>19 DEF UndoFails, PartialUndo
  <2>20. ASSUME NEW j \in Job, UndoSource(j) PROVE PublishInv'
    BY <2>20 DEF UndoSource, RestoreSource
  <2>21. ASSUME NEW j \in Job, UndoSourceFails(j) PROVE PublishInv'
    BY <2>21 DEF UndoSourceFails
  <2>22. ASSUME NEW j \in Job, UndoCleanup(j) PROVE PublishInv'
    <3>1. OwnFilesOnly'
      BY <2>22, OwnFilesRemain DEF UndoCleanup
    <3>2. \A k \in Job \ {j} : pc[k] \notin Running
      BY <2>22 DEF UndoCleanup
    <3> QED
      BY <2>22, <3>1, <3>2 DEF UndoCleanup
  <2>23. ASSUME NEW j \in Job, Crash(j) PROVE PublishInv'
    <3>1. OwnFilesOnly'
      BY <2>23, OwnFilesRemain DEF Crash
    <3>2. \A k \in Job \ {j} : pc[k] \notin Running
      BY <2>23 DEF Crash
    <3>3. pc'[j] = "crashed" /\ \A k \in Job \ {j} : pc'[k] = pc[k]
      BY <2>23 DEF Crash
    <3> QED
      BY <3>1, <3>2, <3>3
  <2> QED
    BY <2>1, <2>2, <2>3, <2>4, <2>5, <2>6, <2>7, <2>8, <2>9, <2>10, <2>11,
       <2>12, <2>13, <2>14, <2>15, <2>16, <2>17, <2>18, <2>19, <2>20, <2>21,
       <2>22, <2>23 DEF Next, Step
<1> QED
  BY <1>1, <1>2, TypeCorrect, BackupsAreKept, PTL DEF Spec

\* A job that passes leaves its own version in the stable volume and its own
\* source below the deploy root, whatever earlier jobs left behind.
THEOREM PublishSafety == Spec => PassedMeansPublished
<1> DEFINE Publishes ==
      \A j \in Job :
          (pc[j] # "passed" /\ pc'[j] = "passed")
              => stable' = Exactly(sha[j]) /\ root' = sha[j]
<1>1. TypeOK /\ PublishInv /\ [Next]_vars => [Publishes]_vars
  BY LastSteps DEF WriteEvidence, At, PublishInv, Published, SourceInPlace, volumes,
                   directories
<1> QED
  BY <1>1, TypeCorrect, PublishInvariant, PTL DEF Spec, PassedMeansPublished

\* Where the source directory is at each step: where the job found it, set
\* aside, or replaced (runner.py, source_moved and the two renames).
LEMMA SourceInvariant == Spec => []SourceInv
<1> USE StaticSiteAssumption
<1> USE DEF SourceInv, SetAside, Replaced, SourceInPlace, PublishInv, OneRuns, TypeOK,
            Running, Ended, TrySteps, UndoSteps, At, Goto, volumes, directories, history
<1>1. Init => SourceInv
  BY DEF Init
<1>2. TypeOK /\ OneRuns /\ PublishInv /\ SourceInv /\ [Next]_vars => SourceInv'
  <2> SUFFICES ASSUME TypeOK, OneRuns, PublishInv, SourceInv, [Next]_vars PROVE SourceInv'
    OBVIOUS
  <2>1. CASE UNCHANGED vars
    BY <2>1 DEF vars
  <2>2. ASSUME NEW j \in Job, Start(j) PROVE SourceInv'
    BY <2>2 DEF Start
  <2>3. ASSUME NEW j \in Job, StageSource(j) PROVE SourceInv'
    BY <2>3 DEF StageSource
  <2>4. ASSUME NEW j \in Job, StageFails(j) PROVE SourceInv'
    BY <2>4 DEF StageFails
  <2>5. ASSUME NEW j \in Job, PrepareVolumes(j) PROVE SourceInv'
    BY <2>5 DEF PrepareVolumes, RemoveVolumes
  <2>6. ASSUME NEW j \in Job, Build(j) PROVE SourceInv'
    BY <2>6 DEF Build
  <2>7. ASSUME NEW j \in Job, BackupStable(j) PROVE SourceInv'
    BY <2>7 DEF BackupStable
  <2>8. ASSUME NEW j \in Job, ClearStable(j) PROVE SourceInv'
    BY <2>8 DEF ClearStable
  <2>9. ASSUME NEW j \in Job, FillStable(j) PROVE SourceInv'
    BY <2>9 DEF FillStable
  <2>10. ASSUME NEW j \in Job, VerifyStable(j) PROVE SourceInv'
    BY <2>10 DEF VerifyStable
  <2>11. ASSUME NEW j \in Job, MoveAside(j) PROVE SourceInv'
    BY <2>11 DEF MoveAside
  <2>12. ASSUME NEW j \in Job, MoveInto(j) PROVE SourceInv'
    BY <2>12 DEF MoveInto
  <2>13. ASSUME NEW j \in Job, DropAside(j) PROVE SourceInv'
    BY <2>13 DEF DropAside
  <2>14. ASSUME NEW j \in Job, Cleanup(j) PROVE SourceInv'
    BY <2>14 DEF Cleanup, RemoveVolumes
  <2>15. ASSUME NEW j \in Job, WriteEvidence(j) PROVE SourceInv'
    BY <2>15 DEF WriteEvidence
  <2>16. ASSUME NEW j \in Job, StepFails(j) PROVE SourceInv'
    BY <2>16 DEF StepFails, PartialEffect, PhaseOf
  <2>17. ASSUME NEW j \in Job, UndoClear(j) PROVE SourceInv'
    BY <2>17 DEF UndoClear
  <2>18. ASSUME NEW j \in Job, UndoFill(j) PROVE SourceInv'
    BY <2>18 DEF UndoFill
  <2>19. ASSUME NEW j \in Job, UndoFails(j) PROVE SourceInv'
    BY <2>19 DEF UndoFails, PartialUndo
  <2>20. ASSUME NEW j \in Job, UndoSource(j) PROVE SourceInv'
    BY <2>20 DEF UndoSource, RestoreSource
  <2>21. ASSUME NEW j \in Job, UndoSourceFails(j) PROVE SourceInv'
    BY <2>21 DEF UndoSourceFails
  <2>22. ASSUME NEW j \in Job, UndoCleanup(j) PROVE SourceInv'
    BY <2>22 DEF UndoCleanup, RemoveVolumes
  <2>23. ASSUME NEW j \in Job, Crash(j) PROVE SourceInv'
    BY <2>23 DEF Crash, PartialEffect, PartialUndo
  <2> QED
    BY <2>1, <2>2, <2>3, <2>4, <2>5, <2>6, <2>7, <2>8, <2>9, <2>10, <2>11,
       <2>12, <2>13, <2>14, <2>15, <2>16, <2>17, <2>18, <2>19, <2>20, <2>21,
       <2>22, <2>23 DEF Next, Step
<1> QED
  BY <1>1, <1>2, TypeCorrect, BackupsAreKept, PublishInvariant, PTL DEF Spec

\* A job that fails before its source is in place leaves the one it found.
THEOREM SourceSafety == Spec => FailureKeepsSource
<1> DEFINE Keeps ==
      \A j \in Job :
          (pc'[j] = "failed" /\ pc[j] # "failed" /\ root' # rootBefore[j])
              => root' = sha[j] /\ phase[j] \in {"promote-source", "cleanup", "rollback-failed"}
<1>1. TypeOK /\ SourceInv /\ [Next]_vars => [Keeps]_vars
  BY LastSteps DEF UndoCleanup, At, SourceInv, Replaced
<1> QED
  BY <1>1, TypeCorrect, SourceInvariant, PTL DEF Spec, FailureKeepsSource
-----------------------------------------------------------------------------
(* The end of a job: its steps have an order, and the except block comes   *)
(* after all of the try block.                                             *)
Place ==
    [step \in {"idle"} \cup Running \cup Ended |->
        CASE step = "idle" -> 0 [] step = "stage" -> 1 [] step = "volumes" -> 2
          [] step = "build" -> 3 [] step = "backup" -> 4 [] step = "clear" -> 5
          [] step = "fill" -> 6 [] step = "verify" -> 7 [] step = "moveaside" -> 8
          [] step = "moveinto" -> 9 [] step = "dropaside" -> 10
          [] step = "cleanup" -> 11 [] step = "evidence" -> 12
          [] step = "undoclear" -> 13 [] step = "undofill" -> 14
          [] step = "undosource" -> 15 [] step = "undocleanup" -> 16
          [] OTHER -> 17]

JobStep(j) == Start(j) \/ Step(j) \/ Crash(j)

EveryStepAdvances ==
    [][\A j \in Job :
          /\ Place[pc[j]] \in 0 .. 17 /\ Place[pc'[j]] \in 0 .. 17
          /\ IF JobStep(j) THEN Place[pc'[j]] > Place[pc[j]] ELSE pc'[j] = pc[j]]_vars

\* Every step of a job goes forward, a failure and the rollback too, and moves
\* no other job (runner.py, deploy_static_site: no loop, nothing tried again).
LEMMA JobsGoForward ==
    ASSUME TypeOK, NEW j \in Job, JobStep(j)
    PROVE  /\ Place[pc'[j]] > Place[pc[j]]
           /\ \A k \in Job \ {j} : pc'[k] = pc[k]
<1>0. /\ Place["idle"] = 0 /\ Place["stage"] = 1 /\ Place["volumes"] = 2
      /\ Place["build"] = 3 /\ Place["backup"] = 4 /\ Place["clear"] = 5
      /\ Place["fill"] = 6 /\ Place["verify"] = 7 /\ Place["moveaside"] = 8
      /\ Place["moveinto"] = 9 /\ Place["dropaside"] = 10 /\ Place["cleanup"] = 11
      /\ Place["evidence"] = 12 /\ Place["undoclear"] = 13 /\ Place["undofill"] = 14
      /\ Place["undosource"] = 15 /\ Place["undocleanup"] = 16
      /\ \A step \in Ended : Place[step] = 17
  BY SMTT(30) DEF Place, Running, TrySteps, UndoSteps, Ended
<1> USE DEF Goto, At
<1> DEFINE Forward == \E step \in Running \cup Ended :
                         pc' = [pc EXCEPT ![j] = step] /\ Place[step] > Place[pc[j]]
<1>1. Forward => /\ Place[pc'[j]] > Place[pc[j]]
                 /\ \A k \in Job \ {j} : pc'[k] = pc[k]
  BY DEF TypeOK
<1> USE <1>0 DEF Running, TrySteps, UndoSteps, Ended
<1>2. ASSUME Start(j) \/ StageSource(j) \/ StageFails(j) \/ PrepareVolumes(j) \/ Build(j)
      PROVE  Forward
  BY <1>2 DEF Start, StageSource, StageFails, PrepareVolumes, Build
<1>3. ASSUME BackupStable(j) \/ ClearStable(j) \/ FillStable(j) \/ VerifyStable(j)
      PROVE  Forward
  BY <1>3 DEF BackupStable, ClearStable, FillStable, VerifyStable
<1>4. ASSUME MoveAside(j) \/ MoveInto(j) \/ DropAside(j) \/ Cleanup(j) \/ WriteEvidence(j)
      PROVE  Forward
  BY <1>4 DEF MoveAside, MoveInto, DropAside, Cleanup, WriteEvidence
<1>5. ASSUME StepFails(j) PROVE Forward
  <2>1. /\ pc[j] \in TrySteps
        /\ \E step \in {"undoclear", "undosource"} : pc' = [pc EXCEPT ![j] = step]
    BY <1>5 DEF StepFails
  <2>2. \A step \in {"undoclear", "undosource"} :
           step \in Running /\ Place[step] > Place[pc[j]]
    BY <2>1, SMTT(30)
  <2> QED
    BY <2>1, <2>2
<1>6. ASSUME UndoClear(j) \/ UndoFill(j) \/ UndoFails(j)
      PROVE  Forward
  BY <1>6 DEF UndoClear, UndoFill, UndoFails
<1>7. ASSUME UndoSource(j) \/ UndoSourceFails(j) \/ UndoCleanup(j)
      PROVE  Forward
  BY <1>7 DEF UndoSource, UndoSourceFails, UndoCleanup
<1>8. ASSUME Crash(j) PROVE Forward
  BY <1>8 DEF Crash
<1> QED
  BY <1>1, <1>2, <1>3, <1>4, <1>5, <1>6, <1>7, <1>8 DEF JobStep, Step

\* A job makes at most 17 steps: a failing step of the try block is not tried
\* again, and a failing one of the rollback leads on (runner.py,
\* deploy_static_site).
THEOREM JobsAreBounded == Spec => EveryStepAdvances
<1>1. \A step \in {"idle"} \cup Running \cup Ended : Place[step] \in 0 .. 17
  BY SMTT(30) DEF Place, Running, TrySteps, UndoSteps, Ended
<1>2. TypeOK /\ TypeOK' /\ [Next]_vars
      => [\A j \in Job :
            /\ Place[pc[j]] \in 0 .. 17 /\ Place[pc'[j]] \in 0 .. 17
            /\ IF JobStep(j) THEN Place[pc'[j]] > Place[pc[j]] ELSE pc'[j] = pc[j]]_vars
  <2> SUFFICES ASSUME TypeOK, TypeOK', Next, NEW j \in Job
               PROVE  /\ Place[pc[j]] \in 0 .. 17 /\ Place[pc'[j]] \in 0 .. 17
                      /\ IF JobStep(j) THEN Place[pc'[j]] > Place[pc[j]]
                                       ELSE pc'[j] = pc[j]
    OBVIOUS
  <2>1. Place[pc[j]] \in 0 .. 17 /\ Place[pc'[j]] \in 0 .. 17
    <3>1. /\ pc[j] \in {"idle"} \cup Running \cup Ended
          /\ pc'[j] \in {"idle"} \cup Running \cup Ended
      BY DEF TypeOK
    <3> QED
      BY <1>1, <3>1
  <2>2. PICK k \in Job : JobStep(k)
    BY DEF Next, JobStep
  <2> QED
    BY <2>1, <2>2, JobsGoForward
<1> QED
  BY <1>2, TypeCorrect, PTL DEF Spec, EveryStepAdvances
=============================================================================
