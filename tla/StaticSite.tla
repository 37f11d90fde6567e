----------------------------- MODULE StaticSite -----------------------------
(***************************************************************************)
(* The static-site deployment (scripts/static_site/runner.py,              *)
(* deploy_static_site): build into a candidate volume, back the stable     *)
(* volume up, replace its contents, swap the source directory, clean up;   *)
(* and on a failure restore the stable volume and the source directory.    *)
(*                                                                         *)
(* A job is one call.  Jobs of one site run one after the other and may be *)
(* for the same SHA, so a job meets what an earlier one left behind.       *)
(* Every docker command may fail or time out; every job may die.           *)
(*                                                                         *)
(* The contents of a volume say of each version whether all, some or none  *)
(* of its files are there.  cp -a copies over what is there, docker volume *)
(* create keeps an existing volume as it is, and docker run -v creates a   *)
(* missing volume, empty.                                                  *)
(***************************************************************************)
CONSTANTS
    Job,
    Sha

ASSUME StaticSiteAssumption == {"old", "partial", "absent"} \cap Sha = {}

Version == Sha \cup {"old"}
Contents == [Version -> {"none", "some", "all"}]
Directory == Version \cup {"partial", "absent"}

VARIABLES
    sha,            \* [Job -> Sha], fixed
    (* docker volumes; a volume that does not exist is as good as empty *)
    stable, candidate, backup,
    (* directories: deploy_root, and stage and source_backup by SHA *)
    root, staged, aside,
    (* the jobs *)
    pc, phase, moved,
    (* history: what each job found when it started, and whether it has met a
       backup volume that would not go *)
    stableBefore, rootBefore, leftover

volumes == <<stable, candidate, backup>>
directories == <<root, staged, aside>>
history == <<stableBefore, rootBefore, leftover>>
vars == <<sha, volumes, directories, pc, phase, moved, history>>

\* The try block, in order, then the except block, in order.
TrySteps == {"volumes", "build", "backup", "clear", "fill", "verify",
             "moveaside", "moveinto", "dropaside", "cleanup", "evidence"}
UndoSteps == {"undoclear", "undofill", "undosource", "undocleanup"}
Running == {"stage"} \cup TrySteps \cup UndoSteps
Ended == {"passed", "failed", "aborted", "crashed"}
\* stable_changed is set just before the first command of promote-volume.
StableChanged == {"clear", "fill", "verify", "moveaside", "moveinto",
                  "dropaside", "cleanup", "evidence"}
Phase == {"none", "prepare-volumes", "build", "backup-volume", "promote-volume",
          "promote-source", "cleanup", "rollback-failed"}

PhaseOf(step) ==
    CASE step = "volumes" -> "prepare-volumes"
      [] step = "build" -> "build"
      [] step = "backup" -> "backup-volume"
      [] step \in {"clear", "fill", "verify"} -> "promote-volume"
      [] step \in {"moveaside", "moveinto", "dropaside"} -> "promote-source"
      [] step \in {"cleanup", "evidence"} -> "cleanup"
      [] OTHER -> "none"

Goto(j, step) == pc' = [pc EXCEPT ![j] = step]
At(j, step) == pc[j] = step

Empty == [v \in Version |-> "none"]
Exactly(w) == [v \in Version |-> IF v = w THEN "all" ELSE "none"]

\* find -delete that stops half way.
HalfDeleted(contents) ==
    [v \in Version |-> IF contents[v] = "none" THEN "none" ELSE "some"]

\* cp -a source/. over the contents: files of other versions stay unless a
\* file of the source has the same name.
CopiedOver(contents, source) ==
    IF source = Empty
       THEN contents
       ELSE [v \in Version |->
               IF source[v] = "all" THEN "all"
               ELSE IF source[v] = "some" \/ contents[v] # "none" THEN "some"
               ELSE "none"]

\* The same, stopped half way.
HalfCopied(contents, source) == HalfDeleted(CopiedOver(contents, source))

\* Either the site has never been deployed, or it stands at "old".
Init ==
    /\ sha \in [Job -> Sha]
    /\ \/ stable = Empty /\ root = "absent"
       \/ stable = Exactly("old") /\ root = "old"
    /\ candidate = [h \in Sha |-> Empty]
    /\ backup = [h \in Sha |-> Empty]
    /\ staged = [h \in Sha |-> "absent"]
    /\ aside = [h \in Sha |-> "absent"]
    /\ pc = [j \in Job |-> "idle"]
    /\ phase = [j \in Job |-> "none"]
    /\ moved = [j \in Job |-> FALSE]
    /\ stableBefore = [j \in Job |-> Empty]
    /\ rootBefore = [j \in Job |-> "absent"]
    /\ leftover = [j \in Job |-> FALSE]

-----------------------------------------------------------------------------
(* Before the try block: staging, whose failures are not undone.           *)

Start(j) ==
    /\ At(j, "idle")
    /\ \A k \in Job : pc[k] \notin Running
    /\ stableBefore' = [stableBefore EXCEPT ![j] = stable]
    /\ rootBefore' = [rootBefore EXCEPT ![j] = root]
    /\ Goto(j, "stage")
    /\ UNCHANGED <<sha, volumes, directories, phase, moved, leftover>>

StageSource(j) ==
    /\ At(j, "stage")
    /\ staged' = [staged EXCEPT ![sha[j]] = sha[j]]
    /\ aside' = [aside EXCEPT ![sha[j]] = "absent"]
    /\ Goto(j, "volumes")
    /\ UNCHANGED <<sha, volumes, root, phase, moved, history>>

\* rmtree, copytree or the look at the Compose file fails.
StageFails(j) ==
    /\ At(j, "stage")
    /\ \/ /\ \E left \in {staged[sha[j]], "partial"} : staged' = [staged EXCEPT ![sha[j]] = left]
          /\ UNCHANGED aside
       \/ /\ \E left \in {"partial", "absent"} :
                /\ staged' = [staged EXCEPT ![sha[j]] = left]
                /\ aside' = [aside EXCEPT ![sha[j]] = "absent"]
    /\ Goto(j, "aborted")
    /\ UNCHANGED <<sha, volumes, root, phase, moved, history>>

-----------------------------------------------------------------------------
(* The docker commands.                                                    *)

\* docker volume rm -f candidate backup, whose exit code nobody looks at: a
\* volume that a container still uses stays.
RemoveVolumes(j) ==
    /\ \/ candidate' = [candidate EXCEPT ![sha[j]] = Empty]
       \/ UNCHANGED candidate
    /\ \/ backup' = [backup EXCEPT ![sha[j]] = Empty]
       \/ UNCHANGED backup

PrepareVolumes(j) ==
    /\ At(j, "volumes")
    /\ RemoveVolumes(j)
    /\ leftover' = [leftover EXCEPT ![j] = backup'[sha[j]] # Empty]
    /\ Goto(j, "build")
    /\ UNCHANGED <<sha, stable, directories, phase, moved, stableBefore, rootBefore>>

\* Build, run the builder into the candidate volume, verify its outputs.
Build(j) ==
    /\ At(j, "build")
    /\ candidate' = [candidate EXCEPT ![sha[j]] = CopiedOver(@, Exactly(sha[j]))]
    /\ Goto(j, "backup")
    /\ UNCHANGED <<sha, stable, backup, directories, phase, moved, history>>

\* Mutation: promotion goes on without a backup.
BackupStable_Skipped(j) ==
    /\ At(j, "backup")
    /\ Goto(j, "clear")
    /\ UNCHANGED <<sha, volumes, directories, phase, moved, history>>

BackupStable(j) ==
    /\ At(j, "backup")
    /\ backup' = [backup EXCEPT ![sha[j]] = CopiedOver(@, stable)]
    /\ Goto(j, "clear")
    /\ UNCHANGED <<sha, stable, candidate, directories, phase, moved, history>>

\* Mutation: the stable volume is not cleared before the copy.
ClearStable_Skipped(j) ==
    /\ At(j, "clear")
    /\ Goto(j, "fill")
    /\ UNCHANGED <<sha, volumes, directories, phase, moved, history>>

ClearStable(j) ==
    /\ At(j, "clear")
    /\ stable' = Empty
    /\ Goto(j, "fill")
    /\ UNCHANGED <<sha, candidate, backup, directories, phase, moved, history>>

FillStable(j) ==
    /\ At(j, "fill")
    /\ stable' = CopiedOver(stable, candidate[sha[j]])
    /\ Goto(j, "verify")
    /\ UNCHANGED <<sha, candidate, backup, directories, phase, moved, history>>

VerifyStable(j) ==
    /\ At(j, "verify")
    /\ Goto(j, "moveaside")
    /\ UNCHANGED <<sha, volumes, directories, phase, moved, history>>

-----------------------------------------------------------------------------
(* The source directory.                                                   *)

MoveAside(j) ==
    /\ At(j, "moveaside")
    /\ IF root = "absent"
          THEN UNCHANGED <<root, aside, moved>>
          ELSE /\ aside' = [aside EXCEPT ![sha[j]] = root]
               /\ root' = "absent"
               /\ moved' = [moved EXCEPT ![j] = TRUE]
    /\ Goto(j, "moveinto")
    /\ UNCHANGED <<sha, volumes, staged, phase, history>>

MoveInto(j) ==
    /\ At(j, "moveinto")
    /\ root' = staged[sha[j]]
    /\ staged' = [staged EXCEPT ![sha[j]] = "absent"]
    /\ Goto(j, "dropaside")
    /\ UNCHANGED <<sha, volumes, aside, phase, moved, history>>

DropAside(j) ==
    /\ At(j, "dropaside")
    /\ aside' = [aside EXCEPT ![sha[j]] = "absent"]
    /\ moved' = [moved EXCEPT ![j] = FALSE]
    /\ Goto(j, "cleanup")
    /\ UNCHANGED <<sha, volumes, root, staged, phase, history>>

Cleanup(j) ==
    /\ At(j, "cleanup")
    /\ RemoveVolumes(j)
    /\ Goto(j, "evidence")
    /\ UNCHANGED <<sha, stable, directories, phase, moved, history>>

WriteEvidence(j) ==
    /\ At(j, "evidence")
    /\ Goto(j, "passed")
    /\ UNCHANGED <<sha, volumes, directories, phase, moved, history>>

-----------------------------------------------------------------------------
(* The except block.                                                       *)

\* What the failing step may have done before it failed.
PartialEffect(j) ==
    /\ \/ UNCHANGED stable
       \/ At(j, "clear") /\ stable' = HalfDeleted(stable)
       \/ At(j, "fill") /\ stable' = HalfCopied(stable, candidate[sha[j]])
    /\ \/ UNCHANGED candidate
       \/ /\ At(j, "build")
          /\ candidate' = [candidate EXCEPT ![sha[j]] = HalfCopied(@, Exactly(sha[j]))]
    /\ \/ UNCHANGED backup
       \/ /\ At(j, "backup")
          /\ backup' = [backup EXCEPT ![sha[j]] = HalfCopied(@, stable)]
    /\ \/ UNCHANGED aside
       \/ /\ At(j, "dropaside")
          /\ aside[sha[j]] # "absent"
          /\ aside' = [aside EXCEPT ![sha[j]] = "partial"]

\* What the failing command of the rollback may have done.
PartialUndo(j) ==
    stable' \in {stable, IF At(j, "undoclear") THEN HalfDeleted(stable)
                         ELSE HalfCopied(stable, backup[sha[j]])}

\* Mutation: an exception in the promotion of the source leaves the volume.
StepFails_VolumeForgotten(j) ==
    /\ pc[j] \in TrySteps \ {"cleanup"}
    /\ PartialEffect(j)
    /\ phase' = [phase EXCEPT ![j] = PhaseOf(pc[j])]
    /\ Goto(j, IF pc[j] \in {"clear", "fill", "verify", "evidence"} THEN "undoclear" ELSE "undosource")
    /\ UNCHANGED <<sha, root, staged, moved, history>>

\* Mutation: the exception ends the job without any rollback of the source.
StepFails_NoUndo(j) ==
    /\ pc[j] \in TrySteps \ {"cleanup"}
    /\ PartialEffect(j)
    /\ phase' = [phase EXCEPT ![j] = PhaseOf(pc[j])]
    /\ Goto(j, "undocleanup")
    /\ UNCHANGED <<sha, root, staged, moved, history>>

\* A command fails or times out, a rename or the evidence file fails: every
\* step can, but for the cleanup, whose only command is not required.
StepFails(j) ==
    /\ pc[j] \in TrySteps \ {"cleanup"}
    /\ PartialEffect(j)
    /\ phase' = [phase EXCEPT ![j] = PhaseOf(pc[j])]
    /\ Goto(j, IF pc[j] \in StableChanged THEN "undoclear" ELSE "undosource")
    /\ UNCHANGED <<sha, root, staged, moved, history>>

UndoClear(j) ==
    /\ At(j, "undoclear")
    /\ stable' = Empty
    /\ Goto(j, "undofill")
    /\ UNCHANGED <<sha, candidate, backup, directories, phase, moved, history>>

UndoFill(j) ==
    /\ At(j, "undofill")
    /\ stable' = CopiedOver(stable, backup[sha[j]])
    /\ Goto(j, "undosource")
    /\ UNCHANGED <<sha, candidate, backup, directories, phase, moved, history>>

\* Mutation: a failed rollback is tried again until it works.
UndoFails_Retried(j) ==
    /\ pc[j] \in {"undoclear", "undofill"}
    /\ PartialUndo(j)
    /\ Goto(j, "undoclear")
    /\ UNCHANGED <<sha, candidate, backup, directories, phase, moved, history>>

\* One of the two commands of the rollback fails; the job carries on.
UndoFails(j) ==
    /\ pc[j] \in {"undoclear", "undofill"}
    /\ PartialUndo(j)
    /\ phase' = [phase EXCEPT ![j] = "rollback-failed"]
    /\ Goto(j, "undosource")
    /\ UNCHANGED <<sha, candidate, backup, directories, moved, history>>

RestoreSource(j) == moved[j] /\ aside[sha[j]] # "absent" /\ root = "absent"

UndoSource(j) ==
    /\ At(j, "undosource")
    /\ IF RestoreSource(j)
          THEN /\ root' = aside[sha[j]]
               /\ aside' = [aside EXCEPT ![sha[j]] = "absent"]
          ELSE UNCHANGED <<root, aside>>
    /\ Goto(j, "undocleanup")
    /\ UNCHANGED <<sha, volumes, staged, phase, moved, history>>

\* The rename back fails: the exception leaves the except block.
UndoSourceFails(j) ==
    /\ At(j, "undosource")
    /\ RestoreSource(j)
    /\ Goto(j, "aborted")
    /\ UNCHANGED <<sha, volumes, directories, phase, moved, history>>

UndoCleanup(j) ==
    /\ At(j, "undocleanup")
    /\ \E left \in {staged[sha[j]], "absent"} :
          staged' = [staged EXCEPT ![sha[j]] = left]
    /\ RemoveVolumes(j)
    /\ Goto(j, "failed")
    /\ UNCHANGED <<sha, stable, root, aside, phase, moved, history>>

\* The runner dies, a docker command or a file operation cut short.
Crash(j) ==
    /\ pc[j] \in Running
    /\ \/ PartialEffect(j)
       \/ /\ pc[j] \in {"undoclear", "undofill"}
          /\ PartialUndo(j)
          /\ UNCHANGED <<candidate, backup, aside>>
    /\ Goto(j, "crashed")
    /\ UNCHANGED <<sha, root, staged, phase, moved, history>>

Step(j) ==
    \/ StageSource(j) \/ StageFails(j)
    \/ PrepareVolumes(j) \/ Build(j) \/ BackupStable(j)
    \/ ClearStable(j) \/ FillStable(j) \/ VerifyStable(j)
    \/ MoveAside(j) \/ MoveInto(j) \/ DropAside(j) \/ Cleanup(j) \/ WriteEvidence(j)
    \/ StepFails(j) \/ UndoClear(j) \/ UndoFill(j) \/ UndoFails(j)
    \/ UndoSource(j) \/ UndoSourceFails(j) \/ UndoCleanup(j)

Next == \E j \in Job : Start(j) \/ Step(j) \/ Crash(j)

Spec == Init /\ [][Next]_vars
FairSpec == Spec /\ \A j \in Job : WF_vars(Step(j))

-----------------------------------------------------------------------------
TypeOK ==
    /\ sha \in [Job -> Sha]
    /\ stable \in Contents
    /\ candidate \in [Sha -> Contents]
    /\ backup \in [Sha -> Contents]
    /\ root \in Directory
    /\ staged \in [Sha -> Directory]
    /\ aside \in [Sha -> Directory]
    /\ pc \in [Job -> {"idle"} \cup Running \cup Ended]
    /\ phase \in [Job -> Phase]
    /\ moved \in [Job -> BOOLEAN]
    /\ stableBefore \in [Job -> Contents]
    /\ rootBefore \in [Job -> Directory]
    /\ leftover \in [Job -> BOOLEAN]

\* A job that has passed leaves exactly its own version in the stable volume
\* and its own source below the deploy root (deploy_static_site, the evidence
\* payload "passed").  Said of the job's last step, whatever ran before it.
PassedMeansPublished ==
    [][\A j \in Job :
          (pc[j] # "passed" /\ pc'[j] = "passed")
              => stable' = Exactly(sha[j]) /\ root' = sha[j]]_vars

\* A job that fails before its cleanup, and does not report a failed
\* rollback, leaves the stable volume as it found it, whole or not, provided
\* the backup volume of an earlier job was gone (runner.py, the except block:
\* clear the stable volume, copy the backup).
FailureRestoresVolume ==
    [][\A j \in Job :
          (/\ pc'[j] = "failed" /\ pc[j] # "failed"
           /\ phase[j] \notin {"cleanup", "rollback-failed"}
           /\ ~ leftover[j])
              => stable' = stableBefore[j]]_vars

\* The same of every job that fails without a failed rollback, wherever it
\* fails (docs/STATIC_SITE_DEPLOY.md, step 7: "restore the stable volume
\* automatically if promotion fails").
EveryFailureRestoresVolume ==
    [][\A j \in Job :
          (/\ pc'[j] = "failed" /\ pc[j] # "failed"
           /\ phase[j] # "rollback-failed"
           /\ ~ leftover[j])
              => stable' = stableBefore[j]]_vars

\* While a job has the stable volume open for change and has not failed to
\* restore it, what it found there still exists: in the stable volume or in
\* its backup (runner.py: backup-volume before promote-volume, and cleanup
\* only after both promotions).
BeforeIsKept ==
    \A j \in Job :
        (/\ pc[j] \in (StableChanged \ {"evidence"}) \cup {"undoclear", "undofill"}
         /\ phase[j] # "cleanup"
         /\ ~ leftover[j])
            => stable = stableBefore[j] \/ backup[sha[j]] = stableBefore[j]

\* A job that fails before its source is in place leaves the source directory
\* it found (runner.py: source_moved and the two renames).
FailureKeepsSource ==
    [][\A j \in Job :
          (pc'[j] = "failed" /\ pc[j] # "failed" /\ root' # rootBefore[j])
              => root' = sha[j] /\ phase[j] \in {"promote-source", "cleanup", "rollback-failed"}]_vars

\* Every job that starts ends: each command has a timeout, nothing is retried.
EveryJobEnds == \A j \in Job : pc[j] \in Running ~> pc[j] \in Ended
=============================================================================
