------------------------------ MODULE VpsDeploy ------------------------------
(***************************************************************************)
(* The reusable deployment workflow of a Compose stack                     *)
(* (.github/workflows/_vps-self-hosted-deploy.yml) with the programs its   *)
(* steps run: the security gates, the bounded rebuild                      *)
(* (security_gate/rebuild.py), the choice of the final verdict             *)
(* (security-retry-result), the pruning of snapshots and the deployment    *)
(* manifest (scripts/deploy_manifest).                                     *)
(*                                                                         *)
(* The jobs of one service run one at a time, in the concurrency group of  *)
(* the service, and share its host: deploy path, override file, local      *)
(* images, containers, snapshots, and the manifests below the deploy path. *)
(*                                                                         *)
(* Image scans are required (security_require_image_scan keeps its         *)
(* default).  A tree or an image is known by the job it comes from.        *)
(***************************************************************************)
EXTENDS Naturals, Sequences

CONSTANTS
    Job,                \* runs of the workflow for one service
    Image,              \* the images its Compose configuration names
    Buildable,          \* those with a build section
    Host,               \* not a job: what the host had before any of them
    Volume,             \* input ensure_volumes: the volumes it requires
    Probed,             \* the pairs <<image, volume>> of its write probes
    Retention,          \* immutable manifests kept
    RetryEnabled,       \* input security_rebuild_retry_enabled
    IgnoreUnfixed       \* input security_ignore_unfixed

ASSUME ParametersAssumption ==
    /\ Host \notin Job
    /\ Buildable \subseteq Image
    /\ Probed \subseteq Image \X Volume
    /\ Retention \in Nat \ {0}
    /\ RetryEnabled \in BOOLEAN /\ IgnoreUnfixed \in BOOLEAN

(* "build" and "kept" are deployment_mode build with and without           *)
(* build_image.                                                            *)
Mode == {"build", "kept", "prebuilt"}

Owner == Job \cup {Host}
Tree == [of : Owner, whole : BOOLEAN]
Whole(o) == [of |-> o, whole |-> TRUE]

(* Image IDs: the initial one, what a job builds or pulls first, and what  *)
(* its rebuild yields.                                                     *)
Id == Owner \X (0 .. 2)
Absent == <<Host, 0>>
Initial == <<Host, 1>>

Class == {"clean", "unfixed_warning", "actionable_vulnerability", "other"}
Gate == [class : Class, outcome : {"success", "failure"}, window : BOOLEAN]
NotRun == [class |-> "other", outcome |-> "failure", window |-> FALSE]
(* What a job may create of the missing volumes: all of them (the legacy   *)
(* switch), or the listed ones; validate_inputs refuses both at once.      *)
Contract == {c \in [all : BOOLEAN, listed : SUBSET Volume] : c.all => c.listed = {}}
NoContract == [all |-> FALSE, listed |-> {}]
MayCreate(c, v) == c.all \/ v \in c.listed

Attempt == [job : Job, ok : BOOLEAN]
Manifest == [job : Job, images : [Image -> Id]]

VARIABLES
    stage,          \* the step each job is at
    run,            \* its inputs, the outputs of its steps so far, its status
    (* the host *)
    tree,           \* the deploy path
    override,       \* the job that wrote the Compose override file
    tag,            \* the image ID each configured image resolves to
    running,        \* the image ID each container runs
    snaps,          \* the snapshot archives, oldest first
    volumes,        \* the required volumes that exist
    manifests,      \* the immutable manifests, oldest first: whose and its status
    last,           \* last-successful.json: no manifest or one, and its images
    (* history *)
    rolled          \* the jobs that have begun to replace containers

host == <<tree, override, tag, running, snaps, volumes, manifests, last>>
vars == <<stage, run, host, rolled>>

-----------------------------------------------------------------------------
Before == {"prepare", "fsgate", "sync", "archive", "archiving", "rsync",
           "rsyncing", "parity", "prune", "volumes", "creating", "build", "pull",
           "discover", "scan", "rebuild", "rediscover", "rescan", "enforce"}
Work == Before \cup {"rollout", "health"}
Always == {"evidence", "record", "point", "trim", "decorate", "clean"}
Active == Work \cup Always
Ended == {"superseded", "success", "failure", "lost"}
Stage == {"idle", "pending"} \cup Active \cup Ended

(* snapshots: deploy_snapshot_enabled; keeps: the candidate's .deployignore *)
(* lists the manifest directory; ok: no step has failed; before: the tree  *)
(* found by the dry run; snapshot: snapshot_created; contract, missing:    *)
(* the authorization and the volumes still to be created; images: what the *)
(* recorder has collected; the rest are outputs of the image gate's steps. *)
(* A value is forgotten after its last reader.                             *)
Run == [mode : Mode, snapshots : BOOLEAN, keeps : BOOLEAN,
        ok : BOOLEAN, before : Tree, snapshot : BOOLEAN,
        contract : Contract, missing : SUBSET Volume, images : [Image -> Id],
        refs : SUBSET Id, gate : Gate,
        rebuild : {"skipped", "success", "failure"},
        newRefs : SUBSET Id, newGate : Gate]

Blank == [mode |-> "build", snapshots |-> TRUE, keeps |-> FALSE,
          ok |-> TRUE, before |-> Whole(Host), snapshot |-> FALSE,
          contract |-> NoContract, missing |-> {},
          images |-> [i \in Image |-> Absent],
          refs |-> {}, gate |-> NotRun, rebuild |-> "skipped",
          newRefs |-> {}, newGate |-> NotRun]

\* The final steps read none of the inputs and no output of the image gate.
Closed(r, ok) == [Blank EXCEPT !.ok = ok, !.before = r.before, !.snapshot = r.snapshot]

Goto(j, s) == stage' = [stage EXCEPT ![j] = s]

Init ==
    /\ stage = [j \in Job |-> "idle"]
    /\ run = [j \in Job |-> Blank]
    /\ tree = Whole(Host)
    /\ override = Host
    /\ tag \in [Image -> {Absent, Initial}]
    /\ running = tag
    /\ snaps = <<>>
    /\ volumes \in SUBSET Volume
    /\ manifests = <<>>
    /\ last = {}
    /\ rolled = <<>>

-----------------------------------------------------------------------------
(* The concurrency group: one job in progress, one pending; a newer        *)
(* request takes the place of the pending one.                             *)

Arrive(j) ==
    /\ stage[j] = "idle"
    /\ stage' = [k \in Job |-> IF k = j THEN "pending"
                               ELSE IF stage[k] = "pending" THEN "superseded"
                               ELSE stage[k]]
    /\ \E mode \in Mode, snapshots \in BOOLEAN, keeps \in BOOLEAN :
          run' = [k \in Job |->
                    IF k = j THEN [Blank EXCEPT !.mode = mode, !.snapshots = snapshots,
                                                !.keeps = keeps]
                    ELSE IF stage[k] = "pending" THEN Blank ELSE run[k]]
    /\ UNCHANGED <<host, rolled>>

Begin(j) ==
    /\ stage[j] = "pending"
    /\ \A k \in Job : stage[k] \notin Active
    /\ Goto(j, "prepare")
    /\ UNCHANGED <<run, host, rolled>>

-----------------------------------------------------------------------------
(* Preparation, the filesystem gate and the synchronisation.               *)

\* The images of S that this step provides are what they were or new.
Provided(S, new) ==
    tag' \in {t \in [Image -> {tag[i] : i \in Image} \cup {new}] :
                 \A i \in Image : t[i] \in IF i \in S THEN {tag[i], new} ELSE {tag[i]}}

\* Prebuilt images are pulled and verified by digest, and the override file
\* is written below the deploy path.
Prepare(j) ==
    /\ stage[j] = "prepare"
    /\ \/ /\ run[j].mode = "prebuilt"
          /\ override' = j
          /\ Provided(Image, <<j, 1>>)
          /\ \A i \in Image : tag'[i] # Absent
       \/ /\ run[j].mode # "prebuilt"
          /\ UNCHANGED <<override, tag>>
    /\ Goto(j, "fsgate")
    /\ UNCHANGED <<run, tree, running, snaps, volumes, manifests, last, rolled>>

FilesystemGate(j) ==
    /\ stage[j] = "fsgate"
    /\ Goto(j, "sync")
    /\ UNCHANGED <<run, host, rolled>>

\* The manifest directory lies below the deploy path and no exclusion of the
\* workflow names it.
DeletesManifests(j) == ~run[j].keeps
Changes(j, same) ==
    \/ ~same
    \/ run[j].mode # "prebuilt" /\ override # Host
    \/ DeletesManifests(j) /\ (manifests # <<>> \/ last # {})

\* same: the tree found has the content of the candidate, whose tree it is then.
DryRun(j) ==
    /\ stage[j] = "sync"
    /\ \E same \in {b \in BOOLEAN : b => tree.whole} :
          /\ tree' = IF same THEN Whole(j) ELSE tree
          /\ run' = [run EXCEPT ![j].before = tree', ![j].snapshots = Blank.snapshots]
          /\ Goto(j, IF Changes(j, same) /\ run[j].snapshots THEN "archive" ELSE "rsync")
    /\ UNCHANGED <<override, tag, running, snaps, volumes, manifests, last, rolled>>

\* tar writes the archive under its final name.
ArchiveBegins(j) ==
    /\ stage[j] = "archive"
    /\ snaps' = Append(snaps, [tree |-> tree, whole |-> FALSE])
    /\ Goto(j, "archiving")
    /\ UNCHANGED <<run, tree, override, tag, running, volumes, manifests, last, rolled>>

ArchiveEnds(j) ==
    /\ stage[j] = "archiving"
    /\ snaps' = [snaps EXCEPT ![Len(snaps)].whole = TRUE]
    /\ run' = [run EXCEPT ![j].snapshot = TRUE]
    /\ Goto(j, "rsync")
    /\ UNCHANGED <<tree, override, tag, running, volumes, manifests, last, rolled>>

\* The archive is removed, and the deployment goes on.
ArchiveFails(j) ==
    /\ stage[j] = "archiving"
    /\ snaps' = SubSeq(snaps, 1, Len(snaps) - 1)
    /\ Goto(j, "rsync")
    /\ UNCHANGED <<run, tree, override, tag, running, volumes, manifests, last, rolled>>

\* The manifest files as rsync --delete leaves them.
ManifestsDeleted == manifests' = <<>> /\ last' = {}

RsyncBegins(j) ==
    /\ stage[j] = "rsync"
    /\ tree' = IF tree = Whole(j) THEN tree ELSE [of |-> j, whole |-> FALSE]
    /\ \/ UNCHANGED <<manifests, last>>
       \/ DeletesManifests(j) /\ ManifestsDeleted
    /\ Goto(j, "rsyncing")
    /\ UNCHANGED <<run, override, tag, running, snaps, volumes, rolled>>

RsyncEnds(j) ==
    /\ stage[j] = "rsyncing"
    /\ tree' = Whole(j)
    /\ override' = IF run[j].mode = "prebuilt" THEN override ELSE Host
    /\ IF DeletesManifests(j) THEN ManifestsDeleted ELSE UNCHANGED <<manifests, last>>
    /\ Goto(j, "parity")
    /\ run' = [run EXCEPT ![j].keeps = Blank.keeps]
    /\ UNCHANGED <<tag, running, snaps, volumes, rolled>>

\* A differing entry fails the job, like every failing step (StepFails).
Parity(j) ==
    /\ stage[j] = "parity"
    /\ tree = Whole(j)
    /\ Goto(j, "prune")
    /\ UNCHANGED <<run, host, rolled>>

\* Mutation: the limits may take every snapshot.
Prune_All(j) ==
    /\ stage[j] = "prune"
    /\ IF run[j].snapshot
          THEN \E n \in 1 .. Len(snaps) + 1 : snaps' = SubSeq(snaps, n, Len(snaps))
          ELSE UNCHANGED snaps
    /\ Goto(j, "volumes")
    /\ UNCHANGED <<run, tree, override, tag, running, volumes, manifests, last, rolled>>

\* prune.py deletes the oldest first and never the newest (SnapshotRetention).
Prune(j) ==
    /\ stage[j] = "prune"
    /\ IF run[j].snapshot
          THEN \E n \in 1 .. Len(snaps) : snaps' = SubSeq(snaps, n, Len(snaps))
          ELSE UNCHANGED snaps
    /\ Goto(j, "volumes")
    /\ UNCHANGED <<run, tree, override, tag, running, volumes, manifests, last, rolled>>

-----------------------------------------------------------------------------
(* The required volumes: all of them are looked at before one is created.  *)

Missing == Volume \ volumes

\* Mutation: each volume is created or refused in turn.
CheckVolumes_InTurn(j) ==
    /\ stage[j] = "volumes"
    /\ \E c \in Contract :
          /\ Missing # {} => \E v \in Missing : MayCreate(c, v)
          /\ IF Missing = {} THEN UNCHANGED run
             ELSE run' = [run EXCEPT ![j].contract = c, ![j].missing = Missing]
          /\ Goto(j, IF Missing = {} THEN "build" ELSE "creating")
    /\ UNCHANGED <<host, rolled>>

\* A volume that is missing and may not be created fails the job here, and so
\* does one that docker lists but cannot inspect (StepFails).
CheckVolumes(j) ==
    /\ stage[j] = "volumes"
    /\ \E c \in Contract :
          /\ \A v \in Missing : MayCreate(c, v)
          /\ IF Missing = {} THEN UNCHANGED run
             ELSE run' = [run EXCEPT ![j].contract = c, ![j].missing = Missing]
          /\ Goto(j, IF Missing = {} THEN "build" ELSE "creating")
    /\ UNCHANGED <<host, rolled>>

\* One volume is created, empty, and inspected.
CreateVolume(j) ==
    /\ stage[j] = "creating"
    /\ \E v \in run[j].missing :
          /\ volumes' = volumes \cup {v}
          /\ IF run[j].missing = {v}
                THEN /\ run' = [run EXCEPT ![j].missing = {}, ![j].contract = NoContract]
                     /\ Goto(j, "build")
                ELSE /\ run' = [run EXCEPT ![j].missing = @ \ {v}]
                     /\ UNCHANGED stage
    /\ UNCHANGED <<tree, override, tag, running, snaps, manifests, last, rolled>>

\* docker creates the volume, but the answer is late, or not what was asked for.
CreateVolumeFails(j) ==
    /\ stage[j] = "creating"
    /\ \E v \in run[j].missing : volumes' = volumes \cup {v}
    /\ run' = [run EXCEPT ![j] = Closed(@, FALSE)]
    /\ Goto(j, "evidence")
    /\ UNCHANGED <<tree, override, tag, running, snaps, manifests, last, rolled>>

-----------------------------------------------------------------------------
(* Building, pulling and scanning the images.                              *)

Build(j) ==
    /\ stage[j] = "build"
    /\ \/ /\ run[j].mode = "build"
          /\ Provided(Buildable, <<j, 1>>)
          /\ \A i \in Buildable : tag'[i] # Absent
       \/ run[j].mode # "build" /\ UNCHANGED tag
    /\ Goto(j, "pull")
    /\ UNCHANGED <<run, tree, override, running, snaps, volumes, manifests, last, rolled>>

\* compose pull, or compose pull --ignore-buildable.
Pull(j) ==
    /\ stage[j] = "pull"
    /\ \/ /\ run[j].mode # "prebuilt"
          /\ Provided(Image \ Buildable, <<j, 1>>)
          /\ \A i \in Image \ Buildable : tag'[i] # Absent
       \/ run[j].mode = "prebuilt" /\ UNCHANGED tag
    /\ Goto(j, "discover")
    /\ UNCHANGED <<run, tree, override, running, snaps, volumes, manifests, last, rolled>>

Available == {tag[i] : i \in Image} \ {Absent}

\* An image that is not on the host is only warned about, unless all are.
Discover(j) ==
    /\ stage[j] = "discover"
    /\ Available # {}
    /\ run' = [run EXCEPT ![j].refs = Available]
    /\ Goto(j, "scan")
    /\ UNCHANGED <<host, rolled>>

\* A gate can report an open remediation window only of actionable findings.
Verdict == {g \in Gate : g.window => g.class = "actionable_vulnerability"}

NeedsRebuild(j, g) ==
    /\ run[j].mode # "prebuilt"
    /\ RetryEnabled
    /\ g.class = "actionable_vulnerability"

Scan(j) ==
    /\ stage[j] = "scan"
    /\ \E g \in Verdict :
          /\ run' = [run EXCEPT ![j].gate = g]
          /\ Goto(j, IF NeedsRebuild(j, g) THEN "rebuild" ELSE "enforce")
    /\ UNCHANGED <<host, rolled>>

\* One pass of pull and build; a failing one may have replaced some images.
Rebuild(j) ==
    /\ stage[j] = "rebuild"
    /\ Provided(Image, <<j, 2>>)
    /\ \/ /\ run' = [run EXCEPT ![j].rebuild = "success"]
          /\ Goto(j, "rediscover")
       \/ /\ run' = [run EXCEPT ![j].rebuild = "failure"]
          /\ Goto(j, "enforce")
    /\ UNCHANGED <<tree, override, running, snaps, volumes, manifests, last, rolled>>

Rediscover(j) ==
    /\ stage[j] = "rediscover"
    /\ Provided(Image \ Buildable, <<j, 2>>)
    /\ \A i \in Image : tag'[i] # Absent
    /\ run' = [run EXCEPT ![j].newRefs = Available']
    /\ Goto(j, "rescan")
    /\ UNCHANGED <<tree, override, running, snaps, volumes, manifests, last, rolled>>

Rescan(j) ==
    /\ stage[j] = "rescan"
    /\ \E g \in Verdict : run' = [run EXCEPT ![j].newGate = g]
    /\ Goto(j, "enforce")
    /\ UNCHANGED <<host, rolled>>

Passing == {"clean", "unfixed_warning"}

\* evaluate_retry: the verdict over the first and the second scan.
InitialPasses(o) == o.gate.outcome = "success" /\ o.gate.class \in Passing
Retried(o) == ~InitialPasses(o) /\ o.rebuild # "skipped"
Renewed(o) == Retried(o) /\ o.rebuild = "success" /\ o.newRefs # o.refs
FinalPasses(o) == Renewed(o) /\ o.newGate.outcome = "success" /\ o.newGate.class \in Passing

FinalResult(o) ==
    IF Renewed(o) THEN o.newGate.class
    ELSE IF Retried(o) /\ o.rebuild = "failure" THEN "other"
    ELSE o.gate.class

CompatibilityAllowed(o) == ~Retried(o) /\ o.gate.class = "unfixed_warning"

\* Mutation: the window that covered the first images is enough.
Admitted_FirstWindow(o) ==
    \/ InitialPasses(o) \/ FinalPasses(o)
    \/ FinalResult(o) = "actionable_vulnerability" /\ (o.gate.window \/ o.newGate.window)
    \/ IgnoreUnfixed /\ CompatibilityAllowed(o)

Admitted(o) ==
    \/ InitialPasses(o) \/ FinalPasses(o)
    \/ FinalResult(o) = "actionable_vulnerability" /\ o.newGate.window
    \/ IgnoreUnfixed /\ CompatibilityAllowed(o)

Enforce(j) ==
    /\ stage[j] = "enforce"
    /\ Admitted(run[j])
    /\ Goto(j, "rollout")
    /\ UNCHANGED <<run, host, rolled>>

-----------------------------------------------------------------------------
(* The rollout.                                                            *)

\* compose up builds an image that is not there, unless it may not.
RollOut(j) ==
    /\ stage[j] = "rollout"
    /\ tag' = [i \in Image |-> IF tag[i] = Absent THEN <<j, 1>> ELSE tag[i]]
    /\ running' = tag'
    /\ rolled' = Append(rolled, j)
    /\ run' = [run EXCEPT ![j] = Closed(@, TRUE)]
    /\ Goto(j, "health")
    /\ UNCHANGED <<tree, override, snaps, volumes, manifests, last>>

\* compose up fails with some containers replaced, or a recreation does.
RollOutFails(j) ==
    /\ stage[j] = "rollout"
    /\ \E S \in SUBSET {i \in Image : tag[i] # Absent} :
          running' = [i \in Image |-> IF i \in S THEN tag[i] ELSE running[i]]
    /\ rolled' = Append(rolled, j)
    /\ run' = [run EXCEPT ![j] = Closed(@, FALSE)]
    /\ Goto(j, "evidence")
    /\ UNCHANGED <<tree, override, tag, snaps, volumes, manifests, last>>

\* Each probe writes to its volume from a container that is running and whose
\* image is still the one that the configuration names.
ProbesPass == \A p \in Probed : running[p[1]] = tag[p[1]] /\ p[2] \in volumes

Healthy(j) ==
    /\ stage[j] = "health"
    /\ ProbesPass
    /\ Goto(j, "evidence")
    /\ UNCHANGED <<run, host, rolled>>

\* A step before the final ones fails, or the job is cancelled or times run.
StepFails(j) ==
    /\ stage[j] \in Work
    /\ run' = [run EXCEPT ![j] = Closed(@, FALSE)]
    /\ Goto(j, "evidence")
    /\ UNCHANGED <<host, rolled>>

-----------------------------------------------------------------------------
(* The final steps run whatever happened before (if: always()).            *)

\* Upload of the evidence, cleanup of docker, of credentials, of the workspace.
Evidence(j) ==
    /\ stage[j] = "evidence"
    /\ \E fails \in BOOLEAN : run' = [run EXCEPT ![j].ok = @ /\ ~fails]
    /\ Goto(j, "record")
    /\ UNCHANGED <<host, rolled>>

\* What a manifest says, of all the metadata that the recorder accepts.
AttemptOf(j) == [job |-> j, ok |-> run[j].ok]

\* Mutation: a failed attempt takes the pointer too.
RecordManifest_AnyStatus(j) ==
    /\ stage[j] = "record"
    /\ manifests' = Append(manifests, AttemptOf(j))
    /\ run' = [run EXCEPT ![j].images = tag]
    /\ Goto(j, "point")
    /\ UNCHANGED <<tree, override, tag, running, snaps, volumes, last, rolled>>

\* collect_state, then the immutable manifest.
RecordManifest(j) ==
    /\ stage[j] = "record"
    /\ manifests' = Append(manifests, AttemptOf(j))
    /\ run' = [run EXCEPT ![j].images = tag]
    /\ Goto(j, IF run[j].ok THEN "point" ELSE "trim")
    /\ UNCHANGED <<tree, override, tag, running, snaps, volumes, last, rolled>>

PointToLast(j) ==
    /\ stage[j] = "point"
    /\ last' = {[job |-> j, images |-> run[j].images]}
    /\ Goto(j, "trim")
    /\ UNCHANGED <<run, tree, override, tag, running, snaps, volumes, manifests, rolled>>

TrimManifests(j) ==
    /\ stage[j] = "trim"
    /\ manifests' = IF Len(manifests) > Retention
                       THEN SubSeq(manifests, Len(manifests) - Retention + 1, Len(manifests))
                       ELSE manifests
    /\ Goto(j, "decorate")
    /\ UNCHANGED <<run, tree, override, tag, running, snaps, volumes, last, rolled>>

\* remediation.py rewrites the manifest and the pointer with the verdicts.
Decorate(j) ==
    /\ stage[j] = "decorate"
    /\ Goto(j, "clean")
    /\ UNCHANGED <<run, host, rolled>>

RecorderFails(j) ==
    /\ stage[j] \in {"record", "point", "trim", "decorate"}
    /\ run' = [run EXCEPT ![j].ok = FALSE]
    /\ Goto(j, "clean")
    /\ UNCHANGED <<host, rolled>>

\* The temporary files of the volume contract are removed, and the job ends.
Finish(j) ==
    /\ stage[j] = "clean"
    /\ \E fails \in BOOLEAN : Goto(j, IF run[j].ok /\ ~fails THEN "success" ELSE "failure")
    /\ run' = [run EXCEPT ![j] = Blank]
    /\ UNCHANGED <<host, rolled>>

\* The runner is gone: no further step runs and the group is free.
Lost(j) ==
    /\ stage[j] \in Active
    /\ run' = [run EXCEPT ![j] = Blank]
    /\ Goto(j, "lost")
    /\ UNCHANGED <<host, rolled>>

Step(j) ==
    \/ Arrive(j) \/ Begin(j)
    \/ Prepare(j) \/ FilesystemGate(j)
    \/ DryRun(j) \/ ArchiveBegins(j) \/ ArchiveEnds(j) \/ ArchiveFails(j)
    \/ RsyncBegins(j) \/ RsyncEnds(j) \/ Parity(j) \/ Prune(j)
    \/ CheckVolumes(j) \/ CreateVolume(j) \/ CreateVolumeFails(j)
    \/ Build(j) \/ Pull(j) \/ Discover(j) \/ Scan(j)
    \/ Rebuild(j) \/ Rediscover(j) \/ Rescan(j) \/ Enforce(j)
    \/ RollOut(j) \/ RollOutFails(j) \/ Healthy(j) \/ StepFails(j)
    \/ Evidence(j) \/ RecordManifest(j) \/ PointToLast(j) \/ TrimManifests(j)
    \/ Decorate(j) \/ RecorderFails(j) \/ Finish(j) \/ Lost(j)

AllEnded == \A j \in Job : stage[j] \in Ended

Next == (\E j \in Job : Step(j)) \/ (AllEnded /\ UNCHANGED vars)

Spec == Init /\ [][Next]_vars

-----------------------------------------------------------------------------
TypeOK ==
    /\ stage \in [Job -> Stage]
    /\ run \in [Job -> Run]
    /\ tree \in Tree
    /\ override \in Owner
    /\ tag \in [Image -> Id]
    /\ running \in [Image -> Id]
    /\ snaps \in Seq([tree : Tree, whole : BOOLEAN])
    /\ volumes \in SUBSET Volume
    /\ manifests \in Seq(Attempt)
    /\ last \in SUBSET Manifest
    /\ rolled \in Seq(Job)

Acceptable(g) == g.class \in Passing \/ g.window

\* When the containers are about to be replaced, the deploy path holds exactly
\* this job's candidate and the images that are there are the very ones that a
\* scan of this job accepted, first or second, whatever the rebuild moved
\* (the order of the workflow's steps, its concurrency group, evaluate_retry).
RolloutIsWhatWasChecked ==
    \A j \in Job : stage[j] = "rollout" =>
        /\ tree = Whole(j)
        /\ run[j].mode = "prebuilt" => override = j
        /\ \/ Available = run[j].refs /\ Acceptable(run[j].gate)
           \/ Available = run[j].newRefs /\ Acceptable(run[j].newGate)

\* last-successful.json, when it exists, names a job that replaced containers,
\* and as long as no later job has begun to, the containers run exactly the
\* images it lists (record.py and write.py read the host after the rollout).
PointerIsTruthful ==
    \A m \in last :
        \E n \in 1 .. Len(rolled) :
            /\ rolled[n] = m.job
            /\ n = Len(rolled) => running = m.images

\* A job that announced its snapshot can restore the tree it replaces until its
\* end: a whole archive of that tree exists, through the pruning too
\* (the step deploy-snapshot, prune.py).
ReplacedTreeIsArchived ==
    \A j \in Job : stage[j] \in Active /\ run[j].snapshot =>
        \E n \in 1 .. Len(snaps) : snaps[n] = [tree |-> run[j].before, whole |-> TRUE]

\* No volume is created while another one that the job requires is missing and
\* may not be, and none is missing any more when containers are replaced
\* (volume_probe_contract.py, ensure_volumes; docs/DEPLOYMENT_VOLUMES.md:39,
\* "the deployment fails without creating any volume").
VolumesAreNotSubstituted ==
    \A j \in Job :
        /\ stage[j] = "creating" => \A v \in Missing : MayCreate(run[j].contract, v)
        /\ stage[j] \in {"rollout", "health"} => Missing = {}

\* What the manifest contract says of the pointer: attempts replace it or leave
\* it; no step of a deployment loses it (docs/DEPLOY_MANIFEST.md).
PointerIsNeverLost == [][last # {} => last' # {}]_vars

=============================================================================
