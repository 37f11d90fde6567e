--------------------------- MODULE DeliveryRecord ---------------------------
(***************************************************************************)
(* What an adapter does with the result of a delivery once the executor    *)
(* has returned and given its lock back: write_delivery_manifest records   *)
(* it (scripts/delivery/manifest.py), and an operator later asks           *)
(* build_rollback_plan (scripts/delivery/rollback.py) for the snapshot to  *)
(* go back to.  The manifest is written outside the lock, at a path the    *)
(* adapter chooses.  Building a plan changes nothing, so it is a predicate.*)
(***************************************************************************)
EXTENDS Delivery

CONSTANTS
    Path,           \* manifest paths
    PathChoices,    \* [Delivery -> the paths its adapter may choose]
    NoPath,         \* not a path
    NoManifest      \* no file at a path

ASSUME PathsAssumption ==
    /\ PathChoices \in [Delivery -> SUBSET Path]
    /\ NoPath \notin Path

VARIABLES
    manifests,      \* the manifest files
    target          \* the path a writer has found free and is about to write

rvars == <<vars, manifests, target>>

Manifest == [service : Service, sha : Sha, ready : BOOLEAN, synced : BOOLEAN,
             snapshot : SnapshotName \cup {NoName}]

ASSUME NoManifestAssumption == NoManifest \notin Manifest

\* The fields of the payload that a rollback plan reads.
ManifestOf(d) ==
    [service |-> ServiceOf(d), sha |-> req[d].sha, ready |-> Ready(d),
     synced |-> synced[d], snapshot |-> saved[d]]

RInit ==
    /\ Init
    /\ manifests = [p \in Path |-> NoManifest]
    /\ target = [d \in Delivery |-> NoPath]

\* _manifest_path: a path where a file exists is refused, and that is all
\* that happens.  A result can be recorded again, by a retry of the adapter.
CheckManifestPath(d) ==
    /\ stage[d] = "returned"
    /\ target[d] = NoPath
    /\ \E p \in PathChoices[d] :
          /\ manifests[p] = NoManifest
          /\ target' = [target EXCEPT ![d] = p]
    /\ UNCHANGED <<vars, manifests>>

\* _write_atomic: a temporary file, then os.replace.
ReplaceManifest(d) ==
    /\ target[d] # NoPath
    /\ manifests' = [manifests EXCEPT ![target[d]] = ManifestOf(d)]
    /\ target' = [target EXCEPT ![d] = NoPath]
    /\ UNCHANGED vars

\* The write fails or the writer dies: only the temporary file is affected.
ManifestWriteFails(d) ==
    /\ target[d] # NoPath
    /\ target' = [target EXCEPT ![d] = NoPath]
    /\ UNCHANGED <<vars, manifests>>

RNext ==
    \/ Next /\ UNCHANGED <<manifests, target>>
    \/ \E d \in Delivery :
          CheckManifestPath(d) \/ ReplaceManifest(d) \/ ManifestWriteFails(d)

RSpec == RInit /\ [][RNext]_rvars
FairRSpec ==
    RSpec /\ \A d \in Delivery : WF_rvars(Step(d) /\ UNCHANGED <<manifests, target>>)

-----------------------------------------------------------------------------
(* build_rollback_plan.                                                    *)

\* Mutation: the readiness of the manifest is not asked for.
Approved_AnyResult(m) ==
    /\ m # NoManifest
    /\ m.synced
    /\ m.snapshot # NoName

\* _load_manifest and _snapshot_from_manifest: successful and ready, and the
\* synchronisation changed the tree after taking a snapshot.
Approved(m) ==
    /\ m # NoManifest
    /\ m.ready
    /\ m.synced
    /\ m.snapshot # NoName

\* The file the plan points at, below the snapshot root of the service.
PlannedTree(m) == snaps[SnapshotRootOf[m.service]][m.snapshot]

\* The operator names the service and confirms the service and the SHA.
PlanGranted(p, s, h) ==
    /\ Approved(manifests[p])
    /\ manifests[p].service = s
    /\ manifests[p].sha = h
    /\ PlannedTree(manifests[p]) # NoTree

-----------------------------------------------------------------------------
RTypeOK ==
    /\ TypeOK
    /\ manifests \in [Path -> Manifest \cup {NoManifest}]
    /\ target \in [Delivery -> Path \cup {NoPath}]

\* A rollback plan that is granted for a service and a SHA points at the very
\* tree that the ready delivery of that SHA replaced, whatever was delivered,
\* failed, crashed or recorded in between (rollback.py, build_rollback_plan,
\* over manifest.py and snapshot_sync.py).
PlanRestoresReplacedTree ==
    \A p \in Path, s \in Service, h \in Sha :
        PlanGranted(p, s, h) =>
            \E d \in Delivery :
                /\ req[d] = [service |-> s, sha |-> h]
                /\ stage[d] = "returned"
                /\ Ready(d)
                /\ PlannedTree(manifests[p]) = before[d]

\* A recorded manifest is final: no step of anybody changes or removes it
\* (manifest.py, "Atomically write one sanitized, immutable manifest").
ManifestIsImmutable ==
    [][\A p \in Path : manifests[p] # NoManifest => manifests'[p] = manifests[p]]_rvars
=============================================================================
