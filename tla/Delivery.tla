------------------------------ MODULE Delivery ------------------------------
(***************************************************************************)
(* The provider-neutral delivery executor (scripts/delivery/executor.py)   *)
(* with the primitives it sequences: the per-service OS lock (lock.py),    *)
(* the exact-SHA checkout (checkout.py) and the snapshot + rsync           *)
(* synchronisation (snapshot_sync.py), under the path derivation that all  *)
(* adapters share (plan.py).                                               *)
(*                                                                         *)
(* A delivery is one call of execute_delivery, in a process of its own.    *)
(* Any number of them run on one host and share a lock root, a checkout    *)
(* root, a deploy root and the snapshot roots.  Git, rsync, tar and the    *)
(* provider's gate callbacks are external: each may succeed, fail, or be   *)
(* cut short by the death of the process.                                  *)
(*                                                                         *)
(* A tree is abstracted to the service it belongs to and one content       *)
(* value: a candidate SHA, "initial" (what was there first) or "torn" (an  *)
(* rsync stopped half way).  The files rsync excludes are not part of it.  *)
(***************************************************************************)
CONSTANTS
    Delivery,           \* calls of execute_delivery
    Service,            \* service names
    Sha,                \* candidate commits
    SnapshotName,       \* snapshot file names: by default a UTC time in seconds
    SnapshotRootOf,     \* [Service -> snapshot root its deliveries are given]
    SnapshotChoices,    \* [Service -> the values of snapshot_enabled passed for it]
    NoOne,              \* not a delivery: a free lock
    NoName,             \* not a snapshot name
    NoTree              \* not a tree: no snapshot file of that name

ASSUME ValuesAssumption ==
    /\ NoOne \notin Delivery
    /\ NoName \notin SnapshotName
    /\ {"initial", "torn"} \cap Sha = {}

ASSUME SnapshotChoicesAssumption == SnapshotChoices \in [Service -> SUBSET BOOLEAN]

SnapshotRoot == {SnapshotRootOf[s] : s \in Service}
Tree == [service : Service, content : Sha \cup {"initial", "torn"}]

ASSUME NoTreeAssumption == NoTree \notin Tree

VARIABLES
    (* what each call was asked for; fixed from the start *)
    req,
    (* the host's files *)
    lock,           \* the process holding flock on <lock-root>/<service>.lock
    checkouts,      \* the directories <checkout-root>/<service>-<sha>
    live,           \* the deploy directories <deploy-root>/<service>
    snaps,          \* the snapshot files of every snapshot root
    (* local state of each call *)
    stage, pre, post, name, saved, synced,
    (* history: the tree the call found when it took the lock *)
    before

files == <<lock, checkouts, live, snaps>>
locals == <<pre, post, name, saved, synced>>
vars == <<req, files, stage, locals, before>>

-----------------------------------------------------------------------------
(* The stages of a call.                                                   *)

Unsynced == {"locked", "fetching", "preflight", "sync", "snapshot", "archive"}
Protected == Unsynced \cup {"rsync", "postflight", "return", "raise"}
Ended == {"returned", "raised", "crashed"}
Stage == {"idle", "waiting"} \cup Protected \cup Ended
GateVerdict == {"none", "passed", "failed"}

ServiceOf(d) == req[d].service
Candidate(d) == [service |-> ServiceOf(d), content |-> req[d].sha]
TreeOf(d) == live[ServiceOf(d)]
Checkout(d) == checkouts[ServiceOf(d)][req[d].sha]
RootOf(d) == SnapshotRootOf[ServiceOf(d)]
Ready(d) == pre[d] = "passed" /\ post[d] = "passed"

Goto(d, s) == stage' = [stage EXCEPT ![d] = s]

-----------------------------------------------------------------------------
Init ==
    /\ req \in [Delivery -> [service : Service, sha : Sha]]
    /\ lock = [s \in Service |-> NoOne]
    /\ checkouts = [s \in Service |-> [h \in Sha |-> "absent"]]
    /\ live = [s \in Service |-> [service |-> s, content |-> "initial"]]
    /\ snaps = [r \in SnapshotRoot |-> [n \in SnapshotName |-> NoTree]]
    /\ stage = [d \in Delivery |-> "idle"]
    /\ pre = [d \in Delivery |-> "none"]
    /\ post = [d \in Delivery |-> "none"]
    /\ name = [d \in Delivery |-> NoName]
    /\ saved = [d \in Delivery |-> NoName]
    /\ synced = [d \in Delivery |-> FALSE]
    /\ before = [d \in Delivery |-> NoTree]

-----------------------------------------------------------------------------
(* service_lock: poll a non-blocking flock until the deadline.             *)

\* The specification or the lock root is refused, or the file cannot be opened.
LockUnavailable(d) ==
    /\ stage[d] = "idle"
    /\ Goto(d, "raised")
    /\ UNCHANGED <<req, files, locals, before>>

\* Mutation: the result of the non-blocking flock is ignored.
AcquireLock_Ignored(d) ==
    /\ stage[d] \in {"idle", "waiting"}
    /\ lock' = [lock EXCEPT ![ServiceOf(d)] = d]
    /\ before' = [before EXCEPT ![d] = TreeOf(d)]
    /\ Goto(d, "locked")
    /\ UNCHANGED <<req, checkouts, live, snaps, locals>>

AcquireLock(d) ==
    /\ stage[d] \in {"idle", "waiting"}
    /\ lock[ServiceOf(d)] = NoOne
    /\ lock' = [lock EXCEPT ![ServiceOf(d)] = d]
    /\ before' = [before EXCEPT ![d] = TreeOf(d)]
    /\ Goto(d, "locked")
    /\ UNCHANGED <<req, checkouts, live, snaps, locals>>

LockBusy(d) ==
    /\ stage[d] = "idle"
    /\ lock[ServiceOf(d)] # NoOne
    /\ Goto(d, "waiting")
    /\ UNCHANGED <<req, files, locals, before>>

\* Mutation: the finally clause unlocks without asking whether it acquired.
LockTimesOut_Unlocks(d) ==
    /\ stage[d] = "waiting"
    /\ lock' = [lock EXCEPT ![ServiceOf(d)] = NoOne]
    /\ Goto(d, "raised")
    /\ UNCHANGED <<req, checkouts, live, snaps, locals, before>>

\* The deadline is read after a failed try: the lock may have been released
\* in between, the call raises all the same.
LockTimesOut(d) ==
    /\ stage[d] = "waiting"
    /\ Goto(d, "raised")
    /\ UNCHANGED <<req, files, locals, before>>

\* Mutation: the lock is given back on the normal return only.
Release_NotOnRaise(d) ==
    /\ stage[d] \in {"return", "raise"}
    /\ lock' = [lock EXCEPT ![ServiceOf(d)] =
                    IF stage[d] = "return" THEN NoOne ELSE @]
    /\ Goto(d, IF stage[d] = "return" THEN "returned" ELSE "raised")
    /\ UNCHANGED <<req, checkouts, live, snaps, locals, before>>

Release(d) ==
    /\ stage[d] \in {"return", "raise"}
    /\ lock' = [lock EXCEPT ![ServiceOf(d)] = NoOne]
    /\ Goto(d, IF stage[d] = "return" THEN "returned" ELSE "raised")
    /\ UNCHANGED <<req, checkouts, live, snaps, locals, before>>

-----------------------------------------------------------------------------
(* checkout_exact_sha: a new directory, a fetch of the trusted ref, and a  *)
(* detached checkout of the candidate if it is an ancestor of the ref.     *)

SetCheckout(d, c) ==
    checkouts' = [checkouts EXCEPT ![ServiceOf(d)][req[d].sha] = c]

\* Mutation: an existing checkout directory is reused.
CreateCheckout_Reuses(d) ==
    /\ stage[d] = "locked"
    /\ SetCheckout(d, "partial")
    /\ Goto(d, "fetching")
    /\ UNCHANGED <<req, lock, live, snaps, locals, before>>

CreateCheckout(d) ==
    /\ stage[d] = "locked"
    /\ Checkout(d) = "absent"
    /\ SetCheckout(d, "partial")
    /\ Goto(d, "fetching")
    /\ UNCHANGED <<req, lock, live, snaps, locals, before>>

\* The paths or the remote do not validate; an existing directory never does.
RefuseCheckout(d) ==
    /\ stage[d] = "locked"
    /\ Goto(d, "raise")
    /\ UNCHANGED <<req, files, locals, before>>

VerifyCheckout(d) ==
    /\ stage[d] = "fetching"
    /\ SetCheckout(d, "complete")
    /\ Goto(d, "preflight")
    /\ UNCHANGED <<req, lock, live, snaps, locals, before>>

\* A git command fails and rmtree(ignore_errors) removes the directory or
\* not; or the executor refuses the finished checkout, which then stays.
CheckoutFails(d) ==
    /\ stage[d] = "fetching"
    /\ \E left \in {"absent", "partial", "complete"} : SetCheckout(d, left)
    /\ Goto(d, "raise")
    /\ UNCHANGED <<req, lock, live, snaps, locals, before>>

-----------------------------------------------------------------------------
(* _run_gates: the provider's callback, evaluated by gate_evidence.py.     *)

\* Mutation: the executor goes on to synchronise whatever the gates say.
Preflight_NotEnforced(d) ==
    /\ stage[d] = "preflight"
    /\ \E v \in {"passed", "failed"} : pre' = [pre EXCEPT ![d] = v]
    /\ Goto(d, "sync")
    /\ UNCHANGED <<req, files, post, name, saved, synced, before>>

Preflight(d) ==
    /\ stage[d] = "preflight"
    /\ \/ /\ pre' = [pre EXCEPT ![d] = "passed"]
          /\ Goto(d, "sync")
       \/ /\ pre' = [pre EXCEPT ![d] = "failed"]
          /\ Goto(d, "return")
    /\ UNCHANGED <<req, files, post, name, saved, synced, before>>

Postflight(d) ==
    /\ stage[d] = "postflight"
    /\ \E v \in {"passed", "failed"} : post' = [post EXCEPT ![d] = v]
    /\ Goto(d, "return")
    /\ UNCHANGED <<req, files, pre, name, saved, synced, before>>

GateRunnerFails(d) ==
    /\ stage[d] \in {"preflight", "postflight"}
    /\ Goto(d, "raise")
    /\ UNCHANGED <<req, files, locals, before>>

-----------------------------------------------------------------------------
(* sync_deployment: dry run, snapshot, rsync.                              *)

\* The specification or the snapshot name is refused, or the dry run fails.
RefuseSync(d) ==
    /\ stage[d] = "sync"
    /\ Goto(d, "raise")
    /\ UNCHANGED <<req, files, locals, before>>

\* Mutation: the snapshot is taken after the real rsync has begun.
DryRun_SyncsFirst(d) ==
    /\ stage[d] = "sync"
    /\ \E n \in SnapshotName, enabled \in SnapshotChoices[ServiceOf(d)] :
          /\ name' = [name EXCEPT ![d] = n]
          /\ \/ /\ TreeOf(d) = Candidate(d)
                /\ Goto(d, "postflight")
                /\ UNCHANGED live
             \/ /\ TreeOf(d) # Candidate(d)
                /\ live' = [live EXCEPT ![ServiceOf(d)].content = "torn"]
                /\ Goto(d, IF enabled THEN "snapshot" ELSE "rsync")
    /\ UNCHANGED <<req, lock, checkouts, snaps, pre, post, saved, synced, before>>

\* The name is fixed here, before the dry run, and used only later.
DryRun(d) ==
    /\ stage[d] = "sync"
    /\ \E n \in SnapshotName, enabled \in SnapshotChoices[ServiceOf(d)] :
          /\ name' = [name EXCEPT ![d] = n]
          /\ \/ /\ TreeOf(d) = Candidate(d)
                /\ Goto(d, "postflight")
             \/ /\ TreeOf(d) # Candidate(d)
                /\ Goto(d, IF enabled THEN "snapshot" ELSE "rsync")
    /\ UNCHANGED <<req, files, pre, post, saved, synced, before>>

SnapshotExists(d) == snaps[RootOf(d)][name[d]] # NoTree

\* Mutation: no refusal of a snapshot name that is taken.
CheckSnapshot_Overwrites(d) ==
    /\ stage[d] = "snapshot"
    /\ Goto(d, "archive")
    /\ UNCHANGED <<req, files, locals, before>>

CheckSnapshot(d) ==
    /\ stage[d] = "snapshot"
    /\ Goto(d, IF SnapshotExists(d) THEN "raise" ELSE "archive")
    /\ UNCHANGED <<req, files, locals, before>>

\* tar into a temporary file, then os.replace: whatever bears the name now
\* is replaced.
Archive(d) ==
    /\ stage[d] = "archive"
    /\ snaps' = [snaps EXCEPT ![RootOf(d)][name[d]] = TreeOf(d)]
    /\ saved' = [saved EXCEPT ![d] = name[d]]
    /\ Goto(d, "rsync")
    /\ UNCHANGED <<req, lock, checkouts, live, pre, post, name, synced, before>>

ArchiveFails(d) ==
    /\ stage[d] = "archive"
    /\ Goto(d, "raise")
    /\ UNCHANGED <<req, files, locals, before>>

Torn(s) == [service |-> s, content |-> "torn"]

\* rsync -a --delete has changed some files and not others.
RsyncProgress(d) ==
    /\ stage[d] = "rsync"
    /\ live' = [live EXCEPT ![ServiceOf(d)] = Torn(ServiceOf(d))]
    /\ UNCHANGED <<req, lock, checkouts, snaps, stage, locals, before>>

RsyncSucceeds(d) ==
    /\ stage[d] = "rsync"
    /\ live' = [live EXCEPT ![ServiceOf(d)] = Candidate(d)]
    /\ synced' = [synced EXCEPT ![d] = TRUE]
    /\ Goto(d, "postflight")
    /\ UNCHANGED <<req, lock, checkouts, snaps, pre, post, name, saved, before>>

\* Mutation: the exit code of the real rsync is not looked at.
RsyncFails_Unnoticed(d) ==
    /\ stage[d] = "rsync"
    /\ \E left \in {TreeOf(d), Torn(ServiceOf(d)), Candidate(d)} :
          live' = [live EXCEPT ![ServiceOf(d)] = left]
    /\ synced' = [synced EXCEPT ![d] = TRUE]
    /\ Goto(d, "postflight")
    /\ UNCHANGED <<req, lock, checkouts, snaps, pre, post, name, saved, before>>

\* Mutation: a failed rsync is tried again from the dry run, without a bound.
RsyncFails_Retried(d) ==
    /\ stage[d] = "rsync"
    /\ \E left \in {TreeOf(d), Torn(ServiceOf(d)), Candidate(d)} :
          live' = [live EXCEPT ![ServiceOf(d)] = left]
    /\ Goto(d, "sync")
    /\ UNCHANGED <<req, lock, checkouts, snaps, locals, before>>

\* rsync exits with an error, before, in the middle of or after its transfer.
RsyncFails(d) ==
    /\ stage[d] = "rsync"
    /\ \E left \in {TreeOf(d), Torn(ServiceOf(d)), Candidate(d)} :
          live' = [live EXCEPT ![ServiceOf(d)] = left]
    /\ Goto(d, "raise")
    /\ UNCHANGED <<req, lock, checkouts, snaps, locals, before>>

-----------------------------------------------------------------------------
\* The process dies: the kernel closes its descriptors and so drops its
\* flock; its files stay as they are.
Crash(d) ==
    /\ stage[d] \in Protected \cup {"waiting"}
    /\ lock' = [lock EXCEPT ![ServiceOf(d)] = IF @ = d THEN NoOne ELSE @]
    /\ Goto(d, "crashed")
    /\ UNCHANGED <<req, checkouts, live, snaps, locals, before>>

\* Steps a running call makes by itself, once it has begun.
Step(d) ==
    \/ LockTimesOut(d) \/ Release(d)
    \/ CreateCheckout(d) \/ RefuseCheckout(d)
    \/ VerifyCheckout(d) \/ CheckoutFails(d)
    \/ Preflight(d) \/ Postflight(d) \/ GateRunnerFails(d)
    \/ RefuseSync(d) \/ DryRun(d) \/ CheckSnapshot(d)
    \/ Archive(d) \/ ArchiveFails(d)
    \/ RsyncProgress(d) \/ RsyncSucceeds(d) \/ RsyncFails(d)

Next ==
    \E d \in Delivery :
        \/ LockUnavailable(d) \/ AcquireLock(d) \/ LockBusy(d)
        \/ Step(d) \/ Crash(d)

Spec == Init /\ [][Next]_vars
FairSpec == Spec /\ \A d \in Delivery : WF_vars(Step(d))
-----------------------------------------------------------------------------
TypeOK ==
    /\ req \in [Delivery -> [service : Service, sha : Sha]]
    /\ lock \in [Service -> Delivery \cup {NoOne}]
    /\ checkouts \in [Service -> [Sha -> {"absent", "partial", "complete"}]]
    /\ live \in [Service -> Tree]
    /\ snaps \in [SnapshotRoot -> [SnapshotName -> Tree \cup {NoTree}]]
    /\ stage \in [Delivery -> Stage]
    /\ pre \in [Delivery -> GateVerdict]
    /\ post \in [Delivery -> GateVerdict]
    /\ name \in [Delivery -> SnapshotName \cup {NoName}]
    /\ saved \in [Delivery -> SnapshotName \cup {NoName}]
    /\ synced \in [Delivery -> BOOLEAN]
    /\ before \in [Delivery -> Tree \cup {NoTree}]

\* Each service's lock is held by exactly the call that is inside the with
\* block of execute_delivery, and by nobody when there is none: a timeout, an
\* exception or a crash neither leaves the lock behind nor takes it away from
\* the call that has it (lock.py, service_lock).
LockHeldExactlyInside ==
    /\ \A d \in Delivery :
          stage[d] \in Protected <=> lock[ServiceOf(d)] = d
    /\ \A s \in Service :
          lock[s] # NoOne => ServiceOf(lock[s]) = s

\* From the moment a call takes the lock until its own rsync begins, the
\* deploy tree is the one it found: no other call, dead or alive, touches it,
\* and a call whose preflight did not pass never does (executor.py,
\* execute_delivery: no synchronisation after a failed preflight).
TreeUntouchedUntilSync ==
    \A d \in Delivery :
        (stage[d] \in Protected /\ (stage[d] \in Unsynced \/ pre[d] # "passed"))
            => TreeOf(d) = before[d]

\* A result that says ready is built while the deploy tree is exactly the
\* candidate's, whether the tree was synchronised or found unchanged
\* (executor.py, _result and the lock around both gate phases).
ReadyMeansDeployed ==
    \A d \in Delivery :
        (stage[d] \in {"postflight", "return"} /\ pre[d] = "passed")
            => TreeOf(d) = Candidate(d)

\* No two calls ever reach a preflight verdict on the same candidate of the
\* same service: the checkout directory outlives every outcome, crash included,
\* so a source tree is only ever used by the one call that verified it and a
\* delivery is never applied twice (checkout.py, _validate_paths).
CandidatePreparedOnce ==
    \A d, e \in Delivery :
        (d # e /\ req[d] = req[e]) => (pre[d] = "none" \/ pre[e] = "none")

\* No two services are given the same snapshot root.
OwnSnapshotRoots ==
    \A s, t \in Service : SnapshotRootOf[s] = SnapshotRootOf[t] => s = t

\* Once a call has archived the tree it replaces, the snapshot of that name
\* holds that tree for good: through a failed rsync, a failed postflight, a
\* crash, and every later delivery that picks the same name
\* (snapshot_sync.py, _create_snapshot).
SnapshotKeepsReplacedTree ==
    \A d \in Delivery :
        saved[d] # NoName => snaps[RootOf(d)][saved[d]] = before[d]

\* When the deploy tree of a service is torn and all its deliveries take
\* snapshots, the call that tore it has left a snapshot of the last whole tree
\* (snapshot_sync.py, sync_deployment: the archive comes before the rsync).
TornTreeIsRecoverable ==
    \A s \in Service :
        live[s].content = "torn" /\ SnapshotChoices[s] = {TRUE} =>
            \E d \in Delivery :
                /\ ServiceOf(d) = s
                /\ saved[d] # NoName
                /\ before[d].content # "torn"
                /\ snaps[RootOf(d)][saved[d]] = before[d]

\* Every call that has begun ends, provided the git, rsync and gate commands
\* it starts return (execute_delivery has no loop but the bounded lock wait).
EveryDeliveryEnds ==
    \A d \in Delivery : stage[d] # "idle" ~> stage[d] \in Ended

\* No service stays locked for ever: whatever happens to the holder, the lock
\* is free again and again (lock.py, the two finally clauses).
LockIsFreedAgain ==
    \A s \in Service : []<>(lock[s] = NoOne)

-----------------------------------------------------------------------------
(* The executor implements the promise of ServiceDeployment.               *)

Outcome(d) ==
    CASE stage[d] \in {"idle", "waiting"} -> "pending"
      [] stage[d] \in Protected -> IF pre[d] = "passed" THEN "approved" ELSE "open"
      [] stage[d] = "returned" -> IF Ready(d) THEN "ready" ELSE "notready"
      [] OTHER -> "failed"

Promise == INSTANCE ServiceDeployment WITH
    turn <- lock, tree <- live, verdict <- [d \in Delivery |-> Outcome(d)]

\* execute_delivery implements ServiceDeployment: one delivery at a time per
\* service, no change of the tree without an approval, no ready result but on
\* the candidate's own tree.
ImplementsPromise == Promise!Spec
=============================================================================
