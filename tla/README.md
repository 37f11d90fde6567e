# Formal models of optimizr-actions

TLA+ specifications of the parts of this repository whose correctness depends on
order, interruption and concurrency, the TLC configurations that check them on
small instances, and proofs checked by TLAPS.

Every definition is a translation of the code (file and lines are in
`PROJECT.json`, "map"); documents and tests were read for what the code is
supposed to do, and the places where they disagree are listed as findings.

## 1. The system

The repository is a library of reusable workflows, composite actions and the
Python and shell programs they run on CI runners and deployment hosts. There is
no server: each program is a process that reads the state others have left
(files, volumes, locks, tags), changes it and ends. What is hard about it is
therefore what happens between two such processes, and when one of them stops
half way.

| component | state it keeps | operations | what is hard |
|---|---|---|---|
| Delivery executor (`scripts/delivery/executor.py`, `lock.py`, `checkout.py`, `snapshot_sync.py`, `plan.py`) | per-service lock files, checkout directories, deploy trees, snapshot files | lock, checkout of an exact SHA, preflight gates, dry run, snapshot, rsync, postflight gates, result | calls contend for a service; every command may fail; the process may die anywhere |
| Manifest and rollback plan (`manifest.py`, `rollback.py`) | manifest files | write a manifest, build a plan from one | check and replace are two steps; the plan is made long after the delivery |
| Static-site deployment (`scripts/static_site/runner.py`) | stable, candidate and backup volumes; deploy, stage and backup directories | build, back up, promote volume and source, clean up, roll back | partial effects of docker commands, failure during rollback, remains of earlier jobs |
| Trivy cache (`scripts/security_gate/trivy-cache.sh`, `cache.py`) | gate, setup and database locks; databases by scanner version | refresh, prune, scan | reader/writer locks across repositories and versions, conversion of a lock, lock rings |
| v1 publication (`.github/workflows/move-v1.yml`) | the tag `v1`, the runs in progress | three events, scope, validate, check, move | concurrency groups by event, time of check and time of use, cancelled runs |
| Snapshot retention (`.github/actions/deploy-snapshot-retention/prune.py`) | snapshot files | list, choose, unlink | two prunings, failing unlinks, boundaries of three limits |
| VPS deployment (`_vps-self-hosted-deploy.yml`, `_vps-monorepo-deploy.yml`) | deploy path, images, containers, backups, manifest history | snapshot, rsync, parity check, pull, up, health check | a sequence of shell steps with `if:` conditions, each of which may fail |
| Volume contract (`scripts/deploy/volume_probe_contract.py`) | named volumes of a host | look at all required volumes, create the missing ones, probe the mounted ones | an empty volume in the place of one that was lost |
| Deploy manifest (`scripts/deploy_manifest`) | manifest and history on the host | record a deployment | atomic replacement, history |
| Container publication (`scripts/container_release`, `_container-build-publish.yml`, `_container-candidate-promote.yml`) | registry repositories and tags, artifacts of a run | build, push, vet, validate the set, promote, record; re-run | requests with one retry budget, several writers of the same tags, jobs that are run again |
| Validation gate (`_validation-gate.yml`, `_security-suite.yml`, `security_evidence.py`) | results and outputs of the jobs of a run | preflight, scan jobs, summary | outputs of jobs that are not run again; trust decided in several places |
| Repository validation (`scripts/repository_validation`, `checkout-integrity`) | a workspace on a runner | check out, verify, repair, run with retries | repair of a persistent workspace, retries that hide failures |
| Attestation, authorization (`scripts/validation_attestation`, `scripts/validation_authorization`) | none | sign off a SHA, check an authorization | exact subject, every half passed |
| Security gate (`action.yml` of `security-gate`, `scripts/security_gate`) | policy, exception and baseline files | scan, apply exceptions and baseline, evaluate windows | combination of verdicts over several targets |
| Remediation windows (`remediation_window.py`, `remediation_lifecycle.py`) | the reviewed policy file | extend, resolve, reintroduce | a history of revisions, each legal after the one before |
| Security retry and rebuild (`retry_result.py`, `rebuild.py`) | outcome files of attempts | choose the final outcome | a missing or contradictory attempt |
| Post-deploy verification (`scripts/post_deploy`) | none | retried probes | deadline and retries |
| PostgreSQL migration | old and new cluster | dump, restore, switch, roll back | failure half way |
| Quality gate, static checks, audits, release helpers | none | parse and report | little that is stateful |

Components meet through files and events, not calls: a delivery writes the
snapshot that a rollback plan names; retention deletes snapshots; the manifest
is the only record between a delivery and a rollback; the tag `v1` is what every
consumer runs. The jobs of a release meet through outputs, artifacts and the
registry: the validation gate authorizes a commit, build jobs leave fragments,
the set validation leaves a receipt, and the promotions read both.

## 2. Modules

| module | what it is |
|---|---|
| `ServiceDeployment` | what the delivery executor promises, without saying how |
| `Delivery` | the executor: one action per step of `execute_delivery` and of the functions it calls |
| `DeliveryRecord` | `Delivery` with manifests and rollback plans on top |
| `Delivery_proofs` | the theorems of both: safety of the executor, its refinement of `ServiceDeployment`, the end of a call, the rollback plan, the manifests |
| `StaticSite`, `StaticSite_proofs` | `deploy_static_site` and its rollback |
| `TrivyCache`, `TrivyCache_proofs` | the lock protocol of the scanner cache |
| `MoveV1`, `MoveV1_proofs` | events, runs and the tag |
| `SnapshotRetention`, `SnapshotRetention_proofs` | choice of survivors and unlinks |
| `VpsDeploy`, `VpsDeploy_proofs` | the workflow that deploys a Compose stack, with the volume contract and the other programs its steps run |
| `RemediationWindow` | operators: the lifecycle of a policy entry, the policy, the evaluation of observations |
| `SecurityGate` | operators: one call of the security gate, from docker to the acceptance of its outputs |
| `ReviewedWindows`, `ReviewedWindows_proofs` | the policy and gate calls over time |
| `OciPush` | the push of an image, one HTTP request at a time |
| `Publication` | build, push, vetting, set validation, promotion, manifest, re-runs; candidate promotions |
| `RepositoryValidation` | the job that runs the repository's own validation |
| `SecurityEvidence` | operators: the evidence of a scan job, the summary, the attestation, the authorization |
| `ValidationGate` | the gate and the security suite, with re-runs of failed jobs |
| `Release`, `Release_proofs` | a run that publishes behind its gate, beside other publications; the theorems of the push, the publication, the gate and their composition |
| `MC...` | instances for TLC |

How they are put together: `DeliveryRecord` EXTENDS `Delivery` and adds two
variables, so every theorem about the executor holds of it too (lemma
`RecordRefinesDelivery`). `Delivery` instantiates `ServiceDeployment` with a
refinement mapping (`Promise`) and `ImplementsPromise` is checked as a property
and proved. `Publication` EXTENDS `OciPush` (its build jobs push) and
`SecurityGate` (they require its outputs); `ValidationGate` EXTENDS
`SecurityEvidence` and `RepositoryValidation`; `Release` EXTENDS both
`Publication` and `ValidationGate` and ties them at one place, where the
authorization starts a publication (`Publish`). A `Release` refines a
`Publication`, by leaving its variables alone or taking one of its steps, so the
theorems about `Publication` hold of it too (`ReleaseIsPublication`; both are in
`Release_proofs`).
`ReviewedWindows` EXTENDS `SecurityGate`. The other modules have no variables in
common: they describe programs that meet only through files, and what one relies
on from another is written where it is used (`VpsDeploy.Prune` is the guarantee
`SnapshotRetention.OldestGoFirst` and `NewestSurvives`; the outputs that a
publication requires of a gate are the constant `GateOutcomes`).

Operators whose name has a suffix after an underscore (`Cancel_None`,
`Prune_All`) are deliberate mistakes: `PROJECT.json` says which property each
one breaks. They are not part of any specification.

## 3. From the code to the modules

In every module a process of the code (a call, a job, a run) has a control state
(`stage` or `pc`) and each action is one step of it: everything the code does
between two points at which another process, a failure or a death can make a
difference. A command that is not atomic (rsync, tar, `cp -a`, docker) is two
actions, or one that may take partial effect. Values are abstracted to what they
are the contents of: a tree is "candidate X", "what was there" or "torn".

### Delivery, DeliveryRecord, ServiceDeployment

* `lock` is the holder of the flock (`lock.py`); `LockBusy`, `LockTimesOut` are
  the polling loop, whose timeout does not look at the lock again.
* `checkouts` are the directories named service-SHA: `CreateCheckout` is the
  exclusive mkdir, `RefuseCheckout` the refusal of an existing one,
  `VerifyCheckout` and `CheckoutFails` the rest. The directory is never removed.
* `pre`, `post` are the gate verdicts of `execute_delivery`; `synced`, `name`,
  `saved` are the fields of the synchronisation's result; `DryRun`,
  `CheckSnapshot`, `Archive`, `RsyncProgress`, `RsyncSucceeds` and `RsyncFails`
  are `synchronize` in its order.
* `Crash` may happen at every stage; the kernel frees the flock.
* `manifests` and `target` (DeliveryRecord): the check that a manifest path is
  free and the `os.replace` are two actions (`CheckManifestPath`,
  `ReplaceManifest`); `Approved`, `PlannedTree` and `PlanGranted` are `build_rollback_plan`.
* `ServiceDeployment` has only the deploy trees and the verdict of each call: a
  tree changes at most once per call, to that call's candidate or a torn tree,
  and a verdict "ready" is only given with the candidate in place.

Abstracted: validation of paths, names and values is one refusal at the start;
git, rsync, tar and gates are external and may fail or be cut anywhere.

### StaticSite

The try block of `deploy_static_site` is the sequence `TrySteps`, the except
block `UndoSteps`. A volume's contents say for every version whether all, some
or none of its files are there, because `cp -a` adds to what it finds and
`docker run -v` creates what is missing, empty. Each failing step leaves any
partial effect (`PartialEffect`, `PartialUndo`). `leftover` records that
a backup volume of an earlier job could not be removed, the one case in which
backups mix; the properties about restoring name it as their exception.
Jobs of one site run one at a time: neither the program nor its workflow
enforces that, it is an obligation of the caller, and stated in `Start`.

### TrivyCache

The three flocks of `trivy-cache.sh` (`gate` per repository, `setup` and
`writer`/`readers` per scanner version) and the pruning of `cache.py`, which
asks for other versions' locks without waiting. `Convert` releases and takes
again, as flock's conversion does. `Age` and `Expire` are the clock.

### MoveV1

A run is its event, its target and its stage. `Cancel` is the concurrency group
(per event, cancel-in-progress), `Trigger` the `if:` of the first job,
`Scope` its outputs, `Ends`/`Reaches` the `needs:` and `if:` of the later jobs.
`CheckMain` and `MoveTag` are two actions: main may move between them. A
cancelled run takes no further step, as soon as it is cancelled.

### SnapshotRetention

`Survivors` is the choice of one listing by the three limits in their order. The
code sorts the listing once, newest first, and each pass keeps a prefix of what
the pass before kept, so a pass is a set of the n newest (`Newest`): those that
are young enough, those within the count, and the longest run within the bytes
but never less than one. Sets and cardinalities say the same as the sorted list
because names are unique and break ties of time (`Newer`), and they can be
reasoned about, which a recursion over the list could not. Listing and choosing
are one action, each unlink is its own (`IsFirst`, oldest first), so two prunings
and new snapshots interleave with the deletions.

### VpsDeploy

The steps of `_vps-self-hosted-deploy.yml` in order are the stages in `Before`,
then `"rollout"` and `"health"`, then the final steps (`Always`, `if: always()`).
`StepFails` is a failing step, a cancellation or the job's timeout: the rest is
skipped and the final steps run. `Lost` is a runner that is gone: nothing more
runs. `Arrive` and `Begin` are the concurrency group without
cancel-in-progress: one job runs, one is pending, a newer one supersedes it.
`tag` is the image ID to which each configured image resolves; building, pulling
and rebuilding may move any of the images they provide, also when they fail.
`InitialPasses` ... `CompatibilityAllowed` are `evaluate_retry` over the
outputs of the two scans and the rebuild; `Admitted` is the shell step that
reads them. `RecordManifest`, `PointToLast`, `TrimManifests`, `Decorate` are
the writes of `record.py`, `write.py` and `remediation.py`.

Abstracted: counts of findings (only the class, the outcome and whether the
window covers them); classes that neither pass nor are actionable are one;
networks and nginx validation are failures of the stage they run in; manifests
and scans are enabled. A job of which the candidate equals the deployed tree is
a choice at the dry run.

The volume contract: `Contract` is what the inputs may authorize, all missing
volumes (the legacy switch) or the listed ones, never both. `CheckVolumes` looks
at every required volume before anything is created, each creation is its own
step, and a creation that is not confirmed fails the job although the volume is
there. Which volumes exist at first is any set. `ProbesPass` is what
`_verify_probe_target` asks of a container: running, of the image its
configuration still names, with the volume mounted; which image is probed for
which volume is the constant `Probed`.

### OciPush, Publication

`request[j]` is the next HTTP request of a push, `at[j]` the blob or child it is
about, `refreshes[j]` the credential refreshes used of the one budget. Each
request may be served, answered with 401 (`Unauthorized`: the same request
again, but an upload starts over with a new session) or fail, with or without
having taken effect in the registry (`RequestFails`). Blobs are uploaded before
children, children before the tag; the order is `LayoutAssumption`, which is
what `_load_graph` produces.

`stage[a]` is where the job of an image is, in its build and then in its
promotion; `attempt[r]` and `verdict[r]` are the run's. `fragment`, `receipt`,
`released` and `manifest` are the artifacts that one job writes and another
reads, under names that hold the run but not the attempt: a later attempt
replaces them. `Build` is buildx with its two modes, `Vet` everything a job does
with a digest it has pushed (inspection, scan, gates, uploads; one step, since
it reads only the immutable image and writes only the fragment), `ValidateSet`
`aggregate_policy`, `StartPromotion` to `ReadBack` the promotion, with
`TaggingRetried` for `retry_network.py`, `Aggregate` the manifest. `Rerun` is
"Re-run failed jobs". `CheckCandidate` and `ReadBackBoth` are
`_container-candidate-promote.yml`, which writes the same tags.
`vetted` is history: which image was let pass for which service and commit.

### RepositoryValidation, SecurityEvidence, ValidationGate, Release

`RepositoryValidation` is the job of `_repository-validation.yml`: a checkout
leaves any of `Workspaces`, `VerifyWorkspace` and the one `RepairWorkspace` are
`checkout-integrity`, `CheckTrust` is `verify_trusted_candidate`, `RunScript`
one turn of the retry loop, whose exit codes are kept in `exits`.

`ValidationGate` has a result for each job of the gate (`result`), the outputs
of the scan jobs, of the summary and of the attestation. A job waits for its
`needs`, is skipped, succeeds or fails; `RerunGate` puts the failed jobs, or any one
job, back with those that depend on them, in the next attempt, and leaves all
other results and outputs as they are. The trust of a runner is decided by four
different conditions in the code, which are `PreflightAccepts`, `RunnerTrusted`,
`RepositoryRunnerAccepted` and `needsTrust`, each written as the code has it.

`Release` is a caller as `docs/VALIDATION_AUTHORIZATION.md` shows it: the
publication starts in the attempt in which the authorization was granted.

### RemediationWindow, SecurityGate, ReviewedWindows

Pure operators in the order of the code. `LifecycleAccepted` is
`normalize_lifecycle`: each revision against the one before. `WindowState` and
`Decision` are `_evaluate_one` and `evaluate_remediation_windows`, with all of
the counts that `SecurityGateAcceptable` reads. `GateOutputs` composes
transport, exceptions, baseline, windows and aggregation with the early exits of
`action.yml`. In `ReviewedWindows` reviewers append entries and revisions to the
policy file, right ones and ones with a slip in one field (`Revisions`), time
passes, and a gate call takes the policy of its checkout, scans, and evaluates
later. They only append: the code sees one version of the file, so what it
promises about first sightings holds only of files whose lines are not taken
back.

## 4. The runs

| run | instance | checks | question |
|---|---|---|---|
| `record` | 2 calls, 2 services, 2 SHAs, 1 snapshot name, 2 manifest paths | 7 invariants, refinement, 2 liveness properties | what is true whatever fails, times out or dies; does the executor keep its promise, do calls end, are plans right |
| `record_race` | as `record` | violation | is a manifest immutable |
| `site_jobs` | 2 jobs, 2 SHAs | 1 invariant, 3 action properties, liveness | is the site restored or published |
| `site_cleanup` | as `site_jobs` | violation | does every failure restore the volume |
| `trivy_jobs` | 3 shared jobs of 2 versions, 1 job in repository scope, 3 repositories | 2 invariants, 1 action property, liveness | are databases and caches protected, does the lock ring block |
| `move_events` | 3 commits of every kind, 1 dispatch, 1 unmerged close | 1 invariant, 1 action property, liveness | what v1 may name and when it is moved |
| `move_unpublished` | 2 commits | violation | is every contract change published |
| `retention_prune` | 2 prunings, 3 snapshots, times 0..3, sizes to 2 | 3 invariants | what may be deleted |
| `vps_jobs` | 2 jobs, a built and a pulled image, 2 volumes; symmetric | 4 invariants | what is rolled out, what is recorded, what is created |
| `vps_pointer` | as `vps_jobs` | violation | is the success pointer ever lost |
| `window` | 1 gate call of some 40 inputs, times 0..3, 2 findings, 2 revisions | 3 invariants | what may an accepted gate have let pass |
| `release` | a gated run of 2 images, an ungated run of 1, a candidate promotion; 2 attempts of the gated run | 7 invariants, liveness | what a gate authorizes, what a registry holds, what is released |

Why these bounds are enough for the cases they are after:

* `record`: a holder and a waiter that times out or starts after a crash, a race
  on a path, and a plan made from an overwritten manifest need two calls and one
  shared path; with fewer snapshot names than calls, names collide; a torn tree
  found by the next delivery needs two of one service.
* `site_jobs`: what a job leaves behind matters to the next one, for the same
  SHA (same backup name) and another (same stable volume).
* `trivy_jobs`: a ring of locks needs two versions that prune each other; two
  jobs of one version give readers and a writer; the fourth job shares a
  repository with the first in the other scope.
* `move_events`: a publication that is overtaken, cancelled and recovered needs
  three commits and two other events.
* `retention_prune`: every set of up to three snapshots, every tie of times, and
  every value of the three limits around their boundaries.
* `vps_jobs`: what a job leaves behind (tree, tags, archives, pointer) is met by
  one other; one image that the rebuild builds and one that it pulls, so that
  one of them can move alone; initially each is on the host or not. One
  manifest is kept, so the second job's trimming removes the first's. Two
  volumes, so that one may be missing and allowed and the other not.
* `window`: an instant serves as a day. Limits of 1 and 2 with times up to 3 give
  every relation of a sighting, a deadline, its extension and an evaluation; two
  revisions are the shortest history with a reopened or doubly extended entry.
  Two further bounds prune what no gate would see: time stops when all gates are
  done (`Tick`), and nobody edits a file that every later gate would refuse
  (`WorthEditing`). Inputs vary one ingredient at a time around a base (each
  kind and severity of findings, each flaw of an exception or a baseline, each
  answer of docker).
* `release`: the images of the three build jobs share a blob; one has a child; two
  runs and a promotion write the release tags of one commit. One request per push
  may be answered 401 and one still refreshed; the number of attempts is
  the length of `CandidateTag`. `MaxFaults` bounds the jobs of the gate that
  break by themselves (refusals by the code are not bounded). A gate shares no
  state with a publication, so its steps are taken first (`GatesFirst`), and what
  it leaves is forgotten once the publication has started (`Publish`): nothing
  reads it again. A run that was authorized is not sent through the gate again.
  A re-run of the gate happens as long as it has not authorized.

`CHECK_DEADLOCK FALSE` is set where calls, jobs or events run out, which is
the intended end; `VpsDeploy` has an explicit final stutter instead and is
checked for deadlock.

## 5. What each property says, and the code it is about

* `LockHeldExactlyInside`, `LockIsFreedAgain`, `EveryDeliveryEnds`: the lock is
  held by exactly the call inside, and every call that begins ends with it free.
* `TreeUntouchedUntilSync`, `ReadyMeansDeployed`: what the preflight gates saw is
  what rsync replaces, and ready means that the candidate is in place.
* `CandidatePreparedOnce`: a checkout is never trusted by a second call.
* `SnapshotKeepsReplacedTree`, `TornTreeIsRecoverable`,
  `PlanRestoresReplacedTree`: snapshots are there and right when they are
  needed, however much later.
* `BeforeIsKept`, `FailureRestoresVolume`, `FailureKeepsSource`,
  `PassedMeansPublished`: the site is whole before, after, or again.
* `ScanReadsWholeDatabase`, `FreshDatabaseIsKept`, `OneJobPerScanCache`: scans
  do not read what another job is replacing, and nobody throws away a database
  that another has just refreshed.
* `OnlyValidatedIsPublished`, `NeverMovesBack`, `PublishedUnlessInterrupted`:
  v1 names what was validated, forwards, and gets there.
* `OldestGoFirst`, `NewestSurvives`, `KeepsTheMostAllowed`: the deletions are
  right at every moment, and no more than the limits require.
* `RolloutIsWhatWasChecked`: at the moment `compose up` runs, the deploy path is
  this job's tree and the set of images on the host is exactly the set that the
  first or the second scan accepted. It depends on the order of seven steps, on
  the concurrency group, on the comparison of image IDs and on the verdict.
* `PointerIsTruthful`: the success pointer names a job that reached its rollout
  and, until another one does, exactly the images that run.
* `ReplacedTreeIsArchived`: the archive a job has made survives to its end.
* `VolumesAreNotSubstituted`: no volume is created as long as another is missing
  that may not be, so a refused deployment leaves no empty volume behind for the
  next one to take for the data.
* `AcceptedIsReviewed`: for every finding of every image of a gate that a release
  may rest on, there is a reason that names it: nobody has fixed it, or an
  unexpired exception, an unexpired baseline, or a tracked window.
* `AllowedOnlyWithinWindow`, `ResolvedIsNotAllowedAgain`: what a history of
  revisions adds up to, whichever were made.
* `ScriptRunsOnExactTree`: neither a repair nor a retry runs the executable
  elsewhere, and none hides a failure.
* `SuiteRestsOnOneAttempt`, `AuthorizedMeansValidated`,
  `PersistentRunnersRunTrustedCode`: what a verdict rests on after jobs have been
  run again, and what runs where.
* `TagsAreWhole`: whatever a registry answers, all of an image is there before
  a tag names it. `EveryPushEnds`: the budget is the push's, not the request's.
* `OnlyWholeSetsAreReleased`, `ManifestIsWhatWasValidated`: release tags and
  manifests name what passed, as a set, whoever wrote them last.

## 6. Fairness

Liveness is checked under weak fairness of the steps of each call, job or event
separately, never of failures, deaths, cancellations or the clock:

* `Delivery`, `StaticSite`: every external command returns, fails or runs into
  the timeout the code gives it, so a process that is alive takes its next step.
  Waiting for a lock is polling with a deadline, which ends the wait.
* `TrivyCache`: flock wakes a waiter when the lock is free, and the kernel frees
  the locks of a dead process. Weak fairness suffices as every holder goes on.
* `MoveV1`: GitHub carries a run that is not cancelled to its end.
* `OciPush` within `Release` (`PushFairness`): weak fairness of the requests of
  each push and of nothing else. Every HTTP request has a timeout
  (`push_oci_layout.py`), after which it has failed. Whether the registry answers
  401 is not subject to fairness; the budget ends that.

`VpsDeploy`, `SnapshotRetention` and `ReviewedWindows` are checked for safety
only; so is the rest of a release, whose jobs and runs need never start.

## 7. What is proved

TLAPS checks the following for every value of the constants. Each invariant is
proved by Init, by one step per action, and by PTL. Each proof module begins
with its type invariant (`TypeCorrect`, `ReleaseTypeCorrect`; in
`ReviewedWindows_proofs` a part of `Bound`), which all the others use.

| theorem | states | from | along |
|---|---|---|---|
| **`Delivery_proofs`** `LockSafety` | `LockHeldExactlyInside` | the constants' assumptions | inductive with the types |
| `TreeSafety`, `ReadySafety` | `TreeUntouchedUntilSync`, `ReadyMeansDeployed` | the same | `StageDiscipline`, what each stage implies about verdicts, `synced` and `name`; with the lock, nobody else writes the tree |
| `PreparedOnce` | `CandidatePreparedOnce` | the same | `PreparedInv`: a verdict implies that the directory exists, and a call past `CreateCheckout` is alone with it |
| `SnapshotSafety`, `TornTreeSafety`, `RollbackSafety` | `SnapshotKeepsReplacedTree`, `TornTreeIsRecoverable`, `PlanRestoresReplacedTree` | `OwnSnapshotRoots` | `SnapshotInv` (the name about to be archived is free); `TornInv` (a call in rsync has archived what it found; while a tree is torn, or a call has found it torn, a whole tree of that service is archived); `ManifestsAreResults` (every manifest is the result of a call that has returned, and results are final) |
| `ExecutorImplementsPromise` | `ImplementsPromise` | the constants' assumptions | each action is a step or a stutter of `ServiceDeployment`, under the invariants above |
| `CallsAreBounded` | at most 23 steps of a call | the same | stages have an order (`Place`); rsync can tear only a tree that is not torn |
| `ManifestsAreFinal` | `ManifestIsImmutable` | `OwnManifestPaths` | `PathsStayFree`: the path a writer has found free still is |
| **`StaticSite_proofs`** `BackupSafety`, `RestoreSafety` | `BeforeIsKept`, `FailureRestoresVolume` | the constants' assumption | `OneRuns` and `BackupInv`: until the cleanup the stable volume or the backup of this job holds what it found, unless `leftover` |
| `PublishSafety`, `SourceSafety` | `PassedMeansPublished`, `FailureKeepsSource` | the same | `PublishInv` (a candidate volume has files of its own version only, and all of them once built; from the verification on, so has the stable volume) and `SourceInv` (where the found source and the own one are, by the step) |
| `JobsAreBounded` | at most 17 steps of a job | the same | the order of the steps |
| **`TrivyCache_proofs`** `ScanSafety`, `ScanCacheSafety`, `FreshSafety` | `ScanReadsWholeDatabase`, `OneJobPerScanCache`, `FreshDatabaseIsKept` | the constants' assumption | `LockInv`: each stage holds the locks it has taken, readers exclude a writer, only the writer replaces |
| `WaitingIsOrdered`, `NeverAllWait` | no ring of waiting jobs | the same | `HeldByItsJob`: a lock is held by a running job whose stage is further up in the order gate, setup, database |
| `JobsAreBounded` | a bound on the steps of a job | finitely many versions | a count that each step lowers, four per version still to be visited by the pruning |
| **`MoveV1_proofs`** `PublishedIsValidated`, `EventsMoveForward` | `OnlyValidatedIsPublished`, `NeverMovesBack` | the constants' assumptions | `NeedsValidation` (past its validation a run's target is validated); one run per event, and its target is not older than where that event's runs moved the tag |
| **`SnapshotRetention_proofs`** `NoHoles`, `NewestIsKept`, `MostIsKept` | `OldestGoFirst`, `NewestSurvives`, `KeepsTheMostAllowed` | the bounds are numbers | see below |
| **`VpsDeploy_proofs`** `RolloutSafety`, `PointerSafety`, `ArchiveSafety`, `VolumeSafety` | `RolloutIsWhatWasChecked`, `PointerIsTruthful`, `ReplacedTreeIsArchived`, `VolumesAreNotSubstituted` | `ParametersAssumption` | see below |
| **`ReviewedWindows_proofs`** `OutputsAreBound`, `AcceptedGatesAreReviewed`, `AllowedWithinLimit`, `ResolvedForGood` | the outputs are those of the input; `AcceptedIsReviewed`, `AllowedOnlyWithinWindow`, `ResolvedIsNotAllowedAgain` | `BoundsAssumption`, `InitialPoliciesAssumption`, `GateInputsAssumption` | the outputs of a gate that is done are `GateOutputs` of its input, its commit and its two times; then by cases of `Decision` and of the acceptance: each early exit of the gate leaves a count that is refused, an allowed window has every observation covered, a covered one has an accepted entry, and the last status of a history with a resolution cannot be "active" |
| **`Release_proofs`** `WholeTags`, `WholeSetsReleased`, `ManifestValidated` | `TagsAreWhole`, `OnlyWholeSetsAreReleased`, `ManifestIsWhatWasValidated`, of `Publication` | `ImagesAssumption`, `LayoutAssumption`, `PublicationAssumption`, `TagsAssumption` | see below |
| `ReleaseIsPublication`, `ReleasedTagsAreWhole`, `ReleasedSetsAreWhole`, `ReleasedManifest` | the same of `Release` | the above and `GatedRunsAssumption` | refinement by EXTENDS |
| `PushesAreBounded` | a bound on the requests of a push | the same | `RequestsLeft`: three per blob, one per child, two for the tag, two per credential refresh of the one budget; every request lowers it |
| `ExactTree`, `OneAttempt`, `OnlyValidated`, `TrustedCode` | `ScriptRunsOnExactTree`, `SuiteRestsOnOneAttempt`, `AuthorizedMeansValidated`, `PersistentRunnersRunTrustedCode` | the above, `GateAssumption`, `RetryAssumption`, `WorkspacesAssumption` | see below |

**VpsDeploy.** The invariant is a conjunction over the jobs (`JobInv`): which
images the two scans have seen and whether they are still the ones on the host
(`GateInv`), whose tree and override the deploy path has (`TreeInv`), that the
newest archive is the announced one (`SnapshotInv`), that all that is missing
may be created (`VolumeInv`), and who replaced containers last (`RolledInv`); with
`PointerIsTruthful` it is inductive. All of it is about the host, which other
jobs share, so it rests on `OneAtATime`, the concurrency group: a job of which
another one takes a step is not active (`OthersKeepJobInv`). `RolloutIsWhatWasChecked`
is `GateInv` and `TreeInv` at one stage. It is not inductive by itself, since what
the scan accepted is decided seven steps earlier.

**SnapshotRetention.** Two facts about the choice, for every listing of finitely
many snapshots with unique names: what survives is closed upwards (whoever is
newer than a survivor survives), and a set that is closed upwards and acceptable
is no larger than what survives. The first makes `OldestGoFirst` inductive: what
a pruner still has to unlink is everything of its listing below a point, and
the others' deletions and new snapshots do not change that. The second is
`KeepsTheMostAllowed`, with the counting done by the lemmas `FewerAbove` and
`NewestAreFew`: fewer are above who is newer, so the n newest are at most n.

**The publication** (first half of `Release_proofs`). The invariant has four
parts. Per push: which blobs and children are in the repository already, by
how far it is, so that all of the image is there when its tag is written. Per
job and run: what each stage says of the fragment, the receipt and the history
(a built job's fragment has passed and is vetted, a receipt's images are the
fragments of its jobs and their digests stay as they are until a manifest names
them). Per candidate: one that is being promoted is whole and vetted. For the
registry: every tag is whole, and every release tag is vetted by a set or a
candidate. It is preserved step by step with a few frame lemmas: blobs and
manifests of a registry only grow, so what is whole stays whole; a step of one
job leaves another's alone. `TagsAssumption` is needed: if a candidate tag could
equal a release tag, a push would release what nobody has vetted.

**The gate** (second half). `GInv` says of each job which results it implies of
the jobs it needs (`JobOrder`), and of each result what the job saw when it had
it: the preflight's condition, the steps of the validation with its workspace,
trust and exits, the record in every output with the attempt it is of, the
children the summary has accepted, and the verdicts under the attestation and
the authorization. The re-run is the hard case: a job that is put back takes
along all that depend on it, so what remains rests on jobs that remain.

**Assumptions that are about use.** `OwnSnapshotRoots`: two services that are
configured with one snapshot root use the same file names (a UTC time in
seconds) under different locks, and one can overwrite the other's snapshot
between the check and the rename. `OwnManifestPaths`: two adapters with one path
both find it free; the run `record_race` shows what happens then, and the theorem
that nothing else can change a manifest. Finitely many scanner versions: a
directory listing is finite.

**Only model-checked: liveness.** `EveryDeliveryEnds`, `LockIsFreedAgain`, the two
`EveryJobEnds`, `PublishedUnlessInterrupted` and `EveryPushEnds` need fairness
and ENABLED, which are out of this prover's reach. What they rest on is proved
where it is more than fairness: that no process repeats a step without bound
(`CallsAreBounded`, `JobsAreBounded`, `PushesAreBounded`), and that the waits
without a deadline, those of the scanner cache, have no ring
(`WaitingIsOrdered`). So only the progress of single steps is left to TLC. The
four runs that find a counterexample have no theorem, of course.

Every safety invariant and every action property that a passing run checks is
stated by a theorem. The type invariants are proved, and not checked again by
the runs; of that of `ReviewedWindows` the part about the outputs' counts and
the bound on revisions, which are sums over sets, are stated for the reader only
(`Bound` has the rest).

## 8. Where code and documents disagree

Each has a run that finds a counterexample.

* `record_race` (`manifest.py:86`): the check for an existing manifest and the
  replace are apart; two adapters with one path both succeed.
* `site_cleanup` (`runner.py:273`): the evidence file is written after the
  cleanup has removed the backup; if that write fails the rollback empties the
  stable volume and reports success of the rollback.
* `move_unpublished` (`move-v1.yml:280`): a merge that changes nothing of the
  contract makes the earlier run refuse its SHA and starts none of its own.
* `vps_pointer` (`_vps-self-hosted-deploy.yml:668`): `rsync --delete` removes
  `.deploy-manifests`, the history and the success pointer, unless the caller's
  `.deployignore` lists it.

Further remarks made while modelling, without a run:

* The VPS workflow's prebuilt mode writes its override file into the deploy path
  before the filesystem gate; `docs/SECURITY_GATE.md:129` says the gate runs
  before any mutation.
* An image that is not on the host at discovery is only warned about; `compose
  up` may then build it, unscanned. `RolloutIsWhatWasChecked` therefore speaks of
  the images that are there.
* A remediation window is read from the second scan's outputs only, so it never
  admits a deployment without a rebuild (prebuilt mode, or retry disabled).
* The recorder runs before the last cleanup: a job that fails in that cleanup,
  or in the rewrite of the manifest, has been recorded as successful.
* main may move between the check and the write of v1; runs of different
  events may then move the tag to an older commit (`NeverMovesBack` is about
  the runs of one event). Closing a pull request unmerged cancels a recovery
  run of an earlier merge.
* `docs/SECURITY_GATE.md:262` says that known-exploited and already-fixed findings
  remain ineligible for a window. The gate collects its observations without the
  options that would mark them, so the refusals at
  `remediation_window.py:342` cannot happen through the gate; `ObservationOf`
  has both FALSE.
* The design of the windows (`docs/superpowers/specs/2026-07-30-security-remediation-windows-design.md:128`)
  makes the first sighting immutable, but `load_policy` sees one version of the
  file; the bound that `AllowedOnlyWithinWindow` states is from the sighting of
  that version. The same document (:296) calls a window overdue when its deadline
  is reached; the code does when it is past.
* `_container-build-publish.yml`: the promotion relies on the gate's decision in
  the build job's fragment. When only a failed promotion is run again, later, the
  windows are not evaluated again, and the candidate's tag is named after the new
  attempt although the artifacts belong to the run; the digest is what is
  promoted, so `OnlyWholeSetsAreReleased` holds.
* `docs/IMMUTABLE_CONTAINER_DEPLOY.md:31`: the strict validation of a set requires
  bare digests as targets of exceptions, while the gate of a build compares
  targets with the whole candidate reference. Only exceptions by lineage satisfy
  both.
* The evidence of a scan job names its attempt, and a job that is not run again
  keeps that of the earlier one: after "re-run failed jobs" the suite passes
  only if every required scan runs again. It errs on the safe side
  (`SuiteRestsOnOneAttempt`).
* The input `image_refs` with nothing but spaces makes the supply-chain job run
  (`!= ''`) though it is not required (`strip()`).
* A volume that a deployment has created before it fails at a later step, the
  image gate say, is there for the next one, which then needs no authorization.
  `VolumesAreNotSubstituted` is about one deployment.

## 9. What is not modelled, and the plan

The components with status "not_modelled" in `PROJECT.json`, each with its
reason; and of those that are modelled in part: the adapters and gate evidence
of the delivery executor (a gate is a verdict there), the monorepo variant of the
deployment (the same sequence with hooks), networks and nginx, the migration of
an unversioned scanner cache, malformed metadata of manifests. Reviewers who
rewrite the history of a policy, and an executable that changes the tree it
validates, are outside of what the code can see; the modules say so where they
assume otherwise.

In order of what would be gained:

1. Retention and delivery composed: a snapshot that a manifest still names
   (hazard at `prune.py:125`), with a theorem about what a plan is still worth.
2. A static-site job that is the only one to hold a whole copy in its backup
   volume when it dies (hazard at `runner.py:286`), as a theorem about sequences
   of jobs.
3. The delivery executor's gate evidence and adapters, in `Delivery`.
4. Post-deploy probes with their deadline, the environment file writer.
5. The PostgreSQL migration and the monorepo variant of the deployment.

Not planned: stateless parsers and rules (static lint, SAST, dependency policy,
metadata validation), report and badge generation, wrappers of external services.
