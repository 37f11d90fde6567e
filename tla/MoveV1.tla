------------------------------- MODULE MoveV1 -------------------------------
(***************************************************************************)
(* The publication of the floating tag v1 (.github/workflows/move-v1.yml). *)
(*                                                                         *)
(* Three events start a run: a push to main, the closing of a pull request *)
(* (which publishes only what a skip instruction kept from the push run)   *)
(* and a manual dispatch.  A run resolves its target, validates it, looks  *)
(* at main again and moves the tag.  The concurrency group is the event's: *)
(* a new run cancels the run of the same event, and only that one.         *)
(*                                                                         *)
(* Commits of main are numbered; v1 = 0 says that the tag does not exist.  *)
(***************************************************************************)
EXTENDS Naturals

CONSTANTS
    MaxCommits, MaxDispatches, MaxClosings,     \* bounds
    Skips,          \* may a commit carry a skip instruction?  {FALSE} or BOOLEAN
    Relevants       \* does it change the portable contract?  {TRUE} or BOOLEAN

ASSUME MoveV1Assumption ==
    /\ MaxCommits \in Nat /\ MaxDispatches \in Nat /\ MaxClosings \in Nat
    /\ Skips \subseteq BOOLEAN /\ Relevants \subseteq BOOLEAN

VARIABLES
    main,           \* the newest commit of main
    skip,           \* the commits with a skip instruction in their message
    relevant,       \* the commits that change the portable contract
    v1,             \* the commit the tag is at
    runs,           \* the runs in progress
    dispatches, closings,
    (* history *)
    validated,      \* targets some run has validated
    failed,         \* targets of runs whose validation or runner failed
    lost,           \* targets of runs an unmerged pull request has cancelled
    moved           \* [Event -> where its runs last moved the tag]

counters == <<dispatches, closings>>
past == <<validated, failed, lost, moved>>
vars == <<main, skip, relevant, v1, runs, counters, past>>
repository == <<main, skip, relevant>>

Commit == 1..MaxCommits
Event == {"push", "pull_request_target", "workflow_dispatch"}
Stage == {"scope", "validate", "check", "move"}
Run == [event : Event, target : Commit, stage : Stage]

Init ==
    /\ main = 0 /\ v1 = 0
    /\ skip = {} /\ relevant = {}
    /\ runs = {}
    /\ dispatches = 0 /\ closings = 0
    /\ validated = {} /\ failed = {} /\ lost = {}
    /\ moved = [event \in Event |-> 0]

-----------------------------------------------------------------------------
(* The events.                                                             *)

\* Mutation: the run in progress is not cancelled.
Cancel_None(event, rs) == rs

\* concurrency: group move-v1-<event>, cancel-in-progress.
Cancel(event, rs) == {r \in rs : r.event # event}

Trigger(event, target, rs) ==
    Cancel(event, rs) \cup {[event |-> event, target |-> target, stage |-> "scope"]}

\* A pull request is merged: GitHub starts the push run unless the paths or a
\* skip instruction say no, and the closed run always.
Merge(s, r) ==
    /\ main < MaxCommits
    /\ main' = main + 1
    /\ skip' = IF s THEN skip \cup {main'} ELSE skip
    /\ relevant' = IF r THEN relevant \cup {main'} ELSE relevant
    /\ LET pushed == IF r /\ ~ s THEN Trigger("push", main', runs) ELSE runs
       IN runs' = Trigger("pull_request_target", main', pushed)
    /\ UNCHANGED <<v1, counters, past>>

\* A pull request is closed without a merge: no job of its run starts, but it
\* is a run of the group.
CloseUnmerged ==
    /\ closings < MaxClosings
    /\ closings' = closings + 1
    /\ runs' = Cancel("pull_request_target", runs)
    /\ lost' = lost \cup {q.target : q \in runs \ runs'}
    /\ UNCHANGED <<repository, v1, dispatches, validated, failed, moved>>

Dispatch ==
    /\ main > 0
    /\ dispatches < MaxDispatches
    /\ dispatches' = dispatches + 1
    /\ runs' = Trigger("workflow_dispatch", main, runs)
    /\ UNCHANGED <<repository, v1, closings, past>>

-----------------------------------------------------------------------------
(* The jobs scope, validate and move-v1.                                   *)

Ends(r) == runs' = runs \ {r}
Reaches(r, stage) == runs' = (runs \ {r}) \cup {[r EXCEPT !.stage = stage]}

Publishes(r) ==
    r.event = "pull_request_target" => r.target \in skip \cap relevant

\* Mutation: the last job does not need the validation.
Scope_NoNeeds(r) ==
    /\ r.stage = "scope"
    /\ IF Publishes(r) THEN Reaches(r, "check") ELSE Ends(r)
    /\ UNCHANGED <<repository, v1, counters, past>>

\* Mutation: every closed pull request leaves the publication to the push.
Scope_NeverRecovers(r) ==
    /\ r.stage = "scope"
    /\ IF r.event # "pull_request_target" THEN Reaches(r, "validate") ELSE Ends(r)
    /\ UNCHANGED <<repository, v1, counters, past>>

Scope(r) ==
    /\ r.stage = "scope"
    /\ IF Publishes(r) THEN Reaches(r, "validate") ELSE Ends(r)
    /\ UNCHANGED <<repository, v1, counters, past>>

Validate(r) ==
    /\ r.stage = "validate"
    /\ Reaches(r, "check")
    /\ validated' = validated \cup {r.target}
    /\ UNCHANGED <<repository, v1, counters, failed, lost, moved>>

\* Tests fail, or a runner does.
RunFails(r) ==
    /\ Ends(r)
    /\ failed' = failed \cup {r.target}
    /\ UNCHANGED <<repository, v1, counters, validated, lost, moved>>

\* "main advanced after validation; refusing to move v1 to stale SHA".
CheckMain(r) ==
    /\ r.stage = "check"
    /\ IF r.target = main THEN Reaches(r, "move") ELSE Ends(r)
    /\ UNCHANGED <<repository, v1, counters, past>>

\* PATCH with force, or POST if the tag does not exist yet.
MoveTag(r) ==
    /\ r.stage = "move"
    /\ v1' = r.target
    /\ moved' = [moved EXCEPT ![r.event] = r.target]
    /\ Ends(r)
    /\ UNCHANGED <<repository, counters, validated, failed, lost>>

RunStep(r) == Scope(r) \/ Validate(r) \/ CheckMain(r) \/ MoveTag(r) \/ RunFails(r)

Next ==
    \/ \E s \in Skips, r \in Relevants : Merge(s, r)
    \/ CloseUnmerged
    \/ Dispatch
    \/ \E r \in runs : RunStep(r)

Spec == Init /\ [][Next]_vars

\* GitHub carries every run on to its end.
FairSpec ==
    /\ Spec
    /\ \A event \in Event : WF_vars(\E r \in runs : r.event = event /\ RunStep(r))

-----------------------------------------------------------------------------
TypeOK ==
    /\ main \in 0..MaxCommits /\ v1 \in 0..MaxCommits
    /\ skip \subseteq Commit /\ relevant \subseteq Commit
    /\ runs \subseteq Run
    /\ dispatches \in 0..MaxDispatches /\ closings \in 0..MaxClosings
    /\ validated \subseteq Commit /\ failed \subseteq Commit /\ lost \subseteq Commit
    /\ moved \in [Event -> 0..MaxCommits]

\* v1 is only ever at a commit whose validation has succeeded in some run
\* (README.md:9 of the repository; the needs of the job move-v1).
OnlyValidatedIsPublished == v1 # 0 => v1 \in validated

\* The runs of one event never move v1 back: the older run is cancelled
\* before the newer can publish (move-v1.yml:58, cancel-in-progress in the
\* event's group).  Runs of two events can, between the look at main and the move.
NeverMovesBack == [][\A event \in Event : moved'[event] >= moved[event]]_vars

\* Every commit that changes the portable contract is published, by itself or
\* in a later commit, unless a validation or a runner fails for it or a later
\* one (README.md:9 of the repository, "trigger validation and publication").
ContractChangesArePublished ==
    \A c \in Commit :
        c \in relevant ~> v1 >= c \/ \E d \in failed : d >= c

\* Where no pull request closed without a merge has cancelled a run
\* (move-v1.yml:59), and no merge that changes nothing of the contract has come
\* after the change (move-v1.yml:280 refuses it then), the tag is moved to it,
\* or to a later one, by the runs of some event.
PublishedUnlessInterrupted ==
    \A c \in Commit :
        c \in relevant ~>
            \/ \E event \in Event : moved[event] >= c
            \/ \E d \in failed \cup lost : d >= c
            \/ \E d \in c..main : d \notin relevant
=============================================================================
