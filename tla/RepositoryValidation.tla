------------------------ MODULE RepositoryValidation ------------------------
(***************************************************************************)
(* The job of .github/workflows/_repository-validation.yml: check the      *)
(* candidate out, verify the workspace (checkout-integrity, with its one   *)
(* repair), check that the candidate may be trusted, run the executable of *)
(* the repository with its retries, and write the evidence                 *)
(* (scripts/repository_validation/runner.py).                              *)
(*                                                                         *)
(* git, docker and the executable are external.  The executable is taken   *)
(* to leave the tracked files alone, as docs/REPOSITORY_VALIDATION.md asks *)
(* of one that is retried.                                                 *)
(***************************************************************************)
EXTENDS Naturals, Sequences

CONSTANTS
    Validation,     \* jobs
    Workspaces,     \* what a checkout on the runner may leave
    MaxRetryAttempts,   \* retry_attempts
    Transient           \* the exit code reserved for transient failures: 75

ASSUME RetryAssumption == MaxRetryAttempts \in 1..3

VARIABLES
    step,           \* how far the job is
    workspace,      \* the checkout
    exits,          \* how each run of the executable ended
    trusted         \* the candidate was found reachable from the trusted branch

repositoryVars == <<step, workspace, exits, trusted>>

Exit == {"ok", "failed", "timeout", Transient}
Started == {"check out", "verify", "repair", "check trust", "run", "report"}
Step == Started \cup {"waiting", "passed", "failed"}

\* A workspace: HEAD is the expected commit, it is the root of its repository,
\* git status says nothing, and which required paths are not there; of these
\* some are outside a sparse checkout, the others not in the commit.
Workspace == [head : BOOLEAN, root : BOOLEAN, clean : BOOLEAN,
              sparse : BOOLEAN, absent : BOOLEAN]

ASSUME WorkspacesAssumption == Workspaces \subseteq Workspace /\ Workspaces # {}

\* _workspace_context, _required_paths.
ContextHolds(w) == w.head /\ w.root /\ w.clean
PathsMissing(w) == w.sparse \/ w.absent
Materialized(w) == ContextHolds(w) /\ ~PathsMissing(w)

Proceeds(v, s) == step' = [step EXCEPT ![v] = s]

RepositoryInit ==
    /\ step = [v \in Validation |-> "waiting"]
    /\ workspace = [v \in Validation |-> CHOOSE w \in Workspaces : TRUE]
    /\ exits = [v \in Validation |-> << >>]
    /\ trusted = [v \in Validation |-> FALSE]

-----------------------------------------------------------------------------
\* The job starts; an earlier attempt of it may have left its traces behind.
StartValidation(v) ==
    /\ step' = [step EXCEPT ![v] = "check out"]
    /\ exits' = [exits EXCEPT ![v] = << >>]
    /\ trusted' = [trusted EXCEPT ![v] = FALSE]
    /\ UNCHANGED workspace

CheckOut(v) ==
    /\ step[v] = "check out"
    /\ \E w \in Workspaces : workspace' = [workspace EXCEPT ![v] = w]
    /\ Proceeds(v, "verify")
    /\ UNCHANGED <<exits, trusted>>

AfterVerification(needsTrust) == IF needsTrust THEN "check trust" ELSE "run"

\* verify_workspace; whatever is wrong, a repair is attempted.
VerifyWorkspace(v, needsTrust) ==
    /\ step[v] = "verify"
    /\ Proceeds(v, IF Materialized(workspace[v]) THEN AfterVerification(needsTrust)
                                              ELSE "repair")
    /\ UNCHANGED <<workspace, exits, trusted>>

\* Mutation: the tree is repaired whatever state it is in, and not looked at again.
RepairWorkspace_Blindly(v, needsTrust) ==
    /\ step[v] = "repair"
    /\ workspace' = [workspace EXCEPT ![v].sparse = FALSE]
    /\ Proceeds(v, AfterVerification(needsTrust))
    /\ UNCHANGED <<exits, trusted>>

\* repair_workspace: only where nothing but required paths is wrong; sparse
\* checkout is turned off, the tracked files are checked out, and everything
\* is verified again.
RepairWorkspace(v, needsTrust) ==
    LET repaired == [workspace[v] EXCEPT !.sparse = FALSE] IN
    /\ step[v] = "repair"
    /\ IF ContextHolds(workspace[v]) /\ PathsMissing(workspace[v])
          THEN /\ workspace' = [workspace EXCEPT ![v] = repaired]
               /\ Proceeds(v, IF Materialized(repaired) THEN AfterVerification(needsTrust)
                                                     ELSE "failed")
          ELSE Proceeds(v, "failed") /\ UNCHANGED workspace
    /\ UNCHANGED <<exits, trusted>>

\* verify_trusted_candidate: the branch is fetched and must contain the commit.
CheckTrust(v) ==
    /\ step[v] = "check trust"
    /\ \/ Proceeds(v, "run") /\ trusted' = [trusted EXCEPT ![v] = TRUE]
       \/ Proceeds(v, "failed") /\ UNCHANGED trusted
    /\ UNCHANGED <<workspace, exits>>

\* run_validation: one turn of the loop.
RunScript(v) ==
    /\ step[v] = "run"
    /\ \E e \in Exit :
          /\ exits' = [exits EXCEPT ![v] = Append(@, e)]
          /\ Proceeds(v, IF e = Transient /\ Len(exits[v]) + 1 < MaxRetryAttempts
                         THEN "run" ELSE "report")
    /\ UNCHANGED <<workspace, trusted>>

\* Mutation: a transient failure that has used up its retries is let pass.
Report_Exhausted(v) ==
    /\ step[v] = "report"
    /\ Proceeds(v, IF exits[v][Len(exits[v])] \in {"ok", Transient} THEN "passed" ELSE "failed")
    /\ UNCHANGED <<workspace, exits, trusted>>

\* After the loop the images must have identities; then the evidence is written,
\* and the exit code of the last run is the result.
Report(v) ==
    /\ step[v] = "report"
    /\ Proceeds(v, IF exits[v][Len(exits[v])] = "ok" THEN "passed" ELSE "failed")
    /\ UNCHANGED <<workspace, exits, trusted>>

\* An input is refused, git, docker or an upload fails, or the runner is lost.
ValidationBreaks(v) ==
    /\ step[v] \in Started
    /\ Proceeds(v, "failed")
    /\ UNCHANGED <<workspace, exits, trusted>>

ValidationStep(v, needsTrust) ==
    \/ CheckOut(v) \/ VerifyWorkspace(v, needsTrust) \/ RepairWorkspace(v, needsTrust)
    \/ CheckTrust(v) \/ RunScript(v) \/ Report(v)

-----------------------------------------------------------------------------
RepositoryTypeOK ==
    /\ step \in [Validation -> Step]
    /\ workspace \in [Validation -> Workspace]
    /\ exits \in [Validation -> Seq(Exit)]
    /\ trusted \in [Validation -> BOOLEAN]

\* The executable only ever runs in a workspace that is the candidate's, clean
\* and complete, however a checkout on a persistent runner came out and whether
\* it was repaired; only a transient failure is followed by another run, so no
\* pass hides a failure or a timeout (runner.py, repair_workspace and
\* run_validation; checkout-integrity).
ScriptRunsOnExactTree ==
    \A v \in Validation :
        /\ step[v] \in {"run", "report", "passed"} => Materialized(workspace[v])
        /\ \A i \in 1..Len(exits[v]) :
              /\ i < Len(exits[v]) => exits[v][i] = Transient
              /\ i <= MaxRetryAttempts
=============================================================================
