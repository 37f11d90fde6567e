-------------------------- MODULE ServiceDeployment --------------------------
(***************************************************************************)
(* What the delivery executor promises (docs/DELIVERY_EXECUTOR.md, "Locked *)
(* executor flow", and the docstring of execute_delivery), without saying  *)
(* how: deliveries to a service happen one at a time; a service's tree     *)
(* changes only on behalf of the delivery that has its turn, and only once *)
(* that delivery is approved; and a delivery is declared ready only at a   *)
(* moment when the tree is exactly its candidate's.                        *)
(***************************************************************************)
CONSTANTS Delivery, Service, Sha, Tree, NoOne

VARIABLES
    req,        \* what each delivery was asked for
    turn,       \* the delivery in progress for each service
    tree,       \* the deployed tree of each service
    verdict     \* what has become of each delivery

dvars == <<req, turn, tree, verdict>>

Verdict == {"pending", "open", "approved", "ready", "notready", "failed"}

\* The service, as a name and not by a field access, keeps the steps readable.
Svc(d) == req[d].service
Wanted(d) == [service |-> Svc(d), content |-> req[d].sha]

Init ==
    /\ req \in [Delivery -> [service : Service, sha : Sha]]
    /\ turn = [s \in Service |-> NoOne]
    /\ tree = [s \in Service |-> [service |-> s, content |-> "initial"]]
    /\ verdict = [d \in Delivery |-> "pending"]

Begin(d) ==
    /\ verdict[d] = "pending"
    /\ turn[Svc(d)] = NoOne
    /\ turn' = [turn EXCEPT ![Svc(d)] = d]
    /\ verdict' = [verdict EXCEPT ![d] = "open"]
    /\ UNCHANGED <<req, tree>>

\* The delivery never got its turn.
GiveUp(d) ==
    /\ verdict[d] = "pending"
    /\ verdict' = [verdict EXCEPT ![d] = "failed"]
    /\ UNCHANGED <<req, turn, tree>>

Approve(d) ==
    /\ verdict[d] = "open"
    /\ verdict' = [verdict EXCEPT ![d] = "approved"]
    /\ UNCHANGED <<req, turn, tree>>

Change(d) ==
    /\ turn[Svc(d)] = d
    /\ verdict[d] = "approved"
    /\ \E t \in Tree :
          /\ t.service = Svc(d)
          /\ tree' = [tree EXCEPT ![Svc(d)] = t]
    /\ UNCHANGED <<req, turn, verdict>>

End(d) ==
    /\ turn[Svc(d)] = d
    /\ turn' = [turn EXCEPT ![Svc(d)] = NoOne]
    /\ \E v \in {"ready", "notready", "failed"} :
          /\ v = "ready" => verdict[d] = "approved" /\ tree[Svc(d)] = Wanted(d)
          /\ verdict' = [verdict EXCEPT ![d] = v]
    /\ UNCHANGED <<req, tree>>

Next == \E d \in Delivery :
            Begin(d) \/ GiveUp(d) \/ Approve(d) \/ Change(d) \/ End(d)

Spec == Init /\ [][Next]_dvars
=============================================================================
