-------------------------- MODULE MCDeliveryRecord --------------------------
(* Instances of DeliveryRecord for TLC.                                    *)
EXTENDS DeliveryRecord, TLC

CONSTANTS d1, d2, svcA, svcB, shaX, shaY, n1, n2, rootA, rootB, p1, p2

OwnRoots == (svcA :> rootA) @@ (svcB :> rootB)
\* svcA's deliveries always take a snapshot, svcB's as they please.
Choices == (svcA :> {TRUE}) @@ (svcB :> BOOLEAN)
AnyPath == [d \in {d1, d2} |-> {p1, p2}]
=============================================================================
