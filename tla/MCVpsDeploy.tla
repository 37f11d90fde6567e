------------------------------ MODULE MCVpsDeploy ------------------------------
(* Two jobs of a service with one built and one pulled image and two       *)
(* volumes; the built one is probed.                                       *)
EXTENDS VpsDeploy, TLC

CONSTANTS j1, j2, app, sidecar, data, cache

Probes == {<<app, data>>}
Symmetry == Permutations(Job)
=============================================================================
