---------------------------- MODULE MCTrivyCache ----------------------------
(* An instance of TrivyCache for TLC: three shared jobs of three           *)
(* repositories, two of them on one version of Trivy, and a job in         *)
(* repository scope that shares its repository with the first.             *)
EXTENDS TrivyCache, TLC

CONSTANTS j1, j2, j3, j4, r1, r2, r3, v1, v2

Repositories == j1 :> r1 @@ j2 :> r2 @@ j3 :> r3 @@ j4 :> r1
Versions == j1 :> v1 @@ j2 :> v1 @@ j3 :> v2 @@ j4 :> v1
=============================================================================
