---------------------------- MODULE MCE2ECluster ----------------------------
(***************************************************************************)
(* Instances of E2ECluster for TLC.  Load balancers are model values and   *)
(* alike to the specification, so that safety is checked up to their       *)
(* permutations; liveness is checked without symmetry.                     *)
(***************************************************************************)
EXTENDS E2ECluster, TLC

Symmetry == Permutations(LbId)
=============================================================================
