---------------------------- MODULE MCE2EMachine ----------------------------
(***************************************************************************)
(* Instances of E2EMachine for TLC.  The names of machines, nodes and load *)
(* balancers are model values.  Nodes are alike to the specification, and  *)
(* so are load balancers, so that safety is checked up to their            *)
(* permutations; liveness is checked without symmetry.                     *)
(***************************************************************************)
EXTENDS E2EMachine, TLC

Symmetry == Permutations(NodeId) \cup Permutations(LbId)
=============================================================================
