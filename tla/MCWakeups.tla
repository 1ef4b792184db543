----------------------------- MODULE MCWakeups -----------------------------
(***************************************************************************)
(* An instance of Wakeups for TLC: a cluster with one machine.             *)
(***************************************************************************)
EXTENDS Wakeups
=============================================================================
