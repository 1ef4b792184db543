--------------------------- MODULE MCProviderKey ---------------------------
(***************************************************************************)
(* An instance of ProviderKey for TLC.                                     *)
(***************************************************************************)
EXTENDS ProviderKey
=============================================================================
