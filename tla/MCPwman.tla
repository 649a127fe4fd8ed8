-------------------------------- MODULE MCPwman --------------------------------
(***************************************************************************)
(* Pwman for TLC.                                                          *)
(***************************************************************************)
EXTENDS Pwman, TLC

\* As in MCVaultLifecycle; names are told apart by nothing but equality too.
Symmetry ==
  Permutations(Password) \cup Permutations(Initers)
    \cup Permutations(Proc \ Initers) \cup Permutations(Name)
=============================================================================
