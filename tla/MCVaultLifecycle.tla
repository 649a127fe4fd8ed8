--------------------------- MODULE MCVaultLifecycle ---------------------------
(***************************************************************************)
(* VaultLifecycle for TLC.                                                 *)
(***************************************************************************)
EXTENDS VaultLifecycle, TLC

\* Passwords are told apart by nothing but equality, and so are the processes
\* that may run init and those that may not.
Symmetry ==
  Permutations(Password) \cup Permutations(Initers)
    \cup Permutations(Proc \ Initers)
=============================================================================
