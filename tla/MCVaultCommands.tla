--------------------------- MODULE MCVaultCommands ---------------------------
(***************************************************************************)
(* VaultCommands for TLC: a small vault shared by a few processes.         *)
(***************************************************************************)
EXTENDS VaultCommands, TLC

\* Processes, names, data and secrets are told apart by nothing but equality.
Symmetry ==
  Permutations(Proc) \cup Permutations(Name)
    \cup Permutations(Data) \cup Permutations(Secret)
=============================================================================
