--------------------------- MODULE MCVaultClient ---------------------------
(***************************************************************************)
(* Instances of VaultClient for TLC.  Goroutines and paths are             *)
(* interchangeable in the safety properties, so both may be permuted.      *)
(***************************************************************************)
EXTENDS VaultClient, TLC

Symmetry == Permutations(Caller) \cup Permutations(Path)
=============================================================================
