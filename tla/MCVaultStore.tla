----------------------------- MODULE MCVaultStore -----------------------------
(***************************************************************************)
(* Instances of VaultStore for TLC.                                        *)
(***************************************************************************)
EXTENDS VaultStore, TLC

\* Invocations are interchangeable.
Symmetry == Permutations(Request)
=============================================================================
