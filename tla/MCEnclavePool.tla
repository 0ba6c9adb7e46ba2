---------------------------- MODULE MCEnclavePool ----------------------------
(***************************************************************************)
(* Instances of EnclavePool for TLC.  Enclave identifiers are model values.*)
(* VaultEnclave bounds how many identifiers the parent and the host may    *)
(* remember at once (they are recycled once forgotten): enough for a full  *)
(* pool, the orphan's enclave and stale entries of the routing list.       *)
(***************************************************************************)
EXTENDS EnclavePool, TLC

\* Identifiers are interchangeable; used by the runs without liveness only.
Symmetry == Permutations(VaultEnclave)
=============================================================================
