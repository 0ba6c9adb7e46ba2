----------------------------- MODULE MCKmsWorker -----------------------------
(***************************************************************************)
(* Instances of KmsWorker for TLC.  Call bounds the calls that are alive   *)
(* or remembered at once; as in the code, QueueCap = MaxConnections in the *)
(* runs that fill the channel.                                             *)
(***************************************************************************)
EXTENDS KmsWorker, TLC

\* Calls and keys are interchangeable; used by the runs without liveness only.
Symmetry == Permutations(Call) \cup Permutations(Key)
=============================================================================
