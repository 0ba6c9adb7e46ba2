-------------------------- MODULE MCCredentialCache --------------------------
(***************************************************************************)
(* Instances of CredentialCache for TLC.  One tick stands for some ten     *)
(* seconds: the constants keep the order of the code's durations, 20s for  *)
(* the call <= 25s minimum for a fallback <= 30s HTTP timeout <= 60s       *)
(* refresh buffer.                                                         *)
(***************************************************************************)
EXTENDS CredentialCache, TLC

\* Requests are interchangeable; used by the runs without liveness only.
Symmetry == Permutations(Request)
=============================================================================
