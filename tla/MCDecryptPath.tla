----------------------------- MODULE MCDecryptPath ------------------------------
(***************************************************************************)
(* Instances of DecryptPath for TLC.  A tick is five seconds: the timeouts  *)
(* are those of the code, 20s for the parent's stream and for KMS, 30s for *)
(* the enclave's stream and the HTTP request.                              *)
(***************************************************************************)
EXTENDS DecryptPath
=============================================================================
