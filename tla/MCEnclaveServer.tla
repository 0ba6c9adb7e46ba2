--------------------------- MODULE MCEnclaveServer ---------------------------
(***************************************************************************)
(* Instances of EnclaveServer for TLC.  Conn bounds the connections that   *)
(* are open or whose KMS request is still remembered; there is one more    *)
(* than MaxConnections, so that one is rejected.                           *)
(***************************************************************************)
EXTENDS EnclaveServer
=============================================================================
