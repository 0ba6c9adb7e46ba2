----------------------------- MODULE CredentialCell -----------------------------
(***************************************************************************)
(* What get_credentials promises, without lock, queue or fetch: a single   *)
(* credential that ages, and requests that each take it at one instant or  *)
(* replace it, if and only if it is about to expire.                       *)
(***************************************************************************)
EXTENDS Naturals

CONSTANTS
  Request,        \* the requests
  FreshTtl,       \* lifetimes of fresh credentials
  Never,          \* the lifetime of a credential without expiry
  RefreshBuffer,  \* more than this is left of a valid one
  FallbackMin     \* more than this is left of one to fall back on

VARIABLES
  cell,    \* what is left of the credential
  call,    \* "none", "asked", "served", "refused" or "late"
  cred     \* what is left of the credential a request was served

Init ==
  /\ cell = 0
  /\ call = [r \in Request |-> "none"]
  /\ cred = [r \in Request |-> 0]

Ask(r) ==
  /\ call[r] = "none"
  /\ call' = [call EXCEPT ![r] = "asked"]
  /\ UNCHANGED <<cell, cred>>

Serve(r, ttl) ==
  /\ call[r] = "asked"
  /\ call' = [call EXCEPT ![r] = "served"]
  /\ cred' = [cred EXCEPT ![r] = ttl]

Take(r) ==
  /\ cell > RefreshBuffer
  /\ Serve(r, cell)
  /\ UNCHANGED cell

Replace(r) ==
  /\ cell <= RefreshBuffer
  /\ \E ttl \in FreshTtl : cell' = ttl /\ Serve(r, ttl)

\* There is no fresh credential to be had.
FallBack(r) ==
  /\ FallbackMin < cell /\ cell <= RefreshBuffer
  /\ Serve(r, cell)
  /\ UNCHANGED cell

Refuse(r) ==
  /\ call[r] = "asked"
  /\ cell <= FallbackMin
  /\ call' = [call EXCEPT ![r] = "refused"]
  /\ UNCHANGED <<cell, cred>>

\* The request ran out of time.
GiveUp(r) ==
  /\ call[r] = "asked"
  /\ call' = [call EXCEPT ![r] = "late"]
  /\ UNCHANGED <<cell, cred>>

End(r) ==
  /\ call[r] \in {"served", "refused", "late"}
  /\ call' = [call EXCEPT ![r] = "none"]
  /\ cred' = [cred EXCEPT ![r] = 0]
  /\ UNCHANGED cell

\* Credentials age together, and none expires in use.
Aged(ttl) == IF ttl \in {0, Never} THEN ttl ELSE ttl - 1

Age ==
  /\ cell' = Aged(cell)
  /\ cred' = [r \in Request |-> Aged(cred[r])]
  /\ \A r \in Request : call[r] = "served" => cred'[r] > 0
  /\ UNCHANGED call

Next ==
  \/ Age
  \/ \E r \in Request :
       Ask(r) \/ Take(r) \/ Replace(r) \/ FallBack(r) \/ Refuse(r) \/ GiveUp(r) \/ End(r)

Spec == Init /\ [][Next]_<<cell, call, cred>>
=============================================================================
