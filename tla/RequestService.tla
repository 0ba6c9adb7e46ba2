----------------------------- MODULE RequestService -----------------------------
(***************************************************************************)
(* What /decrypt promises: each call is answered at most once, by what may *)
(* be answered to its request alone.                                       *)
(***************************************************************************)
CONSTANTS
  Req,         \* calls
  Request,     \* what they may ask
  Answers,     \* what each request may be answered
  None         \* no request, no answer

VARIABLES
  asked,       \* what each call asks
  answered     \* what each call was told

Init ==
  /\ asked = [r \in Req |-> None]
  /\ answered = [r \in Req |-> None]

Ask(r) ==
  /\ asked[r] = None
  /\ \E q \in Request : asked' = [asked EXCEPT ![r] = q]
  /\ UNCHANGED answered

Answer(r) ==
  /\ asked[r] # None /\ answered[r] = None
  /\ \E a \in Answers[asked[r]] : answered' = [answered EXCEPT ![r] = a]
  /\ UNCHANGED asked

\* The call is over; its name is used for another one.
Close(r) ==
  /\ answered[r] # None
  /\ asked' = [asked EXCEPT ![r] = None]
  /\ answered' = [answered EXCEPT ![r] = None]

Next == \E r \in Req : Ask(r) \/ Answer(r) \/ Close(r)

Spec == Init /\ [][Next]_<<asked, answered>>
=============================================================================
