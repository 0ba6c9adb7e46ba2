----------------------------- MODULE RequestOutcome -----------------------------
(***************************************************************************)
(* What a call of /decrypt may be answered, as a function of its request:  *)
(* no order of fields or expressions, no cache and no other call occurs in *)
(* it.  DecryptRequest is shown to answer so.                              *)
(*                                                                         *)
(* Beside the lengths of RequestChecks a request has its vault, what its   *)
(* key blob holds (a key and its curve), for each field what is sealed in  *)
(* it (key, vault, name, text), and expressions as in CelFunctions.        *)
(***************************************************************************)
EXTENDS RequestChecks, CelFunctions

CONSTANTS
  Lower,   \* the lower case form of each field name
  None     \* no name

NoFields == [f \in {} |-> Null]
Failure(status) == [status |-> status, fields |-> NoFields, errors |-> {}]

-----------------------------------------------------------------------------
(* The outcome of a request whose vault key was decrypted.                 *)

\* Is this field sealed for this vault, under this name, and a text?
Discloses(q, f) ==
  LET seal == q.fields[f].seal IN
  /\ seal.key = q.blob.key
  /\ seal.vault = q.vault
  /\ seal.name = Lower[f]
  /\ seal.text # <<"bytes">>

Plain(q) ==
  [f \in DOMAIN q.fields |-> IF Discloses(q, f) THEN Str(q.fields[f].seal.text) ELSE Null]

\* What an expression makes of the plain fields, or CelError.
ValueOf(q, n) ==
  IF q.expressions[n].ok THEN Execute(q.expressions[n], Plain(q)) ELSE CelError

\* One expression that is too long, or whose value is no JSON, undoes them all.
Untransformed(q) ==
  \E n \in DOMAIN q.expressions :
    q.expressions[n].len > MAX_EXPRESSION_LENGTH \/ ~HasJson(ValueOf(q, n))

\* An expression named like a field replaces its value, if it has one.
Transformed(q) ==
  [n \in DOMAIN q.fields \cup DOMAIN q.expressions |->
    IF n \in DOMAIN q.expressions /\ ValueOf(q, n) # CelError THEN ValueOf(q, n)
    ELSE IF n \in DOMAIN q.fields THEN Plain(q)[n] ELSE Null]

SealErrors(q) == {[what |-> "field", name |-> f] : f \in {g \in DOMAIN q.fields : ~Discloses(q, g)}}
CelErrors(q) ==
  {[what |-> "expression", name |-> n] :
     n \in {e \in DOMAIN q.expressions \ DOMAIN q.fields : ValueOf(q, e) = CelError}}
WholeError == [what |-> "transform", name |-> None]

Outcome(q) ==
  [status |-> 200,
   fields |-> IF Untransformed(q) THEN Plain(q) ELSE Transformed(q),
   errors |-> SealErrors(q) \cup (IF Untransformed(q) THEN {WholeError} ELSE CelErrors(q))]

\* What a request may be answered; any may run into the HTTP timeout.
Permitted(q) ==
  {Failure(408)} \cup
  CASE ~Extracts(q) -> {Failure(RejectionStatus(q))}
    [] Extracts(q) /\ ~Validates(q) -> {Failure(400)}
    [] Extracts(q) /\ Validates(q) /\ ~Translates(q) ->
         {Failure(400), Failure(404), Failure(500)}
    [] ParentAccepts(q) -> {Failure(404), Failure(500)} \cup
         (IF q.blob.curve = q.suite THEN {Outcome(q)} ELSE {})
=============================================================================
