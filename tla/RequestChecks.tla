----------------------------- MODULE RequestChecks -----------------------------
(***************************************************************************)
(* What the parent and the enclave check of a decrypt request, the         *)
(* translation between their request types, and the HTTP status of each    *)
(* error (parent/src/cbor.rs, models.rs, wire_encoding.rs, errors.rs and   *)
(* enclave/src/models.rs).                                                 *)
(*                                                                         *)
(* A request is a record of lengths and kinds.  A region is its length and *)
(* the kinds of its parts between hyphens: "empty", "lower2" (two lower    *)
(* case letters), "lower", "digits", "alnum" (other ASCII letters and      *)
(* digits) or "other".                                                     *)
(***************************************************************************)
EXTENDS Naturals, Sequences, FiniteSets

MAX_VAULT_ID_LENGTH == 256
MAX_REGION_LENGTH == 64
MAX_SUITE_ID_LENGTH == 16
MAX_ENCRYPTED_KEY_LENGTH == 6144
MAX_FIELDS_COUNT == 100
MAX_EXPRESSIONS_COUNT == 100
MAX_ENCAPPED_KEY_SIZE == 256
MAX_FIELD_CIPHERTEXT_SIZE == 64 * 1024
MAX_FIELDS == 1000
MAX_EXPRESSION_LENGTH == 10 * 1024
MAX_EXPRESSIONS == 100

Suite == {"P256", "P384", "P521"}

\* The types of the request's parts; `expressions` is a function with an empty
\* domain when there are none.
PartKind == {"empty", "lower2", "lower", "digits", "alnum", "other"}
IsParentRequest(req) ==
  /\ req.vault_len \in Nat
  /\ req.region \in [len : Nat, parts : Seq(PartKind)]
  /\ req.key_len \in Nat
  /\ req.suite_len \in Nat
  /\ IsFiniteSet(DOMAIN req.fields)
  /\ \A f \in DOMAIN req.fields : {req.fields[f].encapped, req.fields[f].ciphertext} \subseteq Nat
  /\ \A f \in DOMAIN req.expressions : req.expressions[f].len \in Nat

-----------------------------------------------------------------------------
(* The parent.                                                             *)

InLength(n, max) == 1 <= n /\ n <= max

\* Exactly two letters, then lower case parts, then digits.
ValidateAwsRegion(parts) ==
  /\ Len(parts) >= 3
  /\ parts[1] = "lower2"
  /\ \A i \in 2..(Len(parts) - 1) : parts[i] \in {"lower2", "lower"}
  /\ parts[Len(parts)] = "digits"

Count(f) == Cardinality(DOMAIN f)

\* ParentRequest::validate
Validates(req) ==
  /\ InLength(req.vault_len, MAX_VAULT_ID_LENGTH)
  /\ InLength(req.region.len, MAX_REGION_LENGTH)
  /\ ValidateAwsRegion(req.region.parts)
  /\ Count(req.fields) <= MAX_FIELDS_COUNT
  /\ InLength(req.suite_len, MAX_SUITE_ID_LENGTH)
  /\ InLength(req.key_len, MAX_ENCRYPTED_KEY_LENGTH)
  /\ Count(req.expressions) <= MAX_EXPRESSIONS_COUNT

\* A body over REQUEST_BODY_LIMIT is a 413, one that is no CBOR request a 400.
Extracts(req) == req.body = "cbor"
RejectionStatus(req) == IF req.body = "large" THEN 413 ELSE 400

TranslatesAnySize(req) == req.suite \in Suite

\* build_enclave_request: the suite is known and every field within its caps.
Translates(req) ==
  /\ req.suite \in Suite
  /\ \A f \in DOMAIN req.fields :
       /\ req.fields[f].encapped <= MAX_ENCAPPED_KEY_SIZE
       /\ req.fields[f].ciphertext <= MAX_FIELD_CIPHERTEXT_SIZE

\* AppError::into_response, with the errors that are converted to an AppError.
StatusOf ==
  [RunError |-> 500, EnclaveNotFound |-> 404, DecryptError |-> 500,
   InternalServerError |-> 500, ValidationError |-> 400, ConfigError |-> 500]

AppErrorOf ==
  [anyhow |-> "InternalServerError", io |-> "InternalServerError",
   credentials |-> "InternalServerError", serde_json |-> "InternalServerError"]

-----------------------------------------------------------------------------
(* The enclave.                                                            *)

ValidateExpressionsCount(req) == Count(req.expressions) <= MAX_EXPRESSIONS

ValidateField(ef) ==
  /\ ef.encapped <= MAX_ENCAPPED_KEY_SIZE
  /\ ef.ciphertext <= MAX_FIELD_CIPHERTEXT_SIZE

\* validate_request: every check is made again, the names of parts are not.
ValidateRequest(req) ==
  /\ req.vault_len # 0
  /\ req.region.len # 0
  /\ \A i \in 1..Len(req.region.parts) : req.region.parts[i] # "other"
  /\ req.key_len # 0
  /\ Count(req.fields) <= MAX_FIELDS
  /\ \A f \in DOMAIN req.fields : ValidateField(req.fields[f])

EnclaveAccepts(req) == ValidateExpressionsCount(req) /\ ValidateRequest(req)
ParentAccepts(req) == Extracts(req) /\ Validates(req) /\ Translates(req)
=============================================================================
