----------------------------- MODULE DecryptRequest -----------------------------
(***************************************************************************)
(* One call of /decrypt from the parent's checks through the enclave and   *)
(* back (parent/src/routes.rs, enclave/src/main.rs, models.rs, hpke.rs,    *)
(* expressions.rs).  Calls run concurrently and share the enclave's cache  *)
(* of compiled programs.  Here an external step succeeds or fails; the     *)
(* time it takes is in DecryptPath, the KMS worker in EnclaveServer.       *)
(*                                                                         *)
(* Messages of errors are abstracted to what failed; the order of the      *)
(* errors in a response is that of a HashMap and is left out.              *)
(***************************************************************************)
EXTENDS RequestOutcome

CONSTANTS
  Req,                 \* calls of /decrypt
  Request,             \* what they may bring
  MAX_CACHED_PROGRAMS

ASSUME RequestAssumption ==
  /\ \A q \in Request : IsParentRequest(q)
  /\ None \notin Request
  /\ \A q \in Request : None \notin Permitted(q)
  /\ MAX_CACHED_PROGRAMS \in Nat

VARIABLES
  req,      \* the request of each call
  pc,       \* where the call is
  todo,     \* the fields to decrypt, then the expressions to evaluate
  fields,   \* the decrypted fields
  out,      \* the transformed fields
  errors,   \* the errors of decrypt_fields
  celErrors,\* the errors of execute_expressions
  cur,      \* the expression that is looked up
  cache,    \* PROGRAM_CACHE: texts of expressions
  answer    \* what the parent answered

work == <<todo, fields, out, errors, celErrors, cur>>
vars == <<req, pc, work, cache, answer>>

S == INSTANCE RequestService WITH
       asked <- req, answered <- answer, Answers <- [q \in Request |-> Permitted(q)]

Parent == {"check", "route", "credentials", "translate", "connect"}
Enclave == {"enclave", "key", "fields", "exprs", "compile", "insert", "evaluate", "respond"}
Compiling == {"compile", "insert", "evaluate"}
Expressing == {"exprs"} \cup Compiling

Init ==
  /\ req = [r \in Req |-> None]
  /\ pc = [r \in Req |-> "idle"]
  /\ todo = [r \in Req |-> {}]
  /\ fields = [r \in Req |-> NoFields]
  /\ out = [r \in Req |-> NoFields]
  /\ errors = [r \in Req |-> {}]
  /\ celErrors = [r \in Req |-> {}]
  /\ cur = [r \in Req |-> None]
  /\ cache = {}
  /\ answer = [r \in Req |-> None]

Goto(r, s) == pc' = [pc EXCEPT ![r] = s]

\* Insert into a map.
With(m, x, v) == [y \in DOMAIN m \cup {x} |-> IF y = x THEN v ELSE m[y]]

-----------------------------------------------------------------------------
(* The parent's handler.                                                   *)

Submit(r) ==
  /\ pc[r] = "idle"
  /\ \E q \in Request : req' = [req EXCEPT ![r] = q]
  /\ Goto(r, "check")
  /\ UNCHANGED <<work, cache, answer>>

\* The handler answers without the enclave.
Fail(r, status) ==
  /\ answer' = [answer EXCEPT ![r] = Failure(status)]
  /\ Goto(r, "done")
  /\ UNCHANGED <<req, work, cache>>

\* The handler goes on.
Pass(r, to) == Goto(r, to) /\ UNCHANGED <<req, work, cache, answer>>

Rejected(r) == pc[r] = "check" /\ ~Extracts(req[r]) /\ Fail(r, RejectionStatus(req[r]))
Invalid(r) ==
  /\ pc[r] = "check"
  /\ Extracts(req[r]) /\ ~Validates(req[r])
  /\ Fail(r, StatusOf.ValidationError)
Check(r) == pc[r] = "check" /\ Extracts(req[r]) /\ Validates(req[r]) /\ Pass(r, "route")

NoEnclave(r) == pc[r] = "route" /\ Fail(r, StatusOf.EnclaveNotFound)
Route(r) == pc[r] = "route" /\ Pass(r, "credentials")

NoCredentials(r) == pc[r] = "credentials" /\ Fail(r, StatusOf[AppErrorOf.credentials])
Credentials(r) == pc[r] = "credentials" /\ Pass(r, "translate")

Untranslatable(r) ==
  /\ pc[r] = "translate"
  /\ ~Translates(req[r])
  /\ Fail(r, StatusOf.ValidationError)
Translate(r) == pc[r] = "translate" /\ Translates(req[r]) /\ Pass(r, "connect")

\* A CID that is no u32, a failed connect or a failed send.
Unreachable(r) == pc[r] = "connect" /\ Fail(r, StatusOf.InternalServerError)
Forward(r) == pc[r] = "connect" /\ Pass(r, "enclave")

\* The stream breaks or times out while the enclave is at work: the parent
\* answers, the enclave goes on.
EnclaveLost(r) ==
  /\ pc[r] \in Enclave /\ answer[r] = None
  /\ answer' = [answer EXCEPT ![r] = Failure(StatusOf[AppErrorOf.anyhow])]
  /\ UNCHANGED <<req, pc, work, cache>>

\* The TimeoutLayer: the handler is dropped, the blocking call goes on.
HttpTimeout(r) ==
  /\ pc[r] \in Parent \cup Enclave /\ answer[r] = None
  /\ answer' = [answer EXCEPT ![r] = Failure(408)]
  /\ Goto(r, IF pc[r] \in Parent THEN "done" ELSE pc[r])
  /\ UNCHANGED <<req, work, cache>>

-----------------------------------------------------------------------------
(* The enclave's handler, up to the expressions.                           *)

\* Send what the enclave made of the request; a parent that gave up is gone.
\* build_parent_response makes an error of a response without fields.
Send(r, response) ==
  /\ answer' = IF answer[r] = None THEN [answer EXCEPT ![r] = response] ELSE answer
  /\ Goto(r, "done")
  /\ UNCHANGED <<req, cache>>

\* send_sanitized_error before any field was tried.
TotalFailure(r) == Send(r, Failure(StatusOf.DecryptError)) /\ UNCHANGED work

\* validate_expressions_count and validate_request.
Arrive(r) ==
  /\ pc[r] = "enclave"
  /\ IF EnclaveAccepts(req[r])
       THEN Pass(r, "key")
       ELSE TotalFailure(r)

KmsFails(r) == pc[r] = "key" /\ TotalFailure(r)

\* from_private_key_der: the key's curve must be that of the suite.
KeyUndecodable(r) == pc[r] = "key" /\ req[r].blob.curve # req[r].suite /\ TotalFailure(r)

KeyDecrypted(r) ==
  /\ pc[r] = "key" /\ req[r].blob.curve = req[r].suite
  /\ Goto(r, "fields")
  /\ todo' = [todo EXCEPT ![r] = DOMAIN req[r].fields]
  /\ UNCHANGED <<req, fields, out, errors, celErrors, cur, cache, answer>>

\* suite.open with the vault as info and the lower-cased name as aad.
Opens(q, f) ==
  LET seal == q.fields[f].seal IN
  /\ seal.key = q.blob.key
  /\ seal.vault = q.vault
  /\ seal.name = Lower[f]

\* decrypt_value
Utf8(q, f) == q.fields[f].seal.text # <<"bytes">>
DecryptValue(q, f) == Opens(q, f) /\ Utf8(q, f)

\* decrypt_one, on any thread of the pool and in any order.
DecryptField(r, f) ==
  /\ pc[r] = "fields"
  /\ f \in todo[r]
  /\ todo' = [todo EXCEPT ![r] = @ \ {f}]
  /\ IF DecryptValue(req[r], f)
       THEN /\ fields' = [fields EXCEPT ![r] = With(@, f, Str(req[r].fields[f].seal.text))]
            /\ UNCHANGED errors
       ELSE /\ fields' = [fields EXCEPT ![r] = With(@, f, Null)]
            /\ errors' = [errors EXCEPT ![r] = @ \cup {[what |-> "field", name |-> f]}]
  /\ UNCHANGED <<req, pc, out, celErrors, cur, cache, answer>>

TooLong(q) == \E n \in DOMAIN q.expressions : q.expressions[n].len > MAX_EXPRESSION_LENGTH

\* No expressions, or one that is too long: the fields go out as they are.
FieldsDone(r) ==
  /\ pc[r] = "fields" /\ todo[r] = {}
  /\ out' = [out EXCEPT ![r] = fields[r]]
  /\ IF DOMAIN req[r].expressions = {} \/ TooLong(req[r])
       THEN /\ Goto(r, "respond")
            /\ celErrors' = [celErrors EXCEPT ![r] =
                 IF TooLong(req[r]) THEN {WholeError} ELSE {}]
            /\ UNCHANGED todo
       ELSE /\ Goto(r, "exprs")
            /\ todo' = [todo EXCEPT ![r] = DOMAIN req[r].expressions]
            /\ UNCHANGED celErrors
  /\ UNCHANGED <<req, fields, errors, cur, cache, answer>>

-----------------------------------------------------------------------------
(* execute_expressions, in any order.                                      *)

Text(r) == req[r].expressions[cur[r]]

LookupAgain(r, n) ==
  /\ pc[r] = "exprs"
  /\ n \in todo[r]
  /\ cur' = [cur EXCEPT ![r] = n]
  /\ Goto(r, IF req[r].expressions[n] \in cache THEN "evaluate" ELSE "compile")
  /\ UNCHANGED <<req, todo, fields, out, errors, celErrors, cache, answer>>

\* get_or_compile: the read lock.
Lookup(r, n) ==
  /\ pc[r] = "exprs"
  /\ n \in todo[r]
  /\ todo' = [todo EXCEPT ![r] = @ \ {n}]
  /\ cur' = [cur EXCEPT ![r] = n]
  /\ Goto(r, IF req[r].expressions[n] \in cache THEN "evaluate" ELSE "compile")
  /\ UNCHANGED <<req, fields, out, errors, celErrors, cache, answer>>

\* The expression named n has no value: a field keeps its own, anything else
\* is null with an error.
NoValue(r, n) ==
  IF n \in DOMAIN fields[r]
    THEN UNCHANGED <<out, celErrors>>
    ELSE /\ out' = [out EXCEPT ![r] = With(@, n, Null)]
         /\ celErrors' = [celErrors EXCEPT ![r] = @ \cup {[what |-> "expression", name |-> n]}]

\* Program::compile, outside the lock; a failure is not cached.
Compile(r) ==
  /\ pc[r] = "compile"
  /\ IF Text(r).ok
       THEN /\ Goto(r, "insert")
            /\ UNCHANGED <<out, celErrors, cur>>
       ELSE /\ Goto(r, "exprs")
            /\ NoValue(r, cur[r])
            /\ cur' = [cur EXCEPT ![r] = None]
  /\ UNCHANGED <<req, todo, fields, errors, cache, answer>>

InsertUnchecked(r) ==
  /\ pc[r] = "insert"
  /\ cache' = cache \cup {Text(r)}
  /\ Goto(r, "evaluate")
  /\ UNCHANGED <<req, work, answer>>

\* The write lock: others may have filled the cache meanwhile.
Insert(r) ==
  /\ pc[r] = "insert"
  /\ cache' = IF Cardinality(cache) < MAX_CACHED_PROGRAMS THEN cache \cup {Text(r)} ELSE cache
  /\ Goto(r, "evaluate")
  /\ UNCHANGED <<req, work, answer>>

StoreReinjects(r, value) ==
  /\ out' = [out EXCEPT ![r] = With(@, cur[r], value)]
  /\ fields' = [fields EXCEPT ![r] = With(@, cur[r], value)]

\* The result goes to the response, not back into the context.
Store(r, value) == out' = [out EXCEPT ![r] = With(@, cur[r], value)] /\ UNCHANGED fields

\* Program::execute
Value(r) == Execute(Text(r), fields[r])

ExecuteFails(r) ==
  /\ pc[r] = "evaluate" /\ Value(r) = CelError
  /\ NoValue(r, cur[r])
  /\ cur' = [cur EXCEPT ![r] = None]
  /\ Goto(r, "exprs")
  /\ UNCHANGED <<req, todo, fields, errors, cache, answer>>

ExecuteOk(r) ==
  /\ pc[r] = "evaluate" /\ Value(r) # CelError /\ HasJson(Value(r))
  /\ Store(r, Value(r))
  /\ cur' = [cur EXCEPT ![r] = None]
  /\ Goto(r, "exprs")
  /\ UNCHANGED <<req, todo, errors, celErrors, cache, answer>>

\* Value::json fails, and with it execute_expressions: the fields go out as
\* they are, with one error.
NoJson(r) ==
  /\ pc[r] = "evaluate" /\ ~HasJson(Value(r))
  /\ out' = [out EXCEPT ![r] = fields[r]]
  /\ celErrors' = [celErrors EXCEPT ![r] = {WholeError}]
  /\ todo' = [todo EXCEPT ![r] = {}]
  /\ cur' = [cur EXCEPT ![r] = None]
  /\ Goto(r, "respond")
  /\ UNCHANGED <<req, fields, errors, cache, answer>>

ExprsDone(r) == pc[r] = "exprs" /\ todo[r] = {} /\ Pass(r, "respond")

Respond(r) ==
  /\ pc[r] = "respond"
  /\ Send(r, [status |-> 200, fields |-> out[r], errors |-> errors[r] \cup celErrors[r]])
  /\ UNCHANGED work

\* The call is over; its name is used for another one.
Finish(r) ==
  /\ pc[r] = "done"
  /\ Goto(r, "idle")
  /\ req' = [req EXCEPT ![r] = None]
  /\ answer' = [answer EXCEPT ![r] = None]
  /\ todo' = [todo EXCEPT ![r] = {}]
  /\ fields' = [fields EXCEPT ![r] = NoFields]
  /\ out' = [out EXCEPT ![r] = NoFields]
  /\ errors' = [errors EXCEPT ![r] = {}]
  /\ celErrors' = [celErrors EXCEPT ![r] = {}]
  /\ cur' = [cur EXCEPT ![r] = None]
  /\ UNCHANGED cache

-----------------------------------------------------------------------------
ParentStep(r) ==
  \/ Submit(r) \/ Rejected(r) \/ Invalid(r) \/ Check(r)
  \/ NoEnclave(r) \/ Route(r) \/ NoCredentials(r) \/ Credentials(r)
  \/ Untranslatable(r) \/ Translate(r) \/ Unreachable(r) \/ Forward(r)
  \/ EnclaveLost(r) \/ HttpTimeout(r) \/ Finish(r)

EnclaveStep(r) ==
  \/ Arrive(r) \/ KmsFails(r) \/ KeyUndecodable(r) \/ KeyDecrypted(r)
  \/ \E f \in todo[r] : DecryptField(r, f) \/ Lookup(r, f)
  \/ FieldsDone(r) \/ Compile(r) \/ Insert(r)
  \/ ExecuteFails(r) \/ ExecuteOk(r) \/ NoJson(r) \/ ExprsDone(r) \/ Respond(r)

Next == \E r \in Req : ParentStep(r) \/ EnclaveStep(r)

Spec == Init /\ [][Next]_vars

-----------------------------------------------------------------------------
\* Type correctness of the handlers and the program cache.
TypeOK ==
  /\ req \in [Req -> Request \cup {None}]
  /\ pc \in [Req -> {"idle", "done"} \cup Parent \cup Enclave]
  /\ \A r \in Req :
       /\ req[r] = None <=> pc[r] = "idle"
       /\ pc[r] = "fields" => todo[r] \subseteq DOMAIN req[r].fields
       /\ pc[r] \in Expressing => todo[r] \subseteq DOMAIN req[r].expressions
       /\ pc[r] \in Compiling => cur[r] \in DOMAIN req[r].expressions \ todo[r]

(***************************************************************************)
(* However field decryptions, expressions and calls interleave, and        *)
(* whatever the cache holds, a call is answered once, by a failure or by   *)
(* the outcome its own request determines (models.rs:155-209,              *)
(* expressions.rs:105-209, routes.rs:90-192).                              *)
(***************************************************************************)
ImplementsService == S!Spec

(***************************************************************************)
(* Threads that compiled at the same time do not push the cache over its   *)
(* limit, and only programs that compile are in it (expressions.rs:54-84). *)
(***************************************************************************)
CacheIsSound ==
  /\ Cardinality(cache) <= MAX_CACHED_PROGRAMS
  /\ \A e \in cache : e.ok

(***************************************************************************)
(* The parent's checks are at least as strict as the enclave's: nothing it *)
(* forwards is refused as a whole (parent models.rs:130-224 and            *)
(* wire_encoding.rs:31-90 against enclave models.rs:74-133).               *)
(***************************************************************************)
AcceptedNeverRefused == \A r \in Req : pc[r] = "enclave" => EnclaveAccepts(req[r])
=============================================================================
