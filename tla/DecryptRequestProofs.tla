------------------------- MODULE DecryptRequestProofs -------------------------
(***************************************************************************)
(* Proofs about DecryptRequest, for any set of calls and of requests, any  *)
(* interleaving of fields, expressions and calls, and any cache size.      *)
(* What CEL functions compute (Execute) is left open: the results hold     *)
(* whatever it is.                                                         *)
(***************************************************************************)
EXTENDS DecryptRequest, FiniteSetTheorems, TLAPS

-----------------------------------------------------------------------------
(* The checks of the two sides.                                            *)

(* What the parent forwards passes every check of the enclave: its caps are *)
(* no wider and its rules for a region are stricter.                        *)
THEOREM ParentIsStricter ==
  ASSUME NEW q, IsParentRequest(q), ParentAccepts(q)
  PROVE  EnclaveAccepts(q)
<1>1. Validates(q) /\ Translates(q)
  BY DEF ParentAccepts
<1>2. ValidateExpressionsCount(q)
  BY <1>1 DEF Validates, ValidateExpressionsCount, MAX_EXPRESSIONS_COUNT, MAX_EXPRESSIONS
<1>3. q.vault_len # 0 /\ q.region.len # 0 /\ q.key_len # 0
  BY <1>1 DEF Validates, InLength
<1>4. \A i \in 1..Len(q.region.parts) : q.region.parts[i] # "other"
  <2>1. q.region.parts \in Seq(PartKind)
    BY DEF IsParentRequest
  <2>2. Len(q.region.parts) \in Nat
    BY <2>1
  <2>3. ASSUME NEW i \in 1..Len(q.region.parts) PROVE i = 1 \/ i = Len(q.region.parts) \/ i \in 2..(Len(q.region.parts) - 1)
    BY <2>2
  <2> QED
    BY <1>1, <2>2, <2>3 DEF Validates, ValidateAwsRegion
<1>5. Count(q.fields) <= MAX_FIELDS
  <2>1. Count(q.fields) \in Nat
    BY FS_CardinalityType DEF IsParentRequest, Count
  <2> QED
    BY <1>1, <2>1 DEF Validates, MAX_FIELDS_COUNT, MAX_FIELDS
<1>6. \A f \in DOMAIN q.fields : ValidateField(q.fields[f])
  BY <1>1 DEF Translates, ValidateField
<1> QED
  BY <1>2, <1>3, <1>4, <1>5, <1>6 DEF EnclaveAccepts, ValidateRequest

-----------------------------------------------------------------------------
(* What holds between the steps of a call (the inductive invariant).       *)

\* The fields not in `td` are decrypted.
PartlyDecrypted(q, td, fs, es) ==
  /\ td \subseteq DOMAIN q.fields
  /\ fs = [f \in DOMAIN q.fields \ td |-> Plain(q)[f]]
  /\ es = {[what |-> "field", name |-> f] : f \in {g \in DOMAIN q.fields \ td : ~Discloses(q, g)}}

\* The expressions in `done` are evaluated, in whatever order.
PartlyTransformed(q, done, o, es) ==
  /\ o = [n \in DOMAIN q.fields \cup done |->
           IF n \in done /\ ValueOf(q, n) # CelError THEN ValueOf(q, n)
           ELSE IF n \in DOMAIN q.fields THEN Plain(q)[n] ELSE Null]
  /\ es = {[what |-> "expression", name |-> n] :
             n \in {e \in done \ DOMAIN q.fields : ValueOf(q, e) = CelError}}
  /\ \A n \in done : HasJson(ValueOf(q, n))

Blank(r) == fields[r] = NoFields /\ errors[r] = {} /\ celErrors[r] = {}

\* What the checks a call has passed say of its request.
Checked(r) ==
  /\ pc[r] \in {"idle", "done"} \cup Parent \cup Enclave
  /\ IF pc[r] = "idle" THEN req[r] = None ELSE req[r] \in Request
  /\ pc[r] \in {"idle"} \cup Parent => answer[r] = None
  /\ pc[r] = "done" => answer[r] # None
  /\ pc[r] \in (Parent \ {"check"}) \cup Enclave => Extracts(req[r]) /\ Validates(req[r])
  /\ pc[r] \in {"connect"} \cup Enclave => Translates(req[r])
  /\ pc[r] \in Enclave \ {"enclave", "key"} => req[r].blob.curve = req[r].suite

\* How far its fields and expressions are.
Computed(r) ==
  LET q == req[r] IN
  /\ pc[r] \in {"idle", "enclave", "key"} \cup Parent => Blank(r)
  /\ pc[r] = "fields" => PartlyDecrypted(q, todo[r], fields[r], errors[r]) /\ celErrors[r] = {}
  /\ pc[r] \in Expressing =>
       /\ fields[r] = Plain(q) /\ errors[r] = SealErrors(q)
       /\ ~TooLong(q) /\ todo[r] \subseteq DOMAIN q.expressions
  /\ pc[r] = "exprs" =>
       PartlyTransformed(q, DOMAIN q.expressions \ todo[r], out[r], celErrors[r])
  /\ pc[r] \in Compiling =>
       /\ cur[r] \in DOMAIN q.expressions \ todo[r]
       /\ PartlyTransformed(q, DOMAIN q.expressions \ (todo[r] \cup {cur[r]}), out[r], celErrors[r])
  /\ pc[r] \in {"insert", "evaluate"} => q.expressions[cur[r]].ok
  /\ pc[r] = "respond" =>
       out[r] = Outcome(q).fields /\ errors[r] \cup celErrors[r] = Outcome(q).errors

Functions ==
  /\ req = [r \in Req |-> req[r]] /\ pc = [r \in Req |-> pc[r]]
  /\ DOMAIN req = Req /\ DOMAIN pc = Req /\ DOMAIN todo = Req /\ DOMAIN fields = Req
  /\ DOMAIN out = Req /\ DOMAIN errors = Req /\ DOMAIN celErrors = Req
  /\ DOMAIN cur = Req /\ DOMAIN answer = Req

CacheOk ==
  /\ IsFiniteSet(cache) /\ Cardinality(cache) <= MAX_CACHED_PROGRAMS
  /\ \A e \in cache : e.ok

Inv == Functions /\ CacheOk /\ \A r \in Req : Checked(r) /\ Computed(r)

-----------------------------------------------------------------------------
(* Steps of a call leave the others alone.                                 *)

\* Nothing of call s changes.
Same(s) ==
  /\ req'[s] = req[s] /\ pc'[s] = pc[s] /\ todo'[s] = todo[s] /\ fields'[s] = fields[s]
  /\ out'[s] = out[s] /\ errors'[s] = errors[s] /\ celErrors'[s] = celErrors[s]
  /\ cur'[s] = cur[s] /\ answer'[s] = answer[s]

LEMMA SameKeeps ==
  ASSUME NEW s, Same(s), Checked(s), Computed(s)
  PROVE  Checked(s)' /\ Computed(s)'
BY DEF Same, Checked, Computed, Blank

LEMMA StepIsLocal ==
  ASSUME Functions, NEW r \in Req, ParentStep(r) \/ EnclaveStep(r)
  PROVE  Functions' /\ \A s \in Req \ {r} : Same(s)
<1> USE DEF Functions, Same
<1>1. CASE ParentStep(r)
  BY <1>1 DEF ParentStep, Submit, Rejected, Invalid, Check, NoEnclave, Route, NoCredentials,
     Credentials, Untranslatable, Translate, Unreachable, Forward, EnclaveLost, HttpTimeout,
     Finish, Fail, Pass, Goto, work
<1>2. CASE EnclaveStep(r)
  <2>1. CASE Arrive(r) \/ KmsFails(r) \/ KeyUndecodable(r) \/ KeyDecrypted(r)
    BY <2>1 DEF Arrive, KmsFails, KeyUndecodable, KeyDecrypted, TotalFailure, Send, Pass, Goto, work
  <2>2. CASE \E f \in todo[r] : DecryptField(r, f)
    BY <2>2 DEF DecryptField
  <2>3. CASE FieldsDone(r)
    BY <2>3 DEF FieldsDone, Goto
  <2>4. CASE (\E f \in todo[r] : Lookup(r, f)) \/ Insert(r) \/ ExprsDone(r)
    BY <2>4 DEF Lookup, Insert, ExprsDone, Pass, Goto, work
  <2>5. CASE Compile(r)
    BY <2>5 DEF Compile, NoValue, Goto
  <2>6. CASE ExecuteFails(r) \/ ExecuteOk(r) \/ NoJson(r)
    BY <2>6 DEF ExecuteFails, ExecuteOk, NoJson, NoValue, Store, Goto
  <2>7. CASE Respond(r)
    BY <2>7 DEF Respond, Send, Goto, work
  <2> QED
    BY <1>2, <2>1, <2>2, <2>3, <2>4, <2>5, <2>6, <2>7 DEF EnclaveStep
<1> QED
  BY <1>1, <1>2

-----------------------------------------------------------------------------
(* Fields, one after the other.                                            *)

LEMMA NothingDecrypted ==
  ASSUME NEW q
  PROVE  PartlyDecrypted(q, DOMAIN q.fields, NoFields, {})
<1>1. DOMAIN q.fields \ DOMAIN q.fields = {}
  OBVIOUS
<1>2. NoFields = [f \in DOMAIN q.fields \ DOMAIN q.fields |-> Plain(q)[f]]
  BY <1>1 DEF NoFields
<1> QED
  BY <1>1, <1>2 DEF PartlyDecrypted

LEMMA OneDecrypted ==
  ASSUME NEW q, NEW td, NEW fs, NEW es, NEW f \in td, PartlyDecrypted(q, td, fs, es)
  PROVE  PartlyDecrypted(q, td \ {f}, With(fs, f, Plain(q)[f]),
           IF Discloses(q, f) THEN es ELSE es \cup {[what |-> "field", name |-> f]})
<1> DEFINE rest == DOMAIN q.fields \ (td \ {f})
<1>1. f \in DOMAIN q.fields /\ rest = (DOMAIN q.fields \ td) \cup {f}
  BY DEF PartlyDecrypted
<1>2. With(fs, f, Plain(q)[f]) = [g \in rest |-> Plain(q)[g]]
  BY <1>1 DEF PartlyDecrypted, With
<1>3. CASE Discloses(q, f)
  BY <1>1, <1>2, <1>3 DEF PartlyDecrypted
<1>4. CASE ~Discloses(q, f)
  BY <1>1, <1>2, <1>4 DEF PartlyDecrypted
<1> QED
  BY <1>3, <1>4

LEMMA AllDecrypted ==
  ASSUME NEW q, NEW td, NEW fs, NEW es, td = {}, PartlyDecrypted(q, td, fs, es)
  PROVE  fs = Plain(q) /\ es = SealErrors(q)
BY DEF PartlyDecrypted, Plain, SealErrors

-----------------------------------------------------------------------------
(* Expressions, one after the other.                                       *)

LEMMA PlainDomain == \A q : DOMAIN Plain(q) = DOMAIN q.fields
  BY DEF Plain

LEMMA NothingTransformed ==
  ASSUME NEW q
  PROVE  PartlyTransformed(q, {}, Plain(q), {})
<1>1. Plain(q) = [n \in DOMAIN q.fields |-> Plain(q)[n]]
  BY DEF Plain
<1> QED
  BY <1>1 DEF PartlyTransformed

\* An expression that has a value: its result is stored under its name.
LEMMA OneStored ==
  ASSUME NEW q, NEW done, NEW o, NEW es, NEW n,
         PartlyTransformed(q, done, o, es),
         ValueOf(q, n) # CelError, HasJson(ValueOf(q, n))
  PROVE  PartlyTransformed(q, done \cup {n}, With(o, n, ValueOf(q, n)), es)
<1>1. With(o, n, ValueOf(q, n)) =
        [m \in DOMAIN q.fields \cup (done \cup {n}) |->
           IF m \in done \cup {n} /\ ValueOf(q, m) # CelError THEN ValueOf(q, m)
           ELSE IF m \in DOMAIN q.fields THEN Plain(q)[m] ELSE Null]
  BY DEF PartlyTransformed, With
<1>2. {e \in (done \cup {n}) \ DOMAIN q.fields : ValueOf(q, e) = CelError}
        = {e \in done \ DOMAIN q.fields : ValueOf(q, e) = CelError}
  OBVIOUS
<1> QED
  BY <1>1, <1>2 DEF PartlyTransformed

\* One that has none and is named like a field leaves the field alone.
LEMMA OneKept ==
  ASSUME NEW q, NEW done, NEW o, NEW es, NEW n \in DOMAIN q.fields \ done,
         PartlyTransformed(q, done, o, es), ValueOf(q, n) = CelError
  PROVE  PartlyTransformed(q, done \cup {n}, o, es)
<1>1. HasJson(ValueOf(q, n))
  BY DEF HasJson, CelError
<1>2. DOMAIN q.fields \cup (done \cup {n}) = DOMAIN q.fields \cup done
  OBVIOUS
<1>3. o = [m \in DOMAIN q.fields \cup (done \cup {n}) |->
           IF m \in done \cup {n} /\ ValueOf(q, m) # CelError THEN ValueOf(q, m)
           ELSE IF m \in DOMAIN q.fields THEN Plain(q)[m] ELSE Null]
  BY <1>2 DEF PartlyTransformed
<1>4. {e \in (done \cup {n}) \ DOMAIN q.fields : ValueOf(q, e) = CelError}
        = {e \in done \ DOMAIN q.fields : ValueOf(q, e) = CelError}
  OBVIOUS
<1> QED
  BY <1>1, <1>3, <1>4 DEF PartlyTransformed

\* One that has none and is named like no field becomes null, with an error.
LEMMA OneNull ==
  ASSUME NEW q, NEW done, NEW o, NEW es, NEW n,
         n \notin DOMAIN q.fields, n \notin done,
         PartlyTransformed(q, done, o, es), ValueOf(q, n) = CelError
  PROVE  PartlyTransformed(q, done \cup {n}, With(o, n, Null),
           es \cup {[what |-> "expression", name |-> n]})
<1>1. HasJson(ValueOf(q, n))
  BY DEF HasJson, CelError
<1>2. With(o, n, Null) =
        [m \in DOMAIN q.fields \cup (done \cup {n}) |->
           IF m \in done \cup {n} /\ ValueOf(q, m) # CelError THEN ValueOf(q, m)
           ELSE IF m \in DOMAIN q.fields THEN Plain(q)[m] ELSE Null]
  BY DEF PartlyTransformed, With
<1>3. {e \in (done \cup {n}) \ DOMAIN q.fields : ValueOf(q, e) = CelError}
        = {e \in done \ DOMAIN q.fields : ValueOf(q, e) = CelError} \cup {n}
  OBVIOUS
<1>4. {[what |-> "expression", name |-> m] :
         m \in {e \in (done \cup {n}) \ DOMAIN q.fields : ValueOf(q, e) = CelError}}
        = es \cup {[what |-> "expression", name |-> n]}
  BY <1>3 DEF PartlyTransformed
<1> QED
  BY <1>1, <1>2, <1>4 DEF PartlyTransformed

LEMMA AllTransformed ==
  ASSUME NEW q, NEW done, NEW o, NEW es, ~TooLong(q),
         done = DOMAIN q.expressions, PartlyTransformed(q, done, o, es)
  PROVE  o = Outcome(q).fields /\ SealErrors(q) \cup es = Outcome(q).errors
<1>1. ~Untransformed(q)
  BY DEF TooLong, Untransformed, PartlyTransformed
<1>2. o = Transformed(q) /\ es = CelErrors(q)
  BY DEF PartlyTransformed, Transformed, CelErrors
<1> QED
  BY <1>1, <1>2 DEF Outcome

LEMMA Unexpressed ==
  ASSUME NEW q, DOMAIN q.expressions = {} \/ TooLong(q)
  PROVE  /\ Plain(q) = Outcome(q).fields
         /\ SealErrors(q) \cup (IF TooLong(q) THEN {WholeError} ELSE {}) = Outcome(q).errors
<1>1. CASE TooLong(q)
  BY <1>1 DEF TooLong, Untransformed, Outcome
<1>2. CASE DOMAIN q.expressions = {}
  <2>1. ~TooLong(q)
    BY <1>2 DEF TooLong
  <2>2. PartlyTransformed(q, DOMAIN q.expressions, Plain(q), {})
    BY <1>2, NothingTransformed
  <2> QED
    BY <2>1, <2>2, AllTransformed
<1> QED
  BY <1>1, <1>2

-----------------------------------------------------------------------------
(* Every step keeps the invariant for the call that takes it.              *)

LEMMA InitInv == RequestAssumption /\ Init => Inv
<1> SUFFICES ASSUME RequestAssumption, Init PROVE Inv
  OBVIOUS
<1>1. CacheOk
  BY FS_EmptySet DEF Init, CacheOk, RequestAssumption
<1>2. Functions
  BY DEF Init, Functions
<1>3. ASSUME NEW r \in Req PROVE Checked(r) /\ Computed(r)
  BY DEF Init, Checked, Computed, Blank, Parent, Enclave, Compiling, Expressing
<1> QED
  BY <1>1, <1>2, <1>3 DEF Inv


-----------------------------------------------------------------------------
(* What each step answers.                                                 *)

LEMMA PermittedAnswers ==
  ASSUME NEW q
  PROVE  /\ Failure(408) \in Permitted(q)
         /\ ~Extracts(q) => Failure(RejectionStatus(q)) \in Permitted(q)
         /\ Extracts(q) /\ ~(Validates(q) /\ Translates(q)) => Failure(400) \in Permitted(q)
         /\ Extracts(q) /\ Validates(q) => {Failure(404), Failure(500)} \subseteq Permitted(q)
         /\ ParentAccepts(q) /\ q.blob.curve = q.suite => Outcome(q) \in Permitted(q)
<1>1. CASE ~Extracts(q)
  BY <1>1 DEF Permitted, ParentAccepts
<1>2. CASE Extracts(q) /\ ~Validates(q)
  BY <1>2 DEF Permitted, ParentAccepts
<1>3. CASE Extracts(q) /\ Validates(q) /\ ~Translates(q)
  BY <1>3 DEF Permitted, ParentAccepts
<1>4. CASE ParentAccepts(q)
  BY <1>4 DEF Permitted, ParentAccepts
<1> QED
  BY <1>1, <1>2, <1>3, <1>4 DEF ParentAccepts

\* The call is answered, by something its request permits.
Answered(r) ==
  /\ req[r] \in Request /\ req' = req /\ answer[r] = None
  /\ \E a \in Permitted(req[r]) : answer' = [answer EXCEPT ![r] = a]

LEMMA FailAnswers ==
  ASSUME RequestAssumption, Inv, NEW r \in Req, NEW n,
         Fail(r, n), Failure(n) \in Permitted(req[r]), pc[r] \in Parent
  PROVE  Answered(r) /\ Checked(r)'
<1>1. Answered(r)
  BY DEF Fail, Answered, Inv, Checked, Parent
<1>2. answer'[r] # None /\ pc'[r] = "done" /\ req'[r] \in Request
  BY <1>1 DEF Fail, Goto, Answered, Inv, Functions, RequestAssumption
<1> QED
  BY <1>1, <1>2 DEF Checked, Parent, Enclave

LEMMA SendAnswers ==
  ASSUME RequestAssumption, Inv, NEW r \in Req, NEW response,
         Send(r, response), response \in Permitted(req[r]), pc[r] \in Enclave
  PROVE  (UNCHANGED <<req, answer>> \/ Answered(r)) /\ Checked(r)'
<1>1. req[r] \in Request
  BY DEF Inv, Checked, Enclave
<1>2. UNCHANGED <<req, answer>> \/ Answered(r)
  BY <1>1 DEF Send, Answered
<1>3. answer'[r] # None /\ pc'[r] = "done" /\ req'[r] \in Request
  BY <1>1 DEF Send, Goto, Inv, Functions, RequestAssumption
<1> QED
  BY <1>2, <1>3 DEF Checked, Parent, Enclave

LEMMA ParentStepAnswers ==
  ASSUME RequestAssumption, Inv, NEW r \in Req, ParentStep(r)
  PROVE  /\ UNCHANGED <<req, answer>> \/ Answered(r) \/ Submit(r) \/ Finish(r)
         /\ Checked(r)'
<1> DEFINE q == req[r]
<1>1. pc[r] \in Parent \ {"check"} => Extracts(q) /\ Validates(q)
  BY DEF Inv, Checked
<1>2. /\ ~Extracts(q) => Failure(RejectionStatus(q)) \in Permitted(q)
      /\ Extracts(q) /\ ~(Validates(q) /\ Translates(q)) => Failure(400) \in Permitted(q)
      /\ Extracts(q) /\ Validates(q) => Failure(404) \in Permitted(q) /\ Failure(500) \in Permitted(q)
  BY PermittedAnswers
<1>3. CASE Rejected(r)
  BY <1>2, <1>3, FailAnswers DEF Rejected, Parent
<1>4. CASE Invalid(r) \/ Untranslatable(r)
  BY <1>1, <1>2, <1>4, FailAnswers DEF Invalid, Untranslatable, StatusOf, Parent
<1>5. CASE NoEnclave(r) \/ NoCredentials(r) \/ Unreachable(r)
  BY <1>1, <1>2, <1>5, FailAnswers
     DEF NoEnclave, NoCredentials, Unreachable, StatusOf, AppErrorOf, Parent
<1>6. CASE EnclaveLost(r) \/ HttpTimeout(r)
  <2>1. req[r] \in Request /\ answer[r] = None /\ req' = req
    BY <1>6 DEF EnclaveLost, HttpTimeout, Inv, Checked, Parent, Enclave
  <2>2. \E a \in Permitted(req[r]) : answer' = [answer EXCEPT ![r] = a]
    <3>1. CASE EnclaveLost(r)
      <4>1. Extracts(q) /\ Validates(q)
        BY <3>1 DEF EnclaveLost, Inv, Checked
      <4>2. Failure(500) \in Permitted(req[r])
        BY <4>1, <1>2, SMTT(20)
      <4>3. answer' = [answer EXCEPT ![r] = Failure(500)]
        BY <3>1, ZenonT(30) DEF EnclaveLost, StatusOf, AppErrorOf
      <4> QED
        BY <4>2, <4>3
    <3>2. CASE HttpTimeout(r)
      BY <3>2, PermittedAnswers DEF HttpTimeout
    <3> QED
      BY <1>6, <3>1, <3>2
  <2>3. Answered(r)
    BY <2>1, <2>2 DEF Answered
  <2>4. answer'[r] # None
    BY <2>3 DEF Answered, Inv, Functions, RequestAssumption
  <2>5. pc'[r] = "done" \/ (pc'[r] = pc[r] /\ pc[r] \in Enclave)
    BY <1>6 DEF EnclaveLost, HttpTimeout, Goto, Inv, Functions
  <2> QED
    BY <2>1, <2>3, <2>4, <2>5 DEF Inv, Checked, Parent, Enclave
<1>7. CASE Check(r) \/ Route(r) \/ Credentials(r) \/ Translate(r) \/ Forward(r)
  BY <1>7 DEF Check, Route, Credentials, Translate, Forward, Pass, Goto, Inv, Functions,
     Checked, Parent, Enclave
<1>8. CASE Submit(r) \/ Finish(r)
  BY <1>8 DEF Submit, Finish, Goto, Inv, Functions, Checked, Parent, Enclave
<1> QED
  BY <1>3, <1>4, <1>5, <1>6, <1>7, <1>8 DEF ParentStep

LEMMA EnclaveStepAnswers ==
  ASSUME RequestAssumption, Inv, NEW r \in Req, EnclaveStep(r)
  PROVE  (UNCHANGED <<req, answer>> \/ Answered(r)) /\ Checked(r)'
<1>1. CASE TotalFailure(r) /\ pc[r] \in Enclave
  <2>1. Failure(StatusOf.DecryptError) \in Permitted(req[r])
    BY <1>1, PermittedAnswers DEF Inv, Checked, StatusOf
  <2> QED
    BY <1>1, <2>1, SendAnswers DEF TotalFailure
<1>2. CASE Arrive(r) \/ KmsFails(r) \/ KeyUndecodable(r)
  <2>1. CASE Arrive(r) /\ Pass(r, "key")
    BY <2>1 DEF Arrive, Pass, Goto, Inv, Functions, Checked, Parent, Enclave
  <2> QED
    BY <1>1, <1>2, <2>1 DEF Arrive, KmsFails, KeyUndecodable, Enclave
<1>3. CASE Respond(r)
  <2>1. [status |-> 200, fields |-> out[r], errors |-> errors[r] \cup celErrors[r]] = Outcome(req[r])
    BY <1>3 DEF Respond, Inv, Computed, Outcome
  <2>2. Outcome(req[r]) \in Permitted(req[r])
    BY <1>3, PermittedAnswers DEF Respond, Inv, Checked, Enclave, ParentAccepts
  <2> QED
    BY <1>3, <2>1, <2>2, SendAnswers DEF Respond, Enclave
<1>4. CASE KeyDecrypted(r) \/ FieldsDone(r) \/ \E f \in todo[r] : DecryptField(r, f) \/ Lookup(r, f)
  BY <1>4 DEF KeyDecrypted, FieldsDone, DecryptField, Lookup, Goto, Inv, Functions, Checked,
     Parent, Enclave
<1>5. CASE Compile(r) \/ Insert(r) \/ ExecuteFails(r) \/ ExecuteOk(r) \/ NoJson(r) \/ ExprsDone(r)
  BY <1>5 DEF Compile, Insert, ExecuteFails, ExecuteOk, NoJson, ExprsDone, Pass, Goto, Inv,
     Functions, Checked, Parent, Enclave
<1> QED
  BY <1>2, <1>3, <1>4, <1>5 DEF EnclaveStep

-----------------------------------------------------------------------------
(* Every step keeps what is known of the fields, expressions and cache.    *)

LEMMA CacheKept ==
  ASSUME RequestAssumption, Inv, NEW r \in Req, ParentStep(r) \/ EnclaveStep(r)
  PROVE  CacheOk'
<1>1. CASE Insert(r)
  <2>1. req[r].expressions[cur[r]].ok
    BY <1>1 DEF Insert, Inv, Computed
  <2>2. CASE Text(r) \in cache
    <3>1. cache' = cache
      BY <1>1, <2>2 DEF Insert
    <3> QED
      BY <3>1 DEF CacheOk, Inv
  <2>3. CASE Text(r) \notin cache
    <3>1. /\ IsFiniteSet(cache \cup {Text(r)})
          /\ Cardinality(cache \cup {Text(r)}) = Cardinality(cache) + 1
      BY <2>3, FS_AddElement DEF Inv, CacheOk
    <3>2. Cardinality(cache) \in Nat
      BY FS_CardinalityType DEF Inv, CacheOk
    <3> QED
      BY <1>1, <2>1, <3>1, <3>2 DEF Insert, Inv, CacheOk, Text, RequestAssumption
  <2> QED
    BY <2>2, <2>3
<1>2. CASE UNCHANGED cache
  BY <1>2 DEF Inv, CacheOk
<1>3. ParentStep(r) => UNCHANGED cache
  BY DEF ParentStep, Submit, Rejected, Invalid, Check, NoEnclave, Route, NoCredentials,
     Credentials, Untranslatable, Translate, Unreachable, Forward, EnclaveLost, HttpTimeout,
     Finish, Fail, Pass
<1>4. EnclaveStep(r) => UNCHANGED cache \/ Insert(r)
  BY DEF EnclaveStep, Arrive, KmsFails, KeyUndecodable, KeyDecrypted, DecryptField, Lookup,
     FieldsDone, Compile, ExecuteFails, ExecuteOk, NoJson, ExprsDone, Respond, TotalFailure,
     Send, Pass
<1> QED
  BY <1>1, <1>2, <1>3, <1>4

LEMMA ParentStepComputed ==
  ASSUME Inv, NEW r \in Req, ParentStep(r)
  PROVE  Computed(r)'
<1> USE DEF Inv, Functions, Goto, work
<1>1. CASE Submit(r)
  BY <1>1 DEF Submit, Computed, Blank, Parent, Expressing, Compiling
<1>2. CASE Finish(r)
  BY <1>2 DEF Finish, Computed, Blank, Parent, Expressing, Compiling
<1>3. CASE Check(r) \/ Route(r) \/ Credentials(r) \/ Translate(r) \/ Forward(r)
  BY <1>3 DEF Check, Route, Credentials, Translate, Forward, Pass, Computed, Blank, Parent,
     Expressing, Compiling
<1>4. CASE EnclaveLost(r)
  BY <1>4 DEF EnclaveLost, Computed, Blank
<1>5. CASE HttpTimeout(r)
  BY <1>5 DEF HttpTimeout, Computed, Blank, Parent, Expressing, Compiling
<1>6. ASSUME NEW n, Fail(r, n) PROVE Computed(r)'
  BY <1>6 DEF Fail, Computed, Parent, Expressing, Compiling
<1> QED
  BY <1>1, <1>2, <1>3, <1>4, <1>5, <1>6
     DEF ParentStep, Rejected, Invalid, NoEnclave, NoCredentials, Untranslatable, Unreachable

LEMMA FieldsComputed ==
  ASSUME Inv, NEW r \in Req,
         KeyDecrypted(r) \/ FieldsDone(r) \/ \E f \in todo[r] : DecryptField(r, f)
  PROVE  Computed(r)'
<1> DEFINE q == req[r]
<1> USE DEF Inv, Functions, Goto
<1>1. CASE KeyDecrypted(r)
  <2>1. pc'[r] = "fields" /\ todo'[r] = DOMAIN q.fields /\ req' = req
    BY <1>1 DEF KeyDecrypted
  <2>2. fields'[r] = NoFields /\ errors'[r] = {} /\ celErrors'[r] = {}
    BY <1>1 DEF KeyDecrypted, Computed, Blank
  <2>3. PartlyDecrypted(q, todo'[r], fields'[r], errors'[r])
    BY <2>1, <2>2, NothingDecrypted
  <2> QED
    BY <2>1, <2>2, <2>3 DEF Computed, Parent, Expressing, Compiling
<1>2. ASSUME NEW f \in todo[r], DecryptField(r, f) PROVE Computed(r)'
  <2>1. PartlyDecrypted(q, todo[r], fields[r], errors[r]) /\ celErrors[r] = {}
    BY <1>2 DEF DecryptField, Computed
  <2>2. f \in DOMAIN q.fields
    BY <1>2, <2>1 DEF PartlyDecrypted
  <2>3. DecryptValue(q, f) <=> Discloses(q, f)
    BY DEF DecryptValue, Opens, Utf8, Discloses
  <2>4. /\ fields'[r] = With(fields[r], f, Plain(q)[f])
        /\ errors'[r] = IF Discloses(q, f) THEN errors[r]
                        ELSE errors[r] \cup {[what |-> "field", name |-> f]}
    <3>1. Plain(q)[f] = IF Discloses(q, f) THEN Str(q.fields[f].seal.text) ELSE Null
      BY <2>2 DEF Plain
    <3>2. CASE Discloses(q, f)
      BY <1>2, <2>3, <3>1, <3>2 DEF DecryptField
    <3>3. CASE ~Discloses(q, f)
      BY <1>2, <2>3, <3>1, <3>3 DEF DecryptField
    <3> QED
      BY <3>2, <3>3
  <2>5. PartlyDecrypted(q, todo[r] \ {f}, With(fields[r], f, Plain(q)[f]),
          IF Discloses(q, f) THEN errors[r] ELSE errors[r] \cup {[what |-> "field", name |-> f]})
    BY <2>1, OneDecrypted
  <2>6. PartlyDecrypted(q, todo[r] \ {f}, fields'[r], errors'[r])
    BY <2>4, <2>5
  <2>7. /\ todo'[r] = todo[r] \ {f} /\ pc'[r] = "fields" /\ req'[r] = q
        /\ celErrors'[r] = {}
    BY <1>2, <2>1 DEF DecryptField
  <2> QED
    BY <2>6, <2>7 DEF DecryptField, Computed, Parent, Expressing, Compiling
<1>3. CASE FieldsDone(r)
  <2>1. fields[r] = Plain(q) /\ errors[r] = SealErrors(q) /\ celErrors[r] = {}
    <3>1. todo[r] = {} /\ PartlyDecrypted(q, todo[r], fields[r], errors[r]) /\ celErrors[r] = {}
      BY <1>3 DEF FieldsDone, Computed
    <3> QED
      BY <3>1, AllDecrypted
  <2>2. req' = req /\ fields' = fields /\ errors' = errors /\ out'[r] = Plain(q)
    BY <1>3, <2>1 DEF FieldsDone
  <2>3. CASE DOMAIN q.expressions = {} \/ TooLong(q)
    <3>1. pc'[r] = "respond" /\ celErrors'[r] = IF TooLong(q) THEN {WholeError} ELSE {}
      BY <1>3, <2>3 DEF FieldsDone
    <3> QED
      BY <2>1, <2>2, <2>3, <3>1, Unexpressed DEF Computed, Parent, Expressing, Compiling
  <2>4. CASE ~(DOMAIN q.expressions = {} \/ TooLong(q))
    <3>1. pc'[r] = "exprs" /\ todo'[r] = DOMAIN q.expressions /\ celErrors' = celErrors
      BY <1>3, <2>4 DEF FieldsDone
    <3>2. PartlyTransformed(q, DOMAIN q.expressions \ todo'[r], out'[r], celErrors'[r])
      BY <2>1, <2>2, <3>1, NothingTransformed
    <3> QED
      BY <2>1, <2>2, <2>4, <3>1, <3>2 DEF Computed, Parent, Expressing, Compiling
  <2> QED
    BY <2>3, <2>4
<1> QED
  BY <1>1, <1>2, <1>3

\* The expression that was looked up has a value, or none.
LEMMA NoValueComputed ==
  ASSUME Inv, NEW r \in Req, pc[r] \in Compiling, NoValue(r, cur[r]),
         ValueOf(req[r], cur[r]) = CelError
  PROVE  PartlyTransformed(req[r], DOMAIN req[r].expressions \ todo[r], out'[r], celErrors'[r])
<1> DEFINE q == req[r]
           n == cur[r]
           done == DOMAIN q.expressions \ (todo[r] \cup {n})
<1>1. PartlyTransformed(q, done, out[r], celErrors[r]) /\ n \notin done
  BY DEF Inv, Computed
<1>2. DOMAIN q.expressions \ todo[r] = done \cup {n}
  BY DEF Inv, Computed
<1>3. DOMAIN fields[r] = DOMAIN q.fields
  BY PlainDomain DEF Inv, Computed, Expressing
<1>4. PartlyTransformed(q, done \cup {n}, out'[r], celErrors'[r])
  <2>1. CASE n \in DOMAIN q.fields
    <3>1. out' = out /\ celErrors' = celErrors
      BY <1>3, <2>1 DEF NoValue
    <3>2. PartlyTransformed(q, done \cup {n}, out[r], celErrors[r])
      BY <1>1, <2>1, OneKept
    <3> QED
      BY <3>1, <3>2
  <2>2. CASE n \notin DOMAIN q.fields
    <3>1. /\ out'[r] = With(out[r], n, Null)
          /\ celErrors'[r] = celErrors[r] \cup {[what |-> "expression", name |-> n]}
      BY <1>3, <2>2 DEF NoValue, Inv, Functions
    <3>2. PartlyTransformed(q, done \cup {n}, With(out[r], n, Null),
            celErrors[r] \cup {[what |-> "expression", name |-> n]})
      BY <1>1, <2>2, OneNull
    <3> QED
      BY <3>1, <3>2
  <2> QED
    BY <2>1, <2>2
<1> QED
  BY <1>2, <1>4

LEMMA ValueIsThatOfPlain ==
  ASSUME Inv, NEW r \in Req, pc[r] \in {"insert", "evaluate"}
  PROVE  Value(r) = ValueOf(req[r], cur[r])
BY DEF Inv, Computed, Value, Text, ValueOf, Expressing, Compiling

LEMMA LookedUpComputed ==
  ASSUME Inv, NEW r \in Req, (\E n \in todo[r] : Lookup(r, n)) \/ Compile(r) \/ Insert(r)
  PROVE  Computed(r)'
<1> DEFINE q == req[r]
<1> USE DEF Inv, Functions, Goto
<1>1. ASSUME NEW n \in todo[r], Lookup(r, n) PROVE Computed(r)'
  <2>1. DOMAIN q.expressions \ todo[r] = DOMAIN q.expressions \ (todo'[r] \cup {n})
    BY <1>1 DEF Lookup
  <2>2. n \in DOMAIN q.expressions \ todo'[r] /\ todo'[r] \subseteq DOMAIN q.expressions
    BY <1>1 DEF Lookup, Computed, Expressing
  <2>3. PartlyTransformed(q, DOMAIN q.expressions \ (todo'[r] \cup {n}), out[r], celErrors[r])
    BY <1>1, <2>1 DEF Lookup, Computed
  <2>4. fields[r] = Plain(q) /\ errors[r] = SealErrors(q) /\ ~TooLong(q)
    BY <1>1 DEF Lookup, Computed, Expressing
  <2>5. /\ req' = req /\ fields' = fields /\ errors' = errors /\ out' = out
        /\ celErrors' = celErrors /\ cur'[r] = n
    BY <1>1 DEF Lookup
  <2>6. CASE q.expressions[n] \in cache
    <3>1. pc'[r] = "evaluate" /\ q.expressions[n].ok
      BY <1>1, <2>6 DEF Lookup, CacheOk
    <3> QED
      BY <2>2, <2>3, <2>4, <2>5, <3>1 DEF Computed, Parent, Expressing, Compiling
  <2>7. CASE q.expressions[n] \notin cache
    <3>1. pc'[r] = "compile"
      BY <1>1, <2>7 DEF Lookup
    <3> QED
      BY <2>2, <2>3, <2>4, <2>5, <3>1 DEF Computed, Parent, Expressing, Compiling
  <2> QED
    BY <2>6, <2>7
<1>2. CASE Compile(r)
  <2>1. CASE Text(r).ok
    BY <1>2, <2>1 DEF Compile, Text, Computed, Parent, Expressing, Compiling
  <2>2. CASE ~Text(r).ok
    <3>1. ValueOf(q, cur[r]) = CelError
      BY <2>2 DEF ValueOf, Text
    <3>2. NoValue(r, cur[r]) /\ pc[r] = "compile" /\ pc'[r] = "exprs"
      BY <1>2, <2>2 DEF Compile
    <3>3. PartlyTransformed(q, DOMAIN q.expressions \ todo[r], out'[r], celErrors'[r])
      BY <3>1, <3>2, NoValueComputed DEF Compiling
    <3>4. req' = req /\ todo' = todo /\ fields' = fields /\ errors' = errors
      BY <1>2 DEF Compile
    <3> QED
      BY <3>2, <3>3, <3>4 DEF Computed, Parent, Expressing, Compiling
  <2> QED
    BY <2>1, <2>2
<1>3. CASE Insert(r)
  BY <1>3 DEF Insert, work, Computed, Parent, Expressing, Compiling
<1> QED
  BY <1>1, <1>2, <1>3

LEMMA EvaluatedComputed ==
  ASSUME Inv, NEW r \in Req, ExecuteFails(r) \/ ExecuteOk(r) \/ NoJson(r) \/ ExprsDone(r)
  PROVE  Computed(r)'
<1> DEFINE q == req[r]
<1> USE DEF Inv, Functions, Goto
<1>1. pc[r] = "evaluate" => Value(r) = ValueOf(q, cur[r])
  BY ValueIsThatOfPlain
<1>2. CASE ExecuteFails(r)
  <2>1. PartlyTransformed(q, DOMAIN q.expressions \ todo[r], out'[r], celErrors'[r])
    BY <1>1, <1>2, NoValueComputed DEF ExecuteFails, Compiling
  <2> QED
    BY <1>2, <2>1 DEF ExecuteFails, Computed, Parent, Expressing, Compiling
<1>3. CASE ExecuteOk(r)
  <2> DEFINE n == cur[r]
             done == DOMAIN q.expressions \ (todo[r] \cup {n})
  <2>1. PartlyTransformed(q, done, out[r], celErrors[r])
    BY <1>3 DEF ExecuteOk, Computed, Compiling
  <2>2. DOMAIN q.expressions \ todo[r] = done \cup {n}
    BY <1>3 DEF ExecuteOk, Computed, Compiling
  <2>3. ValueOf(q, n) # CelError /\ HasJson(ValueOf(q, n))
    BY <1>1, <1>3 DEF ExecuteOk
  <2>4. out'[r] = With(out[r], n, ValueOf(q, n)) /\ fields' = fields
    BY <1>1, <1>3 DEF ExecuteOk, Store
  <2>5. PartlyTransformed(q, done \cup {n}, With(out[r], n, ValueOf(q, n)), celErrors[r])
    BY <2>1, <2>3, OneStored
  <2>6. PartlyTransformed(q, DOMAIN q.expressions \ todo[r], out'[r], celErrors[r])
    BY <2>2, <2>4, <2>5
  <2> QED
    BY <1>3, <2>4, <2>6 DEF ExecuteOk, Computed, Parent, Expressing, Compiling
<1>4. CASE NoJson(r)
  <2>1. cur[r] \in DOMAIN q.expressions /\ fields[r] = Plain(q) /\ errors[r] = SealErrors(q)
    BY <1>4 DEF NoJson, Computed, Expressing, Compiling
  <2>2. Untransformed(q)
    BY <1>1, <1>4, <2>1 DEF NoJson, Untransformed
  <2>3. Outcome(q).fields = Plain(q) /\ Outcome(q).errors = SealErrors(q) \cup {WholeError}
    BY <2>2 DEF Outcome
  <2>4. /\ pc'[r] = "respond" /\ req' = req
        /\ out'[r] = Plain(q) /\ errors'[r] = SealErrors(q) /\ celErrors'[r] = {WholeError}
    BY <1>4, <2>1 DEF NoJson
  <2> QED
    BY <2>3, <2>4 DEF Computed, Parent, Expressing, Compiling
<1>5. CASE ExprsDone(r)
  <2>1. /\ fields[r] = Plain(q) /\ errors[r] = SealErrors(q) /\ ~TooLong(q) /\ todo[r] = {}
        /\ PartlyTransformed(q, DOMAIN q.expressions \ todo[r], out[r], celErrors[r])
    BY <1>5 DEF ExprsDone, Computed, Expressing
  <2>2. DOMAIN q.expressions \ todo[r] = DOMAIN q.expressions
    BY <2>1
  <2>3. out[r] = Outcome(q).fields /\ errors[r] \cup celErrors[r] = Outcome(q).errors
    BY <2>1, <2>2, AllTransformed
  <2> QED
    BY <1>5, <2>3 DEF ExprsDone, Pass, work, Computed, Parent, Expressing, Compiling
<1> QED
  BY <1>2, <1>3, <1>4, <1>5

LEMMA EnclaveStepComputed ==
  ASSUME Inv, NEW r \in Req, EnclaveStep(r)
  PROVE  Computed(r)'
<1>1. CASE Arrive(r) \/ KmsFails(r) \/ KeyUndecodable(r)
  <2> USE DEF TotalFailure, Send, Pass, Goto, work, Inv, Functions, Computed, Blank, Parent,
              Expressing, Compiling
  <2>1. CASE Arrive(r)
    BY <2>1, ZenonT(30) DEF Arrive
  <2>2. CASE KmsFails(r) \/ KeyUndecodable(r)
    BY <2>2 DEF KmsFails, KeyUndecodable
  <2> QED
    BY <1>1, <2>1, <2>2
<1>2. CASE Respond(r)
  BY <1>2 DEF Respond, Send, Goto, work, Inv, Functions, Computed, Blank, Parent, Expressing,
     Compiling
<1> QED
  BY <1>1, <1>2, FieldsComputed, LookedUpComputed, EvaluatedComputed DEF EnclaveStep

LEMMA StepKeepsInv ==
  ASSUME RequestAssumption, Inv, [Next]_vars
  PROVE  Inv'
<1>1. CASE UNCHANGED vars
  <2>1. Functions' /\ CacheOk'
    BY <1>1 DEF vars, work, Inv, Functions, CacheOk
  <2>2. \A r \in Req : (Checked(r) <=> Checked(r)') /\ (Computed(r) <=> Computed(r)')
    BY <1>1 DEF vars, work, Checked, Computed, Blank
  <2> QED
    BY <1>1, <2>1, <2>2 DEF vars, work, Inv
<1>2. ASSUME NEW r \in Req, ParentStep(r) \/ EnclaveStep(r) PROVE Inv'
  <2>1. Functions' /\ \A s \in Req \ {r} : Same(s)
    BY <1>2, StepIsLocal DEF Inv
  <2>2. Checked(r)'
    BY <1>2, ParentStepAnswers, EnclaveStepAnswers
  <2>3. Computed(r)'
    BY <1>2, ParentStepComputed, EnclaveStepComputed
  <2>4. CacheOk'
    BY <1>2, CacheKept
  <2>5. ASSUME NEW s \in Req \ {r} PROVE Checked(s)' /\ Computed(s)'
    BY <2>1, SameKeeps DEF Inv
  <2> QED
    BY <2>1, <2>2, <2>3, <2>4, <2>5 DEF Inv
<1> QED
  BY <1>1, <1>2 DEF Next

\* The inductive invariant of a call and of the cache.
THEOREM CallsAreOnTrack == Spec => []Inv
<1>1. RequestAssumption
  BY RequestAssumption
<1> QED
  BY <1>1, InitInv, StepKeepsInv, PTL DEF Spec

-----------------------------------------------------------------------------
(* The properties of the model.                                            *)

\* The types of the handlers' state, in every behaviour.
THEOREM TypeCorrect == Spec => []TypeOK
<1>1. ASSUME RequestAssumption, Inv PROVE TypeOK
  <2>1. \A r \in Req : /\ req[r] \in Request \cup {None}
                       /\ pc[r] \in {"idle", "done"} \cup Parent \cup Enclave
    BY <1>1 DEF Inv, Checked
  <2>2. /\ req \in [Req -> Request \cup {None}]
        /\ pc \in [Req -> {"idle", "done"} \cup Parent \cup Enclave]
    BY <1>1, <2>1 DEF Inv, Functions
  <2>3. ASSUME NEW r \in Req
        PROVE  /\ req[r] = None <=> pc[r] = "idle"
               /\ pc[r] = "fields" => todo[r] \subseteq DOMAIN req[r].fields
               /\ pc[r] \in Expressing => todo[r] \subseteq DOMAIN req[r].expressions
               /\ pc[r] \in Compiling => cur[r] \in DOMAIN req[r].expressions \ todo[r]
    <3>1. req[r] = None <=> pc[r] = "idle"
      BY <1>1 DEF Inv, Checked, RequestAssumption
    <3>2. pc[r] = "fields" => todo[r] \subseteq DOMAIN req[r].fields
      BY <1>1 DEF Inv, Computed, PartlyDecrypted
    <3>3. pc[r] \in Compiling => cur[r] \in DOMAIN req[r].expressions \ todo[r]
      BY <1>1 DEF Inv, Computed
    <3>4. pc[r] \in Expressing => todo[r] \subseteq DOMAIN req[r].expressions
      BY <1>1 DEF Inv, Computed
    <3> QED
      BY <3>1, <3>2, <3>3, <3>4
  <2> QED
    BY <2>2, <2>3 DEF TypeOK
<1>2. RequestAssumption
  BY RequestAssumption
<1> QED
  BY <1>1, <1>2, CallsAreOnTrack, PTL

\* However many threads compile at once, the cache keeps within its limit and
\* holds only programs that compile.
THEOREM CacheKeepsItsLimit == Spec => []CacheIsSound
<1>1. Inv => CacheIsSound
  BY DEF Inv, CacheOk, CacheIsSound
<1> QED
  BY <1>1, CallsAreOnTrack, PTL

\* No request that the parent forwards is refused as a whole by the enclave.
THEOREM NothingForwardedIsRefused == Spec => []AcceptedNeverRefused
<1>1. ASSUME RequestAssumption, Inv PROVE AcceptedNeverRefused
  <2> SUFFICES ASSUME NEW r \in Req, pc[r] = "enclave" PROVE EnclaveAccepts(req[r])
    BY DEF AcceptedNeverRefused
  <2>1. req[r] \in Request /\ ParentAccepts(req[r])
    BY <1>1 DEF Inv, Checked, Enclave, ParentAccepts
  <2> QED
    BY <1>1, <2>1, ParentIsStricter DEF RequestAssumption
<1>2. RequestAssumption
  BY RequestAssumption
<1> QED
  BY <1>1, <1>2, CallsAreOnTrack, PTL

\* Whatever interleaves, a call is answered by what its request alone permits.
THEOREM CallsAreServed == Spec => ImplementsService
<1>1. Init => S!Init
  BY DEF Init, S!Init
<1>2. ASSUME RequestAssumption, Inv, [Next]_vars PROVE [S!Next]_<<req, answer>>
  <2>1. CASE UNCHANGED vars
    BY <2>1 DEF vars
  <2>2. ASSUME NEW r \in Req, Answered(r) PROVE S!Answer(r)
    BY <1>2, <2>2 DEF Answered, S!Answer, RequestAssumption
  <2>3. ASSUME NEW r \in Req, Submit(r) PROVE S!Ask(r)
    BY <1>2, <2>3 DEF Submit, S!Ask, Inv, Checked
  <2>4. ASSUME NEW r \in Req, Finish(r) PROVE S!Close(r)
    BY <1>2, <2>4 DEF Finish, S!Close, Inv, Checked
  <2>5. ASSUME NEW r \in Req, ParentStep(r) \/ EnclaveStep(r)
        PROVE  UNCHANGED <<req, answer>> \/ Answered(r) \/ Submit(r) \/ Finish(r)
    BY <1>2, <2>5, ParentStepAnswers, EnclaveStepAnswers
  <2> QED
    BY <1>2, <2>1, <2>2, <2>3, <2>4, <2>5 DEF Next, S!Next
<1>3. RequestAssumption
  BY RequestAssumption
<1> QED
  BY <1>1, <1>2, <1>3, CallsAreOnTrack, PTL DEF Spec, ImplementsService, S!Spec
=============================================================================
