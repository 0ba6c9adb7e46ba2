----------------------------- MODULE CelFunctions ------------------------------
(***************************************************************************)
(* The functions CEL expressions can call (enclave/src/functions.rs) and   *)
(* the evaluation of an expression (enclave/src/expressions.rs).           *)
(*                                                                         *)
(* A text is a sequence of layers around a base text, outermost first:     *)
(* <<"hex", "jan">> is the hex encoding of <<"jan">>.  The base "bytes" is *)
(* not valid UTF-8 and exists only under an encoding; <<"">> is empty.     *)
(* An expression is a variable to which functions are applied in turn.     *)
(***************************************************************************)
EXTENDS Naturals, Sequences, SequencesExt

CONSTANTS
  DateOf,   \* the base texts that are dates, and the date: year, month, day
  Today     \* the date of the enclave's clock

Str(t) == [kind |-> "string", of |-> t]
Null == [kind |-> "null", of |-> <<>>]
CelError == [kind |-> "error", of |-> <<>>]
Empty == <<"">>

\* An empty text has no layers: its encodings and its casings are itself.
Layer(name, t) == IF t = Empty THEN t ELSE <<name>> \o t

Recased(name, t) ==
  Layer(name, IF Head(t) \in {"upper", "lower"} THEN Tail(t) ELSE t)

\* Undo an encoding: the layer must be there, and what it holds be UTF-8.
Unlayer(name, t) ==
  IF t = Empty THEN Str(t)
  ELSE IF Head(t) = name /\ Tail(t) # <<"bytes">> THEN Str(Tail(t)) ELSE CelError

\* HEXLOWER_PERMISSIVE takes upper case digits too, BASE64 only what it wrote.
HexDecode(t) ==
  Unlayer("hex", IF Head(t) \in {"upper", "lower"} THEN Tail(t) ELSE t)

\* NaiveDate::parse_from_str, at midnight UTC.
Date(t) ==
  IF Len(t) = 1 /\ t[1] \in DOMAIN DateOf
    THEN [kind |-> "timestamp", of |-> DateOf[t[1]]] ELSE CelError

\* Has the year's anniversary of date d passed on day n?
AnniversaryPassed(d, n) == d[2] < n[2] \/ (d[2] = n[2] /\ d[3] <= n[3])

\* DateTime::years_since, or 0 for a date to come.
Age(d) ==
  LET years == IF AnniversaryPassed(d, Today) THEN Today[1] - d[1] ELSE Today[1] - d[1] - 1 IN
  IF d[1] > Today[1] \/ (d[1] = Today[1] /\ ~AnniversaryPassed(d, Today))
    THEN [kind |-> "number", of |-> <<0>>]
    ELSE [kind |-> "number", of |-> <<years>>]

Digests == {"sha256", "sha384", "sha512"}

OnString(fn, t) ==
  CASE fn = "is_empty" -> [kind |-> "bool", of |-> <<t = Empty>>]
    [] fn = "to_lowercase" -> Str(Recased("lower", t))
    [] fn = "to_uppercase" -> Str(Recased("upper", t))
    [] fn \in Digests -> Str(<<fn>> \o t)
    [] fn = "hex_encode" -> Str(Layer("hex", t))
    [] fn = "hex_decode" -> HexDecode(t)
    [] fn = "base64_encode" -> Str(Layer("base64", t))
    [] fn = "base64_decode" -> Unlayer("base64", t)
    [] fn = "date" -> Date(t)
    [] OTHER -> CelError

\* A function applied to a value of another type is an error.
Apply(value, fn) ==
  CASE value.kind = "string" -> OnString(fn, value.of)
    [] value.kind = "timestamp" /\ fn = "age" -> Age(value.of)
    [] OTHER -> CelError

\* Program::execute: the variables of the context are the decrypted fields;
\* today_utc() and "size" (a function as a value) need none.
Execute(expr, context) ==
  LET start ==
        CASE expr.var = "today_utc" -> [kind |-> "timestamp", of |-> Today]
          [] expr.var = "size" -> [kind |-> "function", of |-> <<>>]
          [] expr.var \in DOMAIN context -> context[expr.var]
          [] OTHER -> CelError
  IN FoldLeft(Apply, start, expr.fns)

\* Value::json fails on functions.
HasJson(value) == value.kind # "function"
=============================================================================
