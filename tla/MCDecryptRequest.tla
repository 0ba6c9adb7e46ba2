---------------------------- MODULE MCDecryptRequest ----------------------------
(***************************************************************************)
(* An instance of DecryptRequest for TLC: a few dates and names, requests  *)
(* that pass every check, and for each check one that fails it at its      *)
(* bound.                                                                  *)
(***************************************************************************)
EXTENDS DecryptRequest, TLC

\* Calls are interchangeable.
Symmetry == Permutations(Req)

MCToday == <<2025, 6, 15>>
MCDateOf == [jan |-> <<1990, 1, 31>>, jun |-> <<1990, 6, 16>>, next |-> <<2026, 1, 1>>]
MCLower == [name |-> "name", NAME |-> "name", dob |-> "dob"]

Seal(name, text) == [key |-> "k1", vault |-> "v1", name |-> name, text |-> text]
Field(seal) == [encapped |-> 97, ciphertext |-> 100, seal |-> seal]
Expr(var, fns) == [len |-> 30, ok |-> TRUE, var |-> var, fns |-> fns]
Broken == [len |-> 10, ok |-> FALSE, var |-> "name", fns |-> <<>>]
Long(n) == [Expr("name", <<>>) EXCEPT !.len = n]

\* Two fields; the case of a name does not matter.
Plain2 == [NAME |-> Field(Seal("name", <<"ann">>)), dob |-> Field(Seal("dob", <<"jan">>))]
One == [NAME |-> Field(Seal("name", <<"ann">>))]

Base ==
  [body |-> "cbor", vault |-> "v1", vault_len |-> 20,
   region |-> [len |-> 9, parts |-> <<"lower2", "lower", "digits">>],
   key_len |-> 500, suite_len |-> 10, suite |-> "P384",
   blob |-> [key |-> "k1", curve |-> "P384"],
   fields |-> Plain2, expressions |-> <<>>]

Names(n) == {ToString(i) : i \in 1..n}
Many(n) == [s \in Names(n) |-> Field(Seal("name", <<"ann">>))]
ManyExprs(n) == [s \in Names(n) |-> Expr("name", <<>>)]

\* Expressions that read each other's targets, fail, or spoil the whole; and
\* fields sealed for another name, vault or key, or holding no text.
Interesting ==
  {[Base EXCEPT !.fields = One, !.expressions = e] : e \in
     {[NAME |-> Expr("NAME", <<"hex_encode">>), x |-> Expr("NAME", <<"sha256", "to_uppercase">>)],
      [NAME |-> Expr("NAME", <<"hex_decode">>), x |-> Broken],
      [NAME |-> Broken, x |-> Expr("NAME", <<"is_empty">>)],
      [x |-> Expr("size", <<>>), y |-> Broken],
      [x |-> Long(MAX_EXPRESSION_LENGTH + 1), y |-> Broken]}}
  \cup
  {[Base EXCEPT !.fields = [dob |-> Field(Seal("dob", <<"jan">>))],
                !.expressions = [age |-> Expr("dob", <<"date", "age">>)]]}
  \cup
  {[Base EXCEPT !.fields = [Plain2 EXCEPT !.NAME = Field(s)]] : s \in
     {Seal("dob", <<"ann">>),
      [Seal("name", <<"ann">>) EXCEPT !.vault = "v2"],
      [Seal("name", <<"ann">>) EXCEPT !.key = "k2"],
      Seal("name", <<"bytes">>)}}

\* At and beyond each bound.
Odd ==
  {[Base EXCEPT !.body = "large"], [Base EXCEPT !.body = "other"],
   [Base EXCEPT !.vault_len = 0], [Base EXCEPT !.vault_len = MAX_VAULT_ID_LENGTH + 1],
   [Base EXCEPT !.region.parts = <<"lower2", "digits">>],
   [Base EXCEPT !.region.parts = <<"lower2", "alnum", "digits">>],
   [Base EXCEPT !.region.len = MAX_REGION_LENGTH + 1],
   [Base EXCEPT !.key_len = 0], [Base EXCEPT !.key_len = MAX_ENCRYPTED_KEY_LENGTH + 1],
   [Base EXCEPT !.suite_len = MAX_SUITE_ID_LENGTH + 1, !.suite = "other"],
   [Base EXCEPT !.suite = "other"],
   [Base EXCEPT !.blob.curve = "P256"],
   [Base EXCEPT !.fields = Many(MAX_FIELDS_COUNT + 1)],
   [Base EXCEPT !.expressions = ManyExprs(MAX_EXPRESSIONS_COUNT + 1)],
   [Base EXCEPT !.fields.dob.encapped = MAX_ENCAPPED_KEY_SIZE, !.fields.dob.seal.key = "none"],
   [Base EXCEPT !.fields.dob.encapped = MAX_ENCAPPED_KEY_SIZE + 1],
   [Base EXCEPT !.fields.dob.ciphertext = MAX_FIELD_CIPHERTEXT_SIZE + 1],
   [Base EXCEPT !.fields = <<>>]}

MCRequest == Interesting \cup Odd
=============================================================================
