------------------------------ MODULE VaultStore ------------------------------
(***************************************************************************)
(* The vault API's store (api/src/app): concurrent Lambda invocations that *)
(* create, update, decrypt and delete vaults.  Each handler of             *)
(* routers/vaults.py reads the table when it must and buffers its writes,  *)
(* its audit record among them, in a TransactionWriter that the middleware *)
(* flushes as one DynamoDB transaction once the handler returned.          *)
(*                                                                         *)
(* A field's value is named after the invocation that sealed it.  An       *)
(* invocation runs once.  GET only reads and is left out.  DynamoDB, KMS   *)
(* and the decryption tier are modelled by how the API uses them.          *)
(***************************************************************************)
EXTENDS Naturals, Sequences, FiniteSets

CONSTANTS
  Request,     \* Lambda invocations
  Vault,       \* vault ids
  Field,       \* the fields of VaultSchema
  Ssn9, Ssn4,  \* the field that is also stored by its last digits, and those
  Body,        \* the sets of fields that creations and updates name
  Removable,   \* the sets of attributes that removals name
  MaxClock,    \* bound of the clock, in microseconds
  None         \* no invocation

\* What update_vault and decrypt_vault look for ("_sk" stands for "_hs" too),
\* and what an item has besides its fields.
Keys == {"_pk", "_sk"}
Attribute == {"primary"} \cup Keys
Item == SUBSET Attribute
Absent == {}

ASSUME StoreAssumption ==
  /\ {Ssn9, Ssn4} \subseteq Field
  /\ Ssn9 # Ssn4
  /\ Body \subseteq SUBSET Field
  /\ Removable \subseteq SUBSET (Field \cup Keys)
  /\ MaxClock \in Nat
  /\ None \notin Request \cup Vault

VARIABLES
  record,     \* VAULT##id: its attributes but the fields; none if absent
  stored,     \* the sealed fields of each item, by who sealed them
  log,        \* LOG##id: who wrote the audit record of each microsecond
  committed,  \* the transactions DynamoDB applied, in order (history)
  lagging,    \* the replica that reads without ConsistentRead may hit
  clock,      \* now_micros()
  pc,         \* where each invocation is
  kind,       \* the operation it serves
  vault,      \* the vault id it is about
  names,      \* the fields, or attributes, its body names
  since,      \* how many transactions it began with, or its read saw (history)
  stamp,      \* the microsecond it took for its audit record
  status      \* what the client got: an HTTP status, or "500" for no answer

table == <<record, stored, log, committed>>
input == <<kind, vault, names, since>>
vars == <<table, lagging, clock, pc, input, stamp, status>>

Kind == {"create", "update", "decrypt", "remove", "delete"}

\* A state of an item, and how many transactions it takes into account.
Current(v) == [record |-> record[v], upto |-> Len(committed)]

Begun(r) == pc[r] # "idle"

\* Vaults created earlier, without fields, may be there.
Init ==
  /\ record \in [Vault -> {Absent, Attribute}]
  /\ stored = [v \in Vault |-> [f \in Field |-> None]]
  /\ log = [v \in Vault |-> [t \in 0..MaxClock |-> None]]
  /\ committed = << >>
  /\ clock = 0
  /\ pc = [r \in Request |-> "idle"]
  /\ lagging = [v \in Vault |-> Current(v)]
  /\ kind = [r \in Request |-> "none"]
  /\ vault = [r \in Request |-> None]
  /\ names = [r \in Request |-> {}]
  /\ since = [r \in Request |-> 0]
  /\ stamp = [r \in Request |-> 0]
  /\ status = [r \in Request |-> "none"]

-----------------------------------------------------------------------------
(* The handlers, up to the flush.                                          *)

Accept(r, k, v, body, n) ==
  /\ pc[r] = "idle"
  /\ kind' = [kind EXCEPT ![r] = k]
  /\ vault' = [vault EXCEPT ![r] = v]
  /\ names' = [names EXCEPT ![r] = body]
  /\ since' = [since EXCEPT ![r] = n]

Answer(r, s) ==
  /\ pc' = [pc EXCEPT ![r] = "done"]
  /\ status' = [status EXCEPT ![r] = s]

\* The writes and the audit record are in the buffer.
Buffered(r) ==
  /\ pc' = [pc EXCEPT ![r] = "flush"]
  /\ stamp' = [stamp EXCEPT ![r] = clock]

\* generate_id never returns an id that anybody used.
FreshId(v) ==
  record[v] = Absent /\ \A q \in Request : Begun(q) => vault[q] # v

\* Clients learn an id from the response that created it, or make one up.
KnownId(v) == \A q \in Request : (Begun(q) /\ kind[q] = "create" /\ vault[q] = v)
                                   => pc[q] = "done"

\* create_vault, whose data key pair may fail to be generated.
Create(r) ==
  \E v \in Vault, body \in Body :
    /\ FreshId(v)
    /\ Accept(r, "create", v, body, Len(committed))
    /\ \/ Buffered(r) /\ UNCHANGED status
       \/ Answer(r, "500") /\ UNCHANGED stamp
    /\ UNCHANGED <<table, clock>>

\* delete_vault with delete_all, which reads nothing first.
Delete(r) ==
  \E v \in Vault :
    /\ KnownId(v)
    /\ Accept(r, "delete", v, {}, Len(committed))
    /\ Buffered(r)
    /\ UNCHANGED <<table, clock, status>>

RemoveChecksNothing(r) ==
  \E v \in Vault, body \in Removable :
    /\ KnownId(v)
    /\ Accept(r, "remove", v, body, Len(committed))
    /\ Buffered(r)
    /\ UNCHANGED <<table, clock, status>>

\* delete_vault with attributes of any name, or with nothing to do.
Remove(r) ==
  \E v \in Vault, body \in Removable :
    /\ KnownId(v)
    /\ Accept(r, "remove", v, body, Len(committed))
    /\ IF body = {} THEN Answer(r, "200") /\ UNCHANGED stamp
                    ELSE Buffered(r) /\ UNCHANGED status
    /\ UNCHANGED <<table, clock>>

ReadUnchecked(r, s, key) ==
  \/ Answer(r, "500")
  \/ /\ s = Absent
     /\ Answer(r, "404")
  \/ /\ s # Absent
     /\ pc' = [pc EXCEPT ![r] = "work"]
     /\ UNCHANGED status

\* get_item and the check of the key: a ClientError, or an item without the
\* key but with others of the attributes; no item, or none of the attributes;
\* or the key.
Read(r, s, key) ==
  \/ Answer(r, "500")
  \/ /\ key \notin s
     /\ Answer(r, "404")
  \/ /\ key \in s
     /\ pc' = [pc EXCEPT ![r] = "work"]
     /\ UNCHANGED status

\* update_vault up to its get_item of the public key.
Update(r) ==
  \E v \in Vault, body \in Body : \E seen \in {Current(v), lagging[v]} :
    /\ KnownId(v)
    /\ Accept(r, "update", v, body, seen.upto)
    /\ IF body = {} THEN Answer(r, "200") ELSE Read(r, seen.record, "_pk")
    /\ UNCHANGED <<table, clock, stamp>>

\* decrypt_vault up to its get_item of the secret key and the fields; which
\* fields it names makes no difference to anybody else.
Decrypt(r) ==
  \E v \in Vault : \E seen \in {Current(v), lagging[v]} :
    /\ KnownId(v)
    /\ Accept(r, "decrypt", v, {}, seen.upto)
    /\ Read(r, seen.record, "_sk")
    /\ UNCHANGED <<table, clock, stamp>>

WorkAnswersFirst(r) ==
  /\ pc[r] = "work"
  /\ IF kind[r] = "decrypt" THEN Answer(r, "200") /\ stamp' = [stamp EXCEPT ![r] = clock]
                            ELSE Buffered(r) /\ UNCHANGED status
  /\ UNCHANGED <<table, clock, input>>

\* update_vault seals the fields; decrypt_vault gets the plaintexts.
Work(r) ==
  /\ pc[r] = "work"
  /\ Buffered(r)
  /\ UNCHANGED <<table, clock, input, status>>

\* The decryption tier answers with an error, or not within its timeout.
WorkFails(r) ==
  /\ pc[r] = "work"
  /\ Answer(r, "500")
  /\ UNCHANGED <<table, clock, input, stamp>>

-----------------------------------------------------------------------------
(* The flush: one transaction.                                             *)

SealedOnlyNamed(r) == names[r]

\* encrypt_values seals the last digits of an ssn9 beside it.
Sealed(r) == names[r] \cup (IF Ssn9 \in names[r] THEN {Ssn4} ELSE {})

\* update_item has no condition: it makes the item when there is none.
Upserted(s) == s \cup {"primary"}

NewRecord(r) ==
  LET s == record[vault[r]]
  IN CASE kind[r] = "create" -> Attribute
       [] kind[r] = "delete" -> Absent
       [] kind[r] = "update" -> Upserted(s)
       [] kind[r] = "remove" -> Upserted(s \ names[r])
       [] kind[r] = "decrypt" -> s

NewStoredReplaces(r) ==
  LET s == stored[vault[r]]
  IN CASE kind[r] \in {"create", "update"} ->
              [f \in Field |-> IF f \in Sealed(r) THEN r ELSE None]
       [] kind[r] = "remove" -> [f \in Field |-> IF f \in names[r] THEN None ELSE s[f]]
       [] kind[r] = "delete" -> [f \in Field |-> None]
       [] kind[r] = "decrypt" -> s

NewStored(r) ==
  LET s == stored[vault[r]]
  IN CASE kind[r] \in {"create", "update"} ->
              [f \in Field |-> IF f \in Sealed(r) THEN r ELSE s[f]]
       [] kind[r] = "remove" -> [f \in Field |-> IF f \in names[r] THEN None ELSE s[f]]
       [] kind[r] = "delete" -> [f \in Field |-> None]
       [] kind[r] = "decrypt" -> s

Apply(r) ==
  /\ kind[r] = "create" => record[vault[r]] = Absent
  /\ record' = [record EXCEPT ![vault[r]] = NewRecord(r)]
  /\ stored' = [stored EXCEPT ![vault[r]] = NewStored(r)]
  /\ log' = [log EXCEPT ![vault[r]][stamp[r]] = r]
  /\ committed' = Append(committed, r)

\* transact_write_items returns; a round trip takes more than a microsecond.
Flush(r) == pc[r] = "flush" /\ stamp[r] < clock

FlushOk(r) ==
  /\ Flush(r)
  /\ Apply(r)
  /\ Answer(r, "200")
  /\ UNCHANGED <<clock, input, stamp>>

FlushConflictSwallowed(r) ==
  /\ Flush(r)
  /\ Answer(r, "200")
  /\ UNCHANGED <<table, clock, input, stamp>>

\* DynamoDB cancels the transaction: 409, and nothing of it is applied.
FlushConflict(r) ==
  /\ Flush(r)
  /\ Answer(r, "409")
  /\ UNCHANGED <<table, clock, input, stamp>>

\* The call fails otherwise, or the Lambda dies, before or after DynamoDB
\* applied the transaction; or the handler raised once its writes were in the
\* buffer, which __exit__ flushes all the same.
FlushFails(r) ==
  /\ Flush(r)
  /\ Apply(r) \/ UNCHANGED table
  /\ Answer(r, "500")
  /\ UNCHANGED <<clock, input, stamp>>

\* Time passes; only while an invocation waits for it does it matter.
Tick ==
  /\ clock < MaxClock
  /\ \E r \in Request : pc[r] = "flush" /\ stamp[r] = clock
  /\ clock' = clock + 1
  /\ UNCHANGED <<table, lagging, pc, input, stamp, status>>

\* DynamoDB brings the replica up to date.
Replicate(v) ==
  /\ lagging' = [lagging EXCEPT ![v] = Current(v)]
  /\ UNCHANGED <<table, clock, pc, input, stamp, status>>

-----------------------------------------------------------------------------
Handle(r) == Create(r) \/ Delete(r) \/ Remove(r) \/ Update(r) \/ Decrypt(r)

Step(r) ==
  Work(r) \/ WorkFails(r) \/ FlushOk(r) \/ FlushConflict(r) \/ FlushFails(r)

Next ==
  \/ Tick
  \/ \E v \in Vault : Replicate(v)
  \/ \E r \in Request : (Handle(r) \/ Step(r)) /\ UNCHANGED lagging

Spec == Init /\ [][Next]_vars

-----------------------------------------------------------------------------
\* The types of the table and of the invocations.
Typed ==
  /\ record \in [Vault -> Item]
  /\ stored \in [Vault -> [Field -> Request \cup {None}]]
  /\ log \in [Vault -> [0..MaxClock -> Request \cup {None}]]
  /\ committed \in Seq(Request)
  /\ clock \in 0..MaxClock
  /\ pc \in [Request -> {"idle", "work", "flush", "done"}]
  /\ kind \in [Request -> Kind \cup {"none"}]
  /\ vault \in [Request -> Vault \cup {None}]
  /\ \A v \in Vault : lagging[v].upto <= Len(committed)
  /\ names \in [Request -> SUBSET (Field \cup Keys)]
  /\ since \in [Request -> Nat]
  /\ stamp \in [Request -> 0..MaxClock]
  /\ status \in [Request -> {"none", "200", "404", "409", "500"}]
  /\ \A v \in Vault : record[v] = Absent => \A f \in Field : stored[v][f] = None

Writes(r) == kind[r] \in {"create", "delete"} \/ (kind[r] \in {"update", "remove"} /\ names[r] # {})

(***************************************************************************)
(* Type correctness of the table and of the invocations; and nothing is    *)
(* flushed, not even an audit record, for a request that asked for nothing *)
(* (vault.py:147, 175-176).                                                *)
(***************************************************************************)
TypeOK ==
  /\ Typed
  /\ \A r \in Request : pc[r] = "flush" => Writes(r) \/ kind[r] = "decrypt"

Position(r) == CHOOSE i \in 1..Len(committed) : committed[i] = r

Applied(r) == \E i \in 1..Len(committed) : committed[i] = r

(***************************************************************************)
(* The client's answer tells the truth about the transaction: 200 only     *)
(* once it is applied, 404 and 409 only if it never is, and it is applied  *)
(* at most once (middlewares.py:33-39, dynamodb.py:163-183).               *)
(***************************************************************************)
AnswersAreTrue ==
  /\ \A r \in Request :
       /\ status[r] = "200" /\ (Writes(r) \/ kind[r] = "decrypt") => Applied(r)
       /\ status[r] \in {"none", "404", "409"} => ~Applied(r)
  /\ \A i, j \in 1..Len(committed) : committed[i] = committed[j] => i = j

Overwrites(q, r, f) ==
  /\ vault[q] = vault[r]
  /\ Applied(q) /\ Position(q) > Position(r)
  /\ \/ kind[q] = "delete"
     \/ kind[q] = "remove" /\ f \in names[q]
     \/ kind[q] = "update" /\ f \in Sealed(q)

(***************************************************************************)
(* No lost update: what an invocation sealed and the table took is there   *)
(* until a later transaction on the same vault replaces or removes it,     *)
(* however the reads of the two overlapped (vault.py:174-200).             *)
(***************************************************************************)
AppliedFieldsSurvive ==
  \A r \in Request : (Applied(r) /\ kind[r] \in {"create", "update"}) =>
    \A f \in Sealed(r) :
      stored[vault[r]][f] = r \/ \E q \in Request : Overwrites(q, r, f)

(***************************************************************************)
(* The stored ssn4 is never older than the ssn9 beside it                  *)
(* (encryptors.py:97-108).                                                 *)
(***************************************************************************)
Ssn4IsCurrent ==
  \A v \in Vault :
    (stored[v][Ssn9] # None /\ stored[v][Ssn4] # None)
      => Position(stored[v][Ssn4]) >= Position(stored[v][Ssn9])

DeletedBefore(r) ==
  \E i \in 1..since[r] : kind[committed[i]] = "delete" /\ vault[committed[i]] = vault[r]

(***************************************************************************)
(* A request whose read reflects the deletion of the vault neither         *)
(* decrypts nor updates it, even if an update that raced the deletion made *)
(* an item again (vault.py:189-192, 239-242).                              *)
(***************************************************************************)
DeletedStaysDeleted ==
  \A r \in Request :
    (status[r] = "200" /\ (kind[r] = "decrypt" \/ (kind[r] = "update" /\ names[r] # {})))
      => ~DeletedBefore(r)

(***************************************************************************)
(* What is stored of a vault after a transaction deleted it was stored by  *)
(* an update that had read the vault before that transaction and reached   *)
(* the table after it, whatever it was answered; a removal never brings    *)
(* anything back (vault.py:181-198, dynamodb.py:81-103).                   *)
(***************************************************************************)
RevivedOnlyByRace ==
  \A v \in Vault, f \in Field, i \in 1..Len(committed) :
    LET q == stored[v][f]
    IN (q # None /\ kind[committed[i]] = "delete" /\ vault[committed[i]] = v)
         => kind[q] = "update" /\ since[q] < i /\ i < Position(q)

(***************************************************************************)
(* No plaintext leaves without its audit record, unless a transaction on   *)
(* the same vault took the same microsecond (routers/vaults.py:180-192).   *)
(***************************************************************************)
DisclosuresAreLogged ==
  \A r \in Request : (kind[r] = "decrypt" /\ status[r] = "200") =>
    LET q == log[vault[r]][stamp[r]]
    IN q = r \/ (q # None /\ stamp[q] = stamp[r] /\ Position(q) > Position(r))

(***************************************************************************)
(* docs/user-guide.md:118: the request "will delete specific attributes or *)
(* the entire user vault": once the latter is answered no field is stored, *)
(* unless a request for the vault began after the deletion.                *)
(***************************************************************************)
DeletedVaultIsGone ==
  \A r \in Request : (kind[r] = "delete" /\ status[r] = "200") =>
    \/ \A f \in Field : stored[vault[r]][f] = None
    \/ \E q \in Request : /\ Begun(q) /\ vault[q] = vault[r]
                          /\ since[q] >= Position(r)
=============================================================================
