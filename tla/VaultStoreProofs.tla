--------------------------- MODULE VaultStoreProofs ---------------------------
(***************************************************************************)
(* Proofs about VaultStore, for any number of concurrent invocations, any  *)
(* vaults and fields and any request bodies:                               *)
(*   - the client's answer tells the truth about the transaction;          *)
(*   - no update that was applied is lost;                                 *)
(*   - ssn4 is never older than the ssn9 beside it;                        *)
(*   - every disclosed plaintext has its audit record;                     *)
(*   - a deleted vault is not used by whoever can see that it is deleted;  *)
(*   - only an update that raced its deletion revives a vault's fields.    *)
(***************************************************************************)
EXTENDS VaultStore, SequenceTheorems, TLAPS

-----------------------------------------------------------------------------
(* The inductive invariant.                                                *)

State == [record : Item, upto : Nat]

\* What is known of an invocation by where it is: one that is about to flush
\* has something to write, and what it applied it has answered for.
RequestInv ==
  \A r \in Request :
    /\ Begun(r) => kind[r] \in Kind /\ vault[r] \in Vault
    /\ status[r] = "none" <=> pc[r] # "done"
    /\ since[r] <= Len(committed)
    /\ pc[r] \in {"work", "flush"} => Writes(r) \/ kind[r] = "decrypt"
    /\ pc[r] = "work" => kind[r] \in {"update", "decrypt"}
    /\ kind[r] = "remove" \/ names[r] \subseteq Field
    /\ Applied(r) => status[r] \in {"200", "500"}

\* No transaction is applied twice.
AppliedOnce == \A i, j \in 1..Len(committed) : committed[i] = committed[j] => i = j

AnsweredInv ==
  \A r \in Request : status[r] = "200" /\ (Writes(r) \/ kind[r] = "decrypt") => Applied(r)

\* Who sealed a field or wrote a record has been applied.
StoredInv == \A v \in Vault, f \in Field : stored[v][f] # None => Applied(stored[v][f])
LogInv == \A v \in Vault, t \in 0..MaxClock : log[v][t] # None => Applied(log[v][t])

\* Nobody knows the id of a vault before its creation has answered.
CreatesAlone ==
  \A r, q \in Request :
    kind[r] = "create" /\ pc[r] = "flush" /\ Begun(q) /\ vault[q] = vault[r] => q = r

Deletes(i, v) == kind[committed[i]] = "delete" /\ vault[committed[i]] = v

HasKey(s) == s \cap Keys # {}

\* An item with a key has never been deleted, nor had it been when the
\* replica saw it or when a request that goes on read it.
NeverDeletedInv ==
  /\ \A v \in Vault : HasKey(record[v]) => \A i \in 1..Len(committed) : ~Deletes(i, v)
  /\ \A v \in Vault : HasKey(lagging[v].record) => \A i \in 1..lagging[v].upto : ~Deletes(i, v)
  /\ \A r \in Request :
       (pc[r] \in {"work", "flush"} /\ kind[r] \in {"update", "decrypt"}) => ~DeletedBefore(r)

TypeInv == Typed /\ lagging \in [Vault -> State]

IInv ==
  /\ TypeInv /\ RequestInv /\ AppliedOnce /\ AnsweredInv /\ StoredInv /\ LogInv
  /\ CreatesAlone /\ NeverDeletedInv
  /\ AppliedFieldsSurvive /\ Ssn4IsCurrent /\ DisclosuresAreLogged /\ DeletedStaysDeleted
  /\ RevivedOnlyByRace

-----------------------------------------------------------------------------
(* The steps, by what they do to the table and to the invocations.         *)

\* What the first step of every handler has in common.  A request that goes on
\* has found a vault in what it read, which took n transactions into account.
Arrives(r, k, v, body, n) ==
  /\ Accept(r, k, v, body, n)
  /\ k \in Kind /\ v \in Vault /\ n \in 0..Len(committed)
  /\ body \subseteq Field \cup Keys /\ (k = "remove" \/ body \subseteq Field)
  /\ IF k = "create" THEN FreshId(v) ELSE KnownId(v)
  /\ \/ /\ Buffered(r) /\ UNCHANGED status
        /\ k \in {"create", "delete"} \/ (k = "remove" /\ body # {})
     \/ Answer(r, "500") /\ UNCHANGED stamp
     \/ Answer(r, "404") /\ UNCHANGED stamp
     \/ Answer(r, "200") /\ UNCHANGED stamp /\ k \in {"update", "remove"} /\ body = {}
     \/ /\ pc' = [pc EXCEPT ![r] = "work"] /\ UNCHANGED <<status, stamp>>
        /\ k = "decrypt" \/ (k = "update" /\ body # {})
        /\ \E seen \in {Current(v), lagging[v]} : HasKey(seen.record) /\ seen.upto = n
  /\ UNCHANGED <<table, clock, lagging>>

ArrivesSomehow(r) == \E k, v, body, n : Arrives(r, k, v, body, n)

\* An error is answered and nothing is applied.
GivesUp(r) ==
  /\ pc[r] \in {"work", "flush"}
  /\ \E s \in {"409", "500"} : Answer(r, s)
  /\ UNCHANGED <<table, lagging, clock, input, stamp>>

\* The transaction is applied.
Commits(r) ==
  /\ pc[r] = "flush"
  /\ Apply(r)
  /\ \E s \in {"200", "500"} : Answer(r, s)
  /\ UNCHANGED <<lagging, clock, input, stamp>>

LEMMA HandleArrives ==
  ASSUME TypeInv, NEW r \in Request, Handle(r), UNCHANGED lagging
  PROVE  ArrivesSomehow(r)
<1> USE StoreAssumption DEF Kind
<1>1. Len(committed) \in 0..Len(committed)
  BY DEF TypeInv, Typed
<1>2. \A v \in Vault : \A seen \in {Current(v), lagging[v]} : seen.upto \in 0..Len(committed)
  BY <1>1 DEF TypeInv, Typed, State, Current
<1>3. CASE Create(r)
  <2>1. PICK v \in Vault, body \in Body :
          /\ FreshId(v) /\ Accept(r, "create", v, body, Len(committed))
          /\ \/ Buffered(r) /\ UNCHANGED status
             \/ Answer(r, "500") /\ UNCHANGED stamp
          /\ UNCHANGED <<table, clock>>
    BY <1>3 DEF Create
  <2>2. Arrives(r, "create", v, body, Len(committed))
    BY <1>1, <2>1 DEF Arrives
  <2> QED
    BY <2>2 DEF ArrivesSomehow
<1>4. CASE Delete(r)
  <2>1. PICK v \in Vault :
          /\ KnownId(v) /\ Accept(r, "delete", v, {}, Len(committed)) /\ Buffered(r)
          /\ UNCHANGED <<table, clock, status>>
    BY <1>4 DEF Delete
  <2>2. Arrives(r, "delete", v, {}, Len(committed))
    BY <1>1, <2>1 DEF Arrives
  <2> QED
    BY <2>2 DEF ArrivesSomehow
<1>5. CASE Remove(r)
  <2>1. PICK v \in Vault, body \in Removable :
          /\ KnownId(v) /\ Accept(r, "remove", v, body, Len(committed))
          /\ IF body = {} THEN Answer(r, "200") /\ UNCHANGED stamp
                          ELSE Buffered(r) /\ UNCHANGED status
          /\ UNCHANGED <<table, clock>>
    BY <1>5 DEF Remove
  <2>2. Arrives(r, "remove", v, body, Len(committed))
    BY <1>1, <2>1 DEF Arrives
  <2> QED
    BY <2>2 DEF ArrivesSomehow
<1>6. CASE Update(r)
  <2>1. PICK v \in Vault, body \in Body : \E seen \in {Current(v), lagging[v]} :
          /\ KnownId(v) /\ Accept(r, "update", v, body, seen.upto)
          /\ IF body = {} THEN Answer(r, "200") ELSE Read(r, seen.record, "_pk")
          /\ UNCHANGED <<table, clock, stamp>>
    BY <1>6 DEF Update
  <2>2. PICK seen \in {Current(v), lagging[v]} :
          /\ KnownId(v) /\ Accept(r, "update", v, body, seen.upto)
          /\ IF body = {} THEN Answer(r, "200") ELSE Read(r, seen.record, "_pk")
          /\ UNCHANGED <<table, clock, stamp>>
    BY <2>1
  <2>3. Arrives(r, "update", v, body, seen.upto)
    BY <1>2, <2>2 DEF Arrives, Read, HasKey, Keys
  <2> QED
    BY <2>3 DEF ArrivesSomehow
<1>7. CASE Decrypt(r)
  <2>1. PICK v \in Vault : \E seen \in {Current(v), lagging[v]} :
          /\ KnownId(v) /\ Accept(r, "decrypt", v, {}, seen.upto)
          /\ Read(r, seen.record, "_sk")
          /\ UNCHANGED <<table, clock, stamp>>
    BY <1>7 DEF Decrypt
  <2>2. PICK seen \in {Current(v), lagging[v]} :
          /\ KnownId(v) /\ Accept(r, "decrypt", v, {}, seen.upto)
          /\ Read(r, seen.record, "_sk")
          /\ UNCHANGED <<table, clock, stamp>>
    BY <2>1
  <2>3. Arrives(r, "decrypt", v, {}, seen.upto)
    BY <1>2, <2>2 DEF Arrives, Read, HasKey, Keys
  <2> QED
    BY <2>3 DEF ArrivesSomehow
<1> QED
  BY <1>3, <1>4, <1>5, <1>6, <1>7 DEF Handle

LEMMA Steps ==
  ASSUME TypeInv, Next
  PROVE  \/ Tick
         \/ \E v \in Vault : Replicate(v)
         \/ \E r \in Request :
              \/ ArrivesSomehow(r)
              \/ Work(r) /\ UNCHANGED lagging
              \/ GivesUp(r)
              \/ Commits(r)
<1>1. ASSUME NEW r \in Request, Step(r), UNCHANGED lagging
      PROVE  Work(r) \/ GivesUp(r) \/ Commits(r)
  BY <1>1 DEF Step, WorkFails, FlushOk, FlushConflict, FlushFails, Flush, GivesUp, Commits
<1> QED
  BY <1>1, HandleArrives DEF Next

\* What a request asks for does not change once it was accepted, and what is
\* done is done.
LEMMA Kept ==
  ASSUME TypeInv, Next, NEW q \in Request
  PROVE  /\ Begun(q) => /\ Begun(q)'
                        /\ kind'[q] = kind[q] /\ vault'[q] = vault[q]
                        /\ names'[q] = names[q] /\ since'[q] = since[q]
         /\ pc[q] = "done" => pc'[q] = "done" /\ status'[q] = status[q] /\ stamp'[q] = stamp[q]
<1> USE DEF TypeInv, Typed, Begun, input
<1>1. CASE Tick \/ \E v \in Vault : Replicate(v)
  BY <1>1 DEF Tick, Replicate
<1>2. ASSUME NEW r \in Request, ArrivesSomehow(r) PROVE r # q => pc'[q] = pc[q] /\ kind'[q] = kind[q]
         /\ vault'[q] = vault[q] /\ names'[q] = names[q] /\ since'[q] = since[q]
         /\ status'[q] = status[q] /\ stamp'[q] = stamp[q]
  BY <1>2 DEF ArrivesSomehow, Arrives, Accept, Answer, Buffered
<1>3. ASSUME NEW r \in Request, ArrivesSomehow(r) PROVE ~Begun(r)
  BY <1>3 DEF ArrivesSomehow, Arrives, Accept
<1>4. ASSUME NEW r \in Request, Work(r) \/ GivesUp(r) \/ Commits(r)
      PROVE  /\ UNCHANGED input /\ pc[r] # "done" /\ pc'[r] # "idle"
             /\ r # q => pc'[q] = pc[q] /\ status'[q] = status[q] /\ stamp'[q] = stamp[q]
  BY <1>4 DEF Work, GivesUp, Commits, Answer, Buffered
<1> QED
  BY <1>1, <1>2, <1>3, <1>4, Steps

\* Where each transaction is in the order of commits, when another is applied.
LEMMA CommitPositions ==
  ASSUME TypeInv, AppliedOnce, NEW r \in Request, Commits(r), ~Applied(r)
  PROVE  /\ Len(committed') = Len(committed) + 1
         /\ \A i \in 1..Len(committed) : committed'[i] = committed[i]
         /\ committed'[Len(committed) + 1] = r
         /\ AppliedOnce'
         /\ \A q : Applied(q)' <=> Applied(q) \/ q = r
         /\ Position(r)' = Len(committed) + 1
         /\ \A q : Applied(q) => Position(q)' = Position(q) /\ Position(q) \in 1..Len(committed)
<1>1. /\ Len(committed') = Len(committed) + 1 /\ Len(committed) \in Nat
      /\ \A i \in 1..Len(committed) : committed'[i] = committed[i]
      /\ committed'[Len(committed) + 1] = r
  BY AppendProperties DEF Commits, Apply, TypeInv, Typed
<1>2. \A q : Applied(q)' <=> Applied(q) \/ q = r
  <2>1. ASSUME NEW q, Applied(q)', q # r PROVE Applied(q)
    <3>1. PICK i \in 1..Len(committed') : committed'[i] = q
      BY <2>1 DEF Applied
    <3> QED
      BY <1>1, <2>1, <3>1 DEF Applied
  <2>2. ASSUME NEW q, Applied(q) \/ q = r PROVE Applied(q)'
    BY <1>1, <2>2 DEF Applied
  <2> QED
    BY <2>1, <2>2
<1>3. AppliedOnce'
  BY <1>1 DEF AppliedOnce, Applied
<1>4. Position(r)' = Len(committed) + 1
  BY <1>1, <1>3 DEF AppliedOnce, Position
<1>5. ASSUME NEW q, Applied(q)
      PROVE  Position(q)' = Position(q) /\ Position(q) \in 1..Len(committed)
  <2>1. PICK i \in 1..Len(committed) : committed[i] = q
    BY <1>5 DEF Applied
  <2>2. Position(q) = i
    BY <2>1 DEF Position, AppliedOnce
  <2>3. i \in 1..Len(committed') /\ committed'[i] = q
    BY <1>1, <2>1
  <2>4. Position(q)' = i
    BY <1>3, <2>3 DEF Position, AppliedOnce
  <2> QED
    BY <2>2, <2>4
<1> QED
  BY <1>1, <1>2, <1>3, <1>4, <1>5

LEMMA InitIInv == Init => IInv
<1> SUFFICES ASSUME Init PROVE IInv
  OBVIOUS
<1> USE StoreAssumption DEF Init
<1>1. committed = << >> /\ Len(committed) = 0
  OBVIOUS
<1>2. \A r : ~Applied(r)
  BY <1>1 DEF Applied
<1>3. TypeInv
  <2>1. record \in [Vault -> Item]
    BY DEF Item, Absent
  <2> QED
    BY <1>1, <2>1 DEF TypeInv, Typed, State, Current
<1>4. RequestInv /\ AppliedOnce /\ AnsweredInv /\ StoredInv /\ LogInv
  BY <1>1, <1>2 DEF RequestInv, AppliedOnce, AnsweredInv, StoredInv, LogInv, Begun
<1>5. CreatesAlone /\ NeverDeletedInv
  BY <1>1 DEF CreatesAlone, NeverDeletedInv, Current
<1>6. RevivedOnlyByRace
  BY <1>1 DEF RevivedOnlyByRace
<1>7. AppliedFieldsSurvive /\ Ssn4IsCurrent /\ DisclosuresAreLogged /\ DeletedStaysDeleted
  BY <1>2 DEF AppliedFieldsSurvive, Ssn4IsCurrent, DisclosuresAreLogged, DeletedStaysDeleted
<1> QED
  BY <1>3, <1>4, <1>5, <1>6, <1>7 DEF IInv

\* What each operation makes of an item's fields.
LEMMA NewItem ==
  ASSUME NEW r
  PROVE  /\ kind[r] \in {"create", "update"} => NewStored(r) =
              [f \in Field |-> IF f \in Sealed(r) THEN r ELSE stored[vault[r]][f]]
         /\ kind[r] = "remove" => NewStored(r) =
              [f \in Field |-> IF f \in names[r] THEN None ELSE stored[vault[r]][f]]
         /\ kind[r] = "delete" => NewStored(r) = [f \in Field |-> None]
         /\ kind[r] = "decrypt" => NewStored(r) = stored[vault[r]]
<1>1. CASE kind[r] = "create"
  BY <1>1 DEF NewStored
<1>2. CASE kind[r] = "update"
  BY <1>2 DEF NewStored
<1>3. CASE kind[r] = "remove"
  BY <1>3 DEF NewStored
<1>4. CASE kind[r] = "delete"
  BY <1>4 DEF NewStored
<1>5. CASE kind[r] = "decrypt"
  BY <1>5 DEF NewStored
<1> QED
  BY <1>1, <1>2, <1>3, <1>4, <1>5

\* What each operation makes of an item's other attributes: only a deletion
\* takes the item away, and only a creation gives it a key.
LEMMA NewAttributes ==
  ASSUME NEW r, kind[r] \in Kind, record[vault[r]] \in Item
  PROVE  /\ NewRecord(r) \in Item
         /\ NewRecord(r) = Absent =>
              kind[r] = "delete" \/ (kind[r] = "decrypt" /\ record[vault[r]] = Absent)
         /\ HasKey(NewRecord(r)) =>
              kind[r] = "create" \/ (kind[r] # "delete" /\ HasKey(record[vault[r]]))
<1> DEFINE s == record[vault[r]]
<1> USE DEF HasKey, Attribute, Item, Absent, Keys, Upserted
<1>1. CASE kind[r] = "create"
  <2>1. NewRecord(r) = Attribute
    BY <1>1 DEF NewRecord
  <2> QED
    BY <1>1, <2>1
<1>2. CASE kind[r] = "update"
  <2>1. NewRecord(r) = s \cup {"primary"}
    BY <1>2 DEF NewRecord
  <2> QED
    BY <1>2, <2>1
<1>3. CASE kind[r] = "remove"
  <2>1. NewRecord(r) = (s \ names[r]) \cup {"primary"}
    BY <1>3 DEF NewRecord
  <2> QED
    BY <1>3, <2>1
<1>4. CASE kind[r] = "delete"
  <2>1. NewRecord(r) = Absent
    BY <1>4 DEF NewRecord
  <2> QED
    BY <1>4, <2>1
<1>5. CASE kind[r] = "decrypt"
  <2>1. NewRecord(r) = s
    BY <1>5 DEF NewRecord
  <2> QED
    BY <1>5, <2>1
<1> QED
  BY <1>1, <1>2, <1>3, <1>4, <1>5 DEF Kind

\* What a transaction makes of an item is an item, and one that is absent has
\* no fields.
LEMMA NewItemTyped ==
  ASSUME TypeInv, RequestInv, NEW r \in Request, pc[r] = "flush"
  PROVE  /\ vault[r] \in Vault
         /\ NewRecord(r) \in Item
         /\ NewStored(r) \in [Field -> Request \cup {None}]
         /\ NewRecord(r) = Absent => \A f \in Field : NewStored(r)[f] = None
<1>1. vault[r] \in Vault /\ kind[r] \in Kind
  BY DEF RequestInv, Begun
<1>2. /\ record[vault[r]] \in Item
      /\ stored[vault[r]] \in [Field -> Request \cup {None}]
      /\ record[vault[r]] = Absent => \A f \in Field : stored[vault[r]][f] = None
  BY <1>1 DEF TypeInv, Typed
<1>3. NewStored(r) \in [Field -> Request \cup {None}]
  BY <1>1, <1>2, NewItem DEF Kind
<1>4. NewRecord(r) \in Item
  BY <1>1, <1>2, NewAttributes
<1>5. ASSUME NewRecord(r) = Absent, NEW f \in Field PROVE NewStored(r)[f] = None
  <2>1. kind[r] = "delete" \/ (kind[r] = "decrypt" /\ record[vault[r]] = Absent)
    BY <1>1, <1>2, <1>5, NewAttributes
  <2> QED
    BY <1>2, <1>5, <2>1, NewItem
<1> QED
  BY <1>1, <1>3, <1>4, <1>5

LEMMA TypeStep ==
  ASSUME TypeInv, RequestInv, Next
  PROVE  TypeInv'
<1> USE StoreAssumption DEF TypeInv, Typed, table, input
<1>1. CASE Tick
  BY <1>1 DEF Tick
<1>2. ASSUME NEW v \in Vault, Replicate(v) PROVE TypeInv'
  <2>1. Current(v) \in State /\ Current(v).upto = Len(committed)
    BY DEF Current, State
  <2>2. lagging' \in [Vault -> State] /\ \A u \in Vault : lagging'[u].upto <= Len(committed)
    BY <1>2, <2>1 DEF Replicate
  <2> QED
    BY <1>2, <2>2 DEF Replicate
<1>3. ASSUME NEW r \in Request, ArrivesSomehow(r) PROVE TypeInv'
  <2>1. PICK k, v, body, n : Arrives(r, k, v, body, n)
    BY <1>3 DEF ArrivesSomehow
  <2>2. /\ kind' \in [Request -> Kind \cup {"none"}] /\ vault' \in [Request -> Vault \cup {None}]
        /\ names' \in [Request -> SUBSET (Field \cup Keys)] /\ since' \in [Request -> Nat]
    BY <2>1 DEF Arrives, Accept
  <2>3. pc' \in [Request -> {"idle", "work", "flush", "done"}]
    BY <2>1 DEF Arrives, Answer, Buffered
  <2>4. stamp' \in [Request -> 0..MaxClock]
    BY <2>1 DEF Arrives, Answer, Buffered
  <2>5. status' \in [Request -> {"none", "200", "404", "409", "500"}]
    BY <2>1 DEF Arrives, Answer, Buffered
  <2> QED
    BY <2>1, <2>2, <2>3, <2>4, <2>5 DEF Arrives
<1>4. ASSUME NEW r \in Request, Work(r), UNCHANGED lagging PROVE TypeInv'
  BY <1>4 DEF Work, Buffered
<1>5. ASSUME NEW r \in Request, GivesUp(r) PROVE TypeInv'
  BY <1>5 DEF GivesUp, Answer
<1>6. ASSUME NEW r \in Request, Commits(r) PROVE TypeInv'
  <2>1. pc' \in [Request -> {"idle", "work", "flush", "done"}]
        /\ status' \in [Request -> {"none", "200", "404", "409", "500"}]
    BY <1>6 DEF Commits, Answer
  <2>2. committed' \in Seq(Request) /\ Len(committed') = Len(committed) + 1
    BY <1>6, AppendProperties DEF Commits, Apply
  <2>3. /\ record' \in [Vault -> Item]
        /\ stored' \in [Vault -> [Field -> Request \cup {None}]]
        /\ \A v \in Vault : record'[v] = Absent => \A f \in Field : stored'[v][f] = None
    BY <1>6, NewItemTyped DEF Commits, Apply
  <2>4. log' \in [Vault -> [0..MaxClock -> Request \cup {None}]]
    <3>1. log[vault[r]] \in [0..MaxClock -> Request \cup {None}] /\ stamp[r] \in 0..MaxClock
      BY <1>6, NewItemTyped DEF Commits
    <3>2. [log[vault[r]] EXCEPT ![stamp[r]] = r] \in [0..MaxClock -> Request \cup {None}]
      BY <3>1
    <3> QED
      BY <1>6, <3>2 DEF Commits, Apply
  <2>5. \A v \in Vault : lagging[v].upto \in Nat
    BY DEF State
  <2> QED
    BY <1>6, <2>1, <2>2, <2>3, <2>4, <2>5 DEF Commits
<1> QED
  BY <1>1, <1>2, <1>3, <1>4, <1>5, <1>6, Steps

LEMMA RequestStep ==
  ASSUME TypeInv, RequestInv, AppliedOnce, AnsweredInv, Next
  PROVE  RequestInv' /\ AppliedOnce' /\ AnsweredInv'
<1> USE StoreAssumption DEF TypeInv, Typed, RequestInv, AnsweredInv, Begun, table, input
<1>1. CASE Tick \/ \E v \in Vault : Replicate(v)
  <2>1. UNCHANGED <<committed, pc, kind, vault, names, since, status>>
    BY <1>1 DEF Tick, Replicate
  <2>2. \A q : Applied(q)' = Applied(q) /\ Writes(q)' = Writes(q)
    BY <2>1 DEF Applied, Writes
  <2> QED
    BY <2>1, <2>2 DEF AppliedOnce
<1>2. ASSUME NEW r \in Request, ArrivesSomehow(r)
      PROVE  RequestInv' /\ AppliedOnce' /\ AnsweredInv'
  <2>1. PICK k, v, body, n : Arrives(r, k, v, body, n)
    BY <1>2 DEF ArrivesSomehow
  <2>2. pc[r] = "idle" /\ ~Applied(r)
    BY <2>1 DEF Arrives, Accept
  <2>3. committed' = committed /\ \A q : Applied(q)' = Applied(q)
    BY <2>1 DEF Arrives, Applied
  <2>4. \A q \in Request \ {r} : /\ pc'[q] = pc[q] /\ kind'[q] = kind[q] /\ vault'[q] = vault[q]
                                 /\ names'[q] = names[q] /\ since'[q] = since[q]
                                 /\ status'[q] = status[q]
    BY <2>1 DEF Arrives, Accept, Answer, Buffered
  <2>5. kind'[r] = k /\ vault'[r] = v /\ names'[r] = body /\ since'[r] = n
    BY <2>1 DEF Arrives, Accept
  <2>6. /\ status'[r] = "none" <=> pc'[r] # "done"
        /\ pc'[r] \in {"work", "flush"} => Writes(r)' \/ kind'[r] = "decrypt"
        /\ pc'[r] = "work" => kind'[r] \in {"update", "decrypt"}
        /\ status'[r] = "200" => ~(Writes(r)' \/ kind'[r] = "decrypt")
    BY <2>1, <2>2, <2>5 DEF Arrives, Answer, Buffered, Writes
  <2>7. \A q \in Request \ {r} : Writes(q)' = Writes(q)
    BY <2>4 DEF Writes
  <2>8. /\ k \in Kind /\ v \in Vault /\ n <= Len(committed)
        /\ k = "remove" \/ body \subseteq Field
    BY <2>1 DEF Arrives
  <2>9. ASSUME NEW q \in Request \ {r} PROVE RequestInv!(q)' /\ AnsweredInv!(q)'
    BY <2>3, <2>4, <2>7
  <2>10. RequestInv!(r)' /\ AnsweredInv!(r)'
    BY <2>2, <2>3, <2>5, <2>6, <2>8
  <2> QED
    BY <2>3, <2>9, <2>10 DEF AppliedOnce
<1>3. ASSUME NEW r \in Request, Work(r) PROVE RequestInv' /\ AppliedOnce' /\ AnsweredInv'
  <2>1. \A q : Applied(q)' = Applied(q) /\ Writes(q)' = Writes(q)
    BY <1>3 DEF Work, Applied, Writes
  <2>2. pc[r] = "work" /\ pc' = [pc EXCEPT ![r] = "flush"] /\ UNCHANGED <<committed, input, status>>
    BY <1>3 DEF Work, Buffered
  <2> QED
    BY <2>1, <2>2 DEF AppliedOnce
<1>4. ASSUME NEW r \in Request, GivesUp(r) PROVE RequestInv' /\ AppliedOnce' /\ AnsweredInv'
  <2>1. ~Applied(r) /\ \A q : Applied(q)' = Applied(q) /\ Writes(q)' = Writes(q)
    BY <1>4 DEF GivesUp, Applied, Writes
  <2>2. PICK s \in {"409", "500"} : Answer(r, s)
    BY <1>4 DEF GivesUp
  <2> QED
    BY <1>4, <2>1, <2>2 DEF GivesUp, Answer, AppliedOnce
<1>5. ASSUME NEW r \in Request, Commits(r) PROVE RequestInv' /\ AppliedOnce' /\ AnsweredInv'
  <2>1. ~Applied(r)
    BY <1>5 DEF Commits
  <2>2. PICK s \in {"200", "500"} : Answer(r, s)
    BY <1>5 DEF Commits
  <2>3. \A q : Applied(q)' <=> Applied(q) \/ q = r
    BY <1>5, <2>1, CommitPositions
  <2>4. Len(committed') = Len(committed) + 1 /\ AppliedOnce' /\ \A q : Writes(q)' = Writes(q)
    BY <1>5, <2>1, CommitPositions DEF Commits, Writes
  <2> QED
    BY <1>5, <2>2, <2>3, <2>4 DEF Commits, Answer
<1> QED
  BY <1>1, <1>2, <1>3, <1>4, <1>5, Steps

-----------------------------------------------------------------------------
(* What a step does to the table.                                          *)

LEMMA TableSteps ==
  ASSUME TypeInv, Next
  PROVE  UNCHANGED table \/ \E r \in Request : Commits(r)
BY Steps DEF Tick, Replicate, ArrivesSomehow, Arrives, Work, GivesUp

\* A transaction changes one item and one place of its log, and is applied for
\* the first time.
LEMMA CommitEffect ==
  ASSUME TypeInv, RequestInv, NEW r \in Request, Commits(r)
  PROVE  /\ ~Applied(r) /\ vault[r] \in Vault /\ kind[r] \in Kind /\ stamp[r] \in 0..MaxClock
         /\ UNCHANGED <<kind, vault, names, since, stamp>>
         /\ \A v \in Vault :
              /\ record'[v] = IF v = vault[r] THEN NewRecord(r) ELSE record[v]
              /\ stored'[v] = IF v = vault[r] THEN NewStored(r) ELSE stored[v]
              /\ \A t \in 0..MaxClock :
                   log'[v][t] = IF v = vault[r] /\ t = stamp[r] THEN r ELSE log[v][t]
<1>1. vault[r] \in Vault /\ kind[r] \in Kind /\ ~Applied(r)
  BY DEF RequestInv, Begun, Commits
<1>2. UNCHANGED <<kind, vault, names, since, stamp>>
  BY DEF Commits, input
<1>3. \A v \in Vault : log[v] \in [0..MaxClock -> Request \cup {None}]
  BY DEF TypeInv, Typed
<1> QED
  BY <1>1, <1>2, <1>3 DEF Commits, Apply, TypeInv, Typed

\* A field that a transaction writes gets its invocation's value or none.
LEMMA CommitStores ==
  ASSUME TypeInv, RequestInv, NEW r \in Request, Commits(r), NEW v \in Vault, NEW f \in Field
  PROVE  stored'[v][f] \in {r, None, stored[v][f]}
<1>1. CASE v # vault[r]
  BY <1>1, CommitEffect
<1>2. CASE v = vault[r]
  <2>1. stored'[v] = NewStored(r) /\ kind[r] \in Kind
    BY <1>2, CommitEffect
  <2> QED
    BY <1>2, <2>1, NewItem DEF Kind
<1> QED
  BY <1>1, <1>2

LEMMA StoredStep ==
  ASSUME TypeInv, RequestInv, AppliedOnce, StoredInv, LogInv, Next
  PROVE  StoredInv' /\ LogInv'
<1>1. CASE UNCHANGED table
  BY <1>1 DEF table, StoredInv, LogInv, Applied
<1>2. ASSUME NEW r \in Request, Commits(r) PROVE StoredInv' /\ LogInv'
  <2>1. \A q : Applied(q) \/ q = r => Applied(q)'
    BY <1>2, CommitEffect, CommitPositions
  <2>2. StoredInv'
    BY <1>2, <2>1, CommitStores DEF StoredInv
  <2>3. LogInv'
    BY <1>2, <2>1, CommitEffect DEF LogInv
  <2> QED
    BY <2>2, <2>3
<1> QED
  BY <1>1, <1>2, TableSteps

\* A vault's id is known only once its creation has answered.
LEMMA CreatesStep ==
  ASSUME TypeInv, RequestInv, CreatesAlone, Next
  PROVE  CreatesAlone'
<1> SUFFICES ASSUME NEW r \in Request, NEW q \in Request,
                    kind'[r] = "create", pc'[r] = "flush", Begun(q)', vault'[q] = vault'[r]
             PROVE  q = r
  BY DEF CreatesAlone
<1>1. ASSUME NEW p \in Request, ArrivesSomehow(p) PROVE q = r
  <2>1. PICK k, v, body, n : Arrives(p, k, v, body, n)
    BY <1>1 DEF ArrivesSomehow
  <2>2. \A o \in Request \ {p} : pc'[o] = pc[o] /\ kind'[o] = kind[o] /\ vault'[o] = vault[o]
    BY <2>1 DEF Arrives, Accept, Answer, Buffered, TypeInv, Typed
  <2>3. kind'[p] = k /\ vault'[p] = v
    BY <2>1 DEF Arrives, Accept, TypeInv, Typed
  <2>4. CASE r # p /\ q # p
    BY <2>2, <2>4 DEF CreatesAlone, Begun
  <2>5. CASE r = p /\ q # p
    BY <2>1, <2>2, <2>3, <2>5 DEF Arrives, FreshId, Begun
  <2>6. CASE r # p /\ q = p
    <3>1. Begun(r) /\ kind[r] = "create" /\ vault[r] = v /\ pc[r] # "done"
      BY <2>2, <2>3, <2>6 DEF Begun
    <3> QED
      BY <2>1, <3>1 DEF Arrives, FreshId, KnownId
  <2> QED
    BY <2>4, <2>5, <2>6
<1>2. CASE UNCHANGED input /\ \A o \in Request : /\ Begun(o)' => Begun(o)
                                                 /\ pc'[o] = "flush" => pc[o] = "flush" \/ kind[o] # "create"
  BY <1>2 DEF input, CreatesAlone
<1>3. CASE Tick \/ \E v \in Vault : Replicate(v)
  BY <1>2, <1>3 DEF Tick, Replicate, Begun
<1>4. ASSUME NEW p \in Request, Work(p) \/ GivesUp(p) \/ Commits(p) PROVE q = r
  <2>1. UNCHANGED input /\ pc[p] # "idle"
    BY <1>4 DEF Work, GivesUp, Commits
  <2>2. pc[p] = "work" => kind[p] # "create"
    BY DEF RequestInv
  <2>3. \E s \in {"flush", "done"} : pc' = [pc EXCEPT ![p] = s] /\ (s = "flush" => pc[p] = "work")
    BY <1>4 DEF Work, GivesUp, Commits, Answer, Buffered
  <2>4. \A o \in Request : /\ Begun(o)' => Begun(o)
                           /\ pc'[o] = "flush" => pc[o] = "flush" \/ kind[o] # "create"
    BY <2>1, <2>2, <2>3 DEF Begun, TypeInv, Typed
  <2> QED
    BY <1>2, <2>1, <2>4
<1> QED
  BY <1>1, <1>3, <1>4, Steps

\* The order of commits only grows, and what an applied transaction did stays.
LEMMA AppliedKept ==
  ASSUME TypeInv, RequestInv, AppliedOnce, Next, NEW q, Applied(q)
  PROVE  /\ q \in Request /\ kind'[q] = kind[q] /\ vault'[q] = vault[q] /\ names'[q] = names[q]
         /\ stamp'[q] = stamp[q]
         /\ Applied(q)' /\ Position(q)' = Position(q) /\ Position(q) \in 1..Len(committed)
<1>1. q \in Request
  BY DEF Applied, TypeInv, Typed
<1>2. pc[q] = "done" /\ Begun(q)
  BY <1>1 DEF RequestInv, Begun
<1>3. Position(q) \in 1..Len(committed)
  BY DEF Applied, Position
<1>4. CASE UNCHANGED table
  BY <1>1, <1>2, <1>3, <1>4, Kept DEF table, Applied, Position
<1>5. ASSUME NEW r \in Request, Commits(r)
      PROVE  Applied(q)' /\ Position(q)' = Position(q)
  BY <1>5, CommitEffect, CommitPositions
<1> QED
  BY <1>1, <1>2, <1>3, <1>4, <1>5, Kept, TableSteps

LEMMA Grows ==
  ASSUME TypeInv, RequestInv, AppliedOnce, Next
  PROVE  /\ Len(committed) \in Nat /\ Len(committed') \in {Len(committed), Len(committed) + 1}
         /\ \A i \in 1..Len(committed) : /\ committed'[i] = committed[i]
                                         /\ kind'[committed'[i]] = kind[committed[i]]
                                         /\ vault'[committed'[i]] = vault[committed[i]]
                                         /\ \A v : Deletes(i, v)' <=> Deletes(i, v)
<1>1. Len(committed) \in Nat
  BY DEF TypeInv, Typed
<1>2. ASSUME NEW r \in Request, Commits(r)
      PROVE  /\ Len(committed') = Len(committed) + 1
             /\ \A i \in 1..Len(committed) : committed'[i] = committed[i]
  BY <1>2, CommitEffect, CommitPositions
<1>3. /\ Len(committed') \in {Len(committed), Len(committed) + 1}
      /\ \A i \in 1..Len(committed) : committed'[i] = committed[i]
  BY <1>2, TableSteps DEF table
<1>4. \A i \in 1..Len(committed) : Applied(committed[i])
  BY DEF Applied
<1>5. ASSUME NEW i \in 1..Len(committed)
      PROVE  /\ kind'[committed'[i]] = kind[committed[i]]
             /\ vault'[committed'[i]] = vault[committed[i]]
  BY <1>3, <1>4, AppliedKept
<1>6. ASSUME NEW i \in 1..Len(committed), NEW v PROVE Deletes(i, v)' <=> Deletes(i, v)
  BY <1>5 DEF Deletes
<1> QED
  BY <1>1, <1>3, <1>5, <1>6

\* A create that is applied is the first transaction on its vault.
LEMMA CreatesFirst ==
  ASSUME TypeInv, RequestInv, CreatesAlone, NEW r \in Request, Commits(r), kind[r] = "create",
         NEW q, Applied(q)
  PROVE  vault[q] # vault[r]
<1>1. q \in Request
  BY DEF Applied, TypeInv, Typed
<1>2. Begun(q) /\ ~Applied(r) /\ pc[r] = "flush"
  BY <1>1, CommitEffect DEF RequestInv, Begun, Commits
<1> QED
  BY <1>1, <1>2 DEF CreatesAlone

LEMMA NeverDeletedStep ==
  ASSUME TypeInv, RequestInv, AppliedOnce, CreatesAlone, NeverDeletedInv, Next
  PROVE  NeverDeletedInv'
<1>1. ASSUME NEW v \in Vault, HasKey(record'[v]), NEW i \in 1..Len(committed')
      PROVE  ~Deletes(i, v)'
  <2>1. CASE UNCHANGED table
    BY <1>1, <2>1, Grows DEF table, NeverDeletedInv
  <2>2. ASSUME NEW r \in Request, Commits(r) PROVE ~Deletes(i, v)'
    <3>1. /\ Len(committed) \in Nat /\ Len(committed') = Len(committed) + 1
          /\ committed'[Len(committed) + 1] = r
          /\ kind'[r] = kind[r] /\ vault'[r] = vault[r]
      BY <2>2, CommitEffect, CommitPositions, Grows
    <3>2. v = vault[r] => record'[v] = NewRecord(r) /\ kind[r] \in Kind
      BY <2>2, CommitEffect
    <3>3. v = vault[r] =>
            kind[r] = "create" \/ (kind[r] # "delete" /\ HasKey(record[v]))
      <4>1. record[v] \in Item
        BY DEF TypeInv, Typed
      <4> QED
        BY <1>1, <3>2, <4>1, NewAttributes
    <3>4. CASE i = Len(committed) + 1
      BY <3>1, <3>3, <3>4 DEF Deletes
    <3>5. CASE i \in 1..Len(committed)
      <4>1. CASE v = vault[r] /\ kind[r] = "create"
        <5>1. Applied(committed[i])
          BY <3>5 DEF Applied
        <5>2. vault[committed[i]] # v
          BY <2>2, <4>1, <5>1, CreatesFirst
        <5> QED
          BY <3>5, <5>2, Grows DEF Deletes
      <4>2. CASE ~(v = vault[r] /\ kind[r] = "create")
        <5>1. HasKey(record[v])
          BY <1>1, <2>2, <3>3, <4>2, CommitEffect
        <5> QED
          BY <3>5, <5>1, Grows DEF NeverDeletedInv
      <4> QED
        BY <4>1, <4>2
    <3> QED
      BY <3>1, <3>4, <3>5
  <2> QED
    BY <2>1, <2>2, TableSteps
<1>2. ASSUME NEW v \in Vault, HasKey(lagging'[v].record), NEW i \in 1..lagging'[v].upto
      PROVE  ~Deletes(i, v)'
  <2>1. CASE lagging'[v] = lagging[v]
    <3>1. i \in 1..lagging[v].upto /\ i \in 1..Len(committed)
      BY <1>2, <2>1, Grows DEF TypeInv, Typed, State
    <3> QED
      BY <1>2, <2>1, <3>1, Grows DEF NeverDeletedInv
  <2>2. CASE lagging'[v] = Current(v)
    <3>1. i \in 1..Len(committed) /\ HasKey(record[v])
      BY <1>2, <2>2 DEF Current
    <3> QED
      BY <3>1, Grows DEF NeverDeletedInv
  <2>3. UNCHANGED lagging \/ \E u \in Vault : lagging' = [lagging EXCEPT ![u] = Current(u)]
    BY Steps DEF Tick, Replicate, ArrivesSomehow, Arrives, GivesUp, Commits
  <2> QED
    BY <2>1, <2>2, <2>3 DEF TypeInv
<1>3. ASSUME NEW q \in Request, pc'[q] \in {"work", "flush"}, kind'[q] \in {"update", "decrypt"},
             NEW i \in 1..since'[q]
      PROVE  ~(kind'[committed'[i]] = "delete" /\ vault'[committed'[i]] = vault'[q])
  <2>1. CASE Begun(q) /\ pc[q] \in {"work", "flush"}
    <3>1. kind'[q] = kind[q] /\ vault'[q] = vault[q] /\ since'[q] = since[q]
      BY <2>1, Kept
    <3>2. i \in 1..since[q] /\ i \in 1..Len(committed) /\ kind[q] \in {"update", "decrypt"}
      BY <1>3, <3>1, Grows DEF TypeInv, Typed, RequestInv
    <3>3. ~Deletes(i, vault[q])
      BY <2>1, <3>2 DEF NeverDeletedInv, DeletedBefore, Deletes
    <3> QED
      BY <3>1, <3>2, <3>3, Grows DEF Deletes
  <2>2. CASE ~Begun(q) /\ ArrivesSomehow(q)
    <3>1. PICK k, v, body, n : Arrives(q, k, v, body, n)
      BY <2>2 DEF ArrivesSomehow
    <3>2. kind'[q] = k /\ vault'[q] = v /\ since'[q] = n /\ v \in Vault
      BY <3>1 DEF Arrives, Accept, TypeInv, Typed
    <3>3. PICK seen \in {Current(v), lagging[v]} : HasKey(seen.record) /\ seen.upto = n
      <4>1. pc'[q] = "flush" => k \in {"create", "delete", "remove"}
        BY <1>3, <3>1 DEF Arrives, Answer, Buffered, TypeInv, Typed
      <4>2. pc'[q] = "work"
        BY <1>3, <3>2, <4>1
      <4>3. ~Buffered(q) /\ \A a : ~Answer(q, a)
        BY <4>2 DEF Answer, Buffered, TypeInv, Typed
      <4> QED
        BY <3>1, <4>3 DEF Arrives
    <3>4. i \in 1..Len(committed) /\ ~Deletes(i, v)
      <4>1. CASE seen = Current(v)
        <5>1. HasKey(record[v]) /\ n = Len(committed)
          BY <3>3, <4>1 DEF Current
        <5> QED
          BY <1>3, <3>2, <5>1 DEF NeverDeletedInv
      <4>2. CASE seen = lagging[v]
        <5>1. i \in 1..n /\ n \in Nat /\ n <= Len(committed) /\ Len(committed) \in Nat
          BY <1>3, <3>2, <3>3, <4>2, Grows DEF TypeInv, Typed, State
        <5> QED
          BY <3>2, <3>3, <4>2, <5>1 DEF NeverDeletedInv
      <4> QED
        BY <3>3, <4>1, <4>2
    <3> QED
      BY <3>2, <3>4, Grows DEF Deletes
  <2>3. pc'[q] = pc[q] \/ (pc[q] = "work" /\ pc'[q] = "flush") \/ (~Begun(q) /\ ArrivesSomehow(q))
    <3>1. ASSUME NEW r \in Request, ArrivesSomehow(r)
          PROVE  ~Begun(r) /\ (r # q => pc'[q] = pc[q])
      BY <3>1 DEF ArrivesSomehow, Arrives, Accept, Answer, Buffered, Begun, TypeInv, Typed
    <3>2. ASSUME NEW r \in Request, Work(r) \/ GivesUp(r) \/ Commits(r)
          PROVE  pc'[q] = pc[q] \/ (pc[q] = "work" /\ pc'[q] = "flush")
      BY <1>3, <3>2 DEF Work, GivesUp, Commits, Answer, Buffered, TypeInv, Typed
    <3> QED
      BY <3>1, <3>2, Steps DEF Tick, Replicate
  <2> QED
    BY <1>3, <2>1, <2>2, <2>3 DEF Begun
<1>4. \A q \in Request : (pc'[q] \in {"work", "flush"} /\ kind'[q] \in {"update", "decrypt"})
                           => ~DeletedBefore(q)'
  <2> SUFFICES ASSUME NEW q \in Request, NEW i \in 1..since'[q],
                      pc'[q] \in {"work", "flush"}, kind'[q] \in {"update", "decrypt"}
               PROVE  ~(kind'[committed'[i]] = "delete" /\ vault'[committed'[i]] = vault'[q])
    BY DEF DeletedBefore
  <2> QED
    BY <1>3
<1> QED
  BY <1>1, <1>2, <1>4 DEF NeverDeletedInv

-----------------------------------------------------------------------------
(* No update is lost.                                                      *)

\* What was replaced stays replaced.
LEMMA OverwritesKept ==
  ASSUME TypeInv, RequestInv, AppliedOnce, Next,
         NEW q, NEW r, NEW f, Applied(r), Overwrites(q, r, f)
  PROVE  Overwrites(q, r, f)'
<1>1. Applied(q)
  BY DEF Overwrites
<1>2. /\ kind'[q] = kind[q] /\ vault'[q] = vault[q] /\ names'[q] = names[q]
      /\ vault'[r] = vault[r] /\ Applied(q)'
      /\ Position(q)' = Position(q) /\ Position(r)' = Position(r)
  BY <1>1, AppliedKept
<1>3. Sealed(q)' = Sealed(q)
  BY <1>2 DEF Sealed
<1> QED
  BY <1>2, <1>3 DEF Overwrites

LEMMA FieldsStep ==
  ASSUME TypeInv, RequestInv, AppliedOnce, CreatesAlone, AppliedFieldsSurvive, Next
  PROVE  AppliedFieldsSurvive'
<1> SUFFICES ASSUME NEW r \in Request, Applied(r)', kind'[r] \in {"create", "update"},
                    NEW f \in Sealed(r)'
             PROVE  stored'[vault'[r]][f] = r \/ \E q \in Request : Overwrites(q, r, f)'
  BY DEF AppliedFieldsSurvive
<1>1. CASE Applied(r)
  <2>1. kind'[r] = kind[r] /\ vault'[r] = vault[r] /\ names'[r] = names[r]
    BY <1>1, AppliedKept
  <2>2. f \in Sealed(r) /\ f \in Field /\ kind[r] \in {"create", "update"}
    BY <2>1, StoreAssumption DEF Sealed, RequestInv
  <2>3. stored[vault[r]][f] = r \/ \E q \in Request : Overwrites(q, r, f)
    BY <1>1, <2>2 DEF AppliedFieldsSurvive
  <2>4. CASE \E q \in Request : Overwrites(q, r, f)
    BY <1>1, <2>4, OverwritesKept
  <2>5. CASE UNCHANGED table /\ stored[vault[r]][f] = r
    BY <2>1, <2>5 DEF table
  <2>6. ASSUME NEW p \in Request, Commits(p), stored[vault[r]][f] = r
        PROVE  stored'[vault'[r]][f] = r \/ Overwrites(p, r, f)'
    <3>1. vault[r] \in Vault
      BY <1>1 DEF RequestInv, Begun
    <3>2. CASE vault[p] # vault[r]
      BY <2>1, <2>6, <3>1, <3>2, CommitEffect
    <3>3. CASE vault[p] = vault[r]
      <4>1. /\ stored'[vault[r]] = NewStored(p) /\ kind[p] \in Kind \ {"create"}
            /\ kind'[p] = kind[p] /\ vault'[p] = vault[p] /\ names'[p] = names[p]
        BY <1>1, <2>6, <3>1, <3>3, CommitEffect, CreatesFirst
      <4>2. Applied(p)' /\ Position(p)' > Position(r)' /\ Sealed(p)' = Sealed(p)
        BY <1>1, <2>6, <4>1, CommitEffect, CommitPositions, Grows DEF Sealed
      <4>3. CASE kind[p] = "delete" \/ (kind[p] = "remove" /\ f \in names[p])
                                    \/ (kind[p] = "update" /\ f \in Sealed(p))
        BY <2>1, <3>3, <4>1, <4>2, <4>3 DEF Overwrites
      <4>4. CASE \/ kind[p] = "remove" /\ f \notin names[p]
                 \/ kind[p] = "update" /\ f \notin Sealed(p)
                 \/ kind[p] = "decrypt"
        BY <2>1, <2>2, <2>6, <3>3, <4>1, <4>4, NewItem
      <4> QED
        BY <4>1, <4>3, <4>4 DEF Kind
    <3> QED
      BY <3>2, <3>3
  <2> QED
    BY <2>3, <2>4, <2>5, <2>6, TableSteps
<1>2. CASE ~Applied(r)
  <2>1. Commits(r)
    <3>1. ASSUME NEW p \in Request, Commits(p) PROVE p = r
      BY <1>2, <3>1, CommitEffect, CommitPositions
    <3> QED
      BY <1>2, <3>1, TableSteps DEF table, Applied
  <2>2. /\ stored'[vault[r]] = NewStored(r) /\ vault'[r] = vault[r] /\ names'[r] = names[r]
        /\ kind'[r] = kind[r]
    BY <2>1, CommitEffect
  <2>3. f \in Sealed(r) /\ f \in Field
    BY <2>2, StoreAssumption DEF Sealed, RequestInv
  <2> QED
    BY <2>2, <2>3, NewItem
<1> QED
  BY <1>1, <1>2

-----------------------------------------------------------------------------
(* The stored ssn4 goes with the ssn9 beside it.                           *)

LEMMA Ssn4Step ==
  ASSUME TypeInv, RequestInv, AppliedOnce, StoredInv, Ssn4IsCurrent, Next
  PROVE  Ssn4IsCurrent'
<1> USE StoreAssumption
<1> SUFFICES ASSUME NEW v \in Vault, NEW a, NEW b, a = stored'[v][Ssn9], b = stored'[v][Ssn4],
                    a # None, b # None
             PROVE  Position(b)' >= Position(a)'
  BY DEF Ssn4IsCurrent, Position
<1>1. ASSUME NEW q, q # None, NEW f \in Field, q = stored[v][f]
      PROVE  Position(q)' = Position(q) /\ Position(q) \in 1..Len(committed)
  BY <1>1, AppliedKept DEF StoredInv
<1>2. CASE a = stored[v][Ssn9] /\ b = stored[v][Ssn4]
  BY <1>1, <1>2 DEF Ssn4IsCurrent
<1>3. ASSUME NEW r \in Request, Commits(r)
      PROVE  Position(b)' >= Position(a)'
  <2>1. Position(r)' = Len(committed) + 1 /\ Len(committed) \in Nat
    BY <1>3, CommitEffect, CommitPositions, Grows
  <2>2. \A f \in Field : stored'[v][f] \in {r, None, stored[v][f]}
    BY <1>3, CommitStores
  <2>3. CASE b = r
    BY <1>1, <2>1, <2>2, <2>3
  <2>4. CASE b # r
    <3>1. a # r
      <4>1. CASE v # vault[r]
        BY <1>3, <4>1, CommitEffect, CommitPositions DEF StoredInv
      <4>2. CASE v = vault[r]
        <5>1. stored'[v] = NewStored(r) /\ kind[r] \in Kind
          BY <1>3, <4>2, CommitEffect
        <5>2. ~Applied(r) /\ stored[v][Ssn9] # r
          BY <1>3, CommitEffect DEF StoredInv
        <5>3. CASE kind[r] \in {"create", "update"}
          BY <2>4, <4>2, <5>1, <5>2, <5>3, NewItem DEF Sealed
        <5>4. CASE kind[r] \in {"remove", "delete", "decrypt"}
          BY <4>2, <5>1, <5>2, <5>4, NewItem
        <5> QED
          BY <5>1, <5>3, <5>4 DEF Kind
      <4> QED
        BY <4>1, <4>2
    <3> QED
      BY <1>2, <2>2, <2>4, <3>1
  <2> QED
    BY <2>3, <2>4
<1> QED
  BY <1>2, <1>3, TableSteps DEF table

-----------------------------------------------------------------------------
(* What has been answered.                                                 *)

\* A success is answered for a transaction, or when there was nothing to do.
LEMMA Succeeds ==
  ASSUME TypeInv, RequestInv, Next, NEW r \in Request, status'[r] = "200", status[r] # "200"
  PROVE  Commits(r) \/ (kind'[r] \in {"update", "remove"} /\ names'[r] = {})
<1>1. CASE Tick \/ \E v \in Vault : Replicate(v)
  BY <1>1 DEF Tick, Replicate
<1>2. ASSUME NEW p \in Request, ArrivesSomehow(p)
      PROVE  kind'[r] \in {"update", "remove"} /\ names'[r] = {}
  <2>1. PICK k, v, body, n : Arrives(p, k, v, body, n)
    BY <1>2 DEF ArrivesSomehow
  <2>2. p = r
    BY <2>1 DEF Arrives, Answer, TypeInv, Typed
  <2>3. k \in {"update", "remove"} /\ body = {}
    BY <2>1, <2>2 DEF Arrives, Answer, TypeInv, Typed
  <2> QED
    BY <2>1, <2>2, <2>3 DEF Arrives, Accept, TypeInv, Typed
<1>3. ASSUME NEW p \in Request, Work(p) PROVE FALSE
  BY <1>3 DEF Work
<1>4. ASSUME NEW p \in Request, GivesUp(p) PROVE FALSE
  BY <1>4 DEF GivesUp, Answer, TypeInv, Typed
<1>5. ASSUME NEW p \in Request, Commits(p) PROVE p = r
  BY <1>5 DEF Commits, Answer, TypeInv, Typed
<1> QED
  BY <1>1, <1>2, <1>3, <1>4, <1>5, Steps

LEMMA RecordKept ==
  ASSUME TypeInv, RequestInv, AppliedOnce, AnsweredInv, LogInv, DisclosuresAreLogged, Next,
         NEW r \in Request, kind'[r] = "decrypt", status'[r] = "200",
         NEW q, q = log'[vault'[r]][stamp'[r]]
  PROVE  q = r \/ (q # None /\ stamp'[q] = stamp'[r] /\ Position(q)' > Position(r)')
<1>1. CASE status[r] = "200"
  <2>1. Begun(r) /\ pc[r] = "done"
    BY <1>1 DEF RequestInv, Begun
  <2>2. /\ kind[r] = "decrypt" /\ vault'[r] = vault[r] /\ stamp'[r] = stamp[r]
        /\ vault[r] \in Vault /\ stamp[r] \in 0..MaxClock
    BY <2>1, Kept DEF RequestInv, TypeInv, Typed
  <2>3. Applied(r)
    BY <1>1, <2>2 DEF AnsweredInv
  <2>4. CASE q = log[vault[r]][stamp[r]]
    <3>1. q = r \/ (q # None /\ stamp[q] = stamp[r] /\ Position(q) > Position(r))
      BY <1>1, <2>2, <2>4 DEF DisclosuresAreLogged
    <3>2. q # None => Applied(q)
      BY <2>2, <2>4 DEF LogInv
    <3>3. CASE q # None
      BY <2>2, <2>3, <3>1, <3>2, <3>3, AppliedKept
    <3> QED
      BY <3>1, <3>3
  <2>5. ASSUME NEW p \in Request, Commits(p), q # log[vault[r]][stamp[r]]
        PROVE  q # None /\ stamp'[q] = stamp'[r] /\ Position(q)' > Position(r)'
    <3>1. q = p /\ stamp'[p] = stamp[p] /\ stamp[p] = stamp[r] /\ ~Applied(p)
      BY <2>2, <2>5, CommitEffect
    <3>2. Position(p)' = Len(committed) + 1 /\ Len(committed) \in Nat
      BY <2>5, <3>1, CommitPositions, Grows
    <3>3. Position(r)' = Position(r) /\ Position(r) \in 1..Len(committed)
      BY <2>3, AppliedKept
    <3> QED
      BY <2>2, <3>1, <3>2, <3>3, StoreAssumption
  <2> QED
    BY <2>2, <2>4, <2>5, TableSteps DEF table
<1>2. CASE status[r] # "200"
  <2>1. Commits(r)
    BY <1>2, Succeeds
  <2> QED
    BY <2>1, CommitEffect
<1> QED
  BY <1>1, <1>2

\* The record in the place of a disclosure, after a step.
LEMMA RecordAt ==
  ASSUME NEW r, NEW q, q = log'[vault'[r]][stamp'[r]],
         q = r \/ (q # None /\ stamp'[q] = stamp'[r] /\ Position(q)' > Position(r)')
  PROVE  (LET p == log[vault[r]][stamp[r]]
          IN p = r \/ (p # None /\ stamp[p] = stamp[r] /\ Position(p) > Position(r)))'
BY DEF Position

LEMMA LoggedStep ==
  ASSUME TypeInv, RequestInv, AppliedOnce, AnsweredInv, LogInv, DisclosuresAreLogged, Next
  PROVE  DisclosuresAreLogged'
<1> SUFFICES ASSUME NEW r \in Request, kind'[r] = "decrypt", status'[r] = "200"
             PROVE  (LET p == log[vault[r]][stamp[r]]
                     IN p = r \/ (p # None /\ stamp[p] = stamp[r] /\ Position(p) > Position(r)))'
  BY DEF DisclosuresAreLogged
<1>1. PICK q : q = log'[vault'[r]][stamp'[r]]
  OBVIOUS
<1>2. q = r \/ (q # None /\ stamp'[q] = stamp'[r] /\ Position(q)' > Position(r)')
  BY <1>1, RecordKept
<1> QED
  BY <1>1, <1>2, RecordAt

LEMMA DeletedStaysStep ==
  ASSUME TypeInv, RequestInv, AppliedOnce, NeverDeletedInv, DeletedStaysDeleted, Next
  PROVE  DeletedStaysDeleted'
<1> SUFFICES ASSUME NEW r \in Request, status'[r] = "200",
                    kind'[r] = "decrypt" \/ (kind'[r] = "update" /\ names'[r] # {}),
                    NEW i \in 1..since'[r]
             PROVE  ~(kind'[committed'[i]] = "delete" /\ vault'[committed'[i]] = vault'[r])
  BY DEF DeletedStaysDeleted, DeletedBefore
<1>1. Begun(r) /\ ~DeletedBefore(r) /\ vault'[r] = vault[r] /\ since'[r] = since[r]
  <2>1. CASE status[r] = "200"
    <3>1. Begun(r)
      BY <2>1 DEF RequestInv, Begun
    <3>2. kind'[r] = kind[r] /\ vault'[r] = vault[r] /\ names'[r] = names[r] /\ since'[r] = since[r]
      BY <3>1, Kept
    <3> QED
      BY <2>1, <3>1, <3>2 DEF DeletedStaysDeleted
  <2>2. CASE status[r] # "200"
    <3>1. Commits(r)
      BY <2>2, Succeeds
    <3> QED
      BY <3>1, CommitEffect DEF Commits, Begun, NeverDeletedInv
  <2> QED
    BY <2>1, <2>2
<1>2. i \in 1..since[r] /\ i \in 1..Len(committed)
  BY <1>1, Grows DEF RequestInv, TypeInv, Typed
<1> QED
  BY <1>1, <1>2, Grows DEF DeletedBefore

-----------------------------------------------------------------------------
(* What comes back after a deletion.                                       *)

LEMMA RevivedStep ==
  ASSUME TypeInv, RequestInv, AppliedOnce, StoredInv, CreatesAlone, NeverDeletedInv,
         RevivedOnlyByRace, Next
  PROVE  RevivedOnlyByRace'
<1> SUFFICES ASSUME NEW v \in Vault, NEW f \in Field, NEW i \in 1..Len(committed'),
                    NEW q, q = stored'[v][f], q # None, Deletes(i, v)'
             PROVE  kind'[q] = "update" /\ since'[q] < i /\ i < Position(q)'
  BY DEF RevivedOnlyByRace, Deletes, Position
\* What was stored before has not moved.
<1>1. ASSUME i \in 1..Len(committed), q = stored[v][f]
      PROVE  kind'[q] = "update" /\ since'[q] < i /\ i < Position(q)'
  <2>1. Applied(q) /\ Deletes(i, v)
    BY <1>1, Grows DEF StoredInv
  <2>2. kind[q] = "update" /\ since[q] < i /\ i < Position(q)
    BY <1>1, <2>1 DEF RevivedOnlyByRace, Deletes
  <2>3. q \in Request /\ kind'[q] = kind[q] /\ Position(q)' = Position(q)
    BY <2>1, AppliedKept
  <2>4. Begun(q)
    BY <2>1, <2>3 DEF RequestInv, Begun
  <2> QED
    BY <2>2, <2>3, <2>4, Kept
<1>2. ASSUME NEW r \in Request, Commits(r)
      PROVE  kind'[q] = "update" /\ since'[q] < i /\ i < Position(q)'
  <2>1. /\ Position(r)' = Len(committed) + 1 /\ Len(committed) \in Nat
        /\ Len(committed') = Len(committed) + 1 /\ committed'[Len(committed) + 1] = r
        /\ kind[r] \in Kind /\ kind'[r] = kind[r] /\ vault'[r] = vault[r] /\ since'[r] = since[r]
        /\ vault[r] = v => stored'[v] = NewStored(r)
    BY <1>2, CommitEffect, CommitPositions, Grows
  <2>2. i \in 1..Len(committed)
    <3> SUFFICES ASSUME i = Len(committed) + 1 PROVE FALSE
      BY <2>1
    <3>1. kind[r] = "delete" /\ vault[r] = v
      BY <2>1 DEF Deletes
    <3> QED
      BY <2>1, <3>1, NewItem
  <2>3. CASE q = stored[v][f]
    BY <1>1, <2>2, <2>3
  <2>4. CASE q # stored[v][f]
    <3>1. q = r /\ vault[r] = v
      BY <1>2, <2>4, CommitStores, CommitEffect
    <3>2. kind[r] \in {"create", "update"}
      <4>1. q = NewStored(r)[f]
        BY <2>1, <3>1
      <4>2. kind[r] = "remove" => NewStored(r)[f] \in {None, stored[v][f]}
        BY <3>1, NewItem
      <4>3. kind[r] = "delete" => NewStored(r)[f] = None
        BY NewItem
      <4>4. kind[r] = "decrypt" => NewStored(r)[f] = stored[v][f]
        BY <3>1, NewItem
      <4> QED
        BY <2>1, <2>4, <4>1, <4>2, <4>3, <4>4 DEF Kind
    <3>3. Applied(committed[i]) /\ Deletes(i, v)
      BY <2>2, Grows DEF Applied
    <3>4. kind[r] = "update"
      BY <1>2, <3>1, <3>2, <3>3, CreatesFirst DEF Deletes
    <3>5. ~DeletedBefore(r)
      BY <1>2, <3>4 DEF Commits, NeverDeletedInv
    <3>6. since[r] \in Nat /\ ~(i \in 1..since[r])
      BY <3>1, <3>3, <3>5 DEF DeletedBefore, Deletes, TypeInv, Typed
    <3> QED
      BY <2>1, <2>2, <3>1, <3>4, <3>6
  <2> QED
    BY <2>3, <2>4
<1> QED
  BY <1>1, <1>2, TableSteps DEF table

-----------------------------------------------------------------------------
(* The theorems.                                                           *)

LEMMA IInvStep == IInv /\ [Next]_vars => IInv'
<1>1. ASSUME IInv, Next PROVE IInv'
  BY <1>1, TypeStep, RequestStep, StoredStep, CreatesStep, NeverDeletedStep, FieldsStep,
     Ssn4Step, LoggedStep, DeletedStaysStep, RevivedStep DEF IInv
<1>2. ASSUME IInv, UNCHANGED vars PROVE IInv'
  <2> USE DEF vars, table, input
  <2>1. TypeInv' /\ RequestInv' /\ AppliedOnce' /\ AnsweredInv' /\ StoredInv' /\ LogInv'
    <3>1. \A r : Applied(r)' = Applied(r) /\ Writes(r)' = Writes(r) /\ Begun(r)' = Begun(r)
      BY <1>2 DEF Applied, Writes, Begun
    <3>2. TypeInv'
      BY <1>2 DEF IInv, TypeInv, Typed
    <3>3. RequestInv' /\ AnsweredInv'
      BY <1>2, <3>1 DEF IInv, RequestInv, AnsweredInv
    <3>4. AppliedOnce' /\ StoredInv' /\ LogInv'
      BY <1>2, <3>1 DEF IInv, AppliedOnce, StoredInv, LogInv
    <3> QED
      BY <3>2, <3>3, <3>4
  <2>2. CreatesAlone' /\ NeverDeletedInv' /\ DeletedStaysDeleted'
    BY <1>2 DEF IInv, CreatesAlone, Begun, NeverDeletedInv, Deletes, DeletedBefore,
                DeletedStaysDeleted
  <2>3. \A q : Position(q)' = Position(q) /\ Applied(q)' = Applied(q) /\ Sealed(q)' = Sealed(q)
    BY <1>2 DEF Position, Applied, Sealed
  <2>4. Ssn4IsCurrent'
    <3> SUFFICES ASSUME NEW v \in Vault, NEW a, NEW b, a = stored'[v][Ssn9], b = stored'[v][Ssn4],
                        a # None, b # None
                 PROVE  Position(b)' >= Position(a)'
      BY DEF Ssn4IsCurrent, Position
    <3> QED
      BY <1>2, <2>3 DEF IInv, Ssn4IsCurrent
  <2>5. DisclosuresAreLogged'
    <3> SUFFICES ASSUME NEW r \in Request, kind'[r] = "decrypt", status'[r] = "200"
                 PROVE  (LET p == log[vault[r]][stamp[r]]
                         IN p = r \/ (p # None /\ stamp[p] = stamp[r] /\ Position(p) > Position(r)))'
      BY DEF DisclosuresAreLogged
    <3>1. PICK q : q = log[vault[r]][stamp[r]]
      OBVIOUS
    <3>2. q = r \/ (q # None /\ stamp[q] = stamp[r] /\ Position(q) > Position(r))
      BY <1>2, <3>1 DEF IInv, DisclosuresAreLogged, Position
    <3> QED
      BY <1>2, <2>3, <3>1, <3>2, RecordAt
  <2>6. AppliedFieldsSurvive'
    <3>1. \A q, r, f : Overwrites(q, r, f)' = Overwrites(q, r, f)
      BY <1>2, <2>3 DEF Overwrites
    <3> QED
      BY <1>2, <2>3, <3>1 DEF IInv, AppliedFieldsSurvive
  <2>7. RevivedOnlyByRace'
    <3> SUFFICES ASSUME NEW v \in Vault, NEW f \in Field, NEW i \in 1..Len(committed'),
                        NEW q, q = stored'[v][f], q # None, Deletes(i, v)'
                 PROVE  kind'[q] = "update" /\ since'[q] < i /\ i < Position(q)'
      BY DEF RevivedOnlyByRace, Deletes, Position
    <3> QED
      BY <1>2, <2>3 DEF IInv, RevivedOnlyByRace, Deletes
  <2> QED
    BY <2>1, <2>2, <2>4, <2>5, <2>6, <2>7 DEF IInv
<1> QED
  BY <1>1, <1>2

LEMMA IInvInvariant == Spec => []IInv
BY InitIInv, IInvStep, PTL DEF Spec

\* The table holds items, the log invocations, and an invocation its request
\* and its answer; and who flushes had something to write (api/src/app).
THEOREM TypeCorrect == Spec => []TypeOK
<1>1. IInv => TypeOK
  BY DEF IInv, TypeInv, TypeOK, RequestInv
<1> QED
  BY <1>1, IInvInvariant, PTL

\* A client told 200 has its transaction in the table, one told 404 or 409 has
\* not, and no transaction is applied twice, whether or not the answer of
\* DynamoDB or of the Lambda was lost (middlewares.py:33-39).
THEOREM AnswersTellTheTruth == Spec => []AnswersAreTrue
<1>1. IInv => AnswersAreTrue
  BY DEF IInv, RequestInv, AppliedOnce, AnsweredInv, AnswersAreTrue
<1> QED
  BY <1>1, IInvInvariant, PTL

\* Whatever reads overlapped, a field that an applied create or update sealed
\* stays until a later transaction replaces or removes it (vault.py:174-200).
THEOREM NoUpdateIsLost == Spec => []AppliedFieldsSurvive
<1>1. IInv => AppliedFieldsSurvive
  BY DEF IInv
<1> QED
  BY <1>1, IInvInvariant, PTL

\* The stored last digits are never those of a number that the stored ssn9 has
\* replaced (encryptors.py:97-108).
THEOREM Ssn4NeverStale == Spec => []Ssn4IsCurrent
<1>1. IInv => Ssn4IsCurrent
  BY DEF IInv
<1> QED
  BY <1>1, IInvInvariant, PTL

\* A decrypt that answered 200 has its record in the vault's log, unless one of
\* the same microsecond took its place (routers/vaults.py:180-192).
THEOREM DisclosuresHaveRecords == Spec => []DisclosuresAreLogged
<1>1. IInv => DisclosuresAreLogged
  BY DEF IInv
<1> QED
  BY <1>1, IInvInvariant, PTL

\* A decrypt or an update never succeeds for a request whose read, of the table
\* or of a replica behind it, took the deletion of its vault into account
\* (vault.py:189-192, 239-242).
THEOREM DeletedVaultsStayUnused == Spec => []DeletedStaysDeleted
<1>1. IInv => DeletedStaysDeleted
  BY DEF IInv
<1> QED
  BY <1>1, IInvInvariant, PTL

\* A field that is stored of a deleted vault was sealed by an update that had
\* read the vault before the deletion and was applied after it: nothing else
\* brings a vault's data back (vault.py:181-198, dynamodb.py:81-103).
THEOREM OnlyRacingUpdatesRevive == Spec => []RevivedOnlyByRace
<1>1. IInv => RevivedOnlyByRace
  BY DEF IInv
<1> QED
  BY <1>1, IInvInvariant, PTL
=============================================================================
