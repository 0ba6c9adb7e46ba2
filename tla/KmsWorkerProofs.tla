---------------------------- MODULE KmsWorkerProofs ----------------------------
(***************************************************************************)
(* Proofs of the safety of the KMS worker, for any set of calls and of     *)
(* credentials and any capacity of the channel.                            *)
(***************************************************************************)
EXTENDS KmsWorker, FiniteSetTheorems, TLAPS

-----------------------------------------------------------------------------
(* The inductive invariant.                                                *)

\* A sender is published before anything is sent, and its worker lives.
PublishedInv ==
  /\ \A c \in Call : pc[c] \in {"send", "waiting"} => published # None
  /\ \A w \in Call : published = w => wpc[w] \in {"idle"} \cup WorkerBusy
  /\ \A c \in Call : pc[c] = "publish" => wpc[c] \in {"idle"} \cup WorkerBusy

\* A worker has a request in hand just while it is busy.
HoldingInv == \A w \in Call : wpc[w] \in WorkerBusy <=> cur[w] # None

\* What a worker or a channel remembers is a call that sent its request, and
\* the key of that call stays what it was.
RememberedInv ==
  /\ \A c \in Call : pc[c] \in {"idle", "get", "spawn", "publish", "send"} => ~Remembered(c)
  /\ \A c \in Call : pc[c] # "idle" => key[c] \in Key
  /\ \A c \in Call : pc[c] \in {"idle"} \cup Active => result[c] = "none"

\* The client the worker has is of the key of the request it decrypts.
ClientInv ==
  /\ \A w \in Call : wpc[w] = "build" => client[w] = None
  /\ \A w \in Call : wpc[w] = "decrypt" => client[w] = key[cur[w]]
  /\ \A w \in Call : wpc[w] = "reply" => answer[w] \in {"err", key[cur[w]]}

\* The SDK objects that exist are those of the one client there is.
HandlesInv == \A h \in Handle : handles[h] = IF \E w \in Call : client[w] # None THEN 1 ELSE 0

\* A request is in one place.
PlaceInv ==
  /\ \A w \in Call : \A i, j \in 1..Len(queue[w]) : queue[w][i] = queue[w][j] => i = j
  /\ \A w \in Call : cur[w] # None => ~InQueue(cur[w], w)
  /\ \A c \in Call : pc[c] = "waiting" => InQueue(c, published) \/ cur[published] = c

IInv ==
  TypeOK /\ SingleSdkUser /\ PublishedInv /\ HoldingInv /\ RememberedInv /\ ClientInv
  /\ HandlesInv /\ AnsweredUnderOwnKey /\ PlaceInv

-----------------------------------------------------------------------------
LEMMA InitIInv == KmsAssumption /\ Init => IInv
<1> SUFFICES ASSUME KmsAssumption, Init PROVE IInv
  OBVIOUS
<1> USE DEF Init, KmsAssumption
<1>1. TypeOK
  BY DEF TypeOK, Active, Ended, WorkerBusy
<1>2. SingleSdkUser /\ PublishedInv
  BY DEF SingleSdkUser, PublishedInv, WorkerBusy
<1>3. HoldingInv /\ RememberedInv
  BY DEF HoldingInv, RememberedInv, Remembered, InQueue, WorkerBusy, Active
<1>4. ClientInv /\ HandlesInv /\ AnsweredUnderOwnKey
  BY DEF ClientInv, HandlesInv, AnsweredUnderOwnKey
<1>5. PlaceInv
  BY DEF PlaceInv, InQueue
<1> QED
  BY <1>1, <1>2, <1>3, <1>4, <1>5 DEF IInv

LEMMA TypeStep ==
  ASSUME KmsAssumption, TypeOK, PublishedInv, HoldingInv, RememberedInv, ClientInv, HandlesInv, Next
  PROVE  TypeOK'
<1> USE DEF TypeOK, Ended, Active, WorkerBusy, callVars, workerVars, KmsAssumption
<1>1. ASSUME NEW c \in Call, Start(c) \/ Get(c) \/ SpawnWorker(c) \/ SpawnFails(c) \/ Publish(c)
      PROVE TypeOK'
  <2>1. CASE Start(c)
    BY <2>1 DEF Start
  <2>2. CASE Get(c)
    BY <2>2 DEF Get
  <2>3. CASE SpawnWorker(c)
    BY <2>3 DEF SpawnWorker
  <2>4. CASE SpawnFails(c)
    BY <2>4 DEF SpawnFails, Return
  <2>5. CASE Publish(c)
    BY <2>5 DEF Publish
  <2> QED
    BY <1>1, <2>1, <2>2, <2>3, <2>4, <2>5
<1>2. ASSUME NEW c \in Call, Send(c) PROVE TypeOK'
  <2>1. published \in Call
    BY <1>2 DEF Send, PublishedInv
  <2>2. Append(queue[published], c) \in Seq(Call) /\ Len(Append(queue[published], c)) <= QueueCap
    BY <1>2, <2>1 DEF Send
  <2> QED
    BY <1>2, <2>1, <2>2 DEF Send
<1>3. ASSUME NEW c \in Call, Timeout(c) \/ Forget(c) PROVE TypeOK'
  BY <1>3 DEF Timeout, Forget
<1>4. ASSUME NEW w \in Call, Take(w) PROVE TypeOK'
  <2>1. Head(queue[w]) \in Call /\ Tail(queue[w]) \in Seq(Call) /\ Len(Tail(queue[w])) <= QueueCap
    BY <1>4 DEF Take
  <2> QED
    BY <1>4, <2>1 DEF Take
<1>5. ASSUME NEW w \in Call, TearDown(w) PROVE TypeOK'
  <2>1. ASSUME client[w] # None PROVE Cleanup(handles, Handle) \in [Handle -> Nat]
    <3>1. \A h \in Handle : handles[h] = 1
      BY <2>1 DEF HandlesInv
    <3> QED
      BY <3>1 DEF Cleanup
  <2> QED
    BY <1>5, <2>1 DEF TearDown
<1>6. ASSUME NEW w \in Call, BuildClient(w) PROVE TypeOK'
  <2>1. Allocate(handles, Handle) \in [Handle -> Nat]
    BY DEF Allocate
  <2>2. key[cur[w]] \in Key
    BY <1>6 DEF BuildClient, HoldingInv, RememberedInv, Remembered
  <2> QED
    BY <1>6, <2>1, <2>2 DEF BuildClient
<1>7. ASSUME NEW w \in Call, BuildFails(w) PROVE TypeOK'
  <2>1. \A S : Cleanup(Allocate(handles, S), S) = handles
    BY DEF Cleanup, Allocate
  <2> QED
    BY <1>7, <2>1 DEF BuildFails
<1>8. ASSUME NEW w \in Call, Decrypt(w) PROVE TypeOK'
  <2>1. client[w] \in Key
    BY <1>8 DEF Decrypt, ClientInv, HoldingInv, RememberedInv, Remembered
  <2> QED
    BY <1>8, <2>1 DEF Decrypt
<1>9. ASSUME NEW w \in Call, Reply(w) \/ WorkerExits(w) PROVE TypeOK'
  <2>1. CASE Reply(w)
    <3>1. answer[w] \in Key \cup {"err"}
      BY <2>1 DEF Reply, ClientInv, HoldingInv, RememberedInv, Remembered
    <3>2. pc' \in [Call -> {"idle"} \cup Active \cup Ended]
      <4>1. pc' = pc \/ pc' = [pc EXCEPT ![cur[w]] = "returned"]
        BY <2>1 DEF Reply, Return
      <4> QED
        BY <4>1
    <3>3. result' \in [Call -> Key \cup {"none", "err"}]
      BY <2>1, <3>1 DEF Reply, Return
    <3>4. /\ wpc' \in [Call -> {"none", "idle", "exited"} \cup WorkerBusy]
          /\ cur' \in [Call -> Call \cup {None}]
          /\ answer' \in [Call -> Key \cup {"none", "err"}]
      BY <2>1 DEF Reply
    <3> QED
      BY <2>1, <3>2, <3>3, <3>4 DEF Reply
  <2>2. CASE WorkerExits(w)
    BY <2>2 DEF WorkerExits
  <2> QED
    BY <1>9, <2>1, <2>2
<1> QED
  BY <1>1, <1>2, <1>3, <1>4, <1>5, <1>6, <1>7, <1>8, <1>9 DEF Next, Caller, Local

LEMMA StutterIInv == IInv /\ UNCHANGED vars => IInv'
BY DEF vars, IInv, TypeOK, SingleSdkUser, PublishedInv, HoldingInv, RememberedInv, ClientInv,
   HandlesInv, AnsweredUnderOwnKey, PlaceInv, Remembered, InQueue

\* Only the published worker is ever given a request.
LEMMA SingleStep ==
  ASSUME KmsAssumption, TypeOK, SingleSdkUser, PublishedInv, Next
  PROVE  SingleSdkUser'
<1> USE DEF TypeOK, SingleSdkUser, WorkerBusy, callVars, workerVars
<1>1. ASSUME NEW c \in Call, Publish(c) PROVE SingleSdkUser'
  BY <1>1 DEF Publish, KmsAssumption
<1>2. ASSUME NEW c \in Call, Send(c) PROVE SingleSdkUser'
  BY <1>2 DEF Send
<1>3. ASSUME NEW c \in Call, Start(c) \/ Get(c) \/ SpawnWorker(c) \/ SpawnFails(c) \/ Timeout(c) \/ Forget(c)
      PROVE  SingleSdkUser'
  BY <1>3 DEF Start, Get, SpawnWorker, SpawnFails, Timeout, Forget
<1>4. ASSUME NEW w \in Call, Take(w) PROVE SingleSdkUser'
  BY <1>4 DEF Take
<1>5. ASSUME NEW w \in Call, TearDown(w) \/ BuildClient(w) \/ BuildFails(w) \/ Decrypt(w) \/ Reply(w) \/ WorkerExits(w)
      PROVE  SingleSdkUser'
  BY <1>5 DEF TearDown, BuildClient, BuildFails, Decrypt, Reply, WorkerExits
<1> QED
  BY <1>1, <1>2, <1>3, <1>4, <1>5 DEF Next, Caller, Local

LEMMA PublishedStep ==
  ASSUME KmsAssumption, TypeOK, PublishedInv, Next
  PROVE  PublishedInv'
<1> USE DEF TypeOK, PublishedInv, WorkerBusy, callVars, workerVars, KmsAssumption
<1>1. ASSUME NEW c \in Call, Get(c) \/ SpawnWorker(c) \/ Publish(c)
      PROVE  PublishedInv'
  BY <1>1 DEF Get, SpawnWorker, Publish
<1>2. ASSUME NEW c \in Call, Start(c) \/ SpawnFails(c) \/ Send(c) \/ Timeout(c) \/ Forget(c)
      PROVE  PublishedInv'
  BY <1>2 DEF Start, SpawnFails, Send, Timeout, Forget, Return
<1>3. ASSUME NEW w \in Call, Take(w) \/ TearDown(w) \/ BuildClient(w) \/ BuildFails(w) \/ Decrypt(w)
      PROVE  PublishedInv'
  <2>1. CASE Take(w) \/ TearDown(w)
    BY <2>1, ZenonT(30) DEF Take, TearDown
  <2>2. CASE BuildClient(w) \/ BuildFails(w) \/ Decrypt(w)
    BY <2>2 DEF BuildClient, BuildFails, Decrypt
  <2> QED
    BY <1>3, <2>1, <2>2
<1>4. ASSUME NEW w \in Call, Reply(w) PROVE PublishedInv'
  BY <1>4 DEF Reply, Return
<1>5. ASSUME NEW w \in Call, WorkerExits(w) PROVE PublishedInv'
  BY <1>5 DEF WorkerExits, HasSender
<1> QED
  BY <1>1, <1>2, <1>3, <1>4, <1>5 DEF Next, Caller, Local

-----------------------------------------------------------------------------
(* Where requests are.                                                     *)

LEMMA AppendHolds ==
  ASSUME NEW S, NEW q \in Seq(S), NEW c \in S, NEW d
  PROVE  (\E i \in 1..Len(Append(q, c)) : Append(q, c)[i] = d)
           <=> (d = c \/ \E i \in 1..Len(q) : q[i] = d)
<1>1. Len(q) \in Nat /\ Len(Append(q, c)) = Len(q) + 1
  OBVIOUS
<1>2. Append(q, c)[Len(q) + 1] = c
  OBVIOUS
<1>3. \A i \in 1..Len(q) : Append(q, c)[i] = q[i]
  OBVIOUS
<1>4. \A i \in 1..Len(q) + 1 : i = Len(q) + 1 \/ i \in 1..Len(q)
  BY <1>1
<1>5. Len(q) + 1 \in 1..Len(q) + 1 /\ \A i \in 1..Len(q) : i \in 1..Len(q) + 1
  BY <1>1
<1> QED
  BY <1>1, <1>2, <1>3, <1>4, <1>5

LEMMA TailHolds ==
  ASSUME NEW S, NEW q \in Seq(S), q # << >>, NEW d
  PROVE  (\E i \in 1..Len(q) : q[i] = d)
           <=> (d = Head(q) \/ \E i \in 1..Len(Tail(q)) : Tail(q)[i] = d)
<1>1. Len(q) \in Nat /\ Len(q) # 0 /\ Len(Tail(q)) = Len(q) - 1 /\ Head(q) = q[1]
  OBVIOUS
<1>2. \A i \in 1..Len(Tail(q)) : Tail(q)[i] = q[i + 1] /\ i + 1 \in 1..Len(q)
  BY <1>1
<1>3. \A i \in 1..Len(q) : i = 1 \/ (i - 1 \in 1..Len(Tail(q)) /\ Tail(q)[i - 1] = q[i])
  BY <1>1
<1>4. 1 \in 1..Len(q)
  BY <1>1
<1> QED
  BY <1>1, <1>2, <1>3, <1>4

(* A channel without its head still holds each request once. *)
LEMMA TailDistinct ==
  ASSUME NEW S, NEW q \in Seq(S), q # << >>,
         \A i, j \in 1..Len(q) : q[i] = q[j] => i = j
  PROVE  \A i, j \in 1..Len(Tail(q)) : Tail(q)[i] = Tail(q)[j] => i = j
<1>1. Len(q) \in Nat /\ Len(q) # 0 /\ Len(Tail(q)) = Len(q) - 1
  OBVIOUS
<1>2. \A i \in 1..Len(Tail(q)) : Tail(q)[i] = q[i + 1] /\ i + 1 \in 1..Len(q)
  BY <1>1
<1>3. TAKE i, j \in 1..Len(Tail(q))
<1>4. HAVE Tail(q)[i] = Tail(q)[j]
<1>5. i + 1 \in 1..Len(q) /\ j + 1 \in 1..Len(q) /\ q[i + 1] = q[j + 1]
  BY <1>2, <1>4
<1>6. i + 1 = j + 1
  BY <1>5
<1> QED
  BY <1>1, <1>6

LEMMA SendPlaces ==
  ASSUME TypeOK, PublishedInv, NEW c \in Call, Send(c), NEW d, NEW w \in Call
  PROVE  InQueue(d, w)' <=> (InQueue(d, w) \/ (w = published /\ d = c))
<1>1. published \in Call
  BY DEF Send, PublishedInv, TypeOK
<1>2. CASE w = published
  BY <1>1, <1>2, AppendHolds DEF Send, InQueue, TypeOK
<1>3. CASE w # published
  BY <1>1, <1>3 DEF Send, InQueue, TypeOK
<1> QED
  BY <1>2, <1>3

LEMMA TakePlaces ==
  ASSUME TypeOK, NEW w \in Call, Take(w), NEW d
  PROVE  /\ InQueue(d, w) <=> (InQueue(d, w)' \/ d = cur'[w])
         /\ \A v \in Call \ {w} : InQueue(d, v)' <=> InQueue(d, v)
<1>1. queue[w] \in Seq(Call) /\ queue[w] # << >>
  BY DEF Take, TypeOK
<1>2. queue'[w] = Tail(queue[w]) /\ cur'[w] = Head(queue[w])
  BY DEF Take, TypeOK
<1>3. \A v \in Call \ {w} : queue'[v] = queue[v]
  BY DEF Take, TypeOK
<1>4. (\E i \in 1..Len(queue[w]) : queue[w][i] = d)
        <=> (d = Head(queue[w]) \/ \E i \in 1..Len(Tail(queue[w])) : Tail(queue[w])[i] = d)
  BY <1>1, TailHolds
<1>5. InQueue(d, w) <=> (InQueue(d, w)' \/ d = cur'[w])
  BY <1>2, <1>4 DEF InQueue
<1>6. \A v \in Call \ {w} : InQueue(d, v)' <=> InQueue(d, v)
  BY <1>3 DEF InQueue
<1> QED
  BY <1>5, <1>6

LEMMA RememberedOnlyBySending ==
  ASSUME KmsAssumption, TypeOK, PublishedInv, Next, NEW c \in Call, Remembered(c)'
  PROVE  Remembered(c) \/ Send(c)
<1> USE DEF Remembered
<1>1. ASSUME NEW d \in Call, Send(d) PROVE Remembered(c) \/ Send(c)
  BY <1>1, SendPlaces DEF Send, workerVars
<1>2. ASSUME NEW w \in Call, Take(w) PROVE Remembered(c)
  <2>1. PICK v \in Call : (InQueue(c, v) \/ cur[v] = c)'
    OBVIOUS
  <2>2. InQueue(c, v)' => InQueue(c, v)
    BY <1>2, TakePlaces
  <2>3. cur'[v] = c => v = w \/ cur[v] = c
    BY <1>2 DEF Take, TypeOK
  <2>4. cur'[w] = c => InQueue(c, w)
    BY <1>2, TakePlaces
  <2> QED
    BY <2>1, <2>2, <2>3, <2>4
<1>3. ASSUME NEW w \in Call, Reply(w) PROVE Remembered(c)
  BY <1>3 DEF Reply, InQueue, TypeOK, KmsAssumption
<1>4. ASSUME UNCHANGED <<queue, cur>> PROVE Remembered(c)
  BY <1>4 DEF InQueue
<1>5. ASSUME NEW d \in Call, Start(d) \/ Get(d) \/ SpawnWorker(d) \/ SpawnFails(d) \/ Publish(d) \/ Timeout(d) \/ Forget(d)
      PROVE  UNCHANGED <<queue, cur>>
  BY <1>5 DEF Start, Get, SpawnWorker, SpawnFails, Publish, Timeout, Forget, workerVars
<1>6. ASSUME NEW w \in Call, TearDown(w) \/ BuildClient(w) \/ BuildFails(w) \/ Decrypt(w) \/ WorkerExits(w)
      PROVE  UNCHANGED <<queue, cur>>
  BY <1>6 DEF TearDown, BuildClient, BuildFails, Decrypt, WorkerExits
<1> QED
  BY <1>1, <1>2, <1>3, <1>4, <1>5, <1>6 DEF Next, Caller, Local

LEMMA HoldingStep ==
  ASSUME KmsAssumption, TypeOK, HoldingInv, Next
  PROVE  HoldingInv'
<1> USE DEF TypeOK, HoldingInv, WorkerBusy, callVars, workerVars, KmsAssumption
<1>1. ASSUME NEW c \in Call, SpawnWorker(c) PROVE HoldingInv'
  BY <1>1 DEF SpawnWorker
<1>2. ASSUME NEW c \in Call, Start(c) \/ Get(c) \/ SpawnFails(c) \/ Publish(c) \/ Send(c) \/ Timeout(c) \/ Forget(c)
      PROVE  HoldingInv'
  BY <1>2 DEF Start, Get, SpawnFails, Publish, Send, Timeout, Forget
<1>3. ASSUME NEW w \in Call, Take(w) PROVE HoldingInv'
  <2>1. Head(queue[w]) \in Call
    BY <1>3 DEF Take
  <2> QED
    BY <1>3, <2>1 DEF Take
<1>4. ASSUME NEW w \in Call, TearDown(w) \/ BuildClient(w) \/ BuildFails(w) \/ Decrypt(w)
      PROVE  HoldingInv'
  BY <1>4 DEF TearDown, BuildClient, BuildFails, Decrypt
<1>5. ASSUME NEW w \in Call, Reply(w) \/ WorkerExits(w) PROVE HoldingInv'
  BY <1>5 DEF Reply, WorkerExits
<1> QED
  BY <1>1, <1>2, <1>3, <1>4, <1>5 DEF Next, Caller, Local

LEMMA RememberedStep ==
  ASSUME KmsAssumption, TypeOK, PublishedInv, HoldingInv, RememberedInv, Next
  PROVE  RememberedInv'
<1> USE DEF TypeOK, RememberedInv, Active, Ended
<1>1. \A c \in Call : Remembered(c)' => Remembered(c) \/ pc'[c] = "waiting"
  BY RememberedOnlyBySending DEF Send
<1>2. ASSUME NEW c \in Call, Start(c) \/ Get(c) \/ SpawnWorker(c) \/ Publish(c)
      PROVE  RememberedInv'
  <2>1. CASE Start(c)
    BY <1>1, <2>1 DEF Start
  <2>2. CASE Get(c) \/ SpawnWorker(c) \/ Publish(c)
    BY <1>1, <2>2 DEF Get, SpawnWorker, Publish
  <2> QED
    BY <1>2, <2>1, <2>2
<1>3. ASSUME NEW c \in Call, SpawnFails(c) \/ Timeout(c) \/ Forget(c) \/ Send(c)
      PROVE  RememberedInv'
  <2>1. CASE SpawnFails(c)
    BY <1>1, <2>1 DEF SpawnFails, Return
  <2>2. CASE Timeout(c)
    BY <1>1, <2>2 DEF Timeout
  <2>3. CASE Forget(c)
    BY <1>1, <2>3 DEF Forget
  <2>4. CASE Send(c)
    BY <1>1, <2>4 DEF Send
  <2> QED
    BY <1>3, <2>1, <2>2, <2>3, <2>4
<1>4. ASSUME NEW w \in Call, Take(w) \/ TearDown(w) \/ BuildClient(w) \/ BuildFails(w) \/ Decrypt(w) \/ WorkerExits(w)
      PROVE  RememberedInv'
  <2>1. UNCHANGED <<pc, key, result>>
    BY <1>4 DEF Take, TearDown, BuildClient, BuildFails, Decrypt, WorkerExits, callVars
  <2> QED
    BY <1>1, <2>1
<1>5. ASSUME NEW w \in Call, Reply(w) PROVE RememberedInv'
  <2>1. CASE pc[cur[w]] = "waiting"
    <3> DEFINE d == cur[w]
    <3>1. d \in Call /\ UNCHANGED key
      BY <1>5 DEF Reply, HoldingInv, WorkerBusy
    <3>2. pc'[d] = "returned" /\ \A c \in Call \ {d} : pc'[c] = pc[c] /\ result'[c] = result[c]
      BY <1>5, <2>1, <3>1 DEF Reply, Return
    <3> QED
      BY <1>1, <2>1, <3>1, <3>2
  <2>2. CASE pc[cur[w]] # "waiting"
    BY <1>1, <1>5, <2>2 DEF Reply
  <2> QED
    BY <2>1, <2>2
<1> QED
  BY <1>2, <1>3, <1>4, <1>5 DEF Next, Caller, Local

LEMMA KeysKept ==
  ASSUME TypeOK, RememberedInv, Next, NEW c \in Call, Remembered(c)
  PROVE  key'[c] = key[c]
<1> USE DEF TypeOK, RememberedInv
<1>1. ASSUME NEW d \in Call, Start(d) PROVE key'[c] = key[c]
  BY <1>1 DEF Start
<1>2. ASSUME NEW d \in Call, Forget(d) PROVE key'[c] = key[c]
  BY <1>2 DEF Forget
<1>3. ASSUME NEW d \in Call, Get(d) \/ SpawnWorker(d) \/ SpawnFails(d) \/ Publish(d) \/ Send(d) \/ Timeout(d)
      PROVE  key' = key
  BY <1>3 DEF Get, SpawnWorker, SpawnFails, Publish, Send, Timeout
<1>4. ASSUME NEW w \in Call, Local(w) \/ Decrypt(w) PROVE key' = key
  BY <1>4 DEF Local, Take, TearDown, BuildClient, BuildFails, Decrypt, Reply, WorkerExits, callVars
<1> QED
  BY <1>1, <1>2, <1>3, <1>4 DEF Next, Caller

LEMMA ClientStep ==
  ASSUME KmsAssumption, TypeOK, HoldingInv, RememberedInv, ClientInv, Next
  PROVE  ClientInv'
<1> USE DEF TypeOK, ClientInv, WorkerBusy, callVars
<1>1. \A w \in Call : wpc[w] \in WorkerBusy => cur[w] \in Call /\ key'[cur[w]] = key[cur[w]]
  BY KeysKept DEF HoldingInv, Remembered
<1>2. ASSUME NEW c \in Call, Start(c) \/ Caller(c) \/ Timeout(c) PROVE ClientInv'
  <2>1. UNCHANGED <<cur, client, answer>>
    BY <1>2 DEF Start, Caller, Get, SpawnWorker, SpawnFails, Publish, Send, Forget, Timeout, workerVars
  <2>2. wpc' = wpc \/ wpc' = [wpc EXCEPT ![c] = "idle"]
    BY <1>2 DEF Start, Caller, Get, SpawnWorker, SpawnFails, Publish, Send, Forget, Timeout, workerVars
  <2> QED
    BY <1>1, <2>1, <2>2, ZenonT(30)
<1>3. ASSUME NEW w \in Call, Take(w) PROVE ClientInv'
  <2>1. Head(queue[w]) \in Call
    BY <1>3 DEF Take
  <2> QED
    BY <1>1, <1>3, <2>1 DEF Take, NeedsRebuild
<1>4. ASSUME NEW w \in Call, TearDown(w) PROVE ClientInv'
  BY <1>4 DEF TearDown
<1>5. ASSUME NEW w \in Call, BuildClient(w) PROVE ClientInv'
  BY <1>1, <1>5 DEF BuildClient
<1>6. ASSUME NEW w \in Call, BuildFails(w) PROVE ClientInv'
  BY <1>6 DEF BuildFails
<1>7. ASSUME NEW w \in Call, Decrypt(w) PROVE ClientInv'
  BY <1>1, <1>7 DEF Decrypt
<1>8. ASSUME NEW w \in Call, Reply(w) \/ WorkerExits(w) PROVE ClientInv'
  <2>1. UNCHANGED <<key, client>>
    BY <1>8 DEF Reply, WorkerExits
  <2>2. CASE Reply(w)
    BY <2>1, <2>2 DEF Reply
  <2>3. CASE WorkerExits(w)
    BY <2>1, <2>3 DEF WorkerExits
  <2> QED
    BY <1>8, <2>2, <2>3
<1> QED
  BY <1>2, <1>3, <1>4, <1>5, <1>6, <1>7, <1>8 DEF Next, Local

LEMMA HandlesStep ==
  ASSUME KmsAssumption, TypeOK, SingleSdkUser, HoldingInv, RememberedInv, ClientInv, HandlesInv, Next
  PROVE  HandlesInv'
<1> USE DEF TypeOK, HandlesInv
<1>1. ASSUME UNCHANGED <<client, handles>> PROVE HandlesInv'
  BY <1>1
<1>2. ASSUME NEW w \in Call, TearDown(w) PROVE HandlesInv'
  <2>1. CASE client[w] = None
    <3>1. client' = client /\ handles' = handles
      BY <1>2, <2>1 DEF TearDown
    <3> QED
      BY <1>1, <3>1
  <2>2. CASE client[w] # None
    <3>1. \A v \in Call : client'[v] = None
      BY <1>2, <2>2 DEF TearDown, SingleSdkUser
    <3>2. \A h \in Handle : handles'[h] = 0
      BY <1>2, <2>2 DEF TearDown, Cleanup
    <3> QED
      BY <3>1, <3>2
  <2> QED
    BY <2>1, <2>2
<1>3. ASSUME NEW w \in Call, BuildClient(w) PROVE HandlesInv'
  <2>1. \A v \in Call : client[v] = None
    <3>1. published = w /\ client[w] = None
      BY <1>3 DEF BuildClient, SingleSdkUser, ClientInv, WorkerBusy
    <3> QED
      BY <3>1 DEF SingleSdkUser
  <2>2. \A h \in Handle : handles'[h] = 1
    <3>1. \A h \in Handle : handles[h] = 0
      BY <2>1
    <3>2. handles' = [h \in Handle |-> handles[h] + 1]
      BY <1>3 DEF BuildClient, Allocate
    <3> QED
      BY <3>1, <3>2
  <2>3. client'[w] # None
    BY <1>3 DEF BuildClient, HoldingInv, RememberedInv, Remembered, WorkerBusy, KmsAssumption
  <2> QED
    BY <2>2, <2>3
<1>4. ASSUME NEW w \in Call, BuildFails(w) PROVE HandlesInv'
  <2>1. \A S : Cleanup(Allocate(handles, S), S) = handles
    BY DEF Cleanup, Allocate
  <2> QED
    BY <1>1, <1>4, <2>1 DEF BuildFails
<1>5. ASSUME NEW w \in Call, Take(w) \/ Decrypt(w) \/ Reply(w) \/ WorkerExits(w) PROVE HandlesInv'
  BY <1>1, <1>5 DEF Take, Decrypt, Reply, WorkerExits
<1>6. ASSUME NEW c \in Call, Start(c) \/ Caller(c) \/ Timeout(c) PROVE HandlesInv'
  BY <1>1, <1>6 DEF Start, Caller, Get, SpawnWorker, SpawnFails, Publish, Send, Forget, Timeout, workerVars
<1> QED
  BY <1>2, <1>3, <1>4, <1>5, <1>6 DEF Next, Local

LEMMA AnsweredStep ==
  ASSUME KmsAssumption, TypeOK, HoldingInv, RememberedInv, ClientInv, AnsweredUnderOwnKey, Next
  PROVE  AnsweredUnderOwnKey'
<1> USE DEF TypeOK, AnsweredUnderOwnKey
<1>1. ASSUME NEW c \in Call, Start(c) \/ Forget(c) PROVE AnsweredUnderOwnKey'
  BY <1>1 DEF Start, Forget, RememberedInv
<1>2. ASSUME NEW c \in Call, Get(c) \/ SpawnWorker(c) \/ Publish(c) \/ Send(c)
      PROVE  AnsweredUnderOwnKey'
  BY <1>2 DEF Get, SpawnWorker, Publish, Send
<1>3. ASSUME NEW c \in Call, SpawnFails(c) \/ Timeout(c) PROVE AnsweredUnderOwnKey'
  BY <1>3 DEF SpawnFails, Timeout, Return
<1>4. ASSUME NEW w \in Call, Take(w) \/ TearDown(w) \/ BuildClient(w) \/ BuildFails(w) \/ Decrypt(w) \/ WorkerExits(w)
      PROVE  AnsweredUnderOwnKey'
  BY <1>4 DEF Take, TearDown, BuildClient, BuildFails, Decrypt, WorkerExits, callVars
<1>5. ASSUME NEW w \in Call, Reply(w) PROVE AnsweredUnderOwnKey'
  <2>1. cur[w] \in Call /\ answer[w] \in {"err", key[cur[w]]}
    BY <1>5 DEF Reply, HoldingInv, ClientInv, WorkerBusy
  <2> QED
    BY <1>5, <2>1 DEF Reply, Return
<1> QED
  BY <1>1, <1>2, <1>3, <1>4, <1>5 DEF Next, Caller, Local

LEMMA PlaceStep ==
  ASSUME KmsAssumption, TypeOK, SingleSdkUser, PublishedInv, HoldingInv, RememberedInv, PlaceInv, Next
  PROVE  PlaceInv'
<1> USE DEF TypeOK
<1>1. ASSUME UNCHANGED <<queue, cur, published>>,
             \A c \in Call : pc'[c] = "waiting" => pc[c] = "waiting"
      PROVE  PlaceInv'
  BY <1>1 DEF PlaceInv, InQueue
<1>2. ASSUME NEW c \in Call, Start(c) \/ Get(c) \/ SpawnWorker(c) \/ SpawnFails(c) \/ Timeout(c) \/ Forget(c)
      PROVE  PlaceInv'
  BY <1>1, <1>2 DEF Start, Get, SpawnWorker, SpawnFails, Timeout, Forget, Return, workerVars
<1>3. ASSUME NEW c \in Call, Publish(c) PROVE PlaceInv'
  <2>1. CASE published = None
    <3>1. \A d \in Call : pc'[d] # "waiting"
      BY <1>3, <2>1 DEF Publish, PublishedInv
    <3>2. UNCHANGED <<queue, cur>>
      BY <1>3 DEF Publish, workerVars
    <3> QED
      BY <3>1, <3>2 DEF PlaceInv, InQueue
  <2>2. CASE published # None
    BY <1>1, <1>3, <2>2 DEF Publish, workerVars
  <2> QED
    BY <2>1, <2>2
<1>4. ASSUME NEW c \in Call, Send(c) PROVE PlaceInv'
  <2>1. ~Remembered(c) /\ published \in Call
    BY <1>4 DEF Send, RememberedInv, PublishedInv
  <2> DEFINE p == published
             q == queue[published]
  <2>2. queue' = [queue EXCEPT ![p] = Append(q, c)] /\ cur' = cur /\ published' = published
    BY <1>4 DEF Send, workerVars
  <2>3. \A w, d \in Call : InQueue(d, w)' <=> (InQueue(d, w) \/ (w = p /\ d = c))
    BY <1>4, SendPlaces
  <2>4. \A w \in Call : \A i, j \in 1..Len(queue'[w]) : queue'[w][i] = queue'[w][j] => i = j
    <3>1. ASSUME NEW w \in Call, w # p PROVE queue'[w] = queue[w]
      BY <2>2, <3>1
    <3>2. queue'[p] = Append(q, c) /\ q \in Seq(Call) /\ Len(q) \in Nat
      BY <2>1, <2>2
    <3>3. \A i \in 1..Len(q) : q[i] # c
      BY <2>1 DEF Remembered, InQueue
    <3>4. \A i, j \in 1..Len(q) + 1 : Append(q, c)[i] = Append(q, c)[j] => i = j
      <4>1. \A i \in 1..Len(q) + 1 : i \in 1..Len(q) \/ i = Len(q) + 1
        BY <3>2
      <4>2. /\ \A i \in 1..Len(q) : Append(q, c)[i] = q[i]
            /\ Append(q, c)[Len(q) + 1] = c
        BY <3>2
      <4>3. \A i, j \in 1..Len(q) : q[i] = q[j] => i = j
        BY <2>1 DEF PlaceInv
      <4> QED
        BY <3>3, <4>1, <4>2, <4>3
    <3>5. Len(Append(q, c)) = Len(q) + 1
      BY <3>2
    <3> QED
      BY <3>1, <3>2, <3>4, <3>5 DEF PlaceInv
  <2>5. \A w \in Call : (cur[w] # None => ~InQueue(cur[w], w))'
    BY <2>1, <2>2, <2>3 DEF PlaceInv, Remembered
  <2>6. \A d \in Call : pc'[d] = "waiting" => InQueue(d, p)' \/ cur[p] = d
    BY <1>4, <2>1, <2>3 DEF Send, PlaceInv
  <2> QED
    BY <2>2, <2>4, <2>5, <2>6 DEF PlaceInv
<1>5. ASSUME NEW w \in Call, Take(w) PROVE PlaceInv'
  <2> DEFINE q == queue[w]
  <2>1. /\ q \in Seq(Call) /\ q # << >> /\ Head(q) \in Call
        /\ queue' = [queue EXCEPT ![w] = Tail(q)] /\ cur' = [cur EXCEPT ![w] = Head(q)]
        /\ UNCHANGED <<pc, published>>
    BY <1>5 DEF Take, callVars
  <2>2. /\ \A d : InQueue(d, w) <=> (InQueue(d, w)' \/ d = Head(q))
        /\ \A v \in Call \ {w} : \A d : InQueue(d, v)' <=> InQueue(d, v)
    BY <1>5, <2>1, TakePlaces
  <2>3. Len(q) \in Nat /\ Len(Tail(q)) = Len(q) - 1 /\ \A i \in 1..Len(Tail(q)) : Tail(q)[i] = q[i + 1]
    BY <2>1
  <2>4. \A i, j \in 1..Len(q) : q[i] = q[j] => i = j
    BY DEF PlaceInv
  <2>5. \A i, j \in 1..Len(Tail(q)) : Tail(q)[i] = Tail(q)[j] => i = j
    BY <2>1, <2>4, TailDistinct
  <2>6. \A d : d = Head(q) => ~InQueue(d, w)'
    <3>1. \A i \in 1..Len(Tail(q)) : i + 1 \in 1..Len(q) /\ i + 1 # 1
      BY <2>3
    <3>2. 1 \in 1..Len(q) /\ Head(q) = q[1]
      BY <2>1, <2>3
    <3>3. \A i \in 1..Len(Tail(q)) : Tail(q)[i] # Head(q)
      BY <2>3, <2>4, <3>1, <3>2
    <3>4. queue'[w] = Tail(q)
      BY <2>1
    <3> QED
      BY <3>3, <3>4 DEF InQueue
  <2>7. \A v \in Call : \A i, j \in 1..Len(queue'[v]) : queue'[v][i] = queue'[v][j] => i = j
    BY <2>1, <2>5 DEF PlaceInv
  <2>8. ASSUME NEW v \in Call PROVE (cur[v] # None => ~InQueue(cur[v], v))'
    <3>1. CASE v = w
      BY <2>1, <2>6, <3>1
    <3>2. CASE v # w
      <4>1. cur'[v] = cur[v]
        BY <2>1, <3>2
      <4> QED
        BY <2>2, <3>2, <4>1 DEF PlaceInv
    <3> QED
      BY <3>1, <3>2
  <2>9. \A d \in Call : pc'[d] = "waiting" => InQueue(d, published)' \/ cur'[published] = d
    <3>1. published = w /\ cur[w] = None
      BY <1>5, <2>1 DEF Take, SingleSdkUser, HoldingInv, WorkerBusy
    <3> QED
      BY <2>1, <2>2, <3>1 DEF PlaceInv
  <2> QED
    BY <2>1, <2>7, <2>8, <2>9 DEF PlaceInv
<1>6. ASSUME NEW w \in Call, Reply(w) PROVE PlaceInv'
  <2>1. cur[w] \in Call /\ published = w
    BY <1>6 DEF Reply, HoldingInv, SingleSdkUser, WorkerBusy
  <2>2. cur' = [cur EXCEPT ![w] = None] /\ UNCHANGED <<queue, published>>
    BY <1>6 DEF Reply
  <2>3. \A d \in Call : pc'[d] = "waiting" => pc[d] = "waiting" /\ d # cur[w]
    BY <1>6, <2>1 DEF Reply, Return
  <2> QED
    BY <2>1, <2>2, <2>3 DEF PlaceInv, InQueue
<1>7. ASSUME NEW w \in Call, TearDown(w) \/ BuildClient(w) \/ BuildFails(w) \/ Decrypt(w) \/ WorkerExits(w)
      PROVE  PlaceInv'
  BY <1>1, <1>7 DEF TearDown, BuildClient, BuildFails, Decrypt, WorkerExits, callVars
<1> QED
  BY <1>2, <1>3, <1>4, <1>5, <1>6, <1>7 DEF Next, Caller, Local

-----------------------------------------------------------------------------
(* The theorems.                                                           *)

LEMMA StepIInv == KmsAssumption /\ IInv /\ [Next]_vars => IInv'
<1> SUFFICES ASSUME KmsAssumption, IInv, [Next]_vars PROVE IInv'
  OBVIOUS
<1>1. CASE UNCHANGED vars
  BY <1>1, StutterIInv
<1>2. CASE Next
  <2>1. TypeOK'
    BY <1>2, TypeStep DEF IInv
  <2>2. SingleSdkUser' /\ PublishedInv'
    BY <1>2, SingleStep, PublishedStep DEF IInv
  <2>3. HoldingInv' /\ RememberedInv'
    BY <1>2, HoldingStep, RememberedStep DEF IInv
  <2>4. ClientInv' /\ HandlesInv'
    BY <1>2, ClientStep, HandlesStep DEF IInv
  <2>5. AnsweredUnderOwnKey' /\ PlaceInv'
    BY <1>2, AnsweredStep, PlaceStep DEF IInv
  <2> QED
    BY <2>1, <2>2, <2>3, <2>4, <2>5 DEF IInv
<1> QED
  BY <1>1, <1>2

LEMMA AlwaysIInv == Spec => []IInv
<1>1. KmsAssumption
  BY KmsAssumption
<1> QED
  BY <1>1, InitIInv, StepIInv, PTL DEF Spec

\* The types of the calls, channels and workers, in every behaviour.
THEOREM TypeCorrect == Spec => []TypeOK
<1>1. IInv => TypeOK
  BY DEF IInv
<1> QED
  BY <1>1, AlwaysIInv, PTL

\* However many threads race to start the worker, one uses the SDK.
THEOREM OneThreadUsesTheSdk == Spec => []SingleSdkUser
<1>1. IInv => SingleSdkUser
  BY DEF IInv
<1> QED
  BY <1>1, AlwaysIInv, PTL

\* A call returns a decryption under its own credentials, or an error.
THEOREM CallsGetTheirOwnAnswer == Spec => []AnsweredUnderOwnKey
<1>1. IInv => AnsweredUnderOwnKey
  BY DEF IInv
<1> QED
  BY <1>1, AlwaysIInv, PTL

\* At most one SDK client is open, and its objects are all there are.
THEOREM NoClientLeaks == Spec => []OneClientOpen
<1>1. ASSUME IInv PROVE OneClientOpen
  <2> DEFINE open == {w \in Call : client[w] # None}
  <2>1. CASE open = {}
    <3>1. Cardinality(open) = 0
      BY <2>1, FS_EmptySet
    <3> QED
      BY <1>1, <2>1, <3>1 DEF IInv, HandlesInv, OneClientOpen
  <2>2. CASE open # {}
    <3>1. PICK w \in Call : client[w] # None
      BY <2>2
    <3>2. open = {w}
      BY <1>1, <3>1 DEF IInv, SingleSdkUser
    <3>3. Cardinality(open) = 1
      BY <3>2, FS_Singleton
    <3> QED
      BY <1>1, <3>1, <3>3 DEF IInv, HandlesInv, OneClientOpen
  <2> QED
    BY <2>1, <2>2
<1> QED
  BY <1>1, AlwaysIInv, PTL

\* The request of a call that waits is in one place where it will be served.
THEOREM WaitingRequestsAreHeld == Spec => []WaitingIsHeld
<1>1. ASSUME KmsAssumption, IInv PROVE WaitingIsHeld
  <2> SUFFICES ASSUME NEW c \in Call, pc[c] = "waiting"
               PROVE  /\ published # None /\ wpc[published] \notin {"none", "exited"}
                      /\ InQueue(c, published) # (cur[published] = c)
                      /\ Cardinality({i \in 1..Len(queue[published]) : queue[published][i] = c}) <= 1
    BY DEF WaitingIsHeld
  <2> DEFINE q == queue[published]
             places == {i \in 1..Len(q) : q[i] = c}
  <2>1. published \in Call /\ wpc[published] \notin {"none", "exited"}
    BY <1>1 DEF IInv, TypeOK, PublishedInv, WorkerBusy
  <2>2. c # None
    BY <1>1 DEF KmsAssumption
  <2>3. InQueue(c, published) # (cur[published] = c)
    BY <1>1, <2>1, <2>2 DEF IInv, PlaceInv
  <2>4. Cardinality(places) <= 1
    <3>1. CASE places = {}
      BY <3>1, FS_EmptySet
    <3>2. CASE places # {}
      <4>1. PICK i \in 1..Len(q) : q[i] = c
        BY <3>2
      <4>2. places = {i}
        BY <1>1, <2>1, <4>1 DEF IInv, PlaceInv
      <4>3. Cardinality({i}) = 1
        BY FS_Singleton
      <4> HIDE DEF places
      <4> QED
        BY <4>2, <4>3
    <3> QED
      BY <3>1, <3>2
  <2> QED
    BY <2>1, <2>3, <2>4, <1>1 DEF KmsAssumption
<1>2. KmsAssumption
  BY KmsAssumption
<1> QED
  BY <1>1, <1>2, AlwaysIInv, PTL
=============================================================================
