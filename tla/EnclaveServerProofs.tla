-------------------------- MODULE EnclaveServerProofs --------------------------
(***************************************************************************)
(* Proofs about the enclave's server, for any number of connections, any   *)
(* limit and any capacity of the KMS worker's channel.                     *)
(***************************************************************************)
EXTENDS EnclaveServer, FiniteSetTheorems, TLAPS

-----------------------------------------------------------------------------
(* The inductive invariant.                                                *)

SlotInv ==
  /\ conn \in [Conn -> {"idle"} \cup Handling]
  /\ claim \in Conn \cup {None}
  /\ IsFiniteSet(Handlers)
  /\ prev \in Nat
  /\ claim # None => conn[claim] = "idle" /\ Cardinality(Handlers) <= prev
                     /\ prev <= MaxConnections
  /\ claim = None => prev = 0
  /\ Cardinality(Handlers) <= MaxConnections
  /\ SlotsAreExact
  /\ up \in BOOLEAN

\* A connection calls KMS just while its handler waits for it.
CallInv ==
  /\ pc \in [Conn -> {"idle"} \cup W!Active \cup W!Ended]
  /\ up => \A c \in Conn : /\ pc[c] \in W!Active => conn[c] = "kms"
                           /\ conn[c] = "recv" => pc[c] = "idle"
                           /\ claim = c => pc[c] = "idle"

Inv == SlotInv /\ CallInv

-----------------------------------------------------------------------------
LEMMA SameCardinality == \A S : W!Cardinality(S) = Cardinality(S)
  BY DEF W!Cardinality, Cardinality

LEMMA InitInv == ServerAssumption /\ Init => Inv
<1> SUFFICES ASSUME ServerAssumption, Init PROVE Inv
  OBVIOUS
<1>1. Handlers = {}
  BY DEF Init, Handlers, Handling
<1>2. IsFiniteSet(Handlers) /\ Cardinality(Handlers) = 0
  BY <1>1, FS_EmptySet
<1> QED
  BY <1>2 DEF Init, W!Init, Inv, SlotInv, CallInv, SlotsAreExact, Handling, ServerAssumption,
     W!Active, W!Ended

\* The steps of kms_decrypt and of the workers start no call, and leave alone
\* what is idle.
LEMMA KmsSteps ==
  ASSUME CallInv, NEW c \in Conn,
         W!Caller(c) \/ W!Timeout(c) \/ W!Local(c) \/ W!Decrypt(c)
  PROVE  /\ pc' \in [Conn -> {"idle"} \cup W!Active \cup W!Ended]
         /\ \A d \in Conn : pc'[d] \in W!Active => pc[d] \in W!Active
         /\ \A d \in Conn : pc[d] = "idle" => pc'[d] = "idle"
<1> USE DEF CallInv, W!Active, W!Ended
<1>1. CASE W!Get(c)
  BY <1>1 DEF W!Get
<1>2. CASE W!SpawnWorker(c) \/ W!Publish(c) \/ W!Send(c)
  BY <1>2 DEF W!SpawnWorker, W!Publish, W!Send
<1>3. CASE W!SpawnFails(c) \/ W!Timeout(c) \/ W!Forget(c)
  BY <1>3 DEF W!SpawnFails, W!Timeout, W!Forget, W!Return
<1>4. CASE W!Take(c) \/ W!TearDown(c) \/ W!BuildClient(c) \/ W!BuildFails(c) \/ W!Decrypt(c) \/ W!WorkerExits(c)
  BY <1>4 DEF W!Take, W!TearDown, W!BuildClient, W!BuildFails, W!Decrypt, W!WorkerExits, W!callVars
<1>5. CASE W!Reply(c)
  <2>1. CASE pc[cur[c]] = "waiting"
    BY <1>5, <2>1 DEF W!Reply, W!Return
  <2>2. CASE pc[cur[c]] # "waiting"
    BY <1>5, <2>2 DEF W!Reply
  <2> QED
    BY <2>1, <2>2
<1> QED
  BY <1>1, <1>2, <1>3, <1>4, <1>5 DEF W!Caller, W!Local

LEMMA SlotStep ==
  ASSUME ServerAssumption, SlotInv, [Next]_vars
  PROVE  SlotInv'
<1> DEFINE n == Cardinality(Handlers)
<1> USE DEF SlotInv, SlotsAreExact, ServerAssumption, Handling
<1>0. n \in Nat
  BY FS_CardinalityType
<1>1. ASSUME UNCHANGED <<conn, loopVars>> PROVE SlotInv'
  BY <1>1 DEF loopVars, Handlers
<1>2. ASSUME NEW c \in Conn, Claim(c) PROVE SlotInv'
  <2>1. Handlers' = Handlers
    BY <1>2 DEF Claim, Handlers
  <2> QED
    BY <1>0, <1>2, <2>1 DEF Claim
<1>3. CASE Reject
  <2>1. Handlers' = Handlers
    BY <1>3 DEF Reject, Handlers
  <2> QED
    BY <1>0, <1>3, <2>1 DEF Reject
<1>4. CASE SpawnHandler
  <2>1. Handlers' = Handlers \cup {claim} /\ claim \notin Handlers
    BY <1>4 DEF SpawnHandler, Goto, Handlers
  <2>2. IsFiniteSet(Handlers') /\ Cardinality(Handlers') = n + 1
    BY <2>1, FS_AddElement
  <2> QED
    BY <1>0, <1>4, <2>2 DEF SpawnHandler, Goto, AtLimit
<1>5. CASE SpawnPanics
  <2>1. Handlers' = {}
    BY <1>5 DEF SpawnPanics, Handlers
  <2>2. IsFiniteSet(Handlers') /\ Cardinality(Handlers') = 0
    BY <2>1, FS_EmptySet
  <2>3. /\ conn' \in [Conn -> {"idle"} \cup Handling] /\ claim' = None /\ prev' = 0 /\ active' = 0
        /\ up' = FALSE
    BY <1>5 DEF SpawnPanics
  <2>4. SlotsAreExact'
    BY <2>2, <2>3
  <2>5. Cardinality(Handlers') <= MaxConnections
    BY <2>2
  <2> HIDE DEF SlotsAreExact, Handling
  <2> QED
    BY <2>2, <2>3, <2>4, <2>5
<1>6. ASSUME NEW c \in Conn, Receive(c) \/ ReceiveFails(c) \/ KeyReceived(c) PROVE SlotInv'
  <2>1. /\ conn[c] \in Handling /\ conn' = [conn EXCEPT ![c] = conn'[c]] /\ conn'[c] \in Handling
        /\ UNCHANGED loopVars
    BY <1>6 DEF Receive, ReceiveFails, KeyReceived, Goto
  <2>2. Handlers' = Handlers
    BY <2>1 DEF Handlers
  <2>3. claim # None => conn'[claim] = conn[claim]
    BY <2>1
  <2> QED
    BY <2>1, <2>2, <2>3 DEF loopVars
<1>7. ASSUME NEW c \in Conn, Reply(c) PROVE SlotInv'
  <2>1. Handlers' = Handlers \ {c} /\ c \in Handlers
    BY <1>7 DEF Reply, Goto, Handlers
  <2>2. IsFiniteSet(Handlers') /\ Cardinality(Handlers') = n - 1
    BY <2>1, FS_RemoveElement
  <2> QED
    BY <1>0, <1>7, <2>2 DEF Reply, Goto
<1> QED
  BY <1>1, <1>2, <1>3, <1>4, <1>5, <1>6, <1>7 DEF Next, Main, Handler, Calling, Kms, vars

LEMMA CallStep ==
  ASSUME ServerAssumption, SlotInv, CallInv, [Next]_vars
  PROVE  CallInv'
<1> USE DEF CallInv, Handling
<1>1. ASSUME UNCHANGED vars PROVE CallInv'
  BY <1>1 DEF vars, loopVars, kmsVars
<1>2. ASSUME NEW c \in Conn, Claim(c) PROVE CallInv'
  BY <1>2 DEF Claim, kmsVars
<1>3. CASE Reject
  BY <1>3 DEF Reject, kmsVars, ServerAssumption
<1>4. CASE SpawnHandler
  <2>1. claim \in Conn /\ UNCHANGED <<pc, up>> /\ claim' = None
    BY <1>4 DEF SpawnHandler, SlotInv, kmsVars
  <2>2. conn' = [conn EXCEPT ![claim] = "recv"] /\ conn[claim] = "idle"
    BY <1>4 DEF SpawnHandler, Goto, SlotInv
  <2>3. up => pc[claim] = "idle" /\ pc[claim] \notin W!Active
    BY <2>1 DEF W!Active
  <2> QED
    BY <2>1, <2>2, <2>3 DEF SlotInv, ServerAssumption
<1>5. CASE SpawnPanics
  BY <1>5 DEF SpawnPanics, kmsVars
<1>6. ASSUME NEW c \in Conn, Receive(c) PROVE CallInv'
  <2>1. conn[c] = "recv" /\ conn' = [conn EXCEPT ![c] = "kms"] /\ pc' = [pc EXCEPT ![c] = "get"]
        /\ UNCHANGED <<claim, up>>
    BY <1>6 DEF Receive, Goto, loopVars
  <2>2. claim # c
    BY <2>1 DEF SlotInv, ServerAssumption
  <2> QED
    BY <2>1, <2>2 DEF SlotInv, W!Active
<1>7. ASSUME NEW c \in Conn, ReceiveFails(c) \/ KeyReceived(c) \/ Reply(c) PROVE CallInv'
  <2>1. conn' = [conn EXCEPT ![c] = conn'[c]] /\ conn'[c] \in {"reply", "idle"} /\ UNCHANGED <<pc, claim, up>>
    BY <1>7 DEF ReceiveFails, KeyReceived, Reply, Goto, loopVars, kmsVars, SlotInv
  <2>2. up => pc[c] \notin W!Active
    <3>1. CASE ReceiveFails(c) \/ Reply(c)
      BY <3>1 DEF ReceiveFails, Reply
    <3>2. CASE KeyReceived(c)
      BY <3>2 DEF KeyReceived, W!Active, W!Ended
    <3> QED
      BY <1>7, <3>1, <3>2
  <2> QED
    BY <2>1, <2>2 DEF SlotInv
<1>8. ASSUME NEW c \in Conn, W!Caller(c) \/ W!Timeout(c) \/ W!Local(c) \/ W!Decrypt(c),
             UNCHANGED <<conn, loopVars>>
      PROVE  CallInv'
  BY <1>8, KmsSteps DEF loopVars
<1> QED
  BY <1>1, <1>2, <1>3, <1>4, <1>5, <1>6, <1>7, <1>8 DEF Next, Main, Handler, Calling, Kms

LEMMA AlwaysInv == Spec => []Inv
<1>1. ServerAssumption
  BY ServerAssumption
<1>2. ServerAssumption /\ Inv /\ [Next]_vars => Inv'
  BY SlotStep, CallStep DEF Inv
<1> QED
  BY <1>1, <1>2, InitInv, PTL DEF Spec

-----------------------------------------------------------------------------
(* The theorems.                                                           *)

\* On every path a handler gives back the one slot that was taken for it.
THEOREM SlotsAreNeverLost == Spec => []SlotsAreExact
<1>1. Inv => SlotsAreExact
  BY DEF Inv, SlotInv
<1> QED
  BY <1>1, AlwaysInv, PTL

\* No more handlers run than the limit allows.
THEOREM LimitHolds == Spec => []WithinLimit
<1>1. Inv => WithinLimit
  BY DEF Inv, SlotInv, WithinLimit
<1> QED
  BY <1>1, AlwaysInv, PTL

\* The state of the accept loop keeps its type.
THEOREM ServerTypeCorrect == Spec => []TypeOK
<1>1. ASSUME ServerAssumption, Inv PROVE TypeOK
  <2>1. Cardinality(Handlers) \in Nat
    BY <1>1, FS_CardinalityType DEF Inv, SlotInv
  <2> QED
    BY <1>1, <2>1 DEF Inv, SlotInv, SlotsAreExact, TypeOK, ServerAssumption
<1>2. ServerAssumption
  BY ServerAssumption
<1> QED
  BY <1>1, <1>2, AlwaysInv, PTL

\* The server keeps to what KmsWorker takes for granted of its callers: every
\* step of the server is a step of that module, or leaves it alone.
THEOREM ServerUsesKmsWorker == Spec => ImplementsKmsWorker
<1>1. Init => W!Init
  BY DEF Init
<1>2. ASSUME ServerAssumption, Inv, [Next]_vars PROVE [W!Next]_W!vars
  <2>1. CASE UNCHANGED kmsVars
    BY <2>1 DEF kmsVars, W!vars
  <2>2. ASSUME up, NEW c \in Conn, Receive(c) PROVE W!Start(c)
    <3> DEFINE calling == {d \in Conn : pc[d] \in W!Active}
    <3>1. conn[c] = "recv" /\ pc[c] = "idle" /\ c \in Handlers
      BY <1>2, <2>2 DEF Receive, Inv, CallInv, Handlers, Handling
    <3>2. calling \subseteq Handlers \ {c}
      BY <1>2, <2>2, <3>1 DEF Inv, CallInv, Handlers, Handling
    <3>3. IsFiniteSet(Handlers) /\ Cardinality(Handlers) <= MaxConnections
      BY <1>2 DEF Inv, SlotInv
    <3>4. IsFiniteSet(Handlers \ {c}) /\ Cardinality(Handlers \ {c}) = Cardinality(Handlers) - 1
      BY <3>1, <3>3, FS_RemoveElement
    <3>5. IsFiniteSet(calling) /\ Cardinality(calling) <= Cardinality(Handlers \ {c})
      BY <3>2, <3>4, FS_Subset
    <3>6. Cardinality(Handlers) \in Nat /\ Cardinality(calling) \in Nat
      BY <3>3, <3>5, FS_CardinalityType
    <3>7. Cardinality(calling) < MaxConnections
      BY <3>3, <3>4, <3>5, <3>6, <1>2 DEF ServerAssumption
    <3>8. /\ pc' = [pc EXCEPT ![c] = "get"]
          /\ \E k \in Key : key' = [key EXCEPT ![c] = k]
          /\ UNCHANGED <<result, published, queue, W!workerVars>>
      BY <2>2 DEF Receive, W!workerVars
    <3> QED
      BY <3>1, <3>7, <3>8, SameCardinality DEF W!Start
  <2>3. ASSUME Main \/ SpawnPanics PROVE UNCHANGED kmsVars
    BY <2>3 DEF Main, Reject, SpawnHandler, SpawnPanics
  <2>4. ASSUME NEW c \in Conn, Claim(c) \/ ReceiveFails(c) \/ KeyReceived(c) \/ Reply(c)
        PROVE  UNCHANGED kmsVars
    BY <2>4 DEF Claim, ReceiveFails, KeyReceived, Reply
  <2> QED
    BY <1>2, <2>1, <2>2, <2>3, <2>4 DEF Next, Handler, Calling, Kms, W!Next, vars
<1>3. ServerAssumption
  BY ServerAssumption
<1> QED
  BY <1>1, <1>2, <1>3, AlwaysInv, PTL DEF Spec, ImplementsKmsWorker, W!Spec
=============================================================================
