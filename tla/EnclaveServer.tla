----------------------------- MODULE EnclaveServer -----------------------------
(***************************************************************************)
(* The enclave's server (enclave/src/main.rs): the accept loop with its    *)
(* connection counter, and the thread that handles each connection,        *)
(* composed with the KMS worker those threads call.                        *)
(*                                                                         *)
(* A connection makes at most one call of kms_decrypt, so connections are  *)
(* the calls of KmsWorker.  What a handler computes is in DecryptRequest,  *)
(* how frames cross the stream in DecryptPath; here a step of the handler  *)
(* succeeds or fails.  A release build aborts on panic (Cargo.toml), so a  *)
(* thread that cannot be spawned ends the process.                         *)
(***************************************************************************)
EXTENDS Naturals, Sequences, FiniteSets

CONSTANTS
  Conn,            \* vsock connections
  Key,             \* CredentialKey: region and access key id
  None,            \* no connection, no worker, no client
  QueueCap,        \* KMS_WORKER_QUEUE
  MaxConnections   \* MAX_CONCURRENT_CONNECTIONS

ASSUME ServerAssumption ==
  /\ None \notin Conn /\ None \notin Key
  /\ QueueCap \in Nat \ {0}
  /\ MaxConnections \in Nat \ {0}

VARIABLES
  conn,    \* where the thread of each connection is
  claim,   \* the connection the accept loop took a slot for
  prev,    \* what its fetch_add returned
  active,  \* active_connections
  up,      \* the process runs
  pc, key, result, published, queue, wpc, cur, client, answer, handles  \* of W

W == INSTANCE KmsWorker WITH Call <- Conn

kmsVars == <<pc, key, result, published, queue, wpc, cur, client, answer, handles>>
loopVars == <<claim, prev, active, up>>
vars == <<conn, loopVars, kmsVars>>

Handling == {"recv", "kms", "reply"}
Handlers == {c \in Conn : conn[c] \in Handling}

Init ==
  /\ conn = [c \in Conn |-> "idle"]
  /\ claim = None
  /\ prev = 0
  /\ active = 0
  /\ up = TRUE
  /\ W!Init

Goto(c, s) == conn' = [conn EXCEPT ![c] = s]

-----------------------------------------------------------------------------
(* The accept loop, which runs on the main thread.                         *)

\* A connection is accepted, its timeouts are set, and a slot is claimed.  A
\* failed accept and a stream whose timeouts cannot be set claim nothing.
Claim(c) ==
  /\ claim = None
  /\ conn[c] = "idle" /\ pc[c] = "idle"
  /\ claim' = c
  /\ prev' = active
  /\ active' = active + 1
  /\ UNCHANGED <<conn, up, kmsVars>>

AtLimitLate == prev > MaxConnections
AtLimit == prev >= MaxConnections

RejectKeepsSlot ==
  /\ claim # None
  /\ AtLimit
  /\ claim' = None
  /\ prev' = 0
  /\ UNCHANGED <<conn, active, up, kmsVars>>

\* The limit was reached: give the slot back and drop the stream.
Reject ==
  /\ claim # None
  /\ AtLimit
  /\ claim' = None
  /\ prev' = 0
  /\ active' = active - 1
  /\ UNCHANGED <<conn, up, kmsVars>>

SpawnHandler ==
  /\ claim # None
  /\ ~AtLimit
  /\ Goto(claim, "recv")
  /\ claim' = None
  /\ prev' = 0
  /\ UNCHANGED <<active, up, kmsVars>>

\* thread::spawn panics when the thread cannot be created, which aborts the
\* process: every stream is closed.
SpawnPanics ==
  /\ claim # None
  /\ ~AtLimit
  /\ up' = FALSE
  /\ conn' = [c \in Conn |-> "idle"]
  /\ claim' = None
  /\ prev' = 0
  /\ active' = 0
  /\ UNCHANGED kmsVars

-----------------------------------------------------------------------------
(* handle_client, on the thread of the connection.                         *)

\* A request arrived and passed the checks; get_secret_key calls kms_decrypt.
Receive(c) ==
  /\ conn[c] = "recv"
  /\ Goto(c, "kms")
  /\ pc' = [pc EXCEPT ![c] = "get"]
  /\ \E k \in Key : key' = [key EXCEPT ![c] = k]
  /\ UNCHANGED <<loopVars, result, published, queue, wpc, cur, client, answer, handles>>

\* No frame in time, a bad frame, too many expressions, an invalid request.
ReceiveFails(c) ==
  /\ conn[c] = "recv"
  /\ Goto(c, "reply")
  /\ UNCHANGED <<loopVars, kmsVars>>

\* kms_decrypt returned: the fields are decrypted and transformed, or there is
\* an error to send.
KeyReceived(c) ==
  /\ conn[c] = "kms"
  /\ pc[c] \in W!Ended
  /\ Goto(c, "reply")
  /\ UNCHANGED <<loopVars, kmsVars>>

ReplyKeepsSlot(c) ==
  /\ conn[c] = "reply"
  /\ Goto(c, "idle")
  /\ active' = IF result[c] = "err" THEN active ELSE active - 1
  /\ UNCHANGED <<claim, prev, up, kmsVars>>

\* The response or the error is sent, or sending fails; handle_client returns,
\* and the thread gives its slot back and ends.
Reply(c) ==
  /\ conn[c] = "reply"
  /\ Goto(c, "idle")
  /\ active' = active - 1
  /\ UNCHANGED <<claim, prev, up, kmsVars>>

-----------------------------------------------------------------------------
Main == Reject \/ SpawnHandler

Handler(c) ==
  Receive(c) \/ ReceiveFails(c) \/ KeyReceived(c) \/ Reply(c)

\* The steps of kms_decrypt and of the worker threads.  What a call returned
\* is there until its handler has taken it.
Kms(A) == up /\ A /\ UNCHANGED <<conn, loopVars>>
Calling(c) == Kms(W!Caller(c)) /\ (pc[c] \in W!Ended => conn[c] = "idle")

Next ==
  \/ up /\ (Main \/ SpawnPanics)
  \/ \E c \in Conn :
       \/ up /\ (Claim(c) \/ Handler(c))
       \/ Calling(c) \/ Kms(W!Timeout(c)) \/ Kms(W!Local(c)) \/ Kms(W!Decrypt(c))

Spec == Init /\ [][Next]_vars

(***************************************************************************)
(* Threads run when they can; a receive and a send end because the stream  *)
(* has timeouts; a blocked sender is let in in its turn; recv_timeout      *)
(* elapses.  A KMS call may never end.  No connection needs more than that *)
(* some thread goes on, which is less than the scheduler promises.         *)
(***************************************************************************)
Thread(c) == (up /\ Handler(c)) \/ Calling(c) \/ Kms(W!Timeout(c))

FairSpec ==
  /\ Spec
  /\ WF_vars(up /\ Main)
  /\ WF_vars(\E c \in Conn : Thread(c))
  /\ SF_vars(\E c \in Conn : Kms(W!Send(c)))
  /\ WF_vars(\E c \in Conn : Kms(W!Local(c)))

\* KMS calls end: the SDK has a (long) timeout of its own.
KmsCallsEnd == WF_vars(\E c \in Conn : Kms(W!Decrypt(c)))

-----------------------------------------------------------------------------
\* Type correctness of the accept loop and its threads.
TypeOK ==
  /\ conn \in [Conn -> {"idle"} \cup Handling]
  /\ claim \in Conn \cup {None}
  /\ prev \in 0..MaxConnections
  /\ active \in 0..(MaxConnections + 1)
  /\ up \in BOOLEAN

(***************************************************************************)
(* A slot is held by each handler and by the connection being accepted,    *)
(* and by nobody else, on every path of handle_client (main.rs:176-194).   *)
(***************************************************************************)
SlotsAreExact == active = Cardinality(Handlers) + (IF claim = None THEN 0 ELSE 1)

(***************************************************************************)
(* However claims, rejections and releases interleave, no more than        *)
(* MAX_CONCURRENT_CONNECTIONS threads handle connections, and what         *)
(* fetch_add returned never understates those alive at the test, so the    *)
(* test cannot let one too many in (main.rs:166-186).                      *)
(***************************************************************************)
WithinLimit ==
  /\ Cardinality(Handlers) <= MaxConnections
  /\ claim # None => Cardinality(Handlers) <= prev

(***************************************************************************)
(* The server uses the KMS worker as KmsWorker assumes: one call per       *)
(* connection, never more than the limit at once (main.rs:177, mod.rs:97). *)
(***************************************************************************)
ImplementsKmsWorker == W!Spec

(***************************************************************************)
(* As long as KMS calls end, the server never stays full: handlers give    *)
(* their slots back, those too that wait for room in a channel filled by   *)
(* abandoned requests (main.rs:189-195, mod.rs:383-396).                   *)
(***************************************************************************)
NeverStaysFull ==
  KmsCallsEnd => (active >= MaxConnections ~> (active < MaxConnections \/ ~up))
=============================================================================
