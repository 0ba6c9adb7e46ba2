------------------------------- MODULE KmsWorker -------------------------------
(***************************************************************************)
(* The enclave's KMS worker (enclave/src/aws_ne/mod.rs): calls of          *)
(* kms_decrypt from the connection threads, the lazily spawned worker      *)
(* thread behind a bounded channel, the race to publish its sender, and    *)
(* the KMS client the worker caches.                                       *)
(*                                                                         *)
(* A call is one invocation of kms_decrypt.  Its identifier is used again  *)
(* only once neither the channel nor the worker remembers it, so that a    *)
(* call that gave up and its queued request are told apart from the next.  *)
(* A worker is named after the call that spawned it.                       *)
(***************************************************************************)
EXTENDS Naturals, Sequences, FiniteSets

CONSTANTS
  Call,            \* invocations of kms_decrypt
  Key,             \* CredentialKey: region and access key id
  None,            \* no call, no worker, no client
  QueueCap,        \* KMS_WORKER_QUEUE
  MaxConnections   \* MAX_CONCURRENT_CONNECTIONS: one call per connection

ASSUME KmsAssumption ==
  /\ None \notin Call /\ None \notin Key
  /\ QueueCap \in Nat \ {0}
  /\ MaxConnections \in Nat \ {0}

VARIABLES
  pc,         \* where each call is
  key,        \* the CredentialKey each call brings
  result,     \* what each call returned: the key that decrypted, or "err"
  published,  \* KMS_WORKER: the worker whose sender was published
  queue,      \* the channel of each worker
  wpc,        \* where each worker thread is
  cur,        \* the request each worker handles
  client,     \* the key of each worker's cached client
  answer,     \* the result each worker is about to send
  handles     \* how many SDK objects of each kind were made and not destroyed

vars == <<pc, key, result, published, queue, wpc, cur, client, answer, handles>>

callVars == <<pc, key, result>>
workerVars == <<wpc, cur, client, answer, handles>>

Ended == {"returned", "timedout"}
Active == {"get", "spawn", "publish", "send", "waiting"}
WorkerBusy == {"handle", "build", "decrypt", "reply"}

InQueue(c, w) == \E i \in 1..Len(queue[w]) : queue[w][i] = c
Remembered(c) == \E w \in Call : InQueue(c, w) \/ cur[w] = c

(***************************************************************************)
(* KmsResources: the SDK objects behind a client, made in this order.  The *)
(* pointers that are not null are those of a prefix.                       *)
(***************************************************************************)
AllocOrder == <<"region", "access_key_id", "secret_access_key", "session_token",
                "config", "client">>
Handle == {"region", "access_key_id", "secret_access_key", "session_token",
           "config", "client"}
PartlyBuilt == {{AllocOrder[i] : i \in 1..n} : n \in 0..5}

Allocate(hs, S) == [h \in Handle |-> IF h \in S THEN hs[h] + 1 ELSE hs[h]]

\* cleanup(): destroy what is not null and null it.
Cleanup(hs, S) == [h \in Handle |-> IF h \in S THEN hs[h] - 1 ELSE hs[h]]

Init ==
  /\ pc = [c \in Call |-> "idle"]
  /\ key = [c \in Call |-> None]
  /\ result = [c \in Call |-> "none"]
  /\ published = None
  /\ queue = [w \in Call |-> << >>]
  /\ wpc = [w \in Call |-> "none"]
  /\ cur = [w \in Call |-> None]
  /\ client = [w \in Call |-> None]
  /\ answer = [w \in Call |-> "none"]
  /\ handles = [h \in Handle |-> 0]

-----------------------------------------------------------------------------
(* The calling threads.                                                    *)

Return(c, r) ==
  /\ pc' = [pc EXCEPT ![c] = "returned"]
  /\ result' = [result EXCEPT ![c] = r]

\* A connection thread needs the vault's private key and calls kms_decrypt.
Start(c) ==
  /\ pc[c] = "idle"
  /\ Cardinality({d \in Call : pc[d] \in Active}) < MaxConnections
  /\ pc' = [pc EXCEPT ![c] = "get"]
  /\ \E k \in Key : key' = [key EXCEPT ![c] = k]
  /\ UNCHANGED <<result, published, queue, workerVars>>

\* KMS_WORKER.get()
Get(c) ==
  /\ pc[c] = "get"
  /\ pc' = [pc EXCEPT ![c] = IF published = None THEN "spawn" ELSE "send"]
  /\ UNCHANGED <<key, result, published, queue, workerVars>>

SpawnWorker(c) ==
  /\ pc[c] = "spawn"
  /\ wpc[c] \in {"none", "exited"}
  /\ wpc' = [wpc EXCEPT ![c] = "idle"]
  /\ pc' = [pc EXCEPT ![c] = "publish"]
  /\ UNCHANGED <<key, result, published, queue, cur, client, answer, handles>>

\* thread::Builder::spawn fails: nothing is cached.
SpawnFails(c) ==
  /\ pc[c] = "spawn"
  /\ Return(c, "err")
  /\ UNCHANGED <<key, published, queue, workerVars>>

PublishOverwrites(c) ==
  /\ pc[c] = "publish"
  /\ published' = c
  /\ pc' = [pc EXCEPT ![c] = "send"]
  /\ UNCHANGED <<key, result, queue, workerVars>>

\* KMS_WORKER.get_or_init: the first sender stays, the loser's is dropped.
Publish(c) ==
  /\ pc[c] = "publish"
  /\ published' = IF published = None THEN c ELSE published
  /\ pc' = [pc EXCEPT ![c] = "send"]
  /\ UNCHANGED <<key, result, queue, workerVars>>

SendUnbounded(c) ==
  /\ pc[c] = "send"
  /\ queue' = [queue EXCEPT ![published] = Append(@, c)]
  /\ pc' = [pc EXCEPT ![c] = "waiting"]
  /\ UNCHANGED <<key, result, published, workerVars>>

\* The blocking send: it waits while the channel is full.
Send(c) ==
  /\ pc[c] = "send"
  /\ Len(queue[published]) < QueueCap
  /\ queue' = [queue EXCEPT ![published] = Append(@, c)]
  /\ pc' = [pc EXCEPT ![c] = "waiting"]
  /\ UNCHANGED <<key, result, published, workerVars>>

\* recv_timeout elapses: the receiver is dropped, the request stays queued.
Timeout(c) ==
  /\ pc[c] = "waiting"
  /\ pc' = [pc EXCEPT ![c] = "timedout"]
  /\ result' = [result EXCEPT ![c] = "err"]
  /\ UNCHANGED <<key, published, queue, workerVars>>

\* The call is over and forgotten; its identifier is free again.
Forget(c) ==
  /\ pc[c] \in Ended
  /\ ~Remembered(c)
  /\ pc' = [pc EXCEPT ![c] = "idle"]
  /\ key' = [key EXCEPT ![c] = None]
  /\ result' = [result EXCEPT ![c] = "none"]
  /\ UNCHANGED <<published, queue, workerVars>>

-----------------------------------------------------------------------------
(* The worker threads.                                                     *)

HasSender(w) == published = w \/ pc[w] = "publish"

NeedsRebuildIfNone(w, c) == client[w] = None
NeedsRebuild(w, c) == client[w] # key[c]

\* rx.recv(); a client of other credentials is torn down before the new one
\* is built.
Take(w) ==
  /\ wpc[w] = "idle"
  /\ queue[w] # << >>
  /\ LET c == Head(queue[w]) IN
       /\ cur' = [cur EXCEPT ![w] = c]
       /\ queue' = [queue EXCEPT ![w] = Tail(@)]
       /\ wpc' = [wpc EXCEPT ![w] = IF NeedsRebuild(w, c) THEN "handle" ELSE "decrypt"]
  /\ UNCHANGED <<callVars, published, client, answer, handles>>

\* cached.take() and cleanup() of the old client, if there is one.
TearDown(w) ==
  /\ wpc[w] = "handle"
  /\ wpc' = [wpc EXCEPT ![w] = "build"]
  /\ client' = [client EXCEPT ![w] = None]
  /\ handles' = IF client[w] = None THEN handles ELSE Cleanup(handles, Handle)
  /\ UNCHANGED <<callVars, published, queue, cur, answer>>

\* build_cached_client: each object is made from the ones before it.
BuildClient(w) ==
  /\ wpc[w] = "build"
  /\ wpc' = [wpc EXCEPT ![w] = "decrypt"]
  /\ client' = [client EXCEPT ![w] = key[cur[w]]]
  /\ handles' = Allocate(handles, Handle)
  /\ UNCHANGED <<callVars, published, queue, cur, answer>>

BuildFailsLeaking(w) ==
  /\ wpc[w] = "build"
  /\ wpc' = [wpc EXCEPT ![w] = "reply"]
  /\ answer' = [answer EXCEPT ![w] = "err"]
  /\ \E S \in PartlyBuilt : handles' = Allocate(handles, S)
  /\ UNCHANGED <<callVars, published, queue, cur, client>>

\* A step returns null: cleanup() destroys what was made, and nothing is cached.
BuildFails(w) ==
  /\ wpc[w] = "build"
  /\ wpc' = [wpc EXCEPT ![w] = "reply"]
  /\ answer' = [answer EXCEPT ![w] = "err"]
  /\ \E S \in PartlyBuilt : handles' = Cleanup(Allocate(handles, S), S)
  /\ UNCHANGED <<callVars, published, queue, cur, client>>

\* aws_kms_decrypt_blocking returns; a failure keeps the client.
Decrypt(w) ==
  /\ wpc[w] = "decrypt"
  /\ wpc' = [wpc EXCEPT ![w] = "reply"]
  /\ \E r \in {client[w], "err"} : answer' = [answer EXCEPT ![w] = r]
  /\ UNCHANGED <<callVars, published, queue, cur, client, handles>>

\* response_tx.send: a caller that gave up is ignored.
Reply(w) ==
  /\ wpc[w] = "reply"
  /\ wpc' = [wpc EXCEPT ![w] = "idle"]
  /\ cur' = [cur EXCEPT ![w] = None]
  /\ answer' = [answer EXCEPT ![w] = "none"]
  /\ IF pc[cur[w]] = "waiting"
       THEN Return(cur[w], answer[w])
       ELSE UNCHANGED <<pc, result>>
  /\ UNCHANGED <<key, published, queue, client, handles>>

\* recv() fails once the last sender is gone and the channel is empty.
WorkerExits(w) ==
  /\ wpc[w] = "idle"
  /\ queue[w] = << >>
  /\ ~HasSender(w)
  /\ wpc' = [wpc EXCEPT ![w] = "exited"]
  /\ UNCHANGED <<callVars, published, queue, cur, client, answer, handles>>

-----------------------------------------------------------------------------
Caller(c) ==
  Get(c) \/ SpawnWorker(c) \/ SpawnFails(c) \/ Publish(c) \/ Send(c) \/ Forget(c)

Local(w) ==
  Take(w) \/ TearDown(w) \/ BuildClient(w) \/ BuildFails(w) \/ Reply(w) \/ WorkerExits(w)

Next ==
  \/ \E c \in Call : Start(c) \/ Caller(c) \/ Timeout(c)
  \/ \E w \in Call : Local(w) \/ Decrypt(w)

Spec == Init /\ [][Next]_vars

-----------------------------------------------------------------------------
(* Type correctness of the calls, the channels and the workers. *)
TypeOK ==
  /\ pc \in [Call -> {"idle"} \cup Active \cup Ended]
  /\ key \in [Call -> Key \cup {None}]
  /\ result \in [Call -> Key \cup {"none", "err"}]
  /\ published \in Call \cup {None}
  /\ queue \in [Call -> Seq(Call)]
  /\ \A w \in Call : Len(queue[w]) <= QueueCap
  /\ wpc \in [Call -> {"none", "idle", "exited"} \cup WorkerBusy]
  /\ cur \in [Call -> Call \cup {None}]
  /\ client \in [Call -> Key \cup {None}]
  /\ answer \in [Call -> Key \cup {"none", "err"}]
  /\ handles \in [Handle -> Nat]

(***************************************************************************)
(* However many threads race to start it, one worker thread ever uses the  *)
(* SDK: every other one dies without handling a request (mod.rs:144-174).  *)
(***************************************************************************)
SingleSdkUser ==
  \A w \in Call : (wpc[w] \in WorkerBusy \/ queue[w] # << >> \/ client[w] # None)
                    => published = w

(***************************************************************************)
(* The SDK never holds two clients open, and no object of a client is      *)
(* leaked, over any sequence of rotations, builds that fail at any step    *)
(* and failed decrypts (mod.rs:185-195, 273-312, 408-478).                 *)
(***************************************************************************)
OneClientOpen ==
  \A h \in Handle :
    /\ handles[h] <= 1
    /\ handles[h] = Cardinality({w \in Call : client[w] # None})

(***************************************************************************)
(* A call is answered by a decryption under its own credentials or by an   *)
(* error, whatever stale requests were served before it (mod.rs:177-201).  *)
(***************************************************************************)
AnsweredUnderOwnKey == \A c \in Call : result[c] \in {"none", "err", key[c]}

(***************************************************************************)
(* A call that waits for its answer has its request in the published       *)
(* worker's channel or in its hands, once (mod.rs:386-396).                *)
(***************************************************************************)
WaitingIsHeld ==
  \A c \in Call : pc[c] = "waiting" =>
    /\ published # None /\ wpc[published] \notin {"none", "exited"}
    /\ InQueue(c, published) # (cur[published] = c)
    /\ Cardinality({i \in 1..Len(queue[published]) : queue[published][i] = c}) <= 1
=============================================================================
