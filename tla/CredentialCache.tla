---------------------------- MODULE CredentialCache ----------------------------
(***************************************************************************)
(* The parent's cache of IAM credentials (parent/src/imds.rs), shared by   *)
(* the concurrent /decrypt requests: a read-locked fast path, and a        *)
(* write-locked refresh that checks again, asks IMDS and falls back on the *)
(* cached credential when IMDS fails.                                      *)
(*                                                                         *)
(* Time is discrete.  A credential is the number of ticks it has left;     *)
(* "no credential" and "expired" are both 0, since the code treats them    *)
(* alike.  The requests that hold a credential are followed to the end of  *)
(* the enclave call they use it in.                                        *)
(***************************************************************************)
EXTENDS Naturals, Sequences, FiniteSets

CONSTANTS
  Request,        \* concurrent /decrypt requests
  NoRequest,      \* not a request
  FreshTtl,       \* lifetimes of the credentials IMDS hands out
  MaxTtl,         \* bound of the clock: the longest finite lifetime
  RefreshBuffer,  \* CREDENTIAL_REFRESH_BUFFER
  FallbackMin,    \* CREDENTIAL_FALLBACK_MIN_REMAINING
  HttpTimeout,    \* REQUEST_TIMEOUT of the HTTP server
  FetchBound,     \* how long IMDS, with its retries, takes to answer or fail
  UseBound        \* how long the enclave call may use the credential

Never == MaxTtl + 1   \* the lifetime of a credential without expiry

ASSUME CredentialAssumption ==
  /\ NoRequest \notin Request
  /\ {MaxTtl, RefreshBuffer, FallbackMin, HttpTimeout, FetchBound, UseBound} \subseteq Nat
  /\ FreshTtl \subseteq 1..Never
  /\ \A ttl \in FreshTtl : ttl > UseBound     \* IMDS hands out no dying credential
  /\ UseBound <= FallbackMin                  \* constants.rs:68-76
  /\ FallbackMin <= RefreshBuffer
  /\ RefreshBuffer < MaxTtl

VARIABLES
  cached,    \* remaining lifetime of CredentialCache.cached
  writer,    \* the request that holds the write lock across its fetch
  waiting,   \* the lock's FIFO queue of readers and writers
  pc,        \* where each request is
  age,       \* ticks the HTTP request, then the enclave call, has taken
  fetchAge,  \* ticks the IMDS fetch has taken
  cred       \* remaining lifetime of the credential the request uses

vars == <<cached, writer, waiting, pc, age, fetchAge, cred>>

Queued == {"read", "write"}
InHandler == Queued \cup {"slow", "fetching"}
Ended == {"failed", "timedout"}

-----------------------------------------------------------------------------
HasRemainingLifetime(ttl, buffer) == ttl > buffer

IsValid(ttl) == HasRemainingLifetime(ttl, RefreshBuffer)

HasMinLifetimeOfAny(ttl) == HasRemainingLifetime(ttl, 0)
HasMinLifetime(ttl) == HasRemainingLifetime(ttl, FallbackMin)

Elapse(ttl) == IF ttl \in {0, Never} THEN ttl ELSE ttl - 1

Init ==
  /\ cached = 0
  /\ writer = NoRequest
  /\ waiting = << >>
  /\ pc = [r \in Request |-> "idle"]
  /\ age = [r \in Request |-> 0]
  /\ fetchAge = [r \in Request |-> 0]
  /\ cred = [r \in Request |-> 0]

\* tokio's RwLock is fair: whoever asked first goes first.
CanEnter(r) == waiting # << >> /\ Head(waiting) = r /\ writer = NoRequest

\* get_credentials returns a credential; the enclave call starts with it.
Grant(r, ttl) ==
  /\ pc' = [pc EXCEPT ![r] = "using"]
  /\ cred' = [cred EXCEPT ![r] = ttl]
  /\ age' = [age EXCEPT ![r] = 0]

-----------------------------------------------------------------------------
\* A /decrypt request calls get_credentials, which asks for the read lock.
Arrive(r) ==
  /\ pc[r] = "idle"
  /\ pc' = [pc EXCEPT ![r] = "read"]
  /\ age' = [age EXCEPT ![r] = 0]
  /\ waiting' = Append(waiting, r)
  /\ UNCHANGED <<cached, writer, fetchAge, cred>>

\* The fast path; the read lock is given up before refresh is called.
FastPath(r) ==
  /\ pc[r] = "read"
  /\ CanEnter(r)
  /\ waiting' = Tail(waiting)
  /\ IF IsValid(cached)
       THEN Grant(r, cached)
       ELSE /\ pc' = [pc EXCEPT ![r] = "slow"]
            /\ UNCHANGED <<age, cred>>
  /\ UNCHANGED <<cached, writer, fetchAge>>

\* refresh asks for the write lock.
AskWrite(r) ==
  /\ pc[r] = "slow"
  /\ pc' = [pc EXCEPT ![r] = "write"]
  /\ waiting' = Append(waiting, r)
  /\ UNCHANGED <<cached, writer, age, fetchAge, cred>>

BeginFetch(r) ==
  /\ pc' = [pc EXCEPT ![r] = "fetching"]
  /\ writer' = r
  /\ fetchAge' = [fetchAge EXCEPT ![r] = 0]
  /\ UNCHANGED <<age, cred>>

WriteLockedNoDoubleCheck(r) ==
  /\ pc[r] = "write"
  /\ CanEnter(r)
  /\ waiting' = Tail(waiting)
  /\ BeginFetch(r)
  /\ UNCHANGED cached

WriteLockedForCheckOnly(r) ==
  /\ pc[r] = "write"
  /\ CanEnter(r)
  /\ waiting' = Tail(waiting)
  /\ IF IsValid(cached)
       THEN Grant(r, cached) /\ UNCHANGED <<writer, fetchAge>>
       ELSE /\ pc' = [pc EXCEPT ![r] = "fetching"]
            /\ fetchAge' = [fetchAge EXCEPT ![r] = 0]
            /\ UNCHANGED <<writer, age, cred>>
  /\ UNCHANGED cached

\* The double check under the write lock, which the fetch then keeps.
WriteLocked(r) ==
  /\ pc[r] = "write"
  /\ CanEnter(r)
  /\ waiting' = Tail(waiting)
  /\ IF IsValid(cached)
       THEN Grant(r, cached) /\ UNCHANGED <<writer, fetchAge>>
       ELSE BeginFetch(r)
  /\ UNCHANGED cached

EndFetch(r) ==
  /\ pc[r] = "fetching"
  /\ writer' = NoRequest
  /\ fetchAge' = [fetchAge EXCEPT ![r] = 0]
  /\ UNCHANGED waiting

\* IMDS answers: store the credential, whatever its lifetime, and use it.
FetchOk(r) ==
  /\ EndFetch(r)
  /\ \E ttl \in FreshTtl : cached' = ttl /\ Grant(r, ttl)

\* IMDS fails: fall back on the cached credential, which may have aged.
FetchErr(r) ==
  /\ EndFetch(r)
  /\ IF HasMinLifetime(cached)
       THEN Grant(r, cached)
       ELSE /\ pc' = [pc EXCEPT ![r] = "failed"]
            /\ UNCHANGED <<age, cred>>
  /\ UNCHANGED cached

\* A dropped acquire leaves the lock's queue, where it waits at most once.
Without(queue, r) ==
  IF \E i \in 1..Len(queue) : queue[i] = r
    THEN LET i == CHOOSE i \in 1..Len(queue) : queue[i] = r
         IN SubSeq(queue, 1, i - 1) \o SubSeq(queue, i + 1, Len(queue))
    ELSE queue

AbandonKeepsLock(r) ==
  /\ pc[r] \in InHandler
  /\ pc' = [pc EXCEPT ![r] = "timedout"]
  /\ waiting' = Without(waiting, r)
  /\ age' = [age EXCEPT ![r] = 0]
  /\ fetchAge' = [fetchAge EXCEPT ![r] = 0]
  /\ UNCHANGED <<cached, writer, cred>>

AbandonStaysQueued(r) ==
  /\ pc[r] \in InHandler
  /\ pc' = [pc EXCEPT ![r] = "timedout"]
  /\ writer' = IF writer = r THEN NoRequest ELSE writer
  /\ age' = [age EXCEPT ![r] = 0]
  /\ fetchAge' = [fetchAge EXCEPT ![r] = 0]
  /\ UNCHANGED <<cached, waiting, cred>>

\* The handler's future is dropped at an await: it leaves the lock's queue,
\* or drops the guard it holds.
Abandon(r) ==
  /\ pc[r] \in InHandler
  /\ pc' = [pc EXCEPT ![r] = "timedout"]
  /\ waiting' = Without(waiting, r)
  /\ writer' = IF writer = r THEN NoRequest ELSE writer
  /\ age' = [age EXCEPT ![r] = 0]
  /\ fetchAge' = [fetchAge EXCEPT ![r] = 0]
  /\ UNCHANGED <<cached, cred>>

\* REQUEST_TIMEOUT elapses.
Drop(r) == age[r] = HttpTimeout /\ Abandon(r)

\* The client goes away before that, and hyper drops its request.
Disconnect(r) == age[r] < HttpTimeout /\ Abandon(r)

\* The enclave call, or the error response, is over.
Done(r) ==
  /\ pc[r] \in Ended \cup {"using"}
  /\ pc' = [pc EXCEPT ![r] = "idle"]
  /\ age' = [age EXCEPT ![r] = 0]
  /\ cred' = [cred EXCEPT ![r] = 0]
  /\ UNCHANGED <<cached, writer, waiting, fetchAge>>

\* Time passes for everybody, but not past anybody's deadline.
Tick ==
  /\ \A r \in Request :
       /\ pc[r] \in InHandler => age[r] < HttpTimeout
       /\ pc[r] = "using" => age[r] < UseBound
       /\ pc[r] = "fetching" => fetchAge[r] < FetchBound
  /\ cached' = Elapse(cached)
  /\ cred' = [r \in Request |-> Elapse(cred[r])]
  /\ age' = [r \in Request |->
               IF pc[r] \in InHandler \cup {"using"} THEN age[r] + 1 ELSE age[r]]
  /\ fetchAge' = [r \in Request |->
                    IF pc[r] = "fetching" THEN fetchAge[r] + 1 ELSE fetchAge[r]]
  /\ UNCHANGED <<writer, waiting, pc>>

Step(r) ==
  \/ FastPath(r)
  \/ AskWrite(r)
  \/ WriteLocked(r)
  \/ FetchOk(r)
  \/ FetchErr(r)
  \/ Drop(r)
  \/ Disconnect(r)
  \/ Done(r)

Next == Tick \/ \E r \in Request : Arrive(r) \/ Step(r)

Spec == Init /\ [][Next]_vars

\* Time passes, and the runtime drops a request whose deadline is reached.
\* Nothing is assumed of IMDS.
FairSpec == Spec /\ WF_vars(Tick) /\ \A r \in Request : WF_vars(Drop(r)) /\ WF_vars(Done(r))

-----------------------------------------------------------------------------
(***************************************************************************)
(* At most one IMDS fetch is in flight, and it belongs to the request that *)
(* holds the write lock (imds.rs:140-185).                                 *)
(***************************************************************************)
SingleFetch == \A r \in Request : pc[r] = "fetching" <=> writer = r

(***************************************************************************)
(* Type correctness of the cache, the lock and the requests; and the lock  *)
(* is held by the request whose fetch is in flight, and by no other.       *)
(***************************************************************************)
TypeOK ==
  /\ cached \in 0..Never
  /\ writer \in Request \cup {NoRequest}
  /\ waiting \in Seq(Request)
  /\ pc \in [Request -> InHandler \cup Ended \cup {"idle", "using"}]
  /\ age \in [Request -> Nat]
  /\ fetchAge \in [Request -> Nat]
  /\ cred \in [Request -> 0..Never]
  /\ SingleFetch

(***************************************************************************)
(* The lock is waited for by the requests that wait for it, each once: a   *)
(* dropped request leaves nothing in the queue that would block the rest.  *)
(***************************************************************************)
QueueIsExact ==
  \A r \in Request :
    Cardinality({i \in 1..Len(waiting) : waiting[i] = r}) = IF pc[r] \in Queued THEN 1 ELSE 0

(***************************************************************************)
(* A credential never expires under the enclave call that uses it, however *)
(* long the request queued or IMDS took to fail before it was chosen       *)
(* (constants.rs:68-76, imds.rs:160-171).                                  *)
(***************************************************************************)
InUseOutlivesCall == \A r \in Request : pc[r] = "using" => cred[r] > 0

\* Why: what is left of the credential covers what is left of the call.
InUseCoversCall ==
  \A r \in Request : pc[r] = "using" => cred[r] + age[r] > UseBound /\ age[r] <= UseBound

(***************************************************************************)
(* No request fetches while the cache holds a valid credential, however    *)
(* many found it invalid at the same time (imds.rs:54-56, 144-150).        *)
(***************************************************************************)
NoRedundantFetch ==
  [][\A r \in Request :
       (pc[r] # "fetching" /\ pc'[r] = "fetching") => ~IsValid(cached)]_vars

(***************************************************************************)
(* A fetch that IMDS never answers does not keep the cache locked: its     *)
(* request is dropped and the lock with it.                                *)
(***************************************************************************)
LockIsFreed == \A r \in Request : writer = r ~> writer # r

CallOf(p) ==
  CASE p = "idle" -> "none"
    [] p \in InHandler -> "asked"
    [] p = "using" -> "served"
    [] p = "failed" -> "refused"
    [] p = "timedout" -> "late"

Cell == INSTANCE CredentialCell
          WITH cell <- cached, call <- [r \in Request |-> CallOf(pc[r])]

(***************************************************************************)
(* To its callers the cache is one credential: queueing, the second check  *)
(* and a fetch that takes as long as it likes are seen at one instant, at  *)
(* which the request is served what the cache holds, or a fresh one that   *)
(* the cache holds from then on, if there was too little left; and it is   *)
(* turned away only if there was too little left (imds.rs:88-185).         *)
(***************************************************************************)
ImplementsCell == Cell!Spec
=============================================================================
