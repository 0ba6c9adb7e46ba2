------------------------ MODULE CredentialCacheProofs ------------------------
(***************************************************************************)
(* Proofs about CredentialCache, for any set of requests and any durations *)
(* in the order CredentialAssumption asks for:                             *)
(*   - one IMDS fetch at a time, by the holder of the write lock;          *)
(*   - no fetch while the cache holds a valid credential;                  *)
(*   - no credential expires under the call that uses it;                  *)
(*   - the lock's queue holds those that wait for it, each once;           *)
(*   - the cache implements CredentialCell.                                *)
(***************************************************************************)
EXTENDS CredentialCache, FiniteSetTheorems, SequenceTheorems, TLAPS

\* The part of TypeOK the proofs need.
Typed ==
  /\ cached \in Nat
  /\ writer \in Request \cup {NoRequest}
  /\ pc \in [Request -> InHandler \cup Ended \cup {"idle", "using"}]
  /\ age \in [Request -> Nat]
  /\ cred \in [Request -> Nat]

\* A credential that ages stays a lifetime.
LEMMA ElapseIsNat ==
  ASSUME NEW ttl \in Nat
  PROVE  Elapse(ttl) \in Nat
BY CredentialAssumption DEF Elapse, Never

LEMMA FreshIsNat == FreshTtl \subseteq Nat /\ \A ttl \in FreshTtl : ttl > UseBound
BY CredentialAssumption DEF Never

-----------------------------------------------------------------------------
\* Granting a credential keeps the types.
LEMMA GrantTyped ==
  ASSUME Typed, NEW r \in Request, NEW ttl \in Nat, Grant(r, ttl),
         cached' \in Nat, writer' \in Request \cup {NoRequest}
  PROVE  Typed'
<1>1. pc' \in [Request -> InHandler \cup Ended \cup {"idle", "using"}]
  BY DEF Typed, Grant
<1>2. age' \in [Request -> Nat] /\ cred' \in [Request -> Nat]
  BY DEF Typed, Grant
<1>3. QED
  BY <1>1, <1>2 DEF Typed

(* The types the proofs need are kept by every step. *)
LEMMA TypedStep == Typed /\ [Next]_vars => Typed'
<1> SUFFICES ASSUME Typed, [Next]_vars PROVE Typed'
  OBVIOUS
<1> USE DEF Typed, InHandler, Queued, Ended
<1>1. CASE UNCHANGED vars
  BY <1>1 DEF vars
<1>2. CASE Tick
  <2>1. cached' \in Nat /\ cred' \in [Request -> Nat]
    BY <1>2, ElapseIsNat DEF Tick
  <2>2. age' \in [Request -> Nat]
    BY <1>2 DEF Tick
  <2>3. QED
    BY <1>2, <2>1, <2>2 DEF Tick
<1>3. ASSUME NEW r \in Request, Arrive(r) PROVE Typed'
  BY <1>3 DEF Arrive
<1>4. ASSUME NEW r \in Request, FastPath(r) PROVE Typed'
  <2>1. CASE IsValid(cached)
    BY <1>4, <2>1, GrantTyped DEF FastPath
  <2>2. CASE ~IsValid(cached)
    BY <1>4, <2>2 DEF FastPath
  <2>3. QED
    BY <2>1, <2>2
<1>5. ASSUME NEW r \in Request, AskWrite(r) PROVE Typed'
  BY <1>5 DEF AskWrite
<1>6. ASSUME NEW r \in Request, WriteLocked(r) PROVE Typed'
  <2>1. CASE IsValid(cached)
    BY <1>6, <2>1, GrantTyped DEF WriteLocked
  <2>2. CASE ~IsValid(cached)
    BY <1>6, <2>2 DEF WriteLocked, BeginFetch
  <2>3. QED
    BY <2>1, <2>2
<1>7. ASSUME NEW r \in Request, FetchOk(r) PROVE Typed'
  BY <1>7, FreshIsNat, GrantTyped DEF FetchOk, EndFetch
<1>8. ASSUME NEW r \in Request, FetchErr(r) PROVE Typed'
  <2>1. CASE HasMinLifetime(cached)
    BY <1>8, <2>1, GrantTyped DEF FetchErr, EndFetch
  <2>2. CASE ~HasMinLifetime(cached)
    BY <1>8, <2>2 DEF FetchErr, EndFetch
  <2>3. QED
    BY <2>1, <2>2
<1>9. ASSUME NEW r \in Request, Abandon(r) PROVE Typed'
  BY <1>9 DEF Abandon
<1>10. ASSUME NEW r \in Request, Done(r) PROVE Typed'
  BY <1>10 DEF Done
<1>11. QED
  BY <1>1, <1>2, <1>3, <1>4, <1>5, <1>6, <1>7, <1>8, <1>9, <1>10 DEF Next, Step, Drop, Disconnect

LEMMA TypedInvariant == Spec => []Typed
<1>1. Init => Typed
  BY DEF Init, Typed, InHandler, Ended, Queued
<1>2. QED
  BY <1>1, TypedStep, PTL DEF Spec

-----------------------------------------------------------------------------
(***************************************************************************)
(* However many requests find the credential invalid, and whichever of     *)
(* them time out, one IMDS fetch is in flight at a time and its request    *)
(* holds the write lock (imds.rs:140-185).                                 *)
(***************************************************************************)
THEOREM OneFetchAtATime == Spec => []SingleFetch
<1>1. Init => SingleFetch
  BY CredentialAssumption DEF Init, SingleFetch
<1>2. Typed /\ SingleFetch /\ [Next]_vars => SingleFetch'
  <2> SUFFICES ASSUME Typed, SingleFetch, [Next]_vars PROVE SingleFetch'
    OBVIOUS
  <2> USE CredentialAssumption DEF Typed, SingleFetch
  <2>1. CASE UNCHANGED vars
    BY <2>1 DEF vars
  <2>2. CASE Tick
    BY <2>2 DEF Tick
  <2>3. ASSUME NEW r \in Request, Arrive(r) PROVE SingleFetch'
    BY <2>3 DEF Arrive
  <2>4. ASSUME NEW r \in Request, FastPath(r) PROVE SingleFetch'
    BY <2>4 DEF FastPath, Grant
  <2>5. ASSUME NEW r \in Request, AskWrite(r) PROVE SingleFetch'
    BY <2>5 DEF AskWrite
  <2>6. ASSUME NEW r \in Request, WriteLocked(r) PROVE SingleFetch'
    <3>1. writer = NoRequest /\ pc[r] = "write"
      BY <2>6 DEF WriteLocked, CanEnter
    <3>2. CASE IsValid(cached)
      BY <2>6, <3>1, <3>2 DEF WriteLocked, Grant
    <3>3. CASE ~IsValid(cached)
      BY <2>6, <3>1, <3>3 DEF WriteLocked, BeginFetch
    <3>4. QED
      BY <3>2, <3>3
  <2>7. ASSUME NEW r \in Request, FetchOk(r) \/ FetchErr(r) PROVE SingleFetch'
    <3>1. writer = r /\ writer' = NoRequest
      BY <2>7 DEF FetchOk, FetchErr, EndFetch
    <3>2. \E s \in {"using", "failed"} : pc' = [pc EXCEPT ![r] = s]
      BY <2>7 DEF FetchOk, FetchErr, Grant
    <3>3. QED
      BY <3>1, <3>2
  <2>8. ASSUME NEW r \in Request, Abandon(r) PROVE SingleFetch'
    BY <2>8 DEF Abandon
  <2>9. ASSUME NEW r \in Request, Done(r) PROVE SingleFetch'
    BY <2>9 DEF Done, Ended
  <2>10. QED
    BY <2>1, <2>2, <2>3, <2>4, <2>5, <2>6, <2>7, <2>8, <2>9 DEF Next, Step, Drop, Disconnect
<1>3. QED
  BY <1>1, <1>2, TypedInvariant, PTL DEF Spec

-----------------------------------------------------------------------------
(***************************************************************************)
(* A fetch only starts when the cache, looked at again under the write     *)
(* lock, has no valid credential (imds.rs:144-150).                        *)
(***************************************************************************)
THEOREM FetchesAreNeeded == Spec => NoRedundantFetch
<1> DEFINE Needed == \A r \in Request :
             (pc[r] # "fetching" /\ pc'[r] = "fetching") => ~IsValid(cached)
<1>1. Typed /\ [Next]_vars => [Needed]_vars
  <2> SUFFICES ASSUME Typed, [Next]_vars, NEW q \in Request,
                      pc[q] # "fetching", pc'[q] = "fetching"
               PROVE  ~IsValid(cached)
    OBVIOUS
  <2>1. ~UNCHANGED vars /\ ~Tick
    BY DEF vars, Tick
  <2>2. ASSUME NEW r \in Request, Arrive(r) \/ AskWrite(r) \/ Abandon(r) \/ Done(r) PROVE FALSE
    BY <2>2 DEF Typed, Arrive, AskWrite, Abandon, Done
  <2>3. ASSUME NEW r \in Request, FastPath(r) \/ FetchOk(r) \/ FetchErr(r) PROVE FALSE
    BY <2>3 DEF Typed, FastPath, FetchOk, FetchErr, EndFetch, Grant
  <2>4. ASSUME NEW r \in Request, WriteLocked(r) PROVE ~IsValid(cached)
    BY <2>4 DEF Typed, WriteLocked, Grant
  <2>5. QED
    BY <2>1, <2>2, <2>3, <2>4 DEF Next, Step, Drop, Disconnect
<1>2. QED
  BY <1>1, TypedInvariant, PTL DEF Spec, NoRedundantFetch

-----------------------------------------------------------------------------
(***************************************************************************)
(* A credential that was valid, fresh or good enough for a fallback when   *)
(* its request got it covers what is left of the call, at every tick       *)
(* (constants.rs:68-76, imds.rs:100-185).                                  *)
(***************************************************************************)
LEMMA GrantCovers ==
  ASSUME Typed, InUseCoversCall, NEW r \in Request, NEW ttl \in Nat, ttl > UseBound,
         Grant(r, ttl)
  PROVE  InUseCoversCall'
BY CredentialAssumption DEF Typed, InUseCoversCall, Grant

\* A lifetime that passes either of the cache's checks outlasts the call.
LEMMA CheckedCovers ==
  ASSUME NEW ttl \in Nat, IsValid(ttl) \/ HasMinLifetime(ttl)
  PROVE  ttl > UseBound
BY CredentialAssumption DEF IsValid, HasMinLifetime, HasRemainingLifetime

THEOREM CredentialCoversCall == Spec => []InUseCoversCall
<1>1. Init => InUseCoversCall
  BY DEF Init, InUseCoversCall
<1>2. Typed /\ InUseCoversCall /\ [Next]_vars => InUseCoversCall'
  <2> SUFFICES ASSUME Typed, InUseCoversCall, [Next]_vars PROVE InUseCoversCall'
    OBVIOUS
  <2>1. CASE UNCHANGED vars
    BY <2>1 DEF vars, InUseCoversCall
  <2>2. CASE Tick
    <3> SUFFICES ASSUME NEW q \in Request, pc'[q] = "using"
                 PROVE  cred'[q] + age'[q] > UseBound /\ age'[q] <= UseBound
      BY DEF InUseCoversCall
    <3>1. pc[q] = "using" /\ cred[q] + age[q] > UseBound /\ age[q] < UseBound
      BY <2>2 DEF Tick, InUseCoversCall
    <3>2. age'[q] = age[q] + 1 /\ cred'[q] = Elapse(cred[q])
      BY <2>2, <3>1 DEF Tick
    <3>3. cred[q] \in Nat /\ age[q] \in Nat /\ UseBound \in Nat
      BY CredentialAssumption DEF Typed
    <3>4. Elapse(cred[q]) = cred[q] \/ (cred[q] > 0 /\ Elapse(cred[q]) = cred[q] - 1)
      BY <3>3 DEF Elapse
    <3>5. QED
      BY <3>1, <3>2, <3>3, <3>4
  <2>3. ASSUME NEW r \in Request, Arrive(r) \/ AskWrite(r) \/ Abandon(r) \/ Done(r)
        PROVE  InUseCoversCall'
    BY <2>3 DEF Typed, InUseCoversCall, Arrive, AskWrite, Abandon, Done, InHandler, Queued
  <2>4. ASSUME NEW r \in Request, FastPath(r) PROVE InUseCoversCall'
    <3>1. CASE IsValid(cached)
      BY <2>4, <3>1, CheckedCovers, GrantCovers DEF FastPath, Typed
    <3>2. CASE ~IsValid(cached)
      BY <2>4, <3>2 DEF FastPath, Typed, InUseCoversCall
    <3>3. QED
      BY <3>1, <3>2
  <2>5. ASSUME NEW r \in Request, WriteLocked(r) PROVE InUseCoversCall'
    <3>1. CASE IsValid(cached)
      BY <2>5, <3>1, CheckedCovers, GrantCovers DEF WriteLocked, Typed
    <3>2. CASE ~IsValid(cached)
      BY <2>5, <3>2 DEF WriteLocked, BeginFetch, Typed, InUseCoversCall
    <3>3. QED
      BY <3>1, <3>2
  <2>6. ASSUME NEW r \in Request, FetchOk(r) PROVE InUseCoversCall'
    BY <2>6, FreshIsNat, GrantCovers DEF FetchOk
  <2>7. ASSUME NEW r \in Request, FetchErr(r) PROVE InUseCoversCall'
    <3>1. CASE HasMinLifetime(cached)
      BY <2>7, <3>1, CheckedCovers, GrantCovers DEF FetchErr, Typed
    <3>2. CASE ~HasMinLifetime(cached)
      BY <2>7, <3>2 DEF FetchErr, Typed, InUseCoversCall
    <3>3. QED
      BY <3>1, <3>2
  <2>8. QED
    BY <2>1, <2>2, <2>3, <2>4, <2>5, <2>6, <2>7 DEF Next, Step, Drop, Disconnect
<1>3. QED
  BY <1>1, <1>2, TypedInvariant, PTL DEF Spec

(***************************************************************************)
(* So no credential expires under the enclave call that uses it, however   *)
(* long the request queued or IMDS took to fail (constants.rs:68-76).      *)
(***************************************************************************)
THEOREM CredentialOutlivesCall == Spec => []InUseOutlivesCall
<1>1. Typed /\ InUseCoversCall => InUseOutlivesCall
  BY CredentialAssumption DEF Typed, InUseCoversCall, InUseOutlivesCall
<1>2. QED
  BY <1>1, TypedInvariant, CredentialCoversCall, PTL

-----------------------------------------------------------------------------
(* The queue of the lock.                                                  *)

InQueue(r, queue) == \E i \in 1..Len(queue) : queue[i] = r
Distinct(queue) == \A i, j \in 1..Len(queue) : queue[i] = queue[j] => i = j

\* Those who left are no longer in the queue; the others keep their order.
LEMMA WithoutLeaves ==
  ASSUME NEW S, NEW queue \in Seq(S), Distinct(queue), NEW r
  PROVE  /\ Without(queue, r) \in Seq(S)
         /\ Distinct(Without(queue, r))
         /\ \A q : InQueue(q, Without(queue, r)) <=> InQueue(q, queue) /\ q # r
<1>1. CASE ~InQueue(r, queue)
  BY <1>1 DEF InQueue, Without
<1>2. CASE InQueue(r, queue)
  <2> DEFINE i == CHOOSE i \in 1..Len(queue) : queue[i] = r
             left == SubSeq(queue, 1, i - 1)
             right == SubSeq(queue, i + 1, Len(queue))
             w == left \o right
  <2>1. i \in 1..Len(queue) /\ queue[i] = r /\ Len(queue) \in Nat
    BY <1>2 DEF InQueue
  <2>2. Without(queue, r) = w
    BY <1>2 DEF InQueue, Without
  <2> HIDE DEF i
  <2>3. left \in Seq(S) /\ Len(left) = i - 1 /\ \A k \in 1..Len(left) : left[k] = queue[k]
    BY <2>1
  <2>4. right \in Seq(S) /\ Len(right) = Len(queue) - i
        /\ \A k \in 1..Len(right) : right[k] = queue[i + k]
    BY <2>1
  <2> HIDE DEF left, right
  <2>5. /\ w \in Seq(S) /\ Len(w) = Len(queue) - 1
        /\ \A k \in 1..Len(w) : w[k] = IF k < i THEN queue[k] ELSE queue[k + 1]
    <3>1. /\ w \in Seq(S) /\ Len(w) = Len(left) + Len(right)
          /\ \A k \in 1..(Len(left) + Len(right)) :
               w[k] = IF k <= Len(left) THEN left[k] ELSE right[k - Len(left)]
      BY <2>3, <2>4, ConcatProperties
    <3>2. ASSUME NEW k \in 1..Len(w) PROVE w[k] = IF k < i THEN queue[k] ELSE queue[k + 1]
      <4> HIDE DEF w
      <4>1. CASE k < i
        BY <2>1, <2>3, <2>4, <3>1, <4>1
      <4>2. CASE k >= i
        <5>1. k - Len(left) \in 1..Len(right) /\ i + (k - Len(left)) = k + 1
          BY <2>1, <2>3, <2>4, <3>1, <4>2
        <5> QED
          BY <2>1, <2>3, <2>4, <3>1, <4>2, <5>1
      <4> QED
        BY <2>1, <3>1, <4>1, <4>2
    <3> QED
      BY <2>1, <2>3, <2>4, <3>1, <3>2
  <2> HIDE DEF w
  <2>6. Distinct(w)
    <3> SUFFICES ASSUME NEW j \in 1..Len(w), NEW k \in 1..Len(w), w[j] = w[k] PROVE j = k
      BY DEF Distinct
    <3> DEFINE at(n) == IF n < i THEN n ELSE n + 1
    <3>1. at(j) \in 1..Len(queue) /\ at(k) \in 1..Len(queue) /\ queue[at(j)] = queue[at(k)]
      BY <2>1, <2>5
    <3>2. at(j) = at(k)
      BY <3>1 DEF Distinct
    <3> QED
      BY <2>1, <2>5, <3>2
  <2>7. ASSUME NEW q PROVE InQueue(q, w) <=> InQueue(q, queue) /\ q # r
    <3>1. ASSUME InQueue(q, w) PROVE InQueue(q, queue) /\ q # r
      <4>1. PICK k \in 1..Len(w) : w[k] = q
        BY <3>1 DEF InQueue
      <4> DEFINE n == IF k < i THEN k ELSE k + 1
      <4>2. n \in 1..Len(queue) /\ queue[n] = q /\ n # i
        BY <2>1, <2>5, <4>1
      <4> QED
        BY <2>1, <4>2 DEF InQueue, Distinct
    <3>2. ASSUME InQueue(q, queue), q # r PROVE InQueue(q, w)
      <4>1. PICK n \in 1..Len(queue) : queue[n] = q
        BY <3>2 DEF InQueue
      <4> DEFINE k == IF n < i THEN n ELSE n - 1
      <4>2. n # i
        BY <2>1, <3>2, <4>1
      <4>3. k \in 1..Len(w) /\ w[k] = q
        BY <2>1, <2>5, <4>1, <4>2
      <4> QED
        BY <4>3 DEF InQueue
    <3> QED
      BY <3>1, <3>2
  <2> QED
    BY <2>2, <2>5, <2>6, <2>7
<1> QED
  BY <1>1, <1>2

\* Whoever asks joins the queue once, at its end.
LEMMA AppendJoins ==
  ASSUME NEW S, NEW queue \in Seq(S), Distinct(queue), NEW r \in S, ~InQueue(r, queue)
  PROVE  /\ Append(queue, r) \in Seq(S)
         /\ Distinct(Append(queue, r))
         /\ \A q : InQueue(q, Append(queue, r)) <=> InQueue(q, queue) \/ q = r
<1> DEFINE w == Append(queue, r)
<1>1. /\ w \in Seq(S) /\ Len(queue) \in Nat /\ Len(w) = Len(queue) + 1
      /\ w[Len(queue) + 1] = r
      /\ \A i \in 1..Len(queue) : w[i] = queue[i]
  BY AppendProperties
<1> HIDE DEF w
<1>2. Distinct(w)
  BY <1>1 DEF Distinct, InQueue
<1>3. ASSUME NEW q PROVE InQueue(q, w) <=> InQueue(q, queue) \/ q = r
  <2>1. InQueue(q, queue) \/ q = r => InQueue(q, w)
    BY <1>1 DEF InQueue
  <2>2. ASSUME InQueue(q, w), q # r PROVE InQueue(q, queue)
    <3>1. PICK i \in 1..Len(w) : w[i] = q
      BY <2>2 DEF InQueue
    <3>2. i \in 1..Len(queue)
      BY <1>1, <2>2, <3>1
    <3> QED
      BY <1>1, <3>1, <3>2 DEF InQueue
  <2> QED
    BY <2>1, <2>2
<1> QED
  BY <1>1, <1>2, <1>3 DEF w

\* Whoever enters leaves the queue at its head.
LEMMA TailLeaves ==
  ASSUME NEW S, NEW queue \in Seq(S), Distinct(queue), queue # << >>
  PROVE  /\ Tail(queue) \in Seq(S)
         /\ Distinct(Tail(queue))
         /\ \A q : InQueue(q, Tail(queue)) <=> InQueue(q, queue) /\ q # Head(queue)
<1> DEFINE w == Tail(queue)
<1>1. /\ w \in Seq(S) /\ Len(queue) \in Nat \ {0} /\ Len(w) = Len(queue) - 1
      /\ Head(queue) = queue[1]
      /\ \A i \in 1..Len(w) : w[i] = queue[i + 1]
  BY HeadTailProperties, EmptySeq
<1> HIDE DEF w
<1>2. Distinct(w)
  <2> SUFFICES ASSUME NEW i \in 1..Len(w), NEW j \in 1..Len(w), w[i] = w[j] PROVE i = j
    BY DEF Distinct
  <2>1. i + 1 \in 1..Len(queue) /\ j + 1 \in 1..Len(queue) /\ queue[i + 1] = queue[j + 1]
    BY <1>1
  <2>2. i + 1 = j + 1
    BY <2>1 DEF Distinct
  <2> QED
    BY <1>1, <2>2
<1>3. ASSUME NEW q PROVE InQueue(q, w) <=> InQueue(q, queue) /\ q # Head(queue)
  <2>1. ASSUME InQueue(q, w) PROVE InQueue(q, queue) /\ q # Head(queue)
    <3>1. PICK i \in 1..Len(w) : w[i] = q
      BY <2>1 DEF InQueue
    <3>2. i + 1 \in 1..Len(queue) /\ queue[i + 1] = q /\ i + 1 # 1 /\ 1 \in 1..Len(queue)
      BY <1>1, <3>1
    <3> QED
      BY <1>1, <3>2 DEF InQueue, Distinct
  <2>2. ASSUME InQueue(q, queue), q # Head(queue) PROVE InQueue(q, w)
    <3>1. PICK i \in 1..Len(queue) : queue[i] = q
      BY <2>2 DEF InQueue
    <3>2. i - 1 \in 1..Len(w) /\ w[i - 1] = q
      BY <1>1, <2>2, <3>1
    <3> QED
      BY <3>2 DEF InQueue
  <2> QED
    BY <2>1, <2>2
<1> QED
  BY <1>1, <1>2, <1>3 DEF w

\* The queue holds the requests that wait for the lock, each once.
QueueInv ==
  /\ waiting \in Seq(Request)
  /\ Distinct(waiting)
  /\ \A r \in Request : InQueue(r, waiting) <=> pc[r] \in Queued

LEMMA QueueStep == Typed /\ QueueInv /\ [Next]_vars => QueueInv'
<1> SUFFICES ASSUME Typed, QueueInv, [Next]_vars PROVE QueueInv'
  OBVIOUS
<1>1. CASE UNCHANGED vars \/ Tick
  BY <1>1 DEF vars, Tick, QueueInv
<1>2. ASSUME NEW r \in Request, Arrive(r) \/ AskWrite(r) PROVE QueueInv'
  <2>1. ~InQueue(r, waiting) /\ waiting' = Append(waiting, r)
    BY <1>2 DEF Arrive, AskWrite, QueueInv, Queued
  <2>2. \E s \in Queued : pc' = [pc EXCEPT ![r] = s]
    BY <1>2 DEF Arrive, AskWrite, Queued
  <2> QED
    BY <2>1, <2>2, AppendJoins DEF QueueInv, Typed
<1>3. ASSUME NEW r \in Request, FastPath(r) \/ WriteLocked(r) PROVE QueueInv'
  <2>1. waiting # << >> /\ Head(waiting) = r /\ waiting' = Tail(waiting)
    BY <1>3 DEF FastPath, WriteLocked, CanEnter
  <2>2. \E s \in {"using", "slow", "fetching"} : pc' = [pc EXCEPT ![r] = s]
    BY <1>3 DEF FastPath, WriteLocked, Grant, BeginFetch
  <2>3. \A q \in Request : pc'[q] \in Queued <=> pc[q] \in Queued /\ q # r
    BY <2>2 DEF Queued, Typed
  <2> QED
    BY <2>1, <2>3, TailLeaves DEF QueueInv
<1>4. ASSUME NEW r \in Request, FetchOk(r) \/ FetchErr(r) \/ Done(r) PROVE QueueInv'
  <2>1. pc[r] \notin Queued /\ waiting' = waiting
    BY <1>4 DEF FetchOk, FetchErr, EndFetch, Done, Queued, Ended
  <2>2. \E s \in {"using", "failed", "idle"} : pc' = [pc EXCEPT ![r] = s]
    BY <1>4 DEF FetchOk, FetchErr, Done, Grant
  <2>3. \A q \in Request : pc'[q] \in Queued <=> pc[q] \in Queued
    BY <2>1, <2>2 DEF Queued, Typed
  <2> QED
    BY <2>1, <2>3 DEF QueueInv
<1>5. ASSUME NEW r \in Request, Abandon(r) PROVE QueueInv'
  <2>1. waiting' = Without(waiting, r) /\ pc' = [pc EXCEPT ![r] = "timedout"]
    BY <1>5 DEF Abandon
  <2>2. \A q \in Request : pc'[q] \in Queued <=> pc[q] \in Queued /\ q # r
    BY <2>1 DEF Queued, Typed
  <2> QED
    BY <2>1, <2>2, WithoutLeaves DEF QueueInv
<1> QED
  BY <1>1, <1>2, <1>3, <1>4, <1>5 DEF Next, Step, Drop, Disconnect

LEMMA QueueInvariant == Spec => []QueueInv
<1>1. Init => QueueInv
  BY DEF Init, QueueInv, InQueue, Distinct, Queued
<1> QED
  BY <1>1, QueueStep, TypedInvariant, PTL DEF Spec

(***************************************************************************)
(* However requests join the lock's queue, get the lock and are dropped,   *)
(* the queue holds those that wait, each once: a dropped request does not  *)
(* stay behind and block the rest (imds.rs:142, routes.rs:148).            *)
(***************************************************************************)
THEOREM QueueHoldsTheWaiting == Spec => []QueueIsExact
<1>1. QueueInv => QueueIsExact
  <2> SUFFICES ASSUME QueueInv, NEW r \in Request
               PROVE  Cardinality({i \in 1..Len(waiting) : waiting[i] = r})
                        = IF pc[r] \in Queued THEN 1 ELSE 0
    BY DEF QueueIsExact
  <2> DEFINE P == {i \in 1..Len(waiting) : waiting[i] = r}
  <2>1. CASE InQueue(r, waiting)
    <3>1. PICK i \in 1..Len(waiting) : waiting[i] = r
      BY <2>1 DEF InQueue
    <3>2. P = {i}
      BY <3>1 DEF QueueInv, Distinct
    <3> QED
      BY <2>1, <3>2, FS_Singleton DEF QueueInv
  <2>2. CASE ~InQueue(r, waiting)
    <3>1. P = {}
      BY <2>2 DEF InQueue
    <3> QED
      BY <2>2, <3>1, FS_EmptySet DEF QueueInv
  <2> QED
    BY <2>1, <2>2
<1> QED
  BY <1>1, QueueInvariant, PTL

-----------------------------------------------------------------------------
\* No credential lives longer than one that never expires.
Lifetimes ==
  /\ cached <= Never
  /\ \A r \in Request : cred[r] <= Never
  /\ fetchAge \in [Request -> Nat]

LEMMA LifetimesStep == Typed /\ Lifetimes /\ [Next]_vars => Lifetimes'
<1> SUFFICES ASSUME Typed, Lifetimes, [Next]_vars PROVE Lifetimes'
  OBVIOUS
<1> USE DEF Typed, Lifetimes
<1>1. CASE UNCHANGED vars
  BY <1>1 DEF vars
<1>2. CASE Tick
  <2>1. \A ttl \in Nat : ttl <= Never => Elapse(ttl) <= Never
    BY CredentialAssumption DEF Elapse, Never
  <2>2. fetchAge' \in [Request -> Nat]
    BY <1>2 DEF Tick
  <2> QED
    BY <1>2, <2>1, <2>2 DEF Tick
<1>3. ASSUME NEW r \in Request, Arrive(r) \/ AskWrite(r) \/ Abandon(r) \/ Done(r) PROVE Lifetimes'
  <2>1. cached' = cached /\ fetchAge' \in [Request -> Nat]
    BY <1>3 DEF Arrive, AskWrite, Abandon, Done
  <2>2. cred' = cred \/ cred' = [cred EXCEPT ![r] = 0]
    BY <1>3 DEF Arrive, AskWrite, Abandon, Done
  <2>3. Never \in Nat
    BY CredentialAssumption DEF Never
  <2> QED
    BY <2>1, <2>2, <2>3
<1>4. ASSUME NEW r \in Request, FastPath(r) \/ WriteLocked(r) \/ FetchErr(r) PROVE Lifetimes'
  <2>1. cached' = cached /\ fetchAge' \in [Request -> Nat]
    BY <1>4 DEF FastPath, WriteLocked, FetchErr, EndFetch, BeginFetch
  <2>2. cred' = cred \/ cred' = [cred EXCEPT ![r] = cached]
    BY <1>4 DEF FastPath, WriteLocked, FetchErr, BeginFetch, Grant
  <2> QED
    BY <2>1, <2>2
<1>5. ASSUME NEW r \in Request, FetchOk(r) PROVE Lifetimes'
  <2>1. PICK ttl \in FreshTtl : cached' = ttl /\ cred' = [cred EXCEPT ![r] = ttl]
    BY <1>5 DEF FetchOk, Grant
  <2>2. ttl <= Never
    BY CredentialAssumption DEF Never
  <2> QED
    BY <1>5, <2>1, <2>2 DEF FetchOk, EndFetch
<1> QED
  BY <1>1, <1>2, <1>3, <1>4, <1>5 DEF Next, Step, Drop, Disconnect

(***************************************************************************)
(* The cache, the lock and the requests keep their types, and the lock is  *)
(* held by the request that fetches (imds.rs:30-60, 140-185).              *)
(***************************************************************************)
THEOREM TypeCorrect == Spec => []TypeOK
<1>1. Init => Lifetimes
  BY CredentialAssumption DEF Init, Lifetimes, Never
<1>2. Typed /\ QueueInv /\ Lifetimes /\ SingleFetch => TypeOK
  BY CredentialAssumption DEF Typed, QueueInv, Lifetimes, TypeOK, Never
<1> QED
  BY <1>1, <1>2, LifetimesStep, TypedInvariant, QueueInvariant, OneFetchAtATime, PTL DEF Spec

-----------------------------------------------------------------------------
(* The cache is one credential to its callers.                             *)

\* The double check holds for as long as the lock is held.
FetchIsNeeded == \A r \in Request : pc[r] = "fetching" => ~IsValid(cached)

LEMMA FetchIsNeededStep ==
  Typed /\ SingleFetch /\ FetchIsNeeded /\ [Next]_vars => FetchIsNeeded'
<1> SUFFICES ASSUME Typed, SingleFetch, FetchIsNeeded, [Next]_vars,
                    NEW q \in Request, pc'[q] = "fetching"
             PROVE  ~IsValid(cached')
  BY DEF FetchIsNeeded, IsValid, HasRemainingLifetime
<1> USE DEF Typed
<1>1. CASE UNCHANGED vars
  BY <1>1 DEF vars, FetchIsNeeded
<1>2. CASE Tick
  <2>1. ~IsValid(cached) /\ cached' = Elapse(cached)
    BY <1>2 DEF Tick, FetchIsNeeded
  <2> QED
    BY <2>1, CredentialAssumption DEF IsValid, HasRemainingLifetime, Elapse
<1>3. ASSUME NEW r \in Request, Arrive(r) \/ AskWrite(r) \/ Abandon(r) \/ Done(r)
      PROVE  ~IsValid(cached')
  <2>1. pc[q] = "fetching" /\ UNCHANGED cached
    BY <1>3 DEF Arrive, AskWrite, Abandon, Done
  <2> QED
    BY <2>1 DEF FetchIsNeeded
<1>4. ASSUME NEW r \in Request, FastPath(r) \/ FetchErr(r) PROVE ~IsValid(cached')
  <2>1. pc[q] = "fetching" /\ UNCHANGED cached
    BY <1>4 DEF FastPath, FetchErr, Grant
  <2> QED
    BY <2>1 DEF FetchIsNeeded
<1>5. ASSUME NEW r \in Request, WriteLocked(r) PROVE ~IsValid(cached')
  <2>1. UNCHANGED cached
    BY <1>5 DEF WriteLocked
  <2>2. CASE IsValid(cached)
    <3>1. pc[q] = "fetching"
      BY <1>5, <2>2 DEF WriteLocked, Grant
    <3> QED
      BY <2>2, <3>1 DEF FetchIsNeeded
  <2> QED
    BY <2>1, <2>2
<1>6. ASSUME NEW r \in Request, FetchOk(r) PROVE ~IsValid(cached')
  <2>1. pc[r] = "fetching" /\ pc' = [pc EXCEPT ![r] = "using"]
    BY <1>6 DEF FetchOk, EndFetch, Grant
  <2>2. q # r /\ pc[q] = "fetching"
    BY <2>1
  <2> QED
    BY <2>1, <2>2 DEF SingleFetch
<1> QED
  BY <1>1, <1>2, <1>3, <1>4, <1>5, <1>6 DEF Next, Step, Drop, Disconnect

LEMMA FetchIsNeededInvariant == Spec => []FetchIsNeeded
<1>1. Init => FetchIsNeeded
  BY DEF Init, FetchIsNeeded
<1> QED
  BY <1>1, FetchIsNeededStep, TypedInvariant, OneFetchAtATime, PTL DEF Spec

\* What the cell sees of a request, and of a step of one.
Calls == [r \in Request |-> CallOf(pc[r])]

LEMMA SeenAs ==
  /\ CallOf("idle") = "none"
  /\ \A p \in InHandler : CallOf(p) = "asked"
  /\ CallOf("using") = "served"
  /\ CallOf("failed") = "refused"
  /\ CallOf("timedout") = "late"
BY DEF CallOf, InHandler, Queued

\* A request that goes from p to q.
Goes(r, p, q) == pc[r] = p /\ pc' = [pc EXCEPT ![r] = q]

LEMMA CallMoves ==
  ASSUME Typed, NEW r \in Request, NEW p, NEW q, Goes(r, p, q)
  PROVE  Calls[r] = CallOf(p) /\ Calls' = [Calls EXCEPT ![r] = CallOf(q)]
BY DEF Typed, Calls, Goes

\* A step within the handler is not seen.
LEMMA NotSeen ==
  ASSUME Typed, NEW r \in Request, NEW p, pc' = [pc EXCEPT ![r] = p],
         CallOf(p) = CallOf(pc[r])
  PROVE  UNCHANGED Calls
BY DEF Typed, Calls

LEMMA GrantServes ==
  ASSUME Typed, NEW r \in Request, NEW ttl, pc[r] \in InHandler, Grant(r, ttl)
  PROVE  Cell!Serve(r, ttl)
<1>1. Goes(r, pc[r], "using")
  BY DEF Grant, Goes
<1>2. Calls[r] = CallOf(pc[r]) /\ Calls' = [Calls EXCEPT ![r] = CallOf("using")]
  BY <1>1, CallMoves
<1>3. Calls[r] = "asked" /\ Calls' = [Calls EXCEPT ![r] = "served"]
  BY <1>2, SeenAs
<1> QED
  BY <1>3 DEF Grant, Cell!Serve, Calls

LEMMA CellStep ==
  Typed /\ InUseCoversCall /\ FetchIsNeeded /\ [Next]_vars
    => [Cell!Next]_<<cached, Calls, cred>>
<1> SUFFICES ASSUME Typed, InUseCoversCall, FetchIsNeeded, [Next]_vars
             PROVE  Cell!Next \/ UNCHANGED <<cached, Calls, cred>>
  OBVIOUS
<1>0. cached \in Nat /\ RefreshBuffer \in Nat /\ FallbackMin \in Nat
  BY CredentialAssumption DEF Typed
<1>1. CASE UNCHANGED vars
  BY <1>1 DEF vars, Calls
<1>2. CASE Tick
  <2>1. UNCHANGED Calls
    BY <1>2 DEF Tick, Calls
  <2>2. cached' = Cell!Aged(cached) /\ cred' = [r \in Request |-> Cell!Aged(cred[r])]
    BY <1>2 DEF Tick, Elapse, Cell!Aged
  <2>3. ASSUME NEW r \in Request, Calls[r] = "served" PROVE cred'[r] > 0
    <3>1. pc[r] = "using"
      BY <2>3, SeenAs DEF Calls, Typed, Ended
    <3>2. /\ cred[r] \in Nat /\ age[r] \in Nat /\ UseBound \in Nat
          /\ cred[r] + age[r] > UseBound /\ age[r] < UseBound
      BY <1>2, <3>1, CredentialAssumption DEF Typed, InUseCoversCall, Tick
    <3>3. cred'[r] = Elapse(cred[r])
      BY <1>2 DEF Tick
    <3> QED
      BY <3>2, <3>3 DEF Elapse
  <2> QED
    BY <2>1, <2>2, <2>3 DEF Cell!Next, Cell!Age, Calls
<1>3. ASSUME NEW r \in Request, Arrive(r) PROVE Cell!Next
  <2>1. Goes(r, "idle", "read")
    BY <1>3 DEF Arrive, Goes
  <2>2. Calls[r] = CallOf("idle") /\ Calls' = [Calls EXCEPT ![r] = CallOf("read")]
    BY <2>1, CallMoves
  <2>3. Calls[r] = "none" /\ Calls' = [Calls EXCEPT ![r] = "asked"]
    BY <2>2, SeenAs DEF InHandler, Queued
  <2> QED
    BY <1>3, <2>3 DEF Cell!Next, Cell!Ask, Calls, Arrive
<1>4. ASSUME NEW r \in Request, FastPath(r) \/ WriteLocked(r)
      PROVE  Cell!Next \/ UNCHANGED <<cached, Calls, cred>>
  <2>1. pc[r] \in InHandler /\ UNCHANGED cached
    BY <1>4 DEF FastPath, WriteLocked, InHandler, Queued
  <2>2. CASE IsValid(cached)
    <3>1. Grant(r, cached)
      BY <1>4, <2>2 DEF FastPath, WriteLocked
    <3>2. Cell!Serve(r, cached)
      BY <2>1, <3>1, GrantServes
    <3> QED
      BY <2>1, <2>2, <3>2 DEF Cell!Next, Cell!Take, IsValid, HasRemainingLifetime
  <2>3. CASE ~IsValid(cached)
    <3>1. UNCHANGED cred /\ \E p \in {"slow", "fetching"} : pc' = [pc EXCEPT ![r] = p]
      BY <1>4, <2>3 DEF FastPath, WriteLocked, BeginFetch
    <3>2. UNCHANGED Calls
      BY <2>1, <3>1, NotSeen, SeenAs DEF InHandler
    <3> QED
      BY <2>1, <3>1, <3>2
  <2> QED
    BY <2>2, <2>3
<1>5. ASSUME NEW r \in Request, AskWrite(r) PROVE UNCHANGED <<cached, Calls, cred>>
  <2>1. pc[r] = "slow" /\ pc' = [pc EXCEPT ![r] = "write"] /\ UNCHANGED <<cached, cred>>
    BY <1>5 DEF AskWrite
  <2>2. UNCHANGED Calls
    BY <2>1, NotSeen, SeenAs DEF InHandler, Queued
  <2> QED
    BY <2>1, <2>2
<1>6. ASSUME NEW r \in Request, FetchOk(r) PROVE Cell!Next
  <2>1. PICK ttl \in FreshTtl : cached' = ttl /\ Grant(r, ttl)
    BY <1>6 DEF FetchOk
  <2>2. pc[r] = "fetching" /\ pc[r] \in InHandler
    BY <1>6 DEF FetchOk, EndFetch, InHandler
  <2>3. Cell!Serve(r, ttl)
    BY <2>1, <2>2, GrantServes
  <2>4. cached <= RefreshBuffer
    BY <1>0, <2>2 DEF FetchIsNeeded, IsValid, HasRemainingLifetime
  <2> QED
    BY <2>1, <2>3, <2>4 DEF Cell!Next, Cell!Replace
<1>7. ASSUME NEW r \in Request, FetchErr(r) PROVE Cell!Next
  <2>1. pc[r] = "fetching" /\ pc[r] \in InHandler /\ UNCHANGED cached
    BY <1>7 DEF FetchErr, EndFetch, InHandler
  <2>2. CASE HasMinLifetime(cached)
    <3>1. Cell!Serve(r, cached)
      BY <1>7, <2>1, <2>2, GrantServes DEF FetchErr
    <3>2. FallbackMin < cached /\ cached <= RefreshBuffer
      BY <1>0, <2>1, <2>2
         DEF FetchIsNeeded, IsValid, HasMinLifetime, HasRemainingLifetime
    <3> QED
      BY <2>1, <3>1, <3>2 DEF Cell!Next, Cell!FallBack
  <2>3. CASE ~HasMinLifetime(cached)
    <3>1. pc' = [pc EXCEPT ![r] = "failed"] /\ UNCHANGED cred
      BY <1>7, <2>3 DEF FetchErr
    <3>2. Goes(r, pc[r], "failed")
      BY <3>1 DEF Goes
    <3>3. Calls[r] = CallOf(pc[r]) /\ Calls' = [Calls EXCEPT ![r] = CallOf("failed")]
      BY <3>2, CallMoves
    <3>4. Calls[r] = "asked" /\ Calls' = [Calls EXCEPT ![r] = "refused"]
      BY <2>1, <3>3, SeenAs
    <3>5. cached <= FallbackMin
      BY <1>0, <2>3 DEF HasMinLifetime, HasRemainingLifetime
    <3> QED
      BY <2>1, <3>1, <3>4, <3>5 DEF Cell!Next, Cell!Refuse, Calls
  <2> QED
    BY <2>2, <2>3
<1>8. ASSUME NEW r \in Request, Abandon(r) PROVE Cell!Next
  <2>1. pc[r] \in InHandler /\ Goes(r, pc[r], "timedout")
    BY <1>8 DEF Abandon, Goes
  <2>2. Calls[r] = CallOf(pc[r]) /\ Calls' = [Calls EXCEPT ![r] = CallOf("timedout")]
    BY <2>1, CallMoves
  <2>3. Calls[r] = "asked" /\ Calls' = [Calls EXCEPT ![r] = "late"]
    BY <2>1, <2>2, SeenAs
  <2> QED
    BY <1>8, <2>3 DEF Cell!Next, Cell!GiveUp, Calls, Abandon
<1>9. ASSUME NEW r \in Request, Done(r) PROVE Cell!Next
  <2>1. pc[r] \in {"using", "failed", "timedout"} /\ Goes(r, pc[r], "idle")
    BY <1>9 DEF Done, Ended, Goes
  <2>2. Calls[r] = CallOf(pc[r]) /\ Calls' = [Calls EXCEPT ![r] = CallOf("idle")]
    BY <2>1, CallMoves
  <2>3. Calls[r] \in {"served", "refused", "late"} /\ Calls' = [Calls EXCEPT ![r] = "none"]
    BY <2>1, <2>2, SeenAs
  <2> QED
    BY <1>9, <2>3 DEF Cell!Next, Cell!End, Calls, Done
<1> QED
  BY <1>1, <1>2, <1>3, <1>4, <1>5, <1>6, <1>7, <1>8, <1>9 DEF Next, Step, Drop, Disconnect

(***************************************************************************)
(* Whatever requests queue, race, fetch or are dropped, and however long   *)
(* IMDS takes, the cache is to its callers one credential that ages, taken *)
(* or replaced at an instant, and no credential expires in use             *)
(* (imds.rs:88-185).                                                       *)
(***************************************************************************)
THEOREM ServesLikeOneCell == Spec => ImplementsCell
<1>1. Init => Cell!Init
  BY SeenAs DEF Init, Cell!Init
<1> QED
  BY <1>1, CellStep, TypedInvariant, CredentialCoversCall, FetchIsNeededInvariant, PTL
     DEF Spec, ImplementsCell, Cell!Spec, Calls
=============================================================================
