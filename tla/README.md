# A formal model of the Nitro Enclaves vault

TLA+ specifications of the secure vault in `src/`: the parent process that runs
on the EC2 host, the enclave it forwards decryptions to, and the API that stores
the vaults. TLC model-checks them on small instances; TLAPS proves every
invariant that TLC checks for every value of the constants. References such as `imds.rs:142`
are to files under `src/`.

## 1. The system

A client calls the API (API Gateway and Lambda, `api/src/app`). Vaults live in a
DynamoDB table. To decrypt, the API posts the stored ciphertexts to the parent
(`parent/src`), which picks a running enclave, adds IAM credentials from IMDS and
forwards the request over vsock. The enclave (`enclave/src`) asks KMS for the
vault's private key, decrypts the fields, applies CEL expressions and answers.

    client -> API (Lambda) -> parent (EC2 host) -> enclave -> KMS (vsock proxy)
                 |                |      |
              DynamoDB          IMDS   nitro-cli

| component | state it keeps | operations | interacts with |
|---|---|---|---|
| Enclave pool (`parent/src/enclaves.rs`, `main.rs`) | the routing list behind a `RwLock`; refresh's local snapshot, launch count and outcome | startup refresh (30s timeout), refresh every 10s, `get_enclaves` | `nitro-cli` processes, the host's enclaves, systemd; `/decrypt` copies the list |
| Credential cache (`parent/src/imds.rs`) | one credential with its expiry behind a fair `RwLock` | `get_credentials`, `refresh` | IMDS; requests, which the 30s HTTP timeout may drop at any await |
| KMS worker (`enclave/src/aws_ne/mod.rs`) | `KMS_WORKER` (`OnceLock` of a sender), a bounded channel, the worker's cached client | `kms_decrypt`, worker loop, client rebuild | connection threads, the C SDK |
| Vault store (`api/src/app`) | the table: vault items and audit records; per invocation a write buffer | create, get, update, delete (all or fields), decrypt | DynamoDB transactions and reads, KMS key generation, the parent |
| Enclave server (`enclave/src/main.rs`) | the count of active connections | accept, reject, `handle_client` | parent's vsock connections, KMS worker |
| Expression evaluation (`enclave/src/expressions.rs`, `functions.rs`) | the process-wide program cache (at most 1024) | `get_or_compile`, `execute_expressions` | connection threads |
| Field decryption (`enclave/src/models.rs`, `hpke.rs`, `kms.rs`) | none beyond a request | validation, parallel per-field HPKE | KMS worker |
| Wire protocol (`vault-protocol/src/lib.rs`) | a stream's position | `write_frame`, `read_frame` | both ends of a vsock connection |
| Parent HTTP tier (`parent/src/routes.rs`, `application.rs`, `models.rs`, `wire_encoding.rs`, `errors.rs`, `cbor.rs`) | none of its own | `/decrypt`, `/enclaves`, `/health`, timeout, body limit, graceful shutdown | pool, cache, enclave |
| Canary, templates, build, docs | - | - | - |

What is hard in each, and what makes it correct:

* **Enclave pool.** `nitro-cli` may fail, hang, or start an enclave and still
  report failure; enclaves crash between two steps of a refresh; the startup
  refresh may be dropped with a launch in flight; the parent may restart at any
  time. Correct: never too many enclaves, never a healthy one unrouted, a crashed
  one leaves the list, the pool refills.
* **Credential cache.** Requests race for the refresh, queue behind a slow IMDS,
  and are dropped while they queue or hold the lock; credentials age meanwhile.
  Correct: one fetch, only when needed, no credential that dies in use, a lock
  that is always given back.
* **KMS worker.** First calls race to spawn the worker; callers time out and
  leave their requests behind; credentials rotate; client builds fail. Correct:
  one thread in the SDK, one client, answers under the caller's own credentials,
  bounded waiting.
* **Vault store.** Handlers read, work and write without locks; reads may be
  stale; a flush may be cancelled, fail, or succeed without the caller learning
  of it. Correct: truthful answers, no lost update, a request that saw a
  deletion neither decrypts nor revives the vault, disclosures are logged.
* **Enclave server.** Slots must be given back on all paths, the counter is
  tested after it was raised while handlers end, and a handler may wait for room
  in the KMS worker's channel. Correct: the counter counts, the limit holds, the
  server does not stay full while KMS answers.
* **Expressions and fields.** Fields are decrypted by a thread pool, expressions
  run in `HashMap` order, programs are compiled outside the lock and inserted
  into a cache at its limit; each field and each expression may fail. Correct:
  what a call is answered depends on its own request alone; the enclave refuses
  nothing the parent lets through.
* **The path of one decryption.** Timeouts on top of each other (parent HTTP 30s,
  parent vsock 20s, enclave vsock 30s, KMS caller 20s), a routing list copied
  before credentials are awaited, a blocking thread that outlives its handler, a
  partly written response followed by an error frame. Correct: only whole
  messages are believed, threads and handlers end, shutdown ends.

`PROJECT.json` lists these hazards line by line with the properties that cover
them.

## 2. How the modules build on each other

    EnclavePool             VaultStore
    CredentialCache         --implements-->  CredentialCell

    RequestChecks, CelFunctions
        RequestOutcome (what a request may be answered)
            DecryptRequest  --implements-->  RequestService
    EnclaveServer (accept loop and handlers + W == INSTANCE KmsWorker)
                            --implements-->  KmsWorker
    DecryptPath (one decryption in time)

`CredentialCache` assumes that an enclave call ends within `UseBound`; that is
`ThreadWithinIoTimeout` of `DecryptPath`. `DecryptPath` assumes for `SlotIsFreed`
that the KMS worker's channel lets a handler in; that is `NeverStaysFull` of
`EnclaveServer`.

What may still be added: an atomic store that `VaultStore` implements for vaults
that are not deleted.

## 3. The modules

Each component has a module `X` with its constants and their assumptions, its
state, one action per operation, its specification and its properties; `MCX`
extends it with what TLC needs; `XProofs` holds its proofs. Operators whose name
extends another's (`ReadUnchecked` for `Read`) are wrong variants of it: each is
what a plausible slip in the code would make of it, and serves to confirm that
the property it is paired with in `PROJECT.json` notices the slip.

### EnclavePool

`refresh` is a task with a program counter: `describe`, `launch`, `redescribe`,
`store`, `sleep`. One action per await: `DescribeOk/Err`, `RunEnclave` (spawn
`nitro-cli run-enclave`), `RunEnclaveOk/Err`, `RedescribeOk/Err`, `Store` (the
list is cleared and filled under the write lock without an await in between) and
`Wake`. `InitialRefreshTimeout` is `tokio::time::timeout` in `main` dropping the
startup refresh: the future goes, the spawned process stays (`orphan`).
`ParentRestart` is systemd's `Restart=always`. The host (`Crash`, `Reap`,
`ForeignStarts`) and the `nitro-cli` processes (`ChildStartsEnclave`,
`OrphanStartsEnclave`, `OrphanDies`) are external. `NitroCliMayHang` says whether
`nitro-cli` may outlast the startup timeout. The list's order and the enclaves'
CIDs are left out; `/decrypt` picks at random.

### CredentialCache

A credential is the number of ticks it has left; none and expired are both 0. A
request goes through `read` (queued for the read lock), `slow`, `write` (queued
for the write lock), `fetching` (holding it), and ends in `using`, `failed` or
`timedout`. The lock is tokio's: one FIFO queue for readers and writers. `Drop`
is the HTTP timeout dropping the handler's future wherever it waits,
`Disconnect` the same when the client goes away earlier (`Abandon` is what both
do). IMDS
answers with any lifetime in `FreshTtl` or fails within `FetchBound`, or, where
that is not less than the HTTP timeout, not at all. `using` lasts at most
`UseBound`: the 20s vsock timeout the code's comment reckons with
(`constants.rs:68-76`). That the call ends by then is an assumption here and
`ThreadWithinIoTimeout` of `DecryptPath`.

Assumptions on the constants: `UseBound <= FallbackMin <= RefreshBuffer` (20s,
25s, 60s in the code) and that IMDS hands out no credential about to die, which
the code does not check (`imds.rs:158-183` stores what it gets).

`CredentialCell` is what the cache promises, without lock, queue or fetch: one
credential that ages, and requests that each take it or replace it at one
instant, between their arrival and their call. It is replaced only when it is
about to expire, fallen back on only when it outlives a call, and never dies in
use. `ImplementsCell` maps the cached credential to the cell and every place of a
request before its grant to `asked`.

### KmsWorker

Calls go through `get` (`KMS_WORKER.get()`), `spawn`, `publish`
(`get_or_init`), `send` (blocking), `waiting` (`recv_timeout`), and end
`returned` or `timedout`. A worker is named after the call that spawned it; it
is `idle`, then `handle`, `build`, `decrypt`, `reply`. `handles` counts, for each
kind of SDK object a `KmsResources` owns, those made and not destroyed: building
a client makes them in order and may fail after any of them. A call's identifier
is used again only once the channel and the worker have forgotten it.

### EnclaveServer

`Claim` is a successful `accept` with its `fetch_add`, `Reject` and
`SpawnHandler` the two outcomes of the test, on the main thread. A connection's
thread is at `recv`, in `kms_decrypt` (`kms`), or at `reply`, which includes the
release of its slot. `SpawnPanics`: `thread::spawn` panics, which aborts a
release build (`panic = "abort"` in `Cargo.toml`); the enclave is gone (`up`).
A connection makes at most one call of `kms_decrypt`, so connections are the
calls of `KmsWorker`, whose actions it takes as they are.

### RequestChecks, CelFunctions, RequestOutcome, RequestService

`RequestChecks` has both sides' validation with the limits of the code, the
translation between the request types and the status of each error; a request is
a record of lengths and kinds. `CelFunctions` has the functions of
`functions.rs` on texts that are layers of encodings around a base text, so that
decoding what was encoded, recasing and wrong encodings are told apart; an
expression is a variable to which functions are applied. `RequestOutcome` says
without any order what a request may be answered, `RequestService` that each call
is answered so, at most once.

### DecryptRequest

A call goes through the parent's handler (`check` to `connect`) and the enclave's
(`enclave`, `key`, `fields`, `exprs`, `compile`, `insert`, `evaluate`,
`respond`). `DecryptField` decrypts any field that is left; `Lookup` takes any
expression that is left, `Compile` and `Insert` are apart because other threads
use the cache in between. HPKE opens a field that was sealed for the same key,
vault and lower-cased name. The parent may answer for itself while the enclave
goes on (`EnclaveLost`, `HttpTimeout`). The texts of errors and their truncation
are left out; an error is what failed.

### DecryptPath

One decryption at a time, from the routing list to the answer: the HTTP handler
(`http`), the blocking thread (`thread`), the stream's two directions with
`Window` pieces of buffer, the enclave's handler (`handler`), the parent's
process with SIGTERM, crash and restart, enclaves that crash and start, and other
processes on the host that connect and send nothing or no request. A frame is a
header and the pieces of its body. Each read or write has its socket's timeout to
itself (`CallFails`, `ClientFails`). `Tick` passes when no thread can run
(`CanRun`): threads are fast against timeouts. A request frame beyond 10 MB is not
modelled: the parent's HTTP body limit of 1 MB makes `write_frame`'s refusal of it
unreachable, while transformed fields can make a response too large. `CanRun` spells out when a step of
`Prompt` is enabled, which the provers cannot compute; TLC found it equal to
`ENABLED Prompt` in every reachable state with streams of one to three pieces.
A parent process that is suspended for more than its timeouts in the middle of a
response, and resumed, is thereby left out.

### VaultStore

An invocation is `idle`, has read and is at `work`, waits for its `flush`, or is
`done`. `Create`, `Delete`, `Remove`, `Update`, `Decrypt` are the handlers up to
their first external call, `Work` the rest, `FlushOk/Conflict/Fails` the
transaction in `TransactionWriter.__exit__` with the middleware's answer. A
field's value is the invocation that sealed it; `ssn9` also seals `ssn4`. An
audit record is keyed by vault and microsecond. Reads are eventually consistent
(`lagging`). A flush that fails may have been applied; a handler that raises when
its writes are in the buffer is such a failure, since `__exit__` flushes them all
the same. An item is a set of attributes: the primary key, what `update_vault`
looks for (`_pk`) and what `decrypt_vault` looks for (`_sk`, which stands for
`_hs` too), besides its fields. Bodies of creations and updates name fields of
the schema; a removal names any attributes, the keys among them
(`models.py:77-79`). An item without the attribute a read looks for is answered
404 if none of the attributes asked for is there, and 500 otherwise. `committed`
and `since` are history variables for the properties. GET is left out (it only reads), and so are flushes of more than 100 items, which no
handler reaches.

## 4. The runs

| run | instance | shows |
|---|---|---|
| `pool_hang` | 5 vault identifiers, 1 foreign enclave, pool of 2, 4 host slots, `nitro-cli` may hang | type, capacity and its inductive form, healthy enclaves stay routed |
| `pool_live` | 4 identifiers, 1 foreign, pool of 2, 3 slots, no hanging, fair | refreshes that return Ok route to all; crashed enclaves leave; the pool refills |
| `pool_double_launch` | 3 identifiers, may hang | **violation**: one enclave too many after a startup timeout |
| `pool_hung_loop` | 2 identifiers, `nitro-cli` unfair | **violation**: after startup, and with no restarts for ever, a round of the background loop never ends |
| `cred` | 3 requests, credential lives 4 and 6 ticks or for ever, IMDS may be silent until the timeout, fair | the queue, the lifetimes, the needed-fetch property, the lock's release and the refinement of `CredentialCell` |
| `kms_safety` | 4 calls, 2 credentials, channel of 2, 2 connections | all safety properties |
| `server` | 3 connections, 1 credential, channel of 1, limit of 2, fair | slots, limit, the refinement of `KmsWorker`, and that a full server gets free |
| `request` | 2 concurrent calls, a cache of 1 program, some 30 requests: expressions that read each other's targets, fail, are too long or spoil the whole; fields sealed for another name, vault, key or no text; each check at and beyond its bound | each call is answered by what its request determines, the cache's limit, no refusal of what was let through |
| `path` | 2 enclaves, a tick of 5s: 20s, 30s, 20s, 30s are 4, 6, 4, 6; streams that hold 1 piece, fair | whole messages, the blocking thread's bound, shutdown and handlers end |
| `path_stuck` | the same | **violation**: the parent gives up while the enclave still waits for KMS |
| `vault` | 3 invocations, 1 vault that may exist already, bodies none, `ssn9`, `ssn4`, removals of `ssn4`, of `_pk`, of `ssn9` with `_sk`, 4 microseconds | all safety properties |
| `vault_zombie` | 3 invocations | **violation**: an update revives a deleted vault |

Why the bounds suffice:

* Enclave identifiers are taken again once neither host nor parent knows them, so
  the bound limits only how many are alive or remembered at once: two that run,
  the orphan's, a terminating one and a stale list entry fit in `pool_hang`.
* Three requests of `cred` are one that fetches, one that queues behind it as a
  writer, one as a reader. A tick stands for some ten seconds; the constants keep
  the order of the code's.
* Four calls of `kms_safety` are two active ones and two abandoned requests; the
  channel of 2 equals the connection limit, as in the code (32 and 32). In
  `server` three connections are two that hold the slots and one that is
  rejected, and a channel of 1 is full as soon as one abandoned request is in it.
  Two of them may have abandoned a request, one at the worker and one in the
  channel, when the third waits for room.
* Two calls of `request` race for the one place in the cache. The properties
  relate a call to its own request, so a third adds nothing; requests of one or
  two fields and up to two expressions show every pair of orders.
* In `path` a stream of 1 piece makes every write of more than one piece wait for
  its reader, so each side can die or fall silent between any two pieces. A
  response has 2 pieces, the largest frame 2, and one too large 3. With 2 enclaves
  the one that was picked may be gone while the other runs.
* The vault of `vault` may exist at the start, so three invocations are enough
  for an update that races a deletion and a request that follows both. One vault
  suffices: no operation touches two. The clock moves only while an invocation
  waits for it, once per flush and invocation.

* The removals of `vault` leave an item without the one key or the other; in two
  steps without both. Names that are no attribute change nothing but the item's
  existence, as the removal of a field that is not stored does.

Runs of `VaultStore` do not check deadlock, since each invocation runs once, and
neither does `server`, where an enclave that aborted has stopped. All other runs
do. Symmetry is used only without liveness.

### What the violations show

* `pool_double_launch` (`main.rs:69-71` says sleeping first avoids it): the
  dropped startup refresh leaves a `run-enclave` process that starts its enclave
  after the next refresh counted.
* `pool_hung_loop` (`constants.rs:51-53`: the loop "keeps retrying"): only the
  startup refresh has a timeout. The property is asked after startup and of
  behaviours in which restarts stop, so TLC's behaviour ends in a refresh of the
  background loop that waits for its `nitro-cli` for ever. With the timeout on
  every refresh (`InitialRefreshTimeout` without its `starting`) TLC finds the
  property to hold.
* `path_stuck` (`mod.rs:88-91`: the KMS timeout is shorter than the parent's
  "30s", "so a stuck KMS call surfaces as an enclave error before the parent's
  connection timeout fires"): both are 20s, and the parent's starts first.
* `vault_zombie` (`docs/user-guide.md:118`): `update_item` has no condition.

Limitations of the code met on the way, without a run of their own:

* A failed IMDS fetch leaves no trace, so requests queued behind each other fetch
  in turn, and one may run into its HTTP timeout with a usable credential in the
  cache (`imds.rs:142-171`).
* The timeout of `kms_decrypt` frees the caller, not the worker (`mod.rs:132-134`
  can be read otherwise): while a KMS call hangs, abandoned requests fill the
  channel and the handlers that wait to send keep their slots until the SDK's own
  timeout ends the call. `NeverStaysFull` has the end of KMS calls as its
  hypothesis for that reason.
* Two transactions on a vault in one microsecond share the key of their audit
  records, and the later put replaces the earlier record (`vaults.py:184`).
* `enclaves.rs:70` says that vsock failures surface before the HTTP timeout; not
  when credentials were awaited for more than 10s before.

## 5. Fairness

* `EnclavePool!FairSpec`: the task runs when it can, every `nitro-cli` process
  ends one way or the other (weak fairness of `Refresh`), and `describe-enclaves`
  does not fail for ever (strong fairness of `DescribeOk`). `PoolRefills` assumes
  in its own statement that launches do not fail for ever either, that crashes
  and restarts stop, and that the host has room; `CrashedLeavesRouting` does not.
  `HangSpec` is fair only to the parent's own steps, and leaves restarts free:
  `LoopKeepsRetrying` has it as its hypothesis that they stop.
* `CredentialCache!FairSpec`: time passes and the runtime drops what is overdue.
  Nothing is assumed of IMDS.
* `EnclaveServer!FairSpec`: a handler's receive and send end since the stream has
  timeouts, `recv_timeout` elapses, and a blocked sender is let in eventually,
  since the channel wakes its waiters in turn (strong fairness of `Send`). Of the
  handlers, of the senders and of the workers it asks only that some one of them
  goes on, less than the scheduler promises each. That KMS calls end is a hypothesis of `NeverStaysFull` only.
* `DecryptPath!FairSpec`: threads that can run do, time passes, a client takes its
  answer, a computation ends, and the runtime exits when nothing is left. Nothing
  is assumed of IMDS, KMS or the peer; that the channel to the worker moves
  (`ChannelMoves`) is a hypothesis of `SlotIsFreed` only.

## 6. What is proved

For all values of the constants the modules' assumptions allow:

* `EnclavePoolProofs`. `TypeCorrect`. `CapacityInvariant`: the bound on running
  enclaves is not inductive; what is preserved is that running enclaves, the
  launches the current refresh has left and the launch of an orphan fit into
  `MaxEnclaves`, plus one if `nitro-cli` may hang, and that an orphan exists only
  after startup. `PoolWithinCapacity` follows. `RoutingInvariant` relates the
  snapshot of a refresh to the host and the list; `HealthyEnclaveStaysRouted` and
  `OkRefreshIsComplete` follow from it.
* `CredentialCacheProofs`. `OneFetchAtATime` (`SingleFetch`, a part of
  `TypeOK`) rests on the lock: the fetching request is the writer. `FetchesAreNeeded` on the second check under the lock.
  `CredentialCoversCall`: lifetime left plus time used exceeds `UseBound` from
  the grant on, each tick taking from one what it adds to the other;
  `CredentialOutlivesCall` follows; it is part of `Age` of `CredentialCell`, and
  `ImplementsCell` stands for it in the run. These hold for any durations in the
  order of the assumption, so they do not depend on the length of a tick.
  `QueueHoldsTheWaiting`: the queue of the lock holds those that wait, each once,
  so a dropped request leaves no place behind and takes nobody else's; three
  lemmas say what removing a request, appending one and serving the head do to
  the places of the others. `TypeCorrect` bounds every clock, and with `Lifetimes`
  every credential by one that never expires. `ServesLikeOneCell` is the refinement
  of `CredentialCell`: a grant is the instant a request is served, everything it
  does before leaves the cell alone, and a fetch replaces it only when that is
  still needed at its end (`FetchIsNeeded`: what the holder of the lock found too
  old under the lock has only grown older).
* `KmsWorkerProofs`. The inductive invariant adds to the checked ones that a
  sender or a waiting call implies a published worker, that what the channel and
  the worker hold are calls with a key, that a client in use is the current
  request's, and that a request is in one place once. The lemmas on sequences
  say what `Append` and `Tail` do to "is in the queue once". `OneThreadUsesTheSdk`,
  `CallsGetTheirOwnAnswer`, `WaitingRequestsAreHeld` and `NoClientLeaks` follow;
  the last needs that at most one worker has a client.
* `EnclaveServerProofs`. `SlotsAreNeverLost` and `LimitHolds` from one invariant
  on the counter, by the cardinality of the set of handlers after each step.
  `ServerUsesKmsWorker` is a refinement: each step of the server is a step of
  `KmsWorker` or leaves its variables alone, and a call starts only when fewer
  than `MaxConnections` are active because its handler holds a slot. So the
  theorems of `KmsWorkerProofs` hold of the server.
* `DecryptRequestProofs`. `ParentIsStricter` is about every request, by the order
  of the limits. `CallsAreOnTrack` is the inductive invariant: the fields and
  errors gathered so far are those of the fields that are not left to do, and so
  for the expressions, each compared with `RequestOutcome`. `CallsAreServed`, the
  refinement of `RequestService`, follows: whatever the order, a response is the
  request's outcome. `CacheKeepsItsLimit` and `NothingForwardedIsRefused` as well.
* `VaultStoreProofs`, for any number of invocations, vaults, fields and bodies. One
  inductive invariant carries the seven theorems. It says where an invocation may be
  and that only answered ones are applied, that no transaction is applied twice,
  that whoever sealed a stored field or wrote a record has been applied
  (`StoredInv`, `LogInv`), that nobody knows a vault's id before its creation has
  answered (`CreatesAlone`), and that an item with a key has never been deleted,
  neither when the replica saw it nor when a request that still works read it
  (`NeverDeletedInv`). `AnswersTellTheTruth` is in the first of these.
  `NoUpdateIsLost` and `Ssn4NeverStale` compare the places of transactions in
  `committed`: what is stored is the latest. `DisclosuresHaveRecords` needs
  `LogInv` for the record that may take another's place. `DeletedVaultsStayUnused`
  is `NeverDeletedInv` at the moment of the flush: an item revived by an update or
  a removal has no keys, so the read of the next request turns it away. A request
  whose read did not reflect the deletion may still decrypt after it: reads are
  eventually consistent, and the code accepts that.
  `OnlyRacingUpdatesRevive` bounds what `vault_zombie` shows: data comes back only
  by an update whose read and flush lie on both sides of the deletion.
* `DecryptPathProofs`, for any timeouts and a stream that buffers any number of
  pieces. `OnlyWholeMessages` and `ThreadEndsInTime` need each other.
  `ResponseInv`: what the parent has read, what is on the stream and what the
  enclave has yet to write are together one message; an error frame that follows
  half a response would break it, and is written only after a send has failed,
  which takes a full send timeout. `ClockInv` with `TicksAtWork` says that time
  passes for a thread at work only while the enclave has the whole request and has
  started no response, so no send of the enclave runs out of time while the parent
  reads, and the parent waits in one read only. `RequestInv` says where the request
  is for that, and that the enclave never takes it for anything else.
  `ReplyFits`, a part of `TypeOK`, says that no frame is begun that its reader would
  refuse for its size.

## 7. What is only model-checked

Liveness under fairness (`PoolRefills`, `CrashedLeavesRouting`, `LockIsFreed`,
`NeverStaysFull`, `StopEnds`, `SlotIsFreed`) is out of the prover's reach, and so is
`ENABLED`: that `CanRun` equals `ENABLED Prompt` was checked and not proved. What
`CelFunctions!Execute` computes is a fold, and facts about it need induction over
data; the proofs treat it as any function of expression and context. The four
violations are TLC's. Everything else that a run checks has a theorem.

## 8. What is not modelled

* Cryptography (HPKE, attestation, TLS), CBOR and JSON encodings, error texts and
  their truncation, zeroizing of memory: no interleaving changes their results.
* CEL itself beyond a chain of function calls on a variable.
* `/health`, `/enclaves` and the API's GET, which only read; the options of the
  parent, which are left at their defaults (`--skip-refresh-enclaves` and
  `--skip-run-enclaves` are for hosts without enclaves).
* The FFI declarations, the templates and build files: no behaviour of their
  own. The restart policy in `vault_template.yml:305` is part of `EnclavePool` and
  `DecryptPath`.
* The canary: a sequential probe without state.
