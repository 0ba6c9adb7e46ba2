------------------------------ MODULE EnclavePool ------------------------------
(***************************************************************************)
(* The parent's pool of Nitro Enclaves: the startup refresh and the        *)
(* background refresh loop (parent/src/main.rs) driving `Enclaves::refresh`*)
(* (parent/src/enclaves.rs), which describes the host's enclaves, launches *)
(* the missing ones with `nitro-cli run-enclave` and publishes the routing *)
(* list that `/decrypt` picks an enclave from.                             *)
(*                                                                         *)
(* The host, `nitro-cli` and systemd are not part of the repository; they  *)
(* are modelled by how the parent uses them.                               *)
(***************************************************************************)
EXTENDS Naturals, FiniteSets

CONSTANTS
  VaultEnclave,     \* enclaves whose name starts with ENCLAVE_PREFIX
  ForeignEnclave,   \* every other enclave of the host, e.g. the ACM enclave
  MaxEnclaves,      \* MAX_ENCLAVES_PER_INSTANCE
  HostSlots,        \* how many enclaves fit in the host's allocator
  SkipRunEnclaves,  \* the --skip-run-enclaves option
  NitroCliMayHang   \* can nitro-cli outlast INITIAL_REFRESH_TIMEOUT?

ASSUME PoolAssumption ==
  /\ IsFiniteSet(VaultEnclave)
  /\ VaultEnclave \cap ForeignEnclave = {}
  /\ MaxEnclaves \in Nat
  /\ HostSlots \in Nat
  /\ SkipRunEnclaves \in BOOLEAN
  /\ NitroCliMayHang \in BOOLEAN

Enclave == VaultEnclave \cup ForeignEnclave

VARIABLES
  host,      \* what describe-enclaves would report of each enclave
  routing,   \* Enclaves.enclaves, the list /decrypt picks from
  pc,        \* where the refresh task is
  starting,  \* is this the refresh main() bounds with a timeout?
  snapshot,  \* refresh's local `enclaves`
  delta,     \* launches the `for _ in 0..delta` loop has left
  outcome,   \* refresh's launch_outcome, then the result it returned
  child,     \* the run-enclave process that refresh is waiting for
  orphan     \* a run-enclave process whose refresh was dropped

vars == <<host, routing, pc, starting, snapshot, delta, outcome, child, orphan>>

refreshVars == <<pc, starting, snapshot, delta, outcome, child, orphan>>

NoSnapshot == [e \in Enclave |-> "absent"]

RunningVault == {e \in VaultEnclave : host[e] = "RUNNING"}

Present == {e \in Enclave : host[e] # "absent"}

(***************************************************************************)
(* Enclave identifiers are unique over time.  An identifier is only taken  *)
(* again once neither the host nor the parent remembers it.                *)
(***************************************************************************)
FreshVault == {e \in VaultEnclave :
                 host[e] = "absent" /\ snapshot[e] = "absent" /\ e \notin routing}

Room == FreshVault # {} /\ Cardinality(Present) < HostSlots

-----------------------------------------------------------------------------
(* The pure helpers of enclaves.rs.                                        *)

IsRunnableEnclave(e, state) == e \in VaultEnclave /\ state = "RUNNING"

SaturatingSub(a, b) == IF a > b THEN a - b ELSE 0

EnclavesToLaunchCountingTerminating(describe) ==
  SaturatingSub(MaxEnclaves,
                Cardinality({e \in VaultEnclave : describe[e] # "absent"}))

EnclavesToLaunchOneMore(describe) ==
  SaturatingSub(MaxEnclaves + 1,
                Cardinality({e \in Enclave : IsRunnableEnclave(e, describe[e])}))

EnclavesToLaunch(describe) ==
  SaturatingSub(MaxEnclaves,
                Cardinality({e \in Enclave : IsRunnableEnclave(e, describe[e])}))

-----------------------------------------------------------------------------
(***************************************************************************)
(* A parent that starts on a host which may still run enclaves of an       *)
(* earlier parent, but never more than that parent was allowed to keep.    *)
(***************************************************************************)
Init ==
  /\ host \in [Enclave -> {"absent", "RUNNING"}]
  /\ Cardinality(RunningVault) <= MaxEnclaves
  /\ Cardinality(Present) <= HostSlots
  /\ routing = {}
  /\ pc = "describe"
  /\ starting = TRUE
  /\ snapshot = NoSnapshot
  /\ delta = 0
  /\ outcome = "Ok"
  /\ child = "none"
  /\ orphan = "none"

-----------------------------------------------------------------------------
(* The refresh task.                                                       *)

NeedsLaunch(describe) == ~SkipRunEnclaves /\ EnclavesToLaunch(describe) > 0

\* The first describe-enclaves: fix the snapshot and how many to launch.
DescribeOk ==
  /\ pc = "describe"
  /\ snapshot' = host
  /\ outcome' = "Ok"
  /\ IF NeedsLaunch(host)
       THEN pc' = "launch" /\ delta' = EnclavesToLaunch(host)
       ELSE pc' = "store" /\ delta' = 0
  /\ UNCHANGED <<host, routing, starting, child, orphan>>

\* `describe_enclaves().await?` fails: the routing list stays as it was.
DescribeErr ==
  /\ pc = "describe"
  /\ pc' = "sleep"
  /\ outcome' = "Err"
  /\ UNCHANGED <<host, routing, starting, snapshot, delta, child, orphan>>

\* run_enclave spawns `nitro-cli run-enclave` and awaits its output.
RunEnclave ==
  /\ pc = "launch"
  /\ child = "none"
  /\ child' = "spawned"
  /\ UNCHANGED <<host, routing, pc, starting, snapshot, delta, outcome, orphan>>

RunEnclaveOkNoRequery ==
  /\ pc = "launch"
  /\ child = "started"
  /\ child' = "none"
  /\ delta' = delta - 1
  /\ pc' = IF delta = 1 THEN "store" ELSE "launch"
  /\ UNCHANGED <<host, routing, starting, snapshot, outcome, orphan>>

RunEnclaveOk ==
  /\ pc = "launch"
  /\ child = "started"
  /\ child' = "none"
  /\ delta' = delta - 1
  /\ pc' = IF delta = 1 THEN "redescribe" ELSE "launch"
  /\ UNCHANGED <<host, routing, starting, snapshot, outcome, orphan>>

RunEnclaveErrReturnsEarly ==
  /\ pc = "launch"
  /\ child # "none"
  /\ child' = "none"
  /\ delta' = 0
  /\ outcome' = "Err"
  /\ pc' = "sleep"
  /\ snapshot' = NoSnapshot
  /\ UNCHANGED <<host, routing, starting, orphan>>

RunEnclaveErrRetries ==
  /\ pc = "launch"
  /\ child # "none"
  /\ child' = "none"
  /\ outcome' = "Err"
  /\ UNCHANGED <<host, routing, pc, starting, snapshot, delta, orphan>>

\* A launch fails, possibly after the enclave started (unparseable output):
\* leave the loop, keep the pre-launch snapshot.
RunEnclaveErr ==
  /\ pc = "launch"
  /\ child # "none"
  /\ child' = "none"
  /\ delta' = 0
  /\ outcome' = "Err"
  /\ pc' = "store"
  /\ UNCHANGED <<host, routing, starting, snapshot, orphan>>

RedescribeOk ==
  /\ pc = "redescribe"
  /\ snapshot' = host
  /\ pc' = "store"
  /\ UNCHANGED <<host, routing, starting, delta, outcome, child, orphan>>

RedescribeErrDropsSnapshot ==
  /\ pc = "redescribe"
  /\ outcome' = "Err"
  /\ snapshot' = NoSnapshot
  /\ pc' = "store"
  /\ UNCHANGED <<host, routing, starting, delta, child, orphan>>

\* The post-launch describe fails: keep the pre-launch snapshot.
RedescribeErr ==
  /\ pc = "redescribe"
  /\ outcome' = "Err"
  /\ pc' = "store"
  /\ UNCHANGED <<host, routing, starting, snapshot, delta, child, orphan>>

\* clear() and extend() under the write lock, which no await interrupts.
Store ==
  /\ pc = "store"
  /\ routing' = {e \in Enclave : IsRunnableEnclave(e, snapshot[e])}
  /\ pc' = "sleep"
  /\ snapshot' = NoSnapshot
  /\ UNCHANGED <<host, starting, delta, outcome, child, orphan>>

\* The background loop's next round, REFRESH_ENCLAVES_INTERVAL later.
Wake ==
  /\ pc = "sleep"
  /\ pc' = "describe"
  /\ starting' = FALSE
  /\ UNCHANGED <<host, routing, snapshot, delta, outcome, child, orphan>>

(***************************************************************************)
(* INITIAL_REFRESH_TIMEOUT drops the refresh future.  Dropping the future  *)
(* of `Command::output` does not kill the process.                         *)
(***************************************************************************)
InitialRefreshTimeout ==
  /\ NitroCliMayHang
  /\ starting
  /\ pc \in {"describe", "launch", "redescribe"}
  /\ pc' = "sleep"
  /\ starting' = FALSE
  /\ snapshot' = NoSnapshot
  /\ delta' = 0
  /\ outcome' = "Err"
  /\ child' = "none"
  /\ orphan' = IF child = "spawned" THEN "spawned" ELSE "none"
  /\ UNCHANGED <<host, routing>>

(***************************************************************************)
(* The parent dies and systemd starts it again (Restart=always).  The unit *)
(* has the default KillMode, so its nitro-cli processes die with it.       *)
(***************************************************************************)
ParentRestart ==
  /\ routing' = {}
  /\ pc' = "describe"
  /\ starting' = TRUE
  /\ snapshot' = NoSnapshot
  /\ delta' = 0
  /\ outcome' = "Ok"
  /\ child' = "none"
  /\ orphan' = "none"
  /\ UNCHANGED host

-----------------------------------------------------------------------------
(* The host and its nitro-cli processes.                                   *)

StartFreshEnclave ==
  /\ Cardinality(Present) < HostSlots
  /\ \E e \in FreshVault : host' = [host EXCEPT ![e] = "RUNNING"]

ChildStartsEnclave ==
  /\ child = "spawned"
  /\ StartFreshEnclave
  /\ child' = "started"
  /\ UNCHANGED <<routing, pc, starting, snapshot, delta, outcome, orphan>>

OrphanStartsEnclave ==
  /\ orphan = "spawned"
  /\ StartFreshEnclave
  /\ orphan' = "none"
  /\ UNCHANGED <<routing, pc, starting, snapshot, delta, outcome, child>>

OrphanDies ==
  /\ orphan = "spawned"
  /\ orphan' = "none"
  /\ UNCHANGED <<host, routing, pc, starting, snapshot, delta, outcome, child>>

\* An enclave crashes or is terminated: it is reported TERMINATING.
Crash(e) ==
  /\ host[e] = "RUNNING"
  /\ host' = [host EXCEPT ![e] = "TERMINATING"]
  /\ UNCHANGED <<routing, refreshVars>>

\* Termination completes.
Reap(e) ==
  /\ host[e] = "TERMINATING"
  /\ host' = [host EXCEPT ![e] = "absent"]
  /\ UNCHANGED <<routing, refreshVars>>

ForeignStarts(e) ==
  /\ e \in ForeignEnclave
  /\ host[e] = "absent"
  /\ Cardinality(Present) < HostSlots
  /\ host' = [host EXCEPT ![e] = "RUNNING"]
  /\ UNCHANGED <<routing, refreshVars>>

-----------------------------------------------------------------------------
Refresh ==
  \/ DescribeOk
  \/ DescribeErr
  \/ RunEnclave
  \/ RunEnclaveOk
  \/ RunEnclaveErr
  \/ RedescribeOk
  \/ RedescribeErr
  \/ Store
  \/ Wake

AnyCrash == \E e \in Enclave : Crash(e)

Host ==
  \/ ChildStartsEnclave
  \/ OrphanStartsEnclave
  \/ OrphanDies
  \/ AnyCrash
  \/ \E e \in Enclave : Reap(e)
  \/ \E e \in Enclave : ForeignStarts(e)

Next == Refresh \/ InitialRefreshTimeout \/ ParentRestart \/ Host

Spec == Init /\ [][Next]_vars

(***************************************************************************)
(* The tokio runtime runs the task whenever it can go on, every nitro-cli  *)
(* process ends, successfully or not, and describe-enclaves does not fail  *)
(* for ever.  run-enclave may.                                             *)
(***************************************************************************)
FairSpec == Spec /\ WF_vars(Refresh) /\ SF_vars(DescribeOk)

\* run-enclave does not fail for ever where it could succeed.
LaunchesSucceed == SF_vars(ChildStartsEnclave)

(***************************************************************************)
(* Only the parent's own steps are fair: a nitro-cli that is waited for    *)
(* (pc "describe", "redescribe", or a child of "launch") may never end.    *)
(***************************************************************************)
HangSpec ==
  /\ Spec
  /\ WF_vars(RunEnclave)
  /\ WF_vars(Store)
  /\ WF_vars(Wake)
  /\ WF_vars(InitialRefreshTimeout)

-----------------------------------------------------------------------------
(* Type correctness: the shape of the parent's and the host's state.       *)
TypeOK ==
  /\ host \in [Enclave -> {"absent", "RUNNING", "TERMINATING"}]
  /\ routing \subseteq Enclave
  /\ pc \in {"describe", "launch", "redescribe", "store", "sleep"}
  /\ starting \in BOOLEAN
  /\ snapshot \in [Enclave -> {"absent", "RUNNING", "TERMINATING"}]
  /\ delta \in IF pc = "launch" THEN 1..MaxEnclaves ELSE 0..MaxEnclaves
  /\ outcome \in {"Ok", "Err"}
  /\ child \in {"none", "spawned", "started"}
  /\ orphan \in {"none", "spawned"}

(***************************************************************************)
(* The parent never runs more vault enclaves than MAX_ENCLAVES_PER_INSTANCE*)
(* except for the single launch that a timed-out startup refresh can leave *)
(* behind (enclaves_to_launch, refresh, main.rs:50).                       *)
(***************************************************************************)
Slack == IF NitroCliMayHang THEN 1 ELSE 0

CapacityBound == Cardinality(RunningVault) <= MaxEnclaves + Slack

(***************************************************************************)
(* Why CapacityBound holds, as an inductive invariant: the enclaves that   *)
(* run, those the current refresh may still start and the one an orphan    *)
(* may start fit together, and only a refresh that was dropped at startup  *)
(* leaves an orphan (refresh, enclaves_to_launch, main.rs:50-62).          *)
(***************************************************************************)
MayStillStart == IF pc = "launch" THEN (IF child = "started" THEN delta - 1 ELSE delta)
                                  ELSE 0

OrphanMayStart == IF orphan = "spawned" THEN 1 ELSE 0

CapacityInv ==
  /\ Cardinality(RunningVault) + MayStillStart + OrphanMayStart <= MaxEnclaves + Slack
  /\ child # "none" => pc = "launch"
  /\ orphan # "none" => ~starting /\ NitroCliMayHang

(***************************************************************************)
(* main.rs:69-71: waiting one interval before the next refresh avoids      *)
(* racing the initial one, "which could otherwise double-launch enclaves". *)
(***************************************************************************)
NoDoubleLaunch == Cardinality(RunningVault) <= MaxEnclaves

(***************************************************************************)
(* When refresh returns Ok every vault enclave that is running is in the   *)
(* routing list, the ones it just launched included (enclaves.rs:135-138). *)
(* An orphaned launch can start one behind the refresh's back.             *)
(***************************************************************************)
OkRefreshRoutesAllRunning ==
  (pc = "sleep" /\ outcome = "Ok" /\ ~NitroCliMayHang) => RunningVault \subseteq routing

(***************************************************************************)
(* An enclave that still runs is never taken out of the routing list, by a *)
(* failed launch or a failed describe either; only a restart empties it.   *)
(***************************************************************************)
HealthyStaysRouted ==
  [][ParentRestart \/ \A e \in routing : host[e] = "RUNNING" => e \in routing']_vars

(***************************************************************************)
(* What refresh relies on between its describe and its store, as an        *)
(* inductive invariant: a routed enclave that still runs is runnable in    *)
(* the snapshot, and the snapshot of a refresh that will return Ok misses  *)
(* no running enclave unless an orphan started it (enclaves.rs:161-208).   *)
(***************************************************************************)
SnapshotRunnable == {e \in Enclave : IsRunnableEnclave(e, snapshot[e])}

RoutingInv ==
  /\ routing \subseteq VaultEnclave
  /\ pc \in {"launch", "redescribe", "store"} =>
       routing \cap RunningVault \subseteq SnapshotRunnable
  /\ pc \in {"launch", "redescribe"} => outcome = "Ok"
  /\ (pc = "store" /\ outcome = "Ok" /\ ~NitroCliMayHang) =>
       RunningVault \subseteq SnapshotRunnable

(***************************************************************************)
(* A crashed enclave leaves the routing list even if no launch ever        *)
(* succeeds, as long as describe-enclaves does (enclaves.rs:143-149), and  *)
(* so does a foreign enclave, which is never in it.                        *)
(***************************************************************************)
CrashedLeavesRouting ==
  \A e \in Enclave :
    (e \in routing /\ ~IsRunnableEnclave(e, host[e])) ~> (e \notin routing)

Full == Cardinality(RunningVault) >= MaxEnclaves

(***************************************************************************)
(* Once enclaves stop crashing and the parent restarting, the pool is full *)
(* and routed to for good, if launches do not fail for ever.  A            *)
(* TERMINATING enclave that is never reaped does not suppress its          *)
(* replacement where the host has room for it (enclaves.rs:54-57).         *)
(***************************************************************************)
PoolRefills ==
  (LaunchesSucceed /\ <>[][~AnyCrash /\ ~ParentRestart]_vars /\ <>[](Full \/ Room))
    => <>[](Full /\ routing = RunningVault)

(***************************************************************************)
(* constants.rs:47-53: the timeout bounds the startup wait so a hung       *)
(* nitro-cli cannot block startup; "if it elapses the server starts anyway *)
(* and the background refresh loop keeps retrying".  Once startup is over, *)
(* and if the parent is not restarted for ever, every round of the loop    *)
(* comes to its end.                                                       *)
(***************************************************************************)
LoopKeepsRetrying ==
  <>[][~ParentRestart]_vars => (~starting ~> pc = "sleep")
=============================================================================
