-------------------------- MODULE EnclavePoolProofs --------------------------
(***************************************************************************)
(* Proofs about EnclavePool, for every set of enclaves, every pool size,   *)
(* host size and both values of the two options.                           *)
(***************************************************************************)
EXTENDS EnclavePool, FiniteSetTheorems, TLAPS

-----------------------------------------------------------------------------
(* enclaves_to_launch is a launch count within the pool's size.            *)
LEMMA EnclavesToLaunchType ==
  ASSUME NEW describe
  PROVE  EnclavesToLaunch(describe) \in 0..MaxEnclaves
<1> DEFINE R == {e \in Enclave : IsRunnableEnclave(e, describe[e])}
<1>1. IsFiniteSet(R)
  BY FS_Subset, PoolAssumption DEF IsRunnableEnclave, Enclave
<1>2. Cardinality(R) \in Nat
  BY <1>1, FS_CardinalityType
<1> QED
  BY <1>2, PoolAssumption DEF EnclavesToLaunch, SaturatingSub

(* The state keeps its type (TypeOK), whatever the refresh task and the host do. *)
THEOREM TypeCorrect == Spec => []TypeOK
<1>1. Init => TypeOK
  BY PoolAssumption DEF Init, TypeOK, NoSnapshot
<1>2. TypeOK /\ [Next]_vars => TypeOK'
  <2> SUFFICES ASSUME TypeOK, [Next]_vars PROVE TypeOK'
    OBVIOUS
  <2> USE DEF TypeOK
  <2>1. CASE DescribeOk
    BY <2>1, EnclavesToLaunchType, PoolAssumption DEF DescribeOk, NeedsLaunch
  <2>2. CASE DescribeErr
    BY <2>2 DEF DescribeErr
  <2>3. CASE RunEnclave
    BY <2>3 DEF RunEnclave
  <2>4. CASE RunEnclaveOk
    BY <2>4, PoolAssumption DEF RunEnclaveOk
  <2>5. CASE RunEnclaveErr
    BY <2>5, PoolAssumption DEF RunEnclaveErr
  <2>6. CASE RedescribeOk
    BY <2>6 DEF RedescribeOk
  <2>7. CASE RedescribeErr
    BY <2>7 DEF RedescribeErr
  <2>8. CASE Store
    BY <2>8 DEF Store, NoSnapshot
  <2>9. CASE Wake
    BY <2>9 DEF Wake
  <2>10. CASE InitialRefreshTimeout
    <3>1. snapshot' \in [Enclave -> {"absent", "RUNNING", "TERMINATING"}]
      BY <2>10 DEF InitialRefreshTimeout, NoSnapshot
    <3>2. delta' = 0 /\ pc' = "sleep" /\ 0 \in 0..MaxEnclaves
      BY <2>10, PoolAssumption DEF InitialRefreshTimeout
    <3>3. orphan' \in {"none", "spawned"}
      BY <2>10 DEF InitialRefreshTimeout
    <3>4. UNCHANGED <<host, routing>> /\ starting' = FALSE /\ outcome' = "Err" /\ child' = "none"
      BY <2>10 DEF InitialRefreshTimeout
    <3> QED
      BY <3>1, <3>2, <3>3, <3>4
  <2>11. CASE ParentRestart
    BY <2>11, PoolAssumption DEF ParentRestart, NoSnapshot
  <2>12. CASE Host
    BY <2>12 DEF Host, ChildStartsEnclave, OrphanStartsEnclave, OrphanDies,
       StartFreshEnclave, AnyCrash, Crash, Reap, ForeignStarts, refreshVars
  <2>13. CASE UNCHANGED vars
    BY <2>13 DEF vars
  <2> QED
    BY <2>1, <2>2, <2>3, <2>4, <2>5, <2>6, <2>7, <2>8, <2>9, <2>10, <2>11,
       <2>12, <2>13 DEF Next, Refresh
<1> QED
  BY <1>1, <1>2, PTL DEF Spec

-----------------------------------------------------------------------------
(* How the host's steps change the number of running vault enclaves. *)
LEMMA RunningFinite ==
  /\ IsFiniteSet(RunningVault)
  /\ Cardinality(RunningVault) \in Nat
BY FS_Subset, FS_CardinalityType, PoolAssumption DEF RunningVault

LEMMA RunningFiniteNext ==
  /\ IsFiniteSet(RunningVault')
  /\ Cardinality(RunningVault') \in Nat
<1>1. RunningVault' \subseteq VaultEnclave
  BY DEF RunningVault
<1> QED
  BY <1>1, FS_Subset, FS_CardinalityType, PoolAssumption

LEMMA StartAddsOne ==
  ASSUME TypeOK, StartFreshEnclave
  PROVE  Cardinality(RunningVault') = Cardinality(RunningVault) + 1
<1>1. PICK e \in FreshVault : host' = [host EXCEPT ![e] = "RUNNING"]
  BY DEF StartFreshEnclave
<1>2. e \in VaultEnclave /\ e \notin RunningVault
  BY <1>1 DEF FreshVault, RunningVault
<1>3. RunningVault' = RunningVault \cup {e}
  BY <1>1, <1>2 DEF RunningVault, TypeOK, Enclave
<1> QED
  BY <1>2, <1>3, RunningFinite, FS_AddElement

LEMMA ShrinkKeepsBound ==
  ASSUME RunningVault' \subseteq RunningVault
  PROVE  Cardinality(RunningVault') <= Cardinality(RunningVault)
BY RunningFinite, FS_Subset

LEMMA HostOnlyShrinks ==
  ASSUME TypeOK, AnyCrash \/ (\E e \in Enclave : Reap(e) \/ ForeignStarts(e))
  PROVE  RunningVault' \subseteq RunningVault /\ UNCHANGED <<routing, refreshVars>>
<1>1. CASE AnyCrash
  BY <1>1 DEF AnyCrash, Crash, RunningVault, TypeOK, Enclave
<1>2. CASE \E e \in Enclave : Reap(e)
  BY <1>2 DEF Reap, RunningVault, TypeOK, Enclave
<1>3. CASE \E e \in Enclave : ForeignStarts(e)
  BY <1>3, PoolAssumption DEF ForeignStarts, RunningVault, TypeOK, Enclave
<1> QED
  BY <1>1, <1>2, <1>3

(* A refresh never plans to launch past the pool's size. *)
LEMMA LaunchPlan ==
  /\ EnclavesToLaunch(host) \in Nat
  /\ \/ EnclavesToLaunch(host) = 0
     \/ Cardinality(RunningVault) + EnclavesToLaunch(host) = MaxEnclaves
<1>1. {e \in Enclave : IsRunnableEnclave(e, host[e])} = RunningVault
  BY DEF IsRunnableEnclave, RunningVault, Enclave
<1> QED
  BY <1>1, RunningFinite, PoolAssumption DEF EnclavesToLaunch, SaturatingSub

-----------------------------------------------------------------------------
LEMMA SlackType == Slack \in {0, 1} /\ (NitroCliMayHang => Slack = 1)
BY DEF Slack

LEMMA CapacityInit == Init => CapacityInv
<1> SUFFICES ASSUME Init PROVE CapacityInv
  OBVIOUS
<1>1. MayStillStart = 0 /\ OrphanMayStart = 0
  BY DEF Init, MayStillStart, OrphanMayStart
<1>2. Cardinality(RunningVault) <= MaxEnclaves
  BY DEF Init
<1> QED
  BY <1>1, <1>2, RunningFinite, SlackType, PoolAssumption DEF CapacityInv, Init

(* One step keeps the pool within its bound. *)
LEMMA CapacityStep == TypeOK /\ CapacityInv /\ [Next]_vars => CapacityInv'
<1> SUFFICES ASSUME TypeOK, CapacityInv, [Next]_vars PROVE CapacityInv'
  OBVIOUS
<1> DEFINE N == Cardinality(RunningVault)
<1>a. /\ N \in Nat /\ MaxEnclaves \in Nat /\ Slack \in {0, 1} /\ delta \in Nat
      /\ OrphanMayStart \in {0, 1}
  BY RunningFinite, SlackType, PoolAssumption DEF TypeOK, OrphanMayStart
<1>b. /\ N + MayStillStart + OrphanMayStart <= MaxEnclaves + Slack
      /\ child # "none" => pc = "launch"
      /\ orphan # "none" => ~starting /\ NitroCliMayHang
  BY DEF CapacityInv
<1>c. Slack' = Slack
  BY DEF Slack
<1>d. ASSUME UNCHANGED host PROVE RunningVault' = RunningVault
  BY <1>d DEF RunningVault
<1>1. CASE DescribeOk
  <2>1. RunningVault' = RunningVault /\ UNCHANGED <<child, orphan, starting>> /\ child = "none"
    BY <1>1, <1>b, <1>d DEF DescribeOk
  <2>2. OrphanMayStart' = OrphanMayStart
    BY <2>1 DEF OrphanMayStart
  <2>3. OrphanMayStart <= Slack
    BY <1>b, <1>a, SlackType DEF OrphanMayStart
  <2>4. MayStillStart' = 0 \/ N + MayStillStart' = MaxEnclaves
    BY <1>1, <2>1, LaunchPlan DEF DescribeOk, NeedsLaunch, MayStillStart
  <2>5. N + OrphanMayStart <= MaxEnclaves + Slack
    BY <1>1, <1>a, <1>b DEF MayStillStart, DescribeOk
  <2>6. N + MayStillStart' + OrphanMayStart <= MaxEnclaves + Slack
    BY <2>3, <2>4, <2>5, <1>a
  <2> QED
    BY <2>1, <2>2, <2>6, <1>b, <1>c DEF CapacityInv
<1>2. CASE DescribeErr \/ RedescribeOk \/ RedescribeErr \/ Store \/ Wake
  <2>1. /\ UNCHANGED <<host, child, orphan>> /\ pc # "launch" /\ pc' # "launch"
        /\ starting' => starting
    BY <1>2 DEF DescribeErr, RedescribeOk, RedescribeErr, Store, Wake
  <2>2. MayStillStart' = MayStillStart /\ OrphanMayStart' = OrphanMayStart
    BY <2>1 DEF MayStillStart, OrphanMayStart
  <2> QED
    BY <2>1, <2>2, <1>b, <1>c, <1>d DEF CapacityInv
<1>3. CASE RunEnclave
  <2>1. UNCHANGED <<host, pc, starting, orphan>> /\ pc = "launch"
    BY <1>3 DEF RunEnclave
  <2>2. MayStillStart' = MayStillStart /\ OrphanMayStart' = OrphanMayStart
    BY <1>3 DEF MayStillStart, OrphanMayStart, RunEnclave
  <2> QED
    BY <2>1, <2>2, <1>b, <1>c, <1>d DEF CapacityInv
<1>4. CASE RunEnclaveOk
  <2>1. UNCHANGED <<host, starting, orphan>> /\ child' = "none"
    BY <1>4 DEF RunEnclaveOk
  <2>2. MayStillStart' = MayStillStart
    BY <1>4, <1>a DEF MayStillStart, RunEnclaveOk
  <2>3. OrphanMayStart' = OrphanMayStart
    BY <2>1 DEF OrphanMayStart
  <2> QED
    BY <2>1, <2>2, <2>3, <1>b, <1>c, <1>d DEF CapacityInv
<1>5. CASE RunEnclaveErr
  <2>1. UNCHANGED <<host, starting, orphan>> /\ child' = "none" /\ delta >= 1 /\ pc = "launch"
    BY <1>5, PoolAssumption DEF RunEnclaveErr, TypeOK
  <2>2. MayStillStart' = 0 /\ MayStillStart \in Nat
    BY <1>5, <2>1, <1>a DEF MayStillStart, RunEnclaveErr
  <2>3. OrphanMayStart' = OrphanMayStart
    BY <2>1 DEF OrphanMayStart
  <2>4. N + 0 + OrphanMayStart <= MaxEnclaves + Slack
    BY <2>2, <1>a, <1>b
  <2> QED
    BY <2>1, <2>2, <2>3, <2>4, <1>b, <1>c, <1>d DEF CapacityInv
<1>6. CASE InitialRefreshTimeout
  <2>1. UNCHANGED host /\ child' = "none" /\ ~starting' /\ orphan = "none" /\ NitroCliMayHang
    BY <1>6, <1>b DEF InitialRefreshTimeout
  <2>2. MayStillStart' = 0 /\ Slack = 1 /\ OrphanMayStart = 0
    BY <1>6, <2>1, SlackType DEF MayStillStart, InitialRefreshTimeout, OrphanMayStart
  <2>3. N + OrphanMayStart' <= MaxEnclaves + 1
    <3>1. CASE child = "spawned"
      <4>1. pc = "launch" /\ delta >= 1
        BY <3>1, <1>b, PoolAssumption DEF TypeOK
      <4>2. MayStillStart >= 1
        BY <3>1, <4>1, <1>a DEF MayStillStart
      <4>3. OrphanMayStart' = 1
        BY <1>6, <3>1 DEF InitialRefreshTimeout, OrphanMayStart
      <4>4. MayStillStart \in Nat
        BY <3>1, <4>1, <1>a DEF MayStillStart
      <4> QED
        BY <4>2, <4>3, <4>4, <2>2, <1>a, <1>b
    <3>2. CASE child # "spawned"
      <4>1. OrphanMayStart' = 0
        BY <1>6, <3>2 DEF InitialRefreshTimeout, OrphanMayStart
      <4>2. MayStillStart \in Nat
        <5>1. pc = "launch" => delta >= 1
          BY PoolAssumption DEF TypeOK
        <5> QED
          BY <5>1, <1>a DEF MayStillStart
      <4> QED
        BY <4>1, <4>2, <2>2, <1>a, <1>b
    <3> QED
      BY <3>1, <3>2
  <2>4. OrphanMayStart' \in {0, 1}
    BY DEF OrphanMayStart
  <2>5. Cardinality(RunningVault') + MayStillStart' + OrphanMayStart' <= MaxEnclaves + Slack'
    BY <2>1, <2>2, <2>3, <2>4, <1>a, <1>c, <1>d
  <2> QED
    BY <2>1, <2>5 DEF CapacityInv
<1>7. CASE ParentRestart
  <2>1. UNCHANGED host /\ child' = "none" /\ orphan' = "none" /\ pc' = "describe"
    BY <1>7 DEF ParentRestart
  <2>2. MayStillStart' = 0 /\ OrphanMayStart' = 0
    BY <2>1 DEF MayStillStart, OrphanMayStart
  <2>3. MayStillStart \in Nat
    <3>1. pc = "launch" => delta >= 1
      BY PoolAssumption DEF TypeOK
    <3> QED
      BY <3>1, <1>a DEF MayStillStart
  <2>4. N + 0 + 0 <= MaxEnclaves + Slack
    BY <2>3, <1>a, <1>b
  <2> QED
    BY <2>1, <2>2, <2>4, <1>c, <1>d DEF CapacityInv
<1>8. CASE ChildStartsEnclave
  <2>1. /\ UNCHANGED <<pc, starting, delta, orphan>> /\ pc = "launch"
        /\ child = "spawned" /\ child' = "started" /\ StartFreshEnclave
    BY <1>8, <1>b DEF ChildStartsEnclave
  <2>2. MayStillStart' = MayStillStart - 1 /\ MayStillStart = delta
    BY <2>1, <1>a DEF MayStillStart
  <2>3. OrphanMayStart' = OrphanMayStart
    BY <2>1 DEF OrphanMayStart
  <2>4. Cardinality(RunningVault') + MayStillStart' + OrphanMayStart' <= MaxEnclaves + Slack'
    BY <2>1, <2>2, <2>3, <1>a, <1>b, <1>c, StartAddsOne
  <2> QED
    BY <2>1, <2>4, <1>b DEF CapacityInv
<1>9. CASE OrphanStartsEnclave
  <2>1. /\ UNCHANGED <<pc, starting, delta, child>> /\ orphan = "spawned" /\ orphan' = "none"
        /\ StartFreshEnclave
    BY <1>9 DEF OrphanStartsEnclave
  <2>2. MayStillStart' = MayStillStart /\ OrphanMayStart = 1 /\ OrphanMayStart' = 0
    BY <2>1 DEF MayStillStart, OrphanMayStart
  <2>3. MayStillStart \in Int
    BY <1>a DEF MayStillStart
  <2>4. Cardinality(RunningVault') + MayStillStart' + OrphanMayStart' <= MaxEnclaves + Slack'
    BY <2>1, <2>2, <2>3, <1>a, <1>b, <1>c, StartAddsOne
  <2> QED
    BY <2>1, <2>4, <1>b DEF CapacityInv
<1>10. CASE OrphanDies
  <2>1. UNCHANGED <<host, pc, starting, delta, child>> /\ orphan = "spawned" /\ orphan' = "none"
    BY <1>10 DEF OrphanDies
  <2>2. MayStillStart' = MayStillStart /\ OrphanMayStart = 1 /\ OrphanMayStart' = 0
    BY <2>1 DEF MayStillStart, OrphanMayStart
  <2>3. MayStillStart \in Int
    BY <1>a DEF MayStillStart
  <2>4. N + MayStillStart' + OrphanMayStart' <= MaxEnclaves + Slack'
    BY <2>2, <2>3, <1>a, <1>b, <1>c
  <2> QED
    BY <2>1, <2>4, <1>b, <1>d DEF CapacityInv
<1>11. CASE AnyCrash \/ (\E e \in Enclave : Reap(e) \/ ForeignStarts(e))
  <2>1. RunningVault' \subseteq RunningVault /\ UNCHANGED refreshVars
    BY <1>11, HostOnlyShrinks
  <2>2. UNCHANGED <<pc, starting, delta, child, orphan>>
    BY <2>1 DEF refreshVars
  <2>3. Cardinality(RunningVault') <= N /\ Cardinality(RunningVault') \in Nat
    BY <2>1, ShrinkKeepsBound, RunningFiniteNext
  <2>4. MayStillStart' = MayStillStart /\ OrphanMayStart' = OrphanMayStart
    BY <2>2 DEF MayStillStart, OrphanMayStart
  <2>5. MayStillStart \in Int
    BY <1>a DEF MayStillStart
  <2>6. Cardinality(RunningVault') + MayStillStart' + OrphanMayStart' <= MaxEnclaves + Slack'
    BY <2>3, <2>4, <2>5, <1>a, <1>b, <1>c
  <2> QED
    BY <2>2, <2>6, <1>b DEF CapacityInv
<1>12. CASE UNCHANGED vars
  <2>1. UNCHANGED <<host, pc, starting, delta, child, orphan>>
    BY <1>12 DEF vars
  <2> QED
    BY <2>1, <1>b, <1>c, <1>d DEF CapacityInv, MayStillStart, OrphanMayStart
<1> QED
  BY <1>1, <1>2, <1>3, <1>4, <1>5, <1>6, <1>7, <1>8, <1>9, <1>10, <1>11, <1>12
  DEF Next, Refresh, Host

(* The capacity invariant holds of every behaviour of the pool. *)
THEOREM CapacityInvariant == Spec => []CapacityInv
BY CapacityInit, CapacityStep, TypeCorrect, PTL DEF Spec

(***************************************************************************)
(* The parent never runs more vault enclaves than it is configured for, or *)
(* one more if nitro-cli can outlast the startup timeout (CapacityBound).  *)
(***************************************************************************)
THEOREM PoolWithinCapacity == Spec => []CapacityBound
<1>1. TypeOK /\ CapacityInv => CapacityBound
  <2> SUFFICES ASSUME TypeOK, CapacityInv PROVE CapacityBound
    OBVIOUS
  <2>1. pc = "launch" => delta >= 1 /\ delta \in Nat
    BY PoolAssumption DEF TypeOK
  <2>2. MayStillStart \in Nat /\ OrphanMayStart \in Nat
    BY <2>1 DEF MayStillStart, OrphanMayStart
  <2> QED
    BY <2>2, RunningFinite, SlackType, PoolAssumption DEF CapacityInv, CapacityBound
<1> QED
  BY <1>1, CapacityInvariant, TypeCorrect, PTL

-----------------------------------------------------------------------------
LEMMA RoutingInit == Init => RoutingInv
BY DEF Init, RoutingInv

(* One step keeps what refresh knows of the routed and the running enclaves. *)
LEMMA RoutingStep == TypeOK /\ CapacityInv /\ RoutingInv /\ [Next]_vars => RoutingInv'
<1> SUFFICES ASSUME TypeOK, CapacityInv, RoutingInv, [Next]_vars PROVE RoutingInv'
  OBVIOUS
<1>a. /\ routing \subseteq VaultEnclave
      /\ pc \in {"launch", "redescribe", "store"} =>
           routing \cap RunningVault \subseteq SnapshotRunnable
      /\ pc \in {"launch", "redescribe"} => outcome = "Ok"
      /\ (pc = "store" /\ outcome = "Ok" /\ ~NitroCliMayHang) =>
           RunningVault \subseteq SnapshotRunnable
  BY DEF RoutingInv
<1>b. ASSUME snapshot' = host, UNCHANGED host
      PROVE  RunningVault' = RunningVault /\ SnapshotRunnable' = RunningVault
  BY <1>b DEF RunningVault, SnapshotRunnable, IsRunnableEnclave, Enclave
<1>c. ASSUME UNCHANGED <<host, snapshot>>
      PROVE  RunningVault' = RunningVault /\ SnapshotRunnable' = SnapshotRunnable
  BY <1>c DEF RunningVault, SnapshotRunnable
<1>1. CASE DescribeOk
  BY <1>1, <1>a, <1>b DEF DescribeOk, RoutingInv
<1>2. CASE DescribeErr \/ Wake
  BY <1>2, <1>a DEF DescribeErr, Wake, RoutingInv
<1>3. CASE RunEnclave
  BY <1>3, <1>a, <1>c DEF RunEnclave, RoutingInv
<1>4. CASE RunEnclaveOk
  BY <1>4, <1>a, <1>c DEF RunEnclaveOk, RoutingInv
<1>5. CASE RunEnclaveErr \/ RedescribeErr
  BY <1>5, <1>a, <1>c DEF RunEnclaveErr, RedescribeErr, RoutingInv
<1>6. CASE RedescribeOk
  BY <1>6, <1>a, <1>b DEF RedescribeOk, RoutingInv
<1>7. CASE Store
  BY <1>7 DEF Store, RoutingInv, IsRunnableEnclave
<1>8. CASE InitialRefreshTimeout \/ ParentRestart
  BY <1>8, <1>a DEF InitialRefreshTimeout, ParentRestart, RoutingInv
<1>9. CASE ChildStartsEnclave \/ OrphanStartsEnclave
  <2>1. UNCHANGED <<routing, pc, snapshot, outcome>>
    BY <1>9 DEF ChildStartsEnclave, OrphanStartsEnclave
  <2>2. PICK e \in FreshVault : host' = [host EXCEPT ![e] = "RUNNING"]
    BY <1>9 DEF ChildStartsEnclave, OrphanStartsEnclave, StartFreshEnclave
  <2>3. e \notin routing /\ RunningVault' = RunningVault \cup {e}
    BY <2>2 DEF FreshVault, RunningVault, TypeOK, Enclave
  <2>4. SnapshotRunnable' = SnapshotRunnable
    BY <2>1 DEF SnapshotRunnable
  <2>5. pc = "store" => NitroCliMayHang
    BY <1>9 DEF ChildStartsEnclave, OrphanStartsEnclave, CapacityInv
  <2> QED
    BY <2>1, <2>3, <2>4, <2>5, <1>a DEF RoutingInv
<1>10. CASE OrphanDies
  BY <1>10, <1>a, <1>c DEF OrphanDies, RoutingInv
<1>11. CASE AnyCrash \/ (\E e \in Enclave : Reap(e) \/ ForeignStarts(e))
  <2>1. /\ RunningVault' \subseteq RunningVault
        /\ UNCHANGED <<routing, pc, snapshot, outcome>>
    BY <1>11, HostOnlyShrinks DEF refreshVars
  <2>2. SnapshotRunnable' = SnapshotRunnable
    BY <2>1 DEF SnapshotRunnable
  <2> QED
    BY <2>1, <2>2, <1>a DEF RoutingInv
<1>12. CASE UNCHANGED vars
  BY <1>12, <1>a, <1>c DEF vars, RoutingInv
<1> QED
  BY <1>1, <1>2, <1>3, <1>4, <1>5, <1>6, <1>7, <1>8, <1>9, <1>10, <1>11, <1>12
  DEF Next, Refresh, Host

(* The routing invariant holds of every behaviour of the pool. *)
THEOREM RoutingInvariant == Spec => []RoutingInv
BY RoutingInit, RoutingStep, TypeCorrect, CapacityInvariant, PTL DEF Spec

(* No failure of nitro-cli takes a running enclave out of the routing list
   (HealthyStaysRouted). *)
THEOREM HealthyEnclaveStaysRouted == Spec => HealthyStaysRouted
<1>1. RoutingInv /\ [Next]_vars =>
        [ParentRestart \/ \A e \in routing : host[e] = "RUNNING" => e \in routing']_vars
  <2> SUFFICES ASSUME RoutingInv, Next, ~ParentRestart,
                      NEW e \in routing, host[e] = "RUNNING"
               PROVE  e \in routing'
    BY DEF vars
  <2>1. CASE Store
    <3>1. e \in RunningVault
      BY DEF RunningVault, RoutingInv
    <3>2. e \in SnapshotRunnable
      BY <2>1, <3>1 DEF Store, RoutingInv
    <3> QED
      BY <2>1, <3>2 DEF Store, SnapshotRunnable
  <2>2. CASE ~Store
    BY <2>2 DEF Next, Refresh, Host, DescribeOk, DescribeErr, RunEnclave, RunEnclaveOk,
       RunEnclaveErr, RedescribeOk, RedescribeErr, Wake, InitialRefreshTimeout,
       ChildStartsEnclave, OrphanStartsEnclave, OrphanDies, AnyCrash, Crash, Reap,
       ForeignStarts
  <2> QED
    BY <2>1, <2>2
<1> QED
  BY <1>1, RoutingInvariant, PTL DEF Spec, HealthyStaysRouted

(***************************************************************************)
(* A refresh that returns Ok left every running vault enclave in the       *)
(* routing list, and until the next refresh none is started behind it      *)
(* (OkRefreshRoutesAllRunning).                                            *)
(***************************************************************************)
THEOREM OkRefreshIsComplete == Spec => []OkRefreshRoutesAllRunning
<1>1. Init => OkRefreshRoutesAllRunning
  BY DEF Init, OkRefreshRoutesAllRunning
<1>2. /\ TypeOK /\ CapacityInv /\ RoutingInv /\ OkRefreshRoutesAllRunning
      /\ [Next]_vars
      => OkRefreshRoutesAllRunning'
  <2> SUFFICES ASSUME TypeOK, CapacityInv, RoutingInv, OkRefreshRoutesAllRunning,
                      [Next]_vars,
                      pc' = "sleep", outcome' = "Ok", ~NitroCliMayHang
               PROVE  RunningVault' \subseteq routing'
    BY DEF OkRefreshRoutesAllRunning
  <2>1. CASE Store
    <3>1. RunningVault' = RunningVault
      BY <2>1 DEF Store, RunningVault
    <3>2. RunningVault \subseteq SnapshotRunnable
      BY <2>1 DEF Store, RoutingInv
    <3> QED
      BY <2>1, <3>1, <3>2 DEF Store, SnapshotRunnable
  <2>2. CASE AnyCrash \/ (\E e \in Enclave : Reap(e) \/ ForeignStarts(e))
    <3>1. /\ RunningVault' \subseteq RunningVault
          /\ UNCHANGED <<routing, pc, outcome>>
      BY <2>2, HostOnlyShrinks DEF refreshVars
    <3> QED
      BY <3>1 DEF OkRefreshRoutesAllRunning
  <2>3. CASE UNCHANGED vars
    BY <2>3 DEF vars, OkRefreshRoutesAllRunning, RunningVault
  <2> QED
    BY <2>1, <2>2, <2>3 DEF Next, Refresh, Host, DescribeOk, DescribeErr, RunEnclave,
       RunEnclaveOk, RunEnclaveErr, RedescribeOk, RedescribeErr, Wake,
       InitialRefreshTimeout, ParentRestart, ChildStartsEnclave, OrphanStartsEnclave,
       OrphanDies, CapacityInv
<1> QED
  BY <1>1, <1>2, TypeCorrect, CapacityInvariant, RoutingInvariant, PTL DEF Spec
=============================================================================
