--------------------------- MODULE WatcherProofs ---------------------------
(***************************************************************************)
(* What the watcher promises diagd and ambex, for any set of               *)
(* ConsulResolvers and services and any history of the cluster, proved     *)
(* from an inductive invariant of Watcher.                                 *)
(***************************************************************************)
EXTENDS Watcher, TLAPS

(* The objects whose cluster version the holder has not seen have a delta  *)
(* in the accumulator.  This is what the kates pipeline promises.          *)
PendingCovers == \A x \in Objects : cluster[x] # view[x] => x \in pending

IInv == TypeOK /\ PendingCovers /\ CaughtUp /\ NoDeltaLost /\ NotStranded

-----------------------------------------------------------------------------
(* The Spec of a resolver at any version it can have is one of Specs. *)
LEMMA SpecInSpecs ==
  ASSUME NEW r \in Resolvers, cluster \in Views, \A x \in Objects : cluster[x] <= Limit[x]
  PROVE  SpecAt[r][cluster[r]] \in Specs
<1>1. r \in Objects /\ cluster[r] \in 0 .. Limit[r]
  BY LimitAssumption DEF LimitAssumption, Objects, Views
<1> QED
  BY <1>1 DEF Specs

(* Types of what reconcileConsul assigns. *)
LEMMA ReconcileType ==
  ASSUME TypeOK, reconcileConsul
  PROVE  /\ resolvers' \in [Resolvers -> Addrs]
         /\ watch' \in [Resolvers \X Svcs -> {NoWatch} \cup 0 .. MaxConsul]
         /\ inflight' \in SUBSET Reports
         /\ source' \in [Svcs -> Sources]
         /\ keys' \in SUBSET Svcs
         /\ reconciled' \in BOOLEAN
<1>1. \A r \in Resolvers : SpecAt[r][cluster[r]] \in Specs
  BY SpecInSpecs DEF TypeOK
<1>2. \A r \in Resolvers : ExpandedAfter(r) \in BOOLEAN
  BY DEF ExpandedAfter, TypeOK
<1>3. \A r \in Resolvers : Address(r) \in Addrs
  BY <1>1, <1>2 DEF Address, Addrs
<1>4. NoAddr \in Addrs
  BY DEF NoAddr, Addrs, Specs
<1>5. \A r \in Resolvers : Wanted(r) \in SUBSET Svcs
  BY DEF Wanted
<1>6. 0 \in 0 .. MaxConsul
  BY BoundAssumption DEF BoundAssumption
<1>7. resolvers' \in [Resolvers -> Addrs]
  BY <1>3, <1>4 DEF reconcileConsul
<1>8. watch' \in [Resolvers \X Svcs -> {NoWatch} \cup 0 .. MaxConsul]
  BY <1>6 DEF reconcileConsul, TypeOK
<1>9. keys' \in SUBSET Svcs
  BY <1>5 DEF reconcileConsul, TypeOK
<1>10. inflight' \in SUBSET Reports
  <2>1. ASSUME NEW m \in inflight
        PROVE  [m EXCEPT !.running = @ /\ Kept(m.res, m.svc)] \in Reports
    <3>1. m \in Reports
      BY DEF TypeOK
    <3>2. (m.running /\ Kept(m.res, m.svc)) \in BOOLEAN
      BY Zenon
    <3>3. \A b \in BOOLEAN : [m EXCEPT !.running = b] \in Reports
      BY <3>1 DEF Reports
    <3> QED
      BY <3>2, <3>3, Zenon
  <2> QED
    BY <2>1 DEF reconcileConsul
<1>11. source' \in [Svcs -> Sources]
  BY DEF reconcileConsul, TypeOK, Sources
<1> QED
  BY <1>7, <1>8, <1>9, <1>10, <1>11 DEF reconcileConsul

(* The initial state is well typed. *)
LEMMA InitType == Init => TypeOK
<1> SUFFICES ASSUME Init PROVE TypeOK
  OBVIOUS
<1>1. MaxConsul \in Nat \ {0} /\ MaxIstio \in Nat
  BY BoundAssumption DEF BoundAssumption
<1>2. NoAddr \in Addrs
  BY DEF NoAddr, Addrs, Specs
<1>3. NoConsul \in [Svcs -> Data]
  BY <1>1, <1>2 DEF NoConsul, NoData, Data
<1>4. Nothing \in Views
  BY DEF Nothing, Views
<1>5. Snapshot(Nothing, 0, NoConsul, {}) \in Snapshots
  BY <1>1, <1>3, <1>4 DEF Snapshot, Snapshots
<1>6. Fastpath(Nothing, NoConsul) \in [svc : Nat, eps : Nat, gw : Nat, consul : [Svcs -> Data]]
  BY <1>3, <1>4 DEF Fastpath, Views, Objects, Kinds
<1>7. /\ cluster \in Views /\ view \in Views
      /\ \A x \in Objects : cluster[x] <= Limit[x]
      /\ pending \in SUBSET Objects /\ unsent \in SUBSET Objects
      /\ expanded \in [Resolvers -> BOOLEAN]
  BY <1>4 DEF Init, Views
<1>8. /\ carry \in Snapshots /\ encoded \in Snapshots
      /\ consulSnap \in [Svcs -> Data] /\ endpoints \in [Svcs -> Data]
      /\ fast \in [svc : Nat, eps : Nat, gw : Nat, consul : [Svcs -> Data]]
  BY <1>3, <1>5, <1>6 DEF Init
<1>9. /\ cdata \in [Svcs -> 1 .. MaxConsul]
      /\ resolvers \in [Resolvers -> Addrs]
      /\ watch \in [Resolvers \X Svcs -> {NoWatch} \cup 0 .. MaxConsul]
      /\ inflight \in SUBSET Reports
      /\ source \in [Svcs -> Sources]
      /\ keys \in SUBSET Svcs
  BY <1>1, <1>2 DEF Init, Sources
<1>10. istio \in 0 .. MaxIstio /\ changeCount \in Nat /\ notified \in 0 .. changeCount
  BY <1>1 DEF Init
<1>11. /\ primed \in BOOLEAN /\ out \in BOOLEAN /\ ready \in BOOLEAN /\ epWatch \in BOOLEAN
       /\ dirty \in BOOLEAN /\ reconciled \in BOOLEAN /\ bootstrapped \in BOOLEAN
       /\ npc \in {"idle", "notify", "ready", "incomplete", "failed"}
       /\ lpc \in {"select", "consul"}
  BY DEF Init
<1> QED
  BY <1>7, <1>8, <1>9, <1>10, <1>11 DEF TypeOK

(* Steps of the cluster, of Consul and of the service watches. *)
LEMMA SourceType ==
  ASSUME TypeOK,
         \/ \E x \in Objects : ClusterChange(x)
         \/ \E s \in Svcs : ConsulChange(s)
         \/ \E r \in Resolvers, s \in Svcs : WatchFire(r, s)
         \/ \E m \in inflight : updateEndpoints(m)
  PROVE  TypeOK'
<1> USE BoundAssumption DEF BoundAssumption
<1>1. CASE \E x \in Objects : ClusterChange(x)
  <2> PICK x \in Objects : ClusterChange(x)
    BY <1>1
  <2>1. cluster' \in Views
    BY DEF ClusterChange, TypeOK, Views
  <2>2. ASSUME NEW y \in Objects PROVE cluster'[y] <= Limit[y]
    <3>1. cluster[x] \in Nat /\ Limit[x] \in Nat /\ cluster[x] < Limit[x]
      BY LimitAssumption DEF LimitAssumption, ClusterChange, TypeOK, Views
    <3>2. cluster'[y] = IF y = x THEN cluster[x] + 1 ELSE cluster[y]
      BY DEF ClusterChange, TypeOK, Views
    <3>3. cluster[y] <= Limit[y]
      BY DEF TypeOK
    <3> QED
      BY <3>1, <3>2, <3>3
  <2>3. pending' \in SUBSET Objects
    BY DEF ClusterChange, TypeOK
  <2> QED
    BY <2>1, <2>2, <2>3 DEF ClusterChange, TypeOK, holder, loop, notify, consul
<1>2. CASE \E s \in Svcs : ConsulChange(s)
  <2> PICK s \in Svcs : ConsulChange(s)
    BY <1>2
  <2>1. cdata' \in [Svcs -> 1 .. MaxConsul]
    BY DEF ConsulChange, TypeOK
  <2> QED
    BY <2>1 DEF ConsulChange, TypeOK, k8s, holder, loop, notify
<1>3. CASE \E r \in Resolvers, s \in Svcs : WatchFire(r, s)
  <2> PICK r \in Resolvers, s \in Svcs : WatchFire(r, s)
    BY <1>3
  <2>1. Reported(r, s) \in Reports
    BY DEF Reported, Reports, TypeOK
  <2>2. inflight' \in SUBSET Reports
    BY <2>1 DEF WatchFire, TypeOK
  <2>3. watch' \in [Resolvers \X Svcs -> {NoWatch} \cup 0 .. MaxConsul]
    <3>1. cdata[s] \in 0 .. MaxConsul
      BY DEF TypeOK
    <3> QED
      BY <3>1 DEF WatchFire, TypeOK
  <2> QED
    BY <2>2, <2>3 DEF WatchFire, TypeOK, k8s, holder, loop, notify
<1>4. CASE \E m \in inflight : updateEndpoints(m)
  <2> PICK m \in inflight : updateEndpoints(m)
    BY <1>4
  <2>1. m.svc \in Svcs /\ [addr |-> m.addr, ver |-> m.ver] \in Data
    BY DEF TypeOK, Data, Reports
  <2>2. endpoints' \in [Svcs -> Data]
    BY <2>1 DEF updateEndpoints, TypeOK
  <2>3. inflight' \in SUBSET Reports
    BY DEF updateEndpoints, TypeOK
  <2>4. source' \in [Svcs -> Sources]
    <3>1. (IF m.running THEN m.res ELSE "stopped") \in Sources
      BY DEF TypeOK, Reports, Sources
    <3> QED
      BY <2>1, <3>1 DEF updateEndpoints, TypeOK
  <2> QED
    BY <2>2, <2>3, <2>4 DEF updateEndpoints, TypeOK, k8s, holder, loop, notify
<1> QED
  BY <1>1, <1>2, <1>3, <1>4

(* Steps of the loop. *)
LEMMA LoopType ==
  ASSUME TypeOK, Loop PROVE TypeOK'
<1>1. \A v \in Views, c \in [Svcs -> Data] :
         Fastpath(v, c) \in [svc : Nat, eps : Nat, gw : Nat, consul : [Svcs -> Data]]
  BY DEF Fastpath, Views, Objects, Kinds
<1>2. CASE K8sUpdate
  <2>1. /\ resolvers' \in [Resolvers -> Addrs]
        /\ watch' \in [Resolvers \X Svcs -> {NoWatch} \cup 0 .. MaxConsul]
        /\ inflight' \in SUBSET Reports
        /\ source' \in [Svcs -> Sources]
        /\ keys' \in SUBSET Svcs
        /\ reconciled' \in BOOLEAN
    BY <1>2, ReconcileType DEF K8sUpdate
  <2>2. fast' \in [svc : Nat, eps : Nat, gw : Nat, consul : [Svcs -> Data]]
    BY <1>1, <1>2 DEF K8sUpdate, TypeOK
  <2>3. expanded' \in [Resolvers -> BOOLEAN]
    BY <1>2 DEF K8sUpdate, ExpandedAfter, TypeOK
  <2>4. changeCount' \in Nat /\ notified' \in 0 .. changeCount'
    BY <1>2 DEF K8sUpdate, TypeOK
  <2>5. unsent' \in SUBSET Objects /\ pending' \in SUBSET Objects
    BY <1>2 DEF K8sUpdate, TypeOK
  <2>6. epWatch' \in BOOLEAN /\ out' \in BOOLEAN /\ primed' \in BOOLEAN
    BY <1>2 DEF endpointWatches, K8sUpdate
  <2> QED
    BY <1>2, <2>1, <2>2, <2>3, <2>4, <2>5, <2>6 DEF K8sUpdate, TypeOK, notify
<1>3. CASE ConsulUpdate
  <2>1. fast' \in [svc : Nat, eps : Nat, gw : Nat, consul : [Svcs -> Data]]
    BY <1>1, <1>3 DEF ConsulUpdate, TypeOK
  <2> QED
    BY <1>3, <2>1 DEF ConsulUpdate, TypeOK, k8s, notify, consul
<1>4. CASE IstioUpdate
  <2>1. istio' \in 0 .. MaxIstio /\ changeCount' \in Nat /\ notified' \in 0 .. changeCount'
    BY <1>4, BoundAssumption DEF BoundAssumption, IstioUpdate, TypeOK
  <2> QED
    BY <1>4, <2>1 DEF IstioUpdate, TypeOK, k8s, notify, consul
<1>5. CASE Send
  BY <1>5 DEF Send, TypeOK, k8s, holder, loop, consul
<1>6. CASE ConsulFired
  BY <1>6 DEF ConsulFired, TypeOK, k8s, holder, notify
<1> QED
  BY <1>2, <1>3, <1>4, <1>5, <1>6 DEF Loop

(* Steps of the notify goroutine. *)
LEMMA NotifyType ==
  ASSUME TypeOK, Notify \/ NotifyError PROVE TypeOK'
<1>1. CASE NotifyUnchanged
  BY <1>1 DEF NotifyUnchanged, TypeOK, k8s, holder, loop, consul
<1>2. CASE NotifyMarshal
  <2>1. carry' \in Snapshots
    BY <1>2 DEF NotifyMarshal, Snapshot, Snapshots, TypeOK
  <2>2. bootstrapped' \in BOOLEAN
    BY <1>2 DEF NotifyMarshal, isBootstrapped, TypeOK
  <2>3. /\ unsent' \in SUBSET Objects
        /\ changeCount' \in Nat /\ notified' \in 0 .. changeCount'
        /\ npc' \in {"idle", "notify", "ready", "incomplete", "failed"}
    BY <1>2 DEF NotifyMarshal, TypeOK
  <2> QED
    BY <1>2, <2>1, <2>2, <2>3 DEF NotifyMarshal, TypeOK, k8s, loop
<1>3. CASE NotifyReady
  BY <1>3 DEF NotifyReady, TypeOK, k8s, holder, loop, consul
<1>4. CASE NotifyIncomplete
  BY <1>4 DEF NotifyIncomplete, TypeOK, k8s, holder, loop, consul
<1>5. CASE NotifyError
  BY <1>5 DEF NotifyError, TypeOK, k8s, holder, loop, consul
<1> QED
  BY <1>1, <1>2, <1>3, <1>4, <1>5 DEF Notify
-----------------------------------------------------------------------------
(* PendingCovers: only the cluster makes an object differ from the view,    *)
(* and K8sUpdate takes the whole cluster at once.                           *)
LEMMA PendingStep ==
  ASSUME TypeOK, PendingCovers, Next PROVE PendingCovers'
<1>1. CASE \E x \in Objects : ClusterChange(x)
  <2> PICK x \in Objects : ClusterChange(x)
    BY <1>1
  <2>1. \A y \in Objects : y # x => cluster'[y] = cluster[y]
    BY DEF ClusterChange, TypeOK, Views
  <2> QED
    BY <2>1 DEF ClusterChange, PendingCovers, holder
<1>2. CASE K8sUpdate
  BY <1>2 DEF K8sUpdate, PendingCovers
<1>3. CASE UNCHANGED <<cluster, pending, view>>
  BY <1>3 DEF PendingCovers
<1>4. (~\E x \in Objects : ClusterChange(x)) /\ ~K8sUpdate => UNCHANGED <<cluster, pending, view>>
  BY DEF Next, Loop, Notify, ConsulChange, ConsulFired, ConsulUpdate, IstioUpdate, Send, NotifyUnchanged,
         NotifyMarshal, NotifyReady, NotifyIncomplete, NotifyError, WatchFire,
         updateEndpoints, k8s, holder
<1> QED
  BY <1>1, <1>2, <1>3, <1>4

(* CaughtUp and NoDeltaLost.  K8sUpdate leaves the change count alone only   *)
(* if nothing but Endpoints is pending, and then PendingCovers says that     *)
(* nothing else changes in the view.                                         *)
LEMMA SentStep ==
  ASSUME TypeOK, PendingCovers, CaughtUp, NoDeltaLost, Next
  PROVE  CaughtUp' /\ NoDeltaLost'
<1>1. CASE K8sUpdate
  <2>1. Delivered' = Delivered /\ istio' = istio /\ notified' = notified
    BY <1>1 DEF K8sUpdate, Delivered, notify
  <2>2. view' = cluster /\ unsent' = unsent \cup pending
    BY <1>1 DEF K8sUpdate
  <2>3. CASE pending \subseteq {"Endpoints"}
    <3>1. changeCount' = changeCount
      BY <1>1, <2>3 DEF K8sUpdate
    <3>2. \A x \in Objects \ {"Endpoints"} : cluster[x] = view[x]
      BY <2>3 DEF PendingCovers
    <3> QED
      BY <2>1, <2>2, <3>1, <3>2 DEF CaughtUp, NoDeltaLost, PendingCovers
  <2>4. CASE ~(pending \subseteq {"Endpoints"})
    <3>1. changeCount' # notified'
      BY <1>1, <2>1, <2>4 DEF K8sUpdate, TypeOK
    <3> QED
      BY <2>1, <2>2, <3>1 DEF CaughtUp, NoDeltaLost, PendingCovers
  <2> QED
    BY <2>3, <2>4
<1>2. CASE IstioUpdate
  <2>1. /\ Delivered' = Delivered /\ view' = view /\ unsent' = unsent
    BY <1>2 DEF IstioUpdate, Delivered, notify
  <2>2. changeCount' # notified'
    BY <1>2 DEF IstioUpdate, TypeOK
  <2> QED
    BY <2>1, <2>2 DEF CaughtUp, NoDeltaLost
<1>3. CASE NotifyMarshal
  <2>1. CASE isBootstrapped
    <3>1. /\ Delivered' = Snapshot(view, istio, consulSnap, unsent)
          /\ view' = view /\ istio' = istio
      BY <1>3, <2>1 DEF NotifyMarshal, Delivered
    <3> QED
      BY <3>1 DEF CaughtUp, NoDeltaLost, Snapshot
  <2>2. CASE ~isBootstrapped
    <3>1. /\ Delivered' = Delivered /\ view' = view /\ istio' = istio /\ unsent' = unsent
          /\ notified' = notified /\ changeCount' = changeCount
      BY <1>3, <2>2 DEF NotifyMarshal, Delivered
    <3> QED
      BY <3>1 DEF CaughtUp, NoDeltaLost
  <2> QED
    BY <2>1, <2>2
<1>4. CASE NotifyReady \/ NotifyError
  <2>1. /\ Delivered' = Delivered /\ view' = view /\ istio' = istio /\ unsent' = unsent
        /\ notified' = notified /\ changeCount' = changeCount
    BY <1>4 DEF NotifyReady, NotifyError, Delivered, holder
  <2> QED
    BY <2>1 DEF CaughtUp, NoDeltaLost
<1>5. CASE /\ UNCHANGED <<view, istio, unsent, changeCount, notified, carry, encoded>>
           /\ npc = "ready" <=> npc' = "ready"
  <2>1. Delivered' = Delivered
    BY <1>5 DEF Delivered
  <2> QED
    BY <1>5, <2>1 DEF CaughtUp, NoDeltaLost
<1>6. \/ K8sUpdate \/ IstioUpdate \/ NotifyMarshal \/ NotifyReady \/ NotifyError
      \/ /\ UNCHANGED <<view, istio, unsent, changeCount, notified, carry, encoded>>
         /\ npc = "ready" <=> npc' = "ready"
  BY DEF Next, Loop, Notify, ClusterChange, ConsulChange, ConsulFired, ConsulUpdate, Send, NotifyUnchanged,
         NotifyIncomplete, WatchFire, updateEndpoints, k8s, holder, notify
<1> QED
  BY <1>1, <1>2, <1>3, <1>4, <1>5, <1>6

(* NotStranded.  Every source that adds a change sets out; a snapshot that   *)
(* is not sent finds Consul not bootstrapped, and the endpoints that finish  *)
(* the bootstrap mark the consulWatcher dirty.                               *)
LEMMA StrandedStep ==
  ASSUME TypeOK, NotStranded, Next PROVE NotStranded'
<1>1. CASE K8sUpdate \/ ConsulFired \/ ConsulUpdate \/ IstioUpdate
  BY <1>1 DEF K8sUpdate, ConsulFired, ConsulUpdate, IstioUpdate, NotStranded
<1>2. CASE Send \/ NotifyError
  BY <1>2 DEF Send, NotifyError, NotStranded
<1>3. CASE \E m \in inflight : updateEndpoints(m)
  BY <1>3 DEF updateEndpoints, NotStranded
<1>4. CASE NotifyMarshal
  <2>1. CASE isBootstrapped
    BY <1>4, <2>1 DEF NotifyMarshal, NotStranded
  <2>2. CASE ~isBootstrapped
    <3>1. ~isBootstrapped'
      BY <1>4, <2>2 DEF NotifyMarshal, isBootstrapped
    <3> QED
      BY <3>1 DEF NotStranded
  <2> QED
    BY <2>1, <2>2
<1>5. CASE NotifyUnchanged
  BY <1>5 DEF NotifyUnchanged, NotStranded, holder, loop
<1>6. CASE /\ UNCHANGED <<changeCount, notified, loop, dirty, reconciled, bootstrapped, keys, endpoints>>
           /\ npc' = npc \/ npc \in {"ready", "incomplete"}
  <2>1. isBootstrapped' <=> isBootstrapped
    BY <1>6 DEF isBootstrapped
  <2> QED
    BY <1>6, <2>1 DEF NotStranded, loop
<1>7. \/ K8sUpdate \/ ConsulFired \/ ConsulUpdate \/ IstioUpdate \/ Send \/ NotifyError \/ NotifyMarshal
      \/ NotifyUnchanged \/ \E m \in inflight : updateEndpoints(m)
      \/ /\ UNCHANGED <<changeCount, notified, loop, dirty, reconciled, bootstrapped, keys, endpoints>>
         /\ npc' = npc \/ npc \in {"ready", "incomplete"}
  BY DEF Next, Loop, Notify, ClusterChange, ConsulChange, NotifyReady, NotifyIncomplete,
         WatchFire, k8s, holder, notify, consul
<1> QED
  BY <1>1, <1>2, <1>3, <1>4, <1>5, <1>6, <1>7

-----------------------------------------------------------------------------
(* The invariant holds in every reachable state of the watcher. *)
THEOREM WatcherInvariant == Spec => []IInv
<1>1. Init => IInv
  <2> SUFFICES ASSUME Init PROVE IInv
    OBVIOUS
  <2>1. TypeOK
    BY InitType
  <2>2. PendingCovers
    BY DEF Init, PendingCovers, Nothing
  <2>3. Delivered.view = view /\ Delivered.istio = istio
    BY DEF Init, Delivered, Snapshot
  <2>4. CaughtUp /\ NoDeltaLost
    BY <2>3 DEF CaughtUp, NoDeltaLost
  <2>5. NotStranded
    BY DEF Init, NotStranded
  <2> QED
    BY <2>1, <2>2, <2>4, <2>5 DEF IInv
<1>2. IInv /\ [Next]_vars => IInv'
  <2> SUFFICES ASSUME IInv, [Next]_vars PROVE IInv'
    OBVIOUS
  <2>1. CASE Next
    <3>1. TypeOK'
      BY <2>1, SourceType, LoopType, NotifyType DEF IInv, Next
    <3> QED
      BY <2>1, <3>1, PendingStep, SentStep, StrandedStep DEF IInv
  <2>2. CASE UNCHANGED vars
    BY <2>2 DEF vars, k8s, holder, loop, notify, consul, IInv, TypeOK, PendingCovers, CaughtUp,
                NoDeltaLost, NotStranded, Delivered, isBootstrapped
  <2> QED
    BY <2>1, <2>2
<1> QED
  BY <1>1, <1>2, PTL DEF Spec

(* Every variable of the watcher stays in its type. *)
THEOREM WatcherTypeCorrect == Spec => []TypeOK
<1>1. IInv => TypeOK
  BY DEF IInv
<1> QED
  BY <1>1, WatcherInvariant, PTL

(* When snapshotChangeNotified has caught up with snapshotChangeCount, diagd *)
(* has, or is about to be sent, everything but Endpoints: Notify may return  *)
(* without sending.                                                          *)
THEOREM SkippingIsSafe == Spec => []CaughtUp
<1>1. IInv => CaughtUp
  BY DEF IInv
<1> QED
  BY <1>1, WatcherInvariant, PTL

(* Deltas reach diagd: what diagd's snapshot does not show yet is announced  *)
(* by a delta that Notify has still to send.                                 *)
THEOREM DeltasReachDiagd == Spec => []NoDeltaLost
<1>1. IInv => NoDeltaLost
  BY DEF IInv
<1> QED
  BY <1>1, WatcherInvariant, PTL

(* No change is stranded between the loop and the notify goroutine.          *)
THEOREM NothingStranded == Spec => []NotStranded
<1>1. IInv => NotStranded
  BY DEF IInv
<1> QED
  BY <1>1, WatcherInvariant, PTL

-----------------------------------------------------------------------------
(* Ambex has the holder's Consul endpoints, the holder those of the          *)
(* consulWatcher unless that is dirty, and what the bootstrap waited for      *)
(* stays with the consulWatcher.                                             *)
ConsulChain ==
  /\ fast.consul = consulSnap
  /\ ~dirty /\ lpc = "select" => consulSnap = endpoints
  /\ bootstrapped => reconciled /\ \A s \in keys : endpoints[s] # NoData
  /\ ready \/ npc = "ready" => bootstrapped

(* Every step keeps the chain of copies of the Consul endpoints. *)
LEMMA ChainStep == ASSUME TypeOK, ConsulChain, [Next]_vars PROVE ConsulChain'
<1>1. CASE K8sUpdate
  BY <1>1 DEF K8sUpdate, reconcileConsul, Fastpath, notify, ConsulChain
<1>2. CASE ConsulUpdate
  BY <1>2 DEF ConsulUpdate, Fastpath, notify, consul, ConsulChain
<1>3. CASE \E m \in inflight : updateEndpoints(m)
  <2> PICK m \in inflight : updateEndpoints(m)
    BY <1>3
  <2>1. m.svc \in Svcs /\ m.ver # 0
    BY DEF TypeOK, Reports
  <2>2. \A s \in keys : endpoints[s] # NoData => endpoints'[s] # NoData
    BY <2>1 DEF updateEndpoints, NoData, TypeOK
  <2> QED
    BY <2>2 DEF updateEndpoints, ConsulChain, holder, loop, notify
<1>4. CASE NotifyMarshal
  BY <1>4 DEF NotifyMarshal, isBootstrapped, loop, ConsulChain
<1>5. CASE NotifyReady \/ NotifyIncomplete \/ NotifyError \/ NotifyUnchanged
  BY <1>5 DEF NotifyReady, NotifyIncomplete, NotifyError, NotifyUnchanged, holder, loop,
              consul, ConsulChain
<1>6. CASE Send
  BY <1>6 DEF Send, holder, consul, ConsulChain
<1>7. CASE UNCHANGED <<fast, consulSnap, lpc, notify, endpoints, dirty, keys, reconciled, bootstrapped>>
  BY <1>7 DEF notify, ConsulChain
<1>8. ASSUME \/ \E x \in Objects : ClusterChange(x)
             \/ \E s \in Svcs : ConsulChange(s)
             \/ IstioUpdate
             \/ \E r \in Resolvers, s \in Svcs : WatchFire(r, s)
             \/ UNCHANGED vars
      PROVE  UNCHANGED <<fast, consulSnap, lpc, notify, endpoints, dirty, keys, reconciled, bootstrapped>>
  BY <1>8 DEF ClusterChange, ConsulChange, IstioUpdate, WatchFire, vars, holder, loop, consul
<1>9. CASE ConsulFired
  BY <1>9 DEF ConsulFired, ConsulChain, holder, notify
<1> QED
  BY <1>1, <1>2, <1>3, <1>4, <1>5, <1>6, <1>7, <1>8, <1>9 DEF Next, Loop, Notify

(* The Consul endpoints a ready snapshot waited for reach ambex, although    *)
(* Notify may have marshalled the snapshot without them.                     *)
THEOREM EndpointsFollow == Spec => []ReadyIsCovered
<1>1. Init => ConsulChain
  BY DEF Init, Fastpath, ConsulChain
<1>2. TypeOK /\ ConsulChain /\ [Next]_vars => ConsulChain'
  BY ChainStep
<1>3. TypeOK /\ ConsulChain => ReadyIsCovered
  BY DEF TypeOK, ConsulChain, ReadyIsCovered
<1> QED
  BY <1>1, <1>2, <1>3, WatcherTypeCorrect, PTL DEF Spec

-----------------------------------------------------------------------------
(* A K8sUpdate that sends nothing to ambex changes nothing ambex needs: the *)
(* watches are the same, no HTTPRoute has a delta, and Endpoints have none  *)
(* unless nothing that K8sUpdate recognises routes to them.                 *)
LEMMA FastpathStep ==
  ASSUME PendingCovers, FastpathFresh, [Next]_vars PROVE FastpathFresh'
<1>1. CASE K8sUpdate
  <2>1. CASE endpointsChanged \/ dispatcherChanged
    BY <1>1, <2>1 DEF K8sUpdate, Fastpath, FastpathFresh
  <2>2. CASE ~endpointsChanged /\ ~dispatcherChanged
    <3>1. fast' = fast /\ view' = cluster /\ epWatch' = epWatch /\ consulSnap' = consulSnap
      BY <1>1, <2>2 DEF K8sUpdate, endpointsChanged
    <3>2. cluster["HTTPRoute"] = view["HTTPRoute"]
      BY <2>2 DEF dispatcherChanged, PendingCovers, Objects, Kinds
    <3>3. ASSUME epWatch \/ view["HTTPRoute"] \in PortlessAt
          PROVE  cluster["Endpoints"] = view["Endpoints"]
      <4>1. endpointWatches \/ IsWatched
        BY <2>2, <3>3 DEF endpointsChanged, IsWatched, FastpathFresh
      <4>2. "Endpoints" \notin pending
        BY <2>2, <4>1 DEF endpointsChanged
      <4> QED
        BY <4>2 DEF PendingCovers, Objects, Kinds
    <3> QED
      BY <3>1, <3>2, <3>3 DEF FastpathFresh
  <2> QED
    BY <2>1, <2>2
<1>2. CASE ConsulUpdate
  BY <1>2 DEF ConsulUpdate, Fastpath, FastpathFresh
<1>3. CASE UNCHANGED <<epWatch, view, fast, consulSnap>>
  BY <1>3 DEF FastpathFresh
<1>4. K8sUpdate \/ ConsulUpdate \/ UNCHANGED <<epWatch, view, fast, consulSnap>>
  BY DEF Next, Loop, Notify, ClusterChange, ConsulChange, ConsulFired, IstioUpdate, Send,
         NotifyUnchanged, NotifyMarshal, NotifyReady, NotifyIncomplete, NotifyError, WatchFire,
         updateEndpoints, holder, vars
<1> QED
  BY <1>1, <1>2, <1>3, <1>4

(* Ambex has what it needs of the view although K8sUpdate sends a fastpath   *)
(* snapshot on some of the changes only, whatever the Services, the ports    *)
(* of the HTTPRoutes and the Mappings do meanwhile.                          *)
THEOREM FastpathIsFresh == Spec => []FastpathFresh
<1>1. Init => FastpathFresh
  BY DEF Init, Fastpath, Nothing, FastpathFresh, Objects, Kinds
<1>2. IInv /\ FastpathFresh /\ [Next]_vars => FastpathFresh'
  BY FastpathStep DEF IInv
<1> QED
  BY <1>1, <1>2, WatcherInvariant, PTL DEF Spec

-----------------------------------------------------------------------------
(* The objects with a delta are exactly those whose version is ahead of the *)
(* view, and nothing is interpolated before the first FilteredUpdate.       *)
DeltasExact ==
  /\ \A x \in Objects : view[x] <= cluster[x] /\ (x \in pending <=> view[x] # cluster[x])
  /\ ~primed => \A r \in Resolvers : ~expanded[r]

(* Versions of the cluster only grow, and K8sUpdate takes them all. *)
LEMMA DeltasStep == ASSUME TypeOK, DeltasExact, [Next]_vars PROVE DeltasExact'
<1>1. CASE \E x \in Objects : ClusterChange(x)
  <2> PICK x \in Objects : ClusterChange(x)
    BY <1>1
  <2>1. view' = view /\ primed' = primed /\ expanded' = expanded
    BY DEF ClusterChange, holder
  <2>2. ASSUME NEW y \in Objects
        PROVE  view[y] <= cluster'[y] /\ (y \in pending' <=> view[y] # cluster'[y])
    <3>1. cluster'[y] = IF y = x THEN cluster[y] + 1 ELSE cluster[y]
      BY DEF ClusterChange, TypeOK, Views
    <3>2. view[y] \in Nat /\ cluster[y] \in Nat
      BY DEF TypeOK, Views
    <3>3. view[y] <= cluster[y] /\ (y \in pending <=> view[y] # cluster[y])
      BY DEF DeltasExact
    <3>4. pending' = pending \cup {x}
      BY DEF ClusterChange
    <3> QED
      BY <3>1, <3>2, <3>3, <3>4
  <2> QED
    BY <2>1, <2>2 DEF DeltasExact
<1>2. CASE K8sUpdate
  <2>1. view' = cluster /\ cluster' = cluster /\ pending' = {} /\ primed'
    BY <1>2 DEF K8sUpdate
  <2>2. \A x \in Objects : cluster[x] <= cluster[x]
    BY DEF TypeOK, Views
  <2> QED
    BY <2>1, <2>2 DEF DeltasExact
<1>3. CASE UNCHANGED <<cluster, pending, view, primed, expanded>>
  BY <1>3 DEF DeltasExact
<1>4. \/ \E x \in Objects : ClusterChange(x)
      \/ K8sUpdate \/ UNCHANGED <<cluster, pending, view, primed, expanded>>
  BY DEF Next, Loop, Notify, ConsulChange, ConsulFired, ConsulUpdate, IstioUpdate, Send,
         NotifyUnchanged, NotifyMarshal, NotifyReady, NotifyIncomplete, NotifyError, WatchFire,
         updateEndpoints, k8s, holder, vars
<1> QED
  BY <1>1, <1>2, <1>3, <1>4

(* What a step may do to the interpolation of resolver r. *)
AddressKept(r) ==
  SpecAt[r][view'[r]] # NoSpec =>
    /\ view'[r] # view[r] => expanded'[r]
    /\ expanded[r] /\ ~expanded'[r] => \E q \in Resolvers \ {r} : view'[q] # view[q]

(* FilteredUpdate unmarshals the resolvers anew only if one has a delta, and *)
(* K8sUpdate interpolates those that have one.                               *)
LEMMA AddressStep ==
  ASSUME TypeOK, DeltasExact, Next, NEW r \in Resolvers PROVE AddressKept(r)
<1>1. r \in Objects
  BY DEF Objects
<1>2. CASE K8sUpdate
  <2>1. view' = cluster /\ expanded'[r] = ExpandedAfter(r)
    BY <1>2 DEF K8sUpdate
  <2> SUFFICES ASSUME SpecAt[r][cluster[r]] # NoSpec
               PROVE  /\ cluster[r] # view[r] => expanded'[r]
                      /\ expanded[r] /\ ~expanded'[r] =>
                            \E q \in Resolvers \ {r} : cluster[q] # view[q]
    BY <2>1 DEF AddressKept
  <2>2. r \in pending => expanded'[r]
    BY <2>1 DEF ExpandedAfter
  <2>3. ASSUME expanded[r], ~expanded'[r]
        PROVE  \E q \in Resolvers \ {r} : cluster[q] # view[q]
    <3>1. primed
      BY <2>3 DEF DeltasExact
    <3>2. pending \cap Resolvers # {} /\ r \notin pending
      BY <2>1, <2>2, <2>3, <3>1 DEF ExpandedAfter
    <3>3. PICK q \in Resolvers \ {r} : q \in pending
      BY <3>2
    <3>4. q \in Objects
      BY DEF Objects
    <3>5. cluster[q] # view[q]
      BY <3>3, <3>4 DEF DeltasExact
    <3> QED
      BY <3>5
  <2> QED
    BY <1>1, <2>2, <2>3 DEF DeltasExact
<1>3. CASE UNCHANGED <<view, expanded>>
  BY <1>3 DEF AddressKept
<1>4. K8sUpdate \/ UNCHANGED <<view, expanded>>
  BY DEF Next, Loop, Notify, ClusterChange, ConsulChange, ConsulFired, ConsulUpdate, IstioUpdate,
         Send, NotifyUnchanged, NotifyMarshal, NotifyReady, NotifyIncomplete, NotifyError,
         WatchFire, updateEndpoints, holder
<1> QED
  BY <1>2, <1>3, <1>4

(* For any number of ConsulResolvers: one that is new or changed in the view *)
(* has its address interpolated, and only a change of another one brings     *)
(* the raw address back.                                                     *)
THEOREM AddressesAreKept == Spec => AddressesKept
<1>1. Init => DeltasExact
  BY DEF Init, DeltasExact, Nothing
<1>2. TypeOK /\ DeltasExact /\ [Next]_vars => DeltasExact'
  BY DeltasStep
<1>3. TypeOK /\ DeltasExact /\ [Next]_vars =>
        [\A r \in Resolvers : AddressKept(r)]_vars
  BY AddressStep
<1>4. [\A r \in Resolvers : AddressKept(r)]_vars =>
        [\A r \in Resolvers : SpecAt[r][view'[r]] # NoSpec =>
           /\ view'[r] # view[r] => expanded'[r]
           /\ expanded[r] /\ ~expanded'[r] =>
                 \E q \in Resolvers \ {r} : view'[q] # view[q]]_vars
  BY DEF AddressKept
<1> QED
  BY <1>1, <1>2, <1>3, <1>4, WatcherTypeCorrect, PTL DEF Spec, AddressesKept
=============================================================================
