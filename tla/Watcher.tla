------------------------------ MODULE Watcher ------------------------------
(***************************************************************************)
(* The watcher of cmd/entrypoint: the loop of watchAllTheThingsInternal,    *)
(* the SnapshotHolder it updates from Kubernetes, Consul and Istio, the     *)
(* notify goroutine that hands snapshots to diagd, the fastpath to ambex,   *)
(* and the consulWatcher with one watch per service it resolves.            *)
(*                                                                          *)
(* A Kubernetes object is its version.  What matters of the Mappings is     *)
(* which Consul services they name through which resolver (RoutesAt) and    *)
(* whether one uses the endpoint resolver (WatchedAt); of the HTTPRoutes of *)
(* the Gateway API, whether one forwards to the endpoints (ForwardsAt); of  *)
(* a ConsulResolver, its Spec (SpecAt), which names an address with an      *)
(* environment variable.                                                    *)
(***************************************************************************)
EXTENDS Integers, FiniteSets

CONSTANTS Resolvers,   \* names of ConsulResolvers
          Svcs,        \* Consul services
          Limit,       \* bound: last version of each Kubernetes object
          RoutesAt,    \* Mapping version -> set of <<resolver, service>>
          WatchedAt,   \* Mapping versions that use the endpoint resolver
          ForwardsAt,  \* HTTPRoute versions that forward to the endpoints
          PortlessAt,  \* those of them that name no port
          SpecAt,      \* resolver -> version -> its Spec, NoSpec if absent
          NoSpec,      \* the Spec of a resolver that does not exist
          MaxConsul,   \* bound: last version of a Consul service's endpoints
          MaxIstio     \* bound: number of Istio certificate changes

Kinds   == {"Mapping", "Service", "Endpoints", "HTTPRoute"}
Objects == Kinds \cup Resolvers

ASSUME LimitAssumption == Limit \in [Objects -> Nat]
ASSUME DisjointAssumption == (Kinds \cup {"none", "stopped"}) \cap Resolvers = {}
ASSUME BoundAssumption == MaxConsul \in Nat \ {0} /\ MaxIstio \in Nat
ASSUME RoutesAssumption ==
         \A v \in 0 .. Limit["Mapping"] : RoutesAt[v] \subseteq Resolvers \X Svcs

VARIABLES
  cluster,      \* Kubernetes: version of each object
  pending,      \* objects with a delta the accumulator has not handed over
  primed,       \* the first FilteredUpdate has happened
  view,         \* SnapshotHolder.k8sSnapshot
  expanded,     \* resolvers in it whose address has been interpolated
  istio,        \* version of the Istio secret in it
  unsent,       \* SnapshotHolder.unsentDeltas
  changeCount,  \* SnapshotHolder.snapshotChangeCount
  notified,     \* SnapshotHolder.snapshotChangeNotified
  epWatch,      \* endpointWatches holds the Service
  consulSnap,   \* SnapshotHolder.consulSnapshot
  out,          \* the loop's out channel is not nil
  lpc,          \* pc of the loop: in its select, or in the Consul case
  npc,          \* pc of the notify goroutine
  carry,        \* the snapshot it has marshalled
  encoded,      \* the atomic value that /snapshot serves to diagd
  ready,        \* history: a snapshot has been sent as SnapshotReady
  cdata,        \* Consul: version of each service's endpoints
  resolvers,    \* consulWatcher.resolvers: the address of each
  watch,        \* last version each service watch delivered, or NoWatch
  inflight,     \* endpoints a watch handler has in hand and has not sent
  endpoints,    \* consulWatcher.endpoints
  source,       \* history: the resolver whose watch sent them last
  dirty,        \* dirty of consulWatcher.run
  keys,         \* keysForBootstrap
  reconciled,   \* firstReconcileHasHappened
  bootstrapped, \* consulWatcher.bootstrapped
  fast          \* the last FastpathSnapshot ambex got

k8s    == <<cluster, pending>>
holder == <<primed, view, expanded, istio, unsent, changeCount, notified, epWatch, consulSnap>>
notify == <<npc, carry, encoded, ready>>
loop   == <<out, lpc>>
consul == <<cdata, resolvers, watch, inflight, endpoints, source, dirty, keys, reconciled,
            bootstrapped>>
vars == <<k8s, holder, loop, notify, consul, fast>>

-----------------------------------------------------------------------------
NoAddr  == <<NoSpec, FALSE>>
NoWatch == -1
NoData  == [addr |-> NoAddr, ver |-> 0]
Specs   == {NoSpec} \cup UNION {{SpecAt[r][v] : v \in 0 .. Limit[r]} : r \in Resolvers}
Addrs   == Specs \X BOOLEAN
Data    == [addr : Addrs, ver : 0 .. MaxConsul]
Views   == [Objects -> Nat]
Reports == [res : Resolvers, svc : Svcs, addr : Addrs, ver : 1 .. MaxConsul,
            running : BOOLEAN]
Sources == Resolvers \cup {"none", "stopped"}

Snapshot(v, i, c, d) == [view |-> v, istio |-> i, consul |-> c, deltas |-> d]
Nothing == [x \in Objects |-> 0]
NoConsul == [s \in Svcs |-> NoData]

Snapshots == [view : Views, istio : 0 .. MaxIstio, consul : [Svcs -> Data],
              deltas : SUBSET Objects]

(* What reaches ambex: makeEndpoints of the Kubernetes and Consul endpoints *)
(* (which looks up the ports in the Services), and the Gateway snapshot.    *)
Fastpath(v, c) ==
  [svc |-> v["Service"], eps |-> v["Endpoints"], gw |-> v["HTTPRoute"], consul |-> c]

TypeOK ==
  /\ cluster \in Views /\ view \in Views
  /\ \A x \in Objects : cluster[x] <= Limit[x]
  /\ pending \in SUBSET Objects /\ unsent \in SUBSET Objects
  /\ primed \in BOOLEAN /\ out \in BOOLEAN /\ ready \in BOOLEAN /\ epWatch \in BOOLEAN
  /\ expanded \in [Resolvers -> BOOLEAN]
  /\ istio \in 0 .. MaxIstio
  /\ changeCount \in Nat /\ notified \in 0 .. changeCount
  /\ consulSnap \in [Svcs -> Data] /\ endpoints \in [Svcs -> Data]
  /\ npc \in {"idle", "notify", "ready", "incomplete", "failed"}
  /\ carry \in Snapshots /\ encoded \in Snapshots
  /\ cdata \in [Svcs -> 1 .. MaxConsul]
  /\ resolvers \in [Resolvers -> Addrs]
  /\ watch \in [Resolvers \X Svcs -> {NoWatch} \cup 0 .. MaxConsul]
  /\ inflight \in SUBSET Reports /\ source \in [Svcs -> Sources]
  /\ lpc \in {"select", "consul"}
  /\ dirty \in BOOLEAN /\ reconciled \in BOOLEAN /\ bootstrapped \in BOOLEAN
  /\ keys \in SUBSET Svcs
  /\ fast \in [svc : Nat, eps : Nat, gw : Nat, consul : [Svcs -> Data]]

Init ==
  /\ cluster \in {c \in [Objects -> 0 .. 1] : \A x \in Objects : c[x] <= Limit[x]}
  /\ pending = {x \in Objects : cluster[x] # 0}
  /\ primed = FALSE
  /\ view = Nothing
  /\ expanded = [r \in Resolvers |-> FALSE]
  /\ istio = 0
  /\ unsent = {}
  /\ changeCount = 0 /\ notified = 0
  /\ epWatch = FALSE
  /\ consulSnap = NoConsul
  /\ out = FALSE /\ lpc = "select"
  /\ npc = "idle"
  /\ carry = Snapshot(Nothing, 0, NoConsul, {})
  /\ encoded = Snapshot(Nothing, 0, NoConsul, {})
  /\ ready = FALSE
  /\ cdata = [s \in Svcs |-> 1]
  /\ resolvers = [r \in Resolvers |-> NoAddr]
  /\ watch = [p \in Resolvers \X Svcs |-> NoWatch]
  /\ inflight = {}
  /\ endpoints = NoConsul
  /\ source = [s \in Svcs |-> "none"]
  /\ dirty = FALSE
  /\ keys = {}
  /\ reconciled = FALSE
  /\ bootstrapped = FALSE
  /\ fast = Fastpath(Nothing, NoConsul)

-----------------------------------------------------------------------------
(* The cluster and Consul change by themselves. *)
ClusterChange(x) ==
  /\ cluster[x] < Limit[x]
  /\ cluster' = [cluster EXCEPT ![x] = @ + 1]
  /\ pending' = pending \cup {x}
  /\ UNCHANGED <<holder, loop, notify, consul, fast>>

ConsulChange(s) ==
  /\ cdata[s] < MaxConsul
  /\ cdata' = [cdata EXCEPT ![s] = @ + 1]
  /\ UNCHANGED <<k8s, holder, loop, notify, resolvers, watch, inflight, endpoints, source, dirty,
                 keys, reconciled, bootstrapped, fast>>

(* Mutant: addresses are taken as interpolated only while they change. *)
ExpandedAfter_Forget(r) ==
  r \in pending /\ SpecAt[r][cluster[r]] # NoSpec

-----------------------------------------------------------------------------
(* FilteredUpdate unmarshals all ConsulResolvers anew when one of them has  *)
(* a delta; K8sUpdate then interpolates those that have one.                *)
ExpandedAfter(r) ==
  IF primed /\ pending \cap Resolvers = {} THEN expanded[r]
  ELSE r \in pending /\ SpecAt[r][cluster[r]] # NoSpec

(* ReconcileConsul and consulWatcher.reconcile. *)
Wanted(r) ==
  IF SpecAt[r][cluster[r]] = NoSpec THEN {}
  ELSE {s \in Svcs : <<r, s>> \in RoutesAt[cluster["Mapping"]]}

Address(r) == <<SpecAt[r][cluster[r]], ExpandedAfter(r)>>

(* The watch of r for s goes on: r still has the Spec it was started with. *)
Kept(r, s) ==
  s \in Wanted(r) /\ resolvers[r] = Address(r) /\ watch[<<r, s>>] # NoWatch

(* Mutant: a resolver that changes takes over the watches of the old one. *)
reconcileConsul_TakeOver ==
  /\ resolvers' = [r \in Resolvers |-> IF Wanted(r) = {} THEN NoAddr ELSE Address(r)]
  /\ watch' = [p \in Resolvers \X Svcs |->
                 IF p[2] \notin Wanted(p[1]) THEN NoWatch
                 ELSE IF watch[p] # NoWatch THEN watch[p] ELSE 0]
  /\ inflight' = {[m EXCEPT !.running = @ /\ m.svc \in Wanted(m.res)] : m \in inflight}
  /\ source' = [s \in Svcs |-> IF source[s] \in Resolvers /\ s \notin Wanted(source[s])
                               THEN "stopped" ELSE source[s]]
  /\ keys' = IF reconciled THEN keys ELSE UNION {Wanted(r) : r \in Resolvers}
  /\ reconciled' = TRUE

(* What a handler has in hand when its watch is stopped is still sent. *)
reconcileConsul ==
  /\ resolvers' = [r \in Resolvers |-> IF Wanted(r) = {} THEN NoAddr ELSE Address(r)]
  /\ watch' = [p \in Resolvers \X Svcs |->
                 IF p[2] \notin Wanted(p[1]) THEN NoWatch
                 ELSE IF Kept(p[1], p[2]) THEN watch[p] ELSE 0]
  /\ inflight' = {[m EXCEPT !.running = @ /\ Kept(m.res, m.svc)] : m \in inflight}
  /\ source' = [s \in Svcs |-> IF source[s] \in Resolvers /\ ~Kept(source[s], s)
                               THEN "stopped" ELSE source[s]]
  /\ keys' = IF reconciled THEN keys ELSE UNION {Wanted(r) : r \in Resolvers}
  /\ reconciled' = TRUE

(* The dispatcher's endpointWatches are those of the last snapshot it built, *)
(* keyed by the name of the cluster: "svc_80", not "svc", if there is a port. *)
IsWatched == fast.gw \in PortlessAt

(* checkMapping: a Mapping routes to the Service with an endpoint resolver. *)
endpointWatches == cluster["Mapping"] \in WatchedAt

(* Mutant: a change of the watches alone sends nothing. *)
endpointsChanged_DeltaOnly ==
  "Endpoints" \in pending /\ (endpointWatches \/ IsWatched)

endpointsChanged ==
  \/ endpointWatches # epWatch
  \/ "Endpoints" \in pending /\ (endpointWatches \/ IsWatched)

dispatcherChanged == "HTTPRoute" \in pending

(* The k8sWatcher.Changed() case: SnapshotHolder.K8sUpdate. *)
K8sUpdate ==
  /\ npc # "failed" /\ lpc = "select"
  /\ pending # {} \/ ~primed
  /\ primed' = TRUE
  /\ view' = cluster
  /\ expanded' = [r \in Resolvers |-> ExpandedAfter(r)]
  /\ reconcileConsul
  /\ epWatch' = endpointWatches
  /\ unsent' = unsent \cup pending
  /\ changeCount' = IF pending \subseteq {"Endpoints"} THEN changeCount ELSE changeCount + 1
  /\ fast' = IF endpointsChanged \/ dispatcherChanged THEN Fastpath(cluster, consulSnap) ELSE fast
  /\ pending' = {}
  /\ out' = TRUE
  /\ UNCHANGED <<cluster, istio, notified, consulSnap, lpc, notify, cdata, endpoints, dirty,
                 bootstrapped>>

(* The consulWatcher.changed() case: consulWatcher.run hands over that it is *)
(* dirty and may be dirty again before the loop copies its endpoints ...      *)
ConsulFired ==
  /\ npc # "failed" /\ lpc = "select"
  /\ dirty
  /\ dirty' = FALSE
  /\ lpc' = "consul"
  /\ UNCHANGED <<k8s, holder, out, notify, cdata, resolvers, watch, inflight, endpoints, source,
                 keys, reconciled, bootstrapped, fast>>

(* Mutant: endpoints do not wake the notify goroutine. *)
ConsulUpdate_NoOut ==
  /\ npc # "failed" /\ lpc = "consul"
  /\ consulSnap' = endpoints
  /\ fast' = Fastpath(view, endpoints)
  /\ out' = out
  /\ lpc' = "select"
  /\ UNCHANGED <<k8s, primed, view, expanded, istio, unsent, changeCount, notified, epWatch,
                 notify, consul>>

(* ... in SnapshotHolder.ConsulUpdate. *)
ConsulUpdate ==
  /\ npc # "failed" /\ lpc = "consul"
  /\ consulSnap' = endpoints
  /\ fast' = Fastpath(view, endpoints)
  /\ out' = TRUE
  /\ lpc' = "select"
  /\ UNCHANGED <<k8s, primed, view, expanded, istio, unsent, changeCount, notified, epWatch,
                 notify, consul>>

(* The istio.Changed() case: SnapshotHolder.IstioUpdate. *)
IstioUpdate ==
  /\ npc # "failed" /\ lpc = "select"
  /\ istio < MaxIstio
  /\ istio' = istio + 1
  /\ changeCount' = changeCount + 1
  /\ out' = TRUE
  /\ UNCHANGED <<k8s, primed, view, expanded, unsent, notified, epWatch, consulSnap, lpc,
                 notify, consul, fast>>

(* The out <- snapshots case, a rendezvous with the notify goroutine. *)
Send ==
  /\ lpc = "select" /\ out /\ npc = "idle"
  /\ out' = FALSE
  /\ npc' = "notify"
  /\ UNCHANGED <<k8s, holder, lpc, carry, encoded, ready, consul, fast>>

-----------------------------------------------------------------------------
(* Mutant: the first reconciliation counts as the bootstrap. *)
isBootstrapped_Early == reconciled

(* consulWatcher.isBootstrapped *)
isBootstrapped ==
  reconciled /\ (bootstrapped \/ \A s \in keys : endpoints[s] # NoData)

(* SnapshotHolder.Notify, the critical section: nothing to send ... *)
NotifyUnchanged ==
  /\ npc = "notify" /\ notified = changeCount
  /\ npc' = "idle"
  /\ UNCHANGED <<k8s, holder, loop, carry, encoded, ready, consul, fast>>

(* Mutant: the change counts as sent even if it is not. *)
NotifyMarshal_Count ==
  /\ npc = "notify" /\ notified # changeCount
  /\ carry' = Snapshot(view, istio, consulSnap, unsent)
  /\ bootstrapped' = isBootstrapped
  /\ npc' = IF isBootstrapped THEN "ready" ELSE "incomplete"
  /\ unsent' = IF isBootstrapped THEN {} ELSE unsent
  /\ notified' = changeCount
  /\ UNCHANGED <<k8s, primed, view, expanded, istio, changeCount, epWatch, consulSnap, loop,
                 encoded, ready, cdata, resolvers, watch, inflight, endpoints, source, dirty, keys,
                 reconciled, fast>>

(* Mutant: the deltas count as sent even if they are not. *)
NotifyMarshal_Deltas ==
  /\ npc = "notify" /\ notified # changeCount
  /\ carry' = Snapshot(view, istio, consulSnap, unsent)
  /\ bootstrapped' = isBootstrapped
  /\ npc' = IF isBootstrapped THEN "ready" ELSE "incomplete"
  /\ unsent' = {}
  /\ notified' = IF isBootstrapped THEN changeCount ELSE notified
  /\ UNCHANGED <<k8s, primed, view, expanded, istio, changeCount, epWatch, consulSnap, loop,
                 encoded, ready, cdata, resolvers, watch, inflight, endpoints, source, dirty, keys,
                 reconciled, fast>>

(* ... or a snapshot, ready if Consul has bootstrapped and incomplete if not. *)
NotifyMarshal ==
  /\ npc = "notify" /\ notified # changeCount
  /\ carry' = Snapshot(view, istio, consulSnap, unsent)
  /\ bootstrapped' = isBootstrapped
  /\ npc' = IF isBootstrapped THEN "ready" ELSE "incomplete"
  /\ unsent' = IF isBootstrapped THEN {} ELSE unsent
  /\ notified' = IF isBootstrapped THEN changeCount ELSE notified
  /\ UNCHANGED <<k8s, primed, view, expanded, istio, changeCount, epWatch, consulSnap, loop,
                 encoded, ready, cdata, resolvers, watch, inflight, endpoints, source, dirty, keys,
                 reconciled, fast>>

(* encoded.Store and the webhook of SnapshotReady, which retries a refused  *)
(* connection and takes any answer for success.                             *)
NotifyReady ==
  /\ npc = "ready"
  /\ encoded' = carry
  /\ ready' = TRUE
  /\ npc' = "incomplete"
  /\ UNCHANGED <<k8s, holder, loop, carry, consul, fast>>

(* Any other error of the webhook ends the whole group. *)
NotifyError ==
  /\ npc = "ready"
  /\ encoded' = carry
  /\ npc' = "failed"
  /\ UNCHANGED <<k8s, holder, loop, carry, ready, consul, fast>>

(* The last line of Notify hands the snapshot over as SnapshotIncomplete,   *)
(* which the production processor ignores.                                  *)
NotifyIncomplete ==
  /\ npc = "incomplete"
  /\ npc' = "idle"
  /\ UNCHANGED <<k8s, holder, loop, carry, encoded, ready, consul, fast>>

-----------------------------------------------------------------------------
(* What the ServiceWatcher reports of a service. *)
Reported(r, s) ==
  [res |-> r, svc |-> s, addr |-> resolvers[r], ver |-> cdata[s], running |-> TRUE]

(* A watch started with an address that was interpolated reaches Consul. *)
Reaching(r, s) == watch[<<r, s>>] # NoWatch /\ resolvers[r][2]

(* A service watch calls its handler with a new version, one call at a      *)
(* time.  The handler blocks on endpointsCh whether or not the watch is     *)
(* stopped meanwhile, and does not keep a restarted watch from firing.      *)
WatchFire(r, s) ==
  /\ Reaching(r, s) /\ watch[<<r, s>>] < cdata[s]
  /\ \A n \in inflight : n.running => <<n.res, n.svc>> # <<r, s>>
  /\ inflight' = inflight \cup {Reported(r, s)}
  /\ watch' = [watch EXCEPT ![<<r, s>>] = cdata[s]]
  /\ UNCHANGED <<k8s, holder, loop, notify, cdata, resolvers, endpoints, source, dirty, keys,
                 reconciled, bootstrapped, fast>>

(* consulWatcher.run receives endpoints and marks itself dirty. *)
updateEndpoints(m) ==
  /\ npc # "failed"
  /\ endpoints' = [endpoints EXCEPT ![m.svc] = [addr |-> m.addr, ver |-> m.ver]]
  /\ source' = [source EXCEPT ![m.svc] = IF m.running THEN m.res ELSE "stopped"]
  /\ inflight' = inflight \ {m}
  /\ dirty' = TRUE
  /\ UNCHANGED <<k8s, holder, loop, notify, cdata, resolvers, watch, keys, reconciled,
                 bootstrapped, fast>>

-----------------------------------------------------------------------------
Loop   == K8sUpdate \/ ConsulFired \/ ConsulUpdate \/ IstioUpdate \/ Send
Notify == NotifyUnchanged \/ NotifyMarshal \/ NotifyReady \/ NotifyIncomplete

Next ==
  \/ \E x \in Objects : ClusterChange(x)
  \/ \E s \in Svcs : ConsulChange(s)
  \/ Loop
  \/ Notify \/ NotifyError
  \/ \E r \in Resolvers, s \in Svcs : WatchFire(r, s)
  \/ \E m \in inflight : updateEndpoints(m)

Spec == Init /\ [][Next]_vars

(* The loop's select serves each of its cases, the notify goroutine and     *)
(* consulWatcher.run keep running, and Consul answers every watch.  Neither *)
(* the cluster nor Istio has to change.                                     *)
Fairness ==
  /\ WF_vars(K8sUpdate) /\ WF_vars(ConsulFired) /\ WF_vars(ConsulUpdate) /\ WF_vars(Send)
  /\ WF_vars(Notify)
  /\ \A r \in Resolvers, s \in Svcs : WF_vars(WatchFire(r, s))
  /\ \A r \in Resolvers, s \in Svcs :
        WF_vars(\E m \in inflight : m.res = r /\ m.svc = s /\ updateEndpoints(m))

FairSpec == Spec /\ Fairness

-----------------------------------------------------------------------------
(* The newest snapshot handed to diagd, or about to be. *)
Delivered == IF npc = "ready" THEN carry ELSE encoded

(* snapshotChangeNotified = snapshotChangeCount really means that diagd     *)
(* has everything but Endpoints: Notify may then skip the snapshot.         *)
CaughtUp ==
  notified = changeCount =>
    /\ \A x \in Objects \ {"Endpoints"} : Delivered.view[x] = view[x]
    /\ Delivered.istio = istio

(* Every Kubernetes change diagd has not got is announced by a delta still  *)
(* to be sent: deltas survive the snapshots that were not ready, and are    *)
(* cleared only together with a snapshot that carries them.                 *)
NoDeltaLost == \A x \in Objects : Delivered.view[x] # view[x] => x \in unsent

(* A change worth sending is never stranded: the loop still has the holder  *)
(* to send, or the notify goroutine is about to look at it, or Consul has   *)
(* not bootstrapped, and then its next endpoints wake the loop.             *)
NotStranded ==
  notified # changeCount =>
    \/ out \/ npc \in {"notify", "failed"}
    \/ ~isBootstrapped \/ dirty \/ lpc = "consul"

(* Ambex has the Gateway configuration and the Consul endpoints of the      *)
(* current view, and its Endpoints whenever a Mapping uses the endpoint     *)
(* resolver or an HTTPRoute forwards to a Service without naming a port,    *)
(* although K8sUpdate sends them only on some of the changes.  It looks     *)
(* neither at changes of a Service nor, because of IsWatched, at the        *)
(* Endpoints of a Service that is forwarded to with a port: of these ambex  *)
(* may have old ones.                                                       *)
FastpathFresh ==
  /\ epWatch \/ view["HTTPRoute"] \in PortlessAt => fast.eps = view["Endpoints"]
  /\ fast.gw = view["HTTPRoute"]
  /\ fast.consul = consulSnap

(* What FastpathFresh leaves out.  It does not hold: MCWatcherGateway.cfg   *)
(* shows an HTTPRoute that names a port.                                    *)
FastpathComplete ==
  epWatch \/ view["HTTPRoute"] \in ForwardsAt =>
    fast.svc = view["Service"] /\ fast.eps = view["Endpoints"]

(* K8sUpdate interpolates the address of every ConsulResolver that is new   *)
(* or changed, however many changes it takes at once, and no change of      *)
(* anything but another ConsulResolver ever brings the raw address back.    *)
AddressesKept ==
  [][\A r \in Resolvers : SpecAt[r][view'[r]] # NoSpec =>
       /\ view'[r] # view[r] => expanded'[r]
       /\ expanded[r] /\ ~expanded'[r] => \E q \in Resolvers \ {r} : view'[q] # view[q]]_vars

(* ConsulResolver addresses are interpolated in every snapshot.  It does    *)
(* not hold with two resolvers: MCWatcherExpand.cfg.                        *)
AddressesExpanded ==
  \A r \in Resolvers : SpecAt[r][view[r]] # NoSpec => expanded[r]

(* The endpoints that a ready snapshot was held back for exist: ambex has    *)
(* them, or gets them with the next ConsulUpdate, although Notify marshals  *)
(* the holder's copy of them and asks the consulWatcher about its own.      *)
ReadyIsCovered ==
  ready => \A s \in keys : fast.consul[s] # NoData \/ dirty \/ lpc = "consul"

(* The bootstrap waits for a service that no watch will report: a later     *)
(* update took its Mapping or its resolver away before Consul answered.     *)
Abandoned ==
  /\ reconciled /\ ~bootstrapped
  /\ \E s \in keys : endpoints[s] = NoData /\ \A r \in Resolvers : ~Reaching(r, s)

(* diagd has what the cluster holds. *)
Sent == \A x \in Objects \ {"Endpoints"} : encoded.view[x] = cluster[x]

(* Bootstrappedness is idempotent and ready snapshots keep flowing: what    *)
(* the cluster finally holds reaches diagd, unless the webhook failed or    *)
(* the bootstrap waits for a service that is no longer watched.             *)
EventuallySent == <>[](npc = "failed" \/ Abandoned \/ Sent)

(* What EventuallySent leaves out.  It does not hold: in                    *)
(* MCWatcherNeverReady.cfg a Mapping goes before its service has answered.  *)
AlwaysReadyInTheEnd == <>[](npc = "failed" \/ Sent)

(* The endpoints ambex finally has for a watched Consul service come from   *)
(* the current address of the resolver whose watch sent them last, in their *)
(* last version, whatever watches were stopped and started before.  All     *)
(* watches of a service share one channel and one key: a watch that is      *)
(* stopped by now may have been the last to send.                           *)
EventuallyCurrent ==
  <>[](\/ npc = "failed"
       \/ \A s \in Svcs : (\E r \in Resolvers : Reaching(r, s)) =>
             \/ source[s] = "stopped"
             \/ /\ source[s] \in Resolvers
                /\ fast.consul[s] = [addr |-> resolvers[source[s]], ver |-> cdata[s]])
=============================================================================
