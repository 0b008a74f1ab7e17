------------------------------- MODULE Fetch -------------------------------
(***************************************************************************)
(* From a snapshot to diagd's configuration: ResourceFetcher hands every   *)
(* Kubernetes object to the processors of its kind, the processors emit    *)
(* Ambassador resources, and Config.load_all stores the resources, sorted  *)
(* by their rkeys, under their names.                                      *)
(*                                                                         *)
(* Names, namespaces and rkeys are sequences of numbered tokens, because   *)
(* rkeys are concatenations and are sorted: the separators come first,     *)
(* then object counts, then words.  Port numbers and port names are        *)
(* strings.  An object's contents are kept in spec, by kind:               *)
(*   Service        [ports, amb]    port: [name, port, proto, target]      *)
(*   Endpoints      [subsets]       subset: [addresses, ports]             *)
(*   Secret         [known]         IngressClass [ours]                    *)
(*   Ingress        [class, annotated, tls, backend, rules, stale]         *)
(*   KnativeIngress [ours, rules, stale]                                   *)
(* and nothing is kept of other kinds.                                     *)
(***************************************************************************)
EXTENDS Integers, Sequences, FiniteSets, SequencesExt, Collections

CONSTANTS
  Universe,              \* the objects that a snapshot may hold
  Containers,            \* port name -> port number, in the pods
  Numbers,               \* port numbers
  ambassador_namespace,
  MaxObjects             \* bound: objects of a snapshot

Dash   == 1
Dot    == 2
Count(n) == 2 + n
Word(n)  == 100 + n
K8s    == Word(-2)       \* the words of the services' rkeys
Consul == Word(-1)
NoName == ""             \* a port without a name, a backend without a service

ASSUME SizeAssumption == MaxObjects \in Nat
ASSUME PortAssumption ==
  /\ NoName \notin Numbers \cup DOMAIN Containers
  /\ \A n \in DOMAIN Containers : n \notin Numbers /\ Containers[n] \in Numbers

(* The shape of the objects, as far as processors walk through them. *)
Paths == Seq([svc : Seq(Nat), port : STRING])
Protocols == {"TCP", "UDP"}
Ports == [name : STRING, port : Numbers, proto : Protocols]
ServicePorts == [name : STRING, port : Numbers, proto : Protocols, target : STRING]
ASSUME ObjectAssumption ==
  \A o \in Universe :
    /\ o.name \in Seq(Nat) /\ o.ns \in Seq(Nat) /\ o.annotations \in Seq(Seq(Nat))
    /\ o.kind = "Service" => o.spec.ports \in Seq(ServicePorts)
    /\ o.kind = "Endpoints" =>
         o.spec.subsets \in Seq([addresses : SUBSET STRING, ports : Seq(Ports)])
    /\ o.kind = "Ingress" =>
         /\ o.spec.tls \in Seq([secret : BOOLEAN, hosts : Nat])
         /\ o.spec.backend \in Paths /\ o.spec.rules \in Seq(Paths)
    /\ o.kind = "KnativeIngress" => o.spec.rules \in Seq([hosts : Nat, splits : Nat])

VARIABLES
  env,        \* [mode, single]: watt or fs; AMBASSADOR_SINGLE_NAMESPACE
  snapshot,   \* the objects to fetch
  todo,       \* those that are not fetched yet
  seen,       \* DeduplicatingKubernetesProcessor.cache
  deps,       \* [services, endpoints, classes, amb]: what processors tell each other
  elements,   \* the resources emitted
  k8s_status_updates,
  conf,       \* Config: [store, errors]
  pc

vars == <<env, snapshot, todo, seen, deps, elements, k8s_status_updates, conf, pc>>

Key(o) == <<o.kind, o.ns, o.name>>

NoDeps == [services |-> <<>>, endpoints |-> <<>>, classes |-> {}, amb |-> {}]

TypeOK ==
  /\ env \in [mode : {"watt", "fs"}, single : BOOLEAN]
  /\ snapshot \subseteq Universe /\ todo \subseteq snapshot
  /\ seen \subseteq {Key(o) : o \in Universe}
  /\ DOMAIN deps.services \subseteq {Key(o) : o \in Universe}
  /\ deps.amb \subseteq Universe /\ Cardinality(deps.amb) <= 1
  /\ \A i \in DOMAIN elements : elements[i].src \in Universe
  /\ DOMAIN k8s_status_updates \subseteq {o.name \o <<Dot>> \o o.ns : o \in Universe}
  /\ conf.errors \subseteq {elements[i].rkey : i \in DOMAIN elements}
  /\ pc \in {"fetch", "load", "done"}

(* Kubernetes: the target port of a service's port, and the ports of the    *)
(* service's Endpoints.                                                     *)
Target(p) == IF p.target \in Numbers THEN p.target ELSE Containers[p.target]

EndpointPorts(svc) ==
  {[name |-> p.name, port |-> Target(p), proto |-> p.proto] :
     p \in {q \in ToSet(svc.spec.ports) : q.target \in Numbers \cup DOMAIN Containers}}

(* The API server has one object of each key, and the Endpoints of every    *)
(* service with a selector; files may repeat an object.                     *)
Snapshots(mode) ==
  {s \in {Range(f) : f \in [1 .. MaxObjects -> Universe]} :
     /\ mode = "watt" => \A o, p \in s : Key(o) = Key(p) => o = p
     /\ mode = "fs" => \A o \in s : o.kind # "Consul"
     /\ \A o, p \in s :
          (o.kind = "Service" /\ p.kind = "Endpoints" /\ o.name = p.name /\ o.ns = p.ns) =>
            \A e \in ToSet(p.spec.subsets) : ToSet(e.ports) = EndpointPorts(o)}

Init ==
  /\ env \in [mode : {"watt", "fs"}, single : BOOLEAN]
  /\ snapshot \in Snapshots(env.mode)
  /\ todo = snapshot
  /\ seen = {}
  /\ deps = NoDeps
  /\ elements = <<>>
  /\ k8s_status_updates = <<>>
  /\ conf = [store |-> <<>>, errors |-> {}]
  /\ pc = "fetch"

-----------------------------------------------------------------------------
(* The resources that an object becomes.                                    *)

(* NormalizedResource.from_data *)
from_data(o, kind, name, rkey, data) ==
  [kind |-> kind, name |-> name, ns |-> o.ns, rkey |-> rkey, mine |-> TRUE, bad |-> FALSE,
   src |-> o, data |-> data]

Suffixed(o, a, b) == o.name \o <<Dash, Word(a), Dash, Word(b)>>
Generated(o, kind, name, data) == from_data(o, kind, name, name \o <<Dot>> \o o.ns, data)

(* NormalizedResource.from_kubernetes_object: an object of a CRD, errors    *)
(* included.                                                                *)
from_kubernetes_object(o) ==
  [Generated(o, o.kind, o.name, <<>>) EXCEPT !.mine = o.mine, !.bad = o.bad]

(* handle_annotation: the rkey is the parent's, the name its own.           *)
handle_annotation(o) ==
  IF o.bad THEN <<>>
  ELSE [i \in DOMAIN o.annotations |->
          from_data(o, "Mapping", o.annotations[i], o.name \o <<Dot>> \o o.ns, <<>>)]

(* SecretProcessor._process *)
SecretResources(o) ==
  IF o.spec.known THEN <<[Generated(o, "Secret", o.name, <<>>) EXCEPT !.bad = o.bad]>> ELSE <<>>

(* _try_resolve_service_port_number: a port's number by the port's name,    *)
(* if the service is known by now.                                          *)
resolve(d, ns, svc, port) ==
  LET key   == <<"Service", ns, svc>>
      ports == IF key \in DOMAIN d.services THEN d.services[key].spec.ports ELSE <<>>
      named == {i \in DOMAIN ports : ports[i].name = port}
  IN  IF port \in Numbers \/ named = {} THEN port
      ELSE ports[CHOOSE i \in named : \A j \in named : i <= j].port

(* IngressProcessor._process: is the Ingress ours?                          *)
OurIngress(d, o) == (o.spec.class \in d.classes \/ o.spec.annotated) /\ o.mine

(* A Host for every host of a tls entry with a secret, a Mapping for the    *)
(* default backend, whose port stays as it is, and one for every path with  *)
(* a service and a port.                                                    *)
IngressResources(d, o) ==
  LET hosts(t) == IF o.spec.tls[t].secret
                  THEN [h \in 1 .. o.spec.tls[t].hosts |->
                          Generated(o, "Host", Suffixed(o, t, h), <<>>)]
                  ELSE <<>>
      backend  == [b \in DOMAIN o.spec.backend |->
                     Generated(o, "Mapping", o.name \o <<Dash, Word(0)>>, o.spec.backend[b])]
      mapping(r, p) ==
        LET path == o.spec.rules[r][p]
        IN  Generated(o, "Mapping", Suffixed(o, r, p),
                      [svc |-> path.svc, port |-> resolve(d, o.ns, path.svc, path.port)])
      named(r) == {p \in DOMAIN o.spec.rules[r] :
                     mapping(r, p).data.svc # <<>> /\ mapping(r, p).data.port # NoName}
      paths(r) == Keep([p \in DOMAIN o.spec.rules[r] |-> mapping(r, p)], named(r))
  IN  IF ~OurIngress(d, o) THEN <<>>
      ELSE FlattenSeq([t \in DOMAIN o.spec.tls |-> hosts(t)]) \o backend
             \o FlattenSeq([r \in DOMAIN o.spec.rules |-> paths(r)])

(* KnativeIngressProcessor._emit_mapping: a Mapping for every host and      *)
(* split of a rule.                                                         *)
KnativeResources(o) ==
  LET of(r) == [n \in 1 .. r.hosts * r.splits |-> r]
      rule(i) == [n \in DOMAIN of(o.spec.rules[i]) |->
                    Generated(o, "Mapping", Suffixed(o, i, n), <<>>)]
  IN  IF o.spec.ours /\ o.mine
      THEN FlattenSeq([i \in DOMAIN o.spec.rules |-> rule(i)]) ELSE <<>>

(* handle_consul_service; services without usable endpoints are ignored.    *)
ConsulResources(o) ==
  <<from_data(o, "Service", o.name, <<Consul, Dash>> \o o.name \o <<Dash>> \o o.ns, <<>>)>>

resources(d, o) ==
  CASE o.kind \in {"Service", "Endpoints", "IngressClass"} -> <<>>
    [] o.kind = "Secret"         -> SecretResources(o)
    [] o.kind = "Ingress"        -> IngressResources(d, o)
    [] o.kind = "KnativeIngress" -> KnativeResources(o)
    [] o.kind = "Consul"         -> ConsulResources(o)
    [] OTHER                     -> <<from_kubernetes_object(o)>>

(* Config.good_ambassador_id *)
good_ambassador_id(r) == r.mine

(* ResourceManager.emit: resources are counted, also those of another       *)
(* ambassador_id, which are dropped; Services carry no count.               *)
emit(rs) ==
  LET counted == [i \in DOMAIN rs |->
                    IF rs[i].kind = "Service" THEN rs[i]
                    ELSE [rs[i] EXCEPT !.rkey = @ \o <<Dot, Count(i)>>]]
  IN  Keep(counted, {i \in DOMAIN rs : good_ambassador_id(rs[i])})

-----------------------------------------------------------------------------
(* What processors learn and do not emit.                                   *)

(* InternalServiceProcessor: services with ports, and Ambassador's own.     *)
service_dep(d, o) ==
  IF o.spec.ports = <<>> THEN d
  ELSE [d EXCEPT !.services = Put(@, Key(o), o), !.amb = IF o.spec.amb THEN {o} ELSE @]

(* InternalEndpointsProcessor: the last subset that has addresses and TCP   *)
(* ports.  A port is found by its number and by its name; of several with   *)
(* the same, the last one counts.                                           *)
tcp(ports) == {i \in DOMAIN ports : ports[i].proto = "TCP"}

port_dict(ports) ==
  LET keys(i) == {ports[i].port, ports[i].name} \ {NoName}
  IN  [k \in UNION {keys(i) : i \in tcp(ports)} |->
         ports[Max({i \in tcp(ports) : k \in keys(i)})].port]

endpoints_dep(d, o) ==
  LET sets   == o.spec.subsets
      usable == {i \in DOMAIN sets : sets[i].addresses # {} /\ tcp(sets[i].ports) # {}}
      last   == sets[Max(usable)]
  IN  IF usable = {} THEN d
      ELSE [d EXCEPT !.endpoints = Put(@, <<o.ns, o.name>>, [addresses |-> last.addresses,
                                                             ports |-> port_dict(last.ports)])]

(* IngressClassProcessor *)
class_dep(d, o) == IF o.spec.ours /\ o.mine THEN [d EXCEPT !.classes = @ \cup {o.name}] ELSE d

learn(d, o) ==
  CASE o.kind = "Service"      -> service_dep(d, o)
    [] o.kind = "Endpoints"    -> endpoints_dep(d, o)
    [] o.kind = "IngressClass" -> class_dep(d, o)
    [] OTHER                   -> d

(* IngressProcessor._update_status: the Ingress has not the status of       *)
(* Ambassador's service.                                                    *)
IngressStatus(d, o) == OurIngress(d, o) /\ d.amb # {} /\ o.spec.stale

(* KnativeIngressProcessor._update_status: a new generation or another      *)
(* load balancer, which may be none.                                        *)
KnativeStatus(o) == o.spec.ours /\ o.mine /\ o.spec.stale

NeedsStatus(d, o) ==
  (o.kind = "Ingress" /\ IngressStatus(d, o)) \/ (o.kind = "KnativeIngress" /\ KnativeStatus(o))

(* aconf.k8s_status_updates: by name and namespace, whatever the kind.      *)
status(d, o, updates) ==
  IF NeedsStatus(d, o) THEN Put(updates, o.name \o <<Dot>> \o o.ns, o) ELSE updates

-----------------------------------------------------------------------------
(* KubernetesProcessor._admit, which DeduplicatingKubernetesProcessor has   *)
(* from its base class, so that SecretProcessor's own never matters.        *)
admit(o) ==
  o.kind \in {"IngressClass", "Consul"} \/ ~env.single \/ o.ns = ambassador_namespace

(* Mutant: keys in the order in which the snapshot has them. *)
Turn_Any(o) == o.kind = "Consul" => \A p \in todo : p.kind = "Consul"

(* DependencyManager.sorted_watt_keys: first what provides a dependency,    *)
(* then the rest, then Consul.                                              *)
First == {"Service", "Secret", "IngressClass"}
Turn(o) ==
  /\ o.kind \in First \/ \A p \in todo : p.kind \notin First
  /\ o.kind = "Consul" => \A p \in todo : p.kind = "Consul"

(* What a processor that emits resources asks others for. *)
provided == [services |-> deps.services, classes |-> deps.classes]

(* handle_k8s for one object, and what is emitted with it.                  *)
handle_k8s(o, more) ==
  /\ pc = "fetch" /\ o \in todo
  /\ todo' = todo \ {o}
  /\ IF admit(o) /\ Key(o) \notin seen
     THEN /\ seen' = seen \cup {Key(o)}
          /\ deps' = learn(deps, o)
          /\ elements' = elements \o emit(resources(provided, o) \o more)
          /\ k8s_status_updates' = status(deps, o, k8s_status_updates)
     ELSE /\ elements' = elements \o emit(more)
          /\ UNCHANGED <<seen, deps, k8s_status_updates>>
  /\ UNCHANGED <<env, snapshot, conf, pc>>

(* parse_watt: the next object in the order of the keys, then the resources *)
(* in its annotations.                                                      *)
HandleWatt(o) == env.mode = "watt" /\ Turn(o) /\ handle_k8s(o, handle_annotation(o))

(* load_from_filesystem and parse_yaml: objects as the files list them,     *)
(* whose annotations are not looked at.                                     *)
HandleFile(o) == env.mode = "fs" /\ handle_k8s(o, <<>>)

(* Mutant: a service port with a name is looked up by its number only. *)
target_port_Number(eps, p) ==
  IF p.port \in DOMAIN eps.ports THEN eps.ports[p.port] ELSE p.port

(* ServiceProcessor.finalize, for one port of a service: the only endpoint  *)
(* port, or the one of its target, its name or its own number, or else the  *)
(* first of its target and its own that is a number.                        *)
target_port(eps, p) ==
  LET keys   == <<p.target, p.name, p.port>>
      found  == {i \in DOMAIN keys : keys[i] \in DOMAIN eps.ports}
      number == {i \in DOMAIN keys : keys[i] \in Numbers}
  IN  IF Cardinality(DOMAIN eps.ports) = 1 THEN eps.ports[CHOOSE k \in DOMAIN eps.ports : TRUE]
      ELSE IF found # {} THEN eps.ports[keys[Min(found)]]
      ELSE keys[Min(number)]

(* The Service resource of a service: its own ports, of any protocol, and   *)
(* where they lead; of several with one number, the last one counts.        *)
service_rkey(o) == <<K8s, Dash>> \o o.name \o <<Dash>> \o o.ns

ServiceResource(o) ==
  LET key  == <<o.ns, o.name>>
      eps  == deps.endpoints[key]
      numbers == {o.spec.ports[i].port : i \in DOMAIN o.spec.ports}
      port(n) == o.spec.ports[Max({i \in DOMAIN o.spec.ports : o.spec.ports[i].port = n})]
      to   == IF key \notin DOMAIN deps.endpoints THEN <<>>
              ELSE [n \in numbers |-> [port |-> target_port(eps, port(n)), addresses |-> eps.addresses]]
  IN  from_data(o, "Service", o.name, service_rkey(o), to)

(* finalize *)
Finalize ==
  /\ pc = "fetch" /\ todo = {}
  /\ LET svcs == SetToSeq({deps.services[k] : k \in DOMAIN deps.services})
     IN  elements' = elements \o emit([i \in DOMAIN svcs |-> ServiceResource(svcs[i])])
  /\ pc' = "load"
  /\ UNCHANGED <<env, snapshot, todo, seen, deps, k8s_status_updates, conf>>

-----------------------------------------------------------------------------
(* ResourceFetcher.sorted *)
Less(s, t) ==
  \E n \in 1 .. Len(t) :
    /\ \A k \in 1 .. n - 1 : k <= Len(s) /\ s[k] = t[k]
    /\ n > Len(s) \/ s[n] < t[n]

sorted(rs) ==
  LET before(i, j) == Less(rs[i].rkey, rs[j].rkey) \/ (rs[i].rkey = rs[j].rkey /\ i < j)
      place(i) == 1 + Cardinality({j \in DOMAIN rs : before(j, i)})
  IN  [n \in DOMAIN rs |-> rs[CHOOSE i \in DOMAIN rs : place(i) = n]]

(* Config.StorageByKind: the resolvers of all kinds share one storage. *)
storage(kind) ==
  IF kind \in {"ConsulResolver", "KubernetesEndpointResolver", "KubernetesServiceResolver"}
  THEN "resolvers" ELSE kind

(* Mutant: the name of another namespace's resource is kept. *)
safe_store_Over(c, r) ==
  LET key  == <<storage(r.kind), r.name>>
      same == key \in DOMAIN c.store /\ c.store[key].ns = r.ns
  IN  [store |-> Put(c.store, key, r), errors |-> IF same THEN c.errors \cup {r.rkey} ELSE c.errors]

(* The same resource under a name that no other namespace has. *)
renamed(r) == [r EXCEPT !.name = @ \o <<Dot>> \o r.ns]

(* Config.safe_store: a resource of that name and namespace is replaced,    *)
(* with an error; beside one of another namespace, the new one is renamed.  *)
safe_store(c, r) ==
  LET key   == <<storage(r.kind), r.name>>
      taken == key \in DOMAIN c.store
      same  == taken /\ c.store[key].ns = r.ns
      named == IF taken /\ ~same THEN renamed(r) ELSE r
  IN  [store  |-> Put(c.store, <<storage(r.kind), named.name>>, named),
       errors |-> IF same THEN c.errors \cup {r.rkey} ELSE c.errors]

(* Config.handle_secret and handle_service: by rkey. *)
store_by_rkey(c, r) ==
  LET key == <<r.kind, r.rkey>>
  IN  [store  |-> Put(c.store, key, r),
       errors |-> IF key \in DOMAIN c.store THEN c.errors \cup {r.rkey} ELSE c.errors]

(* Config.process: what watt's validation rejected is an error.             *)
process(c, r) ==
  CASE r.bad                             -> [c EXCEPT !.errors = @ \cup {r.rkey}]
    [] ~r.bad /\ r.kind \in {"Service", "Secret"} -> store_by_rkey(c, r)
    [] OTHER                             -> safe_store(c, r)

(* Config.load_all: one resource after the other.                           *)
load_all(c, rs) ==
  LET after[n \in 0 .. Len(rs)] == IF n = 0 THEN c ELSE process(after[n - 1], rs[n])
  IN  after[Len(rs)]

LoadAll ==
  /\ pc = "load"
  /\ conf' = load_all(conf, sorted(elements))
  /\ pc' = "done"
  /\ UNCHANGED <<env, snapshot, todo, seen, deps, elements, k8s_status_updates>>

Next == (\E o \in Universe : HandleWatt(o) \/ HandleFile(o)) \/ Finalize \/ LoadAll

Spec == Init /\ [][Next]_vars

-----------------------------------------------------------------------------
All(k) == {o \in snapshot : admit(o) /\ o.kind = k}

(* What the processors of a watt snapshot know in the end.                  *)
Everything ==
  LET services == {o \in All("Service") : o.spec.ports # <<>>}
  IN  [services |-> [k \in {Key(o) : o \in services} |-> CHOOSE o \in services : Key(o) = k],
       classes  |-> {o.name : o \in {c \in All("IngressClass") : c.spec.ours /\ c.mine}}]

(* What an object of a snapshot becomes depends on the other objects and    *)
(* not on the order in which watt lists them: an Ingress finds the classes  *)
(* and the services it names wherever they are.                             *)
OrderFree ==
  (env.mode = "watt" /\ pc = "load") =>
    {elements[i] : i \in {j \in DOMAIN elements : elements[j].kind # "Service"}} =
      {r \in UNION {ToSet(emit((IF admit(o) THEN resources(Everything, o) ELSE <<>>)
                                \o handle_annotation(o))) : o \in snapshot} : r.kind # "Service"}

(* Every resource that watt's validation accepts is stored, possibly under  *)
(* a longer name, or an error tells of its double: two objects of one name  *)
(* in two namespaces are both kept.  The exception are resources whose name *)
(* another one, renamed itself for the sake of a third, ends up with.       *)
Stored(r) == \E k \in DOMAIN conf.store : conf.store[k] \in {r, renamed(r)}

Double(r) ==
  \E e \in ToSet(elements) :
    /\ storage(e.kind) = storage(r.kind) /\ e.ns = r.ns
    /\ e.name \in {r.name, renamed(r).name}
    /\ e.rkey \in conf.errors

Overtaken(r) ==
  \E e, f \in ToSet(elements) :
    /\ e # r /\ f.ns # e.ns
    /\ storage(e.kind) = storage(r.kind) /\ storage(f.kind) = storage(r.kind)
    /\ e.name \in {f.name, renamed(f).name}
    /\ renamed(e).name \in {r.name, renamed(r).name}

NothingLost ==
  pc = "done" => \A r \in ToSet(elements) : r.bad \/ Stored(r) \/ Double(r) \/ Overtaken(r)

(* safe_store: "If the name and namespace, both match, then it's definitely *)
(* an error": of two resources of one kind, name and namespace, one is      *)
(* reported.                                                                *)
DoublesReported ==
  pc = "done" =>
    \A r, e \in ToSet(elements) :
      (r # e /\ ~r.bad /\ ~e.bad /\ r.kind = e.kind /\ r.name = e.name /\ r.ns = e.ns)
        => {r.rkey, e.rkey} \cap conf.errors # {}

(* Port i of a service is no other port's double.  Kubernetes sees to it    *)
(* that ports have names of their own when they are several, but lets a     *)
(* port share its number with one of another protocol, and its name or its  *)
(* target port with the number or the name of another.                      *)
Plain(ports, i) ==
  LET p == ports[i]
  IN  /\ p.proto = "TCP" /\ p.target \in Numbers \cup DOMAIN Containers
      /\ p.name \notin Numbers
      /\ p.name = NoName => DOMAIN ports = {i}
      /\ \A j \in DOMAIN ports \ {i} : ports[j].name \notin {p.name, p.target}
      /\ \A j \in DOMAIN ports : j > i => ports[j].port # p.port

(* Endpoint routing reaches the port that Kubernetes would: the search of   *)
(* ServiceProcessor.finalize through numbers and names agrees with the      *)
(* endpoints controller, for every TCP port that is plain.                  *)
PortsReachPods ==
  pc = "done" =>
    \A n \in DOMAIN elements :
      LET r     == elements[n]
          ports == r.src.spec.ports
      IN  (r.src.kind = "Service" /\ r.kind = "Service" /\ r.data # <<>>) =>
            \A i \in DOMAIN ports :
              Plain(ports, i) => r.data[ports[i].port].port = Target(ports[i])

(* "Services are unique and don't get an object count appended to them":    *)
(* the rkey under which a resolver looks a service up leads to that         *)
(* service.                                                                 *)
ServicesUnique ==
  pc = "done" =>
    \A k \in DOMAIN deps.services :
      conf.store[<<"Service", service_rkey(deps.services[k])>>].src = deps.services[k]
=============================================================================
