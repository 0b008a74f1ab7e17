------------------------------ MODULE MCFetch ------------------------------
(***************************************************************************)
(* Small snapshots: services with one and two ports and their Endpoints,   *)
(* an Ingress that needs them, CRDs that share names across namespaces.    *)
(***************************************************************************)
EXTENDS Fetch, TLC

ns1 == <<Word(50)>>
ns2 == <<Word(51)>>
web == <<Word(1)>>
map == <<Word(2)>>

Object(kind, name, ns, spec) ==
  [kind |-> kind, name |-> name, ns |-> ns, mine |-> TRUE, bad |-> FALSE,
   annotations |-> <<>>, spec |-> spec]
Port(name, port, target) == [name |-> name, port |-> port, proto |-> "TCP", target |-> target]
Udp(name, port, target)  == [Port(name, port, target) EXCEPT !.proto = "UDP"]
Service(name, ns, ports) == Object("Service", name, ns, [ports |-> ports, amb |-> FALSE])
Endpoints(svc) ==
  Object("Endpoints", svc.name, svc.ns,
         [subsets |-> <<[addresses |-> {"ip1", "ip2"}, ports |-> SetToSeq(EndpointPorts(svc))],
                        [addresses |-> {}, ports |-> SetToSeq(EndpointPorts(svc))]>>])

Named   == Service(web, ns1, <<Port("http", "80", "web")>>)
Unnamed == Service(web, ns1, <<Port("", "80", "8080")>>)
Two     == Service(web, ns1, <<Port("http", "80", "web"), Port("admin", "8080", "80")>>)
Clash   == Service(web, ns1, <<Port("http", "80", "web"), Port("web", "8080", "80")>>)
(* A port before and one after the port of the other protocol. *)
Mixed   == Service(web, ns1, <<Udp("udp", "8080", "80"), Port("http", "8080", "web"),
                               Port("admin", "80", "80"), Udp("dns", "80", "8080")>>)
Portless == Service(map, ns1, <<>>)
Own     == [Service(map, ns1, <<Port("", "80", "80")>>) EXCEPT !.spec.amb = TRUE,
                                                               !.annotations = <<map, web>>]
Path(svc, port) == [svc |-> svc, port |-> port]
Ingress(class, annotated, tls, backend) ==
  Object("Ingress", web, ns1,
         [class |-> class, annotated |-> annotated, tls |-> tls, backend |-> backend,
          rules |-> <<<<Path(web, "http"), Path(web, ""), Path(<<>>, "80")>>, <<Path(web, "80")>>>>,
          stale |-> TRUE])

(* A Secret with a Mapping in its annotations. *)
Annotated == [Object("Secret", map, ns2, [known |-> TRUE]) EXCEPT !.annotations = <<map>>]

FetchUniverse ==
  {Named, Unnamed, Two, Clash, Mixed, Portless, Own}
    \cup {Endpoints(s) : s \in {Named, Unnamed, Two, Clash, Mixed}}
    \cup {Ingress(map, FALSE, <<[secret |-> TRUE, hosts |-> 2], [secret |-> FALSE, hosts |-> 1]>>, <<>>),
          Ingress(web, TRUE, <<>>, <<Path(web, "http")>>)}
    \cup {Object("IngressClass", map, ns1, [ours |-> b]) : b \in BOOLEAN}
    \cup {Object("Secret", map, ns, [known |-> TRUE]) : ns \in {ns1, ns2}}
    \cup {Object("Mapping", map, ns, <<>>) : ns \in {ns1, ns2}} \cup {Annotated}
    \cup {Object("Mapping", map \o <<Dot>> \o ns2, ns2, <<>>),
          [Object("Mapping", web, ns1, <<>>) EXCEPT !.bad = TRUE],
          [Object("Mapping", web, ns1, <<>>) EXCEPT !.mine = FALSE],
          Object("KnativeIngress", web, ns1,
                 [ours |-> TRUE, rules |-> <<[hosts |-> 2, splits |-> 1]>>, stale |-> TRUE]),
          Object("Consul", web, ns1, <<>>),
          Object("ConsulResolver", web, ns1, <<>>), Object("KubernetesEndpointResolver", web, ns2, <<>>)}

(* Service web-map in ns1 and service web in the namespace map-ns1. *)
Twins == {Service(web \o <<Dash>> \o map, ns1, <<Port("", "80", "80")>>),
          Service(web, map \o <<Dash>> \o ns1, <<Port("", "80", "80")>>)}
TwinUniverse == Twins \cup {Endpoints(s) : s \in Twins}

(* A Mapping of another namespace, and two of one namespace. *)
RenamedUniverse == {Object("Mapping", map, ns, <<>>) : ns \in {ns1, ns2}} \cup {Annotated}

MCContainers == "web" :> "8080"
MCNamespace  == ns1
=============================================================================
