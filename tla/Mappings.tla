------------------------------ MODULE Mappings ------------------------------
(***************************************************************************)
(* The IR's service resolvers, Mappings and TCPMappings, the groups they   *)
(* form and the clusters the groups need.                                  *)
(*                                                                         *)
(* Operators over the configuration c and the IR, like those of Hosts.  A  *)
(* service is a record of a scheme, a hostname (a sequence of labels) and  *)
(* a port, 0 when there is none; a service nobody can parse has no         *)
(* hostname.  A path is a sequence of segments.  A cluster's name is the   *)
(* sequence of the pieces that the code joins with "_": Pieces[l] are the  *)
(* pieces that a label falls into when every other character is made "_".  *)
(***************************************************************************)
EXTENDS Hosts

CONSTANTS
  Pieces,          \* label -> sequence of pieces
  IPAddresses,     \* the hostnames that are IP addresses
  PathOrder,       \* the prefixes, in the order Python sorts them
  NameLimit,       \* a cluster name of more pieces than this is compressed,
  NamePrefix,      \* ... to its first NamePrefix pieces
  Digest(_)        \* ... and a hash of the whole

NoService == [scheme |-> "", host |-> <<>>, port |-> 0]

MappingDefaults ==
  [kind |-> "Mapping", name |-> "", service |-> NoService, ns |-> AmbassadorNamespace, prefix |-> <<>>, exact |-> FALSE,
   host |-> <<>>, hostBy |-> "hostname", regex |-> FALSE, xfp |-> "",
   precedence |-> 0, weight |-> -1, resolver |-> "", tls |-> "", labels |-> <<>>,
   shadow |-> FALSE, redirect |-> FALSE, lb |-> "", cb |-> "", timeout |-> 0,
   tag |-> "", health |-> "none", port |-> 0, grpc |-> FALSE, retry |-> "none", host_rewrite |-> <<>>]

-----------------------------------------------------------------------------
(* Service resolvers *)

Kubernetes == {"KubernetesServiceResolver", "KubernetesEndpointResolver"}

\* IRServiceResolver.setup
setup_resolver(r) ==
  Over(r, [active |-> r.kind \in Kubernetes \/ (r.kind = "ConsulResolver" /\ r.datacenter # "")])

\* A resolver in error is kept, and counts as none.
resolver_named(rs, name) == IF name \in DOMAIN rs THEN rs[name] ELSE [active |-> FALSE]

get_resolver(ir, name) == resolver_named(ir.resolvers, name)

add_resolver(rs, r) == Put(rs, r.name, setup_resolver(r))

\* The two default names of a kind of resolver: both made when neither is
\* there, and otherwise one made as the alias of the other.
check_aliases(rs, n1, n2, default) ==
  LET r1 == resolver_named(rs, n1).active
      r2 == resolver_named(rs, n2).active
      alias(to, of) == add_resolver(rs, [name |-> to, kind |-> rs[of].kind,
                                         datacenter |-> rs[of].datacenter])
  IN  CASE r1 /\ r2 -> rs
        [] r1 /\ ~r2 -> alias(n2, n1)
        [] ~r1 /\ r2 -> alias(n1, n2)
        [] OTHER -> add_resolver(add_resolver(rs, [default EXCEPT !.name = n1]),
                                 [default EXCEPT !.name = n2])

\* IRServiceResolverFactory.load_all
ResolversOf(c) ==
  LET default(kind, dc) == [name |-> "", kind |-> kind, datacenter |-> dc]
      service == [default("KubernetesServiceResolver", "") EXCEPT !.name = "kubernetes-service"]
      rs1 == Loop(add_resolver, <<>>, c.resolvers)
      rs2 == IF resolver_named(rs1, service.name).active THEN rs1 ELSE add_resolver(rs1, service)
      rs3 == check_aliases(rs2, "endpoint", "kubernetes-endpoint",
                           default("KubernetesEndpointResolver", ""))
  IN  check_aliases(rs3, "consul", "consul-endpoint", default("ConsulResolver", "dc1"))

load_resolvers(c, ir) ==
  LET bad == {r \in Range(c.resolvers) : ~setup_resolver(r).active}
  IN  [ir EXCEPT !.resolvers = ResolversOf(c),
                 !.errors = @ \cup {<<"Resolver", r.name>> : r \in bad}]

\* valid_mapping: the load balancer needs endpoints, Consul takes no dots.
valid_mapping(r, m) ==
  /\ r.kind = "KubernetesServiceResolver" => m.lb = ""
  /\ r.kind = "ConsulResolver" => Len(m.service.host) <= 1

\* parse_service: name and namespace of the Service that a hostname means.
parse_service(c, host, ns) ==
  IF Len(host) > 1 /\ host \notin IPAddresses THEN <<host[1], host[2]>>
  ELSE IF c.ambassadorNsForServices THEN <<host[1], AmbassadorNamespace>>
  ELSE <<host[1], ns>>

\* clustermap_entry: what a cluster of this resolver is to be filled from, and
\* resolve_targets for the clusters that Envoy resolves itself.
clustermap_entry(c, r, host, ns, port) ==
  LET at == parse_service(c, host, ns)
  IN  IF host \in IPAddresses \/ r.kind = "KubernetesServiceResolver"
      THEN [type |-> "DNS", at |-> host, port |-> port]
      ELSE IF r.kind = "KubernetesEndpointResolver"
      THEN [type |-> "EDS", at |-> <<"k8s", at[2], at[1]>>, port |-> port]
      ELSE [type |-> "EDS", at |-> <<"consul", r.datacenter, host[1]>>, port |-> 0]

\* resolve: a Service that is known but has no endpoints on the port is
\* reported.  c.services: what the fetcher knows, by key, with their ports.
resolve_fails(c, r, host, ns, port) ==
  LET entry == clustermap_entry(c, r, host, ns, port)
  IN  /\ host # <<>> /\ entry.type = "EDS"
      /\ entry.at \in DOMAIN c.services
      /\ entry.port \notin c.services[entry.at]

-----------------------------------------------------------------------------
(* Mappings *)

normalize_service_name(c, service, ns, resolverKind) ==
  LET bare == Len(service.host) = 1 /\ service.host # <<"localhost">>
  IN  IF /\ bare /\ ns # AmbassadorNamespace
         /\ ~c.ambassadorNsForServices /\ resolverKind # "ConsulResolver"
      THEN [service EXCEPT !.host = Append(@, ns)]
      ELSE service

\* The headers a Mapping matches, in their order, and whether by regex.
Headers(m) ==
  (IF m.xfp # "" THEN <<[name |-> "xfp", value |-> <<m.xfp>>, regex |-> FALSE]>> ELSE <<>>)
  \o (IF m.host # <<>> THEN <<[name |-> "authority", value |-> m.host, regex |-> m.regex]>>
      ELSE <<>>)

\* IRTCPMapping._group_id
tcp_group_id(m) == [kind |-> m.kind, key |-> <<<<m.port>>, m.host>>]

\* What makes Mappings alternatives of each other.  A Mapping without a
\* host of its own belongs with those that the same Hosts select.
GroupId(c, ir, m) ==
  IF m.kind = "TCPMapping" THEN tcp_group_id(m)
  ELSE LET selecting == {k \in DOMAIN ir.hosts :
                           /\ ir.hosts[k].selector.given
                           /\ selector_matches(c, ir.hosts[k].selector.match, m.labels)}
           bare == m.host = <<>> \/ m.regex
           label(k) == IF k \in selecting /\ bare THEN ir.hosts[k].selector.match ELSE <<>>
       IN  [kind |-> m.kind,
            key |-> <<m.prefix, m.precedence,
                      [i \in DOMAIN Headers(m) |-> <<Headers(m)[i].name, Headers(m)[i].value>>],
                      Filter([k \in DOMAIN ir.hosts |-> label(k)], LAMBDA l : l # <<>>)>>]

\* precedence, lengths of prefix and headers, then the strings themselves.
RouteWeight(m) ==
  LET size(h) == (IF h.name = "xfp" THEN 17 ELSE 10) + Len(h.value) + IF h.regex THEN 1 ELSE 0
      key(h) == IF h.name = "xfp" THEN (IF h.value = <<"http">> THEN 1001 ELSE 1002)
                ELSE IndexOf(HostnameOrder, h.value)
      hs == Headers(m)
  IN  IF m.kind = "TCPMapping" THEN <<0>>
      ELSE <<m.precedence, Len(m.prefix),
             Loop(LAMBDA n, h : n + size(h), 0, hs), IndexOf(PathOrder, m.prefix)>>
           \o [i \in DOMAIN hs |-> key(hs[i])]

\* IRHTTPMapping.__init__, IRTCPMapping.__init__, setup.  A hostname overrides
\* a host that is a regex, but host_regex stays, for the group to take.
setup_mapping(c, ir, config) ==
  LET name == IF config.resolver # "" THEN config.resolver ELSE c.defaultResolver
      r == get_resolver(ir, name)
      m == [config EXCEPT
              !.resolver = name,
              !.regex = @ /\ config.hostBy = "host",
              !.cb = IF @ = "" THEN c.defaultCb ELSE @,
              !.service = normalize_service_name(c, @, config.ns,
                            IF r.active THEN r.kind ELSE "KubernetesBogusResolver")]
      \* :authority and host are exact matches: a "*" in one matches nothing.
      hopeless == m.kind = "Mapping" /\ m.hostBy = "host" /\ ~m.regex /\ "*" \in Range(m.host)
      good == /\ ~hopeless
              /\ r.active /\ valid_mapping(r, m)
              /\ m.cb # "bad" /\ m.lb # "bad" /\ m.retry # "bad"
  IN  Over(m, [active |-> good, errored |-> ~good \/ m.service.host = <<>>,
               host_regex |-> config.regex,
               group_id |-> GroupId(c, ir, m), route_weight |-> RouteWeight(m),
               cluster |-> <<>>, cumulative |-> 0])

-----------------------------------------------------------------------------
(* Groups *)

NewGroup(m) ==
  [id |-> m.group_id, kind |-> m.kind, internal |-> m.name \in {"diagnostics", "liveness", "readiness"},
   name |-> m.name, group_weight |-> m.route_weight, core |-> m, mappings |-> <<>>,
   host_redirect |-> <<>>, shadows |-> <<>>, errored |-> FALSE,
   host |-> IF m.kind = "TCPMapping" THEN m.host ELSE <<>>, port |-> m.port,
   redirectHost |-> <<>>, regex |-> FALSE, labels |-> <<>>]

\* CoreMappingKeys: a Mapping that sets one sets it like the group's first.
tcp_mismatched(g, m) == m.tls # "" /\ m.tls # g.core.tls

mismatched(g, m) ==
  \/ m.cb # g.core.cb
  \/ g.kind = "TCPMapping" /\ tcp_mismatched(g, m)
  \/ /\ g.kind = "Mapping"
     /\ \/ m.timeout # 0 /\ m.timeout # g.core.timeout
        \/ m.lb # "" /\ m.lb # g.core.lb
        \/ m.exact /\ ~g.core.exact
        \/ Headers(m) # Headers(g.core)

\* IRHTTPMappingGroup.add_mapping, IRTCPMappingGroup.add_mapping.
group_add_mapping(g, m) ==
  LET refused == [g EXCEPT !.errored = TRUE]
      plain == ~m.shadow /\ ~m.redirect
  IN  CASE mismatched(g, m) -> refused
        [] ~mismatched(g, m) /\ m.shadow ->
             IF g.shadows # <<>> THEN refused
             ELSE [g EXCEPT !.shadows = <<m>>, !.errored = @ \/ m.redirect]
        [] ~mismatched(g, m) /\ m.redirect /\ ~m.shadow ->
             IF g.host_redirect # <<>> \/ g.mappings # <<>> THEN refused
             ELSE [g EXCEPT !.host_redirect = <<m>>]
        [] ~mismatched(g, m) /\ plain ->
             IF g.host_redirect # <<>> THEN refused
             ELSE [g EXCEPT !.mappings = Append(@, m)]

\* IR.add_mapping
add_mapping(ir, m) ==
  LET k == {i \in DOMAIN ir.groups : ir.groups[i].id = m.group_id}
      i == CHOOSE j \in k : TRUE
      there == \E x \in Range(ir.groups[i].mappings) : x.name = m.name /\ x.ns = m.ns
      new(g) == IF g.errored THEN {<<m.kind, m.name>>} ELSE {}
      added == IF k = {} THEN group_add_mapping(NewGroup(m), m)
               ELSE IF there THEN ir.groups[i] ELSE group_add_mapping(ir.groups[i], m)
  IN  IF ~m.active THEN PostError(ir, m.kind, m.name)
      ELSE [ir EXCEPT !.groups = IF k = {} THEN Append(@, added) ELSE [@ EXCEPT ![i] = added],
                      !.errors = @ \cup new(added) \cup
                                 IF m.errored THEN {<<m.kind, m.name>>} ELSE {}]

load_mapping(c, ir, config) == add_mapping(ir, setup_mapping(c, ir, config))

\* IRAmbassador.add_mappings: the probes are Mappings to diagd itself.
ProbeMappings(c) ==
  LET probe(name) ==
        [MappingDefaults EXCEPT
           !.name = name, !.prefix = <<"ambassador", name>>, !.host = Star,
           !.service = [scheme |-> "", host |-> <<"127", "0", "0", "1">>, port |-> 8877]]
  IN  [i \in DOMAIN c.probes |-> probe(c.probes[i])]

Before(a, b) ==
  \E i \in 0..Len(a) :
    /\ i <= Len(b) /\ SubSeq(a, 1, i) = SubSeq(b, 1, i)
    /\ \/ i = Len(a) /\ i < Len(b)
       \/ i < Len(a) /\ i < Len(b) /\ a[i + 1] < b[i + 1]

\* Heaviest first; of equals, the last made first (a reversed stable sort).
ordered_groups(ir) ==
  LET heavier(i, j) == \/ Before(ir.groups[j].group_weight, ir.groups[i].group_weight)
                       \/ ir.groups[i].group_weight = ir.groups[j].group_weight /\ i > j
  IN  Arrange(ir.groups, heavier)

-----------------------------------------------------------------------------
(* Clusters *)

PiecesOf(host) == FlattenSeq([i \in DOMAIN host |-> Pieces[host[i]]])

\* IRCluster.__init__ and setup.  ctx is the context that the cluster
\* originates TLS with: "" for none, a context's place, or "null".
IRCluster(c, ir, m, marker) ==
  LET i == get_tls_context(ir, m.tls)
      named == m.tls \notin {"", "yes"} /\ i # 0 /\ truthy(ir.ctxs[i])
      given == m.tls = "yes" \/ named
      originate == m.service.scheme = "https" \/ given
      policy == IF m.lb # "" THEN m.lb ELSE c.defaultLb
      routed == policy # "" /\ c.endpointRouting
      one(s) == IF s = "" THEN <<>> ELSE <<s>>
      scheme == CASE m.service.scheme = "" -> <<>>
                  [] OTHER -> <<m.service.scheme, "", "">>
      port == IF m.service.port # 0 THEN m.service.port ELSE IF originate THEN 443 ELSE 80
      ignored == m.service.host = <<>>
      host == IF ignored THEN <<"unknown">> ELSE m.service.host
  IN  [name |-> <<"cluster">> \o one(marker)
                \o scheme \o PiecesOf(m.service.host)
                \o (IF m.service.port # 0 THEN <<ToString(m.service.port)>> ELSE <<>>)
                \o (IF originate THEN <<"otls">> ELSE <<>>)
                \o (IF given /\ m.service.scheme \notin {"http", "https"}
                    THEN IF named THEN Pieces[m.tls] ELSE <<"no", "cert", "upstream">> ELSE <<>>)
                \o (IF originate /\ m.host_rewrite # <<>> THEN <<"hr">> \o PiecesOf(m.host_rewrite) ELSE <<>>)
                \o Pieces[m.ns] \o one(m.cb)
                \o (IF routed THEN <<"er", policy>> ELSE <<>>),
       host |-> host, port |-> port, ns |-> m.ns, resolver |-> m.resolver,
       ctx |-> IF ~originate THEN 0 ELSE IF named THEN i ELSE -1,
       timeout |-> m.timeout, health |-> m.health, lb |-> IF routed THEN policy ELSE "",
       grpc |-> m.grpc, ignored |-> ignored, merged |-> <<>>, envoy_name |-> <<>>,
       errored |-> \/ m.tls \notin {"", "yes"} /\ ~named
                   \/ m.service.scheme = "http" /\ given
                   \/ m.service.scheme \notin {"", "http", "https"}
                   \/ ignored \/ (policy # "" /\ ~c.endpointRouting)
                   \/ resolve_fails(c, get_resolver(ir, m.resolver), host, m.ns, port)]

\* What making a cluster leaves behind, and add_cluster: the first cluster of
\* a name is the one everybody gets.
note_cluster(ir, cluster) ==
  LET ir1 == IF cluster.ctx = -1 THEN null_context(ir) ELSE ir
  IN  IF cluster.errored THEN PostError(ir1, "Cluster", cluster.host) ELSE ir1

add_cluster(ir, cluster) ==
  LET noted == note_cluster(ir, cluster)
  IN  IF \E k \in DOMAIN ir.clusters : ir.clusters[k].name = cluster.name THEN noted
      ELSE [noted EXCEPT !.clusters = Append(@, cluster)]

\* normalize_weights_in_mappings: the weights become the ends of the stretch of
\* 0..99 that each Mapping answers, the weighted before the weightless.
Rounded(n, d) ==
  LET q == n \div d
      r == n % d
  IN  IF 2 * r > d \/ (2 * r = d /\ q % 2 = 1) THEN q + 1 ELSE q

Total(ms) == Loop(LAMBDA n, m : n + m.weight, 0, ms)

(* Mutant: the last weightless Mapping ends where its share does. *)
weightless_end_Short(total, share, k, last) == total + k * share

\* The k-th of the weightless Mappings; the last one gets whatever is left.
weightless_end(total, share, k, last) ==
  IF k = last THEN 100 ELSE total + k * share

normalize_weights(mappings) ==
  LET weighted == Filter(mappings, LAMBDA m : m.weight >= 0)
      weightless == Filter(mappings, LAMBDA m : m.weight < 0)
      total == Total(weighted)
      over == {k \in DOMAIN mappings : mappings[k].weight > 100}
      share == Rounded(100 - total, Len(weightless))
      upTo(k) == [mappings[k] EXCEPT
                    !.cumulative = Total(Filter(SubSeq(mappings, 1, k), LAMBDA m : m.weight >= 0))]
      first == CHOOSE k \in over : \A j \in over : k <= j
  IN  CASE Len(mappings) = 1 -> [ok |-> TRUE, mappings |-> <<[mappings[1] EXCEPT !.cumulative = 100]>>]
        [] Len(mappings) # 1 /\ (over # {} \/ total > 100) ->
             [ok |-> FALSE,
              mappings |-> [k \in DOMAIN mappings |->
                              IF mappings[k].weight < 0 \/ (over # {} /\ k >= first)
                              THEN mappings[k] ELSE upTo(k)]]
        [] OTHER ->
             [ok |-> TRUE,
              mappings |->
                [k \in DOMAIN weighted |->
                   [weighted[k] EXCEPT !.cumulative = Total(SubSeq(weighted, 1, k))]]
                \o [k \in DOMAIN weightless |->
                      [weightless[k] EXCEPT !.cumulative =
                         weightless_end(total, share, k, Len(weightless))]]]

\* finalize: the clusters that a group needs, its shadow's first.
group_clusters(c, ir, g) ==
  [i \in DOMAIN g.shadows |-> IRCluster(c, ir, g.shadows[i], "shadow")]
  \o [i \in DOMAIN g.mappings |-> IRCluster(c, ir, g.mappings[i], g.mappings[i].tag)]

\* finalize: lift what the Mappings say into the group, give every Mapping
\* its cluster, and turn the weights into fractions.
finalize_group(c, ir, k) ==
  LET g == ir.groups[k]
      withCluster(m, marker) == [m EXCEPT !.cluster = IRCluster(c, ir, m, marker).name]
      ms == [i \in DOMAIN g.mappings |-> withCluster(g.mappings[i], g.mappings[i].tag)]
      sh == [i \in DOMAIN g.shadows |-> withCluster(g.shadows[i], "shadow")]
      normal == normalize_weights(ms)
      flat == [g EXCEPT
                 !.mappings = normal.mappings, !.shadows = sh,
                 !.errored = @ \/ ~normal.ok,
                 !.host = IF ms = <<>> \/ Last(ms).regex THEN @ ELSE Last(ms).host,
                 !.regex = \E i \in DOMAIN ms : ms[i].host_regex,
                 !.redirectHost = IF g.host_redirect = <<>> \/ g.host_redirect[1].regex THEN <<>>
                                  ELSE g.host_redirect[1].host,
                 !.labels = Loop(LAMBDA acc, m : Over(m.labels, acc), <<>>, ms)]
      ir1 == [ir EXCEPT !.groups[k] = flat,
                        !.errors = @ \cup IF normal.ok THEN {} ELSE {<<"group", g.name>>}]
  IN  Loop(add_cluster, ir1, group_clusters(c, ir, g))

\* The end of IR.__init__: a long name is cut and gets a hash, and names that
\* are still the same get a number.
is_long(name) == Len(name) > NameLimit

short_name(name) == Append(SubSeq(name, 1, NamePrefix), Digest(name))


collision_number(ir, k) ==
  Cardinality({j \in 1..(k - 1) :
    /\ is_long(ir.clusters[j].name)
    /\ short_name(ir.clusters[j].name) = short_name(ir.clusters[k].name)})

compress_names(ir) ==
  [ir EXCEPT !.clusters =
     [k \in DOMAIN @ |->
        [@[k] EXCEPT !.envoy_name =
           IF is_long(ir.clusters[k].name)
           THEN Append(short_name(ir.clusters[k].name), ToString(collision_number(ir, k)))
           ELSE ir.clusters[k].name]]]
=============================================================================
