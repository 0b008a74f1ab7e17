------------------------------- MODULE Chains -------------------------------
(***************************************************************************)
(* From the IR to Envoy's configuration: routes and their variants, the    *)
(* chains of a Listener, its filter chains with their certificates and     *)
(* virtual hosts, and the clusters.  The last section is Envoy itself: what *)
(* it makes of a configuration when a connection and a request come in.    *)
(***************************************************************************)
EXTENDS Filters

-----------------------------------------------------------------------------
(* Routes *)

\* V3Route.__init__, for a Mapping of the group.
V3Route(ir, g, m) ==
  [group |-> g, mapping |-> m.name, prefix |-> m.prefix, exact |-> g.core.exact,
   authority |-> g.core.host, regex |-> g.core.regex, xfp |-> g.core.xfp,
   fraction |-> m.cumulative, action |-> "route", cluster |-> envoy_name(ir, m.cluster),
   mirror |-> IF g.shadows = <<>> THEN <<>> ELSE envoy_name(ir, g.shadows[1].cluster)]

\* ... and for a group that is nothing but a redirect to another host.
RedirectRoute(g) ==
  [group |-> g, mapping |-> g.host_redirect[1].name, prefix |-> g.core.prefix,
   exact |-> g.core.exact, authority |-> g.core.host, regex |-> g.core.regex,
   xfp |-> g.core.xfp, fraction |-> 100, action |-> "host_redirect",
   cluster |-> <<>>, mirror |-> <<>>]

\* V3Route.generate
generate_routes(ir) ==
  LET routes(g) == (IF g.host_redirect # <<>> /\ g.mappings = <<>> THEN <<RedirectRoute(g)>> ELSE <<>>)
                   \o [i \in DOMAIN g.mappings |-> V3Route(ir, g, g.mappings[i])]
      http == Filter(ordered_groups(ir), LAMBDA g : g.kind = "Mapping")
  IN  FlattenSeq([k \in DOMAIN http |-> routes(http[k])])

\* V3RouteVariants.matcher_xfp: the Mapping's own X-Forwarded-Proto goes, or
\* stays if it is the only header and none takes its place.
matcher_xfp(route, value) ==
  LET others == route.regex \/ route.authority \notin {<<>>, Star}
  IN  [route EXCEPT !.xfp = IF value # "" \/ others THEN value ELSE @]

\* V3RouteVariants.get_variant
get_variant(route, matcher, action) ==
  LET matched == CASE matcher = "always" -> route
                   [] matcher = "xfp-https" -> matcher_xfp(route, "https")
                   [] matcher = "xfp-http" -> matcher_xfp(route, "")
  IN  IF action = "Redirect" THEN [matched EXCEPT !.action = "https_redirect", !.cluster = <<>>]
      ELSE matched

-----------------------------------------------------------------------------
(* Chains.  A listener under construction is a record of its chains, in    *)
(* the order they were made, and the objects that errors were posted on.   *)

NoChain(key, ctx) ==
  [key |-> key, ctx |-> ctx, hosts |-> <<>>, server_names |-> {}, routes |-> <<>>]

(* Mutant: a chain for each hostname, port included. *)
chain_key_Port(type, ctx, hostname, sni) ==
  IF ctx # 0 THEN <<"tls", hostname>>
  ELSE IF type = "http" THEN <<"cleartext", hostname>> ELSE <<"cleartext">>

chain_key(type, ctx, hostname, sni) ==
  IF ctx # 0 THEN <<"tls", sni>>
  ELSE IF type = "http" THEN <<"cleartext", hostname>> ELSE <<"cleartext">>

add_tcphost(chain, g) ==
  LET name == IF g.host = <<>> THEN Star ELSE g.host
  IN  IF chain.hosts # <<>> THEN [chain |-> chain, errors |-> {<<"TCPMapping", g.name>>}]
      ELSE [chain |-> [chain EXCEPT
                         !.hosts = <<[tcp |-> TRUE, hostname |-> name, of |-> g]>>,
                         !.server_names = IF chain.ctx # 0 THEN @ \cup {name} ELSE @],
            errors |-> {}]

add_httphost(ir, chain, host) ==
  LET same(i, j) == ir.ctxs[i].name = ir.ctxs[j].name /\ ir.ctxs[i].ns = ir.ctxs[j].ns
      refused == \/ \E h \in Range(chain.hosts) : h.tcp
                 \/ chain.ctx # 0 /\ ~(has_context(ir, host) /\ same(chain.ctx, host.context))
      entry == [tcp |-> FALSE, hostname |-> host.hostname, of |-> host]
      at == {k \in DOMAIN chain.hosts : chain.hosts[k].hostname = host.hostname}
  IN  IF refused THEN [chain |-> chain, errors |-> {<<"Host", host.name>>}]
      ELSE [chain |-> [chain EXCEPT
                         !.server_names = IF chain.ctx # 0 THEN @ \cup {host.sni} ELSE @,
                         !.routes = Put(@, host.hostname, <<>>),
                         !.hosts = IF at = {} THEN Append(@, entry)
                                   ELSE [@ EXCEPT ![CHOOSE k \in at : TRUE] = entry]],
            errors |-> {}]

\* add_chain for a TCP group or a Host, which is then added to the chain.
OnChain(ir, v, type, ctx, of) ==
  LET tcp == type = "tcp"
      name == IF of.host = <<>> THEN Star ELSE of.host
      key == IF tcp THEN chain_key(type, ctx, name, name)
             ELSE chain_key(type, ctx, of.hostname, of.sni)
      at == {k \in DOMAIN v.chains : v.chains[k].key = key}
      k == IF at = {} THEN Len(v.chains) + 1 ELSE CHOOSE j \in at : TRUE
      chain == IF at = {} THEN NoChain(key, ctx) ELSE v.chains[k]
      done == IF tcp THEN add_tcphost(chain, of) ELSE add_httphost(ir, chain, of)
  IN  [chains |-> IF at = {} THEN Append(v.chains, done.chain)
                  ELSE [v.chains EXCEPT ![k] = done.chain],
       errors |-> v.errors \cup done.errors]

\* The context of a Host that the TCPMapping's host goes with, or else one
\* that names that very host.
tlscontext_for_tcpmapping(ir, g) ==
  LET hosts == Filter(sorted_hosts(ir), LAMBDA h : has_context(ir, h)
                                             /\ hostglob_matches(h.hostname, g.host))
      named == Filter(ir.tls_contexts, LAMBDA i : g.host \in Range(ir.ctxs[i].hosts))
  IN  IF hosts # <<>> THEN hosts[1].context
      ELSE IF named # <<>> /\ truthy(ir.ctxs[named[1]]) THEN named[1] ELSE 0

\* One TCP group of a listener.
add_tcpgroup(ir, v, g) ==
  LET ctx == tlscontext_for_tcpmapping(ir, g)
  IN  IF g.host = <<>> THEN OnChain(ir, v, "tcp", 0, g)
      ELSE IF ctx = 0 THEN [v EXCEPT !.errors = @ \cup {<<"TCPMapping", g.name>>}]
      ELSE OnChain(ir, v, "tcp", ctx, g)

compute_tcpchains(ir, l) ==
  LET ours == Filter(ordered_groups(ir),
                     LAMBDA g : g.kind = "TCPMapping" /\ bind_to(l) = <<"tcp", g.port>>)
  IN  Loop(LAMBDA v, g : add_tcpgroup(ir, v, g), [chains |-> <<>>, errors |-> {}], ours)

(* Mutant: a Host that terminates TLS has nothing to say in the clear. *)
add_host_Either(ir, l, v, h) ==
  IF "TLS" \in Range(l.protocolStack) /\ has_context(ir, h) THEN OnChain(ir, v, "https", h.context, h)
  ELSE IF l.securityModel = "INSECURE" /\ h.insecure = "Reject" THEN v
  ELSE OnChain(ir, v, "http", 0, h)

\* One Host of a listener: a chain in TLS, if both speak it, and one in the
\* clear.
add_host(ir, l, v, h) ==
  LET secured == IF "TLS" \in Range(l.protocolStack) /\ has_context(ir, h)
                 THEN OnChain(ir, v, "https", h.context, h) ELSE v
  IN  IF l.securityModel = "INSECURE" /\ h.insecure = "Reject" THEN secured
      ELSE OnChain(ir, secured, "http", 0, h)

compute_httpchains(c, ir, l, v0) ==
  Loop(LAMBDA v, h : add_host(ir, l, v, h), v0,
       Filter(sorted_hosts(ir), LAMBDA h : matches_host(c, l, h)))

\* The variants of a route that a Host has on a listener, and in which order.
AcmePrefix == <<".well-known", "acme-challenge">>

(* Mutant: the variant for insecure requests, which matches every request,
   comes first. *)
Candidates_Swapped(l, host, route) ==
  LET secure == IF l.securityModel = "SECURE" THEN "always" ELSE "xfp-https"
      insecure == IF l.securityModel = "INSECURE" THEN "always" ELSE "xfp-http"
      all == (IF l.securityModel # "SECURE" THEN <<<<insecure, host.insecure>>>> ELSE <<>>)
             \o (IF l.securityModel # "INSECURE" THEN <<<<secure, "Route">>>> ELSE <<>>)
  IN  Filter(all, LAMBDA m : m[2] # "Reject")

Candidates(l, host, route) ==
  LET forced(action) == IF route.prefix = AcmePrefix /\ ~route.exact THEN "Route" ELSE action
      secure == IF l.securityModel = "SECURE" THEN "always" ELSE "xfp-https"
      insecure == IF l.securityModel = "INSECURE" THEN "always" ELSE "xfp-http"
      all == (IF l.securityModel # "INSECURE" THEN <<<<secure, "Route">>>> ELSE <<>>)
             \o (IF l.securityModel # "SECURE"
                 THEN <<<<insecure, forced(host.insecure)>>>> ELSE <<>>)
  IN  Filter(all, LAMBDA m : m[2] # "Reject")

\* One route, for the Hosts of a chain.
add_route(c, l, chain, acc, route) ==
  [d \in DOMAIN acc |->
     LET host == (CHOOSE h \in Range(chain.hosts) : h.hostname = d).of
         cand == Candidates(l, host, route)
     IN  IF matches_httpgroup(c, host, route.group)
         THEN acc[d] \o [k \in DOMAIN cand |-> get_variant(route, cand[k][1], cand[k][2])]
         ELSE acc[d]]

host_routes(c, l, routes, chain) ==
  Loop(LAMBDA acc, route : add_route(c, l, chain, acc, route), chain.routes, routes)

compute_http_routes(c, l, routes, chain) ==
  IF \E h \in Range(chain.hosts) : h.tcp THEN chain
  ELSE [chain EXCEPT !.routes = host_routes(c, l, routes, chain)]

\* V3TLSContext: a context that is not true leaves everything out.
V3TLSContext(ir, i) ==
  IF i # 0 /\ truthy(ir.ctxs[i]) THEN [cert |-> ir.ctxs[i].cert, cacert |-> ir.ctxs[i].cacert]
  ELSE [cert |-> <<>>, cacert |-> <<>>]

FilterChain(ir, chain, http) ==
  [tls |-> chain.ctx # 0, http |-> http,
   server_names |-> IF Star \in chain.server_names THEN {} ELSE chain.server_names,
   socket |-> V3TLSContext(ir, chain.ctx),
   hosts |-> [k \in DOMAIN chain.hosts |-> chain.hosts[k].of.name],
   vhosts |-> <<>>, clusters |-> <<>>]

finalize_tcp(ir, chains) ==
  LET tcp == Filter(chains, LAMBDA ch : \E h \in Range(ch.hosts) : h.tcp)
      clusters(g) == [i \in DOMAIN g.mappings |->
                        [name |-> envoy_name(ir, g.mappings[i].cluster),
                         mapping |-> g.mappings[i].name,
                         weight |-> g.mappings[i].cumulative]]
  IN  [k \in DOMAIN tcp |->
         [FilterChain(ir, tcp[k], FALSE) EXCEPT !.clusters = clusters(tcp[k].hosts[1].of)]]

VHosts(chain) ==
  [k \in DOMAIN chain.hosts |-> [domain |-> chain.hosts[k].hostname,
                                 routes |-> chain.routes[chain.hosts[k].hostname]]]

\* One filter chain for each TLS chain; the cleartext ones share one, except
\* over QUIC, where there is no cleartext.
finalize_http(ir, l, chains) ==
  LET http == Filter(chains, LAMBDA ch : ch.hosts # <<>> /\ ~ch.hosts[1].tcp)
      clear == Filter(http, LAMBDA ch : ch.ctx = 0)
      tls == Filter(http, LAMBDA ch : ch.ctx # 0)
      secured == [k \in DOMAIN tls |->
                    [FilterChain(ir, tls[k], TRUE) EXCEPT !.vhosts = VHosts(tls[k])]]
      shared == [FilterChain(ir, NoChain(<<>>, 0), TRUE) EXCEPT
                   !.hosts = FlattenSeq([k \in DOMAIN clear |->
                               [j \in DOMAIN clear[k].hosts |-> clear[k].hosts[j].of.name]]),
                   !.vhosts = FlattenSeq([k \in DOMAIN clear |-> VHosts(clear[k])])]
  IN  secured \o IF clear = <<>> \/ l.udp THEN <<>> ELSE <<shared>>

\* V3Listener.__init__
NewListener(ir, l) ==
  [port |-> l.port, udp |-> l.udp, name |-> l.name, securityModel |-> l.securityModel,
   inspector |-> "TLS" \in Range(l.protocolStack) /\ ~l.udp,
   http |-> IF "HTTP" \in Range(l.protocolStack) THEN base_http_config(ir)
            ELSE [filters |-> <<>>, access_log |-> <<>>, tracing |-> <<>>],
   filter_chains |-> <<>>]

\* V3Listener.finalize
finalize_listener(c, ir, l, routes) ==
  LET isHttp == "HTTP" \in Range(l.protocolStack)
      routed(v) == [k \in DOMAIN v.chains |-> compute_http_routes(c, l, routes, v.chains[k])]
      made(errors, fcs) ==
        [errors |-> errors \cup IF fcs = <<>> THEN {<<"Listener", l.name>>} ELSE {},
         listener |-> [NewListener(ir, l) EXCEPT !.filter_chains = fcs]]
      finalize(tcp, all) ==
        made(all.errors, finalize_tcp(ir, tcp.chains)
                         \o IF isHttp THEN finalize_http(ir, l, routed(all)) ELSE <<>>)
      compute(tcp) == finalize(tcp, IF isHttp THEN compute_httpchains(c, ir, l, tcp) ELSE tcp)
  IN  compute(compute_tcpchains(ir, l))

\* V3Listener.generate, for one listener.
generate_listener(c, ir, envoy, l) ==
  LET add(made) ==
        [ir |-> [ir EXCEPT !.errors = @ \cup made.errors],
         envoy |-> IF made.listener.filter_chains = <<>> THEN envoy
                   ELSE [envoy EXCEPT !.listeners = Append(@, made.listener)]]
  IN  add(finalize_listener(c, ir, l, envoy.routes))

-----------------------------------------------------------------------------
(* Clusters: V3Cluster.__init__ and generate. *)

V3Cluster(c, ir, cluster) ==
  LET r == get_resolver(ir, cluster.resolver)
      entry == clustermap_entry(c, r, cluster.host, cluster.ns, cluster.port)
  IN  [name |-> cluster.envoy_name, entry |-> entry,
       tls |-> cluster.ctx # 0,
       socket |-> IF cluster.ctx > 0 THEN V3TLSContext(ir, cluster.ctx) ELSE V3TLSContext(ir, 0),
       timeout |-> IF cluster.timeout = 0 THEN 3000 ELSE cluster.timeout,
       lb |-> cluster.lb, http2 |-> cluster.grpc,
       merged |-> IF entry.type = "DNS" THEN cluster.merged ELSE <<>>,
       health_checks |-> entry.type = "EDS" /\ cluster.health = "good"]

generate_clusters(c, ir) == {V3Cluster(c, ir, cluster) : cluster \in Range(ir.clusters)}

-----------------------------------------------------------------------------
(* Envoy.  A connection is [port, udp, tls, sni], a request adds [host,    *)
(* path, xfp] and the dice that Envoy throws once for each request.        *)

\* How well a domain matches a name; 0 is not at all.
Specificity(domain, name) ==
  CASE domain = name -> 1000
    [] domain = Star -> 1
    [] domain # name /\ domain # Star /\ Head(domain) = "*" ->
         IF Len(name) >= Len(domain) /\ IsSuffix(Tail(domain), name) THEN 200 + Len(domain) ELSE 0
    [] domain # name /\ Head(domain) # "*" /\ Last(domain) = "*" ->
         IF Len(name) >= Len(domain) /\ IsPrefix(Front(domain), name) THEN 100 + Len(domain) ELSE 0
    [] OTHER -> 0

\* The elements of the highest score; score is a function on them.
Best(score) ==
  {x \in DOMAIN score : score[x] > 0 /\ \A y \in DOMAIN score : score[y] <= score[x]}

MatchedChains(listener, conn) ==
  LET sees == conn.tls /\ (listener.inspector \/ listener.udp)
      score(fc) == IF fc.tls /\ ~sees THEN 0
                   ELSE IF fc.server_names = {} THEN IF fc.tls THEN 2 ELSE 1
                   ELSE LET all == {Specificity(n, conn.sni) : n \in fc.server_names}
                            best == CHOOSE n \in all : \A o \in all : o <= n
                        IN  IF best = 0 THEN 0 ELSE 2 + best
  IN  Best([fc \in Range(listener.filter_chains) |-> score(fc)])

RouteMatches(route, req) ==
  /\ IF route.exact THEN req.path = route.prefix ELSE IsPrefix(route.prefix, req.path)
  /\ route.xfp \in {"", req.xfp}
  /\ \/ route.authority = <<>> \/ route.regex
     \/ Specificity(route.authority, req.host) > 0
  /\ req.dice < route.fraction

\* The answer to a request: the action, and where a routed request goes.
NoAnswer == [action |-> "none", cluster |-> <<>>, mapping |-> ""]

Answer(listener, req) ==
  LET fcs == MatchedChains(listener, req)
      fc == CHOOSE x \in fcs : TRUE
      vhosts == Best([v \in Range(fc.vhosts) |-> Specificity(v.domain, req.host)])
      vhost == CHOOSE v \in vhosts : TRUE
      hits == Filter(vhost.routes, LAMBDA rt : RouteMatches(rt, req))
  IN  IF fcs = {} \/ fc.tls # req.tls \/ ~fc.http \/ vhosts = {} \/ hits = <<>> THEN NoAnswer
      ELSE [action |-> hits[1].action, cluster |-> hits[1].cluster,
            mapping |-> IF hits[1].action = "https_redirect" THEN "" ELSE hits[1].mapping]
=============================================================================
