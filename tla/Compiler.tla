------------------------------ MODULE Compiler ------------------------------
(***************************************************************************)
(* diagd's compiler: IR.__init__ and V3Config.__init__, phase by phase, on *)
(* one configuration after another.  Hosts, Mappings, groups and listeners *)
(* are taken one at a time, in the order of the code; every phase sees what *)
(* the earlier ones left in the IR.                                        *)
(*                                                                         *)
(* The properties compare what Envoy does with a request under the         *)
(* configuration that comes out with what the Hosts and Mappings that went *)
(* in ask for.  The cache is not part of this module (see Reconfigure).    *)
(***************************************************************************)
EXTENDS Chains

CONSTANT Configs        \* the configurations that may be loaded

\* Kubernetes objects have names, and weights are numbers.
ASSUME ConfigAssumption ==
  \A c \in Configs :
    /\ c.auths \in Seq(Range(c.auths)) /\ c.mappings \in Seq(Range(c.mappings))
    /\ c.tcpmappings \in Seq(Range(c.tcpmappings)) /\ c.probes \in Seq(Range(c.probes))
    /\ \A x \in Range(c.auths) : x.name # ""
    /\ \A m \in Range(c.mappings) \cup Range(c.tcpmappings) :
         "weight" \in DOMAIN m /\ m.weight \in Int

\* The fields of Hosts and TLSContexts, the names of Secrets, and hostnames that
\* can be sorted.
ASSUME SecretAssumption ==
  /\ HostnameOrder \in Seq(Range(HostnameOrder)) /\ Star \in Range(HostnameOrder)
  /\ \A c \in Configs :
       /\ c.hosts \in Seq(Range(c.hosts)) /\ c.tls_contexts \in Seq(Range(c.tls_contexts))
       /\ \A s \in c.secrets : s.name \in Seq(STRING)
       /\ c.tls_module.secret \in Seq(STRING) /\ c.tls_module.ca \in Seq(STRING)
       /\ \A t \in Range(c.tls_contexts) :
            /\ DOMAIN t.spec = DOMAIN ContextFields
            /\ t.spec.secret \in Seq(STRING) /\ t.spec.ca \in Seq(STRING) /\ t.spec.crl \in Seq(STRING)
       /\ \A h \in Range(c.hosts) :
            /\ DOMAIN h = DOMAIN HostDefaults
            /\ h.secret \in Seq(STRING) /\ h.acme \in Seq(STRING)
            /\ h.hostname = <<>> \/ h.hostname \in Range(HostnameOrder)

VARIABLES
  phase,     \* the phase that comes next
  n,         \* how many objects the phase has handled
  aconf,     \* the configuration, from which the IR is built
  ir,
  envoy

vars == <<phase, n, aconf, ir, envoy>>

EmptyIR ==
  [ctxs |-> <<>>, tls_contexts |-> <<>>, rcf |-> 0, saved |-> <<>>, hosts |-> <<>>,
   listeners |-> <<>>, errors |-> {}, resolvers |-> <<>>, groups |-> <<>>,
   clusters |-> <<>>, filters |-> <<>>, services |-> <<>>]

EmptyEnvoy == [routes |-> <<>>, listeners |-> <<>>, clusters |-> {}]

NoConfig == <<>>

Init ==
  /\ phase = "idle" /\ n = 0
  /\ aconf = NoConfig /\ ir = EmptyIR /\ envoy = EmptyEnvoy

-----------------------------------------------------------------------------
Start ==
  /\ phase = "idle"
  /\ aconf' \in Configs
  /\ phase' = "tls"
  /\ UNCHANGED <<n, ir, envoy>>

\* A phase that is a single step from the IR to the IR.
Phase(from, to, next) ==
  /\ phase = from
  /\ phase' = to
  /\ ir' = next
  /\ n' = 0
  /\ UNCHANGED <<aconf, envoy>>

\* A phase that handles one object of a sequence after the other.
Each(at, to, seq, step(_)) ==
  /\ phase = at
  /\ IF n < Len(seq)
     THEN n' = n + 1 /\ ir' = step(seq[n + 1]) /\ UNCHANGED phase
     ELSE n' = 0 /\ phase' = to /\ UNCHANGED ir
  /\ UNCHANGED <<aconf, envoy>>

LoadTLSModule == Phase("tls", "contexts", load_tls_module(aconf, ir))

LoadTLSContext ==
  Each("contexts", "listeners", aconf.tls_contexts, LAMBDA t : load_tls_context(ir, t))

LoadListener == Each("listeners", "http3", aconf.listeners, LAMBDA l : load_listener(ir, l))

AdvertiseHTTP3 == Phase("http3", "hosts", advertise_http3(ir))

LoadHost == Each("hosts", "finalize_hosts", aconf.hosts, LAMBDA h : load_host(aconf, ir, h))

FinalizeHosts == Phase("finalize_hosts", "resolve", finalize_hosts(aconf, ir))

ResolveContext ==
  Each("resolve", "module", ir.tls_contexts, LAMBDA i : resolve_tls_context(aconf, ir, i))

FinalizeModule == Phase("module", "resolvers", finalize_module(aconf, drop_tls_contexts(ir)))

LoadResolvers == Phase("resolvers", "tracing", load_resolvers(aconf, ir))

SetupServices == Phase("tracing", "logs", setup_ratelimit(aconf, setup_tracing(aconf, ir)))

LoadLogService == Each("logs", "filters", aconf.logs, LAMBDA l : load_log_service(ir, l))

SaveFilters == Phase("filters", "mappings", save_filters(aconf, ir))

LoadMapping ==
  Each("mappings", "services", aconf.mappings \o aconf.tcpmappings \o ProbeMappings(aconf),
       LAMBDA m : load_mapping(aconf, ir, m))

AddService == Each("services", "groups", ir.services, LAMBDA s : add_service(aconf, ir, n + 1))

FinalizeGroup ==
  Each("groups", "ports", ir.groups, LAMBDA g : finalize_group(aconf, ir, n + 1))

FinalizeListener ==
  Each("ports", "finish", Filter(ordered_groups(ir), LAMBDA g : g.kind = "TCPMapping"),
       LAMBDA g : synthesize_listener(ir, g))

FinishIR ==
  Phase("finish", IF asserts_fail(ir, {"tracing"}) THEN "failed" ELSE "routes", compress_names(ir))

GenerateRoutes ==
  /\ phase = "routes"
  /\ phase' = "v3listeners"
  /\ envoy' = [envoy EXCEPT !.routes = generate_routes(ir)]
  /\ UNCHANGED <<n, aconf, ir>>

GenerateFails ==
  /\ n < Len(ir.listeners) /\ "HTTP" \in Range(ir.listeners[n + 1].protocolStack)
  /\ asserts_fail(ir, {"auth", "log"})

FailListener ==
  /\ phase = "v3listeners" /\ GenerateFails
  /\ phase' = "failed"
  /\ UNCHANGED <<n, aconf, ir, envoy>>

\* An assertion about a cluster ends everything: diagd keeps the configuration
\* it had and answers the request to update with an error.
GenerateListener ==
  /\ phase = "v3listeners"
  /\ ~GenerateFails
  /\ IF n < Len(ir.listeners)
     THEN \E made \in {generate_listener(aconf, ir, envoy, ir.listeners[n + 1])} :
            n' = n + 1 /\ ir' = made.ir /\ envoy' = made.envoy /\ UNCHANGED phase
     ELSE n' = 0 /\ phase' = "v3clusters" /\ UNCHANGED <<ir, envoy>>
  /\ UNCHANGED aconf

GenerateClusters ==
  /\ phase = "v3clusters"
  /\ phase' = "done"
  /\ envoy' = [envoy EXCEPT !.clusters = generate_clusters(aconf, ir)]
  /\ UNCHANGED <<n, aconf, ir>>

\* The next configuration starts from nothing.
Discard ==
  /\ phase \in {"done", "failed"}
  /\ phase' = "idle" /\ n' = 0
  /\ aconf' = NoConfig /\ ir' = EmptyIR /\ envoy' = EmptyEnvoy

Next ==
  \/ Start
  \/ LoadTLSModule \/ LoadTLSContext \/ LoadListener \/ AdvertiseHTTP3 \/ LoadHost \/ FinalizeHosts
  \/ ResolveContext \/ FinalizeModule \/ LoadResolvers \/ SetupServices \/ LoadLogService
  \/ SaveFilters \/ LoadMapping \/ AddService \/ FinalizeGroup \/ FinalizeListener \/ FinishIR
  \/ GenerateRoutes \/ GenerateListener \/ FailListener \/ GenerateClusters
  \/ Discard

Spec == Init /\ [][Next]_vars

-----------------------------------------------------------------------------
(* What the configuration asks for. *)

Reported(kind, name) == <<kind, name>> \in ir.errors

EnvoyListener(l) ==
  {x \in Range(envoy.listeners) : x.port = l.port /\ x.udp = l.udp}

\* TCPMappings take a listener's cleartext connections, or those of a name.
TCPGroups(l) ==
  {g \in Range(ir.groups) : g.kind = "TCPMapping" /\ bind_to(l) = <<"tcp", g.port>>}

\* The Hosts of a listener, and whether they are ones it can tell apart.
HostsOf(l) == {h \in Range(ir.hosts) : matches_host(aconf, l, h)}

Distinct(hosts) ==
  /\ \A h \in hosts : ~Reported("Host", h.name)
  /\ \A h1, h2 \in hosts : h1.hostname = h2.hostname => h1 = h2

\* The Host that answers a request: the most specific for its SNI, and of
\* those the most specific for its :authority.  A Host that rejects insecure
\* requests has nothing to say on a listener that has no others.
Governing(l, req) ==
  LET deaf(h) == l.securityModel = "INSECURE" /\ h.insecure = "Reject"
      clear == {h \in HostsOf(l) : ~deaf(h) /\ ~l.udp}
      secured == {h \in HostsOf(l) : "TLS" \in Range(l.protocolStack) /\ has_context(ir, h)}
      named == Best([h \in secured |-> Specificity(h.sni, req.sni)])
  IN  Best([h \in (IF req.tls THEN named ELSE clear) |-> Specificity(h.hostname, req.host)])

Secure(l, req) ==
  \/ l.securityModel = "SECURE"
  \/ l.securityModel = "XFP" /\ req.xfp = "https"

\* What a Host makes of a request that a group of Mappings is for.
Policy(l, req, host, g) ==
  IF Secure(l, req) \/ (g.core.prefix = AcmePrefix /\ ~g.core.exact) THEN "Route"
  ELSE host.insecure

\* The groups of Mappings that a request is for.
Wanted(l, req, host) ==
  {g \in Range(ir.groups) :
     /\ g.kind = "Mapping"
     /\ matches_httpgroup(aconf, host, g)
     /\ IF g.core.exact THEN req.path = g.core.prefix ELSE IsPrefix(g.core.prefix, req.path)
     /\ g.core.host = <<>> \/ g.core.regex \/ Specificity(g.core.host, req.host) > 0
     /\ l.securityModel = "XFP" \/ g.core.xfp \in {"", req.xfp}
     /\ g.host_redirect # <<>> \/ \E m \in Range(g.mappings) : req.dice < m.cumulative
     /\ Policy(l, req, host, g) # "Reject"}

\* The answer is one that the most specific of the wanted groups gives.
Satisfies(l, req, answer) ==
  LET hosts == Governing(l, req)
      host == CHOOSE h \in hosts : TRUE
      wanted == Wanted(l, req, host)
      first(g) == \A o \in wanted :
                    \/ g.core.precedence > o.core.precedence
                    \/ /\ g.core.precedence = o.core.precedence
                       /\ Len(g.core.prefix) >= Len(o.core.prefix)
      gives(g) ==
        LET policy == Policy(l, req, host, g)
        IN  IF policy = "Redirect" THEN answer.action = "https_redirect"
            ELSE IF g.host_redirect # <<>>
            THEN answer.action = "host_redirect" /\ answer.mapping = g.host_redirect[1].name
            ELSE /\ answer.action = "route"
                 /\ \E m \in Range(g.mappings) : m.name = answer.mapping
  IN  IF hosts = {} \/ wanted = {} THEN answer = NoAnswer
      ELSE \E g \in wanted : first(g) /\ gives(g)

\* The requests worth asking about a listener.
Requests(l) ==
  LET names == {h.hostname : h \in Range(ir.hosts)} \cup aconf.names
      concrete == {x \in names : Head(x) # "*" /\ Last(x) # "*"}
  IN  [tls : BOOLEAN, sni : concrete, host : concrete, path : aconf.paths,
       xfp : {"http", "https"}, dice : {0, 99}]

\* A request whose connection is not a TCPMapping's.  SNI is TLS's.
Asked(l, req) ==
  /\ req.tls \/ req.sni = req.host
  /\ \A g \in TCPGroups(l) : IF g.host = <<>> THEN req.tls ELSE g.host # req.sni

\* Every request that reaches an HTTP listener gets the answer its Host's
\* policy and the Mappings ask for: routed, redirected to HTTPS only when it is
\* not secure, not routed when the Host rejects it, ACME challenges always let
\* through - unless a TCPMapping has its connection.  The Host is the one that
\* Governing names: on an INSECURE listener a Host that rejects insecure
\* requests is not there, and a less specific one may answer (v3listener.py
\* compute_httpchains, compute_http_routes, finalize_http; v3route.py
\* V3RouteVariants).
RequestsAnswered ==
  phase = "done" =>
    \A l \in {x \in Range(ir.listeners) : "HTTP" \in Range(x.protocolStack)} :
      Distinct(HostsOf(l)) =>
        \A req \in Requests(l) :
          Asked(l, req) =>
            LET at == EnvoyListener(l)
            IN  Satisfies(l, req,
                          IF at = {} THEN NoAnswer
                          ELSE Answer(CHOOSE x \in at : TRUE, req))

\* The Secret that a Host names, as <name>.<namespace>.
SecretOf(h) == Append(h.secret, IF h.secretNs # "" THEN h.secretNs ELSE h.ns)

ContextOf(h) == IF h.tlsContext # "" THEN h.tlsContext ELSE h.name \o "-context"

\* Names that can be read in one way: a Secret's has no dots, so that neither
\* has <name>.<namespace>, and whoever uses a TLSContext is in the namespace it
\* is in - save_context looks for a context's Secret in the Host's namespace,
\* resolve in the context's.
DotlessSecrets(c) == \A s \in c.secrets : Len(s.name) = 1

ContextClaims(c) ==
  {<<t.name, t.ns>> : t \in Range(c.tls_contexts)}
  \cup {<<ContextOf(h), h.ns>> : h \in Range(c.hosts)}
  \cup {<<"server", AmbassadorNamespace>>, <<ContextOf(DefaultHost), AmbassadorNamespace>>}

OneNamespace(c) == \A p, q \in ContextClaims(c) : p[1] = q[1] => p[2] = q[2]

Unambiguous(c) == DotlessSecrets(c) /\ OneNamespace(c)

\* Every filter chain that terminates TLS for a Host presents the certificate
\* of the Secret that Host names, or an error about the Host or its TLSContext
\* was reported (irhost.py setup and save_context, irtlscontext.py resolve,
\* v3listener.py finalize_http).
CertifiedAsNamed ==
  phase = "done" =>
    \A l \in Range(envoy.listeners) : \A fc \in Range(l.filter_chains) :
      \A h \in Range(ir.hosts) :
        (fc.tls /\ fc.http /\ h.name \in Range(fc.hosts)) =>
          \/ fc.socket.cert = SecretOf(h)
          \/ Reported("Host", h.name)
          \/ Reported("ir", ContextOf(h)) \/ Reported("TLSContext", ContextOf(h))

\* Where names can be read in one way, every filter chain that terminates TLS
\* for a Host presents the certificate of the Secret that Host names, or an
\* error was reported (irhost.py setup and save_context, irtlscontext.py
\* resolve).  Elsewhere the code may silently present another one.
ChainsCertified == phase = "done" /\ Unambiguous(aconf) => CertifiedAsNamed

\* Every Host with a Listener of its own is answered there - in TLS if it has a
\* certificate and the Listener speaks TLS - unless its Secret is missing or an
\* error about it was reported: nothing disappears between the phases.  Not
\* meant are a Host whose hostname another Host has too, of whom add_httphost
\* silently keeps the last, and one that rejects all an INSECURE Listener takes
\* (irhost.py HostFactory, v3listener.py compute_httpchains and add_httphost).
HostsServedOrReported ==
  phase = "done" =>
    \A h \in Range(aconf.hosts) : \A l \in Range(ir.listeners) :
      LET missing == h.secret # <<>> /\ secret_info(aconf, SecretOf(h)) = {}
          speaks == "HTTP" \in Range(l.protocolStack) /\ matches_host(aconf, l, h)
          inTls == {fc \in UNION {Range(x.filter_chains) : x \in EnvoyListener(l)} :
                      fc.tls /\ h.name \in Range(fc.hosts)}
          inClear == {fc \in UNION {Range(x.filter_chains) : x \in EnvoyListener(l)} :
                        ~fc.tls /\ h.name \in Range(fc.hosts)}
          quiet == \/ missing \/ Reported("Host", h.name) \/ Reported("ir", h.name)
                   \/ Reported("ir", ContextOf(h)) \/ Reported("TLSContext", ContextOf(h))
          twin == \E o \in Range(aconf.hosts) : o # h /\ o.hostname = h.hostname
      IN  speaks /\ ~quiet /\ ~twin =>
            /\ h.secret # <<>> /\ "TLS" \in Range(l.protocolStack) => inTls # {}
            /\ (~l.udp /\ ~(l.securityModel = "INSECURE" /\ h.insecure = "Reject")) => inClear # {}

\* The filter chains of a listener can be told apart by what they match, as
\* Envoy demands of a listener it accepts (v3listener.py add_chain).  A
\* TCPMapping without a host on a port that serves HTTP too is the exception.
ChainsDistinct ==
  phase = "done" =>
    \A l \in Range(envoy.listeners) :
      LET fcs == l.filter_chains
          plainTcp == \E k \in DOMAIN fcs : ~fcs[k].tls /\ ~fcs[k].http
      IN  \A i, j \in DOMAIN fcs :
            i < j => \/ fcs[i].tls # fcs[j].tls
                     \/ fcs[i].tls /\ fcs[i].server_names \cap fcs[j].server_names = {}
                                   /\ fcs[i].server_names # fcs[j].server_names
                     \/ ~fcs[i].tls /\ plainTcp

-----------------------------------------------------------------------------
(* Weights *)

\* How many of a hundred requests get to the k-th Mapping: Envoy takes the first
\* route whose fraction is above the dice.
Share(ms, k) ==
  Cardinality({d \in 0..99 : d < ms[k].cumulative /\ \A j \in 1..(k - 1) : d >= ms[j].cumulative})

FairlyShared(ms) ==
  LET rest == {k \in DOMAIN ms : ms[k].weight < 0}
      count == Cardinality(rest)
      left == 100 - Total(Filter(ms, LAMBDA m : m.weight >= 0))
  IN  /\ \A k \in DOMAIN ms \ rest : Share(ms, k) = ms[k].weight
      /\ \A k \in rest :
           LET off == count * Share(ms, k) - left
           IN  2 * off <= count * (count - 1) /\ -2 * off <= count * (count - 1)
      /\ rest # {} => \A d \in 0..99 : \E k \in DOMAIN ms : d < ms[k].cumulative

\* Of a hundred requests to a group a Mapping with a weight gets as many as its
\* weight says, and each of the n others gets the n-th part of the rest, give or
\* take (n - 1) / 2 for rounding; none is left without a Mapping when a
\* weightless one is there, and a Mapping alone gets them all - whatever the
\* order in which they came (irbasemappinggroup.py normalize_weights_in_mappings,
\* v3route.py runtime_fraction).
WeightsHonoured ==
  phase = "done" =>
    \A g \in {x \in Range(ir.groups) : x.kind = "Mapping" /\ x.mappings # <<>>} :
      \/ Reported("group", g.name)
      \/ Len(g.mappings) = 1 /\ Share(g.mappings, 1) = 100
      \/ Len(g.mappings) > 1 /\ FairlyShared(g.mappings)

\* Of the connections to a TCP group a Mapping without a weight gets none once
\* the others add up to 100 (the comment in irbasemappinggroup.py
\* normalize_weights_in_mappings).  Envoy shares the connections of a TCP proxy
\* by the weights of its clusters, each relative to their sum.
WeightlessDrained ==
  phase = "done" =>
    \A l \in Range(envoy.listeners) : \A fc \in Range(l.filter_chains) :
      \A g \in {x \in Range(ir.groups) : x.kind = "TCPMapping" /\ x.name \in Range(fc.hosts)} :
        LET weighted == Filter(g.mappings, LAMBDA m : m.weight >= 0)
        IN  Total(weighted) = 100 =>
              \A m \in Range(g.mappings) : \A x \in Range(fc.clusters) :
                m.weight < 0 /\ x.mapping = m.name => x.weight = 0

-----------------------------------------------------------------------------
(* Upstreams *)

\* The upstream that a Mapping's service means: where its endpoints come from,
\* on which port, and whether TLS is spoken to it.
Upstream(m) ==
  LET r == get_resolver(ir, m.resolver)
      tls == m.service.scheme = "https" \/ m.tls = "yes"
             \/ (m.tls # "" /\ get_tls_context(ir, m.tls) # 0
                 /\ truthy(ir.ctxs[get_tls_context(ir, m.tls)]))
      port == IF m.service.port # 0 THEN m.service.port ELSE IF tls THEN 443 ELSE 80
  IN  [entry |-> clustermap_entry(aconf, r, m.service.host, m.ns, port), tls |-> tls]

\* Mappings that the name of a cluster does not tell apart: it keeps only the
\* letters and digits of the service, and says nothing about the resolver.
Confusable(m1, m2) ==
  /\ m1 # m2 /\ PiecesOf(m1.service.host) = PiecesOf(m2.service.host)
  /\ m1.service.host # m2.service.host \/ m1.resolver # m2.resolver


-----------------------------------------------------------------------------
(* Filters *)

\* What a configuration asks of the filters, and what may have kept it from
\* getting it: a RateLimitService or a Module that was reported.
IPAsked(m) == "good" \in {m.ip_allow, m.ip_deny}
ModuleStopped == Reported("IRBuffer", "ir.buffer") \/ Reported("IRRetryPolicy", "ir.retrypolicy")
AuthAsked(c) == \E x \in Range(c.auths) : x.service # NoService
AuthMisconfigured(c) ==
  \E x \in Range(c.auths) :
    \/ x.proto \notin {"", "http", "grpc"} \/ x.body = "both"
    \/ x.proto = "grpc" /\ x.version # "v3"

\* Nothing gets past the filters that guard the routes, on any HTTP listener:
\* the router is last; before it are IP allow and deny, rate limits unless
\* their error was reported, and authentication, which answers everything
\* itself when an AuthService is misconfigured; and the services that filters,
\* access logs and tracers call have their cluster (irambassador.py finalize,
\* irauth.py, irratelimit.py, v3httpfilter.py).
FiltersComplete ==
  phase = "done" =>
    \A l \in {x \in Range(envoy.listeners) : \E fc \in Range(x.filter_chains) : fc.http} :
      LET guards == {f.name : f \in Range(Front(l.http.filters))}
          called == {f.cluster : f \in Range(l.http.filters)} \cup Range(l.http.access_log)
                    \cup Range(l.http.tracing)
      IN  /\ Last(l.http.filters).name = "router" /\ "router" \notin guards
          /\ IPAsked(aconf.module) => "ip_allow_deny" \in guards \/ ModuleStopped
          /\ aconf.ratelimits # <<>> => "ratelimit" \in guards \/ Reported("ir.ratelimit", "ir.ratelimit")
          /\ AuthAsked(aconf) => guards \cap {"ext_authz", "deny"} # {}
          /\ AuthAsked(aconf) /\ AuthMisconfigured(aconf) => "deny" \in guards
          /\ called \ {<<>>} \subseteq {x.name : x \in envoy.clusters}

\* AuthServices that cannot be one cluster, or a service that cannot be parsed,
\* are answered for by an error and a filter that fails closed; the
\* configuration is still compiled (the message of v3httpfilter.py: "the
\* AuthService is misconfigured; see the logs for more information").
MisconfigurationCompiles == phase # "failed"
=============================================================================
