----------------------------- MODULE MCCompiler -----------------------------
(***************************************************************************)
(* Families of small configurations.  Each family varies what one part of  *)
(* the compiler decides about - the policies of Hosts, where certificates  *)
(* come from, TCPMappings, the Mappings of a group, upstreams and filters  *)
(* - and takes every combination of it.                                    *)
(***************************************************************************)
EXTENDS Compiler

a == <<"a", "ex">>
b == <<"b", "ex">>
ex == <<"*", "ex">>
aPort == <<"a", "ex", ":8443">>

MCHostnameOrder == <<Star, ex, <<"a", "*">>, a, aPort, b>>
MCPathOrder ==
  <<<<".well-known", "acme-challenge">>, <<"ambassador", "diagnostics">>,
    <<"ambassador", "liveness">>, <<"ambassador", "readiness">>, <<"x">>, <<"x", "y">>, <<"z">>>>

Labels == {"svc", "other", "unknown", "deep", "very", "foo", "bar", "amb", "ns2", "ctx", "origin",
           "127", "0", "1", "localhost"}
MCPieces == [l \in Labels \cup {"foo-bar"} |-> IF l = "foo-bar" THEN <<"foo", "bar">> ELSE <<l>>]
MCIPAddresses == {<<"127", "0", "0", "1">>}
MCDigest(name) == "H"

-----------------------------------------------------------------------------
Secret(name, ns) == [name |-> name, ns |-> ns, crt |-> TRUE, key |-> TRUE, user |-> FALSE]
SecretS == Secret(<<"s">>, "amb")
SecretT == Secret(<<"t">>, "amb")
SecretOther == Secret(<<"s">>, "ns2")
Keyless == [SecretS EXCEPT !.key = FALSE]
Fallback == Secret(<<"fallback-self-signed-cert">>, "amb")
CA == [name |-> <<"ca">>, ns |-> "amb", crt |-> FALSE, key |-> FALSE, user |-> TRUE]

Label(v) == [given |-> TRUE, match |-> ("app" :> v)]

Listener(name, port, protocol, model) ==
  [name |-> name, ns |-> AmbassadorNamespace, port |-> port, protocol |-> protocol,
   protocolStack |-> <<>>, securityModel |-> model, from |-> "ALL", selector |-> NoSelector,
   matchLabels |-> TRUE]
Quic == [Listener("quic", 8443, "", "SECURE") EXCEPT !.protocolStack = <<"TLS", "HTTP", "UDP">>]

Host(name, hostname, insecure) ==
  [HostDefaults EXCEPT !.name = name, !.hostname = hostname, !.insecure = insecure]

Service(host, port) == [scheme |-> "", host |-> host, port |-> port]
Mapping(name, prefix, hostname) ==
  [MappingDefaults EXCEPT !.name = name, !.service = Service(<<"svc">>, 0), !.prefix = prefix, !.host = hostname]
TCPMapping(name, port, hostname, weight) ==
  [Mapping(name, <<>>, hostname) EXCEPT !.kind = "TCPMapping", !.port = port, !.weight = weight]

NoTLSModule == [enabled |-> FALSE, secret |-> <<>>, files |-> "none", ca |-> <<>>, client |-> FALSE]
Context(name, fields) == [name |-> name, ns |-> AmbassadorNamespace, spec |-> fields]

Base ==
  [loose |-> FALSE, namespacing |-> TRUE, secrets |-> {SecretS, SecretT},
   tls_module |-> NoTLSModule, tls_contexts |-> <<>>,
   listeners |-> <<Listener("l", 8443, "HTTPS", "XFP")>>,
   hosts |-> <<>>, mappings |-> <<Mapping("m", <<"x">>, Star)>>, tcpmappings |-> <<>>,
   probes |-> <<>>, resolvers |-> <<>>, services |-> <<>>, ambassadorNsForServices |-> FALSE,
   defaultResolver |-> "kubernetes-service", defaultCb |-> "", defaultLb |-> "",
   endpointRouting |-> FALSE,
   module |-> NoModule, auths |-> <<>>, ratelimits |-> <<>>, tracings |-> <<>>, logs |-> <<>>,
   names |-> {a, b}, paths |-> {<<"x", "y">>, <<"z">>}]

-----------------------------------------------------------------------------
(* What Hosts do with insecure requests. *)

Policies == {"", "Route", "Reject"}
Models == {"XFP", "SECURE", "INSECURE"}

PolicyMappings ==
  <<Mapping("any", <<"x">>, Star),
    [Mapping("first", <<"x">>, Star) EXCEPT !.precedence = 1, !.exact = TRUE],
    [Mapping("http", <<"x", "y">>, a) EXCEPT !.xfp = "http"],
    Mapping("wild", <<"z">>, ex),
    [Mapping("labelled", <<"z">>, <<>>) EXCEPT !.labels = "app" :> "web"],
    Mapping("acme", AcmePrefix, Star)>>

PolicyConfigs ==
  {[Base EXCEPT
      !.hosts = <<[Host("host-a", name, p) EXCEPT !.secret = <<"s">>, !.selector = sel],
                  [Host("host-w", wild, q) EXCEPT !.secret = s]>>,
      !.listeners = ls,
      !.mappings = PolicyMappings,
      !.probes = <<"liveness">>,
      !.paths = {<<"x">>, <<"x", "y">>, <<"z">>, Append(AcmePrefix, "x"), <<"ambassador", "liveness">>}] :
    name \in {a, aPort}, wild \in {Star, ex}, p \in Policies, q \in Policies,
    sel \in {NoSelector, Label("web")}, s \in {<<>>, <<"t">>},
    ls \in {<<Listener("l", 8443, "HTTPS", m)>> : m \in Models}
           \cup {<<Listener("l", 8080, "HTTPPROXY", "INSECURE"), Quic>>}}

LooseConfigs == {[c EXCEPT !.loose = TRUE] : c \in {x \in PolicyConfigs : x.hosts[1].insecure = ""}}

\* Hosts that differ in the port only share a name that TLS can tell.
PortConfigs ==
  {[Base EXCEPT
      !.hosts = <<[Host("bare", a, p) EXCEPT !.secret = <<"s">>, !.tlsContext = "ctx"],
                  [Host("port", aPort, q) EXCEPT !.secret = s, !.tlsContext = IF s = <<"s">> THEN "ctx" ELSE ""]>>,
      !.tls_contexts = <<Context("ctx", [ContextFields EXCEPT !.secret = <<"s">>, !.hosts = <<a, aPort>>])>>,
      !.mappings = PolicyMappings] :
    p \in Policies, q \in Policies, s \in {<<"s">>, <<"t">>, <<>>}}

-----------------------------------------------------------------------------
(* Where a Host's certificate comes from. *)

ContextSpecs ==
  {[ContextFields EXCEPT !.secret = s, !.hosts = h, !.files = f, !.ca = ca] :
     s \in {<<>>, <<"s">>, <<"t">>, <<"s", "ns2">>}, h \in {<<>>, <<a>>, <<b>>, <<<<"h">>>>},
     f \in {"none", "both"}, ca \in {<<>>, <<"ca">>}}

CertificateConfigs ==
  {[Base EXCEPT
      !.secrets = secrets,
      !.tls_contexts = cs,
      !.listeners = <<Listener("l", 8443, "HTTPS", "SECURE")>>,
      !.hosts = <<[Host("h", a, "") EXCEPT !.secret = <<"s">>, !.secretNs = ns,
                                            !.tlsContext = ref, !.tls = tls],
                  [Host("w", Star, "") EXCEPT !.secret = <<"t">>, !.acme = <<"s">>]>>] :
    secrets \in {{SecretS, SecretT, SecretOther, CA}, {Keyless, SecretT}, {SecretT}},
    cs \in {<<>>} \cup {<<Context(name, spec)>> : name \in {"ctx", "h-context"},
                         spec \in {x \in ContextSpecs : x.files = "none" \/ x.ca = <<>>}},
    ns \in {"", "ns2"}, ref \in {"", "ctx"}, tls \in {"", "good"}}

TLSConfigs ==
  {[Base EXCEPT
      !.tls_module = m, !.tls_contexts = cs, !.secrets = secrets, !.namespacing = dots,
      !.hosts = hs] :
    m \in {NoTLSModule}
          \cup [enabled : {TRUE}, secret : {<<>>, <<"s">>}, files : {"none", "chain"},
                ca : {<<>>, <<"ca">>}, client : BOOLEAN],
    cs \in {<<Context("ctx", [ContextFields EXCEPT !.secret = <<"s">>, !.rcf = 1]),
              Context("ctx2", [ContextFields EXCEPT !.secret = <<"t", "ns2">>, !.rcf = r, !.alpn = TRUE]),
              Context("ctx", [ContextFields EXCEPT !.secret = <<"t">>, !.crl = <<"t">>])>> : r \in {0, 1, 2}},
    secrets \in {{SecretS, SecretT, CA, Fallback}, {SecretS}}, dots \in BOOLEAN,
    hs \in {<<>>} \cup {<<[Host("h", a, "") EXCEPT !.secret = <<"s">>, !.tlsContext = "ctx", !.tls = t],
                         [Host("h", b, "") EXCEPT !.secret = <<"s">>, !.tls = "files"]>> :
                        t \in {"", "good", "version"}}}

-----------------------------------------------------------------------------
(* TCPMappings, and which Listeners there are. *)

TCPHosts ==
  {<<>>, <<[Host("h", a, "Reject") EXCEPT !.secret = <<"s">>]>>,
   <<[Host("w", ex, "Route") EXCEPT !.secret = <<"t">>, !.labels = "app" :> "web"],
     Host("b", b, "Route")>>}

TCPConfigs ==
  {[Base EXCEPT !.hosts = hs, !.listeners = ls, !.tcpmappings = ts, !.tls_contexts = cs] :
    hs \in TCPHosts,
    ls \in {<<>>, <<Listener("l", 6789, "TLS", "SECURE")>>,
            <<Listener("l", 6789, "HTTPS", "SECURE"), Listener("again", 6789, "TCP", "SECURE")>>,
            <<[Listener("l", 8080, "HTTP", "XFP") EXCEPT !.from = "SELF", !.selector = Label("web")],
              [Listener("expressions", 8083, "HTTP", "XFP") EXCEPT !.selector = Label("web"), !.matchLabels = FALSE],
              [Listener("bad", 8081, "HTTP", "XFP") EXCEPT !.protocolStack = <<"HTTP">>],
              [Listener("none", 8082, "NONE", "") EXCEPT !.from = "SELECTOR"]>>},
    ts \in {<<>>, <<TCPMapping("t1", 6789, <<>>, -1)>>}
           \cup {<<TCPMapping("t1", 6789, h1, w), TCPMapping("t2", 6789, h2, -1)>> :
                   h1 \in {<<>>, a, b}, h2 \in {a, b}, w \in {-1, 40}},
    cs \in {<<>>, <<Context("ctx", [ContextFields EXCEPT !.secret = <<"s">>, !.hosts = <<b>>])>>}}

-----------------------------------------------------------------------------
(* The Mappings of a group. *)

Weights == {-1, 0, 30, 70, 100, 120}

Weighted(ws) ==
  [i \in DOMAIN ws |-> [Mapping("m" \o ToString(i), <<"x">>, Star) EXCEPT
                          !.weight = ws[i], !.service = Service(<<"svc">>, i)]]

GroupConfigs ==
  {[Base EXCEPT !.mappings = Weighted(ws)] :
     ws \in UNION {[1..k -> Weights] : k \in 1..3} \cup [1..4 -> {-1, 30}]}
  \cup
  {[Base EXCEPT !.mappings = <<m1, m2, [Mapping("m3", <<"x">>, Star) EXCEPT !.tag = "tag"],
                                 [Mapping("m4", <<"z">>, Star) EXCEPT !.retry = "bad"]>>,
                !.hosts = <<[Host("h", a, "Route") EXCEPT !.selector = sel]>>] :
     sel \in {NoSelector, Label("web")},
     m1 \in {[Mapping("m1", <<"x">>, h) EXCEPT !.shadow = s, !.redirect = r, !.regex = s, !.hostBy = by] :
               h \in {Star, a}, s \in BOOLEAN, r \in BOOLEAN, by \in {"host", "hostname"}},
     m2 \in {[Mapping("m2", <<"x">>, h) EXCEPT !.shadow = s, !.redirect = r, !.labels = "app" :> "web",
                                               !.timeout = IF s /\ r THEN 5 ELSE 0] :
               h \in {<<>>, Star, a}, s \in BOOLEAN, r \in BOOLEAN}}

-----------------------------------------------------------------------------
(* Upstreams and filters. *)

Upstreams ==
  [scheme : {"", "http", "https"}, host : {<<"svc">>}, port : {0, 443}]
    \cup [scheme : {""}, port : {80},
          host : {<<>>, <<"svc", "ns2">>, <<"localhost">>, <<"127", "0", "0", "1">>, <<"very", "deep", "svc">>}]
    \cup [scheme : {"ftp"}, host : {<<"foo-bar">>}, port : {0}]

UpstreamConfigs ==
  {[Base EXCEPT
      !.mappings = <<[Mapping("m1", <<"x">>, Star) EXCEPT !.service = s, !.resolver = r, !.tls = tls,
                                                          !.ns = ns, !.lb = lb, !.health = "good"],
                     [Mapping("m2", <<"z">>, Star) EXCEPT !.service = [s EXCEPT !.scheme = ""],
                                                          !.ns = "ns2", !.cb = "cb", !.timeout = 5],
                     [Mapping("m3", <<"z">>, a) EXCEPT !.service.port = 443, !.tls = "yes",
                                                       !.resolver = r, !.host_rewrite = <<"foo-bar">>]>>,
      !.tls_contexts = <<Context("origin", [ContextFields EXCEPT !.secret = <<"s">>]),
                         Context("ctx", [ContextFields EXCEPT !.secret = <<"none">>])>>,
      !.resolvers = rs, !.endpointRouting = rs # <<>>, !.ambassadorNsForServices = ns = "ns2",
      !.services = <<"k8s", "amb", "svc">> :> {80}] :
    s \in Upstreams, r \in {"", "kubernetes-endpoint", "consul", "nowhere"},
    tls \in {"", "yes", "origin", "ctx"}, ns \in {"amb", "ns2"}, lb \in {"", "rr"},
    rs \in {<<>>, <<[name |-> "endpoint", kind |-> "KubernetesEndpointResolver", datacenter |-> ""],
                    [name |-> "consul-endpoint", kind |-> "ConsulResolver", datacenter |-> "dc2"],
                    [name |-> "broken", kind |-> "ConsulResolver", datacenter |-> ""]>>}}

Auth(name, host, proto) ==
  [name |-> name, ns |-> AmbassadorNamespace, service |-> Service(host, 0), proto |-> proto,
   version |-> "v3", tls |-> "", body |-> "none", prefix |-> "", timeout |-> 0]
RateLimit(name, host, version) ==
  [name |-> name, ns |-> AmbassadorNamespace, service |-> Service(host, 0), version |-> version, tls |-> ""]
Tracing(name, driver) ==
  [name |-> name, ns |-> AmbassadorNamespace, service |-> Service(<<"svc">>, 0), driver |-> driver]
Log(name, version, headers) ==
  [name |-> name, ns |-> AmbassadorNamespace, service |-> Service(<<"other">>, 0), version |-> version,
   headers |-> headers, grpc |-> TRUE]

Guarded ==
  [Base EXCEPT !.probes = <<"diagnostics", "liveness", "readiness">>,
               !.listeners = <<Listener("l", 8080, "HTTP", "XFP"), Listener("t", 6789, "TCP", "SECURE")>>,
               !.tcpmappings = <<TCPMapping("t1", 6789, <<>>, -1)>>]

Lists == {"none", "good", "mixed", "bad"}
ModuleConfigs ==
  {[Guarded EXCEPT !.module = m] :
     m \in [grpc_web : {TRUE}, buffer : {"none", "good", "bad"}, retry : {"none", "bad"},
            ip_allow : Lists, ip_deny : Lists, valid : {TRUE}]
          \cup [grpc_web : {FALSE}, buffer : {"good"}, retry : {"none"},
                ip_allow : {"none"}, ip_deny : {"good"}, valid : {FALSE}]}

AuthPairs ==
  {<<>>} \cup {<<[Auth("a1", h1, p1) EXCEPT !.body = b1]>> :
                h1 \in {<<>>, <<"svc">>}, p1 \in {"", "grpc", "bogus"}, b1 \in {"none", "both"}}
  \cup {<<[Auth("a1", h1, p1) EXCEPT !.prefix = "p"],
          [Auth("a2", h2, p1) EXCEPT !.version = v2, !.prefix = x2, !.ns = "ns2", !.timeout = IF x2 = "q" THEN 0 ELSE 1]>> :
          h1 \in {<<>>, <<"svc">>}, h2 \in {<<>>, <<"svc">>, <<"other">>}, p1 \in {"http", "grpc"},
          v2 \in {"v2", "v3"}, x2 \in {"", "q"}}

AuthConfigs ==
  {[Guarded EXCEPT !.auths = as, !.defaultResolver = r, !.ratelimits = <<RateLimit("r1", <<"svc">>, "v3")>>] :
     as \in AuthPairs, r \in {"kubernetes-service", "endpoint"}}

ServiceConfigs ==
  {[Guarded EXCEPT !.ratelimits = rs, !.tracings = ts, !.logs = ls, !.auths = <<Auth("a1", <<"svc">>, "grpc")>>] :
     rs \in {<<>>, <<RateLimit("r1", <<"svc">>, "v3")>>, <<RateLimit("r1", <<"svc">>, "v2")>>,
             <<RateLimit("r1", <<"svc">>, "v3"), RateLimit("r2", <<"other">>, "v3")>>},
     ts \in {<<>>, <<Tracing("t", "zipkin")>>, <<Tracing("t", "lightstep")>>},
     ls \in {<<>>, <<Log("l1", "v2", "none"), Log("l2", "v3", "good")>>,
             <<Log("l1", "v3", "bad"), Log("l2", "v3", "good"), Log("l3", "v3", "none")>>}}

FilterConfigs == ModuleConfigs \cup AuthConfigs \cup ServiceConfigs

\* Services that have no cluster to be called at: two AuthServices of different
\* protocols, and services that cannot be parsed.
BrokenConfigs ==
  {[Guarded EXCEPT !.auths = <<Auth("a1", <<"svc">>, "http"), Auth("a2", <<"other">>, "grpc")>>],
   [Guarded EXCEPT !.auths = <<Auth("a1", <<"svc">>, "http"), Auth("a2", <<"other">>, "grpc"),
                               Auth("a3", <<"very">>, "grpc")>>],
   [Guarded EXCEPT !.tracings = <<[Tracing("t", "zipkin") EXCEPT !.service = Service(<<>>, 80)]>>],
   [Guarded EXCEPT !.logs = <<[Log("l1", "v3", "good") EXCEPT !.service = Service(<<>>, 80)]>>]}

\* Certificates that are not the Host's: a TLSContext in another namespace than
\* the Host that uses it, and a Secret with a dot in its name.
ForeignConfigs ==
  {[Base EXCEPT
      !.secrets = {SecretS, SecretOther},
      !.tls_contexts = <<[Context("ctx", [ContextFields EXCEPT !.secret = <<"s">>]) EXCEPT !.ns = "ns2"]>>,
      !.hosts = <<[Host("h", a, "") EXCEPT !.secret = <<"s">>, !.tlsContext = "ctx"]>>],
   [Base EXCEPT
      !.secrets = {SecretOther, Secret(<<"s", "ns2">>, "amb")},
      !.hosts = <<[Host("h", a, "") EXCEPT !.secret = <<"s", "ns2">>]>>]}

MCConfigs ==
  PolicyConfigs \cup LooseConfigs \cup PortConfigs \cup CertificateConfigs \cup TLSConfigs \cup TCPConfigs
    \cup GroupConfigs \cup UpstreamConfigs \cup FilterConfigs \cup BrokenConfigs \cup ForeignConfigs

\* A TCP canary at full weight beside a TCPMapping without a weight.
TCPWeightConfigs ==
  {[Base EXCEPT !.listeners = <<Listener("l", 6789, "TCP", "SECURE")>>,
                !.tcpmappings = <<TCPMapping("t1", 6789, <<>>, w), TCPMapping("t2", 6789, <<>>, -1)>>] :
     w \in {-1, 30, 100}}
=============================================================================
