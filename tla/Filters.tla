------------------------------ MODULE Filters -------------------------------
(***************************************************************************)
(* The HTTP filters of the IR and the services behind them: the filters of *)
(* the ambassador Module, AuthServices, a RateLimitService, a              *)
(* TracingService and LogServices, with the clusters they need.            *)
(*                                                                         *)
(* Operators over the configuration c and the IR, like those of Hosts.  A  *)
(* service object in the IR is a record of its role, the object it came    *)
(* from and the hosts it is served by; the hosts of AuthServices are       *)
(* merged into one cluster.                                                *)
(***************************************************************************)
EXTENDS Mappings

NoModule ==
  [grpc_web |-> FALSE, buffer |-> "none", retry |-> "none", ip_allow |-> "none",
   ip_deny |-> "none", valid |-> TRUE]

-----------------------------------------------------------------------------
(* The filters of the ambassador Module *)

\* IRIPAllowDeny.setup: a list with a principal that can be used is active.
ip_active(list) == list \in {"good", "mixed"}

(* Mutant: the list of denied addresses is used only beside one of allowed. *)
ip_allow_deny_And(m) ==
  IF ip_active(m.ip_allow) /\ ip_active(m.ip_deny) THEN <<"ip_allow_deny">> ELSE <<>>

\* handle_ip_allow_deny, for both lists.
ip_allow_deny(m) ==
  IF ip_active(m.ip_allow) \/ ip_active(m.ip_deny) THEN <<"ip_allow_deny">> ELSE <<>>

ip_errors(m) ==
  IF \/ m.ip_allow \in {"mixed", "bad"}
     \/ ip_active(m.ip_allow) /\ m.ip_deny # "none"
     \/ ~ip_active(m.ip_allow) /\ m.ip_deny \in {"mixed", "bad"}
  THEN {<<"Module", "ambassador">>} ELSE {}

\* IRAmbassador.finalize, after the contexts.  A buffer without a size or a
\* retry policy that is none ends it before the IP lists are looked at.
finalize_module(c, ir) ==
  LET m == c.module
      early == (IF m.grpc_web THEN <<"grpc_web">> ELSE <<>>)
               \o (IF m.buffer = "good" THEN <<"buffer">> ELSE <<>>)
      stop == IF m.buffer = "bad" THEN {<<"IRBuffer", "ir.buffer">>}
              ELSE IF m.retry = "bad" THEN {<<"IRRetryPolicy", "ir.retrypolicy">>} ELSE {}
      late == ip_errors(m) \cup IF m.valid THEN {} ELSE {<<"Module", "ambassador">>}
  IN  IF stop # {} THEN [ir EXCEPT !.filters = @ \o early, !.errors = @ \cup stop]
      ELSE [ir EXCEPT !.filters = @ \o early \o ip_allow_deny(m), !.errors = @ \cup late]

-----------------------------------------------------------------------------
(* Services *)

\* A service object, served by the hosts [service, grpc, tls].
ServiceObject(role, source, ns, hosts) ==
  [role |-> role, source |-> source, ns |-> ns, hosts |-> hosts, cluster |-> <<>>, broken |-> FALSE]

\* IRAuth._load_auth: where AuthServices disagree the last one wins, though
\* the error is about it.  Errors of any are the first one's.
load_auth(acc, a) ==
  LET source == IF acc.auth.source = "" THEN a.name ELSE acc.auth.source
      proto == IF a.proto = "" THEN "http" ELSE a.proto
      conflict == \/ a.proto # "" /\ acc.proto \notin {"", a.proto}
                  \/ a.prefix # "" /\ acc.prefix \notin {"", a.prefix}
                  \/ a.timeout # 0 /\ acc.timeout \notin {0, a.timeout}
      wrong == \/ proto \notin {"http", "grpc"}
               \/ proto = "grpc" /\ a.version # "v3"
               \/ a.body = "both"
      host == [service |-> a.service, grpc |-> proto = "grpc", tls |-> a.tls]
      at == {k \in DOMAIN acc.auth.hosts : acc.auth.hosts[k].service = a.service}
      hosts == IF a.service = NoService THEN acc.auth.hosts
               ELSE IF at = {} THEN Append(acc.auth.hosts, host)
               ELSE [acc.auth.hosts EXCEPT ![CHOOSE k \in at : TRUE] = host]
  IN  [auth |-> ServiceObject("auth", source, a.ns, hosts), proto |-> proto,
       prefix |-> IF acc.prefix = "" THEN a.prefix ELSE acc.prefix,
       timeout |-> IF a.timeout = 0 THEN 5000 ELSE a.timeout,
       errors |-> acc.errors \cup (IF conflict THEN {<<"AuthService", a.name>>} ELSE {})
                             \cup (IF wrong THEN {<<"AuthService", source>>} ELSE {})]

NoAuth == [auth |-> ServiceObject("auth", "", AmbassadorNamespace, <<>>),
           proto |-> "", prefix |-> "", timeout |-> 0, errors |-> {}]

\* IRAuth.setup: without a host there is no filter, and nobody is told.
setup_auth(c, ir) ==
  LET loaded == Loop(load_auth, NoAuth, c.auths)
      active == loaded.auth.hosts # <<>>
  IN  [ir EXCEPT !.services = IF active THEN Append(@, loaded.auth) ELSE @,
                 !.filters = IF active THEN Append(@, "extauth") ELSE @,
                 !.errors = @ \cup loaded.errors]

\* IRRateLimit.setup: one RateLimitService, with a service and version 3.
setup_ratelimit(c, ir) ==
  LET rl == c.ratelimits[1]
      good == Len(c.ratelimits) = 1 /\ rl.service # NoService /\ rl.version = "v3"
      object == ServiceObject("ratelimit", rl.name, rl.ns,
                              <<[service |-> rl.service, grpc |-> TRUE, tls |-> rl.tls]>>)
  IN  CASE c.ratelimits = <<>> -> ir
        [] c.ratelimits # <<>> /\ good -> [ir EXCEPT !.services = Append(@, object)]
        [] c.ratelimits # <<>> /\ ~good -> PostError(ir, "ir.ratelimit", "ir.ratelimit")

\* IRTracing.setup: one TracingService, with a service and a known driver.
setup_tracing(c, ir) ==
  LET t == c.tracings[1]
      good == Len(c.tracings) = 1 /\ t.service # NoService /\ t.driver \notin {"", "lightstep", "bad"}
      object == ServiceObject("tracing", t.name, t.ns,
                  <<[service |-> t.service, grpc |-> t.driver = "opentelemetry", tls |-> ""]>>)
  IN  CASE c.tracings = <<>> -> ir
        [] c.tracings # <<>> /\ good -> [ir EXCEPT !.services = Append(@, object)]
        [] c.tracings # <<>> /\ ~good -> PostError(ir, "ir.tracing", "ir.tracing")

\* IRLogServiceFactory.load_all, one turn: all LogServices have one name,
\* "logservice", so that of several the first that is good is used.
load_log_service(ir, l) ==
  LET good == l.service # NoService /\ l.version = "v3" /\ l.headers # "bad"
      object == ServiceObject("log", l.name, l.ns, <<[service |-> l.service, grpc |-> l.grpc, tls |-> ""]>>)
      checked == IF good THEN ir ELSE PostError(ir, "ir.logservice", "ir.logservice")
  IN  IF \E s \in Range(ir.services) : s.role = "log" THEN PostError(checked, "ir", "logservice")
      ELSE IF good THEN [ir EXCEPT !.services = Append(@, object)] ELSE checked

\* The filters of IR.__init__, in their order; the tracing, rate limit and log
\* services are there already.
save_filters(c, ir) ==
  LET authed == setup_auth(c, [ir EXCEPT !.filters = Append(@, "cors")])
      limited == \E s \in Range(authed.services) : s.role = "ratelimit"
  IN  [authed EXCEPT !.filters = @ \o (IF limited THEN <<"ratelimit">> ELSE <<>>) \o <<"router">>]

-----------------------------------------------------------------------------
(* Clusters of services *)

Marker == [auth |-> "extauth", ratelimit |-> "", tracing |-> "tracing", log |-> "logging"]

ServiceCluster(c, ir, s, host) ==
  IRCluster(c, ir,
            [MappingDefaults EXCEPT !.name = s.source, !.service = host.service, !.ns = s.ns,
                                    !.tls = host.tls, !.grpc = host.grpc,
                                    !.resolver = c.defaultResolver,
                                    !.cb = IF s.role = "auth" THEN c.defaultCb ELSE ""],
            Marker[s.role])

\* IRCluster.merge
mergeable(x, y) == x.ctx = y.ctx /\ x.grpc = y.grpc

\* One host of a service object.  A cluster that refuses to be merged is in
\* error from then on, and the next takes its place.
NoCluster == [kept |-> <<>>, broken |-> FALSE, good |-> FALSE, errors |-> {}]

merge_cluster(source, acc, x) ==
  IF acc.kept = <<>> \/ acc.broken
  THEN [kept |-> x, broken |-> x.ignored, good |-> TRUE, errors |-> acc.errors]
  ELSE IF mergeable(acc.kept, x)
  THEN [acc EXCEPT !.kept.merged = Append(@, <<x.host, x.port>>), !.good = TRUE]
  ELSE [acc EXCEPT !.broken = TRUE, !.good = FALSE,
                   !.errors = {<<"AuthService", source>>, <<"Cluster", acc.kept.host>>}]

\* add_mappings of IRAuth, IRRateLimit, IRTracing and IRLogService.  broken:
\* the object is left with a cluster in error.
add_service(c, ir, k) ==
  LET s == ir.services[k]
      all == [i \in DOMAIN s.hosts |-> ServiceCluster(c, ir, s, s.hosts[i])]
      done == Loop(LAMBDA acc, x : merge_cluster(s.source, acc, x), NoCluster, all)
      made == Loop(note_cluster, [ir EXCEPT !.errors = @ \cup done.errors], all)
      added == IF done.good THEN add_cluster(made, done.kept) ELSE made
  IN  [added EXCEPT !.services[k].cluster = done.kept.name, !.services[k].broken = done.broken]

\* The object of a role; the ones that have a cluster in error stop the
\* compiler when the cluster is asserted to be there.
ServicesOf(ir, role) == Filter(ir.services, LAMBDA s : s.role = role)

asserts_fail(ir, roles) == \E s \in Range(ir.services) : s.role \in roles /\ s.broken

-----------------------------------------------------------------------------
(* Envoy's filters *)

envoy_name(ir, name) ==
  ir.clusters[CHOOSE k \in DOMAIN ir.clusters : ir.clusters[k].name = name].envoy_name

(* Mutant: an AuthService in error does not get in anybody's way. *)
V3HTTPFilter_auth_Open(ir, auth) ==
  IF <<"AuthService", auth.source>> \in ir.errors THEN [name |-> "cors", cluster |-> <<>>]
  ELSE [name |-> "ext_authz", cluster |-> envoy_name(ir, auth.cluster)]

\* An AuthService in error fails closed: every request is answered 500.
V3HTTPFilter_auth(ir, auth) ==
  IF <<"AuthService", auth.source>> \in ir.errors THEN [name |-> "deny", cluster |-> <<>>]
  ELSE [name |-> "ext_authz", cluster |-> envoy_name(ir, auth.cluster)]

V3HTTPFilter(ir, f) ==
  CASE f = "extauth" -> V3HTTPFilter_auth(ir, ServicesOf(ir, "auth")[1])
    [] f = "ratelimit" -> [name |-> f, cluster |-> envoy_name(ir, ServicesOf(ir, "ratelimit")[1].cluster)]
    [] f \notin {"extauth", "ratelimit"} -> [name |-> f, cluster |-> <<>>]

\* base_http_config: the filters, the access logs and the tracer.
base_http_config(ir) ==
  LET clusters(role) == [k \in DOMAIN ServicesOf(ir, role) |-> envoy_name(ir, ServicesOf(ir, role)[k].cluster)]
  IN  [filters |-> [k \in DOMAIN ir.filters |-> V3HTTPFilter(ir, ir.filters[k])],
       access_log |-> clusters("log"), tracing |-> clusters("tracing")]
=============================================================================
