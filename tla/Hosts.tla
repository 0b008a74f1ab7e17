------------------------------- MODULE Hosts -------------------------------
(***************************************************************************)
(* The IR's TLSContexts, Hosts and Listeners: how the objects of one       *)
(* configuration are validated, which TLSContext a Host terminates TLS     *)
(* with, and which Hosts a Listener and a Mapping go with.                 *)
(*                                                                         *)
(* The operators take the configuration c (what the fetcher produced, read *)
(* only) and the IR built so far, and return the IR after the step.  A DNS *)
(* name is a sequence of labels, "*" standing for a wildcard and a last    *)
(* label in PortLabels for ":port"; every operation of the code on such a  *)
(* string is the same operation on the sequence, a label counting as one   *)
(* character.  A Secret's name is a sequence of labels too: the code joins *)
(* and splits it at dots.  <<>> and "" are fields that are not set.        *)
(*                                                                         *)
(* An IRResource is true when it is active and no error was posted on it,  *)
(* which is what "if ctx" and "if extant_host" test.                       *)
(***************************************************************************)
EXTENDS Integers, Sequences, SequencesExt, TLC, Collections

CONSTANTS
  AmbassadorNamespace,   \* the namespace of the installation
  HostnameOrder,         \* the hostnames, in the order Python sorts them
  PortLabels             \* the labels that are a port

Star == <<"*">>

NoSelector == [given |-> FALSE, match |-> <<>>]

IndexOf(seq, x) == CHOOSE i \in DOMAIN seq : seq[i] = x

truthy(r) == r.active /\ ~r.errored

PostError(ir, kind, name) == [ir EXCEPT !.errors = @ \cup {<<kind, name>>}]

-----------------------------------------------------------------------------
(* irutils.py *)

hostglob_matches_start(g1, g2, g2start) ==
  LET g2match == IF g2start THEN Tail(g2) ELSE g2
  IN  IF Len(g1) > Len(g2match)
      THEN g2start /\ IsSuffix(Tail(g2), Tail(g1))
      ELSE IsSuffix(Tail(g1), g2match)

hostglob_matches_end(g1, g2, g2end) ==
  LET g2match == IF g2end THEN Front(g2) ELSE g2
  IN  IF Len(g1) > Len(g2match)
      THEN g2end /\ IsPrefix(Front(g2), Front(g1))
      ELSE IsPrefix(Front(g1), g2match)

hostglob_matches(g1, g2) ==
  LET start(g) == Head(g) = "*"
      end(g) == Last(g) = "*"
  IN  \/ g1 = g2
      \/ g1 = Star
      \/ g2 = Star
      \/ /\ ~(start(g1) /\ end(g1))
         /\ ~(start(g2) /\ end(g2))
         /\ CASE (start(g1) /\ end(g2)) \/ (start(g2) /\ end(g1)) -> TRUE
              [] start(g1) -> hostglob_matches_start(g1, g2, start(g2))
              [] start(g2) -> hostglob_matches_start(g2, g1, start(g1))
              [] end(g1) -> hostglob_matches_end(g1, g2, end(g2))
              [] end(g2) -> hostglob_matches_end(g2, g1, end(g1))
              [] OTHER -> FALSE

\* c.loose: DISABLE_STRICT_LABEL_SELECTORS, one matching label is enough.
selector_matches(c, match, labels) ==
  LET hit(k) == k \in DOMAIN labels /\ labels[k] = match[k]
  IN  \/ DOMAIN match = {}
      \/ c.loose /\ \E k \in DOMAIN match : hit(k)
      \/ ~c.loose /\ \A k \in DOMAIN match : hit(k)

-----------------------------------------------------------------------------
(* Secrets.  c.secrets is the set of Secrets handed over by the fetcher.   *)

SavedSecret(name, ns, s) ==
  [name |-> name, ns |-> ns, crt |-> s.crt, key |-> s.key, user |-> s.user]

NoSecret == [crt |-> FALSE, key |-> FALSE, user |-> FALSE]

\* A SavedSecret is true when it has a public half.
usable(ss) == ss.crt \/ ss.user

\* The Secrets with a public half, by <name>.<namespace>.
secret_info(c, key) ==
  {s \in c.secrets : Append(s.name, s.ns) = key /\ (s.crt \/ s.user)}

resolve_secret(c, ir, name, ns) ==
  LET key == Append(name, ns)
      info == secret_info(c, key)
  IN  IF key \in DOMAIN ir.saved /\ usable(ir.saved[key]) THEN ir.saved[key]
      ELSE IF info = {} THEN SavedSecret(name, ns, NoSecret)
      ELSE LET s == CHOOSE s \in info : TRUE IN SavedSecret(s.name, s.ns, s)

\* What resolve_secret leaves behind: the Secret it loaded, saved under the
\* bare name, where it looks for <name>.<namespace>.
SaveSecret(c, ir, name, ns) ==
  LET key == Append(name, ns)
      ss == resolve_secret(c, ir, name, ns)
  IN  IF \/ key \in DOMAIN ir.saved /\ usable(ir.saved[key])
         \/ secret_info(c, key) = {}
      THEN ir
      ELSE [ir EXCEPT !.saved = Put(@, name, ss)]

-----------------------------------------------------------------------------
(* TLSContexts.  Every context created is an object of ir.ctxs, and a      *)
(* Host refers to its context by its place there; ir.tls_contexts are the  *)
(* contexts the IR knows, in the order they were saved.                    *)

ContextFields ==
  [hosts |-> <<>>, secret |-> <<>>, namespaced |-> FALSE, files |-> "none",
   ca |-> <<>>, crl |-> <<>>, rcf |-> 0, alpn |-> FALSE]

\* IRTLSContext.setup: cert_chain_file needs private_key_file, and goes with
\* no secret.  files is "none", "chain" (no private key) or "both".
setup_context(name, ns, a) ==
  LET bad == a.files = "chain" \/ (a.files # "none" /\ a.secret # <<>>)
  IN  Over(a, [name |-> name, ns |-> ns, active |-> ~bad, errored |-> bad,
               cert |-> IF a.files = "both" THEN <<name>> ELSE <<>>,
               cacert |-> <<>>, enabled |-> FALSE])

get_tls_context(ir, name) ==
  LET found == {i \in Range(ir.tls_contexts) : ir.ctxs[i].name = name}
  IN  IF found = {} THEN 0 ELSE CHOOSE i \in found : TRUE

has_tls_context(ir, name) ==
  LET i == get_tls_context(ir, name) IN i # 0 /\ truthy(ir.ctxs[i])

save_tls_context(ir, i) ==
  LET ctx == ir.ctxs[i]
      extant == get_tls_context(ir, ctx.name)
      duplicate == has_tls_context(ir, ctx.name)
      conflict == ctx.rcf # 0 /\ ir.rcf \notin {0, ctx.rcf}
      saved == IF extant = 0 THEN Append(ir.tls_contexts, i)
               ELSE [k \in DOMAIN ir.tls_contexts |->
                       IF ir.tls_contexts[k] = extant THEN i ELSE ir.tls_contexts[k]]
  IN  [ir EXCEPT
         !.rcf = IF @ = 0 THEN ctx.rcf ELSE @,
         !.errors = @ \cup IF duplicate \/ conflict
                           THEN {<<"ir", ctx.name>>} ELSE {},
         !.tls_contexts = IF duplicate \/ conflict THEN @ ELSE saved]

AddContext(ir, ctx) ==
  [ir EXCEPT !.ctxs = Append(@, ctx),
             !.errors = @ \cup IF ctx.errored THEN {<<"TLSContext", ctx.name>>}
                               ELSE {}]

\* Create a context and, if it is good, save it.
LoadContext(ir, ctx) ==
  LET new == AddContext(ir, ctx)
  IN  IF ctx.active THEN save_tls_context(new, Len(new.ctxs)) ELSE new

\* The context that the tls Module's "server" section stands for.
from_legacy(m) ==
  LET own == IF m.secret = <<>> /\ m.files = "none" THEN <<"ambassador-certs">>
             ELSE m.secret
  IN  [ContextFields EXCEPT
         !.hosts = <<Star>>,
         !.files = m.files,
         !.ca = m.ca,
         !.secret = IF m.client /\ m.ca = <<>> THEN <<"ambassador-cacert">> ELSE own]

\* TLSModuleFactory.load_all, and one turn of TLSContextFactory.load_all.
load_tls_module(c, ir) ==
  IF ~c.tls_module.enabled THEN ir
  ELSE LoadContext(ir, setup_context("server", AmbassadorNamespace,
                                     from_legacy(c.tls_module)))

load_tls_context(ir, t) == LoadContext(ir, setup_context(t.name, t.ns, t.spec))

\* IRTLSContext.null_context: origination without a certificate.
null_context(ir) ==
  IF get_tls_context(ir, "no-cert-upstream") # 0 THEN ir
  ELSE LoadContext(ir, [setup_context("no-cert-upstream", AmbassadorNamespace,
                                      ContextFields) EXCEPT !.enabled = TRUE])

\* IRTLSContext.resolve_secret: a dotted name is <name>.<namespace>, unless
\* the Module turns that off and the Host did not ask for it.
split_secret(c, ctx, name) ==
  IF Len(name) > 1 /\ (ctx.namespaced \/ c.namespacing)
  THEN [name |-> Front(name), ns |-> Last(name)]
  ELSE [name |-> name, ns |-> ctx.ns]

\* IRTLSContext.resolve: what becomes of the context.  A context that stays
\* but had an error posted on it is not true any more.
resolve_context(c, ir, ctx) ==
  LET at(name) == LET p == split_secret(c, ctx, name)
                  IN  resolve_secret(c, ir, p.name, p.ns)
      id(ss) == Append(ss.name, ss.ns)
      ss == at(ctx.secret)
      named == ctx.secret # <<>>
      keyless == named /\ usable(ss) /\ ~ss.key
      cert == IF named /\ usable(ss) THEN id(ss) ELSE ctx.cert
      badSecret == \/ named /\ ~usable(ss)
                   \/ ctx.crl # <<>> /\ ~usable(at(ctx.crl))
      badCA == ctx.ca # <<>> /\ ~usable(at(ctx.ca))
      caOnly == ctx.ca # <<>> /\ cert = <<>>
      empty == ~named /\ ctx.files = "none" /\ ctx.ca = <<>> /\ ctx.crl = <<>>
      missing == cert = <<>> /\ ctx.hosts # <<>>
      valid == IF keyless \/ caOnly THEN FALSE
               ELSE IF badSecret \/ badCA THEN ctx.rcf # 0 \/ ctx.alpn
               ELSE ~missing
  IN  IF ctx.enabled THEN ctx
      ELSE [ctx EXCEPT
              !.active = valid,
              !.errored = @ \/ ~valid \/ empty \/ badSecret \/ badCA,
              !.secret = IF named /\ ~usable(ss) THEN <<>> ELSE @,
              !.cert = cert,
              !.cacert = IF ctx.ca = <<>> \/ ~valid THEN @ ELSE id(at(ctx.ca))]

\* IRAmbassador.finalize: resolve the contexts the IR knows, one after the
\* other, with the Secrets they name, and drop the bad.
resolve_tls_context(c, ir, i) ==
  LET ctx == resolve_context(c, ir, ir.ctxs[i])
      save(at, key) == LET p == split_secret(c, ctx, key)
                       IN  IF key = <<>> THEN at ELSE SaveSecret(c, at, p.name, p.ns)
      saved == save(save(save(ir, ir.ctxs[i].secret), ir.ctxs[i].ca), ir.ctxs[i].crl)
  IN  [saved EXCEPT !.ctxs[i] = ctx,
                    !.errors = @ \cup IF ctx.errored THEN {<<"TLSContext", ctx.name>>} ELSE {}]

drop_tls_contexts(ir) ==
  [ir EXCEPT !.tls_contexts = Filter(@, LAMBDA i : ir.ctxs[i].active)]

-----------------------------------------------------------------------------
(* Hosts *)

(* Mutant: an existing TLSContext is used whatever Secret it names. *)
save_context_AnySecret(c, ir0, host, name, ss, full) ==
  LET i == get_tls_context(ir0, name)
      ctx == ir0.ctxs[i]
      ir == IF ctx.secret = <<>> THEN [ir0 EXCEPT !.ctxs[i].secret = full]
            ELSE SaveSecret(c, ir0, ctx.secret, host.ns)
      stranger == ctx.hosts # <<>> /\ {host.hostname, <<host.name>>} \cap Range(ctx.hosts) = {}
      refuse(at) == [host |-> [host EXCEPT !.active = FALSE, !.errored = TRUE],
                     ir |-> PostError(at, "Host", host.name)]
  IN  IF ~has_tls_context(ir0, name) THEN refuse(ir0)
      ELSE [host |-> [host EXCEPT !.context = i, !.errored = @ \/ stranger],
            ir |-> IF stranger THEN PostError(ir, "Host", host.name)
                   ELSE IF ctx.hosts = <<>>
                   THEN [ir EXCEPT !.ctxs[i].hosts = <<host.hostname>>]
                   ELSE ir]

\* IRHost.save_context: use an existing TLSContext, provided that it names
\* the same Secret.  Hosts that do not agree are reported and nothing else.
save_context(c, ir0, host, name, ss, full) ==
  LET i == get_tls_context(ir0, name)
      ctx == ir0.ctxs[i]
      own == resolve_secret(c, ir0, ctx.secret, host.ns)
      ir == IF ctx.secret = <<>> THEN [ir0 EXCEPT !.ctxs[i].secret = full]
            ELSE SaveSecret(c, ir0, ctx.secret, host.ns)
      stranger == ctx.hosts # <<>> /\ {host.hostname, <<host.name>>} \cap Range(ctx.hosts) = {}
      refuse(at) == [host |-> [host EXCEPT !.active = FALSE, !.errored = TRUE],
                     ir |-> PostError(at, "Host", host.name)]
  IN  IF ~has_tls_context(ir0, name) THEN refuse(ir0)
      ELSE IF ctx.secret # <<>> /\ own # ss THEN refuse(ir)
      ELSE [host |-> [host EXCEPT !.context = i, !.errored = @ \/ stranger],
            ir |-> IF stranger THEN PostError(ir, "Host", host.name)
                   ELSE IF ctx.hosts = <<>>
                   THEN [ir EXCEPT !.ctxs[i].hosts = <<host.hostname>>]
                   ELSE ir]

\* A context of the Host's own, named after it.
OwnContext(ir, host, name, full, files) ==
  LET ctx == setup_context(name, host.ns,
               [ContextFields EXCEPT !.hosts = <<host.hostname>>, !.secret = full,
                                     !.namespaced = host.secretNs # "",
                                     !.files = files])
      new == LoadContext(ir, ctx)
  IN  [host |-> [host EXCEPT !.context = IF ctx.active THEN Len(new.ctxs) ELSE 0],
       ir |-> new]

\* The TLS half of IRHost.setup.  spec.tls is "" (not set), "good", "files"
\* (names a certificate file beside the Secret) or "version" (a TLS version
\* that does not exist).
setup_tls(c, ir0, host) ==
  LET ns == IF host.secretNs # "" THEN host.secretNs ELSE host.ns
      full == IF host.secretNs # "" THEN Append(host.secret, host.secretNs)
              ELSE host.secret
      ss == resolve_secret(c, ir0, host.secret, ns)
      ir == SaveSecret(c, ir0, host.secret, ns)
      implicit == host.name \o "-context"
      refused == [host EXCEPT !.active = FALSE, !.errored = TRUE]
      refuse(at) == [host |-> refused, ir |-> PostError(at, "Host", host.name)]
  IN  CASE host.secret = <<>> -> [host |-> host, ir |-> ir0]
        [] host.secret # <<>> /\ ~usable(ss) ->
             [host |-> [host EXCEPT !.active = FALSE], ir |-> ir]
        [] OTHER ->
           CASE host.tlsContext # "" /\ host.tls # "" -> refuse(ir)
             [] host.tlsContext # "" /\ host.tls = "" ->
                  save_context(c, ir, host, host.tlsContext, ss, full)
             [] host.tlsContext = "" /\ host.tls = "version" -> refuse(ir)
             [] host.tlsContext = "" /\ host.tls \in {"good", "files"} ->
                  LET own == OwnContext(ir, host, implicit, full,
                               IF host.tls = "files" THEN "both" ELSE "none")
                  IN  IF own.host.context = 0 THEN refuse(own.ir) ELSE own
             [] OTHER ->
                  IF has_tls_context(ir, implicit)
                  THEN save_context(c, ir, host, implicit, ss, full)
                  ELSE OwnContext(ir, host, implicit, full, "none")

\* ... and the Secret of its ACME account's key, if it is still active.
setup_acme(c, done, h) ==
  LET asked == done.host.active /\ h.acme # <<>>
      bad == asked /\ ~usable(resolve_secret(c, done.ir, h.acme, h.ns))
      ir == IF asked THEN SaveSecret(c, done.ir, h.acme, h.ns) ELSE done.ir
  IN  [host |-> [done.host EXCEPT !.errored = @ \/ bad],
       ir |-> IF bad THEN PostError(ir, "Host", h.name) ELSE ir]

\* IRHost.__init__ and setup.
setup_host(c, ir, h) ==
  LET name == IF h.hostname = <<>> THEN Star ELSE h.hostname
      host == Over([h EXCEPT !.hostname = name,
                             !.insecure = IF @ = "" THEN "Redirect" ELSE @],
                   [sni |-> IF Last(name) \in PortLabels THEN Front(name) ELSE name,
                    context |-> 0, active |-> TRUE, errored |-> FALSE])
  IN  setup_acme(c, setup_tls(c, ir, host), h)

save_host(ir, host) ==
  LET extant == {k \in DOMAIN ir.hosts : ir.hosts[k].name = host.name}
  IN  CASE extant = {} -> [ir EXCEPT !.hosts = Append(@, host)]
        [] \E k \in extant : truthy(ir.hosts[k]) -> PostError(ir, "ir", host.name)
        [] OTHER -> [ir EXCEPT !.hosts[CHOOSE k \in extant : TRUE] = host]

\* One iteration of HostFactory.load_all.
load_host(c, ir, h) ==
  LET save(made) == IF made.host.active THEN save_host(made.ir, made.host) ELSE made.ir
  IN  save(setup_host(c, ir, h))

HostDefaults ==
  [name |-> "", ns |-> AmbassadorNamespace, hostname |-> <<>>, insecure |-> "",
   selector |-> NoSelector, labels |-> <<>>, secret |-> <<>>, secretNs |-> "",
   tlsContext |-> "", tls |-> "", acme |-> <<>>]

DefaultHost == [HostDefaults EXCEPT !.name = "default-host"]

\* HostFactory.finalize: with no Host at all, serve everything in the clear,
\* or with the fallback certificate if there is one.
finalize_hosts(c, ir0) ==
  LET terminating == \E i \in Range(ir0.tls_contexts) : ir0.ctxs[i].hosts # <<>>
      ir == IF terminating THEN PostError(ir0, "ir", "hosts") ELSE ir0
      fallback == <<"fallback-self-signed-cert">>
      ss == resolve_secret(c, ir, fallback, AmbassadorNamespace)
      default == [DefaultHost EXCEPT !.secret = IF usable(ss) THEN fallback ELSE @,
                                     !.insecure = IF usable(ss) THEN @ ELSE "Route"]
  IN  IF ir0.hosts # <<>> THEN ir0
      ELSE load_host(c, SaveSecret(c, ir, fallback, AmbassadorNamespace), default)

\* IR.get_hosts, sorted by hostname the way Python sorts (stable).
sorted_hosts(ir) ==
  LET at(i) == IndexOf(HostnameOrder, ir.hosts[i].hostname)
  IN  Arrange(ir.hosts, LAMBDA i, j : at(i) < at(j) \/ (at(i) = at(j) /\ i < j))

\* The context of a Host, as "if host.context" tests it.
has_context(ir, host) == host.context # 0 /\ truthy(ir.ctxs[host.context])

\* IRHost.matches_httpgroup: which Hosts a group of Mappings goes with.
matches_httpgroup(c, host, group) ==
  LET glob == IF group.host # <<>> THEN group.host ELSE group.redirectHost
      has_hostname == group.regex \/ glob # <<>>
      host_match == group.regex
                    \/ (glob # <<>> /\ hostglob_matches(host.hostname, glob))
      sel_match == host.selector.given
                   /\ selector_matches(c, host.selector.match, group.labels)
  IN  \/ group.internal
      \/ /\ ~group.internal
         /\ CASE c.loose -> host_match \/ sel_match
              [] ~c.loose /\ host.selector.given /\ has_hostname -> host_match /\ sel_match
              [] ~c.loose /\ host.selector.given /\ ~has_hostname -> sel_match
              [] ~c.loose /\ ~host.selector.given -> has_hostname /\ host_match

-----------------------------------------------------------------------------
(* Listeners *)

ProtocolStacks ==
  [HTTP |-> <<"HTTP", "TCP">>, HTTPS |-> <<"TLS", "HTTP", "TCP">>,
   HTTPPROXY |-> <<"PROXY", "HTTP", "TCP">>, HTTPSPROXY |-> <<"TLS", "PROXY", "HTTP", "TCP">>,
   TCP |-> <<"TCP">>, TLS |-> <<"TLS", "TCP">>]

\* IRListener.setup; the listener is good when active.  matchLabels: the
\* selector is one of labels, the only kind there is.
setup_listener(l) ==
  LET stack == IF l.protocolStack # <<>> THEN l.protocolStack
               ELSE IF l.protocol \in DOMAIN ProtocolStacks
               THEN ProtocolStacks[l.protocol] ELSE <<>>
      udp == stack # <<>> /\ Last(stack) = "UDP"
      http == "HTTP" \in Range(stack)
      bound == l.from # "" \/ l.selector.given
  IN  [name |-> l.name, ns |-> l.ns, port |-> l.port, protocolStack |-> stack,
       securityModel |-> l.securityModel, udp |-> udp, http3 |-> udp,
       namespace_literal |-> IF l.from = "ALL" THEN "*" ELSE l.ns,
       host_selector |-> l.selector.match,
       errored |-> (l.protocolStack # <<>> /\ l.protocol # "") \/ l.from = "SELECTOR",
       active |-> /\ stack # <<>> /\ Last(stack) \in {"TCP", "UDP"}
                  /\ udp => http
                  /\ l.securityModel # "" /\ bound
                  /\ l.selector.given => l.matchLabels]

bind_to(l) == <<IF l.udp THEN "udp" ELSE "tcp", l.port>>

save_listener(ir, l) ==
  IF \E k \in DOMAIN ir.listeners : bind_to(ir.listeners[k]) = bind_to(l)
  THEN PostError(ir, "ir", l.name)
  ELSE [ir EXCEPT !.listeners = Append(@, l)]

load_listener(ir, config) ==
  LET l == setup_listener(config)
      ir1 == IF l.errored \/ ~l.active THEN PostError(ir, "Listener", l.name) ELSE ir
  IN  IF l.active THEN save_listener(ir1, l) ELSE ir1

\* IR.__init__, after ListenerFactory.load_all: a TCP Listener that shares its
\* port with an HTTP/3 one advertises HTTP/3.
advertise_http3(ir) ==
  LET udp == {l.port : l \in {x \in Range(ir.listeners) : x.udp}}
  IN  [ir EXCEPT !.listeners =
         [k \in DOMAIN @ |-> [@[k] EXCEPT !.http3 = @ \/ ir.listeners[k].port \in udp]]]

matches_host(c, l, host) ==
  /\ l.namespace_literal \in {"*", host.ns}
  /\ selector_matches(c, l.host_selector, host.labels)

\* ListenerFactory.finalize, one turn: a Listener for a TCPMapping's port that
\* has none.
synthesize_listener(ir, g) ==
  IF \E k \in DOMAIN ir.listeners : bind_to(ir.listeners[k]) = <<"tcp", g.port>>
  THEN ir
  ELSE load_listener(ir, [name |-> "listener-" \o ToString(g.port),
                          ns |-> AmbassadorNamespace, port |-> g.port,
                          protocol |-> IF g.host # <<>> THEN "TLS" ELSE "TCP",
                          protocolStack |-> <<>>, securityModel |-> "SECURE",
                          from |-> "SELF", selector |-> NoSelector, matchLabels |-> TRUE])
=============================================================================
