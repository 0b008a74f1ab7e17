---------------------------- MODULE Reconfigure ----------------------------
(***************************************************************************)
(* diagd's event watcher: how a snapshot and its deltas become the IR and  *)
(* the Envoy configuration, incrementally, with a cache of what earlier    *)
(* snapshots compiled.                                                     *)
(*                                                                         *)
(* What matters of a Mapping is the group it belongs to, the name of its   *)
(* cluster, and one parameter of the cluster that its name does not show   *)
(* (dns_type, say).  "Module" stands for the resources whose defaults are  *)
(* copied into Mappings, groups and clusters.  A cached object is a record *)
(* under its cache key; a group names its Mappings, which are the objects  *)
(* the cache holds, because a Mapping leaves the cache with its group.     *)
(* The Mappings of a group have labels of their own or they have none, and *)
(* all that matters of labels is how often the Module's default labels     *)
(* were prepended to them.  All Mappings are active and none has           *)
(* host_redirect or shadow; the mangling of long cluster names is left     *)
(* out.                                                                    *)
(***************************************************************************)
EXTENDS Integers, Sequences, FiniteSets

CONSTANTS Order,      \* the Mappings' names, in the order of the aconf
          SpecsOf,    \* name -> set of [group, cluster, par]
          Absent,     \* the spec of a Mapping that does not exist
          Labelled,   \* the groups whose Mappings have labels of their own
          MaxModule,  \* bound: versions of the Module are 0 .. MaxModule
          DefaultsAt, \* the versions of the Module that have default labels
          MaxBatch,   \* bound: deltas of one snapshot
          MaxMissed,  \* bound: deltas that failures keep from the cache
          MaxFailures, \* bound: snapshots that fail
          MaxPrepended \* bound: times of prepending are counted up to here

Names == {Order[i] : i \in DOMAIN Order}

ASSUME OrderAssumption ==
         Order \in Seq(Names) /\ \A i, j \in DOMAIN Order : Order[i] = Order[j] => i = j
ASSUME ModuleAssumption == MaxModule \in Nat /\ "Module" \notin Names
ASSUME PrependedAssumption == MaxPrepended \in Nat \ {0}
ASSUME AbsentAssumption == \A m \in Names : Absent \notin SpecsOf[m]

VARIABLES
  aconf,    \* the cluster: [config, module], what the next snapshot holds
  deltas,   \* the deltas the next snapshot holds
  memo,     \* app.cache: [cache |-> key -> object, links |-> pairs of keys]
  missed,   \* history: deltas the cache has not followed since it was empty
  disputed, \* history: clusters that Mappings disagreed on since it was empty
  stamped,  \* history: labelled groups that got default labels since then
  failures  \* bounded: how many snapshots have failed

vars == <<aconf, deltas, memo, missed, disputed, stamped, failures>>

-----------------------------------------------------------------------------
MapKey(m)      == <<"Mapping", m>>
GroupKey(g)    == <<"Group", g>>
ClusterKey(c)  == <<"Cluster", c>>
V3Key(c)       == <<"V3", c>>
RouteKey(g, m) == <<"Route", g, m>>

AllSpecs == UNION {SpecsOf[m] : m \in Names}
Groups   == {x.group : x \in AllSpecs}
Clusters == {x.cluster : x \in AllSpecs}
Keys     == {MapKey(m) : m \in Names} \cup {GroupKey(g) : g \in Groups}
            \cup {ClusterKey(c) : c \in Clusters} \cup {V3Key(c) : c \in Clusters}
            \cup {RouteKey(g, m) : g \in Groups, m \in Names}

NoKey   == "no cluster_key"
Nothing == [cache |-> [k \in {} |-> 0], links |-> {}]

(* A function that is f where f is defined and g elsewhere. *)
Over(f, g) == [k \in DOMAIN f \cup DOMAIN g |-> IF k \in DOMAIN f THEN f[k] ELSE g[k]]

Elements(q) == {q[i] : i \in DOMAIN q}
Position(q, x) == CHOOSE i \in DOMAIN q : q[i] = x

(* The Mappings of a set in the order of the aconf: the i-th is the one     *)
(* that i of them, itself included, do not come after.                      *)
InOrder(ms) ==
  [i \in 1 .. Cardinality(ms) |->
     CHOOSE m \in ms :
       Cardinality({n \in ms : Position(Order, n) <= Position(Order, m)}) = i]

-----------------------------------------------------------------------------
(* Cache.invalidate: the keys and all they own, as far as they are cached.  *)
(* The longest chain is Mapping, Group, Cluster, V3 Cluster.                *)
Owned(t, ks) == ks \cup {k \in DOMAIN t.cache : \E o \in ks : <<o, k>> \in t.links}

invalidate(t, ks) ==
  LET dead == Owned(t, Owned(t, Owned(t, ks \cap DOMAIN t.cache)))
  IN  [cache |-> [k \in DOMAIN t.cache \ dead |-> t.cache[k]],
       links |-> {p \in t.links : p[1] \notin dead}]

(* IR.check_deltas: without a delta of a Mapping the cache is reset, with   *)
(* one it is kept and only the Mappings that changed are invalidated.       *)
incremental(d) == d \cap Names # {}

check_deltas(t, d) ==
  IF incremental(d) THEN invalidate(t, {MapKey(m) : m \in d \cap Names}) ELSE Nothing

-----------------------------------------------------------------------------
(* MappingFactory.load_config: the Mappings of the aconf, from the cache if *)
(* they are there ...                                                       *)
live(s) == {m \in Names : s.config[m] # Absent}

object(t, s, m) ==
  IF MapKey(m) \in DOMAIN t.cache THEN t.cache[MapKey(m)]
  ELSE [spec |-> s.config[m], mod |-> s.module, key |-> NoKey, prepended |-> 0]

(* Mutant: only the Mappings are invalidated, not the groups they join. *)
invalidate_groups_for_None(t, s, d) == t

(* ... and the groups of those that changed are invalidated.                *)
invalidate_groups_for(t, s, d) ==
  invalidate(t, {GroupKey(object(t, s, m).spec.group) : m \in d \cap live(s)})

(* IR.add_mapping: a cached group has its Mappings already, so the first    *)
(* Mapping that finds it there is not added.  A group has the labels of the *)
(* Mapping that it was made for, and refuses others with other labels.      *)
members(t, s, g) == {m \in live(s) : object(t, s, m).spec.group = g}

First(ms) == Head(InOrder(ms))

accepted(t, s, g, n, ms) == {m \in ms : g \in Labelled => object(t, s, m).prepended = n}

group(t, s, g) ==
  LET ms == members(t, s, g)
  IN  IF GroupKey(g) \in DOMAIN t.cache
      THEN LET old == t.cache[GroupKey(g)]
               new == (ms \ {First(ms)}) \ Elements(old.maps)
           IN  [old EXCEPT !.maps = @ \o InOrder(accepted(t, s, g, old.prepended, new))]
      ELSE LET n == IF g \in Labelled THEN object(t, s, First(ms)).prepended ELSE 0
           IN  [maps |-> InOrder(accepted(t, s, g, n, ms)), mod |-> s.module, prepended |-> n]

add_mappings(t, s) ==
  [g \in {object(t, s, m).spec.group : m \in live(s)} |-> group(t, s, g)]

(* IRHTTPMappingGroup.finalize prepends the default labels, if the Module   *)
(* has some, to the group's labels: also to those of a cached group, which  *)
(* has them already, and in place, so that the Mapping the group was made   *)
(* for changes with it.                                                     *)
prepend(n, s) == IF s.module \in DefaultsAt /\ n < MaxPrepended THEN n + 1 ELSE n

finalize(gs, s) == [g \in DOMAIN gs |-> [gs[g] EXCEPT !.prepended = prepend(@, s)]]

owns(gs, g, m) == g \in Labelled /\ gs[g].maps # <<>> /\ m = Head(gs[g].maps)

(* Then add_cluster_for_mapping: each <<group, Mapping>> uses a cluster.    *)
(* The first user provides it, from the cache if it has had it before.      *)
Users(gs) == UNION {{<<g, m>> : m \in Elements(gs[g].maps)} : g \in DOMAIN gs}

UsersOf(t, s, gs, c) == {u \in Users(gs) : object(t, s, u[2]).spec.cluster = c}

Earlier(t, s, gs, u, w) ==
  IF u[1] = w[1] THEN Position(gs[u[1]].maps, u[2]) <= Position(gs[w[1]].maps, w[2])
  ELSE Position(Order, First(members(t, s, u[1]))) < Position(Order, First(members(t, s, w[1])))

add_cluster(t, s, gs, c) ==
  LET first == CHOOSE u \in UsersOf(t, s, gs, c) :
                  \A w \in UsersOf(t, s, gs, c) : Earlier(t, s, gs, u, w)
      m == object(t, s, first[2])
  IN  IF m.key # NoKey /\ ClusterKey(c) \in DOMAIN t.cache THEN t.cache[ClusterKey(c)]
      ELSE [par |-> m.spec.par, mod |-> s.module]

IR(t, s) ==
  LET gs == add_mappings(t, s)
  IN  [mappings |-> [m \in live(s) |->
                        [spec |-> object(t, s, m).spec, mod |-> object(t, s, m).mod]],
       groups   |-> finalize(gs, s),
       clusters |-> [c \in {object(t, s, u[2]).spec.cluster : u \in Users(gs)} |->
                        add_cluster(t, s, gs, c)]]

(* Mutant: the Mapping does not own its group. *)
irLinks_NoGroup(t, s, us) ==
  {<<GroupKey(u[1]), ClusterKey(object(t, s, u[2]).spec.cluster)>> :
      u \in {w \in us : object(t, s, w[2]).key = NoKey}}

(* What the IR adds to the cache: the Mappings and the groups; and, once    *)
(* the groups fs and the users us are finalized, the labels and the         *)
(* cluster_key of the Mappings, and, for Mappings that had no cluster_key,  *)
(* the cluster and the group's link to it.                                  *)
irLinks(t, s, us) ==
  {<<MapKey(m), GroupKey(object(t, s, m).spec.group)>> : m \in live(s)}
  \cup {<<GroupKey(u[1]), ClusterKey(object(t, s, u[2]).spec.cluster)>> :
           u \in {w \in us : object(t, s, w[2]).key = NoKey}}

irMapping(t, s, gs, fs, us, m) ==
  LET o == object(t, s, m)
  IN  [o EXCEPT !.key = IF \E u \in us : u[2] = m THEN o.spec.cluster ELSE @,
                !.prepended = IF o.spec.group \in fs /\ owns(gs, o.spec.group, m)
                              THEN prepend(@, s) ELSE @]

irCache(t, s, ir, fs, us) ==
  LET gs == add_mappings(t, s)
      fresh == {object(t, s, u[2]).spec.cluster : u \in {w \in us : object(t, s, w[2]).key = NoKey}}
      ms == [k \in {MapKey(m) : m \in {u[2] : u \in Users(gs)} \cup live(s)} |->
               irMapping(t, s, gs, fs, us, k[2])]
      hs == [k \in {GroupKey(g) : g \in DOMAIN gs} |->
               IF k[2] \in fs THEN ir.groups[k[2]] ELSE gs[k[2]]]
      cs == [k \in {ClusterKey(c) : c \in fresh} |-> ir.clusters[k[2]]]
  IN  [cache |-> Over(Over(ms, hs), Over(t.cache, cs)),
       links |-> t.links \cup irLinks(t, s, us)]

-----------------------------------------------------------------------------
(* V3Route.generate and V3Cluster.generate, from the cache where possible.  *)
(* A route depends on all Mappings of its group through their weights.      *)
newRoute(t, s, ir, u) ==
  LET o == object(t, s, u[2])
  IN  [group |-> ir.groups[u[1]], spec |-> o.spec, default |-> o.mod, mod |-> s.module]

routes(t, s, ir) ==
  [u \in Users(ir.groups) |->
     IF RouteKey(u[1], u[2]) \in DOMAIN t.cache THEN t.cache[RouteKey(u[1], u[2])]
     ELSE newRoute(t, s, ir, u)]

clusters(t, ir) ==
  [c \in DOMAIN ir.clusters |->
     IF V3Key(c) \in DOMAIN t.cache THEN t.cache[V3Key(c)] ELSE ir.clusters[c]]

EnvoyConfig(t, s, ir) == [routes |-> routes(t, s, ir), clusters |-> clusters(t, ir)]

(* A V3 cluster is cached only if its IR cluster is. *)
econfCache(t, econf) ==
  LET rs == [k \in {RouteKey(u[1], u[2]) : u \in DOMAIN econf.routes} |->
                econf.routes[<<k[2], k[3]>>]]
      cs == {c \in DOMAIN econf.clusters : ClusterKey(c) \in DOMAIN t.cache}
      vs == [k \in {V3Key(c) : c \in cs} |-> econf.clusters[k[2]]]
      new == (DOMAIN rs \cup DOMAIN vs) \ DOMAIN t.cache
  IN  [cache |-> Over(t.cache, Over(rs, vs)),
       links |-> t.links
                 \cup {<<GroupKey(k[2]), k>> : k \in DOMAIN rs \cap new}
                 \cup {<<ClusterKey(k[2]), k>> : k \in DOMAIN vs \cap new}]

-----------------------------------------------------------------------------
(* AmbassadorEventWatcher._load_ir up to the validation of the result: the  *)
(* IR and the Envoy configuration of snapshot s with deltas d, and the      *)
(* cache afterwards.                                                        *)
ready(t, s, d) == invalidate_groups_for(check_deltas(t, d), s, d)

compile(t, s, d) ==
  LET t1 == ready(t, s, d)
      ir == IR(t1, s)
      t2 == irCache(t1, s, ir, DOMAIN ir.groups, Users(ir.groups))
      econf == EnvoyConfig(t2, s, ir)
  IN  [ir |-> ir, econf |-> econf, ircache |-> t2, memo |-> econfCache(t2, econf)]

(* DiagApp.check_cache: the same with an empty cache. *)
full(s) == compile(Nothing, s, {})

Init ==
  /\ aconf = [config |-> [m \in Names |-> Absent], module |-> 0]
  /\ deltas = {}
  /\ memo = Nothing
  /\ missed = {} /\ disputed = {} /\ stamped = {} /\ failures = 0

Change(m, x) ==
  /\ x # aconf.config[m]
  /\ aconf' = [aconf EXCEPT !.config[m] = x]
  /\ deltas' = deltas \cup {m} /\ Cardinality(deltas') <= MaxBatch
  /\ UNCHANGED <<memo, missed, disputed, stamped, failures>>

ModuleChange(v) ==
  /\ v # aconf.module
  /\ aconf' = [aconf EXCEPT !.module = v]
  /\ deltas' = deltas \cup {"Module"} /\ Cardinality(deltas') <= MaxBatch
  /\ UNCHANGED <<memo, missed, disputed, stamped, failures>>

(* What the cache may hold from before, after check_deltas has been at it:  *)
(* deltas that it does not reflect; clusters that Mappings of the aconf or  *)
(* of the cache ask for with different parameters, or did before; labelled  *)
(* groups that have default labels already.                                 *)
Followed(d) == IF incremental(d) THEN (missed \ d) \cup (d \ Names) ELSE {}

asked(t, s) ==
  {s.config[m] : m \in live(s)}
  \cup {t.cache[MapKey(m)].spec : m \in {n \in Names : MapKey(n) \in DOMAIN t.cache}}

Contested(t, s) ==
  {x.cluster : x \in {y \in asked(t, s) : \E z \in asked(t, s) : y.cluster = z.cluster /\ y.par # z.par}}

Disputed(d) ==
  (IF incremental(d) THEN disputed ELSE {}) \cup Contested(ready(memo, aconf, d), aconf)

Stamped(d) == IF incremental(d) THEN stamped ELSE {}

Stamps(gs) == IF aconf.module \in DefaultsAt THEN Labelled \cap gs ELSE {}

(* A CONFIG event.  The watcher waits for the answer before it sends the    *)
(* next snapshot, and this thread alone uses the cache.  If Envoy does not  *)
(* validate the configuration, it is not installed but stays in the cache;  *)
(* the watcher takes the 500 for success.                                   *)
Reconfigure ==
  LET now == compile(memo, aconf, deltas)
  IN  /\ memo' = now.memo
      /\ missed' = Followed(deltas) /\ disputed' = Disputed(deltas)
      /\ stamped' = Stamped(deltas) \cup Stamps(DOMAIN now.ir.groups)
      /\ deltas' = {}
      /\ UNCHANGED <<aconf, failures>>

(* A snapshot that raises an exception is answered with a 500 and forgotten. *)
Fails == /\ failures < MaxFailures /\ failures' = failures + 1
         /\ deltas' = {}
         /\ UNCHANGED aconf

(* An exception before check_deltas (fetching, parsing or writing aconf)... *)
LoadFails ==
  /\ Fails
  /\ deltas # {} /\ Cardinality(missed \cup deltas) <= MaxMissed
  /\ missed' = missed \cup deltas
  /\ UNCHANGED <<memo, disputed, stamped>>

(* ... one in the IR's constructor before it gets to the groups of the      *)
(* Mappings ...                                                             *)
CompileFails ==
  /\ Fails
  /\ Cardinality(missed \cup deltas) <= MaxMissed
  /\ memo' = check_deltas(memo, deltas)
  /\ missed' = IF incremental(deltas) THEN missed \cup deltas ELSE {}
  /\ disputed' = IF incremental(deltas) THEN disputed ELSE {}
  /\ stamped' = Stamped(deltas)

(* ... one while the Mappings are added, so that only those before m are in *)
(* the cache and in their groups ...                                        *)
upTo(s, ms) == [s EXCEPT !.config = [n \in Names |-> IF n \in ms THEN s.config[n] ELSE Absent]]

AddFails(m) ==
  /\ Fails
  /\ m \in live(aconf)
  /\ LET t == ready(memo, aconf, deltas)
         part == upTo(aconf, {n \in Names : Position(Order, n) < Position(Order, m)})
     IN  /\ memo' = irCache(t, part, IR(t, part), {}, {})
         /\ missed' = Followed(deltas) \cup (live(aconf) \ live(part))
  /\ Cardinality(missed') <= MaxMissed
  /\ disputed' = Disputed(deltas) /\ stamped' = Stamped(deltas)

(* ... one while the groups are finalized: at the cluster of u, with those  *)
(* before it done, or already at the labels of the group of u ...           *)
FinalizeFails ==
  /\ Fails
  /\ missed' = Followed(deltas) /\ disputed' = Disputed(deltas)
  /\ LET t  == ready(memo, aconf, deltas)
         ir == IR(t, aconf)
         gs == add_mappings(t, aconf)
     IN  \E u \in Users(gs) :
         \E us \in {{w \in Users(gs) \ {u} : Earlier(t, aconf, gs, w, u)}} :
         \E fs \in {{w[1] : w \in us}, {w[1] : w \in us} \cup {u[1]}} :
           /\ memo' = irCache(t, aconf, ir, fs, us)
           /\ stamped' = Stamped(deltas) \cup Stamps(fs)

(* ... and one after that, with some of the routes generated, in an order   *)
(* that depends on weights, or all routes and some of the clusters.         *)
EconfFails ==
  /\ Fails
  /\ missed' = Followed(deltas) /\ disputed' = Disputed(deltas)
  /\ \E now \in {compile(memo, aconf, deltas)} :
     LET rs == now.econf.routes
         vs == now.econf.clusters
     IN  /\ stamped' = Stamped(deltas) \cup Stamps(DOMAIN now.ir.groups)
         /\ \E us \in SUBSET DOMAIN rs, cs \in SUBSET DOMAIN vs :
              /\ cs # DOMAIN vs /\ (cs # {} => us = DOMAIN rs)
              /\ memo' = econfCache(now.ircache, [routes |-> [u \in us |-> rs[u]],
                                                  clusters |-> [c \in cs |-> vs[c]]])

Next ==
  \/ \E m \in Names : \E x \in SpecsOf[m] \cup {Absent} : Change(m, x)
  \/ \E v \in 0 .. MaxModule : ModuleChange(v)
  \/ Reconfigure \/ LoadFails \/ CompileFails
  \/ \E m \in Names : AddFails(m)
  \/ FinalizeFails \/ EconfFails

Spec == Init /\ [][Next]_vars

-----------------------------------------------------------------------------
(* The cache holds objects under the keys of their kinds, and links join    *)
(* keys of such objects.                                                    *)
TypeOK ==
  /\ aconf.config \in [Names -> AllSpecs \cup {Absent}] /\ aconf.module \in 0 .. MaxModule
  /\ deltas \subseteq Names \cup {"Module"} /\ missed \subseteq Names \cup {"Module"}
  /\ disputed \subseteq Clusters /\ stamped \subseteq Labelled
  /\ DOMAIN memo.cache \subseteq Keys
  /\ memo.links \subseteq Keys \X Keys

-----------------------------------------------------------------------------
(* The groups that the next compilation may make differently from a full    *)
(* one: those of Mappings whose deltas were missed, before and after, and   *)
(* the labelled ones whose Mappings have default labels already.            *)
Spoilt ==
  LET stale == Followed(deltas) \cap Names
  IN  Stamped(deltas)
      \cup {aconf.config[m].group : m \in stale \cap live(aconf)}
      \cup {memo.cache[MapKey(m)].spec.group : m \in {n \in stale : MapKey(n) \in DOMAIN memo.cache}}

(* Two objects are the same, up to what they got from a Module whose delta  *)
(* was missed, and up to how often default labels were prepended.           *)
Defaults(a, b) == "Module" \in Followed(deltas) \/ a = b

SameMapping(a, b) == a.spec = b.spec /\ Defaults(a.mod, b.mod)
SameGroup(a, b)   == a.maps = b.maps /\ Defaults(<<a.mod, a.prepended # 0>>, <<b.mod, b.prepended # 0>>)
SameCluster(a, b) == a.par = b.par /\ Defaults(a.mod, b.mod)
SameRoute(a, b)   == a.spec = b.spec /\ SameGroup(a.group, b.group)
                     /\ Defaults(<<a.default, a.mod>>, <<b.default, b.mod>>)

(* Two compilations of the aconf make the same of all Mappings, of groups   *)
(* that are not spoilt, and of clusters that nobody argued about.           *)
Matches(now, ref, spoilt, argued) ==
  /\ \A m \in live(aconf) \ Followed(deltas) : SameMapping(now.ir.mappings[m], ref.ir.mappings[m])
  /\ DOMAIN now.ir.groups \ spoilt = DOMAIN ref.ir.groups \ spoilt
  /\ \A g \in DOMAIN ref.ir.groups \ spoilt : SameGroup(now.ir.groups[g], ref.ir.groups[g])
  /\ \A m \in live(aconf) : aconf.config[m].group \notin spoilt =>
       LET u == <<aconf.config[m].group, m>>
           c == aconf.config[m].cluster
       IN  /\ u \in DOMAIN now.econf.routes /\ u \in DOMAIN ref.econf.routes
           /\ SameRoute(now.econf.routes[u], ref.econf.routes[u])
           /\ c \in DOMAIN now.ir.clusters /\ c \in DOMAIN ref.ir.clusters
           /\ c \notin argued =>
                /\ SameCluster(now.ir.clusters[c], ref.ir.clusters[c])
                /\ SameCluster(now.econf.clusters[c], ref.econf.clusters[c])

(* The cache is invisible, but for what earlier failures and arguments left *)
(* in it: whatever was compiled before, and whichever changes the next      *)
(* snapshot brings together, diagd makes of each Mapping, its group, its    *)
(* route and its cluster what it would with an empty cache.  Excepted are   *)
(* Mappings whose deltas never got to the cache and their groups, labelled  *)
(* groups with default labels (their Mappings keep the labels that finalize *)
(* has prepended to), and clusters whose parameters Mappings disagreed on.  *)
(* This is check_deltas, MappingFactory.load_config and finalize against    *)
(* DiagApp.check_cache.                                                     *)
IncrementalMatchesFull ==
  Matches(compile(memo, aconf, deltas), full(aconf), Spoilt, Disputed(deltas))

(* DiagApp.check_cache compiles the aconf anew to "make sure everything     *)
(* matches": it always does.                                                *)
CheckCacheSucceeds ==
  LET now == compile(memo, aconf, deltas)
  IN  now.ir = full(aconf).ir /\ now.econf = full(aconf).econf

(* Nothing stays in the cache that no later delta could remove: every       *)
(* object is owned, directly or not, by a cached Mapping.                   *)
NoOrphans ==
  DOMAIN invalidate(memo, {k \in DOMAIN memo.cache : k[1] = "Mapping"}).cache = {}
=============================================================================
