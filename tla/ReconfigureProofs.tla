------------------------- MODULE ReconfigureProofs -------------------------
(***************************************************************************)
(* For any Mappings, groups and clusters, and any sequence of good and     *)
(* failed reconfigurations: nothing is left in diagd's cache that the      *)
(* deletion of Mappings could not remove, and what is compiled through the *)
(* cache is what would be compiled without one, but for the exceptions     *)
(* that IncrementalMatchesFull names.  The first needs only the shape of   *)
(* the links (Rooted); the second follows each kind of cached object       *)
(* through invalidate, add_mapping, finalize and the two compilers (Good), *)
(* and then compares both compilations with what the aconf wants (RightIR).*)
(***************************************************************************)
EXTENDS Reconfigure, FiniteSetTheorems, SequenceTheorems, WellFoundedInduction, TLAPS

Kind(k) == k[1]

(* A link leads from a Mapping to a group, from a group to a cluster or a   *)
(* route, or from a cluster to its V3 cluster.                              *)
Downwards(o, k) ==
  \/ Kind(o) = "Mapping" /\ Kind(k) = "Group"
  \/ Kind(o) = "Group" /\ Kind(k) \in {"Cluster", "Route"}
  \/ Kind(o) = "Cluster" /\ Kind(k) = "V3"

LinksDown(t) == \A o, k : <<o, k>> \in t.links => Downwards(o, k)

(* Every cached object but a Mapping is linked from a cached one. *)
Held(t, k) == Kind(k) = "Mapping" \/ \E o \in DOMAIN t.cache : <<o, k>> \in t.links

Rooted(t) == LinksDown(t) /\ \A k \in DOMAIN t.cache : Held(t, k)

(* Every cached object can be reached from a Mapping. *)
CacheInv == Rooted(memo)

-----------------------------------------------------------------------------
(* The three rounds of invalidate reach everything that the keys own. *)
LEMMA OwnedClosed ==
  ASSUME NEW t, NEW ks, LinksDown(t),
         NEW o \in Owned(t, Owned(t, Owned(t, ks))), NEW k \in DOMAIN t.cache,
         <<o, k>> \in t.links
  PROVE  k \in Owned(t, Owned(t, Owned(t, ks)))
<1> DEFINE A == Owned(t, ks)
           B == Owned(t, A)
           C == Owned(t, B)
<1>1. /\ ks \subseteq A /\ A \subseteq B /\ B \subseteq C
      /\ \A x, y : y \in ks /\ <<y, x>> \in t.links /\ x \in DOMAIN t.cache => x \in A
      /\ \A x, y : y \in A /\ <<y, x>> \in t.links /\ x \in DOMAIN t.cache => x \in B
      /\ \A x, y : y \in B /\ <<y, x>> \in t.links /\ x \in DOMAIN t.cache => x \in C
      /\ \A x : x \in A => x \in ks \/ \E y \in ks : x \in DOMAIN t.cache /\ <<y, x>> \in t.links
      /\ \A x : x \in B => x \in A \/ \E y \in A : x \in DOMAIN t.cache /\ <<y, x>> \in t.links
      /\ \A x : x \in C => x \in B \/ \E y \in B : x \in DOMAIN t.cache /\ <<y, x>> \in t.links
  BY DEF Owned
<1> HIDE DEF A, B, C
<1>2. \A x, y : <<x, y>> \in t.links => Downwards(x, y)
  BY DEF LinksDown
<1>3. \A x : x \in C /\ Kind(x) = "Mapping" => x \in ks
  BY <1>1, <1>2 DEF Downwards
<1>4. \A x : x \in C /\ Kind(x) = "Group" => x \in A
  BY <1>1, <1>2, <1>3 DEF Downwards
<1>5. \A x : x \in C /\ Kind(x) \in {"Cluster", "Route"} => x \in B
  BY <1>1, <1>2, <1>4 DEF Downwards
<1>6. o \in C
  BY DEF A, B, C
<1>7. k \in C
  BY <1>1, <1>2, <1>3, <1>4, <1>5, <1>6 DEF Downwards
<1> QED
  BY <1>7 DEF A, B, C

LEMMA NothingRooted == Rooted(Nothing)
  BY DEF Rooted, LinksDown, Nothing

(* What survives is still linked from what survives. *)
LEMMA InvalidateRooted ==
  ASSUME NEW t, NEW ks, Rooted(t)
  PROVE  Rooted(invalidate(t, ks))
<1> DEFINE dead == Owned(t, Owned(t, Owned(t, ks \cap DOMAIN t.cache)))
           u == invalidate(t, ks)
<1>1. DOMAIN u.cache = DOMAIN t.cache \ dead /\ u.links = {p \in t.links : p[1] \notin dead}
  BY DEF invalidate
<1>2. \A o \in dead, k \in DOMAIN t.cache : <<o, k>> \in t.links => k \in dead
  BY OwnedClosed DEF Rooted
<1> HIDE DEF dead, u
<1>3. LinksDown(u)
  BY <1>1 DEF Rooted, LinksDown
<1>4. \A k \in DOMAIN u.cache : Held(u, k)
  BY <1>1, <1>2 DEF Rooted, Held
<1> QED
  BY <1>3, <1>4 DEF Rooted, u

(* The IR caches a group with the link of a Mapping, and a cluster with the *)
(* link of a group that it caches too, however far finalize got.            *)
LEMMA IRRooted ==
  ASSUME NEW t, NEW s, NEW fs, NEW us, Rooted(t),
         \A u \in us : u[1] \in DOMAIN add_mappings(t, s)
  PROVE  /\ Rooted(irCache(t, s, IR(t, s), fs, us))
         /\ \A g \in DOMAIN add_mappings(t, s) :
               GroupKey(g) \in DOMAIN irCache(t, s, IR(t, s), fs, us).cache
<1> DEFINE gr == add_mappings(t, s)
           users == {u[2] : u \in Users(gr)}
           new == irCache(t, s, IR(t, s), fs, us)
           G(m) == object(t, s, m).spec.group
           C(m) == object(t, s, m).spec.cluster
           fresh == {C(u[2]) : u \in {w \in us : object(t, s, w[2]).key = NoKey}}
           L == live(s)
<1>1. DOMAIN gr = {G(m) : m \in L}
  BY DEF add_mappings
<1>2. DOMAIN new.cache = ({MapKey(m) : m \in users \cup L} \cup {GroupKey(g) : g \in DOMAIN gr})
                         \cup (DOMAIN t.cache \cup {ClusterKey(c) : c \in fresh})
  BY DEF irCache, Over
<1>3. new.links = t.links \cup irLinks(t, s, us)
  BY DEF irCache
<1>4. irLinks(t, s, us) = {<<MapKey(m), GroupKey(G(m))>> : m \in L}
           \cup {<<GroupKey(u[1]), ClusterKey(C(u[2]))>> :
                    u \in {w \in us : object(t, s, w[2]).key = NoKey}}
  BY DEF irLinks
<1>5. \A u \in us : u[1] \in DOMAIN gr
  OBVIOUS
<1> HIDE DEF gr, new, G, C, L
<1>6. \A o, k : <<o, k>> \in irLinks(t, s, us) => Downwards(o, k)
  BY <1>4 DEF Downwards, Kind, MapKey, GroupKey, ClusterKey
<1>7. LinksDown(new)
  BY <1>3, <1>6 DEF Rooted, LinksDown
<1>8. \A k \in DOMAIN t.cache : Held(new, k)
  BY <1>2, <1>3 DEF Rooted, Held
<1>9. \A m : Held(new, MapKey(m))
  BY DEF Held, Kind, MapKey
<1>10. ASSUME NEW g \in DOMAIN gr PROVE Held(new, GroupKey(g))
  <2>1. PICK m \in L : g = G(m)
    BY <1>1
  <2>2. MapKey(m) \in DOMAIN new.cache
    BY <1>2
  <2>3. <<MapKey(m), GroupKey(g)>> \in new.links
    BY <1>3, <1>4, <2>1
  <2> QED
    BY <2>2, <2>3 DEF Held
<1>11. ASSUME NEW c \in fresh PROVE Held(new, ClusterKey(c))
  <2>1. PICK u \in us : c = C(u[2]) /\ object(t, s, u[2]).key = NoKey
    BY DEF C
  <2>2. GroupKey(u[1]) \in DOMAIN new.cache
    BY <1>2, <1>5
  <2>3. <<GroupKey(u[1]), ClusterKey(c)>> \in new.links
    BY <1>3, <1>4, <2>1
  <2> QED
    BY <2>2, <2>3 DEF Held
<1>12. \A k \in DOMAIN new.cache : Held(new, k)
  BY <1>2, <1>8, <1>9, <1>10, <1>11
<1>13. \A g \in DOMAIN gr : GroupKey(g) \in DOMAIN new.cache
  BY <1>2
<1> QED
  BY <1>7, <1>12, <1>13 DEF Rooted, gr, new

(* The Envoy configuration links what it adds to the group or the cluster.  *)
LEMMA EconfRooted ==
  ASSUME NEW t, NEW econf, Rooted(t),
         \A u \in DOMAIN econf.routes : GroupKey(u[1]) \in DOMAIN t.cache
  PROVE  Rooted(econfCache(t, econf))
<1> DEFINE R == {RouteKey(u[1], u[2]) : u \in DOMAIN econf.routes}
           V == {V3Key(c) : c \in {d \in DOMAIN econf.clusters : ClusterKey(d) \in DOMAIN t.cache}}
           fresh == (R \cup V) \ DOMAIN t.cache
           new == econfCache(t, econf)
<1>1. DOMAIN new.cache = DOMAIN t.cache \cup R \cup V
  BY DEF econfCache, Over
<1>2. new.links = t.links \cup {<<GroupKey(k[2]), k>> : k \in R \cap fresh}
                          \cup {<<ClusterKey(k[2]), k>> : k \in V \cap fresh}
  BY DEF econfCache
<1>3. /\ \A k \in R : Kind(k) = "Route" /\ GroupKey(k[2]) \in DOMAIN t.cache
      /\ \A k \in V : Kind(k) = "V3" /\ ClusterKey(k[2]) \in DOMAIN t.cache
  BY DEF RouteKey, V3Key, Kind
<1>4. \A x : Kind(GroupKey(x)) = "Group" /\ Kind(ClusterKey(x)) = "Cluster"
  BY DEF GroupKey, ClusterKey, Kind
<1> HIDE DEF R, V, new
<1>5. LinksDown(new)
  BY <1>2, <1>3, <1>4 DEF Rooted, LinksDown, Downwards
<1>6. \A k \in DOMAIN t.cache : Held(new, k)
  BY <1>1, <1>2 DEF Rooted, Held
<1>7. ASSUME NEW k \in R, k \notin DOMAIN t.cache PROVE Held(new, k)
  <2>1. <<GroupKey(k[2]), k>> \in new.links
    BY <1>2, <1>7
  <2> QED
    BY <1>1, <1>3, <2>1 DEF Held
<1>8. ASSUME NEW k \in V, k \notin DOMAIN t.cache PROVE Held(new, k)
  <2>1. <<ClusterKey(k[2]), k>> \in new.links
    BY <1>2, <1>8
  <2> QED
    BY <1>1, <1>3, <2>1 DEF Held
<1> QED
  BY <1>1, <1>5, <1>6, <1>7, <1>8 DEF Rooted, new

(* So compiling a snapshot, whatever its deltas, keeps the cache rooted.    *)
LEMMA CheckDeltasRooted ==
  ASSUME NEW t, NEW d, Rooted(t)
  PROVE  Rooted(check_deltas(t, d))
  BY NothingRooted, InvalidateRooted DEF check_deltas

LEMMA ReadyRooted ==
  ASSUME NEW t, NEW s, NEW d, Rooted(t)
  PROVE  Rooted(ready(t, s, d))
<1>1. Rooted(check_deltas(t, d))
  BY CheckDeltasRooted
<1> QED
  BY <1>1, InvalidateRooted DEF ready, invalidate_groups_for

(* The part of the Envoy configuration that is generated. *)
Part(econf, us, cs) ==
  [routes |-> [u \in us |-> econf.routes[u]], clusters |-> [c \in cs |-> econf.clusters[c]]]

LEMMA CompileRooted ==
  ASSUME NEW t, NEW s, NEW d, Rooted(t)
  PROVE  LET now == compile(t, s, d)
         IN  /\ Rooted(now.memo)
             /\ \A us \in SUBSET DOMAIN now.econf.routes : \A cs :
                  Rooted(econfCache(now.ircache, Part(now.econf, us, cs)))
<1> DEFINE t1 == ready(t, s, d)
           ir == IR(t1, s)
           gs == add_mappings(t1, s)
           t2 == irCache(t1, s, ir, DOMAIN ir.groups, Users(ir.groups))
           econf == EnvoyConfig(t2, s, ir)
<1>1. /\ compile(t, s, d).memo = econfCache(t2, econf) /\ compile(t, s, d).econf = econf
      /\ compile(t, s, d).ircache = t2
  BY DEF compile
<1>2. Rooted(t1)
  BY ReadyRooted
<1>3. DOMAIN econf.routes = Users(ir.groups)
  BY DEF EnvoyConfig, routes
<1>4. \A u \in Users(ir.groups) : u[1] \in DOMAIN gs
  BY DEF Users, IR, finalize
<1> HIDE DEF t1, econf
<1>5. Rooted(t2) /\ \A u \in Users(ir.groups) : GroupKey(u[1]) \in DOMAIN t2.cache
  <2> DEFINE fs == DOMAIN ir.groups
             us == Users(ir.groups)
  <2>1. \A u \in us : u[1] \in DOMAIN gs
    BY <1>4
  <2> HIDE DEF fs, us, ir
  <2>2. /\ Rooted(irCache(t1, s, IR(t1, s), fs, us))
        /\ \A g \in DOMAIN gs : GroupKey(g) \in DOMAIN irCache(t1, s, IR(t1, s), fs, us).cache
    BY <1>2, <2>1, IRRooted
  <2> QED
    BY <1>4, <2>2 DEF fs, us, ir
<1> HIDE DEF t2, ir
<1>6. Rooted(econfCache(t2, econf))
  BY <1>3, <1>5, EconfRooted
<1>7. ASSUME NEW us \in SUBSET DOMAIN econf.routes, NEW cs
      PROVE  Rooted(econfCache(t2, Part(econf, us, cs)))
  <2> DEFINE p == Part(econf, us, cs)
  <2>1. DOMAIN p.routes = us
    BY DEF Part
  <2> HIDE DEF p
  <2>2. Rooted(econfCache(t2, p))
    BY <1>3, <1>5, <2>1, EconfRooted
  <2> QED
    BY <2>2 DEF p
<1> QED
  BY <1>1, <1>6, <1>7

(* So do the failures, wherever they come. *)
LEMMA AddFailsRooted ==
  ASSUME Rooted(memo), NEW m, AddFails(m)
  PROVE  Rooted(memo')
<1> DEFINE t == ready(memo, aconf, deltas)
           part == upTo(aconf, {n \in Names : Position(Order, n) < Position(Order, m)})
<1>1. memo' = irCache(t, part, IR(t, part), {}, {})
  BY DEF AddFails
<1>2. Rooted(t)
  BY ReadyRooted
<1> HIDE DEF t, part
<1>3. Rooted(irCache(t, part, IR(t, part), {}, {}))
  BY <1>2, IRRooted
<1> QED
  BY <1>1, <1>3

LEMMA FinalizeFailsRooted ==
  ASSUME Rooted(memo), FinalizeFails
  PROVE  Rooted(memo')
<1> DEFINE t == ready(memo, aconf, deltas)
<1>1. PICK u \in Users(add_mappings(t, aconf)) :
        \E us \in {{w \in Users(add_mappings(t, aconf)) \ {u} : Earlier(t, aconf, add_mappings(t, aconf), w, u)}} :
        \E fs \in {{w[1] : w \in us}, {w[1] : w \in us} \cup {u[1]}} :
          memo' = irCache(t, aconf, IR(t, aconf), fs, us)
  BY DEF FinalizeFails
<1>2. PICK us, fs : us \subseteq Users(add_mappings(t, aconf)) /\ memo' = irCache(t, aconf, IR(t, aconf), fs, us)
  BY <1>1
<1>4. \A w \in us : w[1] \in DOMAIN add_mappings(t, aconf)
  BY <1>2 DEF Users
<1>3. Rooted(t)
  BY ReadyRooted
<1> HIDE DEF t
<1> QED
  BY <1>2, <1>3, <1>4, IRRooted

LEMMA EconfFailsRooted ==
  ASSUME Rooted(memo), EconfFails
  PROVE  Rooted(memo')
<1> DEFINE now == compile(memo, aconf, deltas)
<1>1. PICK us \in SUBSET DOMAIN now.econf.routes, cs \in SUBSET DOMAIN now.econf.clusters :
        memo' = econfCache(now.ircache, Part(now.econf, us, cs))
  BY DEF EconfFails, Part
<1> HIDE DEF now
<1>2. Rooted(econfCache(now.ircache, Part(now.econf, us, cs)))
  BY CompileRooted DEF now
<1> QED
  BY <1>1, <1>2

(* So does every step. *)
LEMMA CacheStep == CacheInv /\ [Next]_vars => CacheInv'
<1> SUFFICES ASSUME CacheInv, [Next]_vars PROVE CacheInv'
  OBVIOUS
<1>1. CASE Reconfigure
  BY <1>1, CompileRooted DEF Reconfigure, CacheInv
<1>2. CASE CompileFails
  BY <1>2, CheckDeltasRooted DEF CompileFails, CacheInv
<1>3. ASSUME NEW m \in Names, AddFails(m) PROVE CacheInv'
  BY <1>3, AddFailsRooted DEF CacheInv
<1>4. CASE FinalizeFails
  BY <1>4, FinalizeFailsRooted DEF CacheInv
<1>5. CASE EconfFails
  BY <1>5, EconfFailsRooted DEF CacheInv
<1>6. CASE UNCHANGED memo
  BY <1>6 DEF CacheInv
<1> QED
  BY <1>1, <1>2, <1>3, <1>4, <1>5, <1>6 DEF Next, Change, ModuleChange, LoadFails, vars

(* In every state each cached object but a Mapping is linked from one that  *)
(* is cached.                                                               *)
THEOREM CacheIsRooted == Spec => []CacheInv
<1>1. Init => CacheInv
  BY NothingRooted DEF Init, CacheInv
<1> QED
  BY <1>1, CacheStep, PTL DEF Spec

(* Three rounds from the Mappings reach every object of a rooted cache.     *)
LEMMA RootedReached ==
  ASSUME NEW t, Rooted(t)
  PROVE  DOMAIN invalidate(t, {k \in DOMAIN t.cache : k[1] = "Mapping"}).cache = {}
<1> DEFINE ks == {k \in DOMAIN t.cache : k[1] = "Mapping"} \cap DOMAIN t.cache
           A == Owned(t, ks)
           B == Owned(t, A)
           C == Owned(t, B)
<1>1. DOMAIN invalidate(t, {k \in DOMAIN t.cache : k[1] = "Mapping"}).cache = DOMAIN t.cache \ C
  BY DEF invalidate
<1>2. \A k \in DOMAIN t.cache : Kind(k) = "Mapping" => k \in ks
  BY DEF Kind
<1>3. /\ ks \subseteq A /\ A \subseteq B /\ B \subseteq C
      /\ \A x \in DOMAIN t.cache : \A y : y \in ks /\ <<y, x>> \in t.links => x \in A
      /\ \A x \in DOMAIN t.cache : \A y : y \in A /\ <<y, x>> \in t.links => x \in B
      /\ \A x \in DOMAIN t.cache : \A y : y \in B /\ <<y, x>> \in t.links => x \in C
  BY DEF Owned
<1> HIDE DEF ks, A, B, C
<1>4. \A k \in DOMAIN t.cache : Kind(k) = "Mapping" \/
        \E o \in DOMAIN t.cache : <<o, k>> \in t.links /\ Downwards(o, k)
  BY DEF Rooted, Held, LinksDown
<1>5. \A k \in DOMAIN t.cache : Kind(k) = "Group" => k \in A
  BY <1>2, <1>3, <1>4 DEF Downwards
<1>6. \A k \in DOMAIN t.cache : Kind(k) \in {"Cluster", "Route"} => k \in B
  BY <1>3, <1>4, <1>5 DEF Downwards
<1>7. \A k \in DOMAIN t.cache : Kind(k) = "V3" => k \in C
  BY <1>3, <1>4, <1>6 DEF Downwards
<1>8. \A k \in DOMAIN t.cache : Kind(k) \in {"Mapping", "Group", "Cluster", "Route", "V3"}
  BY <1>4 DEF Downwards
<1> QED
  BY <1>1, <1>2, <1>3, <1>5, <1>6, <1>7, <1>8

(* Nothing stays in the cache that no later delta could remove, whatever    *)
(* was compiled before and whichever reconfigurations failed.               *)
THEOREM NothingOrphaned == Spec => []NoOrphans
<1>1. CacheInv => NoOrphans
  BY RootedReached DEF CacheInv, NoOrphans
<1> QED
  BY <1>1, CacheIsRooted, PTL
-----------------------------------------------------------------------------
(* What the cache holds, for an aconf s, the set e of deltas that it has    *)
(* not followed, the set L of labelled groups that got default labels, and  *)
(* the set D of clusters that Mappings disagreed on.  A Mapping is as the   *)
(* aconf has it.                                                            *)
MappingGood(t, s, e, m) ==
  LET o == t.cache[MapKey(m)]
  IN  /\ m \in Names
      /\ o = [spec |-> o.spec, mod |-> o.mod, key |-> o.key, prepended |-> o.prepended]
      /\ o.spec \in SpecsOf[m] /\ o.prepended \in Nat
      /\ m \notin e => o.spec = s.config[m]
      /\ "Module" \notin e => o.mod = s.module

(* Cached Mapping m joins group g, and takes it along when it goes. *)
Joins(t, m, g) ==
  /\ MapKey(m) \in DOMAIN t.cache /\ t.cache[MapKey(m)].spec.group = g
  /\ <<MapKey(m), GroupKey(g)>> \in t.links

(* A group has Mappings that joined it, all that the aconf has for it, in   *)
(* the order of the aconf; it may have default labels already, or not yet.  *)
GroupGood(t, s, e, L, g) ==
  LET o == t.cache[GroupKey(g)]
  IN  /\ o = [maps |-> o.maps, mod |-> o.mod, prepended |-> o.prepended]
      /\ o.maps \in Seq(Names) /\ o.prepended \in Nat
      /\ \A m \in Elements(o.maps) : Joins(t, m, g)
      /\ g \notin L =>
           /\ \A m \in live(s) \ e : s.config[m].group = g => m \in Elements(o.maps)
           /\ Elements(o.maps) \cap e = {} => o.maps = InOrder(Elements(o.maps))
      /\ "Module" \notin e =>
           /\ o.mod = s.module
           /\ g \notin L /\ o.prepended # 0 => s.module \in DefaultsAt

(* A cluster is that of a cached Mapping whose cached group owns it. *)
Provides(t, m, g, c) ==
  /\ m \in Names /\ Joins(t, m, g) /\ GroupKey(g) \in DOMAIN t.cache
  /\ <<GroupKey(g), ClusterKey(c)>> \in t.links
  /\ t.cache[MapKey(m)].spec.cluster = c
  /\ t.cache[MapKey(m)].spec.par = t.cache[ClusterKey(c)].par

ClusterGood(t, s, e, D, c) ==
  LET o == t.cache[ClusterKey(c)]
  IN  /\ o = [par |-> o.par, mod |-> o.mod]
      /\ c \notin D => \E m \in Names, g \in Groups : Provides(t, m, g, c)
      /\ "Module" \notin e => o.mod = s.module

(* A V3 cluster is that of a cached cluster that owns it. *)
V3Good(t, s, e, D, c) ==
  LET o == t.cache[V3Key(c)]
  IN  /\ ClusterKey(c) \in DOMAIN t.cache /\ <<ClusterKey(c), V3Key(c)>> \in t.links
      /\ o = [par |-> o.par, mod |-> o.mod]
      /\ c \notin D => o.par = t.cache[ClusterKey(c)].par
      /\ "Module" \notin e => o.mod = s.module

(* A route is that of a Mapping of a cached group that owns it. *)
RouteGood(t, s, e, L, g, m) ==
  LET o == t.cache[RouteKey(g, m)]
      h == t.cache[GroupKey(g)]
  IN  /\ GroupKey(g) \in DOMAIN t.cache /\ <<GroupKey(g), RouteKey(g, m)>> \in t.links
      /\ m \in Elements(h.maps)
      /\ o.spec = t.cache[MapKey(m)].spec
      /\ g \notin L /\ Elements(h.maps) \cap e = {} => o.group.maps = h.maps
      /\ "Module" \notin e =>
           /\ o.group.mod = s.module /\ o.default = s.module /\ o.mod = s.module
           /\ g \notin L => (o.group.prepended # 0 <=> s.module \in DefaultsAt)

Good(t, s, e, L, D) ==
  \A k \in DOMAIN t.cache :
    /\ Kind(k) = "Mapping" => k = MapKey(k[2]) /\ MappingGood(t, s, e, k[2])
    /\ Kind(k) = "Group" => k = GroupKey(k[2]) /\ GroupGood(t, s, e, L, k[2])
    /\ Kind(k) = "Cluster" => k = ClusterKey(k[2]) /\ ClusterGood(t, s, e, D, k[2])
    /\ Kind(k) = "V3" => k = V3Key(k[2]) /\ V3Good(t, s, e, D, k[2])
    /\ Kind(k) = "Route" => k = RouteKey(k[2], k[3]) /\ RouteGood(t, s, e, L, k[2], k[3])

(* Labelled groups outside L, and the Mappings that join them, have their   *)
(* own labels only.                                                         *)
Unstamped(t, L) ==
  /\ \A m : MapKey(m) \in DOMAIN t.cache /\ t.cache[MapKey(m)].spec.group \in Labelled \ L =>
       t.cache[MapKey(m)].prepended = 0
  /\ \A g \in Labelled \ L : GroupKey(g) \in DOMAIN t.cache => t.cache[GroupKey(g)].prepended = 0

ConfigOK(s) == \A m \in Names : s.config[m] \in SpecsOf[m] \cup {Absent}

AconfOK ==
  /\ aconf = [config |-> aconf.config, module |-> aconf.module]
  /\ aconf.config = [m \in Names |-> aconf.config[m]] /\ ConfigOK(aconf)

FollowsInv ==
  /\ AconfOK /\ Rooted(memo)
  /\ Good(memo, aconf, deltas \cup missed, stamped, disputed) /\ Unstamped(memo, stamped)

-----------------------------------------------------------------------------
(* The least number of a set. *)
LEMMA Least ==
  ASSUME NEW N \in SUBSET Nat, N # {}
  PROVE  \E n \in N : \A k \in N : n <= k
<1>1. PICK n \in N : \A k \in N : ~ (<<k, n>> \in OpToRel(<, Nat))
  BY WFMin, NatLessThanWellFounded
<1>2. \A k \in N : ~ (k < n)
  BY <1>1 DEF OpToRel
<1> QED
  BY <1>2

(* The order of the aconf. *)
LEMMA PositionFacts ==
  /\ IsFiniteSet(Names)
  /\ \A m \in Names : Position(Order, m) \in Nat /\ Order[Position(Order, m)] = m
<1>1. \A m \in Names : Position(Order, m) \in DOMAIN Order /\ Order[Position(Order, m)] = m
  BY DEF Names, Position
<1>2. DOMAIN Order = 1 .. Len(Order) /\ Len(Order) \in Nat
  BY OrderAssumption
<1>3. IsFiniteSet(DOMAIN Order)
  BY <1>2, FS_Interval
<1>4. Order \in Surjection(DOMAIN Order, Names)
  BY OrderAssumption DEF Surjection, Names
<1>5. IsFiniteSet(Names)
  BY <1>3, <1>4, FS_Surjection
<1> QED
  BY <1>1, <1>2, <1>5

(* InOrder arranges a set of Mappings. *)
LEMMA InOrderFacts ==
  ASSUME NEW S \in SUBSET Names
  PROVE  InOrder(S) \in Seq(Names) /\ Elements(InOrder(S)) = S
<1> DEFINE pos(m) == Position(Order, m)
           upto(m) == {n \in S : pos(n) <= pos(m)}
           rank == [m \in S |-> Cardinality(upto(m))]
           N == Cardinality(S)
<1>1. IsFiniteSet(S) /\ N \in Nat
  BY PositionFacts, FS_Subset, FS_CardinalityType
<1>2. \A m \in S : pos(m) \in Nat /\ Order[pos(m)] = m
  BY PositionFacts
<1> HIDE DEF pos
<1>3. ASSUME NEW m \in S PROVE IsFiniteSet(upto(m)) /\ rank[m] \in 1 .. N
  <2>1. upto(m) \in SUBSET S /\ m \in upto(m)
    BY <1>2
  <2>2. IsFiniteSet(upto(m)) /\ Cardinality(upto(m)) <= N
    BY <1>1, <2>1, FS_Subset
  <2>3. Cardinality(upto(m)) \in Nat /\ Cardinality(upto(m)) # 0
    BY <2>1, <2>2, FS_CardinalityType, FS_EmptySet
  <2> QED
    BY <1>1, <2>2, <2>3
<1>4. ASSUME NEW m \in S, NEW n \in S, pos(m) < pos(n) PROVE rank[m] < rank[n]
  <2>1. upto(m) \in SUBSET upto(n) /\ n \in upto(n) /\ n \notin upto(m)
    BY <1>2, <1>4
  <2>2. Cardinality(upto(m)) <= Cardinality(upto(n)) /\ Cardinality(upto(m)) # Cardinality(upto(n))
    BY <1>3, <2>1, FS_Subset
  <2>3. rank[m] = Cardinality(upto(m)) /\ rank[n] = Cardinality(upto(n))
    OBVIOUS
  <2> HIDE DEF rank, upto
  <2> QED
    BY <1>1, <1>3, <2>2, <2>3
<1>5. rank \in [S -> 1 .. N]
  BY <1>3
<1> HIDE DEF upto
<1>6. \A m, n \in S : rank[m] = rank[n] => m = n
  <2> SUFFICES ASSUME NEW m \in S, NEW n \in S, rank[m] = rank[n] PROVE m = n
    OBVIOUS
  <2>1. rank[m] \in Nat /\ rank[n] \in Nat
    BY <1>1, <1>5
  <2> HIDE DEF rank
  <2>2. ~ (pos(m) < pos(n)) /\ ~ (pos(n) < pos(m))
    BY <1>4, <2>1
  <2>3. pos(m) = pos(n)
    BY <1>2, <2>2
  <2> QED
    BY <1>2, <2>3
<1>7. rank \in Injection(S, 1 .. N)
  <2> HIDE DEF rank, N
  <2> QED
    BY <1>5, <1>6 DEF Injection, IsInjective
<1>8. IsFiniteSet(1 .. N) /\ Cardinality(1 .. N) = N
  BY <1>1, FS_Interval
<1>9. rank \in Surjection(S, 1 .. N)
  BY <1>7, <1>8, FS_Injection
<1>10. \A i \in 1 .. N : \E m \in S : rank[m] = i
  BY <1>9 DEF Surjection
<1>11. \A m \in S : rank[m] = Cardinality({n \in S : Position(Order, n) <= Position(Order, m)})
  BY DEF upto, pos
<1> HIDE DEF rank
<1>12. /\ DOMAIN InOrder(S) = 1 .. N
       /\ \A i \in 1 .. N : InOrder(S)[i] \in S /\ rank[InOrder(S)[i]] = i
  <2>1. InOrder(S) = [i \in 1 .. N |->
          CHOOSE m \in S : Cardinality({n \in S : Position(Order, n) <= Position(Order, m)}) = i]
    BY DEF InOrder
  <2>2. \A i \in 1 .. N :
          \E m \in S : Cardinality({n \in S : Position(Order, n) <= Position(Order, m)}) = i
    BY <1>10, <1>11
  <2> HIDE DEF N
  <2>3. \A i \in 1 .. N : InOrder(S)[i] \in S /\
          Cardinality({n \in S : Position(Order, n) <= Position(Order, InOrder(S)[i])}) = i
    BY <2>1, <2>2
  <2> QED
    BY <1>11, <2>1, <2>3
<1> HIDE DEF N
<1>13. InOrder(S) \in [1 .. N -> Names]
  <2>1. InOrder(S) = [i \in 1 .. N |-> InOrder(S)[i]]
    BY DEF InOrder, N
  <2> QED
    BY <1>12, <2>1
<1>14. \A m \in S : rank[m] \in 1 .. N /\ InOrder(S)[rank[m]] = m
  BY <1>5, <1>6, <1>12
<1>15. DOMAIN InOrder(S) = 1 .. N
  BY <1>13
<1>16. Elements(InOrder(S)) = S
  BY <1>12, <1>14, <1>15 DEF Elements
<1> QED
  BY <1>1, <1>13, <1>16, SeqDef

LEMMA InOrderEmpty == InOrder({}) = <<>>
<1>1. InOrder({}) \in Seq(Names) /\ Elements(InOrder({})) = {}
  BY InOrderFacts
<1>2. \A i \in DOMAIN InOrder({}) : FALSE
  BY <1>1 DEF Elements
<1> HIDE DEF InOrder
<1>3. Len(InOrder({})) \in Nat /\ DOMAIN InOrder({}) = 1 .. Len(InOrder({}))
  BY <1>1, LenProperties
<1>4. Len(InOrder({})) = 0
  <2> DEFINE q == InOrder({})
  <2> HIDE DEF q
  <2>1. Len(q) \in Nat /\ DOMAIN q = 1 .. Len(q) /\ \A i \in DOMAIN q : FALSE
    BY <1>2, <1>3 DEF q
  <2>2. Len(q) = 0
    BY <2>1
  <2> QED
    BY <2>2 DEF q
<1> QED
  BY <1>1, <1>4, EmptySeq

LEMMA FirstFacts ==
  ASSUME NEW S \in SUBSET Names, S # {}
  PROVE  First(S) \in S
<1>1. InOrder(S) \in Seq(Names) /\ Elements(InOrder(S)) = S
  BY InOrderFacts
<1>2. InOrder(S) # <<>>
  BY <1>1 DEF Elements
<1>3. First(S) = InOrder(S)[1] /\ 1 \in DOMAIN InOrder(S)
  BY <1>1, <1>2 DEF First
<1> QED
  BY <1>1, <1>3 DEF Elements

-----------------------------------------------------------------------------
LEMMA KeyFacts ==
  /\ \A x : Kind(MapKey(x)) = "Mapping" /\ MapKey(x)[2] = x
  /\ \A x : Kind(GroupKey(x)) = "Group" /\ GroupKey(x)[2] = x
  /\ \A x : Kind(ClusterKey(x)) = "Cluster" /\ ClusterKey(x)[2] = x
  /\ \A x : Kind(V3Key(x)) = "V3" /\ V3Key(x)[2] = x
  /\ \A x, y : Kind(RouteKey(x, y)) = "Route" /\ RouteKey(x, y)[2] = x /\ RouteKey(x, y)[3] = y
  BY DEF Kind, MapKey, GroupKey, ClusterKey, V3Key, RouteKey

(* The keys are those of Mappings, groups, clusters, V3 clusters and routes. *)
Shaped(t) ==
  \A k \in DOMAIN t.cache :
    /\ Kind(k) = "Mapping" => k = MapKey(k[2])
    /\ Kind(k) = "Group" => k = GroupKey(k[2])
    /\ Kind(k) = "Cluster" => k = ClusterKey(k[2])
    /\ Kind(k) = "V3" => k = V3Key(k[2])
    /\ Kind(k) = "Route" => k = RouteKey(k[2], k[3])

(* Good, one kind after the other. *)
LEMMA GoodByKind ==
  ASSUME NEW t, NEW s, NEW e, NEW L, NEW D
  PROVE  Good(t, s, e, L, D) <=>
           /\ Shaped(t)
           /\ \A m : MapKey(m) \in DOMAIN t.cache => MappingGood(t, s, e, m)
           /\ \A g : GroupKey(g) \in DOMAIN t.cache => GroupGood(t, s, e, L, g)
           /\ \A c : ClusterKey(c) \in DOMAIN t.cache => ClusterGood(t, s, e, D, c)
           /\ \A c : V3Key(c) \in DOMAIN t.cache => V3Good(t, s, e, D, c)
           /\ \A g, m : RouteKey(g, m) \in DOMAIN t.cache => RouteGood(t, s, e, L, g, m)
  BY KeyFacts DEF Good, Shaped

(* An empty cache is good. *)
LEMMA EmptyGood ==
  ASSUME NEW t, DOMAIN t.cache = {}, NEW s, NEW e, NEW L, NEW D
  PROVE  Good(t, s, e, L, D) /\ Unstamped(t, L)
  BY DEF Good, Unstamped

(* What invalidate leaves. *)
LEMMA InvalidateFacts ==
  ASSUME NEW t, NEW ks, Rooted(t)
  PROVE  LET u == invalidate(t, ks)
         IN  /\ \A k \in DOMAIN u.cache : k \in DOMAIN t.cache /\ u.cache[k] = t.cache[k] /\ k \notin ks
             /\ \A o, k : o \in DOMAIN u.cache /\ <<o, k>> \in t.links => <<o, k>> \in u.links
             /\ \A o \in DOMAIN t.cache, k \in DOMAIN u.cache :
                  <<o, k>> \in t.links => o \in DOMAIN u.cache
<1> DEFINE dead == Owned(t, Owned(t, Owned(t, ks \cap DOMAIN t.cache)))
           u == invalidate(t, ks)
<1>1. /\ DOMAIN u.cache = DOMAIN t.cache \ dead
      /\ \A k \in DOMAIN u.cache : u.cache[k] = t.cache[k]
      /\ u.links = {p \in t.links : p[1] \notin dead}
  BY DEF invalidate
<1>2. \A o \in dead, k \in DOMAIN t.cache : <<o, k>> \in t.links => k \in dead
  BY OwnedClosed DEF Rooted
<1>3. ks \cap DOMAIN t.cache \subseteq dead
  BY DEF Owned
<1> HIDE DEF dead, u
<1>4. \A o, k : o \in DOMAIN u.cache /\ <<o, k>> \in t.links => <<o, k>> \in u.links
  BY <1>1
<1>5. \A o \in DOMAIN t.cache, k \in DOMAIN u.cache : <<o, k>> \in t.links => o \in DOMAIN u.cache
  BY <1>1, <1>2
<1> QED
  BY <1>1, <1>3, <1>4, <1>5 DEF u

(* Invalidation keeps a good cache good, also if fewer deltas are exempt    *)
(* afterwards: those whose Mappings and groups it has removed.              *)
LEMMA InvalidateGood ==
  ASSUME NEW t, NEW ks, NEW s, NEW e, NEW f, NEW L, NEW D, Rooted(t), Good(t, s, e, L, D),
         "Module" \notin f => "Module" \notin e,
         \A m : MapKey(m) \in DOMAIN invalidate(t, ks).cache /\ m \notin f => m \notin e,
         \A m \in live(s) \ f :
            GroupKey(s.config[m].group) \in DOMAIN invalidate(t, ks).cache => m \notin e
  PROVE  Good(invalidate(t, ks), s, f, L, D)
<1> DEFINE u == invalidate(t, ks)
<1>1. /\ \A k \in DOMAIN u.cache : k \in DOMAIN t.cache /\ u.cache[k] = t.cache[k]
      /\ \A o, k : o \in DOMAIN u.cache /\ <<o, k>> \in t.links => <<o, k>> \in u.links
      /\ \A o \in DOMAIN t.cache, k \in DOMAIN u.cache :
            <<o, k>> \in t.links => o \in DOMAIN u.cache
  BY InvalidateFacts
<1>2. /\ \A m : MapKey(m) \in DOMAIN u.cache /\ m \notin f => m \notin e
      /\ \A m \in live(s) \ f : GroupKey(s.config[m].group) \in DOMAIN u.cache => m \notin e
  OBVIOUS
<1> HIDE DEF u
<1>3. /\ Shaped(t)
      /\ \A m : MapKey(m) \in DOMAIN t.cache => MappingGood(t, s, e, m)
      /\ \A g : GroupKey(g) \in DOMAIN t.cache => GroupGood(t, s, e, L, g)
      /\ \A c : ClusterKey(c) \in DOMAIN t.cache => ClusterGood(t, s, e, D, c)
      /\ \A c : V3Key(c) \in DOMAIN t.cache => V3Good(t, s, e, D, c)
      /\ \A g, m : RouteKey(g, m) \in DOMAIN t.cache => RouteGood(t, s, e, L, g, m)
  BY GoodByKind
<1>4. Shaped(u)
  BY <1>1, <1>3 DEF Shaped
<1>5. \A m : MapKey(m) \in DOMAIN u.cache => MappingGood(u, s, f, m)
  BY <1>1, <1>2, <1>3 DEF MappingGood
<1>6. \A m, g : Joins(t, m, g) /\ GroupKey(g) \in DOMAIN u.cache => Joins(u, m, g)
  BY <1>1 DEF Joins
<1>7. ASSUME NEW g, GroupKey(g) \in DOMAIN u.cache PROVE GroupGood(u, s, f, L, g)
  <2>1. GroupGood(t, s, e, L, g) /\ u.cache[GroupKey(g)] = t.cache[GroupKey(g)]
    BY <1>1, <1>3, <1>7
  <2> DEFINE o == t.cache[GroupKey(g)]
  <2>2. \A m \in Elements(o.maps) : Joins(u, m, g)
    BY <1>6, <1>7, <2>1 DEF GroupGood
  <2>3. g \notin L => \A m \in live(s) \ f : s.config[m].group = g => m \in Elements(o.maps)
    BY <1>2, <1>7, <2>1 DEF GroupGood
  <2>4. Elements(o.maps) \cap f = {} => Elements(o.maps) \cap e = {}
    BY <1>2, <2>2 DEF Joins
  <2> QED
    BY <2>1, <2>2, <2>3, <2>4 DEF GroupGood
<1>8. ASSUME NEW c, ClusterKey(c) \in DOMAIN u.cache PROVE ClusterGood(u, s, f, D, c)
  <2>1. ClusterGood(t, s, e, D, c) /\ u.cache[ClusterKey(c)] = t.cache[ClusterKey(c)]
    BY <1>1, <1>3, <1>8
  <2>2. ASSUME NEW m \in Names, NEW g \in Groups, Provides(t, m, g, c) PROVE Provides(u, m, g, c)
    <3>1. GroupKey(g) \in DOMAIN u.cache /\ <<GroupKey(g), ClusterKey(c)>> \in u.links
      BY <1>1, <1>8, <2>2 DEF Provides
    <3>2. Joins(u, m, g) /\ u.cache[MapKey(m)] = t.cache[MapKey(m)]
      BY <1>1, <1>6, <2>2, <3>1 DEF Provides, Joins
    <3> QED
      BY <2>1, <2>2, <3>1, <3>2 DEF Provides
  <2> QED
    BY <2>1, <2>2 DEF ClusterGood
<1>9. ASSUME NEW c, V3Key(c) \in DOMAIN u.cache PROVE V3Good(u, s, f, D, c)
  BY <1>1, <1>3, <1>9 DEF V3Good
<1>10. ASSUME NEW g, NEW m, RouteKey(g, m) \in DOMAIN u.cache PROVE RouteGood(u, s, f, L, g, m)
  <2>1. RouteGood(t, s, e, L, g, m) /\ u.cache[RouteKey(g, m)] = t.cache[RouteKey(g, m)]
    BY <1>1, <1>3, <1>10
  <2>2. GroupKey(g) \in DOMAIN u.cache /\ <<GroupKey(g), RouteKey(g, m)>> \in u.links
    BY <1>1, <1>10, <2>1 DEF RouteGood
  <2>3. u.cache[GroupKey(g)] = t.cache[GroupKey(g)]
    BY <1>1, <2>2
  <2>4. \A n \in Elements(t.cache[GroupKey(g)].maps) : Joins(u, n, g)
    BY <1>7, <2>2, <2>3 DEF GroupGood
  <2>5. u.cache[MapKey(m)] = t.cache[MapKey(m)]
    BY <1>1, <2>1, <2>4 DEF RouteGood, Joins
  <2>6. Elements(t.cache[GroupKey(g)].maps) \cap f = {} => Elements(t.cache[GroupKey(g)].maps) \cap e = {}
    BY <1>2, <2>4 DEF Joins
  <2> QED
    BY <2>1, <2>2, <2>3, <2>5, <2>6 DEF RouteGood
<1> QED
  BY <1>4, <1>5, <1>7, <1>8, <1>9, <1>10, GoodByKind DEF u

-----------------------------------------------------------------------------
(* After check_deltas and the invalidation of the groups that changed       *)
(* Mappings join, only what earlier failures kept from the cache is exempt. *)
Unfollowed(d, miss) == IF incremental(d) THEN (miss \ d) \cup (d \ Names) ELSE {}

LEMMA InvalidateUnstamped ==
  ASSUME NEW t, NEW ks, NEW L, Rooted(t), Unstamped(t, L)
  PROVE  Unstamped(invalidate(t, ks), L)
<1>1. \A k \in DOMAIN invalidate(t, ks).cache :
         k \in DOMAIN t.cache /\ invalidate(t, ks).cache[k] = t.cache[k]
  BY InvalidateFacts
<1> QED
  BY <1>1 DEF Unstamped

LEMMA CheckDeltasGood ==
  ASSUME NEW t, NEW s, NEW d, NEW e, NEW L, NEW D, Rooted(t), Good(t, s, e, L, D), Unstamped(t, L)
  PROVE  Good(check_deltas(t, d), s, e, L, D) /\ Unstamped(check_deltas(t, d), L)
<1>1. Good(Nothing, s, e, L, D) /\ Unstamped(Nothing, L)
  BY EmptyGood DEF Nothing
<1>2. /\ Good(invalidate(t, {MapKey(m) : m \in d \cap Names}), s, e, L, D)
      /\ Unstamped(invalidate(t, {MapKey(m) : m \in d \cap Names}), L)
  <2> DEFINE ks == {MapKey(m) : m \in d \cap Names}
  <2> HIDE DEF ks
  <2>1. Good(invalidate(t, ks), s, e, L, D) /\ Unstamped(invalidate(t, ks), L)
    BY InvalidateGood, InvalidateUnstamped
  <2> QED
    BY <2>1 DEF ks
<1> QED
  BY <1>1, <1>2 DEF check_deltas

LEMMA ReadyGood ==
  ASSUME NEW t, NEW s, NEW d, NEW miss, NEW L, NEW D, Rooted(t),
         Good(t, s, d \cup miss, L, D), Unstamped(t, L), "Module" \notin Names
  PROVE  LET K == IF incremental(d) THEN L ELSE {}
             B == IF incremental(d) THEN D ELSE {}
         IN  Good(ready(t, s, d), s, Unfollowed(d, miss), K, B) /\ Unstamped(ready(t, s, d), K)
<1> DEFINE t0 == check_deltas(t, d)
           ks == {GroupKey(object(t0, s, m).spec.group) : m \in d \cap live(s)}
           e == d \cup miss
           f == Unfollowed(d, miss)
<1>1. Rooted(t0) /\ Good(t0, s, e, L, D) /\ Unstamped(t0, L)
  BY CheckDeltasRooted, CheckDeltasGood
<1>2. CASE incremental(d)
  <2>1. f = (miss \ d) \cup (d \ Names)
    BY <1>2 DEF Unfollowed
  <2>2. \A m \in d \cap Names : MapKey(m) \notin DOMAIN t0.cache
    <3>1. t0 = invalidate(t, {MapKey(m) : m \in d \cap Names})
      BY <1>2 DEF check_deltas
    <3>2. \A k \in DOMAIN t0.cache : k \notin {MapKey(m) : m \in d \cap Names}
      <4> DEFINE K == {MapKey(m) : m \in d \cap Names}
      <4> HIDE DEF K
      <4>1. \A k \in DOMAIN invalidate(t, K).cache : k \notin K
        BY InvalidateFacts
      <4> QED
        BY <3>1, <4>1 DEF K
    <3> QED
      BY <3>2
  <2>3. \A m : m \in e /\ m \notin f => m \in d \cap Names
    BY <2>1
  <2>4. \A m \in d \cap live(s) : GroupKey(s.config[m].group) \in ks
    <3> SUFFICES ASSUME NEW m \in d \cap live(s) PROVE GroupKey(s.config[m].group) \in ks
      OBVIOUS
    <3>1. object(t0, s, m).spec = s.config[m]
      BY <2>2 DEF object, live
    <3> QED
      BY <3>1
  <2> HIDE DEF t0, ks, e, f
  <2>5. /\ \A k \in DOMAIN invalidate(t0, ks).cache : k \in DOMAIN t0.cache
        /\ \A k \in DOMAIN invalidate(t0, ks).cache : k \notin ks
    BY <1>1, InvalidateFacts
  <2>6. "Module" \notin f => "Module" \notin e
    BY <2>3
  <2>7. \A m : MapKey(m) \in DOMAIN invalidate(t0, ks).cache /\ m \notin f => m \notin e
    BY <2>2, <2>3, <2>5
  <2>8. \A m \in live(s) \ f :
          GroupKey(s.config[m].group) \in DOMAIN invalidate(t0, ks).cache => m \notin e
    BY <2>3, <2>4, <2>5
  <2>9. Good(invalidate(t0, ks), s, f, L, D) /\ Unstamped(invalidate(t0, ks), L)
    BY <1>1, <2>6, <2>7, <2>8, InvalidateGood, InvalidateUnstamped
  <2> QED
    BY <1>2, <2>9 DEF ready, invalidate_groups_for, t0, ks, f
<1>3. CASE ~ incremental(d)
  <2>1. DOMAIN t0.cache = {}
    BY <1>3 DEF check_deltas, Nothing
  <2>2. DOMAIN invalidate(t0, ks).cache = {}
    <3> HIDE DEF t0, ks
    <3> QED
      BY <1>1, <2>1, InvalidateFacts
  <2> QED
    BY <1>3, <2>2, EmptyGood DEF ready, invalidate_groups_for
<1> QED
  BY <1>2, <1>3

LEMMA ConcatElements ==
  ASSUME NEW q \in Seq(Names), NEW r \in Seq(Names)
  PROVE  q \o r \in Seq(Names) /\ Elements(q \o r) = Elements(q) \cup Elements(r)
<1>1. /\ q \o r \in Seq(Names) /\ Len(q \o r) = Len(q) + Len(r)
      /\ \A i \in 1 .. Len(q) + Len(r) : (q \o r)[i] = IF i <= Len(q) THEN q[i] ELSE r[i - Len(q)]
  BY ConcatProperties
<1>2. /\ DOMAIN q = 1 .. Len(q) /\ DOMAIN r = 1 .. Len(r) /\ DOMAIN (q \o r) = 1 .. Len(q) + Len(r)
      /\ Len(q) \in Nat /\ Len(r) \in Nat
  BY <1>1, LenProperties
<1>3. \A i \in 1 .. Len(q) : i \in 1 .. Len(q) + Len(r) /\ (q \o r)[i] = q[i]
  BY <1>1, <1>2
<1>4. \A i \in 1 .. Len(r) : /\ i + Len(q) \in 1 .. Len(q) + Len(r)
                             /\ (q \o r)[i + Len(q)] = r[i]
  BY <1>1, <1>2
<1>5. \A i \in 1 .. Len(q) + Len(r) :
        (i \in 1 .. Len(q) /\ (q \o r)[i] = q[i])
        \/ (i - Len(q) \in 1 .. Len(r) /\ (q \o r)[i] = r[i - Len(q)])
  BY <1>1, <1>2
<1> QED
  BY <1>1, <1>2, <1>3, <1>4, <1>5 DEF Elements

(* What the compilation of a snapshot starts from. *)
Sound(t, s, e, L, D) == Good(t, s, e, L, D) /\ Unstamped(t, L) /\ ConfigOK(s)

(* The object that a Mapping of the aconf or of the cache gets. *)
LEMMA ObjectFacts ==
  ASSUME NEW t, NEW s, NEW e, NEW L, NEW D, Sound(t, s, e, L, D),
         NEW m, m \in live(s) \/ MapKey(m) \in DOMAIN t.cache
  PROVE  LET o == object(t, s, m)
         IN  /\ m \in Names
             /\ o = [spec |-> o.spec, mod |-> o.mod, key |-> o.key, prepended |-> o.prepended]
             /\ o.spec \in SpecsOf[m] /\ o.prepended \in Nat
             /\ m \notin e => o.spec = s.config[m]
             /\ "Module" \notin e => o.mod = s.module
             /\ o.spec.group \in Labelled \ L => o.prepended = 0
<1>0. Good(t, s, e, L, D) /\ Unstamped(t, L) /\ ConfigOK(s)
  BY DEF Sound
<1>1. CASE MapKey(m) \in DOMAIN t.cache
  <2>1. MappingGood(t, s, e, m) /\ object(t, s, m) = t.cache[MapKey(m)]
    BY <1>0, <1>1, GoodByKind DEF object
  <2>2. object(t, s, m).spec.group \in Labelled \ L => object(t, s, m).prepended = 0
    BY <1>0, <1>1, <2>1 DEF Unstamped
  <2> QED
    BY <2>1, <2>2 DEF MappingGood
<1>2. CASE MapKey(m) \notin DOMAIN t.cache
  <2>1. object(t, s, m) = [spec |-> s.config[m], mod |-> s.module, key |-> NoKey, prepended |-> 0]
    BY <1>2 DEF object
  <2>2. m \in Names /\ s.config[m] \in SpecsOf[m]
    BY <1>0, <1>2 DEF live, ConfigOK
  <2> QED
    BY <2>1, <2>2
<1> QED
  BY <1>1, <1>2

(* What add_mappings makes of a group. *)
GroupMade(t, s, e, L, g, o) ==
  /\ o = [maps |-> o.maps, mod |-> o.mod, prepended |-> o.prepended]
  /\ o.maps \in Seq(Names) /\ o.prepended \in Nat
  /\ \A m \in Elements(o.maps) :
        /\ object(t, s, m).spec.group = g
        /\ m \in live(s) \/ (GroupKey(g) \in DOMAIN t.cache /\ Joins(t, m, g))
  /\ g \notin L =>
        /\ \A m \in live(s) \ e : s.config[m].group = g => m \in Elements(o.maps)
        /\ Elements(o.maps) \cap e = {} => o.maps = InOrder(Elements(o.maps))
  /\ GroupKey(g) \in DOMAIN t.cache =>
        /\ Elements(t.cache[GroupKey(g)].maps) \subseteq Elements(o.maps)
        /\ g \notin L /\ Elements(o.maps) \cap e = {} => o.maps = t.cache[GroupKey(g)].maps
  /\ "Module" \notin e =>
        /\ o.mod = s.module
        /\ g \notin L /\ o.prepended # 0 => s.module \in DefaultsAt
  /\ g \in Labelled \ L => o.prepended = 0

LEMMA GroupFacts ==
  ASSUME NEW t, NEW s, NEW e, NEW L, NEW D, Sound(t, s, e, L, D),
         NEW g, members(t, s, g) # {}
  PROVE  GroupMade(t, s, e, L, g, group(t, s, g))
<1> DEFINE M == members(t, s, g)
<1>1. Good(t, s, e, L, D) /\ Unstamped(t, L) /\ ConfigOK(s)
  BY DEF Sound
<1>2. \A m \in live(s) : /\ m \in Names /\ (m \notin e => object(t, s, m).spec = s.config[m])
                         /\ object(t, s, m).prepended \in Nat
                         /\ object(t, s, m).spec.group \in Labelled \ L => object(t, s, m).prepended = 0
  BY ObjectFacts
<1>3. /\ M \in SUBSET Names /\ M # {}
      /\ \A m : m \in M <=> m \in live(s) /\ object(t, s, m).spec.group = g
  BY <1>2 DEF members
<1> HIDE DEF M
<1>4. CASE GroupKey(g) \notin DOMAIN t.cache
  <2> DEFINE n == IF g \in Labelled THEN object(t, s, First(M)).prepended ELSE 0
             A == accepted(t, s, g, n, M)
  <2>1. group(t, s, g) = [maps |-> InOrder(A), mod |-> s.module, prepended |-> n]
    BY <1>4 DEF group, M
  <2>2. First(M) \in M
    BY <1>3, FirstFacts
  <2>3. n \in Nat /\ (g \notin L => n = 0)
    BY <1>2, <1>3, <2>2
  <2> HIDE DEF n
  <2>4. A \subseteq M /\ (g \notin L => A = M)
    BY <1>2, <1>3, <2>3 DEF accepted
  <2> HIDE DEF A
  <2>5. InOrder(A) \in Seq(Names) /\ Elements(InOrder(A)) = A
    BY <1>3, <2>4, InOrderFacts
  <2>6. g \notin L => \A m \in live(s) \ e : s.config[m].group = g => m \in A
    BY <1>2, <1>3, <2>4
  <2> QED
    BY <1>3, <1>4, <2>1, <2>3, <2>4, <2>5, <2>6 DEF GroupMade
<1>5. CASE GroupKey(g) \in DOMAIN t.cache
  <2> DEFINE old == t.cache[GroupKey(g)]
             add == accepted(t, s, g, old.prepended, (M \ {First(M)}) \ Elements(old.maps))
             maps == old.maps \o InOrder(add)
  <2>1. GroupGood(t, s, e, L, g)
    BY <1>1, <1>5, GoodByKind
  <2>2. /\ old = [maps |-> old.maps, mod |-> old.mod, prepended |-> old.prepended]
        /\ old.maps \in Seq(Names) /\ old.prepended \in Nat
        /\ \A m \in Elements(old.maps) : Joins(t, m, g)
        /\ g \notin L =>
             /\ \A m \in live(s) \ e : s.config[m].group = g => m \in Elements(old.maps)
             /\ Elements(old.maps) \cap e = {} => old.maps = InOrder(Elements(old.maps))
        /\ "Module" \notin e =>
             /\ old.mod = s.module
             /\ g \notin L /\ old.prepended # 0 => s.module \in DefaultsAt
    BY <2>1 DEF GroupGood
  <2>3. g \in Labelled \ L => old.prepended = 0
    BY <1>1, <1>5 DEF Unstamped
  <2>4. group(t, s, g) = [old EXCEPT !.maps = maps]
    BY <1>5 DEF group, M
  <2> HIDE DEF old
  <2>5. add \in SUBSET Names /\ add \subseteq M /\ add \cap Elements(old.maps) = {}
    BY <1>3 DEF accepted
  <2>6. InOrder(add) \in Seq(Names) /\ Elements(InOrder(add)) = add
    BY <2>5, InOrderFacts
  <2>7. maps \in Seq(Names) /\ Elements(maps) = Elements(old.maps) \cup add
    BY <2>2, <2>6, ConcatElements
  <2>8. \A m \in Elements(old.maps) : object(t, s, m).spec.group = g
    BY <2>2 DEF Joins, object
  <2>9. g \notin L => \A m \in add : m \in e
    BY <1>2, <1>3, <2>2, <2>5
  <2>10. g \notin L /\ Elements(maps) \cap e = {} => maps = old.maps
    <3> SUFFICES ASSUME g \notin L, Elements(maps) \cap e = {} PROVE maps = old.maps
      OBVIOUS
    <3>1. add = {}
      BY <2>7, <2>9
    <3>2. maps = old.maps \o <<>>
      BY <3>1, InOrderEmpty
    <3> QED
      BY <2>2, <3>2, ConcatEmptySeq
  <2> HIDE DEF maps, add
  <2>11. group(t, s, g) = [maps |-> maps, mod |-> old.mod, prepended |-> old.prepended]
    BY <2>2, <2>4
  <2>12. g \notin L /\ Elements(maps) \cap e = {} => maps = InOrder(Elements(maps))
    BY <2>2, <2>7, <2>10
  <2> QED
    BY <1>3, <1>5, <2>2, <2>3, <2>5, <2>7, <2>8, <2>10, <2>11, <2>12 DEF GroupMade, old
<1> QED
  BY <1>4, <1>5

LEMMA AddMappingsFacts ==
  ASSUME NEW t, NEW s, NEW e, NEW L, NEW D, Sound(t, s, e, L, D)
  PROVE  /\ DOMAIN add_mappings(t, s) = {object(t, s, m).spec.group : m \in live(s)}
         /\ \A g \in DOMAIN add_mappings(t, s) : GroupMade(t, s, e, L, g, add_mappings(t, s)[g])
<1>1. /\ DOMAIN add_mappings(t, s) = {object(t, s, m).spec.group : m \in live(s)}
      /\ \A g \in DOMAIN add_mappings(t, s) : add_mappings(t, s)[g] = group(t, s, g)
  BY DEF add_mappings
<1>2. \A g \in DOMAIN add_mappings(t, s) : members(t, s, g) # {}
  BY <1>1 DEF members
<1> HIDE DEF add_mappings
<1> QED
  BY <1>1, <1>2, GroupFacts

(* The Mappings that the groups name are in the aconf or in the cache. *)
LEMMA UserFacts ==
  ASSUME NEW t, NEW s, NEW e, NEW L, NEW D, Sound(t, s, e, L, D),
         NEW u \in Users(add_mappings(t, s))
  PROVE  /\ u = <<u[1], u[2]>> /\ u[1] \in DOMAIN add_mappings(t, s)
         /\ u[2] \in Elements(add_mappings(t, s)[u[1]].maps)
         /\ object(t, s, u[2]).spec.group = u[1]
         /\ u[2] \in live(s) \/ (GroupKey(u[1]) \in DOMAIN t.cache /\ Joins(t, u[2], u[1]))
         /\ u[2] \in Names /\ object(t, s, u[2]).spec \in SpecsOf[u[2]]
<1>1. /\ u = <<u[1], u[2]>> /\ u[1] \in DOMAIN add_mappings(t, s)
      /\ u[2] \in Elements(add_mappings(t, s)[u[1]].maps)
  BY DEF Users
<1>2. GroupMade(t, s, e, L, u[1], add_mappings(t, s)[u[1]])
  BY <1>1, AddMappingsFacts
<1>3. /\ object(t, s, u[2]).spec.group = u[1]
      /\ u[2] \in live(s) \/ (GroupKey(u[1]) \in DOMAIN t.cache /\ Joins(t, u[2], u[1]))
  BY <1>1, <1>2 DEF GroupMade
<1>4. u[2] \in live(s) \/ MapKey(u[2]) \in DOMAIN t.cache
  BY <1>3 DEF Joins
<1>5. u[2] \in Names /\ object(t, s, u[2]).spec \in SpecsOf[u[2]]
  BY <1>4, ObjectFacts
<1> QED
  BY <1>1, <1>3, <1>5

(* Among the users of a cluster there is a first. *)
LEMMA FirstUser ==
  ASSUME NEW t, NEW s, NEW e, NEW L, NEW D, Sound(t, s, e, L, D), NEW c,
         UsersOf(t, s, add_mappings(t, s), c) # {}
  PROVE  \E u \in UsersOf(t, s, add_mappings(t, s), c) :
           \A w \in UsersOf(t, s, add_mappings(t, s), c) : Earlier(t, s, add_mappings(t, s), u, w)
<1> DEFINE gs == add_mappings(t, s)
           U == UsersOf(t, s, gs, c)
           head(g) == First(members(t, s, g))
           P(u) == Position(Order, head(u[1]))
           Q(u) == Position(gs[u[1]].maps, u[2])
<1>1. \A u \in U : u[1] \in DOMAIN gs /\ u[2] \in Elements(gs[u[1]].maps)
  BY UserFacts DEF UsersOf
<1>2. DOMAIN gs = {object(t, s, m).spec.group : m \in live(s)}
  BY AddMappingsFacts
<1>3. ASSUME NEW g \in DOMAIN gs
      PROVE  /\ head(g) \in Names /\ object(t, s, head(g)).spec.group = g
             /\ gs[g].maps \in Seq(Names)
  <2>1. members(t, s, g) # {} /\ members(t, s, g) \in SUBSET Names
    BY <1>2 DEF members, live
  <2>2. head(g) \in members(t, s, g)
    BY <2>1, FirstFacts
  <2>3. GroupMade(t, s, e, L, g, gs[g])
    BY AddMappingsFacts
  <2> QED
    BY <2>1, <2>2, <2>3 DEF members, GroupMade
<1>4. \A u \in U : P(u) \in Nat /\ Order[P(u)] = head(u[1])
  BY <1>1, <1>3, PositionFacts
<1>5. ASSUME NEW u \in U PROVE Q(u) \in Nat
  <2> DEFINE q == gs[u[1]].maps
  <2>1. q \in Seq(Names) /\ u[2] \in Elements(q)
    BY <1>1, <1>3
  <2> HIDE DEF q
  <2>2. DOMAIN q = 1 .. Len(q) /\ Len(q) \in Nat
    BY <2>1, LenProperties
  <2>3. Position(q, u[2]) \in DOMAIN q
    BY <2>1 DEF Position, Elements
  <2> QED
    BY <2>2, <2>3 DEF q
<1>6. \A u, w \in U : P(u) = P(w) => u[1] = w[1]
  <2> SUFFICES ASSUME NEW u \in U, NEW w \in U, P(u) = P(w) PROVE u[1] = w[1]
    OBVIOUS
  <2>1. head(u[1]) = head(w[1])
    BY <1>4
  <2> HIDE DEF P, head
  <2> QED
    BY <1>1, <1>3, <2>1
<1>7. \A u, w \in U : u[1] = w[1] => P(u) = P(w)
  OBVIOUS
<1>8. \A u, w : Earlier(t, s, gs, u, w) <=> IF u[1] = w[1] THEN Q(u) <= Q(w) ELSE P(u) < P(w)
  <2> SUFFICES ASSUME NEW u, NEW w
               PROVE  Earlier(t, s, gs, u, w) <=> IF u[1] = w[1] THEN Q(u) <= Q(w) ELSE P(u) < P(w)
    OBVIOUS
  <2> QED
    BY DEF Earlier
<1> HIDE DEF P, Q, head
<1>9. PICK u1 \in U : \A w \in U : P(u1) <= P(w)
  <2> DEFINE N == {P(u) : u \in U}
  <2>1. N \in SUBSET Nat /\ N # {}
    BY <1>4
  <2>2. PICK n \in N : \A k \in N : n <= k
    BY <2>1, Least
  <2> QED
    BY <2>2
<1>10. PICK u2 \in U : P(u2) = P(u1) /\ \A w \in U : P(w) = P(u1) => Q(u2) <= Q(w)
  <2> DEFINE V == {u \in U : P(u) = P(u1)}
             N == {Q(u) : u \in V}
  <2>1. N \in SUBSET Nat /\ N # {}
    BY <1>5
  <2>2. PICK n \in N : \A k \in N : n <= k
    BY <2>1, Least
  <2> QED
    BY <2>2
<1>11. \A w \in U : Earlier(t, s, gs, u2, w)
  <2> SUFFICES ASSUME NEW w \in U PROVE Earlier(t, s, gs, u2, w)
    OBVIOUS
  <2>1. P(u2) \in Nat /\ P(w) \in Nat /\ P(u2) <= P(w)
    BY <1>4, <1>9, <1>10
  <2>2. CASE u2[1] = w[1]
    BY <1>7, <1>8, <1>10, <2>2
  <2>3. CASE u2[1] # w[1]
    <3>1. P(u2) # P(w)
      BY <1>6, <2>3
    <3>2. P(u2) < P(w)
      BY <2>1, <3>1
    <3> QED
      BY <1>8, <2>3, <3>2
  <2> QED
    BY <2>2, <2>3
<1> QED
  BY <1>11

(* A cluster that is not disputed is the one that each of its users asks    *)
(* for, whether it is new or cached.                                        *)
LEMMA AskedFacts ==
  ASSUME NEW t, NEW s, NEW e, NEW L, NEW D, Sound(t, s, e, L, D), Contested(t, s) \subseteq D,
         NEW m, m \in live(s) \/ MapKey(m) \in DOMAIN t.cache,
         NEW n, n \in live(s) \/ MapKey(n) \in DOMAIN t.cache,
         object(t, s, m).spec.cluster = object(t, s, n).spec.cluster,
         object(t, s, m).spec.cluster \notin D
  PROVE  object(t, s, m).spec.par = object(t, s, n).spec.par
<1> DEFINE X(p) == object(t, s, p).spec
<1>1. ASSUME NEW p, p \in live(s) \/ MapKey(p) \in DOMAIN t.cache PROVE X(p) \in asked(t, s)
  <2>1. CASE MapKey(p) \in DOMAIN t.cache
    <3>1. p \in Names
      BY <2>1, ObjectFacts
    <3> QED
      BY <2>1, <3>1 DEF asked, object
  <2>2. CASE MapKey(p) \notin DOMAIN t.cache
    BY <1>1, <2>2 DEF asked, object
  <2> QED
    BY <2>1, <2>2
<1>2. X(m) \in asked(t, s) /\ X(n) \in asked(t, s)
  BY <1>1
<1> HIDE DEF X
<1>3. X(m).par # X(n).par /\ X(m).cluster = X(n).cluster => X(m).cluster \in Contested(t, s)
  BY <1>2 DEF Contested
<1> QED
  BY <1>3 DEF X

LEMMA AddClusterFacts ==
  ASSUME NEW t, NEW s, NEW e, NEW L, NEW D, Sound(t, s, e, L, D), Contested(t, s) \subseteq D,
         NEW u \in Users(add_mappings(t, s)), NEW c, object(t, s, u[2]).spec.cluster = c
  PROVE  LET o == add_cluster(t, s, add_mappings(t, s), c)
         IN  /\ o = [par |-> o.par, mod |-> o.mod]
             /\ "Module" \notin e => o.mod = s.module
             /\ c \notin D => o.par = object(t, s, u[2]).spec.par
             /\ c \notin D /\ ClusterKey(c) \in DOMAIN t.cache =>
                  t.cache[ClusterKey(c)].par = object(t, s, u[2]).spec.par
<1> DEFINE gs == add_mappings(t, s)
           U == UsersOf(t, s, gs, c)
           first == CHOOSE v \in U : \A w \in U : Earlier(t, s, gs, v, w)
           X(m) == object(t, s, m).spec
           o == add_cluster(t, s, gs, c)
<1>1. u \in U
  BY DEF UsersOf
<1>2. first \in U
  BY <1>1, FirstUser
<1>3. o = IF object(t, s, first[2]).key # NoKey /\ ClusterKey(c) \in DOMAIN t.cache
          THEN t.cache[ClusterKey(c)]
          ELSE [par |-> X(first[2]).par, mod |-> s.module]
  BY DEF add_cluster
<1> HIDE DEF first, o
<1>4. /\ first[2] \in live(s) \/ MapKey(first[2]) \in DOMAIN t.cache
      /\ u[2] \in live(s) \/ MapKey(u[2]) \in DOMAIN t.cache
      /\ X(first[2]).cluster = c /\ X(u[2]).cluster = c
  BY <1>1, <1>2, UserFacts DEF UsersOf, Joins
<1>5. c \notin D => X(first[2]).par = X(u[2]).par
  BY <1>4, AskedFacts
<1>6. ASSUME ClusterKey(c) \in DOMAIN t.cache
      PROVE  LET k == t.cache[ClusterKey(c)]
             IN  /\ k = [par |-> k.par, mod |-> k.mod] /\ (c \notin D => k.par = X(u[2]).par)
                 /\ "Module" \notin e => k.mod = s.module
  <2> DEFINE k == t.cache[ClusterKey(c)]
  <2>1. ClusterGood(t, s, e, D, c)
    BY <1>6, GoodByKind DEF Sound
  <2>2. ASSUME c \notin D PROVE k.par = X(u[2]).par
    <3>1. PICK m \in Names, g \in Groups : Provides(t, m, g, c)
      BY <2>1, <2>2 DEF ClusterGood
    <3>2. MapKey(m) \in DOMAIN t.cache /\ X(m).cluster = c /\ X(m).par = k.par
      BY <3>1 DEF Provides, Joins, object
    <3> QED
      BY <1>4, <2>2, <3>2, AskedFacts
  <2> QED
    BY <2>1, <2>2 DEF ClusterGood
<1> HIDE DEF X
<1>7. /\ o = [par |-> o.par, mod |-> o.mod]
      /\ "Module" \notin e => o.mod = s.module
      /\ c \notin D => o.par = X(u[2]).par
  <2>1. CASE object(t, s, first[2]).key # NoKey /\ ClusterKey(c) \in DOMAIN t.cache
    <3>1. o = t.cache[ClusterKey(c)]
      BY <1>3, <2>1
    <3> QED
      BY <1>6, <2>1, <3>1
  <2>2. CASE ~ (object(t, s, first[2]).key # NoKey /\ ClusterKey(c) \in DOMAIN t.cache)
    <3>1. o = [par |-> X(first[2]).par, mod |-> s.module]
      BY <1>3, <2>2
    <3> QED
      BY <1>5, <3>1
  <2> QED
    BY <2>1, <2>2
<1>8. c \notin D /\ ClusterKey(c) \in DOMAIN t.cache => t.cache[ClusterKey(c)].par = X(u[2]).par
  BY <1>6
<1> QED
  BY <1>7, <1>8 DEF X, o

-----------------------------------------------------------------------------
Cached(t, k) == k \in DOMAIN t.cache

(* The users that have no cluster_key yet. *)
FreshUsers(t, s, us) == {u \in us : object(t, s, u[2]).key = NoKey}

LEMMA PrependFacts ==
  ASSUME NEW n \in Nat, NEW s
  PROVE  /\ prepend(n, s) \in Nat
         /\ s.module \in DefaultsAt => prepend(n, s) # 0
         /\ s.module \notin DefaultsAt => prepend(n, s) = n
  BY PrependedAssumption DEF prepend

(* Finalizing a group changes how often default labels were prepended. *)
Finalized(o, s) == [maps |-> o.maps, mod |-> o.mod, prepended |-> prepend(o.prepended, s)]

LEMMA FinalizeFacts ==
  ASSUME NEW t, NEW s, NEW e, NEW L, NEW D, Sound(t, s, e, L, D)
  PROVE  LET gs == add_mappings(t, s)
         IN  /\ DOMAIN finalize(gs, s) = DOMAIN gs
             /\ \A g \in DOMAIN gs : finalize(gs, s)[g] = Finalized(gs[g], s)
             /\ Users(finalize(gs, s)) = Users(gs)
<1> DEFINE gs == add_mappings(t, s)
           fz == finalize(gs, s)
<1>1. \A g \in DOMAIN gs : GroupMade(t, s, e, L, g, gs[g])
  BY AddMappingsFacts
<1>2. DOMAIN fz = DOMAIN gs /\ \A g \in DOMAIN gs : fz[g] = [gs[g] EXCEPT !.prepended = prepend(gs[g].prepended, s)]
  BY DEF finalize
<1> HIDE DEF gs, fz
<1>3. ASSUME NEW g \in DOMAIN gs PROVE fz[g] = Finalized(gs[g], s) /\ fz[g].maps = gs[g].maps
  <2> DEFINE o == gs[g]
             p == prepend(o.prepended, s)
  <2>1. o = [maps |-> o.maps, mod |-> o.mod, prepended |-> o.prepended]
    BY <1>1 DEF GroupMade
  <2>2. fz[g] = [o EXCEPT !.prepended = p]
    BY <1>2
  <2> HIDE DEF o, p
  <2>3. fz[g] = [maps |-> o.maps, mod |-> o.mod, prepended |-> p]
    BY <2>1, <2>2
  <2>4. fz[g].maps = o.maps
    BY <2>3
  <2> QED
    BY <2>3, <2>4 DEF Finalized, o, p
<1>4. \A g \in DOMAIN gs : fz[g].maps = gs[g].maps
  BY <1>3
<1>5. Users(fz) = Users(gs)
  BY <1>2, <1>4 DEF Users
<1> QED
  BY <1>2, <1>3, <1>5 DEF gs, fz

(* What the IR makes of the object of a Mapping. *)
MappingMade(t, s, fs, m, x) ==
  LET o == object(t, s, m)
  IN  /\ x = [spec |-> o.spec, mod |-> o.mod, key |-> x.key, prepended |-> x.prepended]
      /\ \/ x.prepended = o.prepended
         \/ o.spec.group \in fs /\ x.prepended = prepend(o.prepended, s)

LEMMA MappingMadeFacts ==
  ASSUME NEW t, NEW s, NEW e, NEW L, NEW D, Sound(t, s, e, L, D), NEW gs, NEW fs, NEW us,
         NEW m, m \in live(s) \/ MapKey(m) \in DOMAIN t.cache
  PROVE  /\ MappingMade(t, s, fs, m, irMapping(t, s, gs, fs, us, m))
         /\ MappingMade(t, s, fs, m, object(t, s, m))
<1> DEFINE o == object(t, s, m)
           k == IF \E u \in us : u[2] = m THEN o.spec.cluster ELSE o.key
           p == IF o.spec.group \in fs /\ owns(gs, o.spec.group, m) THEN prepend(o.prepended, s) ELSE o.prepended
           x == irMapping(t, s, gs, fs, us, m)
<1>1. o = [spec |-> o.spec, mod |-> o.mod, key |-> o.key, prepended |-> o.prepended]
  BY ObjectFacts
<1>2. x = [o EXCEPT !.key = k, !.prepended = p]
  BY DEF irMapping
<1>3. p = o.prepended \/ (o.spec.group \in fs /\ p = prepend(o.prepended, s))
  OBVIOUS
<1> HIDE DEF o, k, p, x
<1>4. x = [spec |-> o.spec, mod |-> o.mod, key |-> k, prepended |-> p]
  BY <1>1, <1>2
<1>5. x.key = k /\ x.prepended = p
  BY <1>4
<1>6. x = [spec |-> o.spec, mod |-> o.mod, key |-> x.key, prepended |-> x.prepended]
  BY <1>4, <1>5
<1> QED
  BY <1>1, <1>3, <1>5, <1>6 DEF MappingMade, o, x

(* What the cache holds after the IR, however far finalize got. *)
LEMMA IRCacheFacts ==
  ASSUME NEW t, NEW s, NEW e, NEW L, NEW D, Sound(t, s, e, L, D),
         NEW fs, NEW us \in SUBSET Users(add_mappings(t, s))
  PROVE  LET gs == add_mappings(t, s)
             n  == irCache(t, s, IR(t, s), fs, us)
             users == {u[2] : u \in Users(gs)}
             fresh == {object(t, s, u[2]).spec.cluster : u \in FreshUsers(t, s, us)}
         IN  /\ Shaped(n)
             /\ \A m : Cached(n, MapKey(m)) <=>
                       m \in users \/ m \in live(s) \/ Cached(t, MapKey(m))
             /\ \A m : Cached(n, MapKey(m)) => MappingMade(t, s, fs, m, n.cache[MapKey(m)])
             /\ \A g : Cached(n, GroupKey(g)) <=> g \in DOMAIN gs \/ Cached(t, GroupKey(g))
             /\ \A g \in DOMAIN gs : n.cache[GroupKey(g)] = IF g \in fs THEN Finalized(gs[g], s) ELSE gs[g]
             /\ \A g : Cached(t, GroupKey(g)) /\ g \notin DOMAIN gs =>
                       n.cache[GroupKey(g)] = t.cache[GroupKey(g)]
             /\ \A c : Cached(n, ClusterKey(c)) <=> c \in fresh \/ Cached(t, ClusterKey(c))
             /\ \A c : Cached(t, ClusterKey(c)) => n.cache[ClusterKey(c)] = t.cache[ClusterKey(c)]
             /\ \A c \in fresh : ~ Cached(t, ClusterKey(c)) =>
                       n.cache[ClusterKey(c)] = add_cluster(t, s, gs, c)
             /\ \A k : Kind(k) \in {"V3", "Route"} => (Cached(n, k) <=> Cached(t, k))
             /\ \A k : Kind(k) \in {"V3", "Route"} /\ Cached(t, k) => n.cache[k] = t.cache[k]
<1> DEFINE gs == add_mappings(t, s)
           n == irCache(t, s, IR(t, s), fs, us)
           users == {u[2] : u \in Users(gs)}
           fresh == {object(t, s, u[2]).spec.cluster : u \in FreshUsers(t, s, us)}
           cl == [c \in {object(t, s, u[2]).spec.cluster : u \in Users(gs)} |-> add_cluster(t, s, gs, c)]
           M == [k \in {MapKey(m) : m \in users \cup live(s)} |-> irMapping(t, s, gs, fs, us, k[2])]
           G == [k \in {GroupKey(g) : g \in DOMAIN gs} |->
                   IF k[2] \in fs THEN finalize(gs, s)[k[2]] ELSE gs[k[2]]]
           C == [k \in {ClusterKey(c) : c \in fresh} |-> cl[k[2]]]
<1>1. n.cache = Over(Over(M, G), Over(t.cache, C))
  BY DEF irCache, IR, FreshUsers
<1>2. \A g \in DOMAIN gs : finalize(gs, s)[g] = Finalized(gs[g], s)
  BY FinalizeFacts
<1>3. Shaped(t)
  BY GoodByKind DEF Sound
<1>4. /\ DOMAIN M = {MapKey(m) : m \in users \cup live(s)}
      /\ DOMAIN G = {GroupKey(g) : g \in DOMAIN gs}
      /\ DOMAIN C = {ClusterKey(c) : c \in fresh}
  OBVIOUS
<1>5. ASSUME NEW m \in users \cup live(s) PROVE MappingMade(t, s, fs, m, M[MapKey(m)])
  <2>1. m \in live(s) \/ MapKey(m) \in DOMAIN t.cache
    <3>1. \A u \in Users(add_mappings(t, s)) : u[2] \in live(s) \/ MapKey(u[2]) \in DOMAIN t.cache
      BY UserFacts DEF Joins
    <3> QED
      BY <3>1
  <2>2. M[MapKey(m)] = irMapping(t, s, gs, fs, us, m)
    BY <1>4, KeyFacts
  <2> HIDE DEF M, gs
  <2> QED
    BY <2>1, <2>2, MappingMadeFacts
<1>6. \A g \in DOMAIN gs : G[GroupKey(g)] = IF g \in fs THEN Finalized(gs[g], s) ELSE gs[g]
  <2> SUFFICES ASSUME NEW g \in DOMAIN gs
               PROVE  G[GroupKey(g)] = IF g \in fs THEN Finalized(gs[g], s) ELSE gs[g]
    OBVIOUS
  <2>1. G[GroupKey(g)] = IF g \in fs THEN finalize(gs, s)[g] ELSE gs[g]
    BY KeyFacts
  <2> HIDE DEF G, gs
  <2> QED
    BY <1>2, <2>1
<1>7. \A c \in fresh : C[ClusterKey(c)] = add_cluster(t, s, gs, c)
  <2> SUFFICES ASSUME NEW c \in fresh PROVE C[ClusterKey(c)] = add_cluster(t, s, gs, c)
    OBVIOUS
  <2>1. c \in {object(t, s, u[2]).spec.cluster : u \in Users(gs)}
    BY DEF FreshUsers
  <2> QED
    BY <2>1, KeyFacts
<1>8. \A m : Cached(t, MapKey(m)) => MappingMade(t, s, fs, m, t.cache[MapKey(m)])
  <2> SUFFICES ASSUME NEW m, Cached(t, MapKey(m)) PROVE MappingMade(t, s, fs, m, t.cache[MapKey(m)])
    OBVIOUS
  <2>1. object(t, s, m) = t.cache[MapKey(m)] /\ MapKey(m) \in DOMAIN t.cache
    BY DEF Cached, object
  <2> QED
    BY <2>1, MappingMadeFacts
<1> HIDE DEF M, G, C, gs, users, fresh, n
<1>9. /\ DOMAIN n.cache = DOMAIN M \cup DOMAIN G \cup DOMAIN t.cache \cup DOMAIN C
      /\ \A k \in DOMAIN M : n.cache[k] = M[k]
      /\ \A k \in DOMAIN G : k \notin DOMAIN M => n.cache[k] = G[k]
      /\ \A k \in DOMAIN t.cache : k \notin DOMAIN M /\ k \notin DOMAIN G => n.cache[k] = t.cache[k]
      /\ \A k \in DOMAIN C : k \notin DOMAIN M /\ k \notin DOMAIN G /\ k \notin DOMAIN t.cache
                            => n.cache[k] = C[k]
  BY <1>1 DEF Over
<1>10. /\ \A m : MapKey(m) \notin DOMAIN G /\ MapKey(m) \notin DOMAIN C
                 /\ (MapKey(m) \in DOMAIN M <=> m \in users \cup live(s))
       /\ \A g : GroupKey(g) \notin DOMAIN M /\ GroupKey(g) \notin DOMAIN C
                 /\ (GroupKey(g) \in DOMAIN G <=> g \in DOMAIN gs)
       /\ \A c : ClusterKey(c) \notin DOMAIN M /\ ClusterKey(c) \notin DOMAIN G
                 /\ (ClusterKey(c) \in DOMAIN C <=> c \in fresh)
       /\ \A k : Kind(k) \in {"V3", "Route"} =>
                 k \notin DOMAIN M /\ k \notin DOMAIN G /\ k \notin DOMAIN C
  BY <1>4, KeyFacts
<1>11. Shaped(n)
  BY <1>3, <1>4, <1>9, KeyFacts DEF Shaped
<1>12. /\ \A m : Cached(n, MapKey(m)) <=> m \in users \/ m \in live(s) \/ Cached(t, MapKey(m))
       /\ \A g : Cached(n, GroupKey(g)) <=> g \in DOMAIN gs \/ Cached(t, GroupKey(g))
       /\ \A c : Cached(n, ClusterKey(c)) <=> c \in fresh \/ Cached(t, ClusterKey(c))
       /\ \A k : Kind(k) \in {"V3", "Route"} => (Cached(n, k) <=> Cached(t, k))
  BY <1>9, <1>10 DEF Cached
<1>13. ASSUME NEW m, Cached(n, MapKey(m)) PROVE MappingMade(t, s, fs, m, n.cache[MapKey(m)])
  <2>1. CASE m \in users \cup live(s)
    <3>1. n.cache[MapKey(m)] = M[MapKey(m)]
      BY <1>9, <1>10, <2>1
    <3> QED
      BY <1>5, <2>1, <3>1
  <2>2. CASE m \notin users \cup live(s)
    <3>1. Cached(t, MapKey(m)) /\ n.cache[MapKey(m)] = t.cache[MapKey(m)]
      BY <1>9, <1>10, <1>12, <1>13, <2>2 DEF Cached
    <3> QED
      BY <1>8, <3>1
  <2> QED
    BY <2>1, <2>2
<1>14. /\ \A g \in DOMAIN gs : n.cache[GroupKey(g)] = IF g \in fs THEN Finalized(gs[g], s) ELSE gs[g]
       /\ \A g : Cached(t, GroupKey(g)) /\ g \notin DOMAIN gs =>
                 n.cache[GroupKey(g)] = t.cache[GroupKey(g)]
       /\ \A c : Cached(t, ClusterKey(c)) => n.cache[ClusterKey(c)] = t.cache[ClusterKey(c)]
       /\ \A c \in fresh : ~ Cached(t, ClusterKey(c)) =>
                 n.cache[ClusterKey(c)] = add_cluster(t, s, gs, c)
       /\ \A k : Kind(k) \in {"V3", "Route"} /\ Cached(t, k) => n.cache[k] = t.cache[k]
  BY <1>6, <1>7, <1>9, <1>10 DEF Cached
<1> QED
  BY <1>11, <1>12, <1>13, <1>14 DEF gs, n, users, fresh

(* The IR keeps a good cache good; the labelled groups that it finalizes    *)
(* get default labels.                                                      *)
LEMMA IRGood ==
  ASSUME NEW t, NEW s, NEW e, NEW L, NEW D, Sound(t, s, e, L, D), Contested(t, s) \subseteq D,
         NEW fs, NEW us \in SUBSET Users(add_mappings(t, s)), NEW K, L \subseteq K,
         s.module \in DefaultsAt => Labelled \cap fs \subseteq K
  PROVE  /\ Good(irCache(t, s, IR(t, s), fs, us), s, e, L, D)
         /\ Unstamped(irCache(t, s, IR(t, s), fs, us), K)
<1> DEFINE gs == add_mappings(t, s)
           n == irCache(t, s, IR(t, s), fs, us)
           users == {u[2] : u \in Users(gs)}
           fresh == {object(t, s, u[2]).spec.cluster : u \in FreshUsers(t, s, us)}
           X(m) == object(t, s, m).spec
<1>1. /\ Shaped(n)
      /\ \A m : Cached(n, MapKey(m)) <=> m \in users \/ m \in live(s) \/ Cached(t, MapKey(m))
      /\ \A m : Cached(n, MapKey(m)) => MappingMade(t, s, fs, m, n.cache[MapKey(m)])
      /\ \A g : Cached(n, GroupKey(g)) <=> g \in DOMAIN gs \/ Cached(t, GroupKey(g))
      /\ \A g \in DOMAIN gs : n.cache[GroupKey(g)] = IF g \in fs THEN Finalized(gs[g], s) ELSE gs[g]
      /\ \A g : Cached(t, GroupKey(g)) /\ g \notin DOMAIN gs =>
                n.cache[GroupKey(g)] = t.cache[GroupKey(g)]
      /\ \A c : Cached(n, ClusterKey(c)) <=> c \in fresh \/ Cached(t, ClusterKey(c))
      /\ \A c : Cached(t, ClusterKey(c)) => n.cache[ClusterKey(c)] = t.cache[ClusterKey(c)]
      /\ \A c \in fresh : ~ Cached(t, ClusterKey(c)) =>
                n.cache[ClusterKey(c)] = add_cluster(t, s, gs, c)
      /\ \A k : Kind(k) \in {"V3", "Route"} => (Cached(n, k) <=> Cached(t, k))
      /\ \A k : Kind(k) \in {"V3", "Route"} /\ Cached(t, k) => n.cache[k] = t.cache[k]
  BY IRCacheFacts
<1>2. /\ \A m : Cached(t, MapKey(m)) => MappingGood(t, s, e, m)
      /\ \A g : Cached(t, GroupKey(g)) => GroupGood(t, s, e, L, g)
      /\ \A c : Cached(t, ClusterKey(c)) => ClusterGood(t, s, e, D, c)
      /\ \A c : Cached(t, V3Key(c)) => V3Good(t, s, e, D, c)
      /\ \A g, m : Cached(t, RouteKey(g, m)) => RouteGood(t, s, e, L, g, m)
  BY GoodByKind DEF Cached, Sound
<1>3. \A g \in DOMAIN gs : GroupMade(t, s, e, L, g, gs[g])
  BY AddMappingsFacts
<1>4. /\ t.links \subseteq n.links
      /\ \A m \in live(s) : <<MapKey(m), GroupKey(X(m).group)>> \in n.links
      /\ \A u \in FreshUsers(t, s, us) : <<GroupKey(u[1]), ClusterKey(X(u[2]).cluster)>> \in n.links
  BY DEF irCache, irLinks, IR, FreshUsers
<1>5. \A u \in Users(gs) : u[2] \in live(s) \/ Cached(t, MapKey(u[2]))
  BY UserFacts DEF Joins, Cached
<1> HIDE DEF n, gs, fresh
<1>6. \A m : Cached(t, MapKey(m)) => X(m) = t.cache[MapKey(m)].spec
  BY DEF object, Cached
<1>7. ASSUME NEW m, Cached(n, MapKey(m))
      PROVE  /\ MappingGood(n, s, e, m) /\ n.cache[MapKey(m)].spec = X(m)
             /\ X(m).group \in Labelled \ K => n.cache[MapKey(m)].prepended = 0
  <2>1. m \in live(s) \/ MapKey(m) \in DOMAIN t.cache
    BY <1>1, <1>5, <1>7 DEF Cached
  <2> DEFINE o == object(t, s, m)
             x == n.cache[MapKey(m)]
  <2>2. /\ m \in Names /\ o.spec \in SpecsOf[m] /\ o.prepended \in Nat
        /\ m \notin e => o.spec = s.config[m]
        /\ "Module" \notin e => o.mod = s.module
        /\ o.spec.group \in Labelled \ L => o.prepended = 0
    BY <2>1, ObjectFacts
  <2>3. MappingMade(t, s, fs, m, x)
    BY <1>1, <1>7
  <2>4. /\ x = [spec |-> o.spec, mod |-> o.mod, key |-> x.key, prepended |-> x.prepended]
        /\ x.prepended = o.prepended \/ (o.spec.group \in fs /\ x.prepended = prepend(o.prepended, s))
    BY <2>3 DEF MappingMade
  <2> HIDE DEF o, x
  <2>5. x.prepended \in Nat
    BY <2>2, <2>4, PrependFacts
  <2>6. o.spec.group \in Labelled \ K => x.prepended = 0
    BY <2>2, <2>4, PrependFacts
  <2>7. x.spec = o.spec /\ x.mod = o.mod
    BY <2>4
  <2>8. MappingGood(n, s, e, m)
    BY <2>2, <2>4, <2>5, <2>7 DEF MappingGood, x
  <2> QED
    BY <2>6, <2>7, <2>8 DEF o, x
<1>8. \A m : Cached(n, MapKey(m)) => n.cache[MapKey(m)].spec = X(m)
  BY <1>7
<1> HIDE DEF users, X
<1>9. \A m, g : Joins(t, m, g) => Joins(n, m, g)
  BY <1>1, <1>4, <1>6, <1>8 DEF Joins, Cached
<1>10. \A m \in live(s) : Joins(n, m, X(m).group)
  BY <1>1, <1>4, <1>8 DEF Joins, Cached
<1>11. ASSUME NEW g \in DOMAIN gs
       PROVE  LET h == n.cache[GroupKey(g)]
              IN  /\ h = [maps |-> gs[g].maps, mod |-> gs[g].mod, prepended |-> h.prepended]
                  /\ h.maps = gs[g].maps /\ h.mod = gs[g].mod /\ h.prepended \in Nat
                  /\ h.prepended # 0 /\ s.module \notin DefaultsAt => gs[g].prepended # 0
                  /\ g \in Labelled \ K => h.prepended = 0
  <2> DEFINE h == n.cache[GroupKey(g)]
             o == gs[g]
  <2>1. /\ o = [maps |-> o.maps, mod |-> o.mod, prepended |-> o.prepended] /\ o.prepended \in Nat
        /\ g \in Labelled \ L => o.prepended = 0
    BY <1>3 DEF GroupMade
  <2>2. h = IF g \in fs THEN Finalized(o, s) ELSE o
    BY <1>1
  <2> HIDE DEF h, o
  <2>3. CASE g \in fs
    <3>1. h = [maps |-> o.maps, mod |-> o.mod, prepended |-> prepend(o.prepended, s)]
      BY <2>2, <2>3 DEF Finalized
    <3>2. h.maps = o.maps /\ h.mod = o.mod /\ h.prepended = prepend(o.prepended, s)
      BY <3>1
    <3>3. h.prepended \in Nat /\ (s.module \notin DefaultsAt => h.prepended = o.prepended)
      BY <2>1, <3>2, PrependFacts
    <3>4. g \in Labelled \ K => h.prepended = 0
      BY <2>1, <2>3, <3>3
    <3> QED
      BY <3>1, <3>2, <3>3, <3>4 DEF h, o
  <2>4. CASE g \notin fs
    <3>1. h = o
      BY <2>2, <2>4
    <3> QED
      BY <2>1, <3>1 DEF h, o
  <2> QED
    BY <2>3, <2>4
<1>12. ASSUME NEW g, Cached(n, GroupKey(g))
       PROVE  /\ GroupGood(n, s, e, L, g)
              /\ g \in Labelled \ K => n.cache[GroupKey(g)].prepended = 0
  <2>1. CASE g \in DOMAIN gs
    <3> DEFINE h == n.cache[GroupKey(g)]
               o == gs[g]
    <3>1. GroupMade(t, s, e, L, g, o)
      BY <1>3, <2>1
    <3>2. /\ h = [maps |-> o.maps, mod |-> o.mod, prepended |-> h.prepended]
          /\ h.maps = o.maps /\ h.mod = o.mod /\ h.prepended \in Nat
          /\ h.prepended # 0 /\ s.module \notin DefaultsAt => o.prepended # 0
          /\ g \in Labelled \ K => h.prepended = 0
      BY <1>11, <2>1
    <3>3. \A m \in Elements(o.maps) : Joins(n, m, g)
      BY <1>9, <1>10, <3>1 DEF GroupMade, X
    <3>4. /\ o.maps \in Seq(Names)
          /\ g \notin L =>
               /\ \A m \in live(s) \ e : s.config[m].group = g => m \in Elements(o.maps)
               /\ Elements(o.maps) \cap e = {} => o.maps = InOrder(Elements(o.maps))
          /\ "Module" \notin e =>
               /\ o.mod = s.module
               /\ g \notin L /\ o.prepended # 0 => s.module \in DefaultsAt
      BY <3>1 DEF GroupMade
    <3> HIDE DEF o
    <3> QED
      BY <3>2, <3>3, <3>4 DEF GroupGood
  <2>2. CASE g \notin DOMAIN gs
    <3>1. Cached(t, GroupKey(g)) /\ n.cache[GroupKey(g)] = t.cache[GroupKey(g)] /\ GroupGood(t, s, e, L, g)
      BY <1>1, <1>2, <1>12, <2>2
    <3>2. g \in Labelled \ K => t.cache[GroupKey(g)].prepended = 0
      BY <3>1 DEF Sound, Unstamped, Cached
    <3> QED
      BY <1>9, <3>1, <3>2 DEF GroupGood
  <2> QED
    BY <2>1, <2>2
<1>16. \A g : Cached(t, GroupKey(g)) =>
         /\ Elements(t.cache[GroupKey(g)].maps) \subseteq Elements(n.cache[GroupKey(g)].maps)
         /\ g \notin L /\ Elements(n.cache[GroupKey(g)].maps) \cap e = {}
               => n.cache[GroupKey(g)].maps = t.cache[GroupKey(g)].maps
  <2> SUFFICES ASSUME NEW g, Cached(t, GroupKey(g))
               PROVE  /\ Elements(t.cache[GroupKey(g)].maps) \subseteq Elements(n.cache[GroupKey(g)].maps)
                      /\ g \notin L /\ Elements(n.cache[GroupKey(g)].maps) \cap e = {}
                            => n.cache[GroupKey(g)].maps = t.cache[GroupKey(g)].maps
    OBVIOUS
  <2>1. CASE g \in DOMAIN gs
    <3>1. n.cache[GroupKey(g)].maps = gs[g].maps /\ GroupMade(t, s, e, L, g, gs[g])
      BY <1>3, <1>11, <2>1
    <3> QED
      BY <3>1 DEF GroupMade, Cached
  <2>2. CASE g \notin DOMAIN gs
    BY <1>1, <2>2
  <2> QED
    BY <2>1, <2>2
<1>13. ASSUME NEW c, Cached(n, ClusterKey(c)) PROVE ClusterGood(n, s, e, D, c)
  <2>1. CASE Cached(t, ClusterKey(c))
    <3>1. n.cache[ClusterKey(c)] = t.cache[ClusterKey(c)] /\ ClusterGood(t, s, e, D, c)
      BY <1>1, <1>2, <2>1
    <3>2. ASSUME NEW m \in Names, NEW g \in Groups, Provides(t, m, g, c) PROVE Provides(n, m, g, c)
      <4>1. Joins(n, m, g) /\ Cached(n, MapKey(m)) /\ Cached(t, MapKey(m)) /\ Cached(n, GroupKey(g))
        BY <1>1, <1>9, <3>2 DEF Provides, Joins, Cached
      <4>2. n.cache[MapKey(m)].spec = t.cache[MapKey(m)].spec
        BY <1>6, <1>8, <4>1
      <4> QED
        BY <1>4, <3>1, <3>2, <4>1, <4>2 DEF Provides, Cached
    <3> QED
      BY <3>1, <3>2 DEF ClusterGood
  <2>2. CASE ~ Cached(t, ClusterKey(c))
    <3>1. c \in fresh
      BY <1>1, <1>13, <2>2
    <3>2. PICK u \in FreshUsers(t, s, us) : c = X(u[2]).cluster
      BY <3>1 DEF fresh, X
    <3>3. u \in Users(gs)
      BY DEF FreshUsers, gs
    <3>4. /\ u[1] \in DOMAIN gs /\ u[2] \in Elements(gs[u[1]].maps) /\ u[2] \in Names
          /\ X(u[2]) \in SpecsOf[u[2]] /\ X(u[2]).group = u[1]
      BY <3>3, UserFacts DEF gs, X
    <3>5. u[1] \in Groups
      BY <3>4 DEF Groups, AllSpecs
    <3>6. Cached(n, GroupKey(u[1])) /\ Joins(n, u[2], u[1])
      <4>1. Cached(n, GroupKey(u[1])) /\ n.cache[GroupKey(u[1])].maps = gs[u[1]].maps
        BY <1>1, <1>11, <3>4
      <4>2. GroupGood(n, s, e, L, u[1])
        BY <1>12, <4>1
      <4> QED
        BY <3>4, <4>1, <4>2 DEF GroupGood
    <3>7. n.cache[MapKey(u[2])].spec = X(u[2])
      BY <1>8, <3>6 DEF Joins, Cached
    <3> DEFINE o == add_cluster(t, s, gs, c)
    <3>8. /\ o = [par |-> o.par, mod |-> o.mod] /\ ("Module" \notin e => o.mod = s.module)
          /\ c \notin D => o.par = X(u[2]).par
      BY <3>2, <3>3, AddClusterFacts DEF gs, X
    <3>9. n.cache[ClusterKey(c)] = o
      BY <1>1, <2>2, <3>1
    <3> HIDE DEF o
    <3>10. c \notin D => Provides(n, u[2], u[1], c)
      BY <1>4, <3>2, <3>4, <3>6, <3>7, <3>8, <3>9 DEF Provides, Cached
    <3> QED
      BY <3>4, <3>5, <3>8, <3>9, <3>10 DEF ClusterGood
  <2> QED
    BY <2>1, <2>2
<1>14. ASSUME NEW c, Cached(n, V3Key(c)) PROVE V3Good(n, s, e, D, c)
  <2>1. Cached(t, V3Key(c)) /\ n.cache[V3Key(c)] = t.cache[V3Key(c)] /\ V3Good(t, s, e, D, c)
    BY <1>1, <1>2, <1>14, KeyFacts
  <2>2. Cached(n, ClusterKey(c)) /\ n.cache[ClusterKey(c)] = t.cache[ClusterKey(c)]
    BY <1>1, <2>1 DEF V3Good, Cached
  <2> QED
    BY <1>4, <2>1, <2>2 DEF V3Good, Cached
<1>15. ASSUME NEW g, NEW m, Cached(n, RouteKey(g, m)) PROVE RouteGood(n, s, e, L, g, m)
  <2>1. /\ Cached(t, RouteKey(g, m)) /\ n.cache[RouteKey(g, m)] = t.cache[RouteKey(g, m)]
        /\ RouteGood(t, s, e, L, g, m)
    BY <1>1, <1>2, <1>15, KeyFacts
  <2>2. Cached(t, GroupKey(g)) /\ Cached(n, GroupKey(g)) /\ m \in Elements(t.cache[GroupKey(g)].maps)
    BY <1>1, <2>1 DEF RouteGood, Cached
  <2>3. Joins(t, m, g)
    BY <1>2, <2>2 DEF GroupGood
  <2>4. n.cache[MapKey(m)].spec = t.cache[MapKey(m)].spec
    BY <1>1, <1>6, <1>8, <2>3 DEF Joins, Cached
  <2>5. /\ m \in Elements(n.cache[GroupKey(g)].maps)
        /\ g \notin L /\ Elements(n.cache[GroupKey(g)].maps) \cap e = {}
              => n.cache[GroupKey(g)].maps = t.cache[GroupKey(g)].maps
    BY <1>16, <2>2
  <2>6. <<GroupKey(g), RouteKey(g, m)>> \in n.links
    BY <1>4, <2>1 DEF RouteGood
  <2> QED
    BY <2>1, <2>2, <2>4, <2>5, <2>6 DEF RouteGood, Cached
<1>17. Unstamped(n, K)
  BY <1>7, <1>12 DEF Unstamped, Cached
<1> QED
  BY <1>1, <1>7, <1>12, <1>13, <1>14, <1>15, <1>17, GoodByKind DEF Cached, n

-----------------------------------------------------------------------------
(* The IR as the cache has it. *)
IRFits(t, s, e, L, D, ir) ==
  /\ \A g \in DOMAIN ir.groups :
       /\ Cached(t, GroupKey(g)) /\ t.cache[GroupKey(g)] = ir.groups[g]
       /\ "Module" \notin e /\ g \notin L =>
            (ir.groups[g].prepended # 0 <=> s.module \in DefaultsAt)
  /\ \A c \in DOMAIN ir.clusters :
       /\ ir.clusters[c] = [par |-> ir.clusters[c].par, mod |-> ir.clusters[c].mod]
       /\ c \notin D /\ Cached(t, ClusterKey(c)) => t.cache[ClusterKey(c)].par = ir.clusters[c].par
       /\ "Module" \notin e => ir.clusters[c].mod = s.module

LEMMA IRShape ==
  ASSUME NEW t, NEW s, NEW e, NEW L, NEW D, Sound(t, s, e, L, D)
  PROVE  LET gs == add_mappings(t, s)
             ir == IR(t, s)
         IN  /\ DOMAIN ir.groups = DOMAIN gs /\ Users(ir.groups) = Users(gs)
             /\ \A g \in DOMAIN gs : ir.groups[g] = Finalized(gs[g], s)
             /\ DOMAIN ir.clusters = {object(t, s, u[2]).spec.cluster : u \in Users(gs)}
             /\ \A c \in DOMAIN ir.clusters : ir.clusters[c] = add_cluster(t, s, gs, c)
<1>1. /\ IR(t, s).groups = finalize(add_mappings(t, s), s)
      /\ DOMAIN IR(t, s).clusters = {object(t, s, u[2]).spec.cluster : u \in Users(add_mappings(t, s))}
      /\ \A c \in DOMAIN IR(t, s).clusters : IR(t, s).clusters[c] = add_cluster(t, s, add_mappings(t, s), c)
  BY DEF IR
<1> QED
  BY <1>1, FinalizeFacts

LEMMA IRIsCached ==
  ASSUME NEW t, NEW s, NEW e, NEW L, NEW D, Sound(t, s, e, L, D), Contested(t, s) \subseteq D
  PROVE  LET ir == IR(t, s)
         IN  IRFits(irCache(t, s, ir, DOMAIN ir.groups, Users(ir.groups)), s, e, L, D, ir)
<1> DEFINE gs == add_mappings(t, s)
           ir == IR(t, s)
           fs == DOMAIN ir.groups
           us == Users(ir.groups)
           n == irCache(t, s, IR(t, s), fs, us)
           fresh == {object(t, s, u[2]).spec.cluster : u \in FreshUsers(t, s, us)}
<1>1. /\ fs = DOMAIN gs /\ us = Users(gs)
      /\ \A g \in DOMAIN gs : ir.groups[g] = Finalized(gs[g], s)
      /\ DOMAIN ir.clusters = {object(t, s, u[2]).spec.cluster : u \in Users(gs)}
      /\ \A c \in DOMAIN ir.clusters : ir.clusters[c] = add_cluster(t, s, gs, c)
  BY IRShape
<1> HIDE DEF fs, us, ir
<1>2. /\ \A g : Cached(n, GroupKey(g)) <=> g \in DOMAIN gs \/ Cached(t, GroupKey(g))
      /\ \A g \in DOMAIN gs : n.cache[GroupKey(g)] = IF g \in fs THEN Finalized(gs[g], s) ELSE gs[g]
      /\ \A c : Cached(n, ClusterKey(c)) <=> c \in fresh \/ Cached(t, ClusterKey(c))
      /\ \A c : Cached(t, ClusterKey(c)) => n.cache[ClusterKey(c)] = t.cache[ClusterKey(c)]
      /\ \A c \in fresh : ~ Cached(t, ClusterKey(c)) =>
                n.cache[ClusterKey(c)] = add_cluster(t, s, gs, c)
  <2>1. us \in SUBSET Users(add_mappings(t, s))
    BY <1>1
  <2> QED
    BY <2>1, IRCacheFacts
<1> HIDE DEF n, fresh
<1>3. ASSUME NEW c \in DOMAIN ir.clusters
      PROVE  /\ ir.clusters[c] = [par |-> ir.clusters[c].par, mod |-> ir.clusters[c].mod]
             /\ c \notin D /\ Cached(n, ClusterKey(c)) => n.cache[ClusterKey(c)].par = ir.clusters[c].par
             /\ "Module" \notin e => ir.clusters[c].mod = s.module
  <2>1. PICK u \in Users(gs) : object(t, s, u[2]).spec.cluster = c
    BY <1>1
  <2> DEFINE o == ir.clusters[c]
             p == object(t, s, u[2]).spec.par
  <2>2. /\ o = [par |-> o.par, mod |-> o.mod] /\ ("Module" \notin e => o.mod = s.module)
        /\ c \notin D => o.par = p
        /\ c \notin D /\ Cached(t, ClusterKey(c)) => t.cache[ClusterKey(c)].par = p
    BY <1>1, <2>1, AddClusterFacts DEF Cached
  <2>3. ~ Cached(t, ClusterKey(c)) /\ Cached(n, ClusterKey(c)) => n.cache[ClusterKey(c)] = o
    BY <1>1, <1>2
  <2> HIDE DEF o, p
  <2>4. c \notin D /\ Cached(n, ClusterKey(c)) => n.cache[ClusterKey(c)].par = o.par
    BY <1>2, <2>2, <2>3
  <2> QED
    BY <2>2, <2>4 DEF o
<1>4. ASSUME NEW g \in DOMAIN ir.groups
      PROVE  /\ Cached(n, GroupKey(g)) /\ n.cache[GroupKey(g)] = ir.groups[g]
             /\ "Module" \notin e /\ g \notin L =>
                  (ir.groups[g].prepended # 0 <=> s.module \in DefaultsAt)
  <2> DEFINE o == gs[g]
             h == ir.groups[g]
  <2>1. g \in DOMAIN gs /\ g \in fs
    BY <1>1 DEF fs
  <2>2. h = Finalized(o, s)
    BY <1>1, <2>1
  <2>3. GroupMade(t, s, e, L, g, o)
    BY <2>1, AddMappingsFacts
  <2>4. o.prepended \in Nat /\ ("Module" \notin e /\ g \notin L /\ o.prepended # 0 => s.module \in DefaultsAt)
    BY <2>3 DEF GroupMade
  <2>5. Cached(n, GroupKey(g)) /\ n.cache[GroupKey(g)] = h
    BY <1>2, <2>1, <2>2
  <2> HIDE DEF o, h
  <2>6. h.prepended = prepend(o.prepended, s)
    BY <2>2 DEF Finalized
  <2>7. "Module" \notin e /\ g \notin L => (h.prepended # 0 <=> s.module \in DefaultsAt)
    BY <2>4, <2>6, PrependFacts
  <2> QED
    BY <2>5, <2>7 DEF h
<1>5. IRFits(n, s, e, L, D, ir)
  BY <1>3, <1>4 DEF IRFits
<1> QED
  BY <1>5 DEF n, fs, us, ir

(* What the cache holds after the Envoy configuration, or a part of it. *)
LEMMA EconfCacheFacts ==
  ASSUME NEW t, NEW s, NEW ir, Shaped(t),
         NEW us \in SUBSET Users(ir.groups), NEW cs \in SUBSET DOMAIN ir.clusters
  PROVE  LET w == econfCache(t, Part(EnvoyConfig(t, s, ir), us, cs))
         IN  /\ Shaped(w)
             /\ \A k : Cached(t, k) => Cached(w, k) /\ w.cache[k] = t.cache[k]
             /\ \A k : Kind(k) \in {"Mapping", "Group", "Cluster"} /\ Cached(w, k) => Cached(t, k)
             /\ \A c : Cached(w, V3Key(c)) /\ ~ Cached(t, V3Key(c)) =>
                  /\ c \in DOMAIN ir.clusters /\ Cached(t, ClusterKey(c))
                  /\ w.cache[V3Key(c)] = ir.clusters[c]
                  /\ <<ClusterKey(c), V3Key(c)>> \in w.links
             /\ \A g, m : Cached(w, RouteKey(g, m)) /\ ~ Cached(t, RouteKey(g, m)) =>
                  /\ <<g, m>> \in Users(ir.groups)
                  /\ w.cache[RouteKey(g, m)] = newRoute(t, s, ir, <<g, m>>)
                  /\ <<GroupKey(g), RouteKey(g, m)>> \in w.links
             /\ t.links \subseteq w.links
<1> DEFINE econf == Part(EnvoyConfig(t, s, ir), us, cs)
           w == econfCache(t, econf)
           vs == {c \in DOMAIN econf.clusters : ClusterKey(c) \in DOMAIN t.cache}
           R == [k \in {RouteKey(u[1], u[2]) : u \in DOMAIN econf.routes} |->
                   econf.routes[<<k[2], k[3]>>]]
           V == [k \in {V3Key(c) : c \in vs} |-> econf.clusters[k[2]]]
           fresh == (DOMAIN R \cup DOMAIN V) \ DOMAIN t.cache
<1>1. w.cache = Over(t.cache, Over(R, V))
  BY DEF econfCache
<1>2. w.links = t.links \cup {<<GroupKey(k[2]), k>> : k \in DOMAIN R \cap fresh}
                        \cup {<<ClusterKey(k[2]), k>> : k \in DOMAIN V \cap fresh}
  BY DEF econfCache
<1>3. /\ DOMAIN econf.routes = us /\ DOMAIN econf.clusters = cs
      /\ \A u \in us : ~ Cached(t, RouteKey(u[1], u[2])) => econf.routes[u] = newRoute(t, s, ir, u)
      /\ \A c \in cs : ~ Cached(t, V3Key(c)) => econf.clusters[c] = ir.clusters[c]
  BY DEF EnvoyConfig, Part, routes, clusters, Cached
<1>4. \A u \in us : u = <<u[1], u[2]>>
  BY DEF Users
<1> HIDE DEF econf, w
<1>5. /\ DOMAIN R = {RouteKey(u[1], u[2]) : u \in us}
      /\ \A k \in DOMAIN R : R[k] = econf.routes[<<k[2], k[3]>>]
      /\ DOMAIN V = {V3Key(c) : c \in vs}
      /\ \A k \in DOMAIN V : V[k] = econf.clusters[k[2]]
  BY <1>3
<1> HIDE DEF R, V
<1>6. /\ DOMAIN w.cache = DOMAIN t.cache \cup DOMAIN R \cup DOMAIN V
      /\ \A k \in DOMAIN t.cache : w.cache[k] = t.cache[k]
      /\ \A k \in DOMAIN R : k \notin DOMAIN t.cache => w.cache[k] = R[k]
      /\ \A k \in DOMAIN V : k \notin DOMAIN t.cache /\ k \notin DOMAIN R => w.cache[k] = V[k]
  BY <1>1 DEF Over
<1>7. /\ \A k \in DOMAIN R : Kind(k) = "Route" /\ k = RouteKey(k[2], k[3]) /\ <<k[2], k[3]>> \in us
      /\ \A k \in DOMAIN V : Kind(k) = "V3" /\ k = V3Key(k[2]) /\ k[2] \in vs
  BY <1>4, <1>5, KeyFacts
<1>8. Shaped(w)
  BY <1>6, <1>7 DEF Shaped
<1>9. /\ \A k : Cached(t, k) => Cached(w, k) /\ w.cache[k] = t.cache[k]
      /\ \A k : Kind(k) \in {"Mapping", "Group", "Cluster"} /\ Cached(w, k) => Cached(t, k)
  BY <1>6, <1>7 DEF Cached
<1>10. ASSUME NEW c, Cached(w, V3Key(c)), ~ Cached(t, V3Key(c))
       PROVE  /\ c \in DOMAIN ir.clusters /\ Cached(t, ClusterKey(c))
              /\ w.cache[V3Key(c)] = ir.clusters[c]
              /\ <<ClusterKey(c), V3Key(c)>> \in w.links
  <2>1. V3Key(c) \in DOMAIN V /\ V3Key(c) \notin DOMAIN R /\ V3Key(c) \notin DOMAIN t.cache
    BY <1>6, <1>7, <1>10, KeyFacts DEF Cached
  <2>2. c \in vs /\ V3Key(c)[2] = c
    BY <1>7, <2>1, KeyFacts
  <2>3. c \in cs /\ Cached(t, ClusterKey(c))
    BY <1>3, <2>2 DEF Cached
  <2>4. w.cache[V3Key(c)] = ir.clusters[c]
    BY <1>3, <1>5, <1>6, <1>10, <2>1, <2>2, <2>3
  <2>5. <<ClusterKey(V3Key(c)[2]), V3Key(c)>> \in w.links
    BY <1>2, <2>1
  <2> QED
    BY <2>2, <2>3, <2>4, <2>5
<1>11. ASSUME NEW g, NEW m, Cached(w, RouteKey(g, m)), ~ Cached(t, RouteKey(g, m))
       PROVE  /\ <<g, m>> \in Users(ir.groups)
              /\ w.cache[RouteKey(g, m)] = newRoute(t, s, ir, <<g, m>>)
              /\ <<GroupKey(g), RouteKey(g, m)>> \in w.links
  <2> DEFINE k == RouteKey(g, m)
  <2>0. k[2] = g /\ k[3] = m /\ Kind(k) = "Route"
    BY KeyFacts
  <2> HIDE DEF k
  <2>1. k \in DOMAIN R /\ k \notin DOMAIN t.cache
    BY <1>6, <1>7, <1>11, <2>0 DEF Cached, k
  <2>2. <<g, m>> \in us
    BY <1>7, <2>0, <2>1
  <2>3. w.cache[k] = econf.routes[<<g, m>>]
    BY <1>5, <1>6, <2>0, <2>1
  <2>4. econf.routes[<<g, m>>] = newRoute(t, s, ir, <<g, m>>)
    BY <1>3, <1>11, <2>2
  <2>5. <<GroupKey(k[2]), k>> \in w.links
    BY <1>2, <2>1
  <2> QED
    BY <2>0, <2>2, <2>3, <2>4, <2>5 DEF k
<1>12. t.links \subseteq w.links
  BY <1>2
<1> QED
  BY <1>8, <1>9, <1>10, <1>11, <1>12 DEF w, econf

(* The Envoy configuration keeps a good cache good. *)
LEMMA EconfGood ==
  ASSUME NEW t, NEW s, NEW e, NEW L, NEW D, NEW ir, Good(t, s, e, L, D), IRFits(t, s, e, L, D, ir),
         NEW us \in SUBSET Users(ir.groups), NEW cs \in SUBSET DOMAIN ir.clusters
  PROVE  Good(econfCache(t, Part(EnvoyConfig(t, s, ir), us, cs)), s, e, L, D)
<1> DEFINE w == econfCache(t, Part(EnvoyConfig(t, s, ir), us, cs))
<1>1. /\ Shaped(t)
      /\ \A m : Cached(t, MapKey(m)) => MappingGood(t, s, e, m)
      /\ \A g : Cached(t, GroupKey(g)) => GroupGood(t, s, e, L, g)
      /\ \A c : Cached(t, ClusterKey(c)) => ClusterGood(t, s, e, D, c)
      /\ \A c : Cached(t, V3Key(c)) => V3Good(t, s, e, D, c)
      /\ \A g, m : Cached(t, RouteKey(g, m)) => RouteGood(t, s, e, L, g, m)
  BY GoodByKind DEF Cached
<1>2. /\ Shaped(w)
      /\ \A k : Cached(t, k) => Cached(w, k) /\ w.cache[k] = t.cache[k]
      /\ \A k : Kind(k) \in {"Mapping", "Group", "Cluster"} /\ Cached(w, k) => Cached(t, k)
      /\ \A c : Cached(w, V3Key(c)) /\ ~ Cached(t, V3Key(c)) =>
           /\ c \in DOMAIN ir.clusters /\ Cached(t, ClusterKey(c))
           /\ w.cache[V3Key(c)] = ir.clusters[c]
           /\ <<ClusterKey(c), V3Key(c)>> \in w.links
      /\ \A g, m : Cached(w, RouteKey(g, m)) /\ ~ Cached(t, RouteKey(g, m)) =>
           /\ <<g, m>> \in Users(ir.groups)
           /\ w.cache[RouteKey(g, m)] = newRoute(t, s, ir, <<g, m>>)
           /\ <<GroupKey(g), RouteKey(g, m)>> \in w.links
      /\ t.links \subseteq w.links
  BY <1>1, EconfCacheFacts
<1> HIDE DEF w
<1>3. /\ \A m : Cached(w, MapKey(m)) => Cached(t, MapKey(m)) /\ w.cache[MapKey(m)] = t.cache[MapKey(m)]
      /\ \A g : Cached(w, GroupKey(g)) => Cached(t, GroupKey(g)) /\ w.cache[GroupKey(g)] = t.cache[GroupKey(g)]
      /\ \A c : Cached(w, ClusterKey(c)) => Cached(t, ClusterKey(c)) /\ w.cache[ClusterKey(c)] = t.cache[ClusterKey(c)]
  BY <1>2, KeyFacts
<1>4. \A m : Cached(w, MapKey(m)) => MappingGood(w, s, e, m)
  BY <1>1, <1>3 DEF MappingGood
<1>5. \A m, g : Joins(t, m, g) => Joins(w, m, g)
  BY <1>2 DEF Joins, Cached
<1>6. ASSUME NEW g, Cached(w, GroupKey(g)) PROVE GroupGood(w, s, e, L, g)
  <2>1. GroupGood(t, s, e, L, g) /\ w.cache[GroupKey(g)] = t.cache[GroupKey(g)]
    BY <1>1, <1>3, <1>6
  <2> QED
    BY <1>5, <2>1 DEF GroupGood
<1>7. ASSUME NEW c, Cached(w, ClusterKey(c)) PROVE ClusterGood(w, s, e, D, c)
  <2>1. ClusterGood(t, s, e, D, c) /\ w.cache[ClusterKey(c)] = t.cache[ClusterKey(c)]
    BY <1>1, <1>3, <1>7
  <2>2. ASSUME NEW m \in Names, NEW g \in Groups, Provides(t, m, g, c) PROVE Provides(w, m, g, c)
    <3>1. Joins(w, m, g) /\ w.cache[MapKey(m)] = t.cache[MapKey(m)] /\ Cached(w, GroupKey(g))
      BY <1>2, <1>5, <2>2 DEF Provides, Joins, Cached
    <3> QED
      BY <1>2, <2>1, <2>2, <3>1 DEF Provides, Cached
  <2> QED
    BY <2>1, <2>2 DEF ClusterGood
<1>8. ASSUME NEW c, Cached(w, V3Key(c)) PROVE V3Good(w, s, e, D, c)
  <2>1. CASE Cached(t, V3Key(c))
    <3>1. V3Good(t, s, e, D, c) /\ w.cache[V3Key(c)] = t.cache[V3Key(c)]
      BY <1>1, <1>2, <2>1
    <3>2. Cached(w, ClusterKey(c)) /\ w.cache[ClusterKey(c)] = t.cache[ClusterKey(c)]
      BY <1>2, <3>1 DEF V3Good, Cached
    <3> QED
      BY <1>2, <3>1, <3>2 DEF V3Good, Cached
  <2>2. CASE ~ Cached(t, V3Key(c))
    <3>1. /\ c \in DOMAIN ir.clusters /\ Cached(t, ClusterKey(c))
          /\ w.cache[V3Key(c)] = ir.clusters[c]
          /\ <<ClusterKey(c), V3Key(c)>> \in w.links
      BY <1>2, <1>8, <2>2
    <3>2. Cached(w, ClusterKey(c)) /\ w.cache[ClusterKey(c)] = t.cache[ClusterKey(c)]
      BY <1>2, <3>1
    <3>3. /\ ir.clusters[c] = [par |-> ir.clusters[c].par, mod |-> ir.clusters[c].mod]
          /\ c \notin D => t.cache[ClusterKey(c)].par = ir.clusters[c].par
          /\ "Module" \notin e => ir.clusters[c].mod = s.module
      BY <3>1 DEF IRFits
    <3> QED
      BY <3>1, <3>2, <3>3 DEF V3Good, Cached
  <2> QED
    BY <2>1, <2>2
<1>9. ASSUME NEW g, NEW m, Cached(w, RouteKey(g, m)) PROVE RouteGood(w, s, e, L, g, m)
  <2>1. CASE Cached(t, RouteKey(g, m))
    <3>1. RouteGood(t, s, e, L, g, m) /\ w.cache[RouteKey(g, m)] = t.cache[RouteKey(g, m)]
      BY <1>1, <1>2, <2>1
    <3>2. /\ Cached(t, GroupKey(g)) /\ Cached(w, GroupKey(g))
          /\ w.cache[GroupKey(g)] = t.cache[GroupKey(g)]
      BY <1>2, <3>1 DEF RouteGood, Cached
    <3>3. Joins(t, m, g)
      BY <1>1, <3>1, <3>2 DEF GroupGood, RouteGood
    <3>4. w.cache[MapKey(m)] = t.cache[MapKey(m)]
      BY <1>2, <3>3 DEF Joins, Cached
    <3>5. <<GroupKey(g), RouteKey(g, m)>> \in w.links
      BY <1>2, <3>1 DEF RouteGood
    <3> QED
      BY <3>1, <3>2, <3>4, <3>5 DEF RouteGood, Cached
  <2>2. CASE ~ Cached(t, RouteKey(g, m))
    <3>1. /\ <<g, m>> \in Users(ir.groups)
          /\ w.cache[RouteKey(g, m)] = newRoute(t, s, ir, <<g, m>>)
          /\ <<GroupKey(g), RouteKey(g, m)>> \in w.links
      BY <1>2, <1>9, <2>2
    <3>2. g \in DOMAIN ir.groups /\ m \in Elements(ir.groups[g].maps)
      BY <3>1 DEF Users
    <3> DEFINE h == t.cache[GroupKey(g)]
               x == t.cache[MapKey(m)]
               o == w.cache[RouteKey(g, m)]
    <3>3. Cached(t, GroupKey(g)) /\ Cached(w, GroupKey(g)) /\ w.cache[GroupKey(g)] = h /\ ir.groups[g] = h
      BY <1>2, <3>2 DEF IRFits
    <3>4. GroupGood(t, s, e, L, g)
      BY <1>1, <3>3
    <3>5. Joins(t, m, g)
      BY <3>2, <3>3, <3>4 DEF GroupGood
    <3>6. Cached(t, MapKey(m)) /\ w.cache[MapKey(m)] = x /\ object(t, s, m) = x
      BY <1>2, <3>5 DEF Joins, Cached, object
    <3>7. MappingGood(t, s, e, m)
      BY <1>1, <3>6
    <3>8. o = [group |-> h, spec |-> x.spec, default |-> x.mod, mod |-> s.module]
      BY <3>1, <3>3, <3>6 DEF newRoute
    <3>9. /\ "Module" \notin e => h.mod = s.module /\ x.mod = s.module
          /\ "Module" \notin e /\ g \notin L => (h.prepended # 0 <=> s.module \in DefaultsAt)
      BY <3>2, <3>3, <3>4, <3>7 DEF GroupGood, MappingGood, IRFits
    <3> HIDE DEF h, x, o
    <3>10. o.group = h /\ o.spec = x.spec /\ o.default = x.mod /\ o.mod = s.module
      BY <3>8
    <3> QED
      BY <3>1, <3>2, <3>3, <3>6, <3>9, <3>10 DEF RouteGood, Cached, o
  <2> QED
    BY <2>1, <2>2
<1> QED
  BY <1>2, <1>4, <1>6, <1>7, <1>8, <1>9, GoodByKind DEF Cached, w

-----------------------------------------------------------------------------
(* More labelled groups and more clusters may be excepted. *)
LEMMA GoodMono ==
  ASSUME NEW t, NEW s, NEW e, NEW L, NEW D, NEW K, NEW B, L \subseteq K, D \subseteq B,
         Good(t, s, e, L, D)
  PROVE  Good(t, s, e, K, B)
<1>1. \A g : GroupGood(t, s, e, L, g) => GroupGood(t, s, e, K, g)
  BY DEF GroupGood
<1>2. \A c : ClusterGood(t, s, e, D, c) => ClusterGood(t, s, e, B, c)
  BY DEF ClusterGood
<1>3. \A c : V3Good(t, s, e, D, c) => V3Good(t, s, e, B, c)
  BY DEF V3Good
<1>4. \A g, m : RouteGood(t, s, e, L, g, m) => RouteGood(t, s, e, K, g, m)
  BY DEF RouteGood
<1> QED
  BY <1>1, <1>2, <1>3, <1>4, GoodByKind

(* A change of the aconf that its delta announces leaves the cache good. *)
LEMMA ChangeGood ==
  ASSUME NEW t, NEW s, NEW r, NEW e, NEW f, NEW L, NEW D, Good(t, s, e, L, D), e \subseteq f,
         \A m \in Names \ f : r.config[m] = s.config[m],
         "Module" \notin f => r.module = s.module
  PROVE  Good(t, r, f, L, D)
<1>1. \A m : MappingGood(t, s, e, m) => MappingGood(t, r, f, m)
  BY DEF MappingGood
<1>2. ASSUME NEW g, GroupGood(t, s, e, L, g) PROVE GroupGood(t, r, f, L, g)
  <2> DEFINE o == t.cache[GroupKey(g)]
  <2>1. \A m \in live(r) \ f : m \in live(s) \ e /\ r.config[m].group = s.config[m].group
    BY DEF live
  <2>2. g \notin L => \A m \in live(r) \ f : r.config[m].group = g => m \in Elements(o.maps)
    BY <1>2, <2>1 DEF GroupGood
  <2>3. Elements(o.maps) \cap f = {} => Elements(o.maps) \cap e = {}
    OBVIOUS
  <2> QED
    BY <1>2, <2>2, <2>3 DEF GroupGood
<1>3. \A c : ClusterGood(t, s, e, D, c) => ClusterGood(t, r, f, D, c)
  BY DEF ClusterGood
<1>4. \A c : V3Good(t, s, e, D, c) => V3Good(t, r, f, D, c)
  BY DEF V3Good
<1>5. ASSUME NEW g, NEW m, RouteGood(t, s, e, L, g, m) PROVE RouteGood(t, r, f, L, g, m)
  <2>1. Elements(t.cache[GroupKey(g)].maps) \cap f = {} => Elements(t.cache[GroupKey(g)].maps) \cap e = {}
    OBVIOUS
  <2> QED
    BY <1>5, <2>1 DEF RouteGood
<1> QED
  BY <1>1, <1>2, <1>3, <1>4, <1>5, GoodByKind

(* The whole of the Envoy configuration is a part of it. *)
LEMMA WholePart ==
  ASSUME NEW t, NEW s, NEW ir
  PROVE  EnvoyConfig(t, s, ir) = Part(EnvoyConfig(t, s, ir), Users(ir.groups), DOMAIN ir.clusters)
<1> DEFINE R == routes(t, s, ir)
           V == clusters(t, ir)
<1>1. R = [u \in Users(ir.groups) |-> R[u]] /\ V = [c \in DOMAIN ir.clusters |-> V[c]]
  BY DEF routes, clusters
<1>2. EnvoyConfig(t, s, ir) = [routes |-> R, clusters |-> V]
  BY DEF EnvoyConfig
<1> HIDE DEF R, V
<1>3. EnvoyConfig(t, s, ir).routes = R /\ EnvoyConfig(t, s, ir).clusters = V
  BY <1>2
<1> QED
  BY <1>1, <1>2, <1>3 DEF Part

(* The cache after the compilation of a snapshot, all of it or as far as    *)
(* the Envoy configuration got.                                             *)
LEMMA CompileGood ==
  ASSUME NEW t, NEW s, NEW e, NEW L, NEW D, Sound(t, s, e, L, D), Contested(t, s) \subseteq D,
         NEW K, L \subseteq K, s.module \in DefaultsAt => Labelled \cap DOMAIN IR(t, s).groups \subseteq K
  PROVE  LET ir == IR(t, s)
             n  == irCache(t, s, ir, DOMAIN ir.groups, Users(ir.groups))
         IN  /\ Good(n, s, e, L, D) /\ IRFits(n, s, e, L, D, ir)
             /\ \A us \in SUBSET Users(ir.groups), cs \in SUBSET DOMAIN ir.clusters :
                  LET w == econfCache(n, Part(EnvoyConfig(n, s, ir), us, cs))
                  IN  Good(w, s, e, K, D) /\ Unstamped(w, K)
<1> DEFINE ir == IR(t, s)
           fs == DOMAIN ir.groups
           uu == Users(ir.groups)
           n == irCache(t, s, ir, fs, uu)
<1>1. uu \in SUBSET Users(add_mappings(t, s))
  BY IRShape
<1>2. IRFits(n, s, e, L, D, ir)
  BY IRIsCached
<1>3. Good(n, s, e, L, D) /\ Unstamped(n, K)
  <2>1. s.module \in DefaultsAt => Labelled \cap fs \subseteq K
    OBVIOUS
  <2> HIDE DEF fs, uu
  <2>2. /\ Good(irCache(t, s, IR(t, s), fs, uu), s, e, L, D)
        /\ Unstamped(irCache(t, s, IR(t, s), fs, uu), K)
    BY <1>1, <2>1, IRGood
  <2> QED
    BY <2>2
<1> HIDE DEF ir, n
<1>4. ASSUME NEW us \in SUBSET Users(ir.groups), NEW cs \in SUBSET DOMAIN ir.clusters
      PROVE  LET w == econfCache(n, Part(EnvoyConfig(n, s, ir), us, cs))
             IN  Good(w, s, e, K, D) /\ Unstamped(w, K)
  <2> DEFINE w == econfCache(n, Part(EnvoyConfig(n, s, ir), us, cs))
  <2>1. Good(w, s, e, L, D)
    BY <1>2, <1>3, EconfGood
  <2>2. Shaped(n)
    BY <1>3, GoodByKind
  <2>3. /\ Shaped(w)
        /\ \A k : Cached(n, k) => Cached(w, k) /\ w.cache[k] = n.cache[k]
        /\ \A k : Kind(k) \in {"Mapping", "Group", "Cluster"} /\ Cached(w, k) => Cached(n, k)
        /\ \A c : Cached(w, V3Key(c)) /\ ~ Cached(n, V3Key(c)) =>
             /\ c \in DOMAIN ir.clusters /\ Cached(n, ClusterKey(c))
             /\ w.cache[V3Key(c)] = ir.clusters[c]
             /\ <<ClusterKey(c), V3Key(c)>> \in w.links
        /\ \A g, m : Cached(w, RouteKey(g, m)) /\ ~ Cached(n, RouteKey(g, m)) =>
             /\ <<g, m>> \in Users(ir.groups)
             /\ w.cache[RouteKey(g, m)] = newRoute(n, s, ir, <<g, m>>)
             /\ <<GroupKey(g), RouteKey(g, m)>> \in w.links
        /\ n.links \subseteq w.links
    BY <2>2, EconfCacheFacts
  <2> HIDE DEF w
  <2>4. Good(w, s, e, K, D)
    BY <2>1, GoodMono
  <2>5. Unstamped(w, K)
    BY <1>3, <2>3, KeyFacts DEF Unstamped, Cached
  <2> QED
    BY <2>4, <2>5 DEF w
<1> QED
  BY <1>2, <1>3, <1>4 DEF ir, n

(* What a snapshot finds in the cache. *)
LEMMA ReadySound ==
  ASSUME FollowsInv
  PROVE  LET t == ready(memo, aconf, deltas)
         IN  /\ Sound(t, aconf, Followed(deltas), Stamped(deltas), Disputed(deltas))
             /\ Contested(t, aconf) \subseteq Disputed(deltas)
<1> DEFINE t == ready(memo, aconf, deltas)
           B == IF incremental(deltas) THEN disputed ELSE {}
<1>1. /\ Rooted(memo) /\ Good(memo, aconf, deltas \cup missed, stamped, disputed)
      /\ Unstamped(memo, stamped) /\ ConfigOK(aconf)
  BY DEF FollowsInv, AconfOK
<1>2. Followed(deltas) = Unfollowed(deltas, missed)
  BY DEF Followed, Unfollowed
<1>3. Good(t, aconf, Followed(deltas), Stamped(deltas), B) /\ Unstamped(t, Stamped(deltas))
  BY <1>1, <1>2, ReadyGood, ModuleAssumption DEF Stamped
<1>4. B \subseteq Disputed(deltas) /\ Contested(t, aconf) \subseteq Disputed(deltas)
  BY DEF Disputed
<1> HIDE DEF t, B
<1>5. Good(t, aconf, Followed(deltas), Stamped(deltas), Disputed(deltas))
  BY <1>3, <1>4, GoodMono
<1> QED
  BY <1>1, <1>3, <1>4, <1>5 DEF Sound, t

(* The cache after a snapshot that only fails when the Mappings are known.  *)
LEMMA AddFailsGood ==
  ASSUME FollowsInv, NEW m, AddFails(m)
  PROVE  Good(memo', aconf, missed', stamped', disputed') /\ Unstamped(memo', stamped')
<1> DEFINE t == ready(memo, aconf, deltas)
           part == upTo(aconf, {n \in Names : Position(Order, n) < Position(Order, m)})
           f == Followed(deltas) \cup (live(aconf) \ live(part))
<1>1. /\ memo' = irCache(t, part, IR(t, part), {}, {}) /\ missed' = f
      /\ stamped' = Stamped(deltas) /\ disputed' = Disputed(deltas)
  BY DEF AddFails
<1>2. Sound(t, aconf, Followed(deltas), Stamped(deltas), Disputed(deltas))
      /\ Contested(t, aconf) \subseteq Disputed(deltas)
  BY ReadySound
<1>3. /\ AconfOK /\ ConfigOK(aconf)
  BY DEF FollowsInv, AconfOK
<1>4. /\ part.module = aconf.module
      /\ \A n \in Names : part.config[n] = aconf.config[n] \/ part.config[n] = Absent
  BY <1>3 DEF upTo, AconfOK
<1> HIDE DEF t, part
<1>5. \A n \in Names \ f : part.config[n] = aconf.config[n]
  BY <1>4 DEF live
<1>6. Good(t, part, f, Stamped(deltas), Disputed(deltas))
  <2>1. Good(t, aconf, Followed(deltas), Stamped(deltas), Disputed(deltas))
    BY <1>2 DEF Sound
  <2>2. Followed(deltas) \subseteq f
    OBVIOUS
  <2> HIDE DEF f
  <2> QED
    BY <1>4, <1>5, <2>1, <2>2, ChangeGood
<1>7. Sound(t, part, f, Stamped(deltas), Disputed(deltas))
  BY <1>2, <1>3, <1>4, <1>6 DEF Sound, ConfigOK
<1>8. Contested(t, part) \subseteq Disputed(deltas)
  <2>1. asked(t, part) \subseteq asked(t, aconf)
    BY <1>4 DEF asked, live
  <2>2. Contested(t, part) \subseteq Contested(t, aconf)
    BY <2>1 DEF Contested
  <2> QED
    BY <1>2, <2>2
<1> HIDE DEF f
<1>9. Good(memo', part, f, Stamped(deltas), Disputed(deltas)) /\ Unstamped(memo', Stamped(deltas))
  <2> DEFINE fs == {}
             us == {}
  <2>1. us \in SUBSET Users(add_mappings(t, part)) /\ Labelled \cap fs \subseteq Stamped(deltas)
    OBVIOUS
  <2>2. memo' = irCache(t, part, IR(t, part), fs, us)
    BY <1>1
  <2> HIDE DEF fs, us
  <2>3. /\ Good(irCache(t, part, IR(t, part), fs, us), part, f, Stamped(deltas), Disputed(deltas))
        /\ Unstamped(irCache(t, part, IR(t, part), fs, us), Stamped(deltas))
    BY <1>7, <1>8, <2>1, IRGood
  <2> QED
    BY <2>2, <2>3
<1>10. Good(memo', aconf, f, Stamped(deltas), Disputed(deltas))
  BY <1>4, <1>5, <1>9, ChangeGood
<1> QED
  BY <1>1, <1>9, <1>10

LEMMA FinalizeFailsGood ==
  ASSUME FollowsInv, FinalizeFails
  PROVE  Good(memo', aconf, missed', stamped', disputed') /\ Unstamped(memo', stamped')
<1> DEFINE t == ready(memo, aconf, deltas)
           gs == add_mappings(t, aconf)
<1>1. PICK us, fs :
        /\ us \in SUBSET Users(gs)
        /\ memo' = irCache(t, aconf, IR(t, aconf), fs, us) /\ stamped' = Stamped(deltas) \cup Stamps(fs)
  <2>1. PICK u \in Users(gs) :
          \E us \in {{w \in Users(gs) \ {u} : Earlier(t, aconf, gs, w, u)}} :
          \E fs \in {{w[1] : w \in us}, {w[1] : w \in us} \cup {u[1]}} :
            memo' = irCache(t, aconf, IR(t, aconf), fs, us) /\ stamped' = Stamped(deltas) \cup Stamps(fs)
    BY DEF FinalizeFails
  <2> HIDE DEF t, gs
  <2> QED
    BY <2>1
<1>2. /\ Sound(t, aconf, Followed(deltas), Stamped(deltas), Disputed(deltas))
      /\ Contested(t, aconf) \subseteq Disputed(deltas)
  BY ReadySound
<1>3. missed' = Followed(deltas) /\ disputed' = Disputed(deltas)
  BY DEF FinalizeFails
<1> HIDE DEF t
<1>4. /\ Stamped(deltas) \subseteq stamped'
      /\ aconf.module \in DefaultsAt => Labelled \cap fs \subseteq stamped'
  BY <1>1 DEF Stamps
<1> DEFINE K == stamped'
<1> HIDE DEF K
<1>5. /\ Good(irCache(t, aconf, IR(t, aconf), fs, us), aconf, Followed(deltas), Stamped(deltas), Disputed(deltas))
      /\ Unstamped(irCache(t, aconf, IR(t, aconf), fs, us), K)
  <2>1. us \in SUBSET Users(add_mappings(t, aconf)) /\ Stamped(deltas) \subseteq K
        /\ (aconf.module \in DefaultsAt => Labelled \cap fs \subseteq K)
    BY <1>1, <1>4 DEF K
  <2> QED
    BY <1>2, <2>1, IRGood
<1>6. Good(memo', aconf, Followed(deltas), K, Disputed(deltas))
  <2>1. Stamped(deltas) \subseteq K
    BY <1>4 DEF K
  <2> QED
    BY <1>1, <1>5, <2>1, GoodMono
<1> QED
  BY <1>1, <1>3, <1>5, <1>6 DEF K

(* The cache after the Envoy configuration of a snapshot, or a part of it.  *)
LEMMA EconfStepGood ==
  ASSUME FollowsInv, NEW K,
         K = Stamped(deltas) \cup Stamps(DOMAIN compile(memo, aconf, deltas).ir.groups)
  PROVE  LET now == compile(memo, aconf, deltas)
         IN  /\ Good(now.memo, aconf, Followed(deltas), K, Disputed(deltas)) /\ Unstamped(now.memo, K)
             /\ \A us \in SUBSET DOMAIN now.econf.routes, cs \in SUBSET DOMAIN now.econf.clusters :
                  LET w == econfCache(now.ircache, Part(now.econf, us, cs))
                  IN  Good(w, aconf, Followed(deltas), K, Disputed(deltas)) /\ Unstamped(w, K)
<1> DEFINE t == ready(memo, aconf, deltas)
           ir == IR(t, aconf)
           n == irCache(t, aconf, ir, DOMAIN ir.groups, Users(ir.groups))
           econf == EnvoyConfig(n, aconf, ir)
           now == compile(memo, aconf, deltas)
<1>1. now.ir = ir /\ now.econf = econf /\ now.ircache = n /\ now.memo = econfCache(n, econf)
  BY DEF compile
<1>2. DOMAIN econf.routes = Users(ir.groups) /\ DOMAIN econf.clusters = DOMAIN ir.clusters
  BY DEF EnvoyConfig, routes, clusters
<1>3. /\ Sound(t, aconf, Followed(deltas), Stamped(deltas), Disputed(deltas))
      /\ Contested(t, aconf) \subseteq Disputed(deltas)
  BY ReadySound
<1>4. /\ Stamped(deltas) \subseteq K
      /\ aconf.module \in DefaultsAt => Labelled \cap DOMAIN IR(t, aconf).groups \subseteq K
  BY <1>1 DEF Stamps
<1> HIDE DEF t, now
<1>5. \A us \in SUBSET Users(ir.groups), cs \in SUBSET DOMAIN ir.clusters :
        LET w == econfCache(n, Part(econf, us, cs))
        IN  Good(w, aconf, Followed(deltas), K, Disputed(deltas)) /\ Unstamped(w, K)
  BY <1>3, <1>4, CompileGood
<1>6. econf = Part(econf, Users(ir.groups), DOMAIN ir.clusters)
  BY WholePart
<1> HIDE DEF ir, n, econf
<1>7. /\ Good(econfCache(n, econf), aconf, Followed(deltas), K, Disputed(deltas))
      /\ Unstamped(econfCache(n, econf), K)
  BY <1>5, <1>6
<1> QED
  BY <1>1, <1>2, <1>5, <1>7 DEF now

(* The cache always holds what the aconf says, except for the deltas that   *)
(* have not reached it, for labelled groups that got default labels, and    *)
(* for clusters that Mappings disagreed on.                                 *)
THEOREM CacheFollows == Spec => []FollowsInv
<1>1. Init => FollowsInv
  <2> SUFFICES ASSUME Init PROVE FollowsInv
    OBVIOUS
  <2>1. AconfOK
    BY DEF Init, AconfOK, ConfigOK
  <2>2. /\ Rooted(memo) /\ Good(memo, aconf, deltas \cup missed, stamped, disputed)
        /\ Unstamped(memo, stamped)
    BY NothingRooted, EmptyGood DEF Init, Nothing
  <2> QED
    BY <2>1, <2>2 DEF FollowsInv
<1>2. FollowsInv /\ [Next]_vars => FollowsInv'
  <2> SUFFICES ASSUME FollowsInv, [Next]_vars PROVE FollowsInv'
    OBVIOUS
  <2>0. /\ AconfOK /\ Rooted(memo) /\ Good(memo, aconf, deltas \cup missed, stamped, disputed)
        /\ Unstamped(memo, stamped) /\ ConfigOK(aconf)
    BY DEF FollowsInv, AconfOK
  <2>1. ASSUME NEW m \in Names, NEW x \in SpecsOf[m] \cup {Absent}, Change(m, x) PROVE FollowsInv'
    <3>1. /\ aconf'.config = [aconf.config EXCEPT ![m] = x] /\ aconf'.module = aconf.module
          /\ aconf' = [config |-> aconf'.config, module |-> aconf'.module]
      BY <2>0, <2>1 DEF Change, AconfOK
    <3>2. /\ aconf'.config = [n \in Names |-> aconf'.config[n]] /\ aconf'.config[m] = x
          /\ \A n \in Names : n # m => aconf'.config[n] = aconf.config[n]
      BY <2>0, <3>1 DEF AconfOK
    <3>3. AconfOK'
      BY <2>0, <2>1, <3>1, <3>2 DEF AconfOK, ConfigOK
    <3>4. Good(memo, aconf', deltas' \cup missed', stamped, disputed)
      <4>1. deltas \cup missed \subseteq deltas' \cup missed' /\ m \in deltas'
        BY <2>1 DEF Change
      <4> QED
        BY <2>0, <3>1, <3>2, <4>1, ChangeGood
    <3> QED
      BY <2>0, <2>1, <3>3, <3>4 DEF FollowsInv, Change
  <2>2. ASSUME NEW v \in 0 .. MaxModule, ModuleChange(v) PROVE FollowsInv'
    <3>1. /\ aconf'.config = aconf.config
          /\ aconf' = [config |-> aconf'.config, module |-> aconf'.module]
      BY <2>0, <2>2 DEF ModuleChange, AconfOK
    <3>2. AconfOK'
      BY <2>0, <3>1 DEF AconfOK, ConfigOK
    <3>3. Good(memo, aconf', deltas' \cup missed', stamped, disputed)
      <4>1. deltas \cup missed \subseteq deltas' \cup missed' /\ "Module" \in deltas'
        BY <2>2 DEF ModuleChange
      <4> QED
        BY <2>0, <3>1, <4>1, ChangeGood
    <3> QED
      BY <2>0, <2>2, <3>2, <3>3 DEF FollowsInv, ModuleChange
  <2>3. Rooted(memo')
    BY CacheStep DEF FollowsInv, CacheInv
  <2>4. ASSUME aconf' = aconf, deltas' = {},
               Good(memo', aconf, missed', stamped', disputed'), Unstamped(memo', stamped')
        PROVE  FollowsInv'
    <3>1. AconfOK'
      BY <2>0, <2>4 DEF AconfOK, ConfigOK
    <3>2. deltas' \cup missed' = missed'
      BY <2>4
    <3> QED
      BY <2>3, <2>4, <3>1, <3>2 DEF FollowsInv
  <2>5. CASE Reconfigure
    <3>1. /\ memo' = compile(memo, aconf, deltas).memo
          /\ missed' = Followed(deltas) /\ disputed' = Disputed(deltas)
          /\ stamped' = Stamped(deltas) \cup Stamps(DOMAIN compile(memo, aconf, deltas).ir.groups)
          /\ aconf' = aconf /\ deltas' = {}
      BY <2>5 DEF Reconfigure
    <3>2. Good(memo', aconf, missed', stamped', disputed') /\ Unstamped(memo', stamped')
      <4> DEFINE K == Stamped(deltas) \cup Stamps(DOMAIN compile(memo, aconf, deltas).ir.groups)
      <4>1. /\ Good(compile(memo, aconf, deltas).memo, aconf, Followed(deltas), K, Disputed(deltas))
            /\ Unstamped(compile(memo, aconf, deltas).memo, K)
        BY EconfStepGood
      <4> QED
        BY <3>1, <4>1
    <3> QED
      BY <2>4, <3>1, <3>2
  <2>6. CASE LoadFails
    <3>1. /\ deltas' \cup missed' = deltas \cup missed /\ aconf' = aconf
          /\ UNCHANGED <<memo, disputed, stamped>>
      BY <2>6 DEF LoadFails, Fails
    <3>2. AconfOK'
      BY <2>0, <3>1 DEF AconfOK, ConfigOK
    <3> QED
      BY <2>0, <3>1, <3>2 DEF FollowsInv
  <2>7. CASE CompileFails
    <3>1. /\ aconf' = aconf /\ deltas' = {} /\ memo' = check_deltas(memo, deltas)
          /\ missed' = (IF incremental(deltas) THEN missed \cup deltas ELSE {})
          /\ disputed' = (IF incremental(deltas) THEN disputed ELSE {})
          /\ stamped' = (IF incremental(deltas) THEN stamped ELSE {})
      BY <2>7 DEF CompileFails, Fails, Stamped
    <3>2. Good(memo', aconf, missed', stamped', disputed') /\ Unstamped(memo', stamped')
      <4>1. CASE incremental(deltas)
        <5>1. missed' = deltas \cup missed /\ disputed' = disputed /\ stamped' = stamped
          BY <3>1, <4>1
        <5>2. /\ Good(check_deltas(memo, deltas), aconf, deltas \cup missed, stamped, disputed)
              /\ Unstamped(check_deltas(memo, deltas), stamped)
          BY <2>0, CheckDeltasGood
        <5> QED
          BY <3>1, <5>1, <5>2
      <4>2. CASE ~ incremental(deltas)
        <5>1. DOMAIN memo'.cache = {}
          BY <3>1, <4>2 DEF check_deltas, Nothing
        <5> QED
          BY <5>1, EmptyGood
      <4> QED
        BY <4>1, <4>2
    <3> QED
      BY <2>4, <3>1, <3>2
  <2>8. ASSUME NEW m \in Names, AddFails(m) PROVE FollowsInv'
    <3>1. aconf' = aconf /\ deltas' = {}
      BY <2>8 DEF AddFails, Fails
    <3> QED
      BY <2>4, <2>8, <3>1, AddFailsGood
  <2>9. CASE FinalizeFails
    <3>1. aconf' = aconf /\ deltas' = {}
      BY <2>9 DEF FinalizeFails, Fails
    <3> QED
      BY <2>4, <2>9, <3>1, FinalizeFailsGood
  <2>10. CASE EconfFails
    <3> DEFINE now == compile(memo, aconf, deltas)
               K == Stamped(deltas) \cup Stamps(DOMAIN now.ir.groups)
    <3>1. aconf' = aconf /\ deltas' = {}
      BY <2>10 DEF EconfFails, Fails
    <3>2. missed' = Followed(deltas) /\ disputed' = Disputed(deltas) /\ stamped' = K
      BY <2>10 DEF EconfFails
    <3>3. PICK us \in SUBSET DOMAIN now.econf.routes, cs \in SUBSET DOMAIN now.econf.clusters :
            memo' = econfCache(now.ircache, Part(now.econf, us, cs))
      BY <2>10 DEF EconfFails, Part
    <3>4. LET w == econfCache(now.ircache, Part(now.econf, us, cs))
          IN  Good(w, aconf, Followed(deltas), K, Disputed(deltas)) /\ Unstamped(w, K)
      BY EconfStepGood
    <3>5. Good(memo', aconf, missed', stamped', disputed') /\ Unstamped(memo', stamped')
      BY <3>2, <3>3, <3>4
    <3> QED
      BY <2>4, <3>1, <3>5
  <2>11. CASE UNCHANGED vars
    BY <2>0, <2>11 DEF FollowsInv, AconfOK, ConfigOK, vars
  <2> QED
    BY <2>1, <2>2, <2>5, <2>6, <2>7, <2>8, <2>9, <2>10, <2>11 DEF Next
<1> QED
  BY <1>1, <1>2, PTL DEF Spec

-----------------------------------------------------------------------------
(* What the aconf wants of a Mapping's group, route and cluster, up to what *)
(* comes from the Module.                                                   *)
Wanted(s, g) == {m \in live(s) : s.config[m].group = g}

RightGroup(s, e, o, g) ==
  /\ o.maps = InOrder(Wanted(s, g))
  /\ "Module" \notin e => o.mod = s.module /\ (o.prepended # 0 <=> s.module \in DefaultsAt)

RightRoute(s, e, o, m) ==
  /\ o.spec = s.config[m] /\ RightGroup(s, e, o.group, s.config[m].group)
  /\ "Module" \notin e => o.default = s.module /\ o.mod = s.module

RightCluster(s, e, o, m) ==
  o.par = s.config[m].par /\ ("Module" \notin e => o.mod = s.module)

(* No Mapping whose delta was missed is in group g, or was. *)
Clear(t, s, e, g) ==
  \A m \in e : /\ m \in live(s) => s.config[m].group # g
               /\ Cached(t, MapKey(m)) => t.cache[MapKey(m)].spec.group # g

(* A clear group has the Mappings that the aconf wants there. *)
LEMMA ClearGroup ==
  ASSUME NEW t, NEW s, NEW e, NEW L, NEW D, Sound(t, s, e, L, D),
         NEW g, g \notin L, Clear(t, s, e, g)
  PROVE  LET gs == add_mappings(t, s)
         IN  /\ g \in DOMAIN gs <=> Wanted(s, g) # {}
             /\ g \in DOMAIN gs =>
                  /\ Elements(gs[g].maps) = Wanted(s, g) /\ Wanted(s, g) \cap e = {}
                  /\ gs[g].maps = InOrder(Wanted(s, g))
<1> DEFINE gs == add_mappings(t, s)
           X(m) == object(t, s, m).spec
<1>1. ASSUME NEW m \in live(s) PROVE X(m).group = g <=> s.config[m].group = g
  <2>1. CASE m \in e
    <3>1. MapKey(m) \in DOMAIN t.cache => X(m).group # g
      BY <2>1 DEF Clear, Cached, object
    <3>2. MapKey(m) \notin DOMAIN t.cache => X(m) = s.config[m]
      BY DEF object
    <3> QED
      BY <2>1, <3>1, <3>2 DEF Clear
  <2>2. CASE m \notin e
    BY <2>2, ObjectFacts
  <2> QED
    BY <2>1, <2>2
<1>2. DOMAIN gs = {X(m).group : m \in live(s)}
  BY AddMappingsFacts
<1>3. g \in DOMAIN gs <=> Wanted(s, g) # {}
  <2> HIDE DEF gs, X
  <2> QED
    BY <1>1, <1>2 DEF Wanted
<1>4. Wanted(s, g) \cap e = {}
  BY DEF Wanted, Clear
<1>5. ASSUME g \in DOMAIN gs
      PROVE  Elements(gs[g].maps) = Wanted(s, g) /\ gs[g].maps = InOrder(Wanted(s, g))
  <2> DEFINE q == gs[g].maps
  <2>1. /\ \A m \in Elements(q) :
             X(m).group = g /\ (m \in live(s) \/ (GroupKey(g) \in DOMAIN t.cache /\ Joins(t, m, g)))
        /\ \A m \in live(s) \ e : s.config[m].group = g => m \in Elements(q)
        /\ Elements(q) \cap e = {} => q = InOrder(Elements(q))
    <3>1. GroupMade(t, s, e, L, g, gs[g])
      BY <1>5, AddMappingsFacts
    <3> QED
      BY <3>1 DEF GroupMade
  <2> HIDE DEF q
  <2>2. ASSUME NEW m \in Elements(q) PROVE m \in Wanted(s, g)
    <3>1. CASE m \in live(s)
      BY <1>1, <2>1, <2>2, <3>1 DEF Wanted
    <3>2. CASE m \notin live(s)
      <4>1. MapKey(m) \in DOMAIN t.cache /\ t.cache[MapKey(m)].spec.group = g
        BY <2>1, <2>2, <3>2 DEF Joins
      <4>2. m \notin e
        BY <4>1 DEF Clear, Cached
      <4>3. m \in Names /\ X(m) \in SpecsOf[m] /\ X(m) = s.config[m]
        BY <4>1, <4>2, ObjectFacts
      <4> QED
        BY <3>2, <4>3, AbsentAssumption DEF live
    <3> QED
      BY <3>1, <3>2
  <2>3. Wanted(s, g) \subseteq Elements(q)
    BY <1>4, <2>1 DEF Wanted
  <2>4. Elements(q) = Wanted(s, g)
    BY <2>2, <2>3
  <2> QED
    BY <1>4, <2>1, <2>4 DEF q
<1> QED
  BY <1>3, <1>4, <1>5

(* What a compilation makes of Mappings and of groups outside X. *)
RightIR(s, e, D, X, ir, econf) ==
  /\ \A m \in live(s) \ e :
       ir.mappings[m].spec = s.config[m] /\ ("Module" \notin e => ir.mappings[m].mod = s.module)
  /\ \A g : g \notin X => (g \in DOMAIN ir.groups <=> Wanted(s, g) # {})
  /\ \A g \in DOMAIN ir.groups \ X : RightGroup(s, e, ir.groups[g], g)
  /\ \A m \in live(s) : s.config[m].group \notin X =>
       LET u == <<s.config[m].group, m>>
           c == s.config[m].cluster
       IN  /\ u \in DOMAIN econf.routes /\ RightRoute(s, e, econf.routes[u], m)
           /\ c \in DOMAIN ir.clusters
           /\ c \notin D => RightCluster(s, e, ir.clusters[c], m) /\ RightCluster(s, e, econf.clusters[c], m)

LEMMA CompileRight ==
  ASSUME NEW t, NEW s, NEW e, NEW L, NEW D, Sound(t, s, e, L, D), Contested(t, s) \subseteq D,
         NEW X, L \subseteq X, \A g : g \notin X => Clear(t, s, e, g)
  PROVE  LET ir == IR(t, s)
             n  == irCache(t, s, ir, DOMAIN ir.groups, Users(ir.groups))
         IN  RightIR(s, e, D, X, ir, EnvoyConfig(n, s, ir))
<1> DEFINE gs == add_mappings(t, s)
           ir == IR(t, s)
           n == irCache(t, s, ir, DOMAIN ir.groups, Users(ir.groups))
           econf == EnvoyConfig(n, s, ir)
<1>1. /\ DOMAIN ir.groups = DOMAIN gs /\ Users(ir.groups) = Users(gs)
      /\ \A g \in DOMAIN gs : ir.groups[g] = Finalized(gs[g], s)
      /\ DOMAIN ir.clusters = {object(t, s, u[2]).spec.cluster : u \in Users(gs)}
      /\ \A c \in DOMAIN ir.clusters : ir.clusters[c] = add_cluster(t, s, gs, c)
  BY IRShape
<1>2. Good(n, s, e, L, D) /\ IRFits(n, s, e, L, D, ir)
  <2> DEFINE K == L \cup Labelled
  <2>1. L \subseteq K /\ (s.module \in DefaultsAt => Labelled \cap DOMAIN IR(t, s).groups \subseteq K)
    OBVIOUS
  <2> HIDE DEF K
  <2> QED
    BY <2>1, CompileGood
<1>3. /\ DOMAIN econf.routes = Users(ir.groups) /\ DOMAIN econf.clusters = DOMAIN ir.clusters
      /\ \A u \in Users(ir.groups) :
           econf.routes[u] = IF RouteKey(u[1], u[2]) \in DOMAIN n.cache THEN n.cache[RouteKey(u[1], u[2])]
                             ELSE newRoute(n, s, ir, u)
      /\ \A c \in DOMAIN ir.clusters :
           econf.clusters[c] = IF V3Key(c) \in DOMAIN n.cache THEN n.cache[V3Key(c)] ELSE ir.clusters[c]
  BY DEF EnvoyConfig, routes, clusters
<1>4. \A m \in live(s) \ e :
        ir.mappings[m].spec = s.config[m] /\ ("Module" \notin e => ir.mappings[m].mod = s.module)
  <2> SUFFICES ASSUME NEW m \in live(s) \ e
               PROVE  ir.mappings[m].spec = s.config[m] /\ ("Module" \notin e => ir.mappings[m].mod = s.module)
    OBVIOUS
  <2>1. ir.mappings[m] = [spec |-> object(t, s, m).spec, mod |-> object(t, s, m).mod]
    BY DEF IR
  <2>2. object(t, s, m).spec = s.config[m] /\ ("Module" \notin e => object(t, s, m).mod = s.module)
    BY ObjectFacts
  <2> QED
    BY <2>1, <2>2
<1> HIDE DEF ir, n, econf
<1>5. \A m : Cached(n, MapKey(m)) => MappingGood(n, s, e, m)
  BY <1>2, GoodByKind DEF Cached
<1>6. ASSUME NEW g, g \notin X
      PROVE  /\ g \in DOMAIN ir.groups <=> Wanted(s, g) # {}
             /\ g \in DOMAIN ir.groups =>
                  /\ RightGroup(s, e, ir.groups[g], g) /\ Elements(ir.groups[g].maps) = Wanted(s, g)
                  /\ ir.groups[g].maps = gs[g].maps /\ Wanted(s, g) \cap e = {}
  <2> DEFINE h == ir.groups[g]
             o == gs[g]
  <2>1. /\ g \in DOMAIN gs <=> Wanted(s, g) # {}
        /\ g \in DOMAIN gs =>
             /\ Elements(o.maps) = Wanted(s, g) /\ Wanted(s, g) \cap e = {}
             /\ o.maps = InOrder(Wanted(s, g))
    BY <1>6, ClearGroup
  <2>2. ASSUME g \in DOMAIN ir.groups
        PROVE  /\ h.maps = o.maps /\ RightGroup(s, e, h, g)
    <3>1. h = Finalized(o, s) /\ g \in DOMAIN gs
      BY <1>1, <2>2
    <3>2. GroupMade(t, s, e, L, g, o)
      BY <3>1, AddMappingsFacts
    <3>3. "Module" \notin e => o.mod = s.module
      BY <3>2 DEF GroupMade
    <3>4. "Module" \notin e => (h.prepended # 0 <=> s.module \in DefaultsAt)
      BY <1>2, <1>6, <2>2 DEF IRFits
    <3> HIDE DEF h, o
    <3>5. h.maps = o.maps /\ h.mod = o.mod
      BY <3>1 DEF Finalized
    <3> QED
      BY <2>1, <3>1, <3>3, <3>4, <3>5 DEF RightGroup
  <2> QED
    BY <1>1, <2>1, <2>2
<1>7. ASSUME NEW m \in live(s), s.config[m].group \notin X
      PROVE  LET u == <<s.config[m].group, m>>
                 c == s.config[m].cluster
             IN  /\ u \in DOMAIN econf.routes /\ RightRoute(s, e, econf.routes[u], m)
                 /\ c \in DOMAIN ir.clusters
                 /\ c \notin D => RightCluster(s, e, ir.clusters[c], m) /\ RightCluster(s, e, econf.clusters[c], m)
  <2> DEFINE g == s.config[m].group
             c == s.config[m].cluster
             u == <<g, m>>
             h == ir.groups[g]
             x == n.cache[MapKey(m)]
             r == econf.routes[u]
  <2>1. m \in Wanted(s, g)
    BY DEF Wanted
  <2> HIDE DEF g
  <2>2. /\ g \in DOMAIN ir.groups /\ RightGroup(s, e, h, g) /\ m \in Elements(h.maps) /\ m \notin e
        /\ Elements(h.maps) \cap e = {} /\ g \notin L
    BY <1>6, <1>7, <2>1 DEF g
  <2>3. u \in Users(ir.groups) /\ u[1] = g /\ u[2] = m
    BY <2>2 DEF Users
  <2>4. object(t, s, m).spec = s.config[m]
    BY <2>2, ObjectFacts
  <2>5. Cached(n, GroupKey(g)) /\ n.cache[GroupKey(g)] = h
    BY <1>2, <2>2 DEF IRFits
  <2>6. GroupGood(n, s, e, L, g)
    BY <1>2, <2>5, GoodByKind DEF Cached
  <2>7. Cached(n, MapKey(m)) /\ object(n, s, m) = x
    BY <2>2, <2>5, <2>6 DEF GroupGood, Joins, Cached, object
  <2>8. x.spec = s.config[m] /\ ("Module" \notin e => x.mod = s.module)
    BY <1>5, <2>2, <2>7 DEF MappingGood
  <2>9. RightRoute(s, e, r, m)
    <3>1. CASE Cached(n, RouteKey(g, m))
      <4>1. RouteGood(n, s, e, L, g, m)
        BY <1>2, <3>1, GoodByKind DEF Cached
      <4>2. r = n.cache[RouteKey(g, m)]
        BY <1>3, <2>3, <3>1 DEF Cached
      <4>3. /\ r.spec = x.spec /\ r.group.maps = h.maps
            /\ "Module" \notin e =>
                 /\ r.group.mod = s.module /\ r.default = s.module /\ r.mod = s.module
                 /\ r.group.prepended # 0 <=> s.module \in DefaultsAt
        BY <2>2, <2>5, <4>1, <4>2 DEF RouteGood
      <4> HIDE DEF r, x, h
      <4>4. RightGroup(s, e, r.group, g)
        BY <2>2, <4>3 DEF RightGroup
      <4> QED
        BY <2>8, <4>3, <4>4 DEF RightRoute, g
    <3>2. CASE ~ Cached(n, RouteKey(g, m))
      <4>1. r = newRoute(n, s, ir, u)
        BY <1>3, <2>3, <3>2 DEF Cached
      <4>2. r = [group |-> h, spec |-> x.spec, default |-> x.mod, mod |-> s.module]
        BY <2>3, <2>7, <4>1 DEF newRoute
      <4> HIDE DEF r, x, h
      <4>3. r.group = h /\ r.spec = x.spec /\ r.default = x.mod /\ r.mod = s.module
        BY <4>2
      <4> QED
        BY <2>2, <2>8, <4>3 DEF RightRoute, g
    <3> QED
      BY <3>1, <3>2
  <2>10. u \in Users(gs) /\ c \in DOMAIN ir.clusters
    BY <1>1, <2>3, <2>4
  <2>11. ASSUME c \notin D PROVE RightCluster(s, e, ir.clusters[c], m) /\ RightCluster(s, e, econf.clusters[c], m)
    <3> DEFINE k == ir.clusters[c]
               v == n.cache[V3Key(c)]
    <3>1. k = add_cluster(t, s, gs, c) /\ object(t, s, u[2]).spec.cluster = c
      BY <1>1, <2>3, <2>4, <2>10
    <3>2. k.par = object(t, s, u[2]).spec.par /\ ("Module" \notin e => k.mod = s.module)
      BY <2>10, <2>11, <3>1, AddClusterFacts
    <3>3. RightCluster(s, e, k, m)
      BY <2>3, <2>4, <3>2 DEF RightCluster
    <3>4. ASSUME Cached(n, V3Key(c)) PROVE RightCluster(s, e, v, m)
      <4>1. V3Good(n, s, e, D, c)
        BY <1>2, <3>4, GoodByKind DEF Cached
      <4>2. Cached(n, ClusterKey(c)) /\ v.par = n.cache[ClusterKey(c)].par /\ ("Module" \notin e => v.mod = s.module)
        BY <2>11, <4>1 DEF V3Good, Cached
      <4>3. n.cache[ClusterKey(c)].par = k.par
        BY <1>2, <2>10, <2>11, <4>2 DEF IRFits
      <4> QED
        BY <3>3, <4>2, <4>3 DEF RightCluster
    <3>5. econf.clusters[c] = IF Cached(n, V3Key(c)) THEN v ELSE k
      BY <1>3, <2>10 DEF Cached
    <3> HIDE DEF k, v
    <3>6. RightCluster(s, e, econf.clusters[c], m)
      BY <3>3, <3>4, <3>5
    <3> QED
      BY <3>3, <3>6 DEF k
  <2> QED
    BY <1>3, <2>3, <2>9, <2>10, <2>11 DEF g
<1>8. \A g \in DOMAIN ir.groups \ X : RightGroup(s, e, ir.groups[g], g)
  BY <1>6
<1>9. \A g : g \notin X => (g \in DOMAIN ir.groups <=> Wanted(s, g) # {})
  BY <1>6
<1>10. RightIR(s, e, D, X, ir, econf)
  BY <1>4, <1>7, <1>8, <1>9 DEF RightIR
<1> QED
  BY <1>10 DEF ir, n, econf

(* What a snapshot finds in the cache was there before. *)
LEMMA ReadySub ==
  ASSUME NEW t, NEW s, NEW d, Rooted(t)
  PROVE  \A k \in DOMAIN ready(t, s, d).cache :
           k \in DOMAIN t.cache /\ ready(t, s, d).cache[k] = t.cache[k]
<1> DEFINE v == check_deltas(t, d)
           ks == {GroupKey(object(v, s, m).spec.group) : m \in d \cap live(s)}
           ms == {MapKey(m) : m \in d \cap Names}
<1>1. Rooted(v) /\ ready(t, s, d) = invalidate(v, ks)
  BY CheckDeltasRooted DEF ready, invalidate_groups_for
<1>2. v = IF incremental(d) THEN invalidate(t, ms) ELSE Nothing
  BY DEF check_deltas
<1> HIDE DEF ks, ms, v
<1>3. \A k \in DOMAIN invalidate(v, ks).cache : k \in DOMAIN v.cache /\ invalidate(v, ks).cache[k] = v.cache[k]
  BY <1>1, InvalidateFacts
<1>4. \A k \in DOMAIN v.cache : k \in DOMAIN t.cache /\ v.cache[k] = t.cache[k]
  <2>1. CASE incremental(d)
    <3>1. v = invalidate(t, ms)
      BY <1>2, <2>1
    <3> QED
      BY <3>1, InvalidateFacts
  <2>2. CASE ~ incremental(d)
    BY <1>2, <2>2 DEF Nothing
  <2> QED
    BY <2>1, <2>2
<1> QED
  BY <1>1, <1>3, <1>4

(* A full compilation is right, for every Mapping and group. *)
LEMMA FullRight ==
  ASSUME NEW s, ConfigOK(s), NEW D, {x.cluster : x \in {y \in {s.config[m] : m \in live(s)} :
           \E z \in {s.config[m] : m \in live(s)} : y.cluster = z.cluster /\ y.par # z.par}} \subseteq D
  PROVE  RightIR(s, {}, D, {}, full(s).ir, full(s).econf)
<1> DEFINE t == ready(Nothing, s, {})
           ir == IR(t, s)
           n == irCache(t, s, ir, DOMAIN ir.groups, Users(ir.groups))
<1>1. full(s).ir = ir /\ full(s).econf = EnvoyConfig(n, s, ir)
  BY DEF full, compile
<1>2. DOMAIN t.cache = {}
  <2>1. \A k \in DOMAIN t.cache : k \in DOMAIN Nothing.cache
    BY NothingRooted, ReadySub
  <2> QED
    BY <2>1 DEF Nothing
<1> HIDE DEF t
<1>3. Sound(t, s, {}, {}, D)
  BY <1>2, EmptyGood DEF Sound
<1>4. Contested(t, s) \subseteq D
  <2>1. asked(t, s) = {s.config[m] : m \in live(s)}
    BY <1>2 DEF asked
  <2> QED
    BY <2>1 DEF Contested
<1>5. \A g : g \notin {} => Clear(t, s, {}, g)
  BY DEF Clear
<1>6. RightIR(s, {}, D, {}, ir, EnvoyConfig(n, s, ir))
  <2> DEFINE z == {}
  <2>1. Sound(t, s, z, z, D) /\ z \subseteq z /\ \A g : g \notin z => Clear(t, s, z, g)
    BY <1>3, <1>5
  <2> HIDE DEF z
  <2>2. RightIR(s, z, D, z, ir, EnvoyConfig(n, s, ir))
    BY <1>4, <2>1, CompileRight
  <2> QED
    BY <2>2 DEF z
<1> QED
  BY <1>1, <1>6

(* The cache is invisible, but for what IncrementalMatchesFull excepts:     *)
(* diagd compiles every snapshot to what it would with an empty cache,      *)
(* whatever was compiled before and wherever reconfigurations failed.       *)
THEOREM CacheIsInvisible == Spec => []IncrementalMatchesFull
<1>1. FollowsInv => IncrementalMatchesFull
  <2> SUFFICES ASSUME FollowsInv PROVE IncrementalMatchesFull
    OBVIOUS
  <2> DEFINE t == ready(memo, aconf, deltas)
             ir == IR(t, aconf)
             n == irCache(t, aconf, ir, DOMAIN ir.groups, Users(ir.groups))
             now == compile(memo, aconf, deltas)
             ref == full(aconf)
             e == Followed(deltas)
             D == Disputed(deltas)
             X == Spoilt
  <2>1. now.ir = ir /\ now.econf = EnvoyConfig(n, aconf, ir)
    BY DEF compile
  <2>2. Sound(t, aconf, e, Stamped(deltas), D) /\ Contested(t, aconf) \subseteq D
    BY ReadySound
  <2>3. Rooted(memo) /\ ConfigOK(aconf)
    BY DEF FollowsInv, AconfOK
  <2>4. \A k \in DOMAIN t.cache : k \in DOMAIN memo.cache /\ t.cache[k] = memo.cache[k]
    BY <2>3, ReadySub
  <2> HIDE DEF t
  <2>5. Stamped(deltas) \subseteq X
    BY DEF Spoilt
  <2>6. ASSUME NEW g, g \notin X PROVE Clear(t, aconf, e, g)
    <3> SUFFICES ASSUME NEW m \in e
                 PROVE  /\ m \in live(aconf) => aconf.config[m].group # g
                        /\ Cached(t, MapKey(m)) => t.cache[MapKey(m)].spec.group # g
      BY DEF Clear
    <3>1. ASSUME m \in live(aconf) PROVE aconf.config[m].group \in X
      BY <3>1 DEF Spoilt, live
    <3>2. ASSUME Cached(t, MapKey(m)) PROVE t.cache[MapKey(m)].spec.group \in X
      <4>1. m \in Names
        BY <2>2, <3>2, ObjectFacts DEF Cached
      <4>2. MapKey(m) \in DOMAIN memo.cache /\ t.cache[MapKey(m)] = memo.cache[MapKey(m)]
        BY <2>4, <3>2 DEF Cached
      <4> QED
        BY <4>1, <4>2 DEF Spoilt
    <3> QED
      BY <2>6, <3>1, <3>2
  <2> HIDE DEF e, D, X
  <2>7. RightIR(aconf, e, D, X, now.ir, now.econf)
    <3>1. RightIR(aconf, e, D, X, ir, EnvoyConfig(n, aconf, ir))
      BY <2>2, <2>5, <2>6, CompileRight
    <3> QED
      BY <2>1, <3>1
  <2>8. RightIR(aconf, {}, D, {}, ref.ir, ref.econf)
    <3>1. {aconf.config[m] : m \in live(aconf)} \subseteq asked(t, aconf)
      BY DEF asked
    <3>2. {x.cluster : x \in {y \in {aconf.config[m] : m \in live(aconf)} :
             \E z \in {aconf.config[m] : m \in live(aconf)} : y.cluster = z.cluster /\ y.par # z.par}} \subseteq D
      BY <2>2, <3>1 DEF Contested
    <3> QED
      BY <2>3, <3>2, FullRight
  <2> HIDE DEF now, ref
  <2>9. ASSUME NEW a, NEW b, NEW g, RightGroup(aconf, e, a, g), RightGroup(aconf, {}, b, g)
        PROVE  SameGroup(a, b)
    BY <2>9, Zenon DEF RightGroup, SameGroup, Defaults, e
  <2>10. ASSUME NEW a, NEW b, NEW m, RightRoute(aconf, e, a, m), RightRoute(aconf, {}, b, m)
         PROVE  SameRoute(a, b)
    <3>1. SameGroup(a.group, b.group)
      BY <2>9, <2>10 DEF RightRoute
    <3> QED
      BY <2>10, <3>1 DEF RightRoute, SameRoute, Defaults, e
  <2>11. ASSUME NEW a, NEW b, NEW m, RightCluster(aconf, e, a, m), RightCluster(aconf, {}, b, m)
         PROVE  SameCluster(a, b)
    BY <2>11 DEF RightCluster, SameCluster, Defaults, e
  <2>12. \A m \in live(aconf) \ e : SameMapping(now.ir.mappings[m], ref.ir.mappings[m])
    BY <2>7, <2>8 DEF RightIR, SameMapping, Defaults, e
  <2>13. /\ DOMAIN now.ir.groups \ X = DOMAIN ref.ir.groups \ X
         /\ \A g \in DOMAIN ref.ir.groups \ X : SameGroup(now.ir.groups[g], ref.ir.groups[g])
    <3>1. DOMAIN now.ir.groups \ X = DOMAIN ref.ir.groups \ X
      BY <2>7, <2>8 DEF RightIR
    <3>2. ASSUME NEW g \in DOMAIN ref.ir.groups \ X PROVE SameGroup(now.ir.groups[g], ref.ir.groups[g])
      <4>1. g \in DOMAIN now.ir.groups \ X
        BY <3>1
      <4>2. RightGroup(aconf, e, now.ir.groups[g], g) /\ RightGroup(aconf, {}, ref.ir.groups[g], g)
        BY <2>7, <2>8, <4>1 DEF RightIR
      <4> QED
        BY <2>9, <4>2
    <3> QED
      BY <3>1, <3>2
  <2>14. ASSUME NEW m \in live(aconf), aconf.config[m].group \notin X
         PROVE  LET u == <<aconf.config[m].group, m>>
                    c == aconf.config[m].cluster
                IN  /\ u \in DOMAIN now.econf.routes /\ u \in DOMAIN ref.econf.routes
                    /\ SameRoute(now.econf.routes[u], ref.econf.routes[u])
                    /\ c \in DOMAIN now.ir.clusters /\ c \in DOMAIN ref.ir.clusters
                    /\ c \notin D =>
                         /\ SameCluster(now.ir.clusters[c], ref.ir.clusters[c])
                         /\ SameCluster(now.econf.clusters[c], ref.econf.clusters[c])
    <3> DEFINE u == <<aconf.config[m].group, m>>
               c == aconf.config[m].cluster
    <3>1. /\ u \in DOMAIN now.econf.routes /\ RightRoute(aconf, e, now.econf.routes[u], m)
          /\ c \in DOMAIN now.ir.clusters
          /\ c \notin D => RightCluster(aconf, e, now.ir.clusters[c], m) /\ RightCluster(aconf, e, now.econf.clusters[c], m)
      BY <2>7, <2>14 DEF RightIR
    <3>2. /\ u \in DOMAIN ref.econf.routes /\ RightRoute(aconf, {}, ref.econf.routes[u], m)
          /\ c \in DOMAIN ref.ir.clusters
          /\ c \notin D => RightCluster(aconf, {}, ref.ir.clusters[c], m) /\ RightCluster(aconf, {}, ref.econf.clusters[c], m)
      BY <2>8, <2>14 DEF RightIR
    <3> HIDE DEF u, c
    <3>3. SameRoute(now.econf.routes[u], ref.econf.routes[u])
      BY <2>10, <3>1, <3>2
    <3>4. c \notin D => /\ SameCluster(now.ir.clusters[c], ref.ir.clusters[c])
                        /\ SameCluster(now.econf.clusters[c], ref.econf.clusters[c])
      BY <2>11, <3>1, <3>2
    <3> QED
      BY <3>1, <3>2, <3>3, <3>4 DEF u, c
  <2> QED
    BY <2>12, <2>13, <2>14 DEF IncrementalMatchesFull, Matches, now, ref, e, D, X
<1> QED
  BY <1>1, CacheFollows, PTL
=============================================================================
