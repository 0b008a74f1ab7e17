---------------------------- MODULE FetchProofs ----------------------------
(***************************************************************************)
(* For any objects and any snapshot of them: what an object becomes does   *)
(* not depend on the order in which watt lists the objects, endpoint       *)
(* routing finds the port that Kubernetes means, and no resource gets lost *)
(* between the processors and Config without an error or a name that the   *)
(* renaming of another one took.                                           *)
(***************************************************************************)
EXTENDS Fetch, FiniteSetTheorems, SequenceTheorems, WellFoundedInduction, TLAPS

(* A sequence, of whatever elements. *)
IsSeq(s) == s \in Seq(ToSet(s))

-----------------------------------------------------------------------------
(* Sequences.  Every set of natural numbers has a least element: this takes  *)
(* the place of induction.                                                   *)
LEMMA Least ==
  ASSUME NEW N \in SUBSET Nat, N # {}
  PROVE  \E n \in N : \A k \in N : n <= k
<1>1. PICK n \in N : \A k \in N : ~ (<<k, n>> \in OpToRel(<, Nat))
  BY WFMin, NatLessThanWellFounded
<1>2. \A k \in N : ~ (k < n)
  BY <1>1 DEF OpToRel
<1> QED
  BY <1>2

(* A set of numbers that has 0 and with each number the next has them all. *)
LEMMA Reaches ==
  ASSUME NEW N \in SUBSET Nat, 0 \in N, \A n \in N : n + 1 \in N
  PROVE  N = Nat
<1> SUFFICES ASSUME Nat \ N # {} PROVE FALSE
  OBVIOUS
<1>1. PICK n \in Nat \ N : \A k \in Nat \ N : n <= k
  BY Least
<1>2. n # 0 /\ n - 1 \in Nat /\ n - 1 \in N
  BY <1>1
<1> QED
  BY <1>1, <1>2

(* A sequence over any set is one over the set of its elements. *)
LEMMA SeqIsSeq ==
  ASSUME NEW S, NEW s \in Seq(S)
  PROVE  IsSeq(s) /\ ToSet(s) \subseteq S
BY SeqOfRange, RangeOfSeq, LenProperties DEF IsSeq, ToSet, Range

LEMMA IsSeqFacts ==
  ASSUME NEW s, IsSeq(s)
  PROVE  /\ Len(s) \in Nat /\ DOMAIN s = 1 .. Len(s)
         /\ s = [i \in 1 .. Len(s) |-> s[i]]
BY LenProperties DEF IsSeq

LEMMA SeqFacts ==
  ASSUME NEW S, NEW s \in Seq(S)
  PROVE  Len(s) \in Nat /\ DOMAIN s = 1 .. Len(s) /\ \A i \in 1 .. Len(s) : s[i] \in S
BY LenProperties, ElementOfSeq

(* A function on an initial piece of the positive numbers is a sequence. *)
LEMMA FunctionIsSeq ==
  ASSUME NEW n \in Nat, NEW s, s = [i \in 1 .. n |-> s[i]]
  PROVE  IsSeq(s) /\ Len(s) = n /\ DOMAIN s = 1 .. n
<1>1. DOMAIN s = 1 .. n
  OBVIOUS
<1>2. s \in [1 .. n -> ToSet(s)]
  BY <1>1 DEF ToSet
<1>3. s \in Seq(ToSet(s))
  BY <1>2, SeqDef
<1>4. Len(s) \in Nat /\ 1 .. Len(s) = 1 .. n
  BY <1>1, <1>3, LenProperties
<1> QED
  BY <1>1, <1>3, <1>4 DEF IsSeq

LEMMA ConcatFacts ==
  ASSUME NEW s, NEW t, IsSeq(s), IsSeq(t)
  PROVE  IsSeq(s \o t) /\ ToSet(s \o t) = ToSet(s) \cup ToSet(t)
<1> DEFINE S == ToSet(s) \cup ToSet(t)
<1>1. s \in Seq(S) /\ t \in Seq(S)
  BY SeqMonotonic DEF IsSeq
<1>2. /\ s \o t \in Seq(S)
      /\ Len(s \o t) = Len(s) + Len(t)
      /\ \A i \in 1 .. Len(s) + Len(t) :
           (s \o t)[i] = IF i <= Len(s) THEN s[i] ELSE t[i - Len(s)]
  BY <1>1, ConcatProperties
<1>3. IsSeq(s \o t)
  BY <1>2, SeqIsSeq
<1>4. Len(s) \in Nat /\ Len(t) \in Nat /\ DOMAIN s = 1 .. Len(s) /\ DOMAIN t = 1 .. Len(t)
  BY IsSeqFacts
<1>5. DOMAIN (s \o t) = 1 .. Len(s) + Len(t)
  BY <1>2, <1>3, IsSeqFacts
<1>6. \A i \in DOMAIN s : i \in DOMAIN (s \o t) /\ (s \o t)[i] = s[i]
  BY <1>2, <1>4, <1>5
<1>7. \A i \in DOMAIN t : Len(s) + i \in DOMAIN (s \o t) /\ (s \o t)[Len(s) + i] = t[i]
  BY <1>2, <1>4, <1>5
<1>8. \A i \in DOMAIN (s \o t) : (s \o t)[i] \in S
  BY <1>2, SeqIsSeq DEF ToSet
<1> QED
  BY <1>3, <1>6, <1>7, <1>8 DEF ToSet

LEMMA EmptyIsSeq == IsSeq(<<>>) /\ ToSet(<<>>) = {} /\ Len(<<>>) = 0
<1>1. <<>> \in Seq({})
  BY EmptySeq
<1>2. \A s \in Seq({}) : IsSeq(s) /\ ToSet(s) \subseteq {}
  BY SeqIsSeq
<1>3. IsSeq(<<>>) /\ ToSet(<<>>) \subseteq {}
  BY <1>1, <1>2
<1> QED
  BY <1>3, EmptySeq

LEMMA SingletonIsSeq ==
  ASSUME NEW x PROVE IsSeq(<<x>>) /\ ToSet(<<x>>) = {x}
<1>1. <<x>> \in Seq({x})
  OBVIOUS
<1>2. DOMAIN <<x>> = 1 .. 1 /\ <<x>>[1] = x
  OBVIOUS
<1>3. \A s \in Seq({x}) : IsSeq(s) /\ ToSet(s) \subseteq {x}
  BY SeqIsSeq
<1>4. IsSeq(<<x>>) /\ ToSet(<<x>>) \subseteq {x}
  BY <1>1, <1>3
<1>5. x \in ToSet(<<x>>)
  BY <1>2 DEF ToSet
<1> QED
  BY <1>4, <1>5

-----------------------------------------------------------------------------
(* In a finite set with a strict total order, given as a set of pairs, every *)
(* rank is taken by one element.                                             *)
LEMMA Ranks ==
  ASSUME NEW S, IsFiniteSet(S), NEW R,
         \A x \in S : <<x, x>> \notin R,
         \A x, y \in S : x # y => <<x, y>> \in R \/ <<y, x>> \in R,
         \A x, y, z \in S : <<x, y>> \in R /\ <<y, z>> \in R => <<x, z>> \in R
  PROVE  /\ Cardinality(S) \in Nat
         /\ \A x \in S : 1 + Cardinality({y \in S : <<y, x>> \in R}) \in 1 .. Cardinality(S)
         /\ \A n \in 1 .. Cardinality(S) :
              \E x \in S : 1 + Cardinality({y \in S : <<y, x>> \in R}) = n
         /\ \A x, z \in S : Cardinality({y \in S : <<y, x>> \in R})
                              = Cardinality({y \in S : <<y, z>> \in R}) => x = z
<1> DEFINE below(x) == {y \in S : <<y, x>> \in R}
           rank == [x \in S |-> 1 + Cardinality(below(x))]
           N == Cardinality(S)
<1>1. N \in Nat
  BY FS_CardinalityType
<1>2. ASSUME NEW x \in S
      PROVE  IsFiniteSet(below(x)) /\ Cardinality(below(x)) \in Nat /\ Cardinality(below(x)) < N
  <2>1. below(x) \in SUBSET S /\ below(x) # S
    OBVIOUS
  <2>2. IsFiniteSet(below(x)) /\ Cardinality(below(x)) <= N /\ Cardinality(below(x)) # N
    BY <2>1, FS_Subset
  <2>3. Cardinality(below(x)) \in Nat
    BY <2>2, FS_CardinalityType
  <2> HIDE DEF below, N
  <2> QED
    BY <1>1, <2>2, <2>3
<1>3. ASSUME NEW x \in S, NEW y \in S, <<x, y>> \in R PROVE rank[x] < rank[y]
  <2>1. below(x) \in SUBSET below(y) /\ x \in below(y) /\ x \notin below(x)
    BY <1>3
  <2>2. Cardinality(below(x)) <= Cardinality(below(y)) /\ Cardinality(below(x)) # Cardinality(below(y))
    BY <1>2, <2>1, FS_Subset
  <2>3. rank[x] = 1 + Cardinality(below(x)) /\ rank[y] = 1 + Cardinality(below(y))
    OBVIOUS
  <2> HIDE DEF rank, below
  <2> QED
    BY <1>2, <2>2, <2>3
<1>4. rank \in [S -> 1 .. N]
  <2> HIDE DEF below, N
  <2> QED
    BY <1>1, <1>2
<1>5. \A x \in S : rank[x] = 1 + Cardinality({y \in S : <<y, x>> \in R})
  OBVIOUS
<1> HIDE DEF below, rank, N
<1>6. \A x, y \in S : rank[x] = rank[y] => x = y
  <2> SUFFICES ASSUME NEW x \in S, NEW y \in S, x # y PROVE rank[x] # rank[y]
    OBVIOUS
  <2>1. rank[x] \in Nat /\ rank[y] \in Nat
    BY <1>1, <1>4
  <2>2. CASE <<x, y>> \in R
    <3>1. rank[x] < rank[y]
      BY <1>3, <2>2
    <3> QED
      BY <2>1, <3>1
  <2>3. CASE <<y, x>> \in R
    <3>1. rank[y] < rank[x]
      BY <1>3, <2>3
    <3> QED
      BY <2>1, <3>1
  <2> QED
    BY <2>2, <2>3
<1>7. rank \in Injection(S, 1 .. N)
  BY <1>4, <1>6 DEF Injection, IsInjective
<1>8. IsFiniteSet(1 .. N) /\ Cardinality(1 .. N) = N
  BY <1>1, FS_Interval
<1>9. rank \in Surjection(S, 1 .. N)
  BY <1>7, <1>8, FS_Injection DEF N
<1>10. \A n \in 1 .. N : \E x \in S : rank[x] = n
  BY <1>9 DEF Surjection
<1>11. \A x, z \in S : Cardinality({y \in S : <<y, x>> \in R})
                              = Cardinality({y \in S : <<y, z>> \in R}) => x = z
  BY <1>5, <1>6
<1> QED
  BY <1>1, <1>4, <1>5, <1>10, <1>11 DEF N

(* Keep keeps just the chosen elements. *)
LEMMA KeepFacts ==
  ASSUME NEW s, NEW n \in Nat, NEW ks \in SUBSET (1 .. n)
  PROVE  IsSeq(Keep(s, ks)) /\ ToSet(Keep(s, ks)) = {s[i] : i \in ks}
<1> DEFINE R == {p \in ks \X ks : p[1] < p[2]}
           N == Cardinality(ks)
<1>1. IsFiniteSet(ks)
  <2>1. IsFiniteSet(1 .. n)
    BY FS_Interval
  <2> QED
    BY <2>1, FS_Subset
<1>2. \A x, y \in ks : <<x, y>> \in R <=> x < y
  OBVIOUS
<1>3. \A x \in ks : {y \in ks : <<y, x>> \in R} = {y \in ks : y < x}
  BY <1>2
<1>4. /\ \A x \in ks : <<x, x>> \notin R
      /\ \A x, y \in ks : x # y => <<x, y>> \in R \/ <<y, x>> \in R
      /\ \A x, y, z \in ks : <<x, y>> \in R /\ <<y, z>> \in R => <<x, z>> \in R
  <2> HIDE DEF R
  <2> QED
    BY <1>2
<1> HIDE DEF R
<1>5. /\ Cardinality(ks) \in Nat
      /\ \A x \in ks : 1 + Cardinality({y \in ks : <<y, x>> \in R}) \in 1 .. Cardinality(ks)
      /\ \A k \in 1 .. Cardinality(ks) :
           \E x \in ks : 1 + Cardinality({y \in ks : <<y, x>> \in R}) = k
      /\ \A x, z \in ks : Cardinality({y \in ks : <<y, x>> \in R})
                            = Cardinality({y \in ks : <<y, z>> \in R}) => x = z
  BY <1>1, <1>4, Ranks
<1> DEFINE below(i) == Cardinality({j \in ks : j < i})
           pick(k) == CHOOSE i \in ks : 1 + below(i) = k
<1>6. /\ N \in Nat
      /\ \A x \in ks : below(x) \in Nat /\ 1 + below(x) \in 1 .. N
      /\ \A k \in 1 .. N : \E x \in ks : 1 + below(x) = k
      /\ \A x, z \in ks : below(x) = below(z) => x = z
  <2>1. \A x \in ks : IsFiniteSet({j \in ks : j < x})
    BY <1>1, FS_Subset
  <2>2. \A x \in ks : below(x) \in Nat
    BY <2>1, FS_CardinalityType
  <2> QED
    BY <1>3, <1>5, <2>2
<1>7. Keep(s, ks) = [k \in 1 .. N |-> s[pick(k)]]
  BY DEF Keep
<1> HIDE DEF below, N
<1>8. \A k \in 1 .. N : pick(k) \in ks /\ 1 + below(pick(k)) = k
  BY <1>6
<1>9. \A x \in ks : pick(1 + below(x)) = x
  <2> TAKE x \in ks
  <2>1. pick(1 + below(x)) \in ks /\ 1 + below(pick(1 + below(x))) = 1 + below(x)
    BY <1>6, <1>8
  <2> HIDE DEF pick
  <2>2. below(pick(1 + below(x))) \in Nat /\ below(x) \in Nat
    BY <1>6, <2>1
  <2>3. below(pick(1 + below(x))) = below(x)
    BY <2>1, <2>2
  <2> QED
    BY <1>6, <2>1, <2>3
<1> HIDE DEF pick
<1>10. IsSeq(Keep(s, ks)) /\ DOMAIN Keep(s, ks) = 1 .. N
  BY <1>6, <1>7, FunctionIsSeq
<1> DEFINE q == Keep(s, ks)
<1>11. \A k \in 1 .. N : q[k] = s[pick(k)]
  BY <1>7
<1>12. DOMAIN q = 1 .. N
  BY <1>10
<1> HIDE DEF q
<1>13. ToSet(q) \subseteq {s[i] : i \in ks}
  BY <1>8, <1>11, <1>12 DEF ToSet
<1>14. ASSUME NEW i \in ks PROVE s[i] \in ToSet(q)
  <2>1. 1 + below(i) \in DOMAIN q /\ q[1 + below(i)] = s[i]
    BY <1>6, <1>9, <1>11, <1>12
  <2> QED
    BY <2>1 DEF ToSet
<1> QED
  BY <1>10, <1>13, <1>14 DEF q

(* FlattenSeq makes one sequence of many. *)
LEMMA FlattenFacts ==
  ASSUME NEW seqs, IsSeq(seqs), \A i \in DOMAIN seqs : IsSeq(seqs[i])
  PROVE  /\ IsSeq(FlattenSeq(seqs))
         /\ ToSet(FlattenSeq(seqs)) \subseteq UNION {ToSet(seqs[i]) : i \in DOMAIN seqs}
<1> DEFINE L == Len(seqs)
           U == UNION {ToSet(seqs[i]) : i \in DOMAIN seqs}
           IsFlat(g, n) == g = [i \in 1 .. n |-> IF i = 1 THEN seqs[i] ELSE g[i - 1] \o seqs[i]]
           flatten == CHOOSE g : IsFlat(g, L)
<1>1. L \in Nat /\ DOMAIN seqs = 1 .. L
  BY IsSeqFacts
<1>2. CASE L = 0
  <2>1. FlattenSeq(seqs) = seqs
    BY <1>2 DEF FlattenSeq
  <2>2. ToSet(seqs) = {}
    BY <1>1, <1>2 DEF ToSet
  <2> QED
    BY <2>1, <2>2
<1>3. CASE L # 0
  <2>1. FlattenSeq(seqs) = flatten[L]
    BY <1>3 DEF FlattenSeq
  <2>2. \A n \in Nat : \E g : IsFlat(g, n)
    <3> DEFINE N == {n \in Nat : \E g : IsFlat(g, n)}
    <3>1. 0 \in N
      <4>1. IsFlat(<<>>, 0)
        OBVIOUS
      <4> QED
        BY <4>1
    <3>2. ASSUME NEW n \in N PROVE n + 1 \in N
      <4>1. PICK g : IsFlat(g, n)
        OBVIOUS
      <4> DEFINE last == IF n + 1 = 1 THEN seqs[n + 1] ELSE g[n] \o seqs[n + 1]
                 h == [i \in 1 .. n + 1 |-> IF i = n + 1 THEN last ELSE g[i]]
      <4>2. n \in Nat
        OBVIOUS
      <4>3. \A i \in 1 .. n : g[i] = IF i = 1 THEN seqs[i] ELSE g[i - 1] \o seqs[i]
        BY <4>1, <4>2
      <4> HIDE DEF last, IsFlat, N
      <4>4. \A i \in 1 .. n + 1 : h[i] = IF i = n + 1 THEN last ELSE g[i]
        OBVIOUS
      <4>5. h[n + 1] = last /\ (n + 1 # 1 => h[n] = g[n])
        BY <4>2
      <4> HIDE DEF h
      <4>6. \A i \in 1 .. n + 1 : h[i] = IF i = 1 THEN seqs[i] ELSE h[i - 1] \o seqs[i]
        <5> TAKE i \in 1 .. n + 1
        <5>1. CASE i = n + 1
          BY <4>2, <4>5, <5>1 DEF last
        <5>2. CASE i # n + 1
          <6>1. i \in 1 .. n /\ (i # 1 => i - 1 \in 1 .. n + 1 /\ i - 1 # n + 1)
            BY <4>2, <5>2
          <6>2. h[i] = g[i] /\ (i # 1 => h[i - 1] = g[i - 1])
            BY <4>4, <5>2, <6>1
          <6> QED
            BY <4>3, <6>1, <6>2
        <5> QED
          BY <5>1, <5>2
      <4>7. h = [i \in 1 .. n + 1 |-> h[i]]
        BY DEF h
      <4>8. [i \in 1 .. n + 1 |-> h[i]]
              = [i \in 1 .. n + 1 |-> IF i = 1 THEN seqs[i] ELSE h[i - 1] \o seqs[i]]
        BY <4>6, Zenon
      <4>9. IsFlat(h, n + 1)
        BY <4>7, <4>8, Zenon DEF IsFlat
      <4> QED
        BY <4>2, <4>9 DEF N
    <3> HIDE DEF IsFlat
    <3>3. N = Nat
      BY <3>1, <3>2, Reaches
    <3> QED
      BY <3>3
  <2>3. IsFlat(flatten, L)
    <3> HIDE DEF IsFlat
    <3> QED
      BY <1>1, <2>2
  <2>4. \A i \in 1 .. L : flatten[i] = IF i = 1 THEN seqs[i] ELSE flatten[i - 1] \o seqs[i]
    BY <2>3
  <2> HIDE DEF flatten, IsFlat
  <2>5. \A i \in 1 .. L : IsSeq(seqs[i]) /\ ToSet(seqs[i]) \subseteq U
    BY <1>1
  <2> DEFINE N == {n \in Nat : n \in 1 .. L => IsSeq(flatten[n]) /\ ToSet(flatten[n]) \subseteq U}
  <2> HIDE DEF L, U
  <2>6. 0 \in N
    BY <1>1
  <2>7. ASSUME NEW n \in N PROVE n + 1 \in N
    <3> SUFFICES ASSUME n + 1 \in 1 .. L
                 PROVE  IsSeq(flatten[n + 1]) /\ ToSet(flatten[n + 1]) \subseteq U
      OBVIOUS
    <3>1. CASE n = 0
      <4>1. flatten[n + 1] = seqs[n + 1]
        BY <2>4, <3>1
      <4> QED
        BY <2>5, <4>1
    <3>2. CASE n # 0
      <4>1. n \in 1 .. L /\ n + 1 # 1 /\ (n + 1) - 1 = n
        BY <1>1, <3>2
      <4>2. flatten[n + 1] = flatten[n] \o seqs[n + 1]
        BY <2>4, <4>1
      <4>3. IsSeq(flatten[n]) /\ ToSet(flatten[n]) \subseteq U
        BY <4>1
      <4> QED
        BY <2>5, <4>2, <4>3, ConcatFacts
    <3> QED
      BY <3>1, <3>2
  <2>8. L \in N
    <3>1. N \in SUBSET Nat
      OBVIOUS
    <3> HIDE DEF N
    <3> QED
      BY <1>1, <2>6, <2>7, <3>1, Reaches
  <2> QED
    BY <1>1, <1>3, <2>1, <2>8 DEF U
<1> QED
  BY <1>2, <1>3

-----------------------------------------------------------------------------
(* What processors emit. *)
Fields == {"kind", "name", "ns", "rkey", "mine", "bad", "src", "data"}

(* A resource of an object, before or after it is counted. *)
Proper(r, o) ==
  /\ DOMAIN r = Fields
  /\ r.src = o /\ r.ns = o.ns
  /\ r.name \in Seq(Nat) /\ r.rkey \in Seq(Nat)
  /\ o.kind = "Service" => r.kind # "Service"

AllProper(rs, o) == IsSeq(rs) /\ \A r \in ToSet(rs) : Proper(r, o)

LEMMA Tokens ==
  /\ Dash \in Nat /\ Dot \in Nat /\ K8s \in Nat /\ Consul \in Nat
  /\ \A n \in Nat : Word(n) \in Nat /\ Count(n) \in Nat
BY DEF Dash, Dot, K8s, Consul, Word, Count

LEMMA FromData ==
  ASSUME NEW o \in Universe, NEW kind, NEW name \in Seq(Nat), NEW rkey \in Seq(Nat), NEW data,
         kind # "Service" \/ o.kind # "Service"
  PROVE  Proper(from_data(o, kind, name, rkey, data), o)
BY DEF Proper, from_data, Fields

LEMMA GeneratedProper ==
  ASSUME NEW o \in Universe, NEW kind, NEW name \in Seq(Nat), NEW data,
         kind # "Service" \/ o.kind # "Service"
  PROVE  Proper(Generated(o, kind, name, data), o)
<1>1. o.ns \in Seq(Nat) /\ <<Dot>> \in Seq(Nat)
  BY ObjectAssumption, Tokens
<1>2. name \o <<Dot>> \o o.ns \in Seq(Nat)
  BY <1>1, ConcatProperties
<1> QED
  BY <1>2, FromData DEF Generated

LEMMA SuffixedName ==
  ASSUME NEW o \in Universe, NEW a \in Nat, NEW b \in Nat
  PROVE  Suffixed(o, a, b) \in Seq(Nat)
<1>1. o.name \in Seq(Nat)
  BY ObjectAssumption
<1>2. <<Dash, Word(a), Dash, Word(b)>> \in Seq(Nat)
  BY Tokens
<1> QED
  BY <1>1, <1>2, ConcatProperties DEF Suffixed

(* A function on 1 .. n of proper resources. *)
LEMMA AllProperFunction ==
  ASSUME NEW o, NEW n \in Nat, NEW s, s = [i \in 1 .. n |-> s[i]],
         \A i \in 1 .. n : Proper(s[i], o)
  PROVE  AllProper(s, o)
<1>1. IsSeq(s) /\ DOMAIN s = 1 .. n
  BY FunctionIsSeq
<1> QED
  BY <1>1 DEF AllProper, ToSet

LEMMA AllProperConcat ==
  ASSUME NEW o, NEW s, NEW t, AllProper(s, o), AllProper(t, o)
  PROVE  AllProper(s \o t, o)
BY ConcatFacts DEF AllProper

LEMMA AllProperFlatten ==
  ASSUME NEW o, NEW n \in Nat, NEW ss, ss = [i \in 1 .. n |-> ss[i]],
         \A i \in 1 .. n : AllProper(ss[i], o)
  PROVE  AllProper(FlattenSeq(ss), o)
<1>1. IsSeq(ss) /\ DOMAIN ss = 1 .. n
  BY FunctionIsSeq
<1>2. \A i \in DOMAIN ss : IsSeq(ss[i])
  BY <1>1 DEF AllProper
<1>3. IsSeq(FlattenSeq(ss)) /\ ToSet(FlattenSeq(ss)) \subseteq UNION {ToSet(ss[i]) : i \in DOMAIN ss}
  BY <1>1, <1>2, FlattenFacts
<1> QED
  BY <1>1, <1>3 DEF AllProper

LEMMA AllProperEmpty == \A o : AllProper(<<>>, o)
BY EmptyIsSeq DEF AllProper

LEMMA AllProperSingleton ==
  ASSUME NEW o, NEW r, Proper(r, o)
  PROVE  AllProper(<<r>>, o)
BY SingletonIsSeq DEF AllProper

(* The annotations of an object. *)
LEMMA AnnotationsProper ==
  ASSUME NEW o \in Universe
  PROVE  AllProper(handle_annotation(o), o)
<1> DEFINE rkey == o.name \o <<Dot>> \o o.ns
           s == [i \in DOMAIN o.annotations |-> from_data(o, "Mapping", o.annotations[i], rkey, <<>>)]
<1>1. o.name \in Seq(Nat) /\ o.ns \in Seq(Nat) /\ o.annotations \in Seq(Seq(Nat)) /\ <<Dot>> \in Seq(Nat)
  BY ObjectAssumption, Tokens
<1>2. rkey \in Seq(Nat)
  BY <1>1, ConcatProperties
<1>3. Len(o.annotations) \in Nat /\ DOMAIN o.annotations = 1 .. Len(o.annotations)
      /\ \A i \in 1 .. Len(o.annotations) : o.annotations[i] \in Seq(Nat)
  BY <1>1, LenProperties, ElementOfSeq
<1> HIDE DEF rkey
<1>4. \A i \in 1 .. Len(o.annotations) : Proper(from_data(o, "Mapping", o.annotations[i], rkey, <<>>), o)
  BY <1>2, <1>3, FromData
<1>5. \A i \in 1 .. Len(o.annotations) : Proper(s[i], o)
  BY <1>3, <1>4
<1>6. s = [i \in 1 .. Len(o.annotations) |-> s[i]]
  BY <1>3
<1> HIDE DEF s
<1>7. AllProper(s, o)
  BY <1>3, <1>5, <1>6, AllProperFunction
<1> QED
  BY <1>7, AllProperEmpty DEF handle_annotation, rkey, s

(* The resources of an Ingress: Hosts, the default backend, the paths. *)
LEMMA IngressProper ==
  ASSUME NEW o \in Universe, NEW d, o.kind = "Ingress"
  PROVE  AllProper(IngressResources(d, o), o)
<1> DEFINE
      hosts(t) == IF o.spec.tls[t].secret
                  THEN [h \in 1 .. o.spec.tls[t].hosts |->
                          Generated(o, "Host", Suffixed(o, t, h), <<>>)]
                  ELSE <<>>
      backend  == [b \in DOMAIN o.spec.backend |->
                     Generated(o, "Mapping", o.name \o <<Dash, Word(0)>>, o.spec.backend[b])]
      mapping(r, p) ==
        LET path == o.spec.rules[r][p]
        IN  Generated(o, "Mapping", Suffixed(o, r, p),
                      [svc |-> path.svc, port |-> resolve(d, o.ns, path.svc, path.port)])
      named(r) == {p \in DOMAIN o.spec.rules[r] :
                     mapping(r, p).data.svc # <<>> /\ mapping(r, p).data.port # NoName}
      all(r)   == [p \in DOMAIN o.spec.rules[r] |-> mapping(r, p)]
      paths(r) == Keep(all(r), named(r))
      hostss   == [t \in DOMAIN o.spec.tls |-> hosts(t)]
      pathss   == [r \in DOMAIN o.spec.rules |-> paths(r)]
      T == Len(o.spec.tls)
      B == Len(o.spec.backend)
      R == Len(o.spec.rules)
<1>1. /\ o.spec.tls \in Seq([secret : BOOLEAN, hosts : Nat])
      /\ o.spec.backend \in Paths /\ o.spec.rules \in Seq(Paths)
  BY ObjectAssumption
<1>2. T \in Nat /\ DOMAIN o.spec.tls = 1 .. T /\ \A t \in 1 .. T : o.spec.tls[t].hosts \in Nat
  <2>1. /\ T \in Nat /\ DOMAIN o.spec.tls = 1 .. T
        /\ \A t \in 1 .. T : o.spec.tls[t] \in [secret : BOOLEAN, hosts : Nat]
    BY <1>1, SeqFacts, Zenon
  <2> QED
    BY <2>1
<1>3. B \in Nat /\ DOMAIN o.spec.backend = 1 .. B
  BY <1>1, LenProperties DEF Paths
<1>4. R \in Nat /\ DOMAIN o.spec.rules = 1 .. R
  BY <1>1, LenProperties
<1>5. \A r \in 1 .. R : Len(o.spec.rules[r]) \in Nat /\ DOMAIN o.spec.rules[r] = 1 .. Len(o.spec.rules[r])
  <2>1. \A r \in 1 .. R : o.spec.rules[r] \in Paths
    BY <1>1, <1>4, ElementOfSeq
  <2> QED
    BY <2>1, LenProperties DEF Paths
<1> HIDE DEF T, B, R
<1>6. ASSUME NEW t \in 1 .. T PROVE AllProper(hosts(t), o)
  <2> DEFINE s == [h \in 1 .. o.spec.tls[t].hosts |-> Generated(o, "Host", Suffixed(o, t, h), <<>>)]
             n == o.spec.tls[t].hosts
  <2>1. n \in Nat
    BY <1>2
  <2>2. ASSUME NEW h \in 1 .. n PROVE Proper(Generated(o, "Host", Suffixed(o, t, h), <<>>), o)
    <3>1. Suffixed(o, t, h) \in Seq(Nat)
      BY <1>2, <2>1, SuffixedName
    <3> QED
      BY <3>1, GeneratedProper
  <2>3. \A h \in 1 .. n : Proper(s[h], o)
    BY <2>2
  <2>4. s = [h \in 1 .. n |-> s[h]]
    OBVIOUS
  <2> HIDE DEF s, n
  <2>5. AllProper(s, o)
    BY <2>1, <2>3, <2>4, AllProperFunction
  <2> QED
    BY <2>5, AllProperEmpty DEF s
<1>7. AllProper(backend, o)
  <2>1. o.name \o <<Dash, Word(0)>> \in Seq(Nat)
    <3>1. o.name \in Seq(Nat) /\ <<Dash, Word(0)>> \in Seq(Nat)
      BY ObjectAssumption, Tokens
    <3> QED
      BY <3>1, ConcatProperties
  <2>2. \A b \in 1 .. B : Proper(backend[b], o)
    BY <1>3, <2>1, GeneratedProper
  <2>3. backend = [b \in 1 .. B |-> backend[b]]
    BY <1>3
  <2> HIDE DEF backend
  <2> QED
    BY <1>3, <2>2, <2>3, AllProperFunction
<1>8. ASSUME NEW r \in 1 .. R PROVE AllProper(paths(r), o)
  <2> DEFINE n == Len(o.spec.rules[r])
  <2>1. n \in Nat /\ DOMAIN o.spec.rules[r] = 1 .. n
    BY <1>5
  <2> HIDE DEF n
  <2>2. ASSUME NEW p \in 1 .. n PROVE Proper(mapping(r, p), o)
    <3>1. Suffixed(o, r, p) \in Seq(Nat)
      BY <1>4, <2>1, SuffixedName
    <3> QED
      BY <3>1, GeneratedProper
  <2>3. \A p \in 1 .. n : all(r)[p] = mapping(r, p)
    BY <2>1
  <2>4. named(r) \in SUBSET (1 .. n)
    BY <2>1
  <2> HIDE DEF named, mapping, all
  <2>5. IsSeq(paths(r)) /\ ToSet(paths(r)) = {all(r)[i] : i \in named(r)}
    BY <2>1, <2>4, KeepFacts
  <2> QED
    BY <2>2, <2>3, <2>4, <2>5 DEF AllProper
<1>9. AllProper(FlattenSeq(hostss), o)
  <2>1. \A t \in 1 .. T : AllProper(hostss[t], o)
    BY <1>2, <1>6
  <2>2. hostss = [t \in 1 .. T |-> hostss[t]]
    BY <1>2
  <2> HIDE DEF hostss
  <2> QED
    BY <1>2, <2>1, <2>2, AllProperFlatten
<1>10. AllProper(FlattenSeq(pathss), o)
  <2>1. \A r \in 1 .. R : AllProper(pathss[r], o)
    BY <1>4, <1>8
  <2>2. pathss = [r \in 1 .. R |-> pathss[r]]
    BY <1>4
  <2> HIDE DEF pathss
  <2> QED
    BY <1>4, <2>1, <2>2, AllProperFlatten
<1>11. AllProper(FlattenSeq(hostss) \o backend \o FlattenSeq(pathss), o)
  <2> HIDE DEF hostss, backend, pathss
  <2> QED
    BY <1>7, <1>9, <1>10, AllProperConcat
<1>12. IngressResources(d, o)
         = IF ~OurIngress(d, o) THEN <<>> ELSE FlattenSeq(hostss) \o backend \o FlattenSeq(pathss)
  BY DEF IngressResources
<1> QED
  BY <1>11, <1>12, AllProperEmpty

LEMMA KnativeProper ==
  ASSUME NEW o \in Universe, o.kind = "KnativeIngress"
  PROVE  AllProper(KnativeResources(o), o)
<1> DEFINE of(r) == [n \in 1 .. r.hosts * r.splits |-> r]
           rule(i) == [n \in DOMAIN of(o.spec.rules[i]) |->
                         Generated(o, "Mapping", Suffixed(o, i, n), <<>>)]
           rules == [i \in DOMAIN o.spec.rules |-> rule(i)]
           R == Len(o.spec.rules)
<1>1. o.spec.rules \in Seq([hosts : Nat, splits : Nat])
  BY ObjectAssumption
<1>2. R \in Nat /\ DOMAIN o.spec.rules = 1 .. R
      /\ \A i \in 1 .. R : o.spec.rules[i].hosts \in Nat /\ o.spec.rules[i].splits \in Nat
  <2>1. /\ R \in Nat /\ DOMAIN o.spec.rules = 1 .. R
        /\ \A i \in 1 .. R : o.spec.rules[i] \in [hosts : Nat, splits : Nat]
    BY <1>1, SeqFacts, Zenon
  <2> QED
    BY <2>1
<1> HIDE DEF R
<1>3. ASSUME NEW i \in 1 .. R PROVE AllProper(rule(i), o)
  <2> DEFINE N == o.spec.rules[i].hosts * o.spec.rules[i].splits
  <2>1. N \in Nat /\ DOMAIN of(o.spec.rules[i]) = 1 .. N
    BY <1>2
  <2> HIDE DEF N, of
  <2>2. \A n \in 1 .. N : Suffixed(o, i, n) \in Seq(Nat)
    BY <1>2, <2>1, SuffixedName
  <2>3. \A n \in 1 .. N : Proper(rule(i)[n], o)
    BY <2>1, <2>2, GeneratedProper
  <2>4. rule(i) = [n \in 1 .. N |-> rule(i)[n]]
    BY <2>1
  <2> HIDE DEF rule
  <2> QED
    BY <2>1, <2>3, <2>4, AllProperFunction
<1>4. \A i \in 1 .. R : AllProper(rules[i], o)
  BY <1>2, <1>3
<1>5. rules = [i \in 1 .. R |-> rules[i]]
  BY <1>2
<1>6. KnativeResources(o) = IF o.spec.ours /\ o.mine THEN FlattenSeq(rules) ELSE <<>>
  BY DEF KnativeResources
<1> HIDE DEF rules
<1>7. AllProper(FlattenSeq(rules), o)
  BY <1>2, <1>4, <1>5, AllProperFlatten
<1> QED
  BY <1>6, <1>7, AllProperEmpty

LEMMA ResourcesProper ==
  ASSUME NEW o \in Universe, NEW d
  PROVE  AllProper(resources(d, o), o)
<1>1. o.name \in Seq(Nat) /\ o.ns \in Seq(Nat)
  BY ObjectAssumption
<1>2. CASE o.kind \in {"Service", "Endpoints", "IngressClass"}
  <2>1. resources(d, o) = <<>>
    BY <1>2 DEF resources
  <2> QED
    BY <2>1, AllProperEmpty
<1>3. CASE o.kind = "Secret"
  <2> DEFINE r == [Generated(o, "Secret", o.name, <<>>) EXCEPT !.bad = o.bad]
  <2>1. Proper(Generated(o, "Secret", o.name, <<>>), o)
    BY <1>1, GeneratedProper
  <2>2. Proper(r, o)
    BY <2>1 DEF Proper, Fields
  <2>3. resources(d, o) = IF o.spec.known THEN <<r>> ELSE <<>>
    BY <1>3 DEF resources, SecretResources
  <2> HIDE DEF r
  <2> QED
    BY <2>2, <2>3, AllProperEmpty, AllProperSingleton
<1>4. CASE o.kind = "Ingress"
  <2>1. resources(d, o) = IngressResources(d, o)
    BY <1>4 DEF resources
  <2> QED
    BY <1>4, <2>1, IngressProper
<1>5. CASE o.kind = "KnativeIngress"
  <2>1. resources(d, o) = KnativeResources(o)
    BY <1>5 DEF resources
  <2> QED
    BY <1>5, <2>1, KnativeProper
<1>6. CASE o.kind = "Consul"
  <2> DEFINE rkey == <<Consul, Dash>> \o o.name \o <<Dash>> \o o.ns
  <2>1. rkey \in Seq(Nat)
    <3>1. <<Consul, Dash>> \in Seq(Nat) /\ <<Dash>> \in Seq(Nat)
      BY Tokens
    <3> QED
      BY <1>1, <3>1, ConcatProperties
  <2>2. resources(d, o) = <<from_data(o, "Service", o.name, rkey, <<>>)>>
    BY <1>6 DEF resources, ConsulResources
  <2> HIDE DEF rkey
  <2>3. Proper(from_data(o, "Service", o.name, rkey, <<>>), o)
    BY <1>1, <1>6, <2>1, FromData
  <2> QED
    BY <2>2, <2>3, AllProperSingleton
<1>7. CASE o.kind \notin {"Service", "Endpoints", "IngressClass", "Secret", "Ingress",
                          "KnativeIngress", "Consul"}
  <2> DEFINE g == Generated(o, o.kind, o.name, <<>>)
             r == [g EXCEPT !.mine = o.mine, !.bad = o.bad]
  <2>1. resources(d, o) = <<r>>
    BY <1>7 DEF resources, from_kubernetes_object
  <2>2. Proper(g, o)
    BY <1>1, <1>7, GeneratedProper
  <2> HIDE DEF g
  <2>3. Proper(r, o)
    BY <2>2 DEF Proper, Fields
  <2> HIDE DEF r
  <2> QED
    BY <2>1, <2>3, AllProperSingleton
<1> QED
  BY <1>2, <1>3, <1>4, <1>5, <1>6, <1>7

(* ResourceManager.emit changes nothing but rkeys, and drops resources. *)
LEMMA EmitFacts ==
  ASSUME NEW rs, IsSeq(rs),
         \A r \in ToSet(rs) : DOMAIN r = Fields /\ r.rkey \in Seq(Nat)
  PROVE  /\ IsSeq(emit(rs))
         /\ \A r \in ToSet(emit(rs)) :
              /\ DOMAIN r = Fields /\ r.rkey \in Seq(Nat)
              /\ \E q \in ToSet(rs) :
                   /\ r.kind = q.kind /\ r.name = q.name /\ r.ns = q.ns /\ r.src = q.src
                   /\ r.data = q.data /\ r.bad = q.bad
<1> DEFINE counted == [i \in DOMAIN rs |->
                         IF rs[i].kind = "Service" THEN rs[i]
                         ELSE [rs[i] EXCEPT !.rkey = @ \o <<Dot, Count(i)>>]]
           kept == {i \in DOMAIN rs : good_ambassador_id(rs[i])}
<1>1. Len(rs) \in Nat /\ DOMAIN rs = 1 .. Len(rs)
  BY IsSeqFacts
<1>2. kept \in SUBSET (1 .. Len(rs))
  BY <1>1
<1>3. emit(rs) = Keep(counted, kept)
  BY DEF emit
<1>4. ASSUME NEW i \in kept
      PROVE  /\ DOMAIN counted[i] = Fields /\ counted[i].rkey \in Seq(Nat)
             /\ counted[i].kind = rs[i].kind /\ counted[i].name = rs[i].name
             /\ counted[i].ns = rs[i].ns /\ counted[i].src = rs[i].src
             /\ counted[i].data = rs[i].data /\ counted[i].bad = rs[i].bad
             /\ rs[i] \in ToSet(rs)
  <2>1. i \in Nat /\ i \in DOMAIN rs
    BY <1>1, <1>2
  <2>2. <<Dot, Count(i)>> \in Seq(Nat)
    BY <2>1, Tokens
  <2>3. rs[i] \in ToSet(rs) /\ DOMAIN rs[i] = Fields /\ rs[i].rkey \in Seq(Nat)
    BY <2>1 DEF ToSet
  <2>4. rs[i].rkey \o <<Dot, Count(i)>> \in Seq(Nat)
    BY <2>2, <2>3, ConcatProperties
  <2>5. counted[i] = IF rs[i].kind = "Service" THEN rs[i]
                     ELSE [rs[i] EXCEPT !.rkey = rs[i].rkey \o <<Dot, Count(i)>>]
    BY <2>1
  <2> HIDE DEF counted
  <2> QED
    BY <2>3, <2>4, <2>5 DEF Fields
<1> HIDE DEF counted, kept
<1>5. IsSeq(emit(rs)) /\ ToSet(emit(rs)) = {counted[i] : i \in kept}
  BY <1>1, <1>2, <1>3, KeepFacts
<1> QED
  BY <1>4, <1>5

LEMMA EmitProper ==
  ASSUME NEW o, NEW rs, AllProper(rs, o)
  PROVE  AllProper(emit(rs), o)
<1>1. IsSeq(rs) /\ \A r \in ToSet(rs) : Proper(r, o)
  BY DEF AllProper
<1>2. \A r \in ToSet(rs) : DOMAIN r = Fields /\ r.rkey \in Seq(Nat)
  BY <1>1 DEF Proper
<1>3. /\ IsSeq(emit(rs))
      /\ \A r \in ToSet(emit(rs)) :
           /\ DOMAIN r = Fields /\ r.rkey \in Seq(Nat)
           /\ \E q \in ToSet(rs) :
                r.kind = q.kind /\ r.name = q.name /\ r.ns = q.ns /\ r.src = q.src
  BY <1>1, <1>2, EmitFacts
<1> QED
  BY <1>1, <1>3 DEF AllProper, Proper

LEMMA MinFacts ==
  ASSUME NEW ks \in SUBSET Nat, ks # {}
  PROVE  Min(ks) \in ks /\ \A k \in ks : Min(ks) <= k
<1>1. \E m \in ks : \A k \in ks : m <= k
  BY Least
<1> QED
  BY <1>1 DEF Min

LEMMA MaxFacts ==
  ASSUME NEW n \in Nat, NEW ks \in SUBSET (1 .. n), ks # {}
  PROVE  Max(ks) \in ks /\ \A k \in ks : Max(ks) >= k
<1> DEFINE B == {m \in Nat : \A k \in ks : k <= m}
<1>1. B # {}
  <2>1. n \in B
    OBVIOUS
  <2> QED
    BY <2>1
<1>2. PICK m \in B : \A b \in B : m <= b
  BY <1>1, Least
<1>3. m \in ks
  <2> SUFFICES ASSUME m \notin ks PROVE FALSE
    OBVIOUS
  <2>1. \A k \in ks : k \in Nat /\ k >= 1 /\ k <= m /\ k # m
    BY <1>2
  <2>2. m \in Nat /\ m - 1 \in Nat
    <3>1. m \in Nat
      BY <1>2
    <3>2. PICK k \in ks : TRUE
      OBVIOUS
    <3>3. k \in Nat /\ k >= 1 /\ k <= m /\ k # m
      BY <2>1
    <3> QED
      BY <3>1, <3>3
  <2>3. \A k \in ks : k <= m - 1
    BY <2>1, <2>2
  <2>4. m <= m - 1
    BY <1>2, <2>2, <2>3
  <2> QED
    BY <2>2, <2>4
<1>4. \A k \in ks : m >= k
  BY <1>2
<1>5. \E x \in ks : \A y \in ks : x >= y
  BY <1>3, <1>4
<1> QED
  BY <1>5 DEF Max

-----------------------------------------------------------------------------
(* A snapshot is a finite set of objects. *)
LEMMA SnapshotFacts ==
  ASSUME NEW mode, NEW s \in Snapshots(mode)
  PROVE  s \subseteq Universe /\ IsFiniteSet(s)
<1>1. PICK f \in [1 .. MaxObjects -> Universe] : s = Range(f)
  BY DEF Snapshots
<1>2. f \in Surjection(1 .. MaxObjects, s)
  BY <1>1 DEF Range, Surjection
<1>3. IsFiniteSet(1 .. MaxObjects)
  BY SizeAssumption, FS_Interval
<1> QED
  BY <1>1, <1>2, <1>3, FS_Surjection DEF Range

(* What processors have told each other comes from the snapshot. *)
DepsOK(d, s) ==
  /\ DOMAIN d = {"services", "endpoints", "classes", "amb"}
  /\ \A k \in DOMAIN d.services :
       d.services[k] \in s /\ d.services[k].kind = "Service" /\ k = Key(d.services[k])
  /\ \A k \in DOMAIN d.endpoints :
       \E e \in s : /\ e.kind = "Endpoints" /\ k = <<e.ns, e.name>>
                    /\ \E b \in ToSet(e.spec.subsets) :
                         d.endpoints[k].ports = port_dict(b.ports)

(* A resource that is ready for Config. *)
Ready(r, s) ==
  /\ DOMAIN r = Fields
  /\ r.src \in s /\ r.ns \in Seq(Nat) /\ r.name \in Seq(Nat) /\ r.rkey \in Seq(Nat)

Inputs ==
  /\ env \in [mode : {"watt", "fs"}, single : BOOLEAN]
  /\ snapshot \in Snapshots(env.mode)
  /\ todo \subseteq snapshot
  /\ DepsOK(deps, snapshot)
  /\ IsSeq(elements)
  /\ \A r \in ToSet(elements) : Ready(r, snapshot)
  /\ conf = [store |-> <<>>, errors |-> {}] \/ pc = "done"
  /\ pc \in {"fetch", "load", "done"}
  /\ pc # "fetch" => todo = {}

LEMMA LearnService ==
  ASSUME NEW s, NEW d, NEW o \in s, o.kind = "Service", DepsOK(d, s)
  PROVE  /\ DepsOK(service_dep(d, o), s)
         /\ service_dep(d, o).classes = d.classes
         /\ o.spec.ports = <<>> => service_dep(d, o).services = d.services
         /\ o.spec.ports # <<>> => service_dep(d, o).services = Put(d.services, Key(o), o)
<1>1. CASE o.spec.ports = <<>>
  BY <1>1 DEF service_dep
<1>2. CASE o.spec.ports # <<>>
  <2> DEFINE e == service_dep(d, o)
  <2>1. e = [d EXCEPT !.services = Put(d.services, Key(o), o), !.amb = IF o.spec.amb THEN {o} ELSE d.amb]
    BY <1>2 DEF service_dep
  <2> HIDE DEF e
  <2>2. /\ DOMAIN e = DOMAIN d /\ e.services = Put(d.services, Key(o), o)
        /\ e.endpoints = d.endpoints /\ e.classes = d.classes
    BY <2>1 DEF DepsOK
  <2>3. \A k \in DOMAIN e.services :
          e.services[k] \in s /\ e.services[k].kind = "Service" /\ k = Key(e.services[k])
    BY <2>2 DEF DepsOK, Put
  <2>4. DepsOK(e, s)
    BY <2>2, <2>3 DEF DepsOK
  <2> QED
    BY <1>2, <2>2, <2>4 DEF e
<1> QED
  BY <1>1, <1>2

LEMMA LearnEndpoints ==
  ASSUME NEW s, NEW d, NEW o \in s, o \in Universe, o.kind = "Endpoints", DepsOK(d, s)
  PROVE  /\ DepsOK(endpoints_dep(d, o), s)
         /\ endpoints_dep(d, o).classes = d.classes
         /\ endpoints_dep(d, o).services = d.services
<1> DEFINE sets   == o.spec.subsets
           usable == {i \in DOMAIN sets : sets[i].addresses # {} /\ tcp(sets[i].ports) # {}}
           last   == sets[Max(usable)]
           key    == <<o.ns, o.name>>
           value  == [addresses |-> last.addresses, ports |-> port_dict(last.ports)]
<1>1. CASE usable = {}
  <2>1. endpoints_dep(d, o) = d
    BY <1>1 DEF endpoints_dep
  <2> QED
    BY <2>1
<1>2. CASE usable # {}
  <2> DEFINE e == endpoints_dep(d, o)
  <2>1. e = [d EXCEPT !.endpoints = Put(d.endpoints, key, value)]
    BY <1>2 DEF endpoints_dep
  <2>2. Len(sets) \in Nat /\ DOMAIN sets = 1 .. Len(sets)
    <3>1. sets \in Seq([addresses : SUBSET STRING, ports : Seq(Ports)])
      BY ObjectAssumption
    <3> QED
      BY <3>1, LenProperties
  <2>3. usable \in SUBSET (1 .. Len(sets))
    BY <2>2
  <2>4. Max(usable) \in usable
    <3> HIDE DEF usable
    <3> QED
      BY <1>2, <2>2, <2>3, MaxFacts
  <2>5. last \in ToSet(sets)
    BY <2>4 DEF ToSet
  <2>6. value.ports = port_dict(last.ports)
    OBVIOUS
  <2> HIDE DEF e, value, last, usable, sets
  <2>7. /\ DOMAIN e = DOMAIN d /\ e.endpoints = Put(d.endpoints, key, value)
        /\ e.services = d.services /\ e.classes = d.classes
    BY <2>1 DEF DepsOK
  <2>8. \A k \in DOMAIN e.endpoints :
          \E x \in s : /\ x.kind = "Endpoints" /\ k = <<x.ns, x.name>>
                       /\ \E b \in ToSet(x.spec.subsets) :
                            e.endpoints[k].ports = port_dict(b.ports)
    <3> TAKE k \in DOMAIN e.endpoints
    <3>1. CASE k = key
      <4>1. e.endpoints[k] = value
        BY <2>7, <3>1 DEF Put
      <4> QED
        BY <2>5, <2>6, <3>1, <4>1 DEF sets
    <3>2. CASE k # key
      <4>1. k \in DOMAIN d.endpoints /\ e.endpoints[k] = d.endpoints[k]
        BY <2>7, <3>2 DEF Put
      <4> QED
        BY <4>1 DEF DepsOK
    <3> QED
      BY <3>1, <3>2
  <2>9. DepsOK(e, s)
    BY <2>7, <2>8 DEF DepsOK
  <2> QED
    BY <2>7, <2>9 DEF e
<1> QED
  BY <1>1, <1>2

LEMMA LearnClass ==
  ASSUME NEW s, NEW d, NEW o \in s, o.kind = "IngressClass", DepsOK(d, s)
  PROVE  /\ DepsOK(class_dep(d, o), s)
         /\ class_dep(d, o).services = d.services
         /\ class_dep(d, o).classes = IF o.spec.ours /\ o.mine THEN d.classes \cup {o.name} ELSE d.classes
<1>1. CASE o.spec.ours /\ o.mine
  <2>1. class_dep(d, o) = [d EXCEPT !.classes = d.classes \cup {o.name}]
    BY <1>1 DEF class_dep
  <2> QED
    BY <1>1, <2>1 DEF DepsOK
<1>2. CASE ~(o.spec.ours /\ o.mine)
  BY <1>2 DEF class_dep
<1> QED
  BY <1>1, <1>2

LEMMA LearnFacts ==
  ASSUME NEW s \in SUBSET Universe, NEW d, NEW o \in s, DepsOK(d, s)
  PROVE  DepsOK(learn(d, o), s)
<1>1. CASE o.kind = "Service"
  BY <1>1, LearnService DEF learn
<1>2. CASE o.kind = "Endpoints"
  BY <1>2, LearnEndpoints DEF learn
<1>3. CASE o.kind = "IngressClass"
  BY <1>3, LearnClass DEF learn
<1>4. CASE o.kind \notin {"Service", "Endpoints", "IngressClass"}
  BY <1>4 DEF learn
<1> QED
  BY <1>1, <1>2, <1>3, <1>4

LEMMA SetToSeqFacts ==
  ASSUME NEW S, IsFiniteSet(S)
  PROVE  /\ Cardinality(S) \in Nat /\ DOMAIN SetToSeq(S) = 1 .. Cardinality(S)
         /\ \A i \in 1 .. Cardinality(S) : SetToSeq(S)[i] \in S
<1> DEFINE n == Cardinality(S)
<1>1. n \in Nat /\ ExistsBijection(1 .. n, S)
  BY FS_CardinalityType
<1>2. PICK f \in Bijection(1 .. n, S) : TRUE
  BY <1>1 DEF ExistsBijection
<1>3. f \in [1 .. n -> S] /\ IsInjective(f)
  BY <1>2 DEF Bijection, Injection, IsInjective
<1>4. SetToSeq(S) \in [1 .. n -> S]
  BY <1>3 DEF SetToSeq
<1> QED
  BY <1>1, <1>4

(* One object: its resources follow those of the objects before it. *)
LEMMA HandleFacts ==
  ASSUME Inputs, NEW o, NEW more, AllProper(more, o), handle_k8s(o, more)
  PROVE  LET new == IF admit(o) /\ Key(o) \notin seen THEN resources(provided, o) \o more ELSE more
         IN  /\ Inputs'
             /\ elements' = elements \o emit(new)
             /\ ToSet(elements') = ToSet(elements) \cup ToSet(emit(new))
             /\ \A r \in ToSet(emit(new)) : Proper(r, o)
<1> DEFINE new == IF admit(o) /\ Key(o) \notin seen THEN resources(provided, o) \o more ELSE more
<1>1. snapshot \subseteq Universe /\ o \in todo /\ o \in snapshot /\ o \in Universe /\ pc = "fetch"
  BY SnapshotFacts DEF Inputs, handle_k8s
<1>2. AllProper(new, o)
  BY <1>1, ResourcesProper, AllProperConcat
<1>3. elements' = elements \o emit(new)
  BY DEF handle_k8s
<1>4. DepsOK(deps', snapshot)
  <2>1. deps' = deps \/ deps' = learn(deps, o)
    BY DEF handle_k8s
  <2> QED
    BY <1>1, <2>1, LearnFacts DEF Inputs
<1>5. /\ env' = env /\ snapshot' = snapshot /\ todo' = todo \ {o}
      /\ conf' = conf /\ pc' = pc
  BY DEF handle_k8s
<1> HIDE DEF new
<1>6. AllProper(emit(new), o)
  BY <1>2, EmitProper
<1>7. IsSeq(elements') /\ ToSet(elements') = ToSet(elements) \cup ToSet(emit(new))
  BY <1>3, <1>6, ConcatFacts DEF AllProper, Inputs
<1>8. \A r \in ToSet(emit(new)) : Proper(r, o)
  BY <1>6 DEF AllProper
<1>9. o.ns \in Seq(Nat)
  BY <1>1, ObjectAssumption
<1>10. \A r \in ToSet(elements') : Ready(r, snapshot)
  BY <1>1, <1>7, <1>8, <1>9 DEF Inputs, Ready, Proper
<1>11. Inputs'
  BY <1>1, <1>4, <1>5, <1>7, <1>10 DEF Inputs
<1> QED
  BY <1>3, <1>7, <1>8, <1>11 DEF new

(* The end: a resource for every service, of what its endpoints are. *)
LEMMA FinalizeFacts ==
  ASSUME Inputs, Finalize
  PROVE  /\ Inputs'
         /\ \E new :
              /\ ToSet(elements') = ToSet(elements) \cup new
              /\ \A r \in new :
                   \E k \in DOMAIN deps.services :
                     /\ r.kind = "Service" /\ r.src = deps.services[k]
                     /\ r.data = ServiceResource(deps.services[k]).data
<1> DEFINE S == {deps.services[k] : k \in DOMAIN deps.services}
           svcs == SetToSeq(S)
           n == Cardinality(S)
           rs == [i \in DOMAIN svcs |-> ServiceResource(svcs[i])]
<1>1. S \subseteq snapshot /\ snapshot \subseteq Universe /\ IsFiniteSet(S)
  BY SnapshotFacts, FS_Subset DEF Inputs, DepsOK
<1>2. n \in Nat /\ DOMAIN svcs = 1 .. n /\ \A i \in 1 .. n : svcs[i] \in S
  BY <1>1, SetToSeqFacts
<1>3. elements' = elements \o emit(rs)
  BY DEF Finalize
<1> HIDE DEF svcs, n
<1>4. /\ rs = [i \in 1 .. n |-> rs[i]]
      /\ \A i \in 1 .. n : rs[i] = ServiceResource(svcs[i])
  BY <1>2
<1> HIDE DEF rs
<1>5. IsSeq(rs) /\ DOMAIN rs = 1 .. n
  BY <1>2, <1>4, FunctionIsSeq
<1>6. ASSUME NEW o \in S
      PROVE  /\ DOMAIN ServiceResource(o) = Fields
             /\ ServiceResource(o).kind = "Service" /\ ServiceResource(o).src = o
             /\ ServiceResource(o).name \in Seq(Nat) /\ ServiceResource(o).ns \in Seq(Nat)
             /\ ServiceResource(o).rkey \in Seq(Nat)
  <2>1. o.name \in Seq(Nat) /\ o.ns \in Seq(Nat)
    BY <1>1, ObjectAssumption
  <2>2. <<K8s, Dash>> \in Seq(Nat) /\ <<Dash>> \in Seq(Nat)
    BY Tokens
  <2>3. service_rkey(o) \in Seq(Nat)
    BY <2>1, <2>2, ConcatProperties DEF service_rkey
  <2> QED
    BY <2>1, <2>3 DEF ServiceResource, from_data, Fields
<1>7. \A r \in ToSet(rs) : \E o \in S : r = ServiceResource(o)
  BY <1>2, <1>4, <1>5 DEF ToSet
<1>8. \A r \in ToSet(rs) : DOMAIN r = Fields /\ r.rkey \in Seq(Nat)
  BY <1>6, <1>7
<1>9. /\ IsSeq(emit(rs))
      /\ \A r \in ToSet(emit(rs)) :
           /\ DOMAIN r = Fields /\ r.rkey \in Seq(Nat)
           /\ \E q \in ToSet(rs) :
                /\ r.kind = q.kind /\ r.name = q.name /\ r.ns = q.ns /\ r.src = q.src
                /\ r.data = q.data
  BY <1>5, <1>8, EmitFacts
<1>10. \A r \in ToSet(emit(rs)) :
         /\ Ready(r, snapshot)
         /\ \E o \in S : r.kind = "Service" /\ r.src = o /\ r.data = ServiceResource(o).data
  BY <1>1, <1>6, <1>7, <1>9 DEF Ready
<1>11. IsSeq(elements') /\ ToSet(elements') = ToSet(elements) \cup ToSet(emit(rs))
  BY <1>3, <1>9, ConcatFacts DEF Inputs
<1>12. \A r \in ToSet(elements') : Ready(r, snapshot)
  BY <1>10, <1>11 DEF Inputs
<1>13. /\ env' = env /\ snapshot' = snapshot /\ todo' = todo /\ deps' = deps
       /\ conf' = conf /\ pc = "fetch" /\ pc' = "load" /\ todo = {}
  BY DEF Finalize
<1>14. Inputs'
  BY <1>11, <1>12, <1>13 DEF Inputs
<1>15. \A r \in ToSet(emit(rs)) :
         \E k \in DOMAIN deps.services :
           /\ r.kind = "Service" /\ r.src = deps.services[k]
           /\ r.data = ServiceResource(deps.services[k]).data
  BY <1>10
<1> QED
  BY <1>11, <1>14, <1>15

(* The other steps leave all this alone. *)
LEMMA OthersFacts ==
  ASSUME Inputs, LoadAll \/ UNCHANGED vars
  PROVE  Inputs'
<1>1. CASE LoadAll
  <2>1. UNCHANGED <<env, snapshot, todo, deps, elements>> /\ pc = "load" /\ pc' = "done"
    BY <1>1 DEF LoadAll
  <2> QED
    BY <2>1 DEF Inputs
<1>2. CASE UNCHANGED vars
  BY <1>2 DEF Inputs, vars
<1> QED
  BY <1>1, <1>2

LEMMA InputsInit == Init => Inputs
<1> SUFFICES ASSUME Init PROVE Inputs
  OBVIOUS
<1>1. DepsOK(deps, snapshot)
  BY DEF Init, NoDeps, DepsOK
<1>2. IsSeq(elements) /\ ToSet(elements) = {}
  BY EmptyIsSeq DEF Init
<1> QED
  BY <1>1, <1>2 DEF Init, Inputs

LEMMA InputsStep == Inputs /\ [Next]_vars => Inputs'
<1> SUFFICES ASSUME Inputs, [Next]_vars PROVE Inputs'
  OBVIOUS
<1>1. ASSUME NEW o \in Universe, HandleWatt(o) PROVE Inputs'
  BY <1>1, AnnotationsProper, HandleFacts DEF HandleWatt
<1>2. ASSUME NEW o \in Universe, HandleFile(o) PROVE Inputs'
  BY <1>2, AllProperEmpty, HandleFacts DEF HandleFile
<1>3. CASE Finalize
  BY <1>3, FinalizeFacts
<1>4. CASE LoadAll \/ UNCHANGED vars
  BY <1>4, OthersFacts
<1> QED
  BY <1>1, <1>2, <1>3, <1>4 DEF Next

LEMMA InputsAlways == Spec => []Inputs
BY InputsInit, InputsStep, PTL DEF Spec

-----------------------------------------------------------------------------
(* What an object becomes does not depend on the order of the snapshot.      *)

Services == {o \in All("Service") : o.spec.ports # <<>>}
Classes  == {o \in All("IngressClass") : o.spec.ours /\ o.mine}
Becomes(o) ==
  emit((IF admit(o) THEN resources(Everything, o) ELSE <<>>) \o handle_annotation(o))

(* Processors know what the objects that were handled provide, and have      *)
(* emitted what those objects become in the end.                             *)
Handled ==
  /\ seen \subseteq {Key(o) : o \in snapshot \ todo}
  /\ deps.services = [k \in {Key(o) : o \in Services \ todo} |-> CHOOSE o \in Services : Key(o) = k]
  /\ deps.classes = {o.name : o \in Classes \ todo}
  /\ pc # "done" =>
       {r \in ToSet(elements) : r.kind # "Service"} =
         {r \in UNION {ToSet(Becomes(o)) : o \in snapshot \ todo} : r.kind # "Service"}

Ordered == env.mode = "watt" => Handled

(* The end state of the processors is a matter of the snapshot alone. *)
LEMMA SameEnd ==
  ASSUME env' = env, snapshot' = snapshot
  PROVE  /\ Services' = Services /\ Classes' = Classes
         /\ \A o : (admit(o))' = admit(o) /\ (Becomes(o))' = Becomes(o)
<1>1. \A o : (admit(o))' = admit(o)
  BY DEF admit
<1>2. All("Service")' = All("Service") /\ All("IngressClass")' = All("IngressClass")
  BY DEF All, admit
<1>3. Services' = Services /\ Classes' = Classes
  BY <1>2 DEF Services, Classes
<1>4. Everything' = Everything
  <2> DEFINE known(S, C) == [services |-> [k \in {Key(o) : o \in S} |-> CHOOSE o \in S : Key(o) = k],
                             classes  |-> {o.name : o \in C}]
  <2>1. Everything = known(Services, Classes)
    BY DEF Everything, Services, Classes
  <2>2. Everything' = known(Services', Classes')
    BY DEF Everything, Services, Classes, Key
  <2> HIDE DEF known
  <2> QED
    BY <1>3, <2>1, <2>2
<1> QED
  BY <1>1, <1>3, <1>4 DEF Becomes

LEMMA WattKeys ==
  ASSUME Inputs, env.mode = "watt"
  PROVE  /\ \A o, p \in snapshot : Key(o) = Key(p) => o = p
         /\ Services \subseteq snapshot /\ Classes \subseteq snapshot
         /\ \A o \in Services : (CHOOSE p \in Services : Key(p) = Key(o)) = o
<1>1. \A o, p \in snapshot : Key(o) = Key(p) => o = p
  BY DEF Inputs, Snapshots
<1>2. Services \subseteq snapshot /\ Classes \subseteq snapshot
  BY DEF Services, Classes, All
<1> QED
  BY <1>1, <1>2

(* Once it is the turn of a kind that asks others, they have all answered. *)
LEMMA TurnHasAll ==
  ASSUME Handled, \A p \in todo : p.kind \notin First
  PROVE  provided = Everything
<1>1. Services \ todo = Services /\ Classes \ todo = Classes
  BY DEF Services, Classes, All, First
<1>2. deps.services = [k \in {Key(o) : o \in Services} |-> CHOOSE o \in Services : Key(o) = k]
  BY <1>1 DEF Handled
<1>3. deps.classes = {o.name : o \in Classes}
  BY <1>1 DEF Handled
<1> QED
  BY <1>2, <1>3 DEF provided, Everything, Services, Classes

LEMMA FirstAskNobody ==
  ASSUME NEW o, o.kind \in First, NEW d, NEW e
  PROVE  resources(d, o) = resources(e, o)
BY DEF First, resources

LEMMA HandleWattOrdered ==
  ASSUME Inputs, Handled, NEW o \in Universe, HandleWatt(o)
  PROVE  Handled'
<1> DEFINE more == handle_annotation(o)
           new == IF admit(o) /\ Key(o) \notin seen THEN resources(provided, o) \o more ELSE more
<1>1. /\ env.mode = "watt" /\ Turn(o) /\ handle_k8s(o, more) /\ o \in todo /\ pc = "fetch"
      /\ env' = env /\ snapshot' = snapshot /\ todo' = todo \ {o} /\ pc' = pc
  BY DEF HandleWatt, handle_k8s
<1>2. AllProper(more, o)
  BY AnnotationsProper
<1>3. ToSet(elements') = ToSet(elements) \cup ToSet(emit(new)) /\ Inputs'
  <2> HIDE DEF more
  <2> QED
    BY <1>1, <1>2, HandleFacts
<1>4. todo \subseteq snapshot /\ snapshot \ todo' = (snapshot \ todo) \cup {o}
  BY <1>1 DEF Inputs
<1>5. Key(o) \notin seen
  BY <1>1, <1>4, WattKeys DEF Handled
<1>6. emit(new) = Becomes(o)
  <2>1. resources(provided, o) = resources(Everything, o)
    <3>1. CASE o.kind \in First
      BY <3>1, FirstAskNobody
    <3>2. CASE o.kind \notin First
      <4>1. \A p \in todo : p.kind \notin First
        BY <1>1, <3>2 DEF Turn
      <4> QED
        BY <4>1, TurnHasAll
    <3> QED
      BY <3>1, <3>2
  <2>2. <<>> \o more = more
    BY <1>2, ConcatEmptySeq DEF AllProper, IsSeq
  <2> QED
    BY <1>5, <2>1, <2>2 DEF Becomes
<1>7. (pc # "done" =>
         {r \in ToSet(elements) : r.kind # "Service"} =
           {r \in UNION {ToSet(Becomes(p)) : p \in snapshot \ todo} : r.kind # "Service"})'
  <2>1. {r \in ToSet(elements) : r.kind # "Service"} =
          {r \in UNION {ToSet(Becomes(p)) : p \in snapshot \ todo} : r.kind # "Service"}
    BY <1>1 DEF Handled
  <2>2. \A p : (Becomes(p))' = Becomes(p)
    BY <1>1, SameEnd
  <2>3. {r \in ToSet(elements') : r.kind # "Service"} =
          {r \in UNION {ToSet(Becomes(p)) : p \in snapshot \ todo'} : r.kind # "Service"}
    <3> HIDE DEF new
    <3> QED
      BY <1>3, <1>4, <1>6, <2>1
  <2>4. UNION {ToSet((Becomes(p))') : p \in snapshot \ todo'}
          = UNION {ToSet(Becomes(p)) : p \in snapshot \ todo'}
    BY <2>2
  <2> QED
    BY <1>1, <2>3, <2>4
<1>8. (seen \subseteq {Key(p) : p \in snapshot \ todo})'
  <2>1. seen' \subseteq seen \cup {Key(o)}
    BY <1>1 DEF handle_k8s
  <2>2. seen' \subseteq {Key(p) : p \in snapshot \ todo'}
    BY <1>4, <2>1 DEF Handled
  <2> QED
    BY <1>1, <2>2 DEF Key
<1>9. deps' = IF admit(o) THEN learn(deps, o) ELSE deps
  BY <1>1, <1>5 DEF handle_k8s
<1>10. DepsOK(deps, snapshot) /\ o \in snapshot
  BY <1>1 DEF Inputs
<1>11. deps'.services = [k \in {Key(p) : p \in Services \ todo'} |-> CHOOSE p \in Services : Key(p) = k]
  <2> DEFINE old == {Key(p) : p \in Services \ todo}
             val(k) == CHOOSE p \in Services : Key(p) = k
  <2>1. deps.services = [k \in old |-> val(k)]
    BY DEF Handled
  <2>2. CASE o \in Services
    <3>1. o.kind = "Service" /\ o.spec.ports # <<>> /\ admit(o)
      BY <2>2 DEF Services, All
    <3>2. deps'.services = Put(deps.services, Key(o), o)
      <4>1. deps' = service_dep(deps, o)
        BY <1>9, <3>1 DEF learn
      <4> QED
        BY <1>10, <3>1, <4>1, LearnService
    <3>3. {Key(p) : p \in Services \ todo'} = old \cup {Key(o)} /\ val(Key(o)) = o
      BY <1>1, <1>4, <2>2, WattKeys
    <3> HIDE DEF old, val
    <3>4. Put(deps.services, Key(o), o) = [k \in old \cup {Key(o)} |-> val(k)]
      BY <2>1, <3>3 DEF Put
    <3> QED
      BY <3>2, <3>3, <3>4 DEF val
  <2>3. CASE o \notin Services
    <3>1. Services \ todo' = Services \ todo
      BY <1>1, <2>3
    <3>2. deps'.services = deps.services
      <4>1. CASE ~admit(o)
        BY <1>9, <4>1
      <4>2. CASE admit(o) /\ o.kind = "Service"
        <5>1. o.spec.ports = <<>>
          BY <1>10, <2>3, <4>2 DEF Services, All
        <5> QED
          BY <1>9, <1>10, <4>2, <5>1, LearnService DEF learn
      <4>3. CASE admit(o) /\ o.kind = "Endpoints"
        BY <1>9, <1>10, <4>3, LearnEndpoints DEF learn
      <4>4. CASE admit(o) /\ o.kind = "IngressClass"
        BY <1>9, <1>10, <4>4, LearnClass DEF learn
      <4>5. CASE o.kind \notin {"Service", "Endpoints", "IngressClass"}
        BY <1>9, <4>5 DEF learn
      <4> QED
        BY <4>1, <4>2, <4>3, <4>4, <4>5
    <3> QED
      BY <2>1, <3>1, <3>2
  <2> QED
    BY <2>2, <2>3
<1>12. deps'.classes = {p.name : p \in Classes \ todo'}
  <2>1. deps.classes = {p.name : p \in Classes \ todo}
    BY DEF Handled
  <2>2. CASE o \in Classes
    <3>1. o.kind = "IngressClass" /\ o.spec.ours /\ o.mine /\ admit(o)
      BY <2>2 DEF Classes, All
    <3>2. deps'.classes = deps.classes \cup {o.name}
      <4>1. deps' = class_dep(deps, o)
        BY <1>9, <3>1 DEF learn
      <4> QED
        BY <1>10, <3>1, <4>1, LearnClass
    <3>3. Classes \ todo' = (Classes \ todo) \cup {o}
      BY <1>1, <1>4, <2>2, WattKeys
    <3> QED
      BY <2>1, <3>2, <3>3
  <2>3. CASE o \notin Classes
    <3>1. Classes \ todo' = Classes \ todo
      BY <1>1, <2>3
    <3>2. deps'.classes = deps.classes
      <4>1. CASE ~admit(o)
        BY <1>9, <4>1
      <4>2. CASE admit(o) /\ o.kind = "IngressClass"
        <5>1. ~(o.spec.ours /\ o.mine)
          BY <1>10, <2>3, <4>2 DEF Classes, All
        <5> QED
          BY <1>9, <1>10, <4>2, <5>1, LearnClass DEF learn
      <4>3. CASE admit(o) /\ o.kind = "Endpoints"
        BY <1>9, <1>10, <4>3, LearnEndpoints DEF learn
      <4>4. CASE admit(o) /\ o.kind = "Service"
        BY <1>9, <1>10, <4>4, LearnService DEF learn
      <4>5. CASE o.kind \notin {"Service", "Endpoints", "IngressClass"}
        BY <1>9, <4>5 DEF learn
      <4> QED
        BY <4>1, <4>2, <4>3, <4>4, <4>5
    <3> QED
      BY <2>1, <3>1, <3>2
  <2> QED
    BY <2>2, <2>3
<1>13. Services' = Services /\ Classes' = Classes
  BY <1>1, SameEnd
<1>14. (deps.services = [k \in {Key(p) : p \in Services \ todo} |-> CHOOSE p \in Services : Key(p) = k])'
  BY <1>11, <1>13 DEF Key
<1>15. (deps.classes = {p.name : p \in Classes \ todo})'
  BY <1>12, <1>13
<1> QED
  BY <1>7, <1>8, <1>14, <1>15 DEF Handled

LEMMA OrderedInit == Init => Ordered
<1> SUFFICES ASSUME Init PROVE Handled
  BY DEF Ordered
<1>1. todo = snapshot /\ deps = NoDeps /\ seen = {} /\ ToSet(elements) = {}
  BY EmptyIsSeq DEF Init
<1>2. Services \ todo = {} /\ Classes \ todo = {} /\ snapshot \ todo = {}
  BY <1>1 DEF Services, Classes, All
<1>3. deps.services = <<>> /\ deps.classes = {}
  BY <1>1 DEF NoDeps
<1>4. [k \in {Key(o) : o \in Services \ todo} |-> CHOOSE o \in Services : Key(o) = k] = <<>>
  BY <1>2
<1> QED
  BY <1>1, <1>2, <1>3, <1>4 DEF Handled

LEMMA OrderedStep == Inputs /\ Ordered /\ [Next]_vars => Ordered'
<1> SUFFICES ASSUME Inputs, Ordered, [Next]_vars, env'.mode = "watt" PROVE Handled'
  BY DEF Ordered
<1>1. env' = env /\ snapshot' = snapshot
  BY DEF Next, HandleWatt, HandleFile, handle_k8s, Finalize, LoadAll, vars
<1>2. Handled
  BY <1>1 DEF Ordered
<1>3. /\ Services' = Services /\ Classes' = Classes
      /\ \A o : (Becomes(o))' = Becomes(o)
  BY <1>1, SameEnd
<1>4. ASSUME NEW o \in Universe, HandleWatt(o) PROVE Handled'
  BY <1>2, <1>4, HandleWattOrdered
<1>5. ASSUME NEW o \in Universe, HandleFile(o) PROVE Handled'
  BY <1>1, <1>5 DEF HandleFile
<1>6. ASSUME UNCHANGED <<seen, deps, todo>>
      PROVE  /\ seen' \subseteq {Key(o) : o \in snapshot' \ todo'}
             /\ deps'.services = [k \in {Key(o) : o \in Services' \ todo'} |-> CHOOSE o \in Services' : Key(o) = k]
             /\ deps'.classes = {o.name : o \in Classes' \ todo'}
  BY <1>1, <1>2, <1>3, <1>6 DEF Handled
<1> DEFINE all == {r \in UNION {ToSet(Becomes(o)) : o \in snapshot \ todo} : r.kind # "Service"}
<1>7. ASSUME todo' = todo PROVE all' = all
  <2>1. {ToSet((Becomes(o))') : o \in snapshot \ todo} = {ToSet(Becomes(o)) : o \in snapshot \ todo}
    BY <1>3
  <2> QED
    BY <1>1, <1>7, <2>1
<1>8. CASE Finalize
  <2>1. UNCHANGED <<seen, deps, todo>> /\ pc = "fetch"
    BY <1>8 DEF Finalize
  <2>2. PICK new : /\ ToSet(elements') = ToSet(elements) \cup new
                   /\ \A r \in new : r.kind = "Service"
    BY <1>8, FinalizeFacts
  <2>3. {r \in ToSet(elements) : r.kind # "Service"} = all
    BY <1>2, <2>1 DEF Handled
  <2>4. all' = all
    BY <1>7, <2>1
  <2>5. {r \in ToSet(elements') : r.kind # "Service"} = {r \in ToSet(elements) : r.kind # "Service"}
    BY <2>2
  <2>6. {r \in ToSet(elements') : r.kind # "Service"} = all'
    BY <2>3, <2>4, <2>5
  <2> QED
    BY <1>6, <2>1, <2>6 DEF Handled, Key
<1>9. CASE LoadAll
  <2>1. UNCHANGED <<seen, deps, todo>> /\ pc' = "done"
    BY <1>9 DEF LoadAll
  <2> QED
    BY <1>6, <2>1 DEF Handled, Key
<1>10. CASE UNCHANGED vars
  <2>1. UNCHANGED <<seen, deps, todo, elements, pc>>
    BY <1>10 DEF vars
  <2>2. all' = all
    BY <1>7, <2>1
  <2>3. pc' # "done" => {r \in ToSet(elements') : r.kind # "Service"} = all'
    BY <1>2, <2>1, <2>2 DEF Handled
  <2> QED
    BY <1>6, <2>1, <2>3 DEF Handled, Key
<1> QED
  BY <1>4, <1>5, <1>8, <1>9, <1>10 DEF Next

(* What an object of a snapshot becomes depends on the other objects and not *)
(* on the order in which watt lists them: the order of the keys lets an      *)
(* Ingress find the classes and the services it names wherever they are.     *)
THEOREM AnyOrderWillDo == Spec => []OrderFree
<1>1. Inputs /\ Ordered => OrderFree
  <2> SUFFICES ASSUME Inputs, Handled, env.mode = "watt", pc = "load" PROVE OrderFree
    BY DEF Ordered, OrderFree
  <2>1. todo = {}
    BY DEF Inputs
  <2>2. {r \in ToSet(elements) : r.kind # "Service"} =
          {r \in UNION {ToSet(Becomes(o)) : o \in snapshot} : r.kind # "Service"}
    BY <2>1 DEF Handled
  <2>3. {elements[i] : i \in {j \in DOMAIN elements : elements[j].kind # "Service"}}
          = {r \in ToSet(elements) : r.kind # "Service"}
    BY DEF ToSet
  <2> QED
    BY <2>2, <2>3 DEF OrderFree, Becomes
<1> QED
  BY <1>1, InputsInit, InputsStep, OrderedInit, OrderedStep, PTL DEF Spec

-----------------------------------------------------------------------------
(* Endpoint routing.                                                         *)

(* Every key of port_dict is the number or the name of a TCP port that it    *)
(* leads to, and every TCP port has its keys.                                *)
LEMMA DictFacts ==
  ASSUME NEW es \in Seq(Ports)
  PROVE  LET dict == port_dict(es)
             D == DOMAIN dict
         IN  /\ IsFiniteSet(D)
             /\ \A m \in tcp(es) : es[m].port \in D /\ (es[m].name # NoName => es[m].name \in D)
             /\ \A k \in D : k # NoName /\ \E m \in tcp(es) :
                               k \in {es[m].port, es[m].name} /\ dict[k] = es[m].port
<1> DEFINE dict == port_dict(es)
           D == DOMAIN dict
           n == Len(es)
           keys(m) == {es[m].port, es[m].name} \ {NoName}
           at(k) == {m \in tcp(es) : k \in keys(m)}
<1>1. /\ n \in Nat /\ DOMAIN es = 1 .. n
      /\ \A m \in 1 .. n : es[m] \in Ports
  BY SeqFacts, Zenon
<1>2. \A m \in 1 .. n : es[m].port \in Numbers /\ es[m].port # NoName
  BY <1>1, PortAssumption DEF Ports
<1>3. tcp(es) \in SUBSET (1 .. n)
  BY <1>1 DEF tcp
<1>4. dict = [k \in UNION {keys(m) : m \in tcp(es)} |-> es[Max(at(k))].port]
  BY DEF port_dict
<1>5. D = UNION {keys(m) : m \in tcp(es)} /\ \A k \in D : dict[k] = es[Max(at(k))].port
  BY <1>4
<1> HIDE DEF dict, D, n
<1>6. \A m \in tcp(es) : es[m].port \in D /\ (es[m].name # NoName => es[m].name \in D)
  BY <1>2, <1>3, <1>5
<1>7. ASSUME NEW k \in D
      PROVE  k # NoName /\ \E m \in tcp(es) : k \in {es[m].port, es[m].name} /\ dict[k] = es[m].port
  <2>1. PICK m \in tcp(es) : k \in keys(m)
    BY <1>5
  <2>2. at(k) # {} /\ at(k) \in SUBSET (1 .. n)
    BY <1>3, <2>1
  <2>3. dict[k] = es[Max(at(k))].port
    BY <1>5
  <2>4. at(k) \subseteq tcp(es) /\ \A x \in at(k) : k \in keys(x)
    OBVIOUS
  <2> HIDE DEF at
  <2>5. Max(at(k)) \in at(k)
    BY <1>1, <2>2, MaxFacts
  <2> QED
    BY <2>3, <2>4, <2>5
<1>8. IsFiniteSet(D)
  <2> DEFINE f == [m \in 1 .. n |-> es[m].port]
             g == [m \in 1 .. n |-> es[m].name]
             F == {f[m] : m \in 1 .. n}
             G == {g[m] : m \in 1 .. n}
  <2>1. f \in Surjection(1 .. n, F) /\ g \in Surjection(1 .. n, G)
    BY DEF Surjection
  <2>2. IsFiniteSet(1 .. n)
    BY <1>1, FS_Interval
  <2>3. \A m \in 1 .. n : es[m].port \in F /\ es[m].name \in G
    OBVIOUS
  <2> HIDE DEF F, G, f, g
  <2>4. IsFiniteSet(F) /\ IsFiniteSet(G)
    BY <2>1, <2>2, FS_Surjection
  <2>5. IsFiniteSet(F \cup G)
    BY <2>4, FS_Union
  <2>6. D \subseteq F \cup G
    BY <1>3, <1>5, <2>3
  <2> QED
    BY <2>5, <2>6, FS_Subset
<1> QED
  BY <1>6, <1>7, <1>8 DEF dict, D

(* The same in terms of the service that the endpoints belong to. *)
LEMMA EndpointFacts ==
  ASSUME NEW o \in Universe, o.kind = "Service",
         NEW i \in DOMAIN o.spec.ports, Plain(o.spec.ports, i),
         NEW es \in Seq(Ports), ToSet(es) = EndpointPorts(o)
  PROVE  LET dict == port_dict(es)
             D == DOMAIN dict
             P == o.spec.ports
         IN  /\ IsFiniteSet(D)
             /\ Target(P[i]) \in D
             /\ P[i].name # NoName => P[i].name \in D
             /\ \A k \in D : k # NoName /\ \E j \in DOMAIN P :
                  /\ k \in {Target(P[j]), P[j].name} /\ dict[k] = Target(P[j])
                  /\ Target(P[j]) \in D /\ Target(P[j]) \in Numbers
<1> DEFINE dict == port_dict(es)
           D == DOMAIN dict
           P == o.spec.ports
           routable(q) == q.target \in Numbers \cup DOMAIN Containers
<1>1. /\ IsFiniteSet(D)
      /\ \A m \in tcp(es) : es[m].port \in D /\ (es[m].name # NoName => es[m].name \in D)
      /\ \A k \in D : k # NoName /\ \E m \in tcp(es) :
                        k \in {es[m].port, es[m].name} /\ dict[k] = es[m].port
  BY DictFacts
<1>2. \A j \in DOMAIN P : routable(P[j]) => Target(P[j]) \in Numbers
  BY PortAssumption DEF Target
<1>3. EndpointPorts(o) = {[name |-> q.name, port |-> Target(q), proto |-> q.proto] :
                            q \in {r \in ToSet(P) : routable(r)}}
  BY DEF EndpointPorts
<1>4. ASSUME NEW m \in tcp(es)
      PROVE  \E j \in DOMAIN P : /\ es[m].name = P[j].name /\ es[m].port = Target(P[j])
                                 /\ Target(P[j]) \in Numbers
  <2>1. es[m] \in EndpointPorts(o)
    BY DEF tcp, ToSet
  <2>2. PICK q \in ToSet(P) :
          routable(q) /\ es[m] = [name |-> q.name, port |-> Target(q), proto |-> q.proto]
    BY <1>3, <2>1
  <2>3. PICK j \in DOMAIN P : P[j] = q
    BY DEF ToSet
  <2> QED
    BY <1>2, <2>2, <2>3
<1>5. \E m \in tcp(es) : es[m].name = P[i].name /\ es[m].port = Target(P[i])
  <2>1. routable(P[i]) /\ P[i].proto = "TCP" /\ P[i] \in ToSet(P)
    BY DEF Plain, ToSet
  <2>2. [name |-> P[i].name, port |-> Target(P[i]), proto |-> P[i].proto] \in ToSet(es)
    BY <1>3, <2>1
  <2>3. PICK m \in DOMAIN es :
          es[m] = [name |-> P[i].name, port |-> Target(P[i]), proto |-> P[i].proto]
    BY <2>2 DEF ToSet
  <2> QED
    BY <2>1, <2>3 DEF tcp
<1> HIDE DEF dict, D, P, routable
<1>6. Target(P[i]) \in D /\ (P[i].name # NoName => P[i].name \in D)
  BY <1>1, <1>5
<1>7. ASSUME NEW k \in D
      PROVE  k # NoName /\ \E j \in DOMAIN P :
                /\ k \in {Target(P[j]), P[j].name} /\ dict[k] = Target(P[j])
                /\ Target(P[j]) \in D /\ Target(P[j]) \in Numbers
  <2>1. PICK m \in tcp(es) : k \in {es[m].port, es[m].name} /\ dict[k] = es[m].port
    BY <1>1
  <2>2. PICK j \in DOMAIN P : /\ es[m].name = P[j].name /\ es[m].port = Target(P[j])
                              /\ Target(P[j]) \in Numbers
    BY <1>4
  <2>3. k # NoName /\ es[m].port \in D
    BY <1>1
  <2> QED
    BY <2>1, <2>2, <2>3
<1> QED
  BY <1>1, <1>6, <1>7 DEF dict, D, P

LEMMA TargetPortFacts ==
  ASSUME NEW o \in Universe, o.kind = "Service",
         NEW i \in DOMAIN o.spec.ports, Plain(o.spec.ports, i),
         NEW es \in Seq(Ports), ToSet(es) = EndpointPorts(o),
         NEW eps, eps.ports = port_dict(es)
  PROVE  target_port(eps, o.spec.ports[i]) = Target(o.spec.ports[i])
<1> DEFINE P == o.spec.ports
           p == P[i]
           dict == port_dict(es)
           D == DOMAIN dict
           keys == <<p.target, p.name, p.port>>
           found == {n \in DOMAIN keys : keys[n] \in D}
<1>1. /\ IsFiniteSet(D)
      /\ Target(p) \in D
      /\ p.name # NoName => p.name \in D
      /\ \A k \in D : k # NoName /\ \E j \in DOMAIN P :
           /\ k \in {Target(P[j]), P[j].name} /\ dict[k] = Target(P[j])
           /\ Target(P[j]) \in D /\ Target(P[j]) \in Numbers
  BY EndpointFacts
<1>2. /\ p.target \in Numbers \cup DOMAIN Containers
      /\ p.name \notin Numbers
      /\ p.name = NoName => DOMAIN P = {i}
      /\ \A j \in DOMAIN P \ {i} : P[j].name # p.name /\ P[j].name # p.target
  BY DEF Plain
<1>3. Target(p) \in Numbers /\ (p.target \in Numbers => Target(p) = p.target)
  BY <1>2, PortAssumption DEF Target
<1>5. target_port(eps, p) =
        IF Cardinality(D) = 1 THEN dict[CHOOSE k \in D : TRUE]
        ELSE IF found # {} THEN dict[keys[Min(found)]]
        ELSE keys[Min({n \in DOMAIN keys : keys[n] \in Numbers})]
  BY DEF target_port
<1>6. /\ found \in SUBSET Nat
      /\ 1 \in found <=> p.target \in D
      /\ 2 \in found <=> p.name \in D
      /\ keys[1] = p.target /\ keys[2] = p.name
      /\ \A n \in found : n \in 1 .. 3
  <2>1. DOMAIN keys = 1 .. 3 /\ keys[1] = p.target /\ keys[2] = p.name
    OBVIOUS
  <2> HIDE DEF keys, D
  <2> QED
    BY <2>1
<1>7. p.name = NoName => D = {Target(p)}
  <2> HIDE DEF D, dict, P
  <2> QED
    BY <1>1, <1>2
<1> HIDE DEF dict, D, keys, found
<1>8. CASE Cardinality(D) = 1
  <2>1. D = {Target(p)}
    BY <1>1, <1>8, FS_Singleton
  <2>2. (CHOOSE k \in D : TRUE) = Target(p)
    BY <2>1
  <2>3. dict[Target(p)] = Target(p)
    BY <1>1, <2>1
  <2> QED
    BY <1>5, <1>8, <2>2, <2>3
<1>9. CASE Cardinality(D) # 1 /\ p.target \in D
  <2>1. Min(found) = 1
    <3>1. 1 \in found /\ found # {}
      BY <1>6, <1>9
    <3>2. Min(found) \in found /\ Min(found) <= 1
      BY <1>6, <3>1, MinFacts
    <3>3. Min(found) \in 1 .. 3
      BY <1>6, <3>2
    <3> QED
      BY <3>2, <3>3
  <2>2. target_port(eps, p) = dict[p.target]
    BY <1>5, <1>6, <1>9, <2>1
  <2>3. PICK j \in DOMAIN P : /\ p.target \in {Target(P[j]), P[j].name}
                              /\ dict[p.target] = Target(P[j]) /\ Target(P[j]) \in Numbers
    BY <1>1, <1>9
  <2>4. CASE p.target = Target(P[j])
    BY <1>3, <2>2, <2>3, <2>4
  <2>5. CASE p.target = P[j].name
    <3>1. j = i
      BY <1>2, <2>5
    <3> QED
      BY <2>2, <2>3, <3>1
  <2> QED
    BY <2>3, <2>4, <2>5
<1>10. CASE Cardinality(D) # 1 /\ p.target \notin D
  <2>1. p.name # NoName
    <3> SUFFICES ASSUME p.name = NoName PROVE FALSE
      OBVIOUS
    <3>1. D = {Target(p)}
      BY <1>7
    <3> QED
      BY <1>10, <3>1, FS_Singleton
  <2>2. p.name \in D
    BY <1>1, <2>1
  <2>3. Min(found) = 2
    <3>1. 2 \in found /\ 1 \notin found /\ found # {}
      BY <1>6, <1>10, <2>2
    <3>2. Min(found) \in found /\ Min(found) <= 2
      BY <1>6, <3>1, MinFacts
    <3>3. Min(found) \in 1 .. 3 /\ Min(found) # 1
      BY <1>6, <3>1, <3>2
    <3> QED
      BY <3>2, <3>3
  <2>4. target_port(eps, p) = dict[p.name]
    <3>1. found # {}
      BY <1>6, <2>2
    <3> QED
      BY <1>5, <1>6, <1>10, <2>3, <3>1
  <2>5. PICK j \in DOMAIN P : /\ p.name \in {Target(P[j]), P[j].name}
                              /\ dict[p.name] = Target(P[j]) /\ Target(P[j]) \in Numbers
    BY <1>1, <2>2
  <2>6. j = i
    BY <1>2, <2>5
  <2> QED
    BY <2>4, <2>5, <2>6
<1> QED
  BY <1>8, <1>9, <1>10

(* A Service resource leads to the ports that Kubernetes means. *)
PortsRight(r) ==
  (r.src.kind = "Service" /\ r.kind = "Service" /\ r.data # <<>>) =>
    \A i \in DOMAIN r.src.spec.ports :
      Plain(r.src.spec.ports, i) =>
        r.data[r.src.spec.ports[i].port].port = Target(r.src.spec.ports[i])

Routed ==
  /\ pc = "fetch" => \A r \in ToSet(elements) : r.src.kind = "Service" => r.kind # "Service"
  /\ pc # "fetch" => \A r \in ToSet(elements) : PortsRight(r)

LEMMA ServiceResourceRight ==
  ASSUME Inputs, NEW k \in DOMAIN deps.services, NEW r,
         r.kind = "Service", r.src = deps.services[k], r.data = ServiceResource(r.src).data
  PROVE  PortsRight(r)
<1> DEFINE o == r.src
           key == <<o.ns, o.name>>
           eps == deps.endpoints[key]
           numbers == {o.spec.ports[i].port : i \in DOMAIN o.spec.ports}
           port(n) == o.spec.ports[Max({i \in DOMAIN o.spec.ports : o.spec.ports[i].port = n})]
           to == [n \in numbers |-> [port |-> target_port(eps, port(n)), addresses |-> eps.addresses]]
<1>1. o \in snapshot /\ o \in Universe /\ o.kind = "Service"
  BY SnapshotFacts DEF Inputs, DepsOK
<1> SUFFICES ASSUME r.data # <<>>, NEW i \in DOMAIN o.spec.ports, Plain(o.spec.ports, i)
             PROVE  r.data[o.spec.ports[i].port].port = Target(o.spec.ports[i])
  BY <1>1 DEF PortsRight
<1>2. r.data = IF key \notin DOMAIN deps.endpoints THEN <<>> ELSE to
  BY DEF ServiceResource, from_data
<1>3. key \in DOMAIN deps.endpoints /\ r.data = to
  BY <1>2
<1>4. Len(o.spec.ports) \in Nat /\ DOMAIN o.spec.ports = 1 .. Len(o.spec.ports)
  <2>1. o.spec.ports \in Seq(ServicePorts)
    BY <1>1, ObjectAssumption
  <2> QED
    BY <2>1, LenProperties
<1>5. o.spec.ports[i].port \in numbers /\ port(o.spec.ports[i].port) = o.spec.ports[i]
  <2> DEFINE I == {j \in DOMAIN o.spec.ports : o.spec.ports[j].port = o.spec.ports[i].port}
  <2>1. i \in I /\ \A j \in I : ~ (j > i)
    BY DEF Plain
  <2>2. I \in SUBSET (1 .. Len(o.spec.ports)) /\ I # {}
    BY <1>4, <2>1
  <2>3. port(o.spec.ports[i].port) = o.spec.ports[Max(I)]
    OBVIOUS
  <2> HIDE DEF I
  <2>4. Max(I) \in I /\ Max(I) >= i
    BY <1>4, <2>1, <2>2, MaxFacts
  <2>5. Max(I) \in 1 .. Len(o.spec.ports) /\ i \in 1 .. Len(o.spec.ports) /\ ~ (Max(I) > i)
    BY <1>4, <2>1, <2>2, <2>4
  <2>6. Max(I) = i
    BY <1>4, <2>4, <2>5
  <2> QED
    BY <2>3, <2>6
<1>6. PICK es \in Seq(Ports) : ToSet(es) = EndpointPorts(o) /\ eps.ports = port_dict(es)
  <2>1. PICK e \in snapshot :
          /\ e.kind = "Endpoints" /\ key = <<e.ns, e.name>>
          /\ \E b \in ToSet(e.spec.subsets) : eps.ports = port_dict(b.ports)
    BY <1>3 DEF Inputs, DepsOK
  <2>2. o.ns = e.ns /\ o.name = e.name
    BY <2>1
  <2>3. \A b \in ToSet(e.spec.subsets) : ToSet(b.ports) = EndpointPorts(o)
    BY <1>1, <2>1, <2>2 DEF Inputs, Snapshots
  <2>4. e.spec.subsets \in Seq([addresses : SUBSET STRING, ports : Seq(Ports)])
    BY <2>1, SnapshotFacts, ObjectAssumption DEF Inputs
  <2>5. \A b \in ToSet(e.spec.subsets) : b \in [addresses : SUBSET STRING, ports : Seq(Ports)]
    BY <2>4, SeqIsSeq
  <2>6. \A b \in ToSet(e.spec.subsets) : b.ports \in Seq(Ports)
    BY <2>5
  <2> QED
    BY <2>1, <2>3, <2>6
<1> HIDE DEF eps, port, numbers, o
<1>7. r.data[o.spec.ports[i].port].port = target_port(eps, o.spec.ports[i])
  BY <1>3, <1>5
<1> QED
  BY <1>1, <1>6, <1>7, TargetPortFacts

LEMMA RoutedStep == Inputs /\ Routed /\ [Next]_vars => Routed'
<1> SUFFICES ASSUME Inputs, Routed, [Next]_vars PROVE Routed'
  OBVIOUS
<1>1. ASSUME NEW o, NEW more, AllProper(more, o), handle_k8s(o, more) PROVE Routed'
  <2> DEFINE new == IF admit(o) /\ Key(o) \notin seen THEN resources(provided, o) \o more ELSE more
  <2>1. /\ ToSet(elements') = ToSet(elements) \cup ToSet(emit(new))
        /\ \A r \in ToSet(emit(new)) : Proper(r, o)
    BY <1>1, HandleFacts
  <2>2. pc = "fetch" /\ pc' = pc
    BY <1>1 DEF handle_k8s
  <2> HIDE DEF new
  <2> QED
    BY <2>1, <2>2 DEF Routed, Proper
<1>2. ASSUME NEW o \in Universe, HandleWatt(o) PROVE Routed'
  BY <1>1, <1>2, AnnotationsProper DEF HandleWatt
<1>3. ASSUME NEW o \in Universe, HandleFile(o) PROVE Routed'
  BY <1>1, <1>3, AllProperEmpty DEF HandleFile
<1>4. CASE Finalize
  <2>1. PICK new :
          /\ ToSet(elements') = ToSet(elements) \cup new
          /\ \A r \in new :
               \E k \in DOMAIN deps.services :
                 /\ r.kind = "Service" /\ r.src = deps.services[k]
                 /\ r.data = ServiceResource(deps.services[k]).data
    BY <1>4, FinalizeFacts
  <2>2. pc = "fetch" /\ pc' = "load"
    BY <1>4 DEF Finalize
  <2>3. \A r \in new : PortsRight(r)
    BY <2>1, ServiceResourceRight
  <2>4. \A r \in ToSet(elements) : PortsRight(r)
    BY <2>2 DEF Routed, PortsRight
  <2> QED
    BY <2>1, <2>2, <2>3, <2>4 DEF Routed, PortsRight
<1>5. CASE LoadAll
  <2>1. elements' = elements /\ pc = "load" /\ pc' = "done"
    BY <1>5 DEF LoadAll
  <2> QED
    BY <2>1 DEF Routed, PortsRight
<1>6. CASE UNCHANGED vars
  BY <1>6 DEF Routed, PortsRight, vars
<1> QED
  BY <1>2, <1>3, <1>4, <1>5, <1>6 DEF Next

(* Endpoint routing reaches the port that Kubernetes would, for any services *)
(* and any of their TCP ports that is plain: ServiceProcessor's search       *)
(* through the numbers and names of the endpoints agrees with the endpoints  *)
(* controller.                                                               *)
THEOREM EndpointRouting == Spec => []PortsReachPods
<1>1. Init => Routed
  BY EmptyIsSeq DEF Init, Routed
<1>2. Inputs /\ Routed => PortsReachPods
  BY DEF Routed, PortsReachPods, PortsRight, ToSet
<1>3. Inputs /\ Routed /\ [Next]_vars => Routed'
  BY RoutedStep
<1> QED
  BY <1>1, <1>2, <1>3, InputsInit, InputsStep, PTL DEF Spec

-----------------------------------------------------------------------------
(* The order of the rkeys is a strict total order.                           *)

LEMMA Between ==
  /\ \A a, b, c \in Nat : a < b /\ b < c => a < c
  /\ \A a, b \in Nat : b > a /\ ~(b - 1 > a) => a = b - 1
OBVIOUS

LEMMA LessIrreflexive == ASSUME NEW s \in Seq(Nat) PROVE ~Less(s, s)
<1> SUFFICES ASSUME Less(s, s) PROVE FALSE
  OBVIOUS
<1>1. PICK n \in 1 .. Len(s) : n > Len(s) \/ s[n] < s[n]
  BY DEF Less
<1>2. Len(s) \in Nat /\ s[n] \in Nat
  BY SeqFacts
<1> QED
  BY <1>1, <1>2

LEMMA LessTransitive ==
  ASSUME NEW s \in Seq(Nat), NEW t \in Seq(Nat), NEW u \in Seq(Nat), Less(s, t), Less(t, u)
  PROVE  Less(s, u)
<1>1. /\ Len(s) \in Nat /\ Len(t) \in Nat /\ Len(u) \in Nat
      /\ \A k \in 1 .. Len(s) : s[k] \in Nat
      /\ \A k \in 1 .. Len(t) : t[k] \in Nat
      /\ \A k \in 1 .. Len(u) : u[k] \in Nat
  BY SeqFacts
<1>2. PICK n \in 1 .. Len(t) : /\ \A k \in 1 .. n - 1 : k <= Len(s) /\ s[k] = t[k]
                               /\ n > Len(s) \/ s[n] < t[n]
  BY DEF Less
<1>3. PICK m \in 1 .. Len(u) : /\ \A k \in 1 .. m - 1 : k <= Len(t) /\ t[k] = u[k]
                               /\ m > Len(t) \/ t[m] < u[m]
  BY DEF Less
<1>4. CASE n < m
  <2>1. n \in 1 .. Len(u) /\ n \in 1 .. m - 1
    BY <1>1, <1>4
  <2>2. \A k \in 1 .. n - 1 : k <= Len(s) /\ s[k] = u[k]
    BY <1>1, <1>2, <1>3, <1>4
  <2>3. t[n] = u[n]
    BY <1>3, <2>1
  <2>4. n > Len(s) \/ s[n] < u[n]
    BY <1>2, <2>3
  <2> QED
    BY <2>1, <2>2, <2>4 DEF Less
<1>5. CASE ~(n < m)
  <2>1. m \in 1 .. Len(t) /\ t[m] < u[m]
    BY <1>1, <1>3, <1>5
  <2>2. \A k \in 1 .. m - 1 : k <= Len(s) /\ s[k] = u[k]
    BY <1>1, <1>2, <1>3, <1>5
  <2>3. m > Len(s) \/ s[m] < u[m]
    <3>1. CASE m = n
      <4>1. CASE m > Len(s)
        BY <4>1
      <4>2. CASE ~(m > Len(s))
        <5>1. m \in 1 .. Len(s) /\ m \in 1 .. Len(u)
          BY <1>1, <4>2
        <5>2. s[m] \in Nat /\ t[m] \in Nat /\ u[m] \in Nat
          BY <1>1, <2>1, <5>1
        <5>3. s[m] < t[m]
          BY <1>2, <3>1, <4>2
        <5> QED
          BY <2>1, <5>2, <5>3, Between, Zenon
      <4> QED
        BY <4>1, <4>2
    <3>2. CASE m # n
      <4>1. m \in 1 .. n - 1
        BY <1>1, <1>5, <3>2
      <4> QED
        BY <1>2, <2>1, <4>1
    <3> QED
      BY <3>1, <3>2
  <2> QED
    BY <2>2, <2>3 DEF Less
<1> QED
  BY <1>4, <1>5

LEMMA LessTotal ==
  ASSUME NEW s \in Seq(Nat), NEW t \in Seq(Nat), s # t
  PROVE  Less(s, t) \/ Less(t, s)
<1>1. /\ Len(s) \in Nat /\ Len(t) \in Nat
      /\ \A k \in 1 .. Len(s) : s[k] \in Nat
      /\ \A k \in 1 .. Len(t) : t[k] \in Nat
  BY SeqFacts
<1> DEFINE same(k) == k <= Len(s) /\ k <= Len(t) /\ s[k] = t[k]
           D == {k \in Nat : k >= 1 /\ ~same(k)}
<1>2. Len(s) + 1 \in D
  BY <1>1
<1>3. D \in SUBSET Nat /\ D # {}
  BY <1>2
<1>4. PICK n \in D : \A k \in D : n <= k
  <2> HIDE DEF D
  <2> QED
    BY <1>3, Least
<1>5. n \in Nat /\ n >= 1 /\ ~same(n)
  OBVIOUS
<1>6. \A k \in 1 .. n - 1 : same(k)
  BY <1>4, <1>5
<1> HIDE DEF D
<1>7. CASE n > Len(s) /\ n > Len(t)
  <2>1. ~(n - 1 > Len(s)) /\ ~(n - 1 > Len(t))
    <3>1. CASE n = 1
      BY <1>1, <3>1
    <3>2. CASE n # 1
      <4>1. n - 1 \in 1 .. n - 1
        BY <1>5, <3>2
      <4> QED
        BY <1>1, <1>5, <1>6, <4>1
    <3> QED
      BY <3>1, <3>2
  <2>2. Len(s) = n - 1 /\ Len(t) = n - 1
    BY <1>1, <1>5, <1>7, <2>1, Between, Zenon
  <2>3. s = t
    BY <1>6, <2>2, SeqEqual
  <2> QED
    BY <2>3
<1>8. CASE n > Len(s) /\ ~(n > Len(t))
  <2>1. n \in 1 .. Len(t)
    BY <1>1, <1>5, <1>8
  <2> QED
    BY <1>6, <1>8, <2>1 DEF Less
<1>9. CASE ~(n > Len(s)) /\ n > Len(t)
  <2>1. n \in 1 .. Len(s)
    BY <1>1, <1>5, <1>9
  <2> QED
    BY <1>6, <1>9, <2>1 DEF Less
<1>10. CASE ~(n > Len(s)) /\ ~(n > Len(t))
  <2>1. n \in 1 .. Len(s) /\ n \in 1 .. Len(t)
    BY <1>1, <1>5, <1>10
  <2>2. s[n] \in Nat /\ t[n] \in Nat /\ s[n] # t[n]
    BY <1>1, <1>5, <2>1
  <2>3. s[n] < t[n] \/ t[n] < s[n]
    BY <2>2
  <2> QED
    BY <1>6, <2>1, <2>3 DEF Less
<1> QED
  BY <1>7, <1>8, <1>9, <1>10

(* Sorting neither loses nor adds a resource. *)
LEMMA SortedFacts ==
  ASSUME NEW rs, IsSeq(rs), \A r \in ToSet(rs) : r.rkey \in Seq(Nat)
  PROVE  IsSeq(sorted(rs)) /\ ToSet(sorted(rs)) = ToSet(rs)
<1> DEFINE N == Len(rs)
           S == DOMAIN rs
           before(i, j) == Less(rs[i].rkey, rs[j].rkey) \/ (rs[i].rkey = rs[j].rkey /\ i < j)
           R == {p \in S \X S : before(p[1], p[2])}
           below(i) == {j \in S : before(j, i)}
           place(i) == 1 + Cardinality(below(i))
           pick(n) == CHOOSE i \in S : place(i) = n
<1>1. N \in Nat /\ S = 1 .. N
  BY IsSeqFacts
<1>2. \A i \in S : rs[i].rkey \in Seq(Nat)
  BY DEF ToSet
<1>3. IsFiniteSet(S) /\ Cardinality(S) = N
  <2> HIDE DEF N, S
  <2>1. IsFiniteSet(1 .. N) /\ Cardinality(1 .. N) = N
    BY <1>1, FS_Interval
  <2> QED
    BY <1>1, <2>1
<1>4. \A i, j \in S : <<i, j>> \in R <=> before(i, j)
  OBVIOUS
<1>5. \A i \in S : {j \in S : <<j, i>> \in R} = below(i)
  BY <1>4
<1>6. \A i \in S : ~before(i, i)
  BY <1>1, <1>2, LessIrreflexive
<1>7. \A i, j \in S : i # j => before(i, j) \/ before(j, i)
  <2> SUFFICES ASSUME NEW i \in S, NEW j \in S, i # j PROVE before(i, j) \/ before(j, i)
    OBVIOUS
  <2>1. CASE rs[i].rkey = rs[j].rkey
    BY <1>1, <2>1
  <2>2. CASE rs[i].rkey # rs[j].rkey
    BY <1>2, <2>2, LessTotal
  <2> QED
    BY <2>1, <2>2
<1>8. \A i, j, k \in S : before(i, j) /\ before(j, k) => before(i, k)
  <2> SUFFICES ASSUME NEW i \in S, NEW j \in S, NEW k \in S, before(i, j), before(j, k)
               PROVE  before(i, k)
    OBVIOUS
  <2>1. CASE Less(rs[i].rkey, rs[j].rkey) /\ Less(rs[j].rkey, rs[k].rkey)
    BY <1>2, <2>1, LessTransitive
  <2>2. CASE rs[i].rkey = rs[j].rkey /\ i < j
    <3>1. CASE Less(rs[j].rkey, rs[k].rkey)
      BY <2>2, <3>1
    <3>2. CASE rs[j].rkey = rs[k].rkey /\ j < k
      BY <1>1, <2>2, <3>2
    <3> QED
      BY <3>1, <3>2
  <2>3. CASE rs[j].rkey = rs[k].rkey /\ j < k /\ Less(rs[i].rkey, rs[j].rkey)
    BY <2>3
  <2> QED
    BY <2>1, <2>2, <2>3
<1> HIDE DEF before, R
<1>9. /\ \A x \in S : <<x, x>> \notin R
      /\ \A x, y \in S : x # y => <<x, y>> \in R \/ <<y, x>> \in R
      /\ \A x, y, z \in S : <<x, y>> \in R /\ <<y, z>> \in R => <<x, z>> \in R
  BY <1>4, <1>6, <1>7, <1>8
<1>10. /\ Cardinality(S) \in Nat
       /\ \A x \in S : 1 + Cardinality({y \in S : <<y, x>> \in R}) \in 1 .. Cardinality(S)
       /\ \A n \in 1 .. Cardinality(S) :
            \E x \in S : 1 + Cardinality({y \in S : <<y, x>> \in R}) = n
       /\ \A x, z \in S : Cardinality({y \in S : <<y, x>> \in R})
                            = Cardinality({y \in S : <<y, z>> \in R}) => x = z
  <2> HIDE DEF S, below, place, pick, N
  <2>1. IsFiniteSet(S)
    BY <1>3
  <2> QED
    BY <1>9, <2>1, Ranks
<1>11. /\ \A x \in S : place(x) \in 1 .. N
       /\ \A n \in 1 .. N : \E x \in S : place(x) = n
       /\ \A x, z \in S : Cardinality(below(x)) = Cardinality(below(z)) => x = z
  <2> HIDE DEF N, S, below
  <2> QED
    BY <1>3, <1>5, <1>10
<1>12. \A x \in S : Cardinality(below(x)) \in Nat
  <2>1. \A x \in S : IsFiniteSet(below(x))
    BY <1>3, FS_Subset
  <2> QED
    BY <2>1, FS_CardinalityType
<1>13. sorted(rs) = [n \in S |-> rs[pick(n)]]
  BY DEF sorted, before
<1> HIDE DEF below, N, S
<1>14. \A x, z \in S : place(x) = place(z) => x = z
  BY <1>11, <1>12
<1>15. \A n \in 1 .. N : pick(n) \in S /\ place(pick(n)) = n
  BY <1>11
<1>16. \A x \in S : pick(place(x)) = x
  <2> TAKE x \in S
  <2>1. pick(place(x)) \in S /\ place(pick(place(x))) = place(x)
    BY <1>11, <1>15
  <2> HIDE DEF pick, place
  <2> QED
    BY <1>14, <2>1
<1> HIDE DEF pick, place
<1> DEFINE q == sorted(rs)
<1>17. /\ q = [n \in 1 .. N |-> q[n]]
       /\ \A n \in 1 .. N : q[n] = rs[pick(n)]
  BY <1>1, <1>13
<1> HIDE DEF q
<1>18. IsSeq(q) /\ DOMAIN q = 1 .. N
  BY <1>1, <1>17, FunctionIsSeq
<1>19. \A n \in DOMAIN q : q[n] \in ToSet(rs)
  BY <1>15, <1>17, <1>18 DEF ToSet, S
<1>20. \A i \in DOMAIN rs : \E n \in DOMAIN q : q[n] = rs[i]
  <2> TAKE i \in DOMAIN rs
  <2>1. i \in S /\ place(i) \in 1 .. N
    BY <1>11 DEF S
  <2>2. q[place(i)] = rs[i]
    BY <1>16, <1>17, <2>1
  <2> QED
    BY <1>18, <2>1, <2>2
<1>21. ToSet(q) = ToSet(rs)
  BY <1>19, <1>20 DEF ToSet
<1> QED
  BY <1>18, <1>21 DEF q

-----------------------------------------------------------------------------
(* Config files every resource.                                              *)

ByRkey == {"Service", "Secret"}

(* Every entry is a resource of E, under its rkey or its name. *)
Filed(c, E) ==
  /\ DOMAIN c = {"store", "errors"}
  /\ \A k \in DOMAIN c.store :
       \E e \in E :
         \/ e.kind \in ByRkey /\ k = <<e.kind, e.rkey>> /\ c.store[k] = e
         \/ e.kind \notin ByRkey /\ k = <<storage(e.kind), c.store[k].name>> /\ c.store[k] \in {e, renamed(e)}

StoredIn(c, r) == \E k \in DOMAIN c.store : c.store[k] \in {r, renamed(r)}

DoubleIn(c, r, E) ==
  \E e \in E : /\ storage(e.kind) = storage(r.kind) /\ e.ns = r.ns
               /\ e.name \in {r.name, renamed(r).name}
               /\ e.rkey \in c.errors

OvertakenIn(r, E) ==
  \E e, f \in E :
    /\ e # r /\ f.ns # e.ns
    /\ storage(e.kind) = storage(r.kind) /\ storage(f.kind) = storage(r.kind)
    /\ e.name \in {f.name, renamed(f).name}
    /\ renamed(e).name \in {r.name, renamed(r).name}

Accounted(c, r, E) == r.bad \/ StoredIn(c, r) \/ DoubleIn(c, r, E) \/ OvertakenIn(r, E)

(* No resource stored by name gets among those stored by rkey. *)
LEMMA StorageApart == \A k : k \notin ByRkey => storage(k) \notin ByRkey
BY Zenon DEF storage, ByRkey

LEMMA RenamedFacts ==
  ASSUME NEW r, DOMAIN r = Fields
  PROVE  /\ renamed(r).kind = r.kind /\ renamed(r).ns = r.ns /\ renamed(r).rkey = r.rkey
BY DEF renamed, Fields

(* A new entry that replaces none, or one whose resource the errors or the   *)
(* renaming account for.                                                     *)
Adds(c, d, k, v, r, E) ==
  /\ d.store = Put(c.store, k, v) /\ c.errors \subseteq d.errors /\ v \in {r, renamed(r)}
  /\ \A q \in E : (k \in DOMAIN c.store /\ c.store[k] \in {q, renamed(q)} /\ q # r)
                    => DoubleIn(d, q, E) \/ OvertakenIn(q, E)

(* It loses nothing. *)
LEMMA AddsKeeps ==
  ASSUME NEW E, NEW c, NEW d, NEW k, NEW v, NEW r \in E, Adds(c, d, k, v, r, E)
  PROVE  /\ Accounted(d, r, E)
         /\ \A q \in E : Accounted(c, q, E) => Accounted(d, q, E)
<1>1. /\ DOMAIN d.store = DOMAIN c.store \cup {k} /\ d.store[k] = v
      /\ \A x \in DOMAIN c.store : x # k => d.store[x] = c.store[x]
  BY DEF Adds, Put
<1>2. StoredIn(d, r)
  BY <1>1 DEF Adds, StoredIn
<1>3. ASSUME NEW q \in E, Accounted(c, q, E) PROVE Accounted(d, q, E)
  <2>1. CASE StoredIn(c, q)
    <3>1. PICK x \in DOMAIN c.store : c.store[x] \in {q, renamed(q)}
      BY <2>1 DEF StoredIn
    <3>2. CASE x # k
      <4>1. StoredIn(d, q)
        BY <1>1, <3>1, <3>2 DEF StoredIn
      <4> QED
        BY <4>1 DEF Accounted
    <3>3. CASE x = k /\ q # r
      BY <3>1, <3>3 DEF Adds, Accounted
    <3>4. CASE q = r
      BY <1>2, <3>4 DEF Accounted
    <3> QED
      BY <3>2, <3>3, <3>4
  <2>2. CASE DoubleIn(c, q, E)
    <3>1. DoubleIn(d, q, E)
      BY <2>2 DEF Adds, DoubleIn
    <3> QED
      BY <3>1 DEF Accounted
  <2>3. CASE q.bad \/ OvertakenIn(q, E)
    BY <2>3 DEF Accounted
  <2> QED
    BY <1>3, <2>1, <2>2, <2>3 DEF Accounted
<1> QED
  BY <1>2, <1>3 DEF Accounted

LEMMA StoreByRkeyFacts ==
  ASSUME NEW E, \A e \in E : DOMAIN e = Fields, NEW c, Filed(c, E), NEW r \in E, r.kind \in ByRkey
  PROVE  /\ Filed(store_by_rkey(c, r), E)
         /\ Accounted(store_by_rkey(c, r), r, E)
         /\ \A q \in E : Accounted(c, q, E) => Accounted(store_by_rkey(c, r), q, E)
<1> DEFINE key == <<r.kind, r.rkey>>
           d == store_by_rkey(c, r)
<1>1. /\ d.store = Put(c.store, key, r)
      /\ d.errors = IF key \in DOMAIN c.store THEN c.errors \cup {r.rkey} ELSE c.errors
      /\ DOMAIN d = {"store", "errors"}
  BY DEF store_by_rkey
<1> HIDE DEF d
<1>2. /\ DOMAIN d.store = DOMAIN c.store \cup {key} /\ d.store[key] = r
      /\ \A x \in DOMAIN c.store : x # key => d.store[x] = c.store[x]
  BY <1>1 DEF Put
<1>3. ASSUME NEW q \in E, key \in DOMAIN c.store, c.store[key] \in {q, renamed(q)}
      PROVE  DoubleIn(d, q, E)
  <2>1. PICK e \in E :
          \/ e.kind \in ByRkey /\ key = <<e.kind, e.rkey>> /\ c.store[key] = e
          \/ e.kind \notin ByRkey /\ key = <<storage(e.kind), c.store[key].name>> /\ c.store[key] \in {e, renamed(e)}
    BY <1>3 DEF Filed
  <2>2. e.kind = r.kind
    BY <2>1, StorageApart
  <2>3. c.store[key] = e /\ e.rkey = r.rkey
    BY <2>1, <2>2
  <2>4. q.rkey = r.rkey
    BY <1>3, <2>3, RenamedFacts
  <2>5. q.rkey \in d.errors
    BY <1>1, <1>3, <2>4
  <2> QED
    BY <2>5 DEF DoubleIn
<1>4. Filed(d, E)
  <2> SUFFICES ASSUME NEW k \in DOMAIN d.store
               PROVE  \E e \in E :
                        \/ e.kind \in ByRkey /\ k = <<e.kind, e.rkey>> /\ d.store[k] = e
                        \/ e.kind \notin ByRkey /\ k = <<storage(e.kind), d.store[k].name>> /\ d.store[k] \in {e, renamed(e)}
    BY <1>1 DEF Filed
  <2>1. CASE k = key
    BY <1>2, <2>1
  <2>2. CASE k # key
    BY <1>2, <2>2 DEF Filed
  <2> QED
    BY <2>1, <2>2
<1>5. Adds(c, d, key, r, r, E)
  BY <1>1, <1>3 DEF Adds
<1> HIDE DEF key
<1>6. /\ Accounted(d, r, E)
      /\ \A q \in E : Accounted(c, q, E) => Accounted(d, q, E)
  BY <1>5, AddsKeeps
<1> QED
  BY <1>4, <1>6 DEF d

LEMMA SafeStoreFacts ==
  ASSUME NEW E, \A e \in E : DOMAIN e = Fields, NEW c, Filed(c, E), NEW r \in E, r.kind \notin ByRkey
  PROVE  /\ Filed(safe_store(c, r), E)
         /\ Accounted(safe_store(c, r), r, E)
         /\ \A q \in E : Accounted(c, q, E) => Accounted(safe_store(c, r), q, E)
<1> DEFINE key   == <<storage(r.kind), r.name>>
           taken == key \in DOMAIN c.store
           same  == taken /\ c.store[key].ns = r.ns
           named == IF taken /\ ~same THEN renamed(r) ELSE r
           at    == <<storage(r.kind), named.name>>
           d     == safe_store(c, r)
<1>1. /\ d.store = Put(c.store, at, named)
      /\ d.errors = IF same THEN c.errors \cup {r.rkey} ELSE c.errors
      /\ DOMAIN d = {"store", "errors"}
  BY DEF safe_store
<1> HIDE DEF d
<1>2. /\ DOMAIN d.store = DOMAIN c.store \cup {at} /\ d.store[at] = named
      /\ \A x \in DOMAIN c.store : x # at => d.store[x] = c.store[x]
  BY <1>1 DEF Put
<1>3. named \in {r, renamed(r)} /\ c.errors \subseteq d.errors
  BY <1>1
<1>4. \* an entry under a name of this kind
      ASSUME NEW n, <<storage(r.kind), n>> \in DOMAIN c.store
      PROVE  \E e \in E : /\ storage(e.kind) = storage(r.kind)
                          /\ c.store[<<storage(r.kind), n>>].name = n
                          /\ c.store[<<storage(r.kind), n>>] \in {e, renamed(e)}
  <2> DEFINE k == <<storage(r.kind), n>>
  <2>1. PICK e \in E :
          \/ e.kind \in ByRkey /\ k = <<e.kind, e.rkey>> /\ c.store[k] = e
          \/ e.kind \notin ByRkey /\ k = <<storage(e.kind), c.store[k].name>> /\ c.store[k] \in {e, renamed(e)}
    BY <1>4 DEF Filed
  <2>2. e.kind \notin ByRkey
    BY <2>1, StorageApart
  <2>3. storage(e.kind) = storage(r.kind) /\ c.store[k].name = n
    BY <2>1, <2>2
  <2> QED
    BY <2>1, <2>2, <2>3
<1>5. ASSUME NEW q \in E, at \in DOMAIN c.store, c.store[at] \in {q, renamed(q)}, q # r
      PROVE  DoubleIn(d, q, E) \/ OvertakenIn(q, E)
  <2>1. /\ c.store[at].kind = q.kind /\ c.store[at].ns = q.ns
        /\ c.store[at].name \in {q.name, renamed(q).name}
    BY <1>5, RenamedFacts
  <2>2. PICK e \in E : /\ storage(e.kind) = storage(r.kind)
                      /\ c.store[at].name = named.name /\ c.store[at] \in {e, renamed(e)}
    BY <1>4, <1>5
  <2>3. storage(q.kind) = storage(r.kind)
    BY <2>1, <2>2, RenamedFacts
  <2>4. CASE taken /\ ~same
    <3>1. PICK f \in E : /\ storage(f.kind) = storage(r.kind)
                        /\ c.store[key].name = r.name /\ c.store[key] \in {f, renamed(f)}
      BY <1>4, <2>4
    <3>2. f.ns # r.ns /\ r.name \in {f.name, renamed(f).name}
      BY <2>4, <3>1, RenamedFacts
    <3>3. renamed(r).name \in {q.name, renamed(q).name}
      BY <2>1, <2>2, <2>4
    <3>4. OvertakenIn(q, E)
      BY <1>5, <2>3, <3>1, <3>2, <3>3 DEF OvertakenIn
    <3> QED
      BY <3>4
  <2>5. CASE ~(taken /\ ~same)
    <3>1. named = r /\ at = key /\ taken /\ same
      BY <1>5, <2>5
    <3>2. r.ns = q.ns /\ r.name \in {q.name, renamed(q).name} /\ r.rkey \in d.errors
      BY <1>1, <2>1, <2>2, <3>1
    <3> QED
      BY <2>3, <3>2 DEF DoubleIn
  <2> QED
    BY <2>4, <2>5
<1>6. Filed(d, E)
  <2> SUFFICES ASSUME NEW k \in DOMAIN d.store
               PROVE  \E e \in E :
                        \/ e.kind \in ByRkey /\ k = <<e.kind, e.rkey>> /\ d.store[k] = e
                        \/ e.kind \notin ByRkey /\ k = <<storage(e.kind), d.store[k].name>> /\ d.store[k] \in {e, renamed(e)}
    BY <1>1 DEF Filed
  <2>1. CASE k = at
    BY <1>2, <1>3, <2>1
  <2>2. CASE k # at
    BY <1>2, <2>2 DEF Filed
  <2> QED
    BY <2>1, <2>2
<1>7. Adds(c, d, at, named, r, E)
  BY <1>1, <1>3, <1>5 DEF Adds
<1> HIDE DEF named, at
<1>8. /\ Accounted(d, r, E)
      /\ \A q \in E : Accounted(c, q, E) => Accounted(d, q, E)
  BY <1>7, AddsKeeps
<1> QED
  BY <1>6, <1>8 DEF d

LEMMA ProcessFacts ==
  ASSUME NEW E, \A e \in E : DOMAIN e = Fields, NEW c, Filed(c, E), NEW r \in E
  PROVE  /\ Filed(process(c, r), E)
         /\ Accounted(process(c, r), r, E)
         /\ \A q \in E : Accounted(c, q, E) => Accounted(process(c, r), q, E)
<1>1. CASE r.bad
  <2> DEFINE d == process(c, r)
  <2>1. d = [c EXCEPT !.errors = c.errors \cup {r.rkey}]
    BY <1>1 DEF process
  <2> HIDE DEF d
  <2>2. d.store = c.store /\ c.errors \subseteq d.errors /\ DOMAIN d = {"store", "errors"}
    BY <2>1 DEF Filed
  <2>3. \A q \in E : Accounted(c, q, E) => Accounted(d, q, E)
    BY <2>2 DEF Accounted, StoredIn, DoubleIn
  <2>4. Filed(d, E)
    BY <2>2 DEF Filed
  <2> QED
    BY <1>1, <2>3, <2>4 DEF Accounted, d
<1>2. CASE ~r.bad /\ r.kind \in ByRkey
  <2>1. process(c, r) = store_by_rkey(c, r)
    BY <1>2 DEF process, ByRkey
  <2> QED
    BY <1>2, <2>1, StoreByRkeyFacts
<1>3. CASE ~r.bad /\ r.kind \notin ByRkey
  <2>1. process(c, r) = safe_store(c, r)
    BY <1>3 DEF process, ByRkey
  <2> QED
    BY <1>3, <2>1, SafeStoreFacts
<1> QED
  BY <1>1, <1>2, <1>3

(* One resource after the other. *)
LEMMA LoadAllFacts ==
  ASSUME NEW c, NEW rs, IsSeq(rs), \A r \in ToSet(rs) : DOMAIN r = Fields, Filed(c, ToSet(rs))
  PROVE  \A r \in ToSet(rs) : Accounted(load_all(c, rs), r, ToSet(rs))
<1> DEFINE L == Len(rs)
           E == ToSet(rs)
           IsAfter(g, n) == g = [i \in 0 .. n |-> IF i = 0 THEN c ELSE process(g[i - 1], rs[i])]
           after == CHOOSE g : IsAfter(g, L)
<1>1. L \in Nat /\ DOMAIN rs = 1 .. L
  BY IsSeqFacts
<1>2. load_all(c, rs) = after[L]
  BY DEF load_all
<1>3. \A n \in Nat : \E g : IsAfter(g, n)
  <2> DEFINE N == {n \in Nat : \E g : IsAfter(g, n)}
  <2>1. 0 \in N
    <3> DEFINE g == [i \in 0 .. 0 |-> c]
    <3>1. g = [i \in 0 .. 0 |-> IF i = 0 THEN c ELSE process(g[i - 1], rs[i])]
      OBVIOUS
    <3> QED
      BY <3>1
  <2>2. ASSUME NEW n \in N PROVE n + 1 \in N
    <3>1. PICK g : IsAfter(g, n)
      OBVIOUS
    <3> DEFINE last == process(g[n], rs[n + 1])
               h == [i \in 0 .. n + 1 |-> IF i = n + 1 THEN last ELSE g[i]]
    <3>2. n \in Nat
      OBVIOUS
    <3>3. \A i \in 0 .. n : g[i] = IF i = 0 THEN c ELSE process(g[i - 1], rs[i])
      BY <3>1, <3>2
    <3> HIDE DEF last, IsAfter, N
    <3>4. \A i \in 0 .. n + 1 : h[i] = IF i = n + 1 THEN last ELSE g[i]
      OBVIOUS
    <3>5. h[n + 1] = last /\ h[n] = g[n]
      BY <3>2
    <3>6. h = [i \in 0 .. n + 1 |-> h[i]]
      OBVIOUS
    <3> HIDE DEF h
    <3>7. \A i \in 0 .. n + 1 : h[i] = IF i = 0 THEN c ELSE process(h[i - 1], rs[i])
      <4> TAKE i \in 0 .. n + 1
      <4>1. CASE i = n + 1
        <5>1. i # 0 /\ i - 1 = n
          BY <3>2, <4>1
        <5> QED
          BY <3>5, <4>1, <5>1 DEF last
      <4>2. CASE i # n + 1
        <5>1. i \in 0 .. n /\ (i # 0 => i - 1 \in 0 .. n + 1 /\ i - 1 # n + 1)
          BY <3>2, <4>2
        <5>2. h[i] = g[i] /\ (i # 0 => h[i - 1] = g[i - 1])
          BY <3>4, <4>2, <5>1
        <5> QED
          BY <3>3, <5>1, <5>2
      <4> QED
        BY <4>1, <4>2
    <3>8. [i \in 0 .. n + 1 |-> h[i]]
            = [i \in 0 .. n + 1 |-> IF i = 0 THEN c ELSE process(h[i - 1], rs[i])]
      BY <3>7, Zenon
    <3>9. IsAfter(h, n + 1)
      BY <3>6, <3>8, Zenon DEF IsAfter
    <3> QED
      BY <3>2, <3>9 DEF N
  <2> HIDE DEF IsAfter
  <2>3. N = Nat
    BY <2>1, <2>2, Reaches
  <2> QED
    BY <2>3
<1>4. IsAfter(after, L)
  <2> HIDE DEF IsAfter
  <2> QED
    BY <1>1, <1>3
<1>5. \A i \in 0 .. L : after[i] = IF i = 0 THEN c ELSE process(after[i - 1], rs[i])
  BY <1>4
<1> HIDE DEF after, IsAfter
<1> DEFINE N == {n \in Nat : n <= L => /\ Filed(after[n], E)
                                       /\ \A m \in 1 .. n : Accounted(after[n], rs[m], E)}
<1>6. 0 \in N
  <2>1. after[0] = c
    BY <1>1, <1>5
  <2> QED
    BY <2>1
<1>7. ASSUME NEW n \in N PROVE n + 1 \in N
  <2> SUFFICES ASSUME n + 1 <= L
               PROVE  /\ Filed(after[n + 1], E)
                      /\ \A m \in 1 .. n + 1 : Accounted(after[n + 1], rs[m], E)
    OBVIOUS
  <2>1. n \in Nat /\ n <= L /\ n + 1 \in 1 .. L /\ n + 1 \in 0 .. L /\ n + 1 # 0 /\ (n + 1) - 1 = n
    BY <1>1
  <2>2. Filed(after[n], E) /\ \A m \in 1 .. n : Accounted(after[n], rs[m], E)
    BY <2>1
  <2>3. after[n + 1] = process(after[n], rs[n + 1])
    BY <1>5, <2>1
  <2>4. \A m \in 1 .. L : rs[m] \in E
    BY <1>1 DEF ToSet
  <2>5. \A e \in E : DOMAIN e = Fields
    OBVIOUS
  <2> HIDE DEF E, L, N
  <2>6. /\ Filed(after[n + 1], E)
        /\ Accounted(after[n + 1], rs[n + 1], E)
        /\ \A q \in E : Accounted(after[n], q, E) => Accounted(after[n + 1], q, E)
    BY <2>1, <2>2, <2>3, <2>4, <2>5, ProcessFacts
  <2>7. ASSUME NEW m \in 1 .. n + 1 PROVE Accounted(after[n + 1], rs[m], E)
    <3>1. (m \in 1 .. n /\ m \in 1 .. L) \/ m = n + 1
      BY <1>1, <2>1
    <3> QED
      BY <2>2, <2>4, <2>6, <3>1
  <2> QED
    BY <2>6, <2>7
<1>8. L \in N
  <2>1. N \in SUBSET Nat
    OBVIOUS
  <2> HIDE DEF N
  <2> QED
    BY <1>1, <1>6, <1>7, <2>1, Reaches
<1>9. \A m \in 1 .. L : Accounted(after[L], rs[m], E)
  BY <1>1, <1>8
<1> QED
  BY <1>1, <1>2, <1>9 DEF ToSet

(* Every resource that watt's validation accepts is stored, possibly under a *)
(* longer name, or an error tells of its double, or another one's longer     *)
(* name took its place: safe_store and the stores by rkey lose nothing else, *)
(* whatever the sorted order brings together.                                *)
THEOREM ResourcesAccounted == Spec => []NothingLost
<1>1. Init => NothingLost
  BY DEF Init, NothingLost
<1>2. Inputs /\ NothingLost /\ [Next]_vars => NothingLost'
  <2> SUFFICES ASSUME Inputs, NothingLost, [Next]_vars PROVE NothingLost'
    OBVIOUS
  <2>1. CASE LoadAll
    <3> DEFINE rs == sorted(elements)
               E == ToSet(elements)
    <3>1. conf' = load_all(conf, rs) /\ elements' = elements /\ pc = "load"
      BY <2>1 DEF LoadAll
    <3>2. IsSeq(rs) /\ ToSet(rs) = E
      BY SortedFacts DEF Inputs, Ready
    <3>3. \A r \in E : DOMAIN r = Fields
      BY DEF Inputs, Ready
    <3>4. Filed(conf, E)
      <4>1. conf = [store |-> <<>>, errors |-> {}]
        BY <3>1 DEF Inputs
      <4> QED
        BY <4>1 DEF Filed
    <3> HIDE DEF rs, E
    <3>5. \A r \in E : Accounted(conf', r, E)
      BY <3>1, <3>2, <3>3, <3>4, LoadAllFacts
    <3> QED
      BY <3>1, <3>5 DEF NothingLost, Accounted, Stored, StoredIn, Double, DoubleIn, Overtaken,
                        OvertakenIn, E
  <2>2. CASE UNCHANGED vars
    BY <2>2 DEF vars, NothingLost, Stored, Double, Overtaken
  <2>3. CASE Finalize
    BY <2>3 DEF Finalize, NothingLost
  <2>4. ASSUME NEW o, NEW more, handle_k8s(o, more) PROVE NothingLost'
    BY <2>4 DEF handle_k8s, NothingLost
  <2> QED
    BY <2>1, <2>2, <2>3, <2>4 DEF Next, HandleWatt, HandleFile
<1> QED
  BY <1>1, <1>2, InputsInit, InputsStep, PTL DEF Spec
=============================================================================
