--------------------------- MODULE CompilerProofs ---------------------------
(***************************************************************************)
(* What the compiler makes of any configuration: the filter chains of a    *)
(* listener can be told apart and present the certificates of the Hosts    *)
(* they serve, the weights of a route's clusters end at 100, and nothing   *)
(* gets past the filters that guard its routes.                            *)
(***************************************************************************)
EXTENDS Compiler, FiniteSetTheorems, SequenceTheorems, WellFoundedInduction, TLAPS

(* A sequence, of whatever elements. *)
IsSeq(s) == s \in Seq(Range(s))

-----------------------------------------------------------------------------
(* Numbers and sequences. *)

LEMMA Least ==
  ASSUME NEW N \in SUBSET Nat, N # {}
  PROVE  \E m \in N : \A k \in N : m <= k
<1>1. PICK m \in N : \A k \in N : ~ (<<k, m>> \in OpToRel(<, Nat))
  BY WFMin, NatLessThanWellFounded
<1>2. \A k \in N : ~ (k < m)
  BY <1>1 DEF OpToRel
<1> QED
  BY <1>2

(* A set of numbers that has 0 and with each number the next has them all. *)
LEMMA Reaches ==
  ASSUME NEW N \in SUBSET Nat, 0 \in N, \A m \in N : m + 1 \in N
  PROVE  N = Nat
<1> SUFFICES ASSUME Nat \ N # {} PROVE FALSE
  OBVIOUS
<1>1. PICK m \in Nat \ N : \A k \in Nat \ N : m <= k
  BY Least
<1>2. m # 0 /\ m - 1 \in Nat /\ m - 1 \in N
  BY <1>1
<1> QED
  BY <1>1, <1>2

LEMMA SeqIsSeq ==
  ASSUME NEW S, NEW s \in Seq(S)
  PROVE  IsSeq(s) /\ Range(s) \subseteq S
BY SeqOfRange, RangeOfSeq, LenProperties DEF IsSeq, Range

LEMMA IsSeqFacts ==
  ASSUME NEW s, IsSeq(s)
  PROVE  /\ Len(s) \in Nat /\ DOMAIN s = 1 .. Len(s)
         /\ s = [i \in 1 .. Len(s) |-> s[i]]
BY LenProperties DEF IsSeq

(* A function on an initial piece of the positive numbers is a sequence. *)
LEMMA FunctionIsSeq ==
  ASSUME NEW m \in Nat, NEW s, s = [i \in 1 .. m |-> s[i]]
  PROVE  IsSeq(s) /\ Len(s) = m /\ DOMAIN s = 1 .. m
<1>1. DOMAIN s = 1 .. m
  OBVIOUS
<1>2. s \in [1 .. m -> Range(s)]
  BY <1>1 DEF Range
<1>3. s \in Seq(Range(s))
  BY <1>2, SeqDef
<1>4. Len(s) \in Nat /\ 1 .. Len(s) = 1 .. m
  BY <1>1, <1>3, LenProperties
<1> QED
  BY <1>1, <1>3, <1>4 DEF IsSeq

(* Two sequences in a row. *)
LEMMA ConcatFacts ==
  ASSUME NEW s, NEW t, IsSeq(s), IsSeq(t)
  PROVE  /\ IsSeq(s \o t) /\ Range(s \o t) = Range(s) \cup Range(t)
         /\ Len(s) \in Nat /\ Len(t) \in Nat /\ Len(s \o t) = Len(s) + Len(t)
         /\ DOMAIN s = 1 .. Len(s) /\ DOMAIN t = 1 .. Len(t)
         /\ DOMAIN (s \o t) = 1 .. Len(s) + Len(t)
         /\ \A i \in 1 .. Len(s) + Len(t) :
              (s \o t)[i] = IF i <= Len(s) THEN s[i] ELSE t[i - Len(s)]
<1> DEFINE S == Range(s) \cup Range(t)
<1>1. s \in Seq(S) /\ t \in Seq(S)
  BY SeqMonotonic DEF IsSeq
<1>2. /\ s \o t \in Seq(S)
      /\ Len(s \o t) = Len(s) + Len(t)
      /\ \A i \in 1 .. Len(s) + Len(t) :
           (s \o t)[i] = IF i <= Len(s) THEN s[i] ELSE t[i - Len(s)]
  BY <1>1, ConcatProperties
<1>3. IsSeq(s \o t)
  BY <1>2, SeqIsSeq
<1>4. Len(s) \in Nat /\ Len(t) \in Nat /\ DOMAIN s = 1 .. Len(s) /\ DOMAIN t = 1 .. Len(t)
  BY IsSeqFacts
<1>5. DOMAIN (s \o t) = 1 .. Len(s) + Len(t)
  BY <1>2, <1>3, IsSeqFacts
<1>6. \A i \in DOMAIN s : i \in DOMAIN (s \o t) /\ (s \o t)[i] = s[i]
  BY <1>2, <1>4, <1>5
<1>7. \A i \in DOMAIN t : Len(s) + i \in DOMAIN (s \o t) /\ (s \o t)[Len(s) + i] = t[i]
  BY <1>2, <1>4, <1>5
<1>8. \A i \in DOMAIN (s \o t) : (s \o t)[i] \in S
  BY <1>2, SeqIsSeq DEF Range
<1>9. Range(s \o t) = S
  <2> DEFINE u == s \o t
  <2>1. /\ \A i \in DOMAIN s : i \in DOMAIN u /\ u[i] = s[i]
        /\ \A i \in DOMAIN t : Len(s) + i \in DOMAIN u /\ u[Len(s) + i] = t[i]
        /\ \A i \in DOMAIN u : u[i] \in S
    BY <1>6, <1>7, <1>8
  <2> HIDE DEF u
  <2>2. Range(u) = S
    BY <2>1 DEF Range
  <2> QED
    BY <2>2 DEF u
<1> QED
  BY <1>2, <1>3, <1>4, <1>5, <1>9

Joins(u, s, t) ==
  /\ IsSeq(u) /\ Range(u) = Range(s) \cup Range(t)
  /\ Len(s) \in Nat /\ Len(t) \in Nat /\ Len(u) = Len(s) + Len(t)
  /\ DOMAIN s = 1 .. Len(s) /\ DOMAIN t = 1 .. Len(t) /\ DOMAIN u = 1 .. Len(u)
  /\ \A i \in DOMAIN u : u[i] = IF i <= Len(s) THEN s[i] ELSE t[i - Len(s)]
  /\ \A i \in DOMAIN s : i \in DOMAIN u /\ u[i] = s[i]
  /\ \A i \in DOMAIN t : Len(s) + i \in DOMAIN u /\ u[Len(s) + i] = t[i]

LEMMA Concatenated ==
  ASSUME NEW s, NEW t, NEW u, IsSeq(s), IsSeq(t), u = s \o t
  PROVE  Joins(u, s, t)
<1>1. /\ IsSeq(u) /\ Range(u) = Range(s) \cup Range(t)
      /\ Len(s) \in Nat /\ Len(t) \in Nat /\ Len(u) = Len(s) + Len(t)
      /\ DOMAIN s = 1 .. Len(s) /\ DOMAIN t = 1 .. Len(t) /\ DOMAIN u = 1 .. Len(u)
  BY ConcatFacts
<1>2. \A i \in DOMAIN u : u[i] = IF i <= Len(s) THEN s[i] ELSE t[i - Len(s)]
  BY <1>1, ConcatFacts
<1>3. \A i \in DOMAIN s : i \in DOMAIN u /\ u[i] = s[i]
  BY <1>1, <1>2
<1>4. \A i \in DOMAIN t : Len(s) + i \in DOMAIN u /\ u[Len(s) + i] = t[i]
  BY <1>1, <1>2
<1> QED
  BY <1>1, <1>2, <1>3, <1>4 DEF Joins

LEMMA EmptyIsSeq == IsSeq(<<>>) /\ Range(<<>>) = {} /\ Len(<<>>) = 0 /\ DOMAIN <<>> = {}
<1>1. <<>> \in Seq({})
  BY EmptySeq
<1>2. \A s \in Seq({}) : IsSeq(s) /\ Range(s) \subseteq {}
  BY SeqIsSeq
<1>3. IsSeq(<<>>) /\ Range(<<>>) \subseteq {}
  BY <1>1, <1>2
<1> QED
  BY <1>3, EmptySeq

LEMMA SingletonIsSeq ==
  ASSUME NEW x PROVE IsSeq(<<x>>) /\ Range(<<x>>) = {x} /\ Len(<<x>>) = 1 /\ <<x>>[1] = x
<1>1. <<x>> \in Seq({x})
  OBVIOUS
<1>2. DOMAIN <<x>> = 1 .. 1 /\ <<x>>[1] = x
  OBVIOUS
<1>3. \A s \in Seq({x}) : IsSeq(s) /\ Range(s) \subseteq {x}
  BY SeqIsSeq
<1>4. IsSeq(<<x>>) /\ Range(<<x>>) \subseteq {x}
  BY <1>1, <1>3
<1>5. x \in Range(<<x>>)
  BY <1>2 DEF Range
<1> QED
  BY <1>4, <1>5

LEMMA AppendFacts ==
  ASSUME NEW s, NEW x, IsSeq(s)
  PROVE  /\ IsSeq(Append(s, x)) /\ Range(Append(s, x)) = Range(s) \cup {x}
         /\ Len(s) \in Nat /\ Len(Append(s, x)) = Len(s) + 1
         /\ DOMAIN s = 1 .. Len(s) /\ DOMAIN Append(s, x) = 1 .. Len(s) + 1
         /\ \A i \in 1 .. Len(s) : Append(s, x)[i] = s[i]
         /\ Append(s, x)[Len(s) + 1] = x
<1>1. s \in Seq(Range(s) \cup {x})
  BY SeqMonotonic DEF IsSeq
<1> DEFINE t == Append(s, x)
<1>2. /\ t \in Seq(Range(s) \cup {x}) /\ Len(t) = Len(s) + 1
      /\ \A i \in 1 .. Len(s) : t[i] = s[i]
      /\ t[Len(s) + 1] = x
  BY <1>1, AppendProperties
<1>3. Len(s) \in Nat /\ DOMAIN s = 1 .. Len(s)
  BY IsSeqFacts
<1> HIDE DEF t
<1>4. IsSeq(t) /\ Range(t) \subseteq Range(s) \cup {x}
  BY <1>2, SeqIsSeq
<1>5. DOMAIN t = 1 .. Len(s) + 1
  BY <1>2, <1>4, IsSeqFacts
<1>6. Range(s) \cup {x} \subseteq Range(t)
  <2>1. \A i \in DOMAIN s : i \in DOMAIN t /\ t[i] = s[i]
    BY <1>2, <1>3, <1>5
  <2>2. Len(s) + 1 \in DOMAIN t
    BY <1>3, <1>5
  <2> QED
    BY <1>2, <2>1, <2>2 DEF Range
<1> QED
  BY <1>2, <1>3, <1>4, <1>5, <1>6 DEF t

(* In a finite set with a strict total order, given as a set of pairs, every *)
(* rank is taken by one element.                                             *)
LEMMA Ranks ==
  ASSUME NEW S, IsFiniteSet(S), NEW R,
         \A x \in S : <<x, x>> \notin R,
         \A x, y \in S : x # y => <<x, y>> \in R \/ <<y, x>> \in R,
         \A x, y, z \in S : <<x, y>> \in R /\ <<y, z>> \in R => <<x, z>> \in R
  PROVE  /\ Cardinality(S) \in Nat
         /\ \A x \in S : 1 + Cardinality({y \in S : <<y, x>> \in R}) \in 1 .. Cardinality(S)
         /\ \A k \in 1 .. Cardinality(S) :
              \E x \in S : 1 + Cardinality({y \in S : <<y, x>> \in R}) = k
         /\ \A x, z \in S : Cardinality({y \in S : <<y, x>> \in R})
                              = Cardinality({y \in S : <<y, z>> \in R}) => x = z
         /\ \A x, z \in S : <<x, z>> \in R =>
              Cardinality({y \in S : <<y, x>> \in R}) < Cardinality({y \in S : <<y, z>> \in R})
<1> DEFINE below(x) == {y \in S : <<y, x>> \in R}
           rank == [x \in S |-> 1 + Cardinality(below(x))]
           N == Cardinality(S)
<1>1. N \in Nat
  BY FS_CardinalityType
<1>2. ASSUME NEW x \in S
      PROVE  IsFiniteSet(below(x)) /\ Cardinality(below(x)) \in Nat /\ Cardinality(below(x)) < N
  <2>1. below(x) \in SUBSET S /\ below(x) # S
    OBVIOUS
  <2>2. IsFiniteSet(below(x)) /\ Cardinality(below(x)) <= N /\ Cardinality(below(x)) # N
    BY <2>1, FS_Subset
  <2>3. Cardinality(below(x)) \in Nat
    BY <2>2, FS_CardinalityType
  <2> HIDE DEF below, N
  <2> QED
    BY <1>1, <2>2, <2>3
<1>3. ASSUME NEW x \in S, NEW y \in S, <<x, y>> \in R PROVE rank[x] < rank[y]
  <2>1. below(x) \in SUBSET below(y) /\ x \in below(y) /\ x \notin below(x)
    BY <1>3
  <2>2. Cardinality(below(x)) <= Cardinality(below(y)) /\ Cardinality(below(x)) # Cardinality(below(y))
    BY <1>2, <2>1, FS_Subset
  <2>3. rank[x] = 1 + Cardinality(below(x)) /\ rank[y] = 1 + Cardinality(below(y))
    OBVIOUS
  <2> HIDE DEF rank, below
  <2> QED
    BY <1>2, <2>2, <2>3
<1>4. rank \in [S -> 1 .. N]
  <2> HIDE DEF below, N
  <2> QED
    BY <1>1, <1>2
<1>5. \A x \in S : rank[x] = 1 + Cardinality({y \in S : <<y, x>> \in R})
  OBVIOUS
<1> HIDE DEF below, rank, N
<1>6. \A x, y \in S : rank[x] = rank[y] => x = y
  <2> SUFFICES ASSUME NEW x \in S, NEW y \in S, x # y PROVE rank[x] # rank[y]
    OBVIOUS
  <2>1. rank[x] \in Nat /\ rank[y] \in Nat
    BY <1>1, <1>4
  <2>2. CASE <<x, y>> \in R
    <3>1. rank[x] < rank[y]
      BY <1>3, <2>2
    <3> QED
      BY <2>1, <3>1
  <2>3. CASE <<y, x>> \in R
    <3>1. rank[y] < rank[x]
      BY <1>3, <2>3
    <3> QED
      BY <2>1, <3>1
  <2> QED
    BY <2>2, <2>3
<1>7. rank \in Injection(S, 1 .. N)
  BY <1>4, <1>6 DEF Injection, IsInjective
<1>8. IsFiniteSet(1 .. N) /\ Cardinality(1 .. N) = N
  BY <1>1, FS_Interval
<1>9. rank \in Surjection(S, 1 .. N)
  BY <1>7, <1>8, FS_Injection DEF N
<1>10. \A k \in 1 .. N : \E x \in S : rank[x] = k
  BY <1>9 DEF Surjection
<1>11. \A x, z \in S : Cardinality({y \in S : <<y, x>> \in R})
                              = Cardinality({y \in S : <<y, z>> \in R}) => x = z
  BY <1>5, <1>6
<1>12. ASSUME NEW x \in S, NEW z \in S, <<x, z>> \in R
       PROVE  Cardinality({y \in S : <<y, x>> \in R}) < Cardinality({y \in S : <<y, z>> \in R})
  <2>1. rank[x] < rank[z] /\ Cardinality(below(x)) \in Nat /\ Cardinality(below(z)) \in Nat
    BY <1>2, <1>3, <1>12
  <2>2. below(x) = {y \in S : <<y, x>> \in R} /\ below(z) = {y \in S : <<y, z>> \in R}
    BY DEF below
  <2>3. rank[x] = 1 + Cardinality(below(x)) /\ rank[z] = 1 + Cardinality(below(z))
    BY <1>5, <2>2
  <2>4. Cardinality(below(x)) < Cardinality(below(z))
    BY <2>1, <2>3
  <2> QED
    BY <2>2, <2>4
<1> QED
  BY <1>1, <1>4, <1>5, <1>10, <1>11, <1>12 DEF N

(* u has the elements of s at ks, in their order. *)
Picks(u, s, ks) ==
  /\ IsSeq(u) /\ Len(u) = Cardinality(ks)
  /\ \E p \in [DOMAIN u -> ks] :
       /\ \A a \in DOMAIN u : u[a] = s[p[a]]
       /\ \A a, b \in DOMAIN u : a < b => p[a] < p[b]
       /\ \A i \in ks : \E a \in DOMAIN u : p[a] = i

(* Keep keeps just the chosen elements, in their order. *)
LEMMA KeepFacts ==
  ASSUME NEW s, NEW m \in Nat, NEW ks \in SUBSET (1 .. m)
  PROVE  /\ IsSeq(Keep(s, ks)) /\ Range(Keep(s, ks)) = {s[i] : i \in ks}
         /\ Len(Keep(s, ks)) = Cardinality(ks)
         /\ \E p \in [DOMAIN Keep(s, ks) -> ks] :
              /\ \A a \in DOMAIN Keep(s, ks) : Keep(s, ks)[a] = s[p[a]]
              /\ \A a, b \in DOMAIN Keep(s, ks) : a < b => p[a] < p[b]
              /\ \A i \in ks : \E a \in DOMAIN Keep(s, ks) : p[a] = i
         /\ Picks(Keep(s, ks), s, ks)
<1> DEFINE R == {p \in ks \X ks : p[1] < p[2]}
           N == Cardinality(ks)
<1>1. IsFiniteSet(ks)
  <2>1. IsFiniteSet(1 .. m)
    BY FS_Interval
  <2> QED
    BY <2>1, FS_Subset
<1>2. \A x, y \in ks : <<x, y>> \in R <=> x < y
  OBVIOUS
<1>3. \A x \in ks : {y \in ks : <<y, x>> \in R} = {y \in ks : y < x}
  BY <1>2
<1>4. /\ \A x \in ks : <<x, x>> \notin R
      /\ \A x, y \in ks : x # y => <<x, y>> \in R \/ <<y, x>> \in R
      /\ \A x, y, z \in ks : <<x, y>> \in R /\ <<y, z>> \in R => <<x, z>> \in R
  <2> HIDE DEF R
  <2> QED
    BY <1>2
<1> HIDE DEF R
<1>5. /\ Cardinality(ks) \in Nat
      /\ \A x \in ks : 1 + Cardinality({y \in ks : <<y, x>> \in R}) \in 1 .. Cardinality(ks)
      /\ \A k \in 1 .. Cardinality(ks) :
           \E x \in ks : 1 + Cardinality({y \in ks : <<y, x>> \in R}) = k
      /\ \A x, z \in ks : Cardinality({y \in ks : <<y, x>> \in R})
                            = Cardinality({y \in ks : <<y, z>> \in R}) => x = z
      /\ \A x, z \in ks : <<x, z>> \in R =>
           Cardinality({y \in ks : <<y, x>> \in R}) < Cardinality({y \in ks : <<y, z>> \in R})
  BY <1>1, <1>4, Ranks
<1> DEFINE below(i) == Cardinality({j \in ks : j < i})
           pick(k) == CHOOSE i \in ks : 1 + below(i) = k
<1>6. /\ N \in Nat
      /\ \A x \in ks : below(x) \in Nat /\ 1 + below(x) \in 1 .. N
      /\ \A k \in 1 .. N : \E x \in ks : 1 + below(x) = k
      /\ \A x, z \in ks : below(x) = below(z) => x = z
      /\ \A x, z \in ks : x < z => below(x) < below(z)
  <2>1. \A x \in ks : IsFiniteSet({j \in ks : j < x})
    BY <1>1, FS_Subset
  <2>2. \A x \in ks : below(x) \in Nat
    BY <2>1, FS_CardinalityType
  <2>3. \A x, z \in ks : x < z => below(x) < below(z)
    BY <1>2, <1>3, <1>5
  <2> QED
    BY <1>3, <1>5, <2>2, <2>3
<1>7. Keep(s, ks) = [k \in 1 .. N |-> s[pick(k)]]
  BY DEF Keep
<1> HIDE DEF below, N
<1>8. \A k \in 1 .. N : pick(k) \in ks /\ 1 + below(pick(k)) = k
  BY <1>6
<1>9. \A x \in ks : pick(1 + below(x)) = x
  <2> TAKE x \in ks
  <2>1. pick(1 + below(x)) \in ks /\ 1 + below(pick(1 + below(x))) = 1 + below(x)
    BY <1>6, <1>8
  <2> HIDE DEF pick
  <2>2. below(pick(1 + below(x))) \in Nat /\ below(x) \in Nat
    BY <1>6, <2>1
  <2>3. below(pick(1 + below(x))) = below(x)
    BY <2>1, <2>2
  <2> QED
    BY <1>6, <2>1, <2>3
<1> HIDE DEF pick
<1>10. IsSeq(Keep(s, ks)) /\ DOMAIN Keep(s, ks) = 1 .. N /\ Len(Keep(s, ks)) = N
  BY <1>6, <1>7, FunctionIsSeq
<1> DEFINE q == Keep(s, ks)
<1>11. \A k \in 1 .. N : q[k] = s[pick(k)]
  BY <1>7
<1>12. DOMAIN q = 1 .. N
  BY <1>10
<1> HIDE DEF q
<1>13. Range(q) \subseteq {s[i] : i \in ks}
  BY <1>8, <1>11, <1>12 DEF Range
<1>14. ASSUME NEW i \in ks PROVE s[i] \in Range(q)
  <2>1. 1 + below(i) \in DOMAIN q /\ q[1 + below(i)] = s[i]
    BY <1>6, <1>9, <1>11, <1>12
  <2> QED
    BY <2>1 DEF Range
<1>15. \E p \in [DOMAIN q -> ks] :
         /\ \A a \in DOMAIN q : q[a] = s[p[a]]
         /\ \A a, b \in DOMAIN q : a < b => p[a] < p[b]
         /\ \A i \in ks : \E a \in DOMAIN q : p[a] = i
  <2> DEFINE p == [k \in DOMAIN q |-> pick(k)]
  <2>1. p \in [DOMAIN q -> ks] /\ \A a \in DOMAIN q : p[a] = pick(a) /\ q[a] = s[p[a]]
    BY <1>8, <1>11, <1>12
  <2>2. ASSUME NEW a \in DOMAIN q, NEW b \in DOMAIN q, a < b PROVE pick(a) < pick(b)
    <3>0. a \in 1 .. N /\ b \in 1 .. N
      BY <1>12
    <3>1. /\ pick(a) \in ks /\ pick(b) \in ks /\ pick(a) \in Nat /\ pick(b) \in Nat
          /\ 1 + below(pick(a)) = a /\ 1 + below(pick(b)) = b
          /\ below(pick(a)) \in Nat /\ below(pick(b)) \in Nat
      <4>1. pick(a) \in ks /\ pick(b) \in ks /\ 1 + below(pick(a)) = a /\ 1 + below(pick(b)) = b
        BY <1>8, <3>0
      <4>2. below(pick(a)) \in Nat /\ below(pick(b)) \in Nat
        BY <1>6, <4>1
      <4>3. pick(a) \in Nat /\ pick(b) \in Nat
        <5>1. \A x \in ks : x \in Nat
          OBVIOUS
        <5> QED
          BY <4>1, <5>1
      <4> QED
        BY <4>1, <4>2, <4>3
    <3>2. pick(b) < pick(a) => below(pick(b)) < below(pick(a))
      BY <1>6, <3>1
    <3>3. a \in Nat /\ b \in Nat /\ below(pick(a)) < below(pick(b))
      BY <1>6, <2>2, <3>0, <3>1
    <3>4. ~(pick(b) < pick(a)) /\ pick(a) # pick(b)
      BY <3>1, <3>2, <3>3
    <3> QED
      BY <3>1, <3>4
  <2>3. \A i \in ks : 1 + below(i) \in DOMAIN q /\ pick(1 + below(i)) = i
    BY <1>6, <1>9, <1>12
  <2> HIDE DEF p
  <2>4. /\ \A a, b \in DOMAIN q : a < b => p[a] < p[b]
        /\ \A i \in ks : \E a \in DOMAIN q : p[a] = i
    BY <2>1, <2>2, <2>3
  <2> QED
    BY <2>1, <2>4
<1>16. Len(q) = Cardinality(ks)
  BY <1>10 DEF q, N
<1>17. Picks(q, s, ks)
  <2>1. IsSeq(q)
    BY <1>10 DEF q
  <2> QED
    BY <1>15, <1>16, <2>1, Zenon DEF Picks
<1> QED
  BY <1>10, <1>13, <1>14, <1>15, <1>16, <1>17 DEF q

-----------------------------------------------------------------------------
(* Loops.  A loop has a history: the values after each of its turns.  What   *)
(* is true of the first and stays true is true of the last.                  *)
(* True at first, kept by every turn, and so true at last. *)
LEMMA AtLast ==
  ASSUME NEW m \in Nat, NEW T, 0 \in T, \A k \in 0 .. m : k < m /\ k \in T => k + 1 \in T
  PROVE  m \in T
<1> DEFINE N == {k \in Nat : k <= m => k \in T}
<1>1. 0 \in N
  OBVIOUS
<1>2. \A k \in N : k + 1 \in N
  OBVIOUS
<1>3. N = Nat
  BY <1>1, <1>2, Reaches
<1> QED
  BY <1>3

(* The TCP groups of a listener, one after the other. *)
AddTcpGroups(r, v0, s) == Loop(LAMBDA v, g : add_tcpgroup(r, v, g), v0, s)

LEMMA TcpLoop ==
  ASSUME NEW r, NEW v0, NEW s
  PROVE  \E a : /\ a[0] = v0 /\ AddTcpGroups(r, v0, s) = a[Len(s)]
                /\ \A i \in 1 .. Len(s) : a[i] = add_tcpgroup(r, a[i - 1], s[i])
<1> DEFINE After(g, m) == g = [i \in 0 .. m |-> IF i = 0 THEN v0 ELSE add_tcpgroup(r, g[i - 1], s[i])]
           N == {m \in Nat : \E g : After(g, m)}
           after == CHOOSE g : After(g, Len(s))
<1>1. 0 \in N
  <2>1. After([i \in 0 .. 0 |-> v0], 0)
    OBVIOUS
  <2> QED
    BY <2>1
<1>2. ASSUME NEW m \in N PROVE m + 1 \in N
  <2>1. m \in Nat /\ \E g : After(g, m)
    OBVIOUS
  <2>2. PICK g : After(g, m)
    BY <2>1
  <2> DEFINE next == add_tcpgroup(r, g[m], s[m + 1])
             h == [i \in 0 .. m + 1 |-> IF i = m + 1 THEN next ELSE g[i]]
  <2>3. h = [i \in 0 .. m + 1 |-> h[i]] /\ h[m + 1] = next /\ \A i \in 0 .. m : h[i] = g[i]
    <3> HIDE DEF next, N, After
    <3> QED
      BY <2>1
  <2> HIDE DEF h
  <2>4. \A i \in 0 .. m + 1 : h[i] = IF i = 0 THEN v0 ELSE add_tcpgroup(r, h[i - 1], s[i])
    <3> TAKE i \in 0 .. m + 1
    <3>1. \/ i = m + 1 /\ i # 0 /\ i - 1 = m /\ m \in 0 .. m
          \/ i \in 0 .. m /\ i = 0
          \/ i \in 0 .. m /\ i # 0 /\ i - 1 \in 0 .. m
      BY <2>1
    <3> QED
      BY <2>2, <2>3, <3>1
  <2>5. After(h, m + 1)
    BY <2>3, <2>4, Zenon
  <2> HIDE DEF After
  <2> QED
    BY <2>1, <2>5
<1>3. \E g : After(g, Len(s))
  <2>1. N \in SUBSET Nat
    OBVIOUS
  <2> HIDE DEF N
  <2>2. N = Nat
    BY <1>1, <1>2, <2>1, Reaches
  <2> USE DEF N
  <2> HIDE DEF After
  <2>3. Len(s) \in N
    BY <2>2
  <2> QED
    BY <2>3
<1>4. After(after, Len(s)) /\ AddTcpGroups(r, v0, s) = after[Len(s)]
  BY <1>3 DEF AddTcpGroups, Loop
<1> HIDE DEF after
<1>5. 0 \in 0 .. Len(s) /\ \A i \in 1 .. Len(s) : i \in 0 .. Len(s) /\ i # 0
  OBVIOUS
<1> QED
  BY <1>4, <1>5

(* The Hosts of a listener, one after the other. *)
AddHosts(r, l, v0, s) == Loop(LAMBDA v, h : add_host(r, l, v, h), v0, s)

LEMMA HttpLoop ==
  ASSUME NEW r, NEW l, NEW v0, NEW s
  PROVE  \E a : /\ a[0] = v0 /\ AddHosts(r, l, v0, s) = a[Len(s)]
                /\ \A i \in 1 .. Len(s) : a[i] = add_host(r, l, a[i - 1], s[i])
<1> DEFINE After(g, m) == g = [i \in 0 .. m |-> IF i = 0 THEN v0 ELSE add_host(r, l, g[i - 1], s[i])]
           N == {m \in Nat : \E g : After(g, m)}
           after == CHOOSE g : After(g, Len(s))
<1>1. 0 \in N
  <2>1. After([i \in 0 .. 0 |-> v0], 0)
    OBVIOUS
  <2> QED
    BY <2>1
<1>2. ASSUME NEW m \in N PROVE m + 1 \in N
  <2>1. m \in Nat /\ \E g : After(g, m)
    OBVIOUS
  <2>2. PICK g : After(g, m)
    BY <2>1
  <2> DEFINE next == add_host(r, l, g[m], s[m + 1])
             h == [i \in 0 .. m + 1 |-> IF i = m + 1 THEN next ELSE g[i]]
  <2>3. h = [i \in 0 .. m + 1 |-> h[i]] /\ h[m + 1] = next /\ \A i \in 0 .. m : h[i] = g[i]
    <3> HIDE DEF next, N, After
    <3> QED
      BY <2>1
  <2> HIDE DEF h
  <2>4. \A i \in 0 .. m + 1 : h[i] = IF i = 0 THEN v0 ELSE add_host(r, l, h[i - 1], s[i])
    <3> TAKE i \in 0 .. m + 1
    <3>1. \/ i = m + 1 /\ i # 0 /\ i - 1 = m /\ m \in 0 .. m
          \/ i \in 0 .. m /\ i = 0
          \/ i \in 0 .. m /\ i # 0 /\ i - 1 \in 0 .. m
      BY <2>1
    <3> QED
      BY <2>2, <2>3, <3>1
  <2>5. After(h, m + 1)
    BY <2>3, <2>4, Zenon
  <2> HIDE DEF After
  <2> QED
    BY <2>1, <2>5
<1>3. \E g : After(g, Len(s))
  <2>1. N \in SUBSET Nat
    OBVIOUS
  <2> HIDE DEF N
  <2>2. N = Nat
    BY <1>1, <1>2, <2>1, Reaches
  <2> USE DEF N
  <2> HIDE DEF After
  <2>3. Len(s) \in N
    BY <2>2
  <2> QED
    BY <2>3
<1>4. After(after, Len(s)) /\ AddHosts(r, l, v0, s) = after[Len(s)]
  BY <1>3 DEF AddHosts, Loop
<1> HIDE DEF after
<1>5. 0 \in 0 .. Len(s) /\ \A i \in 1 .. Len(s) : i \in 0 .. Len(s) /\ i # 0
  OBVIOUS
<1> QED
  BY <1>4, <1>5

(* The AuthServices, one after the other. *)
LoadAuths(v0, s) == Loop(load_auth, v0, s)

LEMMA AuthLoop ==
  ASSUME NEW v0, NEW s
  PROVE  \E a : /\ a[0] = v0 /\ LoadAuths(v0, s) = a[Len(s)]
                /\ \A i \in 1 .. Len(s) : a[i] = load_auth(a[i - 1], s[i])
<1> DEFINE After(g, m) == g = [i \in 0 .. m |-> IF i = 0 THEN v0 ELSE load_auth(g[i - 1], s[i])]
           N == {m \in Nat : \E g : After(g, m)}
           after == CHOOSE g : After(g, Len(s))
<1>1. 0 \in N
  <2>1. After([i \in 0 .. 0 |-> v0], 0)
    OBVIOUS
  <2> QED
    BY <2>1
<1>2. ASSUME NEW m \in N PROVE m + 1 \in N
  <2>1. m \in Nat /\ \E g : After(g, m)
    OBVIOUS
  <2>2. PICK g : After(g, m)
    BY <2>1
  <2> DEFINE next == load_auth(g[m], s[m + 1])
             h == [i \in 0 .. m + 1 |-> IF i = m + 1 THEN next ELSE g[i]]
  <2>3. h = [i \in 0 .. m + 1 |-> h[i]] /\ h[m + 1] = next /\ \A i \in 0 .. m : h[i] = g[i]
    <3> HIDE DEF next, N, After
    <3> QED
      BY <2>1
  <2> HIDE DEF h
  <2>4. \A i \in 0 .. m + 1 : h[i] = IF i = 0 THEN v0 ELSE load_auth(h[i - 1], s[i])
    <3> TAKE i \in 0 .. m + 1
    <3>1. \/ i = m + 1 /\ i # 0 /\ i - 1 = m /\ m \in 0 .. m
          \/ i \in 0 .. m /\ i = 0
          \/ i \in 0 .. m /\ i # 0 /\ i - 1 \in 0 .. m
      BY <2>1
    <3> QED
      BY <2>2, <2>3, <3>1
  <2>5. After(h, m + 1)
    BY <2>3, <2>4, Zenon
  <2> HIDE DEF After
  <2> QED
    BY <2>1, <2>5
<1>3. \E g : After(g, Len(s))
  <2>1. N \in SUBSET Nat
    OBVIOUS
  <2> HIDE DEF N
  <2>2. N = Nat
    BY <1>1, <1>2, <2>1, Reaches
  <2> USE DEF N
  <2> HIDE DEF After
  <2>3. Len(s) \in N
    BY <2>2
  <2> QED
    BY <2>3
<1>4. After(after, Len(s)) /\ LoadAuths(v0, s) = after[Len(s)]
  BY <1>3 DEF LoadAuths, Loop
<1> HIDE DEF after
<1>5. 0 \in 0 .. Len(s) /\ \A i \in 1 .. Len(s) : i \in 0 .. Len(s) /\ i # 0
  OBVIOUS
<1> QED
  BY <1>4, <1>5

(* The hosts of a service, one after the other. *)
MergeClusters(source, v0, s) == Loop(LAMBDA v, x : merge_cluster(source, v, x), v0, s)

LEMMA MergeLoop ==
  ASSUME NEW source, NEW v0, NEW s
  PROVE  \E a : /\ a[0] = v0 /\ MergeClusters(source, v0, s) = a[Len(s)]
                /\ \A i \in 1 .. Len(s) : a[i] = merge_cluster(source, a[i - 1], s[i])
<1> DEFINE After(g, m) == g = [i \in 0 .. m |-> IF i = 0 THEN v0 ELSE merge_cluster(source, g[i - 1], s[i])]
           N == {m \in Nat : \E g : After(g, m)}
           after == CHOOSE g : After(g, Len(s))
<1>1. 0 \in N
  <2>1. After([i \in 0 .. 0 |-> v0], 0)
    OBVIOUS
  <2> QED
    BY <2>1
<1>2. ASSUME NEW m \in N PROVE m + 1 \in N
  <2>1. m \in Nat /\ \E g : After(g, m)
    OBVIOUS
  <2>2. PICK g : After(g, m)
    BY <2>1
  <2> DEFINE next == merge_cluster(source, g[m], s[m + 1])
             h == [i \in 0 .. m + 1 |-> IF i = m + 1 THEN next ELSE g[i]]
  <2>3. h = [i \in 0 .. m + 1 |-> h[i]] /\ h[m + 1] = next /\ \A i \in 0 .. m : h[i] = g[i]
    <3> HIDE DEF next, N, After
    <3> QED
      BY <2>1
  <2> HIDE DEF h
  <2>4. \A i \in 0 .. m + 1 : h[i] = IF i = 0 THEN v0 ELSE merge_cluster(source, h[i - 1], s[i])
    <3> TAKE i \in 0 .. m + 1
    <3>1. \/ i = m + 1 /\ i # 0 /\ i - 1 = m /\ m \in 0 .. m
          \/ i \in 0 .. m /\ i = 0
          \/ i \in 0 .. m /\ i # 0 /\ i - 1 \in 0 .. m
      BY <2>1
    <3> QED
      BY <2>2, <2>3, <3>1
  <2>5. After(h, m + 1)
    BY <2>3, <2>4, Zenon
  <2> HIDE DEF After
  <2> QED
    BY <2>1, <2>5
<1>3. \E g : After(g, Len(s))
  <2>1. N \in SUBSET Nat
    OBVIOUS
  <2> HIDE DEF N
  <2>2. N = Nat
    BY <1>1, <1>2, <2>1, Reaches
  <2> USE DEF N
  <2> HIDE DEF After
  <2>3. Len(s) \in N
    BY <2>2
  <2> QED
    BY <2>3
<1>4. After(after, Len(s)) /\ MergeClusters(source, v0, s) = after[Len(s)]
  BY <1>3 DEF MergeClusters, Loop
<1> HIDE DEF after
<1>5. 0 \in 0 .. Len(s) /\ \A i \in 1 .. Len(s) : i \in 0 .. Len(s) /\ i # 0
  OBVIOUS
<1> QED
  BY <1>4, <1>5

(* What the clusters of a service leave behind. *)
NoteClusters(v0, s) == Loop(note_cluster, v0, s)

LEMMA NoteLoop ==
  ASSUME NEW v0, NEW s
  PROVE  \E a : /\ a[0] = v0 /\ NoteClusters(v0, s) = a[Len(s)]
                /\ \A i \in 1 .. Len(s) : a[i] = note_cluster(a[i - 1], s[i])
<1> DEFINE After(g, m) == g = [i \in 0 .. m |-> IF i = 0 THEN v0 ELSE note_cluster(g[i - 1], s[i])]
           N == {m \in Nat : \E g : After(g, m)}
           after == CHOOSE g : After(g, Len(s))
<1>1. 0 \in N
  <2>1. After([i \in 0 .. 0 |-> v0], 0)
    OBVIOUS
  <2> QED
    BY <2>1
<1>2. ASSUME NEW m \in N PROVE m + 1 \in N
  <2>1. m \in Nat /\ \E g : After(g, m)
    OBVIOUS
  <2>2. PICK g : After(g, m)
    BY <2>1
  <2> DEFINE next == note_cluster(g[m], s[m + 1])
             h == [i \in 0 .. m + 1 |-> IF i = m + 1 THEN next ELSE g[i]]
  <2>3. h = [i \in 0 .. m + 1 |-> h[i]] /\ h[m + 1] = next /\ \A i \in 0 .. m : h[i] = g[i]
    <3> HIDE DEF next, N, After
    <3> QED
      BY <2>1
  <2> HIDE DEF h
  <2>4. \A i \in 0 .. m + 1 : h[i] = IF i = 0 THEN v0 ELSE note_cluster(h[i - 1], s[i])
    <3> TAKE i \in 0 .. m + 1
    <3>1. \/ i = m + 1 /\ i # 0 /\ i - 1 = m /\ m \in 0 .. m
          \/ i \in 0 .. m /\ i = 0
          \/ i \in 0 .. m /\ i # 0 /\ i - 1 \in 0 .. m
      BY <2>1
    <3> QED
      BY <2>2, <2>3, <3>1
  <2>5. After(h, m + 1)
    BY <2>3, <2>4, Zenon
  <2> HIDE DEF After
  <2> QED
    BY <2>1, <2>5
<1>3. \E g : After(g, Len(s))
  <2>1. N \in SUBSET Nat
    OBVIOUS
  <2> HIDE DEF N
  <2>2. N = Nat
    BY <1>1, <1>2, <2>1, Reaches
  <2> USE DEF N
  <2> HIDE DEF After
  <2>3. Len(s) \in N
    BY <2>2
  <2> QED
    BY <2>3
<1>4. After(after, Len(s)) /\ NoteClusters(v0, s) = after[Len(s)]
  BY <1>3 DEF NoteClusters, Loop
<1> HIDE DEF after
<1>5. 0 \in 0 .. Len(s) /\ \A i \in 1 .. Len(s) : i \in 0 .. Len(s) /\ i # 0
  OBVIOUS
<1> QED
  BY <1>4, <1>5

(* The clusters of a group, one after the other. *)
AddClusters(v0, s) == Loop(add_cluster, v0, s)

LEMMA ClusterLoop ==
  ASSUME NEW v0, NEW s
  PROVE  \E a : /\ a[0] = v0 /\ AddClusters(v0, s) = a[Len(s)]
                /\ \A i \in 1 .. Len(s) : a[i] = add_cluster(a[i - 1], s[i])
<1> DEFINE After(g, m) == g = [i \in 0 .. m |-> IF i = 0 THEN v0 ELSE add_cluster(g[i - 1], s[i])]
           N == {m \in Nat : \E g : After(g, m)}
           after == CHOOSE g : After(g, Len(s))
<1>1. 0 \in N
  <2>1. After([i \in 0 .. 0 |-> v0], 0)
    OBVIOUS
  <2> QED
    BY <2>1
<1>2. ASSUME NEW m \in N PROVE m + 1 \in N
  <2>1. m \in Nat /\ \E g : After(g, m)
    OBVIOUS
  <2>2. PICK g : After(g, m)
    BY <2>1
  <2> DEFINE next == add_cluster(g[m], s[m + 1])
             h == [i \in 0 .. m + 1 |-> IF i = m + 1 THEN next ELSE g[i]]
  <2>3. h = [i \in 0 .. m + 1 |-> h[i]] /\ h[m + 1] = next /\ \A i \in 0 .. m : h[i] = g[i]
    <3> HIDE DEF next, N, After
    <3> QED
      BY <2>1
  <2> HIDE DEF h
  <2>4. \A i \in 0 .. m + 1 : h[i] = IF i = 0 THEN v0 ELSE add_cluster(h[i - 1], s[i])
    <3> TAKE i \in 0 .. m + 1
    <3>1. \/ i = m + 1 /\ i # 0 /\ i - 1 = m /\ m \in 0 .. m
          \/ i \in 0 .. m /\ i = 0
          \/ i \in 0 .. m /\ i # 0 /\ i - 1 \in 0 .. m
      BY <2>1
    <3> QED
      BY <2>2, <2>3, <3>1
  <2>5. After(h, m + 1)
    BY <2>3, <2>4, Zenon
  <2> HIDE DEF After
  <2> QED
    BY <2>1, <2>5
<1>3. \E g : After(g, Len(s))
  <2>1. N \in SUBSET Nat
    OBVIOUS
  <2> HIDE DEF N
  <2>2. N = Nat
    BY <1>1, <1>2, <2>1, Reaches
  <2> USE DEF N
  <2> HIDE DEF After
  <2>3. Len(s) \in N
    BY <2>2
  <2> QED
    BY <2>3
<1>4. After(after, Len(s)) /\ AddClusters(v0, s) = after[Len(s)]
  BY <1>3 DEF AddClusters, Loop
<1> HIDE DEF after
<1>5. 0 \in 0 .. Len(s) /\ \A i \in 1 .. Len(s) : i \in 0 .. Len(s) /\ i # 0
  OBVIOUS
<1> QED
  BY <1>4, <1>5

-----------------------------------------------------------------------------
(* The chains of a listener.  A chain with a context has the key of its one  *)
(* server name.                                                              *)
TcpChain(ch) == ch.hosts # <<>> /\ \A h \in Range(ch.hosts) : h.tcp

HttpChain(ch) == \A h \in Range(ch.hosts) : ~h.tcp

GoodChain(ch) ==
  /\ DOMAIN ch = {"key", "ctx", "hosts", "server_names", "routes"}
  /\ IsSeq(ch.hosts)
  /\ TcpChain(ch) \/ HttpChain(ch)
  /\ ch.ctx # 0 => /\ ch.key = <<"tls", ch.key[2]>>
                   /\ ch.server_names \subseteq {ch.key[2]}
                   /\ ch.hosts # <<>> => ch.server_names = {ch.key[2]}
  /\ ch.ctx = 0 => ch.key[1] = "cleartext"

Separated(v) ==
  /\ DOMAIN v = {"chains", "errors"}
  /\ IsSeq(v.chains)
  /\ \A k \in DOMAIN v.chains : GoodChain(v.chains[k])
  /\ \A j, k \in DOMAIN v.chains : v.chains[j].key = v.chains[k].key => j = k

(* The place of a key, and the chains once there is another at it. *)
PlaceOf(v, key) ==
  LET at == {k \in DOMAIN v.chains : v.chains[k].key = key}
  IN  IF at = {} THEN Len(v.chains) + 1 ELSE CHOOSE j \in at : TRUE

ChainAt(v, key, ctx) ==
  IF PlaceOf(v, key) \in DOMAIN v.chains THEN v.chains[PlaceOf(v, key)] ELSE NoChain(key, ctx)

WithChain(v, key, ch) ==
  IF PlaceOf(v, key) \in DOMAIN v.chains THEN [v.chains EXCEPT ![PlaceOf(v, key)] = ch]
  ELSE Append(v.chains, ch)

LEMMA PlaceFacts ==
  ASSUME NEW v, Separated(v), NEW key
  PROVE  /\ PlaceOf(v, key) \in 1 .. Len(v.chains) + 1
         /\ PlaceOf(v, key) \in DOMAIN v.chains <=> \E k \in DOMAIN v.chains : v.chains[k].key = key
         /\ PlaceOf(v, key) \in DOMAIN v.chains => v.chains[PlaceOf(v, key)].key = key
         /\ PlaceOf(v, key) \notin DOMAIN v.chains => PlaceOf(v, key) = Len(v.chains) + 1
         /\ Len(v.chains) \in Nat /\ DOMAIN v.chains = 1 .. Len(v.chains)
<1> DEFINE at == {k \in DOMAIN v.chains : v.chains[k].key = key}
<1>1. Len(v.chains) \in Nat /\ DOMAIN v.chains = 1 .. Len(v.chains)
  BY IsSeqFacts DEF Separated
<1>2. CASE at = {}
  <2>1. PlaceOf(v, key) = Len(v.chains) + 1
    BY <1>2 DEF PlaceOf
  <2> QED
    BY <1>1, <1>2, <2>1
<1>3. CASE at # {}
  <2>1. PlaceOf(v, key) \in at
    BY <1>3 DEF PlaceOf
  <2> QED
    BY <1>1, <2>1
<1> QED
  BY <1>2, <1>3

(* A chain put at the place of its key leaves the chains separated. *)
LEMMA PutChain ==
  ASSUME NEW v, Separated(v), NEW key, NEW ch, GoodChain(ch), ch.key = key, NEW w,
         DOMAIN w = {"chains", "errors"}, w.chains = WithChain(v, key, ch)
  PROVE  /\ Separated(w)
         /\ DOMAIN w.chains = DOMAIN v.chains \cup {PlaceOf(v, key)}
         /\ \A j \in DOMAIN v.chains : j # PlaceOf(v, key) => w.chains[j] = v.chains[j]
         /\ w.chains[PlaceOf(v, key)] = ch
<1> DEFINE k == PlaceOf(v, key)
           L == Len(v.chains)
<1>1. /\ k \in 1 .. L + 1 /\ L \in Nat /\ DOMAIN v.chains = 1 .. L
      /\ k \in DOMAIN v.chains <=> \E j \in DOMAIN v.chains : v.chains[j].key = key
      /\ k \in DOMAIN v.chains => v.chains[k].key = key
      /\ k \notin DOMAIN v.chains => k = L + 1
  BY PlaceFacts
<1>2. IsSeq(v.chains)
  BY DEF Separated
<1> HIDE DEF k, L
<1>3. /\ IsSeq(w.chains) /\ DOMAIN w.chains = DOMAIN v.chains \cup {k}
      /\ w.chains[k] = ch
      /\ \A j \in DOMAIN v.chains : j # k => w.chains[j] = v.chains[j]
  <2>1. CASE k \in DOMAIN v.chains
    <3>1. w.chains = [v.chains EXCEPT ![k] = ch]
      BY <2>1 DEF k, WithChain
    <3>2. DOMAIN w.chains = 1 .. L /\ w.chains = [j \in 1 .. L |-> w.chains[j]]
      BY <1>1, <3>1
    <3>3. IsSeq(w.chains)
      BY <1>1, <3>2, FunctionIsSeq
    <3> QED
      BY <1>1, <2>1, <3>1, <3>2, <3>3
  <2>2. CASE k \notin DOMAIN v.chains
    <3>1. w.chains = Append(v.chains, ch)
      BY <2>2 DEF k, WithChain
    <3>2. k = L + 1
      BY <1>1, <2>2
    <3> DEFINE a == Append(v.chains, ch)
    <3>3. /\ IsSeq(a) /\ DOMAIN a = 1 .. L + 1 /\ a[L + 1] = ch
          /\ \A j \in 1 .. L : a[j] = v.chains[j]
      BY <1>2, AppendFacts DEF L
    <3> HIDE DEF a
    <3>4. w.chains = a
      BY <3>1 DEF a
    <3>5. DOMAIN w.chains = DOMAIN v.chains \cup {k}
      BY <1>1, <3>2, <3>3, <3>4
    <3> QED
      BY <1>1, <3>2, <3>3, <3>4, <3>5
  <2> QED
    BY <2>1, <2>2
<1>4. \A j \in DOMAIN w.chains : GoodChain(w.chains[j])
  BY <1>3 DEF Separated
<1>5. \A i, j \in DOMAIN w.chains : w.chains[i].key = w.chains[j].key => i = j
  <2> SUFFICES ASSUME NEW i \in DOMAIN w.chains, NEW j \in DOMAIN w.chains, i # j
               PROVE  w.chains[i].key # w.chains[j].key
    OBVIOUS
  <2>1. CASE i # k /\ j # k
    BY <1>3, <2>1 DEF Separated
  <2>2. CASE i = k \/ j = k
    <3>1. \A x \in DOMAIN v.chains : x # k => v.chains[x].key # key
      BY <1>1 DEF Separated
    <3> QED
      BY <1>3, <2>2, <3>1
  <2> QED
    BY <2>1, <2>2
<1> QED
  BY <1>3, <1>4, <1>5 DEF Separated, k

(* A TCP group finds its chain, or makes it, and takes it if it is empty. *)
LEMMA TcpOnChain ==
  ASSUME NEW r, NEW v, Separated(v), NEW ctx, NEW g,
         \A k \in DOMAIN v.chains : TcpChain(v.chains[k])
  PROVE  /\ Separated(OnChain(r, v, "tcp", ctx, g))
         /\ \A k \in DOMAIN OnChain(r, v, "tcp", ctx, g).chains :
              TcpChain(OnChain(r, v, "tcp", ctx, g).chains[k])
<1> DEFINE name == IF g.host = <<>> THEN Star ELSE g.host
           key == chain_key("tcp", ctx, name, name)
           chain == ChainAt(v, key, ctx)
           w == OnChain(r, v, "tcp", ctx, g)
           entry == [tcp |-> TRUE, hostname |-> name, of |-> g]
<1>1. key = IF ctx # 0 THEN <<"tls", name>> ELSE <<"cleartext">>
  BY DEF chain_key
<1>2. /\ DOMAIN w = {"chains", "errors"}
      /\ w.chains = IF PlaceOf(v, key) \in DOMAIN v.chains
                    THEN [v.chains EXCEPT ![PlaceOf(v, key)] = add_tcphost(chain, g).chain]
                    ELSE Append(v.chains, add_tcphost(chain, g).chain)
  <2> DEFINE at == {k \in DOMAIN v.chains : v.chains[k].key = key}
  <2>1. PlaceOf(v, key) \in DOMAIN v.chains <=> at # {}
    BY PlaceFacts
  <2>2. PlaceOf(v, key) = IF at = {} THEN Len(v.chains) + 1 ELSE CHOOSE j \in at : TRUE
    BY DEF PlaceOf
  <2> HIDE DEF at
  <2>3. CASE at = {}
    <3>1. chain = NoChain(key, ctx)
      BY <2>1, <2>3 DEF ChainAt
    <3>2. w = [chains |-> Append(v.chains, add_tcphost(NoChain(key, ctx), g).chain),
               errors |-> v.errors \cup add_tcphost(NoChain(key, ctx), g).errors]
      BY <2>3 DEF OnChain, at
    <3> QED
      BY <2>1, <2>3, <3>1, <3>2
  <2>4. CASE at # {}
    <3>1. chain = v.chains[PlaceOf(v, key)]
      BY <2>1, <2>4 DEF ChainAt
    <3>2. w = [chains |-> [v.chains EXCEPT ![PlaceOf(v, key)] = add_tcphost(v.chains[PlaceOf(v, key)], g).chain],
               errors |-> v.errors \cup add_tcphost(v.chains[PlaceOf(v, key)], g).errors]
      BY <2>2, <2>4 DEF OnChain, at
    <3> QED
      BY <2>1, <2>4, <3>1, <3>2
  <2> QED
    BY <2>3, <2>4
<1> HIDE DEF w, key, name
<1>3. /\ GoodChain(chain) /\ chain.key = key
      /\ chain.hosts = <<>> \/ TcpChain(chain)
      /\ ctx # 0 <=> chain.ctx # 0
  <2>1. CASE PlaceOf(v, key) \in DOMAIN v.chains
    <3>1. chain = v.chains[PlaceOf(v, key)] /\ chain.key = key
      BY <2>1, PlaceFacts DEF ChainAt
    <3>2. GoodChain(chain) /\ TcpChain(chain)
      BY <2>1, <3>1 DEF Separated
    <3>3. ctx # 0 <=> chain.ctx # 0
      BY <1>1, <3>1, <3>2 DEF GoodChain
    <3> QED
      BY <3>1, <3>2, <3>3
  <2>2. CASE PlaceOf(v, key) \notin DOMAIN v.chains
    <3>1. chain = NoChain(key, ctx)
      BY <2>2 DEF ChainAt
    <3> QED
      BY <1>1, <3>1, EmptyIsSeq DEF NoChain, GoodChain, HttpChain
  <2> QED
    BY <2>1, <2>2
<1> HIDE DEF chain
<1>4. GoodChain(add_tcphost(chain, g).chain) /\ add_tcphost(chain, g).chain.key = key
      /\ TcpChain(add_tcphost(chain, g).chain)
  <2>1. CASE chain.hosts # <<>>
    BY <1>3, <2>1 DEF add_tcphost
  <2>2. CASE chain.hosts = <<>>
    <3> DEFINE ch == [chain EXCEPT !.hosts = <<entry>>,
                                   !.server_names = IF chain.ctx # 0 THEN @ \cup {name} ELSE @]
    <3>1. add_tcphost(chain, g).chain = ch
      BY <2>2 DEF add_tcphost, name
    <3>2. DOMAIN chain = {"key", "ctx", "hosts", "server_names", "routes"}
      BY <1>3 DEF GoodChain
    <3>3. IsSeq(<<entry>>) /\ Range(<<entry>>) = {entry} /\ <<entry>> # <<>>
      BY SingletonIsSeq
    <3>4. entry.tcp
      OBVIOUS
    <3> HIDE DEF entry
    <3>5. /\ DOMAIN ch = {"key", "ctx", "hosts", "server_names", "routes"}
          /\ ch.hosts = <<entry>> /\ ch.ctx = chain.ctx /\ ch.key = chain.key
          /\ ch.server_names = IF chain.ctx # 0 THEN chain.server_names \cup {name} ELSE chain.server_names
      BY <3>2
    <3> HIDE DEF ch
    <3>6. TcpChain(ch)
      BY <3>3, <3>4, <3>5 DEF TcpChain
    <3>7. chain.ctx # 0 => chain.key[2] = name /\ chain.server_names \subseteq {name}
      BY <1>1, <1>3 DEF GoodChain
    <3>8. GoodChain(ch)
      BY <1>3, <3>3, <3>5, <3>6, <3>7 DEF GoodChain
    <3> QED
      BY <1>3, <3>1, <3>5, <3>6, <3>8
  <2> QED
    BY <2>1, <2>2
<1> DEFINE new == add_tcphost(chain, g).chain
<1> HIDE DEF new
<1>5. /\ Separated(w)
      /\ DOMAIN w.chains = DOMAIN v.chains \cup {PlaceOf(v, key)}
      /\ \A j \in DOMAIN v.chains : j # PlaceOf(v, key) => w.chains[j] = v.chains[j]
      /\ w.chains[PlaceOf(v, key)] = new
  <2>1. GoodChain(new) /\ new.key = key
    BY <1>4 DEF new
  <2>2. w.chains = WithChain(v, key, new)
    BY <1>2 DEF new, WithChain
  <2>3. DOMAIN w = {"chains", "errors"}
    BY <1>2
  <2> QED
    BY <2>1, <2>2, <2>3, PutChain
<1> QED
  BY <1>4, <1>5 DEF w, new

LEMMA TcpGroupAdded ==
  ASSUME NEW r, NEW v, Separated(v), NEW g, \A k \in DOMAIN v.chains : TcpChain(v.chains[k])
  PROVE  /\ Separated(add_tcpgroup(r, v, g))
         /\ \A k \in DOMAIN add_tcpgroup(r, v, g).chains : TcpChain(add_tcpgroup(r, v, g).chains[k])
<1> DEFINE ctx == tlscontext_for_tcpmapping(r, g)
           refused == [v EXCEPT !.errors = @ \cup {<<"TCPMapping", g.name>>}]
<1>1. \/ add_tcpgroup(r, v, g) = OnChain(r, v, "tcp", 0, g)
      \/ add_tcpgroup(r, v, g) = OnChain(r, v, "tcp", ctx, g)
      \/ add_tcpgroup(r, v, g) = refused
  BY DEF add_tcpgroup
<1>2. refused.chains = v.chains /\ DOMAIN refused = {"chains", "errors"}
  BY DEF Separated
<1> HIDE DEF refused, ctx
<1>3. Separated(refused)
  BY <1>2 DEF Separated
<1> QED
  BY <1>1, <1>2, <1>3, TcpOnChain

(* The TCP chains of a listener. *)
LEMMA TcpChainsSeparated ==
  ASSUME NEW r, NEW l
  PROVE  /\ Separated(compute_tcpchains(r, l))
         /\ \A k \in DOMAIN compute_tcpchains(r, l).chains : TcpChain(compute_tcpchains(r, l).chains[k])
<1> DEFINE ours == Filter(ordered_groups(r),
                          LAMBDA g : g.kind = "TCPMapping" /\ bind_to(l) = <<"tcp", g.port>>)
           v0 == [chains |-> <<>>, errors |-> {}]
<1>1. compute_tcpchains(r, l) = AddTcpGroups(r, v0, ours)
  BY DEF compute_tcpchains, AddTcpGroups
<1>2. Separated(v0) /\ \A k \in DOMAIN v0.chains : TcpChain(v0.chains[k])
  BY EmptyIsSeq DEF Separated
<1> HIDE DEF ours, v0
<1>3. PICK a : /\ a[0] = v0 /\ compute_tcpchains(r, l) = a[Len(ours)]
               /\ \A i \in 1 .. Len(ours) : a[i] = add_tcpgroup(r, a[i - 1], ours[i])
  BY <1>1, TcpLoop
<1> DEFINE T == {i \in 0 .. Len(ours) : Separated(a[i]) /\ \A k \in DOMAIN a[i].chains : TcpChain(a[i].chains[k])}
<1>4. Len(ours) \in Nat
  OBVIOUS
<1>5. 0 \in T
  BY <1>2, <1>3, <1>4
<1>6. ASSUME NEW i \in 0 .. Len(ours), i < Len(ours), i \in T PROVE i + 1 \in T
  <2>1. i + 1 \in 1 .. Len(ours) /\ (i + 1) - 1 = i /\ i + 1 \in 0 .. Len(ours)
    BY <1>4, <1>6
  <2>2. a[i + 1] = add_tcpgroup(r, a[i], ours[i + 1])
    BY <1>3, <2>1
  <2>3. Separated(a[i]) /\ \A k \in DOMAIN a[i].chains : TcpChain(a[i].chains[k])
    BY <1>6
  <2>4. Separated(a[i + 1]) /\ \A k \in DOMAIN a[i + 1].chains : TcpChain(a[i + 1].chains[k])
    BY <2>2, <2>3, TcpGroupAdded
  <2> QED
    BY <2>1, <2>4
<1>7. Len(ours) \in T
  <2> HIDE DEF T
  <2> QED
    BY <1>4, <1>5, <1>6, AtLast
<1> QED
  BY <1>3, <1>7

(* A Host's entry of a chain.  Where a Host is added, the entries of others  *)
(* stay where they are, and its own is there or an error about it is.        *)
HttpEntry(h) == [tcp |-> FALSE, hostname |-> h.hostname, of |-> h]

Keeps(v, w, h) ==
  /\ v.errors \subseteq w.errors
  /\ \A j \in DOMAIN v.chains :
       /\ j \in DOMAIN w.chains
       /\ TcpChain(v.chains[j]) => w.chains[j] = v.chains[j]
       /\ v.chains[j].ctx # 0 <=> w.chains[j].ctx # 0
       /\ \A x \in Range(v.chains[j].hosts) :
            x.hostname # h.hostname \/ x = HttpEntry(h) => x \in Range(w.chains[j].hosts)

Placed(w, tls, h) ==
  \/ <<"Host", h.name>> \in w.errors
  \/ \E k \in DOMAIN w.chains :
       (w.chains[k].ctx # 0) = tls /\ HttpEntry(h) \in Range(w.chains[k].hosts)

(* An entry in the place of another, or behind them all. *)
WithEntry(hosts, entry) ==
  LET at == {k \in DOMAIN hosts : hosts[k].hostname = entry.hostname}
  IN  IF at = {} THEN Append(hosts, entry)
      ELSE [hosts EXCEPT ![CHOOSE k \in at : TRUE] = entry]

LEMMA EntryFacts ==
  ASSUME NEW hosts, IsSeq(hosts), NEW entry, NEW new, new = WithEntry(hosts, entry)
  PROVE  /\ IsSeq(new) /\ entry \in Range(new) /\ new # <<>>
         /\ Range(new) \subseteq Range(hosts) \cup {entry}
         /\ \A x \in Range(hosts) : x.hostname # entry.hostname => x \in Range(new)
<1> DEFINE at == {k \in DOMAIN hosts : hosts[k].hostname = entry.hostname}
           j == CHOOSE k \in at : TRUE
<1>1. Len(hosts) \in Nat /\ DOMAIN hosts = 1 .. Len(hosts)
  BY IsSeqFacts
<1>2. CASE at = {}
  <2>1. new = Append(hosts, entry)
    BY <1>2 DEF WithEntry
  <2>2. IsSeq(new) /\ Range(new) = Range(hosts) \cup {entry} /\ Len(new) = Len(hosts) + 1
    BY <2>1, AppendFacts
  <2>3. new # <<>>
    BY <1>1, <2>2, EmptyIsSeq
  <2> QED
    BY <2>2, <2>3
<1>3. CASE at # {}
  <2>1. j \in DOMAIN hosts /\ hosts[j].hostname = entry.hostname
    BY <1>3
  <2>2. new = [hosts EXCEPT ![j] = entry]
    BY <1>3 DEF WithEntry
  <2> HIDE DEF j, at
  <2>3. /\ DOMAIN new = DOMAIN hosts /\ new[j] = entry
        /\ \A k \in DOMAIN hosts : k # j => new[k] = hosts[k]
        /\ new = [k \in 1 .. Len(hosts) |-> new[k]]
    BY <1>1, <2>1, <2>2
  <2>4. IsSeq(new) /\ Len(new) = Len(hosts)
    BY <1>1, <2>3, FunctionIsSeq
  <2>5. entry \in Range(new) /\ Range(new) \subseteq Range(hosts) \cup {entry}
    BY <2>1, <2>3 DEF Range
  <2>6. ASSUME NEW x \in Range(hosts), x.hostname # entry.hostname PROVE x \in Range(new)
    <3>1. PICK k \in DOMAIN hosts : hosts[k] = x
      BY DEF Range
    <3>2. k # j
      BY <2>1, <2>6, <3>1
    <3> QED
      BY <2>3, <3>1, <3>2 DEF Range
  <2>7. new # <<>>
    BY <2>5, EmptyIsSeq
  <2> QED
    BY <2>4, <2>5, <2>6, <2>7
<1> QED
  BY <1>2, <1>3

(* A Host is added to a chain, or it is refused and reported. *)
LEMMA HostAdded ==
  ASSUME NEW r, NEW chain, GoodChain(chain), NEW h,
         chain.ctx # 0 => chain.key = <<"tls", h.sni>>
  PROVE  /\ DOMAIN add_httphost(r, chain, h) = {"chain", "errors"}
         /\ GoodChain(add_httphost(r, chain, h).chain)
         /\ add_httphost(r, chain, h).chain.key = chain.key
         /\ add_httphost(r, chain, h).chain.ctx = chain.ctx
         /\ TcpChain(chain) => add_httphost(r, chain, h).chain = chain
         /\ \A x \in Range(chain.hosts) :
              x.hostname # h.hostname \/ x = HttpEntry(h)
                => x \in Range(add_httphost(r, chain, h).chain.hosts)
         /\ \/ <<"Host", h.name>> \in add_httphost(r, chain, h).errors
            \/ HttpEntry(h) \in Range(add_httphost(r, chain, h).chain.hosts)
<1> DEFINE done == add_httphost(r, chain, h)
           refused == [chain |-> chain, errors |-> {<<"Host", h.name>>}]
           at == {k \in DOMAIN chain.hosts : chain.hosts[k].hostname = h.hostname}
           entry == [tcp |-> FALSE, hostname |-> h.hostname, of |-> h]
           new == IF at = {} THEN Append(chain.hosts, entry)
                  ELSE [chain.hosts EXCEPT ![CHOOSE k \in at : TRUE] = entry]
           names == IF chain.ctx # 0 THEN chain.server_names \cup {h.sni} ELSE chain.server_names
           routes == Put(chain.routes, h.hostname, <<>>)
           made == [chain EXCEPT !.server_names = names, !.routes = routes, !.hosts = new]
<1>1. \/ done = refused
      \/ done = [chain |-> made, errors |-> {}] /\ ~\E x \in Range(chain.hosts) : x.tcp
  BY DEF add_httphost
<1>2. CASE done = refused
  BY <1>2
<1>3. CASE done = [chain |-> made, errors |-> {}] /\ ~\E x \in Range(chain.hosts) : x.tcp
  <2>1. IsSeq(chain.hosts) /\ DOMAIN chain = {"key", "ctx", "hosts", "server_names", "routes"}
    BY DEF GoodChain
  <2>2. entry.hostname = h.hostname /\ ~entry.tcp /\ entry = HttpEntry(h)
    BY DEF HttpEntry
  <2>3. new = WithEntry(chain.hosts, entry)
    BY DEF WithEntry
  <2> HIDE DEF entry, new, names, routes
  <2>4. /\ IsSeq(new) /\ entry \in Range(new) /\ new # <<>>
        /\ Range(new) \subseteq Range(chain.hosts) \cup {entry}
        /\ \A x \in Range(chain.hosts) : x.hostname # entry.hostname => x \in Range(new)
    BY <2>1, <2>3, EntryFacts
  <2>5. /\ DOMAIN made = {"key", "ctx", "hosts", "server_names", "routes"}
        /\ made.key = chain.key /\ made.ctx = chain.ctx /\ made.hosts = new
        /\ made.server_names = names
    BY <2>1
  <2> HIDE DEF made
  <2>6. HttpChain(made)
    BY <1>3, <2>2, <2>4, <2>5 DEF HttpChain
  <2>7. chain.ctx # 0 => chain.key[2] = h.sni /\ names = {h.sni}
    BY DEF GoodChain, names
  <2>8. GoodChain(made)
    BY <2>4, <2>5, <2>6, <2>7 DEF GoodChain
  <2>9. ~TcpChain(chain)
    <3>1. ASSUME TcpChain(chain) PROVE FALSE
      <4>1. Range(chain.hosts) # {}
        <5>1. Len(chain.hosts) \in Nat /\ DOMAIN chain.hosts = 1 .. Len(chain.hosts)
          BY <2>1, IsSeqFacts
        <5>2. Len(chain.hosts) # 0
          BY <2>1, <3>1, EmptySeq DEF TcpChain, IsSeq
        <5>3. 1 \in DOMAIN chain.hosts
          BY <5>1, <5>2
        <5> QED
          BY <5>3 DEF Range
      <4> QED
        BY <1>3, <3>1, <4>1 DEF TcpChain
    <3> QED
      BY <3>1
  <2>10. done.chain = made /\ DOMAIN done = {"chain", "errors"}
    BY <1>3
  <2> HIDE DEF done
  <2>11. /\ GoodChain(done.chain) /\ done.chain.key = chain.key /\ done.chain.ctx = chain.ctx
         /\ HttpEntry(h) \in Range(done.chain.hosts)
         /\ \A x \in Range(chain.hosts) :
              x.hostname # h.hostname \/ x = HttpEntry(h) => x \in Range(done.chain.hosts)
    BY <2>2, <2>4, <2>5, <2>8, <2>10
  <2> QED
    BY <2>9, <2>10, <2>11 DEF done
<1> QED
  BY <1>1, <1>2, <1>3

(* A Host finds its chain, or makes it. *)
Finds(r, v, ctx, h, key, chain, w) ==
  /\ DOMAIN w = {"chains", "errors"}
  /\ w.chains = WithChain(v, key, add_httphost(r, chain, h).chain)
  /\ w.errors = v.errors \cup add_httphost(r, chain, h).errors
  /\ GoodChain(chain) /\ chain.key = key /\ (ctx # 0 <=> chain.ctx # 0)
  /\ chain.ctx # 0 => chain.key = <<"tls", h.sni>>
  /\ PlaceOf(v, key) \in DOMAIN v.chains => chain = v.chains[PlaceOf(v, key)]
  /\ PlaceOf(v, key) \notin DOMAIN v.chains => chain = NoChain(key, ctx)

ChainKey(type, ctx, h) == chain_key(type, ctx, h.hostname, h.sni)

LEMMA ChainFound ==
  ASSUME NEW r, NEW v, Separated(v), NEW type, NEW ctx, NEW h,
         (type = "https" /\ ctx # 0) \/ (type = "http" /\ ctx = 0)
  PROVE  Finds(r, v, ctx, h, ChainKey(type, ctx, h), ChainAt(v, ChainKey(type, ctx, h), ctx),
               OnChain(r, v, type, ctx, h))
<1> DEFINE key == chain_key(type, ctx, h.hostname, h.sni)
           chain == ChainAt(v, key, ctx)
           w == OnChain(r, v, type, ctx, h)
           k == PlaceOf(v, key)
<1>1. key = IF ctx # 0 THEN <<"tls", h.sni>> ELSE <<"cleartext", h.hostname>>
  BY DEF chain_key
<1>2. /\ DOMAIN w = {"chains", "errors"}
      /\ w.chains = WithChain(v, key, add_httphost(r, chain, h).chain)
      /\ w.errors = v.errors \cup add_httphost(r, chain, h).errors
  <2> DEFINE at == {j \in DOMAIN v.chains : v.chains[j].key = key}
  <2>1. k \in DOMAIN v.chains <=> at # {}
    BY PlaceFacts
  <2>2. k = IF at = {} THEN Len(v.chains) + 1 ELSE CHOOSE j \in at : TRUE
    BY DEF PlaceOf
  <2>3. type # "tcp"
    OBVIOUS
  <2> HIDE DEF at
  <2>4. CASE at = {}
    <3>1. chain = NoChain(key, ctx)
      BY <2>1, <2>4 DEF ChainAt
    <3>2. w = [chains |-> Append(v.chains, add_httphost(r, NoChain(key, ctx), h).chain),
               errors |-> v.errors \cup add_httphost(r, NoChain(key, ctx), h).errors]
      BY <2>3, <2>4 DEF OnChain, at
    <3> QED
      BY <2>1, <2>4, <3>1, <3>2 DEF WithChain
  <2>5. CASE at # {}
    <3>1. chain = v.chains[k]
      BY <2>1, <2>5 DEF ChainAt
    <3>2. w = [chains |-> [v.chains EXCEPT ![k] = add_httphost(r, v.chains[k], h).chain],
               errors |-> v.errors \cup add_httphost(r, v.chains[k], h).errors]
      BY <2>2, <2>3, <2>5 DEF OnChain, at
    <3> QED
      BY <2>1, <2>5, <3>1, <3>2 DEF WithChain
  <2> QED
    BY <2>4, <2>5
<1> HIDE DEF w, key
<1>3. CASE k \in DOMAIN v.chains
  <2>1. chain = v.chains[k] /\ chain.key = key
    BY <1>3, PlaceFacts DEF ChainAt
  <2>2. GoodChain(chain)
    BY <1>3, <2>1 DEF Separated
  <2>3. ctx # 0 <=> chain.ctx # 0
    BY <1>1, <2>1, <2>2 DEF GoodChain
  <2>4. chain.ctx # 0 => chain.key = <<"tls", h.sni>>
    BY <1>1, <2>1, <2>3
  <2> HIDE DEF chain
  <2>5. Finds(r, v, ctx, h, key, chain, w)
    BY <1>2, <1>3, <2>1, <2>2, <2>3, <2>4 DEF Finds
  <2> QED
    BY <2>5 DEF chain, key, w, ChainKey
<1>4. CASE k \notin DOMAIN v.chains
  <2>1. chain = NoChain(key, ctx)
    BY <1>4 DEF ChainAt
  <2> HIDE DEF k, chain
  <2>2. GoodChain(chain) /\ chain.key = key /\ (ctx # 0 <=> chain.ctx # 0)
    <3>1. /\ DOMAIN chain = {"key", "ctx", "hosts", "server_names", "routes"} /\ chain.key = key
          /\ chain.ctx = ctx /\ chain.hosts = <<>> /\ chain.server_names = {}
      BY <2>1 DEF NoChain
    <3> QED
      BY <1>1, <3>1, EmptyIsSeq DEF GoodChain, HttpChain
  <2>3. chain.ctx # 0 => chain.key = <<"tls", h.sni>>
    BY <1>1, <2>2
  <2>4. Finds(r, v, ctx, h, key, chain, w)
    BY <1>2, <1>4, <2>1, <2>2, <2>3 DEF Finds, k
  <2> QED
    BY <2>4 DEF chain, key, w, ChainKey
<1> QED
  BY <1>3, <1>4

LEMMA HttpOnChain ==
  ASSUME NEW r, NEW v, Separated(v), NEW type, NEW ctx, NEW h,
         (type = "https" /\ ctx # 0) \/ (type = "http" /\ ctx = 0)
  PROVE  /\ Separated(OnChain(r, v, type, ctx, h))
         /\ Keeps(v, OnChain(r, v, type, ctx, h), h)
         /\ Placed(OnChain(r, v, type, ctx, h), ctx # 0, h)
<1> DEFINE key == ChainKey(type, ctx, h)
           chain == ChainAt(v, key, ctx)
           w == OnChain(r, v, type, ctx, h)
           k == PlaceOf(v, key)
<1>1. Finds(r, v, ctx, h, key, chain, w)
  BY ChainFound
<1> HIDE DEF w, key
<1> DEFINE done == add_httphost(r, chain, h)
           new == done.chain
<1> HIDE DEF chain, k
<1>5. /\ GoodChain(new) /\ new.key = key /\ new.ctx = chain.ctx
      /\ TcpChain(chain) => new = chain
      /\ \A x \in Range(chain.hosts) :
           x.hostname # h.hostname \/ x = HttpEntry(h) => x \in Range(new.hosts)
      /\ <<"Host", h.name>> \in done.errors \/ HttpEntry(h) \in Range(new.hosts)
  BY <1>1, HostAdded DEF Finds
<1>6. w.chains = WithChain(v, key, new) /\ w.errors = v.errors \cup done.errors
  BY <1>1 DEF Finds
<1> HIDE DEF new, done
<1>7. /\ Separated(w)
      /\ DOMAIN w.chains = DOMAIN v.chains \cup {k}
      /\ \A j \in DOMAIN v.chains : j # k => w.chains[j] = v.chains[j]
      /\ w.chains[k] = new
  <2>1. DOMAIN w = {"chains", "errors"} /\ w.chains = WithChain(v, key, new)
    BY <1>1, <1>6 DEF Finds
  <2>2. GoodChain(new) /\ new.key = key
    BY <1>5
  <2> QED
    BY <2>1, <2>2, PutChain DEF k
<1>8. Keeps(v, w, h)
  <2>1. v.errors \subseteq w.errors
    BY <1>6
  <2>2. ASSUME NEW j \in DOMAIN v.chains
        PROVE  /\ j \in DOMAIN w.chains
               /\ TcpChain(v.chains[j]) => w.chains[j] = v.chains[j]
               /\ v.chains[j].ctx # 0 <=> w.chains[j].ctx # 0
               /\ \A x \in Range(v.chains[j].hosts) :
                    x.hostname # h.hostname \/ x = HttpEntry(h) => x \in Range(w.chains[j].hosts)
    <3>1. CASE j = k
      <4>1. chain = v.chains[j] /\ w.chains[j] = new
        BY <1>1, <1>7, <3>1 DEF Finds, k
      <4> QED
        BY <1>5, <1>7, <4>1
    <3>2. CASE j # k
      BY <1>7, <3>2
    <3> QED
      BY <3>1, <3>2
  <2> QED
    BY <2>1, <2>2 DEF Keeps
<1>9. Placed(w, ctx # 0, h)
  <2>1. CASE <<"Host", h.name>> \in done.errors
    BY <1>6, <2>1 DEF Placed
  <2>2. CASE HttpEntry(h) \in Range(new.hosts)
    <3>1. k \in DOMAIN w.chains /\ HttpEntry(h) \in Range(w.chains[k].hosts)
      BY <1>7, <2>2
    <3>2. (w.chains[k].ctx # 0) = (ctx # 0)
      BY <1>1, <1>5, <1>7 DEF Finds
    <3> QED
      BY <3>1, <3>2 DEF Placed
  <2> QED
    BY <1>5, <2>1, <2>2
<1> QED
  BY <1>7, <1>8, <1>9 DEF w

LEMMA KeepsTwice ==
  ASSUME NEW v, NEW u, NEW w, NEW h, Keeps(v, u, h), Keeps(u, w, h)
  PROVE  Keeps(v, w, h)
<1>1. v.errors \subseteq w.errors
  BY DEF Keeps
<1>2. ASSUME NEW j \in DOMAIN v.chains
      PROVE  /\ j \in DOMAIN w.chains
             /\ TcpChain(v.chains[j]) => w.chains[j] = v.chains[j]
             /\ v.chains[j].ctx # 0 <=> w.chains[j].ctx # 0
             /\ \A x \in Range(v.chains[j].hosts) :
                  x.hostname # h.hostname \/ x = HttpEntry(h) => x \in Range(w.chains[j].hosts)
  <2>1. /\ j \in DOMAIN u.chains
        /\ TcpChain(v.chains[j]) => u.chains[j] = v.chains[j]
        /\ v.chains[j].ctx # 0 <=> u.chains[j].ctx # 0
        /\ \A x \in Range(v.chains[j].hosts) :
             x.hostname # h.hostname \/ x = HttpEntry(h) => x \in Range(u.chains[j].hosts)
    BY DEF Keeps
  <2>2. /\ j \in DOMAIN w.chains
        /\ TcpChain(u.chains[j]) => w.chains[j] = u.chains[j]
        /\ u.chains[j].ctx # 0 <=> w.chains[j].ctx # 0
        /\ \A x \in Range(u.chains[j].hosts) :
             x.hostname # h.hostname \/ x = HttpEntry(h) => x \in Range(w.chains[j].hosts)
    BY <2>1 DEF Keeps
  <2> QED
    BY <2>1, <2>2
<1> QED
  BY <1>1, <1>2 DEF Keeps

(* A Host that is on a chain stays there when another is added, unless the   *)
(* other has its hostname.                                                   *)
LEMMA PlacedStays ==
  ASSUME NEW v, NEW w, NEW h, NEW o, NEW tls, Keeps(v, w, o), Placed(v, tls, h),
         h.hostname # o.hostname \/ h = o
  PROVE  Placed(w, tls, h)
<1>1. CASE <<"Host", h.name>> \in v.errors
  BY <1>1 DEF Placed, Keeps
<1>2. CASE <<"Host", h.name>> \notin v.errors
  <2>1. PICK k \in DOMAIN v.chains :
          (v.chains[k].ctx # 0) = tls /\ HttpEntry(h) \in Range(v.chains[k].hosts)
    BY <1>2 DEF Placed
  <2>2. HttpEntry(h).hostname = h.hostname
    BY DEF HttpEntry
  <2>3. k \in DOMAIN w.chains /\ HttpEntry(h) \in Range(w.chains[k].hosts)
    BY <2>1, <2>2 DEF Keeps
  <2>4. (w.chains[k].ctx # 0) = tls
    BY <2>1 DEF Keeps
  <2> QED
    BY <2>3, <2>4 DEF Placed
<1> QED
  BY <1>1, <1>2

LEMMA HostOnListener ==
  ASSUME NEW r, NEW l, NEW v, Separated(v), NEW h
  PROVE  /\ Separated(add_host(r, l, v, h))
         /\ Keeps(v, add_host(r, l, v, h), h)
         /\ "TLS" \in Range(l.protocolStack) /\ has_context(r, h)
              => Placed(add_host(r, l, v, h), TRUE, h)
         /\ ~(l.securityModel = "INSECURE" /\ h.insecure = "Reject")
              => Placed(add_host(r, l, v, h), FALSE, h)
<1> DEFINE speaks == "TLS" \in Range(l.protocolStack) /\ has_context(r, h)
           deaf == l.securityModel = "INSECURE" /\ h.insecure = "Reject"
           secured == IF speaks THEN OnChain(r, v, "https", h.context, h) ELSE v
           w == add_host(r, l, v, h)
<1>1. w = IF deaf THEN secured ELSE OnChain(r, secured, "http", 0, h)
  BY DEF add_host
<1>2. /\ Separated(secured) /\ Keeps(v, secured, h)
      /\ speaks => Placed(secured, TRUE, h)
  <2>1. CASE speaks
    <3>1. h.context # 0
      BY <2>1 DEF has_context
    <3>2. secured = OnChain(r, v, "https", h.context, h)
      BY <2>1
    <3> HIDE DEF secured, speaks
    <3>3. Separated(secured) /\ Keeps(v, secured, h) /\ Placed(secured, h.context # 0, h)
      BY <3>1, <3>2, HttpOnChain
    <3>4. Placed(secured, TRUE, h)
      BY <3>1, <3>3 DEF Placed
    <3> QED
      BY <3>3, <3>4
  <2>2. CASE ~speaks
    <3>1. secured = v
      BY <2>2
    <3>2. Keeps(v, v, h)
      BY DEF Keeps
    <3> HIDE DEF secured, speaks
    <3> QED
      BY <2>2, <3>1, <3>2
  <2> QED
    BY <2>1, <2>2
<1> HIDE DEF secured, speaks, w, deaf
<1>3. CASE deaf
  BY <1>1, <1>2, <1>3 DEF w, speaks, deaf
<1>4. CASE ~deaf
  <2>1. w = OnChain(r, secured, "http", 0, h)
    BY <1>1, <1>4
  <2>2. Separated(w) /\ Keeps(secured, w, h) /\ Placed(w, FALSE, h)
    <3>1. (0 # 0) = FALSE
      OBVIOUS
    <3> QED
      BY <1>2, <2>1, <3>1, HttpOnChain
  <2>3. Keeps(v, w, h)
    BY <1>2, <2>2, KeepsTwice
  <2>4. speaks => Placed(w, TRUE, h)
    BY <1>2, <2>2, PlacedStays
  <2> QED
    BY <2>2, <2>3, <2>4 DEF w, speaks, deaf
<1> QED
  BY <1>3, <1>4

(* The chains of a listener, with those of TCP groups before the others. *)
LEMMA HttpChainsSeparated ==
  ASSUME NEW c, NEW r, NEW l, NEW v0, Separated(v0),
         \A k \in DOMAIN v0.chains : TcpChain(v0.chains[k])
  PROVE  /\ Separated(compute_httpchains(c, r, l, v0))
         /\ \A k \in DOMAIN v0.chains :
              /\ k \in DOMAIN compute_httpchains(c, r, l, v0).chains
              /\ compute_httpchains(c, r, l, v0).chains[k] = v0.chains[k]
<1> DEFINE ours == Filter(sorted_hosts(r), LAMBDA h : matches_host(c, l, h))
<1>1. compute_httpchains(c, r, l, v0) = AddHosts(r, l, v0, ours)
  BY DEF compute_httpchains, AddHosts
<1> HIDE DEF ours
<1>2. PICK a : /\ a[0] = v0 /\ compute_httpchains(c, r, l, v0) = a[Len(ours)]
               /\ \A i \in 1 .. Len(ours) : a[i] = add_host(r, l, a[i - 1], ours[i])
  BY <1>1, HttpLoop
<1> DEFINE Good(v) == /\ Separated(v)
                      /\ \A k \in DOMAIN v0.chains : k \in DOMAIN v.chains /\ v.chains[k] = v0.chains[k]
           T == {i \in 0 .. Len(ours) : Good(a[i])}
<1>3. Len(ours) \in Nat
  OBVIOUS
<1>4. 0 \in T
  BY <1>2, <1>3
<1>5. ASSUME NEW i \in 0 .. Len(ours), i < Len(ours), i \in T PROVE i + 1 \in T
  <2>1. i + 1 \in 1 .. Len(ours) /\ (i + 1) - 1 = i /\ i + 1 \in 0 .. Len(ours)
    BY <1>3, <1>5
  <2>2. a[i + 1] = add_host(r, l, a[i], ours[i + 1])
    BY <1>2, <2>1
  <2>3. Good(a[i])
    BY <1>5
  <2>4. Separated(a[i + 1]) /\ Keeps(a[i], a[i + 1], ours[i + 1])
    BY <2>2, <2>3, HostOnListener
  <2>5. Good(a[i + 1])
    BY <2>3, <2>4 DEF Keeps
  <2> HIDE DEF Good
  <2> QED
    BY <2>1, <2>5
<1>6. Len(ours) \in T
  <2> HIDE DEF T
  <2> QED
    BY <1>3, <1>4, <1>5, AtLast
<1> QED
  BY <1>2, <1>6

-----------------------------------------------------------------------------
(* The filter chains of a listener. *)

(* A filter chain that terminates TLS for a chain. *)
Secures(fc, ch) ==
  /\ ch.ctx # 0 /\ ch.hosts # <<>>
  /\ fc.server_names = IF Star \in ch.server_names THEN {} ELSE ch.server_names

(* What can be told apart: see ChainsDistinct. *)
Apart(fcs) ==
  \A i, j \in DOMAIN fcs :
    i < j => \/ fcs[i].tls # fcs[j].tls
             \/ /\ fcs[i].tls /\ fcs[i].server_names \cap fcs[j].server_names = {}
                /\ fcs[i].server_names # fcs[j].server_names
             \/ ~fcs[i].tls /\ \E k \in DOMAIN fcs : ~fcs[k].tls /\ ~fcs[k].http

LEMMA SecuresApart ==
  ASSUME NEW c1, NEW c2, GoodChain(c1), GoodChain(c2), c1.key # c2.key,
         NEW f1, NEW f2, Secures(f1, c1), Secures(f2, c2)
  PROVE  f1.server_names \cap f2.server_names = {} /\ f1.server_names # f2.server_names
<1>1. /\ c1.key = <<"tls", c1.key[2]>> /\ c2.key = <<"tls", c2.key[2]>>
      /\ c1.server_names = {c1.key[2]} /\ c2.server_names = {c2.key[2]}
  BY DEF GoodChain, Secures
<1>2. c1.key[2] # c2.key[2]
  BY <1>1
<1>3. /\ f1.server_names = IF c1.key[2] = Star THEN {} ELSE {c1.key[2]}
      /\ f2.server_names = IF c2.key[2] = Star THEN {} ELSE {c2.key[2]}
  BY <1>1 DEF Secures
<1> QED
  BY <1>2, <1>3

LEMMA TcpFilterChains ==
  ASSUME NEW r, NEW chains, IsSeq(chains), \A k \in DOMAIN chains : TcpChain(chains[k])
  PROVE  /\ IsSeq(finalize_tcp(r, chains))
         /\ \E p \in [DOMAIN finalize_tcp(r, chains) -> DOMAIN chains] :
              /\ \A i, j \in DOMAIN finalize_tcp(r, chains) : i < j => p[i] < p[j]
              /\ \A i \in DOMAIN finalize_tcp(r, chains) :
                   /\ ~finalize_tcp(r, chains)[i].http
                   /\ finalize_tcp(r, chains)[i].tls => Secures(finalize_tcp(r, chains)[i], chains[p[i]])
<1> DEFINE ks == {k \in DOMAIN chains : \E h \in Range(chains[k].hosts) : h.tcp}
           tcp == Keep(chains, ks)
           fcs == finalize_tcp(r, chains)
           clusters(g) == [i \in DOMAIN g.mappings |->
                             [name |-> envoy_name(r, g.mappings[i].cluster),
                              mapping |-> g.mappings[i].name,
                              weight |-> g.mappings[i].cumulative]]
<1>1. fcs = [k \in DOMAIN tcp |->
               [FilterChain(r, tcp[k], FALSE) EXCEPT !.clusters = clusters(tcp[k].hosts[1].of)]]
  BY DEF finalize_tcp, Filter
<1>2. Len(chains) \in Nat /\ ks \in SUBSET (1 .. Len(chains)) /\ DOMAIN chains = 1 .. Len(chains)
  BY IsSeqFacts
<1> HIDE DEF ks, fcs, clusters
<1>3. /\ IsSeq(tcp)
      /\ \E p \in [DOMAIN tcp -> ks] :
           /\ \A a \in DOMAIN tcp : tcp[a] = chains[p[a]]
           /\ \A a, b \in DOMAIN tcp : a < b => p[a] < p[b]
  BY <1>2, KeepFacts
<1> HIDE DEF tcp
<1>4. PICK p \in [DOMAIN tcp -> ks] :
        /\ \A a \in DOMAIN tcp : tcp[a] = chains[p[a]]
        /\ \A a, b \in DOMAIN tcp : a < b => p[a] < p[b]
  BY <1>3
<1>5. DOMAIN tcp = 1 .. Len(tcp) /\ Len(tcp) \in Nat /\ DOMAIN fcs = DOMAIN tcp
  BY <1>1, <1>3, IsSeqFacts
<1>6. ASSUME NEW i \in DOMAIN fcs
      PROVE  ~fcs[i].http /\ (fcs[i].tls => Secures(fcs[i], chains[p[i]]))
  <2>1. fcs[i] = [FilterChain(r, tcp[i], FALSE) EXCEPT !.clusters = clusters(tcp[i].hosts[1].of)]
    BY <1>1, <1>5
  <2>2. /\ fcs[i].tls = (tcp[i].ctx # 0) /\ fcs[i].http = FALSE
        /\ fcs[i].server_names = IF Star \in tcp[i].server_names THEN {} ELSE tcp[i].server_names
    BY <2>1 DEF FilterChain
  <2>3. tcp[i] = chains[p[i]] /\ p[i] \in DOMAIN chains
    BY <1>2, <1>4, <1>5
  <2>4. tcp[i].hosts # <<>>
    BY <2>3 DEF TcpChain
  <2> QED
    BY <2>2, <2>3, <2>4 DEF Secures
<1>7. IsSeq(fcs)
  <2>1. fcs = [k \in 1 .. Len(tcp) |-> fcs[k]]
    BY <1>1, <1>5
  <2> QED
    BY <1>5, <2>1, FunctionIsSeq
<1>8. p \in [DOMAIN fcs -> DOMAIN chains]
  BY <1>2, <1>4, <1>5
<1> QED
  BY <1>4, <1>5, <1>6, <1>7, <1>8 DEF fcs

LEMMA HttpFilterChains ==
  ASSUME NEW r, NEW l, NEW chains, IsSeq(chains)
  PROVE  /\ IsSeq(finalize_http(r, l, chains))
         /\ \E q \in [DOMAIN finalize_http(r, l, chains) -> DOMAIN chains \cup {0}] :
              /\ \A i \in DOMAIN finalize_http(r, l, chains) :
                   /\ finalize_http(r, l, chains)[i].tls =>
                        /\ q[i] \in DOMAIN chains /\ ~chains[q[i]].hosts[1].tcp
                        /\ Secures(finalize_http(r, l, chains)[i], chains[q[i]])
                   /\ ~finalize_http(r, l, chains)[i].tls => i = Len(finalize_http(r, l, chains))
              /\ \A i, j \in DOMAIN finalize_http(r, l, chains) :
                   /\ i < j /\ finalize_http(r, l, chains)[i].tls /\ finalize_http(r, l, chains)[j].tls
                   => q[i] < q[j]
<1> DEFINE ks == {k \in DOMAIN chains : chains[k].hosts # <<>> /\ ~chains[k].hosts[1].tcp}
           http == Keep(chains, ks)
           js == {k \in DOMAIN http : http[k].ctx # 0}
           tls == Keep(http, js)
           clear == Keep(http, {k \in DOMAIN http : http[k].ctx = 0})
           secured == [k \in DOMAIN tls |->
                         [FilterChain(r, tls[k], TRUE) EXCEPT !.vhosts = VHosts(tls[k])]]
           names == FlattenSeq([k \in DOMAIN clear |->
                      [j \in DOMAIN clear[k].hosts |-> clear[k].hosts[j].of.name]])
           vhosts == FlattenSeq([k \in DOMAIN clear |-> VHosts(clear[k])])
           shared == [FilterChain(r, NoChain(<<>>, 0), TRUE) EXCEPT !.hosts = names, !.vhosts = vhosts]
           rest == IF clear = <<>> \/ l.udp THEN <<>> ELSE <<shared>>
           fcs == finalize_http(r, l, chains)
<1>1. fcs = secured \o rest
  BY DEF finalize_http, Filter
<1>2. Len(chains) \in Nat /\ ks \in SUBSET (1 .. Len(chains)) /\ DOMAIN chains = 1 .. Len(chains)
  BY IsSeqFacts
<1>3. shared.tls = FALSE
  BY DEF FilterChain, NoChain
<1> HIDE DEF fcs, shared, clear
<1>4. \A k \in ks : k \in DOMAIN chains /\ chains[k].hosts # <<>> /\ ~chains[k].hosts[1].tcp
  OBVIOUS
<1> HIDE DEF ks
<1>5. /\ IsSeq(http)
      /\ \E p \in [DOMAIN http -> ks] :
           /\ \A a \in DOMAIN http : http[a] = chains[p[a]]
           /\ \A a, b \in DOMAIN http : a < b => p[a] < p[b]
  BY <1>2, KeepFacts
<1> HIDE DEF http
<1>6. PICK p \in [DOMAIN http -> ks] :
        /\ \A a \in DOMAIN http : http[a] = chains[p[a]]
        /\ \A a, b \in DOMAIN http : a < b => p[a] < p[b]
  BY <1>5
<1>7. Len(http) \in Nat /\ js \in SUBSET (1 .. Len(http)) /\ DOMAIN http = 1 .. Len(http)
  BY <1>5, IsSeqFacts
<1>8. \A k \in js : k \in DOMAIN http /\ http[k].ctx # 0
  OBVIOUS
<1> HIDE DEF js
<1>9. /\ IsSeq(tls)
      /\ \E s \in [DOMAIN tls -> js] :
           /\ \A a \in DOMAIN tls : tls[a] = http[s[a]]
           /\ \A a, b \in DOMAIN tls : a < b => s[a] < s[b]
  BY <1>7, KeepFacts
<1> HIDE DEF tls
<1>10. PICK s \in [DOMAIN tls -> js] :
         /\ \A a \in DOMAIN tls : tls[a] = http[s[a]]
         /\ \A a, b \in DOMAIN tls : a < b => s[a] < s[b]
  BY <1>9
<1>11. DOMAIN tls = 1 .. Len(tls) /\ Len(tls) \in Nat
  BY <1>9, IsSeqFacts
<1>12. /\ IsSeq(secured) /\ Len(secured) = Len(tls) /\ DOMAIN secured = 1 .. Len(tls)
  <2>1. secured = [k \in 1 .. Len(tls) |-> secured[k]]
    BY <1>11
  <2> HIDE DEF secured
  <2> QED
    BY <1>11, <2>1, FunctionIsSeq
<1>13. ASSUME NEW i \in 1 .. Len(tls)
       PROVE  /\ secured[i].tls /\ s[i] \in DOMAIN http /\ p[s[i]] \in ks
              /\ Secures(secured[i], chains[p[s[i]]])
  <2>1. secured[i] = [FilterChain(r, tls[i], TRUE) EXCEPT !.vhosts = VHosts(tls[i])]
    BY <1>11
  <2>2. s[i] \in DOMAIN http /\ p[s[i]] \in ks /\ tls[i] = chains[p[s[i]]] /\ tls[i].ctx # 0
    BY <1>6, <1>8, <1>10, <1>11
  <2> HIDE DEF secured
  <2>3. /\ secured[i].tls = (tls[i].ctx # 0)
        /\ secured[i].server_names = IF Star \in tls[i].server_names THEN {} ELSE tls[i].server_names
    BY <2>1 DEF FilterChain
  <2>4. tls[i].hosts # <<>>
    BY <1>4, <2>2
  <2> QED
    BY <2>2, <2>3, <2>4 DEF Secures
<1> HIDE DEF secured
<1>14. IsSeq(rest) /\ Len(rest) \in {0, 1} /\ \A x \in Range(rest) : x.tls = FALSE
  <2>1. IsSeq(<<>>) /\ Len(<<>>) = 0 /\ Range(<<>>) = {}
    BY EmptyIsSeq
  <2>2. IsSeq(<<shared>>) /\ Len(<<shared>>) = 1 /\ Range(<<shared>>) = {shared}
    BY SingletonIsSeq
  <2> QED
    BY <1>3, <2>1, <2>2
<1> HIDE DEF rest
<1>15. /\ IsSeq(fcs) /\ Len(fcs) = Len(tls) + Len(rest) /\ DOMAIN fcs = 1 .. Len(tls) + Len(rest)
       /\ \A i \in 1 .. Len(tls) + Len(rest) :
            fcs[i] = IF i <= Len(tls) THEN secured[i] ELSE rest[i - Len(tls)]
       /\ DOMAIN rest = 1 .. Len(rest)
  <2>1. IsSeq(secured) /\ IsSeq(rest)
    BY <1>12, <1>14
  <2>2. Joins(fcs, secured, rest)
    BY <1>1, <2>1, Concatenated, Zenon
  <2> QED
    BY <1>12, <2>2 DEF Joins
<1> DEFINE q == [i \in DOMAIN fcs |-> IF i <= Len(tls) THEN p[s[i]] ELSE 0]
<1>16. q \in [DOMAIN fcs -> DOMAIN chains \cup {0}] /\ \A i \in 1 .. Len(tls) : q[i] = p[s[i]]
  BY <1>4, <1>11, <1>13, <1>14, <1>15
<1>17. ASSUME NEW i \in DOMAIN fcs
       PROVE  /\ fcs[i].tls => /\ i \in 1 .. Len(tls) /\ q[i] \in DOMAIN chains
                               /\ ~chains[q[i]].hosts[1].tcp /\ Secures(fcs[i], chains[q[i]])
              /\ ~fcs[i].tls => i = Len(fcs)
  <2>1. CASE i <= Len(tls)
    <3>1. i \in 1 .. Len(tls) /\ fcs[i] = secured[i] /\ q[i] = p[s[i]]
      BY <1>11, <1>14, <1>15, <1>16, <2>1
    <3> HIDE DEF q
    <3> QED
      BY <1>4, <1>13, <3>1
  <2>2. CASE ~(i <= Len(tls))
    <3>1. i = Len(fcs) /\ i - Len(tls) \in DOMAIN rest /\ fcs[i] = rest[i - Len(tls)]
      BY <1>11, <1>14, <1>15, <2>2
    <3>2. fcs[i].tls = FALSE
      BY <1>14, <3>1 DEF Range
    <3> QED
      BY <3>1, <3>2
  <2> QED
    BY <2>1, <2>2
<1>18. \A i, j \in 1 .. Len(tls) : i < j => q[i] < q[j]
  BY <1>6, <1>10, <1>11, <1>13, <1>16
<1> HIDE DEF q
<1> QED
  BY <1>15, <1>16, <1>17, <1>18 DEF fcs

(* The chains that V3Listener.finalize makes filter chains of. *)
AllChains(c, r, l) ==
  IF "HTTP" \in Range(l.protocolStack) THEN compute_httpchains(c, r, l, compute_tcpchains(r, l))
  ELSE compute_tcpchains(r, l)

Routed(c, r, l, routes) ==
  [k \in DOMAIN AllChains(c, r, l).chains |->
     compute_http_routes(c, l, routes, AllChains(c, r, l).chains[k])]

FilterChains(c, r, l, routes) ==
  finalize_tcp(r, compute_tcpchains(r, l).chains)
    \o IF "HTTP" \in Range(l.protocolStack) THEN finalize_http(r, l, Routed(c, r, l, routes)) ELSE <<>>

LEMMA ListenerIs ==
  ASSUME NEW c, NEW r, NEW l, NEW routes
  PROVE  finalize_listener(c, r, l, routes)
           = [errors |-> AllChains(c, r, l).errors
                           \cup IF FilterChains(c, r, l, routes) = <<>> THEN {<<"Listener", l.name>>} ELSE {},
              listener |-> [NewListener(r, l) EXCEPT !.filter_chains = FilterChains(c, r, l, routes)]]
BY DEF finalize_listener, FilterChains, Routed, AllChains

LEMMA AllChainsSeparated ==
  ASSUME NEW c, NEW r, NEW l
  PROVE  /\ Separated(AllChains(c, r, l))
         /\ \A k \in DOMAIN compute_tcpchains(r, l).chains :
              /\ k \in DOMAIN AllChains(c, r, l).chains
              /\ AllChains(c, r, l).chains[k] = compute_tcpchains(r, l).chains[k]
BY TcpChainsSeparated, HttpChainsSeparated DEF AllChains

(* Routes change nothing else of a chain. *)
LEMMA RoutedFacts ==
  ASSUME NEW c, NEW r, NEW l, NEW routes
  PROVE  /\ IsSeq(Routed(c, r, l, routes))
         /\ DOMAIN Routed(c, r, l, routes) = DOMAIN AllChains(c, r, l).chains
         /\ \A k \in DOMAIN AllChains(c, r, l).chains :
              /\ Routed(c, r, l, routes)[k].ctx = AllChains(c, r, l).chains[k].ctx
              /\ Routed(c, r, l, routes)[k].hosts = AllChains(c, r, l).chains[k].hosts
              /\ Routed(c, r, l, routes)[k].server_names = AllChains(c, r, l).chains[k].server_names
<1> DEFINE chains == AllChains(c, r, l).chains
           routed == Routed(c, r, l, routes)
<1>1. IsSeq(chains) /\ \A k \in DOMAIN chains : GoodChain(chains[k])
  BY AllChainsSeparated DEF Separated
<1>2. routed = [k \in DOMAIN chains |-> compute_http_routes(c, l, routes, chains[k])]
  BY DEF Routed
<1> HIDE DEF chains, routed
<1>3. DOMAIN chains = 1 .. Len(chains) /\ Len(chains) \in Nat
  BY <1>1, IsSeqFacts
<1>4. IsSeq(routed) /\ DOMAIN routed = DOMAIN chains
  <2>1. routed = [k \in 1 .. Len(chains) |-> routed[k]]
    BY <1>2, <1>3
  <2> QED
    BY <1>3, <2>1, FunctionIsSeq
<1>5. ASSUME NEW k \in DOMAIN chains
      PROVE  /\ routed[k].ctx = chains[k].ctx /\ routed[k].hosts = chains[k].hosts
             /\ routed[k].server_names = chains[k].server_names
  <2> DEFINE ch == chains[k]
             x == host_routes(c, l, routes, ch)
  <2>1. DOMAIN ch = {"key", "ctx", "hosts", "server_names", "routes"}
    BY <1>1 DEF GoodChain
  <2>2. routed[k] = compute_http_routes(c, l, routes, ch)
    BY <1>2
  <2> HIDE DEF ch
  <2>3. routed[k] = ch \/ routed[k] = [ch EXCEPT !.routes = x]
    BY <2>2 DEF compute_http_routes
  <2> HIDE DEF x
  <2>4. routed[k].ctx = ch.ctx /\ routed[k].hosts = ch.hosts /\ routed[k].server_names = ch.server_names
    BY <2>1, <2>3
  <2> QED
    BY <2>4 DEF ch
<1> QED
  BY <1>4, <1>5 DEF chains, routed

LEMMA FilterChainsApart ==
  ASSUME NEW c, NEW r, NEW l, NEW routes
  PROVE  IsSeq(FilterChains(c, r, l, routes)) /\ Apart(FilterChains(c, r, l, routes))
<1> DEFINE tcp == compute_tcpchains(r, l).chains
           all == AllChains(c, r, l).chains
           routed == Routed(c, r, l, routes)
           isHttp == "HTTP" \in Range(l.protocolStack)
           first == finalize_tcp(r, tcp)
           second == IF isHttp THEN finalize_http(r, l, routed) ELSE <<>>
           fcs == FilterChains(c, r, l, routes)
<1>1. /\ Separated(AllChains(c, r, l)) /\ IsSeq(tcp)
      /\ \A k \in DOMAIN tcp : k \in DOMAIN all /\ all[k] = tcp[k] /\ TcpChain(tcp[k])
  BY AllChainsSeparated, TcpChainsSeparated DEF Separated
<1>2. /\ \A k \in DOMAIN all : GoodChain(all[k])
      /\ \A j, k \in DOMAIN all : all[j].key = all[k].key => j = k
  BY <1>1 DEF Separated
<1>3. /\ IsSeq(routed) /\ DOMAIN routed = DOMAIN all
      /\ \A k \in DOMAIN all : /\ routed[k].ctx = all[k].ctx /\ routed[k].hosts = all[k].hosts
                               /\ routed[k].server_names = all[k].server_names
  BY RoutedFacts
<1>4. fcs = first \o second
  BY DEF FilterChains
<1> HIDE DEF tcp, all, routed, fcs
<1>5. /\ IsSeq(first)
      /\ \E p \in [DOMAIN first -> DOMAIN tcp] :
           /\ \A i, j \in DOMAIN first : i < j => p[i] < p[j]
           /\ \A i \in DOMAIN first : ~first[i].http /\ (first[i].tls => Secures(first[i], tcp[p[i]]))
  BY <1>1, TcpFilterChains
<1>6. /\ IsSeq(second)
      /\ \E q \in [DOMAIN second -> DOMAIN all \cup {0}] :
           /\ \A i \in DOMAIN second :
                /\ second[i].tls => q[i] \in DOMAIN all /\ ~all[q[i]].hosts[1].tcp
                                    /\ Secures(second[i], all[q[i]])
                /\ ~second[i].tls => i = Len(second)
           /\ \A i, j \in DOMAIN second : i < j /\ second[i].tls /\ second[j].tls => q[i] < q[j]
  <2>1. CASE isHttp
    <3>1. /\ IsSeq(second)
          /\ \E q \in [DOMAIN second -> DOMAIN routed \cup {0}] :
               /\ \A i \in DOMAIN second :
                    /\ second[i].tls => q[i] \in DOMAIN routed /\ ~routed[q[i]].hosts[1].tcp
                                        /\ Secures(second[i], routed[q[i]])
                    /\ ~second[i].tls => i = Len(second)
               /\ \A i, j \in DOMAIN second : i < j /\ second[i].tls /\ second[j].tls => q[i] < q[j]
      BY <1>3, <2>1, HttpFilterChains
    <3> HIDE DEF second
    <3>2. PICK q \in [DOMAIN second -> DOMAIN routed \cup {0}] :
               /\ \A i \in DOMAIN second :
                    /\ second[i].tls => q[i] \in DOMAIN routed /\ ~routed[q[i]].hosts[1].tcp
                                        /\ Secures(second[i], routed[q[i]])
                    /\ ~second[i].tls => i = Len(second)
               /\ \A i, j \in DOMAIN second : i < j /\ second[i].tls /\ second[j].tls => q[i] < q[j]
      BY <3>1
    <3>3. q \in [DOMAIN second -> DOMAIN all \cup {0}]
      BY <1>3
    <3>4. ASSUME NEW i \in DOMAIN second, second[i].tls
          PROVE  q[i] \in DOMAIN all /\ ~all[q[i]].hosts[1].tcp /\ Secures(second[i], all[q[i]])
      BY <1>3, <3>2, <3>4 DEF Secures
    <3> QED
      BY <3>1, <3>2, <3>3, <3>4
  <2>2. CASE ~isHttp
    <3>1. second = <<>> /\ DOMAIN second = {} /\ IsSeq(second)
      BY <2>2, EmptyIsSeq
    <3> HIDE DEF second
    <3>2. [i \in {} |-> 0] \in [DOMAIN second -> DOMAIN all \cup {0}]
      BY <3>1
    <3> QED
      BY <3>1, <3>2
  <2> QED
    BY <2>1, <2>2
<1> HIDE DEF first, second
<1>7. Joins(fcs, first, second)
  BY <1>4, <1>5, <1>6, Concatenated, Zenon
<1>8. PICK p \in [DOMAIN first -> DOMAIN tcp] :
           /\ \A i, j \in DOMAIN first : i < j => p[i] < p[j]
           /\ \A i \in DOMAIN first : ~first[i].http /\ (first[i].tls => Secures(first[i], tcp[p[i]]))
  BY <1>5
<1>9. PICK q \in [DOMAIN second -> DOMAIN all \cup {0}] :
           /\ \A i \in DOMAIN second :
                /\ second[i].tls => q[i] \in DOMAIN all /\ ~all[q[i]].hosts[1].tcp
                                    /\ Secures(second[i], all[q[i]])
                /\ ~second[i].tls => i = Len(second)
           /\ \A i, j \in DOMAIN second : i < j /\ second[i].tls /\ second[j].tls => q[i] < q[j]
  BY <1>6
<1>10. DOMAIN all \subseteq Nat
  BY <1>1, IsSeqFacts DEF Separated, all
<1>11. \A k \in DOMAIN tcp : all[k].hosts[1].tcp
  <2> TAKE k \in DOMAIN tcp
  <2>1. IsSeq(all[k].hosts) /\ TcpChain(all[k])
    BY <1>1, <1>2 DEF GoodChain
  <2>2. 1 \in DOMAIN all[k].hosts
    <3>1. Len(all[k].hosts) \in Nat /\ DOMAIN all[k].hosts = 1 .. Len(all[k].hosts)
      BY <2>1, IsSeqFacts
    <3>2. Len(all[k].hosts) # 0
      BY <2>1, EmptySeq DEF TcpChain, IsSeq
    <3> QED
      BY <3>1, <3>2
  <2> QED
    BY <2>1, <2>2 DEF TcpChain, Range
<1> DEFINE src(i) == IF i <= Len(first) THEN p[i] ELSE q[i - Len(first)]
<1>12. ASSUME NEW i \in DOMAIN fcs, fcs[i].tls
       PROVE  src(i) \in DOMAIN all /\ Secures(fcs[i], all[src(i)])
  <2>1. CASE i <= Len(first)
    BY <1>1, <1>7, <1>8, <1>12, <2>1 DEF Joins
  <2>2. CASE ~(i <= Len(first))
    <3>1. i - Len(first) \in DOMAIN second /\ fcs[i] = second[i - Len(first)]
      BY <1>7, <2>2 DEF Joins
    <3> QED
      BY <1>9, <1>12, <2>2, <3>1
  <2> QED
    BY <2>1, <2>2
<1>13. ASSUME NEW i \in DOMAIN fcs, NEW j \in DOMAIN fcs, i < j, fcs[i].tls, fcs[j].tls
       PROVE  src(i) # src(j)
  <2>0. i \in Nat /\ j \in Nat /\ Len(first) \in Nat /\ Len(second) \in Nat
        /\ DOMAIN fcs = 1 .. Len(first) + Len(second)
        /\ DOMAIN first = 1 .. Len(first) /\ DOMAIN second = 1 .. Len(second)
    BY <1>7 DEF Joins
  <2>1. CASE j <= Len(first)
    <3>1. i \in DOMAIN first /\ j \in DOMAIN first
      BY <1>13, <2>0, <2>1
    <3>2. p[i] < p[j] /\ p[i] \in Nat /\ p[j] \in Nat
      BY <1>1, <1>8, <1>10, <1>13, <3>1
    <3> QED
      BY <1>13, <2>0, <2>1, <3>2
  <2>2. CASE ~(i <= Len(first))
    <3>1. /\ i - Len(first) \in DOMAIN second /\ j - Len(first) \in DOMAIN second
          /\ i - Len(first) < j - Len(first) /\ ~(j <= Len(first))
      BY <1>13, <2>0, <2>2
    <3>2. fcs[i] = second[i - Len(first)] /\ fcs[j] = second[j - Len(first)]
      BY <1>7, <2>2, <3>1 DEF Joins
    <3> DEFINE a == i - Len(first)
               b == j - Len(first)
    <3> HIDE DEF a, b
    <3>3. a \in DOMAIN second /\ b \in DOMAIN second /\ a < b /\ second[a].tls /\ second[b].tls
      BY <1>13, <3>1, <3>2 DEF a, b
    <3>4. q[a] < q[b] /\ q[a] \in Nat /\ q[b] \in Nat
      BY <1>9, <1>10, <3>3
    <3> QED
      BY <2>2, <3>1, <3>4 DEF a, b
  <2>3. CASE i <= Len(first) /\ ~(j <= Len(first))
    <3>1. i \in DOMAIN first /\ j - Len(first) \in DOMAIN second /\ fcs[j] = second[j - Len(first)]
      BY <1>7, <2>0, <2>3 DEF Joins
    <3>2. all[p[i]].hosts[1].tcp
      BY <1>8, <1>11, <3>1
    <3>3. ~all[q[j - Len(first)]].hosts[1].tcp
      BY <1>9, <1>13, <3>1
    <3> QED
      BY <2>3, <3>2, <3>3
  <2> QED
    BY <2>1, <2>2, <2>3
<1> HIDE DEF src
<1>14. ASSUME NEW i \in DOMAIN fcs, NEW j \in DOMAIN fcs, i < j, ~fcs[i].tls, ~fcs[j].tls
       PROVE  ~fcs[i].http
  <2>0. i \in Nat /\ j \in Nat /\ Len(first) \in Nat /\ Len(second) \in Nat
        /\ DOMAIN fcs = 1 .. Len(first) + Len(second)
        /\ DOMAIN first = 1 .. Len(first) /\ DOMAIN second = 1 .. Len(second)
    BY <1>7 DEF Joins
  <2>1. CASE i <= Len(first)
    <3>1. i \in DOMAIN first /\ fcs[i] = first[i]
      BY <1>7, <2>0, <2>1 DEF Joins
    <3> QED
      BY <1>8, <3>1
  <2>2. CASE ~(i <= Len(first))
    <3>1. i - Len(first) \in DOMAIN second /\ fcs[i] = second[i - Len(first)]
          /\ i - Len(first) # Len(second)
      BY <1>7, <1>14, <2>0, <2>2 DEF Joins
    <3> QED
      BY <1>9, <1>14, <3>1
  <2> QED
    BY <2>1, <2>2
<1>15. Apart(fcs)
  <2> SUFFICES ASSUME NEW i \in DOMAIN fcs, NEW j \in DOMAIN fcs, i < j
               PROVE  \/ fcs[i].tls # fcs[j].tls
                      \/ /\ fcs[i].tls /\ fcs[i].server_names \cap fcs[j].server_names = {}
                         /\ fcs[i].server_names # fcs[j].server_names
                      \/ ~fcs[i].tls /\ \E k \in DOMAIN fcs : ~fcs[k].tls /\ ~fcs[k].http
    BY DEF Apart
  <2>1. CASE fcs[i].tls /\ fcs[j].tls
    <3>1. /\ src(i) \in DOMAIN all /\ Secures(fcs[i], all[src(i)])
          /\ src(j) \in DOMAIN all /\ Secures(fcs[j], all[src(j)]) /\ src(i) # src(j)
      BY <1>12, <1>13, <2>1
    <3>2. GoodChain(all[src(i)]) /\ GoodChain(all[src(j)]) /\ all[src(i)].key # all[src(j)].key
      BY <1>2, <3>1
    <3> QED
      BY <2>1, <3>1, <3>2, SecuresApart
  <2>2. CASE ~fcs[i].tls /\ ~fcs[j].tls
    BY <1>14, <2>2
  <2>3. CASE fcs[i].tls # fcs[j].tls
    BY <2>3
  <2> QED
    BY <2>1, <2>2, <2>3
<1> QED
  BY <1>7, <1>15 DEF fcs, Joins

-----------------------------------------------------------------------------
(* ChainsDistinct: the listeners that were generated so far. *)

EnvoyInv ==
  /\ DOMAIN envoy = {"routes", "listeners", "clusters"}
  /\ IsSeq(envoy.listeners)
  /\ \A x \in Range(envoy.listeners) : Apart(x.filter_chains)

(* Only the last phases touch what is Envoy's. *)
LEMMA PhasesKeepEnvoy ==
  ASSUME Next
  PROVE  \/ UNCHANGED envoy
         \/ GenerateRoutes \/ GenerateListener \/ GenerateClusters \/ Discard
<1>1. CASE Start
  BY <1>1 DEF Start
<1>2. CASE LoadTLSModule \/ AdvertiseHTTP3 \/ FinalizeHosts \/ FinalizeModule \/ LoadResolvers
           \/ SetupServices \/ SaveFilters \/ FinishIR
  BY <1>2 DEF LoadTLSModule, AdvertiseHTTP3, FinalizeHosts, FinalizeModule, LoadResolvers,
              SetupServices, SaveFilters, FinishIR, Phase
<1>3. CASE LoadTLSContext \/ LoadListener \/ LoadHost \/ ResolveContext
  BY <1>3 DEF LoadTLSContext, LoadListener, LoadHost, ResolveContext, Each
<1>4. CASE LoadLogService \/ LoadMapping \/ AddService \/ FinalizeGroup \/ FinalizeListener
  BY <1>4 DEF LoadLogService, LoadMapping, AddService, FinalizeGroup, FinalizeListener, Each
<1>5. CASE FailListener
  BY <1>5 DEF FailListener
<1> QED
  BY <1>1, <1>2, <1>3, <1>4, <1>5 DEF Next

(* A listener is generated with the filter chains of finalize, or not at all. *)
LEMMA ListenerGenerated ==
  ASSUME NEW c, NEW r, NEW e, NEW l
  PROVE  LET fcs == FilterChains(c, r, l, e.routes)
             x == [NewListener(r, l) EXCEPT !.filter_chains = fcs]
         IN  generate_listener(c, r, e, l)
               = [ir |-> [r EXCEPT !.errors = @ \cup (AllChains(c, r, l).errors
                            \cup IF fcs = <<>> THEN {<<"Listener", l.name>>} ELSE {})],
                  envoy |-> IF fcs = <<>> THEN e
                            ELSE [e EXCEPT !.listeners = Append(@, x)]]
<1> DEFINE fcs == FilterChains(c, r, l, e.routes)
           x == [NewListener(r, l) EXCEPT !.filter_chains = fcs]
           errors == AllChains(c, r, l).errors \cup IF fcs = <<>> THEN {<<"Listener", l.name>>} ELSE {}
<1> SUFFICES generate_listener(c, r, e, l)
               = [ir |-> [r EXCEPT !.errors = @ \cup errors],
                  envoy |-> IF fcs = <<>> THEN e ELSE [e EXCEPT !.listeners = Append(@, x)]]
  OBVIOUS
<1>1. x.filter_chains = fcs
  BY DEF NewListener
<1> HIDE DEF fcs
<1>2. finalize_listener(c, r, l, e.routes)
        = [errors |-> errors, listener |-> x]
  BY ListenerIs DEF fcs
<1> HIDE DEF x, errors
<1>3. /\ finalize_listener(c, r, l, e.routes).errors = errors
      /\ finalize_listener(c, r, l, e.routes).listener = x
      /\ finalize_listener(c, r, l, e.routes).listener.filter_chains = fcs
  BY <1>1, <1>2
<1> QED
  BY <1>3, Zenon DEF generate_listener

LEMMA EnvoyStep ==
  ASSUME EnvoyInv, [Next]_vars
  PROVE  EnvoyInv'
<1>1. CASE UNCHANGED envoy
  BY <1>1 DEF EnvoyInv
<1>2. CASE GenerateRoutes \/ GenerateClusters
  BY <1>2 DEF EnvoyInv, GenerateRoutes, GenerateClusters
<1>3. CASE Discard
  BY <1>3, EmptyIsSeq DEF EnvoyInv, Discard, EmptyEnvoy
<1>4. CASE GenerateListener
  <2>1. CASE n < Len(ir.listeners)
    <3> DEFINE l == ir.listeners[n + 1]
               fcs == FilterChains(aconf, ir, l, envoy.routes)
               x == [NewListener(ir, l) EXCEPT !.filter_chains = fcs]
               e == generate_listener(aconf, ir, envoy, l).envoy
    <3>1. envoy' = e
      BY <1>4, <2>1 DEF GenerateListener
    <3>2. e = IF fcs = <<>> THEN envoy ELSE [envoy EXCEPT !.listeners = Append(@, x)]
      BY ListenerGenerated
    <3>3. x.filter_chains = fcs /\ Apart(fcs)
      BY FilterChainsApart DEF NewListener
    <3> HIDE DEF fcs, x, e
    <3>4. IsSeq(Append(envoy.listeners, x))
          /\ Range(Append(envoy.listeners, x)) = Range(envoy.listeners) \cup {x}
      BY AppendFacts DEF EnvoyInv
    <3>5. CASE fcs = <<>>
      BY <3>1, <3>2, <3>5 DEF EnvoyInv
    <3>6. CASE fcs # <<>>
      <4>1. envoy' = [envoy EXCEPT !.listeners = Append(@, x)]
        BY <3>1, <3>2, <3>6
      <4>2. DOMAIN envoy' = {"routes", "listeners", "clusters"}
            /\ envoy'.listeners = Append(envoy.listeners, x)
        BY <4>1 DEF EnvoyInv
      <4> QED
        BY <3>3, <3>4, <4>2 DEF EnvoyInv
    <3> QED
      BY <3>5, <3>6
  <2>2. CASE ~(n < Len(ir.listeners))
    BY <1>4, <2>2 DEF GenerateListener, EnvoyInv
  <2> QED
    BY <2>1, <2>2
<1> QED
  BY <1>1, <1>2, <1>3, <1>4, PhasesKeepEnvoy DEF vars

(* Whatever is configured, the filter chains of every listener that diagd
   hands to Envoy differ in what they match, unless a TCPMapping without a host
   takes the cleartext connections of its port (v3listener.py add_chain,
   finalize_tcp and finalize_http). *)
THEOREM ChainsAlwaysDistinct == Spec => []ChainsDistinct
<1>1. Init => EnvoyInv
  BY EmptyIsSeq DEF Init, EnvoyInv, EmptyEnvoy
<1>2. EnvoyInv /\ [Next]_vars => EnvoyInv'
  BY EnvoyStep
<1>3. EnvoyInv => ChainsDistinct
  <2> SUFFICES ASSUME EnvoyInv, NEW l \in Range(envoy.listeners) PROVE Apart(l.filter_chains)
    BY DEF ChainsDistinct, Apart
  <2> QED
    BY DEF EnvoyInv
<1> QED
  BY <1>1, <1>2, <1>3, PTL DEF Spec

-----------------------------------------------------------------------------
(* FiltersComplete.  First the frame: what most phases leave alone. *)

Whole(r) ==
  DOMAIN r = {"ctxs", "tls_contexts", "rcf", "saved", "hosts", "listeners", "errors", "resolvers",
              "groups", "clusters", "filters", "services"}

(* s is r with more errors, and other contexts, Hosts, Listeners or resolvers. *)
Frame(r, s) ==
  /\ Whole(s) /\ r.errors \subseteq s.errors /\ s.groups = r.groups
  /\ s.filters = r.filters /\ s.services = r.services /\ s.clusters = r.clusters

LEMMA FrameTwice ==
  ASSUME NEW r, NEW s, NEW t, Frame(r, s), Frame(s, t)
  PROVE  Frame(r, t)
BY DEF Frame

LEMMA FrameSelf ==
  ASSUME NEW r, Whole(r)
  PROVE  Frame(r, r)
BY DEF Frame

LEMMA PostErrorFrame ==
  ASSUME NEW r, NEW kind, NEW name, Whole(r)
  PROVE  Frame(r, PostError(r, kind, name))
BY DEF Frame, Whole, PostError

LEMMA SaveSecretFrame ==
  ASSUME NEW c, NEW r, NEW name, NEW ns, Whole(r)
  PROVE  Frame(r, SaveSecret(c, r, name, ns))
<1> DEFINE ss == resolve_secret(c, r, name, ns)
           saved == Put(r.saved, name, ss)
<1>1. SaveSecret(c, r, name, ns) \in {r, [r EXCEPT !.saved = saved]}
  BY DEF SaveSecret
<1> HIDE DEF saved
<1> QED
  BY <1>1 DEF Frame, Whole

LEMMA AddContextFrame ==
  ASSUME NEW r, NEW ctx, Whole(r)
  PROVE  Frame(r, AddContext(r, ctx))
BY DEF Frame, Whole, AddContext

LEMMA SaveTLSContextFrame ==
  ASSUME NEW r, NEW i, Whole(r)
  PROVE  Frame(r, save_tls_context(r, i))
<1>1. PICK rcf, more, contexts : save_tls_context(r, i)
        = [r EXCEPT !.rcf = rcf, !.errors = @ \cup more, !.tls_contexts = contexts]
  BY DEF save_tls_context
<1> QED
  BY <1>1 DEF Frame, Whole

LEMMA LoadContextFrame ==
  ASSUME NEW r, NEW ctx, Whole(r)
  PROVE  Frame(r, LoadContext(r, ctx))
<1> DEFINE new == AddContext(r, ctx)
<1>1. Frame(r, new)
  BY AddContextFrame
<1>2. LoadContext(r, ctx) = IF ctx.active THEN save_tls_context(new, Len(new.ctxs)) ELSE new
  BY DEF LoadContext
<1> HIDE DEF new
<1>3. Frame(new, save_tls_context(new, Len(new.ctxs)))
  BY <1>1, SaveTLSContextFrame DEF Frame
<1> QED
  BY <1>1, <1>2, <1>3, FrameTwice

LEMMA NullContextFrame ==
  ASSUME NEW r, Whole(r)
  PROVE  Frame(r, null_context(r))
<1> DEFINE ctx == [setup_context("no-cert-upstream", AmbassadorNamespace, ContextFields) EXCEPT !.enabled = TRUE]
<1>1. null_context(r) \in {r, LoadContext(r, ctx)}
  BY DEF null_context
<1> HIDE DEF ctx
<1> QED
  BY <1>1, LoadContextFrame, FrameSelf

LEMMA LoadTLSFrame ==
  ASSUME NEW c, NEW r, NEW t, Whole(r)
  PROVE  Frame(r, load_tls_module(c, r)) /\ Frame(r, load_tls_context(r, t))
<1>1. Frame(r, load_tls_module(c, r))
  <2> DEFINE ctx == setup_context("server", AmbassadorNamespace, from_legacy(c.tls_module))
  <2>1. load_tls_module(c, r) \in {r, LoadContext(r, ctx)}
    BY DEF load_tls_module
  <2> HIDE DEF ctx
  <2> QED
    BY <2>1, LoadContextFrame, FrameSelf
<1>2. Frame(r, load_tls_context(r, t))
  BY LoadContextFrame DEF load_tls_context
<1> QED
  BY <1>1, <1>2

LEMMA ResolveFrame ==
  ASSUME NEW c, NEW r, NEW i, Whole(r)
  PROVE  Frame(r, resolve_tls_context(c, r, i))
<1> DEFINE ctx == resolve_context(c, r, r.ctxs[i])
           save(at, key) == IF key = <<>> THEN at
                            ELSE SaveSecret(c, at, split_secret(c, ctx, key).name, split_secret(c, ctx, key).ns)
           s1 == save(r, r.ctxs[i].secret)
           s2 == save(s1, r.ctxs[i].ca)
           s3 == save(s2, r.ctxs[i].crl)
<1>1. ASSUME NEW s, NEW key, Whole(s) PROVE Frame(s, save(s, key))
  <2> HIDE DEF ctx
  <2> QED
    BY <1>1, SaveSecretFrame, FrameSelf
<1>2. resolve_tls_context(c, r, i)
        = [s3 EXCEPT !.ctxs[i] = ctx,
                     !.errors = @ \cup IF ctx.errored THEN {<<"TLSContext", ctx.name>>} ELSE {}]
  BY DEF resolve_tls_context
<1> HIDE DEF save, ctx
<1>3. Frame(r, s1)
  BY <1>1
<1> HIDE DEF s1
<1>4. Frame(s1, s2)
  BY <1>1, <1>3 DEF Frame
<1> HIDE DEF s2
<1>5. Frame(s2, s3)
  BY <1>1, <1>4 DEF Frame
<1> HIDE DEF s3
<1>6. Frame(r, s3)
  BY <1>3, <1>4, <1>5, FrameTwice
<1>7. Frame(s3, resolve_tls_context(c, r, i))
  BY <1>2, <1>6 DEF Frame, Whole
<1> QED
  BY <1>6, <1>7, FrameTwice

LEMMA DropFrame ==
  ASSUME NEW r, Whole(r)
  PROVE  Frame(r, drop_tls_contexts(r))
<1>1. PICK contexts : drop_tls_contexts(r) = [r EXCEPT !.tls_contexts = contexts]
  BY DEF drop_tls_contexts
<1> QED
  BY <1>1 DEF Frame, Whole

LEMMA SaveContextFrame ==
  ASSUME NEW c, NEW r, NEW host, NEW name, NEW ss, NEW full, Whole(r)
  PROVE  Frame(r, save_context(c, r, host, name, ss, full).ir)
<1> DEFINE i == get_tls_context(r, name)
           ctx == r.ctxs[i]
           own == resolve_secret(c, r, ctx.secret, host.ns)
           at == IF ctx.secret = <<>> THEN [r EXCEPT !.ctxs[i].secret = full]
                 ELSE SaveSecret(c, r, ctx.secret, host.ns)
<1>1. save_context(c, r, host, name, ss, full).ir
        \in {PostError(r, "Host", host.name), PostError(at, "Host", host.name),
             [at EXCEPT !.ctxs[i].hosts = <<host.hostname>>], at}
  BY DEF save_context
<1>2. Frame(r, at)
  <2>1. Frame(r, SaveSecret(c, r, ctx.secret, host.ns))
    BY SaveSecretFrame
  <2>2. Frame(r, [r EXCEPT !.ctxs[i].secret = full])
    BY DEF Frame, Whole
  <2> QED
    BY <2>1, <2>2
<1> HIDE DEF at, i
<1>3. Frame(r, PostError(r, "Host", host.name))
  BY PostErrorFrame
<1>4. Frame(at, PostError(at, "Host", host.name))
  BY <1>2, PostErrorFrame DEF Frame
<1>5. Frame(at, [at EXCEPT !.ctxs[i].hosts = <<host.hostname>>])
  BY <1>2 DEF Frame, Whole
<1> QED
  BY <1>1, <1>2, <1>3, <1>4, <1>5, FrameTwice

LEMMA OwnContextFrame ==
  ASSUME NEW r, NEW host, NEW name, NEW full, NEW files, Whole(r)
  PROVE  Frame(r, OwnContext(r, host, name, full, files).ir)
BY LoadContextFrame DEF OwnContext

LEMMA SetupTLSFrame ==
  ASSUME NEW c, NEW r, NEW host, Whole(r)
  PROVE  Frame(r, setup_tls(c, r, host).ir)
<1> DEFINE ns == IF host.secretNs # "" THEN host.secretNs ELSE host.ns
           full == IF host.secretNs # "" THEN Append(host.secret, host.secretNs) ELSE host.secret
           ss == resolve_secret(c, r, host.secret, ns)
           at == SaveSecret(c, r, host.secret, ns)
           implicit == host.name \o "-context"
           files == IF host.tls = "files" THEN "both" ELSE "none"
           own == OwnContext(at, host, implicit, full, files)
           plain == OwnContext(at, host, implicit, full, "none")
<1>1. \/ setup_tls(c, r, host).ir \in {r, at, PostError(at, "Host", host.name)}
      \/ setup_tls(c, r, host).ir \in {own.ir, PostError(own.ir, "Host", host.name), plain.ir}
      \/ setup_tls(c, r, host).ir = save_context(c, at, host, host.tlsContext, ss, full).ir
      \/ setup_tls(c, r, host).ir = save_context(c, at, host, implicit, ss, full).ir
  <2> HIDE DEF own, plain, at, ss, full
  <2>1. CASE host.secret = <<>>
    BY <2>1 DEF setup_tls
  <2>2. CASE host.secret # <<>> /\ ~usable(ss)
    BY <2>2 DEF setup_tls, at, ss
  <2>3. CASE host.secret # <<>> /\ usable(ss)
    <3> DEFINE refuse(s) == [host |-> [host EXCEPT !.active = FALSE, !.errored = TRUE],
                             ir |-> PostError(s, "Host", host.name)]
    <3>1. setup_tls(c, r, host) =
           CASE host.tlsContext # "" /\ host.tls # "" -> refuse(at)
             [] host.tlsContext # "" /\ host.tls = "" ->
                  save_context(c, at, host, host.tlsContext, ss, full)
             [] host.tlsContext = "" /\ host.tls = "version" -> refuse(at)
             [] host.tlsContext = "" /\ host.tls \in {"good", "files"} ->
                  (IF own.host.context = 0 THEN refuse(own.ir) ELSE own)
             [] OTHER ->
                  IF has_tls_context(at, implicit)
                  THEN save_context(c, at, host, implicit, ss, full)
                  ELSE plain
      BY <2>3 DEF setup_tls, own, plain, at, ss, full
    <3>2. CASE host.tlsContext # "" /\ host.tls # ""
      <4>1. setup_tls(c, r, host) = refuse(at)
        BY <3>1, <3>2
      <4> QED
        BY <4>1
    <3>3. CASE host.tlsContext # "" /\ host.tls = ""
      BY <3>1, <3>3
    <3>4. CASE host.tlsContext = "" /\ host.tls = "version"
      <4>1. setup_tls(c, r, host) = refuse(at)
        BY <3>1, <3>4
      <4> QED
        BY <4>1
    <3>5. CASE host.tlsContext = "" /\ host.tls \in {"good", "files"}
      <4>1. setup_tls(c, r, host) = IF own.host.context = 0 THEN refuse(own.ir) ELSE own
        BY <3>1, <3>5
      <4> QED
        BY <4>1
    <3>6. CASE host.tlsContext = "" /\ host.tls \notin {"good", "files", "version"}
      <4>1. setup_tls(c, r, host) = IF has_tls_context(at, implicit)
                                    THEN save_context(c, at, host, implicit, ss, full)
                                    ELSE plain
        BY <3>1, <3>6
      <4> QED
        BY <4>1
    <3> QED
      BY <3>2, <3>3, <3>4, <3>5, <3>6
  <2> QED
    BY <2>1, <2>2, <2>3
<1>2. Frame(r, at)
  BY SaveSecretFrame
<1> HIDE DEF at
<1>3. Frame(r, PostError(at, "Host", host.name))
  BY <1>2, PostErrorFrame, FrameTwice DEF Frame
<1>4. Frame(at, own.ir) /\ Frame(at, plain.ir)
  <2> HIDE DEF files, full, implicit
  <2>1. Whole(at)
    BY <1>2 DEF Frame
  <2> QED
    BY <2>1, OwnContextFrame
<1> HIDE DEF own, plain
<1>5. Frame(r, own.ir) /\ Frame(r, plain.ir)
  BY <1>2, <1>4, FrameTwice
<1>6. Frame(r, PostError(own.ir, "Host", host.name))
  BY <1>5, PostErrorFrame, FrameTwice DEF Frame
<1> HIDE DEF ss, full, implicit
<1>7. ASSUME NEW name PROVE Frame(r, save_context(c, at, host, name, ss, full).ir)
  <2>1. Frame(at, save_context(c, at, host, name, ss, full).ir)
    BY <1>2, SaveContextFrame DEF Frame
  <2> QED
    BY <1>2, <2>1, FrameTwice
<1> QED
  BY <1>1, <1>2, <1>3, <1>5, <1>6, <1>7, FrameSelf

LEMMA SetupHostFrame ==
  ASSUME NEW c, NEW r, NEW h, Whole(r)
  PROVE  Frame(r, setup_host(c, r, h).ir)
<1>1. ASSUME NEW done, Frame(r, done.ir) PROVE Frame(r, setup_acme(c, done, h).ir)
  <2> DEFINE at == SaveSecret(c, done.ir, h.acme, h.ns)
  <2>1. setup_acme(c, done, h).ir
          \in {done.ir, PostError(done.ir, "Host", h.name), at, PostError(at, "Host", h.name)}
    BY DEF setup_acme
  <2>2. Frame(done.ir, at)
    BY <1>1, SaveSecretFrame DEF Frame
  <2> HIDE DEF at
  <2>3. Frame(done.ir, PostError(done.ir, "Host", h.name)) /\ Frame(at, PostError(at, "Host", h.name))
    BY <1>1, <2>2, PostErrorFrame DEF Frame
  <2> QED
    BY <1>1, <2>1, <2>2, <2>3, FrameTwice
<1>2. PICK host : setup_host(c, r, h) = setup_acme(c, setup_tls(c, r, host), h)
  BY DEF setup_host
<1> QED
  BY <1>1, <1>2, SetupTLSFrame

LEMMA LoadHostFrame ==
  ASSUME NEW c, NEW r, NEW h, Whole(r)
  PROVE  Frame(r, load_host(c, r, h))
<1> DEFINE made == setup_host(c, r, h)
           s == made.ir
<1>1. Frame(r, s)
  BY SetupHostFrame
<1>2. load_host(c, r, h) \in {s, save_host(s, made.host)}
  BY DEF load_host
<1> HIDE DEF made, s
<1>3. Frame(s, save_host(s, made.host))
  <2> DEFINE extant == {k \in DOMAIN s.hosts : s.hosts[k].name = made.host.name}
             at == CHOOSE k \in extant : TRUE
  <2>1. save_host(s, made.host)
          \in {[s EXCEPT !.hosts = Append(@, made.host)], PostError(s, "ir", made.host.name),
               [s EXCEPT !.hosts[at] = made.host]}
    BY DEF save_host
  <2> HIDE DEF at
  <2>2. Frame(s, PostError(s, "ir", made.host.name))
    BY <1>1, PostErrorFrame DEF Frame
  <2> QED
    BY <1>1, <2>1, <2>2 DEF Frame, Whole
<1> QED
  BY <1>1, <1>2, <1>3, FrameTwice

LEMMA FinalizeHostsFrame ==
  ASSUME NEW c, NEW r, Whole(r)
  PROVE  Frame(r, finalize_hosts(c, r))
<1>1. PICK s, default, fallback :
        /\ s \in {r, PostError(r, "ir", "hosts")}
        /\ finalize_hosts(c, r)
             \in {r, load_host(c, SaveSecret(c, s, fallback, AmbassadorNamespace), default)}
  <2> DEFINE terminating == \E i \in Range(r.tls_contexts) : r.ctxs[i].hosts # <<>>
             s == IF terminating THEN PostError(r, "ir", "hosts") ELSE r
             fallback == <<"fallback-self-signed-cert">>
             ss == resolve_secret(c, s, fallback, AmbassadorNamespace)
             default == [DefaultHost EXCEPT !.secret = IF usable(ss) THEN fallback ELSE @,
                                            !.insecure = IF usable(ss) THEN @ ELSE "Route"]
  <2>1. finalize_hosts(c, r)
          \in {r, load_host(c, SaveSecret(c, s, fallback, AmbassadorNamespace), default)}
    BY DEF finalize_hosts
  <2>2. s \in {r, PostError(r, "ir", "hosts")}
    OBVIOUS
  <2> HIDE DEF s, fallback, default
  <2> QED
    BY <2>1, <2>2
<1>2. Frame(r, s)
  BY <1>1, PostErrorFrame, FrameSelf
<1> DEFINE t == SaveSecret(c, s, fallback, AmbassadorNamespace)
<1>3. Frame(s, t)
  BY <1>2, SaveSecretFrame DEF Frame
<1> HIDE DEF t
<1>4. Frame(t, load_host(c, t, default))
  BY <1>3, LoadHostFrame DEF Frame
<1> QED
  BY <1>1, <1>2, <1>3, <1>4, FrameTwice, FrameSelf DEF t

LEMMA LoadListenerFrame ==
  ASSUME NEW r, NEW config, Whole(r)
  PROVE  Frame(r, load_listener(r, config))
<1> DEFINE l == setup_listener(config)
           s == IF l.errored \/ ~l.active THEN PostError(r, "Listener", l.name) ELSE r
<1>1. Frame(r, s)
  <2> HIDE DEF l
  <2> QED
    BY PostErrorFrame, FrameSelf
<1>2. load_listener(r, config) \in {s, save_listener(s, l)}
  BY DEF load_listener
<1> HIDE DEF l, s
<1>3. save_listener(s, l) \in {PostError(s, "ir", l.name), [s EXCEPT !.listeners = Append(@, l)]}
  BY DEF save_listener
<1>4. Frame(s, PostError(s, "ir", l.name))
  BY <1>1, PostErrorFrame DEF Frame
<1>5. Frame(s, [s EXCEPT !.listeners = Append(@, l)])
  BY <1>1 DEF Frame, Whole
<1> QED
  BY <1>1, <1>2, <1>3, <1>4, <1>5, FrameTwice

LEMMA ListenersFrame ==
  ASSUME NEW r, NEW g, Whole(r)
  PROVE  Frame(r, advertise_http3(r)) /\ Frame(r, synthesize_listener(r, g))
<1>1. Frame(r, advertise_http3(r))
  <2>1. PICK ls : advertise_http3(r) = [r EXCEPT !.listeners = ls]
    BY DEF advertise_http3
  <2> QED
    BY <2>1 DEF Frame, Whole
<1>2. Frame(r, synthesize_listener(r, g))
  <2>1. PICK config : synthesize_listener(r, g) \in {r, load_listener(r, config)}
    <3> DEFINE config == [name |-> "listener-" \o ToString(g.port),
                          ns |-> AmbassadorNamespace, port |-> g.port,
                          protocol |-> IF g.host # <<>> THEN "TLS" ELSE "TCP",
                          protocolStack |-> <<>>, securityModel |-> "SECURE",
                          from |-> "SELF", selector |-> NoSelector, matchLabels |-> TRUE]
    <3>1. synthesize_listener(r, g) \in {r, load_listener(r, config)}
      BY Zenon DEF synthesize_listener
    <3> HIDE DEF config
    <3> QED
      BY <3>1
  <2> QED
    BY <2>1, LoadListenerFrame, FrameSelf
<1> QED
  BY <1>1, <1>2

LEMMA LoadResolversFrame ==
  ASSUME NEW c, NEW r, Whole(r)
  PROVE  Frame(r, load_resolvers(c, r))
<1>1. PICK rs, more : load_resolvers(c, r) = [r EXCEPT !.resolvers = rs, !.errors = @ \cup more]
  BY DEF load_resolvers
<1> QED
  BY <1>1 DEF Frame, Whole

-----------------------------------------------------------------------------
(* The filters of the Module. *)

Stopped(r) == <<"IRBuffer", "ir.buffer">> \in r.errors \/ <<"IRRetryPolicy", "ir.retrypolicy">> \in r.errors

ModuleFilters(c, r) ==
  /\ IsSeq(r.filters) /\ Range(r.filters) \subseteq {"grpc_web", "buffer", "ip_allow_deny"}
  /\ IPAsked(c.module) => "ip_allow_deny" \in Range(r.filters) \/ Stopped(r)

LEMMA ModuleFinalized ==
  ASSUME NEW c, NEW r, Whole(r), r.filters = <<>>
  PROVE  LET s == finalize_module(c, r)
         IN  /\ Whole(s) /\ r.errors \subseteq s.errors
             /\ s.services = r.services /\ s.clusters = r.clusters /\ s.groups = r.groups
             /\ ModuleFilters(c, s)
<1> DEFINE m == c.module
           web == IF m.grpc_web THEN <<"grpc_web">> ELSE <<>>
           buffer == IF m.buffer = "good" THEN <<"buffer">> ELSE <<>>
           early == web \o buffer
           ip == ip_allow_deny(m)
           stop == IF m.buffer = "bad" THEN {<<"IRBuffer", "ir.buffer">>}
                   ELSE IF m.retry = "bad" THEN {<<"IRRetryPolicy", "ir.retrypolicy">>} ELSE {}
           late == ip_errors(m) \cup IF m.valid THEN {} ELSE {<<"Module", "ambassador">>}
           s == finalize_module(c, r)
<1>1. s = IF stop # {} THEN [r EXCEPT !.filters = @ \o early, !.errors = @ \cup stop]
          ELSE [r EXCEPT !.filters = @ \o early \o ip, !.errors = @ \cup late]
  BY DEF finalize_module
<1>2. IsSeq(web) /\ Range(web) \subseteq {"grpc_web"} /\ IsSeq(buffer) /\ Range(buffer) \subseteq {"buffer"}
  BY EmptyIsSeq, SingletonIsSeq
<1>3. IsSeq(ip) /\ Range(ip) \subseteq {"ip_allow_deny"}
      /\ (IPAsked(m) => "ip_allow_deny" \in Range(ip))
  BY EmptyIsSeq, SingletonIsSeq DEF ip_allow_deny, ip_active, IPAsked
<1> HIDE DEF web, buffer, ip
<1>4. Joins(early, web, buffer)
  BY <1>2, Concatenated, Zenon
<1> DEFINE base == r.filters \o early
<1> HIDE DEF early
<1>5. IsSeq(early) /\ Range(early) \subseteq {"grpc_web", "buffer"}
  BY <1>2, <1>4 DEF Joins
<1>6. Joins(base, <<>>, early)
  BY <1>5, Concatenated, EmptyIsSeq
<1> HIDE DEF base
<1>7. IsSeq(base) /\ Range(base) \subseteq {"grpc_web", "buffer"}
  BY <1>5, <1>6, EmptyIsSeq DEF Joins
<1> DEFINE whole == base \o ip
<1>8. Joins(whole, base, ip)
  BY <1>3, <1>7, Concatenated, Zenon
<1> HIDE DEF whole
<1>9. IsSeq(whole) /\ Range(whole) = Range(base) \cup Range(ip)
  BY <1>8 DEF Joins
<1>10. CASE stop # {}
  <2>1. Stopped([r EXCEPT !.filters = base, !.errors = @ \cup stop])
    BY <1>10 DEF Stopped, Whole
  <2> HIDE DEF stop, m
  <2>2. s = [r EXCEPT !.filters = base, !.errors = @ \cup stop]
    BY <1>1, <1>10 DEF base
  <2> HIDE DEF s
  <2>3. Whole(s) /\ r.errors \subseteq s.errors /\ s.services = r.services /\ s.clusters = r.clusters
        /\ s.filters = base /\ s.groups = r.groups
    BY <2>2 DEF Whole
  <2>4. Stopped(s)
    BY <2>1, <2>2
  <2>5. ModuleFilters(c, s)
    BY <1>7, <2>3, <2>4 DEF ModuleFilters
  <2> QED
    BY <2>3, <2>5 DEF s
<1>11. CASE stop = {}
  <2> HIDE DEF stop, late
  <2>2. s = [r EXCEPT !.filters = whole, !.errors = @ \cup late]
    BY <1>1, <1>11 DEF base, whole
  <2> HIDE DEF s
  <2>3. Whole(s) /\ r.errors \subseteq s.errors /\ s.services = r.services /\ s.clusters = r.clusters
        /\ s.filters = whole /\ s.groups = r.groups
    BY <2>2 DEF Whole
  <2>5. ModuleFilters(c, s)
    BY <1>3, <1>7, <1>9, <2>3 DEF ModuleFilters
  <2> QED
    BY <2>3, <2>5 DEF s
<1> QED
  BY <1>10, <1>11

-----------------------------------------------------------------------------
(* The services behind the filters, the access logs and the tracer. *)

(* A service that can be called when its cluster is there. *)
Servable(s) ==
  /\ DOMAIN s = {"role", "source", "ns", "hosts", "cluster", "broken"}
  /\ IsSeq(s.hosts) /\ s.hosts # <<>>
  /\ s.role # "auth" => Len(s.hosts) = 1

(* t is r with more errors and perhaps one service more. *)
Equips(r, t) ==
  /\ Whole(t) /\ r.errors \subseteq t.errors
  /\ t.filters = r.filters /\ t.clusters = r.clusters /\ t.groups = r.groups
  /\ \/ t.services = r.services
     \/ \E x : Servable(x) /\ x.role # "auth" /\ t.services = Append(r.services, x)

LEMMA ServiceObjectServable ==
  ASSUME NEW role, NEW source, NEW ns, NEW host
  PROVE  Servable(ServiceObject(role, source, ns, <<host>>))
         /\ ServiceObject(role, source, ns, <<host>>).role = role
<1>1. IsSeq(<<host>>) /\ Len(<<host>>) = 1 /\ <<host>> # <<>>
  BY SingletonIsSeq
<1> QED
  BY <1>1 DEF Servable, ServiceObject

LEMMA ServiceAdded ==
  ASSUME NEW r, NEW x, Whole(r), Servable(x), x.role # "auth"
  PROVE  Equips(r, [r EXCEPT !.services = Append(@, x)])
<1> DEFINE all == Append(r.services, x)
<1> HIDE DEF all
<1>1. Equips(r, [r EXCEPT !.services = all])
  BY DEF Equips, Whole, all
<1> QED
  BY <1>1 DEF all

LEMMA ErrorEquips ==
  ASSUME NEW r, Whole(r), NEW kind, NEW name
  PROVE  Equips(r, PostError(r, kind, name)) /\ Equips(r, r)
         /\ <<kind, name>> \in PostError(r, kind, name).errors
BY DEF Equips, Whole, PostError

LEMMA TracingEquips ==
  ASSUME NEW c, NEW r, Whole(r)
  PROVE  Equips(r, setup_tracing(c, r))
<1> DEFINE t == c.tracings[1]
           host == [service |-> t.service, grpc |-> t.driver = "opentelemetry", tls |-> ""]
           object == ServiceObject("tracing", t.name, t.ns, <<host>>)
           new == [r EXCEPT !.services = Append(@, object)]
           posted == PostError(r, "ir.tracing", "ir.tracing")
<1>1. setup_tracing(c, r) \in {r, new, posted}
  BY DEF setup_tracing
<1> HIDE DEF host
<1>2. Servable(object) /\ object.role # "auth"
  BY ServiceObjectServable
<1> HIDE DEF object
<1>3. Equips(r, new) /\ Equips(r, posted) /\ Equips(r, r)
  BY <1>2, ServiceAdded, ErrorEquips
<1> HIDE DEF new, posted
<1> QED
  BY <1>1, <1>3

LEMMA RateLimitEquips ==
  ASSUME NEW c, NEW r, Whole(r), IsSeq(r.services)
  PROVE  LET t == setup_ratelimit(c, r)
         IN  /\ Equips(r, t)
             /\ c.ratelimits # <<>> => \/ <<"ir.ratelimit", "ir.ratelimit">> \in t.errors
                                       \/ \E s \in Range(t.services) : s.role = "ratelimit"
<1> DEFINE rl == c.ratelimits[1]
           host == [service |-> rl.service, grpc |-> TRUE, tls |-> rl.tls]
           object == ServiceObject("ratelimit", rl.name, rl.ns, <<host>>)
           new == [r EXCEPT !.services = Append(@, object)]
<1>1. \/ setup_ratelimit(c, r) = r /\ c.ratelimits = <<>>
      \/ setup_ratelimit(c, r) \in {new, PostError(r, "ir.ratelimit", "ir.ratelimit")}
  BY DEF setup_ratelimit
<1> HIDE DEF host
<1>2. Servable(object) /\ object.role = "ratelimit"
  BY ServiceObjectServable
<1> HIDE DEF object
<1>3. Equips(r, new)
  BY <1>2, ServiceAdded
<1>4. Range(Append(r.services, object)) = Range(r.services) \cup {object}
  BY AppendFacts
<1>5. \E s \in Range(new.services) : s.role = "ratelimit"
  BY <1>2, <1>4 DEF Whole
<1> HIDE DEF new
<1> QED
  BY <1>1, <1>3, <1>5, ErrorEquips

LEMMA LogEquips ==
  ASSUME NEW r, NEW l, Whole(r)
  PROVE  Equips(r, load_log_service(r, l))
<1> DEFINE host == [service |-> l.service, grpc |-> l.grpc, tls |-> ""]
           object == ServiceObject("log", l.name, l.ns, <<host>>)
           new == [r EXCEPT !.services = Append(@, object)]
           posted == PostError(r, "ir.logservice", "ir.logservice")
<1>1. load_log_service(r, l)
        \in {r, new, posted, PostError(r, "ir", "logservice"), PostError(posted, "ir", "logservice")}
  BY DEF load_log_service
<1> HIDE DEF host
<1>2. Servable(object) /\ object.role # "auth"
  BY ServiceObjectServable
<1> HIDE DEF object
<1>3. Equips(r, new) /\ Equips(r, posted) /\ Equips(r, r) /\ Equips(r, PostError(r, "ir", "logservice"))
  BY <1>2, ServiceAdded, ErrorEquips
<1>4. Equips(r, PostError(posted, "ir", "logservice"))
  <2>1. Frame(r, posted)
    BY PostErrorFrame
  <2> HIDE DEF posted
  <2>2. Frame(posted, PostError(posted, "ir", "logservice"))
    BY <2>1, PostErrorFrame DEF Frame
  <2> QED
    BY <2>1, <2>2 DEF Frame, Equips
<1> HIDE DEF new, posted
<1> QED
  BY <1>1, <1>3, <1>4

LEMMA ExceptFacts ==
  ASSUME NEW s, IsSeq(s), NEW j \in DOMAIN s, NEW x, NEW new, new = [s EXCEPT ![j] = x]
  PROVE  /\ IsSeq(new) /\ Len(new) = Len(s) /\ DOMAIN new = DOMAIN s /\ new[j] = x
         /\ \A k \in DOMAIN s : k # j => new[k] = s[k]
<1>1. Len(s) \in Nat /\ DOMAIN s = 1 .. Len(s)
  BY IsSeqFacts
<1>2. /\ DOMAIN new = DOMAIN s /\ new[j] = x
      /\ \A k \in DOMAIN s : k # j => new[k] = s[k]
      /\ new = [k \in 1 .. Len(s) |-> new[k]]
  BY <1>1
<1>3. IsSeq(new) /\ Len(new) = Len(s)
  BY <1>1, <1>2, FunctionIsSeq
<1> QED
  BY <1>2, <1>3

(* AuthServices. *)
Blank(x) == x = ""

AuthWrong(x) ==
  \/ x.proto \notin {"", "http", "grpc"} \/ x.body = "both"
  \/ x.proto = "grpc" /\ x.version # "v3"

GoodAuth(v) ==
  /\ DOMAIN v.auth = {"role", "source", "ns", "hosts", "cluster", "broken"}
  /\ v.auth.role = "auth" /\ IsSeq(v.auth.hosts)

(* One AuthService more: errors stay with the source, which is the first's. *)
AfterAuth(v, x, w) ==
  /\ GoodAuth(w) /\ v.errors \subseteq w.errors /\ ~Blank(w.auth.source)
  /\ ~Blank(v.auth.source) => w.auth.source = v.auth.source
  /\ (v.auth.hosts # <<>> \/ x.service # NoService) => w.auth.hosts # <<>>
  /\ AuthWrong(x) => <<"AuthService", w.auth.source>> \in w.errors

LEMMA AuthTurn ==
  ASSUME NEW v, NEW x, GoodAuth(v), ~Blank(x.name)
  PROVE  AfterAuth(v, x, load_auth(v, x))
<1> DEFINE source == IF v.auth.source = "" THEN x.name ELSE v.auth.source
           proto == IF x.proto = "" THEN "http" ELSE x.proto
           conflict == \/ x.proto # "" /\ v.proto \notin {"", x.proto}
                       \/ x.prefix # "" /\ v.prefix \notin {"", x.prefix}
                       \/ x.timeout # 0 /\ v.timeout \notin {0, x.timeout}
           wrong == \/ proto \notin {"http", "grpc"}
                    \/ proto = "grpc" /\ x.version # "v3"
                    \/ x.body = "both"
           host == [service |-> x.service, grpc |-> proto = "grpc", tls |-> x.tls]
           old == v.auth.hosts
           at == {k \in DOMAIN old : old[k].service = x.service}
           j == CHOOSE k \in at : TRUE
           hosts == IF x.service = NoService THEN old
                    ELSE IF at = {} THEN Append(old, host)
                    ELSE [old EXCEPT ![j] = host]
           errors == v.errors \cup (IF conflict THEN {<<"AuthService", x.name>>} ELSE {})
                              \cup (IF wrong THEN {<<"AuthService", source>>} ELSE {})
           w == load_auth(v, x)
<1>1. /\ w.auth = ServiceObject("auth", source, x.ns, hosts) /\ w.errors = errors
  <2>1. w = [auth |-> ServiceObject("auth", source, x.ns, hosts), proto |-> proto,
             prefix |-> IF v.prefix = "" THEN x.prefix ELSE v.prefix,
             timeout |-> IF x.timeout = 0 THEN 5000 ELSE x.timeout, errors |-> errors]
    BY Zenon DEF load_auth
  <2> HIDE DEF w, hosts, errors, source
  <2> QED
    BY <2>1
<1>2. AuthWrong(x) => wrong
  BY DEF AuthWrong
<1>3. v.errors \subseteq errors /\ (AuthWrong(x) => <<"AuthService", source>> \in errors)
  <2> HIDE DEF wrong, conflict, source
  <2> QED
    BY <1>2
<1>4. ~Blank(source) /\ (~Blank(v.auth.source) => source = v.auth.source)
  BY Zenon DEF Blank
<1> HIDE DEF w, errors, source, host
<1>5. IsSeq(hosts) /\ (old # <<>> \/ x.service # NoService => hosts # <<>>)
  <2>0. IsSeq(old)
    BY DEF GoodAuth
  <2>1. CASE x.service = NoService
    BY <2>0, <2>1
  <2>2. CASE x.service # NoService /\ at = {}
    <3>1. hosts = Append(old, host)
      BY <2>2
    <3> HIDE DEF hosts, at, old
    <3>2. IsSeq(hosts) /\ Len(hosts) = Len(old) + 1 /\ Len(old) \in Nat
      BY <2>0, <3>1, AppendFacts
    <3>3. hosts # <<>>
      BY <3>2, EmptyIsSeq
    <3> QED
      BY <3>2, <3>3
  <2>3. CASE x.service # NoService /\ at # {}
    <3>1. j \in DOMAIN old
      BY <2>3
    <3>2. hosts = [old EXCEPT ![j] = host]
      BY <2>3
    <3> HIDE DEF hosts, at, j, old
    <3>3. IsSeq(hosts) /\ DOMAIN hosts = DOMAIN old
      BY <2>0, <3>1, <3>2, ExceptFacts
    <3> QED
      BY <3>1, <3>3, EmptyIsSeq
  <2> QED
    BY <2>1, <2>2, <2>3
<1> HIDE DEF hosts
<1>6. GoodAuth(w) /\ w.auth.source = source /\ w.auth.hosts = hosts
  <2>1. w.auth = [role |-> "auth", source |-> source, ns |-> x.ns, hosts |-> hosts,
                  cluster |-> <<>>, broken |-> FALSE]
    BY <1>1 DEF ServiceObject
  <2>2. /\ DOMAIN w.auth = {"role", "source", "ns", "hosts", "cluster", "broken"}
        /\ w.auth.role = "auth" /\ w.auth.source = source /\ w.auth.hosts = hosts
    BY <2>1
  <2> QED
    BY <1>5, <2>2 DEF GoodAuth
<1> QED
  BY <1>1, <1>3, <1>4, <1>5, <1>6 DEF w, AfterAuth

LEMMA AuthLoaded ==
  ASSUME NEW s, IsSeq(s), \A x \in Range(s) : ~Blank(x.name)
  PROVE  LET v == LoadAuths(NoAuth, s)
         IN  /\ GoodAuth(v)
             /\ (\E x \in Range(s) : x.service # NoService) => v.auth.hosts # <<>>
             /\ (\E x \in Range(s) : AuthWrong(x)) => <<"AuthService", v.auth.source>> \in v.errors
<1>1. PICK a : /\ a[0] = NoAuth /\ LoadAuths(NoAuth, s) = a[Len(s)]
               /\ \A i \in 1 .. Len(s) : a[i] = load_auth(a[i - 1], s[i])
  BY AuthLoop
<1>2. Len(s) \in Nat /\ DOMAIN s = 1 .. Len(s)
  BY IsSeqFacts
<1> DEFINE Good(i) == /\ GoodAuth(a[i]) /\ (i > 0 => ~Blank(a[i].auth.source))
                      /\ \A j \in 1 .. i : s[j].service # NoService => a[i].auth.hosts # <<>>
                      /\ \A j \in 1 .. i : AuthWrong(s[j]) => <<"AuthService", a[i].auth.source>> \in a[i].errors
           T == {i \in 0 .. Len(s) : Good(i)}
<1>3. 0 \in T
  <2>1. GoodAuth(NoAuth)
    BY EmptyIsSeq DEF GoodAuth, NoAuth, ServiceObject
  <2>2. Good(0)
    BY <1>1, <2>1
  <2> HIDE DEF Good
  <2> QED
    BY <1>2, <2>2
<1>4. ASSUME NEW k \in 0 .. Len(s), k < Len(s), k \in T PROVE k + 1 \in T
  <2>1. Good(k) /\ k \in Nat /\ k + 1 \in 1 .. Len(s) /\ (k + 1) - 1 = k
    <3> HIDE DEF Good
    <3> QED
      BY <1>2, <1>4
  <2>2. a[k + 1] = load_auth(a[k], s[k + 1])
    BY <1>1, <2>1
  <2>3. ~Blank(s[k + 1].name)
    BY <1>2, <2>1 DEF Range
  <2>4. /\ GoodAuth(a[k + 1]) /\ a[k].errors \subseteq a[k + 1].errors /\ ~Blank(a[k + 1].auth.source)
        /\ ~Blank(a[k].auth.source) => a[k + 1].auth.source = a[k].auth.source
        /\ (a[k].auth.hosts # <<>> \/ s[k + 1].service # NoService) => a[k + 1].auth.hosts # <<>>
        /\ AuthWrong(s[k + 1]) => <<"AuthService", a[k + 1].auth.source>> \in a[k + 1].errors
    <3>1. GoodAuth(a[k])
      BY <2>1
    <3> HIDE DEF Good, T
    <3>2. AfterAuth(a[k], s[k + 1], a[k + 1])
      BY <2>2, <2>3, <3>1, AuthTurn
    <3> QED
      BY <3>2 DEF AfterAuth
  <2>5. ASSUME NEW j \in 1 .. k + 1
        PROVE  /\ s[j].service # NoService => a[k + 1].auth.hosts # <<>>
               /\ AuthWrong(s[j]) => <<"AuthService", a[k + 1].auth.source>> \in a[k + 1].errors
    <3>1. CASE j = k + 1
      BY <2>4, <3>1
    <3>2. CASE j # k + 1
      <4>1. j \in 1 .. k /\ k > 0
        BY <2>1, <3>2
      <4> QED
        BY <2>1, <2>4, <4>1
    <3> QED
      BY <3>1, <3>2
  <2>6. Good(k + 1)
    BY <2>4, <2>5
  <2> HIDE DEF Good
  <2> QED
    BY <2>1, <2>6
<1>5. Len(s) \in T
  <2> HIDE DEF T
  <2> QED
    BY <1>2, <1>3, <1>4, AtLast
<1>6. Good(Len(s))
  <2> HIDE DEF Good
  <2> QED
    BY <1>5
<1> QED
  BY <1>1, <1>2, <1>6 DEF Range

(* What the list of filters guards, once it is complete. *)
GuardsOf(r) == {r.filters[i] : i \in 1 .. (Len(r.filters) - 1)}

Guarded(c, r) ==
  /\ IsSeq(r.filters) /\ Len(r.filters) >= 1 /\ r.filters[Len(r.filters)] = "router"
  /\ "router" \notin GuardsOf(r)
  /\ IPAsked(c.module) => "ip_allow_deny" \in GuardsOf(r) \/ Stopped(r)
  /\ c.ratelimits # <<>> => \/ "ratelimit" \in GuardsOf(r)
                            \/ <<"ir.ratelimit", "ir.ratelimit">> \in r.errors
  /\ AuthAsked(c) => "extauth" \in GuardsOf(r)
  /\ "extauth" \in GuardsOf(r) => \E s \in Range(r.services) : s.role = "auth"
  /\ "ratelimit" \in GuardsOf(r) => \E s \in Range(r.services) : s.role = "ratelimit"
  /\ AuthMisconfigured(c) => \A s \in Range(r.services) :
                               s.role = "auth" => <<"AuthService", s.source>> \in r.errors

RateLimited(c, r) ==
  c.ratelimits # <<>> => \/ <<"ir.ratelimit", "ir.ratelimit">> \in r.errors
                         \/ \E s \in Range(r.services) : s.role = "ratelimit"

(* The services there are before the filters are. *)
Equipped(r) ==
  IsSeq(r.services) /\ \A s \in Range(r.services) : Servable(s) /\ s.role # "auth"

LEMMA FiltersSaved ==
  ASSUME NEW c, NEW r, c \in Configs, Whole(r), ModuleFilters(c, r), RateLimited(c, r), Equipped(r)
  PROVE  LET t == save_filters(c, r)
         IN  /\ Whole(t) /\ r.errors \subseteq t.errors /\ t.clusters = r.clusters /\ t.groups = r.groups
             /\ IsSeq(t.services) /\ \A s \in Range(t.services) : Servable(s)
             /\ Guarded(c, t)
<1> DEFINE v == LoadAuths(NoAuth, c.auths)
           cors == Append(r.filters, "cors")
           at == [r EXCEPT !.filters = cors]
           active == v.auth.hosts # <<>>
           services == IF active THEN Append(r.services, v.auth) ELSE r.services
           authed == IF active THEN Append(cors, "extauth") ELSE cors
           limited == \E s \in Range(services) : s.role = "ratelimit"
           opt == IF limited THEN <<"ratelimit">> ELSE <<>>
           guards == authed \o opt
           filters == guards \o <<"router">>
           errors == r.errors \cup v.errors
           t == save_filters(c, r)
<1>1. /\ GoodAuth(v) /\ (AuthAsked(c) => active)
      /\ AuthMisconfigured(c) => <<"AuthService", v.auth.source>> \in v.errors
  <2>1. IsSeq(c.auths) /\ \A x \in Range(c.auths) : ~Blank(x.name)
    BY ConfigAssumption DEF IsSeq, Blank
  <2> HIDE DEF v
  <2> QED
    BY <2>1, AuthLoaded DEF v, AuthAsked, AuthMisconfigured, AuthWrong
<1>2. setup_auth(c, at) = [at EXCEPT !.services = services, !.filters = authed, !.errors = errors]
  <2>1. Loop(load_auth, NoAuth, c.auths) = v
    BY DEF LoadAuths
  <2>2. at.services = r.services /\ at.filters = cors /\ at.errors = r.errors
    BY DEF Whole
  <2> HIDE DEF v, at, cors
  <2> QED
    BY <2>1, <2>2 DEF setup_auth
<1> HIDE DEF v, authed, services, errors, cors
<1> DEFINE s1 == setup_auth(c, at)
<1>3. Whole(s1) /\ s1.services = services /\ s1.filters = authed /\ s1.errors = errors
      /\ s1.clusters = r.clusters /\ s1.groups = r.groups
  BY <1>2 DEF Whole
<1>4. t = [s1 EXCEPT !.filters = filters]
  <2>1. t = [s1 EXCEPT !.filters = @ \o (IF \E s \in Range(s1.services) : s.role = "ratelimit"
                                         THEN <<"ratelimit">> ELSE <<>>) \o <<"router">>]
    BY DEF save_filters, at, cors
  <2> HIDE DEF s1, t
  <2> QED
    BY <1>3, <2>1
<1> HIDE DEF t, s1, filters, at
<1>5. /\ Whole(t) /\ t.services = services /\ t.filters = filters /\ t.errors = errors
      /\ t.clusters = r.clusters /\ t.groups = r.groups
  BY <1>3, <1>4 DEF Whole
<1>6. IsSeq(cors) /\ Range(cors) = Range(r.filters) \cup {"cors"}
  BY AppendFacts DEF ModuleFilters, cors
<1>7. IsSeq(authed) /\ Range(authed) = Range(r.filters) \cup {"cors"} \cup IF active THEN {"extauth"} ELSE {}
  <2>1. IsSeq(Append(cors, "extauth")) /\ Range(Append(cors, "extauth")) = Range(cors) \cup {"extauth"}
    BY <1>6, AppendFacts
  <2> HIDE DEF active
  <2> QED
    BY <1>6, <2>1 DEF authed
<1>8. IsSeq(opt) /\ Range(opt) = IF limited THEN {"ratelimit"} ELSE {}
  <2> HIDE DEF limited
  <2> QED
    BY EmptyIsSeq, SingletonIsSeq
<1> HIDE DEF opt
<1>9. Joins(guards, authed, opt)
  BY <1>7, <1>8, Concatenated, Zenon
<1>10. IsSeq(<<"router">>) /\ Len(<<"router">>) = 1 /\ <<"router">>[1] = "router"
  BY SingletonIsSeq
<1> HIDE DEF guards
<1>11. IsSeq(guards)
  BY <1>9 DEF Joins
<1>12. Joins(filters, guards, <<"router">>)
  BY <1>10, <1>11, Concatenated, Zenon DEF filters
<1>13. /\ IsSeq(filters) /\ Len(filters) >= 1 /\ filters[Len(filters)] = "router"
       /\ {filters[i] : i \in 1 .. (Len(filters) - 1)} = Range(guards)
  <2>1. Len(filters) = Len(guards) + 1 /\ Len(guards) \in Nat /\ DOMAIN guards = 1 .. Len(guards)
    BY <1>10, <1>12 DEF Joins
  <2>2. filters[Len(guards) + 1] = "router"
    BY <1>10, <1>12 DEF Joins
  <2>3. \A i \in DOMAIN guards : filters[i] = guards[i]
    BY <1>12 DEF Joins
  <2>4. 1 .. (Len(filters) - 1) = DOMAIN guards
    BY <2>1
  <2> QED
    BY <1>12, <2>1, <2>2, <2>3, <2>4 DEF Joins, Range
<1>14. Range(guards) = Range(r.filters) \cup {"cors"} \cup (IF active THEN {"extauth"} ELSE {})
                       \cup IF limited THEN {"ratelimit"} ELSE {}
  <2> HIDE DEF active, limited
  <2> QED
    BY <1>7, <1>8, <1>9 DEF Joins
<1>15. GuardsOf(t) = Range(r.filters) \cup {"cors"} \cup (IF active THEN {"extauth"} ELSE {})
                     \cup IF limited THEN {"ratelimit"} ELSE {}
  BY <1>5, <1>13, <1>14 DEF GuardsOf
<1>16. /\ IsSeq(services) /\ \A s \in Range(services) : Servable(s)
       /\ \A s \in Range(r.services) : s \in Range(services)
       /\ active => v.auth \in Range(services)
       /\ \A s \in Range(services) : s.role = "auth" => s = v.auth
  <2>1. CASE active
    <3>1. Servable(v.auth)
      BY <1>1, <2>1 DEF GoodAuth, Servable
    <3>2. IsSeq(services) /\ Range(services) = Range(r.services) \cup {v.auth}
      BY <2>1, AppendFacts DEF services, Equipped
    <3> QED
      BY <3>1, <3>2 DEF Equipped
  <2>2. CASE ~active
    BY <2>2 DEF services, Equipped
  <2> QED
    BY <2>1, <2>2
<1>17. Range(r.filters) \subseteq {"grpc_web", "buffer", "ip_allow_deny"}
  BY DEF ModuleFilters
<1> DEFINE isActive == active
<1> HIDE DEF active
<1>18. /\ "router" \notin GuardsOf(t)
       /\ "extauth" \in GuardsOf(t) <=> active
       /\ "ratelimit" \in GuardsOf(t) <=> limited
       /\ \A f \in Range(r.filters) : f \in GuardsOf(t)
  <2> HIDE DEF limited
  <2> QED
    BY <1>15, <1>17
<1>19. IPAsked(c.module) => "ip_allow_deny" \in GuardsOf(t) \/ Stopped(t)
  BY <1>5, <1>18 DEF ModuleFilters, Stopped, errors
<1>20. c.ratelimits # <<>> => \/ "ratelimit" \in GuardsOf(t)
                              \/ <<"ir.ratelimit", "ir.ratelimit">> \in t.errors
  BY <1>5, <1>16, <1>18 DEF RateLimited, errors
<1>21. active => \E s \in Range(services) : s.role = "auth"
  BY <1>1, <1>16 DEF GoodAuth
<1>22. AuthMisconfigured(c) => \A s \in Range(services) :
                                 s.role = "auth" => <<"AuthService", s.source>> \in t.errors
  BY <1>1, <1>5, <1>16 DEF errors
<1>23. Guarded(c, t)
  BY <1>1, <1>5, <1>13, <1>18, <1>19, <1>20, <1>21, <1>22 DEF Guarded
<1> QED
  BY <1>5, <1>16, <1>23 DEF t, errors

-----------------------------------------------------------------------------
(* The clusters of the services. *)

ClusterNames(r) == {r.clusters[k].name : k \in DOMAIN r.clusters}

Shaped(x) == {"name", "envoy_name"} \subseteq DOMAIN x

ClustersOk(r) == IsSeq(r.clusters) /\ \A k \in DOMAIN r.clusters : Shaped(r.clusters[k])

(* t is r with more errors and more clusters. *)
Extends(r, t) ==
  /\ Whole(t) /\ r.errors \subseteq t.errors
  /\ t.filters = r.filters /\ t.services = r.services /\ t.groups = r.groups
  /\ ClustersOk(t) /\ ClusterNames(r) \subseteq ClusterNames(t)

LEMMA FrameExtends ==
  ASSUME NEW r, NEW t, Frame(r, t), ClustersOk(r)
  PROVE  Extends(r, t)
BY DEF Frame, Extends, ClusterNames, ClustersOk

LEMMA ExtendsTwice ==
  ASSUME NEW r, NEW s, NEW t, Extends(r, s), Extends(s, t)
  PROVE  Extends(r, t)
BY DEF Extends

LEMMA NoteFrame ==
  ASSUME NEW r, NEW x, Whole(r)
  PROVE  Frame(r, note_cluster(r, x))
<1> DEFINE s == IF x.ctx = -1 THEN null_context(r) ELSE r
<1>1. Frame(r, s)
  BY NullContextFrame, FrameSelf
<1>2. note_cluster(r, x) \in {s, PostError(s, "Cluster", x.host)}
  BY DEF note_cluster
<1> HIDE DEF s
<1>3. Frame(s, PostError(s, "Cluster", x.host))
  BY <1>1, PostErrorFrame DEF Frame
<1> QED
  BY <1>1, <1>2, <1>3, FrameTwice

LEMMA NotedAll ==
  ASSUME NEW r, NEW s, Whole(r)
  PROVE  Frame(r, NoteClusters(r, s))
<1>1. PICK a : /\ a[0] = r /\ NoteClusters(r, s) = a[Len(s)]
               /\ \A i \in 1 .. Len(s) : a[i] = note_cluster(a[i - 1], s[i])
  BY NoteLoop
<1> DEFINE m == Len(s)
           T == {i \in 0 .. m : Frame(r, a[i])}
<1>2. m \in Nat
  OBVIOUS
<1> HIDE DEF m
<1>3. 0 \in T
  BY <1>1, <1>2, FrameSelf
<1>4. ASSUME NEW k \in 0 .. m, k < m, k \in T PROVE k + 1 \in T
  <2>1. k + 1 \in 1 .. m /\ (k + 1) - 1 = k /\ Frame(r, a[k])
    BY <1>2, <1>4
  <2>2. a[k + 1] = note_cluster(a[k], s[k + 1])
    BY <1>1, <2>1 DEF m
  <2>3. Frame(a[k], a[k + 1])
    BY <2>1, <2>2, NoteFrame DEF Frame
  <2>4. Frame(r, a[k + 1])
    BY <2>1, <2>3, FrameTwice
  <2> QED
    BY <2>1, <2>4
<1>5. m \in T
  <2> HIDE DEF T
  <2> QED
    BY <1>2, <1>3, <1>4, AtLast
<1> QED
  BY <1>1, <1>5 DEF m

LEMMA ClusterAdded ==
  ASSUME NEW r, NEW x, Whole(r), ClustersOk(r), Shaped(x)
  PROVE  Extends(r, add_cluster(r, x)) /\ x.name \in ClusterNames(add_cluster(r, x))
<1> DEFINE noted == note_cluster(r, x)
           there == \E k \in DOMAIN r.clusters : r.clusters[k].name = x.name
           new == Append(r.clusters, x)
           t == add_cluster(r, x)
<1>1. Frame(r, noted)
  BY NoteFrame
<1>2. t = IF there THEN noted ELSE [noted EXCEPT !.clusters = Append(@, x)]
  BY DEF add_cluster
<1>3. /\ IsSeq(new) /\ Len(r.clusters) \in Nat /\ DOMAIN r.clusters = 1 .. Len(r.clusters)
      /\ DOMAIN new = 1 .. Len(r.clusters) + 1
      /\ \A i \in 1 .. Len(r.clusters) : new[i] = r.clusters[i]
      /\ new[Len(r.clusters) + 1] = x
  BY AppendFacts DEF ClustersOk
<1>4. CASE there
  <2>1. t = noted
    BY <1>2, <1>4
  <2> HIDE DEF t, noted
  <2>2. x.name \in ClusterNames(t)
    BY <1>1, <1>4, <2>1 DEF Frame, ClusterNames
  <2> QED
    BY <1>1, <2>1, <2>2, FrameExtends DEF t
<1>5. CASE ~there
  <2>1. t = [noted EXCEPT !.clusters = new]
    BY <1>1, <1>2, <1>5 DEF Frame
  <2> HIDE DEF t, noted, new
  <2>2. /\ Whole(t) /\ r.errors \subseteq t.errors
        /\ t.filters = r.filters /\ t.services = r.services /\ t.clusters = new
        /\ t.groups = r.groups
    BY <1>1, <2>1 DEF Frame, Whole
  <2>3. ClusterNames(r) \subseteq ClusterNames(t) /\ x.name \in ClusterNames(t)
    <3>1. \A i \in DOMAIN r.clusters : i \in DOMAIN new /\ new[i] = r.clusters[i]
      BY <1>3
    <3>2. \E i \in DOMAIN new : new[i] = x
      BY <1>3
    <3> QED
      BY <2>2, <3>1, <3>2 DEF ClusterNames
  <2>4. \A i \in DOMAIN new : Shaped(new[i])
    <3> TAKE i \in DOMAIN new
    <3>1. i \in 1 .. Len(r.clusters) \/ i = Len(r.clusters) + 1
      BY <1>3
    <3> QED
      BY <1>3, <3>1 DEF ClustersOk
  <2>5. ClustersOk(t)
    BY <1>3, <2>2, <2>4 DEF ClustersOk
  <2> QED
    BY <2>2, <2>3, <2>5 DEF Extends, t
<1> QED
  BY <1>4, <1>5

LEMMA AddedAll ==
  ASSUME NEW r, NEW s, Whole(r), ClustersOk(r), \A i \in 1 .. Len(s) : Shaped(s[i])
  PROVE  Extends(r, AddClusters(r, s))
<1>1. PICK a : /\ a[0] = r /\ AddClusters(r, s) = a[Len(s)]
               /\ \A i \in 1 .. Len(s) : a[i] = add_cluster(a[i - 1], s[i])
  BY ClusterLoop
<1> DEFINE m == Len(s)
           T == {i \in 0 .. m : Extends(r, a[i])}
<1>2. m \in Nat
  OBVIOUS
<1> HIDE DEF m
<1>3. 0 \in T
  BY <1>1, <1>2, FrameSelf, FrameExtends
<1>4. ASSUME NEW k \in 0 .. m, k < m, k \in T PROVE k + 1 \in T
  <2>1. k + 1 \in 1 .. m /\ (k + 1) - 1 = k /\ Extends(r, a[k])
    BY <1>2, <1>4
  <2>2. a[k + 1] = add_cluster(a[k], s[k + 1])
    BY <1>1, <2>1 DEF m
  <2>3. Extends(a[k], a[k + 1])
    BY <2>1, <2>2, ClusterAdded DEF Extends, m
  <2>4. Extends(r, a[k + 1])
    BY <2>1, <2>3, ExtendsTwice
  <2> QED
    BY <2>1, <2>4
<1>5. m \in T
  <2> HIDE DEF T
  <2> QED
    BY <1>2, <1>3, <1>4, AtLast
<1> QED
  BY <1>1, <1>5 DEF m

(* The hosts of a service end in a cluster that is good, or in one in error. *)
MergeInv(v) ==
  /\ DOMAIN v = {"kept", "broken", "good", "errors"} /\ Shaped(v.kept)
  /\ v.good = TRUE \/ (v.good = FALSE /\ v.broken = TRUE)

LEMMA MergeTurn ==
  ASSUME NEW source, NEW v, NEW x, DOMAIN v = {"kept", "broken", "good", "errors"},
         v.kept = <<>> \/ Shaped(v.kept), Shaped(x)
  PROVE  MergeInv(merge_cluster(source, v, x))
<1> DEFINE w == merge_cluster(source, v, x)
           merged == [v.kept EXCEPT !.merged = Append(@, <<x.host, x.port>>)]
           refusals == {<<"AuthService", source>>, <<"Cluster", v.kept.host>>}
<1>1. \/ w = [kept |-> x, broken |-> x.ignored, good |-> TRUE, errors |-> v.errors]
      \/ v.kept # <<>> /\ w = [v EXCEPT !.kept = merged, !.good = TRUE]
      \/ v.kept # <<>> /\ w = [v EXCEPT !.broken = TRUE, !.good = FALSE, !.errors = refusals]
  <2> HIDE DEF w
  <2> QED
    BY DEF merge_cluster, w
<1>a. Shaped(v.kept) => Shaped(merged)
  BY DEF Shaped
<1> HIDE DEF w, merged, refusals
<1>2. MergeInv(w)
  <2>1. CASE w = [kept |-> x, broken |-> x.ignored, good |-> TRUE, errors |-> v.errors]
    BY <2>1 DEF MergeInv
  <2>2. CASE v.kept # <<>> /\ w = [v EXCEPT !.kept = merged, !.good = TRUE]
    BY <1>a, <2>2 DEF MergeInv
  <2>3. CASE v.kept # <<>> /\ w = [v EXCEPT !.broken = TRUE, !.good = FALSE, !.errors = refusals]
    BY <2>3 DEF MergeInv
  <2> QED
    BY <1>1, <2>1, <2>2, <2>3
<1> QED
  BY <1>2 DEF w

LEMMA Merged ==
  ASSUME NEW source, NEW s, Len(s) >= 1, \A i \in 1 .. Len(s) : Shaped(s[i])
  PROVE  LET v == MergeClusters(source, NoCluster, s)
         IN  MergeInv(v) /\ (Len(s) = 1 => v.good = TRUE)
<1>1. PICK a : /\ a[0] = NoCluster /\ MergeClusters(source, NoCluster, s) = a[Len(s)]
               /\ \A i \in 1 .. Len(s) : a[i] = merge_cluster(source, a[i - 1], s[i])
  BY MergeLoop
<1> DEFINE m == Len(s)
           T == {i \in 0 .. m : DOMAIN a[i] = {"kept", "broken", "good", "errors"}
                                /\ (a[i].kept = <<>> \/ Shaped(a[i].kept))
                                /\ (i >= 1 => MergeInv(a[i]))}
<1>2. m \in Nat /\ m >= 1
  OBVIOUS
<1> HIDE DEF m
<1>3. 0 \in T
  BY <1>1, <1>2 DEF NoCluster
<1>4. ASSUME NEW k \in 0 .. m, k < m, k \in T PROVE k + 1 \in T
  <2>1. k + 1 \in 1 .. m /\ (k + 1) - 1 = k /\ DOMAIN a[k] = {"kept", "broken", "good", "errors"}
        /\ (a[k].kept = <<>> \/ Shaped(a[k].kept))
    BY <1>2, <1>4
  <2>2. a[k + 1] = merge_cluster(source, a[k], s[k + 1])
    BY <1>1, <2>1 DEF m
  <2>3. MergeInv(a[k + 1])
    BY <2>1, <2>2, MergeTurn DEF m
  <2> QED
    BY <2>1, <2>3 DEF MergeInv
<1>5. m \in T
  <2> HIDE DEF T
  <2> QED
    BY <1>2, <1>3, <1>4, AtLast
<1>6. MergeInv(a[m])
  BY <1>2, <1>5
<1>7. m = 1 => a[m].good = TRUE
  <2> SUFFICES ASSUME m = 1 PROVE a[1].good = TRUE
    OBVIOUS
  <2>1. a[1] = merge_cluster(source, NoCluster, s[1])
    BY <1>1 DEF m
  <2>2. NoCluster.kept = <<>>
    BY DEF NoCluster
  <2>3. a[1] = [kept |-> s[1], broken |-> s[1].ignored, good |-> TRUE, errors |-> NoCluster.errors]
    BY <2>1, <2>2 DEF merge_cluster
  <2> QED
    BY <2>3
<1> QED
  BY <1>1, <1>6, <1>7 DEF m

-----------------------------------------------------------------------------
(* Mappings and their groups. *)

MappingOk(m) == {"weight", "cluster", "cumulative"} \subseteq DOMAIN m /\ m.weight \in Int

GroupOk(g) ==
  /\ DOMAIN g = {"id", "kind", "internal", "name", "group_weight", "core", "mappings",
                 "host_redirect", "shadows", "errored", "host", "port", "redirectHost", "regex",
                 "labels"}
  /\ IsSeq(g.mappings) /\ IsSeq(g.shadows)
  /\ \A k \in DOMAIN g.mappings : MappingOk(g.mappings[k])

GroupsOk(gs) == IsSeq(gs) /\ \A k \in DOMAIN gs : GroupOk(gs[k])

WeightOk(config) == "weight" \in DOMAIN config /\ config.weight \in Int

MadeOf(config, name, regex, cb, service, active, errored, id, weight) ==
  Over([config EXCEPT !.resolver = name, !.regex = regex, !.cb = cb, !.service = service],
       [active |-> active, errored |-> errored, host_regex |-> config.regex, group_id |-> id,
        route_weight |-> weight, cluster |-> <<>>, cumulative |-> 0])

LEMMA MappingSetUp ==
  ASSUME NEW c, NEW r, NEW config, WeightOk(config)
  PROVE  MappingOk(setup_mapping(c, r, config))
<1>1. PICK name, regex, cb, service, active, errored, id, weight :
        setup_mapping(c, r, config) = MadeOf(config, name, regex, cb, service, active, errored, id, weight)
  <2> DEFINE name == IF config.resolver # "" THEN config.resolver ELSE c.defaultResolver
             q == get_resolver(r, name)
             regex == config.regex /\ config.hostBy = "host"
             cb == IF config.cb = "" THEN c.defaultCb ELSE config.cb
             service == normalize_service_name(c, config.service, config.ns,
                          IF q.active THEN q.kind ELSE "KubernetesBogusResolver")
             m == [config EXCEPT !.resolver = name, !.regex = regex, !.cb = cb, !.service = service]
             hopeless == m.kind = "Mapping" /\ m.hostBy = "host" /\ ~m.regex /\ "*" \in Range(m.host)
             good == /\ ~hopeless
                     /\ q.active /\ valid_mapping(q, m)
                     /\ m.cb # "bad" /\ m.lb # "bad" /\ m.retry # "bad"
             errored == ~good \/ m.service.host = <<>>
             id == GroupId(c, r, m)
             weight == RouteWeight(m)
  <2>1. setup_mapping(c, r, config) = MadeOf(config, name, regex, cb, service, good, errored, id, weight)
    BY Zenon DEF setup_mapping, MadeOf
  <2> HIDE DEF name, q, regex, cb, service, good, errored, id, weight
  <2> QED
    BY <2>1
<1> DEFINE f == [config EXCEPT !.resolver = name, !.regex = regex, !.cb = cb, !.service = service]
           g == [active |-> active, errored |-> errored, host_regex |-> config.regex, group_id |-> id,
                 route_weight |-> weight, cluster |-> <<>>, cumulative |-> 0]
           m == setup_mapping(c, r, config)
<1>2. "weight" \in DOMAIN f /\ f["weight"] = config.weight
  BY DEF WeightOk
<1>3. "cluster" \in DOMAIN g /\ "cumulative" \in DOMAIN g
  OBVIOUS
<1>4. m = Over(f, g)
  BY <1>1 DEF MadeOf
<1> HIDE DEF f, g, m
<1>5. DOMAIN m = DOMAIN f \cup DOMAIN g /\ m["weight"] = f["weight"]
  BY <1>2, <1>4 DEF Over
<1> QED
  BY <1>2, <1>3, <1>5 DEF MappingOk, m, WeightOk

(* The Mappings of the configuration and the probes have weights. *)
LEMMA ProbesOk ==
  ASSUME NEW c, NEW i \in DOMAIN ProbeMappings(c)
  PROVE  WeightOk(ProbeMappings(c)[i])
<1> DEFINE blank == ""
           name == c.probes[i]
           d == MappingDefaults
<1>1. d = [kind |-> "Mapping", name |-> blank, service |-> NoService, ns |-> AmbassadorNamespace,
           prefix |-> <<>>, exact |-> FALSE, host |-> <<>>, hostBy |-> "hostname", regex |-> FALSE,
           xfp |-> blank, precedence |-> 0, weight |-> -1, resolver |-> blank, tls |-> blank,
           labels |-> <<>>, shadow |-> FALSE, redirect |-> FALSE, lb |-> blank, cb |-> blank,
           timeout |-> 0, tag |-> blank, health |-> "none", port |-> 0, grpc |-> FALSE,
           retry |-> "none", host_rewrite |-> <<>>]
  BY Zenon DEF MappingDefaults
<1> HIDE DEF blank, d
<1>2. WeightOk(d)
  BY <1>1 DEF WeightOk
<1>3. PICK prefix, host, service :
        ProbeMappings(c)[i] = [d EXCEPT !.name = name, !.prefix = prefix, !.host = host, !.service = service]
  <2> DEFINE prefix == <<"ambassador", name>>
             service == [scheme |-> blank, host |-> <<"127", "0", "0", "1">>, port |-> 8877]
             made == [d EXCEPT !.name = name, !.prefix = prefix, !.host = Star, !.service = service]
  <2>1. ProbeMappings(c) = [j \in DOMAIN c.probes |->
          [d EXCEPT !.name = c.probes[j], !.prefix = <<"ambassador", c.probes[j]>>, !.host = Star,
                    !.service = service]]
    BY Zenon DEF ProbeMappings, d, blank
  <2> HIDE DEF service
  <2>2. ProbeMappings(c)[i] = made
    BY <2>1
  <2> HIDE DEF prefix
  <2> QED
    BY <2>2
<1> QED
  BY <1>2, <1>3 DEF WeightOk

LEMMA ProbesFunction ==
  ASSUME NEW c
  PROVE  ProbeMappings(c) = [j \in DOMAIN c.probes |-> ProbeMappings(c)[j]]
<1> DEFINE body(j) == [MappingDefaults EXCEPT
                         !.name = c.probes[j], !.prefix = <<"ambassador", c.probes[j]>>, !.host = Star,
                         !.service = [scheme |-> "", host |-> <<"127", "0", "0", "1">>, port |-> 8877]]
           ps == ProbeMappings(c)
<1>1. ps = [j \in DOMAIN c.probes |-> body(j)]
  BY Zenon DEF ProbeMappings
<1> HIDE DEF ps, body
<1>2. ps = [j \in DOMAIN c.probes |-> ps[j]]
  BY <1>1
<1> QED
  BY <1>2 DEF ps

LEMMA LoadedMappingsOk ==
  ASSUME NEW c \in Configs, NEW k \in Nat,
         k < Len(c.mappings \o c.tcpmappings \o ProbeMappings(c))
  PROVE  WeightOk((c.mappings \o c.tcpmappings \o ProbeMappings(c))[k + 1])
<1> DEFINE i == k + 1
           ms == c.mappings
           ts == c.tcpmappings
           ps == ProbeMappings(c)
           first == ms \o ts
           all == first \o ps
<1>1. IsSeq(ms) /\ IsSeq(ts) /\ IsSeq(c.probes)
  BY ConfigAssumption DEF IsSeq
<1>2. \A m \in Range(ms) \cup Range(ts) : WeightOk(m)
  BY ConfigAssumption DEF WeightOk
<1>3. \A j \in DOMAIN ps : WeightOk(ps[j])
  BY ProbesOk
<1>4. IsSeq(ps)
  <2>1. DOMAIN c.probes = 1 .. Len(c.probes) /\ Len(c.probes) \in Nat
    BY <1>1, IsSeqFacts
  <2>2. ps = [j \in DOMAIN c.probes |-> ps[j]]
    BY ProbesFunction
  <2> HIDE DEF ps
  <2> QED
    BY <2>1, <2>2, FunctionIsSeq
<1> HIDE DEF ps
<1>5. Joins(first, ms, ts)
  BY <1>1, Concatenated, Zenon
<1> HIDE DEF first
<1>a. IsSeq(first)
  BY <1>5 DEF Joins
<1>6. Joins(all, first, ps)
  BY <1>4, <1>a, Concatenated, Zenon
<1>b. k < Len(all)
  BY Zenon DEF first, ps
<1> HIDE DEF all
<1>7. i \in 1 .. Len(all)
  BY <1>6, <1>b DEF Joins
<1> HIDE DEF i
<1>8. WeightOk(all[i])
  <2>1. i \in DOMAIN all
    BY <1>6, <1>7 DEF Joins
  <2>2. CASE i <= Len(first)
    <3>1. i \in DOMAIN first /\ all[i] = first[i]
      BY <1>6, <2>1, <2>2 DEF Joins
    <3>2. first[i] \in Range(ms) \cup Range(ts)
      BY <1>5, <3>1 DEF Joins, Range
    <3> QED
      BY <1>2, <3>1, <3>2
  <2>3. CASE ~(i <= Len(first))
    <3>1. i - Len(first) \in DOMAIN ps /\ all[i] = ps[i - Len(first)]
      BY <1>6, <2>1, <2>3 DEF Joins
    <3> QED
      BY <1>3, <3>1
  <2> QED
    BY <2>2, <2>3
<1> QED
  BY <1>8, Zenon DEF all, first, ps, i

LEMMA NewGroupOk ==
  ASSUME NEW m
  PROVE  GroupOk(NewGroup(m))
<1> DEFINE internal == m.name \in {"diagnostics", "liveness", "readiness"}
           host == IF m.kind = "TCPMapping" THEN m.host ELSE <<>>
           g == NewGroup(m)
<1>1. g = [id |-> m.group_id, kind |-> m.kind, internal |-> internal,
           name |-> m.name, group_weight |-> m.route_weight, core |-> m, mappings |-> <<>>,
           host_redirect |-> <<>>, shadows |-> <<>>, errored |-> FALSE,
           host |-> host, port |-> m.port,
           redirectHost |-> <<>>, regex |-> FALSE, labels |-> <<>>]
  BY DEF NewGroup
<1> HIDE DEF g, internal, host
<1>2. g.mappings = <<>> /\ g.shadows = <<>>
      /\ DOMAIN g = {"id", "kind", "internal", "name", "group_weight", "core", "mappings",
                     "host_redirect", "shadows", "errored", "host", "port", "redirectHost", "regex",
                     "labels"}
  BY <1>1
<1> QED
  BY <1>2, EmptyIsSeq DEF GroupOk, g

LEMMA GroupAdd ==
  ASSUME NEW g, NEW m, GroupOk(g), MappingOk(m)
  PROVE  GroupOk(group_add_mapping(g, m))
<1> DEFINE t == group_add_mapping(g, m)
           all == Append(g.mappings, m)
           one == <<m>>
           e == g.errored \/ m.redirect
<1>1. t \in {[g EXCEPT !.errored = TRUE], [g EXCEPT !.shadows = one, !.errored = e],
             [g EXCEPT !.host_redirect = one], [g EXCEPT !.mappings = all]}
  BY DEF group_add_mapping
<1>2. IsSeq(one)
  BY SingletonIsSeq
<1>3. /\ IsSeq(all) /\ Len(g.mappings) \in Nat /\ DOMAIN g.mappings = 1 .. Len(g.mappings)
      /\ DOMAIN all = 1 .. Len(g.mappings) + 1
      /\ \A i \in 1 .. Len(g.mappings) : all[i] = g.mappings[i]
      /\ all[Len(g.mappings) + 1] = m
  BY AppendFacts DEF GroupOk
<1> HIDE DEF t, all, one, e
<1>4. ASSUME NEW i \in DOMAIN all PROVE MappingOk(all[i])
  <2>1. i \in 1 .. Len(g.mappings) \/ i = Len(g.mappings) + 1
    BY <1>3
  <2> QED
    BY <1>3, <2>1 DEF GroupOk
<1>5. CASE t = [g EXCEPT !.errored = TRUE]
  BY <1>5 DEF GroupOk, t
<1>6. CASE t = [g EXCEPT !.shadows = one, !.errored = e]
  BY <1>2, <1>6 DEF GroupOk, t
<1>7. CASE t = [g EXCEPT !.host_redirect = one]
  BY <1>7 DEF GroupOk, t
<1>8. CASE t = [g EXCEPT !.mappings = all]
  BY <1>3, <1>4, <1>8 DEF GroupOk, t
<1> QED
  BY <1>1, <1>5, <1>6, <1>7, <1>8

(* t is r with more errors and other groups. *)
Regroups(r, t) ==
  /\ Whole(t) /\ r.errors \subseteq t.errors
  /\ t.filters = r.filters /\ t.services = r.services /\ t.clusters = r.clusters
  /\ GroupsOk(t.groups)

LEMMA GroupPut ==
  ASSUME NEW gs, GroupsOk(gs), NEW i \in DOMAIN gs, NEW g, GroupOk(g), NEW new, new = [gs EXCEPT ![i] = g]
  PROVE  GroupsOk(new)
<1>1. /\ IsSeq(new) /\ DOMAIN new = DOMAIN gs /\ new[i] = g
      /\ \A k \in DOMAIN gs : k # i => new[k] = gs[k]
  BY ExceptFacts DEF GroupsOk
<1> QED
  BY <1>1 DEF GroupsOk

LEMMA GroupAppend ==
  ASSUME NEW gs, GroupsOk(gs), NEW g, GroupOk(g)
  PROVE  GroupsOk(Append(gs, g))
<1> DEFINE new == Append(gs, g)
<1>1. /\ IsSeq(new) /\ Len(gs) \in Nat /\ DOMAIN gs = 1 .. Len(gs)
      /\ DOMAIN new = 1 .. Len(gs) + 1
      /\ \A i \in 1 .. Len(gs) : new[i] = gs[i]
      /\ new[Len(gs) + 1] = g
  BY AppendFacts DEF GroupsOk
<1> HIDE DEF new
<1>2. ASSUME NEW i \in DOMAIN new PROVE GroupOk(new[i])
  <2>1. i \in 1 .. Len(gs) \/ i = Len(gs) + 1
    BY <1>1
  <2> QED
    BY <1>1, <2>1 DEF GroupsOk
<1> QED
  BY <1>1, <1>2 DEF GroupsOk, new

LEMMA MappingAdded ==
  ASSUME NEW r, NEW m, Whole(r), GroupsOk(r.groups), MappingOk(m)
  PROVE  Regroups(r, add_mapping(r, m))
<1> DEFINE k == {i \in DOMAIN r.groups : r.groups[i].id = m.group_id}
           i == CHOOSE j \in k : TRUE
           there == \E x \in Range(r.groups[i].mappings) : x.name = m.name /\ x.ns = m.ns
           added == IF k = {} THEN group_add_mapping(NewGroup(m), m)
                    ELSE IF there THEN r.groups[i] ELSE group_add_mapping(r.groups[i], m)
           groups == IF k = {} THEN Append(r.groups, added) ELSE [r.groups EXCEPT ![i] = added]
           new == IF added.errored THEN {<<m.kind, m.name>>} ELSE {}
           own == IF m.errored THEN {<<m.kind, m.name>>} ELSE {}
           errors == r.errors \cup new \cup own
           t == add_mapping(r, m)
<1>1. t \in {PostError(r, m.kind, m.name), [r EXCEPT !.groups = groups, !.errors = errors]}
  <2>1. t = IF ~m.active THEN PostError(r, m.kind, m.name)
            ELSE [r EXCEPT !.groups = groups, !.errors = errors]
    BY Zenon DEF add_mapping
  <2> HIDE DEF t, groups, errors
  <2> QED
    BY <2>1
<1>2. k # {} => i \in DOMAIN r.groups
  OBVIOUS
<1>3. GroupOk(added)
  <2>1. GroupOk(group_add_mapping(NewGroup(m), m))
    BY NewGroupOk, GroupAdd
  <2>2. k # {} => GroupOk(r.groups[i]) /\ GroupOk(group_add_mapping(r.groups[i], m))
    BY <1>2, GroupAdd DEF GroupsOk
  <2> HIDE DEF k, i, there
  <2> QED
    BY <2>1, <2>2
<1> HIDE DEF added, k, i
<1>4. GroupsOk(groups)
  <2>1. CASE k = {}
    <3>1. groups = Append(r.groups, added)
      BY <2>1
    <3> QED
      BY <1>3, <3>1, GroupAppend
  <2>2. CASE k # {}
    <3>1. groups = [r.groups EXCEPT ![i] = added] /\ i \in DOMAIN r.groups
      BY <1>2, <2>2
    <3> HIDE DEF groups
    <3> QED
      BY <1>3, <3>1, GroupPut
  <2> QED
    BY <2>1, <2>2
<1>5. r.errors \subseteq errors
  OBVIOUS
<1> HIDE DEF groups, errors, t
<1>6. CASE t = PostError(r, m.kind, m.name)
  BY <1>6, PostErrorFrame DEF Frame, Regroups, t
<1>7. CASE t = [r EXCEPT !.groups = groups, !.errors = errors]
  BY <1>4, <1>5, <1>7 DEF Whole, Regroups, t
<1> QED
  BY <1>1, <1>6, <1>7

(* What the weights of a group become. *)
AllOk(ms) == IsSeq(ms) /\ \A k \in DOMAIN ms : MappingOk(ms[k])

Weighted(ms) == Keep(ms, {k \in DOMAIN ms : ms[k].weight >= 0})
Weightless(ms) == Keep(ms, {k \in DOMAIN ms : ms[k].weight < 0})

TooHeavy(ms) == {k \in DOMAIN ms : ms[k].weight > 100} # {} \/ Total(Weighted(ms)) > 100

Ending(m, end) == [m EXCEPT !.cumulative = end]

EndsOfWeighted(ms) ==
  [k \in DOMAIN Weighted(ms) |-> Ending(Weighted(ms)[k], Total(SubSeq(Weighted(ms), 1, k)))]

EndsOfWeightless(ms) ==
  [k \in DOMAIN Weightless(ms) |->
     Ending(Weightless(ms)[k],
            weightless_end(Total(Weighted(ms)), Rounded(100 - Total(Weighted(ms)), Len(Weightless(ms))), k,
                           Len(Weightless(ms))))]

EndsOfHeavy(ms) ==
  LET over == {k \in DOMAIN ms : ms[k].weight > 100}
      first == CHOOSE k \in over : \A j \in over : k <= j
  IN  [k \in DOMAIN ms |->
         IF ms[k].weight < 0 \/ (over # {} /\ k >= first) THEN ms[k]
         ELSE Ending(ms[k], Total(Weighted(SubSeq(ms, 1, k))))]

LEMMA NormalCases ==
  ASSUME NEW ms
  PROVE  /\ Len(ms) = 1 => normalize_weights(ms) = [ok |-> TRUE, mappings |-> <<Ending(ms[1], 100)>>]
         /\ Len(ms) # 1 /\ TooHeavy(ms) =>
              normalize_weights(ms) = [ok |-> FALSE, mappings |-> EndsOfHeavy(ms)]
         /\ Len(ms) # 1 /\ ~TooHeavy(ms) =>
              normalize_weights(ms) = [ok |-> TRUE, mappings |-> EndsOfWeighted(ms) \o EndsOfWeightless(ms)]
BY DEF normalize_weights, Filter, Weighted, Weightless, TooHeavy, Ending, EndsOfWeighted, EndsOfWeightless,
       EndsOfHeavy

LEMMA EndingOk ==
  ASSUME NEW m, MappingOk(m), NEW end
  PROVE  MappingOk(Ending(m, end)) /\ Ending(m, end).weight = m.weight /\ Ending(m, end).cumulative = end
BY DEF MappingOk, Ending

LEMMA KeepPicks ==
  ASSUME NEW s, NEW m \in Nat, NEW ks \in SUBSET (1 .. m)
  PROVE  Picks(Keep(s, ks), s, ks)
BY KeepFacts

LEMMA KeptOk ==
  ASSUME NEW ms, AllOk(ms)
  PROVE  AllOk(Weighted(ms)) /\ AllOk(Weightless(ms))
<1>1. Len(ms) \in Nat /\ DOMAIN ms = 1 .. Len(ms)
  BY IsSeqFacts DEF AllOk
<1>2. ASSUME NEW ks \in SUBSET DOMAIN ms PROVE AllOk(Keep(ms, ks))
  <2> DEFINE s == Keep(ms, ks)
             m == Len(ms)
  <2> HIDE DEF s
  <2>0. m \in Nat /\ ks \in SUBSET (1 .. m)
    BY <1>1, <1>2
  <2> HIDE DEF m
  <2>1. IsSeq(s) /\ \E p \in [DOMAIN s -> ks] : \A a \in DOMAIN s : s[a] = ms[p[a]]
    <3>1. Picks(s, ms, ks)
      BY <2>0, KeepPicks, Zenon DEF s
    <3> QED
      BY <3>1 DEF Picks
  <2>2. ASSUME NEW k \in DOMAIN s PROVE MappingOk(s[k])
    BY <2>1 DEF AllOk
  <2> QED
    BY <2>1, <2>2 DEF AllOk, s
<1> QED
  BY <1>2 DEF Weighted, Weightless

LEMMA EndsOk ==
  ASSUME NEW ms, AllOk(ms), NEW new, DOMAIN new = DOMAIN ms, new = [k \in DOMAIN new |-> new[k]],
         \A k \in DOMAIN ms : MappingOk(new[k])
  PROVE  AllOk(new)
<1>1. Len(ms) \in Nat /\ DOMAIN ms = 1 .. Len(ms)
  BY IsSeqFacts DEF AllOk
<1>2. new = [k \in 1 .. Len(ms) |-> new[k]]
  BY <1>1
<1>3. IsSeq(new)
  BY <1>1, <1>2, FunctionIsSeq
<1> QED
  BY <1>3 DEF AllOk

LEMMA NormalOk ==
  ASSUME NEW ms, AllOk(ms)
  PROVE  AllOk(normalize_weights(ms).mappings)
<1> DEFINE w == Weighted(ms)
           x == Weightless(ms)
           e1 == EndsOfWeighted(ms)
           e2 == EndsOfWeightless(ms)
<1>1. CASE Len(ms) = 1
  <2> DEFINE m == Ending(ms[1], 100)
  <2>1. normalize_weights(ms).mappings = <<m>>
    BY <1>1, NormalCases
  <2>2. MappingOk(m)
    <3>1. 1 \in DOMAIN ms
      BY <1>1, IsSeqFacts DEF AllOk
    <3> QED
      BY <3>1, EndingOk DEF AllOk
  <2> HIDE DEF m
  <2>3. IsSeq(<<m>>) /\ \A k \in DOMAIN <<m>> : <<m>>[k] = m
    BY SingletonIsSeq
  <2> QED
    BY <2>1, <2>2, <2>3 DEF AllOk
<1>2. CASE Len(ms) # 1 /\ TooHeavy(ms)
  <2> DEFINE new == EndsOfHeavy(ms)
  <2>1. normalize_weights(ms).mappings = new
    BY <1>2, NormalCases
  <2>2. DOMAIN new = DOMAIN ms /\ new = [k \in DOMAIN new |-> new[k]]
        /\ \A k \in DOMAIN ms : \E end : new[k] \in {ms[k], Ending(ms[k], end)}
    BY DEF EndsOfHeavy
  <2> HIDE DEF new
  <2>3. \A k \in DOMAIN ms : MappingOk(new[k])
    BY <2>2, EndingOk DEF AllOk
  <2> QED
    BY <2>1, <2>2, <2>3, EndsOk
<1>3. CASE Len(ms) # 1 /\ ~TooHeavy(ms)
  <2> DEFINE all == e1 \o e2
  <2>1. normalize_weights(ms).mappings = all
    BY <1>3, NormalCases
  <2>2. AllOk(w) /\ AllOk(x)
    BY KeptOk
  <2>3. /\ DOMAIN e1 = DOMAIN w /\ e1 = [k \in DOMAIN e1 |-> e1[k]]
        /\ \A k \in DOMAIN w : \E end : e1[k] = Ending(w[k], end)
    BY DEF EndsOfWeighted
  <2>4. /\ DOMAIN e2 = DOMAIN x /\ e2 = [k \in DOMAIN e2 |-> e2[k]]
        /\ \A k \in DOMAIN x : \E end : e2[k] = Ending(x[k], end)
    BY DEF EndsOfWeightless
  <2> HIDE DEF w, x, e1, e2
  <2>5. AllOk(e1)
    <3>1. \A k \in DOMAIN w : MappingOk(e1[k])
      BY <2>2, <2>3, EndingOk DEF AllOk
    <3> QED
      BY <2>2, <2>3, <3>1, EndsOk
  <2>6. AllOk(e2)
    <3>1. \A k \in DOMAIN x : MappingOk(e2[k])
      BY <2>2, <2>4, EndingOk DEF AllOk
    <3> QED
      BY <2>2, <2>4, <3>1, EndsOk
  <2>7. Joins(all, e1, e2)
    <3>1. IsSeq(e1) /\ IsSeq(e2)
      BY <2>5, <2>6 DEF AllOk
    <3> QED
      BY <3>1, Concatenated, Zenon
  <2> HIDE DEF all
  <2>8. ASSUME NEW k \in DOMAIN all PROVE MappingOk(all[k])
    <3>1. all[k] \in Range(e1) \cup Range(e2)
      BY <2>7 DEF Joins, Range
    <3> QED
      BY <2>5, <2>6, <3>1 DEF AllOk, Range
  <2> QED
    BY <2>1, <2>7, <2>8 DEF AllOk, Joins
<1> QED
  BY <1>1, <1>2, <1>3

-----------------------------------------------------------------------------
(* WeightsHonoured: sums of weights. *)

(* The sum of weights, one Mapping after the other. *)
Weigh(v0, s) == Loop(LAMBDA v, m : v + m.weight, v0, s)

LEMMA WeighLoop ==
  ASSUME NEW v0, NEW s
  PROVE  \E a : /\ a[0] = v0 /\ Weigh(v0, s) = a[Len(s)]
                /\ \A i \in 1 .. Len(s) : a[i] = a[i - 1] + s[i].weight
<1> DEFINE After(g, m) == g = [i \in 0 .. m |-> IF i = 0 THEN v0 ELSE g[i - 1] + s[i].weight]
           N == {m \in Nat : \E g : After(g, m)}
           after == CHOOSE g : After(g, Len(s))
<1>1. 0 \in N
  <2>1. After([i \in 0 .. 0 |-> v0], 0)
    OBVIOUS
  <2> QED
    BY <2>1
<1>2. ASSUME NEW m \in N PROVE m + 1 \in N
  <2>1. m \in Nat /\ \E g : After(g, m)
    OBVIOUS
  <2>2. PICK g : After(g, m)
    BY <2>1
  <2> DEFINE next == g[m] + s[m + 1].weight
             h == [i \in 0 .. m + 1 |-> IF i = m + 1 THEN next ELSE g[i]]
  <2>3. h = [i \in 0 .. m + 1 |-> h[i]] /\ h[m + 1] = next /\ \A i \in 0 .. m : h[i] = g[i]
    <3> HIDE DEF next, N, After
    <3> QED
      BY <2>1
  <2> HIDE DEF h
  <2>4. \A i \in 0 .. m + 1 : h[i] = IF i = 0 THEN v0 ELSE h[i - 1] + s[i].weight
    <3> TAKE i \in 0 .. m + 1
    <3>1. \/ i = m + 1 /\ i # 0 /\ i - 1 = m /\ m \in 0 .. m
          \/ i \in 0 .. m /\ i = 0
          \/ i \in 0 .. m /\ i # 0 /\ i - 1 \in 0 .. m
      BY <2>1
    <3> QED
      BY <2>2, <2>3, <3>1
  <2>5. After(h, m + 1)
    BY <2>3, <2>4, Zenon
  <2> HIDE DEF After
  <2> QED
    BY <2>1, <2>5
<1>3. \E g : After(g, Len(s))
  <2>1. N \in SUBSET Nat
    OBVIOUS
  <2> HIDE DEF N
  <2>2. N = Nat
    BY <1>1, <1>2, <2>1, Reaches
  <2> USE DEF N
  <2> HIDE DEF After
  <2>3. Len(s) \in N
    BY <2>2
  <2> QED
    BY <2>3
<1>4. After(after, Len(s)) /\ Weigh(v0, s) = after[Len(s)]
  BY <1>3 DEF Weigh, Loop
<1> HIDE DEF after
<1>5. 0 \in 0 .. Len(s) /\ \A i \in 1 .. Len(s) : i \in 0 .. Len(s) /\ i # 0
  OBVIOUS
<1> QED
  BY <1>4, <1>5

(* A sum is what its history ends with, whatever the history was found by. *)
LEMMA TotalIs ==
  ASSUME NEW s, NEW m \in Nat, Len(s) = m, NEW h, h[0] = 0,
         \A i \in 1 .. m : h[i] = h[i - 1] + s[i].weight
  PROVE  Total(s) = h[m]
<1>1. PICK a : /\ a[0] = 0 /\ Weigh(0, s) = a[Len(s)]
               /\ \A i \in 1 .. Len(s) : a[i] = a[i - 1] + s[i].weight
  BY WeighLoop
<1>2. Total(s) = Weigh(0, s)
  BY DEF Total, Weigh
<1> DEFINE T == {i \in 0 .. m : a[i] = h[i]}
<1>3. 0 \in T
  BY <1>1
<1>4. ASSUME NEW k \in 0 .. m, k < m, k \in T PROVE k + 1 \in T
  <2>1. k + 1 \in 1 .. m /\ (k + 1) - 1 = k /\ k + 1 \in 0 .. m /\ a[k] = h[k]
    BY <1>4
  <2>2. a[k + 1] = a[k] + s[k + 1].weight
    BY <1>1, <2>1
  <2>3. h[k + 1] = h[k] + s[k + 1].weight
    BY <2>1
  <2> QED
    BY <2>1, <2>2, <2>3
<1>5. m \in T
  <2> HIDE DEF T
  <2> QED
    BY <1>3, <1>4, AtLast
<1> QED
  BY <1>1, <1>2, <1>5

(* The history of the sum of some weights. *)
Sums(w, a) ==
  /\ a[0] = 0 /\ \A i \in 0 .. Len(w) : a[i] \in Nat
  /\ \A i \in 1 .. Len(w) : a[i] = a[i - 1] + w[i].weight
  /\ \A i \in 0 .. Len(w) : \A j \in 0 .. i : a[j] <= a[i]
  /\ Total(w) = a[Len(w)]
  /\ \A k \in 1 .. Len(w) : Total(SubSeq(w, 1, k)) = a[k]

LEMMA SumsOf ==
  ASSUME NEW w, AllOk(w), \A k \in DOMAIN w : w[k].weight >= 0
  PROVE  \E a : Sums(w, a)
<1> DEFINE m == Len(w)
<1>0. m \in Nat /\ DOMAIN w = 1 .. m /\ \A k \in 1 .. m : w[k].weight \in Nat /\ w[k] \in Range(w)
  <2>1. m \in Nat /\ DOMAIN w = 1 .. m
    BY IsSeqFacts DEF AllOk
  <2> QED
    BY <2>1 DEF AllOk, MappingOk, Range
<1>1. PICK a : /\ a[0] = 0 /\ Weigh(0, w) = a[Len(w)]
               /\ \A i \in 1 .. Len(w) : a[i] = a[i - 1] + w[i].weight
  BY WeighLoop
<1>a. \A i \in 1 .. m : a[i] = a[i - 1] + w[i].weight
  BY <1>1
<1> HIDE DEF m
<1> DEFINE T == {i \in 0 .. m : a[i] \in Nat /\ \A j \in 0 .. i : a[j] \in Nat /\ a[j] <= a[i]}
<1>2. 0 \in T
  BY <1>0, <1>1
<1>3. ASSUME NEW k \in 0 .. m, k < m, k \in T PROVE k + 1 \in T
  <2>1. k + 1 \in 1 .. m /\ (k + 1) - 1 = k /\ k + 1 \in 0 .. m /\ a[k] \in Nat
        /\ \A j \in 0 .. k : a[j] \in Nat /\ a[j] <= a[k]
    BY <1>0, <1>3
  <2>2. a[k + 1] = a[k] + w[k + 1].weight /\ w[k + 1].weight \in Nat
    BY <1>0, <1>a, <2>1
  <2>3. a[k + 1] \in Nat /\ a[k] <= a[k + 1]
    BY <2>1, <2>2
  <2>4. \A j \in 0 .. k + 1 : a[j] \in Nat /\ a[j] <= a[k + 1]
    <3> TAKE j \in 0 .. k + 1
    <3>1. j \in 0 .. k \/ j = k + 1
      BY <2>1
    <3> QED
      BY <2>1, <2>3, <3>1
  <2> QED
    BY <2>1, <2>3, <2>4
<1>4. \A i \in 0 .. m : i \in T
  <2> SUFFICES ASSUME NEW i \in 0 .. m PROVE i \in T
    OBVIOUS
  <2> HIDE DEF T
  <2>1. \A k \in 0 .. i : k < i /\ k \in T => k + 1 \in T
    BY <1>0, <1>3
  <2> QED
    BY <1>0, <1>2, <2>1, AtLast
<1>5. Total(w) = a[m]
  BY <1>1, <1>0 DEF Total, Weigh, m
<1>6. ASSUME NEW k \in 1 .. m PROVE Total(SubSeq(w, 1, k)) = a[k]
  <2> DEFINE s == SubSeq(w, 1, k)
  <2>1. k \in Nat /\ \A i \in 1 .. k : i \in 1 .. m /\ w[i] \in Range(w)
    BY <1>0
  <2>2. Len(s) = k /\ \A i \in 1 .. k : s[i] = w[i]
    <3>1. 1 \in Int /\ k \in Int /\ 1 <= k /\ k - 1 + 1 = k /\ \A i \in 1 .. k : 1 + i - 1 = i
      BY <1>0
    <3>2. /\ Len(s) = IF 1 <= k THEN k - 1 + 1 ELSE 0
          /\ \A i \in 1 .. k - 1 + 1 : s[i] = w[1 + i - 1]
      BY <2>1, <3>1, SubSeqProperties
    <3> HIDE DEF s
    <3> QED
      BY <3>1, <3>2
  <2> HIDE DEF s
  <2>3. \A i \in 1 .. k : a[i] = a[i - 1] + s[i].weight
    BY <1>a, <2>1, <2>2
  <2>4. Total(s) = a[k]
    BY <1>1, <2>1, <2>2, <2>3, TotalIs
  <2> QED
    BY <2>4 DEF s
<1>7. \A i \in 0 .. m : a[i] \in Nat /\ \A j \in 0 .. i : a[j] <= a[i]
  BY <1>4
<1>8. Sums(w, a)
  BY <1>1, <1>5, <1>6, <1>7 DEF Sums, m
<1> QED
  BY <1>8

(* The first elements of a sequence, kept. *)
LEMMA KeepFirst ==
  ASSUME NEW s, NEW m \in Nat
  PROVE  Keep(s, 1 .. m) = [i \in 1 .. m |-> s[i]]
<1> DEFINE ks == 1 .. m
           pick(i) == CHOOSE k \in ks : 1 + Cardinality({j \in ks : j < k}) = i
<1>1. Cardinality(ks) = m
  BY FS_Interval
<1>2. ASSUME NEW k \in ks PROVE Cardinality({j \in ks : j < k}) = k - 1
  <2>1. {j \in ks : j < k} = 1 .. (k - 1)
    OBVIOUS
  <2>2. Cardinality(1 .. (k - 1)) = k - 1
    BY FS_Interval
  <2> QED
    BY <2>1, <2>2
<1>3. ASSUME NEW i \in ks PROVE pick(i) = i
  <2>1. \A k \in ks : 1 + Cardinality({j \in ks : j < k}) = k
    BY <1>2
  <2> DEFINE Card(k) == Cardinality({j \in ks : j < k})
  <2>2. pick(i) \in ks /\ 1 + Card(pick(i)) = i
    <3>1. 1 + Card(i) = i
      BY <2>1
    <3> HIDE DEF Card, ks
    <3> QED
      BY <3>1, Zenon DEF Card
  <2> HIDE DEF pick, Card
  <2>3. 1 + Card(pick(i)) = pick(i)
    BY <2>1, <2>2 DEF Card
  <2> QED
    BY <2>2, <2>3
<1>4. Keep(s, ks) = [i \in 1 .. m |-> s[pick(i)]]
  BY <1>1 DEF Keep
<1> HIDE DEF pick
<1> QED
  BY <1>3, <1>4

(* Rounding is off by a half at most. *)
LEMMA RoundedNear ==
  ASSUME NEW x \in Nat, NEW y \in Nat, y >= 1
  PROVE  /\ Rounded(x, y) \in Nat
         /\ 2 * (y * Rounded(x, y) - x) <= y /\ 2 * (x - y * Rounded(x, y)) <= y
<1> DEFINE q == x \div y
           r == x % y
           s == Rounded(x, y)
<1>1. q \in Nat /\ r \in Nat /\ r < y /\ x = y * q + r
  OBVIOUS
<1>2. s = IF 2 * r > y \/ (2 * r = y /\ q % 2 = 1) THEN q + 1 ELSE q
  BY DEF Rounded
<1>3. y * (q + 1) = y * q + y /\ y * q \in Nat
  BY <1>1
<1> HIDE DEF q, r, s
<1>4. \/ s = q + 1 /\ 2 * r >= y
      \/ s = q /\ 2 * r <= y
  BY <1>1, <1>2
<1>5. s \in Nat /\ 2 * (y * s - x) <= y /\ 2 * (x - y * s) <= y
  <2>1. CASE s = q + 1 /\ 2 * r >= y
    <3>1. y * s - x = y - r
      BY <1>1, <1>3, <2>1
    <3>2. s \in Nat
      BY <1>1, <2>1
    <3> QED
      BY <1>1, <2>1, <3>1, <3>2
  <2>2. CASE s = q /\ 2 * r <= y
    <3>1. x - y * s = r
      BY <1>1, <1>3, <2>2
    <3> QED
      BY <1>1, <2>2, <3>1
  <2> QED
    BY <1>4, <2>1, <2>2
<1> QED
  BY <1>5 DEF s

LEMMA ProductMonotonic ==
  ASSUME NEW i \in Nat, NEW j \in Nat, NEW s \in Nat, i <= j
  PROVE  i * s \in Nat /\ j * s \in Nat /\ i * s <= j * s
<1>1. j * s = i * s + (j - i) * s
  OBVIOUS
<1>2. i * s \in Nat /\ (j - i) * s \in Nat /\ j * s \in Nat
  OBVIOUS
<1> QED
  BY <1>1, <1>2

(* What the j-th of N weightless Mappings gets of what is left, when each is
   given s and the last one what remains. *)
Part(left, s, j, N) ==
  LET before == (j - 1) * s
  IN  IF before >= left THEN 0
      ELSE IF j = N \/ before + s > left THEN left - before ELSE s

LEMMA PartNear ==
  ASSUME NEW N \in Nat, N >= 1, NEW left \in Nat, NEW s \in Nat, NEW j \in 1 .. N,
         2 * (N * s - left) <= N, 2 * (left - N * s) <= N
  PROVE  /\ Part(left, s, j, N) \in Nat
         /\ 2 * (N * Part(left, s, j, N) - left) <= N * (N - 1)
         /\ -2 * (N * Part(left, s, j, N) - left) <= N * (N - 1)
<1> DEFINE q == (j - 1) * s
           p == Part(left, s, j, N)
           Q == (N - 1) * s
           P == N * s
           R == N * (N - 1)
<1>1. p = IF q >= left THEN 0 ELSE IF j = N \/ q + s > left THEN left - q ELSE s
  BY DEF Part
<1>2. q \in Nat /\ Q \in Nat /\ P = Q + s /\ q <= Q /\ P \in Nat
  <2>1. j - 1 \in Nat /\ N - 1 \in Nat /\ j - 1 <= N - 1
    OBVIOUS
  <2>2. q \in Nat /\ Q \in Nat /\ q <= Q
    BY <2>1, ProductMonotonic
  <2>3. P = Q + s
    OBVIOUS
  <2> QED
    BY <2>2, <2>3
<1>3. CASE N = 1
  <2>1. j = 1 /\ q = 0
    BY <1>3
  <2>2. p = left
    <3> HIDE DEF q, p
    <3> QED
      BY <1>1, <1>3, <2>1
  <2> HIDE DEF p
  <2>3. N * p = left /\ N * (N - 1) = 0
    BY <1>3, <2>2
  <2> QED
    BY <2>2, <2>3 DEF p
<1>4. CASE N >= 2
  <2>1. R >= N /\ R \in Nat
    <3>1. N - 1 \in Nat /\ 1 <= N - 1 /\ 1 \in Nat
      BY <1>4
    <3>2. 1 * N <= (N - 1) * N /\ (N - 1) * N \in Nat
      BY <3>1, ProductMonotonic
    <3>3. (N - 1) * N = R /\ 1 * N = N
      OBVIOUS
    <3> QED
      BY <3>2, <3>3
  <2>2. Q >= left => 2 * left <= R
    <3> SUFFICES ASSUME Q >= left PROVE 2 * left <= R
      OBVIOUS
    <3>1. 2 * s <= N
      <4> HIDE DEF Q, P
      <4> QED
        BY <1>2 DEF P
    <3>2. (2 * s) * (N - 1) <= N * (N - 1)
      <4> DEFINE z == 2 * s
      <4>1. z \in Nat /\ z <= N /\ N - 1 \in Nat
        BY <3>1
      <4> HIDE DEF z
      <4>2. z * (N - 1) <= N * (N - 1)
        BY <4>1, ProductMonotonic
      <4> QED
        BY <4>2 DEF z
    <3>3. (2 * s) * (N - 1) = 2 * Q
      OBVIOUS
    <3> HIDE DEF Q, R
    <3> QED
      BY <1>2, <3>2, <3>3 DEF R
  <2>3. CASE q >= left
    <3>1. p = 0
      BY <1>1, <2>3
    <3> HIDE DEF p
    <3>2. N * p = 0
      BY <3>1
    <3>3. 2 * left <= R
      <4> HIDE DEF q, Q, R
      <4> QED
        BY <1>2, <2>2, <2>3
    <3> HIDE DEF R
    <3> QED
      BY <2>1, <3>1, <3>2, <3>3 DEF p, R
  <2>4. CASE q < left /\ j = N
    <3>1. p = left - Q
      <4> HIDE DEF q, p
      <4>1. q = Q
        BY <2>4 DEF q
      <4> HIDE DEF Q
      <4> QED
        BY <1>1, <1>2, <2>4, <4>1
    <3>2. p \in Nat
      <4> HIDE DEF q, p, Q
      <4>1. q = Q
        BY <2>4 DEF q, Q
      <4> QED
        BY <1>2, <2>4, <3>1, <4>1
    <3> HIDE DEF p
    <3> DEFINE e == left - P
    <3>3. N * p - left = (N - 1) * e
      <4>1. N * p = N * left - N * Q
        BY <3>1, <1>2
      <4>2. (N - 1) * e = (N - 1) * left - (N - 1) * P
        OBVIOUS
      <4>3. N * Q = (N - 1) * P
        OBVIOUS
      <4>4. (N - 1) * left = N * left - left
        OBVIOUS
      <4> DEFINE a == N * left
                 b == N * Q
      <4>5. a \in Int /\ b \in Int
        BY <1>2
      <4> HIDE DEF a, b, P, Q, e
      <4> QED
        BY <4>1, <4>2, <4>3, <4>4, <4>5 DEF a, b
    <3>4. e \in Int /\ 2 * e <= N /\ -2 * e <= N
      <4> HIDE DEF P
      <4> QED
        BY <1>2 DEF P
    <3> HIDE DEF e, P, Q
    <3>5. 2 * ((N - 1) * e) <= R /\ -2 * ((N - 1) * e) <= R
      <4> DEFINE u == N - 2 * e
                 v == N + 2 * e
      <4>1. u \in Nat /\ v \in Nat /\ N - 1 \in Nat
        BY <3>4
      <4>2. (N - 1) * u \in Nat /\ (N - 1) * v \in Nat
        <5> HIDE DEF u, v
        <5> QED
          BY <4>1
      <4>3. (N - 1) * u = R - 2 * ((N - 1) * e) /\ (N - 1) * v = R + 2 * ((N - 1) * e)
        BY <3>4
      <4> DEFINE g == (N - 1) * e
      <4>4. g \in Int
        BY <3>4
      <4> HIDE DEF g, u, v, R
      <4> QED
        BY <2>1, <4>2, <4>3, <4>4 DEF g
    <3> HIDE DEF R
    <3> QED
      BY <3>2, <3>3, <3>5 DEF p, R
  <2>5. CASE q < left /\ j # N /\ q + s > left
    <3>1. p = left - q /\ p \in Nat /\ p < s
      <4> HIDE DEF q, p
      <4> QED
        BY <1>1, <1>2, <2>5
    <3>2. Q >= left
      <4>1. j \in Nat /\ N - 1 \in Nat /\ j <= N - 1
        BY <2>5
      <4>2. j * s <= Q
        BY <4>1, ProductMonotonic
      <4>3. j * s = q + s
        OBVIOUS
      <4> HIDE DEF q, Q
      <4> QED
        BY <1>2, <2>5, <4>2, <4>3
    <3> HIDE DEF p
    <3>3. p * N <= s * N /\ p * N \in Nat /\ s * N = P /\ p * N = N * p
      <4>1. p * N <= s * N /\ p * N \in Nat
        BY <3>1, ProductMonotonic
      <4> QED
        BY <3>1, <4>1
    <3> HIDE DEF R, P, Q
    <3> QED
      BY <1>2, <2>1, <2>2, <3>1, <3>2, <3>3 DEF p, R, P
  <2>6. CASE q < left /\ j # N /\ q + s <= left
    <3>1. p = s
      <4> HIDE DEF q, p
      <4> QED
        BY <1>1, <1>2, <2>6
    <3> HIDE DEF p
    <3>2. N * p = P
      BY <3>1
    <3> HIDE DEF R, P, Q
    <3> QED
      BY <1>2, <2>1, <3>1, <3>2 DEF p, R, P
  <2> QED
    BY <1>2, <2>3, <2>4, <2>5, <2>6
<1> QED
  BY <1>3, <1>4

(* Mappings laid out on a hundred requests: W with weights, whose stretches end
   at a, and L without, which share what is left. *)
Laid(new, a, W, L, s) ==
  /\ W \in Nat /\ L \in Nat /\ DOMAIN new = 1 .. W + L
  /\ a[0] = 0 /\ \A i \in 0 .. W : a[i] \in Nat
  /\ \A i \in 0 .. W : \A j \in 0 .. i : a[j] <= a[i]
  /\ a[W] <= 100
  /\ \A k \in 1 .. W : /\ new[k].cumulative = a[k] /\ a[k] = a[k - 1] + new[k].weight
                       /\ new[k].weight \in Nat
  /\ \A j \in 1 .. L : /\ new[W + j].weight \in Int /\ new[W + j].weight < 0
                       /\ new[W + j].cumulative = weightless_end(a[W], s, j, L)
  /\ s = Rounded(100 - a[W], L)

LEMMA ShareOfWeighted ==
  ASSUME NEW new, NEW a, NEW W, NEW L, NEW s, Laid(new, a, W, L, s), NEW k \in 1 .. W
  PROVE  Share(new, k) = new[k].weight
<1> DEFINE mine == {d \in 0 .. 99 : d < new[k].cumulative /\ \A j \in 1 .. (k - 1) : d >= new[j].cumulative}
<1>1. /\ W \in Nat /\ k \in Nat /\ k >= 1 /\ k \in 0 .. W /\ k - 1 \in 0 .. W /\ W \in 0 .. W /\ k - 1 \in 0 .. k
      /\ k \in 0 .. W
  BY DEF Laid
<1>2. /\ a[k] \in Nat /\ a[k - 1] \in Nat /\ a[k - 1] <= a[k] /\ a[k] <= 100
      /\ new[k].cumulative = a[k] /\ a[k] = a[k - 1] + new[k].weight /\ new[k].weight \in Nat
  BY <1>1 DEF Laid
<1>3. ASSUME NEW d \in 0 .. 99 PROVE (\A j \in 1 .. (k - 1) : d >= new[j].cumulative) <=> d >= a[k - 1]
  <2>1. CASE k = 1
    <3>1. a[k - 1] = 0 /\ 1 .. (k - 1) = {}
      BY <2>1 DEF Laid
    <3> QED
      BY <3>1
  <2>2. CASE k > 1
    <3>1. k - 1 \in 1 .. (k - 1) /\ k - 1 \in 1 .. W /\ new[k - 1].cumulative = a[k - 1]
      BY <1>1, <2>2 DEF Laid
    <3>2. \A j \in 1 .. (k - 1) : new[j].cumulative = a[j] /\ a[j] \in Nat /\ a[j] <= a[k - 1]
      <4> TAKE j \in 1 .. (k - 1)
      <4>1. j \in 1 .. W /\ j \in 0 .. (k - 1) /\ j \in 0 .. W
        BY <1>1
      <4> QED
        BY <1>1, <4>1 DEF Laid
    <3> QED
      BY <1>2, <3>1, <3>2
  <2> QED
    BY <1>1, <2>1, <2>2
<1>4. mine = a[k - 1] .. (a[k] - 1)
  <2>1. ASSUME NEW d PROVE d \in mine <=> d \in a[k - 1] .. (a[k] - 1)
    <3>1. d \in mine <=> d \in 0 .. 99 /\ d < a[k] /\ d >= a[k - 1]
      BY <1>2, <1>3
    <3> HIDE DEF mine
    <3> QED
      BY <1>2, <3>1
  <2> HIDE DEF mine
  <2> QED
    BY <2>1
<1>5. Cardinality(a[k - 1] .. (a[k] - 1)) = a[k] - a[k - 1]
  <2> DEFINE lo == a[k - 1]
             hi == a[k] - 1
  <2>1. lo \in Int /\ hi \in Int /\ hi - lo + 1 = a[k] - a[k - 1] /\ (lo > hi => a[k] - a[k - 1] = 0)
    BY <1>2
  <2> HIDE DEF lo, hi
  <2>2. Cardinality(lo .. hi) = a[k] - a[k - 1]
    BY <2>1, FS_Interval
  <2> QED
    BY <2>2 DEF lo, hi
<1>6. Share(new, k) = Cardinality(mine)
  BY DEF Share
<1> HIDE DEF mine
<1> QED
  BY <1>2, <1>4, <1>5, <1>6

LEMMA ShareOfWeightless ==
  ASSUME NEW new, NEW a, NEW W, NEW L, NEW s, Laid(new, a, W, L, s), NEW j \in 1 .. L, s \in Nat
  PROVE  Share(new, W + j) = Part(100 - a[W], s, j, L)
<1> DEFINE q == (j - 1) * s
           k == W + j
           lo == a[W] + q
           end == weightless_end(a[W], s, j, L)
           hi == IF end > 100 THEN 99 ELSE end - 1
           mine == {d \in 0 .. 99 : d < new[k].cumulative /\ \A i \in 1 .. (k - 1) : d >= new[i].cumulative}
<1>1. W \in Nat /\ L \in Nat /\ W \in 0 .. W /\ a[W] \in Nat /\ a[W] <= 100 /\ j \in Nat /\ j - 1 \in Nat
  BY DEF Laid
<1>2. q \in Nat /\ j * s = q + s /\ end \in Nat /\ end = IF j = L THEN 100 ELSE a[W] + q + s
  <2>1. q \in Nat /\ j * s = q + s
    BY <1>1
  <2>2. end = IF j = L THEN 100 ELSE a[W] + j * s
    BY DEF weightless_end
  <2> HIDE DEF q, end
  <2> QED
    BY <1>1, <2>1, <2>2
<1>3. new[k].cumulative = end
  BY DEF Laid
<1>4. ASSUME NEW d \in 0 .. 99 PROVE (\A i \in 1 .. (k - 1) : d >= new[i].cumulative) <=> d >= lo
  <2>1. ASSUME NEW i \in 1 .. W PROVE new[i].cumulative \in Nat /\ new[i].cumulative <= a[W]
    <3>1. i \in 0 .. W
      OBVIOUS
    <3> QED
      BY <1>1, <3>1 DEF Laid
  <2>2. ASSUME NEW i \in 1 .. (j - 1)
        PROVE  /\ W + i \in 1 .. (k - 1) /\ new[W + i].cumulative = a[W] + i * s
               /\ i * s \in Nat /\ i * s <= q
    <3>1. i \in Nat /\ i <= j - 1 /\ i \in 1 .. L /\ i # L /\ W + i \in 1 .. (k - 1)
      BY <1>1
    <3>2. new[W + i].cumulative = a[W] + i * s
      BY <3>1 DEF Laid, weightless_end
    <3>3. i * s \in Nat /\ i * s <= q
      BY <1>1, <3>1, ProductMonotonic
    <3> QED
      BY <3>1, <3>2, <3>3
  <2>3. ASSUME d >= lo, NEW i \in 1 .. (k - 1) PROVE d >= new[i].cumulative
    <3>1. CASE i <= W
      <4>1. i \in 1 .. W
        BY <1>1, <3>1
      <4> HIDE DEF q
      <4> QED
        BY <1>1, <1>2, <2>1, <2>3, <4>1
    <3>2. CASE i > W
      <4> DEFINE x == i - W
      <4>1. x \in 1 .. (j - 1) /\ W + x = i
        BY <1>1, <3>2
      <4> HIDE DEF x, q
      <4> DEFINE xs == x * s
      <4>2. new[i].cumulative = a[W] + xs /\ xs \in Nat /\ xs <= q
        BY <2>2, <4>1
      <4> HIDE DEF xs
      <4> QED
        BY <1>1, <1>2, <2>3, <4>2
    <3> QED
      BY <1>1, <3>1, <3>2
  <2>4. ASSUME \A i \in 1 .. (k - 1) : d >= new[i].cumulative PROVE d >= lo
    <3>1. CASE j = 1 /\ W = 0
      <4>1. a[W] = 0 /\ q = 0
        BY <3>1 DEF Laid
      <4> HIDE DEF q
      <4> QED
        BY <4>1
    <3>2. CASE j = 1 /\ W > 0
      <4>1. W \in 1 .. (k - 1) /\ W \in 1 .. W /\ q = 0
        BY <1>1, <3>2
      <4>2. new[W].cumulative = a[W]
        BY <4>1 DEF Laid
      <4> HIDE DEF q, k
      <4> QED
        BY <1>1, <2>4, <4>1, <4>2
    <3>3. CASE j > 1
      <4>1. j - 1 \in 1 .. (j - 1)
        BY <1>1, <3>3
      <4>2. W + (j - 1) \in 1 .. (k - 1) /\ new[W + (j - 1)].cumulative = a[W] + q
        BY <2>2, <4>1
      <4> HIDE DEF q, k
      <4> QED
        BY <2>4, <4>2
    <3> QED
      BY <1>1, <3>1, <3>2, <3>3
  <2> QED
    BY <2>3, <2>4
<1> HIDE DEF q, end
<1>5. hi \in Int /\ lo \in Nat
  BY <1>1, <1>2
<1>6. mine = lo .. hi
  <2>1. ASSUME NEW d PROVE d \in mine <=> d \in lo .. hi
    <3>1. d \in mine <=> d \in 0 .. 99 /\ d < end /\ d >= lo
      BY <1>3, <1>4
    <3> HIDE DEF mine, lo
    <3> QED
      BY <1>2, <1>5, <3>1
  <2> HIDE DEF mine, lo, hi
  <2> QED
    BY <2>1
<1>7. Cardinality(lo .. hi) = IF lo > hi THEN 0 ELSE hi - lo + 1
  <2> HIDE DEF lo, hi
  <2> QED
    BY <1>5, FS_Interval
<1>8. Part(100 - a[W], s, j, L)
        = IF q >= 100 - a[W] THEN 0 ELSE IF j = L \/ q + s > 100 - a[W] THEN (100 - a[W]) - q ELSE s
  BY DEF Part, q
<1>9. Share(new, k) = Cardinality(mine)
  BY DEF Share
<1> HIDE DEF mine
<1>10. (IF lo > hi THEN 0 ELSE hi - lo + 1)
        = IF q >= 100 - a[W] THEN 0 ELSE IF j = L \/ q + s > 100 - a[W] THEN (100 - a[W]) - q ELSE s
  <2> DEFINE aw == a[W]
             left == 100 - aw
  <2>1. /\ aw \in Nat /\ aw <= 100 /\ lo = aw + q /\ end = (IF j = L THEN 100 ELSE aw + q + s)
        /\ left = 100 - aw /\ hi = (IF end > 100 THEN 99 ELSE end - 1) /\ left \in Nat
    BY <1>1, <1>2
  <2> HIDE DEF aw, left, lo, hi
  <2>2. (IF lo > hi THEN 0 ELSE hi - lo + 1)
        = IF q >= left THEN 0 ELSE IF j = L \/ q + s > left THEN left - q ELSE s
    <3>1. CASE j = L
      <4>1. hi = 99
        BY <1>2, <2>1, <3>1
      <4> QED
        BY <1>2, <2>1, <3>1, <4>1
    <3>2. CASE j # L /\ q + s > left
      <4>1. hi = 99
        BY <1>2, <2>1, <3>2
      <4> QED
        BY <1>2, <2>1, <3>2, <4>1
    <3>3. CASE j # L /\ q + s <= left
      <4>1. hi = (aw + q + s) - 1
        BY <1>2, <2>1, <3>3
      <4> QED
        BY <1>2, <2>1, <3>3, <4>1
    <3> QED
      BY <1>2, <2>1, <3>1, <3>2, <3>3
  <2> QED
    BY <2>2 DEF left, aw
<1> HIDE DEF lo, hi
<1>11. Share(new, k) = Part(100 - a[W], s, j, L)
  BY <1>6, <1>7, <1>8, <1>9, <1>10
<1> QED
  BY <1>11

LEMMA LaidFair ==
  ASSUME NEW new, NEW a, NEW W, NEW L, NEW s, Laid(new, a, W, L, s), Len(new) \in Nat
  PROVE  FairlyShared(new)
<1> DEFINE rest == {k \in DOMAIN new : new[k].weight < 0}
           heavy == {k \in DOMAIN new : new[k].weight >= 0}
           left == 100 - a[W]
<1>1. W \in Nat /\ L \in Nat /\ W \in 0 .. W /\ a[W] \in Nat /\ a[W] <= 100 /\ left \in Nat
      /\ DOMAIN new = 1 .. W + L
  BY DEF Laid
<1>2. \A k \in DOMAIN new : \/ k \in 1 .. W /\ new[k].weight \in Nat
                            \/ \E j \in 1 .. L : k = W + j /\ new[k].weight \in Int /\ new[k].weight < 0
  <2> TAKE k \in DOMAIN new
  <2>1. CASE k <= W
    BY <1>1, <2>1 DEF Laid
  <2>2. CASE k > W
    <3>1. k - W \in 1 .. L /\ k = W + (k - W)
      BY <1>1, <2>2
    <3> QED
      BY <3>1 DEF Laid
  <2> QED
    BY <1>1, <2>1, <2>2
<1>3. heavy = 1 .. W
  <2>1. \A k \in 1 .. W : k \in DOMAIN new /\ new[k].weight >= 0
    BY <1>1 DEF Laid
  <2> QED
    BY <1>2, <2>1
<1>4. rest = (W + 1) .. (W + L)
  <2>1. ASSUME NEW k \in (W + 1) .. (W + L) PROVE k \in rest
    <3>1. k \in DOMAIN new /\ k \notin 1 .. W
      BY <1>1
    <3> QED
      BY <1>2, <3>1
  <2>2. ASSUME NEW k \in rest PROVE k \in (W + 1) .. (W + L)
    <3>1. \E j \in 1 .. L : k = W + j
      BY <1>2
    <3> QED
      BY <1>1, <3>1
  <2> HIDE DEF rest
  <2> QED
    BY <2>1, <2>2
<1>5. Cardinality(rest) = L
  <2>1. W + 1 \in Int /\ W + L \in Int /\ (W + L) - (W + 1) + 1 = L /\ (W + 1 > W + L => L = 0)
    BY <1>1
  <2>2. Cardinality((W + 1) .. (W + L)) = L
    BY <2>1, FS_Interval
  <2> QED
    BY <1>4, <2>2
<1>6. Total(Filter(new, LAMBDA m : m.weight >= 0)) = a[W]
  <2> DEFINE w == [i \in 1 .. W |-> new[i]]
  <2>1. Filter(new, LAMBDA m : m.weight >= 0) = Keep(new, heavy)
    BY Zenon DEF Filter
  <2>2. Keep(new, heavy) = w
    <3> HIDE DEF heavy
    <3> QED
      BY <1>1, <1>3, KeepFirst
  <2>3. Len(w) = W /\ \A i \in 1 .. W : w[i] = new[i]
    <3>1. w = [i \in 1 .. W |-> w[i]] /\ \A i \in 1 .. W : w[i] = new[i]
      OBVIOUS
    <3> HIDE DEF w
    <3> QED
      BY <1>1, <3>1, FunctionIsSeq
  <2> HIDE DEF w
  <2>4. \A i \in 1 .. W : a[i] = a[i - 1] + w[i].weight
    BY <2>3 DEF Laid
  <2>5. a[0] = 0
    BY DEF Laid
  <2>6. Total(w) = a[W]
    <3>1. W \in Nat /\ Len(w) = W /\ a[0] = 0
      BY <1>1, <2>3, <2>5
    <3> QED
      BY <2>4, <3>1, TotalIs
  <2> HIDE DEF heavy
  <2> QED
    BY <2>1, <2>2, <2>6, Zenon
<1>7. \A k \in DOMAIN new \ rest : Share(new, k) = new[k].weight
  <2> SUFFICES ASSUME NEW k \in DOMAIN new \ rest PROVE Share(new, k) = new[k].weight
    OBVIOUS
  <2>1. k \in 1 .. W
    BY <1>2
  <2> QED
    BY <2>1, ShareOfWeighted
<1>8. ASSUME NEW k \in rest
      PROVE  /\ 2 * (L * Share(new, k) - left) <= L * (L - 1)
             /\ -2 * (L * Share(new, k) - left) <= L * (L - 1)
  <2>1. PICK j \in 1 .. L : k = W + j
    BY <1>2
  <2>2. L >= 1 /\ s = Rounded(left, L)
    BY <1>1 DEF Laid
  <2> HIDE DEF left, rest
  <2>3. s \in Nat /\ 2 * (L * s - left) <= L /\ 2 * (left - L * s) <= L
    BY <1>1, <2>2, RoundedNear
  <2>4. Share(new, k) = Part(left, s, j, L)
    BY <2>1, <2>3, ShareOfWeightless DEF left
  <2>5. /\ 2 * (L * Part(left, s, j, L) - left) <= L * (L - 1)
        /\ -2 * (L * Part(left, s, j, L) - left) <= L * (L - 1)
    BY <1>1, <2>2, <2>3, PartNear
  <2> QED
    BY <2>4, <2>5
<1>9. rest # {} => \A d \in 0 .. 99 : \E k \in DOMAIN new : d < new[k].cumulative
  <2> SUFFICES ASSUME rest # {} PROVE \A d \in 0 .. 99 : \E k \in DOMAIN new : d < new[k].cumulative
    OBVIOUS
  <2>1. L >= 1
    BY <1>1, <1>2
  <2>2. L \in 1 .. L /\ W + L \in DOMAIN new
    BY <1>1, <2>1
  <2>3. new[W + L].cumulative = 100
    BY <2>2 DEF Laid, weightless_end
  <2> TAKE d \in 0 .. 99
  <2> DEFINE k == W + L
  <2>4. k \in DOMAIN new /\ new[k].cumulative = 100
    BY <2>2, <2>3
  <2> HIDE DEF rest, k
  <2>5. d < new[k].cumulative
    <3>1. d < 100
      OBVIOUS
    <3> QED
      BY <2>4, <3>1, Zenon
  <2> QED
    BY <2>4, <2>5
<1> HIDE DEF left
<1>10. \A k \in rest : LET off == L * Share(new, k) - left
                       IN  2 * off <= L * (L - 1) /\ -2 * off <= L * (L - 1)
  <2> HIDE DEF rest
  <2> QED
    BY <1>8
<1>11. 100 - Total(Filter(new, LAMBDA m : m.weight >= 0)) = left
  BY <1>6 DEF left
<1> QED
  BY <1>5, <1>7, <1>9, <1>10, <1>11, Zenon DEF FairlyShared

(* What is kept has the weights it was kept for. *)
LEMMA KeptSigns ==
  ASSUME NEW ms, AllOk(ms)
  PROVE  /\ \A k \in DOMAIN Weighted(ms) : Weighted(ms)[k].weight >= 0
         /\ \A k \in DOMAIN Weightless(ms) : Weightless(ms)[k].weight < 0
<1>1. Len(ms) \in Nat /\ DOMAIN ms = 1 .. Len(ms)
  BY IsSeqFacts DEF AllOk
<1>2. ASSUME NEW ks \in SUBSET DOMAIN ms
      PROVE  \A a \in DOMAIN Keep(ms, ks) : \E k \in ks : Keep(ms, ks)[a] = ms[k]
  <2> DEFINE s == Keep(ms, ks)
             m == Len(ms)
  <2> HIDE DEF s
  <2>0. m \in Nat /\ ks \in SUBSET (1 .. m)
    BY <1>1, <1>2
  <2> HIDE DEF m
  <2>1. Picks(s, ms, ks)
    BY <2>0, KeepPicks, Zenon DEF s
  <2>2. \A a \in DOMAIN s : \E k \in ks : s[a] = ms[k]
    BY <2>1 DEF Picks
  <2> QED
    BY <2>2 DEF s
<1>3. \A k \in DOMAIN Weighted(ms) : \E i \in {x \in DOMAIN ms : ms[x].weight >= 0} : Weighted(ms)[k] = ms[i]
  BY <1>2, Zenon DEF Weighted
<1>4. \A k \in DOMAIN Weightless(ms) : \E i \in {x \in DOMAIN ms : ms[x].weight < 0} : Weightless(ms)[k] = ms[i]
  BY <1>2, Zenon DEF Weightless
<1> QED
  BY <1>3, <1>4

LEMMA LaidOut ==
  ASSUME NEW ms, AllOk(ms), ~TooHeavy(ms), NEW new, new = EndsOfWeighted(ms) \o EndsOfWeightless(ms)
  PROVE  FairlyShared(new) /\ IsSeq(new) /\ Len(new) = Len(Weighted(ms)) + Len(Weightless(ms))
<1> DEFINE w == Weighted(ms)
           x == Weightless(ms)
           e1 == EndsOfWeighted(ms)
           e2 == EndsOfWeightless(ms)
           W == Len(w)
           L == Len(x)
<1>1. AllOk(w) /\ AllOk(x)
  BY KeptOk
<1>2. /\ \A k \in DOMAIN w : w[k].weight >= 0 /\ w[k].weight \in Nat
      /\ \A k \in DOMAIN x : x[k].weight < 0 /\ x[k].weight \in Int
  BY <1>1, KeptSigns DEF AllOk, MappingOk
<1>3. PICK a : Sums(w, a)
  BY <1>1, <1>2, SumsOf
<1>4. W \in Nat /\ L \in Nat /\ DOMAIN w = 1 .. W /\ DOMAIN x = 1 .. L
  BY <1>1, IsSeqFacts DEF AllOk
<1>5. Total(w) = a[W] /\ a[W] \in Nat /\ a[W] <= 100
  <2>1. ~(Total(w) > 100)
    BY DEF TooHeavy
  <2>2. W \in 0 .. W
    BY <1>4
  <2> HIDE DEF w
  <2> QED
    BY <1>3, <2>1, <2>2 DEF Sums
<1> DEFINE s == Rounded(100 - a[W], L)
<1>6. /\ DOMAIN e1 = DOMAIN w /\ e1 = [k \in DOMAIN e1 |-> e1[k]]
      /\ \A k \in DOMAIN w : e1[k] = Ending(w[k], Total(SubSeq(w, 1, k)))
  BY DEF EndsOfWeighted
<1>7. /\ DOMAIN e2 = DOMAIN x /\ e2 = [k \in DOMAIN e2 |-> e2[k]]
      /\ \A k \in DOMAIN x : e2[k] = Ending(x[k], weightless_end(a[W], s, k, L))
  <2>1. /\ DOMAIN e2 = DOMAIN x /\ e2 = [k \in DOMAIN e2 |-> e2[k]]
        /\ \A k \in DOMAIN x : e2[k] = Ending(x[k], weightless_end(Total(w), Rounded(100 - Total(w), L), k, L))
    BY DEF EndsOfWeightless
  <2> HIDE DEF w, x, e2
  <2> QED
    BY <1>5, <2>1
<1> HIDE DEF w, x, e1, e2, s
<1>8. AllOk(e1)
  <2>1. \A k \in DOMAIN w : MappingOk(e1[k])
    BY <1>1, <1>6, EndingOk DEF AllOk
  <2> QED
    BY <1>1, <1>6, <2>1, EndsOk
<1>9. AllOk(e2)
  <2>1. \A k \in DOMAIN x : MappingOk(e2[k])
    BY <1>1, <1>7, EndingOk DEF AllOk
  <2> QED
    BY <1>1, <1>7, <2>1, EndsOk
<1>10. Joins(new, e1, e2)
  <2>1. IsSeq(e1) /\ IsSeq(e2)
    BY <1>8, <1>9 DEF AllOk
  <2> QED
    BY <2>1, Concatenated, Zenon DEF e1, e2
<1>11. /\ Len(e1) = W /\ Len(e2) = L /\ DOMAIN new = 1 .. W + L /\ Len(new) \in Nat
       /\ \A k \in 1 .. W : new[k] = e1[k]
       /\ \A k \in 1 .. L : new[W + k] = e2[k]
  <2>1. Len(e1) \in Nat /\ DOMAIN e1 = 1 .. Len(e1) /\ Len(e2) \in Nat /\ DOMAIN e2 = 1 .. Len(e2)
    BY <1>10 DEF Joins
  <2>2. Len(e1) = W /\ Len(e2) = L
    <3> HIDE DEF W, L
    <3> QED
      BY <1>4, <1>6, <1>7, <2>1
  <2>3. DOMAIN new = 1 .. Len(new) /\ Len(new) = Len(e1) + Len(e2)
    BY <1>10 DEF Joins
  <2>4. \A k \in DOMAIN e1 : new[k] = e1[k]
    BY <1>10 DEF Joins
  <2>5. \A k \in DOMAIN e2 : new[Len(e1) + k] = e2[k]
    BY <1>10 DEF Joins
  <2>6. DOMAIN new = 1 .. W + L /\ Len(new) \in Nat
    BY <2>1, <2>2, <2>3
  <2>7. \A k \in 1 .. W : new[k] = e1[k]
    BY <2>1, <2>2, <2>4
  <2>8. \A k \in 1 .. L : new[W + k] = e2[k]
    BY <2>1, <2>2, <2>5
  <2> QED
    BY <2>2, <2>6, <2>7, <2>8
<1>12. \A k \in 1 .. W : /\ new[k].cumulative = a[k] /\ new[k].weight = w[k].weight
                         /\ a[k] = a[k - 1] + w[k].weight /\ w[k].weight \in Nat
  <2> TAKE k \in 1 .. W
  <2>1. k \in DOMAIN w /\ MappingOk(w[k])
    BY <1>1, <1>4 DEF AllOk
  <2> DEFINE end == Total(SubSeq(w, 1, k))
  <2>2. end = a[k] /\ a[k] = a[k - 1] + w[k].weight
    BY <1>3 DEF Sums
  <2> HIDE DEF end
  <2>3. new[k] = Ending(w[k], end)
    BY <1>6, <1>11, <2>1 DEF end
  <2>4. new[k].cumulative = end /\ new[k].weight = w[k].weight
    BY <2>1, <2>3, EndingOk
  <2> QED
    BY <1>2, <2>1, <2>2, <2>4
<1>13. \A k \in 1 .. L : /\ new[W + k].cumulative = weightless_end(a[W], s, k, L)
                         /\ new[W + k].weight \in Int /\ new[W + k].weight < 0
  <2> TAKE k \in 1 .. L
  <2>1. k \in DOMAIN x /\ MappingOk(x[k])
    BY <1>1, <1>4 DEF AllOk
  <2> DEFINE end == weightless_end(a[W], s, k, L)
             m == new[W + k]
  <2>3. m = Ending(x[k], end)
    BY <1>7, <1>11, <2>1
  <2> HIDE DEF end, m
  <2>4. m.cumulative = end /\ m.weight = x[k].weight
    BY <2>1, <2>3, EndingOk
  <2> QED
    BY <1>2, <2>1, <2>4 DEF end, m
<1>16. IsSeq(new) /\ Len(new) = Len(Weighted(ms)) + Len(Weightless(ms))
  BY <1>10, <1>11 DEF Joins, w, x
<1>14. a[0] = 0 /\ (\A i \in 0 .. W : a[i] \in Nat) /\ \A i \in 0 .. W : \A j \in 0 .. i : a[j] <= a[i]
  BY <1>3 DEF Sums
<1> HIDE DEF W, L
<1>15. Laid(new, a, W, L, s)
  BY <1>4, <1>5, <1>11, <1>12, <1>13, <1>14 DEF Laid, s
<1> QED
  BY <1>11, <1>15, <1>16, LaidFair

(* Every Mapping is weighted or weightless. *)
LEMMA KeptAll ==
  ASSUME NEW ms, AllOk(ms)
  PROVE  Len(Weighted(ms)) + Len(Weightless(ms)) = Len(ms)
<1> DEFINE m == Len(ms)
           A == {k \in DOMAIN ms : ms[k].weight >= 0}
           B == {k \in DOMAIN ms : ms[k].weight < 0}
<1>1. m \in Nat /\ DOMAIN ms = 1 .. m
  BY IsSeqFacts DEF AllOk
<1>2. \A k \in DOMAIN ms : ms[k].weight \in Int
  BY DEF AllOk, MappingOk
<1>3. A \cup B = 1 .. m /\ A \cap B = {} /\ A \in SUBSET (1 .. m) /\ B \in SUBSET (1 .. m)
  <2> HIDE DEF m
  <2> QED
    BY <1>1, <1>2
<1> HIDE DEF m, A, B
<1>4. IsFiniteSet(1 .. m) /\ Cardinality(1 .. m) = m
  BY <1>1, FS_Interval
<1>5. IsFiniteSet(A) /\ IsFiniteSet(B)
  BY <1>3, <1>4, FS_Subset
<1>6. Cardinality(A \cup B) = Cardinality(A) + Cardinality(B) - Cardinality(A \cap B)
  BY <1>5, FS_Union
<1>7. Cardinality(A) \in Nat /\ Cardinality(B) \in Nat
  BY <1>5, FS_CardinalityType
<1>8. m = Cardinality(A) + Cardinality(B)
  <2>1. Cardinality(A \cup B) = m /\ Cardinality(A \cap B) = 0
    BY <1>3, <1>4, FS_EmptySet
  <2> QED
    BY <1>1, <1>6, <1>7, <2>1
<1>9. Len(Weighted(ms)) = Cardinality(A)
  <2>1. Picks(Keep(ms, A), ms, A)
    BY <1>1, <1>3, KeepPicks, Zenon
  <2>2. Len(Keep(ms, A)) = Cardinality(A)
    BY <2>1 DEF Picks
  <2> QED
    BY <2>2 DEF Weighted, A
<1>10. Len(Weightless(ms)) = Cardinality(B)
  <2>1. Picks(Keep(ms, B), ms, B)
    BY <1>1, <1>3, KeepPicks, Zenon
  <2>2. Len(Keep(ms, B)) = Cardinality(B)
    BY <2>1 DEF Picks
  <2> QED
    BY <2>2 DEF Weightless, B
<1> QED
  BY <1>8, <1>9, <1>10 DEF m

(* The Mappings of a group get the requests that their weights say. *)
Fair(ms) ==
  \/ ms = <<>>
  \/ Len(ms) = 1 /\ Share(ms, 1) = 100
  \/ Len(ms) > 1 /\ FairlyShared(ms)

LEMMA NormalFair ==
  ASSUME NEW ms, AllOk(ms), normalize_weights(ms).ok
  PROVE  Fair(normalize_weights(ms).mappings)
<1>1. CASE Len(ms) = 1
  <2> DEFINE m == Ending(ms[1], 100)
             new == <<m>>
  <2>1. normalize_weights(ms).mappings = new
    BY <1>1, NormalCases
  <2>2. m.cumulative = 100
    <3>1. 1 \in DOMAIN ms
      BY <1>1, IsSeqFacts DEF AllOk
    <3> QED
      BY <3>1, EndingOk DEF AllOk
  <2> HIDE DEF m
  <2>3. Len(new) = 1 /\ new[1].cumulative = 100
    BY <2>2, SingletonIsSeq
  <2> HIDE DEF new
  <2> DEFINE mine == {d \in 0 .. 99 : d < new[1].cumulative /\ \A j \in 1 .. (1 - 1) : d >= new[j].cumulative}
  <2>4. mine = 0 .. 99
    <3>1. \A d \in 0 .. 99 : d < 100
      OBVIOUS
    <3>2. \A d \in 0 .. 99 : d < new[1].cumulative
      BY <2>3, <3>1, Zenon
    <3>3. 1 .. (1 - 1) = {}
      OBVIOUS
    <3>4. \A d \in 0 .. 99 : d \in mine
      BY <3>2, <3>3, Zenon
    <3>5. mine \subseteq 0 .. 99
      OBVIOUS
    <3> HIDE DEF mine
    <3> QED
      BY <3>4, <3>5
  <2>5. Cardinality(0 .. 99) = 100
    <3> DEFINE lo == 0
               hi == 99
    <3>1. lo \in Int /\ hi \in Int /\ ~(lo > hi) /\ hi - lo + 1 = 100
      OBVIOUS
    <3> HIDE DEF lo, hi
    <3>2. Cardinality(lo .. hi) = 100
      BY <3>1, FS_Interval
    <3> QED
      BY <3>2 DEF lo, hi
  <2>6. Share(new, 1) = 100
    BY <2>4, <2>5 DEF Share
  <2> QED
    BY <2>1, <2>3, <2>6 DEF Fair
<1>2. CASE Len(ms) # 1
  <2> DEFINE new == EndsOfWeighted(ms) \o EndsOfWeightless(ms)
  <2>1. ~TooHeavy(ms) /\ normalize_weights(ms).mappings = new
    BY <1>2, NormalCases
  <2>2. FairlyShared(new) /\ IsSeq(new) /\ Len(new) = Len(Weighted(ms)) + Len(Weightless(ms))
    BY <2>1, LaidOut, Zenon
  <2> HIDE DEF new
  <2>3. Len(new) = Len(ms) /\ Len(new) \in Nat
    BY <2>2, KeptAll, IsSeqFacts
  <2>4. Len(new) = 0 => new = <<>>
    BY <2>2, EmptySeq DEF IsSeq
  <2> QED
    BY <1>2, <2>1, <2>2, <2>3, <2>4 DEF Fair
<1> QED
  BY <1>1, <1>2

(* The Mappings of the group k get what they should, or it was reported. *)
Settled(r, k) == Fair(r.groups[k].mappings) \/ <<"group", r.groups[k].name>> \in r.errors

(* A service whose cluster can be named. *)
Callable(r, s) == (~s.broken \/ Len(s.hosts) = 1) => s.cluster \in ClusterNames(r)

(* t has the services of r, which may have got their clusters since. *)
SameServices(r, t) ==
  /\ IsSeq(t.services) /\ DOMAIN t.services = DOMAIN r.services
  /\ \A k \in DOMAIN r.services :
       /\ Servable(t.services[k])
       /\ t.services[k].role = r.services[k].role /\ t.services[k].source = r.services[k].source

LEMMA ClusterShaped ==
  ASSUME NEW c, NEW r, NEW m, NEW marker
  PROVE  Shaped(IRCluster(c, r, m, marker))
BY DEF Shaped, IRCluster

LEMMA ServiceTurn ==
  ASSUME NEW c, NEW r, NEW k, Whole(r), ClustersOk(r), IsSeq(r.services),
         \A j \in DOMAIN r.services : Servable(r.services[j]), k \in DOMAIN r.services
  PROVE  LET t == add_service(c, r, k)
         IN  /\ Whole(t) /\ r.errors \subseteq t.errors /\ t.filters = r.filters /\ t.groups = r.groups
             /\ ClustersOk(t) /\ ClusterNames(r) \subseteq ClusterNames(t)
             /\ SameServices(r, t) /\ Callable(t, t.services[k])
             /\ \A j \in DOMAIN r.services : j # k => t.services[j] = r.services[j]
<1> DEFINE s == r.services[k]
           all == [i \in DOMAIN s.hosts |-> ServiceCluster(c, r, s, s.hosts[i])]
           done == MergeClusters(s.source, NoCluster, all)
           noted == [r EXCEPT !.errors = @ \cup done.errors]
           made == NoteClusters(noted, all)
           added == IF done.good THEN add_cluster(made, done.kept) ELSE made
           t == add_service(c, r, k)
<1>1. t = [added EXCEPT !.services[k].cluster = done.kept.name, !.services[k].broken = done.broken]
  BY DEF add_service, MergeClusters, NoteClusters
<1>2. IsSeq(all) /\ Len(all) = Len(s.hosts) /\ Len(all) >= 1 /\ \A i \in 1 .. Len(all) : Shaped(all[i])
  <2>1. IsSeq(s.hosts) /\ s.hosts # <<>>
    BY DEF Servable
  <2>2. Len(s.hosts) \in Nat /\ DOMAIN s.hosts = 1 .. Len(s.hosts) /\ Len(s.hosts) # 0
    BY <2>1, IsSeqFacts, EmptySeq DEF IsSeq
  <2>3. all = [i \in 1 .. Len(s.hosts) |-> all[i]]
    BY <2>2
  <2>5. \A i \in DOMAIN s.hosts : Shaped(all[i])
    <3> SUFFICES ASSUME NEW i \in DOMAIN s.hosts PROVE Shaped(ServiceCluster(c, r, s, s.hosts[i]))
      OBVIOUS
    <3> QED
      BY ClusterShaped, Zenon DEF ServiceCluster
  <2> HIDE DEF all, s
  <2>4. IsSeq(all) /\ Len(all) = Len(s.hosts)
    BY <2>2, <2>3, FunctionIsSeq
  <2> QED
    BY <2>2, <2>4, <2>5
<1> HIDE DEF all
<1>3. MergeInv(done) /\ (Len(all) = 1 => done.good = TRUE)
  BY <1>2, Merged
<1> HIDE DEF done
<1>4. Frame(r, noted)
  BY DEF Frame, Whole
<1> HIDE DEF noted
<1>5. Frame(noted, made)
  BY <1>4, NotedAll DEF Frame
<1> HIDE DEF made
<1>6. Extends(r, made)
  BY <1>4, <1>5, FrameTwice, FrameExtends
<1>7. Extends(made, add_cluster(made, done.kept))
      /\ done.kept.name \in ClusterNames(add_cluster(made, done.kept))
  BY <1>3, <1>6, ClusterAdded DEF Extends, MergeInv
<1>8. Extends(r, added) /\ (done.good = TRUE => done.kept.name \in ClusterNames(added))
  BY <1>6, <1>7, ExtendsTwice
<1> HIDE DEF added, t
<1> DEFINE mine == [s EXCEPT !.cluster = done.kept.name, !.broken = done.broken]
           services == [r.services EXCEPT ![k] = mine]
<1>9. t = [added EXCEPT !.services = services]
  <2>1. added.services = r.services
    BY <1>8 DEF Extends
  <2>2. t = [added EXCEPT !.services = [[@ EXCEPT ![k].cluster = done.kept.name] EXCEPT ![k].broken = done.broken]]
    BY <1>1, <1>8 DEF Extends, Whole
  <2>3. [[r.services EXCEPT ![k].cluster = done.kept.name] EXCEPT ![k].broken = done.broken] = services
    OBVIOUS
  <2> QED
    BY <2>1, <2>2, <2>3
<1>10. /\ DOMAIN mine = DOMAIN s /\ mine.role = s.role /\ mine.source = s.source /\ mine.hosts = s.hosts
       /\ mine.cluster = done.kept.name /\ mine.broken = done.broken
  BY DEF Servable
<1> HIDE DEF mine
<1>11. /\ IsSeq(services) /\ DOMAIN services = DOMAIN r.services /\ services[k] = mine
       /\ \A j \in DOMAIN r.services : j # k => services[j] = r.services[j]
  BY ExceptFacts
<1> HIDE DEF services
<1>12. /\ Whole(t) /\ r.errors \subseteq t.errors /\ t.filters = r.filters /\ t.groups = r.groups
       /\ t.clusters = added.clusters /\ t.services = services
  BY <1>8, <1>9 DEF Extends, Whole
<1>13. ClustersOk(t) /\ ClusterNames(r) \subseteq ClusterNames(t)
       /\ (done.good = TRUE => done.kept.name \in ClusterNames(t))
  BY <1>8, <1>12 DEF Extends, ClusterNames, ClustersOk
<1>14. Servable(mine)
  BY <1>10 DEF Servable
<1>15. SameServices(r, t)
  BY <1>10, <1>11, <1>12, <1>14 DEF SameServices
<1>16. Callable(t, t.services[k])
  <2>1. Len(mine.hosts) = 1 => done.good = TRUE
    BY <1>2, <1>3, <1>10
  <2>2. ~mine.broken => done.good = TRUE
    BY <1>3, <1>10 DEF MergeInv
  <2> QED
    BY <1>10, <1>11, <1>12, <1>13, <2>1, <2>2 DEF Callable
<1> QED
  BY <1>11, <1>12, <1>13, <1>15, <1>16 DEF t

(* The group k of r has its weights from now on, and the clusters of its
   Mappings are there. *)
Finalizes(r, k, t) ==
  /\ Whole(t) /\ r.errors \subseteq t.errors
  /\ t.filters = r.filters /\ t.services = r.services /\ GroupsOk(t.groups)
  /\ ClustersOk(t) /\ ClusterNames(r) \subseteq ClusterNames(t)
  /\ DOMAIN t.groups = DOMAIN r.groups /\ Settled(t, k)
  /\ \A j \in DOMAIN r.groups :
       j # k => t.groups[j].mappings = r.groups[j].mappings /\ t.groups[j].name = r.groups[j].name

LEMMA GroupFinalized ==
  ASSUME NEW c, NEW r, Whole(r), ClustersOk(r), GroupsOk(r.groups), NEW k \in DOMAIN r.groups
  PROVE  Finalizes(r, k, finalize_group(c, r, k))
<1> DEFINE g == r.groups[k]
           withCluster(m, marker) == [m EXCEPT !.cluster = IRCluster(c, r, m, marker).name]
           ms == [i \in DOMAIN g.mappings |-> withCluster(g.mappings[i], g.mappings[i].tag)]
           sh == [i \in DOMAIN g.shadows |-> withCluster(g.shadows[i], "shadow")]
           normal == normalize_weights(ms)
           e == g.errored \/ ~normal.ok
           host == IF ms = <<>> \/ Last(ms).regex THEN g.host ELSE Last(ms).host
           regex == \E i \in DOMAIN ms : ms[i].host_regex
           redirect == IF g.host_redirect = <<>> \/ g.host_redirect[1].regex THEN <<>>
                       ELSE g.host_redirect[1].host
           labels == Loop(LAMBDA acc, m : Over(m.labels, acc), <<>>, ms)
           flat == [g EXCEPT !.mappings = normal.mappings, !.shadows = sh, !.errored = e, !.host = host,
                             !.regex = regex, !.redirectHost = redirect, !.labels = labels]
           first == [i \in DOMAIN g.shadows |-> IRCluster(c, r, g.shadows[i], "shadow")]
           second == [i \in DOMAIN g.mappings |-> IRCluster(c, r, g.mappings[i], g.mappings[i].tag)]
           clusters == first \o second
           more == IF normal.ok THEN {} ELSE {<<"group", g.name>>}
           groups == [r.groups EXCEPT ![k] = flat]
           at == [r EXCEPT !.groups = groups, !.errors = @ \cup more]
           t == finalize_group(c, r, k)
<1>1. t = AddClusters(at, clusters)
  BY Zenon DEF finalize_group, group_clusters, AddClusters
<1>2. GroupOk(g) /\ IsSeq(g.mappings) /\ IsSeq(g.shadows) /\ AllOk(g.mappings)
  BY DEF GroupsOk, GroupOk, AllOk
<1>3. /\ DOMAIN g.mappings = 1 .. Len(g.mappings) /\ Len(g.mappings) \in Nat
      /\ DOMAIN g.shadows = 1 .. Len(g.shadows) /\ Len(g.shadows) \in Nat
  BY <1>2, IsSeqFacts
<1>4. \A i \in 1 .. Len(clusters) : Shaped(clusters[i])
  <2>1. \A i \in DOMAIN first : Shaped(first[i])
    BY ClusterShaped
  <2>2. \A i \in DOMAIN second : Shaped(second[i])
    BY ClusterShaped
  <2>3. first = [i \in 1 .. Len(g.shadows) |-> first[i]] /\ second = [i \in 1 .. Len(g.mappings) |-> second[i]]
    BY <1>3
  <2> HIDE DEF first, second, g
  <2>4. IsSeq(first) /\ IsSeq(second)
    BY <1>3, <2>3, FunctionIsSeq
  <2>5. Joins(clusters, first, second)
    BY <2>4, Concatenated, Zenon
  <2> HIDE DEF clusters
  <2>6. DOMAIN clusters = 1 .. Len(clusters)
    BY <2>5 DEF Joins
  <2> QED
    BY <2>1, <2>2, <2>5, <2>6 DEF Joins
<1>5. AllOk(ms)
  <2>1. /\ DOMAIN ms = DOMAIN g.mappings /\ ms = [i \in DOMAIN ms |-> ms[i]]
        /\ \A i \in DOMAIN g.mappings : \E x : ms[i] = [g.mappings[i] EXCEPT !.cluster = x]
    OBVIOUS
  <2> HIDE DEF ms, g
  <2>2. \A i \in DOMAIN g.mappings : MappingOk(ms[i])
    BY <1>2, <2>1 DEF AllOk, MappingOk
  <2> QED
    BY <1>2, <2>1, <2>2, EndsOk
<1>6. IsSeq(sh)
  <2>1. sh = [i \in 1 .. Len(g.shadows) |-> sh[i]]
    BY <1>3
  <2> HIDE DEF sh, g
  <2> QED
    BY <1>3, <2>1, FunctionIsSeq
<1> HIDE DEF ms, sh
<1>7. AllOk(normal.mappings)
  BY <1>5, NormalOk
<1>13. normal.ok => Fair(normal.mappings)
  BY <1>5, NormalFair
<1> HIDE DEF normal, e, host, regex, redirect, labels
<1>8. GroupOk(flat)
  <2> HIDE DEF g
  <2> QED
    BY <1>2, <1>6, <1>7 DEF GroupOk, AllOk
<1>14. flat.mappings = normal.mappings /\ flat.name = g.name
  <2> HIDE DEF g
  <2> QED
    BY <1>2 DEF GroupOk
<1>15. normal.ok \/ <<"group", g.name>> \in more
  OBVIOUS
<1> HIDE DEF flat
<1>9. /\ GroupsOk(groups) /\ DOMAIN groups = DOMAIN r.groups /\ groups[k] = flat
      /\ \A j \in DOMAIN r.groups : j # k => groups[j] = r.groups[j]
  <2>1. /\ DOMAIN groups = DOMAIN r.groups /\ groups[k] = flat
        /\ \A j \in DOMAIN r.groups : j # k => groups[j] = r.groups[j]
    BY ExceptFacts DEF GroupsOk
  <2> HIDE DEF groups
  <2> QED
    BY <1>8, <2>1, GroupPut DEF groups
<1> HIDE DEF groups, clusters, more
<1>10. /\ Whole(at) /\ r.errors \subseteq at.errors /\ more \subseteq at.errors /\ at.filters = r.filters /\ at.services = r.services
       /\ at.groups = groups /\ at.clusters = r.clusters
  BY DEF Whole
<1> HIDE DEF at
<1>11. ClustersOk(at) /\ ClusterNames(at) = ClusterNames(r)
  BY <1>10 DEF ClustersOk, ClusterNames
<1>12. Extends(at, t)
  BY <1>1, <1>4, <1>10, <1>11, AddedAll
<1> HIDE DEF t, g
<1>16. t.groups = groups /\ more \subseteq t.errors
  BY <1>10, <1>12 DEF Extends
<1>17. Settled(t, k)
  BY <1>9, <1>13, <1>14, <1>15, <1>16 DEF Settled
<1> QED
  BY <1>9, <1>10, <1>11, <1>12, <1>16, <1>17 DEF Extends, Finalizes, t

LEMMA CompressExtends ==
  ASSUME NEW r, Whole(r), ClustersOk(r)
  PROVE  Extends(r, compress_names(r))
<1> DEFINE e(k) == IF is_long(r.clusters[k].name)
                   THEN Append(short_name(r.clusters[k].name), ToString(collision_number(r, k)))
                   ELSE r.clusters[k].name
           cs == [k \in DOMAIN r.clusters |-> [r.clusters[k] EXCEPT !.envoy_name = e(k)]]
           t == compress_names(r)
<1>1. t = [r EXCEPT !.clusters = cs]
  BY DEF compress_names
<1> HIDE DEF e
<1>2. DOMAIN cs = DOMAIN r.clusters
      /\ \A k \in DOMAIN cs : cs[k].name = r.clusters[k].name /\ Shaped(cs[k])
  BY DEF ClustersOk, Shaped
<1>3. Len(r.clusters) \in Nat /\ DOMAIN r.clusters = 1 .. Len(r.clusters)
  BY IsSeqFacts DEF ClustersOk
<1>4. cs = [k \in 1 .. Len(r.clusters) |-> cs[k]]
  BY <1>3
<1> HIDE DEF cs, t
<1>5. IsSeq(cs)
  BY <1>3, <1>4, FunctionIsSeq
<1>6. /\ Whole(t) /\ t.errors = r.errors /\ t.filters = r.filters /\ t.services = r.services
      /\ t.clusters = cs /\ t.groups = r.groups
  BY <1>1 DEF Whole
<1>7. ClusterNames(t) = ClusterNames(r) /\ ClustersOk(t)
  BY <1>2, <1>5, <1>6 DEF ClusterNames, ClustersOk
<1> QED
  BY <1>5, <1>6, <1>7 DEF Extends, t

-----------------------------------------------------------------------------
(* The filters of an HTTP listener. *)

LEMMA FrontFacts ==
  ASSUME NEW s, IsSeq(s), Len(s) >= 1
  PROVE  Range(Front(s)) = {s[i] : i \in 1 .. (Len(s) - 1)} /\ Last(s) = s[Len(s)]
<1> DEFINE m == Len(s) - 1
           f == SubSeq(s, 1, m)
<1>1. Len(s) \in Nat /\ DOMAIN s = 1 .. Len(s) /\ m \in Nat
  BY IsSeqFacts
<1>2. \A i \in 1 .. m : s[i] \in Range(s)
  BY <1>1 DEF Range
<1>3. f \in Seq(Range(s)) /\ Len(f) = m /\ \A i \in 1 .. m : f[i] = s[i]
  <2>1. m \in Int /\ 1 \in Int /\ m - 1 + 1 = m /\ \A i \in 1 .. m : 1 + i - 1 = i
    BY <1>1
  <2>2. /\ f \in Seq(Range(s)) /\ Len(f) = IF 1 <= m THEN m - 1 + 1 ELSE 0
        /\ \A i \in 1 .. m - 1 + 1 : f[i] = s[1 + i - 1]
    <3> HIDE DEF m
    <3> QED
      BY <1>2, <2>1, SubSeqProperties
  <2> HIDE DEF f, m
  <2> QED
    BY <1>1, <2>1, <2>2
<1>4. Front(s) = f
  BY DEF Front
<1> HIDE DEF f
<1>5. DOMAIN f = 1 .. m
  BY <1>1, <1>3, LenProperties
<1>6. Last(s) = s[Len(s)]
  BY DEF Last
<1> QED
  BY <1>3, <1>4, <1>5, <1>6 DEF Range

(* The services of a role. *)
LEMMA ServicesOfFacts ==
  ASSUME NEW r, NEW role, IsSeq(r.services)
  PROVE  /\ \A k \in DOMAIN ServicesOf(r, role) :
              ServicesOf(r, role)[k] \in Range(r.services) /\ ServicesOf(r, role)[k].role = role
         /\ (\E s \in Range(r.services) : s.role = role) => 1 \in DOMAIN ServicesOf(r, role)
<1> DEFINE ks == {k \in DOMAIN r.services : r.services[k].role = role}
           u == ServicesOf(r, role)
           m == Len(r.services)
<1>1. u = Keep(r.services, ks)
  BY DEF ServicesOf, Filter
<1>2. m \in Nat /\ ks \in SUBSET (1 .. m)
  BY IsSeqFacts
<1>3. \A k \in ks : r.services[k] \in Range(r.services) /\ r.services[k].role = role
  BY DEF Range
<1>4. (\E s \in Range(r.services) : s.role = role) => ks # {}
  BY DEF Range
<1> HIDE DEF ks, u, m
<1>5. Picks(u, r.services, ks)
  BY <1>1, <1>2, KeepPicks
<1>6. PICK p \in [DOMAIN u -> ks] :
        (\A a \in DOMAIN u : u[a] = r.services[p[a]]) /\ \A i \in ks : \E a \in DOMAIN u : p[a] = i
  BY <1>5 DEF Picks
<1>7. DOMAIN u = 1 .. Len(u) /\ Len(u) \in Nat
  BY <1>5, IsSeqFacts DEF Picks
<1>8. ks # {} => 1 \in DOMAIN u
  BY <1>6, <1>7
<1>9. \A k \in DOMAIN u : u[k] \in Range(r.services) /\ u[k].role = role
  BY <1>3, <1>6
<1> QED
  BY <1>4, <1>8, <1>9 DEF u

(* The names that Envoy's clusters will have. *)
EnvoyNames(r) == {r.clusters[k].envoy_name : k \in DOMAIN r.clusters}

LEMMA EnvoyNameThere ==
  ASSUME NEW r, NEW name, name \in ClusterNames(r)
  PROVE  envoy_name(r, name) \in EnvoyNames(r)
BY DEF envoy_name, ClusterNames, EnvoyNames

(* What FiltersComplete says of the HTTP part of a listener. *)
Filtered(c, r, http) ==
  LET guards == {f.name : f \in Range(Front(http.filters))}
      called == {f.cluster : f \in Range(http.filters)} \cup Range(http.access_log) \cup Range(http.tracing)
  IN  /\ Last(http.filters).name = "router" /\ "router" \notin guards
      /\ IPAsked(c.module) => "ip_allow_deny" \in guards \/ Stopped(r)
      /\ c.ratelimits # <<>> => "ratelimit" \in guards \/ <<"ir.ratelimit", "ir.ratelimit">> \in r.errors
      /\ AuthAsked(c) => guards \cap {"ext_authz", "deny"} # {}
      /\ AuthAsked(c) /\ AuthMisconfigured(c) => "deny" \in guards
      /\ called \ {<<>>} \subseteq EnvoyNames(r)

(* Everything that the listeners need of the IR. *)
Serving(c, r) ==
  /\ Guarded(c, r) /\ IsSeq(r.services)
  /\ \A s \in Range(r.services) : Servable(s) /\ Callable(r, s)

LEMMA FilterMade ==
  ASSUME NEW c, NEW r, Serving(c, r), ~asserts_fail(r, {"auth", "log"}), NEW i \in DOMAIN r.filters
  PROVE  LET f == r.filters[i]
             v == V3HTTPFilter(r, f)
         IN  /\ v.cluster = <<>> \/ v.cluster \in EnvoyNames(r)
             /\ f \notin {"extauth"} => v.name = f
             /\ f = "extauth" => v.name \in {"ext_authz", "deny"}
             /\ f = "extauth" /\ AuthMisconfigured(c) => v.name = "deny"
<1> DEFINE f == r.filters[i]
           v == V3HTTPFilter(r, f)
<1>0. /\ IsSeq(r.services) /\ Guarded(c, r)
      /\ DOMAIN r.filters = 1 .. Len(r.filters) /\ Len(r.filters) \in Nat /\ r.filters[Len(r.filters)] = "router"
  BY IsSeqFacts DEF Serving, Guarded
<1>1. f # "router" => f \in GuardsOf(r)
  BY <1>0 DEF GuardsOf
<1>2. CASE f = "extauth"
  <2> DEFINE a == ServicesOf(r, "auth")[1]
  <2>1. \E s \in Range(r.services) : s.role = "auth"
    BY <1>0, <1>1, <1>2 DEF Guarded
  <2>2. a \in Range(r.services) /\ a.role = "auth"
    BY <1>0, <2>1, ServicesOfFacts
  <2>3. v = V3HTTPFilter_auth(r, a)
    BY <1>2 DEF V3HTTPFilter
  <2> HIDE DEF a, v
  <2>4. ~a.broken
    BY <2>2 DEF asserts_fail
  <2>5. a.cluster \in ClusterNames(r)
    BY <2>2, <2>4 DEF Serving, Callable
  <2>6. envoy_name(r, a.cluster) \in EnvoyNames(r)
    BY <2>5, EnvoyNameThere
  <2>7. AuthMisconfigured(c) => <<"AuthService", a.source>> \in r.errors
    BY <1>0, <2>2 DEF Guarded
  <2> QED
    BY <1>2, <2>3, <2>6, <2>7 DEF V3HTTPFilter_auth, v
<1>3. CASE f = "ratelimit"
  <2> DEFINE a == ServicesOf(r, "ratelimit")[1]
  <2>1. \E s \in Range(r.services) : s.role = "ratelimit"
    BY <1>0, <1>1, <1>3 DEF Guarded
  <2>2. a \in Range(r.services) /\ a.role = "ratelimit"
    BY <1>0, <2>1, ServicesOfFacts
  <2>3. v = [name |-> f, cluster |-> envoy_name(r, a.cluster)]
    BY <1>3 DEF V3HTTPFilter
  <2> HIDE DEF a, v
  <2>4. Len(a.hosts) = 1
    BY <2>2 DEF Serving, Servable
  <2>5. a.cluster \in ClusterNames(r)
    BY <2>2, <2>4 DEF Serving, Callable
  <2>6. envoy_name(r, a.cluster) \in EnvoyNames(r)
    BY <2>5, EnvoyNameThere
  <2> QED
    BY <1>3, <2>3, <2>6 DEF v
<1>4. CASE f \notin {"extauth", "ratelimit"}
  <2>1. v = [name |-> f, cluster |-> <<>>]
    BY <1>4 DEF V3HTTPFilter
  <2> HIDE DEF v
  <2> QED
    BY <1>4, <2>1 DEF v
<1> QED
  BY <1>2, <1>3, <1>4

LEMMA RoleCalled ==
  ASSUME NEW c, NEW r, Serving(c, r), NEW role, role # "auth"
  PROVE  \A k \in DOMAIN ServicesOf(r, role) : envoy_name(r, ServicesOf(r, role)[k].cluster) \in EnvoyNames(r)
<1> TAKE k \in DOMAIN ServicesOf(r, role)
<1> DEFINE s == ServicesOf(r, role)[k]
<1>1. s \in Range(r.services) /\ s.role = role
  BY ServicesOfFacts DEF Serving
<1> HIDE DEF s
<1>2. s.cluster \in ClusterNames(r)
  BY <1>1 DEF Serving, Servable, Callable
<1>3. envoy_name(r, s.cluster) \in EnvoyNames(r)
  BY <1>2, EnvoyNameThere
<1> QED
  BY <1>3 DEF s

LEMMA HttpConfigured ==
  ASSUME NEW c, NEW r, Serving(c, r), ~asserts_fail(r, {"auth", "log"})
  PROVE  Filtered(c, r, base_http_config(r))
<1> DEFINE http == base_http_config(r)
           fs == [k \in DOMAIN r.filters |-> V3HTTPFilter(r, r.filters[k])]
           log == [k \in DOMAIN ServicesOf(r, "log") |-> envoy_name(r, ServicesOf(r, "log")[k].cluster)]
           trace == [k \in DOMAIN ServicesOf(r, "tracing") |->
                       envoy_name(r, ServicesOf(r, "tracing")[k].cluster)]
           m == Len(r.filters)
           guards == {f.name : f \in Range(Front(http.filters))}
<1>0. /\ Guarded(c, r) /\ DOMAIN r.filters = 1 .. m /\ m \in Nat /\ m >= 1 /\ r.filters[m] = "router"
  BY IsSeqFacts DEF Serving, Guarded
<1>1. http = [filters |-> fs, access_log |-> log, tracing |-> trace]
  BY DEF base_http_config
<1>2. \A x \in Range(log) \cup Range(trace) : x \in EnvoyNames(r)
  BY RoleCalled DEF Range
<1>3. \A k \in DOMAIN r.filters :
        /\ fs[k].cluster = <<>> \/ fs[k].cluster \in EnvoyNames(r)
        /\ r.filters[k] \notin {"extauth"} => fs[k].name = r.filters[k]
        /\ r.filters[k] = "extauth" => fs[k].name \in {"ext_authz", "deny"}
        /\ r.filters[k] = "extauth" /\ AuthMisconfigured(c) => fs[k].name = "deny"
  BY FilterMade
<1>4. fs = [k \in 1 .. m |-> fs[k]]
  BY <1>0
<1> HIDE DEF http, fs, log, trace, m
<1>5. IsSeq(fs) /\ Len(fs) = m /\ DOMAIN fs = 1 .. m
  BY <1>0, <1>4, FunctionIsSeq
<1>6. Range(Front(fs)) = {fs[i] : i \in 1 .. (m - 1)} /\ Last(fs) = fs[m]
  BY <1>0, <1>5, FrontFacts
<1>7. guards = {fs[i].name : i \in 1 .. (m - 1)}
  BY <1>1, <1>6
<1>8. GuardsOf(r) = {r.filters[i] : i \in 1 .. (m - 1)}
  BY DEF GuardsOf, m
<1> HIDE DEF guards
<1>9. ASSUME NEW i \in 1 .. (m - 1) PROVE i \in DOMAIN r.filters
  BY <1>0
<1>10. \A f : f # "extauth" /\ f \in GuardsOf(r) => f \in guards
  BY <1>3, <1>7, <1>8, <1>9
<1>11. "router" \notin guards
  <2> SUFFICES ASSUME NEW i \in 1 .. (m - 1), fs[i].name = "router" PROVE FALSE
    BY <1>7
  <2>1. r.filters[i] # "extauth"
    BY <1>3, <1>9
  <2>2. r.filters[i] = "router"
    BY <1>3, <1>9, <2>1
  <2> QED
    BY <1>0, <1>8, <2>2 DEF Guarded
<1>12. "extauth" \in GuardsOf(r) =>
         guards \cap {"ext_authz", "deny"} # {} /\ (AuthMisconfigured(c) => "deny" \in guards)
  BY <1>3, <1>7, <1>8, <1>9
<1>13. Last(http.filters).name = "router"
  BY <1>0, <1>1, <1>3, <1>6
<1>14. ({f.cluster : f \in Range(http.filters)} \cup Range(http.access_log) \cup Range(http.tracing)) \ {<<>>}
         \subseteq EnvoyNames(r)
  <2>1. \A f \in Range(fs) : f.cluster = <<>> \/ f.cluster \in EnvoyNames(r)
    BY <1>0, <1>3, <1>5 DEF Range
  <2> QED
    BY <1>1, <1>2, <2>1
<1>15. /\ IPAsked(c.module) => "ip_allow_deny" \in guards \/ Stopped(r)
       /\ c.ratelimits # <<>> => "ratelimit" \in guards \/ <<"ir.ratelimit", "ir.ratelimit">> \in r.errors
       /\ AuthAsked(c) => guards \cap {"ext_authz", "deny"} # {}
       /\ AuthAsked(c) /\ AuthMisconfigured(c) => "deny" \in guards
  BY <1>0, <1>10, <1>12 DEF Guarded
<1> QED
  BY <1>11, <1>13, <1>14, <1>15 DEF Filtered, guards, http

LEMMA ClearWithoutHTTP ==
  ASSUME NEW c, NEW r, NEW l, NEW routes, "HTTP" \notin Range(l.protocolStack),
         NEW fc \in Range(FilterChains(c, r, l, routes))
  PROVE  ~fc.http
<1> DEFINE tcp == compute_tcpchains(r, l).chains
           first == finalize_tcp(r, tcp)
           none == <<>>
           all == first \o none
<1>1. IsSeq(tcp) /\ \A k \in DOMAIN tcp : TcpChain(tcp[k])
  BY TcpChainsSeparated DEF Separated
<1>2. FilterChains(c, r, l, routes) = all
  BY DEF FilterChains
<1>3. IsSeq(none) /\ Range(none) = {}
  BY EmptyIsSeq
<1> HIDE DEF tcp, none
<1>4. IsSeq(first) /\ \A i \in DOMAIN first : ~first[i].http
  BY <1>1, TcpFilterChains
<1> HIDE DEF first
<1>5. Joins(all, first, none)
  BY <1>3, <1>4, Concatenated, Zenon
<1> HIDE DEF all
<1>6. fc \in Range(first)
  BY <1>2, <1>3, <1>5 DEF Joins
<1> QED
  BY <1>4, <1>6 DEF Range

-----------------------------------------------------------------------------
(* What is true of the IR from phase to phase. *)

Bare(r) == r.filters = <<>> /\ r.services = <<>> /\ r.clusters = <<>> /\ r.groups = <<>>

AfterModule(c, r) ==
  ModuleFilters(c, r) /\ r.services = <<>> /\ r.clusters = <<>> /\ r.groups = <<>>

AfterServices(c, r) ==
  /\ ModuleFilters(c, r) /\ RateLimited(c, r) /\ Equipped(r)
  /\ r.clusters = <<>> /\ r.groups = <<>>

AfterFilters(c, r) ==
  /\ Guarded(c, r) /\ IsSeq(r.services) /\ \A k \in DOMAIN r.services : Servable(r.services[k])
  /\ GroupsOk(r.groups) /\ ClustersOk(r)

(* The first m services have their clusters. *)
Clustered(c, r, m) ==
  AfterFilters(c, r) /\ \A k \in DOMAIN r.services : k <= m => Callable(r, r.services[k])

AfterClusters(c, r) ==
  AfterFilters(c, r) /\ \A k \in DOMAIN r.services : Callable(r, r.services[k])

LEMMA ModuleFiltersKept ==
  ASSUME NEW c, NEW r, NEW t, ModuleFilters(c, r), t.filters = r.filters, r.errors \subseteq t.errors
  PROVE  ModuleFilters(c, t)
BY DEF ModuleFilters, Stopped

LEMMA BareKept ==
  ASSUME NEW r, NEW t, Bare(r), Frame(r, t)
  PROVE  Bare(t)
BY DEF Bare, Frame

LEMMA ModuleDone ==
  ASSUME NEW c, NEW r, Whole(r), Bare(r)
  PROVE  Whole(finalize_module(c, r)) /\ AfterModule(c, finalize_module(c, r))
<1> DEFINE t == finalize_module(c, r)
<1>1. Whole(t) /\ t.services = r.services /\ t.clusters = r.clusters /\ t.groups = r.groups
      /\ ModuleFilters(c, t)
  BY ModuleFinalized DEF Bare
<1> QED
  BY <1>1 DEF Bare, AfterModule

LEMMA AfterModuleKept ==
  ASSUME NEW c, NEW r, NEW t, AfterModule(c, r), Frame(r, t)
  PROVE  AfterModule(c, t)
BY ModuleFiltersKept DEF AfterModule, Frame

LEMMA EquippedKept ==
  ASSUME NEW r, NEW t, Equipped(r), Equips(r, t)
  PROVE  Equipped(t) /\ Range(r.services) \subseteq Range(t.services)
<1>1. CASE t.services = r.services
  BY <1>1 DEF Equipped
<1>2. CASE t.services # r.services
  <2>1. PICK x : Servable(x) /\ x.role # "auth" /\ t.services = Append(r.services, x)
    BY <1>2 DEF Equips
  <2> DEFINE new == Append(r.services, x)
  <2>2. IsSeq(new) /\ Range(new) = Range(r.services) \cup {x}
    BY AppendFacts DEF Equipped
  <2> HIDE DEF new
  <2>3. t.services = new
    BY <2>1 DEF new
  <2> QED
    BY <2>1, <2>2, <2>3 DEF Equipped
<1> QED
  BY <1>1, <1>2

LEMMA ServicesSetUp ==
  ASSUME NEW c, NEW r, Whole(r), AfterModule(c, r)
  PROVE  LET t == setup_ratelimit(c, setup_tracing(c, r)) IN Whole(t) /\ AfterServices(c, t)
<1> DEFINE s == setup_tracing(c, r)
           t == setup_ratelimit(c, s)
<1>1. Equips(r, s)
  BY TracingEquips
<1>2. Equipped(r)
  BY EmptyIsSeq DEF AfterModule, Equipped
<1> HIDE DEF s
<1>3. Equipped(s) /\ Whole(s)
  BY <1>1, <1>2, EquippedKept DEF Equips
<1>4. Equips(s, t) /\ RateLimited(c, t)
  BY <1>3, RateLimitEquips DEF Equipped, RateLimited
<1> HIDE DEF t
<1>5. Equipped(t)
  BY <1>3, <1>4, EquippedKept
<1>6. /\ t.filters = r.filters /\ r.errors \subseteq t.errors /\ Whole(t)
      /\ t.clusters = r.clusters /\ t.groups = r.groups
  BY <1>1, <1>4 DEF Equips
<1>7. ModuleFilters(c, t)
  BY <1>6, ModuleFiltersKept DEF AfterModule
<1> QED
  BY <1>4, <1>5, <1>6, <1>7 DEF AfterModule, AfterServices, t, s

LEMMA LogLoaded ==
  ASSUME NEW c, NEW r, NEW l, Whole(r), AfterServices(c, r)
  PROVE  Whole(load_log_service(r, l)) /\ AfterServices(c, load_log_service(r, l))
<1> DEFINE t == load_log_service(r, l)
<1>1. Equips(r, t)
  BY LogEquips
<1> HIDE DEF t
<1>2. Equipped(t) /\ Range(r.services) \subseteq Range(t.services)
  BY <1>1, EquippedKept DEF AfterServices
<1>3. ModuleFilters(c, t)
  BY <1>1, ModuleFiltersKept DEF AfterServices, Equips
<1>4. RateLimited(c, t)
  BY <1>1, <1>2 DEF AfterServices, RateLimited, Equips
<1> QED
  BY <1>1, <1>2, <1>3, <1>4 DEF AfterServices, Equips, t

LEMMA FiltersDone ==
  ASSUME NEW c \in Configs, NEW r, Whole(r), AfterServices(c, r)
  PROVE  Whole(save_filters(c, r)) /\ AfterFilters(c, save_filters(c, r))
<1> DEFINE t == save_filters(c, r)
<1>1. /\ Whole(t) /\ t.clusters = r.clusters /\ t.groups = r.groups
      /\ IsSeq(t.services) /\ \A s \in Range(t.services) : Servable(s)
      /\ Guarded(c, t)
  BY FiltersSaved DEF AfterServices
<1> HIDE DEF t
<1>2. \A k \in DOMAIN t.services : Servable(t.services[k])
  BY <1>1 DEF Range
<1>3. GroupsOk(t.groups) /\ ClustersOk(t)
  BY <1>1, EmptyIsSeq DEF AfterServices, GroupsOk, ClustersOk
<1> QED
  BY <1>1, <1>2, <1>3 DEF AfterFilters, t

(* The guards stay: nothing takes a filter or an error away. *)
LEMMA GuardedKept ==
  ASSUME NEW c, NEW r, NEW t, Guarded(c, r), t.filters = r.filters, r.errors \subseteq t.errors,
         DOMAIN t.services = DOMAIN r.services,
         \A k \in DOMAIN r.services : /\ t.services[k].role = r.services[k].role
                                      /\ t.services[k].source = r.services[k].source
  PROVE  Guarded(c, t)
<1>1. GuardsOf(t) = GuardsOf(r)
  BY DEF GuardsOf
<1>2. \A role : (\E s \in Range(r.services) : s.role = role) => \E s \in Range(t.services) : s.role = role
  BY DEF Range
<1>3. \A s \in Range(t.services) : \E x \in Range(r.services) : x.role = s.role /\ x.source = s.source
  BY DEF Range
<1>4. Stopped(r) => Stopped(t)
  BY DEF Stopped
<1>5. /\ IsSeq(t.filters) /\ Len(t.filters) >= 1 /\ t.filters[Len(t.filters)] = "router"
      /\ "router" \notin GuardsOf(t)
      /\ IPAsked(c.module) => "ip_allow_deny" \in GuardsOf(t) \/ Stopped(t)
      /\ c.ratelimits # <<>> => \/ "ratelimit" \in GuardsOf(t)
                                \/ <<"ir.ratelimit", "ir.ratelimit">> \in t.errors
      /\ AuthAsked(c) => "extauth" \in GuardsOf(t)
  BY <1>1, <1>4 DEF Guarded
<1>6. /\ "extauth" \in GuardsOf(t) => \E s \in Range(t.services) : s.role = "auth"
      /\ "ratelimit" \in GuardsOf(t) => \E s \in Range(t.services) : s.role = "ratelimit"
  BY <1>1, <1>2 DEF Guarded
<1>7. AuthMisconfigured(c) => \A s \in Range(t.services) :
                                s.role = "auth" => <<"AuthService", s.source>> \in t.errors
  <2> SUFFICES ASSUME AuthMisconfigured(c), NEW s \in Range(t.services), s.role = "auth"
               PROVE  <<"AuthService", s.source>> \in t.errors
    OBVIOUS
  <2>1. PICK x \in Range(r.services) : x.role = s.role /\ x.source = s.source
    BY <1>3
  <2>2. <<"AuthService", x.source>> \in r.errors
    BY <2>1 DEF Guarded
  <2> QED
    BY <2>1, <2>2
<1> QED
  BY <1>5, <1>6, <1>7 DEF Guarded

LEMMA FiltersKept ==
  ASSUME NEW c, NEW r, NEW t, AfterFilters(c, r), t.filters = r.filters, r.errors \subseteq t.errors,
         t.services = r.services, GroupsOk(t.groups), ClustersOk(t)
  PROVE  AfterFilters(c, t)
<1>1. Guarded(c, t)
  BY GuardedKept DEF AfterFilters
<1> QED
  BY <1>1 DEF AfterFilters

(* ... and neither does anything take a cluster away. *)
LEMMA ClustersKept ==
  ASSUME NEW c, NEW r, NEW t, AfterClusters(c, r), t.filters = r.filters, r.errors \subseteq t.errors,
         t.services = r.services, GroupsOk(t.groups), ClustersOk(t), ClusterNames(r) \subseteq ClusterNames(t)
  PROVE  AfterClusters(c, t)
<1>1. AfterFilters(c, t)
  BY FiltersKept DEF AfterClusters
<1>2. ASSUME NEW k \in DOMAIN t.services PROVE Callable(t, t.services[k])
  BY DEF AfterClusters, Callable
<1> QED
  BY <1>1, <1>2 DEF AfterClusters

LEMMA MappingLoaded ==
  ASSUME NEW c, NEW r, NEW config, Whole(r), AfterFilters(c, r), WeightOk(config)
  PROVE  Whole(load_mapping(c, r, config)) /\ AfterFilters(c, load_mapping(c, r, config))
<1> DEFINE t == load_mapping(c, r, config)
<1>1. Regroups(r, t)
  BY MappingSetUp, MappingAdded DEF load_mapping, AfterFilters
<1> HIDE DEF t
<1>2. ClustersOk(t)
  BY <1>1 DEF Regroups, AfterFilters, ClustersOk
<1>3. AfterFilters(c, t)
  BY <1>1, <1>2, FiltersKept DEF Regroups
<1> QED
  BY <1>1, <1>3 DEF Regroups, t

LEMMA ServiceClustered ==
  ASSUME NEW c, NEW r, NEW m \in Nat, Whole(r), Clustered(c, r, m), m < Len(r.services)
  PROVE  Whole(add_service(c, r, m + 1)) /\ Clustered(c, add_service(c, r, m + 1), m + 1)
<1> DEFINE k == m + 1
           t == add_service(c, r, k)
<1>0. AfterFilters(c, r) /\ IsSeq(r.services) /\ \A j \in DOMAIN r.services : Servable(r.services[j])
  BY DEF Clustered, AfterFilters
<1>1. k \in DOMAIN r.services /\ DOMAIN r.services = 1 .. Len(r.services)
  BY <1>0, IsSeqFacts
<1>2. /\ Whole(t) /\ r.errors \subseteq t.errors /\ t.filters = r.filters /\ t.groups = r.groups
      /\ ClustersOk(t) /\ ClusterNames(r) \subseteq ClusterNames(t)
      /\ SameServices(r, t) /\ Callable(t, t.services[k])
      /\ \A j \in DOMAIN r.services : j # k => t.services[j] = r.services[j]
  BY <1>0, <1>1, ServiceTurn DEF AfterFilters
<1> HIDE DEF t
<1>3. Guarded(c, t)
  <2>1. Guarded(c, r)
    BY <1>0 DEF AfterFilters
  <2> QED
    BY <1>2, <2>1, GuardedKept DEF SameServices
<1>4. AfterFilters(c, t)
  BY <1>0, <1>2, <1>3 DEF AfterFilters, SameServices
<1>5. ASSUME NEW j \in DOMAIN t.services, j <= k PROVE Callable(t, t.services[j])
  <2>1. j \in DOMAIN r.services
    BY <1>2 DEF SameServices
  <2>2. CASE j = k
    BY <1>2, <2>2
  <2>3. CASE j # k
    <3>1. j <= m /\ t.services[j] = r.services[j]
      BY <1>1, <1>2, <1>5, <2>1, <2>3
    <3>2. Callable(r, r.services[j])
      BY <2>1, <3>1 DEF Clustered
    <3> QED
      BY <1>2, <3>1, <3>2 DEF Callable
  <2> QED
    BY <2>2, <2>3
<1> QED
  BY <1>2, <1>4, <1>5 DEF Clustered, t

LEMMA GroupDone ==
  ASSUME NEW c, NEW r, NEW m \in Nat, Whole(r), AfterClusters(c, r), m < Len(r.groups)
  PROVE  Whole(finalize_group(c, r, m + 1)) /\ AfterClusters(c, finalize_group(c, r, m + 1))
<1> DEFINE k == m + 1
           t == finalize_group(c, r, k)
<1>1. GroupsOk(r.groups) /\ ClustersOk(r)
  BY DEF AfterClusters, AfterFilters
<1>2. k \in DOMAIN r.groups
  BY <1>1, IsSeqFacts DEF GroupsOk
<1>3. Finalizes(r, k, t)
  BY <1>1, <1>2, GroupFinalized
<1> HIDE DEF t
<1> QED
  BY <1>3, ClustersKept DEF Finalizes, t

LEMMA NamesDone ==
  ASSUME NEW c, NEW r, Whole(r), AfterClusters(c, r)
  PROVE  Whole(compress_names(r)) /\ AfterClusters(c, compress_names(r))
<1> DEFINE t == compress_names(r)
<1>1. GroupsOk(r.groups) /\ ClustersOk(r)
  BY DEF AfterClusters, AfterFilters
<1>2. Extends(r, t)
  BY <1>1, CompressExtends
<1> HIDE DEF t
<1> QED
  BY <1>1, <1>2, ClustersKept DEF Extends, t

LEMMA AfterClustersKept ==
  ASSUME NEW c, NEW r, NEW t, AfterClusters(c, r), Frame(r, t)
  PROVE  AfterClusters(c, t)
<1>1. GroupsOk(t.groups) /\ ClustersOk(t) /\ ClusterNames(t) = ClusterNames(r)
  BY DEF AfterClusters, AfterFilters, Frame, ClustersOk, ClusterNames
<1> QED
  BY <1>1, ClustersKept DEF Frame

LEMMA ServingNow ==
  ASSUME NEW c, NEW r, AfterClusters(c, r)
  PROVE  Serving(c, r)
BY DEF AfterClusters, AfterFilters, Serving, Range

-----------------------------------------------------------------------------
(* FiltersComplete: the invariant of the phases. *)

EarlyPhases ==
  {"idle", "tls", "contexts", "listeners", "http3", "hosts", "finalize_hosts", "resolve", "module"}

ListenerPhases == {"v3listeners", "v3clusters", "done"}

Stage(p, k, c, r) ==
  /\ p \in EarlyPhases => Bare(r)
  /\ p \in {"resolvers", "tracing"} => AfterModule(c, r)
  /\ p \in {"logs", "filters"} => AfterServices(c, r)
  /\ p = "mappings" => AfterFilters(c, r)
  /\ p = "services" => Clustered(c, r, k)
  /\ p \in {"groups", "ports", "finish", "routes"} \cup ListenerPhases => AfterClusters(c, r)

FilterInv ==
  /\ Whole(ir) /\ n \in Nat
  /\ phase # "idle" => aconf \in Configs
  /\ Stage(phase, n, aconf, ir)
  /\ DOMAIN envoy = {"routes", "listeners", "clusters"} /\ IsSeq(envoy.listeners)
  /\ phase \notin ListenerPhases \cup {"failed"} => envoy.listeners = <<>>
  /\ phase \in ListenerPhases =>
       \A x \in Range(envoy.listeners) :
         (\E fc \in Range(x.filter_chains) : fc.http) => Filtered(aconf, ir, x.http)
  /\ phase = "done" => {x.name : x \in envoy.clusters} = EnvoyNames(ir)

(* The phases of the IR leave Envoy's configuration alone. *)
LEMMA PhaseKeeps ==
  ASSUME FilterInv, phase \notin ListenerPhases \cup {"idle", "failed"},
         phase' \notin ListenerPhases \cup {"idle"},
         n' \in Nat, Whole(ir'), UNCHANGED <<aconf, envoy>>, Stage(phase', n', aconf, ir')
  PROVE  FilterInv'
<1>1. Stage(phase', n', aconf', ir')
  OBVIOUS
<1> QED
  BY <1>1 DEF FilterInv, ListenerPhases

(* A phase over a sequence either takes its next element or ends. *)
LEMMA EarlyStep ==
  ASSUME FilterInv,
         LoadTLSModule \/ LoadTLSContext \/ LoadListener \/ AdvertiseHTTP3 \/ LoadHost \/ FinalizeHosts
         \/ ResolveContext
  PROVE  FilterInv'
<1>1. /\ phase \in EarlyPhases \ {"idle"} /\ phase' \in EarlyPhases \ {"idle"} /\ UNCHANGED <<aconf, envoy>>
      /\ n' \in {0, n + 1}
      /\ \/ ir' \in {ir, load_tls_module(aconf, ir), advertise_http3(ir), finalize_hosts(aconf, ir)}
         \/ \E x : ir' \in {load_tls_context(ir, x), load_listener(ir, x), load_host(aconf, ir, x),
                            resolve_tls_context(aconf, ir, x)}
  <2>1. CASE LoadTLSModule \/ AdvertiseHTTP3 \/ FinalizeHosts
    BY <2>1 DEF LoadTLSModule, AdvertiseHTTP3, FinalizeHosts, Phase, EarlyPhases
  <2>2. CASE LoadTLSContext \/ LoadListener
    BY <2>2 DEF LoadTLSContext, LoadListener, Each, EarlyPhases
  <2>3. CASE LoadHost \/ ResolveContext
    BY <2>3 DEF LoadHost, ResolveContext, Each, EarlyPhases
  <2> QED
    BY <2>1, <2>2, <2>3
<1>2. Whole(ir) /\ n \in Nat /\ Bare(ir)
  BY <1>1 DEF FilterInv, Stage
<1>3. Frame(ir, ir')
  BY <1>1, <1>2, FrameSelf, LoadTLSFrame, ListenersFrame, FinalizeHostsFrame, LoadListenerFrame,
     LoadHostFrame, ResolveFrame
<1>4. Whole(ir') /\ Bare(ir')
  BY <1>2, <1>3, BareKept DEF Frame
<1>5. n' \in Nat
  BY <1>1, <1>2
<1>6. phase \notin ListenerPhases \cup {"idle", "failed"} /\ phase' \notin ListenerPhases \cup {"idle"}
  BY <1>1 DEF EarlyPhases, ListenerPhases
<1>7. Stage(phase', n', aconf, ir')
  BY <1>1, <1>4 DEF Stage, EarlyPhases, ListenerPhases
<1> QED
  BY <1>1, <1>4, <1>5, <1>6, <1>7, PhaseKeeps

LEMMA ModuleStep ==
  ASSUME FilterInv, FinalizeModule \/ LoadResolvers \/ SetupServices
  PROVE  FilterInv'
<1>1. CASE FinalizeModule
  <2> DEFINE r == drop_tls_contexts(ir)
  <2>1. phase = "module" /\ phase' = "resolvers" /\ n' = 0 /\ UNCHANGED <<aconf, envoy>>
        /\ ir' = finalize_module(aconf, r)
    BY <1>1 DEF FinalizeModule, Phase
  <2>2. Whole(ir) /\ Bare(ir)
    BY <2>1 DEF FilterInv, Stage, EarlyPhases
  <2>3. Whole(r) /\ Bare(r)
    BY <2>2, DropFrame, BareKept DEF Frame
  <2> HIDE DEF r
  <2>4. Whole(ir') /\ AfterModule(aconf, ir')
    BY <2>1, <2>3, ModuleDone
  <2>5. Stage(phase', n', aconf, ir')
    BY <2>1, <2>4 DEF Stage, EarlyPhases, ListenerPhases
  <2> QED
    BY <2>1, <2>4, <2>5, PhaseKeeps DEF ListenerPhases
<1>2. CASE LoadResolvers
  <2>1. phase = "resolvers" /\ phase' = "tracing" /\ n' = 0 /\ UNCHANGED <<aconf, envoy>>
        /\ ir' = load_resolvers(aconf, ir)
    BY <1>2 DEF LoadResolvers, Phase
  <2>2. Whole(ir) /\ AfterModule(aconf, ir)
    BY <2>1 DEF FilterInv, Stage
  <2>3. Frame(ir, ir')
    BY <2>1, <2>2, LoadResolversFrame
  <2>4. Whole(ir') /\ AfterModule(aconf, ir')
    BY <2>2, <2>3, AfterModuleKept DEF Frame
  <2>5. Stage(phase', n', aconf, ir')
    BY <2>1, <2>4 DEF Stage, EarlyPhases, ListenerPhases
  <2> QED
    BY <2>1, <2>4, <2>5, PhaseKeeps DEF ListenerPhases
<1>3. CASE SetupServices
  <2>1. phase = "tracing" /\ phase' = "logs" /\ n' = 0 /\ UNCHANGED <<aconf, envoy>>
        /\ ir' = setup_ratelimit(aconf, setup_tracing(aconf, ir))
    BY <1>3 DEF SetupServices, Phase
  <2>2. Whole(ir) /\ AfterModule(aconf, ir)
    BY <2>1 DEF FilterInv, Stage
  <2>3. Whole(ir') /\ AfterServices(aconf, ir')
    BY <2>1, <2>2, ServicesSetUp
  <2>4. Stage(phase', n', aconf, ir')
    BY <2>1, <2>3 DEF Stage, EarlyPhases, ListenerPhases
  <2> QED
    BY <2>1, <2>3, <2>4, PhaseKeeps DEF ListenerPhases
<1> QED
  BY <1>1, <1>2, <1>3

LEMMA FilterPhaseStep ==
  ASSUME FilterInv, LoadLogService \/ SaveFilters
  PROVE  FilterInv'
<1>1. CASE LoadLogService
  <2>1. /\ phase = "logs" /\ phase' \in {"logs", "filters"} /\ n' \in {0, n + 1} /\ UNCHANGED <<aconf, envoy>>
        /\ ir' = ir \/ \E x : ir' = load_log_service(ir, x)
    BY <1>1 DEF LoadLogService, Each
  <2>2. Whole(ir) /\ AfterServices(aconf, ir) /\ n \in Nat
    BY <2>1 DEF FilterInv, Stage
  <2>3. Whole(ir') /\ AfterServices(aconf, ir')
    BY <2>1, <2>2, LogLoaded
  <2>4. Stage(phase', n', aconf, ir') /\ n' \in Nat
    BY <2>1, <2>2, <2>3 DEF Stage, EarlyPhases, ListenerPhases
  <2> QED
    BY <2>1, <2>3, <2>4, PhaseKeeps DEF ListenerPhases
<1>2. CASE SaveFilters
  <2>1. phase = "filters" /\ phase' = "mappings" /\ n' = 0 /\ UNCHANGED <<aconf, envoy>>
        /\ ir' = save_filters(aconf, ir)
    BY <1>2 DEF SaveFilters, Phase
  <2>2. Whole(ir) /\ AfterServices(aconf, ir) /\ aconf \in Configs
    BY <2>1 DEF FilterInv, Stage
  <2>3. Whole(ir') /\ AfterFilters(aconf, ir')
    BY <2>1, <2>2, FiltersDone
  <2>4. Stage(phase', n', aconf, ir')
    BY <2>1, <2>3 DEF Stage, EarlyPhases, ListenerPhases
  <2> QED
    BY <2>1, <2>3, <2>4, PhaseKeeps DEF ListenerPhases
<1> QED
  BY <1>1, <1>2

LEMMA MappingStep ==
  ASSUME FilterInv, LoadMapping
  PROVE  FilterInv'
<1> DEFINE all == aconf.mappings \o aconf.tcpmappings \o ProbeMappings(aconf)
<1>1. /\ phase = "mappings" /\ UNCHANGED <<aconf, envoy>>
      /\ \/ n < Len(all) /\ n' = n + 1 /\ phase' = phase /\ ir' = load_mapping(aconf, ir, all[n + 1])
         \/ n' = 0 /\ phase' = "services" /\ ir' = ir
  BY DEF LoadMapping, Each
<1>2. Whole(ir) /\ AfterFilters(aconf, ir) /\ aconf \in Configs /\ n \in Nat
  BY <1>1 DEF FilterInv, Stage
<1>3. CASE n < Len(all) /\ n' = n + 1 /\ phase' = phase /\ ir' = load_mapping(aconf, ir, all[n + 1])
  <2>2. WeightOk(all[n + 1])
    BY <1>2, <1>3, LoadedMappingsOk
  <2> HIDE DEF all
  <2>3. Whole(ir') /\ AfterFilters(aconf, ir')
    BY <1>2, <1>3, <2>2, MappingLoaded
  <2>4. Stage(phase', n', aconf, ir') /\ n' \in Nat
    BY <1>1, <1>2, <1>3, <2>3 DEF Stage, EarlyPhases, ListenerPhases
  <2> QED
    BY <1>1, <1>3, <2>3, <2>4, PhaseKeeps DEF ListenerPhases
<1>4. CASE n' = 0 /\ phase' = "services" /\ ir' = ir
  <2>1. Clustered(aconf, ir', n')
    <3>1. DOMAIN ir.services = 1 .. Len(ir.services) /\ Len(ir.services) \in Nat
      BY <1>2, IsSeqFacts DEF AfterFilters
    <3> QED
      BY <1>2, <1>4, <3>1 DEF Clustered
  <2>2. Stage(phase', n', aconf, ir')
    BY <1>4, <2>1 DEF Stage, EarlyPhases, ListenerPhases
  <2> QED
    BY <1>1, <1>2, <1>4, <2>2, PhaseKeeps DEF ListenerPhases
<1> QED
  BY <1>1, <1>3, <1>4

LEMMA ServiceStep ==
  ASSUME FilterInv, AddService
  PROVE  FilterInv'
<1>1. /\ phase = "services" /\ UNCHANGED <<aconf, envoy>>
      /\ \/ n < Len(ir.services) /\ n' = n + 1 /\ phase' = phase /\ ir' = add_service(aconf, ir, n + 1)
         \/ ~(n < Len(ir.services)) /\ n' = 0 /\ phase' = "groups" /\ ir' = ir
  BY DEF AddService, Each
<1>2. Whole(ir) /\ Clustered(aconf, ir, n) /\ n \in Nat
  BY <1>1 DEF FilterInv, Stage
<1>3. CASE n < Len(ir.services) /\ n' = n + 1 /\ phase' = phase /\ ir' = add_service(aconf, ir, n + 1)
  <2>1. Whole(ir') /\ Clustered(aconf, ir', n')
    BY <1>2, <1>3, ServiceClustered
  <2>2. Stage(phase', n', aconf, ir') /\ n' \in Nat
    BY <1>1, <1>2, <1>3, <2>1 DEF Stage, EarlyPhases, ListenerPhases
  <2> QED
    BY <1>1, <1>3, <2>1, <2>2, PhaseKeeps DEF ListenerPhases
<1>4. CASE ~(n < Len(ir.services)) /\ n' = 0 /\ phase' = "groups" /\ ir' = ir
  <2>1. AfterClusters(aconf, ir')
    <3>1. DOMAIN ir.services = 1 .. Len(ir.services) /\ Len(ir.services) \in Nat
      BY <1>2, IsSeqFacts DEF AfterFilters, Clustered
    <3> QED
      BY <1>2, <1>4, <3>1 DEF Clustered, AfterClusters
  <2>2. Stage(phase', n', aconf, ir')
    BY <1>4, <2>1 DEF Stage, EarlyPhases, ListenerPhases
  <2> QED
    BY <1>1, <1>2, <1>4, <2>2, PhaseKeeps DEF ListenerPhases
<1> QED
  BY <1>1, <1>3, <1>4

LEMMA FinishStep ==
  ASSUME FilterInv, FinalizeGroup \/ FinalizeListener \/ FinishIR
  PROVE  FilterInv'
<1>1. /\ phase \in {"groups", "ports", "finish"} /\ phase' \in {"groups", "ports", "finish", "routes", "failed"}
      /\ UNCHANGED <<aconf, envoy>> /\ n' \in {0, n + 1}
      /\ \/ ir' \in {ir, compress_names(ir)}
         \/ n < Len(ir.groups) /\ ir' = finalize_group(aconf, ir, n + 1)
         \/ \E g : ir' = synthesize_listener(ir, g)
  <2>1. CASE FinalizeGroup
    BY <2>1 DEF FinalizeGroup, Each
  <2>2. CASE FinalizeListener
    BY <2>2 DEF FinalizeListener, Each, Filter
  <2>3. CASE FinishIR
    BY <2>3 DEF FinishIR, Phase
  <2> QED
    BY <2>1, <2>2, <2>3
<1>2. Whole(ir) /\ AfterClusters(aconf, ir) /\ n \in Nat
  BY <1>1 DEF FilterInv, Stage
<1>3. Whole(ir') /\ AfterClusters(aconf, ir')
  <2>1. CASE ir' \in {ir, compress_names(ir)}
    BY <1>2, <2>1, NamesDone
  <2>2. CASE n < Len(ir.groups) /\ ir' = finalize_group(aconf, ir, n + 1)
    BY <1>2, <2>2, GroupDone
  <2>3. ASSUME NEW g, ir' = synthesize_listener(ir, g) PROVE Whole(ir') /\ AfterClusters(aconf, ir')
    BY <1>2, <2>3, ListenersFrame, AfterClustersKept DEF Frame
  <2> QED
    BY <1>1, <2>1, <2>2, <2>3
<1>4. Stage(phase', n', aconf, ir') /\ n' \in Nat
  BY <1>1, <1>2, <1>3 DEF Stage, EarlyPhases, ListenerPhases
<1> QED
  BY <1>1, <1>3, <1>4, PhaseKeeps DEF ListenerPhases

LEMMA FilteredKept ==
  ASSUME NEW c, NEW r, NEW t, NEW http, Filtered(c, r, http), r.errors \subseteq t.errors, t.clusters = r.clusters
  PROVE  Filtered(c, t, http)
<1>1. EnvoyNames(t) = EnvoyNames(r) /\ (Stopped(r) => Stopped(t))
  BY DEF EnvoyNames, Stopped
<1> QED
  BY <1>1 DEF Filtered

LEMMA RoutesStep ==
  ASSUME FilterInv, GenerateRoutes
  PROVE  FilterInv'
<1>1. /\ phase = "routes" /\ phase' = "v3listeners" /\ UNCHANGED <<n, aconf, ir>>
      /\ envoy.listeners = <<>> /\ AfterClusters(aconf, ir)
      /\ DOMAIN envoy = {"routes", "listeners", "clusters"} /\ aconf \in Configs
  BY DEF GenerateRoutes, FilterInv, Stage, ListenerPhases
<1>2. PICK rs : envoy' = [envoy EXCEPT !.routes = rs]
  BY DEF GenerateRoutes
<1>3. DOMAIN envoy' = {"routes", "listeners", "clusters"} /\ envoy'.listeners = <<>>
  BY <1>1, <1>2
<1>4. Stage(phase', n', aconf', ir')
  BY <1>1 DEF Stage, EarlyPhases, ListenerPhases
<1> QED
  BY <1>1, <1>3, <1>4, EmptyIsSeq DEF FilterInv, ListenerPhases

(* A listener that the compiler generates has all its filters. *)
LEMMA ListenerStep ==
  ASSUME FilterInv, GenerateListener
  PROVE  FilterInv'
<1>0. /\ phase = "v3listeners" /\ aconf' = aconf /\ Whole(ir) /\ n \in Nat /\ aconf \in Configs
      /\ AfterClusters(aconf, ir) /\ DOMAIN envoy = {"routes", "listeners", "clusters"}
      /\ IsSeq(envoy.listeners)
      /\ \A x \in Range(envoy.listeners) :
           (\E fc \in Range(x.filter_chains) : fc.http) => Filtered(aconf, ir, x.http)
  BY DEF GenerateListener, FilterInv, Stage, ListenerPhases
<1>1. CASE n < Len(ir.listeners)
  <2> DEFINE l == ir.listeners[n + 1]
             fcs == FilterChains(aconf, ir, l, envoy.routes)
             x == [NewListener(ir, l) EXCEPT !.filter_chains = fcs]
             made == generate_listener(aconf, ir, envoy, l)
             more == AllChains(aconf, ir, l).errors \cup IF fcs = <<>> THEN {<<"Listener", l.name>>} ELSE {}
             http == IF "HTTP" \in Range(l.protocolStack) THEN base_http_config(ir)
                     ELSE [filters |-> <<>>, access_log |-> <<>>, tracing |-> <<>>]
  <2>1. n' = n + 1 /\ phase' = phase /\ ir' = made.ir /\ envoy' = made.envoy
    BY <1>1 DEF GenerateListener
  <2>2. made = [ir |-> [ir EXCEPT !.errors = @ \cup more],
                envoy |-> IF fcs = <<>> THEN envoy ELSE [envoy EXCEPT !.listeners = Append(@, x)]]
    BY ListenerGenerated
  <2>3. "HTTP" \in Range(l.protocolStack) => ~asserts_fail(ir, {"auth", "log"})
    BY <1>1 DEF GenerateListener, GenerateFails
  <2>4. (\E fc \in Range(fcs) : fc.http) => "HTTP" \in Range(l.protocolStack)
    BY ClearWithoutHTTP
  <2>5. x.filter_chains = fcs /\ x.http = http
    BY DEF NewListener
  <2>6. (\E fc \in Range(x.filter_chains) : fc.http) => Filtered(aconf, ir, x.http)
    <3> SUFFICES ASSUME \E fc \in Range(fcs) : fc.http PROVE Filtered(aconf, ir, http)
      BY <2>5
    <3>1. "HTTP" \in Range(l.protocolStack)
      BY <2>4
    <3>2. http = base_http_config(ir)
      BY <3>1
    <3>3. Serving(aconf, ir) /\ ~asserts_fail(ir, {"auth", "log"})
      BY <1>0, <2>3, <3>1, ServingNow
    <3> HIDE DEF http
    <3> QED
      BY <3>2, <3>3, HttpConfigured
  <2> HIDE DEF l, fcs, x, more, made, http
  <2>7. ir' = [ir EXCEPT !.errors = @ \cup more]
        /\ envoy' = IF fcs = <<>> THEN envoy ELSE [envoy EXCEPT !.listeners = Append(@, x)]
    BY <2>1, <2>2
  <2>8. Frame(ir, ir')
    BY <1>0, <2>7 DEF Frame, Whole
  <2>9. Whole(ir') /\ AfterClusters(aconf, ir') /\ n' \in Nat
    BY <1>0, <2>1, <2>8, AfterClustersKept DEF Frame
  <2>10. Stage(phase', n', aconf', ir')
    BY <1>0, <2>1, <2>9 DEF Stage, EarlyPhases, ListenerPhases
  <2>11. ASSUME NEW y, (\E fc \in Range(y.filter_chains) : fc.http) => Filtered(aconf, ir, y.http)
         PROVE  (\E fc \in Range(y.filter_chains) : fc.http) => Filtered(aconf, ir', y.http)
    BY <2>8, <2>11, FilteredKept DEF Frame
  <2>12. /\ DOMAIN envoy' = {"routes", "listeners", "clusters"} /\ IsSeq(envoy'.listeners)
         /\ Range(envoy'.listeners) \subseteq Range(envoy.listeners) \cup {x}
    <3> DEFINE new == Append(envoy.listeners, x)
    <3>1. IsSeq(new) /\ Range(new) = Range(envoy.listeners) \cup {x}
      BY <1>0, AppendFacts
    <3>2. envoy' = IF fcs = <<>> THEN envoy ELSE [envoy EXCEPT !.listeners = new]
      BY <2>7
    <3> HIDE DEF new
    <3> QED
      BY <1>0, <3>1, <3>2
  <2>13. \A y \in Range(envoy'.listeners) :
          (\E fc \in Range(y.filter_chains) : fc.http) => Filtered(aconf', ir', y.http)
    BY <1>0, <2>6, <2>11, <2>12
  <2> QED
    BY <1>0, <2>1, <2>9, <2>10, <2>12, <2>13 DEF FilterInv, ListenerPhases
<1>2. CASE ~(n < Len(ir.listeners))
  <2>1. n' = 0 /\ phase' = "v3clusters" /\ UNCHANGED <<ir, envoy, aconf>>
    BY <1>2 DEF GenerateListener
  <2>2. Stage(phase', n', aconf', ir')
    BY <1>0, <2>1 DEF Stage, EarlyPhases, ListenerPhases
  <2> QED
    BY <1>0, <2>1, <2>2 DEF FilterInv, ListenerPhases
<1> QED
  BY <1>1, <1>2

LEMMA ClustersStep ==
  ASSUME FilterInv, GenerateClusters
  PROVE  FilterInv'
<1> DEFINE cs == generate_clusters(aconf, ir)
<1>0. /\ phase = "v3clusters" /\ UNCHANGED <<n, aconf, ir>> /\ Whole(ir) /\ n \in Nat /\ aconf \in Configs
      /\ phase' = "done" /\ envoy' = [envoy EXCEPT !.clusters = cs]
      /\ AfterClusters(aconf, ir) /\ DOMAIN envoy = {"routes", "listeners", "clusters"}
      /\ IsSeq(envoy.listeners)
      /\ \A x \in Range(envoy.listeners) :
           (\E fc \in Range(x.filter_chains) : fc.http) => Filtered(aconf, ir, x.http)
  BY DEF GenerateClusters, FilterInv, Stage, ListenerPhases
<1>1. {x.name : x \in cs} = EnvoyNames(ir)
  <2>1. \A y : V3Cluster(aconf, ir, y).name = y.envoy_name
    BY DEF V3Cluster
  <2>2. cs = {V3Cluster(aconf, ir, y) : y \in Range(ir.clusters)}
    BY DEF generate_clusters
  <2> HIDE DEF cs
  <2> QED
    BY <2>1, <2>2 DEF EnvoyNames, Range
<1> HIDE DEF cs
<1>2. DOMAIN envoy' = {"routes", "listeners", "clusters"} /\ envoy'.listeners = envoy.listeners
      /\ envoy'.clusters = cs
  BY <1>0
<1>3. Stage(phase', n', aconf', ir')
  BY <1>0 DEF Stage, EarlyPhases, ListenerPhases
<1>4. {x.name : x \in envoy'.clusters} = EnvoyNames(ir')
  BY <1>0, <1>1, <1>2
<1> QED
  BY <1>0, <1>2, <1>3, <1>4 DEF FilterInv, ListenerPhases

LEMMA FilterStep ==
  ASSUME FilterInv, [Next]_vars
  PROVE  FilterInv'
<1>1. CASE Start
  BY <1>1 DEF Start, FilterInv, Stage, EarlyPhases, ListenerPhases
<1>2. CASE FailListener
  <2>1. phase' = "failed" /\ UNCHANGED <<n, aconf, ir, envoy>> /\ phase = "v3listeners"
    BY <1>2 DEF FailListener
  <2>2. Stage(phase', n', aconf', ir')
    BY <2>1 DEF Stage, EarlyPhases, ListenerPhases
  <2> QED
    BY <2>1, <2>2 DEF FilterInv, ListenerPhases
<1>3. CASE Discard
  <2>1. phase' = "idle" /\ n' = 0 /\ ir' = EmptyIR /\ envoy' = EmptyEnvoy
    BY <1>3 DEF Discard
  <2>2. Whole(ir') /\ Bare(ir')
    BY <2>1 DEF EmptyIR, Whole, Bare
  <2>3. DOMAIN envoy' = {"routes", "listeners", "clusters"} /\ envoy'.listeners = <<>> /\ IsSeq(envoy'.listeners)
    BY <2>1, EmptyIsSeq DEF EmptyEnvoy
  <2>4. Stage(phase', n', aconf', ir')
    BY <2>1, <2>2 DEF Stage, EarlyPhases, ListenerPhases
  <2> QED
    BY <2>1, <2>2, <2>3, <2>4 DEF FilterInv, ListenerPhases
<1>4. CASE UNCHANGED vars
  <2>1. Stage(phase', n', aconf', ir') <=> Stage(phase, n, aconf, ir)
    BY <1>4 DEF vars
  <2> QED
    BY <1>4, <2>1 DEF FilterInv, vars
<1> QED
  BY <1>1, <1>2, <1>3, <1>4, EarlyStep, ModuleStep, FilterPhaseStep, MappingStep, ServiceStep, FinishStep,
     RoutesStep, ListenerStep, ClustersStep DEF Next

LEMMA FilterStart == Init => FilterInv
<1> SUFFICES ASSUME Init PROVE FilterInv
  OBVIOUS
<1>1. phase = "idle" /\ n = 0 /\ ir = EmptyIR /\ envoy = EmptyEnvoy
  BY DEF Init
<1>2. Whole(ir) /\ Bare(ir)
  BY <1>1 DEF EmptyIR, Whole, Bare
<1>3. DOMAIN envoy = {"routes", "listeners", "clusters"} /\ envoy.listeners = <<>> /\ IsSeq(envoy.listeners)
  BY <1>1, EmptyIsSeq DEF EmptyEnvoy
<1>4. Stage(phase, n, aconf, ir)
  BY <1>1, <1>2 DEF Stage, EarlyPhases, ListenerPhases
<1> QED
  BY <1>1, <1>2, <1>3, <1>4 DEF FilterInv, ListenerPhases

(* Whatever is configured, no request gets past the filters that guard the
   routes: on every HTTP listener that diagd hands to Envoy the router is last,
   what was asked for is before it or was reported, a misconfigured AuthService
   denies everything, and every cluster that a filter, an access log or a tracer
   calls is there (irambassador.py finalize, irauth.py, irratelimit.py,
   v3httpfilter.py). *)
THEOREM FiltersAlwaysComplete == Spec => []FiltersComplete
<1>1. FilterInv /\ [Next]_vars => FilterInv'
  BY FilterStep
<1>2. FilterInv => FiltersComplete
  <2> SUFFICES ASSUME FilterInv, phase = "done",
                      NEW l \in {x \in Range(envoy.listeners) : \E fc \in Range(x.filter_chains) : fc.http}
               PROVE  LET guards == {f.name : f \in Range(Front(l.http.filters))}
                          called == {f.cluster : f \in Range(l.http.filters)} \cup Range(l.http.access_log)
                                    \cup Range(l.http.tracing)
                      IN  /\ Last(l.http.filters).name = "router" /\ "router" \notin guards
                          /\ IPAsked(aconf.module) => "ip_allow_deny" \in guards \/ ModuleStopped
                          /\ aconf.ratelimits # <<>> =>
                               "ratelimit" \in guards \/ Reported("ir.ratelimit", "ir.ratelimit")
                          /\ AuthAsked(aconf) => guards \cap {"ext_authz", "deny"} # {}
                          /\ AuthAsked(aconf) /\ AuthMisconfigured(aconf) => "deny" \in guards
                          /\ called \ {<<>>} \subseteq {x.name : x \in envoy.clusters}
    BY DEF FiltersComplete
  <2>1. Filtered(aconf, ir, l.http)
    BY DEF FilterInv, ListenerPhases
  <2>2. {x.name : x \in envoy.clusters} = EnvoyNames(ir)
    BY DEF FilterInv
  <2>3. Stopped(ir) => ModuleStopped
    BY DEF Stopped, ModuleStopped, Reported
  <2> QED
    BY <2>1, <2>2, <2>3 DEF Filtered, Reported
<1> QED
  BY <1>1, <1>2, FilterStart, PTL DEF Spec

-----------------------------------------------------------------------------
(* WeightsHonoured: the groups are settled one after the other. *)

WeightInv ==
  /\ phase = "groups" => \A k \in DOMAIN ir.groups : k <= n => Settled(ir, k)
  /\ phase \in {"ports", "finish", "routes"} \cup ListenerPhases => \A k \in DOMAIN ir.groups : Settled(ir, k)

LEMMA SettledKept ==
  ASSUME NEW r, NEW t, NEW k, Settled(r, k), r.errors \subseteq t.errors,
         t.groups[k].mappings = r.groups[k].mappings, t.groups[k].name = r.groups[k].name
  PROVE  Settled(t, k)
BY DEF Settled

LEMMA GroupsDomain ==
  ASSUME FilterInv, phase \in {"services", "groups"}
  PROVE  n \in Nat /\ Len(ir.groups) \in Nat /\ DOMAIN ir.groups = 1 .. Len(ir.groups)
<1>1. GroupsOk(ir.groups)
  BY DEF FilterInv, Stage, Clustered, AfterClusters, AfterFilters
<1> QED
  BY <1>1, IsSeqFacts DEF GroupsOk, FilterInv

LEMMA GroupStep ==
  ASSUME FilterInv, WeightInv, FinalizeGroup
  PROVE  WeightInv'
<1>1. /\ phase = "groups"
      /\ \/ n < Len(ir.groups) /\ n' = n + 1 /\ phase' = "groups" /\ ir' = finalize_group(aconf, ir, n + 1)
         \/ ~(n < Len(ir.groups)) /\ phase' = "ports" /\ ir' = ir
  BY DEF FinalizeGroup, Each
<1>2. /\ n \in Nat /\ Len(ir.groups) \in Nat /\ DOMAIN ir.groups = 1 .. Len(ir.groups)
      /\ \A k \in DOMAIN ir.groups : k <= n => Settled(ir, k)
  BY <1>1, GroupsDomain DEF WeightInv
<1>3. CASE n < Len(ir.groups) /\ n' = n + 1 /\ phase' = "groups" /\ ir' = finalize_group(aconf, ir, n + 1)
  <2>1. n + 1 \in DOMAIN ir.groups
    BY <1>2, <1>3
  <2>2. Whole(ir) /\ ClustersOk(ir) /\ GroupsOk(ir.groups)
    BY <1>1 DEF FilterInv, Stage, AfterClusters, AfterFilters
  <2>3. Finalizes(ir, n + 1, ir')
    BY <1>3, <2>1, <2>2, GroupFinalized
  <2>4. ASSUME NEW k \in DOMAIN ir'.groups, k <= n + 1 PROVE Settled(ir', k)
    <3>1. k \in DOMAIN ir.groups
      BY <2>3 DEF Finalizes
    <3>2. k = n + 1 \/ (k # n + 1 /\ k <= n)
      BY <1>2, <2>4, <3>1
    <3> QED
      BY <1>2, <2>3, <3>1, <3>2, SettledKept DEF Finalizes
  <2> QED
    BY <1>3, <2>4 DEF WeightInv, ListenerPhases
<1>4. CASE ~(n < Len(ir.groups)) /\ phase' = "ports" /\ ir' = ir
  <2>1. \A k \in DOMAIN ir.groups : Settled(ir, k)
    BY <1>2, <1>4
  <2> QED
    BY <1>4, <2>1 DEF WeightInv, ListenerPhases
<1> QED
  BY <1>1, <1>3, <1>4

(* The phases after the groups only add errors. *)
LEMMA LaterStep ==
  ASSUME FilterInv, WeightInv,
         FinalizeListener \/ FinishIR \/ GenerateRoutes \/ GenerateListener \/ GenerateClusters
  PROVE  WeightInv'
<1>1. /\ phase \in {"ports", "finish", "routes"} \cup ListenerPhases /\ phase' # "groups"
      /\ \/ ir' \in {ir, compress_names(ir)}
         \/ \E g : ir' = synthesize_listener(ir, g)
         \/ \E l : ir' = generate_listener(aconf, ir, envoy, l).ir
  <2>1. CASE FinalizeListener
    BY <2>1 DEF FinalizeListener, Each, Filter
  <2>2. CASE FinishIR
    BY <2>2 DEF FinishIR, Phase
  <2>3. CASE GenerateRoutes \/ GenerateClusters
    BY <2>3 DEF GenerateRoutes, GenerateClusters, ListenerPhases
  <2>4. CASE GenerateListener
    BY <2>4 DEF GenerateListener, ListenerPhases
  <2> QED
    BY <2>1, <2>2, <2>3, <2>4
<1>2. Whole(ir) /\ ClustersOk(ir) /\ \A k \in DOMAIN ir.groups : Settled(ir, k)
  BY <1>1 DEF WeightInv, FilterInv, Stage, AfterClusters, AfterFilters
<1>3. ir'.groups = ir.groups /\ ir.errors \subseteq ir'.errors
  <2>1. CASE ir' \in {ir, compress_names(ir)}
    BY <1>2, <2>1, CompressExtends DEF Extends
  <2>2. ASSUME NEW g, ir' = synthesize_listener(ir, g) PROVE ir'.groups = ir.groups /\ ir.errors \subseteq ir'.errors
    BY <1>2, <2>2, ListenersFrame DEF Frame
  <2>3. ASSUME NEW l, ir' = generate_listener(aconf, ir, envoy, l).ir
        PROVE  ir'.groups = ir.groups /\ ir.errors \subseteq ir'.errors
    <3>1. PICK more : ir' = [ir EXCEPT !.errors = @ \cup more]
      BY <2>3, ListenerGenerated
    <3> QED
      BY <1>2, <3>1 DEF Whole
  <2> QED
    BY <1>1, <2>1, <2>2, <2>3
<1>4. \A k \in DOMAIN ir'.groups : Settled(ir', k)
  BY <1>2, <1>3, SettledKept
<1> QED
  BY <1>1, <1>4 DEF WeightInv

LEMMA WeightStep ==
  ASSUME FilterInv, WeightInv, [Next]_vars
  PROVE  WeightInv'
<1>1. CASE AddService
  <2>1. \/ phase' = "services"
        \/ phase = "services" /\ phase' = "groups" /\ n' = 0 /\ ir' = ir
    BY <1>1 DEF AddService, Each
  <2>2. CASE phase' = "services"
    BY <2>2 DEF WeightInv, ListenerPhases
  <2>3. CASE phase = "services" /\ phase' = "groups" /\ n' = 0 /\ ir' = ir
    <3>1. \A k \in DOMAIN ir.groups : ~(k <= 0)
      BY <2>3, GroupsDomain
    <3> QED
      BY <2>3, <3>1 DEF WeightInv, ListenerPhases
  <2> QED
    BY <2>1, <2>2, <2>3
<1>2. CASE \/ Start \/ LoadTLSModule \/ LoadTLSContext \/ LoadListener \/ AdvertiseHTTP3 \/ LoadHost
           \/ FinalizeHosts \/ ResolveContext \/ FinalizeModule \/ LoadResolvers \/ SetupServices
           \/ LoadLogService \/ SaveFilters \/ LoadMapping \/ FailListener \/ Discard
  <2>1. phase' \in EarlyPhases \cup {"resolvers", "tracing", "logs", "filters", "mappings", "services", "failed"}
    <3>1. CASE \/ Start \/ LoadTLSModule \/ AdvertiseHTTP3 \/ FinalizeHosts \/ FinalizeModule \/ LoadResolvers
               \/ SetupServices \/ SaveFilters \/ FailListener \/ Discard
      BY <3>1 DEF Start, LoadTLSModule, AdvertiseHTTP3, FinalizeHosts, FinalizeModule, LoadResolvers,
           SetupServices, SaveFilters, FailListener, Discard, Phase, EarlyPhases
    <3>2. CASE LoadTLSContext \/ LoadListener \/ LoadHost \/ ResolveContext \/ LoadLogService \/ LoadMapping
      BY <3>2 DEF LoadTLSContext, LoadListener, LoadHost, ResolveContext, LoadLogService, LoadMapping, Each,
           EarlyPhases
    <3> QED
      BY <1>2, <3>1, <3>2
  <2> QED
    BY <2>1 DEF WeightInv, EarlyPhases, ListenerPhases
<1>3. CASE UNCHANGED vars
  <2>1. ir' = ir /\ phase' = phase /\ n' = n
    BY <1>3 DEF vars
  <2> QED
    BY <2>1 DEF WeightInv
<1> QED
  BY <1>1, <1>2, <1>3, GroupStep, LaterStep DEF Next

(* Whatever Mappings make up a group, each with a weight gets that share of a
   hundred requests, the n without one share the rest to within (n - 1) / 2 of
   the n-th part each, no request is left without a Mapping when a weightless
   one is there, and a Mapping alone gets them all - or the group was reported
   (irbasemappinggroup.py normalize_weights_in_mappings). *)
THEOREM WeightsAlwaysHonoured == Spec => []WeightsHonoured
<1>1. Init => FilterInv /\ WeightInv
  <2>1. Init => WeightInv
    BY DEF Init, WeightInv, ListenerPhases
  <2> QED
    BY <2>1, FilterStart
<1>2. (FilterInv /\ WeightInv) /\ [Next]_vars => (FilterInv /\ WeightInv)'
  BY FilterStep, WeightStep
<1>3. FilterInv /\ WeightInv => WeightsHonoured
  <2> SUFFICES ASSUME WeightInv, phase = "done",
                      NEW g \in {x \in Range(ir.groups) : x.kind = "Mapping" /\ x.mappings # <<>>}
               PROVE  \/ Reported("group", g.name)
                      \/ Len(g.mappings) = 1 /\ Share(g.mappings, 1) = 100
                      \/ Len(g.mappings) > 1 /\ FairlyShared(g.mappings)
    BY DEF WeightsHonoured
  <2>1. PICK k \in DOMAIN ir.groups : g = ir.groups[k]
    BY DEF Range
  <2>2. Settled(ir, k)
    BY DEF WeightInv, ListenerPhases
  <2> QED
    BY <2>1, <2>2 DEF Settled, Fair, Reported
<1> QED
  BY <1>1, <1>2, <1>3, PTL DEF Spec

-----------------------------------------------------------------------------
(* ChainsCertified.  First Secrets: where no name has dots, <name>.<namespace> *)
(* finds the Secret of that name in that namespace, or none.                  *)

Dotless(c) == \A s \in c.secrets : IsSeq(s.name) /\ Len(s.name) = 1

Saved(r) == \A key \in DOMAIN r.saved : Len(key) = 1

LEMMA LenOfEmpty ==
  ASSUME NEW s, IsSeq(s)
  PROVE  Len(s) \in Nat /\ (s # <<>> <=> Len(s) # 0)
BY EmptySeq, IsSeqFacts DEF IsSeq

LEMMA AppendApart ==
  ASSUME NEW s, NEW t, NEW x, NEW y, IsSeq(s), IsSeq(t), Append(s, x) = Append(t, y)
  PROVE  s = t /\ x = y
<1> DEFINE u == Append(s, x)
           w == Append(t, y)
<1>1. /\ Len(s) \in Nat /\ Len(u) = Len(s) + 1 /\ u[Len(s) + 1] = x
      /\ \A i \in 1 .. Len(s) : u[i] = s[i]
  BY AppendFacts
<1>2. /\ Len(t) \in Nat /\ Len(w) = Len(t) + 1 /\ w[Len(t) + 1] = y
      /\ \A i \in 1 .. Len(t) : w[i] = t[i]
  BY AppendFacts
<1>3. u = w
  OBVIOUS
<1> HIDE DEF u, w
<1>4. Len(s) = Len(t) /\ x = y
  BY <1>1, <1>2, <1>3
<1>5. s = [i \in 1 .. Len(s) |-> s[i]] /\ t = [i \in 1 .. Len(t) |-> t[i]]
  BY IsSeqFacts
<1> QED
  BY <1>1, <1>2, <1>3, <1>4, <1>5

LEMMA InfoFacts ==
  ASSUME NEW c, Dotless(c), NEW name, IsSeq(name), NEW ns, NEW s \in secret_info(c, Append(name, ns))
  PROVE  s.name = name /\ s.ns = ns /\ Len(name) = 1 /\ (s.crt \/ s.user)
<1>1. s \in c.secrets /\ Append(s.name, s.ns) = Append(name, ns) /\ (s.crt \/ s.user)
  BY DEF secret_info
<1>2. IsSeq(s.name) /\ Len(s.name) = 1
  BY <1>1 DEF Dotless
<1>3. s.name = name /\ s.ns = ns
  BY <1>1, <1>2, AppendApart
<1> QED
  BY <1>1, <1>2, <1>3

LEMMA Resolves ==
  ASSUME NEW c, Dotless(c), NEW r, Saved(r), NEW name, IsSeq(name), name # <<>>, NEW ns
  PROVE  /\ resolve_secret(c, r, name, ns).name = name /\ resolve_secret(c, r, name, ns).ns = ns
         /\ usable(resolve_secret(c, r, name, ns)) <=> secret_info(c, Append(name, ns)) # {}
<1> DEFINE key == Append(name, ns)
           info == secret_info(c, key)
           s == CHOOSE x \in info : TRUE
<1>1. key \notin DOMAIN r.saved
  <2>1. Len(key) = Len(name) + 1 /\ Len(name) \in Nat
    BY AppendFacts
  <2>2. Len(name) # 0
    BY LenOfEmpty
  <2>3. key \in DOMAIN r.saved => Len(key) = 1
    BY DEF Saved
  <2> HIDE DEF key
  <2> QED
    BY <2>1, <2>2, <2>3
<1>2. resolve_secret(c, r, name, ns) = IF info = {} THEN SavedSecret(name, ns, NoSecret)
                                       ELSE SavedSecret(s.name, s.ns, s)
  BY <1>1 DEF resolve_secret
<1>3. CASE info = {}
  BY <1>2, <1>3 DEF SavedSecret, NoSecret, usable
<1>4. CASE info # {}
  <2>1. s \in info
    BY <1>4
  <2> HIDE DEF s, info
  <2>2. s.name = name /\ s.ns = ns /\ (s.crt \/ s.user)
    BY <2>1, InfoFacts DEF info
  <2>3. resolve_secret(c, r, name, ns) = SavedSecret(name, ns, s)
    BY <1>2, <1>4, <2>2
  <2> QED
    BY <1>4, <2>2, <2>3 DEF SavedSecret, usable, info
<1> QED
  BY <1>3, <1>4

(* s has more errors and Secrets than r, and the same contexts and Hosts. *)
Notes(r, s) ==
  /\ Whole(s) /\ Saved(s) /\ r.errors \subseteq s.errors
  /\ s.ctxs = r.ctxs /\ s.tls_contexts = r.tls_contexts /\ s.hosts = r.hosts

LEMMA NotesTwice ==
  ASSUME NEW r, NEW s, NEW t, Notes(r, s), Notes(s, t)
  PROVE  Notes(r, t)
BY DEF Notes

LEMMA NotesSelf ==
  ASSUME NEW r, Whole(r), Saved(r)
  PROVE  Notes(r, r)
BY DEF Notes

LEMMA ErrorNotes ==
  ASSUME NEW r, Whole(r), Saved(r), NEW kind, NEW name
  PROVE  Notes(r, PostError(r, kind, name)) /\ <<kind, name>> \in PostError(r, kind, name).errors
BY DEF Notes, Whole, Saved, PostError

LEMMA SecretNotes ==
  ASSUME NEW c, Dotless(c), NEW r, Whole(r), Saved(r), NEW name, IsSeq(name), NEW ns
  PROVE  Notes(r, SaveSecret(c, r, name, ns))
<1> DEFINE key == Append(name, ns)
           ss == resolve_secret(c, r, name, ns)
           saved == Put(r.saved, name, ss)
           s == [r EXCEPT !.saved = saved]
<1>1. SaveSecret(c, r, name, ns) = r \/ (SaveSecret(c, r, name, ns) = s /\ secret_info(c, key) # {})
  BY DEF SaveSecret
<1>2. CASE SaveSecret(c, r, name, ns) = r
  BY <1>2, NotesSelf
<1>3. CASE SaveSecret(c, r, name, ns) = s /\ secret_info(c, key) # {}
  <2>1. Len(name) = 1
    BY <1>3, InfoFacts
  <2>2. DOMAIN saved = DOMAIN r.saved \cup {name}
    BY DEF Put
  <2> HIDE DEF saved
  <2>3. \A k \in DOMAIN saved : Len(k) = 1
    BY <2>1, <2>2 DEF Saved
  <2>4. s.saved = saved /\ Whole(s) /\ s.errors = r.errors
        /\ s.ctxs = r.ctxs /\ s.tls_contexts = r.tls_contexts /\ s.hosts = r.hosts
    BY DEF Whole
  <2> HIDE DEF s
  <2> QED
    BY <1>3, <2>3, <2>4 DEF Notes, Saved
<1> QED
  BY <1>1, <1>2, <1>3

-----------------------------------------------------------------------------
(* TLSContexts.  Those the IR knows have names of their own. *)

ContextDomain ==
  {"hosts", "secret", "namespaced", "files", "ca", "crl", "rcf", "alpn",
   "name", "ns", "active", "errored", "cert", "cacert", "enabled"}

Formed(x) == DOMAIN x = ContextDomain /\ IsSeq(x.secret) /\ IsSeq(x.ca) /\ IsSeq(x.crl) /\ ~x.enabled

(* ... and a namespace that goes with the name. *)
Claimed(c, x) == <<x.name, x.ns>> \in ContextClaims(c)

Known(c, r) ==
  /\ Whole(r) /\ Saved(r) /\ IsSeq(r.ctxs) /\ IsSeq(r.tls_contexts)
  /\ \A i \in DOMAIN r.ctxs : /\ Formed(r.ctxs[i])
                              /\ Claimed(c, r.ctxs[i])
  /\ \A k \in DOMAIN r.tls_contexts : r.tls_contexts[k] \in DOMAIN r.ctxs
  /\ \A j, k \in DOMAIN r.tls_contexts :
       r.ctxs[r.tls_contexts[j]].name = r.ctxs[r.tls_contexts[k]].name => j = k

(* Nothing was found wrong with them yet. *)
Fresh(r) == \A k \in DOMAIN r.tls_contexts : truthy(r.ctxs[r.tls_contexts[k]])

(* What a context stays: it loses its Secret only together with its truth. *)
Remains(x, y) ==
  /\ y.name = x.name /\ y.ns = x.ns /\ y.namespaced = x.namespaced
  /\ x.errored => y.errored
  /\ x.secret # <<>> => y.secret = x.secret \/ y.errored

Grows(r, s) ==
  /\ r.errors \subseteq s.errors
  /\ \A i \in DOMAIN r.ctxs : i \in DOMAIN s.ctxs /\ Remains(r.ctxs[i], s.ctxs[i])
  /\ Range(r.tls_contexts) \subseteq Range(s.tls_contexts)

LEMMA GrowsTwice ==
  ASSUME NEW r, NEW s, NEW t, Grows(r, s), Grows(s, t)
  PROVE  Grows(r, t)
<1>1. ASSUME NEW i \in DOMAIN r.ctxs PROVE i \in DOMAIN t.ctxs /\ Remains(r.ctxs[i], t.ctxs[i])
  <2>1. /\ i \in DOMAIN s.ctxs /\ Remains(r.ctxs[i], s.ctxs[i])
        /\ i \in DOMAIN t.ctxs /\ Remains(s.ctxs[i], t.ctxs[i])
    BY DEF Grows
  <2> QED
    BY <2>1 DEF Remains
<1> QED
  BY <1>1 DEF Grows

LEMMA NotesGrow ==
  ASSUME NEW r, NEW s, Notes(r, s)
  PROVE  Grows(r, s)
BY DEF Notes, Grows, Remains

LEMMA KnownNoted ==
  ASSUME NEW c, NEW r, NEW s, Known(c, r), Notes(r, s)
  PROVE  Known(c, s) /\ (Fresh(r) => Fresh(s))
BY DEF Known, Notes, Fresh

LEMMA GotContext ==
  ASSUME NEW c, NEW r, Known(c, r), NEW name
  PROVE  \/ /\ get_tls_context(r, name) = 0
            /\ \A k \in DOMAIN r.tls_contexts : r.ctxs[r.tls_contexts[k]].name # name
         \/ /\ get_tls_context(r, name) # 0 /\ get_tls_context(r, name) \in DOMAIN r.ctxs
            /\ get_tls_context(r, name) \in Range(r.tls_contexts)
            /\ r.ctxs[get_tls_context(r, name)].name = name
<1> DEFINE found == {i \in Range(r.tls_contexts) : r.ctxs[i].name = name}
           i == CHOOSE x \in found : TRUE
<1>1. get_tls_context(r, name) = IF found = {} THEN 0 ELSE i
  BY DEF get_tls_context
<1>2. CASE found = {}
  BY <1>1, <1>2 DEF Range
<1>3. CASE found # {}
  <2>1. i \in found
    BY <1>3
  <2> HIDE DEF i
  <2>2. i \in Range(r.tls_contexts) /\ r.ctxs[i].name = name
    BY <2>1
  <2>3. i \in DOMAIN r.ctxs /\ DOMAIN r.ctxs = 1 .. Len(r.ctxs)
    BY <2>2, IsSeqFacts DEF Known, Range
  <2> QED
    BY <1>1, <1>3, <2>2, <2>3
<1> QED
  BY <1>2, <1>3

LEMMA ContextAdded ==
  ASSUME NEW c, NEW r, Known(c, r), NEW x, Formed(x), Claimed(c, x), NEW s, s = AddContext(r, x)
  PROVE  /\ Known(c, s) /\ (Fresh(r) => Fresh(s)) /\ Grows(r, s) /\ s.hosts = r.hosts
         /\ Len(s.ctxs) \in DOMAIN s.ctxs /\ s.ctxs[Len(s.ctxs)] = x /\ Len(s.ctxs) # 0
<1> DEFINE new == Append(r.ctxs, x)
           errors == r.errors \cup IF x.errored THEN {<<"TLSContext", x.name>>} ELSE {}
<1>1. s = [r EXCEPT !.ctxs = new, !.errors = errors]
  BY DEF AddContext
<1>2. /\ IsSeq(new) /\ Len(r.ctxs) \in Nat /\ Len(new) = Len(r.ctxs) + 1
      /\ DOMAIN r.ctxs = 1 .. Len(r.ctxs) /\ DOMAIN new = 1 .. Len(r.ctxs) + 1
      /\ \A i \in 1 .. Len(r.ctxs) : new[i] = r.ctxs[i]
      /\ new[Len(r.ctxs) + 1] = x
  BY AppendFacts DEF Known
<1>3. r.errors \subseteq errors
  OBVIOUS
<1> HIDE DEF new, errors
<1>4. /\ Whole(s) /\ s.ctxs = new /\ s.errors = errors
      /\ s.tls_contexts = r.tls_contexts /\ s.hosts = r.hosts /\ s.saved = r.saved
  BY <1>1 DEF Known, Whole
<1>5. \A i \in DOMAIN r.ctxs : i \in DOMAIN s.ctxs /\ s.ctxs[i] = r.ctxs[i]
  BY <1>2, <1>4
<1>6. /\ Len(s.ctxs) \in DOMAIN s.ctxs /\ s.ctxs[Len(s.ctxs)] = x /\ Len(s.ctxs) # 0
      /\ \A i \in DOMAIN s.ctxs : i \in DOMAIN r.ctxs \/ s.ctxs[i] = x
  BY <1>2, <1>4
<1>7. Known(c, s)
  BY <1>2, <1>4, <1>5, <1>6 DEF Known, Saved
<1>8. Grows(r, s)
  BY <1>3, <1>4, <1>5 DEF Grows, Remains
<1>9. Fresh(r) => Fresh(s)
  BY <1>4, <1>5 DEF Fresh, Known
<1> QED
  BY <1>4, <1>6, <1>7, <1>8, <1>9

LEMMA ContextSaved ==
  ASSUME NEW c, NEW r, Known(c, r), Fresh(r), NEW i \in DOMAIN r.ctxs, truthy(r.ctxs[i]),
         NEW s, s = save_tls_context(r, i)
  PROVE  /\ Known(c, s) /\ Fresh(s) /\ Grows(r, s) /\ s.hosts = r.hosts /\ s.ctxs = r.ctxs
         /\ <<"ir", r.ctxs[i].name>> \in s.errors \/ i \in Range(s.tls_contexts)
<1> DEFINE ctx == r.ctxs[i]
           extant == get_tls_context(r, ctx.name)
           duplicate == has_tls_context(r, ctx.name)
           conflict == ctx.rcf # 0 /\ r.rcf \notin {0, ctx.rcf}
           bad == duplicate \/ conflict
           saved == IF extant = 0 THEN Append(r.tls_contexts, i)
                    ELSE [k \in DOMAIN r.tls_contexts |->
                            IF r.tls_contexts[k] = extant THEN i ELSE r.tls_contexts[k]]
           rcf == IF r.rcf = 0 THEN ctx.rcf ELSE r.rcf
           errors == r.errors \cup IF bad THEN {<<"ir", ctx.name>>} ELSE {}
           contexts == IF bad THEN r.tls_contexts ELSE saved
<1>1. s = [r EXCEPT !.rcf = rcf, !.errors = errors, !.tls_contexts = contexts]
  BY DEF save_tls_context
<1>2. extant # 0 => duplicate
  <2>1. extant # 0 => extant \in Range(r.tls_contexts)
    BY GotContext
  <2>2. duplicate <=> extant # 0 /\ truthy(r.ctxs[extant])
    BY DEF has_tls_context
  <2> HIDE DEF extant, duplicate
  <2> QED
    BY <2>1, <2>2 DEF Fresh, Range
<1>3. bad \/ (contexts = Append(r.tls_contexts, i)
              /\ \A k \in DOMAIN r.tls_contexts : r.ctxs[r.tls_contexts[k]].name # ctx.name)
  <2>1. extant = 0 => \A k \in DOMAIN r.tls_contexts : r.ctxs[r.tls_contexts[k]].name # ctx.name
    BY GotContext
  <2> HIDE DEF extant, duplicate, conflict
  <2> QED
    BY <1>2, <2>1
<1>4. bad => contexts = r.tls_contexts /\ <<"ir", ctx.name>> \in errors
  <2> HIDE DEF bad
  <2> QED
    OBVIOUS
<1>5. r.errors \subseteq errors
  OBVIOUS
<1> HIDE DEF contexts, errors, rcf, bad, ctx
<1>6. /\ Whole(s) /\ s.ctxs = r.ctxs /\ s.errors = errors
      /\ s.tls_contexts = contexts /\ s.hosts = r.hosts /\ s.saved = r.saved
  BY <1>1 DEF Known, Whole
<1>7. CASE bad
  <2>1. s.tls_contexts = r.tls_contexts /\ <<"ir", ctx.name>> \in s.errors
    BY <1>4, <1>6, <1>7
  <2>2. Known(c, s) /\ Fresh(s)
    BY <1>6, <2>1 DEF Known, Saved, Fresh
  <2>3. Grows(r, s)
    BY <1>5, <1>6, <2>1 DEF Grows, Remains
  <2> QED
    BY <1>6, <2>1, <2>2, <2>3 DEF ctx
<1>8. CASE ~bad
  <2> DEFINE L == Len(r.tls_contexts)
  <2>1. s.tls_contexts = Append(r.tls_contexts, i)
        /\ \A k \in DOMAIN r.tls_contexts : r.ctxs[r.tls_contexts[k]].name # ctx.name
    BY <1>3, <1>6, <1>8
  <2>2. /\ IsSeq(s.tls_contexts) /\ Range(s.tls_contexts) = Range(r.tls_contexts) \cup {i}
        /\ L \in Nat /\ DOMAIN r.tls_contexts = 1 .. L /\ DOMAIN s.tls_contexts = 1 .. L + 1
        /\ \A k \in 1 .. L : s.tls_contexts[k] = r.tls_contexts[k]
        /\ s.tls_contexts[L + 1] = i
    BY <2>1, AppendFacts DEF Known
  <2> HIDE DEF L
  <2>3. \A k \in DOMAIN s.tls_contexts :
          (k \in DOMAIN r.tls_contexts /\ s.tls_contexts[k] = r.tls_contexts[k]) \/ (k = L + 1 /\ s.tls_contexts[k] = i)
    BY <2>2
  <2>4. \A k \in DOMAIN s.tls_contexts : s.tls_contexts[k] \in DOMAIN s.ctxs /\ truthy(s.ctxs[s.tls_contexts[k]])
    BY <1>6, <2>3 DEF Known, Fresh
  <2>5. ASSUME NEW j \in DOMAIN s.tls_contexts, NEW k \in DOMAIN s.tls_contexts,
               s.ctxs[s.tls_contexts[j]].name = s.ctxs[s.tls_contexts[k]].name
        PROVE  j = k
    BY <1>6, <2>1, <2>3, <2>5 DEF Known, ctx
  <2>6. Known(c, s) /\ Fresh(s)
    BY <1>6, <2>2, <2>4, <2>5 DEF Known, Saved, Fresh
  <2>7. Grows(r, s)
    BY <1>5, <1>6, <2>2 DEF Grows, Remains
  <2> QED
    BY <1>6, <2>2, <2>6, <2>7
<1> QED
  BY <1>7, <1>8

(* A context is loaded: the IR knows it, or an error tells why not. *)
Loaded(c, r, x, s) ==
  /\ Known(c, s) /\ Fresh(s) /\ Grows(r, s) /\ s.hosts = r.hosts
  /\ Len(s.ctxs) \in DOMAIN s.ctxs /\ s.ctxs[Len(s.ctxs)] = x /\ Len(s.ctxs) # 0
  /\ x.active => <<"ir", x.name>> \in s.errors \/ Len(s.ctxs) \in Range(s.tls_contexts)

LEMMA ContextLoaded ==
  ASSUME NEW c, NEW r, Known(c, r), Fresh(r), NEW x, Formed(x), Claimed(c, x), x.active => ~x.errored
  PROVE  Loaded(c, r, x, LoadContext(r, x))
<1> DEFINE s == LoadContext(r, x)
           new == AddContext(r, x)
<1>1. /\ Known(c, new) /\ Fresh(new) /\ Grows(r, new) /\ new.hosts = r.hosts
      /\ Len(new.ctxs) \in DOMAIN new.ctxs /\ new.ctxs[Len(new.ctxs)] = x /\ Len(new.ctxs) # 0
  BY ContextAdded
<1>2. s = IF x.active THEN save_tls_context(new, Len(new.ctxs)) ELSE new
  BY DEF LoadContext
<1> HIDE DEF new, s
<1> SUFFICES Loaded(c, r, x, s)
  BY DEF s
<1>3. CASE ~x.active
  BY <1>1, <1>2, <1>3 DEF Loaded
<1>4. CASE x.active
  <2> DEFINE i == Len(new.ctxs)
  <2>1. s = save_tls_context(new, i) /\ i \in DOMAIN new.ctxs /\ truthy(new.ctxs[i])
    BY <1>1, <1>2, <1>4 DEF truthy
  <2>2. /\ Known(c, s) /\ Fresh(s) /\ Grows(new, s) /\ s.hosts = new.hosts /\ s.ctxs = new.ctxs
        /\ <<"ir", new.ctxs[i].name>> \in s.errors \/ i \in Range(s.tls_contexts)
    <3> HIDE DEF i
    <3> QED
      BY <1>1, <2>1, ContextSaved
  <2> QED
    BY <1>1, <2>2, GrowsTwice DEF Loaded
<1> QED
  BY <1>3, <1>4

LEMMA ContextSetUp ==
  ASSUME NEW name, NEW ns, NEW a, DOMAIN a = DOMAIN ContextFields,
         IsSeq(a.secret), IsSeq(a.ca), IsSeq(a.crl), NEW x, x = setup_context(name, ns, a)
  PROVE  /\ Formed(x) /\ x.name = name /\ x.ns = ns
         /\ x.secret = a.secret /\ x.namespaced = a.namespaced /\ (x.active => ~x.errored)
<1> DEFINE bad == a.files = "chain" \/ (a.files # "none" /\ a.secret # <<>>)
           cert == IF a.files = "both" THEN <<name>> ELSE <<>>
           rest == [name |-> name, ns |-> ns, active |-> ~bad, errored |-> bad,
                    cert |-> cert, cacert |-> <<>>, enabled |-> FALSE]
<1>1. x = Over(a, rest)
  BY DEF setup_context
<1> HIDE DEF bad, cert
<1>2. DOMAIN a = {"hosts", "secret", "namespaced", "files", "ca", "crl", "rcf", "alpn"}
  BY DEF ContextFields
<1>3. /\ DOMAIN rest = {"name", "ns", "active", "errored", "cert", "cacert", "enabled"}
      /\ rest.name = name /\ rest.ns = ns /\ rest.active = ~bad /\ rest.errored = bad /\ rest.enabled = FALSE
  OBVIOUS
<1> HIDE DEF rest
<1>4. /\ DOMAIN x = ContextDomain
      /\ x.name = rest.name /\ x.ns = rest.ns /\ x.active = rest.active /\ x.errored = rest.errored
      /\ x.enabled = rest.enabled
      /\ x.secret = a.secret /\ x.ca = a.ca /\ x.crl = a.crl /\ x.namespaced = a.namespaced
  BY <1>1, <1>2, <1>3 DEF Over, ContextDomain
<1> QED
  BY <1>3, <1>4 DEF Formed

(* The contexts of the tls Module and of TLSContexts. *)
LEMMA ModuleContext ==
  ASSUME NEW c \in Configs, NEW r, Known(c, r), Fresh(r), NEW s, s = load_tls_module(c, r)
  PROVE  Known(c, s) /\ Fresh(s) /\ Grows(r, s) /\ s.hosts = r.hosts
<1> DEFINE m == c.tls_module
           a == from_legacy(m)
           own == IF m.secret = <<>> /\ m.files = "none" THEN <<"ambassador-certs">> ELSE m.secret
           secret == IF m.client /\ m.ca = <<>> THEN <<"ambassador-cacert">> ELSE own
           x == setup_context("server", AmbassadorNamespace, a)
<1>1. s = r \/ s = LoadContext(r, x)
  BY DEF load_tls_module
<1>2. IsSeq(m.secret) /\ IsSeq(m.ca)
  <2>1. m.secret \in Seq(STRING) /\ m.ca \in Seq(STRING)
    BY SecretAssumption
  <2> QED
    BY <2>1, SeqIsSeq
<1>3. IsSeq(secret)
  <2>1. IsSeq(<<"ambassador-certs">>) /\ IsSeq(<<"ambassador-cacert">>)
    BY SingletonIsSeq
  <2> QED
    BY <1>2, <2>1
<1>4. a = [ContextFields EXCEPT !.hosts = <<Star>>, !.files = m.files, !.ca = m.ca, !.secret = secret]
  BY DEF from_legacy
<1> HIDE DEF secret, own, a
<1>5. DOMAIN a = DOMAIN ContextFields /\ a.secret = secret /\ a.ca = m.ca /\ a.crl = <<>>
  BY <1>4 DEF ContextFields
<1>6. Formed(x) /\ x.name = "server" /\ x.ns = AmbassadorNamespace /\ (x.active => ~x.errored)
  BY <1>2, <1>3, <1>5, EmptyIsSeq, ContextSetUp
<1> HIDE DEF x
<1>7. Claimed(c, x)
  BY <1>6 DEF Claimed, ContextClaims
<1>8. Loaded(c, r, x, LoadContext(r, x))
  BY <1>6, <1>7, ContextLoaded
<1>9. Grows(r, r)
  BY NotesSelf, NotesGrow DEF Known
<1> QED
  BY <1>1, <1>8, <1>9 DEF Loaded

LEMMA TLSContextLoaded ==
  ASSUME NEW c \in Configs, NEW r, Known(c, r), Fresh(r), NEW t \in Range(c.tls_contexts),
         NEW s, s = load_tls_context(r, t)
  PROVE  Known(c, s) /\ Fresh(s) /\ Grows(r, s) /\ s.hosts = r.hosts
<1> DEFINE x == setup_context(t.name, t.ns, t.spec)
<1>1. s = LoadContext(r, x)
  BY DEF load_tls_context
<1>2. /\ DOMAIN t.spec = DOMAIN ContextFields
      /\ IsSeq(t.spec.secret) /\ IsSeq(t.spec.ca) /\ IsSeq(t.spec.crl)
  <2>1. /\ DOMAIN t.spec = DOMAIN ContextFields
        /\ t.spec.secret \in Seq(STRING) /\ t.spec.ca \in Seq(STRING) /\ t.spec.crl \in Seq(STRING)
    BY SecretAssumption
  <2> QED
    BY <2>1, SeqIsSeq
<1>3. Formed(x) /\ x.name = t.name /\ x.ns = t.ns /\ (x.active => ~x.errored)
  BY <1>2, ContextSetUp
<1> HIDE DEF x
<1>4. Claimed(c, x)
  BY <1>3 DEF Claimed, ContextClaims
<1>5. Loaded(c, r, x, LoadContext(r, x))
  BY <1>3, <1>4, ContextLoaded
<1> QED
  BY <1>1, <1>5 DEF Loaded

-----------------------------------------------------------------------------
(* A Host and its context.  The context's Secret, if it is there at all, is   *)
(* the one that the Host names.                                              *)

Presents(c, x) == Append(split_secret(c, x, x.secret).name, split_secret(c, x, x.secret).ns)

Agrees(c, x, h) ==
  x.secret # <<>> /\ (secret_info(c, Presents(c, x)) # {} => Presents(c, x) = SecretOf(h))

HostOk(c, r, h) ==
  h.context # 0 =>
    /\ h.context \in DOMAIN r.ctxs /\ r.ctxs[h.context].name = ContextOf(h)
    /\ \/ <<"ir", ContextOf(h)>> \in r.errors
       \/ /\ h.context \in Range(r.tls_contexts)
          /\ r.ctxs[h.context].errored \/ Agrees(c, r.ctxs[h.context], h)

LEMMA HostKept ==
  ASSUME NEW c, NEW r, NEW s, Grows(r, s), NEW h, HostOk(c, r, h)
  PROVE  HostOk(c, s, h)
<1> SUFFICES ASSUME h.context # 0
             PROVE  /\ h.context \in DOMAIN s.ctxs /\ s.ctxs[h.context].name = ContextOf(h)
                    /\ \/ <<"ir", ContextOf(h)>> \in s.errors
                       \/ /\ h.context \in Range(s.tls_contexts)
                          /\ s.ctxs[h.context].errored \/ Agrees(c, s.ctxs[h.context], h)
  BY DEF HostOk
<1> DEFINE x == r.ctxs[h.context]
           y == s.ctxs[h.context]
<1>1. /\ h.context \in DOMAIN r.ctxs /\ x.name = ContextOf(h)
      /\ \/ <<"ir", ContextOf(h)>> \in r.errors
         \/ h.context \in Range(r.tls_contexts) /\ (x.errored \/ Agrees(c, x, h))
  BY DEF HostOk
<1>2. /\ h.context \in DOMAIN s.ctxs /\ Remains(x, y) /\ r.errors \subseteq s.errors
      /\ Range(r.tls_contexts) \subseteq Range(s.tls_contexts)
  BY <1>1 DEF Grows
<1> HIDE DEF x, y
<1>3. Agrees(c, x, h) => y.errored \/ Agrees(c, y, h)
  BY <1>2 DEF Agrees, Remains, Presents, split_secret
<1> QED
  BY <1>1, <1>2, <1>3 DEF Remains, x, y

LEMMA FrontIs ==
  ASSUME NEW s, IsSeq(s), Len(s) >= 1
  PROVE  /\ IsSeq(Front(s)) /\ Len(Front(s)) = Len(s) - 1 /\ Last(s) = s[Len(s)]
         /\ \A i \in 1 .. (Len(s) - 1) : Front(s)[i] = s[i]
<1> DEFINE m == Len(s) - 1
           f == SubSeq(s, 1, m)
<1>1. Len(s) \in Nat /\ DOMAIN s = 1 .. Len(s) /\ m \in Nat
  BY IsSeqFacts
<1>2. \A i \in 1 .. m : s[i] \in Range(s)
  BY <1>1 DEF Range
<1>3. f \in Seq(Range(s)) /\ Len(f) = m /\ \A i \in 1 .. m : f[i] = s[i]
  <2>1. m \in Int /\ 1 \in Int /\ m - 1 + 1 = m /\ \A i \in 1 .. m : 1 + i - 1 = i
    BY <1>1
  <2>2. /\ f \in Seq(Range(s)) /\ Len(f) = IF 1 <= m THEN m - 1 + 1 ELSE 0
        /\ \A i \in 1 .. m - 1 + 1 : f[i] = s[1 + i - 1]
    <3> HIDE DEF m
    <3> QED
      BY <1>2, <2>1, SubSeqProperties
  <2> HIDE DEF f, m
  <2> QED
    BY <1>1, <2>1, <2>2
<1>4. Front(s) = f /\ Last(s) = s[Len(s)]
  BY DEF Front, Last
<1>5. IsSeq(f)
  BY <1>3, SeqIsSeq
<1> HIDE DEF f
<1> QED
  BY <1>3, <1>4, <1>5

LEMMA SplitAppend ==
  ASSUME NEW s, NEW x, IsSeq(s)
  PROVE  Front(Append(s, x)) = s /\ Last(Append(s, x)) = x
<1> DEFINE u == Append(s, x)
           f == Front(u)
<1>1. /\ IsSeq(u) /\ Len(s) \in Nat /\ Len(u) = Len(s) + 1 /\ u[Len(s) + 1] = x
      /\ \A i \in 1 .. Len(s) : u[i] = s[i]
  BY AppendFacts
<1> HIDE DEF u
<1>2. Len(u) >= 1 /\ Len(u) - 1 = Len(s)
  BY <1>1
<1>3. IsSeq(f) /\ Len(f) = Len(s) /\ Last(u) = x /\ \A i \in 1 .. Len(s) : f[i] = s[i]
  BY <1>1, <1>2, FrontIs
<1>4. f = [i \in 1 .. Len(f) |-> f[i]] /\ s = [i \in 1 .. Len(s) |-> s[i]]
  BY <1>3, IsSeqFacts
<1> HIDE DEF f
<1>5. f = s
  BY <1>3, <1>4
<1> QED
  BY <1>3, <1>5 DEF f, u

LEMMA SplitFacts ==
  ASSUME NEW c, NEW x, NEW name, IsSeq(name), name # <<>>
  PROVE  IsSeq(split_secret(c, x, name).name) /\ split_secret(c, x, name).name # <<>>
<1> DEFINE split == Len(name) > 1 /\ (x.namespaced \/ c.namespacing)
           f == Front(name)
<1>1. split_secret(c, x, name).name = IF split THEN f ELSE name
  BY DEF split_secret
<1>2. CASE ~split
  BY <1>1, <1>2
<1>3. CASE split
  <2>1. Len(name) > 1 /\ Len(name) \in Nat
    BY <1>3, IsSeqFacts
  <2>2. IsSeq(f) /\ Len(f) = Len(name) - 1
    BY <2>1, FrontIs
  <2> HIDE DEF f
  <2>3. f # <<>>
    BY <2>1, <2>2, LenOfEmpty
  <2> QED
    BY <1>1, <1>3, <2>2, <2>3
<1> QED
  BY <1>2, <1>3

(* The Secret a Host names, in the three ways that the code puts it. *)
SecretNs(h) == IF h.secretNs # "" THEN h.secretNs ELSE h.ns

FullName(h) == IF h.secretNs # "" THEN Append(h.secret, h.secretNs) ELSE h.secret

LEMMA HostSecret ==
  ASSUME NEW h
  PROVE  /\ SecretOf(h) = Append(h.secret, SecretNs(h))
         /\ \/ ~Blank(h.secretNs) /\ FullName(h) = Append(h.secret, h.secretNs) /\ SecretNs(h) = h.secretNs
            \/ Blank(h.secretNs) /\ FullName(h) = h.secret /\ SecretNs(h) = h.ns
BY Zenon DEF SecretOf, SecretNs, FullName, Blank

LEMMA OneLabel ==
  ASSUME NEW s, IsSeq(s), Len(s) = 1
  PROVE  s # <<>> /\ ~(Len(s) > 1) /\ \A x : IsSeq(Append(s, x)) /\ Len(Append(s, x)) = 2 /\ Append(s, x) # <<>>
<1>1. s # <<>>
  BY LenOfEmpty
<1>2. ASSUME NEW x PROVE IsSeq(Append(s, x)) /\ Len(Append(s, x)) = 2 /\ Append(s, x) # <<>>
  <2> DEFINE u == Append(s, x)
  <2>1. IsSeq(u) /\ Len(u) = Len(s) + 1
    BY AppendFacts
  <2> HIDE DEF u
  <2>2. Len(u) = 2
    BY <2>1
  <2>3. u # <<>>
    BY <2>1, <2>2, LenOfEmpty
  <2> QED
    BY <2>1, <2>2, <2>3 DEF u
<1> QED
  BY <1>1, <1>2

(* A context that was given the Secret's full name, or names the same Secret. *)
LEMMA FullAgrees ==
  ASSUME NEW c, Dotless(c), NEW h, IsSeq(h.secret), Len(h.secret) = 1,
         NEW x, x.secret = FullName(h), x.ns = h.ns
  PROVE  Agrees(c, x, h) /\ IsSeq(x.secret)
<1> DEFINE split == Len(x.secret) > 1 /\ (x.namespaced \/ c.namespacing)
           s == Append(h.secret, SecretNs(h))
           p == Presents(c, x)
<1>1. /\ split => p = Append(Front(x.secret), Last(x.secret))
      /\ ~split => p = Append(x.secret, h.ns)
  BY DEF Presents, split_secret
<1>2. CASE Blank(h.secretNs)
  <2>1. x.secret = h.secret /\ SecretNs(h) = h.ns
    BY <1>2, HostSecret
  <2>2. ~split /\ x.secret # <<>>
    BY <2>1, OneLabel
  <2> QED
    BY <1>1, <2>1, <2>2, HostSecret DEF Agrees
<1>3. CASE ~Blank(h.secretNs)
  <2>1. x.secret = s
    BY <1>3, HostSecret
  <2>2. IsSeq(s) /\ Len(s) = 2 /\ s # <<>>
    BY OneLabel
  <2>3. Front(s) = h.secret /\ Last(s) = SecretNs(h)
    BY SplitAppend
  <2>4. SecretOf(h) = s
    BY HostSecret
  <2> HIDE DEF s
  <2>6. CASE split
    <3>1. p = s
      BY <1>1, <2>1, <2>3, <2>6 DEF s
    <3> QED
      BY <2>1, <2>2, <2>4, <3>1 DEF Agrees
  <2>7. CASE ~split
    <3>1. p = Append(s, h.ns)
      BY <1>1, <2>1, <2>7
    <3>2. secret_info(c, Append(s, h.ns)) = {}
      BY <2>2, InfoFacts
    <3> QED
      BY <2>1, <2>2, <3>1, <3>2 DEF Agrees
  <2> QED
    BY <2>6, <2>7
<1> QED
  BY <1>2, <1>3

LEMMA SameAgrees ==
  ASSUME NEW c, NEW h, IsSeq(h.secret), Len(h.secret) = 1,
         NEW x, x.secret = h.secret, x.ns = SecretNs(h)
  PROVE  Agrees(c, x, h)
<1>1. split_secret(c, x, x.secret) = [name |-> h.secret, ns |-> SecretNs(h)]
  BY OneLabel DEF split_secret
<1>2. Presents(c, x) = Append(h.secret, SecretNs(h))
  BY <1>1 DEF Presents
<1>3. x.secret # <<>>
  BY OneLabel
<1> QED
  BY <1>2, <1>3, HostSecret DEF Agrees

(* One of the contexts becomes another. *)
Puts(r, i, y, s) ==
  /\ Whole(s) /\ s.ctxs = [r.ctxs EXCEPT ![i] = y] /\ r.errors \subseteq s.errors /\ s.saved = r.saved
  /\ s.tls_contexts = r.tls_contexts /\ s.hosts = r.hosts

LEMMA ContextPut ==
  ASSUME NEW c, NEW r, Known(c, r), NEW i \in DOMAIN r.ctxs, NEW y, Formed(y), Remains(r.ctxs[i], y),
         NEW s, Puts(r, i, y, s)
  PROVE  /\ Known(c, s) /\ Grows(r, s) /\ s.hosts = r.hosts /\ s.tls_contexts = r.tls_contexts
         /\ s.ctxs[i] = y /\ i \in DOMAIN s.ctxs
         /\ \A k \in DOMAIN r.ctxs : k # i => s.ctxs[k] = r.ctxs[k]
         /\ Fresh(r) /\ truthy(y) => Fresh(s)
<1> DEFINE new == [r.ctxs EXCEPT ![i] = y]
<1>1. /\ IsSeq(new) /\ DOMAIN new = DOMAIN r.ctxs /\ new[i] = y
      /\ \A k \in DOMAIN r.ctxs : k # i => new[k] = r.ctxs[k]
  BY ExceptFacts DEF Known
<1> HIDE DEF new
<1>2. /\ Whole(s) /\ s.ctxs = new /\ r.errors \subseteq s.errors /\ s.saved = r.saved
      /\ s.tls_contexts = r.tls_contexts /\ s.hosts = r.hosts
  BY DEF Puts, new
<1>3. \A k \in DOMAIN r.ctxs : /\ k \in DOMAIN s.ctxs /\ Remains(r.ctxs[k], s.ctxs[k])
                               /\ s.ctxs[k].name = r.ctxs[k].name /\ s.ctxs[k].ns = r.ctxs[k].ns
  BY <1>1, <1>2 DEF Remains
<1>4. \A k \in DOMAIN s.ctxs : k \in DOMAIN r.ctxs /\ Formed(s.ctxs[k]) /\ Claimed(c, s.ctxs[k])
  BY <1>1, <1>2, <1>3 DEF Known, Claimed
<1>5. Known(c, s)
  BY <1>1, <1>2, <1>3, <1>4 DEF Known, Saved
<1>6. Grows(r, s)
  BY <1>2, <1>3 DEF Grows
<1>7. Fresh(r) /\ truthy(y) => Fresh(s)
  BY <1>1, <1>2 DEF Fresh, Known
<1> QED
  BY <1>1, <1>2, <1>5, <1>6, <1>7

HostDomain ==
  {"name", "ns", "hostname", "insecure", "selector", "labels", "secret", "secretNs", "tlsContext", "tls",
   "acme", "sni", "context", "active", "errored"}

(* A Host before and after its TLS was set up. *)
Ready(c, h) ==
  DOMAIN h = HostDomain /\ h.context = 0 /\ IsSeq(h.secret) /\ <<ContextOf(h), h.ns>> \in ContextClaims(c)

Alike(h, g) ==
  /\ DOMAIN g = DOMAIN h /\ g.name = h.name /\ g.ns = h.ns /\ g.hostname = h.hostname
  /\ g.secret = h.secret /\ g.secretNs = h.secretNs /\ g.tlsContext = h.tlsContext

SetUp(c, r, h, done) ==
  /\ Known(c, done.ir) /\ Fresh(done.ir) /\ Grows(r, done.ir) /\ done.ir.hosts = r.hosts
  /\ Alike(h, done.host) /\ HostOk(c, done.ir, done.host)

LEMMA AlikeNames ==
  ASSUME NEW h, NEW g, Alike(h, g)
  PROVE  ContextOf(g) = ContextOf(h) /\ SecretOf(g) = SecretOf(h)
BY Zenon DEF Alike, ContextOf, SecretOf

LEMMA HostLeft ==
  ASSUME NEW c, NEW r, Known(c, r), Fresh(r), NEW h, Ready(c, h), NEW s, Notes(r, s), NEW on, NEW bad
  PROVE  SetUp(c, r, h, [host |-> [h EXCEPT !.active = on, !.errored = bad], ir |-> s])
<1> DEFINE g == [h EXCEPT !.active = on, !.errored = bad]
           done == [host |-> g, ir |-> s]
<1>1. Alike(h, g) /\ g.context = 0
  BY DEF Alike, Ready, HostDomain
<1> HIDE DEF g
<1>2. done.host = g /\ done.ir = s
  OBVIOUS
<1> HIDE DEF done
<1>3. Known(c, s) /\ Fresh(s) /\ Grows(r, s) /\ s.hosts = r.hosts
  BY KnownNoted, NotesGrow DEF Notes
<1> SUFFICES SetUp(c, r, h, done)
  BY DEF done, g
<1> QED
  BY <1>1, <1>2, <1>3 DEF SetUp, HostOk

(* ... with a context that the IR knows. *)
Takes(c, r, at, i, h) ==
  /\ Known(c, at) /\ Fresh(at) /\ Grows(r, at) /\ at.hosts = r.hosts
  /\ i \in DOMAIN at.ctxs /\ i \in Range(at.tls_contexts)
  /\ at.ctxs[i].name = ContextOf(h) /\ Agrees(c, at.ctxs[i], h)

Touches(at, i, h, hs, t) ==
  t \in {at, PostError(at, "Host", h.name), [at EXCEPT !.ctxs[i].hosts = hs]}

WithContext(h, i, bad, t) == [host |-> [h EXCEPT !.context = i, !.errored = bad], ir |-> t]

LEMMA ContextTaken ==
  ASSUME NEW c, NEW r, NEW h, Ready(c, h), NEW at, NEW i, Takes(c, r, at, i, h),
         NEW bad, NEW hs, NEW t, Touches(at, i, h, hs, t)
  PROVE  SetUp(c, r, h, WithContext(h, i, bad, t))
<1> USE DEF Takes, Touches, WithContext
<1> DEFINE g == [h EXCEPT !.context = i, !.errored = bad]
           done == [host |-> g, ir |-> t]
           x == at.ctxs[i]
           y == [x EXCEPT !.hosts = hs]
<1>1. Alike(h, g) /\ g.context = i
  BY DEF Alike, Ready, HostDomain
<1> HIDE DEF g
<1>2. done.host = g /\ done.ir = t
  OBVIOUS
<1> HIDE DEF done
<1>3. ContextOf(g) = ContextOf(h) /\ SecretOf(g) = SecretOf(h)
  BY <1>1, AlikeNames
<1>4. HostOk(c, at, g)
  BY <1>1, <1>3 DEF HostOk, Agrees
<1>5. Known(c, t) /\ Fresh(t) /\ Grows(at, t) /\ t.hosts = at.hosts
  <2>1. CASE t \in {at, PostError(at, "Host", h.name)}
    <3> DEFINE posted == PostError(at, "Host", h.name)
    <3>1. Whole(at) /\ Saved(at)
      BY DEF Known
    <3>2. Notes(at, at) /\ Notes(at, posted)
      BY <3>1, NotesSelf, ErrorNotes
    <3> HIDE DEF posted
    <3>3. t = at \/ t = posted
      BY <2>1 DEF posted
    <3>4. Notes(at, t)
      BY <3>2, <3>3
    <3> QED
      BY <3>4, KnownNoted, NotesGrow DEF Notes
  <2>2. CASE t = [at EXCEPT !.ctxs[i].hosts = hs]
    <3>1. Puts(at, i, y, t)
      BY <2>2 DEF Puts, Known, Whole
    <3>2. Formed(x) /\ truthy(x)
      BY DEF Known, Fresh, Range
    <3> HIDE DEF x
    <3>3. Formed(y) /\ Remains(x, y) /\ truthy(y)
      BY <3>2 DEF Formed, Remains, truthy, ContextDomain
    <3> HIDE DEF y
    <3> QED
      BY <3>1, <3>3, ContextPut DEF x
  <2> QED
    BY <2>1, <2>2
<1>6. HostOk(c, t, g) /\ Grows(r, t)
  BY <1>4, <1>5, HostKept, GrowsTwice
<1> SUFFICES SetUp(c, r, h, done)
  BY DEF done, g
<1> QED
  BY <1>1, <1>2, <1>5, <1>6 DEF SetUp

LEMMA ContextUsed ==
  ASSUME NEW c, Dotless(c), OneNamespace(c), NEW r, Known(c, r), Fresh(r), NEW h, Ready(c, h),
         Len(h.secret) = 1, NEW ss, ss.name = h.secret, ss.ns = SecretNs(h)
  PROVE  SetUp(c, r, h, save_context(c, r, h, ContextOf(h), ss, FullName(h)))
<1> DEFINE name == ContextOf(h)
           full == FullName(h)
           i == get_tls_context(r, name)
           x == r.ctxs[i]
           own == resolve_secret(c, r, x.secret, h.ns)
           named == [r EXCEPT !.ctxs[i].secret = full]
           kept == SaveSecret(c, r, x.secret, h.ns)
           at == IF x.secret = <<>> THEN named ELSE kept
           stranger == x.hosts # <<>> /\ {h.hostname, <<h.name>>} \cap Range(x.hosts) = {}
           refuse(s) == [host |-> [h EXCEPT !.active = FALSE, !.errored = TRUE],
                         ir |-> PostError(s, "Host", h.name)]
           use(t) == [host |-> [h EXCEPT !.context = i, !.errored = @ \/ stranger], ir |-> t]
           done == save_context(c, r, h, name, ss, full)
           hs == <<h.hostname>>
           has == has_tls_context(r, name)
<1>1. /\ ~has => done = refuse(r)
      /\ has /\ x.secret # <<>> /\ own # ss => done = refuse(at)
      /\ has /\ ~(x.secret # <<>> /\ own # ss) =>
           \E t \in {at, PostError(at, "Host", h.name), [at EXCEPT !.ctxs[i].hosts = hs]} : done = use(t)
  BY DEF save_context
<1>2. Whole(r) /\ Saved(r)
  BY DEF Known
<1> HIDE DEF stranger, full, name, done, has
<1>3. ASSUME NEW s, Notes(r, s) PROVE SetUp(c, r, h, refuse(s))
  <2>1. Whole(s) /\ Saved(s)
    BY <1>3 DEF Notes
  <2>2. Notes(s, PostError(s, "Host", h.name))
    BY <2>1, ErrorNotes
  <2>3. Notes(r, PostError(s, "Host", h.name))
    BY <1>3, <2>2, NotesTwice
  <2> QED
    BY <2>3, HostLeft
<1>4. CASE ~has
  <2>1. done = refuse(r)
    BY <1>1, <1>4
  <2> QED
    BY <1>2, <1>3, <2>1, NotesSelf DEF done, name, full
<1>5. CASE has
  <2>1. i # 0 /\ truthy(x)
    BY <1>5 DEF has, has_tls_context, name
  <2>2. i \in DOMAIN r.ctxs /\ i \in Range(r.tls_contexts) /\ x.name = name
    BY <2>1, GotContext
  <2> HIDE DEF i
  <2>3. Formed(x) /\ Claimed(c, x)
    BY <2>2 DEF Known
  <2>4. x.ns = h.ns
    <3>1. <<x.name, x.ns>> \in ContextClaims(c) /\ <<name, h.ns>> \in ContextClaims(c)
      BY <2>3 DEF Claimed, Ready, name
    <3>2. \A p, q \in ContextClaims(c) : p[1] = q[1] => p[2] = q[2]
      BY DEF OneNamespace
    <3> HIDE DEF x
    <3> QED
      BY <2>2, <3>1, <3>2
  <2>5. IsSeq(x.secret)
    BY <2>3 DEF Formed
  <2>6. ASSUME x.secret # <<>> PROVE Notes(r, at) /\ at = kept
    <3>1. Notes(r, kept)
      BY <1>2, <2>5, SecretNotes
    <3> HIDE DEF kept, named
    <3> QED
      BY <2>6, <3>1
  <2>7. CASE x.secret # <<>> /\ own # ss
    <3>1. done = refuse(at)
      BY <1>1, <1>5, <2>7
    <3> HIDE DEF at
    <3> QED
      BY <1>3, <2>6, <2>7, <3>1 DEF done, name, full
  <2>8. ASSUME Takes(c, r, at, i, h), ~(x.secret # <<>> /\ own # ss)
        PROVE  SetUp(c, r, h, done)
    <3>1. PICK t \in {at, PostError(at, "Host", h.name), [at EXCEPT !.ctxs[i].hosts = hs]} : done = use(t)
      BY <1>1, <1>5, <2>8
    <3> DEFINE bad == h.errored \/ stranger
    <3>2. done = WithContext(h, i, bad, t)
      BY <3>1 DEF Ready, HostDomain, WithContext
    <3>3. Touches(at, i, h, hs, t)
      BY <3>1 DEF Touches
    <3> HIDE DEF bad, hs, at
    <3>4. SetUp(c, r, h, WithContext(h, i, bad, t))
      BY <2>8, <3>3, ContextTaken
    <3> QED
      BY <3>2, <3>4
  <2>9. CASE x.secret # <<>> /\ own = ss
    <3>1. own.name = x.secret /\ own.ns = h.ns
      BY <1>2, <2>5, <2>9, Resolves
    <3> HIDE DEF own
    <3>2. x.secret = h.secret /\ x.ns = SecretNs(h)
      BY <2>4, <2>9, <3>1
    <3>3. Agrees(c, x, h)
      BY <3>2, SameAgrees DEF Ready
    <3>4. Notes(r, at)
      BY <2>6, <2>9
    <3> HIDE DEF at
    <3>5. /\ Known(c, at) /\ Fresh(at) /\ Grows(r, at) /\ at.hosts = r.hosts
          /\ at.ctxs = r.ctxs /\ at.tls_contexts = r.tls_contexts
      BY <3>4, KnownNoted, NotesGrow DEF Notes
    <3>6. at.ctxs[i] = x /\ i \in DOMAIN at.ctxs /\ i \in Range(at.tls_contexts)
      BY <2>2, <3>5
    <3>7. Takes(c, r, at, i, h)
      BY <2>2, <3>3, <3>5, <3>6 DEF Takes, name
    <3>8. SetUp(c, r, h, done)
      BY <2>8, <2>9, <3>7
    <3> QED
      BY <3>8 DEF done, name, full
  <2>10. CASE x.secret = <<>>
    <3> DEFINE y == [x EXCEPT !.secret = full]
    <3>1. Puts(r, i, y, at)
      BY <1>2, <2>10 DEF Puts, Whole
    <3> HIDE DEF at, x
    <3>2. /\ DOMAIN y = DOMAIN x /\ y.secret = full /\ y.name = x.name /\ y.ns = x.ns
          /\ y.namespaced = x.namespaced /\ y.errored = x.errored /\ y.active = x.active
          /\ y.ca = x.ca /\ y.crl = x.crl /\ y.enabled = x.enabled
      BY <2>3 DEF Formed, ContextDomain
    <3> HIDE DEF y
    <3>3. Agrees(c, y, h) /\ IsSeq(y.secret)
      BY <2>4, <3>2, FullAgrees DEF full, Ready
    <3>4. Formed(y) /\ Remains(x, y) /\ truthy(y)
      BY <2>1, <2>3, <2>10, <3>2, <3>3 DEF Formed, Remains, truthy
    <3>5. /\ Known(c, at) /\ Grows(r, at) /\ at.hosts = r.hosts /\ at.tls_contexts = r.tls_contexts
          /\ at.ctxs[i] = y /\ i \in DOMAIN at.ctxs /\ Fresh(at)
      BY <2>2, <3>1, <3>4, ContextPut DEF x
    <3>6. Takes(c, r, at, i, h)
      BY <2>2, <3>2, <3>3, <3>5 DEF Takes, name
    <3>7. SetUp(c, r, h, done)
      BY <2>8, <2>10, <3>6
    <3> QED
      BY <3>7 DEF done, name, full
  <2> QED
    BY <2>7, <2>9, <2>10 DEF done, name, full
<1> QED
  BY <1>4, <1>5

LEMMA SetUpLater ==
  ASSUME NEW c, NEW r, NEW s, Grows(r, s), s.hosts = r.hosts, NEW h, NEW done, SetUp(c, s, h, done)
  PROVE  SetUp(c, r, h, done)
BY GrowsTwice DEF SetUp

LEMMA HostRefused ==
  ASSUME NEW c, NEW r, NEW h, Ready(c, h), NEW s, Known(c, s), Fresh(s), Grows(r, s), s.hosts = r.hosts
  PROVE  SetUp(c, r, h, [host |-> [h EXCEPT !.active = FALSE, !.errored = TRUE], ir |-> PostError(s, "Host", h.name)])
<1> DEFINE t == PostError(s, "Host", h.name)
<1>1. Notes(s, t)
  BY ErrorNotes DEF Known
<1> HIDE DEF t
<1>2. SetUp(c, s, h, [host |-> [h EXCEPT !.active = FALSE, !.errored = TRUE], ir |-> t])
  BY <1>1, HostLeft
<1> QED
  BY <1>2, SetUpLater DEF t

(* ... or with a context of its own. *)
LEMMA ContextOwned ==
  ASSUME NEW c, Dotless(c), NEW r, Known(c, r), Fresh(r), NEW h, Ready(c, h), Len(h.secret) = 1, NEW files
  PROVE  SetUp(c, r, h, OwnContext(r, h, ContextOf(h), FullName(h), files))
<1> DEFINE name == ContextOf(h)
           full == FullName(h)
           spaced == h.secretNs # ""
           a == [ContextFields EXCEPT !.hosts = <<h.hostname>>, !.secret = full, !.namespaced = spaced,
                                      !.files = files]
           x == setup_context(name, h.ns, a)
           s == LoadContext(r, x)
           at == IF x.active THEN Len(s.ctxs) ELSE 0
           g == [h EXCEPT !.context = at]
           done == OwnContext(r, h, name, full, files)
<1>1. done = [host |-> g, ir |-> s]
  BY Zenon DEF OwnContext
<1> HIDE DEF spaced, done
<1>2. DOMAIN a = DOMAIN ContextFields /\ a.secret = full /\ a.ca = <<>> /\ a.crl = <<>>
  BY DEF ContextFields
<1> HIDE DEF a, full
<1>3. IsSeq(full)
  <2>1. IsSeq(h.secret)
    BY DEF Ready
  <2>2. IsSeq(Append(h.secret, h.secretNs))
    BY <2>1, OneLabel
  <2> QED
    BY <2>1, <2>2, HostSecret DEF full
<1>4. Formed(x) /\ x.name = name /\ x.ns = h.ns /\ x.secret = full /\ (x.active => ~x.errored)
  BY <1>2, <1>3, EmptyIsSeq, ContextSetUp
<1> HIDE DEF x
<1>5. Claimed(c, x)
  BY <1>4 DEF Claimed, Ready
<1>6. Loaded(c, r, x, s)
  BY <1>4, <1>5, ContextLoaded
<1> HIDE DEF s
<1>7. Agrees(c, x, h)
  BY <1>4, FullAgrees DEF full, Ready
<1>8. Alike(h, g) /\ g.context = at
  <2> HIDE DEF at
  <2> QED
    BY DEF Alike, Ready, HostDomain
<1> HIDE DEF g
<1>9. ContextOf(g) = name /\ SecretOf(g) = SecretOf(h)
  BY <1>8, AlikeNames
<1>10. Agrees(c, x, g)
  BY <1>7, <1>9 DEF Agrees
<1>11. HostOk(c, s, g)
  BY <1>4, <1>6, <1>8, <1>9, <1>10 DEF HostOk, Loaded
<1>12. done.host = g /\ done.ir = s
  BY <1>1
<1>13. SetUp(c, r, h, done)
  BY <1>6, <1>8, <1>11, <1>12 DEF SetUp, Loaded
<1> QED
  BY <1>13 DEF done, name, full

(* The TLS half of a Host. *)
LEMMA TLSSetUp ==
  ASSUME NEW c, Dotless(c), OneNamespace(c), NEW r, Known(c, r), Fresh(r), NEW h, Ready(c, h)
  PROVE  SetUp(c, r, h, setup_tls(c, r, h))
<1> DEFINE ns == SecretNs(h)
           full == FullName(h)
           ss == resolve_secret(c, r, h.secret, ns)
           at == SaveSecret(c, r, h.secret, ns)
           implicit == h.name \o "-context"
           files == IF h.tls = "files" THEN "both" ELSE "none"
           own == OwnContext(at, h, implicit, full, files)
           plain == OwnContext(at, h, implicit, full, "none")
           refuse(s) == [host |-> [h EXCEPT !.active = FALSE, !.errored = TRUE],
                         ir |-> PostError(s, "Host", h.name)]
           done == setup_tls(c, r, h)
<1>1. /\ h.secret = <<>> => done = [host |-> h, ir |-> r]
      /\ h.secret # <<>> /\ ~usable(ss) => done = [host |-> [h EXCEPT !.active = FALSE], ir |-> at]
      /\ h.secret # <<>> /\ usable(ss) =>
           \/ done = refuse(at)
           \/ done = refuse(own.ir) /\ ContextOf(h) = implicit
           \/ done = own /\ ContextOf(h) = implicit
           \/ done = plain /\ ContextOf(h) = implicit
           \/ done = save_context(c, at, h, ContextOf(h), ss, full)
  <2>1. CASE h.secret = <<>>
    BY <2>1 DEF setup_tls
  <2> HIDE DEF own, plain, at, ss, full
  <2>2. CASE h.secret # <<>> /\ ~usable(ss)
    <3>1. done = [host |-> [h EXCEPT !.active = FALSE], ir |-> at]
      BY <2>2 DEF setup_tls, at, ss, SecretNs
    <3> QED
      BY <2>2, <3>1
  <2>3. CASE h.secret # <<>> /\ usable(ss)
    <3>1. done =
           CASE h.tlsContext # "" /\ h.tls # "" -> refuse(at)
             [] h.tlsContext # "" /\ h.tls = "" ->
                  save_context(c, at, h, h.tlsContext, ss, full)
             [] h.tlsContext = "" /\ h.tls = "version" -> refuse(at)
             [] h.tlsContext = "" /\ h.tls \in {"good", "files"} ->
                  (IF own.host.context = 0 THEN refuse(own.ir) ELSE own)
             [] OTHER ->
                  IF has_tls_context(at, implicit)
                  THEN save_context(c, at, h, implicit, ss, full)
                  ELSE plain
      BY <2>3 DEF setup_tls, own, plain, at, ss, full, FullName, SecretNs
    <3>2. CASE h.tlsContext # "" /\ h.tls # ""
      <4>1. done = refuse(at)
        BY <3>1, <3>2
      <4> QED
        BY <2>3, <4>1
    <3>3. CASE h.tlsContext # "" /\ h.tls = ""
      <4>1. done = save_context(c, at, h, h.tlsContext, ss, full)
        BY <3>1, <3>3
      <4>2. ContextOf(h) = h.tlsContext
        BY <3>3 DEF ContextOf
      <4> QED
        BY <2>3, <4>1, <4>2
    <3>4. CASE h.tlsContext = "" /\ h.tls = "version"
      <4>1. done = refuse(at)
        BY <3>1, <3>4
      <4> QED
        BY <2>3, <4>1
    <3>5. CASE h.tlsContext = "" /\ h.tls \in {"good", "files"}
      <4>1. done = IF own.host.context = 0 THEN refuse(own.ir) ELSE own
        BY <3>1, <3>5
      <4>2. ContextOf(h) = implicit
        BY <3>5 DEF ContextOf
      <4> QED
        BY <2>3, <4>1, <4>2
    <3>6. CASE h.tlsContext = "" /\ h.tls \notin {"good", "files", "version"}
      <4>1. done = IF has_tls_context(at, implicit)
                   THEN save_context(c, at, h, implicit, ss, full)
                   ELSE plain
        BY <3>1, <3>6
      <4>2. ContextOf(h) = implicit
        BY <3>6 DEF ContextOf
      <4> QED
        BY <2>3, <4>1, <4>2
    <3> QED
      BY <3>2, <3>3, <3>4, <3>5, <3>6
  <2> QED
    BY <2>1, <2>2, <2>3
<1>2. Whole(r) /\ Saved(r) /\ IsSeq(h.secret)
  BY DEF Known, Ready
<1>3. Notes(r, at)
  BY <1>2, SecretNotes
<1> HIDE DEF done, at
<1>4. Known(c, at) /\ Fresh(at) /\ Grows(r, at) /\ at.hosts = r.hosts
  BY <1>3, KnownNoted, NotesGrow DEF Notes
<1>5. ASSUME NEW g, Alike(h, g), g.context = 0, NEW s, Known(c, s), Fresh(s), Grows(r, s), s.hosts = r.hosts,
             done = [host |-> g, ir |-> s]
      PROVE  SetUp(c, r, h, done)
  <2>1. done.host = g /\ done.ir = s
    BY <1>5
  <2> QED
    BY <1>5, <2>1 DEF SetUp, HostOk
<1>6. CASE h.secret = <<>>
  <2>1. Alike(h, h) /\ h.context = 0
    BY DEF Alike, Ready
  <2>2. Grows(r, r)
    BY <1>2, NotesSelf, NotesGrow
  <2>3. done = [host |-> h, ir |-> r]
    BY <1>1, <1>6
  <2>4. SetUp(c, r, h, done)
    BY <1>5, <2>1, <2>2, <2>3
  <2> QED
    BY <2>4 DEF done
<1>7. CASE h.secret # <<>> /\ ~usable(ss)
  <2> DEFINE g == [h EXCEPT !.active = FALSE]
  <2>1. Alike(h, g) /\ g.context = 0
    BY DEF Alike, Ready, HostDomain
  <2>2. done = [host |-> g, ir |-> at]
    BY <1>1, <1>7
  <2> HIDE DEF g
  <2>3. SetUp(c, r, h, done)
    BY <1>4, <1>5, <2>1, <2>2
  <2> QED
    BY <2>3 DEF done
<1>8. CASE h.secret # <<>> /\ usable(ss)
  <2>1. ss.name = h.secret /\ ss.ns = ns /\ secret_info(c, Append(h.secret, ns)) # {}
    BY <1>2, <1>8, Resolves
  <2>2. Len(h.secret) = 1
    BY <1>2, <2>1, InfoFacts
  <2> HIDE DEF ss
  <2>3. ASSUME NEW f PROVE SetUp(c, at, h, OwnContext(at, h, ContextOf(h), full, f))
    BY <1>4, <2>2, ContextOwned
  <2>4. SetUp(c, at, h, save_context(c, at, h, ContextOf(h), ss, full))
    BY <1>4, <2>1, <2>2, ContextUsed
  <2> HIDE DEF full
  <2>5. ASSUME ContextOf(h) = implicit PROVE SetUp(c, r, h, own) /\ SetUp(c, r, h, plain)
    <3> HIDE DEF implicit, files
    <3>1. SetUp(c, at, h, own) /\ SetUp(c, at, h, plain)
      BY <2>3, <2>5
    <3> QED
      BY <1>4, <3>1, SetUpLater
  <2>6. SetUp(c, r, h, refuse(at))
    BY <1>4, HostRefused
  <2>7. ContextOf(h) = implicit => SetUp(c, r, h, refuse(own.ir))
    <3> HIDE DEF own
    <3> QED
      BY <2>5, HostRefused DEF SetUp
  <2>8. SetUp(c, r, h, save_context(c, at, h, ContextOf(h), ss, full))
    BY <1>4, <2>4, SetUpLater
  <2> HIDE DEF own, plain, refuse, implicit
  <2>9. SetUp(c, r, h, done)
    BY <1>1, <1>8, <2>5, <2>6, <2>7, <2>8
  <2> QED
    BY <2>9 DEF done
<1> QED
  BY <1>6, <1>7, <1>8

LEMMA AlikeOk ==
  ASSUME NEW c, NEW r, NEW h, HostOk(c, r, h), NEW g, Alike(h, g), g.context = h.context
  PROVE  HostOk(c, r, g)
<1>1. ContextOf(g) = ContextOf(h) /\ SecretOf(g) = SecretOf(h)
  BY AlikeNames
<1> QED
  BY <1>1 DEF HostOk, Agrees

LEMMA AcmeSetUp ==
  ASSUME NEW c, Dotless(c), NEW r, NEW g, DOMAIN g = HostDomain, NEW done, SetUp(c, r, g, done),
         NEW h, IsSeq(h.acme)
  PROVE  SetUp(c, r, g, setup_acme(c, done, h))
<1> DEFINE d == done.ir
           asked == done.host.active /\ h.acme # <<>>
           bad == asked /\ ~usable(resolve_secret(c, d, h.acme, h.ns))
           s == IF asked THEN SaveSecret(c, d, h.acme, h.ns) ELSE d
           t == IF bad THEN PostError(s, "Host", h.name) ELSE s
           wrong == done.host.errored \/ bad
           o == [done.host EXCEPT !.errored = wrong]
           made == setup_acme(c, done, h)
<1>0. Known(c, d) /\ Fresh(d) /\ Grows(r, d) /\ d.hosts = r.hosts /\ Alike(g, done.host) /\ HostOk(c, d, done.host)
  BY DEF SetUp
<1>1. made.ir = t /\ made.host = o
  BY DEF setup_acme
<1> HIDE DEF d
<1>2. Whole(d) /\ Saved(d)
  BY <1>0 DEF Known
<1>3. Notes(d, s)
  <2>1. Notes(d, SaveSecret(c, d, h.acme, h.ns)) /\ Notes(d, d)
    BY <1>2, SecretNotes, NotesSelf
  <2> HIDE DEF asked
  <2> QED
    BY <2>1
<1> HIDE DEF s
<1>4. Notes(d, t)
  <2>1. Whole(s) /\ Saved(s)
    BY <1>3 DEF Notes
  <2>2. Notes(s, PostError(s, "Host", h.name))
    BY <2>1, ErrorNotes
  <2>3. Notes(d, PostError(s, "Host", h.name))
    BY <1>3, <2>2, NotesTwice
  <2> HIDE DEF bad
  <2> QED
    BY <1>3, <2>3
<1> HIDE DEF t, wrong
<1>5. Alike(g, o) /\ Alike(done.host, o) /\ o.context = done.host.context
  BY <1>0 DEF Alike, HostDomain
<1> HIDE DEF o, made
<1>6. Known(c, t) /\ Fresh(t) /\ Grows(d, t) /\ t.hosts = d.hosts
  BY <1>0, <1>4, KnownNoted, NotesGrow DEF Notes
<1>7. HostOk(c, t, o)
  <2>1. HostOk(c, t, done.host)
    BY <1>0, <1>6, HostKept
  <2> QED
    BY <1>5, <2>1, AlikeOk
<1>8. Grows(r, t)
  BY <1>0, <1>6, GrowsTwice
<1>9. SetUp(c, r, g, made)
  BY <1>0, <1>1, <1>5, <1>6, <1>7, <1>8 DEF SetUp
<1> QED
  BY <1>9 DEF made

(* A Host as it is configured, and as the IR keeps it. *)
Fit(c, h) ==
  /\ DOMAIN h = DOMAIN HostDefaults /\ IsSeq(h.secret) /\ IsSeq(h.acme)
  /\ h.hostname = <<>> \/ h.hostname \in Range(HostnameOrder)
  /\ <<ContextOf(h), h.ns>> \in ContextClaims(c)

Sortable(h) == h.hostname \in Range(HostnameOrder)

LEMMA HostFields ==
  DOMAIN HostDefaults = {"name", "ns", "hostname", "insecure", "selector", "labels", "secret", "secretNs",
                         "tlsContext", "tls", "acme"}
BY Zenon DEF HostDefaults

LEMMA HostSetUp ==
  ASSUME NEW c, Dotless(c), OneNamespace(c), NEW r, Known(c, r), Fresh(r), NEW h, Fit(c, h)
  PROVE  \E g : Sortable(g) /\ SetUp(c, r, g, setup_host(c, r, h))
<1> DEFINE name == IF h.hostname = <<>> THEN Star ELSE h.hostname
           insecure == IF h.insecure = "" THEN "Redirect" ELSE h.insecure
           sni == IF Last(name) \in PortLabels THEN Front(name) ELSE name
           a == [h EXCEPT !.hostname = name, !.insecure = insecure]
           b == [sni |-> sni, context |-> 0, active |-> TRUE, errored |-> FALSE]
           g == Over(a, b)
<1>1. setup_host(c, r, h) = setup_acme(c, setup_tls(c, r, g), h)
  BY Zenon DEF setup_host
<1>2. name \in Range(HostnameOrder)
  BY SecretAssumption DEF Fit
<1> HIDE DEF name, insecure, sni
<1>3. DOMAIN h = {"name", "ns", "hostname", "insecure", "selector", "labels", "secret", "secretNs",
                  "tlsContext", "tls", "acme"}
  BY HostFields DEF Fit
<1>4. /\ DOMAIN a = DOMAIN h /\ a.hostname = name /\ a.name = h.name /\ a.ns = h.ns /\ a.secret = h.secret
      /\ a.secretNs = h.secretNs /\ a.tlsContext = h.tlsContext
  BY <1>3
<1>5. DOMAIN b = {"sni", "context", "active", "errored"} /\ b.context = 0
  OBVIOUS
<1> HIDE DEF a, b
<1>6. /\ DOMAIN g = HostDomain /\ g.hostname = a.hostname /\ g.name = a.name /\ g.ns = a.ns
      /\ g.secret = a.secret /\ g.secretNs = a.secretNs /\ g.tlsContext = a.tlsContext
      /\ g.context = b.context
  BY <1>3, <1>4, <1>5 DEF Over, HostDomain
<1> HIDE DEF g
<1>7. ContextOf(g) = ContextOf(h)
  BY Zenon, <1>4, <1>6 DEF ContextOf
<1>8. Ready(c, g) /\ Sortable(g)
  BY <1>2, <1>4, <1>5, <1>6, <1>7 DEF Ready, Sortable, Fit
<1>9. SetUp(c, r, g, setup_tls(c, r, g))
  BY <1>8, TLSSetUp
<1>10. SetUp(c, r, g, setup_acme(c, setup_tls(c, r, g), h))
  BY <1>6, <1>9, AcmeSetUp DEF Fit
<1> QED
  BY <1>1, <1>8, <1>10

(* The Hosts have names of their own. *)
Hosted(c, r) ==
  /\ IsSeq(r.hosts)
  /\ \A k \in DOMAIN r.hosts : HostOk(c, r, r.hosts[k]) /\ Sortable(r.hosts[k])
  /\ \A j, k \in DOMAIN r.hosts : r.hosts[j].name = r.hosts[k].name => j = k

LEMMA HostSaved ==
  ASSUME NEW c, NEW r, Known(c, r), Fresh(r), Hosted(c, r), NEW g, HostOk(c, r, g), Sortable(g),
         NEW s, s = save_host(r, g)
  PROVE  Known(c, s) /\ Fresh(s) /\ Hosted(c, s)
<1> DEFINE extant == {k \in DOMAIN r.hosts : r.hosts[k].name = g.name}
           at == CHOOSE k \in extant : TRUE
           longer == Append(r.hosts, g)
           put == [r.hosts EXCEPT ![at] = g]
<1>1. \/ extant = {} /\ s = [r EXCEPT !.hosts = longer]
      \/ s = PostError(r, "ir", g.name)
      \/ extant # {} /\ s = [r EXCEPT !.hosts = put]
  BY DEF save_host
<1>2. extant # {} => at \in DOMAIN r.hosts /\ r.hosts[at].name = g.name
  OBVIOUS
<1>3. Whole(r) /\ Saved(r)
  BY DEF Known
<1>4. ASSUME NEW hosts, s = [r EXCEPT !.hosts = hosts],
             IsSeq(hosts), \A k \in DOMAIN hosts : hosts[k] = g \/ hosts[k] \in Range(r.hosts),
             \A j, k \in DOMAIN hosts : hosts[j].name = hosts[k].name => j = k
      PROVE  Known(c, s) /\ Fresh(s) /\ Hosted(c, s)
  <2>1. /\ Whole(s) /\ s.hosts = hosts /\ s.ctxs = r.ctxs /\ s.tls_contexts = r.tls_contexts
        /\ s.saved = r.saved /\ s.errors = r.errors
    BY <1>3, <1>4 DEF Whole
  <2>2. Known(c, s) /\ Fresh(s)
    BY <2>1 DEF Known, Saved, Fresh
  <2>3. Grows(r, s)
    BY <2>1 DEF Grows, Remains
  <2>4. HostOk(c, s, g)
    BY <2>3, HostKept
  <2>5. \A o \in Range(r.hosts) : HostOk(c, s, o) /\ Sortable(o)
    BY <2>3, HostKept DEF Hosted, Range
  <2> QED
    BY <1>4, <2>1, <2>2, <2>4, <2>5 DEF Hosted
<1>5. CASE extant = {} /\ s = [r EXCEPT !.hosts = longer]
  <2>1. \A k \in DOMAIN r.hosts : r.hosts[k].name # g.name
    BY <1>5
  <2>2. /\ IsSeq(longer) /\ Len(r.hosts) \in Nat /\ DOMAIN r.hosts = 1 .. Len(r.hosts)
        /\ DOMAIN longer = 1 .. Len(r.hosts) + 1 /\ longer[Len(r.hosts) + 1] = g
        /\ \A i \in 1 .. Len(r.hosts) : longer[i] = r.hosts[i]
    BY AppendFacts DEF Hosted
  <2> HIDE DEF longer
  <2>3. \A k \in DOMAIN longer : (k \in DOMAIN r.hosts /\ longer[k] = r.hosts[k])
                                 \/ (k = Len(r.hosts) + 1 /\ longer[k] = g)
    BY <2>2
  <2>4. \A k \in DOMAIN longer : longer[k] = g \/ longer[k] \in Range(r.hosts)
    BY <2>3 DEF Range
  <2>5. \A j, k \in DOMAIN longer : longer[j].name = longer[k].name => j = k
    BY <2>1, <2>3 DEF Hosted
  <2> QED
    BY <1>4, <1>5, <2>2, <2>4, <2>5
<1>6. CASE s = PostError(r, "ir", g.name)
  <2>1. Notes(r, s)
    BY <1>3, <1>6, ErrorNotes
  <2>2. Known(c, s) /\ Fresh(s) /\ Grows(r, s) /\ s.hosts = r.hosts
    BY <2>1, KnownNoted, NotesGrow DEF Notes
  <2> QED
    BY <2>2, HostKept DEF Hosted
<1>7. CASE extant # {} /\ s = [r EXCEPT !.hosts = put]
  <2> HIDE DEF extant, at
  <2>1. at \in DOMAIN r.hosts /\ r.hosts[at].name = g.name
    BY <1>2, <1>7
  <2>2. /\ IsSeq(put) /\ DOMAIN put = DOMAIN r.hosts /\ put[at] = g
        /\ \A k \in DOMAIN r.hosts : k # at => put[k] = r.hosts[k]
    BY <2>1, ExceptFacts DEF Hosted
  <2> HIDE DEF put
  <2>3. \A k \in DOMAIN put : (put[k] = g \/ put[k] \in Range(r.hosts)) /\ put[k].name = r.hosts[k].name
    BY <2>1, <2>2 DEF Range
  <2>4. \A j, k \in DOMAIN put : put[j].name = put[k].name => j = k
    BY <2>2, <2>3 DEF Hosted
  <2> QED
    BY <1>4, <1>7, <2>2, <2>3, <2>4
<1> QED
  BY <1>1, <1>5, <1>6, <1>7

Prepared(c, r) == Known(c, r) /\ Fresh(r) /\ Hosted(c, r)

LEMMA HostLoaded ==
  ASSUME NEW c, Dotless(c), OneNamespace(c), NEW r, Prepared(c, r), NEW h, Fit(c, h)
  PROVE  Prepared(c, load_host(c, r, h))
<1> DEFINE made == setup_host(c, r, h)
           s == save_host(made.ir, made.host)
           t == load_host(c, r, h)
<1>1. t = IF made.host.active THEN s ELSE made.ir
  BY DEF load_host
<1>2. PICK g : Sortable(g) /\ SetUp(c, r, g, made)
  BY HostSetUp DEF Prepared
<1> HIDE DEF made
<1>3. /\ Known(c, made.ir) /\ Fresh(made.ir) /\ Grows(r, made.ir) /\ made.ir.hosts = r.hosts
      /\ HostOk(c, made.ir, made.host) /\ Sortable(made.host)
  BY <1>2 DEF SetUp, Sortable, Alike
<1>4. Hosted(c, made.ir)
  BY <1>3, HostKept DEF Prepared, Hosted
<1>5. Prepared(c, s)
  BY <1>3, <1>4, HostSaved DEF Prepared
<1> HIDE DEF s, t
<1>6. Prepared(c, t)
  BY <1>1, <1>3, <1>4, <1>5 DEF Prepared
<1> QED
  BY <1>6 DEF t

LEMMA NotedPrepared ==
  ASSUME NEW c, NEW r, Prepared(c, r), NEW s, Notes(r, s)
  PROVE  Prepared(c, s)
<1>1. Known(c, s) /\ Fresh(s) /\ Grows(r, s) /\ s.hosts = r.hosts
  BY KnownNoted, NotesGrow DEF Notes, Prepared
<1> QED
  BY <1>1, HostKept DEF Hosted, Prepared

LEMMA DefaultFits ==
  ASSUME NEW c, NEW secret, IsSeq(secret), NEW insecure
  PROVE  Fit(c, [DefaultHost EXCEPT !.secret = secret, !.insecure = insecure])
<1> DEFINE h == [DefaultHost EXCEPT !.secret = secret, !.insecure = insecure]
<1>1. DOMAIN DefaultHost = DOMAIN HostDefaults
  BY Zenon DEF DefaultHost
<1>2. /\ HostDefaults.ns = AmbassadorNamespace /\ HostDefaults.acme = <<>> /\ HostDefaults.hostname = <<>>
  BY Zenon DEF HostDefaults
<1>3. /\ DefaultHost.ns = AmbassadorNamespace /\ DefaultHost.acme = <<>> /\ DefaultHost.hostname = <<>>
  BY <1>2, HostFields DEF DefaultHost
<1>4. /\ DOMAIN h = DOMAIN HostDefaults /\ h.secret = secret
      /\ h.name = DefaultHost.name /\ h.ns = AmbassadorNamespace /\ h.acme = <<>> /\ h.hostname = <<>>
      /\ h.tlsContext = DefaultHost.tlsContext
  BY <1>1, <1>3, HostFields
<1> HIDE DEF h
<1>5. ContextOf(h) = ContextOf(DefaultHost)
  BY Zenon, <1>4 DEF ContextOf
<1>6. <<ContextOf(h), h.ns>> \in ContextClaims(c)
  BY <1>4, <1>5 DEF ContextClaims
<1>7. Fit(c, h)
  BY <1>4, <1>6, EmptyIsSeq DEF Fit
<1> QED
  BY <1>7 DEF h

LEMMA HostsFinalized ==
  ASSUME NEW c, Dotless(c), OneNamespace(c), NEW r, Prepared(c, r)
  PROVE  Prepared(c, finalize_hosts(c, r))
<1> DEFINE terminating == \E i \in Range(r.tls_contexts) : r.ctxs[i].hosts # <<>>
           s == IF terminating THEN PostError(r, "ir", "hosts") ELSE r
           fallback == <<"fallback-self-signed-cert">>
           ss == resolve_secret(c, s, fallback, AmbassadorNamespace)
           secret == IF usable(ss) THEN fallback ELSE DefaultHost.secret
           insecure == IF usable(ss) THEN DefaultHost.insecure ELSE "Route"
           default == [DefaultHost EXCEPT !.secret = secret, !.insecure = insecure]
           t == SaveSecret(c, s, fallback, AmbassadorNamespace)
           u == finalize_hosts(c, r)
<1>1. u = r \/ u = load_host(c, t, default)
  BY DEF finalize_hosts
<1>2. Whole(r) /\ Saved(r)
  BY DEF Prepared, Known
<1>3. Notes(r, s)
  <2>1. Notes(r, r) /\ Notes(r, PostError(r, "ir", "hosts"))
    BY <1>2, NotesSelf, ErrorNotes
  <2> HIDE DEF terminating
  <2> QED
    BY <2>1
<1> HIDE DEF s
<1>4. Notes(s, t)
  <2>1. Whole(s) /\ Saved(s)
    BY <1>3 DEF Notes
  <2>2. IsSeq(fallback)
    BY SingletonIsSeq
  <2> HIDE DEF fallback
  <2> QED
    BY <2>1, <2>2, SecretNotes
<1> HIDE DEF t
<1>5. Prepared(c, t)
  BY <1>3, <1>4, NotesTwice, NotedPrepared
<1>6. IsSeq(secret)
  <2>1. HostDefaults.secret = <<>>
    BY Zenon DEF HostDefaults
  <2>2. DefaultHost.secret = <<>>
    BY <2>1, HostFields DEF DefaultHost
  <2>3. IsSeq(fallback) /\ IsSeq(<<>>)
    BY SingletonIsSeq, EmptyIsSeq
  <2> HIDE DEF ss, fallback
  <2> QED
    BY <2>2, <2>3
<1> HIDE DEF secret, insecure, u
<1>7. Fit(c, default)
  BY <1>6, DefaultFits
<1> HIDE DEF default
<1>8. Prepared(c, load_host(c, t, default))
  BY <1>5, <1>7, HostLoaded
<1>9. Prepared(c, u)
  BY <1>1, <1>8
<1> QED
  BY <1>9 DEF u

LEMMA ConfiguredFits ==
  ASSUME NEW c \in Configs, NEW h \in Range(c.hosts)
  PROVE  Fit(c, h)
<1>1. /\ DOMAIN h = DOMAIN HostDefaults /\ h.secret \in Seq(STRING) /\ h.acme \in Seq(STRING)
      /\ h.hostname = <<>> \/ h.hostname \in Range(HostnameOrder)
  BY SecretAssumption
<1>2. IsSeq(h.secret) /\ IsSeq(h.acme)
  BY <1>1, SeqIsSeq
<1>3. <<ContextOf(h), h.ns>> \in ContextClaims(c)
  BY DEF ContextClaims
<1> QED
  BY <1>1, <1>2, <1>3 DEF Fit

LEMMA DotlessConfig ==
  ASSUME NEW c \in Configs, DotlessSecrets(c)
  PROVE  Dotless(c)
<1>1. \A s \in c.secrets : s.name \in Seq(STRING)
  BY SecretAssumption
<1>2. \A s \in c.secrets : IsSeq(s.name)
  BY <1>1, SeqIsSeq
<1> QED
  BY <1>2 DEF Dotless, DotlessSecrets

LEMMA GrownPrepared ==
  ASSUME NEW c, NEW r, Prepared(c, r), NEW s, Known(c, s), Fresh(s), Grows(r, s), s.hosts = r.hosts
  PROVE  Prepared(c, s)
BY HostKept DEF Hosted, Prepared

LEMMA ListenerNotes ==
  ASSUME NEW r, Whole(r), Saved(r), NEW config
  PROVE  Notes(r, load_listener(r, config)) /\ Notes(r, advertise_http3(r))
<1> DEFINE l == setup_listener(config)
           s == IF l.errored \/ ~l.active THEN PostError(r, "Listener", l.name) ELSE r
<1>1. Notes(r, s)
  <2> HIDE DEF l
  <2> QED
    BY ErrorNotes, NotesSelf
<1>2. load_listener(r, config) \in {s, save_listener(s, l)}
  BY DEF load_listener
<1> HIDE DEF l, s
<1>3. save_listener(s, l) \in {PostError(s, "ir", l.name), [s EXCEPT !.listeners = Append(@, l)]}
  BY DEF save_listener
<1>4. Whole(s) /\ Saved(s)
  BY <1>1 DEF Notes
<1>5. Notes(s, PostError(s, "ir", l.name))
  BY <1>4, ErrorNotes
<1>6. Notes(s, [s EXCEPT !.listeners = Append(@, l)])
  BY <1>4 DEF Notes, Whole, Saved
<1>7. Notes(r, load_listener(r, config))
  BY <1>1, <1>2, <1>3, <1>5, <1>6, NotesTwice
<1>8. PICK ls : advertise_http3(r) = [r EXCEPT !.listeners = ls]
  BY DEF advertise_http3
<1>9. Notes(r, advertise_http3(r))
  BY <1>8 DEF Notes, Whole, Saved
<1> QED
  BY <1>7, <1>9

-----------------------------------------------------------------------------
(* Resolution: a context that stays true presents the Secret it names. *)

Resolved(c, x) ==
  x.errored \/ (x.secret # <<>> => x.cert = Presents(c, x) /\ secret_info(c, Presents(c, x)) # {})

LEMMA SecretResolved ==
  ASSUME NEW c, Dotless(c), NEW r, Saved(r), NEW x, Formed(x), NEW y, y = resolve_context(c, r, x)
  PROVE  Formed(y) /\ Remains(x, y) /\ Resolved(c, y)
<1> DEFINE at(name) == resolve_secret(c, r, split_secret(c, x, name).name, split_secret(c, x, name).ns)
           id(s) == Append(s.name, s.ns)
           ss == at(x.secret)
           named == x.secret # <<>>
           keyless == named /\ usable(ss) /\ ~ss.key
           cert == IF named /\ usable(ss) THEN id(ss) ELSE x.cert
           badSecret == (named /\ ~usable(ss)) \/ (x.crl # <<>> /\ ~usable(at(x.crl)))
           badCA == x.ca # <<>> /\ ~usable(at(x.ca))
           caOnly == x.ca # <<>> /\ cert = <<>>
           empty == ~named /\ x.files = "none" /\ x.ca = <<>> /\ x.crl = <<>>
           missing == cert = <<>> /\ x.hosts # <<>>
           valid == IF keyless \/ caOnly THEN FALSE
                    ELSE IF badSecret \/ badCA THEN x.rcf # 0 \/ x.alpn
                    ELSE ~missing
           errored == x.errored \/ ~valid \/ empty \/ badSecret \/ badCA
           secret == IF named /\ ~usable(ss) THEN <<>> ELSE x.secret
           cacert == IF x.ca = <<>> \/ ~valid THEN x.cacert ELSE id(at(x.ca))
<1>1. y = [x EXCEPT !.active = valid, !.errored = errored, !.secret = secret, !.cert = cert, !.cacert = cacert]
  BY DEF resolve_context, Formed, ContextDomain
<1>2. (x.errored => errored) /\ (named /\ ~usable(ss) => errored)
  OBVIOUS
<1>3. secret = x.secret \/ (secret = <<>> /\ errored)
  <2> HIDE DEF errored, ss
  <2> QED
    BY <1>2
<1>4. named /\ usable(ss) => /\ cert = Presents(c, x) /\ secret_info(c, Presents(c, x)) # {}
                             /\ secret = x.secret
  <2> SUFFICES ASSUME named, usable(ss) PROVE cert = Presents(c, x) /\ secret_info(c, Presents(c, x)) # {}
    OBVIOUS
  <2> DEFINE p == split_secret(c, x, x.secret)
  <2>1. IsSeq(p.name) /\ p.name # <<>>
    BY SplitFacts DEF Formed
  <2>2. ss = resolve_secret(c, r, p.name, p.ns)
    OBVIOUS
  <2>3. Presents(c, x) = Append(p.name, p.ns)
    BY DEF Presents
  <2> HIDE DEF p
  <2>4. ss.name = p.name /\ ss.ns = p.ns /\ secret_info(c, Append(p.name, p.ns)) # {}
    BY <2>1, <2>2, Resolves
  <2> HIDE DEF ss
  <2> QED
    BY <2>3, <2>4
<1>5. named => errored \/ usable(ss)
  BY <1>2
<1> HIDE DEF valid, errored, secret, cert, cacert, ss
<1>6. /\ DOMAIN y = DOMAIN x /\ y.name = x.name /\ y.ns = x.ns /\ y.namespaced = x.namespaced
      /\ y.ca = x.ca /\ y.crl = x.crl /\ y.enabled = x.enabled
      /\ y.errored = errored /\ y.secret = secret /\ y.cert = cert
  BY <1>1 DEF Formed, ContextDomain
<1>7. Formed(y)
  BY <1>3, <1>6, EmptyIsSeq DEF Formed
<1>8. Remains(x, y)
  BY <1>2, <1>3, <1>6 DEF Remains
<1>9. secret = x.secret => Presents(c, y) = Presents(c, x)
  BY <1>6 DEF Presents, split_secret
<1>10. Resolved(c, y)
  <2>1. CASE errored
    BY <1>6, <2>1 DEF Resolved
  <2>2. CASE ~errored
    <3>1. secret = x.secret
      BY <1>3, <2>2
    <3> QED
      BY <1>4, <1>5, <1>6, <1>9, <2>2, <3>1 DEF Resolved
  <2> QED
    BY <2>1, <2>2
<1> QED
  BY <1>7, <1>8, <1>10

LEMMA ContextResolved ==
  ASSUME NEW c, Dotless(c), NEW r, Known(c, r), NEW i \in DOMAIN r.ctxs,
         NEW t, t = resolve_tls_context(c, r, i)
  PROVE  /\ Known(c, t) /\ Grows(r, t) /\ t.hosts = r.hosts /\ t.tls_contexts = r.tls_contexts
         /\ Resolved(c, t.ctxs[i]) /\ \A k \in DOMAIN r.ctxs : k # i => t.ctxs[k] = r.ctxs[k]
<1> DEFINE x == r.ctxs[i]
           y == resolve_context(c, r, x)
           save(at, key) == IF key = <<>> THEN at
                            ELSE SaveSecret(c, at, split_secret(c, y, key).name, split_secret(c, y, key).ns)
           s1 == save(r, x.secret)
           s2 == save(s1, x.ca)
           s3 == save(s2, x.crl)
           errors == s3.errors \cup IF y.errored THEN {<<"TLSContext", y.name>>} ELSE {}
<1>1. t = [s3 EXCEPT !.ctxs[i] = y, !.errors = errors]
  BY DEF resolve_tls_context
<1>2. Formed(x) /\ Whole(r) /\ Saved(r)
  BY DEF Known
<1>3. Formed(y) /\ Remains(x, y) /\ Resolved(c, y)
  BY <1>2, SecretResolved
<1> HIDE DEF y
<1>4. ASSUME NEW s, Whole(s), Saved(s), NEW key, IsSeq(key) PROVE Notes(s, save(s, key))
  <2>1. CASE key = <<>>
    BY <1>4, <2>1, NotesSelf
  <2>2. CASE key # <<>>
    <3> DEFINE name == split_secret(c, y, key).name
               ns == split_secret(c, y, key).ns
    <3>1. IsSeq(name)
      BY <1>4, <2>2, SplitFacts
    <3>2. save(s, key) = SaveSecret(c, s, name, ns)
      BY <2>2
    <3> HIDE DEF name, ns
    <3> QED
      BY <1>4, <3>1, <3>2, SecretNotes
  <2> QED
    BY <2>1, <2>2
<1>5. IsSeq(x.secret) /\ IsSeq(x.ca) /\ IsSeq(x.crl)
  BY <1>2 DEF Formed
<1> HIDE DEF save, x
<1>6. Notes(r, s1)
  BY <1>2, <1>4, <1>5
<1> HIDE DEF s1
<1>7. Notes(s1, s2)
  BY <1>4, <1>5, <1>6 DEF Notes
<1> HIDE DEF s2
<1>8. Notes(s2, s3)
  BY <1>4, <1>5, <1>7 DEF Notes
<1> HIDE DEF s3
<1>9. Notes(r, s3)
  BY <1>6, <1>7, <1>8, NotesTwice
<1>10. Known(c, s3) /\ Grows(r, s3) /\ s3.ctxs = r.ctxs /\ s3.hosts = r.hosts /\ s3.tls_contexts = r.tls_contexts
  BY <1>9, KnownNoted, NotesGrow DEF Notes
<1>11. s3.errors \subseteq errors
  OBVIOUS
<1> HIDE DEF errors
<1>12. Puts(s3, i, y, t)
  BY <1>1, <1>10, <1>11 DEF Puts, Known, Whole
<1>13. /\ Known(c, t) /\ Grows(s3, t) /\ t.hosts = s3.hosts /\ t.tls_contexts = s3.tls_contexts
       /\ t.ctxs[i] = y /\ \A k \in DOMAIN s3.ctxs : k # i => t.ctxs[k] = s3.ctxs[k]
  BY <1>3, <1>10, <1>12, ContextPut DEF x
<1> QED
  BY <1>3, <1>10, <1>13, GrowsTwice

(* The contexts up to the k-th are resolved. *)
Resolving(c, r, k) ==
  /\ Known(c, r) /\ Hosted(c, r)
  /\ \A j \in DOMAIN r.tls_contexts : j <= k => Resolved(c, r.ctxs[r.tls_contexts[j]])

LEMMA ResolvesNext ==
  ASSUME NEW c, Dotless(c), NEW r, NEW k \in Nat, Resolving(c, r, k), k < Len(r.tls_contexts)
  PROVE  Resolving(c, resolve_tls_context(c, r, r.tls_contexts[k + 1]), k + 1)
<1> DEFINE i == r.tls_contexts[k + 1]
           t == resolve_tls_context(c, r, i)
<1>1. Known(c, r) /\ Hosted(c, r) /\ IsSeq(r.tls_contexts)
  BY DEF Resolving, Known
<1>2. Len(r.tls_contexts) \in Nat /\ DOMAIN r.tls_contexts = 1 .. Len(r.tls_contexts)
  BY <1>1, IsSeqFacts
<1>3. k + 1 \in DOMAIN r.tls_contexts
  BY <1>2
<1>4. i \in DOMAIN r.ctxs
  BY <1>1, <1>3 DEF Known
<1> HIDE DEF i
<1>5. /\ Known(c, t) /\ Grows(r, t) /\ t.hosts = r.hosts /\ t.tls_contexts = r.tls_contexts
      /\ Resolved(c, t.ctxs[i]) /\ \A j \in DOMAIN r.ctxs : j # i => t.ctxs[j] = r.ctxs[j]
  BY <1>1, <1>4, ContextResolved
<1> HIDE DEF t
<1>6. Hosted(c, t)
  BY <1>1, <1>5, HostKept DEF Hosted
<1>7. ASSUME NEW j \in DOMAIN t.tls_contexts, j <= k + 1 PROVE Resolved(c, t.ctxs[t.tls_contexts[j]])
  <2>1. t.tls_contexts[j] \in DOMAIN r.ctxs /\ (j <= k \/ j = k + 1)
    BY <1>1, <1>2, <1>5, <1>7 DEF Known
  <2> QED
    BY <1>5, <2>1 DEF i, Resolving
<1>8. Resolving(c, t, k + 1)
  BY <1>5, <1>6, <1>7 DEF Resolving
<1> QED
  BY <1>8 DEF t, i

(* From here on the contexts of Hosts stay what they are. *)
ErrorFor(r, h) ==
  \/ <<"Host", h.name>> \in r.errors
  \/ <<"ir", ContextOf(h)>> \in r.errors \/ <<"TLSContext", ContextOf(h)>> \in r.errors

Certain(r) ==
  /\ IsSeq(r.hosts) /\ IsSeq(r.ctxs) /\ \A h \in Range(r.hosts) : Sortable(h)
  /\ \A h, o \in Range(r.hosts) : h.name = o.name => h = o
  /\ \A h \in Range(r.hosts) : h.context # 0 => h.context \in DOMAIN r.ctxs
  /\ \A h, o \in Range(r.hosts) :
       (h.context # 0 /\ o.context # 0 /\ r.ctxs[h.context].name = r.ctxs[o.context].name) =>
         \/ r.ctxs[o.context].errored \/ r.ctxs[o.context].cert = SecretOf(h) \/ ErrorFor(r, h)

LEMMA AllResolved ==
  ASSUME NEW c, NEW r, NEW k \in Nat, Resolving(c, r, k), ~(k < Len(r.tls_contexts))
  PROVE  Certain(r)
<1>1. Known(c, r) /\ Hosted(c, r) /\ IsSeq(r.tls_contexts) /\ IsSeq(r.ctxs) /\ IsSeq(r.hosts)
  BY DEF Resolving, Known, Hosted
<1>2. Len(r.tls_contexts) \in Nat /\ DOMAIN r.tls_contexts = 1 .. Len(r.tls_contexts)
  BY <1>1, IsSeqFacts
<1>3. \A j \in DOMAIN r.tls_contexts : j <= k
  BY <1>2
<1>4. \A i \in Range(r.tls_contexts) : Resolved(c, r.ctxs[i])
  BY <1>3 DEF Resolving, Range
<1>5. \A h, o \in Range(r.hosts) : h.name = o.name => h = o
  BY <1>1 DEF Hosted, Range
<1>6. \A h \in Range(r.hosts) : Sortable(h) /\ HostOk(c, r, h)
  BY <1>1 DEF Hosted, Range
<1>7. ASSUME NEW h \in Range(r.hosts), NEW o \in Range(r.hosts), h.context # 0, o.context # 0,
             r.ctxs[h.context].name = r.ctxs[o.context].name, ~ErrorFor(r, h), ~r.ctxs[o.context].errored
      PROVE  r.ctxs[o.context].cert = SecretOf(h)
  <2> DEFINE x == r.ctxs[h.context]
             y == r.ctxs[o.context]
  <2>1. /\ x.name = ContextOf(h) /\ y.name = ContextOf(o)
        /\ <<"ir", ContextOf(h)>> \in r.errors
           \/ (h.context \in Range(r.tls_contexts) /\ (x.errored \/ Agrees(c, x, h)))
        /\ <<"ir", ContextOf(o)>> \in r.errors
           \/ (o.context \in Range(r.tls_contexts) /\ (y.errored \/ Agrees(c, y, o)))
    BY <1>6, <1>7 DEF HostOk
  <2>2. h.context \in Range(r.tls_contexts) /\ o.context \in Range(r.tls_contexts)
    BY <1>7, <2>1 DEF ErrorFor
  <2>3. h.context = o.context
    BY <1>1, <1>7, <2>2 DEF Known, Range
  <2>4. Agrees(c, x, h) /\ Resolved(c, x) /\ ~x.errored
    BY <1>4, <1>7, <2>1, <2>2, <2>3 DEF ErrorFor
  <2> HIDE DEF x
  <2>5. x.cert = SecretOf(h)
    BY <2>4 DEF Agrees, Resolved
  <2> QED
    BY <2>3, <2>5 DEF x
<1>8. \A h \in Range(r.hosts) : h.context # 0 => h.context \in DOMAIN r.ctxs
  BY <1>6 DEF HostOk
<1> QED
  BY <1>1, <1>5, <1>6, <1>7, <1>8 DEF Certain

Later(r, s) ==
  /\ Whole(s) /\ s.hosts = r.hosts /\ r.errors \subseteq s.errors /\ IsSeq(s.ctxs)
  /\ \A i \in DOMAIN r.ctxs : i \in DOMAIN s.ctxs /\ s.ctxs[i] = r.ctxs[i]

Spares(r, s) == Whole(s) /\ s.hosts = r.hosts /\ r.errors \subseteq s.errors /\ s.ctxs = r.ctxs

LEMMA LaterCertain ==
  ASSUME NEW r, Certain(r), NEW s, Later(r, s)
  PROVE  Certain(s)
<1>1. s.hosts = r.hosts /\ IsSeq(s.ctxs) /\ r.errors \subseteq s.errors
  BY DEF Later
<1>2. \A h \in Range(s.hosts) : h.context # 0 => h.context \in DOMAIN r.ctxs /\ h.context \in DOMAIN s.ctxs
                                                 /\ s.ctxs[h.context] = r.ctxs[h.context]
  BY <1>1 DEF Certain, Later
<1>3. \A h : ErrorFor(r, h) => ErrorFor(s, h)
  BY <1>1 DEF ErrorFor
<1> QED
  BY <1>1, <1>2, <1>3 DEF Certain

LEMMA LaterTwice ==
  ASSUME NEW r, NEW s, NEW t, Later(r, s), Later(s, t)
  PROVE  Later(r, t)
BY DEF Later

LEMMA SparesTwice ==
  ASSUME NEW r, NEW s, NEW t, Spares(r, s), Spares(s, t)
  PROVE  Spares(r, t)
BY DEF Spares

LEMMA SparesLater ==
  ASSUME NEW r, IsSeq(r.ctxs), NEW s, Spares(r, s)
  PROVE  Later(r, s)
BY DEF Spares, Later

LEMMA ErrorSpares ==
  ASSUME NEW r, Whole(r), NEW kind, NEW name
  PROVE  Spares(r, r) /\ Spares(r, PostError(r, kind, name))
BY DEF Spares, Whole, PostError

LEMMA ModuleSpares ==
  ASSUME NEW c, NEW r, Whole(r)
  PROVE  Spares(r, finalize_module(c, drop_tls_contexts(r))) /\ Spares(r, load_resolvers(c, r))
<1>1. PICK contexts : drop_tls_contexts(r) = [r EXCEPT !.tls_contexts = contexts]
  BY DEF drop_tls_contexts
<1> DEFINE s == drop_tls_contexts(r)
<1>2. Spares(r, s)
  BY <1>1 DEF Spares, Whole
<1> HIDE DEF s
<1>3. PICK filters, more : finalize_module(c, s) = [s EXCEPT !.filters = filters, !.errors = @ \cup more]
  BY DEF finalize_module
<1>4. Spares(s, finalize_module(c, s))
  BY <1>2, <1>3 DEF Spares, Whole
<1>5. PICK rs, bad : load_resolvers(c, r) = [r EXCEPT !.resolvers = rs, !.errors = @ \cup bad]
  BY DEF load_resolvers
<1>6. Spares(r, load_resolvers(c, r))
  BY <1>5 DEF Spares, Whole
<1> QED
  BY <1>2, <1>4, <1>6, SparesTwice DEF s

LEMMA ServicesSpare ==
  ASSUME NEW c, NEW r, NEW l, Whole(r)
  PROVE  Spares(r, setup_tracing(c, r)) /\ Spares(r, setup_ratelimit(c, r)) /\ Spares(r, load_log_service(r, l))
<1>1. \A all : Spares(r, [r EXCEPT !.services = all])
  BY DEF Spares, Whole
<1>2. Spares(r, setup_tracing(c, r))
  <2> DEFINE t == c.tracings[1]
             object == ServiceObject("tracing", t.name, t.ns,
                         <<[service |-> t.service, grpc |-> t.driver = "opentelemetry", tls |-> ""]>>)
             all == Append(r.services, object)
             posted == PostError(r, "ir.tracing", "ir.tracing")
  <2>1. setup_tracing(c, r) \in {r, [r EXCEPT !.services = all], posted}
    BY DEF setup_tracing
  <2>2. Spares(r, posted) /\ Spares(r, r)
    BY ErrorSpares
  <2> HIDE DEF all, posted
  <2> QED
    BY <1>1, <2>1, <2>2
<1>3. Spares(r, setup_ratelimit(c, r))
  <2> DEFINE rl == c.ratelimits[1]
             object == ServiceObject("ratelimit", rl.name, rl.ns,
                                     <<[service |-> rl.service, grpc |-> TRUE, tls |-> rl.tls]>>)
             all == Append(r.services, object)
             posted == PostError(r, "ir.ratelimit", "ir.ratelimit")
  <2>1. setup_ratelimit(c, r) \in {r, [r EXCEPT !.services = all], posted}
    BY DEF setup_ratelimit
  <2>2. Spares(r, posted) /\ Spares(r, r)
    BY ErrorSpares
  <2> HIDE DEF all, posted
  <2> QED
    BY <1>1, <2>1, <2>2
<1>4. Spares(r, load_log_service(r, l))
  <2> DEFINE object == ServiceObject("log", l.name, l.ns,
                                     <<[service |-> l.service, grpc |-> l.grpc, tls |-> ""]>>)
             all == Append(r.services, object)
             posted == PostError(r, "ir.logservice", "ir.logservice")
             twice == PostError(posted, "ir", "logservice")
             there == PostError(r, "ir", "logservice")
  <2>1. load_log_service(r, l) \in {r, [r EXCEPT !.services = all], posted, there, twice}
    BY DEF load_log_service
  <2>2. Spares(r, posted) /\ Spares(r, r) /\ Spares(r, there)
    BY ErrorSpares
  <2> HIDE DEF all, posted, there
  <2>3. Spares(posted, twice)
    BY <2>2, ErrorSpares DEF Spares
  <2> HIDE DEF twice
  <2> QED
    BY <1>1, <2>1, <2>2, <2>3, SparesTwice
<1> QED
  BY <1>2, <1>3, <1>4

LEMMA FiltersSpare ==
  ASSUME NEW c, NEW r, Whole(r)
  PROVE  Spares(r, save_filters(c, r))
<1>1. \A fs : Spares(r, [r EXCEPT !.filters = fs])
  BY DEF Spares, Whole
<1>2. PICK fs : save_filters(c, r) = [setup_auth(c, [r EXCEPT !.filters = Append(@, "cors")]) EXCEPT !.filters = fs]
  BY DEF save_filters
<1> DEFINE cors == Append(r.filters, "cors")
           s == [r EXCEPT !.filters = cors]
           t == setup_auth(c, s)
<1>3. save_filters(c, r) = [t EXCEPT !.filters = fs]
  BY <1>2
<1>4. Spares(r, s)
  BY <1>1
<1> HIDE DEF s
<1>5. PICK services, filters, more :
        t = [s EXCEPT !.services = services, !.filters = filters, !.errors = @ \cup more]
  BY DEF setup_auth
<1>6. Spares(s, t)
  BY <1>4, <1>5 DEF Spares, Whole
<1> HIDE DEF t
<1>7. Spares(t, save_filters(c, r))
  BY <1>3, <1>6 DEF Spares, Whole
<1> QED
  BY <1>4, <1>6, <1>7, SparesTwice

LEMMA MappingSpares ==
  ASSUME NEW c, NEW r, NEW config, Whole(r)
  PROVE  Spares(r, load_mapping(c, r, config))
<1> DEFINE m == setup_mapping(c, r, config)
<1>1. load_mapping(c, r, config) = add_mapping(r, m)
  BY DEF load_mapping
<1> HIDE DEF m
<1>2. \/ add_mapping(r, m) = PostError(r, m.kind, m.name)
      \/ \E groups, more : add_mapping(r, m) = [r EXCEPT !.groups = groups, !.errors = @ \cup more]
  <2> DEFINE k == {i \in DOMAIN r.groups : r.groups[i].id = m.group_id}
             i == CHOOSE j \in k : TRUE
             there == \E x \in Range(r.groups[i].mappings) : x.name = m.name /\ x.ns = m.ns
             new(g) == IF g.errored THEN {<<m.kind, m.name>>} ELSE {}
             added == IF k = {} THEN group_add_mapping(NewGroup(m), m)
                      ELSE IF there THEN r.groups[i] ELSE group_add_mapping(r.groups[i], m)
             groups == IF k = {} THEN Append(r.groups, added) ELSE [r.groups EXCEPT ![i] = added]
             errors == r.errors \cup new(added) \cup IF m.errored THEN {<<m.kind, m.name>>} ELSE {}
  <2>1. add_mapping(r, m) = IF ~m.active THEN PostError(r, m.kind, m.name)
                            ELSE [r EXCEPT !.groups = groups, !.errors = errors]
    BY DEF add_mapping
  <2>2. r.errors \cup errors = errors
    OBVIOUS
  <2> HIDE DEF groups, errors
  <2>3. [r EXCEPT !.groups = groups, !.errors = errors] = [r EXCEPT !.groups = groups, !.errors = @ \cup errors]
    BY <2>2
  <2> QED
    BY <2>1, <2>3
<1>3. Spares(r, PostError(r, m.kind, m.name))
  BY ErrorSpares
<1>4. CASE \E groups, more : add_mapping(r, m) = [r EXCEPT !.groups = groups, !.errors = @ \cup more]
  <2>1. PICK groups, more : add_mapping(r, m) = [r EXCEPT !.groups = groups, !.errors = @ \cup more]
    BY <1>4
  <2>2. Spares(r, add_mapping(r, m))
    BY <2>1 DEF Spares, Whole
  <2> QED
    BY <1>1, <2>2
<1> QED
  BY <1>1, <1>2, <1>3, <1>4

LEMMA PortsSpare ==
  ASSUME NEW r, NEW g, Whole(r)
  PROVE  Spares(r, synthesize_listener(r, g)) /\ Spares(r, compress_names(r))
<1>1. ASSUME NEW config PROVE Spares(r, load_listener(r, config))
  <2> DEFINE l == setup_listener(config)
             s == IF l.errored \/ ~l.active THEN PostError(r, "Listener", l.name) ELSE r
  <2>1. Spares(r, s)
    <3> HIDE DEF l
    <3> QED
      BY ErrorSpares
  <2>2. load_listener(r, config) \in {s, save_listener(s, l)}
    BY DEF load_listener
  <2> HIDE DEF l, s
  <2>3. save_listener(s, l) \in {PostError(s, "ir", l.name), [s EXCEPT !.listeners = Append(@, l)]}
    BY DEF save_listener
  <2>4. Spares(s, PostError(s, "ir", l.name))
    BY <2>1, ErrorSpares DEF Spares
  <2>5. Spares(s, [s EXCEPT !.listeners = Append(@, l)])
    BY <2>1 DEF Spares, Whole
  <2> QED
    BY <2>1, <2>2, <2>3, <2>4, <2>5, SparesTwice
<1>2. PICK config : synthesize_listener(r, g) \in {r, load_listener(r, config)}
  <2> DEFINE config == [name |-> "listener-" \o ToString(g.port),
                        ns |-> AmbassadorNamespace, port |-> g.port,
                        protocol |-> IF g.host # <<>> THEN "TLS" ELSE "TCP",
                        protocolStack |-> <<>>, securityModel |-> "SECURE",
                        from |-> "SELF", selector |-> NoSelector, matchLabels |-> TRUE]
  <2>1. synthesize_listener(r, g) \in {r, load_listener(r, config)}
    BY Zenon DEF synthesize_listener
  <2> HIDE DEF config
  <2> QED
    BY <2>1
<1>3. PICK cs : compress_names(r) = [r EXCEPT !.clusters = cs]
  BY DEF compress_names
<1>4. Spares(r, compress_names(r))
  BY <1>3 DEF Spares, Whole
<1>5. Spares(r, r)
  BY ErrorSpares
<1> QED
  BY <1>1, <1>2, <1>4, <1>5

(* A cluster may need the context that is there for those without one. *)
LEMMA ContextLater ==
  ASSUME NEW r, Whole(r), IsSeq(r.ctxs), NEW ctx
  PROVE  Later(r, LoadContext(r, ctx))
<1> DEFINE ctxs == Append(r.ctxs, ctx)
           more == IF ctx.errored THEN {<<"TLSContext", ctx.name>>} ELSE {}
           new == AddContext(r, ctx)
           m == Len(new.ctxs)
<1>1. new = [r EXCEPT !.ctxs = ctxs, !.errors = @ \cup more]
  BY DEF AddContext
<1>2. /\ IsSeq(ctxs) /\ Len(r.ctxs) \in Nat /\ DOMAIN r.ctxs = 1 .. Len(r.ctxs)
      /\ DOMAIN ctxs = 1 .. Len(r.ctxs) + 1 /\ \A i \in 1 .. Len(r.ctxs) : ctxs[i] = r.ctxs[i]
  BY AppendFacts
<1>3. LoadContext(r, ctx) = IF ctx.active THEN save_tls_context(new, m) ELSE new
  BY DEF LoadContext
<1> HIDE DEF ctxs, more, new
<1>4. \A i \in DOMAIN r.ctxs : i \in DOMAIN ctxs /\ ctxs[i] = r.ctxs[i]
  BY <1>2
<1>5. Later(r, new)
  BY <1>1, <1>2, <1>4 DEF Later, Whole
<1> HIDE DEF m
<1>6. PICK rcf, others, contexts : save_tls_context(new, m)
        = [new EXCEPT !.rcf = rcf, !.errors = @ \cup others, !.tls_contexts = contexts]
  BY DEF save_tls_context
<1>7. Spares(new, save_tls_context(new, m))
  BY <1>5, <1>6 DEF Spares, Later, Whole
<1>8. Later(r, save_tls_context(new, m))
  BY <1>5, <1>7, SparesLater, LaterTwice DEF Later
<1> QED
  BY <1>3, <1>5, <1>8

LEMMA NoteLater ==
  ASSUME NEW r, Whole(r), IsSeq(r.ctxs), NEW x
  PROVE  Later(r, r) /\ Later(r, note_cluster(r, x)) /\ Later(r, add_cluster(r, x))
<1> DEFINE ctx == [setup_context("no-cert-upstream", AmbassadorNamespace, ContextFields) EXCEPT !.enabled = TRUE]
           s == IF x.ctx = -1 THEN null_context(r) ELSE r
           t == note_cluster(r, x)
           u == add_cluster(r, x)
<1>1. Later(r, r)
  BY DEF Later
<1>2. null_context(r) \in {r, LoadContext(r, ctx)}
  BY DEF null_context
<1> HIDE DEF ctx
<1>3. Later(r, s)
  BY <1>1, <1>2, ContextLater
<1>4. t \in {s, PostError(s, "Cluster", x.host)}
  BY DEF note_cluster
<1> HIDE DEF s
<1>5. Spares(s, PostError(s, "Cluster", x.host))
  BY <1>3, ErrorSpares DEF Later
<1>6. Later(r, PostError(s, "Cluster", x.host))
  BY <1>3, <1>5, SparesLater, LaterTwice DEF Later
<1>7. Later(r, t)
  BY <1>3, <1>4, <1>6
<1>8. \E clusters : u \in {t, [t EXCEPT !.clusters = clusters]}
  BY DEF add_cluster
<1> HIDE DEF t, u
<1>9. PICK clusters : u \in {t, [t EXCEPT !.clusters = clusters]}
  BY <1>8
<1>10. Later(t, u)
  BY <1>7, <1>9 DEF Later, Whole
<1>11. Later(r, u)
  BY <1>7, <1>10, LaterTwice
<1> QED
  BY <1>1, <1>7, <1>11 DEF t, u

LEMMA NotedLater ==
  ASSUME NEW r, Whole(r), IsSeq(r.ctxs), NEW s
  PROVE  Later(r, NoteClusters(r, s))
<1>1. PICK a : /\ a[0] = r /\ NoteClusters(r, s) = a[Len(s)]
               /\ \A i \in 1 .. Len(s) : a[i] = note_cluster(a[i - 1], s[i])
  BY NoteLoop
<1> DEFINE m == Len(s)
           T == {i \in 0 .. m : Later(r, a[i])}
<1>2. m \in Nat
  OBVIOUS
<1> HIDE DEF m
<1>3. 0 \in T
  BY <1>1, <1>2, NoteLater
<1>4. ASSUME NEW k \in 0 .. m, k < m, k \in T PROVE k + 1 \in T
  <2>1. k + 1 \in 1 .. m /\ (k + 1) - 1 = k /\ Later(r, a[k])
    BY <1>2, <1>4
  <2>2. a[k + 1] = note_cluster(a[k], s[k + 1])
    BY <1>1, <2>1 DEF m
  <2>3. Later(a[k], a[k + 1])
    BY <2>1, <2>2, NoteLater DEF Later
  <2>4. Later(r, a[k + 1])
    BY <2>1, <2>3, LaterTwice
  <2> QED
    BY <2>1, <2>4
<1>5. m \in T
  <2> HIDE DEF T
  <2> QED
    BY <1>2, <1>3, <1>4, AtLast
<1> QED
  BY <1>1, <1>5 DEF m

LEMMA AddedLater ==
  ASSUME NEW r, Whole(r), IsSeq(r.ctxs), NEW s
  PROVE  Later(r, AddClusters(r, s))
<1>1. PICK a : /\ a[0] = r /\ AddClusters(r, s) = a[Len(s)]
               /\ \A i \in 1 .. Len(s) : a[i] = add_cluster(a[i - 1], s[i])
  BY ClusterLoop
<1> DEFINE m == Len(s)
           T == {i \in 0 .. m : Later(r, a[i])}
<1>2. m \in Nat
  OBVIOUS
<1> HIDE DEF m
<1>3. 0 \in T
  BY <1>1, <1>2, NoteLater
<1>4. ASSUME NEW k \in 0 .. m, k < m, k \in T PROVE k + 1 \in T
  <2>1. k + 1 \in 1 .. m /\ (k + 1) - 1 = k /\ Later(r, a[k])
    BY <1>2, <1>4
  <2>2. a[k + 1] = add_cluster(a[k], s[k + 1])
    BY <1>1, <2>1 DEF m
  <2>3. Later(a[k], a[k + 1])
    BY <2>1, <2>2, NoteLater DEF Later
  <2>4. Later(r, a[k + 1])
    BY <2>1, <2>3, LaterTwice
  <2> QED
    BY <2>1, <2>4
<1>5. m \in T
  <2> HIDE DEF T
  <2> QED
    BY <1>2, <1>3, <1>4, AtLast
<1> QED
  BY <1>1, <1>5 DEF m

LEMMA ServiceLater ==
  ASSUME NEW c, NEW r, Whole(r), IsSeq(r.ctxs), NEW k
  PROVE  Later(r, add_service(c, r, k))
<1> DEFINE s == r.services[k]
           all == [i \in DOMAIN s.hosts |-> ServiceCluster(c, r, s, s.hosts[i])]
           done == MergeClusters(s.source, NoCluster, all)
           noted == [r EXCEPT !.errors = @ \cup done.errors]
           made == NoteClusters(noted, all)
           added == IF done.good THEN add_cluster(made, done.kept) ELSE made
           t == add_service(c, r, k)
<1>1. t = [added EXCEPT !.services[k].cluster = done.kept.name, !.services[k].broken = done.broken]
  BY DEF add_service, MergeClusters, NoteClusters
<1> HIDE DEF all, done
<1>2. Later(r, noted)
  BY DEF Later, Whole
<1> HIDE DEF noted
<1>3. Later(noted, made)
  BY <1>2, NotedLater DEF Later
<1> HIDE DEF made
<1>4. Later(r, made)
  BY <1>2, <1>3, LaterTwice
<1>5. Later(made, add_cluster(made, done.kept))
  BY <1>4, NoteLater DEF Later
<1>6. Later(r, added)
  BY <1>4, <1>5, LaterTwice
<1> HIDE DEF added, t
<1>7. \E services : t = [added EXCEPT !.services = services]
  <2> DEFINE services == [[added.services EXCEPT ![k].cluster = done.kept.name] EXCEPT ![k].broken = done.broken]
  <2>1. t = [added EXCEPT !.services = services]
    BY <1>1, <1>6 DEF Later, Whole
  <2> HIDE DEF services
  <2> QED
    BY <2>1
<1>8. PICK services : t = [added EXCEPT !.services = services]
  BY <1>7
<1>9. Later(added, t)
  BY <1>6, <1>8 DEF Later, Whole
<1> QED
  BY <1>6, <1>9, LaterTwice DEF t

LEMMA GroupLater ==
  ASSUME NEW c, NEW r, Whole(r), IsSeq(r.ctxs), NEW k
  PROVE  Later(r, finalize_group(c, r, k))
<1> DEFINE g == r.groups[k]
           withCluster(m, marker) == [m EXCEPT !.cluster = IRCluster(c, r, m, marker).name]
           ms == [i \in DOMAIN g.mappings |-> withCluster(g.mappings[i], g.mappings[i].tag)]
           sh == [i \in DOMAIN g.shadows |-> withCluster(g.shadows[i], "shadow")]
           normal == normalize_weights(ms)
           e == g.errored \/ ~normal.ok
           host == IF ms = <<>> \/ Last(ms).regex THEN g.host ELSE Last(ms).host
           regex == \E i \in DOMAIN ms : ms[i].host_regex
           redirect == IF g.host_redirect = <<>> \/ g.host_redirect[1].regex THEN <<>>
                       ELSE g.host_redirect[1].host
           labels == Loop(LAMBDA acc, m : Over(m.labels, acc), <<>>, ms)
           flat == [g EXCEPT !.mappings = normal.mappings, !.shadows = sh, !.errored = e, !.host = host,
                             !.regex = regex, !.redirectHost = redirect, !.labels = labels]
           first == [i \in DOMAIN g.shadows |-> IRCluster(c, r, g.shadows[i], "shadow")]
           second == [i \in DOMAIN g.mappings |-> IRCluster(c, r, g.mappings[i], g.mappings[i].tag)]
           clusters == first \o second
           more == IF normal.ok THEN {} ELSE {<<"group", g.name>>}
           groups == [r.groups EXCEPT ![k] = flat]
           at == [r EXCEPT !.groups = groups, !.errors = @ \cup more]
           t == finalize_group(c, r, k)
<1>1. t = AddClusters(at, clusters)
  BY Zenon DEF finalize_group, group_clusters, AddClusters
<1> HIDE DEF groups, clusters, more
<1>2. Later(r, at)
  BY DEF Later, Whole
<1> HIDE DEF at
<1>3. Later(at, t)
  BY <1>1, <1>2, AddedLater DEF Later
<1> QED
  BY <1>2, <1>3, LaterTwice DEF t

(* The Hosts of a listener are the IR's. *)
LEMMA HostsSorted ==
  ASSUME NEW r, IsSeq(r.hosts), \A h \in Range(r.hosts) : Sortable(h)
  PROVE  IsSeq(sorted_hosts(r)) /\ Range(sorted_hosts(r)) \subseteq Range(r.hosts)
<1> DEFINE S == DOMAIN r.hosts
           at(i) == IndexOf(HostnameOrder, r.hosts[i].hostname)
           R == {p \in S \X S : at(p[1]) < at(p[2]) \/ (at(p[1]) = at(p[2]) /\ p[1] < p[2])}
           ahead(i) == {j \in S : at(j) < at(i) \/ (at(j) = at(i) /\ j < i)}
           s == sorted_hosts(r)
<1>1. s = [k \in S |-> r.hosts[CHOOSE i \in S : 1 + Cardinality(ahead(i)) = k]]
  BY DEF sorted_hosts, Arrange
<1>2. Len(r.hosts) \in Nat /\ S = 1 .. Len(r.hosts)
  BY IsSeqFacts
<1>3. \A i \in S : at(i) \in Nat
  <2>1. IsSeq(HostnameOrder)
    BY SecretAssumption, SeqIsSeq
  <2>2. DOMAIN HostnameOrder = 1 .. Len(HostnameOrder) /\ Len(HostnameOrder) \in Nat
    BY <2>1, IsSeqFacts
  <2>3. ASSUME NEW i \in S PROVE at(i) \in DOMAIN HostnameOrder
    <3>1. r.hosts[i] \in Range(r.hosts)
      BY DEF Range
    <3>2. \E j \in DOMAIN HostnameOrder : HostnameOrder[j] = r.hosts[i].hostname
      BY <3>1 DEF Sortable, Range
    <3> QED
      BY <3>2 DEF IndexOf
  <2> QED
    BY <2>2, <2>3
<1>4. \A i \in S : {y \in S : <<y, i>> \in R} = ahead(i)
  OBVIOUS
<1> HIDE DEF at, s
<1>6. /\ \A x \in S : <<x, x>> \notin R
      /\ \A x, y \in S : x # y => <<x, y>> \in R \/ <<y, x>> \in R
      /\ \A x, y, z \in S : <<x, y>> \in R /\ <<y, z>> \in R => <<x, z>> \in R
  BY <1>2, <1>3
<1>7. IsFiniteSet(S) /\ Cardinality(S) = Len(r.hosts)
  <2>1. IsFiniteSet(1 .. Len(r.hosts)) /\ Cardinality(1 .. Len(r.hosts)) = Len(r.hosts)
    BY <1>2, FS_Interval
  <2> QED
    BY <1>2, <2>1
<1> HIDE DEF R
<1>8. \A k \in 1 .. Cardinality(S) : \E x \in S : 1 + Cardinality(ahead(x)) = k
  <2>1. /\ Cardinality(S) \in Nat
        /\ \A x \in S : 1 + Cardinality({y \in S : <<y, x>> \in R}) \in 1 .. Cardinality(S)
        /\ \A k \in 1 .. Cardinality(S) : \E x \in S : 1 + Cardinality({y \in S : <<y, x>> \in R}) = k
        /\ \A x, z \in S : Cardinality({y \in S : <<y, x>> \in R})
                              = Cardinality({y \in S : <<y, z>> \in R}) => x = z
        /\ \A x, z \in S : <<x, z>> \in R =>
             Cardinality({y \in S : <<y, x>> \in R}) < Cardinality({y \in S : <<y, z>> \in R})
    <3> HIDE DEF S
    <3> QED
      BY <1>6, <1>7, Ranks
  <2> HIDE DEF ahead, S
  <2> QED
    BY <1>4, <2>1
<1>9. \A k \in S : s[k] \in Range(r.hosts)
  <2> SUFFICES ASSUME NEW k \in S PROVE s[k] \in Range(r.hosts)
    OBVIOUS
  <2>1. \E i \in S : 1 + Cardinality(ahead(i)) = k
    BY <1>2, <1>7, <1>8
  <2> HIDE DEF ahead
  <2> DEFINE i == CHOOSE j \in S : 1 + Cardinality(ahead(j)) = k
  <2>2. i \in S
    BY <2>1
  <2>3. s[k] = r.hosts[i]
    BY <1>1
  <2> QED
    BY <2>2, <2>3 DEF Range
<1>10. DOMAIN s = S /\ s = [k \in 1 .. Len(r.hosts) |-> s[k]]
  BY <1>1, <1>2
<1>11. IsSeq(s)
  BY <1>2, <1>10, FunctionIsSeq
<1> QED
  BY <1>9, <1>10, <1>11 DEF Range, s

(* The Hosts on a chain that terminates TLS have its context, or another of   *)
(* its name.                                                                  *)
Owned(r, ch) ==
  ch.ctx # 0 /\ HttpChain(ch) =>
    /\ \E o \in Range(r.hosts) : o.context = ch.ctx /\ has_context(r, o)
    /\ \A x \in Range(ch.hosts) : /\ x.of \in Range(r.hosts) /\ has_context(r, x.of)
                                  /\ r.ctxs[x.of.context].name = r.ctxs[ch.ctx].name

LEMMA HostOwned ==
  ASSUME NEW r, NEW chain, GoodChain(chain), Owned(r, chain), NEW h \in Range(r.hosts),
         chain.ctx # 0 => chain.key = <<"tls", h.sni>>
  PROVE  Owned(r, add_httphost(r, chain, h).chain)
<1> DEFINE done == add_httphost(r, chain, h)
           refused == [chain |-> chain, errors |-> {<<"Host", h.name>>}]
           at == {k \in DOMAIN chain.hosts : chain.hosts[k].hostname = h.hostname}
           entry == [tcp |-> FALSE, hostname |-> h.hostname, of |-> h]
           new == IF at = {} THEN Append(chain.hosts, entry)
                  ELSE [chain.hosts EXCEPT ![CHOOSE k \in at : TRUE] = entry]
           names == IF chain.ctx # 0 THEN chain.server_names \cup {h.sni} ELSE chain.server_names
           routes == Put(chain.routes, h.hostname, <<>>)
           made == [chain EXCEPT !.server_names = names, !.routes = routes, !.hosts = new]
<1>1. \/ done = refused
      \/ /\ done = [chain |-> made, errors |-> {}] /\ ~\E x \in Range(chain.hosts) : x.tcp
         /\ chain.ctx # 0 => has_context(r, h) /\ r.ctxs[chain.ctx].name = r.ctxs[h.context].name
  BY DEF add_httphost
<1>2. CASE done = refused
  BY <1>2
<1>3. CASE /\ done = [chain |-> made, errors |-> {}] /\ ~\E x \in Range(chain.hosts) : x.tcp
           /\ chain.ctx # 0 => has_context(r, h) /\ r.ctxs[chain.ctx].name = r.ctxs[h.context].name
  <2>1. IsSeq(chain.hosts) /\ DOMAIN chain = {"key", "ctx", "hosts", "server_names", "routes"}
    BY DEF GoodChain
  <2>2. entry.hostname = h.hostname /\ entry.of = h
    OBVIOUS
  <2>3. new = WithEntry(chain.hosts, entry)
    BY DEF WithEntry
  <2> HIDE DEF entry, new, names, routes
  <2>4. Range(new) \subseteq Range(chain.hosts) \cup {entry}
    BY <2>1, <2>3, EntryFacts
  <2>5. made.ctx = chain.ctx /\ made.hosts = new
    BY <2>1
  <2>6. done.chain = made
    BY <1>3
  <2> HIDE DEF made, done
  <2>7. HttpChain(chain)
    BY <1>3 DEF HttpChain
  <2>8. Owned(r, made)
    BY <1>3, <2>2, <2>4, <2>5, <2>7 DEF Owned
  <2> QED
    BY <2>6, <2>8 DEF done
<1> QED
  BY <1>1, <1>2, <1>3

AllOwned(r, v) == Separated(v) /\ \A k \in DOMAIN v.chains : Owned(r, v.chains[k])

LEMMA OwnedOnChain ==
  ASSUME NEW r, NEW v, AllOwned(r, v), NEW type, NEW ctx, NEW h \in Range(r.hosts),
         (type = "https" /\ ctx # 0 /\ ctx = h.context /\ has_context(r, h)) \/ (type = "http" /\ ctx = 0)
  PROVE  AllOwned(r, OnChain(r, v, type, ctx, h))
<1> DEFINE key == ChainKey(type, ctx, h)
           chain == ChainAt(v, key, ctx)
           w == OnChain(r, v, type, ctx, h)
           k == PlaceOf(v, key)
<1>1. Separated(v) /\ ((type = "https" /\ ctx # 0) \/ (type = "http" /\ ctx = 0))
  BY DEF AllOwned
<1>2. Finds(r, v, ctx, h, key, chain, w)
  BY <1>1, ChainFound
<1>3. Separated(w)
  BY <1>1, HttpOnChain
<1> HIDE DEF w, key, chain
<1>4. Owned(r, chain)
  <2>1. CASE k \in DOMAIN v.chains
    BY <1>2, <2>1 DEF Finds, AllOwned
  <2>2. CASE k \notin DOMAIN v.chains
    <3>1. chain = NoChain(key, ctx)
      BY <1>2, <2>2 DEF Finds
    <3>2. chain.ctx = ctx /\ Range(chain.hosts) = {}
      BY <3>1, EmptyIsSeq DEF NoChain
    <3> QED
      BY <3>2 DEF Owned
  <2> QED
    BY <2>1, <2>2
<1> DEFINE new == add_httphost(r, chain, h).chain
<1>5. GoodChain(chain) /\ (chain.ctx # 0 => chain.key = <<"tls", h.sni>>) /\ chain.key = key
  BY <1>2 DEF Finds
<1>6. Owned(r, new)
  BY <1>4, <1>5, HostOwned
<1>7. GoodChain(new) /\ new.key = key
  <2>1. /\ GoodChain(new) /\ new.key = chain.key /\ new.ctx = chain.ctx
        /\ TcpChain(chain) => new = chain
        /\ \A x \in Range(chain.hosts) :
             x.hostname # h.hostname \/ x = HttpEntry(h) => x \in Range(new.hosts)
        /\ \/ <<"Host", h.name>> \in add_httphost(r, chain, h).errors
           \/ HttpEntry(h) \in Range(new.hosts)
    BY <1>5, HostAdded
  <2> QED
    BY <1>5, <2>1
<1>8. DOMAIN w = {"chains", "errors"} /\ w.chains = WithChain(v, key, new)
  BY <1>2 DEF Finds
<1> HIDE DEF new
<1>9. /\ DOMAIN w.chains = DOMAIN v.chains \cup {k}
      /\ \A j \in DOMAIN v.chains : j # k => w.chains[j] = v.chains[j]
      /\ w.chains[k] = new
  BY <1>1, <1>7, <1>8, PutChain
<1> HIDE DEF k
<1>10. AllOwned(r, w)
  BY <1>3, <1>6, <1>9 DEF AllOwned
<1> QED
  BY <1>10 DEF w

LEMMA OwnedOnListener ==
  ASSUME NEW r, NEW l, NEW v, AllOwned(r, v), NEW h \in Range(r.hosts)
  PROVE  AllOwned(r, add_host(r, l, v, h))
<1> DEFINE speaks == "TLS" \in Range(l.protocolStack) /\ has_context(r, h)
           deaf == l.securityModel = "INSECURE" /\ h.insecure = "Reject"
           secured == IF speaks THEN OnChain(r, v, "https", h.context, h) ELSE v
<1>1. add_host(r, l, v, h) = IF deaf THEN secured ELSE OnChain(r, secured, "http", 0, h)
  BY DEF add_host
<1>2. AllOwned(r, secured)
  <2>1. CASE speaks
    <3>1. h.context # 0 /\ has_context(r, h)
      BY <2>1 DEF has_context
    <3>2. AllOwned(r, OnChain(r, v, "https", h.context, h))
      BY <3>1, OwnedOnChain
    <3> QED
      BY <2>1, <3>2
  <2>2. CASE ~speaks
    BY <2>2
  <2> QED
    BY <2>1, <2>2
<1> HIDE DEF secured, deaf
<1>3. AllOwned(r, OnChain(r, secured, "http", 0, h))
  BY <1>2, OwnedOnChain
<1> QED
  BY <1>1, <1>2, <1>3

(* What is kept is some of what was there. *)
SomeOf(u, s, ks) == IsSeq(u) /\ \A x \in Range(u) : \E i \in ks : x = s[i]

LEMMA Kept ==
  ASSUME NEW s, IsSeq(s), NEW ks, ks \subseteq DOMAIN s
  PROVE  SomeOf(Keep(s, ks), s, ks)
<1> DEFINE u == Keep(s, ks)
           m == Len(s)
<1> HIDE DEF u
<1>1. m \in Nat /\ ks \in SUBSET (1 .. m)
  BY IsSeqFacts
<1> HIDE DEF m
<1>2. Picks(u, s, ks)
  BY <1>1, KeepPicks, Zenon DEF u
<1>3. PICK p \in [DOMAIN u -> ks] : \A a \in DOMAIN u : u[a] = s[p[a]]
  BY <1>2 DEF Picks
<1> QED
  BY <1>2, <1>3 DEF Picks, Range, SomeOf, u

LEMMA TcpOwned ==
  ASSUME NEW r, NEW v, Separated(v), \A k \in DOMAIN v.chains : TcpChain(v.chains[k])
  PROVE  AllOwned(r, v)
<1> SUFFICES ASSUME NEW k \in DOMAIN v.chains PROVE ~HttpChain(v.chains[k])
  BY DEF AllOwned, Owned
<1> DEFINE hosts == v.chains[k].hosts
<1>1. IsSeq(hosts) /\ hosts # <<>> /\ \A x \in Range(hosts) : x.tcp
  BY DEF Separated, GoodChain, TcpChain
<1> HIDE DEF hosts
<1>2. Len(hosts) \in Nat /\ DOMAIN hosts = 1 .. Len(hosts) /\ Len(hosts) # 0
  BY <1>1, IsSeqFacts, LenOfEmpty
<1>3. 1 \in DOMAIN hosts
  BY <1>2
<1>4. hosts[1] \in Range(hosts)
  BY <1>3 DEF Range
<1> QED
  BY <1>1, <1>4 DEF HttpChain, hosts

LEMMA ChainsOwned ==
  ASSUME NEW c, NEW r, IsSeq(r.hosts), \A h \in Range(r.hosts) : Sortable(h), NEW l
  PROVE  AllOwned(r, AllChains(c, r, l))
<1> DEFINE v0 == compute_tcpchains(r, l)
           all == sorted_hosts(r)
           ks == {i \in DOMAIN all : matches_host(c, l, all[i])}
           ours == Keep(all, ks)
<1>1. AllOwned(r, v0)
  BY TcpChainsSeparated, TcpOwned
<1>2. compute_httpchains(c, r, l, v0) = AddHosts(r, l, v0, ours)
  BY DEF compute_httpchains, AddHosts, Filter
<1> HIDE DEF v0
<1>3. IsSeq(all) /\ Range(all) \subseteq Range(r.hosts)
  BY HostsSorted
<1> HIDE DEF all
<1>4. Len(all) \in Nat /\ DOMAIN all = 1 .. Len(all) /\ ks \in SUBSET (1 .. Len(all))
  BY <1>3, IsSeqFacts
<1>5. IsSeq(ours) /\ \A x \in Range(ours) : \E i \in ks : x = all[i]
  <2>1. ks \subseteq DOMAIN all
    OBVIOUS
  <2> HIDE DEF ks
  <2>2. SomeOf(ours, all, ks)
    BY <1>3, <2>1, Kept
  <2> QED
    BY <2>2 DEF SomeOf
<1>6. Range(ours) \subseteq Range(r.hosts)
  <2>1. \A i \in ks : all[i] \in Range(all)
    BY DEF Range
  <2> HIDE DEF ks
  <2> QED
    BY <1>3, <1>5, <2>1
<1>7. Len(ours) \in Nat /\ DOMAIN ours = 1 .. Len(ours)
  BY <1>5, IsSeqFacts
<1> HIDE DEF ours
<1>8. PICK a : /\ a[0] = v0 /\ AddHosts(r, l, v0, ours) = a[Len(ours)]
               /\ \A i \in 1 .. Len(ours) : a[i] = add_host(r, l, a[i - 1], ours[i])
  BY HttpLoop
<1> DEFINE m == Len(ours)
           T == {i \in 0 .. m : AllOwned(r, a[i])}
<1>9. 0 \in T
  BY <1>1, <1>7, <1>8
<1>10. ASSUME NEW i \in 0 .. m, i < m, i \in T PROVE i + 1 \in T
  <2>1. i + 1 \in 1 .. m /\ (i + 1) - 1 = i /\ i + 1 \in 0 .. m /\ AllOwned(r, a[i])
    BY <1>7, <1>10
  <2>2. a[i + 1] = add_host(r, l, a[i], ours[i + 1])
    BY <1>8, <2>1
  <2>3. ours[i + 1] \in Range(r.hosts)
    BY <1>6, <1>7, <2>1 DEF Range
  <2>4. AllOwned(r, a[i + 1])
    BY <2>1, <2>2, <2>3, OwnedOnListener
  <2> QED
    BY <2>1, <2>4
<1>11. m \in T
  <2> HIDE DEF T
  <2> QED
    BY <1>7, <1>9, <1>10, AtLast
<1>12. AllOwned(r, compute_httpchains(c, r, l, v0))
  BY <1>2, <1>8, <1>11
<1> QED
  BY <1>1, <1>12 DEF AllChains, v0

(* A filter chain that terminates TLS for Hosts is a chain's. *)
Serves(r, fc, ch) ==
  /\ ch.ctx # 0 /\ ch.hosts # <<>> /\ ~ch.hosts[1].tcp
  /\ fc.socket = V3TLSContext(r, ch.ctx)
  /\ Range(fc.hosts) = {ch.hosts[k].of.name : k \in DOMAIN ch.hosts}

LEMMA HttpServes ==
  ASSUME NEW r, NEW l, NEW chains, IsSeq(chains)
  PROVE  /\ IsSeq(finalize_http(r, l, chains))
         /\ \A fc \in Range(finalize_http(r, l, chains)) :
              fc.tls => \E ch \in Range(chains) : Serves(r, fc, ch)
<1> DEFINE ks == {k \in DOMAIN chains : chains[k].hosts # <<>> /\ ~chains[k].hosts[1].tcp}
           http == Keep(chains, ks)
           js == {k \in DOMAIN http : http[k].ctx # 0}
           tls == Keep(http, js)
           clear == Keep(http, {k \in DOMAIN http : http[k].ctx = 0})
           made(ch) == [FilterChain(r, ch, TRUE) EXCEPT !.vhosts = VHosts(ch)]
           secured == [k \in DOMAIN tls |-> made(tls[k])]
           names == FlattenSeq([k \in DOMAIN clear |->
                      [j \in DOMAIN clear[k].hosts |-> clear[k].hosts[j].of.name]])
           vhosts == FlattenSeq([k \in DOMAIN clear |-> VHosts(clear[k])])
           shared == [FilterChain(r, NoChain(<<>>, 0), TRUE) EXCEPT !.hosts = names, !.vhosts = vhosts]
           rest == IF clear = <<>> \/ l.udp THEN <<>> ELSE <<shared>>
           fcs == finalize_http(r, l, chains)
<1>1. fcs = secured \o rest
  BY DEF finalize_http, Filter
<1>2. Len(chains) \in Nat /\ ks \in SUBSET (1 .. Len(chains)) /\ DOMAIN chains = 1 .. Len(chains)
  BY IsSeqFacts
<1>3. shared.tls = FALSE
  BY DEF FilterChain, NoChain
<1>4. ASSUME NEW ch, ch.ctx # 0, ch.hosts # <<>>, ~ch.hosts[1].tcp PROVE Serves(r, made(ch), ch)
  <2> DEFINE hosts == [k \in DOMAIN ch.hosts |-> ch.hosts[k].of.name]
  <2>1. made(ch).socket = V3TLSContext(r, ch.ctx) /\ made(ch).hosts = hosts
    BY DEF FilterChain
  <2>2. Range(hosts) = {ch.hosts[k].of.name : k \in DOMAIN ch.hosts}
    BY DEF Range
  <2> HIDE DEF hosts, made
  <2> QED
    BY <1>4, <2>1, <2>2 DEF Serves
<1> HIDE DEF fcs, shared, clear, made
<1>5. \A k \in ks : k \in DOMAIN chains /\ chains[k].hosts # <<>> /\ ~chains[k].hosts[1].tcp
  OBVIOUS
<1> HIDE DEF ks
<1>6. IsSeq(http) /\ \A x \in Range(http) : \E k \in ks : x = chains[k]
  <2>1. ks \subseteq DOMAIN chains
    BY <1>2
  <2>2. SomeOf(http, chains, ks)
    BY <2>1, Kept
  <2> HIDE DEF http
  <2> QED
    BY <2>2 DEF SomeOf
<1> HIDE DEF http
<1>7. Len(http) \in Nat /\ js \in SUBSET (1 .. Len(http)) /\ DOMAIN http = 1 .. Len(http)
  BY <1>6, IsSeqFacts
<1>8. \A k \in js : k \in DOMAIN http /\ http[k].ctx # 0
  OBVIOUS
<1> HIDE DEF js
<1>9. IsSeq(tls) /\ \A x \in Range(tls) : \E k \in js : x = http[k]
  <2>1. js \subseteq DOMAIN http
    BY <1>7
  <2>2. SomeOf(tls, http, js)
    BY <1>6, <2>1, Kept
  <2> HIDE DEF tls
  <2> QED
    BY <2>2 DEF SomeOf
<1> HIDE DEF tls
<1>10. \A ch \in Range(tls) : ch.ctx # 0 /\ ch \in Range(chains) /\ ch.hosts # <<>> /\ ~ch.hosts[1].tcp
  <2> SUFFICES ASSUME NEW ch \in Range(tls)
               PROVE  ch.ctx # 0 /\ ch \in Range(chains) /\ ch.hosts # <<>> /\ ~ch.hosts[1].tcp
    OBVIOUS
  <2>1. PICK j \in js : ch = http[j]
    BY <1>9
  <2>2. ch.ctx # 0 /\ ch \in Range(http)
    BY <1>8, <2>1 DEF Range
  <2>3. PICK k \in ks : ch = chains[k]
    BY <1>6, <2>2
  <2> QED
    BY <1>5, <2>2, <2>3 DEF Range
<1>11. DOMAIN tls = 1 .. Len(tls) /\ Len(tls) \in Nat
  BY <1>9, IsSeqFacts
<1>12. IsSeq(secured)
  <2>1. secured = [k \in 1 .. Len(tls) |-> secured[k]]
    BY <1>11
  <2> HIDE DEF secured
  <2> QED
    BY <1>11, <2>1, FunctionIsSeq
<1>13. \A fc \in Range(secured) : \E ch \in Range(chains) : Serves(r, fc, ch)
  <2> SUFFICES ASSUME NEW k \in DOMAIN tls PROVE \E ch \in Range(chains) : Serves(r, made(tls[k]), ch)
    BY DEF Range
  <2>1. tls[k] \in Range(tls)
    BY DEF Range
  <2> QED
    BY <1>4, <1>10, <2>1
<1> HIDE DEF secured
<1>14. IsSeq(rest) /\ \A x \in Range(rest) : x.tls = FALSE
  <2>1. IsSeq(<<>>) /\ Range(<<>>) = {}
    BY EmptyIsSeq
  <2>2. IsSeq(<<shared>>) /\ Range(<<shared>>) = {shared}
    BY SingletonIsSeq
  <2> QED
    BY <1>3, <2>1, <2>2
<1> HIDE DEF rest
<1>15. IsSeq(fcs) /\ Range(fcs) = Range(secured) \cup Range(rest)
  BY <1>1, <1>12, <1>14, ConcatFacts
<1> QED
  BY <1>13, <1>14, <1>15 DEF fcs

(* What the filter chains of a listener present. *)
Certified(r, fcs) ==
  \A fc \in Range(fcs) : \A h \in Range(r.hosts) :
    fc.tls /\ fc.http /\ h.name \in Range(fc.hosts) => fc.socket.cert = SecretOf(h) \/ ErrorFor(r, h)

LEMMA ServesCertified ==
  ASSUME NEW r, Certain(r), NEW ch, GoodChain(ch), Owned(r, ch), NEW fc, Serves(r, fc, ch),
         NEW h \in Range(r.hosts), h.name \in Range(fc.hosts)
  PROVE  fc.socket.cert = SecretOf(h) \/ ErrorFor(r, h)
<1> DEFINE hosts == ch.hosts
<1>1. /\ ch.ctx # 0 /\ hosts # <<>> /\ ~hosts[1].tcp /\ fc.socket = V3TLSContext(r, ch.ctx)
      /\ Range(fc.hosts) = {hosts[k].of.name : k \in DOMAIN hosts} /\ IsSeq(hosts)
  BY DEF Serves, GoodChain
<1>2. HttpChain(ch)
  <2> HIDE DEF hosts
  <2>1. Len(hosts) \in Nat /\ DOMAIN hosts = 1 .. Len(hosts) /\ Len(hosts) # 0
    BY <1>1, IsSeqFacts, LenOfEmpty
  <2>2. 1 \in DOMAIN hosts
    BY <2>1
  <2>3. hosts[1] \in Range(hosts)
    BY <2>2 DEF Range
  <2>4. ~TcpChain(ch)
    BY <1>1, <2>3 DEF TcpChain, hosts
  <2> QED
    BY <2>4 DEF GoodChain
<1>3. PICK o \in Range(r.hosts) : o.context = ch.ctx /\ has_context(r, o)
  BY <1>1, <1>2 DEF Owned
<1>4. PICK k \in DOMAIN hosts : hosts[k].of.name = h.name
  BY <1>1
<1>5. hosts[k] \in Range(hosts)
  BY <1>4 DEF Range
<1>6. /\ hosts[k].of \in Range(r.hosts) /\ has_context(r, hosts[k].of)
      /\ r.ctxs[hosts[k].of.context].name = r.ctxs[ch.ctx].name
  BY <1>1, <1>2, <1>5 DEF Owned
<1>7. hosts[k].of = h
  BY <1>4, <1>6 DEF Certain
<1>8. h.context # 0 /\ o.context # 0 /\ r.ctxs[h.context].name = r.ctxs[o.context].name
  BY <1>3, <1>6, <1>7 DEF has_context
<1>9. r.ctxs[o.context].errored \/ r.ctxs[o.context].cert = SecretOf(h) \/ ErrorFor(r, h)
  BY <1>8 DEF Certain
<1>10. truthy(r.ctxs[o.context])
  BY <1>3 DEF has_context
<1>11. ~r.ctxs[o.context].errored
  BY <1>10 DEF truthy
<1>12. fc.socket.cert = r.ctxs[o.context].cert
  BY <1>1, <1>3, <1>10 DEF V3TLSContext
<1> QED
  BY <1>9, <1>11, <1>12

LEMMA ListenerCertified ==
  ASSUME NEW c, NEW r, Certain(r), NEW l, NEW routes
  PROVE  Certified(r, FilterChains(c, r, l, routes))
<1> DEFINE v == AllChains(c, r, l)
           routed == Routed(c, r, l, routes)
           tcp == finalize_tcp(r, compute_tcpchains(r, l).chains)
           made == finalize_http(r, l, routed)
           http == IF "HTTP" \in Range(l.protocolStack) THEN made ELSE <<>>
           fcs == FilterChains(c, r, l, routes)
<1>1. fcs = tcp \o http
  BY DEF FilterChains
<1>2. AllOwned(r, v)
  BY ChainsOwned DEF Certain
<1>3. /\ IsSeq(routed) /\ DOMAIN routed = DOMAIN v.chains
      /\ \A k \in DOMAIN v.chains : routed[k].ctx = v.chains[k].ctx /\ routed[k].hosts = v.chains[k].hosts
  BY RoutedFacts
<1>4. IsSeq(tcp) /\ \A i \in DOMAIN tcp : ~tcp[i].http
  <2>1. IsSeq(compute_tcpchains(r, l).chains)
        /\ \A k \in DOMAIN compute_tcpchains(r, l).chains : TcpChain(compute_tcpchains(r, l).chains[k])
    BY TcpChainsSeparated DEF Separated
  <2> QED
    BY <2>1, TcpFilterChains
<1> HIDE DEF v, routed, tcp
<1>5. IsSeq(made) /\ \A fc \in Range(made) : fc.tls => \E ch \in Range(routed) : Serves(r, fc, ch)
  BY <1>3, HttpServes
<1> HIDE DEF made
<1>6. IsSeq(http) /\ Range(http) \subseteq Range(made)
  BY <1>5, EmptyIsSeq
<1> HIDE DEF http
<1>7. Range(fcs) = Range(tcp) \cup Range(http)
  <2>1. Joins(fcs, tcp, http)
    BY <1>1, <1>4, <1>6, Concatenated, Zenon
  <2> QED
    BY <2>1 DEF Joins
<1> HIDE DEF fcs
<1>8. ASSUME NEW fc \in Range(fcs), NEW h \in Range(r.hosts), fc.tls, fc.http, h.name \in Range(fc.hosts)
      PROVE  fc.socket.cert = SecretOf(h) \/ ErrorFor(r, h)
  <2>1. fc \in Range(made)
    BY <1>4, <1>6, <1>7, <1>8 DEF Range
  <2>2. PICK ch \in Range(routed) : Serves(r, fc, ch)
    BY <1>5, <1>8, <2>1
  <2>3. PICK k \in DOMAIN v.chains : ch = routed[k]
    BY <1>3 DEF Range
  <2> DEFINE d == v.chains[k]
  <2>4. GoodChain(d) /\ Owned(r, d) /\ ch.ctx = d.ctx /\ ch.hosts = d.hosts
    BY <1>2, <1>3, <2>3 DEF AllOwned, Separated
  <2> HIDE DEF d
  <2>5. Serves(r, fc, d)
    BY <2>2, <2>4 DEF Serves
  <2> QED
    BY <1>8, <2>4, <2>5, ServesCertified
<1>9. Certified(r, fcs)
  BY <1>8 DEF Certified
<1> QED
  BY <1>9 DEF fcs

LEMMA CertifiedKept ==
  ASSUME NEW r, NEW s, s.hosts = r.hosts, r.errors \subseteq s.errors, NEW fcs, Certified(r, fcs)
  PROVE  Certified(s, fcs)
BY DEF Certified, ErrorFor

-----------------------------------------------------------------------------
(* ChainsCertified: the invariant of the phases. *)

HostPhases == {"tls", "contexts", "listeners", "http3", "hosts", "finalize_hosts"}

RestPhases ==
  {"module", "resolvers", "tracing", "logs", "filters", "mappings", "services", "groups", "ports",
   "finish", "routes"}

Certifying(p, k, c, r) ==
  /\ p \in HostPhases => Prepared(c, r)
  /\ p = "resolve" => Resolving(c, r, k)
  /\ p \in RestPhases \cup ListenerPhases => Certain(r)

CertInv ==
  /\ phase = "idle" => ir = EmptyIR
  /\ phase # "idle" /\ Unambiguous(aconf) => Certifying(phase, n, aconf, ir)
  /\ phase \in ListenerPhases /\ Unambiguous(aconf) =>
       \A x \in Range(envoy.listeners) : Certified(ir, x.filter_chains)

LEMMA EmptyPrepared ==
  ASSUME NEW c
  PROVE  Prepared(c, EmptyIR)
<1>1. /\ Whole(EmptyIR) /\ EmptyIR.ctxs = <<>> /\ EmptyIR.tls_contexts = <<>> /\ EmptyIR.saved = <<>>
      /\ EmptyIR.hosts = <<>>
  BY DEF EmptyIR, Whole
<1> DEFINE r == EmptyIR
<1> HIDE DEF r
<1>2. IsSeq(<<>>) /\ DOMAIN <<>> = {}
  BY EmptyIsSeq
<1>3. /\ Whole(r) /\ IsSeq(r.ctxs) /\ IsSeq(r.tls_contexts) /\ IsSeq(r.hosts)
      /\ DOMAIN r.ctxs = {} /\ DOMAIN r.tls_contexts = {} /\ DOMAIN r.saved = {} /\ DOMAIN r.hosts = {}
  BY <1>1, <1>2 DEF r
<1>4. Prepared(c, r)
  BY <1>3 DEF Prepared, Known, Saved, Fresh, Hosted
<1> QED
  BY <1>4 DEF r

LEMMA ElementThere ==
  ASSUME NEW s, IsSeq(s), NEW k \in Nat, k < Len(s)
  PROVE  s[k + 1] \in Range(s)
<1>1. Len(s) \in Nat /\ DOMAIN s = 1 .. Len(s)
  BY IsSeqFacts
<1>2. k + 1 \in DOMAIN s
  BY <1>1
<1> QED
  BY <1>2 DEF Range

(* The Hosts are prepared ... *)
LEMMA HostPhaseStep ==
  ASSUME FilterInv, CertInv, Unambiguous(aconf),
         LoadTLSModule \/ LoadTLSContext \/ LoadListener \/ AdvertiseHTTP3 \/ LoadHost
  PROVE  /\ phase \in HostPhases /\ phase' \in HostPhases /\ UNCHANGED aconf
         /\ Prepared(aconf, ir')
<1>1. /\ phase \in HostPhases /\ phase' \in HostPhases /\ UNCHANGED aconf
      /\ \/ ir' \in {ir, load_tls_module(aconf, ir), advertise_http3(ir)}
         \/ \E x : ir' = load_listener(ir, x)
         \/ n < Len(aconf.tls_contexts) /\ ir' = load_tls_context(ir, aconf.tls_contexts[n + 1])
         \/ n < Len(aconf.hosts) /\ ir' = load_host(aconf, ir, aconf.hosts[n + 1])
  <2>1. CASE LoadTLSModule \/ AdvertiseHTTP3
    BY <2>1 DEF LoadTLSModule, AdvertiseHTTP3, Phase, HostPhases
  <2>2. CASE LoadTLSContext \/ LoadListener
    BY <2>2 DEF LoadTLSContext, LoadListener, Each, HostPhases
  <2>3. CASE LoadHost
    BY <2>3 DEF LoadHost, Each, HostPhases
  <2> QED
    BY <2>1, <2>2, <2>3
<1>2. phase # "idle"
  BY <1>1 DEF HostPhases
<1>3. aconf \in Configs /\ n \in Nat /\ Prepared(aconf, ir)
  BY <1>1, <1>2 DEF FilterInv, CertInv, Certifying
<1>4. Dotless(aconf) /\ OneNamespace(aconf)
  BY <1>3, DotlessConfig DEF Unambiguous
<1>5. Whole(ir) /\ Saved(ir) /\ Known(aconf, ir) /\ Fresh(ir)
  BY <1>3 DEF Prepared, Known
<1>6. aconf.tls_contexts \in Seq(Range(aconf.tls_contexts)) /\ aconf.hosts \in Seq(Range(aconf.hosts))
  BY <1>3, SecretAssumption
<1>7. IsSeq(aconf.tls_contexts) /\ IsSeq(aconf.hosts)
  BY <1>6, SeqIsSeq
<1>8. CASE ir' = load_tls_module(aconf, ir)
  <2>1. Known(aconf, ir') /\ Fresh(ir') /\ Grows(ir, ir') /\ ir'.hosts = ir.hosts
    BY <1>3, <1>5, <1>8, ModuleContext
  <2>2. Prepared(aconf, ir')
    BY <1>3, <2>1, GrownPrepared
  <2> QED
    BY <1>1, <2>2
<1>9. Prepared(aconf, advertise_http3(ir)) /\ \A x : Prepared(aconf, load_listener(ir, x))
  BY <1>3, <1>5, ListenerNotes, NotedPrepared
<1>10. CASE n < Len(aconf.tls_contexts) /\ ir' = load_tls_context(ir, aconf.tls_contexts[n + 1])
  <2>1. aconf.tls_contexts[n + 1] \in Range(aconf.tls_contexts)
    BY <1>3, <1>7, <1>10, ElementThere
  <2>2. Known(aconf, ir') /\ Fresh(ir') /\ Grows(ir, ir') /\ ir'.hosts = ir.hosts
    BY <1>3, <1>5, <1>10, <2>1, TLSContextLoaded
  <2>3. Prepared(aconf, ir')
    BY <1>3, <2>2, GrownPrepared
  <2> QED
    BY <1>1, <2>3
<1>11. CASE n < Len(aconf.hosts) /\ ir' = load_host(aconf, ir, aconf.hosts[n + 1])
  <2>1. aconf.hosts[n + 1] \in Range(aconf.hosts)
    BY <1>3, <1>7, <1>11, ElementThere
  <2>2. Fit(aconf, aconf.hosts[n + 1])
    BY <1>3, <2>1, ConfiguredFits
  <2>3. Prepared(aconf, ir')
    BY <1>3, <1>4, <1>11, <2>2, HostLoaded
  <2> QED
    BY <1>1, <2>3
<1> QED
  BY <1>1, <1>3, <1>8, <1>9, <1>10, <1>11

(* ... their contexts are resolved ... *)
LEMMA ResolveStep ==
  ASSUME FilterInv, CertInv, Unambiguous(aconf), FinalizeHosts \/ ResolveContext
  PROVE  Certifying(phase', n', aconf', ir') /\ phase' \in {"resolve", "module"}
<1>1. CASE FinalizeHosts
  <2>1. /\ phase = "finalize_hosts" /\ phase' = "resolve" /\ n' = 0 /\ aconf' = aconf
        /\ ir' = finalize_hosts(aconf, ir)
    BY <1>1 DEF FinalizeHosts, Phase
  <2>2. aconf \in Configs /\ Prepared(aconf, ir)
    BY <2>1 DEF FilterInv, CertInv, Certifying, HostPhases
  <2>3. Dotless(aconf) /\ OneNamespace(aconf)
    BY <2>2, DotlessConfig DEF Unambiguous
  <2>4. Prepared(aconf, ir')
    BY <2>1, <2>2, <2>3, HostsFinalized
  <2>5. Resolving(aconf, ir', 0)
    <3>1. Known(aconf, ir') /\ Hosted(aconf, ir') /\ IsSeq(ir'.tls_contexts)
      BY <2>4 DEF Prepared, Known
    <3>2. \A j \in DOMAIN ir'.tls_contexts : ~(j <= 0)
      BY <3>1, IsSeqFacts
    <3> QED
      BY <3>1, <3>2 DEF Resolving
  <2> QED
    BY <2>1, <2>5 DEF Certifying, HostPhases, RestPhases, ListenerPhases
<1>2. CASE ResolveContext
  <2>1. /\ phase = "resolve" /\ aconf' = aconf
        /\ \/ /\ n < Len(ir.tls_contexts) /\ n' = n + 1 /\ phase' = "resolve"
              /\ ir' = resolve_tls_context(aconf, ir, ir.tls_contexts[n + 1])
           \/ ~(n < Len(ir.tls_contexts)) /\ phase' = "module" /\ ir' = ir
    BY <1>2 DEF ResolveContext, Each
  <2>2. aconf \in Configs /\ n \in Nat /\ Resolving(aconf, ir, n)
    BY <2>1 DEF FilterInv, CertInv, Certifying
  <2>3. Dotless(aconf)
    BY <2>2, DotlessConfig DEF Unambiguous
  <2>4. CASE /\ n < Len(ir.tls_contexts) /\ n' = n + 1 /\ phase' = "resolve"
             /\ ir' = resolve_tls_context(aconf, ir, ir.tls_contexts[n + 1])
    <3>1. Resolving(aconf, ir', n')
      BY <2>2, <2>3, <2>4, ResolvesNext
    <3> QED
      BY <2>1, <2>4, <3>1 DEF Certifying, HostPhases, RestPhases, ListenerPhases
  <2>5. CASE ~(n < Len(ir.tls_contexts)) /\ phase' = "module" /\ ir' = ir
    <3>1. Certain(ir')
      BY <2>2, <2>5, AllResolved
    <3> QED
      BY <2>1, <2>5, <3>1 DEF Certifying, HostPhases, RestPhases
  <2> QED
    BY <2>1, <2>4, <2>5
<1> QED
  BY <1>1, <1>2

(* ... and stay what they are until the IR is complete. *)
LEMMA RestStep ==
  ASSUME FilterInv, CertInv, Unambiguous(aconf),
         \/ FinalizeModule \/ LoadResolvers \/ SetupServices \/ LoadLogService \/ SaveFilters \/ LoadMapping
         \/ AddService \/ FinalizeGroup \/ FinalizeListener \/ FinishIR
  PROVE  Certain(ir') /\ UNCHANGED aconf /\ phase' \in RestPhases \cup {"failed"}
<1>1. /\ phase \in RestPhases /\ UNCHANGED aconf /\ phase' \in RestPhases \cup {"failed"}
      /\ \/ ir' \in {ir, finalize_module(aconf, drop_tls_contexts(ir)), load_resolvers(aconf, ir),
                     setup_ratelimit(aconf, setup_tracing(aconf, ir)), save_filters(aconf, ir),
                     compress_names(ir)}
         \/ \E x : ir' \in {load_log_service(ir, x), load_mapping(aconf, ir, x), add_service(aconf, ir, x),
                            finalize_group(aconf, ir, x), synthesize_listener(ir, x)}
  <2>1. CASE FinalizeModule \/ LoadResolvers \/ SetupServices \/ SaveFilters
    BY <2>1 DEF FinalizeModule, LoadResolvers, SetupServices, SaveFilters, Phase, RestPhases
  <2>2. CASE FinishIR
    BY <2>2 DEF FinishIR, Phase, RestPhases
  <2>3. CASE LoadLogService \/ LoadMapping
    BY <2>3 DEF LoadLogService, LoadMapping, Each, RestPhases
  <2>4. CASE AddService \/ FinalizeGroup
    BY <2>4 DEF AddService, FinalizeGroup, Each, RestPhases
  <2>5. CASE FinalizeListener
    BY <2>5 DEF FinalizeListener, Each, Filter, RestPhases
  <2> QED
    BY <2>1, <2>2, <2>3, <2>4, <2>5
<1>2. phase # "idle"
  BY <1>1 DEF RestPhases
<1>3. Whole(ir) /\ Certain(ir)
  BY <1>1, <1>2 DEF FilterInv, CertInv, Certifying
<1>4. IsSeq(ir.ctxs)
  BY <1>3 DEF Certain
<1>5. Later(ir, ir)
  BY <1>3, <1>4 DEF Later
<1>6. /\ Spares(ir, finalize_module(aconf, drop_tls_contexts(ir))) /\ Spares(ir, load_resolvers(aconf, ir))
      /\ Spares(ir, save_filters(aconf, ir)) /\ Spares(ir, compress_names(ir))
      /\ \A x : /\ Spares(ir, load_log_service(ir, x)) /\ Spares(ir, load_mapping(aconf, ir, x))
                /\ Spares(ir, synthesize_listener(ir, x))
  BY <1>3, ModuleSpares, FiltersSpare, PortsSpare, ServicesSpare, MappingSpares
<1>7. Spares(ir, setup_ratelimit(aconf, setup_tracing(aconf, ir)))
  <2> DEFINE s == setup_tracing(aconf, ir)
  <2>1. Spares(ir, s)
    BY <1>3, ServicesSpare
  <2> HIDE DEF s
  <2>2. Spares(s, setup_ratelimit(aconf, s))
    BY <2>1, ServicesSpare DEF Spares
  <2> QED
    BY <2>1, <2>2, SparesTwice DEF s
<1>8. \A x : Later(ir, add_service(aconf, ir, x)) /\ Later(ir, finalize_group(aconf, ir, x))
  BY <1>3, <1>4, ServiceLater, GroupLater
<1>9. Spares(ir, ir') => Later(ir, ir')
  BY <1>4, SparesLater
<1>10. Later(ir, ir')
  BY <1>1, <1>5, <1>6, <1>7, <1>8, <1>9
<1>11. Certain(ir')
  BY <1>3, <1>10, LaterCertain
<1> QED
  BY <1>1, <1>11

(* Every listener is made with the certificates of its Hosts. *)
LEMMA ListenersStep ==
  ASSUME FilterInv, CertInv, Unambiguous(aconf), GenerateRoutes \/ GenerateListener \/ GenerateClusters
  PROVE  /\ Certain(ir') /\ UNCHANGED aconf /\ phase' \in ListenerPhases
         /\ \A x \in Range(envoy'.listeners) : Certified(ir', x.filter_chains)
<1>1. CASE GenerateRoutes
  <2>1. phase = "routes" /\ phase' = "v3listeners" /\ UNCHANGED <<aconf, ir>>
        /\ envoy' = [envoy EXCEPT !.routes = generate_routes(ir)]
    BY <1>1 DEF GenerateRoutes
  <2>2. Certain(ir) /\ envoy.listeners = <<>> /\ DOMAIN envoy = {"routes", "listeners", "clusters"}
    BY <2>1 DEF FilterInv, CertInv, Certifying, RestPhases, ListenerPhases
  <2>3. Range(envoy'.listeners) = {}
    BY <2>1, <2>2, EmptyIsSeq
  <2> QED
    BY <2>1, <2>2, <2>3 DEF ListenerPhases
<1>2. CASE GenerateClusters
  <2>1. phase = "v3clusters" /\ phase' = "done" /\ UNCHANGED <<aconf, ir>>
        /\ envoy' = [envoy EXCEPT !.clusters = generate_clusters(aconf, ir)]
    BY <1>2 DEF GenerateClusters
  <2>2. Certain(ir) /\ DOMAIN envoy = {"routes", "listeners", "clusters"}
        /\ \A x \in Range(envoy.listeners) : Certified(ir, x.filter_chains)
    BY <2>1 DEF FilterInv, CertInv, Certifying, ListenerPhases
  <2>3. envoy'.listeners = envoy.listeners
    BY <2>1, <2>2
  <2> QED
    BY <2>1, <2>2, <2>3 DEF ListenerPhases
<1>3. CASE GenerateListener
  <2>0. /\ phase = "v3listeners" /\ aconf' = aconf /\ Whole(ir) /\ Certain(ir)
        /\ DOMAIN envoy = {"routes", "listeners", "clusters"} /\ IsSeq(envoy.listeners)
        /\ \A x \in Range(envoy.listeners) : Certified(ir, x.filter_chains)
    BY <1>3 DEF GenerateListener, FilterInv, CertInv, Certifying, ListenerPhases
  <2>1. CASE n < Len(ir.listeners)
    <3> DEFINE l == ir.listeners[n + 1]
               fcs == FilterChains(aconf, ir, l, envoy.routes)
               x == [NewListener(ir, l) EXCEPT !.filter_chains = fcs]
               made == generate_listener(aconf, ir, envoy, l)
               more == AllChains(aconf, ir, l).errors \cup IF fcs = <<>> THEN {<<"Listener", l.name>>} ELSE {}
               new == Append(envoy.listeners, x)
    <3>1. phase' = phase /\ ir' = made.ir /\ envoy' = made.envoy
      BY <1>3, <2>1 DEF GenerateListener
    <3>2. made = [ir |-> [ir EXCEPT !.errors = @ \cup more],
                  envoy |-> IF fcs = <<>> THEN envoy ELSE [envoy EXCEPT !.listeners = Append(@, x)]]
      BY ListenerGenerated
    <3>3. x.filter_chains = fcs
      BY DEF NewListener
    <3>4. Certified(ir, fcs)
      BY <2>0, ListenerCertified
    <3> HIDE DEF l, fcs, x, more, made
    <3>5. Range(new) = Range(envoy.listeners) \cup {x}
      BY <2>0, AppendFacts
    <3>6. ir' = [ir EXCEPT !.errors = @ \cup more]
          /\ envoy' = IF fcs = <<>> THEN envoy ELSE [envoy EXCEPT !.listeners = new]
      BY <3>1, <3>2
    <3> HIDE DEF new
    <3>7. Spares(ir, ir')
      BY <2>0, <3>6 DEF Spares, Whole
    <3>8. Certain(ir')
      BY <2>0, <3>7, SparesLater, LaterCertain DEF Certain
    <3>9. Range(envoy'.listeners) \subseteq Range(envoy.listeners) \cup {x}
      BY <2>0, <3>5, <3>6
    <3>10. \A y \in Range(envoy'.listeners) : Certified(ir, y.filter_chains)
      BY <2>0, <3>3, <3>4, <3>9
    <3>11. \A y \in Range(envoy'.listeners) : Certified(ir', y.filter_chains)
      BY <3>7, <3>10, CertifiedKept DEF Spares
    <3> QED
      BY <2>0, <3>1, <3>8, <3>11 DEF ListenerPhases
  <2>2. CASE ~(n < Len(ir.listeners))
    <3>1. phase' = "v3clusters" /\ UNCHANGED <<ir, envoy, aconf>>
      BY <1>3, <2>2 DEF GenerateListener
    <3> QED
      BY <2>0, <3>1 DEF ListenerPhases
  <2> QED
    BY <2>1, <2>2
<1> QED
  BY <1>1, <1>2, <1>3

LEMMA CertStep ==
  ASSUME FilterInv, CertInv, [Next]_vars
  PROVE  CertInv'
<1>1. CASE Start
  <2>1. phase = "idle" /\ phase' = "tls" /\ ir' = ir
    BY <1>1 DEF Start
  <2>2. Prepared(aconf', ir')
    BY <2>1, EmptyPrepared DEF CertInv
  <2>3. Certifying(phase', n', aconf', ir')
    BY <2>1, <2>2 DEF Certifying, RestPhases, ListenerPhases
  <2> QED
    BY <2>1, <2>3 DEF CertInv, ListenerPhases
<1>2. CASE Discard
  <2>1. phase' = "idle" /\ ir' = EmptyIR
    BY <1>2 DEF Discard
  <2> QED
    BY <2>1 DEF CertInv, ListenerPhases
<1>3. CASE FailListener
  <2>1. phase' = "failed"
    BY <1>3 DEF FailListener
  <2>2. Certifying(phase', n', aconf', ir')
    BY <2>1 DEF Certifying, HostPhases, RestPhases, ListenerPhases
  <2> QED
    BY <2>1, <2>2 DEF CertInv, ListenerPhases
<1>4. CASE UNCHANGED vars
  <2>1. Certifying(phase', n', aconf', ir') <=> Certifying(phase, n, aconf, ir)
    BY <1>4 DEF vars
  <2> QED
    BY <1>4, <2>1 DEF CertInv, vars
<1>5. CASE LoadTLSModule \/ LoadTLSContext \/ LoadListener \/ AdvertiseHTTP3 \/ LoadHost
  <2>1. phase' \in HostPhases /\ aconf' = aconf
    <3>1. CASE LoadTLSModule \/ AdvertiseHTTP3
      BY <3>1 DEF LoadTLSModule, AdvertiseHTTP3, Phase, HostPhases
    <3>2. CASE LoadTLSContext \/ LoadListener
      BY <3>2 DEF LoadTLSContext, LoadListener, Each, HostPhases
    <3>3. CASE LoadHost
      BY <3>3 DEF LoadHost, Each, HostPhases
    <3> QED
      BY <1>5, <3>1, <3>2, <3>3
  <2>2. ASSUME Unambiguous(aconf) PROVE Certifying(phase', n', aconf', ir')
    <3>1. Prepared(aconf, ir')
      BY <1>5, <2>2, HostPhaseStep
    <3> QED
      BY <2>1, <3>1 DEF Certifying, HostPhases, RestPhases, ListenerPhases
  <2> QED
    BY <2>1, <2>2 DEF CertInv, HostPhases, ListenerPhases
<1>6. CASE FinalizeHosts \/ ResolveContext
  <2>1. phase' \in {"resolve", "module"} /\ aconf' = aconf
    BY <1>6 DEF FinalizeHosts, ResolveContext, Phase, Each
  <2>2. ASSUME Unambiguous(aconf) PROVE Certifying(phase', n', aconf', ir')
    BY <1>6, <2>2, ResolveStep
  <2> QED
    BY <2>1, <2>2 DEF CertInv, ListenerPhases
<1>7. CASE \/ FinalizeModule \/ LoadResolvers \/ SetupServices \/ LoadLogService \/ SaveFilters \/ LoadMapping
           \/ AddService \/ FinalizeGroup \/ FinalizeListener \/ FinishIR
  <2>1. phase' \in RestPhases \cup {"failed"} /\ aconf' = aconf
    <3>1. CASE FinalizeModule \/ LoadResolvers \/ SetupServices \/ SaveFilters
      BY <3>1 DEF FinalizeModule, LoadResolvers, SetupServices, SaveFilters, Phase, RestPhases
    <3>2. CASE FinishIR
      BY <3>2 DEF FinishIR, Phase, RestPhases
    <3>3. CASE LoadLogService \/ LoadMapping
      BY <3>3 DEF LoadLogService, LoadMapping, Each, RestPhases
    <3>4. CASE AddService \/ FinalizeGroup \/ FinalizeListener
      BY <3>4 DEF AddService, FinalizeGroup, FinalizeListener, Each, RestPhases
    <3> QED
      BY <1>7, <3>1, <3>2, <3>3, <3>4
  <2>2. ASSUME Unambiguous(aconf) PROVE Certifying(phase', n', aconf', ir')
    <3>1. Certain(ir')
      BY <1>7, <2>2, RestStep
    <3> QED
      BY <2>1, <3>1 DEF Certifying, HostPhases, RestPhases
  <2> QED
    BY <2>1, <2>2 DEF CertInv, RestPhases, ListenerPhases
<1>8. CASE GenerateRoutes \/ GenerateListener \/ GenerateClusters
  <2>1. phase' \in ListenerPhases /\ aconf' = aconf
    BY <1>8 DEF GenerateRoutes, GenerateListener, GenerateClusters, ListenerPhases
  <2>2. ASSUME Unambiguous(aconf)
        PROVE  /\ Certifying(phase', n', aconf', ir')
               /\ \A x \in Range(envoy'.listeners) : Certified(ir', x.filter_chains)
    <3>1. Certain(ir') /\ \A x \in Range(envoy'.listeners) : Certified(ir', x.filter_chains)
      BY <1>8, <2>2, ListenersStep
    <3> QED
      BY <2>1, <3>1 DEF Certifying, HostPhases, ListenerPhases
  <2> QED
    BY <2>1, <2>2 DEF CertInv, ListenerPhases
<1> QED
  BY <1>1, <1>2, <1>3, <1>4, <1>5, <1>6, <1>7, <1>8 DEF Next

(* Where Secrets' names have no dots and whoever uses a TLSContext is in its
   namespace, every filter chain that terminates TLS for a Host presents the
   certificate of the Secret that the Host names, or an error about the Host or
   its TLSContext was reported (irhost.py setup and save_context,
   irtlscontext.py resolve, v3listener.py finalize_http). *)
THEOREM ChainsAlwaysCertified == Spec => []ChainsCertified
<1>1. Init => FilterInv /\ CertInv
  <2>1. Init => CertInv
    BY DEF Init, CertInv, ListenerPhases
  <2> QED
    BY <2>1, FilterStart
<1>2. (FilterInv /\ CertInv) /\ [Next]_vars => (FilterInv /\ CertInv)'
  BY FilterStep, CertStep
<1>3. FilterInv /\ CertInv => ChainsCertified
  <2> SUFFICES ASSUME CertInv, Unambiguous(aconf), phase = "done", NEW l \in Range(envoy.listeners),
                      NEW fc \in Range(l.filter_chains), NEW h \in Range(ir.hosts),
                      fc.tls /\ fc.http /\ h.name \in Range(fc.hosts)
               PROVE  \/ fc.socket.cert = SecretOf(h)
                      \/ Reported("Host", h.name)
                      \/ Reported("ir", ContextOf(h)) \/ Reported("TLSContext", ContextOf(h))
    BY DEF ChainsCertified, CertifiedAsNamed
  <2>1. Certified(ir, l.filter_chains)
    BY DEF CertInv, ListenerPhases
  <2> QED
    BY <2>1 DEF Certified, ErrorFor, Reported
<1> QED
  BY <1>1, <1>2, <1>3, PTL DEF Spec
=============================================================================
