---------------------------- MODULE Collections ----------------------------
(***************************************************************************)
(* Sequences and functions, the way the proofs need them: an element is    *)
(* found by its index, and a loop over a sequence is a function of the     *)
(* number of its turns.                                                    *)
(***************************************************************************)
EXTENDS Integers, Sequences, FiniteSets

(* A function with one value more, or another one. *)
Put(f, k, v) == [x \in DOMAIN f \cup {k} |-> IF x = k THEN v ELSE f[x]]

(* The fields of f, and those of g that f does not have. *)
Over(f, g) == [x \in DOMAIN f \cup DOMAIN g |-> IF x \in DOMAIN f THEN f[x] ELSE g[x]]

(* The elements of a sequence at some of its indices, in their order. *)
Keep(s, ks) ==
  [n \in 1 .. Cardinality(ks) |-> s[CHOOSE i \in ks : 1 + Cardinality({j \in ks : j < i}) = n]]

(* The elements of a sequence that pass a test, in their order. *)
Filter(s, test(_)) == Keep(s, {i \in DOMAIN s : test(s[i])})

(* A sequence in another order: before compares indices. *)
Arrange(s, before(_, _)) ==
  LET place(i) == 1 + Cardinality({j \in DOMAIN s : before(j, i)})
  IN  [n \in DOMAIN s |-> s[CHOOSE i \in DOMAIN s : place(i) = n]]

(* A loop over a sequence. *)
Loop(body(_, _), start, s) ==
  LET after[n \in 0 .. Len(s)] == IF n = 0 THEN start ELSE body(after[n - 1], s[n])
  IN  after[Len(s)]
=============================================================================
