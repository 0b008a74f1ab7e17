--------------------------- MODULE MCAccumulator ---------------------------
(***************************************************************************)
(* Small instances of Accumulator: the query Mappings with the objects m1  *)
(* and m2, the query Hosts with h1 or with none at all.  The consumer's    *)
(* predicate rejects version 2 of one object.                              *)
(***************************************************************************)
EXTENDS Accumulator

CONSTANTS m1, m2, h1, Mappings, Hosts

MCFieldOf == [k \in Keys |-> IF k = h1 THEN Hosts ELSE Mappings]
WatchRejected == {<<m2, 2>>}
LiveRejected  == {<<m1, 2>>}
=============================================================================
