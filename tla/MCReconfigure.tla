--------------------------- MODULE MCReconfigure ---------------------------
(***************************************************************************)
(* Two Mappings that move between two groups, of which the second has      *)
(* labels of its own.  They share a cluster, on whose parameter they       *)
(* disagree while the second one is in the second group.                   *)
(***************************************************************************)
EXTENDS Reconfigure

X(g, c, p) == [group |-> g, cluster |-> c, par |-> p]

Order2 == <<"m1", "m2">>
Specs2 == [m \in {"m1", "m2"} |->
             CASE m = "m1" -> {X("g1", "c1", 1), X("g2", "c1", 1)}
               [] m = "m2" -> {X("g1", "c1", 1), X("g2", "c1", 2)}]
=============================================================================
