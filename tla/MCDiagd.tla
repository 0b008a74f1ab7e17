------------------------------ MODULE MCDiagd ------------------------------
(***************************************************************************)
(* A small instance of diagd: web threads that race with reconfigurations, *)
(* and one Mapping whose status is written.                                *)
(***************************************************************************)
EXTENDS Diagd
=============================================================================
