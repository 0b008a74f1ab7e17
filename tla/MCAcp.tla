------------------------------- MODULE MCAcp -------------------------------
(***************************************************************************)
(* A small instance of Acp: one liveness and one readiness probe at a      *)
(* time, diagd's grace period of three and Envoy's of two units.           *)
(***************************************************************************)
EXTENDS Acp
=============================================================================
