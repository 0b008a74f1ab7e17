----------------------------- MODULE MCWatcher -----------------------------
(***************************************************************************)
(* Small instances of Watcher.  Which objects change, and how often, is    *)
(* chosen by the Limit of the run; the Consul scenario by RoutesAt.        *)
(***************************************************************************)
EXTENDS Watcher, TLC

Lim(mapping, service, eps, route, r1, r2) ==
  [x \in Objects |-> CASE x = "Mapping" -> mapping [] x = "Service" -> service
                       [] x = "Endpoints" -> eps [] x = "HTTPRoute" -> route
                       [] x = "r1" -> r1 [] OTHER -> r2]
LimSources  == Lim(1, 1, 1, 2, 1, 0)
LimGateway  == Lim(0, 0, 1, 1, 0, 0)
LimConsul   == Lim(2, 0, 0, 0, 2, 1)
LimTwo      == Lim(1, 0, 0, 0, 1, 1)
LimOne      == Lim(2, 0, 0, 0, 1, 0)

(* Version 1 of the Mappings names service s through resolver r1, version 2 none.  *)
RoutesDrop == 0 :> {} @@ 1 :> {<<"r1", "s">>} @@ 2 :> {}

(* Version 2 of a resolver has another Spec. *)
Specs1 == [r \in Resolvers |-> 0 :> "none" @@ 1 :> "a" @@ 2 :> "b"]
=============================================================================
