CONSTANTS
  Resolvers = {"r1"}
  Svcs = {"s"}
  Limit <- LimSources
  RoutesAt <- RoutesDrop
  WatchedAt = {1}
  ForwardsAt = {1, 2}
  PortlessAt = {1}
  SpecAt <- Specs1
  NoSpec = "none"
  MaxConsul = 1
  MaxIstio = 1
SPECIFICATION Spec
INVARIANTS CaughtUp NoDeltaLost NotStranded FastpathFresh ReadyIsCovered
CHECK_DEADLOCK FALSE
