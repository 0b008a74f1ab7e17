CONSTANTS
  Resolvers = {"r1", "r2"}
  Svcs = {"s"}
  Limit <- LimConsul
  RoutesAt <- RoutesDrop
  WatchedAt = {}
  ForwardsAt = {1}
  PortlessAt = {1}
  SpecAt <- Specs1
  NoSpec = "none"
  MaxConsul = 2
  MaxIstio = 0
SPECIFICATION FairSpec
PROPERTIES AddressesKept EventuallySent EventuallyCurrent
CHECK_DEADLOCK FALSE
