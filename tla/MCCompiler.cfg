CONSTANTS
  AmbassadorNamespace = "amb"
  HostnameOrder <- MCHostnameOrder
  PortLabels = {":8443"}
  Pieces <- MCPieces
  IPAddresses <- MCIPAddresses
  PathOrder <- MCPathOrder
  NameLimit = 6
  NamePrefix = 3
  Digest <- MCDigest
  Configs <- MCConfigs
SPECIFICATION Spec
INVARIANTS
  RequestsAnswered ChainsCertified HostsServedOrReported ChainsDistinct
  WeightsHonoured  FiltersComplete
