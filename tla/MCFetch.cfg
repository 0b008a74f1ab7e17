CONSTANTS
  Universe <- FetchUniverse
  Containers <- MCContainers
  Numbers = {"80", "8080"}
  ambassador_namespace <- MCNamespace
  MaxObjects = 4
SPECIFICATION Spec
INVARIANTS OrderFree NothingLost PortsReachPods
CHECK_DEADLOCK FALSE
