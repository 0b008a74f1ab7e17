CONSTANTS
  m1 = m1  m2 = m2  h1 = h1  Mappings = Mappings  Hosts = Hosts
  Fields = {Mappings, Hosts}
  Keys = {m1, m2}
  FieldOf <- MCFieldOf
  MaxVersion = 2
  Forbidden = {}
  Rejected <- WatchRejected
  LocalKeys = {m2}
SPECIFICATION Spec
INVARIANTS NoChangeLost DeltasMatchStore DeltasExplainSnapshot BootstrapMissesAtMostOne
PROPERTIES NeverBackwards
CHECK_DEADLOCK FALSE
