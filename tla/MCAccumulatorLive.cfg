CONSTANTS
  m1 = m1  m2 = m2  h1 = h1  Mappings = Mappings  Hosts = Hosts
  Fields = {Mappings, Hosts}
  Keys = {m1, h1}
  FieldOf <- MCFieldOf
  MaxVersion = 2
  Forbidden = {Hosts}
  Rejected <- LiveRejected
  LocalKeys = {}
SPECIFICATION FairSpec
PROPERTIES EventuallyConsistent
CHECK_DEADLOCK FALSE
