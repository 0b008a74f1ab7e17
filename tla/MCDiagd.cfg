CONSTANTS
  Handlers = {h1, h2}
  MaxLoads = 2
  MaxCommands = 0
  Retries = 2
  MaxIncr = 1
  Objects = {}
  Marked = {}
  Texts = {"Running"}
  Workers = 1
  MaxPool = 0
  MaxFailures = 0
SPECIFICATION FairSpec
INVARIANTS Delivered
PROPERTIES DiagNeverBackwards EveryPostAnswered EveryRequestShown ChecksHappen
