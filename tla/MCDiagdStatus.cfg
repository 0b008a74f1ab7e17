CONSTANTS
  Handlers = {}
  MaxLoads = 3
  MaxCommands = 1
  Retries = 1
  MaxIncr = 2
  Objects = {mapping}
  Marked = {mapping}
  Texts = {"Running", "Inactive"}
  Workers = 2
  MaxPool = 3
  MaxFailures = 1
SPECIFICATION Spec
INVARIANTS TypeOK StatusReflected
