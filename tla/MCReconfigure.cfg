CONSTANTS
  Order <- Order2
  SpecsOf <- Specs2
  Absent = Absent
  Labelled = {"g2"}
  MaxModule = 1
  DefaultsAt = {1}
  MaxBatch = 2
  MaxMissed = 1
  MaxFailures = 1
  MaxPrepended = 2
SPECIFICATION Spec
INVARIANTS IncrementalMatchesFull NoOrphans
