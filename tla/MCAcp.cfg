CONSTANTS
  AliveProbes = {"a"}
  ReadyProbes = {"r"}
  DiagdGrace = 3
  EnvoyGrace = 2
  MaxTime = 6
SPECIFICATION Spec
INVARIANTS HungDiagdNoticed WorkingDiagdKept EnvoyMustStart
PROPERTIES AnswerVouched
