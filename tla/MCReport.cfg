SPECIFICATION Spec
CONSTANTS
  Commands <- MCCommands
  Inputs <- MCInputs
  NotGiven = NotGiven
INVARIANTS
  TypeOK
  VerdictDetermined
  ReportComplete
  UniformTableAligned
