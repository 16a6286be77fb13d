SPECIFICATION Spec
CONSTANTS
  Commands <- MCCsvCommands
  Inputs <- MCSummaryInputs
INVARIANT
  NeverPanics
