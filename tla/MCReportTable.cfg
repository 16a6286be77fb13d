SPECIFICATION Spec
CONSTANTS
  Commands <- MCOneCommand
  Inputs <- MCTriples
  NotGiven = NotGiven
INVARIANT
  CellsBelowHeaders
