SPECIFICATION Spec
CONSTANTS
  Commands <- MCEffectCommands
  Inputs <- MCEffectInputs
INVARIANT
  NeverPanics
