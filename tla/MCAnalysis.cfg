SPECIFICATION Spec
CONSTANTS
  Commands <- MCCommands
  Inputs <- MCInputs
INVARIANTS
  TypeOK
  NothingLost
  HeadingsGovern
  EverythingCompared
  EffectSummariesMatch
