SPECIFICATION Spec
CONSTANTS
  NEngines = 2
  NWasms = 2
  Processes = 3
  Paths <- MCPaths
  Commands <- MCCommands
  Groups <- MCGroups
  NotGiven = NotGiven
  NoChild = NoChild
INVARIANTS
  TypeOK
  WorklistAccounts
  WrittenComplete
  ProgressWithinTotal
PROPERTY
  RunsThePlan
