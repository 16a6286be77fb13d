SPECIFICATION Spec
CONSTANTS
  NEngines = 2
  NWasms = 2
  Processes = 3
  Paths <- MCPaths
  Commands <- MCOptions
  Groups <- MCGroups
  NotGiven = NotGiven
  NoChild = NoChild
INVARIANT
  OptionsReachChild
