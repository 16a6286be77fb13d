SPECIFICATION SpecWithClean
CONSTANTS
  NEngines = 2
  NWasms = 2
  Iterations = 2
  Types = {"cycles", "insts-retired"}
  Paths <- MCPaths
  Commands <- MCCommands
  Cleaned <- MCCleaned
  GuestCalls <- MCGuestCalls
  NoCall = NoCall
  NeverStarted = NeverStarted
INVARIANTS
  CleanTypeOK
  ReceiverHeld
  WrongOutputStopsRun
  ResultsExact
  LogsPolicyWithClean
PROPERTY
  RunsThePlan
