SPECIFICATION Spec
CONSTANTS
  Vars <- MCVars
  Programs <- MCPrograms
  Unexecuted = {"bench.start"}
CHECK_DEADLOCK FALSE
INVARIANTS
  CallsAsPrescribed
  KernelMeasured
  NothingElseMeasured
  KernelComputed
