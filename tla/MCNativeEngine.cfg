SPECIFICATION Spec
CONSTANTS
  Benchmarks = {noop, zstd}
  Inodes = {i1, i2}
  MaxRuns = 2
  None = None
SYMMETRY Symmetry
INVARIANTS
  TypeOK
  GuestContext
  OutputSeparated
  LogExact
  HostRestored
PROPERTY
  LogsAsExpected
