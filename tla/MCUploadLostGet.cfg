SPECIFICATION Spec
CHECK_DEADLOCK FALSE
CONSTANTS
  Uploaders = {"ann", "bob"}
  Measured <- MCMeasured
  Files <- MCFiles
  slug <- MCslug
  NoBuildInfo = NoBuildInfo
  Commands <- MCCommands
  BatchSize <- MCBatchSize
  NumRetries = 2
  NoItem = NoItem
PROPERTY
  NoOverwrite
