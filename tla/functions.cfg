SPECIFICATION InputsSpec
CONSTANTS
  NoUrl = NoUrl
  NoRow = NoRow
  Collections = {"recent", "older"}
  Limit = 2
  IndexRows <- SmallRows
  TargetHosts = {"site"}
  Suffix <- SmallSuffix
  UrlOrder <- Sorted
  MaxRows = 4
  MaxDocs = 4
  ByteBudget = 3
  Cap = 2
  Slack = 2
  MaxLabels = 4
  MaxMarked = 2
  RawNames <- NamesOnCertificates
  Target <- ExampleDotCom
  Dates = {1, 2}
  MaxNames = 2
  MaxCertificates = 2
  MaxRuns = 2
CHECK_DEADLOCK FALSE
INVARIANTS
  ArchiveInv
  CapsHold
  SampleIsDiverse
  EveryPageAccountedFor
  CanonicalIsStable
  PreviewTellsTheType
  RowsMatchTheEvidence
