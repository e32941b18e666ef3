SPECIFICATION Spec
CONSTANTS
  c1 = c1
  n1 = n1
  n2 = n2
  None = None
  Conns = {c1}
  Names = {n1, n2}
  Unnamed = n1
  Queries <- MCQueries
  Prepared <- MCPrepared
  ResetQueries <- MCResetQueries
  Oversized <- MCOversized
  Excluded <- MCNoTexts
  Included <- MCNoTexts
  Overrides <- MCNoOverrides
  Configs <- MCConfigs
  Attached = TRUE
  Depth = 1
  MaxBatch = 2
  MaxCopy = 1
  MaxSegments = 2
  MaxMessages = 4
INVARIANTS TypeOK JudgedInSourceStatus ShadowFollowsSource TxGrouped RecordsOwnStatement CopyIsWhole
