SPECIFICATION RequestsSpec
CONSTANTS
  r1 = r1  r2 = r2
  Requests <- RequestsModel
  Jobs <- JobsModel
  Offered <- OfferedModel
  Names <- NamesModel
  Deny = {"password"}
  Leaves = {"x"}
  Depth = 3
  Width = 1
  Emails = {"e1"}
  Countries = {"NG"}
  PoolSize = 2
  Attempts = 2
  MaxExits = 1
CHECK_DEADLOCK FALSE
INVARIANTS
  RequestsTypeOK
  OkMeansDone
  Accountable
  ResetIsMailed
  AccountsWhole
  NoSecretLogged
  PoolAloneBlocks
PROPERTIES
  OnlyPoolStops
