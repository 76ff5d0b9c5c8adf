SPECIFICATION SyncSpec
CONSTANTS
  Addr = {a1}
  Caller = {r1, w}
  Worker = w
  NoId = NoId
  NoSnapshot = NoSnapshot
  LegacyPossible = FALSE
  OldIds = 1
  MaxIds = 3
  MaxJobs = 0
  MaxExits = 1
  MaxLoadFailures = 0
  MaxWriteFailures = 1
  Chain = {main}
  Balances <- MCBalances
  Blank = Blank
  NoRow = NoRow
  NoRequest = NoRequest
  Kinds = {"tx"}
  OldVals <- MCOldCounts
  MaxOldRows = 2
  MaxDay = 2
  MaxRecords = 1
  MaxSwitches = 0
  MaxQueue = 1
  MaxFlight = 2
SYMMETRY SyncSymmetry
INVARIANTS SyncTypeOK AckedWasReceived RowsHaveOwners MergedIsKept
PROPERTIES DeletedWasReported
CHECK_DEADLOCK FALSE
