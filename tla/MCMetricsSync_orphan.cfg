SPECIFICATION SyncSpec
CONSTANTS
  Addr = {a1}
  Caller = {r1, w}
  Worker = w
  NoId = NoId
  NoSnapshot = NoSnapshot
  LegacyPossible = FALSE
  OldIds = 1
  MaxIds = 3
  MaxJobs = 1
  MaxExits = 0
  MaxLoadFailures = 0
  MaxWriteFailures = 0
  Chain = {main}
  Balances <- MCBalances
  Blank = Blank
  NoRow = NoRow
  NoRequest = NoRequest
  Kinds = {"tx"}
  OldVals = {}
  MaxOldRows = 0
  MaxDay = 1
  MaxRecords = 1
  MaxSwitches = 0
  MaxQueue = 1
  MaxFlight = 1
INVARIANT RowsHaveOwners
CHECK_DEADLOCK FALSE
