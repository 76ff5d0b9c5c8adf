SPECIFICATION SyncSpec
CONSTANTS
  Addr = {a1, a2}
  Caller = {r1, w}
  Worker = w
  NoId = NoId
  NoSnapshot = NoSnapshot
  LegacyPossible = FALSE
  OldIds = 2
  MaxIds = 5
  MaxJobs = 1
  MaxExits = 0
  MaxLoadFailures = 0
  MaxWriteFailures = 0
  Chain = {main, nile}
  Balances <- MCBalances
  Blank = Blank
  NoRow = NoRow
  NoRequest = NoRequest
  Kinds = {"asset"}
  OldVals <- MCOldBalances
  MaxOldRows = 2
  MaxDay = 1
  MaxRecords = 0
  MaxSwitches = 1
  MaxQueue = 1
  MaxFlight = 1
SYMMETRY SyncSymmetry
INVARIANT MergedIsKept
PROPERTIES SendsAreCurrent DeletedWasReported
CHECK_DEADLOCK FALSE
