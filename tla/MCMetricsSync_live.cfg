SPECIFICATION FairSyncSpec
CONSTANTS
  Addr = {a1}
  Caller = {r1, w}
  Worker = w
  NoId = NoId
  NoSnapshot = NoSnapshot
  LegacyPossible = FALSE
  OldIds = 1
  MaxIds = 3
  MaxJobs = 0
  MaxExits = 1
  MaxLoadFailures = 0
  MaxWriteFailures = 1
  Chain = {main}
  Balances <- MCBalances
  Blank = Blank
  NoRow = NoRow
  NoRequest = NoRequest
  Kinds = {"asset"}
  OldVals <- MCOldBalances
  MaxOldRows = 2
  MaxDay = 2
  MaxRecords = 1
  MaxSwitches = 0
  MaxQueue = 1
  MaxFlight = 1
PROPERTY EveryEventReported
CHECK_DEADLOCK FALSE
