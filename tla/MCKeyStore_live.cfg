SPECIFICATION FairSpec
CONSTANTS
  Thread = {t1, t2}
  Addr = {a1}
  Password = {p1}
  NoThread = NoThread
  NoKey = NoKey
  Corrupt = Corrupt
  MaxGen = 3
  MaxCalls = 2
  MaxCrashes = 1
  MaxOutages = 1
  HandlesStayCurrent = TRUE
  StagedApi = TRUE
PROPERTIES CallsReturn UnreadableClears
