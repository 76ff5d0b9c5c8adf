SPECIFICATION Spec
CONSTANTS
  Thread = {t1, t2}
  Addr = {a1}
  Password = {p1, p2}
  NoThread = NoThread
  NoKey = NoKey
  Corrupt = Corrupt
  MaxGen = 4
  MaxCalls = 3
  MaxCrashes = 0
  MaxOutages = 0
  HandlesStayCurrent = FALSE
  StagedApi = FALSE
INVARIANT UpdateIsDurable
