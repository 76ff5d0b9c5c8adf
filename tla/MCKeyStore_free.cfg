SPECIFICATION Spec
CONSTANTS
  Thread = {t1, t2}
  Addr = {a1}
  Password = {p1, p2}
  NoThread = NoThread
  NoKey = NoKey
  Corrupt = Corrupt
  MaxGen = 4
  MaxCalls = 3
  MaxCrashes = 1
  MaxOutages = 1
  HandlesStayCurrent = FALSE
  StagedApi = TRUE
SYMMETRY Symmetry
INVARIANTS AccountBacked DecisionStillValid
PROPERTIES RetryNeverResurrects OnlyCommitChangesKey
