SPECIFICATION Spec
CONSTANTS
  Thread = {t1, t2}
  Addr = {a1}
  Password = {p1, p2}
  NoThread = NoThread
  NoKey = NoKey
  Corrupt = Corrupt
  MaxGen = 4
  MaxCalls = 3
  MaxCrashes = 1
  MaxOutages = 1
  HandlesStayCurrent = TRUE
  StagedApi = FALSE
SYMMETRY Symmetry
INVARIANTS TypeOK OneFilePerAddress ListingIsDirectory NoKeyInBackup
PROPERTIES NoWriteWhileUnreadable CallsAreAtomic
