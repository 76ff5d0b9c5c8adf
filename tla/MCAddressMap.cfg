SPECIFICATION MapSpec
CONSTANTS
  Addr = {a1, a2}
  Caller = {c1, c2}
  NoId = NoId
  NoSnapshot = NoSnapshot
  LegacyPossible = TRUE
  OldIds = 2
  MaxIds = 12
  MaxJobs = 2
  MaxExits = 1
  MaxLoadFailures = 1
  MaxWriteFailures = 1
SYMMETRY Symmetry
INVARIANTS MapTypeOK OneAddressPerId AnswersAgree UsedIdsExact
PROPERTY MappingsSurvive
