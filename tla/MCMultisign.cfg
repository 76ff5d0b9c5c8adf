SPECIFICATION Spec
CONSTANTS
  Owner = {o1, o2, o3}
  Device = {d1}
  Chain = {"", "side", "no hex"}
  NoHex = {"no hex"}
  Incomplete = {2}
  MaxSignatures = 3
  MaxEdits = 2
  MaxDamage = 2
SYMMETRY Symmetry
INVARIANT SuccessIsComplete
PROPERTIES SignersKept FailureChangesNothing
