SPECIFICATION Spec
CONSTANTS
  Limbs = 3
  LimbBits = 9
  Window = 2
  CurveOf <- MCCurveOf
  Privates <- MCPrivates
  Scalars <- MCScalars
  Abscissas <- MCAbscissas
  Digests <- MCDigests
  NonceLists <- MCNonceLists
  Blinds = {1, 4000001}
INVARIANTS
  PointsObeyTheLaw SignaturesAreStandard
