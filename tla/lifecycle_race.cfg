\* All three processes may run init at the same time.
CONSTANTS
  Proc = {p1, p2, p3}
  Initers = {p1, p2, p3}
  Password = {right, wrong}
  None = None
  MaxSalt = 3
SPECIFICATION Spec
INVARIANTS
  TypeOK
  OnlyThePasswordGetsIn
  OnePasswordTwoLayers
  TokenStoredLast
  MigratedBeforeUse
SYMMETRY Symmetry
