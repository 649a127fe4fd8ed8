\* Both processes may run init at the same time.
CONSTANTS
  Proc = {p1, p2}
  Initers = {p1, p2}
  Password = {right, wrong}
  None = None
  MaxSalt = 2
SPECIFICATION Spec
INVARIANTS
  InitLeavesVaultAlone
