\* One process may run init, another only uses the vault, which may be deleted and made again.
CONSTANTS
  Proc = {p1, p2}
  Initers = {p1}
  Password = {right, wrong}
  None = None
  MaxSalt = 2
  Name = {bank, mail}
  Nothing = Nothing
  MaxId = 2
SPECIFICATION PwmanSpec
INVARIANTS
  PwmanTypeOK
  TokenMatchesSalt
  SealedReadable
  TablesInOrder
  RowsOpenWithToken
  KeysAgree
SYMMETRY Symmetry
