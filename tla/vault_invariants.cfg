\* Three processes, two names, ids enough for an entry to be deleted and added again; any read may fail.
CONSTANTS
  Proc = {p1, p2, p3}
  Name = {bank, mail}
  Data = {d1}
  Secret = {s1, s2}
  Nothing = Nothing
  ReadErrors = TRUE
  MaxId = 2
SPECIFICATION Spec
INVARIANTS
  TypeOK
  NamesUnique
  NoOrphanTotp
  OneTotpPerEntry
  StaleIdNeverRetargets
SYMMETRY Symmetry
