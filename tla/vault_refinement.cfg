\* Two processes, two names, ids enough for an entry to be deleted and added again; reads return what is there.
CONSTANTS
  Proc = {p1, p2}
  Name = {bank, mail}
  Data = {d1, d2}
  Secret = {s1, s2}
  Nothing = Nothing
  ReadErrors = FALSE
  MaxId = 3
SPECIFICATION Spec
PROPERTIES
  ImplementsPasswordStore
SYMMETRY Symmetry
