\* Two processes configure TOTP for the same entry; reads return what is there.
CONSTANTS
  Proc = {p1, p2}
  Name = {bank}
  Data = {d1}
  Secret = {s1, s2}
  Nothing = Nothing
  ReadErrors = FALSE
  MaxId = 1
SPECIFICATION Spec
PROPERTIES
  TotpNeverOverwritten
