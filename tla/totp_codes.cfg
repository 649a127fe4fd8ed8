\* Secrets of up to three characters, and pasted ones around the sizes where hashing changes; a secret that is shown or refused is the end.
CONSTANTS
  Typed <- MCTyped
  Times = {59, 1111111109}
  Digits = 6
  Period = 30
  Known <- MCKnown
  MaxEncoded = 20
SPECIFICATION Spec
INVARIANTS
  TypeOK
  AcceptedDecodes
  EncodingInverts
  EmptyOnlyFromPadding
  CodeAsElsewhere
  CountdownEndsWithCode
CHECK_DEADLOCK FALSE
