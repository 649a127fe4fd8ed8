\* The key and one of the times of RFC 6238; a code that is shown is the end.
CONSTANTS
  Typed <- MCRfc
  Times = {1111111109}
  Digits = 6
  Period = 30
  Known <- MCKnown
  MaxEncoded = 20
SPECIFICATION Spec
INVARIANTS
  CodeIsZeroPadded
CHECK_DEADLOCK FALSE
