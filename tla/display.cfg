\* Two displays that share the clipboard, with keys typed ahead on one of the terminals. A display that ended is not started again.
CONSTANTS
  Proc = {p1, p2}
  Typing = {p1}
  MaxStep = 2
  MaxKeys = 2
SPECIFICATION FairSpec
INVARIANTS
  TypeOK
  NoCodeLingers
  CodeNotBehind
PROPERTIES
  DisplayCatchesUp
  QuitKeyQuits
  InterruptQuits
CHECK_DEADLOCK FALSE
