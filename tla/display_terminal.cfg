\* One display and Ctrl-C at any moment. A display that ended is not started again.
CONSTANTS
  Proc = {p1}
  Typing = {p1}
  MaxStep = 1
  MaxKeys = 1
SPECIFICATION Spec
INVARIANTS
  CtrlCGivesTerminalBack
CHECK_DEADLOCK FALSE
