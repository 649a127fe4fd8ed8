\* One process alone, which may be killed anywhere in init.
CONSTANTS
  Proc = {p1}
  Initers = {p1}
  Password = {right, wrong}
  None = None
  MaxSalt = 2
SPECIFICATION Spec
PROPERTIES
  InitAdviceCanBeFollowed
