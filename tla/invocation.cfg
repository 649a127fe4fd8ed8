\* Up to four arguments. A process that ended does nothing more.
CONSTANTS
  Word <- MCWord
  VaultPath = {"my.pwv", "default.pwv"}
  DefaultPath = "default.pwv"
  Number <- MCNumber
  Garbage = "garbage"
  MaxArgs = 4
SPECIFICATION Spec
INVARIANTS
  TypeOK
  CalledAsTyped
  OnlyVaultFiles
  NameWasTyped
  ReturnsClean
  PragmaAloneBesideData
  MasterWhileWaiting
  DisplayHoldsLittle
  UncaughtBeforeSecrets
  EchoComesBack
  GeneratedIsStrong
CHECK_DEADLOCK FALSE
