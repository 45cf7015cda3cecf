SPECIFICATION Spec
CONSTANTS
  Name = {a, b}
  Hash = {h1}
  Blank = Blank
  Rest = Rest
  NoEntry = NoEntry
  OddName = {a}
  otherMethod = FALSE
  MaxTyped = 4
  MaxHandEdits = 1
CHECK_DEADLOCK FALSE
INVARIANTS
  ReadersAgree
  OnlyShownLogsIn
PROPERTIES
  ImplementsCredentials
