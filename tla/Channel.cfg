SPECIFICATION FairSpec
CONSTANTS
  recv_window = 2
  TransWindow = 1
  PipeSize = 1
  MaxBytes = 3
CHECK_DEADLOCK FALSE
INVARIANTS
  TypeOK
  WindowsAgree
  SessionSurvives
  WellOrdered
  ExitReported
  OutputComplete
  InputComplete
PROPERTIES
  ExitLeadsToClose
