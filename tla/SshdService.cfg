SPECIFICATION Spec
CONSTANTS
  Pid = {p1, p2}
  NoPid = NoPid
  EmptyFile = EmptyFile
  Inst = {i1, i2}
  NoInst = NoInst
  Elapsed = {1}
  MaxLooper = 3
SYMMETRY Symmetry
CHECK_DEADLOCK FALSE
INVARIANTS
  TypeOK
  ChildIsWatched
  RecordedIsWatched
  PidFileNamesServer
  OwnedUnlessRaced
  UiShowsIsRunning
PROPERTIES
  CreateKillsServer
