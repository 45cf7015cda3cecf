SPECIFICATION PatientSpec
CONSTANTS
  Pid = {p1, p2}
  NoPid = NoPid
  EmptyFile = EmptyFile
  Inst = {i1}
  NoInst = NoInst
  Elapsed = {1}
  MaxLooper = 2

CHECK_DEADLOCK FALSE
PROPERTIES
  StickyRestart
