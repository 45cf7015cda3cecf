SPECIFICATION Spec
CONSTANTS
  Pid = {p1, p2, p3}
  NoPid = NoPid
  EmptyFile = EmptyFile
  Inst = {i1, i2}
  NoInst = NoInst
  Elapsed = {1}
  MaxLooper = 2

CHECK_DEADLOCK FALSE
INVARIANTS
  ServingIsRunning
