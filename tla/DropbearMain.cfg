SPECIFICATION FairSpec
CONSTANTS
  MAX_UNAUTH_CLIENTS = 2
  MAX_UNAUTH_PER_IP = 1
  Addr = {a1, a2, a3}
  NoAddr = NoAddr
  Session = {s1, s2, s3}
  NoSession = NoSession
  Sockets = 1
  MaxBacklog = 1
CHECK_DEADLOCK FALSE
INVARIANTS
  TypeOK
  SlotPerSession
  UnauthLimits
PROPERTIES
  ImplementsAdmission
  SlotsReleased
  TermNotLost
