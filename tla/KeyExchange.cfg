SPECIFICATION FairSpec
CONSTANTS
  MaxKex = 3
  MaxData = 2
  MAX_DEFER_REPLY_QUEUE = 1
CHECK_DEADLOCK FALSE
INVARIANTS
  TypeOK
  NobodyExits
  QuietDuringKex
  KeysAgree
PROPERTIES
  ImplementsStream
  KexCompletes
