SPECIFICATION Spec
CONSTANTS
  User = {u1, u2}
  NoUser = NoUser
  LongName = LongName
  maxauthtries = 2
  MAX_PUBKEY_QUERIES = 3
  multiauthmethod = TRUE
  singleUse = TRUE
CHECK_DEADLOCK FALSE
INVARIANTS
  TypeOK
  AllMethodsPassed
  RoleOfCredential
  QueriesBounded
