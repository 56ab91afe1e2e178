SPECIFICATION ManagerSpec
CONSTANTS
  u1 = u1
  u2 = u2
  k1 = k1
  Users = {u1, u2}
  Keys = {k1}
  KeyOf <- OneKey
  Entries = {1, 2, 3}
  Conns = {1, 2, 3, 4}
  None = None
  MaxReloads = 1
  MaxRetries = 1
INVARIANTS
  OneConnection
PROPERTIES
  NotCutUnlessReplaced
  WaitsEnd
CHECK_DEADLOCK FALSE
