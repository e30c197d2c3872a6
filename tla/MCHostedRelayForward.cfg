CONSTANTS
  Conns = {c1, c2, c3}
  Devices = {d1}
  Keys = {k1}
  Calls = {}
  Ids = {i1}
  Usages = {1}
  KeyLimit = 1
  None = None
SPECIFICATION RelaySpec
CHECK_DEADLOCK FALSE
INVARIANT OneForwarding
