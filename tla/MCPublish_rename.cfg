\* One activity at a time and no fault; a flag is created, published and renamed.
CONSTANTS
  g = g
  r1 = r1
  r2 = r2
  r3 = r3
  f1 = f1
  f2 = f2
  k1 = k1
  k2 = k2
  Nil = Nil
  NoFlag = NoFlag
  Genesis = g
  Requests = {g, r1, r2}
  FlagIds = {f1}
  Keys = {k1, k2}
  AdminOps = {"create", "rename"}
  Overlap = {}
  MaxClock = 3
  MaxDay = 1
  FaultKinds = {}
  MaxFaults = 0
SPECIFICATION Spec
PROPERTY KeysLeaveDeprecated
CHECK_DEADLOCK FALSE
