\* Two overlapping publishes, no fault.
CONSTANTS
  g = g
  r1 = r1
  r2 = r2
  r3 = r3
  f1 = f1
  f2 = f2
  k1 = k1
  k2 = k2
  Nil = Nil
  NoFlag = NoFlag
  Genesis = g
  Requests = {g, r1, r2}
  FlagIds = {f1}
  Keys = {k1}
  AdminOps = {}
  Overlap = {"publish"}
  MaxClock = 0
  MaxDay = 1
  FaultKinds = {}
  MaxFaults = 0
SPECIFICATION Spec
INVARIANT SettledPair
CHECK_DEADLOCK FALSE
