\* One activity at a time, on two days; two flags, which are not renamed; an upload may fail.
CONSTANTS
  g = g
  r1 = r1
  r2 = r2
  r3 = r3
  f1 = f1
  f2 = f2
  k1 = k1
  k2 = k2
  Nil = Nil
  NoFlag = NoFlag
  Genesis = g
  Requests = {g, r1, r2, r3}
  FlagIds = {f1, f2}
  Keys = {k1, k2}
  AdminOps = {"create", "archive", "unarchive", "edit", "delete"}
  Overlap = {}
  MaxClock = 4
  MaxDay = 2
  FaultKinds = {"s3"}
  MaxFaults = 1
SPECIFICATION Spec
SYMMETRY FlagSymmetry
INVARIANTS SettledPair RolledBack ServedIsPublished RetiredWasDeprecated LiveKept
PROPERTIES DeprecatedBeforeDelete KeepsLifecycle NeverRegresses
CHECK_DEADLOCK FALSE
