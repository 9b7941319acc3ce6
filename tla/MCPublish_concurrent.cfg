\* Overlapping publishes on two days, every kind of fault; the key may go.
CONSTANTS
  g = g
  r1 = r1
  r2 = r2
  r3 = r3
  f1 = f1
  f2 = f2
  k1 = k1
  k2 = k2
  Nil = Nil
  NoFlag = NoFlag
  Genesis = g
  Requests = {g, r1, r2}
  FlagIds = {f1}
  Keys = {k1}
  AdminOps = {"create"}
  Overlap = {"publish", "keys"}
  MaxClock = 0
  MaxDay = 2
  FaultKinds = {"db", "s3", "ambiguous", "delete", "crash"}
  MaxFaults = 2
SPECIFICATION FairSpec
INVARIANTS TypeOK VersionsUnique HistoryLooksBack
PROPERTIES ArchiveImmutable Answered
CHECK_DEADLOCK FALSE
