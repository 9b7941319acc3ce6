\* One request at a time, every operation, a call that fails.
CONSTANTS
  r1 = r1
  r2 = r2
  r3 = r3
  r4 = r4
  k1 = k1
  k2 = k2
  k3 = k3
  k4 = k4
  NoKid = NoKid
  First = k1
  Requests = {r1, r2, r3, r4}
  Kids = {k1, k2, k3, k4}
  KeyOps = {"create", "createActive", "rotate", "activate", "deactivate", "delete", "publish"}
  Overlapping = FALSE
  MaxFaults = 1
  Starts = {{k1}}
SPECIFICATION Spec
SYMMETRY KeySymmetry
INVARIANT AtMostOneActive
PROPERTY SignsWithChosen
CHECK_DEADLOCK FALSE
