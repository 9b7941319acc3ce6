\* Sign-ins one at a time, proxy requests overlapping; crashes, a restart in the other mode.
CONSTANTS
  ann = ann
  bob = bob
  acme = acme
  r1 = r1
  r2 = r2
  r3 = r3
  Nobody = Nobody
  Emails = {ann, bob}
  Domains = {acme}
  DomainOf <- MCDomainOf
  Requests = {r1, r2, r3}
  AdminOps = {"add", "remove", "setRole"}
  Overlap = {}
  MaxCrashes = 1
  MaxRestarts = 1
SPECIFICATION Spec
INVARIANTS OneClaim ClaimantKept
PROPERTY SessionsMatchList
CHECK_DEADLOCK FALSE
