\* Two flags, a rollout and a test; two edits, two publishes, one report.
CONSTANTS
  f1 = f1
  f2 = f2
  r = r
  t = t
  control = control
  extra = extra
  on = on
  off = off
  json = json
  text = text
  object = object
  null = null
  u1 = u1
  u2 = u2
  Null = Null
  FlagOrder <- MCFlagOrder
  ExpOrder <- MCExpOrder
  GroupOrder <- MCGroupOrder
  Booleans = {on, off}
  JsonTexts = {json}
  PlainTexts = {text}
  Objects = {object, null}
  Users = {u1, u2}
  BucketOf <- MCBucketOf
  Host <- MCHost
  KeyShapes <- MCKeyShapes
  FlagPatches <- MCFlagPatches
  ExpPatches <- MCExpPatches
  Percentages = {100}
  NewTests <- MCNewTests
  ReportEnvs = {"beta", "production"}
  Versions <- MCVersions
  NewTestRollouts <- MCNewTestRollouts
  NewFlags <- MCNewFlags
  Starts <- MCStarts
  MaxEdits = 2
  MaxPublishes = 2
SPECIFICATION Spec
INVARIANTS DecodedIsResolved MistypedIsRejected PreviewAgrees  
CHECK_DEADLOCK FALSE
