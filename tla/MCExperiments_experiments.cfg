\* Tests and rollouts, from the forms to the rows and back to the lists.
CONSTANTS
  T1 = T1
  T2 = T2
  Null = Null
  Blank = Blank
  Items <- MCItems
  Tabs <- MCTabs
  Flags <- MCFlags
  Envs <- MCEnvs
  Names <- MCNames
  GroupNames = {"Group 1", "Control"}
  Numbers <- MCNumbers
  Texts <- MCTexts
  Types <- MCTypes
  KeyOrder <- MCKeyOrder
  Notes = {"note"}
  FlagValues = {"v0", "v1", "unfit"}
  Unfit = "unfit"
  DefaultValue = "v0"
  MaxSegment = 50
  Scenarios <- MCScenarios

SPECIFICATION Spec

CHECK_DEADLOCK FALSE

INVARIANTS
  StoredIsPreviewed
  QuietListIsTrue

PROPERTIES
  UnarchivedOnlyByStaleCopy
  FreshAssignTouchesOneEntry
