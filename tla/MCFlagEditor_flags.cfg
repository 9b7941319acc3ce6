\* Flags, from the form, the list and the variant dialog to the rows and back.
CONSTANTS
  T1 = T1
  T2 = T2
  Null = Null
  Items <- MCItems
  Tabs <- MCTabs
  Envs <- MCEnvs
  Names <- MCNames
  GroupNames = {}
  Numbers = {}
  Texts <- MCTexts
  Types = {"region"}
  KeyOrder <- MCKeyOrder
  Notes = {"note"}
  FlagTypes = {"bool", "string", "int", "double", "date", "json"}
  NumberTexts = {"", "1.5", "7"}
  JsonTexts = {"{}", "7"}
  StringTexts = {"", "a"}
  DateTexts = {"", "today"}
  MaxSegment = 50
  Scenarios <- MCScenarios

SPECIFICATION Spec

CHECK_DEADLOCK FALSE

INVARIANTS
  FormsStoreFaithfully
  RowOffersAreAccepted
  AwaitedEditsKept

PROPERTY
  HiddenKept
