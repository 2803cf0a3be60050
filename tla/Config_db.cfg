CONSTANTS
  Proc = {p1, p2}
  Key <- KeyMC
  Databases = {"", "X"}
  Batches <- BatchesMC
  Definitions <- DefinitionsMC
  SegmentLists <- SegmentListsMC
  Numbers = {1}
  Settings <- SettingsMC
  Values = {"dbo"}
  Today = 20000
  MaxId = 3
  MaxJobs = 3
  None = None

SPECIFICATION Spec
INVARIANT ImportedTablesAreComplete
PROPERTY MigrationIsRemembered
SYMMETRY Perms
CHECK_DEADLOCK FALSE
