SPECIFICATION FairSpec
CONSTANTS
  ann = ann
  bob = bob
  None = None
  departments = {"dev"}
  title = "dev"
  ops = "pos_ops"
  Employees = {ann, bob}
  Texts = {" dev", "dev", " ", "ops", "general"}
  Names <- MCNames
  Keys <- MCKeys
  Trim <- MCTrim
  Lower <- MCLower
  SqlLower <- MCLower
  Managed = {}
  Catalogue <- MCCatalogue
  General = "pos_general"
  NewPositions = {"pos_new"}
  Departures = {"dpr"}
  Clients = {"ui"}
  MaxStarts = 2
  MaxChanges = 0
  Emp0 <- MCEmp0
  DeptName0 <- MCDeptName0
INVARIANT AdminAskedForPassword
CHECK_DEADLOCK FALSE
