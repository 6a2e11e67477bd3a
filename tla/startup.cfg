SPECIFICATION FairSpec
CONSTANTS
  \* named first: of two positions TLC takes this one, as First (ORDER BY id) does
  ops = "pos_ops"
  ann = ann
  bob = bob
  None = None
  departments = {"dev", " "}
  title = "dev"
  Employees = {ann, bob}
  Texts = {" dev", "dev", " ", "ops", "Ops", "general"}
  Names <- MCNames
  Keys <- MCKeys
  Trim <- MCTrim
  Lower <- MCLower
  SqlLower <- MCLower
  Managed = {"dep_ops"}
  Catalogue <- MCCatalogue
  General = "pos_general"
  NewPositions = {"pos_new"}
  Departures = {"dpr"}
  Clients = {"ui"}
  MaxStarts = 3
  MaxChanges = 2
  Emp0 <- MCEmp0
  DeptName0 <- MCDeptName0
INVARIANT StartupSound
INVARIANT MigratedRowsAgree
PROPERTY PlacesKept
PROPERTY ChoicesKept
PROPERTY OpenFinishes
CHECK_DEADLOCK FALSE
