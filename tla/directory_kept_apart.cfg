SPECIFICATION ApartSpec
CONSTANTS
  None = None
  Employees = {e1}
  Departments = {d1, d2}
  Positions = {eng}
  Builtin = {}
  Workers = {w1, w2}
  Ops = {"CreateEmployee", "UpdateEmployee", "SetEmployeeEnabled", "DeleteEmployee", "CreateDepartment", "UpdateDepartment", "DeleteDepartment", "UpdatePosition", "DeletePosition", "CreatePosition", "Login", "ExchangeCode"}
  Emp0 <- MCEmp0
  Dept0 <- MCDept0
  Pos0 <- MCPos0
  Offers0 = {}
SYMMETRY Symmetry
INVARIANT DirectorySound
PROPERTY StatusKept
CHECK_DEADLOCK FALSE
