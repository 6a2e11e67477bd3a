SPECIFICATION HistorySpec
CONSTANTS
  None = None
  Employees = {e1}
  Departments = {d1, d2}
  Positions = {p1}
  Names = {n1, n2, n3}
  Workers = {w1, w2}
  Ops = {"CreateEmployee", "UpdateEmployee", "SetEmployeeEnabled", "CompleteTransfer", "CompleteDeparture", "UpdateDepartment", "UpdatePosition"}
  MaxEvents = 3
  MaxRestarts = 2
SYMMETRY Symmetry
CONSTRAINT Overlapping
INVARIANT HistorySound
PROPERTY RestartNeutral
CHECK_DEADLOCK FALSE
