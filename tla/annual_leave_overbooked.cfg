SPECIFICATION Spec
CONSTANTS
  staff = staff
  boss = boss
  home = home
  away = away
  eng = eng
  ops = ops
  None = None
  Admin = Admin
  w1 = w1
  w2 = w2
  r1 = r1
  r2 = r2
  Employees = {staff, boss}
  Departments = {home}
  Positions = {eng}
  Builtin = {}
  Workers = {w1, w2}
  Ops = {}
  Reviewers = {boss}
  DepartureReviewers = {boss}
  Requests = {r1, r2}
  Kinds = {"leave"}
  LeaveTypes = {"annual"}
  LeaveDays = {6}
  Emp0 <- MCEmp0
  Dept0 <- MCDept0
  Pos0 <- MCPos0
  Offers0 <- MCOffers0
SYMMETRY Symmetry
INVARIANT AnnualWithinEntitlement
CHECK_DEADLOCK FALSE
