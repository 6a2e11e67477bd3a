SPECIFICATION ViewSpec
CONSTANTS
  staff = staff
  boss = boss
  home = home
  away = away
  eng = eng
  ops = ops
  None = None
  Admin = Admin
  w1 = w1
  r1 = r1
  r2 = r2
  Employees = {staff, boss}
  Departments = {home, away}
  Positions = {eng, ops}
  Builtin = {}
  Workers = {w1}
  Ops = {"SetEmployeeEnabled"}
  Reviewers = {boss}
  DepartureReviewers = {}
  Requests = {r1, r2}
  Kinds = {"leave", "departure", "transfer"}
  LeaveTypes = {"annual"}
  LeaveDays = {4, 6}
  Emp0 <- MCEmp0
  Dept0 <- MCDept0
  Pos0 <- MCPos0
  Offers0 <- MCOffers0
CONSTRAINT TwoOfStaff
SYMMETRY Symmetry
INVARIANT OnePendingPerKind
INVARIANT AnnualWithinEntitlement
INVARIANT DirectorySound
INVARIANT ViewsSound
INVARIANT EndInReach
PROPERTY ResultsReachApplicant
CHECK_DEADLOCK FALSE
