SPECIFICATION Spec
CONSTANTS
  staff = staff
  boss = boss
  home = home
  away = away
  eng = eng
  ops = ops
  None = None
  Admin = Admin
  w1 = w1
  w2 = w2
  r1 = r1
  r2 = r2
  Employees = {staff, boss}
  Departments = {home, away}
  Positions = {eng}
  Builtin = {}
  Workers = {w1, w2}
  Ops = {"UpdateEmployee", "DeleteEmployee", "ExchangeCode"}
  Reviewers = {staff}
  DepartureReviewers = {boss}
  Requests = {r1, r2}
  Kinds = {"leave", "departure", "transfer"}
  LeaveTypes = {"sick"}
  LeaveDays = {6}
  Emp0 <- MCEmp0
  Dept0 <- MCDept0
  Pos0 <- MCPos0
  Offers0 <- MCOffers0
CONSTRAINT SeveralLeaves
CONSTRAINT TokensOfLeavers
SYMMETRY Symmetry
INVARIANT TypeOK
INVARIANT StepDiscipline
INVARIANT ReviewersEntitled
INVARIANT EffectOnce
INVARIANT BalanceMatchesRecords
PROPERTY StageRespected
PROPERTY NoResurrection
PROPERTY DecisionsStand
PROPERTY DepartureClosesAccount
PROPERTY ImplementsLifecycle
CHECK_DEADLOCK FALSE
