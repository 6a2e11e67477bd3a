SPECIFICATION RecSpec
CONSTANTS
  ann = ann
  meg = meg
  home = home
  away = away
  g1 = g1
  c1 = c1
  c2 = c2
  w1 = w1
  None = None
  People = {ann, meg}
  Departments = {home, away}
  Contracts = {c1, c2}
  Goals = {g1}
  Managers = {meg}
  Viewers = {ann}
  Workers = {w1}
SYMMETRY Alike
INVARIANT OneActiveContract
INVARIANT GoalAuthority
INVARIANT ButtonsHonoured
PROPERTY DeletedStaysDeleted
