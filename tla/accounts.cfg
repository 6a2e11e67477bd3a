SPECIFICATION ApiSpec
CONSTANTS
  ann = ann
  bob = bob
  p1 = p1
  p2 = p2
  ui = ui
  s1 = s1
  s2 = s2
  k1 = k1
  t1 = t1
  t2 = t2
  w1 = w1
  w2 = w2
  None = None
  Employees = {ann, bob}
  Passwords = {p1}
  Clients = {ui}
  Sessions = {s1, s2}
  Codes = {k1}
  Tokens = {t1, t2}
  Workers = {w1, w2}
SYMMETRY Symmetry
INVARIANT FirstLoginSound
INVARIANT CodeRedeemedOnce
INVARIANT ServedRightly
PROPERTY PasswordChangeEndsSessions
PROPERTY ImplementsDelegation
CHECK_DEADLOCK FALSE
