SPECIFICATION GwSpec
CONSTANTS
  r1 = r1
  r2 = r2
  w1 = w1
  w2 = w2
  Requests = {r1, r2}
  Workers = {w1, w2}
  Skew = 2
  Drifts <- SomeDrifts
  MaxAge = 2
SYMMETRY WorkersAlike
INVARIANT AcceptedRemembered
INVARIANT RefusedForCause
PROPERTY AcceptedOnce
