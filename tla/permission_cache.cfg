SPECIFICATION FairPermSpec
CONSTANTS
  ann = ann
  root = root
  review = review
  w1 = w1
  w2 = w2
  Users = {ann, root}
  Admins = {root}
  Perms = {review}
  Workers = {w1, w2}
  TTL = 3
  MaxAge = 2
INVARIANT GrantsFresh
INVARIANT RefusalsFresh
PROPERTY RevocationTakesEffect
