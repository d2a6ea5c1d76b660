SPECIFICATION Spec
CONSTANTS
  c1 = c1
  c2 = c2
  c3 = c3
  c4 = c4
  c5 = c5
  Nobody = Nobody
  Client <- MCClient
  User <- MCClient
  UserOf <- MCUserOf
  RankCount = 2
  Ante = 100
  Deals <- MCDeals2
  Lists <- MCLists1
  MaxSpectators = 1
  Waiters = {}
  MaxExpired = 1
  MaxResets = 1
SYMMETRY MCSymmetry
PROPERTIES
  AutoPassOnlyAfterExpiry
