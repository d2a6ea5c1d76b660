SPECIFICATION FairSpec
CONSTANTS
  c1 = c1
  c2 = c2
  c3 = c3
  c4 = c4
  c5 = c5
  Nobody = Nobody
  Client <- MCClient
  User <- MCClient
  UserOf <- MCUserOf
  RankCount = 2
  Ante = 100
  Deals <- MCDeals2
  Lists <- MCLists3
  MaxSpectators = 0
  Waiters <- MCWaiters1
  MaxExpired = 1
  MaxResets = 1
PROPERTIES
  TurnMoves
  SettlementEnds
