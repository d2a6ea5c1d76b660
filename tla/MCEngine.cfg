SPECIFICATION Spec
CONSTANTS
  c1 = c1
  c2 = c2
  c3 = c3
  c4 = c4
  c5 = c5
  Nobody = Nobody
  Client <- MCClient5
  User <- MCClient5
  UserOf <- MCUserOf5
  RankCount = 4
  Ante = 100
  Deals <- MCDeals4
  Lists <- MCLists4
  MaxSpectators = 1
  Waiters = {}
  MaxExpired = 1
  MaxResets = 2
SYMMETRY MCSymmetry5
INVARIANTS
  SettlementAsDocumented
  TypeOK
  SeatedWhilePlaying
  TurnFollowsPlay
  TurnHasTimer
  CardsConserved
  WinnerEmptied
  CleanLobby
  MembershipAgrees
PROPERTIES
  RoundGoesToLastPlayer
  GameNotThrownAway
  PlaysComeFromHands
  ImplementsRound
