SPECIFICATION BotFairSpec
CONSTANTS
  b1 = b1
  b2 = b2
  b3 = b3
  h = h
  Nobody = Nobody
  RankCount = 2
  Ante = 100
  Client <- MCClient
  User <- MCClient
  UserOf <- MCUserOf
  Deals <- MCDealsMixed
  Lists <- MCLow
  MaxSpectators = 0
  Waiters = {}
  MaxExpired = 1
  MaxResets = 1
  Bot <- MCOneBot
  DiffOf <- MCOneEasy
INVARIANTS
  BotTypeOK
  BotKnowsItsHand
PROPERTIES
  ReadyNotWithdrawn
  RoomWithBots
  NoPanicInGame
  GameEnds
CHECK_DEADLOCK FALSE
