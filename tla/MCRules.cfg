SPECIFICATION Spec
CONSTANTS
  RankCount = 6
  Held = {4, 5, 6, 7, 8, 9, 12, 13, 16, 17, 22}
  Laid = {0, 1, 2, 3, 10, 11, 14, 15, 20, 21, 23}
INVARIANTS
  ClassifiedAsDocumented
  BeatsAsDocumented
  ChoiceAccepted
  DecompositionIsPartition
  HardSavesTwos
  FindsABeatingPlay
CHECK_DEADLOCK FALSE
