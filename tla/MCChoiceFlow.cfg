SPECIFICATION Spec
CONSTANTS
  MaxOptions = 2
  RawLists <- MCRawLists
  MaxTaps = 5
  Tasks = {t1, t2}
SYMMETRY TaskSymmetry
INVARIANTS
  TypeOK
  LastTapDecides
  OptionsAreTheBest
  NeverStuck
  OneJobPerDialogue
PROPERTY SequentialChoicesAreKept
CHECK_DEADLOCK FALSE
