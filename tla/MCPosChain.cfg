\* Two validators; one makes two blocks, the other one.
SPECIFICATION FairSpec
CONSTANTS
  c1 = c1
  c2 = c2
  NoOne = NoOne
  Conns = {c1, c2}
  Stakes = {0, 1}
  MaxBlocks <- TwoAndOne
INVARIANTS
  TypeOK
  LinkedToEarlier
  ForgedOnce
PROPERTY
  RoundEnds
\* The program stops when it crashes.
CHECK_DEADLOCK FALSE
