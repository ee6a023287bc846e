\* A block collected after the round it was made in.
SPECIFICATION Spec
CONSTANTS
  c1 = c1
  c2 = c2
  NoOne = NoOne
  Conns = {c1, c2}
  Stakes = {0, 1}
  MaxBlocks <- TwoAndOne
INVARIANT ChainValid
\* The program stops when it crashes.
CHECK_DEADLOCK FALSE
