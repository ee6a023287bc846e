\* Three nodes compete for a bucket of two entries; the own node is a fallback.
SPECIFICATION Spec
CONSTANTS
  p1 = p1
  p2 = p2
  p3 = p3
  self = self
  q1 = q1
  q2 = q2
  q3 = q3
  Peers = {p1, p2, p3, self}
  Self = self
  Queries = {q1}
  NoQuery = NoQuery
  MaxFindnodeFailures = 0
  BucketSize = 2
  Fallbacks <- OwnFallback
SYMMETRY NewPeers
INVARIANTS
  TypeOK
  TableVetted
  TableConsistent
