\* A node is contested while an earlier ping is still open.
SPECIFICATION Spec
CONSTANTS
  p1 = p1
  p2 = p2
  p3 = p3
  self = self
  q1 = q1
  q2 = q2
  q3 = q3
  Peers = {p1, p2, p3}
  Self = self
  Queries = {q1}
  NoQuery = NoQuery
  MaxFindnodeFailures = 0
  BucketSize = 1
  Fallbacks <- OneFallback
INVARIANT ContestedRevalidated
