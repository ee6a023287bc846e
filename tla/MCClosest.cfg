\* A node is both in the bucket and among its replacements.
SPECIFICATION Spec
CONSTANTS
  p1 = p1
  p2 = p2
  p3 = p3
  self = self
  q1 = q1
  q2 = q2
  q3 = q3
  Peers = {p1, p2, p3}
  Self = self
  Queries = {q1}
  NoQuery = NoQuery
  MaxFindnodeFailures = 0
  BucketSize = 2
  Fallbacks <- OneFallback
INVARIANT ClosestDistinct
