\* Two nodes and the own one, two queries, lists of fallback nodes.
SPECIFICATION FairSpec
CONSTANTS
  p1 = p1
  p2 = p2
  p3 = p3
  self = self
  q1 = q1
  q2 = q2
  q3 = q3
  Peers = {p1, p2, self}
  Self = self
  Queries = {q1, q2}
  NoQuery = NoQuery
  MaxFindnodeFailures = 0
  BucketSize = 1
  Fallbacks <- ManyFallbacks
PROPERTIES
  VerificationEnds
  DeferredSettled
  TableRefilled
