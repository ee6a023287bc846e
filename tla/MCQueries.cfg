\* Three queries to two nodes, which compete for one table slot; the own node is
\* known as well.
SPECIFICATION Spec
CONSTANTS
  p1 = p1
  p2 = p2
  p3 = p3
  self = self
  q1 = q1
  q2 = q2
  q3 = q3
  Peers = {p1, p2, self}
  Self = self
  Queries = {q1, q2, q3}
  NoQuery = NoQuery
  MaxFindnodeFailures = 1
  BucketSize = 1
  Fallbacks <- OwnFallback
SYMMETRY AnyQuery
INVARIANTS
  VerificationArmed
  PendingTimed
  QueryPlaced
  KnownAnswers
PROPERTIES
  EndpointSpec
  LinesSpec
