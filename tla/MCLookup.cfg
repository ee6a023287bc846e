\* Nodes at different distances, and one more than fit in the result.
SPECIFICATION FairSpec
CONSTANTS
  self = self
  p1 = p1
  p2 = p2
  p3 = p3
  p4 = p4
  Peers = {p1, p2, p3, p4}
  Self = self
  Distance <- SomeDistances
  Answers <- ShortAnswers
  Alpha = 2
  BucketSize = 4
INVARIANTS
  TypeOK
  RoomForReplies
  PendingCounted
  ResultNearest
PROPERTIES
  Terminates
  SearchSpec
\* A lookup returns; replies that come late are the last steps.
CHECK_DEADLOCK FALSE
