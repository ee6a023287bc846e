\* Each component alone: three hosts, one of which we contact; networks of up
\* to two addresses; addresses of every kind; all hashes of six bits; answers
\* of up to three packets; every sequence of settings, starts and stops
\* that creates up to three networks.
SPECIFICATION MCSpec
CONSTANTS
  h1 = h1
  h2 = h2
  h3 = h3
  e1 = e1
  e2 = e2
  Hosts = {h1, h2, h3}
  Contacts = {h1}
  Endpoints = {e1, e2}
  NoEndpoint = NoEndpoint
  Window = 1
  ContactWindow = 2
  MinStatements = 1
  MaxTime = 4
  IPs <- SetIPs
  Addresses <- RelayIPs
  NoIP = NoIP
  n1 = n1
  n2 = n2
  Relayed = {n1, n2}
  Unspecified <- ZeroIPs
  Loopbacks <- LoopbackNets
  Multicasts <- MulticastNets
  lan <- LANNets
  special <- SpecialNets
  Subnet = 2
  Limit = 2
  MaxOffers = 2
  ByteBits = 3
  Bytes = 2
  PrefixBytes = 1
  Selves <- TwoSelves
  XorOf <- BitXor
  Results <- UpToSeven
  BufferSize = 12
  HeadSize = 2
  NodeSize = 3
  MaxNetworks = 3
INVARIANTS
  PredictionIsMajority
  NoConeMeansContacted
  DistinctNets
  NoDetour
  MetricIsXor
  AnswerArrives
  Served
  PanicsWithoutKey
PROPERTY InsertionsCollect
\* The loop of sendNeighbours ends, and a program that panicked has stopped.
CHECK_DEADLOCK FALSE
