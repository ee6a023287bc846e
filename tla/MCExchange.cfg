\* A party that stays and one that moves; pings are sent in two seconds.
SPECIFICATION FairSpec
CONSTANTS
  A = A
  B = B
  a1 = a1
  b1 = b1
  b2 = b2
  Parties = {A, B}
  Homes <- HomesAB
  None = None
  MaxSecond = 1
  MaxPackets = 3
INVARIANTS
  TypeOK
  AllAnswered
PROPERTIES
  KnownAddressKept
  WaitSuffices
  HandshakeCompletes
