------------------------------- MODULE Metric -------------------------------
(***************************************************************************)
(* Distances between node hashes: distcmp (discovery/node.go), by which    *)
(* nodesByDistance is sorted, logdist (discovery/table.go), which numbers  *)
(* the buckets, with its table of leading zeros, and the targets that the  *)
(* periodic bucket refresh measures from (chooseBucketRefreshTarget).  A   *)
(* hash is a sequence of bytes, the most significant first; the prefix     *)
(* that the refresh computes with is an unsigned integer that overflows.   *)
(***************************************************************************)
EXTENDS Integers, FiniteSets, SequencesExt, FiniteSetsExt

CONSTANTS ByteBits,     \* bits of a byte: 8 in the code, or fewer
          Bytes,        \* bytes of a hash: 32 in the code
          PrefixBytes,  \* bytes of the refresh's prefix: 8 in the code
          Selves,       \* hashes of the table's owner
          XorOf(_, _)   \* the exclusive or of bytes and of prefixes: Go's ^

Byte == 0 .. 2 ^ ByteBits - 1
Hashes == [1 .. Bytes -> Byte]

ASSUME WidthAssumption ==
  /\ ByteBits \in 1 .. 8 /\ Bytes \in Nat
  /\ PrefixBytes \in 1 .. Bytes
\* What is used of it.
ASSUME XorAssumption ==
  \A a, b \in Byte :
    XorOf(a, b) \in Byte /\ XorOf(a, b) = XorOf(b, a) /\ XorOf(XorOf(a, b), b) = a /\ XorOf(0, a) = a
ASSUME SelvesAssumption == Selves \subseteq Hashes

VARIABLES
  self,    \* tab.self.sha
  sha,     \* the hash of an entry of the table
  target   \* the target chosen last

metricVars == <<self, sha, target>>

-----------------------------------------------------------------------------
(* Distances *)

\* distcmp: the first byte that differs decides; 1 means that b is nearer.
Differing(a, b) == {i \in 1 .. Bytes : a[i] # b[i]}
DistcmpLast(t, a, b) ==
  IF Differing(a, b) = {} THEN 0
  ELSE LET i == Max(Differing(a, b))
       IN  IF XorOf(a[i], t[i]) > XorOf(b[i], t[i]) THEN 1 ELSE -1
Distcmp(t, a, b) ==
  IF Differing(a, b) = {} THEN 0
  ELSE LET i == Min(Differing(a, b))
       IN  IF XorOf(a[i], t[i]) > XorOf(b[i], t[i]) THEN 1 ELSE -1

\* lzcount, in rows of eight.
Rows(n, z) == [i \in 1 .. 8 * n |-> z]
lzcount == <<8, 7, 6, 6, 5, 5, 5, 5>> \o Rows(1, 4) \o Rows(2, 3) \o Rows(4, 2)
             \o Rows(8, 1) \o Rows(16, 0)

\* What the table is for: x has 8 - lzcount[x] bits.  Nothing in it is a
\* parameter: TLC decides it.
ASSUME LzcountAssumption ==
  \A x \in 1 .. 255 :
    LET z == lzcount[x + 1]
    IN  z \in 0 .. 8 /\ x < 2 ^ (8 - z) /\ 2 * x >= 2 ^ (8 - z)

\* The leading zeros of a byte, from the table, whose bytes have eight bits.
LeadingZeros(x) == lzcount[x + 1] - (8 - ByteBits)

\* logdist: the leading zeros up to the first byte that differs.
Logdist(a, b) ==
  IF Differing(a, b) = {} THEN 0
  ELSE LET i == Min(Differing(a, b))
       IN  Bytes * ByteBits - ((i - 1) * ByteBits + LeadingZeros(XorOf(a[i], b[i])))

-----------------------------------------------------------------------------
(* The target of a bucket refresh *)

MaxPrefix == 2 ^ (PrefixBytes * ByteBits) - 1
PrefixOf(h, k) == FoldLeft(LAMBDA v, b : v * 2 ^ ByteBits + b, 0, SubSeq(h, 1, k))
Prefix(h) == PrefixOf(h, PrefixBytes)

\* The bound of the random distance, for an entry at distance dist: dist
\* itself, if twice as much neither overflows nor is 0.
Ddist(dist) == IF (dist + dist) % (MaxPrefix + 1) > dist THEN dist ELSE MaxPrefix

\* randUint64n.
Random(max) == IF max < 2 THEN {0} ELSE 0 .. max - 1

\* An entry is picked, or none.  The bytes behind the prefix are random.
ChooseBucketRefreshTarget(pick) ==
  LET dist == IF pick THEN XorOf(Prefix(sha), Prefix(self)) ELSE MaxPrefix
  IN  /\ target' \in {t \in Hashes : XorOf(Prefix(t), Prefix(self)) \in Random(Ddist(dist))}
      /\ UNCHANGED <<self, sha>>

MetricInit ==
  /\ self \in Selves
  /\ sha \in Hashes
  /\ target = self

MetricNext == \E pick \in BOOLEAN : ChooseBucketRefreshTarget(pick)

MetricSpec == MetricInit /\ [][MetricNext]_metricVars

-----------------------------------------------------------------------------
\* The distance of two hashes: their exclusive or, as a number.
Distance(a, b) == PrefixOf([i \in 1 .. Bytes |-> XorOf(a[i], b[i])], Bytes)

\* Looking at the first differing byte only orders nodes by their distance
\* from the target, so that lists sorted by distcmp start with the nearest
\* nodes, and the table of leading zeros makes logdist the length of the
\* distance in bits: bucket k holds the distances from 2^(k-1) to 2^k - 1.
MetricIsXor ==
  LET toSelf == Distance(target, self)
      toSha  == Distance(target, sha)
      d      == Distance(self, sha)
      k      == Logdist(self, sha)
  IN  /\ Distcmp(target, self, sha) = IF toSelf > toSha THEN 1 ELSE IF toSelf < toSha THEN -1 ELSE 0
      /\ IF d = 0 THEN k = 0 ELSE k > 0 /\ 2 ^ (k - 1) <= d /\ d < 2 ^ k
=============================================================================
