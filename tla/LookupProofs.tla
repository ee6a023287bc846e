---------------------------- MODULE LookupProofs ----------------------------
(***************************************************************************)
(* The bookkeeping of one lookup is right, and its result is the nearest   *)
(* of all the nodes it heard of, for any Alpha, any set of nodes, any      *)
(* distances and whatever the replies contain.                             *)
(***************************************************************************)
EXTENDS Lookup, SequenceLemmas

-----------------------------------------------------------------------------
(* Counting the replies *)

\* What the count of open queries rests on: there are finitely many, each to
\* a node that was asked and on a channel that was made.
Counted ==
  /\ filled \in Seq(Nat)
  /\ filled # <<>>
  /\ pendingQueries \in Nat
  /\ IsFiniteSet(open)
  /\ open \subseteq asked \X (1 .. Len(filled))

Inv == Counted /\ RoomForReplies /\ PendingCounted

\* The queries open on a channel are finitely many.
LEMMA OpenOnFinite ==
  ASSUME Counted, NEW c
  PROVE  IsFiniteSet(OpenOn(c)) /\ Cardinality(OpenOn(c)) \in Nat
BY FS_Subset, FS_CardinalityType DEF Counted, OpenOn

\* The channels are numbered from one, and the current one is the last.
LEMMA Channels ==
  ASSUME Counted
  PROVE  /\ Len(filled) \in Nat \ {0}
         /\ DOMAIN filled = 1 .. Len(filled)
         /\ reply \in DOMAIN filled
         /\ \A c \in DOMAIN filled : filled[c] \in Nat
BY DEF Counted, reply

\* Changing a channel's fill changes nothing else.
LEMMA Refill ==
  ASSUME Counted, NEW c \in DOMAIN filled, NEW k \in Nat
  PROVE  LET f == [filled EXCEPT ![c] = k]
         IN  /\ f \in Seq(Nat) /\ f # <<>>
             /\ Len(f) = Len(filled)
             /\ \A d \in DOMAIN filled : f[d] = IF d = c THEN k ELSE filled[d]
BY Channels DEF Counted

\* A lookup starts with an empty channel and no queries.
LEMMA InvInit == Init => Inv
<1> SUFFICES ASSUME Init PROVE Inv
  OBVIOUS
<1>1. /\ filled = <<0>> /\ open = {} /\ pendingQueries = 0
      /\ Len(filled) = 1
      /\ filled \in Seq(Nat)
      /\ DOMAIN filled = {1}
      /\ filled[1] = 0
  BY DEF Init
<1>2. \A c : OpenOn(c) = {} /\ Cardinality(OpenOn(c)) = 0
  BY <1>1, FS_EmptySet DEF OpenOn
<1>3. Counted
  BY <1>1, FS_EmptySet DEF Counted
<1>4. RoomForReplies /\ PendingCounted
  BY <1>1, <1>2, AlphaAssumption DEF RoomForReplies, PendingCounted, reply
<1> QED
  BY <1>3, <1>4 DEF Inv

\* A query taken by the main loop.
LEMMA AskStep ==
  ASSUME Inv, Ask
  PROVE  Inv'
<1>1. /\ Counted
      /\ pendingQueries < Alpha
      /\ pendingQueries = filled[reply] + Cardinality(OpenOn(reply))
      /\ \A c \in DOMAIN filled : filled[c] + Cardinality(OpenOn(c)) <= Alpha
      /\ pendingQueries' = pendingQueries + 1
  BY DEF Inv, Ask, MoreToAsk, RoomForReplies, PendingCounted
<1>2. PICK n : n \notin asked /\ asked' = asked \cup {n} /\ Submit(n)
  BY DEF Ask, Unasked
<1>3. reply \in DOMAIN filled /\ filled[reply] \in Nat /\ DOMAIN filled = 1 .. Len(filled)
  BY <1>1, Channels
<1>4. CASE n = Self
  <2>1. filled' = [filled EXCEPT ![reply] = filled[reply] + 1] /\ open' = open
    BY <1>2, <1>4 DEF Submit
  <2>2. /\ filled' \in Seq(Nat) /\ filled' # <<>> /\ Len(filled') = Len(filled)
        /\ \A d \in DOMAIN filled :
             filled'[d] = IF d = reply THEN filled[reply] + 1 ELSE filled[d]
    BY <1>1, <1>3, <2>1, Refill
  <2>3. reply' = reply /\ DOMAIN filled' = DOMAIN filled
    BY <2>1, <2>2 DEF reply
  <2>4. \A c : OpenOn(c)' = OpenOn(c)
    BY <2>1 DEF OpenOn
  <2>5. Counted'
    BY <1>1, <1>2, <2>1, <2>2 DEF Counted
  <2>6. \A c \in DOMAIN filled : Cardinality(OpenOn(c)) \in Nat /\ filled[c] \in Nat
    BY <1>1, OpenOnFinite, Channels
  <2>7. RoomForReplies' /\ PendingCounted'
    <3>1. \A c \in DOMAIN filled : Cardinality(OpenOn(c)') = Cardinality(OpenOn(c))
      BY <2>4
    <3>2. PendingCounted'
      BY <1>1, <1>3, <2>2, <2>3, <2>6, <3>1 DEF PendingCounted
    <3>3. \A c \in DOMAIN filled : filled'[c] + Cardinality(OpenOn(c)') <= Alpha
      <4>1. filled'[reply] + Cardinality(OpenOn(reply)') <= Alpha
        <5> DEFINE k == Cardinality(OpenOn(reply))
        <5>1. k \in Nat /\ Cardinality(OpenOn(reply)') = k
          BY <1>3, <2>3, <2>6, <3>1
        <5>2. filled'[reply] = filled[reply] + 1 /\ filled[reply] + k < Alpha
          BY <1>1, <1>3, <2>2
        <5> HIDE DEF k
        <5> QED
          BY <1>3, <5>1, <5>2, AlphaAssumption
      <4>2. \A c \in DOMAIN filled : c # reply => filled'[c] = filled[c]
        BY <2>2
      <4> QED
        <5> TAKE c \in DOMAIN filled
        <5>1. CASE c = reply
          BY <2>3, <4>1, <5>1
        <5>2. CASE c # reply
          BY <1>1, <3>1, <4>2, <5>2
        <5> QED
          BY <5>1, <5>2
    <3> QED
      BY <2>3, <3>2, <3>3 DEF RoomForReplies
  <2> QED
    BY <2>5, <2>7 DEF Inv
<1>5. CASE n # Self
  <2>1. open' = open \cup {<<n, reply>>} /\ filled' = filled /\ reply' = reply
    BY <1>2, <1>5 DEF Submit, reply
  <2>2. OpenOn(reply)' = OpenOn(reply) \cup {<<n, reply>>}
    BY <2>1 DEF OpenOn
  <2>3. \A c : c # reply => OpenOn(c)' = OpenOn(c)
    BY <2>1 DEF OpenOn
  <2>4. <<n, reply>> \notin OpenOn(reply)
    BY <1>1, <1>2 DEF OpenOn, Counted
  <2>5. Cardinality(OpenOn(reply)') = Cardinality(OpenOn(reply)) + 1
    BY <1>1, <2>2, <2>4, OpenOnFinite, FS_AddElement
  <2>6. Counted'
    <3>1. IsFiniteSet(open')
      BY <1>1, <2>1, FS_AddElement DEF Counted
    <3>2. open' \subseteq asked' \X (1 .. Len(filled'))
      BY <1>1, <1>2, <1>3, <2>1 DEF Counted
    <3> QED
      BY <1>1, <2>1, <3>1, <3>2 DEF Counted
  <2>7. \A c \in DOMAIN filled : Cardinality(OpenOn(c)) \in Nat /\ filled[c] \in Nat
    BY <1>1, OpenOnFinite, Channels
  <2>8. RoomForReplies' /\ PendingCounted'
    BY <1>1, <1>3, <2>1, <2>3, <2>5, <2>7, AlphaAssumption
       DEF RoomForReplies, PendingCounted
  <2> QED
    BY <2>6, <2>8 DEF Inv
<1> QED
  BY <1>4, <1>5

\* A reply moves from the open queries into its channel.
LEMMA ReplyStep ==
  ASSUME Inv, NEW q \in open, Reply(q)
  PROVE  Inv'
<1> DEFINE c == q[2]
<1>1. /\ Counted
      /\ pendingQueries = filled[reply] + Cardinality(OpenOn(reply))
      /\ \A d \in DOMAIN filled : filled[d] + Cardinality(OpenOn(d)) <= Alpha
      /\ open' = open \ {q}
      /\ filled' = [filled EXCEPT ![c] = filled[c] + 1]
      /\ UNCHANGED <<asked, pendingQueries>>
  BY DEF Inv, Reply, RoomForReplies, PendingCounted
<1>2. c \in DOMAIN filled /\ DOMAIN filled = 1 .. Len(filled) /\ filled[c] \in Nat
  BY <1>1, Channels DEF Counted
<1>3. /\ filled' \in Seq(Nat) /\ filled' # <<>> /\ Len(filled') = Len(filled)
      /\ \A d \in DOMAIN filled : filled'[d] = IF d = c THEN filled[c] + 1 ELSE filled[d]
  BY <1>1, <1>2, Refill
<1>4. reply' = reply /\ DOMAIN filled' = DOMAIN filled
  BY <1>1, <1>3 DEF reply
<1>5. OpenOn(c)' = OpenOn(c) \ {q} /\ q \in OpenOn(c)
  BY <1>1 DEF OpenOn
<1>6. \A d : d # c => OpenOn(d)' = OpenOn(d)
  BY <1>1 DEF OpenOn
<1>7. Cardinality(OpenOn(c)') = Cardinality(OpenOn(c)) - 1
  BY <1>1, <1>5, OpenOnFinite, FS_RemoveElement
<1>8. Counted'
  BY <1>1, <1>3, FS_RemoveElement DEF Counted
<1>9. \A d \in DOMAIN filled : Cardinality(OpenOn(d)) \in Nat /\ filled[d] \in Nat
  BY <1>1, OpenOnFinite, Channels
<1>10. \A d \in DOMAIN filled :
         filled'[d] + Cardinality(OpenOn(d)') = filled[d] + Cardinality(OpenOn(d))
  <2> HIDE DEF c
  <2> TAKE d \in DOMAIN filled
  <2>1. CASE d = c
    <3> DEFINE k == Cardinality(OpenOn(c))
    <3>1. k \in Nat /\ Cardinality(OpenOn(c)') = k - 1 /\ filled'[c] = filled[c] + 1
      BY <1>2, <1>3, <1>7, <1>9
    <3>2. OpenOn(d)' = OpenOn(c)' /\ Cardinality(OpenOn(d)) = k
      BY <2>1
    <3> HIDE DEF k
    <3> QED
      BY <1>2, <2>1, <3>1, <3>2
  <2>2. CASE d # c
    BY <1>3, <1>6, <2>2
  <2> QED
    BY <2>1, <2>2
<1>11. reply \in DOMAIN filled
  BY <1>1, Channels
<1>12. RoomForReplies'
  BY <1>1, <1>4, <1>10 DEF RoomForReplies
<1>13. PendingCounted'
  BY <1>1, <1>4, <1>10, <1>11 DEF PendingCounted
<1> QED
  BY <1>8, <1>12, <1>13 DEF Inv

\* A reply is taken from the current channel.
LEMMA ReceiveStep ==
  ASSUME Inv, NEW answer \in Answers, Receive(answer)
  PROVE  Inv'
<1>1. /\ Counted
      /\ pendingQueries = filled[reply] + Cardinality(OpenOn(reply))
      /\ \A d \in DOMAIN filled : filled[d] + Cardinality(OpenOn(d)) <= Alpha
      /\ pendingQueries > 0 /\ filled[reply] > 0
      /\ filled' = [filled EXCEPT ![reply] = filled[reply] - 1]
      /\ pendingQueries' = pendingQueries - 1
      /\ UNCHANGED <<asked, open>>
  BY DEF Inv, Receive, RoomForReplies, PendingCounted
<1>2. reply \in DOMAIN filled /\ filled[reply] \in Nat /\ filled[reply] - 1 \in Nat
  BY <1>1, Channels
<1>3. /\ filled' \in Seq(Nat) /\ filled' # <<>> /\ Len(filled') = Len(filled)
      /\ \A d \in DOMAIN filled :
           filled'[d] = IF d = reply THEN filled[reply] - 1 ELSE filled[d]
  BY <1>1, <1>2, Refill
<1>4. reply' = reply /\ DOMAIN filled' = DOMAIN filled /\ \A d : OpenOn(d)' = OpenOn(d)
  BY <1>1, <1>3, Channels DEF reply, OpenOn, Counted
<1>5. Counted'
  BY <1>1, <1>3 DEF Counted
<1>6. \A d \in DOMAIN filled : Cardinality(OpenOn(d)) \in Nat /\ filled[d] \in Nat
  BY <1>1, OpenOnFinite, Channels
<1>7. RoomForReplies'
  BY <1>1, <1>2, <1>3, <1>4, <1>6, AlphaAssumption DEF RoomForReplies
<1>8. PendingCounted'
  BY <1>1, <1>2, <1>3, <1>4, <1>6 DEF PendingCounted
<1> QED
  BY <1>5, <1>7, <1>8 DEF Inv

\* The new channel is empty, and no open query replies to it.
LEMMA TimeoutStep ==
  ASSUME Inv, Timeout
  PROVE  Inv'
<1>1. /\ Counted
      /\ \A d \in DOMAIN filled : filled[d] + Cardinality(OpenOn(d)) <= Alpha
      /\ filled' = Append(filled, 0)
      /\ pendingQueries' = 0
      /\ UNCHANGED <<asked, open>>
  BY DEF Inv, Timeout, Forgotten, NewChannel, RoomForReplies
<1>2. /\ filled' \in Seq(Nat) /\ filled' # <<>> /\ Len(filled') = Len(filled) + 1
      /\ Len(filled) \in Nat
      /\ \A d \in 1 .. Len(filled) : filled'[d] = filled[d]
      /\ filled'[Len(filled) + 1] = 0
      /\ DOMAIN filled' = 1 .. Len(filled) + 1
      /\ DOMAIN filled = 1 .. Len(filled)
  BY <1>1 DEF Counted
<1>3. \A d : OpenOn(d)' = OpenOn(d)
  BY <1>1 DEF OpenOn
<1>4. OpenOn(Len(filled) + 1) = {}
  BY <1>1, <1>2 DEF OpenOn, Counted
<1>5. Cardinality(OpenOn(Len(filled) + 1)) = 0
  BY <1>4, FS_EmptySet
<1>6. Counted'
  BY <1>1, <1>2 DEF Counted
<1>7. RoomForReplies'
  BY <1>1, <1>2, <1>3, <1>5, AlphaAssumption DEF RoomForReplies
<1>8. PendingCounted'
  BY <1>1, <1>2, <1>3, <1>5 DEF PendingCounted, reply
<1> QED
  BY <1>6, <1>7, <1>8 DEF Inv

\* Every step keeps the count of replies on every channel.
LEMMA InvStep == Inv /\ [Next]_vars => Inv'
<1> SUFFICES ASSUME Inv, [Next]_vars PROVE Inv'
  OBVIOUS
<1>1. ASSUME UNCHANGED <<asked, filled, open, pendingQueries>>  PROVE Inv'
  BY <1>1 DEF Inv, Counted, RoomForReplies, PendingCounted, OpenOn, reply
<1>2. CASE Finish
  BY <1>1, <1>2 DEF Finish
<1>3. CASE UNCHANGED vars
  BY <1>1, <1>3 DEF vars
<1> QED
  BY <1>2, <1>3, AskStep, ReplyStep, ReceiveStep, TimeoutStep DEF Next, Select

\* The main loop never finds a reply channel full, however late it replies and
\* however often the lookup has started over (net.go: the channel made with
\* room for alpha replies, and made anew when the timeout expires).
THEOREM RepliesHaveRoom == Spec => []RoomForReplies
<1>1. Inv => RoomForReplies
  BY DEF Inv
<1> QED
  BY <1>1, InvInit, InvStep, PTL DEF Spec

\* lookup waits for a reply exactly while one is due or there (net.go: the
\* increment before reqQueryFindnode, the decrement after a reply, the reset).
THEOREM PendingIsCounted == Spec => []PendingCounted
<1>1. Inv => PendingCounted
  BY DEF Inv
<1> QED
  BY <1>1, InvInit, InvStep, PTL DEF Spec

-----------------------------------------------------------------------------
(* The result *)

\* The list h is sorted, and it is that of the BucketSize nearest nodes of S.
Sorted(h) == \A i, j \in DOMAIN h : i < j => Distance[h[i]] <= Distance[h[j]]
Nearest(h, S) ==
  /\ ToSet(h) \subseteq S
  /\ IsInjective(h)
  /\ Len(h) = IF Cardinality(S) < BucketSize THEN Cardinality(S) ELSE BucketSize
  /\ Sorted(h)
  /\ \A n \in S \ ToSet(h), m \in ToSet(h) : Distance[m] <= Distance[n]

\* In a sorted list the place of a node is behind those that are not farther
\* away and before those that are.
LEMMA PlaceSplits ==
  ASSUME NEW h \in Seq(Nodes), Sorted(h), NEW n \in Nodes
  PROVE  /\ Place(h, n) \in 1 .. Len(h) + 1
         /\ \A i \in 1 .. Len(h) : i < Place(h, n) <=> Distance[h[i]] <= Distance[n]
<1> DEFINE K == {i \in DOMAIN h : Distance[h[i]] <= Distance[n]}
<1>1. /\ Len(h) \in Nat /\ DOMAIN h = 1 .. Len(h)
      /\ \A i \in 1 .. Len(h) : Distance[h[i]] \in Nat
      /\ Distance[n] \in Nat
  BY LenProperties, ElementOfSeq, DistanceAssumption
<1>2. K \in SUBSET (1 .. Len(h))
  BY <1>1
<1>3. \A i \in 1 .. Len(h), j \in K : i < j => i \in K
  BY <1>1 DEF Sorted
<1>4. Cardinality(K) \in 0 .. Len(h) /\ K = 1 .. Cardinality(K)
  <2> HIDE DEF K
  <2> QED
    BY <1>1, <1>2, <1>3, PrefixOfPositions
<1>5. Place(h, n) = Cardinality(K) + 1
  BY DEF Place
<1>6. \A i \in 1 .. Len(h) : i \in K <=> i < Place(h, n)
  <2> DEFINE c == Cardinality(K)
  <2>1. c \in 0 .. Len(h) /\ Place(h, n) = c + 1 /\ K = 1 .. c
    BY <1>4, <1>5
  <2> HIDE DEF c, K
  <2> QED
    BY <1>1, <2>1
<1>7. \A i \in 1 .. Len(h) : i \in K <=> Distance[h[i]] <= Distance[n]
  BY <1>1
<1>8. Place(h, n) \in 1 .. Len(h) + 1
  <2> HIDE DEF K
  <2> QED
    BY <1>1, <1>4, <1>5
<1> HIDE DEF K
<1> QED
  BY <1>6, <1>7, <1>8

\* What push does to a sorted list: the node is at its place, unless that is
\* behind the last one there is room for.
LEMMA PushProperties ==
  ASSUME NEW h \in Seq(Nodes), Sorted(h), NEW n \in Nodes, Len(h) <= BucketSize
  PROVE  LET p == Place(h, n)
             q == Push(h, n)
         IN  /\ q \in Seq(Nodes)
             /\ Len(q) = IF Len(h) < BucketSize THEN Len(h) + 1 ELSE BucketSize
             /\ \A i \in 1 .. Len(q) :
                  q[i] = IF i < p THEN h[i] ELSE IF i = p THEN n ELSE h[i - 1]
<1> DEFINE p == Place(h, n)
           r == InsertAt(h, p, n)
           M == IF Len(h) < BucketSize THEN Len(h) + 1 ELSE BucketSize
<1>1. Len(h) \in Nat /\ p \in 1 .. Len(h) + 1
  BY LenProperties, PlaceSplits
<1>2. /\ r \in Seq(Nodes) /\ Len(r) = Len(h) + 1
      /\ \A i \in 1 .. Len(h) + 1 : r[i] = IF i < p THEN h[i] ELSE IF i = p THEN n ELSE h[i - 1]
  <2> HIDE DEF p, r
  <2>1. /\ InsertAt(h, p, n) \in Seq(Nodes) /\ Len(InsertAt(h, p, n)) = Len(h) + 1
        /\ \A i \in 1 .. Len(h) + 1 :
             InsertAt(h, p, n)[i] = IF i < p THEN h[i] ELSE IF i = p THEN n ELSE h[i - 1]
    BY <1>1, InsertAtProperties
  <2> QED
    BY <2>1 DEF r
<1>3. M \in Nat /\ M <= Len(h) + 1
  BY <1>1, BucketSizeAssumption
<1>4. Push(h, n) = SubSeq(r, 1, M)
  BY DEF Push
<1> HIDE DEF p, r
<1>5. \A i \in 1 .. M : r[i] \in Nodes
  <2> HIDE DEF M
  <2> QED
    BY <1>1, <1>2, <1>3, ElementOfSeq
<1>6. /\ SubSeq(r, 1, M) \in Seq(Nodes)
      /\ Len(SubSeq(r, 1, M)) = M
      /\ \A i \in 1 .. M : SubSeq(r, 1, M)[i] = r[i]
  <2> HIDE DEF M
  <2>1. /\ SubSeq(r, 1, M) \in Seq(Nodes)
        /\ Len(SubSeq(r, 1, M)) = IF 1 <= M THEN M - 1 + 1 ELSE 0
        /\ \A i \in 1 .. M - 1 + 1 : SubSeq(r, 1, M)[i] = r[1 + i - 1]
    BY <1>3, <1>5, SubSeqProperties
  <2> QED
    BY <1>3, <2>1
<1>7. \A i \in 1 .. M : i \in 1 .. Len(h) + 1
  <2> HIDE DEF M
  <2> QED
    BY <1>1, <1>3
<1> HIDE DEF M
<1>8. /\ SubSeq(r, 1, M) \in Seq(Nodes) /\ Len(SubSeq(r, 1, M)) = M
      /\ \A i \in 1 .. M :
           SubSeq(r, 1, M)[i] = IF i < p THEN h[i] ELSE IF i = p THEN n ELSE h[i - 1]
  BY <1>2, <1>6, <1>7
<1> QED
  BY <1>4, <1>8 DEF p, M

\* A node that is pushed for the first time leaves the list that of the nearest
\* nodes.
LEMMA PushNearest ==
  ASSUME NEW S \in SUBSET Nodes, NEW h \in Seq(Nodes), Nearest(h, S), NEW n \in Nodes \ S
  PROVE  Push(h, n) \in Seq(Nodes) /\ Nearest(Push(h, n), S \cup {n})
<1> DEFINE p == Place(h, n)
           q == Push(h, n)
           L == Len(h)
           M == Len(q)
           c == Cardinality(S)
<1>1. IsFiniteSet(S) /\ c \in Nat /\ Cardinality(S \cup {n}) = c + 1
  <2>1. IsFiniteSet(Nodes)
    BY PeersAssumption, FS_AddElement DEF Nodes
  <2> QED
    BY <2>1, FS_Subset, FS_CardinalityType, FS_AddElement
<1>2. /\ L \in Nat /\ DOMAIN h = 1 .. L
      /\ L = IF c < BucketSize THEN c ELSE BucketSize
      /\ L <= BucketSize
  <2>1. L \in Nat /\ DOMAIN h = 1 .. L /\ L = IF c < BucketSize THEN c ELSE BucketSize
    BY LenProperties DEF Nearest
  <2> HIDE DEF L, c
  <2> QED
    BY <1>1, <2>1, BucketSizeAssumption
<1>3. Sorted(h)
  BY DEF Nearest
<1>4. /\ p \in 1 .. L + 1
      /\ \A i \in 1 .. L : i < p <=> Distance[h[i]] <= Distance[n]
  BY <1>3, PlaceSplits
<1>5. /\ q \in Seq(Nodes)
      /\ M = IF L < BucketSize THEN L + 1 ELSE BucketSize
      /\ \A i \in 1 .. M : q[i] = IF i < p THEN h[i] ELSE IF i = p THEN n ELSE h[i - 1]
  BY <1>2, <1>3, PushProperties
<1>6. DOMAIN q = 1 .. M /\ M \in Nat /\ L <= M /\ M <= L + 1
  <2>1. DOMAIN q = 1 .. M /\ M \in Nat
    BY <1>5, LenProperties
  <2> HIDE DEF q, M, L
  <2> QED
    BY <1>2, <1>5, <2>1, BucketSizeAssumption
<1>7. \A i \in 1 .. L : h[i] \in S /\ Distance[h[i]] \in Nat
  BY <1>2, DistanceAssumption DEF Nearest, ToSet
<1>8. n \notin S /\ Distance[n] \in Nat /\ \A m \in S : Distance[m] \in Nat
  BY DistanceAssumption
<1>9. \A i, j \in 1 .. L : /\ i # j => h[i] # h[j]
                           /\ i < j => Distance[h[i]] <= Distance[h[j]]
  BY <1>2, <1>3 DEF Nearest, IsInjective, Sorted
<1> HIDE DEF p, q, L, M, c
<1>a. /\ p \in Nat /\ 1 <= p /\ p <= L + 1
      /\ L \in Nat /\ M \in Nat /\ L <= M /\ M <= L + 1
  BY <1>2, <1>4, <1>6
<1>10. \A i \in 1 .. M : /\ i < p => i \in 1 .. L
                         /\ i > p => i - 1 \in 1 .. L
  BY <1>a
<1>11. \A i \in 1 .. M : q[i] \in S \cup {n} /\ Distance[q[i]] \in Nat
  <2> SUFFICES ASSUME NEW i \in 1 .. M  PROVE q[i] \in S \cup {n}
    BY <1>8
  <2>1. CASE i < p
    BY <1>5, <1>7, <1>10, <2>1
  <2>2. CASE i = p
    BY <1>5, <1>a, <2>2
  <2>3. CASE i > p
    <3>1. q[i] = h[i - 1]
      BY <1>5, <1>a, <2>3
    <3> QED
      BY <1>7, <1>10, <2>3, <3>1
  <2> QED
    BY <1>a, <2>1, <2>2, <2>3
<1>12. \A i, j \in 1 .. M : i < j => /\ q[i] # q[j]
                                    /\ Distance[q[i]] <= Distance[q[j]]
  <2> SUFFICES ASSUME NEW i \in 1 .. M, NEW j \in 1 .. M, i < j
               PROVE  q[i] # q[j] /\ Distance[q[i]] <= Distance[q[j]]
    OBVIOUS
  <2>1. CASE i < p /\ j < p
    BY <1>5, <1>9, <1>10, <2>1
  <2>2. CASE i < p /\ j = p
    BY <1>4, <1>5, <1>7, <1>8, <1>10, <2>2
  <2>3. CASE i < p /\ j > p
    <3>1. i \in 1 .. L /\ j - 1 \in 1 .. L /\ i < j - 1
      BY <1>a, <1>10, <2>3
    <3>2. q[i] = h[i] /\ q[j] = h[j - 1]
      BY <1>a, <1>5, <2>3
    <3> QED
      BY <1>9, <3>1, <3>2
  <2>4. CASE i = p /\ j > p
    <3>1. j - 1 \in 1 .. L /\ ~ (j - 1 < p)
      BY <1>a, <1>10, <2>4
    <3>2. q[i] = n /\ q[j] = h[j - 1]
      BY <1>a, <1>5, <2>4
    <3>3. h[j - 1] \in S /\ Distance[h[j - 1]] \in Nat /\ ~ (Distance[h[j - 1]] <= Distance[n])
      BY <1>4, <1>7, <3>1
    <3> QED
      BY <1>8, <3>2, <3>3
  <2>5. CASE i > p /\ j > p
    <3>1. i - 1 \in 1 .. L /\ j - 1 \in 1 .. L /\ i - 1 < j - 1
      BY <1>a, <1>10, <2>5
    <3>2. q[i] = h[i - 1] /\ q[j] = h[j - 1]
      BY <1>a, <1>5, <2>5
    <3> QED
      BY <1>9, <3>1, <3>2
  <2> QED
    BY <1>a, <2>1, <2>2, <2>3, <2>4, <2>5
<1>13. ToSet(q) \subseteq S \cup {n} /\ IsInjective(q) /\ Sorted(q)
  <2>1. \A i, j \in 1 .. M : q[i] = q[j] => i = j
    BY <1>6, <1>12
  <2> QED
    BY <1>6, <1>11, <1>12, <2>1 DEF ToSet, IsInjective, Sorted
<1>14. M = IF c + 1 < BucketSize THEN c + 1 ELSE BucketSize
  BY <1>1, <1>2, <1>5, BucketSizeAssumption
<1>15. ASSUME NEW x \in (S \cup {n}) \ ToSet(q), NEW i \in 1 .. M
       PROVE  Distance[q[i]] <= Distance[x]
  <2>1. \A j \in 1 .. M : q[j] # x
    BY <1>6 DEF ToSet
  <2>2. CASE x = n
    <3>1. ~ (p \in 1 .. M)
      BY <1>5, <2>1, <2>2
    <3>2. i < p /\ i \in 1 .. L
      BY <1>a, <3>1
    <3> QED
      BY <1>4, <1>5, <2>2, <3>2
  <2>3. CASE x \in S \ ToSet(h)
    <3>1. \A j \in 1 .. L : Distance[h[j]] <= Distance[x]
      BY <1>2, <2>3 DEF Nearest, ToSet
    <3>2. L = BucketSize
      <4>1. SUFFICES ASSUME L = c  PROVE FALSE
        BY <1>2
      <4>2. Cardinality(ToSet(h)) = L
        BY InjectiveRange DEF Nearest, L
      <4>3. ToSet(h) \in SUBSET S
        BY DEF Nearest
      <4>4. ToSet(h) = S
        BY <1>1, <4>1, <4>2, <4>3, FS_Subset DEF c
      <4> QED
        BY <2>3, <4>4
    <3>3. CASE i = p
      <4>1. p \in 1 .. L /\ ~ (p < p)
        BY <1>a, <1>5, <3>2, <3>3
      <4>2. ~ (Distance[h[p]] <= Distance[n]) /\ Distance[h[p]] \in Nat
        BY <1>4, <1>7, <4>1
      <4>3. Distance[h[p]] <= Distance[x]
        BY <3>1, <4>1
      <4>4. q[i] = n /\ Distance[x] \in Nat
        BY <1>4, <1>5, <1>8, <2>3, <3>3
      <4> QED
        BY <1>8, <4>2, <4>3, <4>4
    <3>4. CASE i # p
      BY <1>4, <1>5, <1>6, <1>10, <3>1, <3>4
    <3> QED
      BY <3>3, <3>4
  <2>4. CASE x \in ToSet(h)
    <3>1. PICK j \in 1 .. L : x = h[j]
      BY <1>2, <2>4 DEF ToSet
    <3>2. ~ (j < p)
      <4>1. j \in 1 .. M
        BY <1>a
      <4> QED
        BY <1>5, <2>1, <3>1, <4>1
    <3>3. ~ (j + 1 \in 1 .. M)
      <4>1. ASSUME j + 1 \in 1 .. M  PROVE q[j + 1] = h[j]
        <5>1. ~ (j + 1 < p) /\ j + 1 # p /\ j + 1 - 1 = j
          BY <1>4, <3>2
        <5> QED
          BY <1>5, <4>1, <5>1
      <4> QED
        BY <2>1, <3>1, <4>1
    <3>4. j = L /\ M = L
      BY <1>2, <1>6, <3>3
    <3>5. Distance[x] \in Nat /\ ~ (Distance[x] <= Distance[n])
      BY <1>4, <1>7, <3>1, <3>2
    <3>6. \A k \in 1 .. L : Distance[h[k]] <= Distance[x]
      BY <1>7, <1>9, <3>1, <3>4
    <3>7. CASE i = p
      BY <1>5, <1>8, <3>5, <3>7
    <3>8. CASE i # p
      BY <1>4, <1>5, <1>6, <1>10, <3>6, <3>8
    <3> QED
      BY <3>7, <3>8
  <2> QED
    BY <2>2, <2>3, <2>4
<1>16. \A x \in (S \cup {n}) \ ToSet(q), m \in ToSet(q) : Distance[m] <= Distance[x]
  BY <1>6, <1>15 DEF ToSet
<1>17. Nearest(q, S \cup {n})
  BY <1>1, <1>13, <1>14, <1>16 DEF Nearest, M
<1> QED
  BY <1>5, <1>17 DEF q

\* What the loop over a reply works on: the nodes seen, and the nearest of them.
Found == {f \in [seen : SUBSET Peers, result : Seq(Nodes)] : Nearest(f.result, f.seen \cup {Self})}
CollectOne(f, n) ==
  IF n \in f.seen THEN f ELSE [seen |-> f.seen \cup {n}, result |-> Push(f.result, n)]

\* One turn of the loop.
LEMMA CollectOneFound ==
  ASSUME NEW f \in Found, NEW n \in Peers
  PROVE  CollectOne(f, n) \in Found
<1>1. CASE n \in f.seen
  BY <1>1 DEF CollectOne
<1>2. CASE n \notin f.seen
  <2> DEFINE S == f.seen \cup {Self}
  <2>1. /\ f.seen \in SUBSET Peers /\ f.result \in Seq(Nodes) /\ Nearest(f.result, S)
        /\ S \in SUBSET Nodes /\ n \in Nodes \ S
    BY <1>2, SelfAssumption DEF Found, Nodes
  <2>2. S \cup {n} = f.seen \cup {n} \cup {Self}
    OBVIOUS
  <2> HIDE DEF S
  <2>3. Push(f.result, n) \in Seq(Nodes) /\ Nearest(Push(f.result, n), S \cup {n})
    BY <2>1, PushNearest
  <2> QED
    BY <1>2, <2>1, <2>2, <2>3 DEF Found, CollectOne
<1> QED
  BY <1>1, <1>2

\* The loop.  It forgets no node seen before.
LEMMA CollectFound ==
  ASSUME [seen |-> seen, result |-> result] \in Found, NEW answer \in Seq(Peers)
  PROVE  Collect(answer) \in Found /\ seen \subseteq Collect(answer).seen
<1> DEFINE More == {f \in Found : seen \subseteq f.seen}
<1>0. ASSUME NEW f \in More, NEW n \in Peers  PROVE CollectOne(f, n) \in More
  <2>1. CollectOne(f, n) \in Found
    BY CollectOneFound
  <2>2. f.seen \subseteq CollectOne(f, n).seen
    BY DEF CollectOne
  <2> QED
    BY <2>1, <2>2
<1> DEFINE N == Len(answer)
           S == 1 .. N
           base == [seen |-> seen, result |-> result]
           pick == [t \in SUBSET S |-> Max(t)]
           step == [x \in More \X S |-> CollectOne(x[1], answer[x[2]])]
           Folds(f) ==
             f = [t \in SUBSET S |->
                    IF t = {} THEN base ELSE CollectOne(f[t \ {Max(t)}], answer[Max(t)])]
           iter == CHOOSE f : Folds(f)
<1>1. N \in Nat /\ DOMAIN answer = S /\ \A i \in S : answer[i] \in Peers
  BY LenProperties, ElementOfSeq
<1>2. Collect(answer) = iter[S]
  BY <1>1 DEF Collect, CollectOne, FoldLeft, MapThenFoldSet
<1> HIDE DEF S
<1>3. \A t \in SUBSET S : t # {} => pick[t] \in t /\ Max(t) \in S
  BY <1>1, MaxOfPositions DEF S
<1>4. step \in [More \X S -> More]
  BY <1>1, <1>0
<1>5. IsFiniteSet(S)
  BY <1>1, FS_Interval DEF S
<1>6. PICK f \in [SUBSET S -> More] : IsFold(f, S, base, step, pick)
  <2>1. base \in More
    OBVIOUS
  <2>2. \A t \in SUBSET S : t # {} => pick[t] \in t
    BY <1>3
  <2> HIDE DEF base, pick, step
  <2> QED
    BY <1>4, <1>5, <2>1, <2>2, FoldExists
<1>7. Folds(f)
  <2>1. ASSUME NEW t \in SUBSET S, t # {}
        PROVE  f[t] = CollectOne(f[t \ {Max(t)}], answer[Max(t)])
    <3>1. f[t \ {Max(t)}] \in More /\ pick[t] = Max(t) /\ Max(t) \in S
      BY <1>3, <2>1
    <3>2. f[t] = step[<<f[t \ {Max(t)}], Max(t)>>]
      BY <1>6, <2>1, <3>1 DEF IsFold
    <3>3. <<f[t \ {Max(t)}], Max(t)>> \in More \X S
      BY <3>1
    <3> QED
      BY <3>2, <3>3
  <2> QED
    BY <1>6, <2>1 DEF IsFold
<1>8. Folds(iter)
  BY <1>7
<1> HIDE DEF iter
<1>b. \A t \in SUBSET S :
        iter[t] = IF t = {} THEN base ELSE CollectOne(iter[t \ {Max(t)}], answer[Max(t)])
  BY <1>8
<1> DEFINE T == {k \in 0 .. N : iter[1 .. k] \in More}
<1>9. 0 \in T
  <2>1. iter[{}] = base
    BY <1>8
  <2>2. 1 .. 0 = {}
    OBVIOUS
  <2> QED
    BY <1>1, <2>1, <2>2
<1>10. ASSUME NEW k \in 1 .. N, k - 1 \in T  PROVE k \in T
  <2>1. Max(1 .. k) = k /\ (1 .. k) \ {k} = 1 .. k - 1
    BY <1>1, MaxOfPositions
  <2>2. k \in 1 .. k /\ 1 .. k \in SUBSET S /\ answer[k] \in Peers
    BY <1>1 DEF S
  <2>3. iter[1 .. k] = CollectOne(iter[(1 .. k) \ {Max(1 .. k)}], answer[Max(1 .. k)])
    <3> DEFINE t == 1 .. k
    <3>1. t \in SUBSET S /\ t # {}
      BY <2>2
    <3> HIDE DEF t
    <3>2. iter[t] = CollectOne(iter[t \ {Max(t)}], answer[Max(t)])
      BY <1>b, <3>1
    <3> QED
      BY <3>2 DEF t
  <2>4. iter[1 .. k] = CollectOne(iter[1 .. k - 1], answer[k])
    BY <2>1, <2>3
  <2> QED
    BY <1>10, <2>2, <2>4, <1>0
<1>11. N \in T
  <2>1. N \in Nat /\ N \in 0 .. N
    BY <1>1
  <2>2. \A k \in 1 .. N : k - 1 \in T => k \in T
    BY <1>10
  <2> HIDE DEF T, N
  <2> QED
    BY <1>9, <2>1, <2>2, UpTo
<1> QED
  BY <1>2, <1>11 DEF S

\* The types, and the result that goes with the nodes seen.
SearchInv ==
  /\ Inv
  /\ [seen |-> seen, result |-> result] \in Found
  /\ asked \subseteq Nodes
  /\ open \subseteq Peers \X DOMAIN filled
  /\ finished \in BOOLEAN
  /\ AllClosestAsked

\* What seen and result are in Found for.
LEMMA FoundMeans ==
  [seen |-> seen, result |-> result] \in Found <=>
    seen \in SUBSET Peers /\ result \in Seq(Nodes) /\ Nearest(result, seen \cup {Self})
BY DEF Found

\* We are the nearest node we know, until we hear of another.
LEMMA SearchInvInit == Init => SearchInv
<1> SUFFICES ASSUME Init  PROVE SearchInv
  OBVIOUS
<1>1. Inv
  BY InvInit
<1>2. /\ result = <<Self>> /\ seen = {} /\ asked = {} /\ open = {} /\ finished = FALSE
  BY DEF Init
<1>3. /\ result \in Seq(Nodes) /\ Len(result) = 1 /\ DOMAIN result = {1} /\ result[1] = Self
  BY <1>2 DEF Nodes
<1>4. Nearest(result, seen \cup {Self})
  <2>1. seen \cup {Self} = {Self} /\ Cardinality({Self}) = 1
    BY <1>2, FS_Singleton
  <2>2. ToSet(result) = {Self} /\ IsInjective(result)
    BY <1>3 DEF ToSet, IsInjective
  <2>3. Sorted(result)
    BY <1>3 DEF Sorted
  <2>4. Len(result) = IF 1 < BucketSize THEN 1 ELSE BucketSize
    BY <1>3, BucketSizeAssumption
  <2> QED
    BY <2>1, <2>2, <2>3, <2>4 DEF Nearest
<1>5. AllClosestAsked
  BY <1>2 DEF AllClosestAsked
<1> QED
  BY <1>1, <1>2, <1>3, <1>4, <1>5, FoundMeans DEF SearchInv

\* Every step keeps the result that of the nearest nodes, and the search does
\* not end before all of them were asked.
LEMMA SearchInvStep == SearchInv /\ [Next]_vars => SearchInv'
<1> SUFFICES ASSUME SearchInv, [Next]_vars  PROVE SearchInv'
  OBVIOUS
<1>1. Inv'
  BY InvStep DEF SearchInv
<1>2. /\ seen \in SUBSET Peers /\ result \in Seq(Nodes) /\ Nearest(result, seen \cup {Self})
      /\ asked \subseteq Nodes /\ open \subseteq Peers \X DOMAIN filled
      /\ finished \in BOOLEAN
      /\ AllClosestAsked
  BY FoundMeans DEF SearchInv
<1>3. /\ Len(filled) \in Nat \ {0} /\ DOMAIN filled = 1 .. Len(filled)
      /\ filled \in Seq(Nat)
      /\ reply \in DOMAIN filled
  BY Channels DEF SearchInv, Inv, Counted
<1>4. ASSUME UNCHANGED <<seen, result>>, asked' \subseteq Nodes,
             open' \subseteq Peers \X DOMAIN filled', finished' \in BOOLEAN, AllClosestAsked'
      PROVE  SearchInv'
  BY <1>1, <1>2, <1>4 DEF SearchInv, Found
<1>5. CASE Ask
  <2>1. PICK i \in Unasked : asked' = asked \cup {result[i]} /\ Submit(result[i])
    BY <1>5 DEF Ask
  <2>2. result[i] \in Nodes
    BY <1>2, <2>1, LenProperties, ElementOfSeq DEF Unasked
  <2>3. ~ finished /\ UNCHANGED <<seen, result, finished>>
    BY <1>5 DEF Ask
  <2>4. open' \subseteq Peers \X DOMAIN filled'
    <3>1. CASE result[i] = Self
      BY <1>2, <1>3, <2>1, <3>1 DEF Submit
    <3>2. CASE result[i] # Self
      BY <1>2, <1>3, <2>1, <2>2, <3>2 DEF Submit, Nodes
    <3> QED
      BY <3>1, <3>2
  <2>5. AllClosestAsked'
    BY <2>3 DEF AllClosestAsked
  <2> QED
    BY <1>2, <1>4, <2>1, <2>2, <2>3, <2>4, <2>5
<1>6. ASSUME NEW q \in open, Reply(q)  PROVE SearchInv'
  <2>1. /\ open' \subseteq open /\ DOMAIN filled' = DOMAIN filled
        /\ UNCHANGED <<asked, seen, result, finished>>
    BY <1>3, <1>6 DEF Reply
  <2>2. AllClosestAsked'
    BY <1>2, <2>1 DEF AllClosestAsked
  <2> QED
    BY <1>2, <1>4, <2>1, <2>2
<1>7. ASSUME NEW answer \in Answers, Receive(answer)  PROVE SearchInv'
  <2>1. /\ ~ finished /\ DOMAIN filled' = DOMAIN filled
        /\ seen' = Collect(answer).seen /\ result' = Collect(answer).result
        /\ UNCHANGED <<asked, open, finished>>
    BY <1>3, <1>7 DEF Receive
  <2>2. answer \in Seq(Peers)
    BY AnswersAssumption
  <2>3. Collect(answer) \in Found
    BY <2>2, CollectFound DEF SearchInv
  <2>4. [seen |-> seen', result |-> result'] \in Found
    BY <2>1, <2>3 DEF Found
  <2>5. AllClosestAsked'
    BY <2>1 DEF AllClosestAsked
  <2> QED
    BY <1>1, <1>2, <2>1, <2>4, <2>5 DEF SearchInv, Found
<1>8. CASE Timeout
  <2>1. /\ filled' = Append(filled, 0)
        /\ UNCHANGED <<asked, seen, result, open, finished>>
    BY <1>8 DEF Timeout, NewChannel
  <2>2. DOMAIN filled \subseteq DOMAIN filled'
    BY <1>3, <2>1
  <2>3. AllClosestAsked'
    BY <1>2, <2>1 DEF AllClosestAsked
  <2> QED
    BY <1>2, <1>4, <2>1, <2>2, <2>3
<1>9. CASE Finish
  <2>1. /\ ~ MoreToAsk /\ pendingQueries = 0 /\ finished' = TRUE
        /\ UNCHANGED <<asked, seen, result, filled, open>>
    BY <1>9 DEF Finish, NothingPending
  <2>2. Unasked = {}
    BY <2>1, AlphaAssumption DEF MoreToAsk
  <2>3. AllClosestAsked'
    BY <2>1, <2>2 DEF AllClosestAsked, Unasked, ToSet
  <2> QED
    BY <1>2, <1>4, <2>1, <2>3
<1>10. CASE UNCHANGED vars
  BY <1>1, <1>10 DEF vars, SearchInv, Found, AllClosestAsked
<1> QED
  BY <1>5, <1>6, <1>7, <1>8, <1>9, <1>10 DEF Next, Select

\* The type invariant that TLC checks follows, and so does what it checks of
\* the result.
LEMMA SearchInvImplies == SearchInv => TypeOK /\ ResultNearest /\ AllClosestAsked
<1> SUFFICES ASSUME SearchInv  PROVE TypeOK /\ ResultNearest /\ AllClosestAsked
  OBVIOUS
<1>1. pendingQueries \in 0 .. Alpha
  <2>1. /\ pendingQueries = filled[reply] + Cardinality(OpenOn(reply))
        /\ reply \in DOMAIN filled
        /\ filled[reply] + Cardinality(OpenOn(reply)) <= Alpha
        /\ pendingQueries \in Nat
    BY Channels DEF SearchInv, Inv, Counted, RoomForReplies, PendingCounted
  <2> QED
    BY <2>1, AlphaAssumption
<1>2. ResultNearest
  BY FoundMeans DEF SearchInv, Nearest, Sorted, ResultNearest
<1> QED
  BY <1>1, <1>2, FoundMeans DEF SearchInv, Inv, Counted, TypeOK

\* The variables of a lookup have their types (net.go: lookup's locals).
THEOREM LookupTyped == Spec => []TypeOK
BY SearchInvInit, SearchInvStep, SearchInvImplies, PTL DEF Spec

\* Of all the nodes that replies ever named, and ourselves, the result holds the
\* nearest ones, nearest first and none twice, whatever the replies contain and
\* in whatever order they come (net.go: the loop over a reply; node.go: push).
THEOREM ResultIsNearest == Spec => []ResultNearest
BY SearchInvInit, SearchInvStep, SearchInvImplies, PTL DEF Spec

\* A lookup that returned has asked every node of its result, also when queries
\* were forgotten in between (net.go: "We have asked all closest nodes").
THEOREM ClosestWereAsked == Spec => []AllClosestAsked
BY SearchInvInit, SearchInvStep, SearchInvImplies, PTL DEF Spec

-----------------------------------------------------------------------------
(* The search, as an abstract specification and step by step *)

\* The result is one of the choices of the nearest nodes heard of.
LEMMA ResultIsClosest ==
  ASSUME SearchInv
  PROVE  ToSet(result) \in Search!Closest
<1> DEFINE S == ToSet(result)
           pool == seen \cup {Self}
<1>1. result \in Seq(Nodes) /\ Nearest(result, pool)
  BY FoundMeans DEF SearchInv
<1>2. Cardinality(S) = Len(result)
  BY <1>1, InjectiveRange DEF Nearest
<1>3. /\ S \in SUBSET pool
      /\ Cardinality(S) = IF Cardinality(pool) < BucketSize THEN Cardinality(pool) ELSE BucketSize
      /\ \A n \in pool \ S, m \in S : Distance[m] <= Distance[n]
  BY <1>1, <1>2 DEF Nearest
<1> HIDE DEF S
<1>4. S \in Search!Closest
  <2>1. \A T : Search!Cardinality(T) = Cardinality(T)
    BY Zenon DEF Cardinality, Search!Cardinality
  <2> QED
    BY <1>3, <2>1 DEF Search!Closest
<1> QED
  BY <1>4 DEF S

\* A node that lookup asks is one that the search may ask.
LEMMA AskSearches ==
  ASSUME SearchInv, Ask
  PROVE  Search!Next
<1>1. result \in Seq(Nodes) /\ Sorted(result)
  BY FoundMeans DEF SearchInv, Nearest
<1>2. PICK i \in Unasked : NearestFirst(i) /\ asked' = asked \cup {result[i]}
  BY DEF Ask
<1>3. /\ DOMAIN result = 1 .. Len(result) /\ Len(result) \in Nat
      /\ \A j \in DOMAIN result : result[j] \in Nodes /\ Distance[result[j]] \in Nat
  BY <1>1, LenProperties, ElementOfSeq, DistanceAssumption
<1>4. result[i] \in ToSet(result) \ asked /\ result[i] \in Nodes
  BY <1>2, <1>3 DEF Unasked, ToSet
<1>5. \A m \in ToSet(result) \ asked : Distance[result[i]] <= Distance[m]
  <2> SUFFICES ASSUME NEW m \in ToSet(result) \ asked
               PROVE  Distance[result[i]] <= Distance[m]
    OBVIOUS
  <2>1. PICK j \in Unasked : m = result[j]
    BY DEF ToSet, Unasked
  <2>2. i <= j /\ i \in 1 .. Len(result) /\ j \in 1 .. Len(result)
    BY <1>2, <1>3, <2>1 DEF NearestFirst, Unasked
  <2>3. CASE i = j
    BY <1>3, <2>1, <2>2, <2>3
  <2>4. CASE i # j
    <3>1. i < j
      BY <1>3, <2>2, <2>4
    <3> QED
      BY <1>1, <1>3, <2>1, <2>2, <3>1 DEF Sorted
  <2> QED
    BY <2>3, <2>4
<1>6. Search!Ask(result[i])
  <2>1. UNCHANGED <<seen, finished>>
    BY DEF Ask
  <2> QED
    BY <1>2, <1>4, <1>5, <2>1, ResultIsClosest DEF Search!Ask
<1> QED
  BY <1>4, <1>6 DEF Search!Next, Ask

\* Every step of lookup is one of the search, or none.
LEMMA SearchStep == SearchInv /\ [Next]_vars => [Search!Next]_(Search!vars)
<1> SUFFICES ASSUME SearchInv, [Next]_vars  PROVE [Search!Next]_(Search!vars)
  OBVIOUS
<1>1. ASSUME UNCHANGED <<seen, asked, finished>>  PROVE UNCHANGED Search!vars
  BY <1>1 DEF Search!vars
<1>2. ASSUME NEW q, Reply(q)  PROVE UNCHANGED Search!vars
  BY <1>1, <1>2 DEF Reply
<1>3. ASSUME NEW answer \in Answers, Receive(answer)  PROVE Search!Next
  <2>1. /\ ~ finished /\ seen' = Collect(answer).seen
        /\ UNCHANGED <<asked, finished>>
    BY <1>3 DEF Receive
  <2>2. seen \subseteq seen' /\ seen' \subseteq Nodes
    BY <2>1, AnswersAssumption, CollectFound DEF SearchInv, Found, Nodes
  <2>3. Search!Hear(seen')
    BY <2>1, <2>2 DEF Search!Hear
  <2> QED
    BY <2>1, <2>2, <2>3 DEF Search!Next
<1>4. CASE Timeout
  BY <1>1, <1>4 DEF Timeout
<1>5. CASE Finish
  <2>1. ~ finished /\ finished' /\ finished' = TRUE /\ UNCHANGED <<seen, result, asked>>
    BY <1>5 DEF Finish
  <2>2. ToSet(result) \subseteq asked
    BY <2>1, SearchInvStep DEF SearchInv, AllClosestAsked
  <2>3. Search!End
    BY <2>1, <2>2, ResultIsClosest DEF Search!End
  <2> QED
    BY <2>1, <2>3 DEF Search!Next
<1>6. CASE UNCHANGED vars
  BY <1>1, <1>6 DEF vars
<1> QED
  BY <1>2, <1>3, <1>4, <1>5, <1>6, AskSearches DEF Next, Select

\* A lookup with its concurrent queries, late replies and forgotten channels
\* does what a sequential search for the nearest nodes may do (net.go: lookup).
THEOREM ImplementsNearestSearch == Spec => SearchSpec
<1>1. Init => Search!Init
  BY DEF Init, Search!Init
<1> QED
  BY <1>1, SearchInvInit, SearchInvStep, SearchStep, PTL DEF Spec, SearchSpec, Search!Spec

\* What Left counts.
LEMMA LeftCounts ==
  ASSUME SearchInv
  PROVE  /\ IsFiniteSet(Nodes \ asked) /\ Cardinality(Nodes \ asked) \in Nat
         /\ IsFiniteSet(open) /\ Cardinality(open) \in Nat
         /\ pendingQueries \in Nat
         /\ finished \in BOOLEAN
<1>1. IsFiniteSet(Nodes \ asked)
  BY PeersAssumption, FS_AddElement, FS_Subset DEF Nodes
<1> QED
  BY <1>1, FS_CardinalityType DEF SearchInv, Inv, Counted

\* What each step does to it.
LEMMA LeftDecreases == SearchInv /\ [Next]_vars => [Left' < Left]_vars
<1> SUFFICES ASSUME SearchInv, Next  PROVE Left' < Left
  OBVIOUS
<1>1. SearchInv'
  BY SearchInvStep
<1>2. PICK a \in Nat, o \in Nat, p \in Nat, f \in Nat :
        /\ a = Cardinality(Nodes \ asked) /\ o = Cardinality(open) /\ p = pendingQueries
        /\ f = IF finished THEN 0 ELSE 1
  BY LeftCounts
<1>3. PICK b \in Nat, r \in Nat, s \in Nat, g \in Nat :
        /\ b = Cardinality(Nodes \ asked') /\ r = Cardinality(open') /\ s = pendingQueries'
        /\ g = IF finished' THEN 0 ELSE 1
  <2>1. /\ Cardinality(Nodes \ asked') \in Nat /\ Cardinality(open') \in Nat
        /\ pendingQueries' \in Nat /\ finished' \in BOOLEAN
    <3>1. IsFiniteSet(Nodes \ asked')
      BY PeersAssumption, FS_AddElement, FS_Subset DEF Nodes
    <3> QED
      BY <1>1, <3>1, FS_CardinalityType DEF SearchInv, Inv, Counted
  <2> QED
    BY <2>1
<1>4. Left = 4 * a + 2 * o + p + f
  BY <1>2 DEF Left
<1>5. Left' = 4 * b + 2 * r + s + g
  BY <1>3 DEF Left
<1>6. CASE Ask
  <2>1. PICK n : n \in Nodes \ asked /\ asked' = asked \cup {n} /\ Submit(n)
    <3>1. result \in Seq(Nodes)
      BY FoundMeans DEF SearchInv
    <3> QED
      BY <1>6, <3>1, LenProperties, ElementOfSeq DEF Ask, Unasked
  <2>2. b = a - 1
    <3>1. Nodes \ asked' = (Nodes \ asked) \ {n}
      BY <2>1
    <3> QED
      BY <1>2, <1>3, <2>1, <3>1, LeftCounts, FS_RemoveElement
  <2>3. r <= o + 1
    <3>1. CASE UNCHANGED open
      BY <1>2, <1>3, <3>1
    <3>2. CASE open' = open \cup {<<n, reply>>}
      <4> DEFINE e == <<n, reply>>
      <4>1. Cardinality(open \cup {e}) = IF e \in open THEN Cardinality(open)
                                                      ELSE Cardinality(open) + 1
        BY LeftCounts, FS_AddElement
      <4> HIDE DEF e
      <4>2. Cardinality(open \cup {e}) = o \/ Cardinality(open \cup {e}) = o + 1
        BY <1>2, <4>1
      <4>3. r = o \/ r = o + 1
        BY <1>3, <3>2, <4>2 DEF e
      <4> QED
        BY <4>3
    <3> QED
      BY <2>1, <3>1, <3>2 DEF Submit
  <2>4. s = p + 1 /\ g = f
    BY <1>2, <1>3, <1>6 DEF Ask
  <2> QED
    BY <1>4, <1>5, <2>2, <2>3, <2>4
<1>7. ASSUME NEW q \in open, Reply(q)  PROVE Left' < Left
  <2>1. open' = open \ {q} /\ UNCHANGED <<asked, pendingQueries, finished>>
    BY <1>7 DEF Reply
  <2>2. r = o - 1
    BY <1>2, <1>3, <2>1, LeftCounts, FS_RemoveElement
  <2>3. b = a /\ s = p /\ g = f
    BY <1>2, <1>3, <2>1
  <2> QED
    BY <1>4, <1>5, <2>2, <2>3
<1>8. ASSUME NEW answer, Receive(answer)  PROVE Left' < Left
  <2>1. b = a /\ r = o /\ s = p - 1 /\ g = f
    BY <1>2, <1>3, <1>8 DEF Receive
  <2> QED
    BY <1>4, <1>5, <2>1
<1>9. CASE Timeout
  <2>1. b = a /\ r = o /\ p > 0 /\ s = 0 /\ g = f
    BY <1>2, <1>3, <1>9 DEF Timeout, Forgotten
  <2> QED
    BY <1>4, <1>5, <2>1
<1>10. CASE Finish
  <2>1. b = a /\ r = o /\ s = p /\ f = 1 /\ g = 0
    BY <1>2, <1>3, <1>10 DEF Finish
  <2> QED
    BY <1>4, <1>5, <2>1
<1> QED
  BY <1>6, <1>7, <1>8, <1>9, <1>10 DEF Next, Select

\* A lookup makes no step without progress, for any answers and any number of
\* nodes: none of its loops can go on for ever (net.go: the two loops of lookup
\* with asked, seen and the reset of pendingQueries).
THEOREM LookupProgresses == Spec => EveryStepCounts
BY SearchInvInit, SearchInvStep, LeftDecreases, PTL DEF Spec, EveryStepCounts
=============================================================================
