------------------------------- MODULE Lookup -------------------------------
(***************************************************************************)
(* One run of Network.lookup (discovery/net.go): the iterative search for  *)
(* the nodes closest to a target, with at most Alpha findnode queries in   *)
(* flight, as a process of its own beside the main loop.                   *)
(*                                                                         *)
(* The main loop takes a query from the unbuffered queryReq channel (Ask), *)
(* and replies at most once to each query (Network!QueryPlaced), at any    *)
(* later time or never.  The reply channel has room for Alpha replies; a   *)
(* reply that found it full would block the main loop.  When respTimeout   *)
(* expires the lookup forgets its queries and makes a new channel, to      *)
(* which late replies to the forgotten queries are not sent.               *)
(*                                                                         *)
(* A reply may carry any of Answers; it is chosen when it is received,     *)
(* since nobody sees it before.  A forgotten channel is never read, so its *)
(* fill is all that matters of it.                                         *)
(***************************************************************************)
EXTENDS Integers, FiniteSets, SequencesExt

CONSTANTS Peers,       \* the remote nodes
          Self,        \* our own node
          Distance,    \* each node's distance from the target (distcmp's order)
          Answers,     \* what a reply may contain; <<>> is the nil reply
          Alpha,       \* alpha: 3 in the code
          BucketSize   \* bucketSize: 16 in the code

Nodes == Peers \cup {Self}

ASSUME SelfAssumption == Self \notin Peers
ASSUME PeersAssumption == IsFiniteSet(Peers)
ASSUME DistanceAssumption == Distance \in [Nodes -> Nat]
ASSUME AnswersAssumption == Answers \subseteq Seq(Peers)
ASSUME AlphaAssumption == Alpha \in Nat \ {0}
ASSUME BucketSizeAssumption == BucketSize \in Nat \ {0}

VARIABLES
  asked,           \* the nodes a query was submitted for
  seen,            \* the nodes received so far
  result,          \* result.entries
  pendingQueries,  \* pendingQueries
  filled,          \* for each reply channel made so far, the replies in it
  open,            \* the main loop's unanswered queries: <<node, channel>>
  finished         \* lookup has returned

vars == <<asked, seen, result, pendingQueries, filled, open, finished>>

reply == Len(filled)     \* the current reply channel

-----------------------------------------------------------------------------
(* push of nodesByDistance: n goes behind the entries that are not farther   *)
(* away, and the list is cut to BucketSize.                                  *)
Place(h, n) == Cardinality({i \in DOMAIN h : Distance[h[i]] <= Distance[n]}) + 1
PushNotAppended(h, n) == SubSeq(InsertAt(h, Place(h, n), n), 1, Len(h))
Push(h, n) ==
  SubSeq(InsertAt(h, Place(h, n), n), 1,
         IF Len(h) < BucketSize THEN Len(h) + 1 ELSE BucketSize)

\* The loop over a reply: nodes seen before are skipped.
Collect(answer) ==
  FoldLeft(LAMBDA found, n :
             IF n \in found.seen THEN found
             ELSE [seen |-> found.seen \cup {n}, result |-> Push(found.result, n)],
           [seen |-> seen, result |-> result],
           answer)

Unasked == {i \in DOMAIN result : result[i] \notin asked}
MoreToAskThanAlpha == pendingQueries <= Alpha /\ Unasked # {}
MoreToAsk == pendingQueries < Alpha /\ Unasked # {}
FarthestFirst(i) == \A j \in Unasked : j <= i
NearestFirst(i) == \A j \in Unasked : i <= j

Init ==
  /\ asked = {}
  /\ seen = {}
  /\ result = <<Self>>
  /\ pendingQueries = 0
  /\ filled = <<0>>
  /\ open = {}
  /\ finished = FALSE

-----------------------------------------------------------------------------
\* The closest node not asked yet is asked, and the main loop takes the query.
\* It answers a query to ourselves at once, from the table.
Submit(n) ==
  IF n = Self
  THEN filled' = [filled EXCEPT ![reply] = @ + 1] /\ UNCHANGED open
  ELSE open' = open \cup {<<n, reply>>} /\ UNCHANGED filled
Ask ==
  /\ ~ finished
  /\ MoreToAsk
  /\ \E i \in Unasked :
       /\ NearestFirst(i)
       /\ asked' = asked \cup {result[i]}
       /\ Submit(result[i])
  /\ pendingQueries' = pendingQueries + 1
  /\ UNCHANGED <<seen, result, finished>>

\* The main loop replies to a query, on the channel the query came with.
Reply(q) ==
  /\ q \in open
  /\ filled[q[2]] < Alpha
  /\ open' = open \ {q}
  /\ filled' = [filled EXCEPT ![q[2]] = @ + 1]
  /\ UNCHANGED <<asked, seen, result, pendingQueries, finished>>

\* The two cases of the select.
Receive(answer) ==
  /\ ~ finished
  /\ ~ MoreToAsk
  /\ pendingQueries > 0
  /\ filled[reply] > 0
  /\ filled' = [filled EXCEPT ![reply] = @ - 1]
  /\ seen' = Collect(answer).seen
  /\ result' = Collect(answer).result
  /\ pendingQueries' = pendingQueries - 1
  /\ UNCHANGED <<asked, open, finished>>

\* All queries are forgotten, and the replies that come late go elsewhere.
StillPending == pendingQueries
Forgotten == 0
SameChannel == filled
NewChannel == Append(filled, 0)
Timeout ==
  /\ ~ finished
  /\ ~ MoreToAsk
  /\ pendingQueries > 0
  /\ pendingQueries' = Forgotten
  /\ filled' = NewChannel
  /\ UNCHANGED <<asked, seen, result, open, finished>>

\* Nothing to ask and nothing to wait for: the search is over.
NothingPending == pendingQueries = 0
Finish ==
  /\ ~ finished
  /\ ~ MoreToAsk
  /\ NothingPending
  /\ finished' = TRUE
  /\ UNCHANGED <<asked, seen, result, pendingQueries, filled, open>>

SelectUntimed == \E answer \in Answers : Receive(answer)
Select == (\E answer \in Answers : Receive(answer)) \/ Timeout

Next ==
  \/ Ask
  \/ \E q \in open : Reply(q)
  \/ Select
  \/ Finish

Spec == Init /\ [][Next]_vars

\* The main loop takes submitted queries, since its select picks at random
\* among the ready cases, and the timer of lookup's own select ends the wait.
\* Replies may never come.
Fairness == WF_vars(Ask) /\ WF_vars(Select) /\ WF_vars(Finish)

FairSpec == Spec /\ Fairness

-----------------------------------------------------------------------------
\* The variables' types; open queries have a channel.
TypeOK ==
  /\ asked \subseteq Nodes
  /\ seen \subseteq Peers
  /\ result \in Seq(Nodes)
  /\ pendingQueries \in 0 .. Alpha
  /\ filled \in Seq(Nat) /\ filled # <<>>
  /\ open \subseteq Peers \X DOMAIN filled
  /\ finished \in BOOLEAN

\* The unanswered queries that reply to channel c.
OpenOn(c) == {q \in open : q[2] = c}

\* Every reply still to come on any channel, the forgotten ones included, has
\* room in it: the main loop is never blocked by a lookup that stopped
\* reading.  And pendingQueries counts exactly what the current channel holds
\* or will hold, so that no reply to it is left behind when lookup returns.
RoomForReplies ==
  \A c \in DOMAIN filled : filled[c] + Cardinality(OpenOn(c)) <= Alpha
PendingCounted ==
  pendingQueries = filled[reply] + Cardinality(OpenOn(reply))

\* The result is what a search wants: of the nodes received and ourselves, the
\* BucketSize nearest ones, nearest first, none twice.
ResultNearest ==
  LET pool == seen \cup {Self}
  IN  /\ ToSet(result) \subseteq pool
      /\ IsInjective(result)
      /\ Len(result) = IF Cardinality(pool) < BucketSize
                       THEN Cardinality(pool) ELSE BucketSize
      /\ \A i, j \in DOMAIN result : i < j => Distance[result[i]] <= Distance[result[j]]
      /\ \A n \in pool \ ToSet(result), m \in ToSet(result) : Distance[m] <= Distance[n]

\* "We have asked all closest nodes, stop the search."
AllClosestAsked == finished => ToSet(result) \subseteq asked

\* Each step of a lookup, the main loop's replies included, uses up some of
\* what is left to do, counted by Left, whatever replies contain and whatever
\* the timer does: a lookup is over after 4 * Cardinality(Nodes) + 1 steps.
Left == 4 * Cardinality(Nodes \ asked) + 2 * Cardinality(open)
          + pendingQueries + (IF finished THEN 0 ELSE 1)
EveryStepCounts == [][Left' < Left]_vars

\* A lookup is a search for the nearest nodes: for all its queries that run at
\* the same time and their late replies, it asks and ends as a search may.
Search == INSTANCE NearestSearch
            WITH Size <- BucketSize, pool <- seen \cup {Self}, done <- finished
SearchSpec == Search!Spec

\* A lookup ends, even if no query is ever answered.
Terminates == <> finished
=============================================================================
