------------------------------ MODULE Network ------------------------------
(***************************************************************************)
(* The main loop of discovery/net.go: the state machine every node it has  *)
(* heard of goes through (endpoint verification, querying, revalidation),  *)
(* the timers that drive it, the findnode queries addressed to it, the     *)
(* node table and the periodic refresh.                                    *)
(*                                                                         *)
(* One goroutine runs Network.loop and owns all of this state; the cases   *)
(* of its select are the actions below.  The other goroutines (the UDP     *)
(* reader, the timers, lookups) only send to its channels.                 *)
(*                                                                         *)
(* Abstractions.  Nodes are identified by their ID.  A packet is the event *)
(* it raises: a ping, or the pong that carries the token of the ping we    *)
(* sent last (all other pongs are rejected by checkPacket and have no      *)
(* effect; one without a token, which passes while no ping is open, is     *)
(* sent by no program), or a neighbours packet with the set of nodes we    *)
(* accept from it.  Any packet may be lost, delayed or duplicated: nothing *)
(* forces its arrival and no action consumes it.  Time is left out: an     *)
(* armed timer may fire at any moment, hence also before or after any      *)
(* packet.                                                                 *)
(***************************************************************************)
EXTENDS Table

CONSTANTS Peers,                \* the nodes packets and fallback lists name
          Queries,              \* findnode queries submitted by lookups
          NoQuery,              \* the nil query
          MaxFindnodeFailures,  \* maxFindnodeFailures: 5 in the code
          Fallbacks             \* the lists SetFallbackNodes may be called with

ASSUME NoQueryAssumption == NoQuery \notin Queries
ASSUME MaxFindnodeFailuresAssumption == MaxFindnodeFailures \in Nat
ASSUME FallbacksAssumption == Fallbacks \subseteq Seq(Peers)

\* The remote nodes.  The program's own ID may be among the Peers: it may be
\* in a list of fallback nodes, which nothing filters, and in packets of
\* another program that runs with the same key.
Others == Peers \ {Self}

VARIABLES
  nodes,              \* net.nodes: the IDs a *Node was interned for
  state,              \* n.state
  pingEcho,           \* the peers with a non-nil n.pingEcho
  pendingNeighbours,  \* n.pendingNeighbours
  deferredQueries,    \* n.deferredQueries
  queryTimeouts,      \* n.queryTimeouts, saturated at MaxFindnodeFailures + 1
  timeoutTimers,      \* the keys of net.timeoutTimers
  tab,                \* net.tab
  open,               \* history: queries taken from queryReq and not answered
  nursery,            \* net.nursery
  refreshDone         \* loop's refreshDone: nil, open ("running") or closed

queries == <<pendingNeighbours, deferredQueries, queryTimeouts, open>>
refreshing == <<nursery, refreshDone>>
vars == <<nodes, state, pingEcho, queries, timeoutTimers, tab, refreshing>>

-----------------------------------------------------------------------------
(* States and events *)

Verifying == {"verifyinit", "verifywait", "remoteverifywait"}
Queryable == {"known", "contested", "unresponsive"}
States == {"unknown"} \cup Verifying \cup Queryable
Timeouts == {"pongTimeout", "pingTimeout", "neighboursTimeout"}

CanQuery(n) == state[n] \in Queryable

Init ==
  /\ nodes = {}
  /\ state = [n \in Peers |-> "unknown"]
  /\ pingEcho = {}
  /\ pendingNeighbours = [n \in Peers |-> NoQuery]
  /\ deferredQueries = [n \in Peers |-> <<>>]
  /\ queryTimeouts = [n \in Peers |-> 0]
  /\ timeoutTimers = {}
  /\ tab = EmptyTable
  /\ open = {}
  /\ nursery = <<>>
  /\ refreshDone = "nil"

-----------------------------------------------------------------------------
(* Steps shared by the handlers *)

\* abortTimedEvent, and timedEvent for the timers started.
Timers(aborted, started) ==
  timeoutTimers' = (timeoutTimers \ aborted) \cup started

\* ping(n) for each n in X sends nothing to the own node, and nothing to a
\* node with an earlier ping unanswered.
Pinged(X) == X \cap Others
PongTimers(X) == {"pongTimeout"} \X (Pinged(X) \ pingEcho)

\* Those of X that transition(n, verifyinit) is called for.
Fresh(X) == {n \in X : state[n] = "unknown"}

\* The transitions to verifyinit of the nodes in X, and their pings.
BeginVerify(X) ==
  /\ state' = [n \in Peers |-> IF n \in Fresh(X) THEN "verifyinit" ELSE state[n]]
  /\ pingEcho' = pingEcho \cup Pinged(Fresh(X))

\* startNextQuery, for a node that can be queried: the oldest deferred query
\* is started if no query is pending.
Startable(n) == deferredQueries[n] # <<>> /\ pendingNeighbours[n] = NoQuery
NextQueryTimer(n) ==
  IF Startable(n) THEN {<<"neighboursTimeout", n>>} ELSE {}
StartNextQueryNever(n) == UNCHANGED <<pendingNeighbours, deferredQueries>>
StartNextQueryNewest(n) ==
  IF Startable(n)
  THEN /\ pendingNeighbours' = [pendingNeighbours EXCEPT ![n] = Last(deferredQueries[n])]
       /\ deferredQueries' = [deferredQueries EXCEPT ![n] = Front(@)]
  ELSE UNCHANGED <<pendingNeighbours, deferredQueries>>
StartNextQuery(n) ==
  IF Startable(n)
  THEN /\ pendingNeighbours' = [pendingNeighbours EXCEPT ![n] = Head(deferredQueries[n])]
       /\ deferredQueries' = [deferredQueries EXCEPT ![n] = Tail(@)]
  ELSE UNCHANGED <<pendingNeighbours, deferredQueries>>

\* known.enter: n may be queried and joins the table.  When its bucket is
\* full, the least recently active entry becomes contested and is pinged.
EnterKnown(n, answered, aborted) ==
  LET loser == {m \in Contested(tab, n) : state[m] = "known"}
  IN  /\ state' = [m \in Peers |-> IF m = n THEN "known"
                                   ELSE IF m \in loser THEN "contested"
                                   ELSE state[m]]
      /\ pingEcho' = (pingEcho \ answered) \cup Pinged(loser)
      /\ queryTimeouts' = [queryTimeouts EXCEPT ![n] = 0]
      /\ StartNextQuery(n)
      /\ Timers(aborted, PongTimers(loser) \cup NextQueryTimer(n))
      /\ tab' = TableAdd(tab, n)
      /\ UNCHANGED open

\* The queries that unknown.enter answers with nil.
AbandonedPendingOnly(n) == {pendingNeighbours[n]} \ {NoQuery}
Abandoned(n) == ({pendingNeighbours[n]} \ {NoQuery}) \cup ToSet(deferredQueries[n])

\* unknown.enter: the node loses its table entry and its queries.
EnterUnknown(n) ==
  /\ state' = [state EXCEPT ![n] = "unknown"]
  /\ tab' = TableDelete(tab, n)
  /\ pingEcho' = pingEcho \ {n}
  /\ open' = open \ Abandoned(n)
  /\ deferredQueries' = [deferredQueries EXCEPT ![n] = <<>>]
  /\ pendingNeighbours' = [pendingNeighbours EXCEPT ![n] = NoQuery]
  /\ queryTimeouts' = [queryTimeouts EXCEPT ![n] = 0]

-----------------------------------------------------------------------------
(* Packets *)

\* A ping from a node we know nothing about: answer it and ping back.
PingFromUnknown(n) ==
  /\ state[n] = "unknown"
  /\ nodes' = nodes \cup {n}
  /\ state' = [state EXCEPT ![n] = "verifywait"]
  /\ pingEcho' = pingEcho \cup Pinged({n})
  /\ Timers({}, PongTimers({n}))
  /\ UNCHANGED <<queries, tab, refreshing>>

\* A ping from a node whose pong we await: it has verified us or is about to,
\* so that its pong will be enough.
AfterPingTrusted == "known"
AfterPing == "verifywait"
PingFromVerifyinit(n) ==
  /\ state[n] = "verifyinit"
  /\ state' = [state EXCEPT ![n] = AfterPing]
  /\ UNCHANGED <<nodes, pingEcho, queries, timeoutTimers, tab, refreshing>>

\* A ping from a node that did not answer its revalidation.
PingFromUnresponsive(n) ==
  /\ state[n] = "unresponsive"
  /\ EnterKnown(n, {}, {})
  /\ UNCHANGED <<nodes, refreshing>>

\* A packet the state does not handle (a pong with a wrong token, a ping in
\* the other states, neighbours nobody asked for, a query, which is answered
\* from the table): its sender has a *Node from now on, and no more.
PacketWithoutEffect(n) ==
  /\ nodes' = nodes \cup {n}
  /\ UNCHANGED <<state, pingEcho, queries, timeoutTimers, tab, refreshing>>

\* A pong we asked for: handleKnownPong, then the next state.
PongWhileVerifyinitUntimed(n) ==
  /\ n \in pingEcho
  /\ state[n] = "verifyinit"
  /\ state' = [state EXCEPT ![n] = "remoteverifywait"]
  /\ pingEcho' = pingEcho \ {n}
  /\ Timers({<<"pongTimeout", n>>}, {})
  /\ UNCHANGED <<nodes, queries, tab, refreshing>>
PongWhileVerifyinit(n) ==
  /\ n \in pingEcho
  /\ state[n] = "verifyinit"
  /\ state' = [state EXCEPT ![n] = "remoteverifywait"]
  /\ pingEcho' = pingEcho \ {n}
  /\ Timers({<<"pongTimeout", n>>}, {<<"pingTimeout", n>>})
  /\ UNCHANGED <<nodes, queries, tab, refreshing>>

PongToKnown(n) ==
  /\ n \in pingEcho
  /\ state[n] \in {"verifywait", "contested", "unresponsive"}
  /\ EnterKnown(n, {n}, {<<"pongTimeout", n>>})
  /\ UNCHANGED <<nodes, refreshing>>

\* A node can be known with a ping of ours open (see PongTimeoutContested).
PongWhileKnown(n) ==
  /\ n \in pingEcho
  /\ state[n] = "known"
  /\ pingEcho' = pingEcho \ {n}
  /\ Timers({<<"pongTimeout", n>>}, {})
  /\ UNCHANGED <<nodes, state, queries, tab, refreshing>>

\* Neighbours answer the pending query, whichever query they were meant for.
\* The accepted nodes that are new are verified; the own node is refused.
HandleNeighbours(n, accepted) ==
  LET q    == pendingNeighbours[n]
      next == deferredQueries[n]
  IN  /\ CanQuery(n)
      /\ q # NoQuery
      /\ nodes' = nodes \cup accepted
      /\ BeginVerify(accepted)
      /\ open' = open \ {q}
      /\ pendingNeighbours' =
           [pendingNeighbours EXCEPT ![n] = IF next = <<>> THEN NoQuery ELSE Head(next)]
      /\ deferredQueries' =
           [deferredQueries EXCEPT ![n] = IF next = <<>> THEN next ELSE Tail(next)]
      /\ Timers({<<"neighboursTimeout", n>>},
                PongTimers(Fresh(accepted)) \cup
                  IF next = <<>> THEN {} ELSE {<<"neighboursTimeout", n>>})
      /\ UNCHANGED <<queryTimeouts, tab, refreshing>>

-----------------------------------------------------------------------------
(* Timers *)

\* The ping of a node under verification went unanswered.
PongTimeoutVerify(n) ==
  /\ <<"pongTimeout", n>> \in timeoutTimers
  /\ state[n] \in {"verifyinit", "verifywait"}
  /\ EnterUnknown(n)
  /\ Timers({<<"pongTimeout", n>>}, {})
  /\ UNCHANGED <<nodes, refreshing>>

\* The ping of a contested node went unanswered: it loses its table entry to
\* the newest replacement.  Its pingEcho is left as it is.
DemotedForgotten == "unknown"
Demoted == "unresponsive"
PongTimeoutContested(n) ==
  /\ <<"pongTimeout", n>> \in timeoutTimers
  /\ state[n] = "contested"
  /\ state' = [state EXCEPT ![n] = Demoted]
  /\ tab' = TableDeleteReplace(tab, n)
  /\ Timers({<<"pongTimeout", n>>}, {})
  /\ UNCHANGED <<nodes, pingEcho, queries, refreshing>>

\* The node has had the time to verify us.
PingTimeout(n) ==
  /\ <<"pingTimeout", n>> \in timeoutTimers
  /\ state[n] = "remoteverifywait"
  /\ EnterKnown(n, {}, {<<"pingTimeout", n>>})
  /\ UNCHANGED <<nodes, refreshing>>

\* A query went unanswered.  A node with too many of them is revalidated.  The
\* next deferred query is not started here.
TooManyTimeoutsLate(n) == queryTimeouts[n] > MaxFindnodeFailures
TooManyTimeouts(n) == queryTimeouts[n] >= MaxFindnodeFailures
AfterFailureKeptPending(n) == pendingNeighbours[n]
AfterFailure(n) == NoQuery
NeighboursTimeout(n) ==
  LET suspect == {m \in {n} : TooManyTimeouts(m) /\ state[m] = "known"}
  IN  /\ <<"neighboursTimeout", n>> \in timeoutTimers
      /\ CanQuery(n)
      /\ open' = open \ {pendingNeighbours[n]}
      /\ pendingNeighbours' = [pendingNeighbours EXCEPT ![n] = AfterFailure(n)]
      /\ queryTimeouts' = [queryTimeouts EXCEPT ![n] = IF TooManyTimeouts(n)
                                                         THEN MaxFindnodeFailures + 1
                                                         ELSE @ + 1]
      /\ state' = [m \in Peers |-> IF m \in suspect THEN "contested" ELSE state[m]]
      /\ pingEcho' = pingEcho \cup Pinged(suspect)
      /\ Timers({<<"neighboursTimeout", n>>}, PongTimers(suspect))
      /\ UNCHANGED <<nodes, deferredQueries, tab, refreshing>>

-----------------------------------------------------------------------------
(* Queries submitted by lookups, for nodes they got from the table or from   *)
(* neighbours packets.  (A lookup's query to the own node is answered at     *)
(* once, and changes nothing here.)                                          *)

StartQuery(q, n) ==
  /\ n \in nodes \cap Others
  /\ q \notin open
  /\ CanQuery(n)
  /\ pendingNeighbours[n] = NoQuery
  /\ open' = open \cup {q}
  /\ pendingNeighbours' = [pendingNeighbours EXCEPT ![n] = q]
  /\ Timers({}, {<<"neighboursTimeout", n>>})
  /\ UNCHANGED <<nodes, state, pingEcho, deferredQueries, queryTimeouts, tab, refreshing>>

\* The query waits for the pending one, or for the node's verification, which
\* it starts if need be.
DeferQuery(q, n) ==
  /\ n \in nodes \cap Others
  /\ q \notin open
  /\ CanQuery(n) => pendingNeighbours[n] # NoQuery
  /\ open' = open \cup {q}
  /\ deferredQueries' = [deferredQueries EXCEPT ![n] = Append(@, q)]
  /\ BeginVerify({n})
  /\ Timers({}, PongTimers(Fresh({n})))
  /\ UNCHANGED <<nodes, pendingNeighbours, queryTimeouts, tab, refreshing>>

-----------------------------------------------------------------------------
(* Refresh *)

\* refresh(done): new seeds are verified, and every seed joins the table at
\* once, verified or not.  done is closed when the lookup that follows ends,
\* or, if there are no seeds, by a timer.
SeedsVerifiedFirst(from) == <<>>
SeedsOf(from) == from
Refresh(from) ==
  /\ nodes' = nodes \cup ToSet(from)
  /\ BeginVerify(ToSet(from))
  /\ Timers({}, PongTimers(Fresh(ToSet(from))))
  /\ tab' = TableAddAll(tab, SeedsOf(from))
  /\ refreshDone' = "running"
NoRefresh == UNCHANGED <<nodes, state, pingEcho, timeoutTimers, tab>>

\* SetFallbackNodes, and the refreshReq case of the loop.
SetFallbackNodes(fallback) ==
  /\ nursery' = fallback
  /\ IF refreshDone = "nil"
     THEN Refresh(fallback)
     ELSE NoRefresh /\ UNCHANGED refreshDone
  /\ UNCHANGED queries

\* The refreshTimer case.
RefreshTick ==
  /\ refreshDone = "nil"
  /\ Refresh(nursery)
  /\ UNCHANGED <<queries, nursery>>

\* The refresh's timer fires or its lookup ends: done is closed.
CloseDone ==
  /\ refreshDone = "running"
  /\ refreshDone' = "closed"
  /\ NoRefresh
  /\ UNCHANGED <<queries, nursery>>

\* The refreshDone case: refresh again if the table is still empty.
RefreshDone ==
  /\ refreshDone = "closed"
  /\ IF tab.count # 0
     THEN NoRefresh /\ refreshDone' = "nil"
     ELSE Refresh(nursery)
  /\ UNCHANGED <<queries, nursery>>

-----------------------------------------------------------------------------
Packet(n) ==
  \/ PingFromUnknown(n)
  \/ PingFromVerifyinit(n)
  \/ PingFromUnresponsive(n)
  \/ PacketWithoutEffect(n)
  \/ PongWhileVerifyinit(n)
  \/ PongToKnown(n)
  \/ PongWhileKnown(n)
  \/ \E accepted \in SUBSET Others : HandleNeighbours(n, accepted)

TimeoutOf(n) ==
  \/ PongTimeoutVerify(n)
  \/ PongTimeoutContested(n)
  \/ PingTimeout(n)
  \/ NeighboursTimeout(n)

Query(q, n) == StartQuery(q, n) \/ DeferQuery(q, n)

RefreshStep ==
  \/ RefreshTick
  \/ CloseDone
  \/ RefreshDone

Next ==
  \/ \E n \in Peers : Packet(n) \/ TimeoutOf(n)
  \/ \E q \in Queries, n \in Peers : Query(q, n)
  \/ RefreshStep
  \/ \E fallback \in Fallbacks : SetFallbackNodes(fallback)

Spec == Init /\ [][Next]_vars

\* A timer that is armed and not aborted fires: its goroutine waits on the
\* timeout channel until loop takes the event, and select picks at random
\* among the cases that are ready.  The ticker and the lookups of a refresh
\* are scheduled likewise.  Packets may be lost for ever.
Fairness ==
  /\ \A n \in Peers : /\ WF_vars(PongTimeoutVerify(n))
                      /\ WF_vars(PongTimeoutContested(n))
                      /\ WF_vars(PingTimeout(n))
                      /\ WF_vars(NeighboursTimeout(n))
  /\ WF_vars(RefreshTick)
  /\ WF_vars(CloseDone)
  /\ WF_vars(RefreshDone)

FairSpec == Spec /\ Fairness

-----------------------------------------------------------------------------
(* Type invariant *)

\* The variables' types; the table's slices never outgrow a bucket.
TypeOK ==
  /\ nodes \subseteq Peers
  /\ state \in [Peers -> States]
  /\ pingEcho \subseteq Peers
  /\ pendingNeighbours \in [Peers -> Queries \cup {NoQuery}]
  /\ deferredQueries \in [Peers -> Seq(Queries)]
  /\ queryTimeouts \in [Peers -> 0 .. MaxFindnodeFailures + 1]
  /\ timeoutTimers \subseteq Timeouts \X Peers
  /\ tab \in [entries : Seq(Peers), replacements : Seq(Peers), count : Int]
  /\ Len(tab.entries) <= BucketSize
  /\ Len(tab.replacements) <= BucketSize
  /\ open \subseteq Queries
  /\ nursery \in Seq(Peers)
  /\ refreshDone \in {"nil", "running", "closed"}

-----------------------------------------------------------------------------
(* Safety *)

\* A node in a state that only a timer or an answer can end has that timer
\* armed (or, if contested, an unanswered ping), and no timer of the handshake
\* fires in a state whose handler does not expect it: every pong timeout finds
\* its ping open.  ping() skips nodes with an open ping, and the states' enter
\* functions, abortTimedEvent and checkPacket all have to agree for that.  The
\* own node is not part of it: it may be in verification, but nothing was sent
\* to it, no timer waits for it, and it is never queried.
HandshakeArmed(n) ==
  /\ state[n] \in {"verifyinit", "verifywait"} =>
       n \in pingEcho /\ <<"pongTimeout", n>> \in timeoutTimers
  /\ state[n] = "remoteverifywait" <=> <<"pingTimeout", n>> \in timeoutTimers
  /\ state[n] = "contested" => n \in pingEcho
  /\ state[n] \in {"unknown", "remoteverifywait"} => n \notin pingEcho
  /\ <<"pongTimeout", n>> \in timeoutTimers =>
       n \in pingEcho /\ state[n] \in {"verifyinit", "verifywait", "contested"}
VerificationArmed ==
  /\ \A n \in Others : HandshakeArmed(n)
  /\ pingEcho \subseteq Others
  /\ timeoutTimers \subseteq Timeouts \X Others
  /\ Self \in Peers => ~ CanQuery(Self)

\* A node has a query pending exactly while its neighbours timeout is armed,
\* and only while it may be queried: no query waits without a deadline, and no
\* deadline is left over from a query that was answered.
PendingTimed ==
  \A n \in Peers :
    /\ pendingNeighbours[n] # NoQuery <=> <<"neighboursTimeout", n>> \in timeoutTimers
    /\ pendingNeighbours[n] # NoQuery => CanQuery(n)

\* Every query that was accepted and not answered waits at exactly one place,
\* as the pending query or at one position of the deferred queries of one
\* node, and an answered query waits nowhere: none is lost, and none gets two
\* replies (a second one could block loop on the lookup's channel).
Waiting(n) == ({pendingNeighbours[n]} \ {NoQuery}) \cup ToSet(deferredQueries[n])
QueryPlaced ==
  /\ open = UNION {Waiting(n) : n \in Peers}
  /\ \A n \in Peers : /\ IsInjective(deferredQueries[n])
                      /\ pendingNeighbours[n] \notin ToSet(deferredQueries[n])
  /\ \A m, n \in Peers : m # n => Waiting(m) \cap Waiting(n) = {}

\* A known node never has more unanswered queries in a row than
\* maxFindnodeFailures: the one that exceeds it sends the node to revalidation
\* and every way back to known starts a new count.
KnownAnswers ==
  \A n \in Peers : state[n] = "known" => queryTimeouts[n] <= MaxFindnodeFailures

\* What sendNeighbours hands out and lookups start from: a node in the table,
\* or waiting to replace one, has proved its endpoint or is a fallback node,
\* and is not the own node.
Seeds == UNION {ToSet(fallback) : fallback \in Fallbacks}
TableVetted ==
  \A n \in ToSet(tab.entries) \cup ToSet(tab.replacements) :
    n \in Others /\ (CanQuery(n) \/ n \in Seeds)

\* The entry counter, which decides whether a refresh starts over, agrees with
\* the bucket through add, delete and deleteReplace.
TableConsistent == tab.count = Len(tab.entries)

-----------------------------------------------------------------------------
(* Refinement *)

Phase(n) ==
  CASE state[n] = "unknown" -> "unverified"
    [] state[n] \in {"verifyinit", "verifywait"} -> "proving"
    [] state[n] = "remoteverifywait" -> "proved"
    [] state[n] \in Queryable -> "verified"

Endpoint == INSTANCE EndpointProof
              WITH Peers <- Others,
                   phase <- [n \in Others |-> Phase(n)],
                   outstanding <- pingEcho

\* The main loop implements endpoint verification: a node may be queried only
\* after it answered a ping of ours, and is never taken for unverified again.
EndpointSpec == Endpoint!Spec

\* A node's queries as a line, with the pending one at its head.
Line(n) == (IF pendingNeighbours[n] = NoQuery THEN <<>> ELSE <<pendingNeighbours[n]>>)
             \o deferredQueries[n]

Lines == INSTANCE QueryLines
           WITH line <- [n \in Peers |-> Line(n)],
                asking <- {n \in Peers : pendingNeighbours[n] # NoQuery},
                ready <- {n \in Peers : CanQuery(n)}

\* The main loop serves each node's queries in line: whatever packets, timers
\* and revalidations come in between, queries are asked one at a time and in
\* the order they were taken in, but for those that come after a timeout.
LinesSpec == Lines!Spec

-----------------------------------------------------------------------------
(* Liveness *)

\* No remote node stays in verification for ever, whatever packets are lost.
\* (The own node does, if it ever gets there: no timer was armed for it.)
VerificationEnds ==
  \A n \in Others : state[n] \in Verifying ~> state[n] \notin Verifying

\* A query that waits for a node's verification to end is started or answered
\* when its turn comes.
DeferredSettled ==
  \A n \in Peers, q \in Queries :
    (~ CanQuery(n) /\ deferredQueries[n] # <<>> /\ Head(deferredQueries[n]) = q)
      ~> q \notin ToSet(deferredQueries[n])

\* With a fallback node other than the own one the table does not stay empty:
\* refreshes are repeated until it has an entry, also when all fallback nodes
\* were deleted again.
Helped == ToSet(nursery) \cap Others # {}
TableRefilled == Helped ~> (tab.count # 0 \/ ~ Helped)

-----------------------------------------------------------------------------
(* Stated by comments of the code, and not true of it *)

\* known.enter: "start revalidation of the last node in the bucket if it is
\* full".  Revalidation has started when its timeout is armed.
ContestedRevalidated ==
  \A n \in Peers : state[n] = "contested" => <<"pongTimeout", n>> \in timeoutTimers

\* closest is "obviously correct": the closest nodes are distinct nodes.
ClosestDistinct == IsInjective(Closest(tab, BucketSize))
=============================================================================
