--------------------------- MODULE NetworkProofs ---------------------------
(***************************************************************************)
(* Theorems about Network for any number of nodes, queries and failures,   *)
(* any bucket size and any lists of fallback nodes.                        *)
(***************************************************************************)
EXTENDS Network, TableProofs

-----------------------------------------------------------------------------
(* Types *)

\* The inductive form of TypeOK: the table is well-formed and without the own
\* node, which nothing was sent to and which got no further than verification;
\* the nursery is one of the lists SetFallbackNodes was called with.
TypeInv ==
  /\ nodes \subseteq Peers
  /\ state \in [Peers -> States]
  /\ pingEcho \subseteq Others
  /\ pendingNeighbours \in [Peers -> Queries \cup {NoQuery}]
  /\ deferredQueries \in [Peers -> Seq(Queries)]
  /\ queryTimeouts \in [Peers -> 0 .. MaxFindnodeFailures + 1]
  /\ timeoutTimers \subseteq Timeouts \X Others
  /\ Self \in Peers => state[Self] \notin Queryable \cup {"remoteverifywait"}
  /\ tab \in Tables(Others)
  /\ open \subseteq Queries
  /\ nursery \in Fallbacks \cup {<<>>}
  /\ refreshDone \in {"nil", "running", "closed"}

\* Sequences of peers range over peers.
LEMMA ToSetType ==
  ASSUME NEW S, NEW s \in Seq(S)
  PROVE  ToSet(s) \subseteq S
BY LenProperties, ElementOfSeq DEF ToSet

\* The nursery is a sequence of peers.
LEMMA NurseryType ==
  ASSUME NEW f \in Fallbacks \cup {<<>>}
  PROVE  f \in Seq(Peers) /\ ToSet(f) \subseteq Peers
BY FallbacksAssumption, EmptySeq, ToSetType

\* The inductive form implies the type invariant that TLC checks.
LEMMA TypeInvImpliesTypeOK ==
  TypeInv => TypeOK
<1>1. Tables(Others) \subseteq Tables(Peers)
  BY TablesMonotonic DEF Others
<1> QED
  BY <1>1, NurseryType, TablesDef DEF TypeInv, TypeOK, Tables, Others

\* Pings, timers and queries are for remote nodes only.
LEMMA OthersOnly ==
  ASSUME TypeInv
  PROVE  \A m \in Peers : \/ m \in pingEcho
                          \/ \E e : <<e, m>> \in timeoutTimers
                          \/ state[m] \in Queryable \cup {"remoteverifywait"}
           => m \in Others
BY DEF TypeInv, Others

\* A node never contests itself, and contested nodes are remote nodes.
LEMMA ContestedType ==
  ASSUME NEW n, tab \in Tables(Others)
  PROVE  /\ n \notin Contested(tab, n)
         /\ Contested(tab, n) \subseteq Others
<1>1. tab.entries \in Seq(Others) /\ DOMAIN tab.entries = 1 .. Len(tab.entries)
  BY TablesDef, LenProperties
<1>2. ToSet(tab.entries) \subseteq Others
  BY <1>1, ToSetType
<1> QED
  BY <1>1, <1>2 DEF Contested, Contains, ToSet

-----------------------------------------------------------------------------
(* Steps shared by the handlers *)

\* startNextQuery keeps the queries' types.
LEMMA StartNextQueryType ==
  ASSUME TypeInv, NEW n \in Peers, StartNextQuery(n)
  PROVE  /\ pendingNeighbours' \in [Peers -> Queries \cup {NoQuery}]
         /\ deferredQueries' \in [Peers -> Seq(Queries)]
<1>1. CASE Startable(n)
  <2>1. deferredQueries[n] \in Seq(Queries) /\ deferredQueries[n] # <<>>
    BY <1>1 DEF TypeInv, Startable
  <2>2. Head(deferredQueries[n]) \in Queries /\ Tail(deferredQueries[n]) \in Seq(Queries)
    BY <2>1, HeadTailProperties
  <2> QED
    BY <1>1, <2>2 DEF TypeInv, StartNextQuery
<1>2. CASE ~ Startable(n)
  BY <1>2 DEF TypeInv, StartNextQuery
<1> QED
  BY <1>1, <1>2

\* BeginVerify keeps the handshake's types.
LEMMA BeginVerifyType ==
  ASSUME TypeInv, NEW X \in SUBSET Peers, BeginVerify(X)
  PROVE  /\ state' \in [Peers -> States]
         /\ pingEcho' \subseteq Others
         /\ PongTimers(Fresh(X)) \subseteq Timeouts \X Others
         /\ Self \in Peers => state'[Self] \notin Queryable \cup {"remoteverifywait"}
BY DEF TypeInv, BeginVerify, Fresh, Pinged, PongTimers, States, Verifying, Queryable,
       Timeouts

\* refresh keeps all types.
LEMMA RefreshType ==
  ASSUME TypeInv, NEW from \in Fallbacks \cup {<<>>}, Refresh(from)
  PROVE  /\ nodes' \subseteq Peers
         /\ state' \in [Peers -> States]
         /\ pingEcho' \subseteq Others
         /\ timeoutTimers' \subseteq Timeouts \X Others
         /\ Self \in Peers => state'[Self] \notin Queryable \cup {"remoteverifywait"}
         /\ tab' \in Tables(Others)
         /\ refreshDone' = "running"
<1>1. from \in Seq(Peers) /\ ToSet(from) \in SUBSET Peers
  BY NurseryType
<1>2. tab' \in Tables(Others)
  <2>1. from \in Seq(Others \cup {Self})
    BY <1>1, SeqMonotonic DEF Others
  <2> QED
    BY <2>1, TableAddAllType DEF Refresh, SeedsOf, TypeInv
<1>3. BeginVerify(ToSet(from))
  BY DEF Refresh
<1>4. /\ state' \in [Peers -> States]
      /\ pingEcho' \subseteq Others
      /\ PongTimers(Fresh(ToSet(from))) \subseteq Timeouts \X Others
      /\ Self \in Peers => state'[Self] \notin Queryable \cup {"remoteverifywait"}
  BY <1>1, <1>3, BeginVerifyType
<1> QED
  BY <1>1, <1>2, <1>4 DEF Refresh, Timers, TypeInv

\* known.enter keeps all types.
LEMMA EnterKnownType ==
  ASSUME TypeInv, NEW n \in Others, NEW answered, NEW aborted,
         EnterKnown(n, answered, aborted), UNCHANGED <<nodes, refreshing>>
  PROVE  TypeInv'
<1> DEFINE loser == {m \in Contested(tab, n) : state[m] = "known"}
<1>1. /\ pendingNeighbours' \in [Peers -> Queries \cup {NoQuery}]
      /\ deferredQueries' \in [Peers -> Seq(Queries)]
  <2>1. StartNextQuery(n) /\ n \in Peers
    BY DEF EnterKnown, Others
  <2> QED
    BY <2>1, StartNextQueryType
<1>2. loser \subseteq Others
  BY ContestedType DEF TypeInv
<1>3. state' \in [Peers -> States]
  <2>1. state \in [Peers -> States]
    BY DEF TypeInv
  <2>2. state' = [m \in Peers |-> IF m = n THEN "known"
                                  ELSE IF m \in loser THEN "contested" ELSE state[m]]
    BY DEF EnterKnown
  <2> HIDE DEF loser
  <2> QED
    BY <2>1, <2>2 DEF States, Queryable
<1>4. queryTimeouts' \in [Peers -> 0 .. MaxFindnodeFailures + 1]
  <2>1. queryTimeouts \in [Peers -> 0 .. MaxFindnodeFailures + 1]
    BY DEF TypeInv
  <2>2. queryTimeouts' = [queryTimeouts EXCEPT ![n] = 0]
    BY DEF EnterKnown
  <2>3. 0 \in 0 .. MaxFindnodeFailures + 1
    BY MaxFindnodeFailuresAssumption
  <2> QED
    BY <2>1, <2>2, <2>3
<1>5. timeoutTimers' \subseteq Timeouts \X Others
  <2>1. timeoutTimers' =
          (timeoutTimers \ aborted) \cup (PongTimers(loser) \cup NextQueryTimer(n))
    BY DEF EnterKnown, Timers
  <2>2. NextQueryTimer(n) \subseteq Timeouts \X Others
    BY DEF NextQueryTimer, Timeouts
  <2>3. PongTimers(loser) \subseteq Timeouts \X Others
    BY <1>2 DEF PongTimers, Pinged, Timeouts
  <2> HIDE DEF loser
  <2> QED
    BY <2>1, <2>2, <2>3 DEF TypeInv
<1>6. tab' \in Tables(Others)
  BY TableAddType DEF TypeInv, EnterKnown
<1>7. pingEcho' \subseteq Others
  BY <1>2 DEF TypeInv, EnterKnown, Pinged
<1>8. open' \subseteq Queries /\ UNCHANGED <<nodes, nursery, refreshDone>>
  BY DEF TypeInv, EnterKnown, refreshing
<1>9. Self \in Peers => state'[Self] = state[Self]
  BY <1>2 DEF EnterKnown, Others
<1> HIDE DEF loser
<1> QED
  BY <1>1, <1>3, <1>4, <1>5, <1>6, <1>7, <1>8, <1>9 DEF TypeInv

-----------------------------------------------------------------------------
(* Type correctness *)

\* The initial state is well-typed.
LEMMA TypeInvInit ==
  Init => TypeInv
<1> SUFFICES ASSUME Init  PROVE TypeInv
  OBVIOUS
<1>1. tab \in Tables(Others)
  BY EmptyTableType DEF Init
<1>2. <<>> \in Seq(Queries)
  BY EmptySeq
<1> QED
  BY <1>1, <1>2, MaxFindnodeFailuresAssumption DEF Init, TypeInv, States, Queryable

\* Every step of the loop keeps the types and the table well-formed.
LEMMA TypeInvStep ==
  TypeInv /\ [Next]_vars => TypeInv'
<1> SUFFICES ASSUME TypeInv, [Next]_vars  PROVE TypeInv'
  OBVIOUS
<1> USE DEF queries, refreshing
<1>1. ASSUME NEW n \in Peers, PingFromUnknown(n)  PROVE TypeInv'
  BY <1>1 DEF PingFromUnknown, TypeInv, Timers, PongTimers, Pinged, States, Verifying,
              Queryable, Timeouts
<1>2. ASSUME NEW n \in Peers, PingFromVerifyinit(n)  PROVE TypeInv'
  BY <1>2 DEF PingFromVerifyinit, AfterPing, TypeInv, States, Verifying, Queryable
<1>3. ASSUME NEW n \in Peers, PingFromUnresponsive(n)  PROVE TypeInv'
  BY <1>3, OthersOnly, EnterKnownType DEF PingFromUnresponsive, Queryable
<1>4. ASSUME NEW n \in Peers, PacketWithoutEffect(n)  PROVE TypeInv'
  BY <1>4 DEF PacketWithoutEffect, TypeInv
<1>5. ASSUME NEW n \in Peers, PongWhileVerifyinit(n)  PROVE TypeInv'
  BY <1>5, OthersOnly DEF PongWhileVerifyinit, TypeInv, Timers, States, Verifying,
                          Queryable, Timeouts, Others
<1>6. ASSUME NEW n \in Peers, PongToKnown(n)  PROVE TypeInv'
  BY <1>6, OthersOnly, EnterKnownType DEF PongToKnown
<1>7. ASSUME NEW n \in Peers, PongWhileKnown(n)  PROVE TypeInv'
  BY <1>7 DEF PongWhileKnown, TypeInv, Timers
<1>8. ASSUME NEW n \in Peers, NEW accepted \in SUBSET Others,
             HandleNeighbours(n, accepted)
      PROVE  TypeInv'
  <2>1. /\ state' \in [Peers -> States]
        /\ pingEcho' \subseteq Others
        /\ PongTimers(Fresh(accepted)) \subseteq Timeouts \X Others
        /\ Self \in Peers => state'[Self] \notin Queryable \cup {"remoteverifywait"}
    BY <1>8, BeginVerifyType DEF HandleNeighbours, Others
  <2>2. deferredQueries[n] # <<>> => /\ Head(deferredQueries[n]) \in Queries
                                     /\ Tail(deferredQueries[n]) \in Seq(Queries)
    BY HeadTailProperties DEF TypeInv
  <2>3. /\ pendingNeighbours' \in [Peers -> Queries \cup {NoQuery}]
        /\ deferredQueries' \in [Peers -> Seq(Queries)]
    BY <1>8, <2>2 DEF HandleNeighbours, TypeInv
  <2>4. timeoutTimers' \subseteq Timeouts \X Others
    BY <1>8, OthersOnly, <2>1 DEF HandleNeighbours, Timers, CanQuery, TypeInv, Timeouts
  <2> QED
    BY <1>8, <2>1, <2>3, <2>4 DEF HandleNeighbours, TypeInv, Others
<1>9. ASSUME NEW n \in Peers, PongTimeoutVerify(n)  PROVE TypeInv'
  <2>1. tab' \in Tables(Others)
    BY <1>9, TableDeleteType DEF PongTimeoutVerify, EnterUnknown, TypeInv
  <2>2. <<>> \in Seq(Queries)
    BY EmptySeq
  <2> QED
    BY <1>9, <2>1, <2>2, MaxFindnodeFailuresAssumption
       DEF PongTimeoutVerify, EnterUnknown, TypeInv, Timers, States, Queryable
<1>10. ASSUME NEW n \in Peers, PongTimeoutContested(n)  PROVE TypeInv'
  <2>1. tab' \in Tables(Others)
    BY <1>10, TableDeleteReplaceType DEF PongTimeoutContested, TypeInv
  <2> QED
    BY <1>10, OthersOnly, <2>1 DEF PongTimeoutContested, Demoted, TypeInv, Timers, States, Queryable
<1>11. ASSUME NEW n \in Peers, PingTimeout(n)  PROVE TypeInv'
  BY <1>11, OthersOnly, EnterKnownType DEF PingTimeout
<1>12. ASSUME NEW n \in Peers, NeighboursTimeout(n)  PROVE TypeInv'
  <2>1. queryTimeouts' \in [Peers -> 0 .. MaxFindnodeFailures + 1]
    BY <1>12, MaxFindnodeFailuresAssumption DEF NeighboursTimeout, TooManyTimeouts, TypeInv
  <2>2. timeoutTimers' \subseteq Timeouts \X Others
    BY <1>12 DEF NeighboursTimeout, Timers, PongTimers, Pinged, TypeInv, Timeouts
  <2>3. pendingNeighbours' \in [Peers -> Queries \cup {NoQuery}]
    BY <1>12 DEF NeighboursTimeout, AfterFailure, TypeInv
  <2>4. /\ state' \in [Peers -> States] /\ pingEcho' \subseteq Others
        /\ Self \in Peers => state'[Self] = state[Self]
    BY <1>12, OthersOnly DEF NeighboursTimeout, Pinged, TypeInv, States, Queryable
  <2> QED
    BY <1>12, <2>1, <2>2, <2>3, <2>4 DEF NeighboursTimeout, TypeInv
<1>13. ASSUME NEW n \in Peers, NEW q \in Queries, StartQuery(q, n)  PROVE TypeInv'
  BY <1>13 DEF StartQuery, TypeInv, Timers, Timeouts, Others
<1>14. ASSUME NEW n \in Peers, NEW q \in Queries, DeferQuery(q, n)  PROVE TypeInv'
  <2>1. /\ state' \in [Peers -> States]
        /\ pingEcho' \subseteq Others
        /\ PongTimers(Fresh({n})) \subseteq Timeouts \X Others
        /\ Self \in Peers => state'[Self] \notin Queryable \cup {"remoteverifywait"}
    BY <1>14, BeginVerifyType DEF DeferQuery
  <2>2. Append(deferredQueries[n], q) \in Seq(Queries)
    BY AppendProperties DEF TypeInv
  <2> QED
    BY <1>14, <2>1, <2>2 DEF DeferQuery, Timers, TypeInv
<1>15. ASSUME NEW fallback \in Fallbacks, SetFallbackNodes(fallback)  PROVE TypeInv'
  <2>1. CASE refreshDone = "nil"
    <3>1. Refresh(fallback)
      BY <1>15, <2>1 DEF SetFallbackNodes
    <3> QED
      BY <1>15, <3>1, RefreshType DEF SetFallbackNodes, TypeInv
  <2>2. CASE refreshDone # "nil"
    BY <1>15, <2>2 DEF SetFallbackNodes, NoRefresh, TypeInv
  <2> QED
    BY <2>1, <2>2
<1>16. ASSUME RefreshTick  PROVE TypeInv'
  <2>1. Refresh(nursery) /\ nursery \in Fallbacks \cup {<<>>}
    BY <1>16 DEF RefreshTick, TypeInv
  <2> QED
    BY <1>16, <2>1, RefreshType DEF RefreshTick, TypeInv
<1>17. ASSUME CloseDone  PROVE TypeInv'
  BY <1>17 DEF CloseDone, NoRefresh, TypeInv
<1>18. ASSUME RefreshDone  PROVE TypeInv'
  <2>1. CASE tab.count # 0
    BY <1>18, <2>1 DEF RefreshDone, NoRefresh, TypeInv
  <2>2. CASE tab.count = 0
    <3>1. Refresh(nursery) /\ nursery \in Fallbacks \cup {<<>>}
      BY <1>18, <2>2 DEF RefreshDone, TypeInv
    <3> QED
      BY <1>18, <3>1, RefreshType DEF RefreshDone, TypeInv
  <2> QED
    BY <2>1, <2>2
<1>19. CASE UNCHANGED vars
  BY <1>19 DEF vars, TypeInv
<1> QED
  BY <1>1, <1>2, <1>3, <1>4, <1>5, <1>6, <1>7, <1>8, <1>9, <1>10, <1>11, <1>12,
     <1>13, <1>14, <1>15, <1>16, <1>17, <1>18, <1>19
     DEF Next, Packet, TimeoutOf, Query, RefreshStep

\* Every reachable state is well typed, and no slice of the table ever
\* outgrows a bucket.
THEOREM TypeCorrect == Spec => []TypeOK
<1>1. Init => TypeInv
  BY TypeInvInit
<1>2. TypeInv /\ [Next]_vars => TypeInv'
  BY TypeInvStep
<1>3. TypeInv => TypeOK
  BY TypeInvImpliesTypeOK
<1> QED
  BY <1>1, <1>2, <1>3, PTL DEF Spec

-----------------------------------------------------------------------------
(* The timers of the handshake *)

\* What VerificationArmed says of the remote nodes.
HandshakesArmed == \A n \in Peers : n # Self => HandshakeArmed(n)

\* The part of Next a step of the handshake can be.  known.enter keeps
\* HandshakesArmed if the state left behind has no timer but those aborted.
LEMMA EnterKnownArmed ==
  ASSUME TypeInv, HandshakesArmed, NEW n \in Peers, n # Self, NEW answered, NEW aborted,
         EnterKnown(n, answered, aborted),
         answered \subseteq {n},
         aborted \subseteq Timeouts \X {n},
         <<"pongTimeout", n>> \notin timeoutTimers \ aborted,
         <<"pingTimeout", n>> \notin timeoutTimers \ aborted
  PROVE  HandshakesArmed'
<1> USE DEF Others
<1> DEFINE loser == {m \in Contested(tab, n) : state[m] = "known"}
<1>1. n \notin loser /\ loser \subseteq Others
  BY ContestedType DEF TypeInv
<1>2. /\ state' = [m \in Peers |-> IF m = n THEN "known"
                                   ELSE IF m \in loser THEN "contested" ELSE state[m]]
      /\ pingEcho' = (pingEcho \ answered) \cup loser
      /\ timeoutTimers' = (timeoutTimers \ aborted)
                            \cup (PongTimers(loser) \cup NextQueryTimer(n))
      /\ \A m \in loser : state[m] = "known"
  BY <1>1 DEF EnterKnown, Timers, Pinged
<1> HIDE DEF loser
<1>3. \A m \in Peers \ {Self} :
        /\ <<"pongTimeout", m>> \in timeoutTimers' <=>
             \/ <<"pongTimeout", m>> \in timeoutTimers \ aborted
             \/ m \in loser \ pingEcho
        /\ <<"pingTimeout", m>> \in timeoutTimers' <=>
             <<"pingTimeout", m>> \in timeoutTimers \ aborted
  BY <1>1, <1>2 DEF PongTimers, Pinged, NextQueryTimer
<1>4. ASSUME NEW m \in Peers, m # Self, m # n
      PROVE  \A e \in Timeouts : <<e, m>> \notin aborted
  BY <1>4
<1> SUFFICES ASSUME NEW m \in Peers, m # Self
             PROVE  /\ state'[m] \in {"verifyinit", "verifywait"} =>
                         m \in pingEcho' /\ <<"pongTimeout", m>> \in timeoutTimers'
                    /\ state'[m] = "remoteverifywait" <=> <<"pingTimeout", m>> \in timeoutTimers'
                    /\ state'[m] = "contested" => m \in pingEcho'
                    /\ state'[m] \in {"unknown", "remoteverifywait"} => m \notin pingEcho'
                    /\ <<"pongTimeout", m>> \in timeoutTimers' =>
                         m \in pingEcho' /\ state'[m] \in {"verifyinit", "verifywait", "contested"}
  BY DEF HandshakesArmed, HandshakeArmed
<1>5. CASE m = n
  BY <1>1, <1>2, <1>3, <1>5
<1>6. CASE m # n /\ m \in loser
  BY <1>1, <1>2, <1>3, <1>4, <1>6 DEF HandshakesArmed, HandshakeArmed, Timeouts
<1>7. CASE m # n /\ m \notin loser
  BY <1>1, <1>2, <1>3, <1>4, <1>7 DEF HandshakesArmed, HandshakeArmed, Timeouts
<1> QED
  BY <1>5, <1>6, <1>7

\* BeginVerify keeps HandshakesArmed, if the pings' timers are armed and
\* no other timer of the handshake is touched.
LEMMA BeginVerifyArmed ==
  ASSUME TypeInv, HandshakesArmed, NEW X \in SUBSET Peers, BeginVerify(X),
         \A m \in Peers \ {Self} :
           /\ <<"pongTimeout", m>> \in timeoutTimers' <=>
                \/ <<"pongTimeout", m>> \in timeoutTimers
                \/ m \in Fresh(X) \ pingEcho
           /\ <<"pingTimeout", m>> \in timeoutTimers' <=>
                <<"pingTimeout", m>> \in timeoutTimers
  PROVE  HandshakesArmed'
<1> USE DEF Others, Pinged
<1>1. \A m \in Fresh(X) : m \in Peers /\ state[m] = "unknown"
  BY DEF Fresh
<1>2. /\ state' = [m \in Peers |-> IF m \in Fresh(X) THEN "verifyinit" ELSE state[m]]
      /\ pingEcho' = pingEcho \cup Pinged(Fresh(X))
  BY DEF BeginVerify
<1> QED
  BY <1>1, <1>2 DEF HandshakesArmed, HandshakeArmed

\* A refresh arms the timers of the verifications it starts.
LEMMA RefreshArmed ==
  ASSUME TypeInv, HandshakesArmed, NEW from \in Fallbacks \cup {<<>>}, Refresh(from)
  PROVE  HandshakesArmed'
<1> USE DEF Others
<1>1. ToSet(from) \in SUBSET Peers
  BY NurseryType
<1>2. /\ BeginVerify(ToSet(from))
      /\ timeoutTimers' = timeoutTimers \cup PongTimers(Fresh(ToSet(from)))
  BY DEF Refresh, Timers
<1>3. \A m \in Peers \ {Self} :
        /\ <<"pongTimeout", m>> \in timeoutTimers' <=>
             \/ <<"pongTimeout", m>> \in timeoutTimers
             \/ m \in Fresh(ToSet(from)) \ pingEcho
        /\ <<"pingTimeout", m>> \in timeoutTimers' <=>
             <<"pingTimeout", m>> \in timeoutTimers
  BY <1>2 DEF PongTimers, Pinged
<1> QED
  BY <1>1, <1>2, <1>3, BeginVerifyArmed

\* Every step of the loop leaves the timers armed that its states wait for.
LEMMA HandshakesArmedStep ==
  TypeInv /\ HandshakesArmed /\ [Next]_vars => HandshakesArmed'
<1> SUFFICES ASSUME TypeInv, HandshakesArmed, [Next]_vars  PROVE HandshakesArmed'
  OBVIOUS
<1> USE DEF queries, refreshing, Others
<1>1. ASSUME NEW n \in Peers, PingFromUnknown(n)  PROVE HandshakesArmed'
  BY <1>1 DEF PingFromUnknown, HandshakesArmed, HandshakeArmed, TypeInv, Timers, PongTimers, Pinged
<1>2. ASSUME NEW n \in Peers, PingFromVerifyinit(n)  PROVE HandshakesArmed'
  BY <1>2 DEF PingFromVerifyinit, AfterPing, HandshakesArmed, HandshakeArmed, TypeInv
<1>3. ASSUME NEW n \in Peers, PingFromUnresponsive(n)  PROVE HandshakesArmed'
  <2>1. /\ EnterKnown(n, {}, {}) /\ n # Self
        /\ <<"pongTimeout", n>> \notin timeoutTimers
        /\ <<"pingTimeout", n>> \notin timeoutTimers
    BY <1>3, OthersOnly DEF PingFromUnresponsive, HandshakesArmed, HandshakeArmed, Queryable
  <2> QED
    BY <2>1, EnterKnownArmed
<1>4. ASSUME NEW n \in Peers, PacketWithoutEffect(n)  PROVE HandshakesArmed'
  BY <1>4 DEF PacketWithoutEffect, HandshakesArmed, HandshakeArmed
<1>5. ASSUME NEW n \in Peers, PongWhileVerifyinit(n)  PROVE HandshakesArmed'
  BY <1>5 DEF PongWhileVerifyinit, HandshakesArmed, HandshakeArmed, TypeInv, Timers
<1>6. ASSUME NEW n \in Peers, PongToKnown(n)  PROVE HandshakesArmed'
  <2>1. /\ EnterKnown(n, {n}, {<<"pongTimeout", n>>}) /\ n # Self
        /\ <<"pingTimeout", n>> \notin timeoutTimers
    BY <1>6, OthersOnly DEF PongToKnown, HandshakesArmed, HandshakeArmed
  <2>2. {<<"pongTimeout", n>>} \subseteq Timeouts \X {n}
    BY DEF Timeouts
  <2> QED
    BY <2>1, <2>2, EnterKnownArmed
<1>7. ASSUME NEW n \in Peers, PongWhileKnown(n)  PROVE HandshakesArmed'
  BY <1>7 DEF PongWhileKnown, HandshakesArmed, HandshakeArmed, Timers
<1>8. ASSUME NEW n \in Peers, NEW accepted \in SUBSET Others,
             HandleNeighbours(n, accepted)
      PROVE  HandshakesArmed'
  <2>1. \A m \in Peers \ {Self} :
          /\ <<"pongTimeout", m>> \in timeoutTimers' <=>
               \/ <<"pongTimeout", m>> \in timeoutTimers
               \/ m \in Fresh(accepted) \ pingEcho
          /\ <<"pingTimeout", m>> \in timeoutTimers' <=>
               <<"pingTimeout", m>> \in timeoutTimers
    BY <1>8 DEF HandleNeighbours, Timers, PongTimers, Pinged
  <2> QED
    BY <1>8, <2>1, BeginVerifyArmed DEF HandleNeighbours
<1>9. ASSUME NEW n \in Peers, PongTimeoutVerify(n)  PROVE HandshakesArmed'
  BY <1>9 DEF PongTimeoutVerify, EnterUnknown, HandshakesArmed, HandshakeArmed, TypeInv, Timers
<1>10. ASSUME NEW n \in Peers, PongTimeoutContested(n)  PROVE HandshakesArmed'
  BY <1>10 DEF PongTimeoutContested, Demoted, HandshakesArmed, HandshakeArmed, TypeInv, Timers
<1>11. ASSUME NEW n \in Peers, PingTimeout(n)  PROVE HandshakesArmed'
  <2>1. /\ EnterKnown(n, {}, {<<"pingTimeout", n>>}) /\ n # Self
        /\ <<"pongTimeout", n>> \notin timeoutTimers
    BY <1>11, OthersOnly DEF PingTimeout, HandshakesArmed, HandshakeArmed
  <2>2. {<<"pingTimeout", n>>} \subseteq Timeouts \X {n}
    BY DEF Timeouts
  <2> QED
    BY <2>1, <2>2, EnterKnownArmed
<1>12. ASSUME NEW n \in Peers, NeighboursTimeout(n)  PROVE HandshakesArmed'
  BY <1>12 DEF NeighboursTimeout, HandshakesArmed, HandshakeArmed, TypeInv, Timers, PongTimers,
               Pinged
<1>13. ASSUME NEW n \in Peers, NEW q \in Queries, StartQuery(q, n)  PROVE HandshakesArmed'
  BY <1>13 DEF StartQuery, HandshakesArmed, HandshakeArmed, Timers
<1>14. ASSUME NEW n \in Peers, NEW q \in Queries, DeferQuery(q, n)  PROVE HandshakesArmed'
  <2>1. \A m \in Peers \ {Self} :
          /\ <<"pongTimeout", m>> \in timeoutTimers' <=>
               \/ <<"pongTimeout", m>> \in timeoutTimers
               \/ m \in Fresh({n}) \ pingEcho
          /\ <<"pingTimeout", m>> \in timeoutTimers' <=>
               <<"pingTimeout", m>> \in timeoutTimers
    BY <1>14 DEF DeferQuery, Timers, PongTimers, Pinged
  <2> QED
    BY <1>14, <2>1, BeginVerifyArmed DEF DeferQuery
<1>15. ASSUME NEW fallback \in Fallbacks, SetFallbackNodes(fallback)
       PROVE  HandshakesArmed'
  <2>1. CASE refreshDone = "nil"
    BY <1>15, <2>1, RefreshArmed DEF SetFallbackNodes
  <2>2. CASE refreshDone # "nil"
    BY <1>15, <2>2 DEF SetFallbackNodes, NoRefresh, HandshakesArmed, HandshakeArmed
  <2> QED
    BY <2>1, <2>2
<1>16. ASSUME RefreshTick  PROVE HandshakesArmed'
  BY <1>16, RefreshArmed DEF RefreshTick, TypeInv
<1>17. ASSUME CloseDone  PROVE HandshakesArmed'
  BY <1>17 DEF CloseDone, NoRefresh, HandshakesArmed, HandshakeArmed
<1>18. ASSUME RefreshDone  PROVE HandshakesArmed'
  <2>1. CASE tab.count # 0
    BY <1>18, <2>1 DEF RefreshDone, NoRefresh, HandshakesArmed, HandshakeArmed
  <2>2. CASE tab.count = 0
    BY <1>18, <2>2, RefreshArmed DEF RefreshDone, TypeInv
  <2> QED
    BY <2>1, <2>2
<1>19. CASE UNCHANGED vars
  BY <1>19 DEF vars, HandshakesArmed, HandshakeArmed
<1> QED
  BY <1>1, <1>2, <1>3, <1>4, <1>5, <1>6, <1>7, <1>8, <1>9, <1>10, <1>11, <1>12,
     <1>13, <1>14, <1>15, <1>16, <1>17, <1>18, <1>19
     DEF Next, Packet, TimeoutOf, Query, RefreshStep

\* And the own node stays out of it.
LEMMA VerificationArmedStep ==
  TypeInv /\ VerificationArmed /\ [Next]_vars => VerificationArmed'
<1> SUFFICES ASSUME TypeInv, VerificationArmed, [Next]_vars  PROVE VerificationArmed'
  OBVIOUS
<1>1. TypeInv' /\ HandshakesArmed'
  BY TypeInvStep, HandshakesArmedStep DEF VerificationArmed, HandshakesArmed, Others
<1> QED
  BY <1>1 DEF VerificationArmed, HandshakesArmed, TypeInv, CanQuery, Others

\* No remote node is left in verification without a timer or an open ping, and no
\* handshake timer is armed in a state that does not expect it.
THEOREM HandshakeTimed == Spec => []VerificationArmed
<1>1. Init => TypeInv /\ VerificationArmed
  BY TypeInvInit DEF Init, VerificationArmed, HandshakeArmed, Others, CanQuery, Queryable
<1>2. TypeInv /\ VerificationArmed /\ [Next]_vars => (TypeInv /\ VerificationArmed)'
  BY TypeInvStep, VerificationArmedStep
<1> QED
  BY <1>1, <1>2, PTL DEF Spec

-----------------------------------------------------------------------------
(* The timers of queries *)

\* Every step of the loop starts and ends a pending query with its timer.
LEMMA PendingTimedStep ==
  TypeInv /\ PendingTimed /\ [Next]_vars => PendingTimed'
<1> SUFFICES ASSUME TypeInv, PendingTimed, [Next]_vars  PROVE PendingTimed'
  OBVIOUS
<1> USE DEF queries, refreshing
<1>t. /\ state \in [Peers -> States]
      /\ pendingNeighbours \in [Peers -> Queries \cup {NoQuery}]
      /\ deferredQueries \in [Peers -> Seq(Queries)]
      /\ nursery \in Fallbacks \cup {<<>>}
  BY DEF TypeInv
<1>a. ASSUME NEW n \in Peers, NEW answered, NEW aborted,
             EnterKnown(n, answered, aborted),
             <<"neighboursTimeout", n>> \notin aborted,
             aborted \subseteq Timeouts \X {n}
      PROVE  PendingTimed'
  <2> DEFINE loser == {m \in Contested(tab, n) : state[m] = "known"}
  <2>1. /\ state' = [m \in Peers |-> IF m = n THEN "known"
                                     ELSE IF m \in loser THEN "contested" ELSE state[m]]
        /\ timeoutTimers' = (timeoutTimers \ aborted)
                              \cup (PongTimers(loser) \cup NextQueryTimer(n))
        /\ StartNextQuery(n)
        /\ \A m \in loser : state[m] = "known"
    BY <1>a DEF EnterKnown, Timers
  <2> HIDE DEF loser
  <2>2. \A m \in Peers : <<"neighboursTimeout", m>> \in timeoutTimers' <=>
                           \/ <<"neighboursTimeout", m>> \in timeoutTimers
                           \/ m = n /\ Startable(n)
    BY <1>a, <2>1 DEF PongTimers, NextQueryTimer
  <2>3. CASE Startable(n)
    <3>1. deferredQueries[n] \in Seq(Queries) /\ deferredQueries[n] # <<>>
      BY <1>t, <2>3 DEF Startable
    <3>2. Head(deferredQueries[n]) # NoQuery
      BY <3>1, HeadTailProperties, NoQueryAssumption
    <3>3. pendingNeighbours' = [pendingNeighbours EXCEPT ![n] = Head(deferredQueries[n])]
      BY <2>1, <2>3 DEF StartNextQuery
    <3> QED
      BY <1>t, <2>1, <2>2, <2>3, <3>2, <3>3 DEF PendingTimed, CanQuery, Queryable
  <2>4. CASE ~ Startable(n)
    BY <1>t, <2>1, <2>2, <2>4 DEF StartNextQuery, PendingTimed, CanQuery, Queryable
  <2> QED
    BY <2>3, <2>4
<1>b. ASSUME NEW X \in SUBSET Peers, BeginVerify(X), UNCHANGED pendingNeighbours,
             \A m \in Peers : <<"neighboursTimeout", m>> \in timeoutTimers' <=>
                                <<"neighboursTimeout", m>> \in timeoutTimers
      PROVE  PendingTimed'
  BY <1>t, <1>b DEF BeginVerify, Fresh, PendingTimed, CanQuery, Queryable
<1>c. ASSUME NEW from \in Fallbacks \cup {<<>>}, Refresh(from), UNCHANGED pendingNeighbours
      PROVE  PendingTimed'
  <2>1. ToSet(from) \in SUBSET Peers
    BY NurseryType
  <2>2. BeginVerify(ToSet(from))
    BY <1>c DEF Refresh
  <2>3. \A m \in Peers : <<"neighboursTimeout", m>> \in timeoutTimers' <=>
                           <<"neighboursTimeout", m>> \in timeoutTimers
    BY <1>c DEF Refresh, Timers, PongTimers
  <2> QED
    BY <1>b, <1>c, <2>1, <2>2, <2>3
<1>1. ASSUME NEW n \in Peers, PingFromUnknown(n)  PROVE PendingTimed'
  BY <1>t, <1>1 DEF PingFromUnknown, PendingTimed, Timers, PongTimers, CanQuery, Queryable
<1>2. ASSUME NEW n \in Peers, PingFromVerifyinit(n)  PROVE PendingTimed'
  BY <1>t, <1>2 DEF PingFromVerifyinit, AfterPing, PendingTimed, CanQuery, Queryable
<1>3. ASSUME NEW n \in Peers, PingFromUnresponsive(n)  PROVE PendingTimed'
  BY <1>3, <1>a DEF PingFromUnresponsive
<1>4. ASSUME NEW n \in Peers, PacketWithoutEffect(n)  PROVE PendingTimed'
  BY <1>4 DEF PacketWithoutEffect, PendingTimed, CanQuery
<1>5. ASSUME NEW n \in Peers, PongWhileVerifyinit(n)  PROVE PendingTimed'
  BY <1>t, <1>5 DEF PongWhileVerifyinit, PendingTimed, Timers, CanQuery, Queryable
<1>6. ASSUME NEW n \in Peers, PongToKnown(n)  PROVE PendingTimed'
  <2>1. {<<"pongTimeout", n>>} \subseteq Timeouts \X {n}
    BY DEF Timeouts
  <2> QED
    BY <1>6, <1>a, <2>1 DEF PongToKnown
<1>7. ASSUME NEW n \in Peers, PongWhileKnown(n)  PROVE PendingTimed'
  BY <1>7 DEF PongWhileKnown, PendingTimed, Timers, CanQuery
<1>8. ASSUME NEW n \in Peers, NEW accepted \in SUBSET Others,
             HandleNeighbours(n, accepted)
      PROVE  PendingTimed'
  <2>1. deferredQueries[n] # <<>> => Head(deferredQueries[n]) # NoQuery
    BY <1>t, HeadTailProperties, NoQueryAssumption
  <2>2. \A m \in Peers : <<"neighboursTimeout", m>> \in timeoutTimers' <=>
                           \/ m # n /\ <<"neighboursTimeout", m>> \in timeoutTimers
                           \/ m = n /\ deferredQueries[n] # <<>>
    BY <1>8 DEF HandleNeighbours, Timers, PongTimers
  <2>3. \A m \in Peers : CanQuery(m) => state'[m] = state[m]
    BY <1>8 DEF HandleNeighbours, BeginVerify, Fresh, CanQuery, Queryable
  <2>4. \A m \in Peers : pendingNeighbours'[m] =
          IF m # n THEN pendingNeighbours[m]
          ELSE IF deferredQueries[n] = <<>> THEN NoQuery ELSE Head(deferredQueries[n])
    BY <1>t, <1>8 DEF HandleNeighbours
  <2>5. CanQuery(n)
    BY <1>8 DEF HandleNeighbours
  <2> QED
    BY <2>1, <2>2, <2>3, <2>4, <2>5 DEF PendingTimed, CanQuery
<1>9. ASSUME NEW n \in Peers, PongTimeoutVerify(n)  PROVE PendingTimed'
  BY <1>t, <1>9 DEF PongTimeoutVerify, EnterUnknown, PendingTimed, Timers, CanQuery, Queryable
<1>10. ASSUME NEW n \in Peers, PongTimeoutContested(n)  PROVE PendingTimed'
  BY <1>t, <1>10 DEF PongTimeoutContested, Demoted, PendingTimed, Timers, CanQuery, Queryable
<1>11. ASSUME NEW n \in Peers, PingTimeout(n)  PROVE PendingTimed'
  <2>1. {<<"pingTimeout", n>>} \subseteq Timeouts \X {n}
    BY DEF Timeouts
  <2> QED
    BY <1>11, <1>a, <2>1 DEF PingTimeout
<1>12. ASSUME NEW n \in Peers, NeighboursTimeout(n)  PROVE PendingTimed'
  BY <1>t, <1>12 DEF NeighboursTimeout, AfterFailure, PendingTimed, Timers, PongTimers,
               CanQuery, Queryable
<1>13. ASSUME NEW n \in Peers, NEW q \in Queries, StartQuery(q, n)  PROVE PendingTimed'
  BY <1>t, <1>13, NoQueryAssumption DEF StartQuery, PendingTimed, Timers, CanQuery
<1>14. ASSUME NEW n \in Peers, NEW q \in Queries, DeferQuery(q, n)  PROVE PendingTimed'
  <2>1. \A m \in Peers : <<"neighboursTimeout", m>> \in timeoutTimers' <=>
                           <<"neighboursTimeout", m>> \in timeoutTimers
    BY <1>14 DEF DeferQuery, Timers, PongTimers
  <2> QED
    BY <1>14, <1>b, <2>1 DEF DeferQuery
<1>15. ASSUME NEW fallback \in Fallbacks, SetFallbackNodes(fallback)
       PROVE  PendingTimed'
  <2>1. CASE refreshDone = "nil"
    BY <1>15, <1>c, <2>1 DEF SetFallbackNodes
  <2>2. CASE refreshDone # "nil"
    BY <1>15, <2>2 DEF SetFallbackNodes, NoRefresh, PendingTimed, CanQuery
  <2> QED
    BY <2>1, <2>2
<1>16. ASSUME RefreshTick  PROVE PendingTimed'
  BY <1>t, <1>16, <1>c DEF RefreshTick
<1>17. ASSUME CloseDone  PROVE PendingTimed'
  BY <1>17 DEF CloseDone, NoRefresh, PendingTimed, CanQuery
<1>18. ASSUME RefreshDone  PROVE PendingTimed'
  <2>1. CASE tab.count # 0
    BY <1>18, <2>1 DEF RefreshDone, NoRefresh, PendingTimed, CanQuery
  <2>2. CASE tab.count = 0
    BY <1>t, <1>18, <1>c, <2>2 DEF RefreshDone
  <2> QED
    BY <2>1, <2>2
<1>19. CASE UNCHANGED vars
  BY <1>19 DEF vars, PendingTimed, CanQuery
<1> QED
  BY <1>1, <1>2, <1>3, <1>4, <1>5, <1>6, <1>7, <1>8, <1>9, <1>10, <1>11, <1>12,
     <1>13, <1>14, <1>15, <1>16, <1>17, <1>18, <1>19
     DEF Next, Packet, TimeoutOf, Query, RefreshStep

\* A query is pending exactly while its timeout is armed, and only at a node
\* that may be queried.
THEOREM QueriesTimed == Spec => []PendingTimed
<1>1. Init => TypeInv /\ PendingTimed
  BY TypeInvInit DEF Init, PendingTimed
<1>2. TypeInv /\ PendingTimed /\ [Next]_vars => (TypeInv /\ PendingTimed)'
  BY TypeInvStep, PendingTimedStep
<1> QED
  BY <1>1, <1>2, PTL DEF Spec

-----------------------------------------------------------------------------
(* The table *)

\* The nodes that may be in the table.
Vetted == {m \in Others : CanQuery(m) \/ m \in Seeds}
TableInv == tab \in Tables(Vetted)

\* A node that may be queried can be queried for ever.
LEMMA CanQueryLasts ==
  ASSUME TypeInv, [Next]_vars
  PROVE  \A m \in Peers : CanQuery(m) => CanQuery(m)'
<1> USE DEF queries, refreshing, CanQuery, Queryable
<1> DEFINE Lasts == \A m \in Peers : CanQuery(m) => CanQuery(m)'
<1>a. ASSUME NEW n \in Peers, NEW answered, NEW aborted, EnterKnown(n, answered, aborted)
      PROVE  Lasts
  BY <1>a DEF EnterKnown, TypeInv
<1>b. ASSUME NEW X, BeginVerify(X)  PROVE Lasts
  BY <1>b DEF BeginVerify, Fresh, TypeInv
<1>1. ASSUME NEW n \in Peers, Packet(n)  PROVE Lasts
  <2>1. CASE PingFromUnknown(n)
    BY <2>1 DEF PingFromUnknown, TypeInv
  <2>2. CASE PingFromVerifyinit(n)
    BY <2>2 DEF PingFromVerifyinit, TypeInv
  <2>3. CASE PongWhileVerifyinit(n)
    BY <2>3 DEF PongWhileVerifyinit, TypeInv
  <2>4. CASE PingFromUnresponsive(n) \/ PongToKnown(n)
    BY <2>4, <1>a DEF PingFromUnresponsive, PongToKnown
  <2>5. CASE PacketWithoutEffect(n) \/ PongWhileKnown(n)
    BY <2>5 DEF PacketWithoutEffect, PongWhileKnown
  <2>6. CASE \E accepted \in SUBSET Others : HandleNeighbours(n, accepted)
    BY <2>6, <1>b DEF HandleNeighbours
  <2> QED
    BY <1>1, <2>1, <2>2, <2>3, <2>4, <2>5, <2>6 DEF Packet
<1>2. ASSUME NEW n \in Peers, TimeoutOf(n)  PROVE Lasts
  <2>1. CASE PongTimeoutVerify(n)
    BY <2>1 DEF PongTimeoutVerify, EnterUnknown, TypeInv
  <2>2. CASE PongTimeoutContested(n)
    BY <2>2 DEF PongTimeoutContested, Demoted, TypeInv
  <2>3. CASE PingTimeout(n)
    BY <2>3, <1>a DEF PingTimeout
  <2>4. CASE NeighboursTimeout(n)
    BY <2>4 DEF NeighboursTimeout, TypeInv
  <2> QED
    BY <1>2, <2>1, <2>2, <2>3, <2>4 DEF TimeoutOf
<1>3. ASSUME NEW n \in Peers, NEW q \in Queries, Query(q, n)  PROVE Lasts
  BY <1>3, <1>b DEF Query, StartQuery, DeferQuery
<1>4. ASSUME NEW from, Refresh(from)  PROVE Lasts
  BY <1>4, <1>b DEF Refresh
<1>5. ASSUME NEW fallback \in Fallbacks, SetFallbackNodes(fallback)  PROVE Lasts
  BY <1>5, <1>4 DEF SetFallbackNodes, NoRefresh
<1>6. ASSUME RefreshStep  PROVE Lasts
  <2>1. (\E from : Refresh(from)) \/ UNCHANGED state
    BY <1>6 DEF RefreshStep, RefreshTick, CloseDone, RefreshDone, NoRefresh
  <2>2. UNCHANGED state => Lasts
    OBVIOUS
  <2> HIDE DEF Lasts
  <2> QED
    BY <1>4, <2>1, <2>2
<1>7. ASSUME UNCHANGED vars  PROVE Lasts
  BY <1>7 DEF vars
<1> HIDE DEF Lasts
<1>8. Lasts
  BY <1>1, <1>2, <1>3, <1>5, <1>6, <1>7 DEF Next
<1> QED
  BY <1>8 DEF Lasts

\* A fallback list is a sequence of vetted nodes and the own node.
LEMMA SeedsVetted ==
  ASSUME NEW from \in Fallbacks \cup {<<>>}
  PROVE  from \in Seq(Vetted' \cup {Self})
<1>1. CASE from \in Fallbacks
  <2>1. from \in Seq(Peers) /\ ToSet(from) \subseteq Seeds
    BY <1>1, FallbacksAssumption DEF Seeds
  <2>2. Len(from) \in Nat /\ DOMAIN from = 1 .. Len(from) /\ from \in [1 .. Len(from) -> Peers]
    BY <2>1, LenProperties
  <2>3. from \in [1 .. Len(from) -> Vetted' \cup {Self}]
    BY <2>1, <2>2 DEF ToSet, Vetted, Seeds, Others
  <2> QED
    BY <2>2, <2>3, SeqDef
<1>2. CASE from = <<>>
  BY <1>2, EmptySeq
<1> QED
  BY <1>1, <1>2

\* Every step of the loop puts only vetted nodes into the table.
LEMMA TableInvStep ==
  TypeInv /\ TableInv /\ [Next]_vars => TableInv'
<1> SUFFICES ASSUME TypeInv, TableInv, [Next]_vars  PROVE TableInv'
  OBVIOUS
<1> DEFINE V == Vetted'
<1>1. Vetted \subseteq V
  BY CanQueryLasts DEF Vetted, Seeds, Others
<1>2. tab \in Tables(V)
  BY <1>1, TablesMonotonic DEF TableInv
<1>3. SUFFICES tab' \in Tables(V)
  BY DEF TableInv
<1> USE DEF refreshing
<1>a. ASSUME NEW n \in Peers, NEW answered, NEW aborted, EnterKnown(n, answered, aborted)
      PROVE  tab' \in Tables(V)
  <2>1. n \in V \cup {Self}
    BY <1>a DEF EnterKnown, Vetted, CanQuery, Queryable, TypeInv, Others
  <2> HIDE DEF V
  <2> QED
    BY <1>2, <1>a, <2>1, TableAddType DEF EnterKnown
<1>b. ASSUME NEW from \in Fallbacks \cup {<<>>}, Refresh(from)  PROVE tab' \in Tables(V)
  <2>1. from \in Seq(V \cup {Self})
    BY SeedsVetted
  <2> HIDE DEF V
  <2> QED
    BY <1>2, <1>b, <2>1, TableAddAllType DEF Refresh, SeedsOf
<1> HIDE DEF V
<1>4. ASSUME NEW n \in Peers, Packet(n)  PROVE tab' \in Tables(V)
  <2>1. CASE PingFromUnresponsive(n) \/ PongToKnown(n)
    BY <2>1, <1>a DEF PingFromUnresponsive, PongToKnown
  <2>2. CASE \/ PingFromUnknown(n)
             \/ PingFromVerifyinit(n)
             \/ PacketWithoutEffect(n)
             \/ PongWhileVerifyinit(n)
             \/ PongWhileKnown(n)
             \/ \E accepted \in SUBSET Others : HandleNeighbours(n, accepted)
    BY <1>2, <2>2 DEF PingFromUnknown, PingFromVerifyinit, PacketWithoutEffect,
                      PongWhileVerifyinit, PongWhileKnown, HandleNeighbours
  <2> QED
    BY <1>4, <2>1, <2>2 DEF Packet
<1>5. ASSUME NEW n \in Peers, TimeoutOf(n)  PROVE tab' \in Tables(V)
  <2>1. CASE PongTimeoutVerify(n)
    BY <1>2, <2>1, TableDeleteType DEF PongTimeoutVerify, EnterUnknown
  <2>2. CASE PongTimeoutContested(n)
    BY <1>2, <2>2, TableDeleteReplaceType DEF PongTimeoutContested
  <2>3. CASE PingTimeout(n)
    BY <2>3, <1>a DEF PingTimeout
  <2>4. CASE NeighboursTimeout(n)
    BY <1>2, <2>4 DEF NeighboursTimeout
  <2> QED
    BY <1>5, <2>1, <2>2, <2>3, <2>4 DEF TimeoutOf
<1>6. ASSUME NEW n \in Peers, NEW q \in Queries, Query(q, n)  PROVE tab' \in Tables(V)
  BY <1>2, <1>6 DEF Query, StartQuery, DeferQuery
<1>7. ASSUME NEW fallback \in Fallbacks, SetFallbackNodes(fallback)
      PROVE  tab' \in Tables(V)
  BY <1>2, <1>7, <1>b DEF SetFallbackNodes, NoRefresh
<1>8. ASSUME RefreshStep  PROVE tab' \in Tables(V)
  BY <1>2, <1>8, <1>b DEF RefreshStep, RefreshTick, CloseDone, RefreshDone, NoRefresh, TypeInv
<1>9. CASE UNCHANGED vars
  BY <1>2, <1>9 DEF vars
<1> QED
  BY <1>4, <1>5, <1>6, <1>7, <1>8, <1>9 DEF Next

\* A table of vetted nodes is vetted, and its counter is right.
LEMMA TableInvImplies ==
  TableInv => TableVetted /\ TableConsistent
<1> SUFFICES ASSUME TableInv  PROVE TableVetted /\ TableConsistent
  OBVIOUS
<1>1. /\ tab.entries \in Seq(Vetted)
      /\ tab.replacements \in Seq(Vetted)
      /\ tab.count = Len(tab.entries)
  BY TablesDef DEF TableInv
<1>2. ToSet(tab.entries) \subseteq Vetted /\ ToSet(tab.replacements) \subseteq Vetted
  BY <1>1, ToSetType
<1> QED
  BY <1>1, <1>2 DEF TableVetted, TableConsistent, Vetted

\* Only nodes that proved their endpoint and fallback nodes are ever in the
\* table or in line for it.
THEOREM TableIsVetted == Spec => []TableVetted
<1>1. Init => TypeInv /\ TableInv
  BY TypeInvInit, EmptyTableType DEF Init, TableInv
<1>2. TypeInv /\ TableInv /\ [Next]_vars => (TypeInv /\ TableInv)'
  BY TypeInvStep, TableInvStep
<1>3. TableInv => TableVetted
  BY TableInvImplies
<1> QED
  BY <1>1, <1>2, <1>3, PTL DEF Spec

\* The entry counter is the number of entries.
THEOREM TableIsConsistent == Spec => []TableConsistent
<1>1. Init => TypeInv /\ TableInv
  BY TypeInvInit, EmptyTableType DEF Init, TableInv
<1>2. TypeInv /\ TableInv /\ [Next]_vars => (TypeInv /\ TableInv)'
  BY TypeInvStep, TableInvStep
<1>3. TableInv => TableConsistent
  BY TableInvImplies
<1> QED
  BY <1>1, <1>2, <1>3, PTL DEF Spec

-----------------------------------------------------------------------------
(* Failed queries *)

\* Every step of the loop leaves known nodes within the failure limit.
LEMMA KnownAnswersStep ==
  TypeInv /\ KnownAnswers /\ [Next]_vars => KnownAnswers'
<1> SUFFICES ASSUME TypeInv, KnownAnswers, [Next]_vars  PROVE KnownAnswers'
  OBVIOUS
<1> USE MaxFindnodeFailuresAssumption DEF queries, refreshing, KnownAnswers
<1>a. ASSUME NEW n \in Peers, NEW answered, NEW aborted, EnterKnown(n, answered, aborted)
      PROVE  KnownAnswers'
  BY <1>a DEF EnterKnown, TypeInv
<1>b. ASSUME NEW X, BeginVerify(X), UNCHANGED queryTimeouts  PROVE KnownAnswers'
  BY <1>b DEF BeginVerify, TypeInv
<1>1. ASSUME NEW n \in Peers, Packet(n)  PROVE KnownAnswers'
  <2>1. CASE PingFromUnknown(n)
    BY <2>1 DEF PingFromUnknown, TypeInv
  <2>2. CASE PingFromVerifyinit(n)
    BY <2>2 DEF PingFromVerifyinit, AfterPing, TypeInv
  <2>3. CASE PongWhileVerifyinit(n)
    BY <2>3 DEF PongWhileVerifyinit, TypeInv
  <2>4. CASE PingFromUnresponsive(n) \/ PongToKnown(n)
    BY <2>4, <1>a DEF PingFromUnresponsive, PongToKnown
  <2>5. CASE PacketWithoutEffect(n) \/ PongWhileKnown(n)
    BY <2>5 DEF PacketWithoutEffect, PongWhileKnown
  <2>6. CASE \E accepted \in SUBSET Others : HandleNeighbours(n, accepted)
    BY <2>6, <1>b DEF HandleNeighbours
  <2> QED
    BY <1>1, <2>1, <2>2, <2>3, <2>4, <2>5, <2>6 DEF Packet
<1>2. ASSUME NEW n \in Peers, TimeoutOf(n)  PROVE KnownAnswers'
  <2>1. CASE PongTimeoutVerify(n)
    BY <2>1 DEF PongTimeoutVerify, EnterUnknown, TypeInv
  <2>2. CASE PongTimeoutContested(n)
    BY <2>2 DEF PongTimeoutContested, Demoted, TypeInv
  <2>3. CASE PingTimeout(n)
    BY <2>3, <1>a DEF PingTimeout
  <2>4. CASE NeighboursTimeout(n)
    <3>1. \A m \in Peers : queryTimeouts'[m] =
            IF m # n THEN queryTimeouts[m]
            ELSE IF TooManyTimeouts(n) THEN MaxFindnodeFailures + 1 ELSE queryTimeouts[n] + 1
      BY <2>4 DEF NeighboursTimeout, TypeInv
    <3>2. \A m \in Peers : state'[m] =
            IF m = n /\ TooManyTimeouts(n) /\ state[n] = "known" THEN "contested" ELSE state[m]
      BY <2>4 DEF NeighboursTimeout
    <3>3. \A m \in Peers : queryTimeouts[m] \in 0 .. MaxFindnodeFailures + 1
      BY DEF TypeInv
    <3>4. ASSUME NEW m \in Peers, state'[m] = "known"
          PROVE  queryTimeouts'[m] <= MaxFindnodeFailures
      <4>1. CASE m # n
        BY <3>1, <3>2, <3>4, <4>1
      <4>2. CASE m = n /\ TooManyTimeouts(n)
        <5>1. state'[m] # "known"
          BY <3>2, <4>2
        <5> QED
          BY <3>4, <5>1
      <4>3. CASE m = n /\ ~ TooManyTimeouts(n)
        BY <3>1, <3>3, <4>3 DEF TooManyTimeouts
      <4> QED
        BY <4>1, <4>2, <4>3
    <3> QED
      BY <3>4
  <2> QED
    BY <1>2, <2>1, <2>2, <2>3, <2>4 DEF TimeoutOf
<1>3. ASSUME NEW n \in Peers, NEW q \in Queries, Query(q, n)  PROVE KnownAnswers'
  BY <1>3, <1>b DEF Query, StartQuery, DeferQuery
<1>4. ASSUME NEW from, Refresh(from), UNCHANGED queryTimeouts  PROVE KnownAnswers'
  BY <1>4, <1>b DEF Refresh
<1>5. ASSUME NEW fallback \in Fallbacks, SetFallbackNodes(fallback)  PROVE KnownAnswers'
  BY <1>5, <1>4 DEF SetFallbackNodes, NoRefresh
<1>6. ASSUME RefreshStep  PROVE KnownAnswers'
  <2>1. ((\E from : Refresh(from)) \/ UNCHANGED state) /\ UNCHANGED queryTimeouts
    BY <1>6 DEF RefreshStep, RefreshTick, CloseDone, RefreshDone, NoRefresh
  <2>2. UNCHANGED <<state, queryTimeouts>> => KnownAnswers'
    OBVIOUS
  <2> HIDE DEF KnownAnswers
  <2> QED
    BY <1>4, <2>1, <2>2
<1>7. CASE UNCHANGED vars
  BY <1>7 DEF vars
<1> HIDE DEF KnownAnswers
<1> QED
  BY <1>1, <1>2, <1>3, <1>5, <1>6, <1>7 DEF Next

\* A known node never has more failed queries in a row than allowed.
THEOREM SuspectsAreRevalidated == Spec => []KnownAnswers
<1>1. Init => TypeInv /\ KnownAnswers
  BY TypeInvInit, MaxFindnodeFailuresAssumption DEF Init, KnownAnswers
<1>2. TypeInv /\ KnownAnswers /\ [Next]_vars => (TypeInv /\ KnownAnswers)'
  BY TypeInvStep, KnownAnswersStep
<1> QED
  BY <1>1, <1>2, PTL DEF Spec

-----------------------------------------------------------------------------
(* Endpoint verification *)

\* The phase a node's state stands for, as the refinement mapping has it.
LEMMA PhaseIs ==
  ASSUME TypeInv
  PROVE  \A m \in Peers :
           /\ Phase(m) = "unverified" <=> state[m] = "unknown"
           /\ Phase(m) = "proving" <=> state[m] \in {"verifyinit", "verifywait"}
           /\ Phase(m) = "proved" <=> state[m] = "remoteverifywait"
           /\ Phase(m) = "verified" <=> state[m] \in Queryable
           /\ Phase(m) \in Endpoint!Phases
BY DEF TypeInv, Phase, States, Verifying, Queryable, Endpoint!Phases

\* Every step of the loop is a step of endpoint verification or leaves it be.
LEMMA EndpointStep ==
  TypeInv /\ VerificationArmed /\ [Next]_vars => [Endpoint!Next]_(Endpoint!vars)
<1> SUFFICES ASSUME TypeInv, VerificationArmed, [Next]_vars
             PROVE  [Endpoint!Next]_(Endpoint!vars)
  OBVIOUS
<1> USE DEF Others
<1> DEFINE phase == [m \in Others |-> Phase(m)]
<1>p. TypeInv'
  BY TypeInvStep
<1>q. /\ \A m \in Others : phase[m] = Phase(m) /\ phase'[m] = Phase(m)'
      /\ phase = [m \in Others |-> phase[m]]
      /\ phase' = [m \in Others |-> phase'[m]]
  OBVIOUS
<1>r. \A m \in Others :
        /\ phase[m] = "unverified" <=> state[m] = "unknown"
        /\ phase[m] = "proving" <=> state[m] \in {"verifyinit", "verifywait"}
        /\ phase[m] = "proved" <=> state[m] = "remoteverifywait"
        /\ phase[m] = "verified" <=> state[m] \in Queryable
        /\ phase[m] \in Endpoint!Phases
  BY <1>q, PhaseIs
<1>s. \A m \in Others :
        /\ phase'[m] = "unverified" <=> state'[m] = "unknown"
        /\ phase'[m] = "proving" <=> state'[m] \in {"verifyinit", "verifywait"}
        /\ phase'[m] = "proved" <=> state'[m] = "remoteverifywait"
        /\ phase'[m] = "verified" <=> state'[m] \in Queryable
        /\ phase'[m] \in Endpoint!Phases
  <2>1. \A m \in Others :
           /\ Phase(m)' = "unverified" <=> state'[m] = "unknown"
           /\ Phase(m)' = "proving" <=> state'[m] \in {"verifyinit", "verifywait"}
           /\ Phase(m)' = "proved" <=> state'[m] = "remoteverifywait"
           /\ Phase(m)' = "verified" <=> state'[m] \in Queryable
           /\ Phase(m)' \in Endpoint!Phases
    BY <1>p DEF TypeInv, Phase, States, Verifying, Queryable, Endpoint!Phases
  <2> QED
    BY <1>q, <2>1
<1> HIDE DEF phase
<1>t. \A m \in Others : \/ state'[m] = state[m]
                        \/ state[m] \in Queryable /\ state'[m] \in Queryable
        => phase'[m] = phase[m]
  <2>1. \A m \in Others : state'[m] = state[m] => phase'[m] = phase[m]
    BY <1>q DEF Phase
  <2> QED
    BY <2>1, <1>r, <1>s
<1> DEFINE Goal == [Endpoint!Next]_(Endpoint!vars)
           Same(m) == \/ state'[m] = state[m]
                      \/ state[m] \in Queryable /\ state'[m] \in Queryable
           Verified(R) == \A m \in R : state[m] \in Queryable
<1>challenge.
  ASSUME NEW X \in SUBSET Others,
         \A m \in X : state[m] = "unknown" /\ state'[m] \in {"verifyinit", "verifywait"},
         \A m \in Others \ X : Same(m),
         pingEcho' = pingEcho \cup X
  PROVE  Goal
  <2>1. \A m \in Others : phase'[m] = IF m \in X THEN "proving" ELSE phase[m]
    BY <1>challenge, <1>s, <1>t
  <2>2. phase' = [m \in Others |-> IF m \in X THEN "proving" ELSE phase[m]]
    BY <1>q, <2>1
  <2>3. X \subseteq {m \in Others : phase[m] = "unverified"}
    BY <1>challenge, <1>r
  <2>4. Endpoint!Challenge(X)
    BY <1>challenge, <2>2, <2>3 DEF Endpoint!Challenge, Endpoint!In, phase
  <2> QED
    BY <2>4 DEF Endpoint!Next
<1>answer.
  ASSUME NEW n \in Others, NEW R \in SUBSET Others,
         n \in pingEcho, state[n] \in {"verifyinit", "verifywait"},
         state'[n] \in {"remoteverifywait"} \cup Queryable,
         Verified(R), \A m \in Others \ {n} : Same(m),
         pingEcho' = (pingEcho \ {n}) \cup R
  PROVE  Goal
  <2>1. phase'[n] \in {"proved", "verified"} /\ phase[n] = "proving"
    BY <1>answer, <1>r, <1>s
  <2>2. phase' = [phase EXCEPT ![n] = phase'[n]]
    BY <1>answer, <1>q, <1>t
  <2>3. R \subseteq {m \in Others : phase[m] = "verified"}
    BY <1>answer, <1>r
  <2>4. Endpoint!Answer(n, phase'[n], R)
    BY <1>answer, <2>1, <2>2, <2>3 DEF Endpoint!Answer, Endpoint!In, phase
  <2>5. phase'[n] \in Endpoint!Phases
    BY <1>s
  <2> QED
    BY <2>4, <2>5 DEF Endpoint!Next
<1>admit.
  ASSUME NEW n \in Others, NEW R \in SUBSET Others,
         state[n] = "remoteverifywait", state'[n] \in Queryable,
         Verified(R), \A m \in Others \ {n} : Same(m),
         pingEcho' = pingEcho \cup R
  PROVE  Goal
  <2>1. phase'[n] = "verified" /\ phase[n] = "proved"
    BY <1>admit, <1>r, <1>s
  <2>2. phase' = [phase EXCEPT ![n] = "verified"]
    BY <1>admit, <1>q, <1>t, <2>1
  <2>3. R \subseteq {m \in Others : phase[m] = "verified"}
    BY <1>admit, <1>r
  <2>4. Endpoint!Admit(n, R)
    BY <1>admit, <2>1, <2>2, <2>3 DEF Endpoint!Admit, Endpoint!In, phase
  <2> QED
    BY <2>4 DEF Endpoint!Next
<1>giveup.
  ASSUME NEW n \in Others,
         state[n] \in {"verifyinit", "verifywait"}, state'[n] = "unknown",
         \A m \in Others \ {n} : Same(m),
         pingEcho' = pingEcho \ {n}
  PROVE  Goal
  <2>1. phase'[n] = "unverified" /\ phase[n] = "proving"
    BY <1>giveup, <1>r, <1>s
  <2>2. phase' = [phase EXCEPT ![n] = "unverified"]
    BY <1>giveup, <1>q, <1>t, <2>1
  <2>3. Endpoint!GiveUp(n)
    BY <1>giveup, <2>1, <2>2 DEF Endpoint!GiveUp, Endpoint!In, phase
  <2> QED
    BY <2>3 DEF Endpoint!Next
<1>recheck.
  ASSUME NEW A \in SUBSET Others, NEW R \in SUBSET Others,
         Verified(A), Verified(R), \A m \in Others : Same(m),
         pingEcho' = (pingEcho \ A) \cup R
  PROVE  Goal
  <2>1. phase' = phase
    BY <1>recheck, <1>q, <1>t
  <2>2. A \cup R \subseteq {m \in Others : phase[m] = "verified"}
    BY <1>recheck, <1>r
  <2>3. Endpoint!Recheck(A, R)
    BY <1>recheck, <2>1, <2>2 DEF Endpoint!Recheck, Endpoint!In, phase
  <2> QED
    BY <2>3 DEF Endpoint!Next
<1>stutter.
  ASSUME UNCHANGED <<state, pingEcho>>  PROVE Goal
  <2>1. \A m \in Others : phase'[m] = phase[m]
    BY <1>stutter, <1>t
  <2>2. phase' = phase /\ pingEcho' = pingEcho
    BY <1>stutter, <1>q, <2>1
  <2> QED
    BY <2>2 DEF Endpoint!vars, phase
<1>begin.
  ASSUME NEW X \in SUBSET Peers, BeginVerify(X)  PROVE Goal
  <2> DEFINE Y == Fresh(X) \cap Others
  <2>1. /\ \A m \in Peers : state'[m] = IF m \in Fresh(X) THEN "verifyinit" ELSE state[m]
        /\ pingEcho' = pingEcho \cup Y
        /\ \A m \in Fresh(X) : state[m] = "unknown"
    BY <1>begin DEF BeginVerify, Fresh, Pinged
  <2>2. /\ Y \in SUBSET Others
        /\ \A m \in Y : state[m] = "unknown" /\ state'[m] \in {"verifyinit", "verifywait"}
        /\ \A m \in Others \ Y : Same(m)
    BY <2>1
  <2> HIDE DEF Goal, Same, Y
  <2> QED
    BY <2>1, <2>2, <1>challenge
<1>refresh.
  ASSUME NEW from \in Fallbacks \cup {<<>>}, Refresh(from)  PROVE Goal
  <2>1. ToSet(from) \in SUBSET Peers /\ BeginVerify(ToSet(from))
    BY <1>refresh, NurseryType DEF Refresh
  <2> HIDE DEF Goal
  <2> QED
    BY <2>1, <1>begin
<1>enter.
  ASSUME NEW n \in Others, NEW answered \in SUBSET {n}, NEW aborted,
         EnterKnown(n, answered, aborted)
  PROVE  \E R \in SUBSET Others :
           /\ Verified(R)
           /\ state'[n] = "known"
           /\ \A m \in Others \ {n} : Same(m)
           /\ pingEcho' = (pingEcho \ answered) \cup R
  <2> DEFINE loser == {m \in Contested(tab, n) : state[m] = "known"}
  <2>1. loser \in SUBSET Others /\ \A m \in loser : state[m] = "known"
    BY ContestedType DEF TypeInv
  <2>2. /\ \A m \in Peers : state'[m] = IF m = n THEN "known"
                                      ELSE IF m \in loser THEN "contested" ELSE state[m]
        /\ pingEcho' = (pingEcho \ answered) \cup loser
    BY <1>enter, <2>1 DEF EnterKnown, Pinged
  <2> HIDE DEF loser
  <2>3. /\ Verified(loser)
        /\ state'[n] = "known"
        /\ \A m \in Others \ {n} : Same(m)
    BY <2>1, <2>2 DEF Queryable
  <2> QED
    BY <2>1, <2>2, <2>3
<1> USE DEF queries, refreshing
<1> HIDE DEF Goal
<1>1. ASSUME NEW n \in Peers, PingFromUnknown(n)  PROVE Goal
  <2> DEFINE Y == {n} \cap Others
  <2>1. /\ \A m \in Y : state[m] = "unknown" /\ state'[m] \in {"verifyinit", "verifywait"}
        /\ \A m \in Others \ Y : Same(m)
        /\ pingEcho' = pingEcho \cup Y
        /\ Y \in SUBSET Others
    BY <1>1 DEF PingFromUnknown, Pinged, TypeInv
  <2> HIDE DEF Same, Y
  <2> QED
    BY <2>1, <1>challenge
<1>2. ASSUME NEW n \in Peers, PingFromVerifyinit(n)  PROVE Goal
  <2>1. \A m \in Others : phase'[m] = phase[m]
    BY <1>2, <1>r, <1>s, <1>t DEF PingFromVerifyinit, AfterPing, TypeInv
  <2>2. phase' = phase /\ pingEcho' = pingEcho
    BY <1>2, <1>q, <2>1 DEF PingFromVerifyinit
  <2> QED
    BY <2>2 DEF Goal, Endpoint!vars, phase
<1>3. ASSUME NEW n \in Peers, PingFromUnresponsive(n)  PROVE Goal
  <2>1. /\ state[n] = "unresponsive" /\ n \in Others
        /\ EnterKnown(n, {}, {})
    BY <1>3, OthersOnly DEF PingFromUnresponsive, Queryable
  <2>2. PICK R \in SUBSET Others :
          /\ Verified(R)
          /\ state'[n] = "known"
          /\ \A m \in Others \ {n} : Same(m)
          /\ pingEcho' = (pingEcho \ {}) \cup R
    BY <2>1, <1>enter
  <2>3. \A m \in Others : Same(m)
    BY <2>1, <2>2 DEF Queryable
  <2>4. Verified({})
    OBVIOUS
  <2> HIDE DEF Same, Verified
  <2> QED
    BY <2>2, <2>3, <2>4, <1>recheck
<1>4. ASSUME NEW n \in Peers, PacketWithoutEffect(n)  PROVE Goal
  BY <1>4, <1>stutter DEF PacketWithoutEffect
<1>5. ASSUME NEW n \in Peers, PongWhileVerifyinit(n)  PROVE Goal
  <2>1. /\ n \in pingEcho /\ n \in Others
        /\ state[n] \in {"verifyinit", "verifywait"}
        /\ state'[n] \in {"remoteverifywait"} \cup Queryable
        /\ Verified({})
        /\ \A m \in Others \ {n} : Same(m)
        /\ pingEcho' = (pingEcho \ {n}) \cup {}
    BY <1>5, OthersOnly DEF PongWhileVerifyinit, TypeInv
  <2> HIDE DEF Same, Verified
  <2> QED
    BY <2>1, <1>answer
<1>6. ASSUME NEW n \in Peers, PongToKnown(n)  PROVE Goal
  <2>1. /\ n \in pingEcho /\ n \in Others
        /\ state[n] \in {"verifywait", "contested", "unresponsive"}
        /\ EnterKnown(n, {n}, {<<"pongTimeout", n>>})
    BY <1>6, OthersOnly DEF PongToKnown
  <2>2. PICK R \in SUBSET Others :
          /\ Verified(R)
          /\ state'[n] = "known"
          /\ \A m \in Others \ {n} : Same(m)
          /\ pingEcho' = (pingEcho \ {n}) \cup R
    BY <2>1, <1>enter
  <2>3. CASE state[n] = "verifywait"
    <3>1. state'[n] \in {"remoteverifywait"} \cup Queryable
      BY <2>2 DEF Queryable
    <3>2. state[n] \in {"verifyinit", "verifywait"}
      BY <2>3
    <3> HIDE DEF Same, Verified
    <3> QED
      BY <2>1, <2>2, <3>1, <3>2, <1>answer
  <2>4. CASE state[n] # "verifywait"
    <3>1. \A m \in Others : Same(m)
      BY <2>1, <2>2, <2>4 DEF Queryable
    <3>2. Verified({n})
      BY <2>1, <2>4 DEF Queryable
    <3> HIDE DEF Same, Verified
    <3> QED
      BY <2>1, <2>2, <3>1, <3>2, <1>recheck
  <2> QED
    BY <2>3, <2>4
<1>7. ASSUME NEW n \in Peers, PongWhileKnown(n)  PROVE Goal
  <2>1. /\ Verified({n}) /\ Verified({}) /\ n \in Others
        /\ \A m \in Others : Same(m)
        /\ pingEcho' = (pingEcho \ {n}) \cup {}
    BY <1>7, OthersOnly DEF PongWhileKnown, Queryable
  <2> HIDE DEF Same, Verified
  <2> QED
    BY <2>1, <1>recheck
<1>8. ASSUME NEW n \in Peers, NEW accepted \in SUBSET Others,
             HandleNeighbours(n, accepted)
      PROVE  Goal
  BY <1>8, <1>begin DEF HandleNeighbours
<1>9. ASSUME NEW n \in Peers, PongTimeoutVerify(n)  PROVE Goal
  <2>1. /\ state[n] \in {"verifyinit", "verifywait"} /\ n \in Others
        /\ state'[n] = "unknown"
        /\ \A m \in Others \ {n} : Same(m)
        /\ pingEcho' = pingEcho \ {n}
    BY <1>9, OthersOnly DEF PongTimeoutVerify, EnterUnknown, TypeInv
  <2> HIDE DEF Same
  <2> QED
    BY <2>1, <1>giveup
<1>10. ASSUME NEW n \in Peers, PongTimeoutContested(n)  PROVE Goal
  <2>1. /\ Verified({})
        /\ \A m \in Others : Same(m)
        /\ pingEcho' = (pingEcho \ {}) \cup {}
    BY <1>10 DEF PongTimeoutContested, Demoted, Queryable, TypeInv
  <2> HIDE DEF Same, Verified
  <2> QED
    BY <2>1, <1>recheck
<1>11. ASSUME NEW n \in Peers, PingTimeout(n)  PROVE Goal
  <2>1. /\ state[n] = "remoteverifywait" /\ n \in Others
        /\ EnterKnown(n, {}, {<<"pingTimeout", n>>})
    BY <1>11, OthersOnly DEF PingTimeout
  <2>2. PICK R \in SUBSET Others :
          /\ Verified(R)
          /\ state'[n] = "known"
          /\ \A m \in Others \ {n} : Same(m)
          /\ pingEcho' = (pingEcho \ {}) \cup R
    BY <2>1, <1>enter
  <2>3. state'[n] \in Queryable /\ pingEcho' = pingEcho \cup R
    BY <2>2 DEF Queryable
  <2> HIDE DEF Same, Verified
  <2> QED
    BY <2>1, <2>2, <2>3, <1>admit
<1>12. ASSUME NEW n \in Peers, NeighboursTimeout(n)  PROVE Goal
  <2> DEFINE suspect == {m \in {n} : TooManyTimeouts(m) /\ state[m] = "known"}
  <2>1. /\ suspect \in SUBSET Others
        /\ Verified({}) /\ Verified(suspect)
        /\ \A m \in Others : Same(m)
        /\ pingEcho' = (pingEcho \ {}) \cup suspect
    BY <1>12, OthersOnly DEF NeighboursTimeout, Pinged, Queryable
  <2> HIDE DEF Same, Verified, suspect
  <2> QED
    BY <2>1, <1>recheck
<1>13. ASSUME NEW n \in Peers, NEW q \in Queries, StartQuery(q, n)  PROVE Goal
  BY <1>13, <1>stutter DEF StartQuery
<1>14. ASSUME NEW n \in Peers, NEW q \in Queries, DeferQuery(q, n)  PROVE Goal
  BY <1>14, <1>begin DEF DeferQuery
<1>15. ASSUME NEW fallback \in Fallbacks, SetFallbackNodes(fallback)  PROVE Goal
  BY <1>15, <1>refresh, <1>stutter DEF SetFallbackNodes, NoRefresh
<1>16. ASSUME RefreshTick  PROVE Goal
  BY <1>16, <1>refresh DEF RefreshTick, TypeInv
<1>17. ASSUME CloseDone  PROVE Goal
  BY <1>17, <1>stutter DEF CloseDone, NoRefresh
<1>18. ASSUME RefreshDone  PROVE Goal
  BY <1>18, <1>refresh, <1>stutter DEF RefreshDone, NoRefresh, TypeInv
<1>19. ASSUME UNCHANGED vars  PROVE Goal
  BY <1>19, <1>stutter DEF vars
<1>20. Goal
  BY <1>1, <1>2, <1>3, <1>4, <1>5, <1>6, <1>7, <1>8, <1>9, <1>10, <1>11, <1>12,
     <1>13, <1>14, <1>15, <1>16, <1>17, <1>18, <1>19
     DEF Next, Packet, TimeoutOf, Query, RefreshStep
<1> QED
  BY <1>20 DEF Goal

\* The main loop implements endpoint verification.
THEOREM ImplementsEndpointProof == Spec => EndpointSpec
<1>1. Init => TypeInv /\ VerificationArmed /\ Endpoint!Init
  <2> SUFFICES ASSUME Init  PROVE  TypeInv /\ VerificationArmed /\ Endpoint!Init
    OBVIOUS
  <2>1. TypeInv
    BY TypeInvInit
  <2>2. VerificationArmed
    BY DEF Init, VerificationArmed, HandshakeArmed, Others, CanQuery, Queryable
  <2>3. \A m \in Peers : Phase(m) = "unverified"
    BY DEF Init, Phase, Queryable
  <2>4. Endpoint!Init
    BY <2>3 DEF Init, Endpoint!Init, Others
  <2> QED
    BY <2>1, <2>2, <2>4
<1>2. TypeInv /\ VerificationArmed /\ [Next]_vars => (TypeInv /\ VerificationArmed)'
  BY TypeInvStep, VerificationArmedStep
<1>3. TypeInv /\ VerificationArmed /\ [Next]_vars => [Endpoint!Next]_(Endpoint!vars)
  BY EndpointStep
<1> QED
  BY <1>1, <1>2, <1>3, PTL DEF Spec, EndpointSpec, Endpoint!Spec

-----------------------------------------------------------------------------
(* QueryPlaced: every open query waits in exactly one place, so that it gets *)
(* one reply and no more.  It is preserved when one node's places change.    *)

\* A node's places hold each of its queries once.
Placed(n) ==
  /\ IsInjective(deferredQueries[n])
  /\ pendingNeighbours[n] \notin ToSet(deferredQueries[n])

\* Only n's places change; what enters them was open nowhere else, and what
\* is open changes with them.
LEMMA OnePlace ==
  ASSUME TypeInv, QueryPlaced, NEW n \in Peers,
         \A m \in Peers \ {n} : /\ pendingNeighbours'[m] = pendingNeighbours[m]
                                /\ deferredQueries'[m] = deferredQueries[m],
         Placed(n)',
         open' = (open \ Waiting(n)) \cup Waiting(n)',
         Waiting(n)' \cap (open \ Waiting(n)) = {}
  PROVE  QueryPlaced'
<1>1. \A m \in Peers \ {n} : Waiting(m)' = Waiting(m)
  BY DEF Waiting
<1>2. open = UNION {Waiting(m) : m \in Peers}
  BY DEF QueryPlaced
<1>3. \A m \in Peers \ {n} : Waiting(m) \subseteq open \ Waiting(n)
  BY <1>2 DEF QueryPlaced
<1>4. open \ Waiting(n) = UNION {Waiting(m) : m \in Peers \ {n}}
  BY <1>2, <1>3
<1>5. (open = UNION {Waiting(m) : m \in Peers})'
  <2>1. UNION {Waiting(m)' : m \in Peers} =
          (UNION {Waiting(m)' : m \in Peers \ {n}}) \cup Waiting(n)'
    OBVIOUS
  <2>2. UNION {Waiting(m)' : m \in Peers \ {n}} = UNION {Waiting(m) : m \in Peers \ {n}}
    BY <1>1
  <2> QED
    BY <1>4, <2>1, <2>2
<1>6. \A m \in Peers : Placed(m)'
  BY DEF Placed, QueryPlaced
<1>7. \A l, m \in Peers : l # m => (Waiting(l) \cap Waiting(m) = {})'
  <2> SUFFICES ASSUME NEW l \in Peers, NEW m \in Peers, l # m
               PROVE  Waiting(l)' \cap Waiting(m)' = {}
    OBVIOUS
  <2>1. CASE l # n /\ m # n
    BY <1>1, <2>1 DEF QueryPlaced
  <2>2. CASE l = n
    BY <1>1, <1>3, <2>2
  <2>3. CASE m = n
    BY <1>1, <1>3, <2>3
  <2> QED
    BY <2>1, <2>2, <2>3
<1> QED
  BY <1>5, <1>6, <1>7 DEF QueryPlaced, Placed

\* startNextQuery moves a query of n from one place to the other.
LEMMA StartNextQueryPlaced ==
  ASSUME TypeInv, QueryPlaced, NEW n \in Peers, StartNextQuery(n), UNCHANGED open
  PROVE  QueryPlaced'
<1>1. CASE Startable(n)
  <2> DEFINE s == deferredQueries[n]
  <2>1. s \in Seq(Queries) /\ s # <<>> /\ pendingNeighbours[n] = NoQuery
    BY <1>1 DEF TypeInv, Startable
  <2>2. pendingNeighbours'[n] = Head(s) /\ deferredQueries'[n] = Tail(s)
    BY <1>1 DEF TypeInv, StartNextQuery
  <2>3. \A m \in Peers \ {n} : /\ pendingNeighbours'[m] = pendingNeighbours[m]
                               /\ deferredQueries'[m] = deferredQueries[m]
    BY <1>1 DEF TypeInv, StartNextQuery
  <2>4. ToSet(s) = {Head(s)} \cup ToSet(Tail(s)) /\ Head(s) \in Queries
    BY <2>1, HeadTailRange, HeadTailProperties
  <2>5. IsInjective(Tail(s)) /\ Head(s) \notin ToSet(Tail(s))
    BY <2>1, HeadTailRange DEF QueryPlaced
  <2>6. Waiting(n)' = Waiting(n)
    BY <2>1, <2>2, <2>4, NoQueryAssumption DEF Waiting
  <2>7. Placed(n)'
    BY <2>2, <2>5 DEF Placed
  <2>8. Waiting(n) \subseteq open
    BY DEF QueryPlaced
  <2> QED
    BY <2>3, <2>6, <2>7, <2>8, OnePlace
<1>2. CASE ~ Startable(n)
  BY <1>2 DEF StartNextQuery, QueryPlaced, Waiting
<1> QED
  BY <1>1, <1>2

-----------------------------------------------------------------------------
\* Every step of the loop leaves each open query in one place.
LEMMA QueryPlacedStep ==
  ASSUME TypeInv, QueryPlaced, [Next]_vars
  PROVE  QueryPlaced'
<1>a. ASSUME UNCHANGED queries  PROVE QueryPlaced'
  BY <1>a DEF QueryPlaced, Waiting, queries
<1>b. ASSUME NEW n \in Peers, NEW answered, NEW aborted, EnterKnown(n, answered, aborted)
      PROVE  QueryPlaced'
  BY <1>b, StartNextQueryPlaced DEF EnterKnown
<1>c. \A m \in Peers : /\ pendingNeighbours[m] \in Queries \cup {NoQuery}
                       /\ deferredQueries[m] \in Seq(Queries)
                       /\ ToSet(deferredQueries[m]) \subseteq Queries
                       /\ Placed(m)
                       /\ Waiting(m) \subseteq open
  BY ToSetType DEF TypeInv, QueryPlaced, Placed
<1>1. ASSUME NEW n \in Peers, NEW accepted, HandleNeighbours(n, accepted)
      PROVE  QueryPlaced'
  <2> DEFINE q == pendingNeighbours[n]
             next == deferredQueries[n]
  <2>1. /\ q # NoQuery
        /\ open' = open \ {q}
        /\ pendingNeighbours'[n] = IF next = <<>> THEN NoQuery ELSE Head(next)
        /\ deferredQueries'[n] = IF next = <<>> THEN next ELSE Tail(next)
    BY <1>1 DEF HandleNeighbours, TypeInv
  <2>2. \A m \in Peers \ {n} : /\ pendingNeighbours'[m] = pendingNeighbours[m]
                               /\ deferredQueries'[m] = deferredQueries[m]
    BY <1>1 DEF HandleNeighbours, TypeInv
  <2>3. Waiting(n) = {q} \cup ToSet(next) /\ q \notin ToSet(next)
    BY <1>c, <2>1 DEF Waiting, Placed
  <2>4. Waiting(n)' = ToSet(next) /\ Placed(n)'
    <3>1. CASE next = <<>>
      BY <2>1, <3>1, EmptyRange DEF Waiting, Placed
    <3>2. CASE next # <<>>
      <4>1. next \in Seq(Queries) /\ IsInjective(next)
        BY <1>c DEF Placed
      <4>2. /\ ToSet(next) = {Head(next)} \cup ToSet(Tail(next))
            /\ IsInjective(Tail(next)) /\ Head(next) \notin ToSet(Tail(next))
            /\ Head(next) \in Queries
        BY <3>2, <4>1, HeadTailRange, HeadTailProperties
      <4> QED
        BY <2>1, <3>2, <4>2, NoQueryAssumption DEF Waiting, Placed
    <3> QED
      BY <3>1, <3>2
  <2>5. /\ open' = (open \ Waiting(n)) \cup Waiting(n)'
        /\ Waiting(n)' \cap (open \ Waiting(n)) = {}
    BY <1>c, <2>1, <2>3, <2>4
  <2> QED
    BY <2>2, <2>4, <2>5, OnePlace
<1>2. ASSUME NEW n \in Peers, Packet(n)  PROVE QueryPlaced'
  <2>1. CASE \/ PingFromUnknown(n) \/ PingFromVerifyinit(n) \/ PacketWithoutEffect(n)
             \/ PongWhileVerifyinit(n) \/ PongWhileKnown(n)
    <3>1. UNCHANGED queries
      BY <2>1 DEF PingFromUnknown, PingFromVerifyinit, PacketWithoutEffect,
                  PongWhileVerifyinit, PongWhileKnown, queries
    <3> QED
      BY <3>1, <1>a
  <2>2. CASE PingFromUnresponsive(n) \/ PongToKnown(n)
    BY <2>2, <1>b DEF PingFromUnresponsive, PongToKnown
  <2>3. CASE \E accepted \in SUBSET Others : HandleNeighbours(n, accepted)
    BY <2>3, <1>1
  <2> QED
    BY <1>2, <2>1, <2>2, <2>3 DEF Packet
<1>3. ASSUME NEW n \in Peers, TimeoutOf(n)  PROVE QueryPlaced'
  <2>1. CASE PongTimeoutVerify(n)
    <3>1. /\ open' = open \ Waiting(n)
          /\ pendingNeighbours'[n] = NoQuery
          /\ deferredQueries'[n] = <<>>
      BY <2>1 DEF PongTimeoutVerify, EnterUnknown, Abandoned, Waiting, TypeInv
    <3>2. \A m \in Peers \ {n} : /\ pendingNeighbours'[m] = pendingNeighbours[m]
                                 /\ deferredQueries'[m] = deferredQueries[m]
      BY <2>1 DEF PongTimeoutVerify, EnterUnknown, TypeInv
    <3>3. Waiting(n)' = {} /\ Placed(n)'
      BY <3>1, EmptyRange DEF Waiting, Placed
    <3> QED
      BY <3>1, <3>2, <3>3, OnePlace
  <2>2. CASE PongTimeoutContested(n)
    BY <2>2, <1>a DEF PongTimeoutContested
  <2>3. CASE PingTimeout(n)
    BY <2>3, <1>b DEF PingTimeout
  <2>4. CASE NeighboursTimeout(n)
    <3>1. /\ open' = open \ {pendingNeighbours[n]}
          /\ pendingNeighbours'[n] = NoQuery
          /\ deferredQueries'[n] = deferredQueries[n]
      BY <2>4 DEF NeighboursTimeout, AfterFailure, TypeInv
    <3>2. \A m \in Peers \ {n} : /\ pendingNeighbours'[m] = pendingNeighbours[m]
                                 /\ deferredQueries'[m] = deferredQueries[m]
      BY <2>4 DEF NeighboursTimeout, TypeInv
    <3>3. Waiting(n)' = ToSet(deferredQueries[n]) /\ Placed(n)'
      BY <1>c, <3>1, NoQueryAssumption DEF Waiting, Placed
    <3>4. pendingNeighbours[n] \notin ToSet(deferredQueries[n]) /\ NoQuery \notin open
      BY <1>c, NoQueryAssumption DEF Placed, TypeInv
    <3>5. /\ open' = (open \ Waiting(n)) \cup Waiting(n)'
          /\ Waiting(n)' \cap (open \ Waiting(n)) = {}
      BY <1>c, <3>1, <3>3, <3>4 DEF Waiting
    <3> QED
      BY <3>2, <3>3, <3>5, OnePlace
  <2> QED
    BY <1>3, <2>1, <2>2, <2>3, <2>4 DEF TimeoutOf
<1>4. ASSUME NEW n \in Peers, NEW q \in Queries, StartQuery(q, n)  PROVE QueryPlaced'
  <2>1. /\ pendingNeighbours[n] = NoQuery /\ q \notin open
        /\ open' = open \cup {q}
        /\ pendingNeighbours'[n] = q
        /\ deferredQueries'[n] = deferredQueries[n]
    BY <1>4 DEF StartQuery, TypeInv
  <2>2. \A m \in Peers \ {n} : /\ pendingNeighbours'[m] = pendingNeighbours[m]
                               /\ deferredQueries'[m] = deferredQueries[m]
    BY <1>4 DEF StartQuery, TypeInv
  <2>3. Waiting(n)' = Waiting(n) \cup {q}
    BY <2>1, NoQueryAssumption DEF Waiting
  <2>4. Placed(n)'
    BY <1>c, <2>1 DEF Waiting, Placed
  <2>5. /\ open' = (open \ Waiting(n)) \cup Waiting(n)'
        /\ Waiting(n)' \cap (open \ Waiting(n)) = {}
    BY <1>c, <2>1, <2>3
  <2> QED
    BY <2>2, <2>4, <2>5, OnePlace
<1>5. ASSUME NEW n \in Peers, NEW q \in Queries, DeferQuery(q, n)  PROVE QueryPlaced'
  <2>1. /\ q \notin open
        /\ open' = open \cup {q}
        /\ pendingNeighbours'[n] = pendingNeighbours[n]
        /\ deferredQueries'[n] = Append(deferredQueries[n], q)
    BY <1>5 DEF DeferQuery, TypeInv
  <2>2. \A m \in Peers \ {n} : /\ pendingNeighbours'[m] = pendingNeighbours[m]
                               /\ deferredQueries'[m] = deferredQueries[m]
    BY <1>5 DEF DeferQuery, TypeInv
  <2>3. ToSet(Append(deferredQueries[n], q)) = ToSet(deferredQueries[n]) \cup {q}
    BY <1>c, AppendRange
  <2>4. q \notin Waiting(n) /\ q # NoQuery
    BY <1>c, <2>1, NoQueryAssumption
  <2>5. q \notin ToSet(deferredQueries[n]) /\ q # pendingNeighbours[n]
    BY <2>4 DEF Waiting
  <2>6. Waiting(n)' = Waiting(n) \cup {q}
    BY <2>1, <2>3 DEF Waiting
  <2>7. IsInjective(Append(deferredQueries[n], q))
    BY <1>c, <2>5, AppendRange DEF Placed
  <2>8. Placed(n)'
    BY <1>c, <2>1, <2>3, <2>5, <2>7 DEF Placed
  <2>9. /\ open' = (open \ Waiting(n)) \cup Waiting(n)'
        /\ Waiting(n)' \cap (open \ Waiting(n)) = {}
    BY <1>c, <2>1, <2>6
  <2> QED
    BY <2>2, <2>8, <2>9, OnePlace
<1>6. ASSUME RefreshStep  PROVE QueryPlaced'
  BY <1>6, <1>a DEF RefreshStep, RefreshTick, CloseDone, RefreshDone
<1>7. ASSUME NEW fallback, SetFallbackNodes(fallback)  PROVE QueryPlaced'
  BY <1>7, <1>a DEF SetFallbackNodes
<1>8. CASE UNCHANGED vars
  BY <1>8, <1>a DEF vars
<1> QED
  BY <1>2, <1>3, <1>4, <1>5, <1>6, <1>7, <1>8 DEF Next, Query

\* The loop answers every query it takes at most once, and forgets none.
THEOREM QueriesAnsweredOnce == Spec => []QueryPlaced
<1>1. Init => TypeInv /\ QueryPlaced
  <2> SUFFICES ASSUME Init  PROVE QueryPlaced
    BY TypeInvInit
  <2>1. \A n \in Peers : Waiting(n) = {} /\ Placed(n)
    BY EmptyRange DEF Init, Waiting, Placed
  <2> QED
    BY <2>1 DEF Init, QueryPlaced, Placed
<1>2. TypeInv /\ QueryPlaced /\ [Next]_vars => (TypeInv /\ QueryPlaced)'
  BY TypeInvStep, QueryPlacedStep
<1> QED
  BY <1>1, <1>2, PTL DEF Spec

-----------------------------------------------------------------------------
(* The queries stand in line: a refinement of QueryLines.  A step changes at *)
(* most one node's line.                                                     *)

\* A pending query and the deferred ones, as a line.
Joined(p, d) == (IF p = NoQuery THEN <<>> ELSE <<p>>) \o d
LEMMA JoinedProperties ==
  ASSUME NEW p \in Queries \cup {NoQuery}, NEW d \in Seq(Queries)
  PROVE  /\ Joined(p, d) \in Seq(Queries)
         /\ p = NoQuery => Joined(p, d) = d
         /\ p # NoQuery => /\ Joined(p, d) = <<p>> \o d /\ Joined(p, d) # <<>>
                           /\ Tail(Joined(p, d)) = d
         /\ d # <<>> => d = <<Head(d)>> \o Tail(d)
         /\ \A q \in Queries : Joined(p, Append(d, q)) = Append(Joined(p, d), q)
         /\ ToSet(Joined(p, d)) = ({p} \ {NoQuery}) \cup ToSet(d)
<1>1. PICK h : /\ h = IF p = NoQuery THEN <<>> ELSE <<p>>
               /\ Joined(p, d) = h \o d
               /\ \A q : Joined(p, Append(d, q)) = h \o Append(d, q)
  BY DEF Joined
<1>2. h \in Seq(Queries) /\ ToSet(h) = {p} \ {NoQuery}
  <2>1. CASE p = NoQuery
    BY <1>1, <2>1, EmptySeq, EmptyRange
  <2>2. CASE p # NoQuery
    <3>1. h = <<p>> /\ p \in Queries
      BY <1>1, <2>2
    <3>2. h \in Seq(Queries) /\ DOMAIN h = {1} /\ h[1] = p
      BY <3>1
    <3> QED
      BY <2>2, <3>2 DEF ToSet
  <2> QED
    BY <2>1, <2>2
<1>3. Joined(p, d) \in Seq(Queries) /\ ToSet(Joined(p, d)) = ({p} \ {NoQuery}) \cup ToSet(d)
  <2>1. h \o d \in Seq(Queries) /\ ToSet(h \o d) = ToSet(h) \cup ToSet(d)
    BY <1>2, ConcatRange
  <2> QED
    BY <1>1, <1>2, <2>1
<1>4. p = NoQuery => Joined(p, d) = d
  BY <1>1, ConcatEmptySeq
<1>5. ASSUME p # NoQuery
      PROVE  /\ Joined(p, d) = <<p>> \o d /\ Joined(p, d) # <<>>
             /\ Tail(Joined(p, d)) = d
  <2>1. Joined(p, d) = <<p>> \o d
    BY <1>1, <1>5
  <2>2. p \in Queries /\ <<p>> \in Seq(Queries) /\ <<p>> # <<>> /\ Len(<<p>>) = 1
    BY <1>5
  <2>3. <<p>> \o d # <<>>
    BY <2>2, ConcatEqualIffEmpty
  <2>4. Tail(<<p>> \o d) = d
    <3> DEFINE j == <<p>> \o d
    <3>1. /\ j \in Seq(Queries) /\ Len(j) = Len(d) + 1 /\ Len(d) \in Nat
          /\ \A i \in 1 .. Len(d) + 1 : j[i] = IF i <= 1 THEN <<p>>[i] ELSE d[i - 1]
      BY <2>2, ConcatProperties, LenProperties
    <3>2. j # <<>>
      BY <2>3
    <3> HIDE DEF j
    <3>3. /\ Tail(j) \in Seq(Queries) /\ Len(Tail(j)) = Len(j) - 1
          /\ \A i \in 1 .. Len(Tail(j)) : Tail(j)[i] = j[i + 1]
      BY <3>1, <3>2, HeadTailProperties
    <3>4. \A i \in 1 .. Len(d) : Tail(j)[i] = d[i]
      BY <3>1, <3>3
    <3>5. Tail(j) = d
      BY <3>1, <3>3, <3>4, SeqEqual
    <3> QED
      BY <3>5 DEF j
  <2> QED
    BY <2>1, <2>3, <2>4
<1>6. ASSUME d # <<>>  PROVE d = <<Head(d)>> \o Tail(d)
  <2>1. /\ Head(d) \in Queries /\ Tail(d) \in Seq(Queries) /\ Len(Tail(d)) = Len(d) - 1
        /\ \A i \in 1 .. Len(Tail(d)) : Tail(d)[i] = d[i + 1]
        /\ Len(d) \in Nat \ {0}
        /\ Head(d) = d[1]
    BY <1>6, HeadTailProperties, EmptySeq
  <2> DEFINE e == <<Head(d)>> \o Tail(d)
  <2>2. <<Head(d)>> \in Seq(Queries) /\ Len(<<Head(d)>>) = 1 /\ <<Head(d)>>[1] = Head(d)
    BY <2>1
  <2>3. /\ e \in Seq(Queries) /\ Len(e) = 1 + Len(Tail(d))
        /\ \A i \in 1 .. 1 + Len(Tail(d)) :
             e[i] = IF i <= 1 THEN <<Head(d)>>[i] ELSE Tail(d)[i - 1]
    BY <2>1, <2>2, ConcatProperties
  <2> HIDE DEF e
  <2>4. Len(e) = Len(d) /\ \A i \in 1 .. Len(d) : e[i] = d[i]
    <3> SUFFICES ASSUME NEW i \in 1 .. Len(d)  PROVE e[i] = d[i]
      BY <2>1, <2>3
    <3>1. CASE i = 1
      BY <2>1, <2>2, <2>3, <3>1
    <3>2. CASE i # 1
      <4>1. i - 1 \in 1 .. Len(Tail(d)) /\ i - 1 + 1 = i /\ ~ (i <= 1)
        BY <2>1, <3>2
      <4> QED
        BY <2>1, <2>3, <4>1
    <3> QED
      BY <3>1, <3>2
  <2>5. e = d
    BY <2>3, <2>4, SeqEqual
  <2> QED
    BY <2>5 DEF e
<1>7. ASSUME NEW q \in Queries  PROVE Joined(p, Append(d, q)) = Append(Joined(p, d), q)
  <2>1. Append(d, q) = d \o <<q>> /\ <<q>> \in Seq(Queries)
    BY AppendIsConcat
  <2>2. Append(h \o d, q) = (h \o d) \o <<q>>
    BY <1>1, <1>3, AppendIsConcat
  <2>3. (h \o d) \o <<q>> = h \o (d \o <<q>>)
    BY <1>2, <2>1, ConcatAssociative
  <2> QED
    BY <1>1, <2>1, <2>2, <2>3
<1> QED
  BY <1>3, <1>4, <1>5, <1>6, <1>7

\* Every step of the loop changes the lines as QueryLines allows, or not at all.
LEMMA LinesStep ==
  TypeInv /\ PendingTimed /\ QueryPlaced /\ [Next]_vars => [Lines!Next]_(Lines!vars)
<1> SUFFICES ASSUME TypeInv, PendingTimed, QueryPlaced, [Next]_vars
             PROVE  [Lines!Next]_(Lines!vars)
  OBVIOUS
<1> DEFINE line == [m \in Peers |-> Line(m)]
           asking == {m \in Peers : pendingNeighbours[m] # NoQuery}
           ready == {m \in Peers : CanQuery(m)}
           Goal == [Lines!Next]_(Lines!vars)
<1>p. \A m \in Peers : /\ pendingNeighbours[m] \in Queries \cup {NoQuery}
                       /\ deferredQueries[m] \in Seq(Queries)
                       /\ pendingNeighbours'[m] \in Queries \cup {NoQuery}
                       /\ deferredQueries'[m] \in Seq(Queries)
                       /\ pendingNeighbours[m] # NoQuery => CanQuery(m)
  BY TypeInvStep DEF TypeInv, PendingTimed
<1>l. /\ line = [m \in Peers |-> line[m]]
      /\ line' = [m \in Peers |-> line'[m]]
      /\ \A m \in Peers : /\ line[m] = Joined(pendingNeighbours[m], deferredQueries[m])
                          /\ line'[m] = Joined(pendingNeighbours'[m], deferredQueries'[m])
  BY DEF Line, Joined
<1>a. /\ \A m : m \in asking <=> m \in Peers /\ pendingNeighbours[m] # NoQuery
      /\ \A m : m \in asking' <=> m \in Peers /\ pendingNeighbours'[m] # NoQuery
  OBVIOUS
<1>r. /\ ready' \in SUBSET Peers /\ ready \subseteq ready'
      /\ \A m \in Peers : m \in ready <=> CanQuery(m)
      /\ \A m \in Peers : m \in ready' <=> CanQuery(m)'
  BY CanQueryLasts
<1>j. ASSUME NEW m \in Peers
      PROVE  /\ pendingNeighbours[m] = NoQuery => line[m] = deferredQueries[m]
             /\ pendingNeighbours[m] # NoQuery => Tail(line[m]) = deferredQueries[m]
             /\ ToSet(line[m]) = Waiting(m)
  <2>1. PICK p \in Queries \cup {NoQuery}, d \in Seq(Queries) :
          p = pendingNeighbours[m] /\ d = deferredQueries[m] /\ line[m] = Joined(p, d)
    BY <1>p, <1>l, Zenon
  <2>2. /\ p = NoQuery => Joined(p, d) = d
        /\ p # NoQuery => Tail(Joined(p, d)) = d
        /\ ToSet(Joined(p, d)) = ({p} \ {NoQuery}) \cup ToSet(d)
    BY JoinedProperties
  <2> QED
    BY <2>1, <2>2, Zenon DEF Waiting
<1>k. ASSUME NEW m \in Peers
      PROVE  /\ pendingNeighbours'[m] = NoQuery => line'[m] = deferredQueries'[m]
             /\ pendingNeighbours'[m] # NoQuery =>
                  line'[m] = <<pendingNeighbours'[m]>> \o deferredQueries'[m]
  <2>1. PICK p \in Queries \cup {NoQuery}, d \in Seq(Queries) :
          p = pendingNeighbours'[m] /\ d = deferredQueries'[m] /\ line'[m] = Joined(p, d)
    BY <1>p, <1>l, Zenon
  <2>2. /\ p = NoQuery => Joined(p, d) = d
        /\ p # NoQuery => Joined(p, d) = <<p>> \o d
    BY JoinedProperties
  <2> QED
    BY <2>1, <2>2, Zenon
<1>h. ASSUME NEW m \in Peers, deferredQueries[m] # <<>>
      PROVE  LET d == deferredQueries[m]
             IN  /\ Head(d) \in Queries /\ Tail(d) \in Seq(Queries) /\ Head(d) # NoQuery
                 /\ d = <<Head(d)>> \o Tail(d)
  <2>1. PICK d \in Seq(Queries) : d = deferredQueries[m] /\ d # <<>>
    BY <1>h, <1>p
  <2>2. d = <<Head(d)>> \o Tail(d) /\ Head(d) \in Queries /\ Tail(d) \in Seq(Queries)
    BY <2>1, JoinedProperties, HeadTailProperties
  <2> QED
    BY <2>1, <2>2, NoQueryAssumption, Zenon
<1>n. ASSUME NEW q \in Queries, q \notin open  PROVE ~ Lines!InLine(q)
  <2>1. \A m \in Peers : q \notin ToSet(line[m])
    BY <1>j, <1>n DEF QueryPlaced
  <2>2. \A m \in Peers : q \notin Lines!ToSet(line[m])
    BY <2>1, Zenon DEF Lines!ToSet, ToSet
  <2> QED
    BY <2>2 DEF Lines!InLine, line
<1>g. /\ \A n \in Peers : Lines!Begin(n) \/ Lines!Leave(n) \/ Lines!GiveUp(n) => Goal
      /\ \A n \in Peers, q \in Queries : Lines!Enter(q, n) \/ Lines!Overtake(q, n) => Goal
      /\ UNCHANGED <<line, asking>> => Goal
  BY <1>r DEF Lines!Next
<1> HIDE DEF line, asking, ready, Goal
<1>s. ASSUME UNCHANGED <<pendingNeighbours, deferredQueries>>  PROVE Goal
  <2>1. \A m \in Peers : line'[m] = line[m]
    BY <1>l, <1>s
  <2>2. line' = line
    BY <1>l, <2>1
  <2>3. asking' = asking
    BY <1>a, <1>s
  <2> QED
    BY <1>g, <2>2, <2>3
<1>o. ASSUME NEW n \in Peers,
             \A m \in Peers \ {n} : /\ pendingNeighbours'[m] = pendingNeighbours[m]
                                    /\ deferredQueries'[m] = deferredQueries[m]
      PROVE  /\ line' = [line EXCEPT ![n] = line'[n]]
             /\ pendingNeighbours'[n] # NoQuery => asking' = asking \cup {n}
             /\ pendingNeighbours'[n] = NoQuery => asking' = asking \ {n}
  <2>1. \A m \in Peers \ {n} : line'[m] = line[m]
    BY <1>l, <1>o
  <2>2. line' = [line EXCEPT ![n] = line'[n]]
    BY <1>l, <2>1
  <2>3. \A m \in Peers \ {n} : m \in asking' <=> m \in asking
    BY <1>a, <1>o
  <2> QED
    BY <1>a, <2>2, <2>3
<1>e. ASSUME NEW n \in Peers, NEW answered, NEW aborted, EnterKnown(n, answered, aborted)
      PROVE  Goal
  <2>1. CASE Startable(n)
    <3> DEFINE d == deferredQueries[n]
    <3>1. /\ d # <<>> /\ pendingNeighbours[n] = NoQuery
          /\ pendingNeighbours'[n] = Head(d) /\ deferredQueries'[n] = Tail(d)
          /\ \A m \in Peers \ {n} : /\ pendingNeighbours'[m] = pendingNeighbours[m]
                                   /\ deferredQueries'[m] = deferredQueries[m]
          /\ CanQuery(n)'
      BY <1>e, <2>1 DEF EnterKnown, StartNextQuery, Startable, TypeInv, CanQuery, Queryable
    <3>2. Head(d) # NoQuery /\ d = <<Head(d)>> \o Tail(d)
      BY <1>h, <3>1
    <3>3. line[n] = d /\ line'[n] = <<Head(d)>> \o Tail(d)
      BY <1>j, <1>k, <3>1, <3>2, Zenon
    <3>4. line'[n] = line[n]
      BY <3>2, <3>3, Zenon
    <3>7. line' = line
      BY <1>l, <1>o, <3>1, <3>4
    <3>5. asking' = asking \cup {n} /\ n \in ready' \ asking
      BY <1>a, <1>o, <1>r, <3>1, <3>2
    <3>6. Lines!Begin(n)
      BY <3>1, <3>3, <3>5, <3>7 DEF Lines!Begin, line, asking, ready
    <3> QED
      BY <1>g, <3>6
  <2>2. CASE ~ Startable(n)
    BY <1>e, <1>s, <2>2 DEF EnterKnown, StartNextQuery
  <2> QED
    BY <2>1, <2>2
<1>leave.
  ASSUME NEW n \in Peers, pendingNeighbours[n] # NoQuery,
         line'[n] = deferredQueries[n],
         pendingNeighbours'[n] # NoQuery => deferredQueries[n] # <<>>,
         \A m \in Peers \ {n} : /\ pendingNeighbours'[m] = pendingNeighbours[m]
                                /\ deferredQueries'[m] = deferredQueries[m]
  PROVE  Goal
  <2>1. Tail(line[n]) = deferredQueries[n]
    BY <1>j, <1>leave
  <2>2. line' = [line EXCEPT ![n] = Tail(line[n])]
    BY <1>o, <1>leave, <2>1
  <2>3. n \in asking
    BY <1>a, <1>leave
  <2>4. asking' = asking \ {n} \/ (line'[n] # <<>> /\ asking' = asking)
    <3>1. CASE pendingNeighbours'[n] = NoQuery
      BY <1>o, <1>leave, <3>1
    <3>2. CASE pendingNeighbours'[n] # NoQuery
      <4>1. asking' = asking \cup {n}
        BY <1>o, <1>leave, <3>2
      <4> QED
        BY <1>leave, <2>3, <3>2, <4>1
    <3> QED
      BY <3>1, <3>2
  <2>5. Lines!Leave(n)
    BY <2>2, <2>3, <2>4 DEF Lines!Leave, line, asking
  <2> QED
    BY <1>g, <2>5
<1>1. ASSUME NEW n \in Peers, NEW accepted, HandleNeighbours(n, accepted)  PROVE Goal
  <2> DEFINE d == deferredQueries[n]
  <2>1. /\ pendingNeighbours[n] # NoQuery
        /\ pendingNeighbours'[n] = IF d = <<>> THEN NoQuery ELSE Head(d)
        /\ deferredQueries'[n] = IF d = <<>> THEN d ELSE Tail(d)
        /\ \A m \in Peers \ {n} : /\ pendingNeighbours'[m] = pendingNeighbours[m]
                                 /\ deferredQueries'[m] = deferredQueries[m]
    BY <1>1 DEF HandleNeighbours, TypeInv
  <2>2. line'[n] = d
    <3>1. CASE d = <<>>
      BY <1>k, <2>1, <3>1
    <3>2. CASE d # <<>>
      <4>1. Head(d) # NoQuery /\ d = <<Head(d)>> \o Tail(d)
        BY <1>h, <3>2
      <4>2. line'[n] = <<Head(d)>> \o Tail(d)
        BY <1>k, <2>1, <3>2, <4>1
      <4> QED
        BY <4>1, <4>2, Zenon
    <3> QED
      BY <3>1, <3>2
  <2> QED
    BY <1>leave, <2>1, <2>2
<1>2. ASSUME NEW n \in Peers, Packet(n)  PROVE Goal
  <2>1. CASE \/ PingFromUnknown(n) \/ PingFromVerifyinit(n) \/ PacketWithoutEffect(n)
             \/ PongWhileVerifyinit(n) \/ PongWhileKnown(n)
    <3>1. UNCHANGED <<pendingNeighbours, deferredQueries>>
      BY <2>1 DEF PingFromUnknown, PingFromVerifyinit, PacketWithoutEffect,
                  PongWhileVerifyinit, PongWhileKnown, queries
    <3> QED
      BY <3>1, <1>s
  <2>2. CASE PingFromUnresponsive(n) \/ PongToKnown(n)
    BY <2>2, <1>e DEF PingFromUnresponsive, PongToKnown
  <2>3. CASE \E accepted \in SUBSET Others : HandleNeighbours(n, accepted)
    BY <2>3, <1>1
  <2> QED
    BY <1>2, <2>1, <2>2, <2>3 DEF Packet
<1>3. ASSUME NEW n \in Peers, PongTimeoutVerify(n)  PROVE Goal
  <2>1. /\ ~ CanQuery(n)
        /\ pendingNeighbours'[n] = NoQuery /\ deferredQueries'[n] = <<>>
        /\ \A m \in Peers \ {n} : /\ pendingNeighbours'[m] = pendingNeighbours[m]
                                 /\ deferredQueries'[m] = deferredQueries[m]
    BY <1>3 DEF PongTimeoutVerify, EnterUnknown, TypeInv, CanQuery, Queryable
  <2>2. n \notin ready /\ n \notin asking
    BY <1>a, <1>p, <1>r, <2>1
  <2>3. line'[n] = <<>>
    BY <1>k, <2>1
  <2>4. line' = [line EXCEPT ![n] = <<>>] /\ asking' = asking
    <3>1. line' = [line EXCEPT ![n] = line'[n]] /\ asking' = asking \ {n}
      BY <1>o, <2>1
    <3>2. asking \ {n} = asking
      BY <2>2
    <3> QED
      BY <2>3, <3>1, <3>2, Zenon
  <2>5. Lines!GiveUp(n)
    BY <2>2, <2>4 DEF Lines!GiveUp, line, asking, ready
  <2> QED
    BY <1>g, <2>5
<1>4. ASSUME NEW n \in Peers, NeighboursTimeout(n)  PROVE Goal
  <2>1. /\ pendingNeighbours[n] # NoQuery
        /\ pendingNeighbours'[n] = NoQuery /\ deferredQueries'[n] = deferredQueries[n]
        /\ \A m \in Peers \ {n} : /\ pendingNeighbours'[m] = pendingNeighbours[m]
                                 /\ deferredQueries'[m] = deferredQueries[m]
    BY <1>4 DEF NeighboursTimeout, AfterFailure, TypeInv, PendingTimed
  <2>2. line'[n] = deferredQueries[n]
    BY <1>k, <2>1
  <2> QED
    BY <1>leave, <2>1, <2>2
<1>5. ASSUME NEW n \in Peers, TimeoutOf(n)  PROVE Goal
  BY <1>3, <1>4, <1>5, <1>e, <1>s DEF TimeoutOf, PongTimeoutContested, PingTimeout, queries
<1>6. ASSUME NEW n \in Peers, NEW q \in Queries, StartQuery(q, n)  PROVE Goal
  <2>1. /\ q \notin open /\ CanQuery(n)
        /\ pendingNeighbours[n] = NoQuery /\ pendingNeighbours'[n] = q
        /\ deferredQueries'[n] = deferredQueries[n]
        /\ \A m \in Peers \ {n} : /\ pendingNeighbours'[m] = pendingNeighbours[m]
                                 /\ deferredQueries'[m] = deferredQueries[m]
        /\ q # NoQuery
    BY <1>6, NoQueryAssumption DEF StartQuery, TypeInv
  <2>2. line[n] = deferredQueries[n] /\ line'[n] = <<q>> \o deferredQueries[n]
    BY <1>j, <1>k, <2>1, Zenon
  <2>3. line' = [line EXCEPT ![n] = <<q>> \o line[n]] /\ asking' = asking \cup {n}
    BY <1>o, <2>1, <2>2
  <2>4. n \in ready \ asking /\ ~ Lines!InLine(q)
    BY <1>a, <1>n, <1>r, <2>1
  <2>5. Lines!Overtake(q, n)
    BY <2>3, <2>4 DEF Lines!Overtake, line, asking, ready
  <2> QED
    BY <1>g, <2>5
<1>7. ASSUME NEW n \in Peers, NEW q \in Queries, DeferQuery(q, n)  PROVE Goal
  <2>1. /\ q \notin open
        /\ pendingNeighbours'[n] = pendingNeighbours[n]
        /\ deferredQueries'[n] = Append(deferredQueries[n], q)
        /\ \A m \in Peers \ {n} : /\ pendingNeighbours'[m] = pendingNeighbours[m]
                                 /\ deferredQueries'[m] = deferredQueries[m]
    BY <1>7 DEF DeferQuery, TypeInv
  <2>2. line'[n] = Append(line[n], q)
    <3>1. PICK p \in Queries \cup {NoQuery}, d \in Seq(Queries) :
            p = pendingNeighbours[n] /\ d = deferredQueries[n]
      BY <1>p
    <3>2. line[n] = Joined(p, d) /\ line'[n] = Joined(p, Append(d, q))
      BY <1>l, <2>1, <3>1, Zenon
    <3>3. Joined(p, Append(d, q)) = Append(Joined(p, d), q)
      BY JoinedProperties
    <3> QED
      BY <3>2, <3>3, Zenon
  <2>3. line' = [line EXCEPT ![n] = Append(line[n], q)] /\ asking' = asking
    BY <1>a, <1>o, <2>1, <2>2
  <2>4. Lines!Enter(q, n)
    BY <1>n, <2>1, <2>3 DEF Lines!Enter, line, asking
  <2> QED
    BY <1>g, <2>4
<1>8. ASSUME RefreshStep \/ \E fallback \in Fallbacks : SetFallbackNodes(fallback)
      PROVE  Goal
  BY <1>8, <1>s DEF RefreshStep, RefreshTick, CloseDone, RefreshDone, SetFallbackNodes, queries
<1>9. ASSUME UNCHANGED vars  PROVE Goal
  BY <1>9, <1>s DEF vars, queries
<1> QED
  BY <1>2, <1>5, <1>6, <1>7, <1>8, <1>9 DEF Next, Query, Goal

\* The loop serves each node's queries in line, with any number of queries, and
\* however packets, timeouts, revalidations and new queries are interleaved
\* (net.go: the queryReq case, startNextQuery and what calls it).
THEOREM ImplementsQueryLines == Spec => LinesSpec
<1>1. Init => TypeInv /\ PendingTimed /\ QueryPlaced /\ Lines!Init
  <2> SUFFICES ASSUME Init  PROVE PendingTimed /\ QueryPlaced /\ Lines!Init
    BY TypeInvInit
  <2>1. \A n \in Peers : Waiting(n) = {} /\ Placed(n)
    BY EmptyRange DEF Init, Waiting, Placed
  <2>2. PendingTimed /\ QueryPlaced
    BY <2>1 DEF Init, PendingTimed, QueryPlaced, Placed
  <2>3. \A n \in Peers : Line(n) = <<>> /\ pendingNeighbours[n] = NoQuery /\ ~ CanQuery(n)
    <3> TAKE n \in Peers
    <3>1. /\ pendingNeighbours[n] = NoQuery /\ deferredQueries[n] = <<>>
          /\ <<>> \in Seq(Queries) /\ ~ CanQuery(n)
      BY EmptySeq DEF Init, CanQuery, Queryable
    <3> QED
      BY <3>1, JoinedProperties DEF Line, Joined
  <2> QED
    BY <2>2, <2>3 DEF Lines!Init
<1>2. TypeInv /\ PendingTimed /\ QueryPlaced /\ [Next]_vars
        => (TypeInv /\ PendingTimed /\ QueryPlaced)'
  BY TypeInvStep, PendingTimedStep, QueryPlacedStep
<1> QED
  BY <1>1, <1>2, LinesStep, PTL DEF Spec, LinesSpec, Lines!Spec
=============================================================================
