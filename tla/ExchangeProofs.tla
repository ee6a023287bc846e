--------------------------- MODULE ExchangeProofs ---------------------------
(***************************************************************************)
(* Proofs about Exchange, for any two programs, any addresses they may be  *)
(* at and any number of packets.                                           *)
(*                                                                         *)
(* The packets are what the argument is about: once the faults have        *)
(* stopped, an open ping is under way or its answer is, a node that is     *)
(* unknown has sent nothing, and an answer under way comes from a program  *)
(* that is verifying us in turn or has done so.                            *)
(***************************************************************************)
EXTENDS Exchange, FiniteSetTheorems, TLAPS

\* The variables are functions on the parties.
FunctionTypes ==
  /\ addr \in [Parties -> Anywhere \cup {None}]
  /\ pingEcho \in [Parties -> Hashes \cup {None}]
  /\ timers \in [Parties -> SUBSET {"pongTimeout", "pingTimeout"}]
  /\ home \in [Parties -> Anywhere]
  /\ packets \subseteq Packets

Typed == TypeOK /\ FunctionTypes

\* What a node in verification waits for, with faults and without.
Waiting ==
  \A p \in Parties :
    /\ state[p] = "unknown" => pingEcho[p] = None
    /\ state[p] \in {"verifyinit", "verifywait"} => "pongTimeout" \in timers[p]
    /\ state[p] = "remoteverifywait" => pingEcho[p] = None /\ "pingTimeout" \in timers[p]
    /\ "pongTimeout" \in timers[p] => pingEcho[p] # None

\* A node that answers queries, or will when its ping is answered.
Reachable == Queryable \cup {"verifywait"}

PongUnderWay(p) == \E k \in packets : k.type = "pong" /\ k.from = Other(p)

\* p's open ping is on its way, or its answer, unless it has timed out.
Exchanging(p) ==
  \E k \in packets :
    /\ k.hash = pingEcho[p]
    /\ \/ k.type = "ping" /\ k.from = p
       \/ k.type = "pong" /\ k.from = Other(p)

\* Packets go from where their sender is to where the other is.
Delivered ==
  /\ \A p \in Parties : addr[p] \in {None, home[Other(p)]}
  /\ \A k \in packets : k.src = home[k.from] /\ k.dst = home[Other(k.from)]

InTime(p) ==
  /\ "pongTimeout" \in timers[p] => Exchanging(p)
  /\ state[p] = "unknown" => \A k \in packets : k.type = "ping" /\ k.from = Other(p)
  /\ state[p] = "remoteverifywait" => state[Other(p)] \in Reachable
  /\ state[p] = "verifyinit" /\ PongUnderWay(p) => state[Other(p)] \in Reachable

Timely == timely => Delivered /\ \A p \in Parties : InTime(p)

ExchangeInv == Typed /\ Waiting /\ Timely

-----------------------------------------------------------------------------
\* There are two parties, each the other's other.
LEMMA OtherParty ==
  ASSUME NEW p \in Parties
  PROVE  /\ Other(p) \in Parties
         /\ Other(p) # p
         /\ Other(Other(p)) = p
         /\ \A q \in Parties : q = p \/ q = Other(p)
<1>1. IsFiniteSet(Parties) /\ Cardinality(Parties) = 2
  BY PartiesAssumption
<1>2. ASSUME NEW x \in Parties
      PROVE  \E y \in Parties : y # x /\ Parties = {x, y}
  <2>1. IsFiniteSet(Parties \ {x}) /\ Cardinality(Parties \ {x}) = 1
    BY <1>1, FS_RemoveElement
  <2>2. PICK y : Parties \ {x} = {y}
    BY <2>1, FS_Singleton
  <2> QED BY <2>2
<1>3. PICK y \in Parties : y # p /\ Parties = {p, y}
  BY <1>2
<1>4. Other(p) = y
  BY <1>3 DEF Other
<1>5. Other(y) = p
  BY <1>3 DEF Other
<1> QED BY <1>3, <1>4, <1>5

\* Only the node that changes changes.
LEMMA BecomeValues ==
  ASSUME Typed, NEW p \in Parties, NEW st, NEW echo, NEW tms, Become(p, st, echo, tms)
  PROVE  /\ state'[p] = st
         /\ pingEcho'[p] = echo
         /\ timers'[p] = tms
         /\ \A q \in Parties : q # p =>
              state'[q] = state[q] /\ pingEcho'[q] = pingEcho[q] /\ timers'[q] = timers[q]
BY DEF Become, Typed, TypeOK, FunctionTypes

\* Neither does any other address.
LEMMA AddressValues ==
  ASSUME Typed, NEW p \in Parties, NEW a, addr' = [addr EXCEPT ![p] = a]
  PROVE  /\ addr'[p] = a
         /\ \A q \in Parties : q # p => addr'[q] = addr[q]
BY DEF Typed, FunctionTypes

\* An address of either party is an address.
LEMMA HomeAnywhere == \A p \in Parties : Homes[p] \subseteq Anywhere
BY DEF Anywhere

-----------------------------------------------------------------------------
(* Types *)

\* A node becomes one of its types.
LEMMA BecomeTyped ==
  ASSUME Typed, NEW p \in Parties, NEW st \in {"unknown"} \cup Verifying \cup Queryable,
         NEW echo \in Hashes \cup {None}, NEW tms \in SUBSET {"pongTimeout", "pingTimeout"},
         Become(p, st, echo, tms)
  PROVE  /\ state' \in [Parties -> {"unknown"} \cup Verifying \cup Queryable]
         /\ pingEcho' \in [Parties -> Hashes \cup {None}]
         /\ timers' \in [Parties -> SUBSET {"pongTimeout", "pingTimeout"}]
BY DEF Become, Typed, TypeOK, FunctionTypes

\* The packets that are sent are packets, between the parties' addresses.
LEMMA SentTyped ==
  ASSUME Typed, NEW p \in Parties, NEW dst \in Homes[Other(p)]
  PROVE  /\ Hash(dst) \in Hashes
         /\ Hash(dst).dst = dst
         /\ PingSent(p, dst) \subseteq {Ping(p, dst)}
         /\ Ping(p, dst) \in Packets
         /\ \A tok \in Hashes : Pong(p, dst, tok) \in Packets
<1>1. dst \in Anywhere
  BY HomeAnywhere, OtherParty
<1>2. Hash(dst) \in Hashes
  BY <1>1 DEF Hash, Hashes, Typed, TypeOK
<1>3. home[p] \in Anywhere
  BY DEF Typed, FunctionTypes
<1>4. PingSent(p, dst) \subseteq {Ping(p, dst)}
  BY DEF PingSent
<1>5. Ping(p, dst) \in Packets
  BY <1>1, <1>2, <1>3 DEF Ping, Packets
<1>6. \A tok \in Hashes : Pong(p, dst, tok) \in Packets
  BY <1>1, <1>3 DEF Pong, Packets
<1>7. Hash(dst).dst = dst
  BY DEF Hash
<1> QED BY <1>2, <1>4, <1>5, <1>6, <1>7

\* So is what is open then.
LEMMA OpenTyped ==
  ASSUME Typed, NEW p \in Parties, NEW dst \in Homes[Other(p)]
  PROVE  /\ OpenPing(p, dst) \in Hashes
         /\ OpenPing(p, dst).dst \in Homes[Other(p)]
<1>1. Hash(dst) \in Hashes /\ Hash(dst).dst = dst
  BY SentTyped
<1>2. pingEcho[p] \in Hashes \cup {None} /\ (pingEcho[p] # None => pingEcho[p].dst \in Homes[Other(p)])
  BY DEF Typed, TypeOK, FunctionTypes
<1> QED BY <1>1, <1>2 DEF OpenPing

\* A packet between the parties' addresses.
Between(k) == k \in Packets /\ k.src \in Homes[k.from] /\ k.dst \in Homes[Other(k.from)]

\* What is sent to an address of the other party is.
LEMMA SentBetween ==
  ASSUME Typed, NEW p \in Parties, NEW dst \in Homes[Other(p)]
  PROVE  /\ \A k \in PingSent(p, dst) : Between(k)
         /\ \A tok \in Hashes : Between(Pong(p, dst, tok))
<1>1. home[p] \in Homes[p]
  BY DEF Typed, TypeOK
<1>2. Ping(p, dst).src = home[p] /\ Ping(p, dst).from = p /\ Ping(p, dst).dst = dst
  BY DEF Ping
<1>3. \A tok \in Hashes :
        Pong(p, dst, tok).src = home[p] /\ Pong(p, dst, tok).from = p /\ Pong(p, dst, tok).dst = dst
  BY DEF Pong
<1> QED BY <1>1, <1>2, <1>3, SentTyped DEF Between

\* A step of one node keeps the types when what the node becomes has them.
LEMMA NodeTyped ==
  ASSUME Typed, UNCHANGED <<home, second, timely>>,
         NEW p \in Parties, NEW st \in {"unknown"} \cup Verifying \cup Queryable,
         NEW echo \in Hashes \cup {None}, NEW tms \in SUBSET {"pongTimeout", "pingTimeout"},
         NEW a \in Homes[Other(p)] \cup {None},
         Become(p, st, echo, tms),
         addr' = [addr EXCEPT ![p] = a],
         a = None => st = "unknown",
         echo # None => echo.dst \in Homes[Other(p)],
         \A k \in packets' : k \in packets \/ Between(k)
  PROVE  Typed'
<1>1. /\ state' \in [Parties -> {"unknown"} \cup Verifying \cup Queryable]
      /\ pingEcho' \in [Parties -> Hashes \cup {None}]
      /\ timers' \in [Parties -> SUBSET {"pongTimeout", "pingTimeout"}]
  BY BecomeTyped
<1>2. a \in Anywhere \cup {None}
  BY HomeAnywhere, OtherParty
<1>3. addr' \in [Parties -> Anywhere \cup {None}]
  BY <1>2 DEF Typed, FunctionTypes
<1>4. \A k \in packets' : Between(k)
  BY DEF Between, Typed, TypeOK, FunctionTypes
<1>5. ASSUME NEW q \in Parties
      PROVE  /\ addr'[q] \in Homes[Other(q)] \cup {None}
             /\ addr'[q] = None => state'[q] = "unknown"
             /\ pingEcho'[q] # None => pingEcho'[q].dst \in Homes[Other(q)]
             /\ timers'[q] \subseteq {"pongTimeout", "pingTimeout"}
             /\ home'[q] \in Homes[q]
  <2>1. /\ state'[p] = st /\ pingEcho'[p] = echo /\ timers'[p] = tms
        /\ q # p => state'[q] = state[q] /\ pingEcho'[q] = pingEcho[q] /\ timers'[q] = timers[q]
    BY BecomeValues
  <2>2. addr'[p] = a /\ (q # p => addr'[q] = addr[q])
    BY AddressValues
  <2>3. home'[q] \in Homes[q]
    BY DEF Typed, TypeOK
  <2>4. CASE q = p
    BY <2>1, <2>2, <2>3, <2>4
  <2>5. CASE q # p
    BY <2>1, <2>2, <2>3, <2>5 DEF Typed, TypeOK
  <2> QED BY <2>4, <2>5
<1>6. TypeOK'
  <2>1. second' \in 0 .. MaxSecond /\ timely' \in BOOLEAN
    BY DEF Typed, TypeOK
  <2>2. \A k \in packets' : k.src \in Homes[k.from] /\ k.dst \in Homes[Other(k.from)]
    BY <1>4 DEF Between
  <2> QED BY <1>1, <1>5, <2>1, <2>2 DEF TypeOK
<1>7. FunctionTypes'
  BY <1>1, <1>3, <1>4 DEF FunctionTypes, Typed, Between
<1> QED BY <1>6, <1>7 DEF Typed

\* What a packet of the other party says of it.
LEMMA PacketValues ==
  ASSUME Typed, NEW p \in Parties, NEW k \in packets, Incoming(p, k)
  PROVE  /\ k.src \in Homes[Other(p)]
         /\ k.src # None
         /\ k.hash \in Hashes
         /\ k.hash # None
         /\ addr' = [addr EXCEPT ![p] = k.src]
<1>1. k \in Packets /\ k.src \in Homes[k.from] /\ k.from = Other(p)
  BY DEF Incoming, Typed, TypeOK, FunctionTypes
<1>2. k.src \in Anywhere /\ k.hash \in Hashes
  BY <1>1 DEF Packets
<1>3. k.src # None /\ k.hash # None
  BY <1>2, NoneAssumption
<1> QED BY <1>1, <1>2, <1>3 DEF Incoming

\* A node's own values have their types.
LEMMA NodeValues ==
  ASSUME Typed, NEW p \in Parties
  PROVE  /\ state[p] \in {"unknown"} \cup Verifying \cup Queryable
         /\ pingEcho[p] \in Hashes \cup {None}
         /\ pingEcho[p] # None => pingEcho[p].dst \in Homes[Other(p)]
         /\ timers[p] \in SUBSET {"pongTimeout", "pingTimeout"}
         /\ timers[p] \cup PongTimer(p) \in SUBSET {"pongTimeout", "pingTimeout"}
         /\ addr[p] \in Homes[Other(p)] \cup {None}
         /\ addr[p] = None => state[p] = "unknown"
         /\ addr = [addr EXCEPT ![p] = addr[p]]
<1>1. PongTimer(p) \subseteq {"pongTimeout", "pingTimeout"}
  BY DEF PongTimer
<1> QED BY <1>1 DEF Typed, TypeOK, FunctionTypes

\* A node that becomes what it is stays.
LEMMA NodeStays ==
  ASSUME Typed, NEW p \in Parties, UNCHANGED <<state, pingEcho, timers>>
  PROVE  Become(p, state[p], pingEcho[p], timers[p])
BY DEF Become, Typed, TypeOK, FunctionTypes

-----------------------------------------------------------------------------
(* Steps *)

\* Waiting is about one node at a time.
LEMMA NodeWaiting ==
  ASSUME Typed, Waiting, NEW p \in Parties, NEW st, NEW echo, NEW tms,
         Become(p, st, echo, tms),
         st = "unknown" => echo = None,
         st \in {"verifyinit", "verifywait"} => "pongTimeout" \in tms,
         st = "remoteverifywait" => echo = None /\ "pingTimeout" \in tms,
         "pongTimeout" \in tms => echo # None
  PROVE  Waiting'
<1> SUFFICES ASSUME NEW q \in Parties
             PROVE  /\ state'[q] = "unknown" => pingEcho'[q] = None
                    /\ state'[q] \in {"verifyinit", "verifywait"} => "pongTimeout" \in timers'[q]
                    /\ state'[q] = "remoteverifywait" =>
                         pingEcho'[q] = None /\ "pingTimeout" \in timers'[q]
                    /\ "pongTimeout" \in timers'[q] => pingEcho'[q] # None
  BY DEF Waiting
<1>1. /\ state'[p] = st /\ pingEcho'[p] = echo /\ timers'[p] = tms
      /\ q # p => state'[q] = state[q] /\ pingEcho'[q] = pingEcho[q] /\ timers'[q] = timers[q]
  BY BecomeValues
<1> QED BY <1>1 DEF Waiting

\* An open ping is a ping.
LEMMA OpenNotNone ==
  ASSUME Typed, NEW p \in Parties, NEW dst \in Homes[Other(p)]
  PROVE  OpenPing(p, dst) # None
BY OpenTyped, NoneAssumption

\* So is where packets go.
LEMMA NodeDelivered ==
  ASSUME Typed, Delivered, UNCHANGED home, NEW p \in Parties, NEW a \in {None, home[Other(p)]},
         addr' = [addr EXCEPT ![p] = a],
         \A m \in packets' : m \in packets \/ (m.src = home[m.from] /\ m.dst = home[Other(m.from)])
  PROVE  Delivered'
<1>1. ASSUME NEW q \in Parties  PROVE addr'[q] \in {None, home'[Other(q)]}
  <2>1. addr'[p] = a /\ (q # p => addr'[q] = addr[q])
    BY AddressValues
  <2> QED BY <2>1 DEF Delivered
<1>2. \A m \in packets' : m.src = home'[m.from] /\ m.dst = home'[Other(m.from)]
  BY DEF Delivered
<1> QED BY <1>1, <1>2 DEF Delivered

\* A step of one node keeps the invariant if what the node becomes does, and
\* what is sent, and the two sides agree in time.
LEMMA NodeStep ==
  ASSUME ExchangeInv, UNCHANGED <<home, second, timely>>,
         NEW p \in Parties, NEW st \in {"unknown"} \cup Verifying \cup Queryable,
         NEW echo \in Hashes \cup {None}, NEW tms \in SUBSET {"pongTimeout", "pingTimeout"},
         NEW a \in Homes[Other(p)] \cup {None},
         Become(p, st, echo, tms),
         addr' = [addr EXCEPT ![p] = a],
         a = None => st = "unknown",
         echo # None => echo.dst \in Homes[Other(p)],
         \A m \in packets' : m \in packets \/ Between(m),
         st = "unknown" => echo = None,
         st \in {"verifyinit", "verifywait"} => "pongTimeout" \in tms,
         st = "remoteverifywait" => echo = None /\ "pingTimeout" \in tms,
         "pongTimeout" \in tms => echo # None,
         timely =>
           /\ a \in {None, home[Other(p)]}
           /\ \A m \in packets' :
                m \in packets \/ (m.src = home[m.from] /\ m.dst = home[Other(m.from)])
           /\ InTime(p)' /\ InTime(Other(p))'
  PROVE  ExchangeInv'
<1>1. Typed /\ Waiting /\ (timely => Delivered)
  BY DEF ExchangeInv, Timely
<1>2. Typed'
  BY <1>1, NodeTyped
<1>3. Waiting'
  BY <1>1, NodeWaiting
<1>4. ASSUME timely  PROVE Delivered'
  BY <1>1, <1>4, NodeDelivered
<1>5. ASSUME timely  PROVE \A q \in Parties : InTime(q)'
  <2>1. InTime(p)' /\ InTime(Other(p))'
    BY <1>5
  <2> QED BY <2>1, OtherParty
<1> QED BY <1>2, <1>3, <1>4, <1>5 DEF ExchangeInv, Timely

\* A node that was unknown sends its first packets.
LEMMA ReceivePingUnknownStep ==
  ASSUME ExchangeInv, NEW p \in Parties, NEW k \in packets, ReceivePingUnknown(p, k)
  PROVE  ExchangeInv'
<1> DEFINE open == OpenPing(p, k.src)
           tms == timers[p] \cup PongTimer(p)
           sent == {Pong(p, k.src, k.hash)} \cup PingSent(p, k.src)
<1>0. PICK o \in Parties :
        o = Other(p) /\ o # p /\ Other(o) = p /\ \A q \in Parties : q = p \/ q = o
  BY OtherParty
<1>1. Typed /\ Waiting /\ (timely => Delivered /\ InTime(p) /\ InTime(o))
  BY DEF ExchangeInv, Timely
<1>2. /\ k.type = "ping" /\ state[p] = "unknown" /\ Incoming(p, k)
      /\ Become(p, "verifywait", open, tms)
      /\ packets' = (IF timely THEN packets \ {k} ELSE packets) \cup sent
  BY DEF ReceivePingUnknown, Read, PingBack
<1>3. /\ k.src \in Homes[o] /\ k.src # None /\ k.hash \in Hashes
      /\ addr' = [addr EXCEPT ![p] = k.src]
  BY <1>0, <1>1, <1>2, PacketValues
<1>4. open \in Hashes /\ open.dst \in Homes[o] /\ open # None
  BY <1>0, <1>1, <1>3, OpenTyped, OpenNotNone
<1>5. UNCHANGED <<home, second, timely>> /\ k.from = o /\ k.dst = home[p]
  BY <1>0, <1>2 DEF Incoming
<1>6. ASSUME timely  PROVE InTime(p)' /\ InTime(o)'
  <2>1. \A m \in packets : m.type = "ping" /\ m.from = o
    BY <1>0, <1>1, <1>2, <1>6 DEF InTime
  <2>2. pingEcho[p] = None
    BY <1>1, <1>2 DEF Waiting
  <2>3. sent = {Pong(p, k.src, k.hash), Ping(p, k.src)} /\ open = Ping(p, k.src).hash
    BY <2>2 DEF PingSent, OpenPing, Ping
  <2>4. /\ Pong(p, k.src, k.hash).type = "pong" /\ Pong(p, k.src, k.hash).from = p
        /\ Pong(p, k.src, k.hash).src = home[p] /\ Pong(p, k.src, k.hash).dst = k.src
        /\ Pong(p, k.src, k.hash).hash = k.hash
        /\ Ping(p, k.src).type = "ping" /\ Ping(p, k.src).from = p
        /\ Ping(p, k.src).src = home[p] /\ Ping(p, k.src).dst = k.src
    BY DEF Ping, Pong
  <2>5. packets' = (packets \ {k}) \cup {Pong(p, k.src, k.hash), Ping(p, k.src)}
    BY <1>2, <1>6, <2>3
  <2> HIDE DEF sent, open, tms
  <2>6. /\ state'[p] = "verifywait" /\ pingEcho'[p] = open
        /\ state'[o] = state[o] /\ pingEcho'[o] = pingEcho[o] /\ timers'[o] = timers[o]
        /\ addr'[p] = k.src /\ addr'[o] = addr[o]
    <3>1. /\ state'[p] = "verifywait" /\ pingEcho'[p] = open
          /\ \A q \in Parties :
               q # p => state'[q] = state[q] /\ pingEcho'[q] = pingEcho[q] /\ timers'[q] = timers[q]
      BY <1>0, <1>1, <1>2, BecomeValues
    <3>2. addr'[p] = k.src /\ \A q \in Parties : q # p => addr'[q] = addr[q]
      BY <1>0, <1>1, <1>3, AddressValues
    <3> QED BY <1>0, <1>1, <3>1, <3>2
  <2>7. InTime(p)'
    BY <1>0, <1>1, <2>3, <2>4, <2>5, <2>6 DEF InTime, Exchanging
  <2>8. InTime(o)'
    <3>1. "pongTimeout" \in timers[o] => Exchanging(o)'
      BY <1>0, <1>1, <1>2, <1>5, <1>6, <2>4, <2>5, <2>6 DEF InTime, Exchanging
    <3>2. state[o] # "unknown"
      BY <1>0, <1>1, <1>5, <1>6 DEF InTime
    <3> QED BY <1>0, <1>1, <2>6, <3>1, <3>2 DEF InTime, Reachable
  <2> QED BY <2>7, <2>8
<1>7. tms \in SUBSET {"pongTimeout", "pingTimeout"} /\ "pongTimeout" \in tms
  BY <1>1, <1>2, NodeValues DEF PongTimer, Waiting
<1>8. \A m \in sent : Between(m) /\ m.src = home[p] /\ m.from = p /\ m.dst = k.src
  BY <1>0, <1>1, <1>3, SentBetween DEF PingSent, Ping, Pong
<1>9. timely => k.src = home[o]
  BY <1>0, <1>1, <1>5 DEF Delivered
<1> HIDE DEF open, tms, sent
<1>10. /\ \A m \in packets' : m \in packets \/ Between(m)
       /\ timely => \A m \in packets' :
                      m \in packets \/ (m.src = home[m.from] /\ m.dst = home[Other(m.from)])
       /\ timely => k.src \in {None, home[Other(p)]}
       /\ k.src \in Homes[Other(p)] \cup {None}
  BY <1>0, <1>2, <1>3, <1>8, <1>9
<1>11. "verifywait" \in {"unknown"} \cup Verifying \cup Queryable
  BY DEF Verifying
<1> QED BY <1>0, <1>2, <1>3, <1>4, <1>5, <1>6, <1>7, <1>10, <1>11, NodeStep

\* A ping that is answered only.
LEMMA ReceivePingStep ==
  ASSUME ExchangeInv, NEW p \in Parties, NEW k \in packets, ReceivePing(p, k)
  PROVE  ExchangeInv'
<1> DEFINE st == AfterPing(state[p])
           pong == Pong(p, k.src, k.hash)
<1>0. PICK o \in Parties :
        o = Other(p) /\ o # p /\ Other(o) = p /\ \A q \in Parties : q = p \/ q = o
  BY OtherParty
<1>1. Typed /\ Waiting /\ (timely => Delivered /\ InTime(p) /\ InTime(o))
  BY DEF ExchangeInv, Timely
<1>2. /\ k.type = "ping" /\ state[p] # "unknown" /\ Incoming(p, k)
      /\ Become(p, st, pingEcho[p], timers[p])
      /\ packets' = (IF timely THEN packets \ {k} ELSE packets) \cup {pong}
  BY DEF ReceivePing, Read
<1>3. /\ k.src \in Homes[o] /\ k.src # None /\ k.hash \in Hashes
      /\ addr' = [addr EXCEPT ![p] = k.src]
  BY <1>0, <1>1, <1>2, PacketValues
<1>4. /\ UNCHANGED <<home, second, timely>>
      /\ k.from = o /\ k.dst = home[p]
      /\ timely => k.src = home[o]
  BY <1>0, <1>1, <1>2 DEF Incoming, Delivered
<1>5. /\ state[p] \in {"verifyinit"} => st = "verifywait"
      /\ state[p] = "unresponsive" => st = "known"
      /\ state[p] \notin {"verifyinit", "unresponsive"} => st = state[p]
  BY DEF AfterPing
<1>6. /\ pong.type = "pong" /\ pong.from = p /\ pong.src = home[p] /\ pong.dst = k.src
      /\ pong.hash = k.hash /\ Between(pong)
  BY <1>0, <1>1, <1>3, SentBetween DEF Pong
<1> HIDE DEF st, pong
<1>7. ASSUME timely  PROVE InTime(p)' /\ InTime(o)'
  <2>1. /\ state'[p] = st /\ pingEcho'[p] = pingEcho[p] /\ timers'[p] = timers[p]
        /\ state'[o] = state[o] /\ pingEcho'[o] = pingEcho[o] /\ timers'[o] = timers[o]
    <3>1. /\ state'[p] = st /\ pingEcho'[p] = pingEcho[p] /\ timers'[p] = timers[p]
          /\ \A q \in Parties :
               q # p => state'[q] = state[q] /\ pingEcho'[q] = pingEcho[q] /\ timers'[q] = timers[q]
      BY <1>1, <1>2, BecomeValues
    <3> QED BY <1>0, <3>1
  <2>2. packets' = (packets \ {k}) \cup {pong}
    BY <1>2, <1>7
  <2>3. InTime(p)'
    BY <1>0, <1>1, <1>2, <1>4, <1>5, <1>6, <1>7, <2>1, <2>2
       DEF InTime, Exchanging, PongUnderWay, Reachable, Queryable
  <2>4. "pongTimeout" \in timers[o] => Exchanging(o)'
    BY <1>0, <1>1, <1>2, <1>4, <1>6, <1>7, <2>1, <2>2 DEF InTime, Exchanging
  <2>5. state[o] # "unknown"
    BY <1>0, <1>1, <1>4, <1>7 DEF InTime
  <2>6. state[o] \in {"verifyinit", "remoteverifywait"} => st \in Reachable
    <3>1. state[p] \in {"unknown"} \cup Verifying \cup Queryable
      BY <1>1, NodeValues
    <3> QED BY <1>0, <1>1, <1>2, <1>5, <1>7, <3>1 DEF InTime, Reachable, Queryable, Verifying
  <2>7. InTime(o)'
    BY <1>0, <2>1, <2>4, <2>5, <2>6 DEF InTime
  <2> QED BY <2>3, <2>7
<1>8. /\ pingEcho[p] \in Hashes \cup {None} /\ timers[p] \in SUBSET {"pongTimeout", "pingTimeout"}
      /\ pingEcho[p] # None => pingEcho[p].dst \in Homes[Other(p)]
      /\ state[p] \in {"unknown"} \cup Verifying \cup Queryable
  BY <1>1, NodeValues
<1>9. st \in {"unknown"} \cup Verifying \cup Queryable
  BY <1>5, <1>8 DEF Verifying, Queryable
<1>10. /\ st = "unknown" => pingEcho[p] = None
       /\ st \in {"verifyinit", "verifywait"} => "pongTimeout" \in timers[p]
       /\ st = "remoteverifywait" => pingEcho[p] = None /\ "pingTimeout" \in timers[p]
       /\ "pongTimeout" \in timers[p] => pingEcho[p] # None
  BY <1>1, <1>5 DEF Waiting
<1>11. /\ \A m \in packets' : m \in packets \/ Between(m)
       /\ timely => \A m \in packets' :
                      m \in packets \/ (m.src = home[m.from] /\ m.dst = home[Other(m.from)])
       /\ timely => k.src \in {None, home[Other(p)]}
       /\ k.src \in Homes[Other(p)] \cup {None}
  BY <1>0, <1>2, <1>3, <1>4, <1>6
<1> QED BY <1>0, <1>2, <1>3, <1>4, <1>7, <1>8, <1>9, <1>10, <1>11, NodeStep

\* A pong is read, and closes the ping it answers.
LEMMA ReceivePongStep ==
  ASSUME ExchangeInv, NEW p \in Parties, NEW k \in packets, ReceivePong(p, k)
  PROVE  ExchangeInv'
<1> DEFINE accepted == k.hash = pingEcho[p]
           st == IF accepted THEN AfterPong(state[p]) ELSE state[p]
           echo == IF accepted THEN None ELSE pingEcho[p]
           tms == IF accepted THEN AfterPongTimers(p) ELSE timers[p]
<1>0. PICK o \in Parties :
        o = Other(p) /\ o # p /\ Other(o) = p /\ \A q \in Parties : q = p \/ q = o
  BY OtherParty
<1>1. Typed /\ Waiting /\ (timely => Delivered /\ InTime(p) /\ InTime(o))
  BY DEF ExchangeInv, Timely
<1>2. /\ k.type = "pong" /\ Incoming(p, k)
      /\ packets' = (IF timely THEN packets \ {k} ELSE packets)
  BY DEF ReceivePong, Read
<1>3. Become(p, st, echo, tms)
  BY <1>1, NodeStays DEF ReceivePong
<1>4. /\ k.src \in Homes[o] /\ k.src # None
      /\ addr' = [addr EXCEPT ![p] = k.src]
  BY <1>0, <1>1, <1>2, PacketValues
<1>5. /\ UNCHANGED <<home, second, timely>>
      /\ k.from = o
      /\ timely => k.src = home[o]
  BY <1>0, <1>1, <1>2 DEF Incoming, Delivered
<1>6. /\ pingEcho[p] \in Hashes \cup {None} /\ timers[p] \in SUBSET {"pongTimeout", "pingTimeout"}
      /\ pingEcho[p] # None => pingEcho[p].dst \in Homes[Other(p)]
      /\ state[p] \in {"unknown"} \cup Verifying \cup Queryable
  BY <1>1, NodeValues
<1>7. accepted =>
        /\ echo = None /\ "pongTimeout" \notin tms
        /\ state[p] = "verifyinit" => st = "remoteverifywait" /\ "pingTimeout" \in tms
        /\ state[p] # "verifyinit" => st = "known"
  BY DEF AfterPong, AfterPongTimers
<1>8. ~ accepted => st = state[p] /\ echo = pingEcho[p] /\ tms = timers[p]
  OBVIOUS
<1>9. /\ tms \in SUBSET {"pongTimeout", "pingTimeout"}
      /\ echo \in Hashes \cup {None} /\ (echo # None => echo.dst \in Homes[Other(p)])
  BY <1>6 DEF AfterPongTimers
<1> HIDE DEF st, echo, tms
<1>10. st \in {"unknown"} \cup Verifying \cup Queryable
  BY <1>6, <1>7, <1>8 DEF Verifying, Queryable
<1>11. /\ st = "unknown" => echo = None
       /\ st \in {"verifyinit", "verifywait"} => "pongTimeout" \in tms
       /\ st = "remoteverifywait" => echo = None /\ "pingTimeout" \in tms
       /\ "pongTimeout" \in tms => echo # None
  BY <1>1, <1>7, <1>8 DEF Waiting
<1>12. ASSUME timely  PROVE InTime(p)' /\ InTime(o)'
  <2>1. /\ state'[p] = st /\ pingEcho'[p] = echo /\ timers'[p] = tms
        /\ state'[o] = state[o] /\ pingEcho'[o] = pingEcho[o] /\ timers'[o] = timers[o]
    <3>1. /\ state'[p] = st /\ pingEcho'[p] = echo /\ timers'[p] = tms
          /\ \A q \in Parties :
               q # p => state'[q] = state[q] /\ pingEcho'[q] = pingEcho[q] /\ timers'[q] = timers[q]
      BY <1>1, <1>3, BecomeValues
    <3> QED BY <1>0, <3>1
  <2>2. packets' = packets \ {k}
    BY <1>2, <1>12
  <2>3. state[p] # "unknown" /\ state[o] # "unknown" /\ PongUnderWay(p)
    BY <1>0, <1>1, <1>2, <1>5, <1>12 DEF InTime, PongUnderWay
  <2>4. "pongTimeout" \in tms => Exchanging(p)'
    BY <1>0, <1>1, <1>7, <1>8, <1>12, <2>1, <2>2 DEF InTime, Exchanging
  <2>5. PongUnderWay(p)' => PongUnderWay(p)
    BY <2>2 DEF PongUnderWay
  <2>6. st = "remoteverifywait" => state[o] \in Reachable
    BY <1>0, <1>1, <1>7, <1>8, <1>12, <2>3 DEF InTime
  <2>7. st = "verifyinit" => state[o] \in Reachable
    BY <1>0, <1>1, <1>7, <1>8, <1>12, <2>3 DEF InTime
  <2>8. InTime(p)'
    BY <1>0, <1>7, <1>8, <2>1, <2>3, <2>4, <2>6, <2>7 DEF InTime
  <2>9. "pongTimeout" \in timers[o] => Exchanging(o)'
    BY <1>0, <1>1, <1>2, <1>5, <1>12, <2>1, <2>2 DEF InTime, Exchanging
  <2>10. state[p] \in Reachable => st \in Reachable
    BY <1>7, <1>8 DEF Reachable, Queryable
  <2>11. PongUnderWay(o)' => PongUnderWay(o)
    BY <2>2 DEF PongUnderWay
  <2>12. InTime(o)'
    BY <1>0, <1>1, <1>12, <2>1, <2>3, <2>9, <2>10, <2>11 DEF InTime
  <2> QED BY <2>8, <2>12
<1>13. /\ \A m \in packets' : m \in packets
       /\ timely => k.src \in {None, home[Other(p)]}
       /\ k.src \in Homes[Other(p)] \cup {None}
  BY <1>0, <1>2, <1>4, <1>5
<1> QED BY <1>0, <1>3, <1>4, <1>5, <1>9, <1>10, <1>11, <1>12, <1>13, NodeStep

\* Without faults a pong comes before its timeout.
LEMMA PongTimeoutStep ==
  ASSUME ExchangeInv, NEW p \in Parties, PongTimeout(p)
  PROVE  ExchangeInv' /\ ~ timely
<1>1. Typed /\ Waiting /\ (timely => InTime(p))
  BY DEF ExchangeInv, Timely
<1>2. "pongTimeout" \in timers[p] /\ (timely => packets = {})
  BY DEF PongTimeout, Expired
<1>3. ~ timely
  BY <1>1, <1>2 DEF InTime, Exchanging
<1>4. PICK st \in {"unknown", "unresponsive"}, echo \in {None, pingEcho[p]} :
        /\ Become(p, st, echo, timers[p] \ {"pongTimeout"})
        /\ st = "unknown" => echo = None
        /\ st = "unresponsive" => echo = pingEcho[p] /\ state[p] = "contested"
  BY DEF PongTimeout
<1>5. /\ UNCHANGED <<addr, packets>> /\ UNCHANGED <<home, second, timely>>
      /\ addr' = [addr EXCEPT ![p] = addr[p]]
      /\ addr[p] \in Homes[Other(p)] \cup {None}
      /\ addr[p] = None => state[p] = "unknown"
  BY <1>1, NodeValues DEF PongTimeout, Expired
<1>6. /\ echo \in Hashes \cup {None} /\ (echo # None => echo.dst \in Homes[Other(p)])
      /\ timers[p] \ {"pongTimeout"} \in SUBSET {"pongTimeout", "pingTimeout"}
      /\ st \in {"unknown"} \cup Verifying \cup Queryable
      /\ addr[p] = None => st = "unknown"
  BY <1>1, <1>4, <1>5, NodeValues DEF Queryable
<1>7. /\ st \notin {"verifyinit", "verifywait", "remoteverifywait"}
      /\ "pongTimeout" \notin timers[p] \ {"pongTimeout"}
      /\ \A m \in packets' : m \in packets
  BY <1>4, <1>5
<1>8. ExchangeInv'
  BY <1>3, <1>4, <1>5, <1>6, <1>7, NodeStep
<1> QED BY <1>3, <1>8

\* A node is known once its own verification of us is over.
LEMMA PingTimeoutStep ==
  ASSUME ExchangeInv, NEW p \in Parties, PingTimeout(p)
  PROVE  /\ ExchangeInv'
         /\ timely => CanQuery(Other(p))
<1>0. PICK o \in Parties :
        o = Other(p) /\ o # p /\ Other(o) = p /\ \A q \in Parties : q = p \/ q = o
  BY OtherParty
<1>1. Typed /\ Waiting /\ (timely => Delivered /\ InTime(p) /\ InTime(o))
  BY DEF ExchangeInv, Timely
<1>2. /\ state[p] = "remoteverifywait" /\ (timely => packets = {})
      /\ Become(p, "known", pingEcho[p], timers[p] \ {"pingTimeout"})
  BY DEF PingTimeout, Expired
<1>3. /\ UNCHANGED packets /\ UNCHANGED <<home, second, timely>>
      /\ addr' = [addr EXCEPT ![p] = addr[p]]
      /\ addr[p] \in Homes[Other(p)] \cup {None}
      /\ addr[p] # None
  BY <1>1, <1>2, NodeValues DEF PingTimeout, Expired
<1>4. pingEcho[p] = None /\ timers[p] \in SUBSET {"pongTimeout", "pingTimeout"}
      /\ "pongTimeout" \notin timers[p]
  BY <1>1, <1>2, NodeValues DEF Waiting
<1>5. timely => CanQuery(o)
  <2> SUFFICES ASSUME timely PROVE CanQuery(o)
    OBVIOUS
  <2>1. state[o] \in Reachable
    BY <1>0, <1>1, <1>2 DEF InTime
  <2>2. state[o] # "verifywait"
    BY <1>0, <1>1, <1>2 DEF InTime, Exchanging, Waiting
  <2> QED BY <2>1, <2>2 DEF Reachable, CanQuery
<1>6. ASSUME timely  PROVE InTime(p)' /\ InTime(o)'
  <2>1. /\ state'[p] = "known" /\ "pongTimeout" \notin timers'[p]
        /\ state'[o] = state[o] /\ timers'[o] = timers[o]
    <3>1. /\ state'[p] = "known" /\ timers'[p] = timers[p] \ {"pingTimeout"}
          /\ \A q \in Parties : q # p => state'[q] = state[q] /\ timers'[q] = timers[q]
      BY <1>1, <1>2, BecomeValues
    <3> QED BY <1>0, <1>4, <3>1
  <2>2. "pongTimeout" \notin timers[o] /\ packets' = {} /\ state[o] \in Queryable
    BY <1>0, <1>1, <1>2, <1>3, <1>5, <1>6 DEF InTime, Exchanging, CanQuery
  <2> QED BY <1>0, <2>1, <2>2 DEF InTime, PongUnderWay, Queryable
<1>7. /\ \A m \in packets' : m \in packets
      /\ timely => addr[p] \in {None, home[Other(p)]}
  BY <1>0, <1>1, <1>3 DEF Delivered
<1>8. PICK st \in {"known"}, echo \in {None}, tms \in SUBSET {"pongTimeout"} :
        "pongTimeout" \notin tms /\ Become(p, st, echo, tms)
  BY <1>2, <1>4
<1>9. /\ st \in {"unknown"} \cup Verifying \cup Queryable
      /\ echo \in Hashes \cup {None} /\ echo = None
      /\ tms \in SUBSET {"pongTimeout", "pingTimeout"}
      /\ st \notin {"verifyinit", "verifywait", "remoteverifywait"}
  BY <1>8 DEF Queryable
<1>10. ExchangeInv'
  BY <1>0, <1>3, <1>6, <1>7, <1>8, <1>9, NodeStep
<1> QED BY <1>0, <1>5, <1>10

\* A node to which p has something to say: nothing is open in vain.
LEMMA PingStep ==
  ASSUME ExchangeInv, UNCHANGED <<home, second, timely>>,
         NEW p \in Parties, NEW dst \in Homes[Other(p)],
         NEW st \in {"verifyinit", "contested"},
         state[p] = (IF st = "verifyinit" THEN "unknown" ELSE "known"),
         Become(p, st, OpenPing(p, dst), timers[p] \cup PongTimer(p)),
         addr' = [addr EXCEPT ![p] = dst],
         packets' = packets \cup PingSent(p, dst),
         timely => dst = home[Other(p)]
  PROVE  ExchangeInv'
<1> DEFINE open == OpenPing(p, dst)
           tms == timers[p] \cup PongTimer(p)
<1>0. PICK o \in Parties :
        o = Other(p) /\ o # p /\ Other(o) = p /\ \A q \in Parties : q = p \/ q = o
  BY OtherParty
<1>1. Typed /\ Waiting /\ (timely => Delivered /\ InTime(p) /\ InTime(o))
  BY DEF ExchangeInv, Timely
<1>2. open \in Hashes /\ open.dst \in Homes[o] /\ open # None
  BY <1>0, <1>1, OpenTyped, OpenNotNone
<1>3. tms \in SUBSET {"pongTimeout", "pingTimeout"}
  BY <1>1, NodeValues
<1>4. \A m \in PingSent(p, dst) :
        /\ Between(m) /\ m.type = "ping" /\ m.from = p
        /\ m.src = home[p] /\ m.dst = dst
  BY <1>0, <1>1, SentBetween DEF PingSent, Ping
<1>5. pingEcho[p] = None => \E m \in PingSent(p, dst) : m.hash = open
  BY DEF PingSent, OpenPing, Ping
<1>6. pingEcho[p] # None => open = pingEcho[p]
  BY DEF OpenPing
<1>7. dst # None
  BY <1>0, HomeAnywhere, NoneAssumption
<1>8. Become(p, st, open, tms)
  OBVIOUS
<1>15. /\ pingEcho[p] # None => tms = timers[p]
       /\ st = "verifyinit" => "pongTimeout" \in tms
  BY <1>1 DEF PongTimer, Waiting
<1> HIDE DEF open, tms
<1>9. /\ state'[p] = st /\ pingEcho'[p] = open /\ timers'[p] = tms
      /\ state'[o] = state[o] /\ pingEcho'[o] = pingEcho[o] /\ timers'[o] = timers[o]
  <2>1. /\ state'[p] = st /\ pingEcho'[p] = open /\ timers'[p] = tms
        /\ \A q \in Parties :
             q # p => state'[q] = state[q] /\ pingEcho'[q] = pingEcho[q] /\ timers'[q] = timers[q]
    BY <1>1, <1>8, BecomeValues
  <2> QED BY <1>0, <2>1
<1>10. ASSUME timely  PROVE InTime(p)' /\ InTime(o)'
  <2>1. PongUnderWay(p)' => PongUnderWay(p)
    BY <1>0, <1>4 DEF PongUnderWay
  <2>2. PongUnderWay(o)' => PongUnderWay(o)
    BY <1>0, <1>4 DEF PongUnderWay
  <2>3. state[p] = "unknown" => ~ PongUnderWay(p) /\ ~ PongUnderWay(o)
    BY <1>0, <1>1, <1>10 DEF InTime, PongUnderWay
  <2>4. "pongTimeout" \in tms => Exchanging(p)'
    <3>1. CASE pingEcho[p] = None
      BY <1>4, <1>5, <1>9, <3>1 DEF Exchanging
    <3>2. CASE pingEcho[p] # None
      BY <1>1, <1>6, <1>9, <1>10, <1>15, <3>2 DEF InTime, Exchanging
    <3> QED BY <3>1, <3>2
  <2>5. InTime(p)'
    BY <1>0, <1>9, <2>1, <2>3, <2>4 DEF InTime
  <2>6. "pongTimeout" \in timers[o] => Exchanging(o)'
    BY <1>1, <1>9, <1>10 DEF InTime, Exchanging
  <2>7. state[o] = "unknown" => \A m \in packets' : m.type = "ping" /\ m.from = p
    BY <1>0, <1>1, <1>4, <1>10 DEF InTime
  <2>8. state[p] \in Reachable => st \in Reachable
    BY DEF Reachable, Queryable
  <2>9. state[p] = "unknown" => state[o] # "remoteverifywait"
    BY <1>0, <1>1, <1>10 DEF InTime, Reachable, Queryable
  <2>10. InTime(o)'
    BY <1>0, <1>1, <1>9, <1>10, <2>2, <2>3, <2>6, <2>7, <2>8, <2>9 DEF InTime
  <2> QED BY <2>5, <2>10
<1>11. /\ \A m \in packets' : m \in packets \/ Between(m)
       /\ timely => \A m \in packets' :
                      m \in packets \/ (m.src = home[m.from] /\ m.dst = home[Other(m.from)])
       /\ dst \in Homes[Other(p)] \cup {None}
       /\ timely => dst \in {None, home[Other(p)]}
  BY <1>0, <1>4
<1>12. st \in {"unknown"} \cup Verifying \cup Queryable /\ open \in Hashes \cup {None}
  BY <1>2 DEF Verifying, Queryable
<1>13. /\ open # None => open.dst \in Homes[Other(p)]
       /\ dst = None => st = "unknown"
       /\ st \in {"verifyinit", "verifywait"} => "pongTimeout" \in tms
       /\ st \notin {"unknown", "remoteverifywait"}
       /\ "pongTimeout" \in tms => open # None
  BY <1>0, <1>2, <1>7, <1>15
<1>14. timely => InTime(p)' /\ InTime(Other(p))'
  BY <1>0, <1>10
<1> QED BY <1>3, <1>8, <1>11, <1>12, <1>13, <1>14, NodeStep

\* An unknown node is verified; another may have its address replaced.
LEMMA IntroduceStep ==
  ASSUME ExchangeInv, NEW p \in Parties, NEW a \in Homes[Other(p)], NEW relayed \in BOOLEAN,
         Introduce(p, a, relayed)
  PROVE  /\ ExchangeInv'
         /\ state[p] = "known" => addr'[p] = addr[p]
<1> DEFINE dst == Introduced(p, a, relayed)
<1>1. Typed /\ Waiting /\ (timely => Delivered /\ InTime(p) /\ InTime(Other(p)))
  BY OtherParty DEF ExchangeInv, Timely
<1>2. /\ addr' = [addr EXCEPT ![p] = dst]
      /\ UNCHANGED <<home, second, timely>>
      /\ timely => a = home[Other(p)]
  BY DEF Introduce
<1>3. dst \in Homes[Other(p)] /\ (state[p] = "known" => dst = addr[p])
  BY <1>1, NodeValues DEF Introduced, HearsayAddress
<1>4. timely => dst = home[Other(p)]
  <2>1. dst \in {a, addr[p]} /\ (addr[p] = None => dst = a)
    BY DEF Introduced, HearsayAddress
  <2> HIDE DEF dst
  <2>2. timely => addr[p] \in {None, home[Other(p)]}
    BY <1>1 DEF Delivered
  <2> QED BY <1>2, <2>1, <2>2
<1>5. state[p] = "known" => addr'[p] = addr[p]
  BY <1>1, <1>2, <1>3, AddressValues
<1>6. CASE /\ state[p] = "unknown"
           /\ Become(p, "verifyinit", OpenPing(p, dst), timers[p] \cup PongTimer(p))
           /\ Send(PingSent(p, dst))
  <2> HIDE DEF dst
  <2>1. PICK st \in {"verifyinit"} :
           Become(p, st, OpenPing(p, dst), timers[p] \cup PongTimer(p))
    BY <1>6
  <2>2. packets' = packets \cup PingSent(p, dst)
    BY <1>6 DEF Send
  <2>3. /\ st \in {"verifyinit", "contested"}
        /\ state[p] = (IF st = "verifyinit" THEN "unknown" ELSE "known")
    BY <1>6
  <2>4. ExchangeInv'
    BY <1>2, <1>3, <1>4, <2>1, <2>2, <2>3, PingStep
  <2> QED BY <1>5, <2>4
<1>7. CASE state[p] # "unknown" /\ UNCHANGED <<state, pingEcho, timers, packets>>
  <2> HIDE DEF dst
  <2>1. Become(p, state[p], pingEcho[p], timers[p])
    BY <1>1, <1>7, NodeStays
  <2>2. /\ state[p] \in {"unknown"} \cup Verifying \cup Queryable
        /\ pingEcho[p] \in Hashes \cup {None}
        /\ pingEcho[p] # None => pingEcho[p].dst \in Homes[Other(p)]
        /\ timers[p] \in SUBSET {"pongTimeout", "pingTimeout"}
    BY <1>1, NodeValues
  <2>3. /\ state[p] = "unknown" => pingEcho[p] = None
        /\ state[p] \in {"verifyinit", "verifywait"} => "pongTimeout" \in timers[p]
        /\ state[p] = "remoteverifywait" => pingEcho[p] = None /\ "pingTimeout" \in timers[p]
        /\ "pongTimeout" \in timers[p] => pingEcho[p] # None
    BY <1>1 DEF Waiting
  <2>4. timely => InTime(p)' /\ InTime(Other(p))'
    BY <1>1, <1>7 DEF InTime, Exchanging, PongUnderWay
  <2>5. dst # None
    BY <1>3, HomeAnywhere, OtherParty, NoneAssumption
  <2>6. \A m \in packets' : m \in packets
    BY <1>7
  <2>7. dst \in Homes[Other(p)] \cup {None} /\ (timely => dst \in {None, home[Other(p)]})
    BY <1>3, <1>4
  <2>8. ExchangeInv'
    BY <1>2, <2>1, <2>2, <2>3, <2>4, <2>5, <2>6, <2>7, NodeStep
  <2> QED BY <1>5, <2>8
<1> QED BY <1>6, <1>7 DEF Introduce

\* A known node is revalidated where it is known to be.
LEMMA ContestStep ==
  ASSUME ExchangeInv, NEW p \in Parties, Contest(p)
  PROVE  ExchangeInv'
<1>1. Typed /\ (timely => Delivered)
  BY DEF ExchangeInv, Timely
<1>2. state[p] = "known" /\ UNCHANGED <<addr, home, second, timely>>
  BY DEF Contest
<1>3. /\ addr[p] \in Homes[Other(p)] /\ addr' = [addr EXCEPT ![p] = addr[p]]
      /\ UNCHANGED <<home, second, timely>>
      /\ timely => addr[p] = home[Other(p)]
  <2>1. /\ addr[p] \in Homes[Other(p)] \cup {None} /\ addr[p] # None
        /\ addr = [addr EXCEPT ![p] = addr[p]]
    BY <1>1, <1>2, NodeValues
  <2>2. timely => addr[p] \in {None, home[Other(p)]}
    BY <1>1 DEF Delivered
  <2> QED BY <1>2, <2>1, <2>2
<1>4. PICK st \in {"contested"}, dst \in {addr[p]} :
        Become(p, st, OpenPing(p, dst), timers[p] \cup PongTimer(p))
  BY DEF Contest
<1>5. packets' = packets \cup PingSent(p, dst)
  BY <1>4 DEF Contest, Send
<1>6. /\ st \in {"verifyinit", "contested"}
      /\ state[p] = (IF st = "verifyinit" THEN "unknown" ELSE "known")
      /\ dst \in Homes[Other(p)] /\ addr' = [addr EXCEPT ![p] = dst]
      /\ timely => dst = home[Other(p)]
  BY <1>2, <1>3, <1>4
<1> QED BY <1>3, <1>4, <1>5, <1>6, PingStep

\* A program forgets its nodes.
LEMMA RestartStep ==
  ASSUME ExchangeInv, NEW p \in Parties, Restart(p)
  PROVE  ExchangeInv' /\ state'[p] = "unknown"
<1>1. ~ timely /\ UNCHANGED <<home, packets, second, timely>>
  BY DEF Restart
<1>2. PICK st \in {"unknown"}, a \in {None}, echo \in {None}, tms \in {{}} :
        Become(p, st, echo, tms) /\ addr' = [addr EXCEPT ![p] = a]
  BY DEF Restart
<1>3. /\ tms \in SUBSET {"pongTimeout", "pingTimeout"} /\ "pongTimeout" \notin tms
      /\ st \in {"unknown"} \cup Verifying \cup Queryable
      /\ a \in Homes[Other(p)] \cup {None}
      /\ echo \in Hashes \cup {None} /\ echo = None
      /\ st \notin {"verifyinit", "verifywait", "remoteverifywait"}
      /\ a = None => st = "unknown"
      /\ \A m \in packets' : m \in packets
      /\ UNCHANGED <<home, second, timely>>
  BY <1>1, <1>2
<1>4. ExchangeInv'
  BY <1>1, <1>2, <1>3, NodeStep
<1>5. state'[p] = "unknown"
  BY <1>2, BecomeValues DEF ExchangeInv
<1> QED BY <1>4, <1>5

\* The faults concern no node.
LEMMA FaultStep ==
  ASSUME ExchangeInv, ~ timely', UNCHANGED node,
         packets' \subseteq packets, second' \in 0 .. MaxSecond, timely' \in BOOLEAN,
         home' \in [Parties -> Anywhere], \A p \in Parties : home'[p] \in Homes[p]
  PROVE  ExchangeInv'
<1>1. TypeOK' /\ FunctionTypes'
  BY DEF ExchangeInv, Typed, TypeOK, FunctionTypes, node
<1>2. Waiting'
  BY DEF ExchangeInv, Waiting, node
<1> QED BY <1>1, <1>2 DEF ExchangeInv, Typed, Timely

\* Neither does their end, but what is left by then is in time.
LEMMA StabilizeStep == ASSUME ExchangeInv, Stabilize PROVE ExchangeInv'
<1>1. Typed /\ Waiting
  BY DEF ExchangeInv
<1>2. Typed'
  BY <1>1 DEF Stabilize, node, Typed, TypeOK, FunctionTypes
<1>3. Waiting'
  BY <1>1 DEF Stabilize, node, Waiting
<1>4. Delivered'
  BY DEF Stabilize, node, Delivered
<1>5. ASSUME NEW p \in Parties  PROVE InTime(p)'
  <2>1. state[p] \notin {"verifyinit", "verifywait", "remoteverifywait"} /\ timers[p] = {}
    BY <1>1 DEF Stabilize, Waiting
  <2> QED BY <2>1 DEF Stabilize, node, InTime
<1> QED BY <1>2, <1>3, <1>4, <1>5 DEF ExchangeInv, Timely

\* Every packet read is the receiver's, or nobody's.
LEMMA ReceiveStep ==
  ASSUME ExchangeInv, NEW p \in Parties, NEW k \in packets, Receive(p, k)
  PROVE  ExchangeInv'
BY ReceivePingUnknownStep, ReceivePingStep, ReceivePongStep DEF Receive

LEMMA ExchangeInvStep == ASSUME ExchangeInv, [Next]_vars PROVE ExchangeInv'
<1>0. Typed
  BY DEF ExchangeInv
<1>1. ASSUME NEW p \in Parties, NEW k \in packets, Receive(p, k)  PROVE ExchangeInv'
  BY <1>1, ReceiveStep
<1>2. ASSUME NEW p \in Parties, Timeout(p)  PROVE ExchangeInv'
  BY <1>2, PongTimeoutStep, PingTimeoutStep DEF Timeout
<1>3. ASSUME NEW p \in Parties, NEW a \in Homes[Other(p)], NEW relayed \in BOOLEAN,
             Introduce(p, a, relayed)
      PROVE  ExchangeInv'
  BY <1>3, IntroduceStep
<1>4. ASSUME NEW p \in Parties, Contest(p)  PROVE ExchangeInv'
  BY <1>4, ContestStep
<1>5. ASSUME NEW p \in Parties, Restart(p)  PROVE ExchangeInv'
  BY <1>5, RestartStep
<1>6. ASSUME NEW p \in Parties, NEW a \in Homes[p], Move(p, a)  PROVE ExchangeInv'
  <2>1. home' = [home EXCEPT ![p] = a] /\ a \in Anywhere
    BY <1>6, HomeAnywhere DEF Move
  <2>2. home' \in [Parties -> Anywhere] /\ \A q \in Parties : home'[q] \in Homes[q]
    BY <1>0, <2>1 DEF Typed, TypeOK, FunctionTypes
  <2>3. second' \in 0 .. MaxSecond /\ timely' \in BOOLEAN /\ ~ timely' /\ packets' \subseteq packets
    BY <1>0, <1>6 DEF Move, Typed, TypeOK
  <2>4. UNCHANGED node
    BY <1>6 DEF Move
  <2> QED BY <2>2, <2>3, <2>4, FaultStep
<1>7. ASSUME NEW k \in packets, Lose(k)  PROVE ExchangeInv'
  BY <1>0, <1>7, FaultStep DEF Lose, Typed, TypeOK, FunctionTypes
<1>8. CASE Tick
  <2>1. second' \in 0 .. MaxSecond
    BY <1>0, <1>8, BoundsAssumption DEF Tick, Typed, TypeOK
  <2> QED BY <1>0, <1>8, <2>1, FaultStep DEF Tick, Typed, TypeOK, FunctionTypes
<1>9. CASE Stabilize
  BY <1>9, StabilizeStep
<1>10. CASE UNCHANGED vars
  BY <1>10 DEF vars, node, ExchangeInv, Typed, TypeOK, FunctionTypes, Waiting, Timely,
               Delivered, InTime, Exchanging, PongUnderWay
<1> QED BY <1>1, <1>2, <1>3, <1>4, <1>5, <1>6, <1>7, <1>8, <1>9, <1>10 DEF Next

LEMMA ExchangeInvInit == Init => ExchangeInv
<1> SUFFICES ASSUME Init PROVE ExchangeInv
  OBVIOUS
<1>1. \A p \in Parties : state[p] = "unknown" /\ addr[p] = None /\ pingEcho[p] = None /\ timers[p] = {}
  BY DEF Init
<1>2. FunctionTypes
  BY DEF Init, FunctionTypes
<1>3. TypeOK
  <2>1. state \in [Parties -> {"unknown"} \cup Verifying \cup Queryable]
    BY DEF Init
  <2>2. second = 0 /\ packets = {} /\ timely \in BOOLEAN
    BY DEF Init
  <2>3. second \in 0 .. MaxSecond
    BY <2>2, BoundsAssumption
  <2>4. \A p \in Parties : home[p] \in Homes[p]
    BY DEF Init
  <2> QED BY <1>1, <2>1, <2>2, <2>3, <2>4 DEF TypeOK
<1>4. Waiting
  BY <1>1 DEF Waiting
<1>5. ~ timely
  BY DEF Init
<1> QED BY <1>2, <1>3, <1>4, <1>5 DEF ExchangeInv, Typed, Timely

LEMMA ExchangeInvariant == Spec => []ExchangeInv
BY ExchangeInvInit, ExchangeInvStep, PTL DEF Spec

-----------------------------------------------------------------------------
\* The types of nodes and packets: whatever is lost, repeated or relayed, a
\* node has an address in every state but unknown, and only addresses of its
\* party (internNode, the handlers of net.go).
THEOREM ExchangeTyped == Spec => []TypeOK
<1>1. ExchangeInv => TypeOK
  BY DEF ExchangeInv, Typed
<1> QED BY <1>1, ExchangeInvariant, PTL

\* Once the faults have stopped no ping times out: every state of the state
\* machine in net.go answers pings, and accepts the pong for its own, also when
\* the other side holds a ping that timed out before.
THEOREM PingsAreAnswered == Spec => []AllAnswered
<1>1. ExchangeInv => AllAnswered
  BY DEF ExchangeInv, Timely, InTime, Exchanging, AllAnswered
<1> QED BY <1>1, ExchangeInvariant, PTL

\* Only the known node itself changes its address (internNodeFromNeighbours
\* rejects what is relayed).
THEOREM KnownAddressIsKept == Spec => KnownAddressKept
<1> DEFINE Kept(p) ==
      state[p] = "known" /\ state'[p] = "known" /\ addr'[p] # addr[p] =>
        \E k \in packets : k.from = Other(p) /\ k.src = addr'[p] /\ k.dst = home[p]
<1>1. ASSUME ExchangeInv, [Next]_vars, NEW q \in Parties  PROVE Kept(q)
  <2>0. Typed
    BY <1>1 DEF ExchangeInv
  <2>1. ASSUME NEW p \in Parties, NEW k \in packets, Receive(p, k)  PROVE Kept(q)
    <3>1. Incoming(p, k)
      BY <2>1 DEF Receive, ReceivePingUnknown, ReceivePing, ReceivePong
    <3>2. /\ addr'[p] = k.src
          /\ k.from = Other(p) /\ k.dst = home[p]
          /\ p # q => addr'[q] = addr[q]
      BY <2>0, <3>1, AddressValues DEF Incoming
    <3> QED BY <3>2
  <2>2. ASSUME NEW p \in Parties, Timeout(p)  PROVE Kept(q)
    BY <2>2 DEF Timeout, PongTimeout, PingTimeout, Expired
  <2>3. ASSUME NEW p \in Parties, NEW a \in Homes[Other(p)], NEW relayed \in BOOLEAN,
               Introduce(p, a, relayed)
        PROVE  Kept(q)
    <3>1. p # q => addr'[q] = addr[q]
      <4>1. PICK dst : addr' = [addr EXCEPT ![p] = dst]
        BY <2>3 DEF Introduce
      <4> QED BY <2>0, <4>1, AddressValues
    <3>2. state[p] = "known" => addr'[p] = addr[p]
      BY <1>1, <2>3, IntroduceStep
    <3> QED BY <3>1, <3>2
  <2>4. ASSUME NEW p \in Parties, Contest(p)  PROVE Kept(q)
    BY <2>4 DEF Contest
  <2>5. ASSUME NEW p \in Parties, Restart(p)  PROVE Kept(q)
    <3>1. state'[p] = "unknown"
      BY <1>1, <2>5, RestartStep
    <3>2. p # q => addr'[q] = addr[q]
      BY <2>0, <2>5, AddressValues DEF Restart
    <3> QED BY <3>1, <3>2
  <2>6. ASSUME UNCHANGED addr  PROVE Kept(q)
    BY <2>6
  <2> QED
    BY <1>1, <2>1, <2>2, <2>3, <2>4, <2>5, <2>6
       DEF Next, Move, Lose, Tick, Stabilize, node, vars
<1>2. ExchangeInv /\ [Next]_vars => [\A p \in Parties : Kept(p)]_vars
  BY <1>1
<1> QED BY <1>2, ExchangeInvariant, PTL DEF Spec, KnownAddressKept

\* When the time of remoteverifywait has passed the other side answers our
\* queries ("remoteverifywait" of net.go waits for its verification of us).
THEOREM WaitingSuffices == Spec => WaitSuffices
<1> DEFINE Suffices(p) ==
      timely /\ state[p] = "remoteverifywait" /\ state'[p] = "known" => CanQuery(Other(p))
<1>1. ASSUME ExchangeInv, [Next]_vars, NEW q \in Parties  PROVE Suffices(q)
  <2>0. Typed /\ Waiting
    BY <1>1 DEF ExchangeInv
  <2>1. ASSUME NEW p \in Parties, NEW k \in packets, Receive(p, k)  PROVE Suffices(q)
    <3>1. PICK st, echo, tms :
             /\ Become(p, st, echo, tms)
             /\ state[p] = "remoteverifywait" => st = "remoteverifywait"
      <4>1. CASE ReceivePingUnknown(p, k)
        BY <4>1 DEF ReceivePingUnknown
      <4>2. CASE ReceivePing(p, k)
        BY <4>2 DEF ReceivePing, AfterPing
      <4>3. CASE ReceivePong(p, k)
        <5>1. CASE k.hash = pingEcho[p]
          <6>1. k.hash # None
            BY <2>0, <4>3, PacketValues DEF ReceivePong
          <6>2. state[p] # "remoteverifywait"
            BY <2>0, <5>1, <6>1 DEF Waiting
          <6> QED BY <4>3, <5>1, <6>2 DEF ReceivePong
        <5>2. CASE k.hash # pingEcho[p]
          BY <2>0, <4>3, <5>2, NodeStays DEF ReceivePong
        <5> QED BY <5>1, <5>2
      <4> QED BY <2>1, <4>1, <4>2, <4>3 DEF Receive
    <3>2. state'[p] = st /\ \A r \in Parties : r # p => state'[r] = state[r]
      BY <2>0, <3>1, BecomeValues
    <3> QED BY <3>1, <3>2
  <2>2. ASSUME NEW p \in Parties, PongTimeout(p)  PROVE Suffices(q)
    BY <1>1, <2>2, PongTimeoutStep
  <2>3. ASSUME NEW p \in Parties, PingTimeout(p)  PROVE Suffices(q)
    <3>1. timely => CanQuery(Other(p))
      BY <1>1, <2>3, PingTimeoutStep
    <3>2. p # q => state'[q] = state[q]
      BY <2>0, <2>3, BecomeValues DEF PingTimeout
    <3> QED BY <3>1, <3>2
  <2>4. ASSUME NEW p \in Parties, NEW a \in Homes[Other(p)], NEW relayed \in BOOLEAN,
               Introduce(p, a, relayed)
        PROVE  Suffices(q)
    <3>1. CASE UNCHANGED state
      BY <3>1
    <3>2. CASE state[p] = "unknown" /\ \E st, echo, tms : Become(p, st, echo, tms)
      BY <2>0, <3>2, BecomeValues
    <3> QED BY <2>4, <3>1, <3>2 DEF Introduce
  <2>5. ASSUME NEW p \in Parties, Contest(p)  PROVE Suffices(q)
    BY <2>0, <2>5, BecomeValues DEF Contest
  <2>6. ASSUME NEW p \in Parties, Restart(p)  PROVE Suffices(q)
    BY <2>6 DEF Restart
  <2>7. ASSUME UNCHANGED state  PROVE Suffices(q)
    BY <2>7
  <2> QED
    BY <1>1, <2>1, <2>2, <2>3, <2>4, <2>5, <2>6, <2>7
       DEF Next, Timeout, Move, Lose, Tick, Stabilize, node, vars
<1>2. ExchangeInv /\ [Next]_vars => [\A p \in Parties : Suffices(p)]_vars
  BY <1>1
<1> QED BY <1>2, ExchangeInvariant, PTL DEF Spec, WaitSuffices

=============================================================================
