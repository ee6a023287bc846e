------------------------------ MODULE Exchange ------------------------------
(***************************************************************************)
(* Two programs that verify one another: the handshake of discovery/net.go *)
(* on both sides, with the packets of discovery/udp.go in between.  Each   *)
(* has one *Node, the other; Network models what one program does with all *)
(* of its nodes, and leaves the packets to their environment.              *)
(*                                                                         *)
(* At first packets are lost, duplicated, reordered and delayed (a packet  *)
(* that is read stays until it is lost, and may be read again), timers fire*)
(* at any moment, programs restart without memory and move to other        *)
(* addresses, and third parties relay old addresses.  When this stops      *)
(* (Stabilize), packets arrive once and before the timers they race.  What *)
(* the two are to one another by then is left by the faults: a node that   *)
(* was contested in vain is unresponsive, or known again, and holds the    *)
(* ping that timed out for good.                                           *)
(*                                                                         *)
(* A pong carries the hash of the ping it answers.  A ping's contents are  *)
(* its sender, its destination and its expiration in seconds, so that two  *)
(* pings of one second to one address have the same hash: they are the     *)
(* same packet.  Signatures are what makes the sender of a packet certain. *)
(***************************************************************************)
EXTENDS Integers, FiniteSets

CONSTANTS Parties,   \* the two programs
          Homes,     \* for each, the addresses it may be at
          None,      \* no address, no ping
          MaxSecond, \* bound of the clock, in seconds
          MaxPackets \* bound: packets that can still arrive, before Stabilize

Anywhere == UNION {Homes[p] : p \in Parties}
Hashes == [dst : Anywhere, second : 0 .. MaxSecond]

ASSUME PartiesAssumption == IsFiniteSet(Parties) /\ Cardinality(Parties) = 2
ASSUME BoundsAssumption == MaxSecond \in Nat /\ MaxPackets \in Nat
ASSUME NoneAssumption == None \notin Anywhere \cup Hashes

VARIABLES
  state,     \* n.state of each party's node for the other
  addr,      \* n.addr(), None if there is no node
  pingEcho,  \* n.pingEcho: a ping, or None
  timers,    \* the events of n in net.timeoutTimers
  home,      \* where each party is
  packets,   \* packets sent
  second,    \* the clock
  timely     \* the faults have stopped

node == <<state, addr, pingEcho, timers>>
vars == <<node, home, packets, second, timely>>

Other(p) == CHOOSE q \in Parties : q # p

Verifying == {"verifyinit", "verifywait", "remoteverifywait"}
Queryable == {"known", "contested", "unresponsive"}
CanQuery(p) == state[p] \in Queryable

Init ==
  /\ state = [p \in Parties |-> "unknown"]
  /\ addr = [p \in Parties |-> None]
  /\ pingEcho = [p \in Parties |-> None]
  /\ timers = [p \in Parties |-> {}]
  /\ home \in {h \in [Parties -> Anywhere] :
                 \A p \in Parties : h[p] \in Homes[p]}
  /\ packets = {}
  /\ second = 0
  /\ timely = FALSE

-----------------------------------------------------------------------------
(* Packets *)

Hash(dst) == [dst |-> dst, second |-> second]
Ping(p, dst) == [type |-> "ping", from |-> p, src |-> home[p], dst |-> dst, hash |-> Hash(dst)]
Pong(p, dst, tok) == [type |-> "pong", from |-> p, src |-> home[p], dst |-> dst, hash |-> tok]

Packets == [type : {"ping", "pong"}, from : Parties, src : Anywhere, dst : Anywhere,
            hash : Hashes]

\* ping: p pings the other at dst, unless an earlier ping is unanswered.
OpenPing(p, dst) == IF pingEcho[p] = None THEN Hash(dst) ELSE pingEcho[p]
PingSent(p, dst) == IF pingEcho[p] = None THEN {Ping(p, dst)} ELSE {}
PongTimer(p) == IF pingEcho[p] = None THEN {"pongTimeout"} ELSE {}

\* What p's node becomes.
Become(p, st, echo, tms) ==
  /\ state' = [state EXCEPT ![p] = st]
  /\ pingEcho' = [pingEcho EXCEPT ![p] = echo]
  /\ timers' = [timers EXCEPT ![p] = tms]

Send(S) ==
  /\ packets' = packets \cup S
  /\ timely \/ Cardinality(packets') <= MaxPackets

\* Packet k is read, and may be read again before the faults stop.
Read(k, sent) ==
  /\ packets' = (IF timely THEN packets \ {k} ELSE packets) \cup sent
  /\ timely \/ Cardinality(packets') <= MaxPackets

\* Every packet read makes its source the node's address (internNode).
Incoming(p, k) ==
  /\ k \in packets
  /\ k.from = Other(p)
  /\ k.dst = home[p]
  /\ addr' = [addr EXCEPT ![p] = k.src]
  /\ UNCHANGED <<home, second, timely>>

-----------------------------------------------------------------------------
(* Handlers *)

\* A node in state unknown is pinged in turn.
PingBackNever(p, dst) == {}
PingBack(p, dst) == PingSent(p, dst)
ReceivePingUnknown(p, k) ==
  /\ k.type = "ping"
  /\ state[p] = "unknown"
  /\ Incoming(p, k)
  /\ Become(p, "verifywait", OpenPing(p, k.src), timers[p] \cup PongTimer(p))
  /\ Read(k, {Pong(p, k.src, k.hash)} \cup PingBack(p, k.src))

\* In every other state the ping is answered, and nothing else is sent.
AfterPing(st) ==
  CASE st = "verifyinit" -> "verifywait"
    [] st = "unresponsive" -> "known"
    [] OTHER -> st
ReceivePing(p, k) ==
  /\ k.type = "ping"
  /\ state[p] # "unknown"
  /\ Incoming(p, k)
  /\ Become(p, AfterPing(state[p]), pingEcho[p], timers[p])
  /\ Read(k, {Pong(p, k.src, k.hash)})

\* checkPacket accepts a pong for the open ping; no other pong has an effect.
TimersLeft(p) == timers[p] \cup IF state[p] = "verifyinit" THEN {"pingTimeout"} ELSE {}
AfterPongTimers(p) ==
  (timers[p] \ {"pongTimeout"}) \cup IF state[p] = "verifyinit" THEN {"pingTimeout"} ELSE {}
AfterPongWaits(st) == IF st = "verifyinit" THEN "verifywait" ELSE "known"
AfterPong(st) == IF st = "verifyinit" THEN "remoteverifywait" ELSE "known"
ReceivePong(p, k) ==
  /\ k.type = "pong"
  /\ Incoming(p, k)
  /\ IF k.hash = pingEcho[p]
     THEN Become(p, AfterPong(state[p]), None, AfterPongTimers(p))
     ELSE UNCHANGED <<state, pingEcho, timers>>
  /\ Read(k, {})

\* The timers.  Once the faults have stopped they fire after all packets.
Expired(p, ev) ==
  /\ ev \in timers[p]
  /\ timely => packets = {}
  /\ UNCHANGED <<addr, home, packets, second, timely>>

PongTimeout(p) ==
  /\ Expired(p, "pongTimeout")
  /\ \/ /\ state[p] \in {"verifyinit", "verifywait"}
        /\ Become(p, "unknown", None, timers[p] \ {"pongTimeout"})
     \/ /\ state[p] = "contested"
        /\ Become(p, "unresponsive", pingEcho[p], timers[p] \ {"pongTimeout"})

PingTimeout(p) ==
  /\ Expired(p, "pingTimeout")
  /\ state[p] = "remoteverifywait"
  /\ Become(p, "known", pingEcho[p], timers[p] \ {"pingTimeout"})

\* p hears that the other is at a: from a list of fallback nodes, from the
\* node of a lookup, which keep the address of a node there is, or from
\* a neighbours packet, which replaces it unless the node is known.
HearsayAddressAlways(p, a) == a
HearsayAddress(p, a) == IF state[p] = "known" THEN addr[p] ELSE a
IntroducedNowhere(p, a, relayed) == addr[p]
Introduced(p, a, relayed) ==
  IF addr[p] = None THEN a ELSE IF relayed THEN HearsayAddress(p, a) ELSE addr[p]
Introduce(p, a, relayed) ==
  LET dst == Introduced(p, a, relayed)
  IN  /\ timely => a = home[Other(p)]
      /\ addr' = [addr EXCEPT ![p] = dst]
      /\ \/ /\ state[p] = "unknown"
            /\ Become(p, "verifyinit", OpenPing(p, dst), timers[p] \cup PongTimer(p))
            /\ Send(PingSent(p, dst))
         \/ /\ state[p] # "unknown"
            /\ UNCHANGED <<state, pingEcho, timers, packets>>
      /\ UNCHANGED <<home, second, timely>>

\* A known node is revalidated: it did not answer queries, or another node
\* needs its place in the table.
Contest(p) ==
  /\ state[p] = "known"
  /\ Become(p, "contested", OpenPing(p, addr[p]), timers[p] \cup PongTimer(p))
  /\ Send(PingSent(p, addr[p]))
  /\ UNCHANGED <<addr, home, second, timely>>

-----------------------------------------------------------------------------
(* The environment *)

Lose(k) ==
  /\ ~ timely
  /\ packets' = packets \ {k}
  /\ UNCHANGED <<node, home, second, timely>>

Restart(p) ==
  /\ ~ timely
  /\ Become(p, "unknown", None, {})
  /\ addr' = [addr EXCEPT ![p] = None]
  /\ UNCHANGED <<home, packets, second, timely>>

Move(p, a) ==
  /\ ~ timely
  /\ home' = [home EXCEPT ![p] = a]
  /\ UNCHANGED <<node, packets, second, timely>>

Tick ==
  /\ ~ timely
  /\ second < MaxSecond
  /\ second' = second + 1
  /\ UNCHANGED <<node, home, packets, timely>>

\* The faults stop when no timer runs and each node is at the address it is
\* believed to be at, if it is believed to be anywhere.  A ping that timed out
\* while its node was contested may still be open on either side.
Stabilize ==
  /\ ~ timely
  /\ \A p \in Parties : timers[p] = {} /\ addr[p] \in {None, home[Other(p)]}
  /\ timely' = TRUE
  /\ packets' = {}
  /\ UNCHANGED <<node, home, second>>

Receive(p, k) == ReceivePingUnknown(p, k) \/ ReceivePing(p, k) \/ ReceivePong(p, k)
Timeout(p) == PongTimeout(p) \/ PingTimeout(p)

Next ==
  \/ \E p \in Parties :
       \/ \E k \in packets : Receive(p, k)
       \/ Timeout(p)
       \/ \E a \in Homes[Other(p)], relayed \in BOOLEAN : Introduce(p, a, relayed)
       \/ Contest(p)
       \/ Restart(p)
       \/ \E a \in Homes[p] : Move(p, a)
  \/ \E k \in packets : Lose(k)
  \/ Tick
  \/ Stabilize

Spec == Init /\ [][Next]_vars

\* Once the faults have stopped every packet is read, and a timer fires between
\* the exchanges that may go on: each of them takes time, and the timer's time
\* passes.  Nothing else needs to happen.
Fairness ==
  \A p \in Parties : /\ \A k \in Packets : WF_vars(timely /\ Receive(p, k))
                     /\ SF_vars(timely /\ Timeout(p))

FairSpec == Spec /\ Fairness

-----------------------------------------------------------------------------
\* The variables' types; nodes are believed to be where they may be.
TypeOK ==
  /\ state \in [Parties -> {"unknown"} \cup Verifying \cup Queryable]
  /\ \A p \in Parties :
       /\ home[p] \in Homes[p]
       /\ addr[p] \in Homes[Other(p)] \cup {None}
       /\ addr[p] = None => state[p] = "unknown"
       /\ pingEcho[p] # None => pingEcho[p].dst \in Homes[Other(p)]
       /\ timers[p] \subseteq {"pongTimeout", "pingTimeout"}
  /\ \A k \in packets : k.src \in Homes[k.from] /\ k.dst \in Homes[Other(k.from)]
  /\ second \in 0 .. MaxSecond
  /\ timely \in BOOLEAN

\* "reject address change if node is known by us": as long as a node is known,
\* nobody but the node itself changes its address, by sending from a new one.
\* What third parties relay does not, whether it is old or new.
KnownAddressKept ==
  [][\A p \in Parties :
       state[p] = "known" /\ state'[p] = "known" /\ addr'[p] # addr[p] =>
         \E k \in packets : k.from = Other(p) /\ k.src = addr'[p] /\ k.dst = home[p]]_vars

\* Once the faults have stopped no ping times out, whatever the two were to one
\* another by then: known, unknown, known on one side only, or one of them with
\* an old ping still open.  Each ping that is sent then has its answer, and its
\* timer is aborted, by the time the network is silent.
AllAnswered ==
  timely /\ packets = {} => \A p \in Parties : "pongTimeout" \notin timers[p]

\* What remoteverifywait is for: when its time has passed, the other party has
\* completed its own verification of us and will answer our queries.
WaitSuffices ==
  [][\A p \in Parties :
       timely /\ state[p] = "remoteverifywait" /\ state'[p] = "known" => CanQuery(Other(p))]_vars

\* Once the faults have stopped, every verification that one party begins, and
\* every revalidation for which a ping is sent, ends with both able to query one
\* another: also when one of them had forgotten the other, when both begin at
\* once, when one is revalidated while the other verifies, and when the other
\* holds a ping that timed out.  (A revalidation by the party that holds such a
\* ping sends nothing, and does not end: Network's ContestedRevalidated.)
HandshakeCompletes ==
  \A p \in Parties :
    timely /\ (state[p] \in Verifying \/ "pongTimeout" \in timers[p]) ~>
      \A q \in Parties : CanQuery(q)
=============================================================================
