----------------------------- MODULE MCHelpers -----------------------------
(* An instance each of the small components for TLC: IPTracker, NetSet,     *)
(* RelayedIP, Metric, Neighbours and Server.  They share nothing, and a     *)
(* behaviour uses one of them.                                              *)
EXTENDS IPTracker, NetSet, RelayedIP, Metric, Neighbours, Server, Bitwise

CONSTANTS h1, h2, h3, e1, e2, n1, n2

VARIABLE part  \* the one in use

V4(bits) == [v |-> 4, bits |-> bits]
V6(bits) == [v |-> 6, bits |-> bits]
Nets(prefixes) == {V4(p) : p \in prefixes} \cup {V6(p) : p \in prefixes}

\* A network of two IPv4 addresses, that of IPv6 with the same prefix, and two
\* more addresses, one of each version.
SetIPs == {V4(<<1, 0, 0>>), V4(<<1, 0, 1>>), V6(<<1, 0, 0>>), V4(<<0, 1, 0>>), V6(<<1, 1, 0>>)}

\* Addresses of every kind.
WAN == V4(<<1, 0, 0>>)
ZeroIPs == {V4(<<0, 0, 0>>)}
RelayIPs == {WAN, V6(<<1, 0, 0>>), V4(<<0, 1, 0>>), V6(<<0, 1, 1>>),
             V4(<<0, 0, 1>>), V6(<<0, 0, 1>>), V4(<<1, 1, 0>>), V4(<<1, 1, 1>>)} \cup ZeroIPs
LoopbackNets == Nets({<<0, 0, 1>>})
MulticastNets == Nets({<<1, 1, 1>>})
LANNets == Nets({<<0, 0, 0>>, <<0, 1>>})
SpecialNets == Nets({<<1, 1, 0>>})

\* Hashes of two bytes of three bits, at every distance from two of them.
TwoSelves == {<<0, 0>>, <<5, 2>>}
BitXor(a, b) == a ^^ b

\* Answers of up to seven nodes, which are numbers; three fit into a packet.
UpToSeven == {[i \in 1 .. n |-> i] : n \in 0 .. 7}

\* What KadShow starts: a key, discovery, a free port.
SomeConfig == [PrivateKey |-> TRUE, NoDiscovery |-> FALSE, Discovery |-> TRUE,
               port |-> "any", BootstrapNodes |-> "complete"]

MCInit ==
  /\ Init /\ SetInit /\ RelayInit /\ MetricInit /\ SendInit /\ ServerInit
  /\ part \in {"tracker", "set", "relay", "metric", "neighbours", "server"}
  /\ (part # "relay" => first = WAN)
  /\ (part # "metric" => self = <<0, 0>> /\ sha = <<0, 0>>)
  /\ (part # "neighbours" => results = <<>>)
  /\ (part # "server" => config = SomeConfig /\ ~ taken)

MCNext ==
  /\ \/ part = "tracker" /\ TrackerNext
     \/ part # "tracker" /\ UNCHANGED vars
  /\ \/ part = "set" /\ SetNext
     \/ part # "set" /\ UNCHANGED setVars
  /\ \/ part = "relay" /\ RelayNext
     \/ part # "relay" /\ UNCHANGED relayVars
  /\ \/ part = "metric" /\ MetricNext
     \/ part # "metric" /\ UNCHANGED metricVars
  /\ \/ part = "neighbours" /\ SendNext
     \/ part # "neighbours" /\ UNCHANGED sendVars
  /\ \/ part = "server" /\ ServerNext
     \/ part # "server" /\ UNCHANGED serverVars
  /\ UNCHANGED part

MCSpec == MCInit /\ [][MCNext]_<<vars, setVars, relayVars, metricVars, sendVars, serverVars, part>>
=============================================================================
