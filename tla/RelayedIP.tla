----------------------------- MODULE RelayedIP -----------------------------
(***************************************************************************)
(* The network lists of netutil/net.go, and what a neighbours packet makes *)
(* of the addresses in it (internNodeFromNeighbours of discovery/net.go):  *)
(* CheckRelayIP is asked for a node that is new, with the packet's sender  *)
(* as the relaying host; the address of a node that is there is replaced   *)
(* without a check, unless the node is known.  A lookup then asks these    *)
(* nodes for their neighbours.  An address is checked against its last     *)
(* relay only.                                                             *)
(*                                                                         *)
(* Addresses are those of NetSet; a network is an IP version and the       *)
(* leading bits of its addresses.  Left out: the nodes' ports and keys, for*)
(* which a relayed node may be refused too, and the addresses from which   *)
(* nodes send to us themselves, which nobody relays.                       *)
(***************************************************************************)
EXTENDS Integers, SequencesExt

CONSTANTS Addresses,    \* addresses
          NoIP,         \* no address: a node that is not interned
          Relayed,      \* the nodes named in neighbours packets
          Unspecified,  \* the zero addresses among them
          Loopbacks,    \* net.IP.IsLoopback: a list of networks
          Multicasts,   \* net.IP.IsMulticast
          lan,          \* lan4 and lan6
          special       \* special4 and special6

ASSUME NoIPAssumption == NoIP \notin Addresses

VARIABLES
  first,    \* the address of the host a chain of lookups starts at
  IP,       \* n.IP of the interned nodes
  known,    \* the nodes in state known
  replaced  \* history: the address of a node that was there was replaced

relayVars == <<first, IP, known, replaced>>

RelayInit ==
  /\ first \in Addresses \ Unspecified
  /\ IP = [n \in Relayed |-> NoIP]
  /\ known = {}
  /\ replaced = FALSE

\* Netlist.Contains, for a network of the address's version.
ContainsIP(list, addr) == \E n \in list : n.v = addr.v /\ IsPrefix(n.bits, addr.bits)

IsLAN(addr) == ContainsIP(Loopbacks, addr) \/ ContainsIP(lan, addr)
IsSpecialNetwork(addr) == ContainsIP(Multicasts, addr) \/ ContainsIP(special, addr)

\* CheckRelayIP: no error.
CheckRelayIPLoopbackFree(sender, addr) ==
  /\ addr \notin Unspecified
  /\ ~ IsSpecialNetwork(addr)
  /\ ContainsIP(lan, addr) => IsLAN(sender)
CheckRelayIP(sender, addr) ==
  /\ addr \notin Unspecified
  /\ ~ IsSpecialNetwork(addr)
  /\ ContainsIP(Loopbacks, addr) => ContainsIP(Loopbacks, sender)
  /\ IsLAN(addr) => IsLAN(sender)

\* The hosts that are asked for neighbours: the first, and those named since.
Interned == {n \in Relayed : IP[n] # NoIP}
Senders == {first} \cup {IP[n] : n \in Interned}

\* A host at sender names n, which was not seen before, at addr.
RelayNew(sender, n, addr) ==
  /\ n \notin Interned
  /\ CheckRelayIP(sender, addr)
  /\ IP' = [IP EXCEPT ![n] = addr]
  /\ UNCHANGED <<first, known, replaced>>

\* A host names n, which is there, at another address.  If n is known it is
\* an error: "reject address change if node is known by us".
RelayInterned(n, addr) ==
  /\ n \in Interned \ known
  /\ addr # IP[n]
  /\ IP' = [IP EXCEPT ![n] = addr]
  /\ replaced' = TRUE
  /\ UNCHANGED <<first, known>>

\* n is verified, or contested: see Network.
BecomeKnown(n) ==
  /\ n \in Interned \ known
  /\ known' = known \cup {n}
  /\ UNCHANGED <<first, IP, replaced>>

BecomeContested(n) ==
  /\ n \in known
  /\ known' = known \ {n}
  /\ UNCHANGED <<first, IP, replaced>>

RelayNext ==
  \E n \in Relayed :
    \/ \E addr \in Addresses :
         \/ \E sender \in Senders : RelayNew(sender, n, addr)
         \/ RelayInterned(n, addr)
    \/ BecomeKnown(n)
    \/ BecomeContested(n)

RelaySpec == RelayInit /\ [][RelayNext]_relayVars

-----------------------------------------------------------------------------
\* How near to us an address is: 2 on our own host, 1 in a local network.
Nearness(addr) == IF ContainsIP(Loopbacks, addr) THEN 2 ELSE IF ContainsIP(lan, addr) THEN 1 ELSE 0

\* Checking each new node's address against its last relay is enough for the
\* whole chain: as long as no address is replaced, lookups that start at a WAN
\* host only lead to WAN hosts, and those that start in a local network never
\* to our own host, however many relays there are in between.  (A replaced
\* address may be any: it is not checked at all.)
NoDetour ==
  ~ replaced =>
    \A n \in Interned :
      /\ IP[n] \notin Unspecified
      /\ ~ IsSpecialNetwork(IP[n])
      /\ Nearness(IP[n]) <= Nearness(first)
=============================================================================
