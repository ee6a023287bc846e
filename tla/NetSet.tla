------------------------------- MODULE NetSet -------------------------------
(***************************************************************************)
(* SameNet and DistinctNetSet of netutil/net.go.  The set lets at most     *)
(* Limit addresses of one network in, but does not know which: it counts.  *)
(*                                                                         *)
(* An address is its IP version and its bits, most significant first; the  *)
(* 16 byte form of an IPv4 address is that IPv4 address.                   *)
(***************************************************************************)
EXTENDS Integers, FiniteSets, SequencesExt, FiniteSetsExt

CONSTANTS IPs,          \* addresses
          Subnet,       \* DistinctNetSet.Subnet: number of common prefix bits
          Limit,        \* DistinctNetSet.Limit
          MaxOffers     \* bound: how often an address is offered to the set

ASSUME IPsAssumption ==
  /\ IsFiniteSet(IPs)
  /\ \A ip \in IPs : ip.v \in {4, 6} /\ ip.bits \in Seq({0, 1})
  /\ \A ip, other \in IPs : ip.v = other.v => Len(ip.bits) = Len(other.bits)
ASSUME SubnetAssumption == Subnet \in Nat /\ Limit \in Nat /\ MaxOffers \in Nat
\* A network is given by bits that an address has, up to the last byte: with more
\* no address is in the network of another one, nor in its own.
ASSUME PrefixAssumption == \A ip \in IPs : (Subnet \div 8) * 8 <= Len(ip.bits)

VARIABLES
  members,  \* s.members: how many addresses, for some keys
  offered,  \* history: the calls of Add for an address that no Remove followed
  inside,   \* history: the same, of the calls of Add that returned true
  orderly   \* history: Remove was called for accepted addresses only

setVars == <<members, offered, inside, orderly>>

-----------------------------------------------------------------------------
\* SameNet.  The prefix may be longer than the addresses, but not by a byte.
SameNet(bits, ip, other) ==
  /\ ip.v = other.v
  /\ (bits \div 8) * 8 <= Len(ip.bits)
  /\ \A i \in 1 .. Len(ip.bits) : i <= bits => ip.bits[i] = other.bits[i]

-----------------------------------------------------------------------------
(* DistinctNetSet *)

\* key: the version and the prefix, which is at most the whole address.
KeyUnversioned(ip) == SubSeq(ip.bits, 1, Min({Subnet, Len(ip.bits)}))
KeyOf(ip) == <<ip.v, SubSeq(ip.bits, 1, Min({Subnet, Len(ip.bits)}))>>

Size(key) == IF key \in DOMAIN members THEN members[key] ELSE 0
KeysWith(key) == DOMAIN members \cup {key}

SetInit ==
  /\ members = [key \in {} |-> 0]
  /\ offered = [ip \in IPs |-> 0]
  /\ inside = [ip \in IPs |-> 0]
  /\ orderly = TRUE

\* Add returns true if the network of ip has room.
Room(key) == Size(key) < Limit
AddIP(ip) ==
  LET key == KeyOf(ip)
  IN  /\ offered[ip] < MaxOffers
      /\ offered' = [offered EXCEPT ![ip] = @ + 1]
      /\ IF Room(key)
         THEN /\ members' = [k \in KeysWith(key) |-> IF k = key THEN Size(k) + 1 ELSE members[k]]
              /\ inside' = [inside EXCEPT ![ip] = @ + 1]
         ELSE UNCHANGED <<members, inside>>
      /\ UNCHANGED orderly

\* Remove counts one address less, whether it is one of those counted or not.
Less(n) == IF n = 0 THEN 0 ELSE n - 1
RemoveIP(ip) ==
  LET key  == KeyOf(ip)
      left == [k \in DOMAIN members |-> IF k = key THEN Less(members[k]) ELSE members[k]]
  IN  /\ offered' = [offered EXCEPT ![ip] = Less(@)]
      /\ members' = Restrict(left, {k \in DOMAIN left : left[k] # 0})
      /\ inside' = [inside EXCEPT ![ip] = Less(@)]
      /\ orderly' = (orderly /\ inside[ip] > 0)

SetNext == \E ip \in IPs : AddIP(ip) \/ RemoveIP(ip)

SetSpec == SetInit /\ [][SetNext]_setVars

-----------------------------------------------------------------------------
\* The variables' types; a network without addresses is not kept.
SetTypeOK ==
  /\ DOMAIN members \subseteq {KeyOf(ip) : ip \in IPs}
  /\ \A key \in DOMAIN members : members[key] \in 1 .. Limit
  /\ offered \in [IPs -> 0 .. MaxOffers]
  /\ inside \in [IPs -> 0 .. MaxOffers]
  /\ orderly \in BOOLEAN

\* The network of ip, as SameNet has it.
Near(ip) == {other \in IPs : SameNet(Subnet, ip, other)}
Total(count, S) == MapThenSumSet(LAMBDA ip : count[ip], S)

\* What a set is for: of all addresses in one network, and not only of those
\* its own keys call near, at most Limit are inside, and room is refused only
\* then, if its user removes nothing that was refused.  A user who does, like
\* TestDistinctNetSetAddRemove, leaves nothing behind when it has removed all
\* that it offered: in any order of the calls a network never counts more than
\* was offered of it.
DistinctNets ==
  \A ip \in IPs :
    LET count == Size(KeyOf(ip))
    IN  /\ orderly => Total(inside, Near(ip)) = count
        /\ count <= Limit /\ count <= Total(offered, Near(ip))
=============================================================================
