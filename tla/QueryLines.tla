----------------------------- MODULE QueryLines -----------------------------
(***************************************************************************)
(* How the main loop of discovery/net.go serves the findnode queries to    *)
(* each remote node: they stand in line, the one at the head is asked, and *)
(* only of a node that may be queried, and those behind keep their order.  *)
(* Queries leave the line one by one, from the head, unless the loop gives *)
(* up the whole line of a node that may not be queried.  A query that      *)
(* comes while none is being asked is asked at once, ahead of the line.    *)
(* Network implements this specification (Network!Lines).                  *)
(***************************************************************************)
EXTENDS SequencesExt

CONSTANTS Peers, Queries

VARIABLES line,     \* the queries to each peer, the oldest first
          asking,   \* the peers the head of whose line was sent
          ready     \* the peers that may be queried, for ever from then on

vars == <<line, asking, ready>>

InLine(q) == \E n \in Peers : q \in ToSet(line[n])

Init ==
  /\ line = [n \in Peers |-> <<>>]
  /\ asking = {}
  /\ ready = {}

Enter(q, n) ==
  /\ ~ InLine(q)
  /\ line' = [line EXCEPT ![n] = Append(@, q)]
  /\ UNCHANGED asking

Overtake(q, n) ==
  /\ ~ InLine(q)
  /\ n \in ready \ asking
  /\ line' = [line EXCEPT ![n] = <<q>> \o @]
  /\ asking' = asking \cup {n}

\* A node becomes known, or is verified anew.
Begin(n) ==
  /\ n \in ready' \ asking
  /\ line[n] # <<>>
  /\ asking' = asking \cup {n}
  /\ UNCHANGED line

\* The head is answered, with the next query asked at once, or it times out.
Leave(n) ==
  /\ n \in asking
  /\ line' = [line EXCEPT ![n] = Tail(@)]
  /\ \/ asking' = asking \ {n}
     \/ line'[n] # <<>> /\ UNCHANGED asking

GiveUp(n) ==
  /\ n \notin ready
  /\ line' = [line EXCEPT ![n] = <<>>]
  /\ UNCHANGED asking

Next ==
  /\ ready' \in SUBSET Peers /\ ready \subseteq ready'
  /\ \/ \E n \in Peers : Begin(n) \/ Leave(n) \/ GiveUp(n)
     \/ \E n \in Peers, q \in Queries : Enter(q, n) \/ Overtake(q, n)
     \/ UNCHANGED <<line, asking>>

Spec == Init /\ [][Next]_vars
=============================================================================
