---------------------------- MODULE Neighbours ----------------------------
(***************************************************************************)
(* sendNeighbours (discovery/udp.go): the nodes of an answer are sent in   *)
(* packets of at most maxNeighbors nodes, a number computed from the size  *)
(* of the largest node so that a packet fits into the buffer that readLoop *)
(* reads packets into; what does not fit there is cut off and the packet   *)
(* is dropped for it.                                                      *)
(***************************************************************************)
EXTENDS Integers, SequencesExt, FiniteSetsExt

CONSTANTS Results,     \* the answers: closest returns up to bucketSize nodes
          BufferSize,  \* the size of readLoop's buffer: 1280
          HeadSize,    \* everything in a packet but its nodes
          NodeSize     \* the encoded size of the largest node

ASSUME ResultsAssumption == \A answer \in Results : answer \in Seq(ToSet(answer))
ASSUME SizesAssumption ==
  /\ BufferSize \in Nat /\ HeadSize \in Nat /\ NodeSize \in Nat \ {0}
  /\ HeadSize + NodeSize < BufferSize

VARIABLES
  results,  \* the nodes to be sent
  next,     \* the loop's position in them
  Nodes,    \* p.Nodes
  sent      \* the packets sent, each a sequence of nodes

sendVars == <<results, next, Nodes, sent>>

MaxNeighbors == Min({n \in 0 .. BufferSize : HeadSize + (n + 1) * NodeSize >= BufferSize})

SendInit ==
  /\ results \in Results
  /\ next = 1
  /\ Nodes = <<>>
  /\ sent = <<>>

\* One iteration: a full packet is sent, and the last one, full or not.
FullOnly(nodes) == Len(nodes) = MaxNeighbors
Complete(nodes) == Len(nodes) = MaxNeighbors \/ next = Len(results)
SendNeighbours ==
  LET nodes == Append(Nodes, results[next])
  IN  /\ next <= Len(results)
      /\ IF Complete(nodes)
         THEN sent' = Append(sent, nodes) /\ Nodes' = <<>>
         ELSE Nodes' = nodes /\ UNCHANGED sent
      /\ next' = next + 1
      /\ UNCHANGED results

SendNext == SendNeighbours

SendSpec == SendInit /\ [][SendNext]_sendVars

-----------------------------------------------------------------------------
\* Splitting an answer loses nothing: when the loop ends every node was sent,
\* once and in order, in packets that fit into the reader's buffer, of which
\* all but the last have no room for another node and none is empty (an answer
\* without nodes is no packet at all).
AnswerArrives ==
  /\ next > Len(results) => FlattenSeq(sent) = results
  /\ \A i \in DOMAIN sent :
       /\ sent[i] # <<>>
       /\ HeadSize + Len(sent[i]) * NodeSize < BufferSize
       /\ i < Len(sent) => HeadSize + (Len(sent[i]) + 1) * NodeSize >= BufferSize
=============================================================================
