------------------------------ MODULE MCLookup ------------------------------
(* Instances of Lookup for TLC. *)
EXTENDS Lookup

CONSTANTS self, p1, p2, p3, p4

\* One node nearer than we are, one as far, two farther.  (In the code the
\* hashes of all nodes are zero, and with them all distances.)
SomeDistances == [n \in {self, p1, p2, p3, p4} |->
                    CASE n = p1 -> 0 [] n \in {self, p2} -> 1 [] n \in {p3, p4} -> 2]

\* nil, one node, or two nodes in either order, possibly the same.
ShortAnswers == {<<>>} \cup [1 .. 1 -> {p1, p2, p3, p4}] \cup [1 .. 2 -> {p1, p2, p3, p4}]
=============================================================================
