---------------------------- MODULE NearestSearch ----------------------------
(***************************************************************************)
(* What a lookup of discovery/net.go does, apart from its queries and      *)
(* replies: of the nodes it has heard of it always asks the nearest one    *)
(* that was not asked, if that is among the Size nearest of all, never one *)
(* twice, and it may only end when the Size nearest ones were asked.  With *)
(* equal distances there are several ways to choose these.                 *)
(* Lookup implements this specification (Lookup!Search).                   *)
(***************************************************************************)
EXTENDS Integers, FiniteSets

CONSTANTS Nodes, Self, Distance, Size

VARIABLES pool,    \* the nodes it has heard of
          asked,   \* those it has asked
          done     \* it has ended

vars == <<pool, asked, done>>

\* The choices of the Size nearest nodes of the pool.
Closest ==
  {S \in SUBSET pool :
     /\ Cardinality(S) = IF Cardinality(pool) < Size THEN Cardinality(pool) ELSE Size
     /\ \A n \in pool \ S, m \in S : Distance[m] <= Distance[n]}

Init ==
  /\ pool = {Self}
  /\ asked = {}
  /\ done = FALSE

Hear(more) ==
  /\ pool' = pool \cup more
  /\ UNCHANGED <<asked, done>>

Ask(n) ==
  /\ \E S \in Closest :
       /\ n \in S \ asked
       /\ \A m \in S \ asked : Distance[n] <= Distance[m]
  /\ asked' = asked \cup {n}
  /\ UNCHANGED <<pool, done>>

End ==
  /\ \E S \in Closest : S \subseteq asked
  /\ done' = TRUE
  /\ UNCHANGED <<pool, asked>>

Next ==
  /\ ~ done
  /\ \/ \E more \in SUBSET Nodes : Hear(more)
     \/ \E n \in Nodes : Ask(n)
     \/ End

Spec == Init /\ [][Next]_vars
=============================================================================
