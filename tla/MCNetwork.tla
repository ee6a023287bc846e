----------------------------- MODULE MCNetwork -----------------------------
(* Instances of Network for TLC. *)
EXTENDS Network, TLC

CONSTANTS p1, p2, p3, self, q1, q2, q3

\* One fallback node; that node after the own one; or the own node alone, and
\* with two others.
OneFallback   == {<<p1>>}
OwnFallback   == {<<self, p1>>}
ManyFallbacks == {<<self>>, <<p1, self, p2>>}

\* The peers that are in no fallback list.
NewPeers == Permutations({p2, p3})
AnyQuery == Permutations(Queries)
=============================================================================
