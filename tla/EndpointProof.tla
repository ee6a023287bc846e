---------------------------- MODULE EndpointProof ----------------------------
(***************************************************************************)
(* What the handshake of discovery/net.go promises about each remote node: *)
(* a node counts as verified, that is, may be queried and trusted with its *)
(* address, only after it answered a ping of ours, and it never loses that *)
(* status.  A node whose ping goes unanswered falls back to unverified.    *)
(* Network implements this specification (Network!Endpoint).               *)
(***************************************************************************)
CONSTANT Peers

VARIABLES phase,         \* how far each peer's proof has come
          outstanding    \* the peers that have an unanswered ping of ours

vars == <<phase, outstanding>>

Phases == {"unverified", "proving", "proved", "verified"}

TypeOK ==
  /\ phase \in [Peers -> Phases]
  /\ outstanding \subseteq Peers

In(p) == {n \in Peers : phase[n] = p}

Init ==
  /\ phase = [n \in Peers |-> "unverified"]
  /\ outstanding = {}

\* Some unverified peers are pinged.
Challenge(S) ==
  /\ S \subseteq In("unverified")
  /\ phase' = [n \in Peers |-> IF n \in S THEN "proving" ELSE phase[n]]
  /\ outstanding' = outstanding \cup S

\* n answers: its ping is consumed.  It may have to wait until it has had the
\* time to verify us.  Verified peers R may be challenged again meanwhile.
Answer(n, p, R) ==
  /\ n \in In("proving") \cap outstanding
  /\ p \in {"proved", "verified"}
  /\ R \subseteq In("verified")
  /\ phase' = [phase EXCEPT ![n] = p]
  /\ outstanding' = (outstanding \ {n}) \cup R

\* The wait is over.
Admit(n, R) ==
  /\ n \in In("proved")
  /\ R \subseteq In("verified")
  /\ phase' = [phase EXCEPT ![n] = "verified"]
  /\ outstanding' = outstanding \cup R

\* The ping timed out.
GiveUp(n) ==
  /\ n \in In("proving")
  /\ phase' = [phase EXCEPT ![n] = "unverified"]
  /\ outstanding' = outstanding \ {n}

\* Verified peers are challenged again or answer; none of it is held against
\* their status.
Recheck(A, R) ==
  /\ A \cup R \subseteq In("verified")
  /\ outstanding' = (outstanding \ A) \cup R
  /\ UNCHANGED phase

Next ==
  \/ \E S \in SUBSET Peers : Challenge(S)
  \/ \E n \in Peers, p \in Phases, R \in SUBSET Peers : Answer(n, p, R)
  \/ \E n \in Peers, R \in SUBSET Peers : Admit(n, R)
  \/ \E n \in Peers : GiveUp(n)
  \/ \E A, R \in SUBSET Peers : Recheck(A, R)

Spec == Init /\ [][Next]_vars
=============================================================================
