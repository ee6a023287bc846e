------------------------------- MODULE Table -------------------------------
(***************************************************************************)
(* The node table of discovery/table.go as pure operators on a record      *)
(*   [entries      : the bucket's nodes, most recently active first,       *)
(*    replacements : nodes that found the bucket full, oldest first,       *)
(*    count        : the table's entry counter].                           *)
(*                                                                         *)
(* The code has sixteen buckets and picks one with logdist(self.sha,       *)
(* n.sha).  NewNode never sets the sha field, and every node that reaches  *)
(* the table is built by NewNode, so both hashes are the zero hash,        *)
(* logdist is 0 and bucket 0 is the only bucket ever used: the record is   *)
(* that bucket.  For the same reason every node is at distance zero from   *)
(* every target, and a push onto nodesByDistance appends while there is    *)
(* room.                                                                   *)
(*                                                                         *)
(* A node is identified by its ID; net.nodes holds one *Node per ID.       *)
(***************************************************************************)
EXTENDS Integers, FiniteSets, SequencesExt

CONSTANTS Self,          \* tab.self: this program's own node
          BucketSize     \* bucketSize: 16 in the code

ASSUME BucketSizeAssumption == BucketSize \in Nat \ {0}

\* The tables whose nodes are all in S: no slice outgrows the bucket and count
\* is the number of entries.
Tables(S) ==
  {t \in [entries : Seq(S), replacements : Seq(S), count : Nat] :
     /\ Len(t.entries) <= BucketSize
     /\ Len(t.replacements) <= BucketSize
     /\ t.count = Len(t.entries)}

EmptyTable == [entries |-> <<>>, replacements |-> <<>>, count |-> 0]

\* The first position of n in s: where the code's search loops stop.
FirstIndex(s, n) ==
  CHOOSE i \in DOMAIN s : s[i] = n /\ \A j \in 1 .. i - 1 : s[j] # n

\* s without any occurrence of n, in order.  (The k-th element kept is the
\* one with k - 1 kept positions before it: no recursion, so that the proofs
\* can reason about it.)
Without(s, n) ==
  LET keep   == {i \in DOMAIN s : s[i] # n}
      nth(k) == CHOOSE i \in keep : Cardinality({j \in keep : j < i}) = k - 1
  IN  [k \in 1 .. Cardinality(keep) |-> s[nth(k)]]

\* bump moves the first occurrence of n to the front.
Bump(s, n) == Cons(n, RemoveAt(s, FirstIndex(s, n)))

\* The replacement cache drops its oldest node when it exceeds the bucket.
TrimOff(s) == s
Trim(s) == IF Len(s) > BucketSize THEN Tail(s) ELSE s

\* add: pass over the own node, bump a node that is there, put a new one in
\* front while there is room, and otherwise remember it as a replacement.
TableAdd(t, n) ==
  CASE n = Self -> t
    [] n # Self /\ Contains(t.entries, n) -> [t EXCEPT !.entries = Bump(@, n)]
    [] n # Self /\ ~ Contains(t.entries, n) /\ Len(t.entries) < BucketSize ->
         [t EXCEPT !.entries = Cons(n, @), !.count = @ + 1]
    [] OTHER -> [t EXCEPT !.replacements = Trim(Append(@, n))]

\* add of each node of s in turn (the loop of refresh).
TableAddAll(t, s) ==
  LET f[i \in 0 .. Len(s)] == IF i = 0 THEN t ELSE TableAdd(f[i - 1], s[i])
  IN  f[Len(s)]

\* What add returns: the least recently active entry when n found no room.
Contested(t, n) ==
  {e \in ToSet(t.entries) : /\ n # Self
                            /\ ~ Contains(t.entries, n)
                            /\ Len(t.entries) >= BucketSize
                            /\ e = Last(t.entries)}

\* delete removes the first occurrence and does not refill the bucket.
TableDelete(t, n) ==
  IF Contains(t.entries, n)
  THEN [t EXCEPT !.entries = RemoveAt(@, FirstIndex(@, n)), !.count = @ - 1]
  ELSE t

\* deleteReplace removes every occurrence and refills the bucket with the
\* newest replacement.
TableDeleteReplaceUncounted(t, n) ==
  LET rest == Without(t.entries, n)
  IN  IF Len(rest) < BucketSize /\ t.replacements # <<>>
      THEN [entries      |-> Cons(Last(t.replacements), rest),
            replacements |-> Front(t.replacements),
            count        |-> t.count]
      ELSE [t EXCEPT !.entries = rest]
TableDeleteReplace(t, n) ==
  LET rest == Without(t.entries, n)
      left == t.count - (Len(t.entries) - Len(rest))
  IN  IF Len(rest) < BucketSize /\ t.replacements # <<>>
      THEN [entries      |-> Cons(Last(t.replacements), rest),
            replacements |-> Front(t.replacements),
            count        |-> left + 1]
      ELSE [t EXCEPT !.entries = rest, !.count = left]

\* closest(target, k): nodesByDistance after pushing every entry.  All the
\* distances are equal, so it is the first k entries in table order.
Closest(t, k) == SubSeq(t.entries, 1, IF Len(t.entries) < k THEN Len(t.entries) ELSE k)
=============================================================================
