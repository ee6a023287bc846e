---------------------------- MODULE TableProofs ----------------------------
(***************************************************************************)
(* Every operation of the node table maps well-formed tables to well-      *)
(* formed tables, for buckets of any size and nodes from any set.          *)
(*                                                                         *)
(* The facts about Without and TableAddAll that need induction are proved  *)
(* by least counterexample (SequenceLemmas).                               *)
(***************************************************************************)
EXTENDS Table, SequenceLemmas

-----------------------------------------------------------------------------
(* Sequences *)

\* A position of the first occurrence of n exists where n occurs.
LEMMA FirstIndexType ==
  ASSUME NEW S, NEW s \in Seq(S), NEW n, Contains(s, n)
  PROVE  FirstIndex(s, n) \in 1 .. Len(s)
<1> DEFINE K == {i \in 1 .. Len(s) : s[i] = n}
<1>1. PICK i \in 1 .. Len(s) : s[i] = n
  BY DEF Contains
<1>2. K \in SUBSET Nat /\ i \in K
  BY <1>1, LenProperties
<1>3. PICK m \in K : \A j \in K : m <= j
  <2> HIDE DEF K
  <2> QED
    BY <1>2, LeastElement
<1>4. \A j \in 1 .. m - 1 : s[j] # n
  BY <1>3, LenProperties
<1>5. DOMAIN s = 1 .. Len(s)
  BY LenProperties
<1>6. \E k \in DOMAIN s : s[k] = n /\ \A j \in 1 .. k - 1 : s[j] # n
  BY <1>3, <1>4, <1>5
<1> QED
  BY <1>5, <1>6 DEF FirstIndex

\* Removing an element leaves a shorter sequence of the same set.
LEMMA RemoveAtType ==
  ASSUME NEW S, NEW s \in Seq(S), NEW i \in 1 .. Len(s)
  PROVE  RemoveAt(s, i) \in Seq(S) /\ Len(RemoveAt(s, i)) = Len(s) - 1
<1>1. Len(s) \in Nat /\ \A k \in 1 .. Len(s) : s[k] \in S
  BY LenProperties, ElementOfSeq
<1> DEFINE a == SubSeq(s, 1, i - 1)
           b == SubSeq(s, i + 1, Len(s))
<1>2. a \in Seq(S) /\ Len(a) = i - 1
  BY <1>1, SubSeqProperties
<1>3. b \in Seq(S) /\ Len(b) = Len(s) - i
  BY <1>1, SubSeqProperties
<1>4. a \o b \in Seq(S) /\ Len(a \o b) = Len(a) + Len(b)
  <2> HIDE DEF a, b
  <2> QED
    BY <1>2, <1>3, ConcatProperties
<1>5. RemoveAt(s, i) = a \o b
  BY DEF RemoveAt
<1>6. Len(a) + Len(b) = Len(s) - 1
  <2> HIDE DEF a, b
  <2> QED
    BY <1>1, <1>2, <1>3
<1> HIDE DEF a, b
<1> QED
  BY <1>4, <1>5, <1>6

\* Adding an element in front gives a longer sequence.
LEMMA ConsType ==
  ASSUME NEW S, NEW s \in Seq(S), NEW n \in S
  PROVE  Cons(n, s) \in Seq(S) /\ Len(Cons(n, s)) = Len(s) + 1
<1>1. <<n>> \in Seq(S) /\ Len(<<n>>) = 1
  OBVIOUS
<1> QED
  BY <1>1, ConcatProperties DEF Cons

\* Bumping an entry neither adds nor drops one.
LEMMA BumpType ==
  ASSUME NEW S, NEW s \in Seq(S), NEW n \in S, Contains(s, n)
  PROVE  Bump(s, n) \in Seq(S) /\ Len(Bump(s, n)) = Len(s)
<1> DEFINE r == RemoveAt(s, FirstIndex(s, n))
<1>1. r \in Seq(S) /\ Len(r) = Len(s) - 1
  BY FirstIndexType, RemoveAtType
<1>2. Cons(n, r) \in Seq(S) /\ Len(Cons(n, r)) = Len(r) + 1
  <2> HIDE DEF r
  <2> QED
    BY <1>1, ConsType
<1>3. Len(s) \in Nat
  BY LenProperties
<1> QED
  BY <1>1, <1>2, <1>3 DEF Bump

\* A non-empty sequence without its last element.
LEMMA FrontLastType ==
  ASSUME NEW S, NEW s \in Seq(S), s # <<>>
  PROVE  Last(s) \in S /\ Front(s) \in Seq(S) /\ Len(Front(s)) = Len(s) - 1
<1>1. Len(s) \in Nat \ {0} /\ \A k \in 1 .. Len(s) : s[k] \in S
  BY EmptySeq, LenProperties, ElementOfSeq
<1>2. SubSeq(s, 1, Len(s) - 1) \in Seq(S) /\ Len(SubSeq(s, 1, Len(s) - 1)) = Len(s) - 1
  BY <1>1, SubSeqProperties
<1> QED
  BY <1>1, <1>2 DEF Front, Last

\* The k-th element of a finite set of positions has k - 1 elements before it.
LEMMA Ranked ==
  ASSUME NEW N \in Nat, NEW K \in SUBSET (1 .. N), NEW k \in 1 .. Cardinality(K)
  PROVE  \E i \in K : Cardinality({j \in K : j < i}) = k - 1
<1> DEFINE upto(i) == {j \in K : j <= i}
           B == {i \in 0 .. N : Cardinality(upto(i)) >= k}
<1>1. IsFiniteSet(K) /\ Cardinality(K) \in Nat
  <2>1. IsFiniteSet(1 .. N)
    BY FS_Interval
  <2>2. IsFiniteSet(K)
    BY <2>1, FS_Subset
  <2> QED
    BY <2>2, FS_CardinalityType
<1>2. \A i \in Int : IsFiniteSet(upto(i)) /\ Cardinality(upto(i)) \in Nat
  BY <1>1, FS_Subset, FS_CardinalityType
<1>3. N \in B
  <2>1. upto(N) = K
    <3>1. \A j \in K : j <= N
      OBVIOUS
    <3> QED
      BY <3>1
  <2> QED
    BY <1>1, <2>1
<1>4. PICK m \in B : \A j \in B : m <= j
  <2>1. B \in SUBSET Nat
    OBVIOUS
  <2> HIDE DEF B
  <2> QED
    BY <1>3, <2>1, LeastElement
<1>5. /\ m \in 0 .. N /\ Cardinality(upto(m)) >= k
      /\ \A j \in 0 .. N : j < m => ~ (Cardinality(upto(j)) >= k)
  <2> HIDE DEF upto
  <2> QED
    BY <1>4
<1> HIDE DEF B
<1>6. \A j \in K : j \in 1 .. N
  OBVIOUS
<1>7. m # 0
  <2>1. upto(0) = {}
    <3>1. \A j \in K : ~ (j <= 0)
      BY <1>6
    <3> QED
      BY <3>1
  <2>2. Cardinality(upto(0)) = 0
    BY <2>1, FS_EmptySet
  <2> QED
    BY <1>5, <2>2
<1>8. Cardinality(upto(m - 1)) <= k - 1
  <2> HIDE DEF upto
  <2>1. m - 1 \in 0 .. N /\ m - 1 < m /\ m - 1 \in Int
    BY <1>5, <1>7
  <2> QED
    BY <1>1, <1>2, <1>5, <2>1
<1>9. upto(m) \ {m} = upto(m - 1)
  <2>1. \A j \in K : (j <= m /\ j # m) <=> j <= m - 1
    BY <1>5, <1>6
  <2> QED
    BY <2>1
<1>10. m \in K
  <2>1. SUFFICES ASSUME m \notin K  PROVE FALSE
    OBVIOUS
  <2>2. upto(m) = upto(m - 1)
    BY <1>9, <2>1
  <2> HIDE DEF upto
  <2> QED
    BY <1>1, <1>2, <1>5, <1>8, <2>2
<1>11. Cardinality(upto(m) \ {m}) = Cardinality(upto(m)) - 1
  <2>1. m \in upto(m) /\ IsFiniteSet(upto(m))
    BY <1>2, <1>5, <1>10
  <2> HIDE DEF upto
  <2> QED
    BY <2>1, FS_RemoveElement
<1>12. {j \in K : j < m} = upto(m - 1)
  <2>1. \A j \in K : j < m <=> j <= m - 1
    BY <1>5, <1>6
  <2> QED
    BY <2>1
<1>13. Cardinality(upto(m - 1)) = k - 1
  <2> HIDE DEF upto
  <2>1. Cardinality(upto(m)) \in Nat
    BY <1>2, <1>5
  <2>2. Cardinality(upto(m - 1)) = Cardinality(upto(m)) - 1
    BY <1>9, <1>11
  <2>3. k \in Nat
    BY <1>1
  <2>4. Cardinality(upto(m)) >= k
    BY <1>5
  <2> QED
    BY <1>8, <2>1, <2>2, <2>3, <2>4
<1> QED
  BY <1>10, <1>12, <1>13

\* Removing an element everywhere leaves a sequence of the same set, no longer
\* than before.
LEMMA WithoutType ==
  ASSUME NEW S, NEW s \in Seq(S), NEW n
  PROVE  /\ Without(s, n) \in Seq(S)
         /\ Len(Without(s, n)) \in 0 .. Len(s)
<1> DEFINE K == {i \in DOMAIN s : s[i] # n}
           c == Cardinality(K)
           nth(k) == CHOOSE i \in K : Cardinality({j \in K : j < i}) = k - 1
           w == [k \in 1 .. c |-> s[nth(k)]]
<1>1. /\ Len(s) \in Nat /\ DOMAIN s = 1 .. Len(s)
      /\ \A i \in 1 .. Len(s) : s[i] \in S
  BY LenProperties, ElementOfSeq
<1>2. K \in SUBSET (1 .. Len(s))
  BY <1>1
<1>3. c \in Nat /\ c <= Len(s)
  <2> HIDE DEF K
  <2>1. IsFiniteSet(1 .. Len(s)) /\ Cardinality(1 .. Len(s)) = Len(s)
    <3>1. ASSUME NEW b \in Nat  PROVE IsFiniteSet(1 .. b) /\ Cardinality(1 .. b) = b
      BY FS_Interval
    <3> QED
      BY <1>1, <3>1
  <2>2. IsFiniteSet(K) /\ Cardinality(K) <= Cardinality(1 .. Len(s))
    BY <1>2, <2>1, FS_Subset
  <2> QED
    BY <2>1, <2>2, FS_CardinalityType
<1>4. ASSUME NEW k \in 1 .. c  PROVE s[nth(k)] \in S
  <2>1. \E i \in K : Cardinality({j \in K : j < i}) = k - 1
    <3> HIDE DEF K
    <3> QED
      BY <1>1, <1>2, Ranked
  <2>2. nth(k) \in K
    <3> HIDE DEF K
    <3> QED
      BY <2>1
  <2> QED
    BY <1>1, <1>2, <2>2
<1>5. w \in [1 .. c -> S]
  <2> HIDE DEF nth, c
  <2> QED
    BY <1>4
<1>6. w \in Seq(S) /\ Len(w) = c
  <2> HIDE DEF w, c
  <2> QED
    BY <1>3, <1>5
<1>7. Without(s, n) = w
  BY DEF Without
<1> QED
  BY <1>1, <1>3, <1>6, <1>7

-----------------------------------------------------------------------------
(* The table's operations *)

\* What it means for a table to be well-formed over a set of nodes.
LEMMA TablesDef ==
  ASSUME NEW S, NEW t \in Tables(S)
  PROVE  /\ t.entries \in Seq(S) /\ Len(t.entries) \in Nat
         /\ t.replacements \in Seq(S) /\ Len(t.replacements) \in Nat
         /\ t = [entries |-> t.entries, replacements |-> t.replacements, count |-> t.count]
         /\ Len(t.entries) <= BucketSize
         /\ Len(t.replacements) <= BucketSize
         /\ t.count = Len(t.entries)
  BY LenProperties DEF Tables

\* A record with these fields is a well-formed table.
LEMMA TablesIntro ==
  ASSUME NEW S, NEW e \in Seq(S), NEW r \in Seq(S),
         Len(e) <= BucketSize, Len(r) <= BucketSize
  PROVE  [entries |-> e, replacements |-> r, count |-> Len(e)] \in Tables(S)
  BY LenProperties DEF Tables

\* A table over some nodes is one over more nodes.
LEMMA TablesMonotonic ==
  ASSUME NEW S, NEW T, S \subseteq T
  PROVE  Tables(S) \subseteq Tables(T)
<1> SUFFICES ASSUME NEW t \in Tables(S)  PROVE t \in Tables(T)
  OBVIOUS
<1>1. t.entries \in Seq(T) /\ t.replacements \in Seq(T)
  BY TablesDef, SeqMonotonic
<1> QED
  BY <1>1, TablesDef, TablesIntro

\* The empty table is well-formed.
LEMMA EmptyTableType ==
  ASSUME NEW S
  PROVE  EmptyTable \in Tables(S)
<1>1. <<>> \in Seq(S) /\ Len(<<>>) = 0
  BY EmptySeq
<1>2. Len(<<>>) <= BucketSize
  BY <1>1, BucketSizeAssumption
<1>3. [entries |-> <<>>, replacements |-> <<>>, count |-> Len(<<>>)] \in Tables(S)
  <2> DEFINE e == <<>>
  <2>1. e \in Seq(S) /\ Len(e) <= BucketSize
    BY <1>1, <1>2
  <2> HIDE DEF e
  <2>2. [entries |-> e, replacements |-> e, count |-> Len(e)] \in Tables(S)
    BY <2>1, TablesIntro
  <2> QED
    BY <2>2 DEF e
<1> QED
  BY <1>1, <1>3 DEF EmptyTable

\* The replacement cache never outgrows the bucket.
LEMMA TrimType ==
  ASSUME NEW S, NEW r \in Seq(S), NEW n \in S, Len(r) <= BucketSize
  PROVE  /\ Trim(Append(r, n)) \in Seq(S)
         /\ Len(Trim(Append(r, n))) <= BucketSize
<1> DEFINE a == Append(r, n)
<1>1. a \in Seq(S) /\ a # <<>> /\ Len(a) = Len(r) + 1 /\ Len(r) \in Nat
  BY AppendProperties, LenProperties
<1>2. Tail(a) \in Seq(S) /\ Len(Tail(a)) = Len(a) - 1
  <2> HIDE DEF a
  <2> QED
    BY <1>1, HeadTailProperties
<1> HIDE DEF a
<1>3. Trim(a) \in Seq(S) /\ Len(Trim(a)) <= BucketSize
  BY <1>1, <1>2, BucketSizeAssumption DEF Trim
<1> QED
  BY <1>3 DEF a

\* add keeps the table well-formed, and does not let the own node in.
LEMMA TableAddType ==
  ASSUME NEW S, NEW t \in Tables(S), NEW n \in S \cup {Self}
  PROVE  TableAdd(t, n) \in Tables(S)
<1> DEFINE e == t.entries
           r == t.replacements
<1>1. /\ e \in Seq(S) /\ Len(e) \in Nat /\ Len(e) <= BucketSize
      /\ r \in Seq(S) /\ Len(r) \in Nat /\ Len(r) <= BucketSize
      /\ t = [entries |-> e, replacements |-> r, count |-> Len(e)]
  BY TablesDef
<1> HIDE DEF e, r
<1>2. CASE n # Self /\ Contains(e, n)
  <2>1. Bump(e, n) \in Seq(S) /\ Len(Bump(e, n)) = Len(e)
    BY <1>1, <1>2, BumpType
  <2>2. TableAdd(t, n) = [entries |-> Bump(e, n), replacements |-> r, count |-> Len(Bump(e, n))]
    BY <1>1, <1>2, <2>1 DEF TableAdd
  <2> QED
    BY <1>1, <2>1, <2>2, TablesIntro
<1>3. CASE n # Self /\ ~ Contains(e, n) /\ Len(e) < BucketSize
  <2>1. Cons(n, e) \in Seq(S) /\ Len(Cons(n, e)) = Len(e) + 1
    BY <1>1, <1>3, ConsType
  <2>2. TableAdd(t, n) = [entries |-> Cons(n, e), replacements |-> r, count |-> Len(Cons(n, e))]
    BY <1>1, <1>3, <2>1 DEF TableAdd
  <2>3. Len(Cons(n, e)) <= BucketSize
    BY <1>1, <1>3, <2>1, BucketSizeAssumption
  <2> QED
    BY <1>1, <2>1, <2>2, <2>3, TablesIntro
<1>4. CASE n # Self /\ ~ Contains(e, n) /\ ~ (Len(e) < BucketSize)
  <2> DEFINE r2 == Trim(Append(r, n))
  <2>1. r2 \in Seq(S) /\ Len(r2) <= BucketSize
    BY <1>1, <1>4, TrimType
  <2>2. TableAdd(t, n) = [entries |-> e, replacements |-> r2, count |-> Len(e)]
    BY <1>1, <1>4 DEF TableAdd
  <2> HIDE DEF r2
  <2> QED
    BY <1>1, <2>1, <2>2, TablesIntro
<1>5. CASE n = Self
  BY <1>5 DEF TableAdd
<1> QED
  BY <1>2, <1>3, <1>4, <1>5

\* delete keeps the table well-formed.
LEMMA TableDeleteType ==
  ASSUME NEW S, NEW t \in Tables(S), NEW n
  PROVE  TableDelete(t, n) \in Tables(S)
<1> DEFINE e == t.entries
           r == t.replacements
<1>1. /\ e \in Seq(S) /\ Len(e) \in Nat /\ Len(e) <= BucketSize
      /\ r \in Seq(S) /\ Len(r) \in Nat /\ Len(r) <= BucketSize
      /\ t = [entries |-> e, replacements |-> r, count |-> Len(e)]
  BY TablesDef
<1> HIDE DEF e, r
<1>2. CASE ~ Contains(e, n)
  BY <1>1, <1>2 DEF TableDelete
<1>3. CASE Contains(e, n)
  <2> DEFINE d == RemoveAt(e, FirstIndex(e, n))
  <2>1. FirstIndex(e, n) \in 1 .. Len(e)
    BY <1>1, <1>3, FirstIndexType
  <2>2. d \in Seq(S) /\ Len(d) = Len(e) - 1
    BY <1>1, <2>1, RemoveAtType
  <2>3. TableDelete(t, n) = [entries |-> d, replacements |-> r, count |-> Len(e) - 1]
    BY <1>1, <1>3 DEF TableDelete
  <2> HIDE DEF d
  <2>4. Len(d) <= BucketSize
    BY <1>1, <2>2, BucketSizeAssumption
  <2> QED
    BY <1>1, <2>2, <2>3, <2>4, TablesIntro
<1> QED
  BY <1>2, <1>3

\* deleteReplace keeps the table well-formed.
LEMMA TableDeleteReplaceType ==
  ASSUME NEW S, NEW t \in Tables(S), NEW n
  PROVE  TableDeleteReplace(t, n) \in Tables(S)
<1> DEFINE e == t.entries
           r == t.replacements
           w == Without(e, n)
<1>1. /\ e \in Seq(S) /\ Len(e) \in Nat /\ Len(e) <= BucketSize
      /\ r \in Seq(S) /\ Len(r) \in Nat /\ Len(r) <= BucketSize
      /\ t = [entries |-> e, replacements |-> r, count |-> Len(e)]
  BY TablesDef
<1> HIDE DEF e, r
<1>2. w \in Seq(S) /\ Len(w) \in 0 .. Len(e)
  BY <1>1, WithoutType
<1> USE BucketSizeAssumption
<1>3. CASE Len(w) < BucketSize /\ r # <<>>
  <2>1. Last(r) \in S /\ Front(r) \in Seq(S) /\ Len(Front(r)) = Len(r) - 1
    BY <1>1, <1>3, FrontLastType
  <2>2. Cons(Last(r), w) \in Seq(S) /\ Len(Cons(Last(r), w)) = Len(w) + 1
    BY <1>2, <2>1, ConsType
  <2>3. TableDeleteReplace(t, n) =
          [entries |-> Cons(Last(r), w), replacements |-> Front(r),
           count |-> Len(e) - (Len(e) - Len(w)) + 1]
    BY <1>1, <1>3 DEF TableDeleteReplace
  <2> HIDE DEF w
  <2>4. /\ Len(e) - (Len(e) - Len(w)) + 1 = Len(Cons(Last(r), w))
        /\ Len(Cons(Last(r), w)) <= BucketSize
        /\ Len(Front(r)) <= BucketSize
    BY <1>1, <1>2, <1>3, <2>1, <2>2
  <2> QED
    BY <2>1, <2>2, <2>3, <2>4, TablesIntro
<1>4. CASE ~ (Len(w) < BucketSize /\ r # <<>>)
  <2>1. TableDeleteReplace(t, n) =
          [entries |-> w, replacements |-> r, count |-> Len(e) - (Len(e) - Len(w))]
    BY <1>1, <1>4 DEF TableDeleteReplace
  <2> HIDE DEF w
  <2>2. Len(e) - (Len(e) - Len(w)) = Len(w) /\ Len(w) <= BucketSize
    BY <1>1, <1>2
  <2> QED
    BY <1>1, <1>2, <2>1, <2>2, TablesIntro
<1> QED
  BY <1>3, <1>4

-----------------------------------------------------------------------------
(* Adding a sequence of nodes *)

\* f is the function that TableAddAll defines recursively, up to m.
Adds(t, s, m, f) ==
  f = [i \in 0 .. m |-> IF i = 0 THEN t ELSE TableAdd(f[i - 1], s[i])]

\* That function exists.
LEMMA TableAddAllDefined ==
  ASSUME NEW S, NEW s \in Seq(S), NEW t
  PROVE  \E f : Adds(t, s, Len(s), f)
<1> DEFINE Upto(m, f) == Adds(t, s, m, f)
           B == {m \in 0 .. Len(s) : ~ \E f : Upto(m, f)}
<1>1. Len(s) \in Nat
  BY LenProperties
<1>2. SUFFICES ASSUME Len(s) \in B  PROVE FALSE
  BY <1>1
<1>3. PICK m \in B : \A j \in B : m <= j
  <2>1. B \in SUBSET Nat
    BY <1>1
  <2> HIDE DEF B
  <2> QED
    BY <1>2, <2>1, LeastElement
<1>4. m \in 0 .. Len(s) /\ m \in Nat /\ ~ \E f : Upto(m, f)
  <2> HIDE DEF Upto
  <2> QED
    BY <1>1
<1>5. CASE m = 0
  <2>1. Upto(0, [i \in 0 .. 0 |-> t])
    BY DEF Adds
  <2> QED
    BY <1>4, <1>5, <2>1
<1>6. CASE m # 0
  <2>1. m - 1 \in 0 .. Len(s) /\ m - 1 \notin B
    <3> HIDE DEF B
    <3> QED
      BY <1>1, <1>3, <1>4, <1>6
  <2>2. PICK g : Upto(m - 1, g)
    <3> HIDE DEF Upto
    <3> QED
      BY <2>1
  <2> DEFINE h == [i \in 0 .. m |-> IF i = m THEN TableAdd(g[m - 1], s[m]) ELSE g[i]]
  <2>3. \A i \in 0 .. m - 1 : g[i] = IF i = 0 THEN t ELSE TableAdd(g[i - 1], s[i])
    BY <2>2 DEF Adds
  <2>4. ASSUME NEW i \in 0 .. m
        PROVE  h[i] = IF i = 0 THEN t ELSE TableAdd(h[i - 1], s[i])
    <3>1. CASE i = m
      <4>1. h[m - 1] = g[m - 1] /\ h[m] = TableAdd(g[m - 1], s[m])
        BY <1>4, <1>6
      <4> QED
        BY <1>6, <3>1, <4>1
    <3>2. CASE i # m /\ i # 0
      <4>1. h[i] = g[i] /\ h[i - 1] = g[i - 1] /\ i \in 0 .. m - 1
        BY <1>4, <3>2
      <4> HIDE DEF h
      <4> QED
        BY <2>3, <3>2, <4>1
    <3>3. CASE i # m /\ i = 0
      <4>1. h[0] = g[0] /\ 0 \in 0 .. m - 1
        BY <1>4, <3>3
      <4> HIDE DEF h
      <4> QED
        BY <2>3, <3>3, <4>1
    <3> QED
      BY <3>1, <3>2, <3>3
  <2>5. Upto(m, h)
    <3>1. h = [i \in 0 .. m |-> h[i]]
      OBVIOUS
    <3> HIDE DEF h
    <3> QED
      BY <2>4, <3>1 DEF Adds
  <2> QED
    BY <1>4, <2>5
<1> QED
  BY <1>5, <1>6

\* Adding all the nodes of a sequence keeps the table well-formed, and does not
\* let the own node in.
LEMMA TableAddAllType ==
  ASSUME NEW S, NEW t \in Tables(S), NEW s \in Seq(S \cup {Self})
  PROVE  TableAddAll(t, s) \in Tables(S)
<1> DEFINE F == CHOOSE f : Adds(t, s, Len(s), f)
           B == {i \in 0 .. Len(s) : F[i] \notin Tables(S)}
<1>1. Len(s) \in Nat /\ \A i \in 1 .. Len(s) : s[i] \in S \cup {Self}
  BY LenProperties, ElementOfSeq
<1>2. Adds(t, s, Len(s), F)
  BY TableAddAllDefined
<1>3. TableAddAll(t, s) = F[Len(s)]
  BY DEF TableAddAll, Adds
<1> HIDE DEF F
<1>4. \A i \in 0 .. Len(s) : F[i] = IF i = 0 THEN t ELSE TableAdd(F[i - 1], s[i])
  BY <1>2 DEF Adds
<1>5. ASSUME NEW k \in B  PROVE FALSE
  <2>1. PICK m \in B : \A j \in B : m <= j
    <3>1. B \in SUBSET Nat
      BY <1>1
    <3> HIDE DEF B
    <3> QED
      BY <1>5, <3>1, LeastElement
  <2>2. m \in 0 .. Len(s) /\ m \in Nat /\ F[m] \notin Tables(S)
    BY <1>1
  <2>3. m # 0
    BY <1>4, <2>2
  <2>4. m - 1 \in 0 .. Len(s) /\ m - 1 \notin B
    <3> HIDE DEF B
    <3> QED
      BY <1>1, <2>1, <2>2, <2>3
  <2>5. F[m - 1] \in Tables(S) /\ s[m] \in S \cup {Self}
    BY <1>1, <2>2, <2>3, <2>4
  <2>6. F[m] = TableAdd(F[m - 1], s[m])
    BY <1>4, <2>2, <2>3
  <2> QED
    BY <2>2, <2>5, <2>6, TableAddType
<1> QED
  BY <1>1, <1>3, <1>5
=============================================================================
