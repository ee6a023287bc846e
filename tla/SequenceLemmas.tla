--------------------------- MODULE SequenceLemmas ---------------------------
(***************************************************************************)
(* Induction in a first-order form, folds of sequences and of sets, and    *)
(* what a sequence holds after the operations on queues and logs.          *)
(*                                                                         *)
(* The induction theorems of the library cannot be instantiated by the     *)
(* provers, but the well-foundedness of strict inclusion among finite sets *)
(* is a first-order fact: it yields least elements of sets of naturals,    *)
(* and these an induction over the elements of a set (UpTo).               *)
(*                                                                         *)
(* A fold is a function that is defined by recursion over the subsets of   *)
(* the folded set.  FoldExists shows that there is one when the step is a  *)
(* function; a module that folds an operator derives from it that its own  *)
(* fold exists, and UpTo then shows what the fold computes.                *)
(***************************************************************************)
EXTENDS Integers, SequencesExt, SequenceTheorems, FiniteSetTheorems, WellFoundedInduction, TLAPS

-----------------------------------------------------------------------------
(* Induction *)

\* A set of naturals with an element has a least one.
LEMMA LeastElement ==
  ASSUME NEW K \in SUBSET Nat, NEW n \in K
  PROVE  \E m \in K : \A j \in K : m <= j
<1> DEFINE T == {1 .. k : k \in K}
<1>1. T \subseteq FiniteSubsetsOf(Nat)
  <2> SUFFICES ASSUME NEW k \in K  PROVE 1 .. k \in FiniteSubsetsOf(Nat)
    OBVIOUS
  <2> QED
    BY FS_Interval DEF FiniteSubsetsOf
<1>2. T # {}
  OBVIOUS
<1>3. PICK x \in T : \A y \in T : ~ (<<y, x>> \in StrictSubsetOrdering(Nat))
  <2> HIDE DEF T
  <2>1. IsWellFoundedOn(StrictSubsetOrdering(Nat), FiniteSubsetsOf(Nat))
    BY FS_StrictSubsetOrderingWellFounded
  <2> QED
    BY <1>1, <1>2, <2>1, WFMin
<1>4. PICK m \in K : x = 1 .. m
  OBVIOUS
<1>5. ASSUME NEW j \in K, j < m  PROVE FALSE
  <2>0. ~ (<<1 .. j, 1 .. m>> \in StrictSubsetOrdering(Nat))
    BY <1>3, <1>4
  <2>1. ~ (1 .. j \subseteq 1 .. m /\ 1 .. j # 1 .. m)
    BY <2>0 DEF StrictSubsetOrdering
  <2>2. 1 .. j \subseteq 1 .. m
    BY <1>5
  <2>3. m \in 1 .. m /\ m \notin 1 .. j
    BY <1>5
  <2> QED
    BY <2>1, <2>2, <2>3
<1> QED
  BY <1>5

\* What holds of 0, and of each number up to N if of the one before, holds of
\* all numbers up to N.
LEMMA UpTo ==
  ASSUME NEW N \in Nat, NEW T, 0 \in T, \A k \in 1 .. N : k - 1 \in T => k \in T
  PROVE  \A k \in 0 .. N : k \in T
<1> DEFINE K == {k \in 0 .. N : k \notin T}
<1> SUFFICES ASSUME NEW n \in K  PROVE FALSE
  OBVIOUS
<1>1. PICK m \in K : \A j \in K : m <= j
  <2>1. K \in SUBSET Nat
    OBVIOUS
  <2> HIDE DEF K
  <2> QED
    BY <2>1, LeastElement
<1>2. m \in 1 .. N /\ m \notin T
  BY <1>1
<1>3. m - 1 \in 0 .. N /\ m - 1 \notin K
  BY <1>1, <1>2
<1> QED
  BY <1>2, <1>3

-----------------------------------------------------------------------------
(* Folds *)

\* f folds the subsets of S: pick chooses an element of each.
IsFold(f, S, base, step, pick) ==
  \A s \in SUBSET S :
    f[s] = IF s = {} THEN base ELSE step[<<f[s \ {pick[s]}], pick[s]>>]

\* There is such an f when the step is a function.
LEMMA FoldExists ==
  ASSUME NEW S, IsFiniteSet(S), NEW D, NEW base \in D, NEW step \in [D \X S -> D],
         NEW pick, \A s \in SUBSET S : s # {} => pick[s] \in s
  PROVE  \E f \in [SUBSET S -> D] : IsFold(f, S, base, step, pick)
<1> DEFINE Upto(k) == {s \in SUBSET S : Cardinality(s) <= k}
           Folds(f, k) ==
             \A s \in Upto(k) :
               f[s] = IF s = {} THEN base ELSE step[<<f[s \ {pick[s]}], pick[s]>>]
           T == {k \in Nat : \E f \in [Upto(k) -> D] : Folds(f, k)}
<1>1. \A s \in SUBSET S : Cardinality(s) \in Nat /\ Cardinality(s) <= Cardinality(S)
  BY FS_Subset, FS_CardinalityType
<1>2. Cardinality(S) \in Nat
  BY FS_CardinalityType
<1>3. \A s \in SUBSET S : s # {} =>
        /\ pick[s] \in s /\ s \ {pick[s]} \in SUBSET S
        /\ Cardinality(s \ {pick[s]}) = Cardinality(s) - 1
  BY FS_Subset, FS_RemoveElement
<1>4. 0 \in T
  <2>1. \A s \in Upto(0) : s = {}
    BY <1>1, FS_Subset, FS_EmptySet
  <2> DEFINE f == [s \in Upto(0) |-> base]
  <2>2. f \in [Upto(0) -> D] /\ Folds(f, 0)
    BY <2>1
  <2> QED
    BY <2>2
<1>5. ASSUME NEW k \in 1 .. Cardinality(S), k - 1 \in T  PROVE k \in T
  <2>1. PICK f \in [Upto(k - 1) -> D] : Folds(f, k - 1)
    BY <1>5
  <2> DEFINE g == [s \in Upto(k) |->
                     IF s = {} THEN base ELSE step[<<f[s \ {pick[s]}], pick[s]>>]]
  <2>2. \A s \in Upto(k) : s # {} => s \ {pick[s]} \in Upto(k - 1) /\ pick[s] \in S
    BY <1>1, <1>2, <1>3
  <2>3. g \in [Upto(k) -> D]
    <3> HIDE DEF Upto
    <3> QED
      BY <2>2
  <2>4. \A s \in Upto(k - 1) : s \in Upto(k) /\ g[s] = f[s]
    <3>1. \A s \in Upto(k - 1) : s \in Upto(k)
      BY <1>1, <1>2
    <3> HIDE DEF Upto
    <3> QED
      BY <2>1, <3>1
  <2>5. Folds(g, k)
    <3> HIDE DEF Upto
    <3> QED
      BY <2>2, <2>4
  <2>6. k \in Nat
    BY <1>2
  <2> HIDE DEF Upto, Folds, g
  <2> QED
    BY <2>3, <2>5, <2>6
<1>6. Cardinality(S) \in T
  <2> HIDE DEF T
  <2> QED
    BY <1>2, <1>4, <1>5, UpTo
<1>7. Upto(Cardinality(S)) = SUBSET S
  BY <1>1
<1> QED
  BY <1>6, <1>7 DEF IsFold

\* A folded sequence is passed from its first position to its last.
LEMMA MaxOfPositions ==
  ASSUME NEW N \in Nat
  PROVE  /\ \A s \in SUBSET (1 .. N) : s # {} => Max(s) \in s /\ \A i \in s : i <= Max(s)
         /\ \A k \in 1 .. N : Max(1 .. k) = k /\ (1 .. k) \ {k} = 1 .. k - 1
<1>1. ASSUME NEW s \in SUBSET (1 .. N), s # {}
      PROVE  Max(s) \in s /\ \A i \in s : i <= Max(s)
  <2> DEFINE K == {N - i : i \in s}
  <2>1. PICK i \in s : TRUE
    BY <1>1
  <2>2. K \in SUBSET Nat /\ N - i \in K
    OBVIOUS
  <2>3. PICK m \in K : \A j \in K : m <= j
    <3> HIDE DEF K
    <3> QED
      BY <2>2, LeastElement
  <2>4. PICK x \in s : m = N - x
    OBVIOUS
  <2>5. \A y \in s : x >= y
    <3> SUFFICES ASSUME NEW y \in s  PROVE x >= y
      OBVIOUS
    <3>1. N - x <= N - y
      BY <2>3, <2>4
    <3> QED
      BY <3>1
  <2> QED
    BY <2>5 DEF Max
<1>2. ASSUME NEW k \in 1 .. N  PROVE Max(1 .. k) = k /\ (1 .. k) \ {k} = 1 .. k - 1
  <2>1. 1 .. k \in SUBSET (1 .. N) /\ k \in 1 .. k
    OBVIOUS
  <2>2. Max(1 .. k) \in 1 .. k /\ k <= Max(1 .. k)
    BY <1>1, <2>1
  <2> QED
    BY <2>2
<1> QED
  BY <1>1, <1>2

\* A set of positions that holds every position before one it holds is a prefix.
LEMMA PrefixOfPositions ==
  ASSUME NEW N \in Nat, NEW K \in SUBSET (1 .. N),
         \A i \in 1 .. N, j \in K : i < j => i \in K
  PROVE  Cardinality(K) \in 0 .. N /\ K = 1 .. Cardinality(K)
<1>1. ASSUME K = {}  PROVE Cardinality(K) \in 0 .. N /\ K = 1 .. Cardinality(K)
  BY <1>1, FS_EmptySet
<1>2. ASSUME K # {}  PROVE Cardinality(K) \in 0 .. N /\ K = 1 .. Cardinality(K)
  <2>1. Max(K) \in K /\ \A i \in K : i <= Max(K)
    BY <1>2, MaxOfPositions
  <2>2. K = 1 .. Max(K)
    <3> DEFINE m == Max(K)
    <3>1. m \in K /\ \A i \in K : i <= m
      BY <2>1
    <3> HIDE DEF m
    <3>2. 1 .. m \subseteq K
      BY <3>1
    <3>3. K \subseteq 1 .. m
      BY <3>1
    <3>4. K = 1 .. m
      BY <3>2, <3>3, Zenon
    <3> QED
      BY <3>4 DEF m
  <2>3. Max(K) \in 1 .. N
    BY <2>1
  <2>4. Cardinality(1 .. Max(K)) = Max(K)
    BY <2>3, FS_Interval
  <2>5. Cardinality(K) = Max(K)
    BY <2>2, <2>4
  <2> QED
    BY <2>2, <2>3, <2>5
<1> QED
  BY <1>1, <1>2

-----------------------------------------------------------------------------
(* What a sequence holds *)

\* The empty sequence holds nothing.
LEMMA EmptyRange ==
  ToSet(<<>>) = {} /\ IsInjective(<<>>)
BY DEF ToSet, IsInjective

\* Append adds one element; a new one leaves no repetition.
LEMMA AppendRange ==
  ASSUME NEW S, NEW s \in Seq(S), NEW x \in S
  PROVE  /\ ToSet(Append(s, x)) = ToSet(s) \cup {x}
         /\ IsInjective(s) /\ x \notin ToSet(s) => IsInjective(Append(s, x))
<1>1. /\ DOMAIN s = 1 .. Len(s) /\ Len(s) \in Nat
      /\ DOMAIN Append(s, x) = 1 .. Len(s) + 1
      /\ \A i \in 1 .. Len(s) : Append(s, x)[i] = s[i]
      /\ Append(s, x)[Len(s) + 1] = x
  BY AppendProperties, LenProperties
<1>2. ToSet(Append(s, x)) \subseteq ToSet(s) \cup {x}
  BY <1>1 DEF ToSet
<1>3. ToSet(s) \cup {x} \subseteq ToSet(Append(s, x))
  BY <1>1 DEF ToSet
<1>4. ASSUME IsInjective(s), x \notin ToSet(s)  PROVE IsInjective(Append(s, x))
  BY <1>1, <1>4 DEF IsInjective, ToSet
<1> QED
  BY <1>2, <1>3, <1>4

\* A non-empty sequence holds its head and its tail, which are apart.
LEMMA HeadTailRange ==
  ASSUME NEW S, NEW s \in Seq(S), s # <<>>
  PROVE  /\ ToSet(s) = {Head(s)} \cup ToSet(Tail(s))
         /\ IsInjective(s) => IsInjective(Tail(s)) /\ Head(s) \notin ToSet(Tail(s))
<1>1. /\ DOMAIN s = 1 .. Len(s) /\ Len(s) \in Nat \ {0}
      /\ DOMAIN Tail(s) = 1 .. Len(s) - 1
      /\ \A i \in 1 .. Len(s) - 1 : Tail(s)[i] = s[i + 1]
      /\ Head(s) = s[1]
  <2>1. Tail(s) \in Seq(S) /\ Len(Tail(s)) = Len(s) - 1
    BY HeadTailProperties
  <2> QED
    BY <2>1, HeadTailProperties, LenProperties, EmptySeq
<1>2. ToSet(s) \subseteq {Head(s)} \cup ToSet(Tail(s))
  <2> SUFFICES ASSUME NEW i \in 1 .. Len(s), s[i] # Head(s)  PROVE s[i] \in ToSet(Tail(s))
    BY <1>1 DEF ToSet
  <2>1. i - 1 \in 1 .. Len(s) - 1 /\ Tail(s)[i - 1] = s[i]
    BY <1>1
  <2> QED
    BY <1>1, <2>1 DEF ToSet
<1>3. {Head(s)} \cup ToSet(Tail(s)) \subseteq ToSet(s)
  BY <1>1 DEF ToSet
<1>4. ASSUME IsInjective(s)  PROVE IsInjective(Tail(s)) /\ Head(s) \notin ToSet(Tail(s))
  <2>1. \A i \in 1 .. Len(s) - 1 : i + 1 \in DOMAIN s /\ i + 1 # 1
    BY <1>1
  <2>2. Head(s) \notin ToSet(Tail(s))
    BY <1>1, <1>4, <2>1 DEF IsInjective, ToSet
  <2>3. IsInjective(Tail(s))
    BY <1>1, <1>4, <2>1 DEF IsInjective
  <2> QED
    BY <2>2, <2>3
<1> QED
  BY <1>2, <1>3, <1>4

\* A concatenation holds what both parts hold.
LEMMA ConcatRange ==
  ASSUME NEW S, NEW s \in Seq(S), NEW t \in Seq(S)
  PROVE  s \o t \in Seq(S) /\ ToSet(s \o t) = ToSet(s) \cup ToSet(t)
<1>1. /\ s \o t \in Seq(S)
      /\ Len(s) \in Nat /\ Len(t) \in Nat
      /\ DOMAIN s = 1 .. Len(s) /\ DOMAIN t = 1 .. Len(t)
      /\ DOMAIN (s \o t) = 1 .. Len(s) + Len(t)
      /\ \A i \in 1 .. Len(s) + Len(t) :
           (s \o t)[i] = IF i <= Len(s) THEN s[i] ELSE t[i - Len(s)]
  BY ConcatProperties, LenProperties
<1>2. \A i \in 1 .. Len(s) + Len(t) : i > Len(s) => i - Len(s) \in 1 .. Len(t)
  BY <1>1
<1>3. ToSet(s \o t) \subseteq ToSet(s) \cup ToSet(t)
  BY <1>1, <1>2 DEF ToSet
<1>4. ToSet(s) \subseteq ToSet(s \o t)
  BY <1>1 DEF ToSet
<1>5. ASSUME NEW i \in 1 .. Len(t)  PROVE t[i] \in ToSet(s \o t)
  <2>1. Len(s) + i \in 1 .. Len(s) + Len(t) /\ (s \o t)[Len(s) + i] = t[i]
    BY <1>1
  <2> QED
    BY <1>1, <2>1 DEF ToSet
<1> QED
  BY <1>1, <1>3, <1>4, <1>5 DEF ToSet

\* An element is inserted before the one at its position.
LEMMA InsertAtProperties ==
  ASSUME NEW S, NEW s \in Seq(S), NEW p \in 1 .. Len(s) + 1, NEW x \in S
  PROVE  /\ InsertAt(s, p, x) \in Seq(S)
         /\ Len(InsertAt(s, p, x)) = Len(s) + 1
         /\ \A i \in 1 .. Len(s) + 1 :
              InsertAt(s, p, x)[i] = IF i < p THEN s[i] ELSE IF i = p THEN x ELSE s[i - 1]
<1> DEFINE a == SubSeq(s, 1, p - 1)
           b == SubSeq(s, p, Len(s))
<1>1. Len(s) \in Nat /\ \A i \in 1 .. Len(s) : s[i] \in S
  BY LenProperties, ElementOfSeq
<1>2. a \in Seq(S) /\ Len(a) = p - 1 /\ \A i \in 1 .. p - 1 : a[i] = s[i]
  <2>1. \A i \in 1 .. p - 1 : s[i] \in S
    BY <1>1
  <2>2. /\ a \in Seq(S) /\ Len(a) = IF 1 <= p - 1 THEN p - 1 - 1 + 1 ELSE 0
        /\ \A i \in 1 .. p - 1 - 1 + 1 : a[i] = s[1 + i - 1]
    BY <1>1, <2>1, SubSeqProperties
  <2> HIDE DEF a
  <2> QED
    BY <1>1, <2>2
<1>3. b \in Seq(S) /\ Len(b) = Len(s) - p + 1 /\ \A i \in 1 .. Len(s) - p + 1 : b[i] = s[p + i - 1]
  <2>1. \A i \in p .. Len(s) : s[i] \in S
    BY <1>1
  <2>2. /\ b \in Seq(S) /\ Len(b) = IF p <= Len(s) THEN Len(s) - p + 1 ELSE 0
        /\ \A i \in 1 .. Len(s) - p + 1 : b[i] = s[p + i - 1]
    BY <1>1, <2>1, SubSeqProperties
  <2> HIDE DEF b
  <2> QED
    BY <1>1, <2>2
<1>4. <<x>> \in Seq(S) /\ Len(<<x>>) = 1 /\ <<x>>[1] = x
  OBVIOUS
<1> HIDE DEF a, b
<1>5. /\ a \o <<x>> \in Seq(S) /\ Len(a \o <<x>>) = p
      /\ \A i \in 1 .. p : (a \o <<x>>)[i] = IF i < p THEN s[i] ELSE x
  <2>1. /\ a \o <<x>> \in Seq(S) /\ Len(a \o <<x>>) = Len(a) + Len(<<x>>)
        /\ \A i \in 1 .. Len(a) + Len(<<x>>) :
             (a \o <<x>>)[i] = IF i <= Len(a) THEN a[i] ELSE <<x>>[i - Len(a)]
    BY <1>2, <1>4, ConcatProperties
  <2> QED
    BY <1>1, <1>2, <1>4, <2>1
<1> DEFINE c == a \o <<x>>
<1>6. InsertAt(s, p, x) = c \o b
  BY DEF InsertAt, a, b
<1> HIDE DEF c
<1>7. c \in Seq(S) /\ Len(c) = p /\ \A i \in 1 .. p : c[i] = IF i < p THEN s[i] ELSE x
  BY <1>5 DEF c
<1>8. /\ c \o b \in Seq(S) /\ Len(c \o b) = Len(c) + Len(b)
      /\ \A i \in 1 .. Len(c) + Len(b) : (c \o b)[i] = IF i <= Len(c) THEN c[i] ELSE b[i - Len(c)]
  BY <1>3, <1>7, ConcatProperties
<1>9. Len(c) + Len(b) = Len(s) + 1
  BY <1>1, <1>3, <1>7
<1>10. ASSUME NEW i \in 1 .. Len(s) + 1, i > p  PROVE (c \o b)[i] = s[i - 1]
  <2>1. i - p \in 1 .. Len(s) - p + 1 /\ p + (i - p) - 1 = i - 1
    BY <1>1, <1>10
  <2>2. b[i - p] = s[p + (i - p) - 1]
    BY <1>3, <2>1
  <2>3. (c \o b)[i] = b[i - p]
    BY <1>1, <1>7, <1>8, <1>9, <1>10
  <2> QED
    BY <2>1, <2>2, <2>3
<1>11. ASSUME NEW i \in 1 .. Len(s) + 1, i <= p  PROVE (c \o b)[i] = IF i < p THEN s[i] ELSE x
  BY <1>1, <1>7, <1>8, <1>9, <1>11
<1> QED
  BY <1>1, <1>6, <1>8, <1>9, <1>10, <1>11

\* A sequence without repetitions holds as many elements as it is long.
LEMMA InjectiveRange ==
  ASSUME NEW S, NEW s \in Seq(S), IsInjective(s)
  PROVE  IsFiniteSet(ToSet(s)) /\ Cardinality(ToSet(s)) = Len(s)
<1>1. Len(s) \in Nat /\ DOMAIN s = 1 .. Len(s)
  BY LenProperties
<1>2. s \in Bijection(1 .. Len(s), ToSet(s))
  <2>1. s \in [1 .. Len(s) -> ToSet(s)]
    BY <1>1, LenProperties DEF ToSet
  <2>2. \A i, j \in 1 .. Len(s) : s[i] = s[j] => i = j
    BY <1>1 DEF IsInjective
  <2>3. \A x \in ToSet(s) : \E i \in 1 .. Len(s) : s[i] = x
    BY <1>1 DEF ToSet
  <2> QED
    BY <2>1, <2>2, <2>3 DEF Bijection, Injection, Surjection
<1>3. ExistsBijection(1 .. Len(s), ToSet(s))
  BY <1>2 DEF ExistsBijection
<1>4. IsFiniteSet(1 .. Len(s)) /\ Cardinality(1 .. Len(s)) = Len(s)
  BY <1>1, FS_Interval
<1> QED
  BY <1>3, <1>4, FS_Bijection

-----------------------------------------------------------------------------
(* Flattening *)

\* FlattenSeq joins the sequences from the first to the last.
Joins(f, seqs) ==
  /\ f[1] = seqs[1]
  /\ \A i \in 2 .. Len(seqs) : f[i] = f[i - 1] \o seqs[i]

LEMMA FlattenJoins ==
  ASSUME NEW A, NEW seqs \in Seq(Seq(A)), Len(seqs) # 0
  PROVE  \E f \in [1 .. Len(seqs) -> Seq(A)] :
           f[Len(seqs)] = FlattenSeq(seqs) /\ Joins(f, seqs)
<1> DEFINE N == Len(seqs)
           Step(f, i) == IF i = 1 THEN seqs[i] ELSE f[i - 1] \o seqs[i]
           Flattens(f) == f = [i \in 1 .. N |-> Step(f, i)]
           flatten == CHOOSE f : Flattens(f)
           Upto(f, k) == \A i \in 1 .. k : f[i] = Step(f, i)
           T == {k \in 0 .. N : \E f \in [1 .. k -> Seq(A)] : Upto(f, k)}
<1>1. N \in Nat /\ N \in 1 .. N /\ \A i \in 1 .. N : seqs[i] \in Seq(A)
  BY LenProperties, ElementOfSeq
<1>2. FlattenSeq(seqs) = flatten[N]
  BY DEF FlattenSeq
<1> HIDE DEF N
<1>3. 0 \in T
  <2>1. 0 \in 0 .. N
    BY <1>1
  <2>2. \A i \in 1 .. 0 : FALSE
    OBVIOUS
  <2>3. [i \in 1 .. 0 |-> <<>>] \in [1 .. 0 -> Seq(A)]
    BY <2>2
  <2>4. \E f \in [1 .. 0 -> Seq(A)] : Upto(f, 0)
    BY <2>2, <2>3
  <2> QED
    BY <2>1, <2>4
<1>4. ASSUME NEW k \in 1 .. N, k - 1 \in T  PROVE k \in T
  <2>1. PICK f \in [1 .. k - 1 -> Seq(A)] : Upto(f, k - 1)
    BY <1>4
  <2> DEFINE g == [i \in 1 .. k |-> IF i = k THEN Step(f, k) ELSE f[i]]
  <2>2. seqs[k] \in Seq(A)
    BY <1>1
  <2>3. Step(f, k) \in Seq(A)
    <3>1. CASE k = 1
      BY <2>2, <3>1
    <3>2. CASE k # 1
      <4>1. f[k - 1] \in Seq(A)
        BY <3>2
      <4>2. f[k - 1] \o seqs[k] \in Seq(A)
        BY <2>2, <4>1, ConcatProperties
      <4> QED
        BY <3>2, <4>2
    <3> QED
      BY <3>1, <3>2
  <2>4. g \in [1 .. k -> Seq(A)]
    <3>1. \A i \in 1 .. k : i # k => f[i] \in Seq(A)
      OBVIOUS
    <3> HIDE DEF Step
    <3> QED
      BY <2>3, <3>1
  <2>5. \A i \in 1 .. k - 1 : g[i] = f[i]
    <3>1. \A i \in 1 .. k - 1 : i \in 1 .. k /\ i # k
      OBVIOUS
    <3> HIDE DEF Step
    <3> QED
      BY <3>1
  <2>6. g[k] = Step(f, k)
    OBVIOUS
  <2> HIDE DEF g
  <2>7. ASSUME NEW i \in 1 .. k  PROVE g[i] = Step(g, i)
    <3>1. i # 1 => g[i - 1] = f[i - 1]
      BY <2>5
    <3>2. Step(g, i) = Step(f, i)
      BY <3>1
    <3>3. CASE i = k
      BY <2>6, <3>2, <3>3
    <3>4. CASE i # k
      <4>1. i \in 1 .. k - 1
        BY <3>4
      <4>2. f[i] = Step(f, i)
        BY <2>1, <4>1
      <4> QED
        BY <2>5, <3>2, <4>1, <4>2
    <3> QED
      BY <3>3, <3>4
  <2>8. k \in 0 .. N /\ Upto(g, k)
    BY <1>1, <2>7
  <2> HIDE DEF Upto
  <2> QED
    BY <2>4, <2>8
<1>5. N \in T
  <2>1. N \in 0 .. N
    BY <1>1
  <2> HIDE DEF T
  <2> QED
    BY <1>1, <1>3, <1>4, <2>1, UpTo
<1>6. PICK f \in [1 .. N -> Seq(A)] : Upto(f, N)
  BY <1>5
<1>7. Flattens(f)
  BY <1>6
<1>8. Flattens(flatten)
  BY <1>7
<1> HIDE DEF flatten
<1>9. \A i \in 1 .. N : flatten[i] = Step(flatten, i)
  BY <1>8
<1>10. flatten \in [1 .. N -> Seq(A)]
  <2> DEFINE U == {k \in 0 .. N : k # 0 => flatten[k] \in Seq(A)}
  <2>1. 0 \in U
    BY <1>1
  <2>2. ASSUME NEW k \in 1 .. N, k - 1 \in U  PROVE k \in U
    <3>1. seqs[k] \in Seq(A) /\ k \in 0 .. N
      BY <1>1
    <3>2. CASE k = 1
      BY <1>9, <3>1, <3>2
    <3>3. CASE k # 1
      <4>1. flatten[k - 1] \in Seq(A)
        BY <2>2, <3>3
      <4>2. flatten[k - 1] \o seqs[k] \in Seq(A)
        BY <3>1, <4>1, ConcatProperties
      <4> QED
        BY <1>9, <3>1, <3>3, <4>2
    <3> QED
      BY <3>2, <3>3
  <2> HIDE DEF U
  <2>3. \A k \in 0 .. N : k \in U
    BY <1>1, <2>1, <2>2, UpTo
  <2>4. \A k \in 1 .. N : flatten[k] \in Seq(A)
    BY <2>3 DEF U
  <2>5. flatten = [i \in 1 .. N |-> flatten[i]]
    BY <1>8
  <2> QED
    BY <2>4, <2>5
<1>11. Joins(flatten, seqs)
  <2>1. flatten[1] = seqs[1]
    BY <1>1, <1>9
  <2>2. ASSUME NEW i \in 2 .. N  PROVE flatten[i] = flatten[i - 1] \o seqs[i]
    <3>1. i \in 1 .. N /\ i # 1
      OBVIOUS
    <3> QED
      BY <1>9, <3>1, Zenon
  <2> QED
    BY <2>1, <2>2, Zenon DEF Joins, N
<1> QED
  BY <1>2, <1>10, <1>11 DEF N

\* One sequence more.
LEMMA FlattenAppend ==
  ASSUME NEW A, NEW seqs \in Seq(Seq(A)), NEW s \in Seq(A)
  PROVE  /\ FlattenSeq(seqs) \in Seq(A)
         /\ FlattenSeq(Append(seqs, s)) = FlattenSeq(seqs) \o s
<1> DEFINE N == Len(seqs)
           more == Append(seqs, s)
<1>1. /\ N \in Nat /\ more \in Seq(Seq(A)) /\ Len(more) = N + 1
      /\ \A i \in 1 .. N : more[i] = seqs[i]
      /\ more[N + 1] = s
  BY LenProperties, AppendProperties
<1> HIDE DEF more
<1>2. PICK g \in [1 .. N + 1 -> Seq(A)] : g[N + 1] = FlattenSeq(more) /\ Joins(g, more)
  BY <1>1, FlattenJoins
<1>3. CASE N = 0
  <2>1. seqs = <<>> /\ FlattenSeq(seqs) = <<>>
    BY <1>3, EmptySeq DEF FlattenSeq
  <2>2. FlattenSeq(more) = s
    BY <1>1, <1>2, <1>3 DEF Joins
  <2> QED
    BY <2>1, <2>2, ConcatEmptySeq, EmptySeq DEF more
<1>4. CASE N # 0
  <2>1. PICK f \in [1 .. N -> Seq(A)] : f[N] = FlattenSeq(seqs) /\ Joins(f, seqs)
    BY <1>4, FlattenJoins
  <2> DEFINE T == {k \in 0 .. N : k # 0 => g[k] = f[k]}
  <2>2. 0 \in T
    BY <1>1
  <2>3. ASSUME NEW k \in 1 .. N, k - 1 \in T  PROVE k \in T
    <3>1. CASE k = 1
      BY <1>1, <1>2, <2>1, <3>1 DEF Joins
    <3>2. CASE k # 1
      <4>1. g[k - 1] = f[k - 1] /\ more[k] = seqs[k]
        BY <1>1, <2>3, <3>2
      <4>2. k \in 2 .. Len(seqs) /\ k \in 2 .. Len(more) /\ k \in 0 .. N
        BY <1>1, <3>2
      <4>3. f[k] = f[k - 1] \o seqs[k]
        BY <2>1, <4>2, Zenon DEF Joins
      <4>4. g[k] = g[k - 1] \o more[k]
        BY <1>2, <4>2, Zenon DEF Joins
      <4>5. g[k] = f[k]
        BY <4>1, <4>3, <4>4, Zenon
      <4> QED
        BY <4>2, <4>5
    <3> QED
      BY <3>1, <3>2
  <2>4. N \in T
    <3>1. N \in 0 .. N
      BY <1>1
    <3> HIDE DEF T, N
    <3> QED
      BY <1>1, <2>2, <2>3, <3>1, UpTo
  <2>5. g[N] = f[N] /\ f[N] \in Seq(A)
    BY <1>1, <1>4, <2>4
  <2>6. g[N + 1] = g[N] \o s
    <3>1. PICK m \in 2 .. Len(more) : m = N + 1 /\ m - 1 = N
      BY <1>1, <1>4
    <3> HIDE DEF N
    <3>2. g[m] = g[m - 1] \o more[m]
      BY <1>2, <3>1, Zenon DEF Joins
    <3> QED
      BY <1>1, <3>1, <3>2, Zenon
  <2> QED
    BY <1>2, <2>1, <2>5, <2>6 DEF more
<1> QED
  BY <1>3, <1>4

-----------------------------------------------------------------------------
(* Sums *)

\* The sum of f over a set.
SumOver(f, S) == MapThenSumSet(LAMBDA y : f[y], S)

\* The sums over the subsets of S: each adds the value at an element, the same
\* one for every function, to the sum over the others.
First(s) == CHOOSE x \in s : TRUE
ArePartialSums(g, f, S) ==
  \A s \in SUBSET S : g[s] = IF s = {} THEN 0 ELSE f[First(s)] + g[s \ {First(s)}]

\* The subsets of a finite set, by size.
LEMMA SubsetSizes ==
  ASSUME NEW S, IsFiniteSet(S)
  PROVE  /\ Cardinality(S) \in Nat
         /\ \A s \in SUBSET S :
              /\ IsFiniteSet(s) /\ Cardinality(s) \in 0 .. Cardinality(S)
              /\ Cardinality(s) = 0 <=> s = {}
              /\ s # {} => /\ First(s) \in s /\ First(s) \in S
                          /\ s \ {First(s)} \in SUBSET S
                          /\ Cardinality(s \ {First(s)}) = Cardinality(s) - 1
<1>1. Cardinality(S) \in Nat
  BY FS_CardinalityType
<1> SUFFICES ASSUME NEW s \in SUBSET S
             PROVE  /\ IsFiniteSet(s) /\ Cardinality(s) \in 0 .. Cardinality(S)
                    /\ Cardinality(s) = 0 <=> s = {}
                    /\ s # {} => /\ First(s) \in s /\ First(s) \in S
                                /\ s \ {First(s)} \in SUBSET S
                                /\ Cardinality(s \ {First(s)}) = Cardinality(s) - 1
  BY <1>1
<1>2. IsFiniteSet(s) /\ Cardinality(s) <= Cardinality(S)
  BY FS_Subset
<1>3. Cardinality(s) \in Nat /\ (Cardinality(s) = 0 <=> s = {})
  BY <1>2, FS_CardinalityType, FS_EmptySet
<1>4. s # {} => First(s) \in s
  BY DEF First
<1> HIDE DEF First
<1>5. s # {} => Cardinality(s \ {First(s)}) = Cardinality(s) - 1
  BY <1>2, <1>4, FS_RemoveElement
<1> QED
  BY <1>1, <1>2, <1>3, <1>4, <1>5

\* The sum is the last of them.
LEMMA PartialSums ==
  ASSUME NEW S, IsFiniteSet(S), NEW f, \A x \in S : f[x] \in Nat
  PROVE  \E g \in [SUBSET S -> Nat] :
           g[S] = SumOver(f, S) /\ ArePartialSums(g, f, S)
<1> DEFINE pick == [s \in SUBSET S |-> First(s)]
           step == [x \in Nat \X S |-> f[x[2]] + x[1]]
           Sums(g) ==
             g = [s \in SUBSET S |-> IF s = {} THEN 0 ELSE f[First(s)] + g[s \ {First(s)}]]
           iter == CHOOSE g : Sums(g)
<1>1. SumOver(f, S) = iter[S]
  BY DEF SumOver, MapThenSumSet, MapThenFoldSet, First
<1>2. \A s \in SUBSET S : s # {} => First(s) \in s /\ pick[s] = First(s)
  BY SubsetSizes
<1>3. step \in [Nat \X S -> Nat]
  OBVIOUS
<1>4. PICK g \in [SUBSET S -> Nat] : IsFold(g, S, 0, step, pick)
  <2>1. \A s \in SUBSET S : s # {} => pick[s] \in s
    BY <1>2
  <2> HIDE DEF pick, step
  <2> QED
    BY <1>3, <2>1, FoldExists
<1>5. Sums(g)
  <2>1. ASSUME NEW s \in SUBSET S, s # {}
        PROVE  g[s] = f[First(s)] + g[s \ {First(s)}]
    <3>1. g[s \ {First(s)}] \in Nat /\ pick[s] = First(s) /\ First(s) \in S
      BY <1>2, <2>1
    <3>2. g[s] = step[<<g[s \ {First(s)}], First(s)>>]
      BY <1>4, <2>1, <3>1 DEF IsFold
    <3>3. <<g[s \ {First(s)}], First(s)>> \in Nat \X S
      BY <3>1
    <3> QED
      BY <3>2, <3>3
  <2> QED
    BY <1>4, <2>1 DEF IsFold
<1>6. Sums(iter)
  BY <1>5
<1> HIDE DEF iter
<1>7. \A s \in SUBSET S :
        iter[s] = IF s = {} THEN 0 ELSE f[First(s)] + iter[s \ {First(s)}]
  BY <1>6
<1>8. iter \in [SUBSET S -> Nat]
  <2> DEFINE T == {n \in 0 .. Cardinality(S) :
                     \A s \in SUBSET S : Cardinality(s) = n => iter[s] \in Nat}
  <2>1. 0 \in T
    <3>1. \A s \in SUBSET S : Cardinality(s) = 0 => s = {}
      BY SubsetSizes
    <3>2. iter[{}] \in Nat
      BY <1>7
    <3>3. 0 \in 0 .. Cardinality(S)
      BY SubsetSizes
    <3>4. \A s \in SUBSET S : Cardinality(s) = 0 => iter[s] \in Nat
      BY <3>1, <3>2, Zenon
    <3> QED
      BY <3>3, <3>4
  <2>2. ASSUME NEW n \in 1 .. Cardinality(S), n - 1 \in T  PROVE n \in T
    <3> SUFFICES ASSUME NEW s \in SUBSET S, Cardinality(s) = n  PROVE iter[s] \in Nat
      BY SubsetSizes
    <3>1. /\ s # {} /\ First(s) \in S /\ s \ {First(s)} \in SUBSET S
          /\ Cardinality(s \ {First(s)}) = n - 1
      BY SubsetSizes
    <3>2. iter[s \ {First(s)}] \in Nat /\ f[First(s)] \in Nat
      BY <2>2, <3>1
    <3>3. iter[s] = f[First(s)] + iter[s \ {First(s)}]
      BY <1>7, <3>1
    <3> QED
      BY <3>2, <3>3
  <2>3. \A n \in 0 .. Cardinality(S) : n \in T
    <3> HIDE DEF T
    <3> QED
      BY <2>1, <2>2, SubsetSizes, UpTo
  <2>4. \A s \in SUBSET S : iter[s] \in Nat
    BY <2>3, SubsetSizes
  <2>5. iter = [s \in SUBSET S |-> iter[s]]
    BY <1>6
  <2> QED
    BY <2>4, <2>5
<1> QED
  BY <1>1, <1>7, <1>8 DEF ArePartialSums

\* Sums of two functions that differ in at most one place, by d.
LEMMA SumChange ==
  ASSUME NEW S, IsFiniteSet(S), NEW f, \A x \in S : f[x] \in Nat,
         NEW h, \A x \in S : h[x] \in Nat, NEW p, NEW d \in Int,
         \A x \in S : h[x] = IF x = p THEN f[x] + d ELSE f[x]
  PROVE  /\ SumOver(f, S) \in Nat
         /\ SumOver(h, S) = IF p \in S THEN SumOver(f, S) + d ELSE SumOver(f, S)
<1>1. PICK g \in [SUBSET S -> Nat] : g[S] = SumOver(f, S) /\ ArePartialSums(g, f, S)
  BY PartialSums
<1>2. PICK k \in [SUBSET S -> Nat] : k[S] = SumOver(h, S) /\ ArePartialSums(k, h, S)
  BY PartialSums
<1> DEFINE Holds(s) == k[s] = IF p \in s THEN g[s] + d ELSE g[s]
           T == {n \in 0 .. Cardinality(S) : \A s \in SUBSET S : Cardinality(s) = n => Holds(s)}
<1>3. Cardinality(S) \in Nat
  BY SubsetSizes
<1>4. 0 \in T
  <2>1. \A s \in SUBSET S : Cardinality(s) = 0 => s = {}
    BY SubsetSizes
  <2>2. Holds({})
    BY <1>1, <1>2 DEF ArePartialSums
  <2>3. 0 \in 0 .. Cardinality(S)
    BY <1>3
  <2> HIDE DEF Holds
  <2>4. \A s \in SUBSET S : Cardinality(s) = 0 => Holds(s)
    BY <2>1, <2>2, Zenon
  <2> QED
    BY <2>3, <2>4
<1>5. ASSUME NEW n \in 1 .. Cardinality(S), n - 1 \in T  PROVE n \in T
  <2> SUFFICES ASSUME NEW s \in SUBSET S, Cardinality(s) = n  PROVE Holds(s)
    BY <1>3
  <2> DEFINE x == First(s)
             t == s \ {First(s)}
  <2>1. s # {} /\ x \in s /\ x \in S /\ t \in SUBSET S /\ Cardinality(t) = n - 1
    BY SubsetSizes
  <2>2. Holds(t)
    BY <1>5, <2>1
  <2>3. g[s] = f[x] + g[t] /\ k[s] = h[x] + k[t]
    BY <1>1, <1>2, <2>1 DEF ArePartialSums
  <2>4. (p \in s <=> p = x \/ p \in t) /\ x \notin t
    BY <2>1
  <2>5. /\ f[x] \in Nat /\ g[t] \in Nat /\ k[t] \in Nat
        /\ h[x] = IF x = p THEN f[x] + d ELSE f[x]
    BY <2>1
  <2> HIDE DEF x, t
  <2> QED
    BY <2>2, <2>3, <2>4, <2>5
<1>6. Cardinality(S) \in T
  <2>1. Cardinality(S) \in 0 .. Cardinality(S)
    BY <1>3
  <2> HIDE DEF T
  <2> QED
    BY <1>3, <1>4, <1>5, <2>1, UpTo
<1> QED
  BY <1>1, <1>2, <1>6

\* The sum of nothing but zeros.
LEMMA SumOfZeros ==
  ASSUME NEW S, IsFiniteSet(S), NEW f, \A x \in S : f[x] = 0
  PROVE  SumOver(f, S) = 0
<1>1. PICK g \in [SUBSET S -> Nat] : g[S] = SumOver(f, S) /\ ArePartialSums(g, f, S)
  <2>1. \A x \in S : f[x] \in Nat
    OBVIOUS
  <2> QED
    BY <2>1, PartialSums
<1> DEFINE T == {n \in 0 .. Cardinality(S) : \A s \in SUBSET S : Cardinality(s) = n => g[s] = 0}
<1>2. Cardinality(S) \in Nat
  BY SubsetSizes
<1>3. 0 \in T
  <2>1. \A s \in SUBSET S : Cardinality(s) = 0 => s = {}
    BY SubsetSizes
  <2>2. g[{}] = 0
    BY <1>1 DEF ArePartialSums
  <2> QED
    BY <1>2, <2>1, <2>2
<1>4. ASSUME NEW n \in 1 .. Cardinality(S), n - 1 \in T  PROVE n \in T
  <2> SUFFICES ASSUME NEW s \in SUBSET S, Cardinality(s) = n  PROVE g[s] = 0
    BY <1>2
  <2>1. /\ s # {} /\ First(s) \in S /\ s \ {First(s)} \in SUBSET S
        /\ Cardinality(s \ {First(s)}) = n - 1
    BY SubsetSizes
  <2>2. g[s \ {First(s)}] = 0 /\ f[First(s)] = 0
    BY <1>4, <2>1
  <2>3. g[s] = f[First(s)] + g[s \ {First(s)}]
    BY <1>1, <2>1 DEF ArePartialSums
  <2> QED
    BY <2>2, <2>3
<1>5. Cardinality(S) \in T
  <2>1. Cardinality(S) \in 0 .. Cardinality(S)
    BY <1>2
  <2> HIDE DEF T
  <2> QED
    BY <1>2, <1>3, <1>4, <2>1, UpTo
<1> QED
  BY <1>1, <1>5
=============================================================================
