-------------------------- MODULE TimedEventProofs --------------------------
(***************************************************************************)
(* Proofs about TimedEvent, for any events and any number of starts: no    *)
(* deadline is lost, goroutines that can fire a deadline early are never   *)
(* more than late aborts, and the goroutines implement Deadlines.          *)
(***************************************************************************)
EXTENDS TimedEvent, FiniteSetTheorems, TLAPS

Entries == [Keys -> 0 .. MaxStarts]

-----------------------------------------------------------------------------
(* The entries a handler leaves *)

\* The entries that a handler leaves of map.
Left(map, aborted, started) ==
  [k \in Keys |-> IF k \in started THEN starts[k] + 1
                  ELSE IF k \in aborted THEN 0 ELSE map[k]]

\* What a handler does, without the intermediate function.
LEMMA HandlerEffect ==
  ASSUME TypeOK, NEW map \in Entries,
         NEW aborted \in SUBSET Keys, NEW started \in SUBSET Keys,
         Handler(map, aborted, started)
  PROVE  /\ timeoutTimers' = Left(map, aborted, started)
         /\ timeoutTimers' \in Entries
         /\ starts' \in Entries
         /\ \A k \in started : <<k, timeoutTimers'[k]>> \in running'
         /\ running \ TimersOf(map, aborted) \subseteq running'
         /\ running' \subseteq Timers
         /\ late' \subseteq Timers
         /\ asked' = <<aborted, started>>
<1> USE MaxStartsAssumption
<1> DEFINE next == [k \in Keys |-> IF k \in started THEN starts[k] + 1 ELSE starts[k]]
<1>1. /\ \A k \in started : starts[k] < MaxStarts
      /\ starts' = next
      /\ timeoutTimers' = [k \in Keys |-> IF k \in started THEN next[k]
                                          ELSE IF k \in aborted THEN 0
                                          ELSE map[k]]
      /\ running' = (running \ TimersOf(map, aborted)) \cup TimersOf(next, started)
      /\ late' = late \cup (TimersOf(map, aborted) \cap waiting)
      /\ asked' = <<aborted, started>>
  BY DEF Handler, Stopped
<1>2. starts \in Entries /\ running \subseteq Timers /\ waiting \subseteq Timers /\ late \subseteq Timers
  BY DEF TypeOK, Entries
<1>3. next \in Entries /\ \A k \in started : next[k] = starts[k] + 1 /\ next[k] \in 1 .. MaxStarts
  BY <1>1, <1>2 DEF Entries
<1>4. timeoutTimers' = Left(map, aborted, started)
  BY <1>1 DEF Left
<1>5. \A k \in Keys : timeoutTimers'[k] = IF k \in started THEN next[k]
                                          ELSE IF k \in aborted THEN 0 ELSE map[k]
  BY <1>1
<1>6. timeoutTimers' \in Entries
  BY <1>1, <1>3 DEF Entries
<1> HIDE DEF next
<1>7. TimersOf(next, started) \subseteq Timers
  BY <1>3 DEF TimersOf, Timers, Armed
<1>8. \A k \in started : <<k, timeoutTimers'[k]>> \in TimersOf(next, started)
  <2> TAKE k \in started
  <2>1. timeoutTimers'[k] = next[k] /\ next[k] # 0
    BY <1>3, <1>5
  <2> QED BY <2>1 DEF TimersOf, Armed
<1> QED BY <1>1, <1>2, <1>3, <1>4, <1>6, <1>7, <1>8

\* Every armed deadline has its timer running, or waiting in W, after a
\* handler if it had before.
LEMMA HandlerKeepsAlive ==
  ASSUME TypeOK, NEW map \in Entries, NEW W,
         NEW aborted \in SUBSET Keys, NEW started \in SUBSET Keys,
         Handler(map, aborted, started),
         TimersOf(map, Keys) \subseteq running \cup W
  PROVE  TimersOf(timeoutTimers, Keys)' \subseteq running' \cup W
<1> SUFFICES ASSUME NEW k \in Keys, timeoutTimers'[k] # 0
             PROVE  <<k, timeoutTimers'[k]>> \in running' \cup W
  BY DEF TimersOf, Armed
<1>1. CASE k \in started
  BY <1>1, HandlerEffect
<1>2. CASE k \notin started
  <2>1. timeoutTimers'[k] = map[k] /\ k \notin aborted /\ map[k] # 0
    BY <1>2, HandlerEffect DEF Left
  <2>2. <<k, map[k]>> \in running \cup W
    BY <2>1 DEF TimersOf, Armed
  <2>3. <<k, map[k]>> \notin TimersOf(map, aborted)
    BY <2>1 DEF TimersOf
  <2> QED BY <2>1, <2>2, <2>3, HandlerEffect
<1> QED BY <1>1, <1>2

\* The deadlines that are armed after a handler.
LEMMA HandlerArms ==
  ASSUME TypeOK, NEW map \in Entries,
         NEW aborted \in SUBSET Keys, NEW started \in SUBSET Keys,
         Handler(map, aborted, started)
  PROVE  Armed(timeoutTimers)' = (Armed(map) \ aborted) \cup started
<1>1. timeoutTimers' = Left(map, aborted, started)
  BY HandlerEffect
<1>2. \A k \in Keys : starts[k] + 1 # 0
  BY MaxStartsAssumption DEF TypeOK
<1> QED BY <1>1, <1>2 DEF Armed, Left

\* The entries without that of k, whose event is handled.
LEMMA EntryTaken ==
  ASSUME TypeOK, NEW k \in Keys
  PROVE  LET map == Removed(k)
         IN  /\ map \in Entries
             /\ \A j \in Keys : map[j] = IF j = k THEN 0 ELSE timeoutTimers[j]
             /\ Armed(map) = Armed(timeoutTimers) \ {k}
             /\ TimersOf(map, Keys) = TimersOf(timeoutTimers, Keys \ {k})
<1> DEFINE map == Removed(k)
<1>1. timeoutTimers \in Entries
  BY DEF TypeOK, Entries
<1>2. map \in Entries /\ \A j \in Keys : map[j] = IF j = k THEN 0 ELSE timeoutTimers[j]
  BY <1>1, MaxStartsAssumption DEF Entries, Removed
<1> HIDE DEF map
<1>3. Armed(map) = Armed(timeoutTimers) \ {k}
  BY <1>2 DEF Armed
<1>4. TimersOf(map, Keys) = TimersOf(timeoutTimers, Keys \ {k})
  BY <1>2, <1>3 DEF TimersOf, Armed
<1> QED BY <1>2, <1>3, <1>4 DEF map

-----------------------------------------------------------------------------
(* Types, and that no deadline is lost *)

TimersInv == TypeOK /\ ArmedAlive

LEMMA TimersInvStep ==
  ASSUME TimersInv, [Next]_vars
  PROVE  TimersInv'
<1>0. /\ TypeOK /\ ArmedAlive
      /\ timeoutTimers \in Entries
  BY DEF TimersInv, TypeOK, Entries
<1>1. ASSUME NEW aborted \in SUBSET Keys, NEW started \in SUBSET Keys, Other(aborted, started)
      PROVE  TimersInv'
  <2>1. Handler(timeoutTimers, aborted, started) /\ handled' = NoKey /\ waiting' = waiting
    BY <1>1 DEF Other
  <2>4. asked' \in (SUBSET Keys) \X (SUBSET Keys)
    <3>1. asked' = <<aborted, started>>
      BY <2>1 DEF Handler
    <3> QED BY <3>1
  <2>2. TypeOK'
    BY <1>0, <2>1, <2>4, HandlerEffect DEF TypeOK, Entries
  <2>3. ArmedAlive'
    BY <1>0, <2>1, HandlerKeepsAlive DEF ArmedAlive
  <2> QED BY <2>2, <2>3 DEF TimersInv
<1>2. ASSUME NEW t \in Timers, Expire(t)
      PROVE  TimersInv'
  <2>1. /\ running' = running \ {t} /\ waiting' = waiting \cup {t}
        /\ handled' = NoKey /\ asked' = <<{}, {}>>
        /\ UNCHANGED <<starts, timeoutTimers, late>>
    BY <1>2 DEF Expire
  <2>2. TypeOK'
    BY <1>0, <1>2, <2>1 DEF TypeOK
  <2>3. ArmedAlive'
    BY <1>0, <2>1 DEF ArmedAlive, TimersOf, Armed
  <2> QED BY <2>2, <2>3 DEF TimersInv
<1>3. ASSUME NEW t \in Timers, NEW aborted \in SUBSET Keys, NEW started \in SUBSET Keys,
             Deliver(t, aborted, started)
      PROVE  TimersInv'
  <2> DEFINE map == Removed(t[1])
  <2>1. t[1] \in Keys
    BY DEF Timers
  <2>2. /\ map \in Entries
        /\ TimersOf(map, Keys) = TimersOf(timeoutTimers, Keys \ {t[1]})
    BY <1>0, <2>1, EntryTaken
  <2>3. /\ Handler(map, aborted, started)
        /\ waiting' = waiting \ {t} /\ handled' = t[1]
    BY <1>3 DEF Deliver
  <2> HIDE DEF map
  <2>7. asked' \in (SUBSET Keys) \X (SUBSET Keys)
    <3>1. asked' = <<aborted, started>>
      BY <2>3 DEF Handler
    <3> QED BY <3>1
  <2>4. TypeOK'
    BY <1>0, <2>1, <2>2, <2>3, <2>7, HandlerEffect DEF TypeOK, Entries
  <2>5. TimersOf(map, Keys) \subseteq running \cup waiting'
    <3>1. t \notin TimersOf(timeoutTimers, Keys \ {t[1]})
      BY DEF TimersOf
    <3>2. TimersOf(timeoutTimers, Keys \ {t[1]}) \subseteq TimersOf(timeoutTimers, Keys)
      BY DEF TimersOf
    <3> QED BY <1>0, <2>2, <2>3, <3>1, <3>2 DEF ArmedAlive
  <2>6. ArmedAlive'
    BY <1>0, <2>2, <2>3, <2>5, HandlerKeepsAlive DEF ArmedAlive
  <2> QED BY <2>4, <2>6 DEF TimersInv
<1>4. ASSUME NEW t \in Timers, Discard(t)
      PROVE  TimersInv'
  <2>1. /\ t[1] \in Keys /\ timeoutTimers[t[1]] = 0
        /\ waiting' = waiting \ {t} /\ handled' = NoKey /\ asked' = <<{}, {}>>
        /\ UNCHANGED <<starts, timeoutTimers, running, late>>
    BY <1>4 DEF Discard, Current, Timers
  <2>2. TypeOK'
    BY <1>0, <2>1 DEF TypeOK
  <2>3. t \notin TimersOf(timeoutTimers, Keys)
    BY <2>1 DEF TimersOf, Armed
  <2>4. ArmedAlive'
    BY <1>0, <2>1, <2>3 DEF ArmedAlive, TimersOf, Armed
  <2> QED BY <2>2, <2>4 DEF TimersInv
<1>5. CASE UNCHANGED vars
  BY <1>0, <1>5 DEF vars, TimersInv, TypeOK, ArmedAlive, TimersOf, Armed
<1> QED BY <1>1, <1>2, <1>3, <1>4, <1>5 DEF Next, Take

LEMMA TimersInvInit == Init => TimersInv
<1> SUFFICES ASSUME Init PROVE TimersInv
  OBVIOUS
<1>1. TypeOK
  BY MaxStartsAssumption DEF Init, TypeOK
<1>2. ArmedAlive
  BY DEF Init, ArmedAlive, TimersOf, Armed
<1> QED BY <1>1, <1>2 DEF TimersInv

\* timeoutTimers never has an entry whose timer is gone (timedEvent,
\* abortTimedEvent and loop's timeout case), whichever timer's event loop took
\* for it before.
THEOREM DeadlinesKept == Spec => []ArmedAlive
<1>1. TimersInv /\ [Next]_vars => TimersInv'
  BY TimersInvStep
<1>2. TimersInv => ArmedAlive
  BY DEF TimersInv
<1> QED BY TimersInvInit, <1>1, <1>2, PTL DEF Spec

-----------------------------------------------------------------------------
(* Orphans *)

\* A timer is started once: its number is not above the starts of its event.
Numbered ==
  /\ \A t \in running \cup waiting \cup late : t[2] <= starts[t[1]]
  /\ \A k \in Keys : timeoutTimers[k] <= starts[k]

\* A goroutine waits after its time, and a timer aborted late is not armed
\* again.
Apart ==
  /\ running \cap waiting = {}
  /\ late \cap TimersOf(timeoutTimers, Keys) = {}

OrphansInv == TimersInv /\ Numbered /\ Apart /\ OrphansAreLate

\* The orphans if map had the entries and W the waiting goroutines.
OrphansOf(map, W) == (running \cup W) \ TimersOf(map, Keys)

\* The timers that a handler starts are new.
LEMMA HandlerStartsNew ==
  ASSUME TypeOK, Numbered, Apart, NEW map \in Entries,
         \A k \in Keys : map[k] \in {0, timeoutTimers[k]},
         NEW W \in SUBSET waiting, waiting' = W, TimersOf(map, Keys) \cap waiting \subseteq W,
         NEW aborted \in SUBSET Keys, NEW started \in SUBSET Keys,
         Handler(map, aborted, started)
  PROVE  /\ Numbered' /\ Apart'
         /\ OrphansOf(map, W) \cup (TimersOf(map, aborted) \cap waiting) \subseteq Timers
         /\ Orphans' = OrphansOf(map, W) \cup (TimersOf(map, aborted) \cap waiting)
         /\ late' = late \cup (TimersOf(map, aborted) \cap waiting)
         /\ late \cap (TimersOf(map, aborted) \cap waiting) = {}
<1> USE MaxStartsAssumption
<1> DEFINE next == [k \in Keys |-> IF k \in started THEN starts[k] + 1 ELSE starts[k]]
           Late == TimersOf(map, aborted) \cap waiting
<1>1. /\ started \cap Armed(map) \subseteq aborted
      /\ starts' = next
      /\ timeoutTimers' = [k \in Keys |-> IF k \in started THEN next[k]
                                          ELSE IF k \in aborted THEN 0
                                          ELSE map[k]]
      /\ running' = (running \ TimersOf(map, aborted)) \cup TimersOf(next, started)
      /\ late' = late \cup Late
  BY DEF Handler, Stopped
<1>2. /\ starts \in Entries /\ timeoutTimers \in Entries
      /\ running \subseteq Timers /\ waiting \subseteq Timers /\ late \subseteq Timers
  BY DEF TypeOK, Entries
<1>3. \A k \in Keys : /\ starts[k] \in Nat /\ map[k] \in Nat /\ timeoutTimers[k] \in Nat
                      /\ next[k] = IF k \in started THEN starts[k] + 1 ELSE starts[k]
                      /\ next[k] \in Nat
                      /\ map[k] <= starts[k]
  BY <1>2 DEF Entries, Numbered
<1>4. \A k \in Keys : timeoutTimers'[k] = IF k \in started THEN next[k]
                                          ELSE IF k \in aborted THEN 0 ELSE map[k]
  BY <1>1
<1> HIDE DEF next
<1>5. \A t \in TimersOf(next, started) : /\ t[1] \in started /\ t[2] = starts[t[1]] + 1
                                         /\ t = <<t[1], t[2]>>
  BY <1>3 DEF TimersOf, Armed
<1>6. \A t \in Timers : t[1] \in Keys /\ t[2] \in Nat /\ t = <<t[1], t[2]>>
  BY DEF Timers
<1>7. \A t \in running \cup waiting \cup late : t \notin TimersOf(next, started)
  BY <1>2, <1>3, <1>5, <1>6 DEF Numbered
<1>8. Late \subseteq waiting
  OBVIOUS
<1>9. TimersOf(map, Keys) \subseteq TimersOf(timeoutTimers, Keys)
  BY DEF TimersOf, Armed
<1>10. TimersOf(map, aborted) \subseteq TimersOf(map, Keys)
  BY DEF TimersOf
<1>11. Numbered'
  <2>1. \A t \in running' \cup waiting' \cup late' : t[2] <= starts'[t[1]]
    <3> SUFFICES ASSUME NEW t \in running' \cup waiting' \cup late'
                 PROVE  t[2] <= starts'[t[1]]
      OBVIOUS
    <3>1. CASE t \in TimersOf(next, started)
      BY <1>1, <1>3, <1>5, <3>1
    <3>2. CASE t \in running \cup waiting \cup late
      <4>1. t[1] \in Keys /\ t[2] \in Nat /\ t[2] <= starts[t[1]]
        BY <1>2, <1>6, <3>2 DEF Numbered
      <4> QED BY <1>1, <1>3, <4>1
    <3> QED BY <1>1, <1>8, <3>1, <3>2
  <2>2. \A k \in Keys : timeoutTimers'[k] <= starts'[k]
    BY <1>1, <1>3, <1>4
  <2> QED BY <2>1, <2>2 DEF Numbered
<1>12. Apart'
  <2>1. running' \cap waiting' = {}
    BY <1>1, <1>7 DEF Apart
  <2>2. late' \cap TimersOf(timeoutTimers, Keys)' = {}
    <3> SUFFICES ASSUME NEW k \in Keys, timeoutTimers'[k] # 0, <<k, timeoutTimers'[k]>> \in late'
                 PROVE  FALSE
      BY DEF TimersOf, Armed
    <3>1. CASE k \in started
      <4>1. <<k, timeoutTimers'[k]>> \in TimersOf(next, started)
        BY <1>4, <3>1 DEF TimersOf, Armed
      <4> QED BY <1>1, <1>7, <1>8, <4>1
    <3>2. CASE k \notin started
      <4>1. k \notin aborted /\ timeoutTimers'[k] = map[k]
        BY <1>4, <3>2
      <4>2. <<k, map[k]>> \in TimersOf(map, Keys) /\ <<k, map[k]>> \notin TimersOf(map, aborted)
        BY <4>1 DEF TimersOf, Armed
      <4> QED BY <1>1, <1>9, <4>1, <4>2 DEF Apart
    <3> QED BY <3>1, <3>2
  <2> QED BY <2>1, <2>2 DEF Apart
<1>13. Orphans' \subseteq OrphansOf(map, W) \cup Late
  <2> SUFFICES ASSUME NEW t \in Orphans'
               PROVE  t \in OrphansOf(map, W) \cup Late
    OBVIOUS
  <2>1. t \in running' \cup W /\ t \notin TimersOf(timeoutTimers, Keys)'
    BY DEF Orphans
  <2>2. t \notin TimersOf(next, started)
    <3> SUFFICES ASSUME t \in TimersOf(next, started) PROVE FALSE
      OBVIOUS
    <3>1. t[1] \in started /\ t = <<t[1], timeoutTimers'[t[1]]>> /\ timeoutTimers'[t[1]] # 0
      BY <1>3, <1>4, <1>5
    <3> QED BY <2>1, <3>1 DEF TimersOf, Armed
  <2>3. t \in (running \ TimersOf(map, aborted)) \cup W
    BY <1>1, <2>1, <2>2
  <2>4. CASE t \notin TimersOf(map, Keys)
    BY <2>3, <2>4 DEF OrphansOf
  <2>5. CASE t \in TimersOf(map, Keys)
    <3>1. PICK k \in Keys : t = <<k, map[k]>> /\ map[k] # 0
      BY <2>5 DEF TimersOf, Armed
    <3>2. k \in aborted
      <4> SUFFICES ASSUME k \notin aborted PROVE FALSE
        OBVIOUS
      <4>1. k \notin started
        BY <1>1, <3>1 DEF Armed
      <4>2. timeoutTimers'[k] = map[k]
        BY <1>4, <4>1
      <4> QED BY <2>1, <3>1, <4>2 DEF TimersOf, Armed
    <3>3. t \in TimersOf(map, aborted)
      BY <3>1, <3>2 DEF TimersOf, Armed
    <3> QED BY <2>3, <3>3
  <2> QED BY <2>4, <2>5
<1>16. OrphansOf(map, W) \cup Late \subseteq Orphans'
  <2> SUFFICES ASSUME NEW t \in OrphansOf(map, W) \cup Late
               PROVE  t \in Orphans'
    OBVIOUS
  <2>1. /\ t \in running' \cup waiting' /\ t \in running \cup waiting
        /\ t \in TimersOf(map, Keys) => t \in TimersOf(map, aborted)
    BY <1>1, <1>10 DEF OrphansOf
  <2>2. ASSUME NEW k \in Keys, timeoutTimers'[k] # 0, t = <<k, timeoutTimers'[k]>>
        PROVE  FALSE
    <3>1. CASE k \in started
      BY <1>4, <1>7, <2>1, <2>2, <3>1 DEF TimersOf, Armed
    <3>2. CASE k \notin started
      <4>1. k \notin aborted /\ timeoutTimers'[k] = map[k]
        BY <1>4, <2>2, <3>2
      <4> QED BY <2>1, <2>2, <4>1 DEF TimersOf, Armed
    <3> QED BY <3>1, <3>2
  <2> QED BY <2>1, <2>2 DEF Orphans, TimersOf, Armed
<1>14. late \cap Late = {}
  BY <1>9, <1>10 DEF Apart
<1>15. OrphansOf(map, W) \cup Late \subseteq Timers
  BY <1>2 DEF OrphansOf
<1> QED BY <1>1, <1>11, <1>12, <1>13, <1>14, <1>15, <1>16

\* Sets of timers are finite.
LEMMA TimersFinite == ASSUME NEW S \in SUBSET Timers PROVE IsFiniteSet(S)
<1>1. IsFiniteSet(1 .. MaxStarts)
  BY MaxStartsAssumption, FS_Interval
<1>2. IsFiniteSet(Timers)
  BY <1>1, KeysAssumption, FS_Product DEF Timers
<1> QED BY <1>2, FS_Subset

\* Two sets that grow by the same set, new to the second, keep their order.
LEMMA GrowTogether ==
  ASSUME NEW A \in SUBSET Timers, NEW B \in SUBSET Timers, NEW X \in SUBSET Timers,
         Cardinality(A) <= Cardinality(B), B \cap X = {}, NEW C \in SUBSET (A \cup X)
  PROVE  Cardinality(C) <= Cardinality(B \cup X)
<1>1. IsFiniteSet(A) /\ IsFiniteSet(B) /\ IsFiniteSet(X) /\ IsFiniteSet(A \cap X)
  BY TimersFinite
<1>2. /\ Cardinality(A) \in Nat /\ Cardinality(B) \in Nat /\ Cardinality(X) \in Nat
      /\ Cardinality(A \cap X) \in Nat
  BY <1>1, FS_CardinalityType
<1>3. /\ IsFiniteSet(A \cup X)
      /\ Cardinality(A \cup X) = Cardinality(A) + Cardinality(X) - Cardinality(A \cap X)
  BY <1>1, FS_Union
<1>4. Cardinality(B \cup X) = Cardinality(B) + Cardinality(X) - Cardinality(B \cap X)
  BY <1>1, FS_Union
<1>5. Cardinality(B \cap X) = 0
  BY FS_EmptySet
<1>6. IsFiniteSet(C) /\ Cardinality(C) <= Cardinality(A \cup X)
  BY <1>3, FS_Subset
<1>7. Cardinality(C) \in Nat
  BY <1>6, FS_CardinalityType
<1> QED BY <1>2, <1>3, <1>4, <1>5, <1>6, <1>7

\* When the event of t is taken, the armed timer of the event becomes an
\* orphan in the place of t, unless it is t.
LEMMA OrphanTaken ==
  ASSUME TypeOK, Apart, NEW t \in waiting, timeoutTimers[t[1]] # 0
  PROVE  LET map == Removed(t[1])
         IN  Cardinality(OrphansOf(map, waiting \ {t})) <= Cardinality(Orphans)
<1> DEFINE k == t[1]
           u == <<k, timeoutTimers[k]>>
           map == Removed(k)
           taken == OrphansOf(map, waiting \ {t})
<1>1. t \in Timers /\ k \in Keys /\ t = <<t[1], t[2]>>
  BY DEF TypeOK, Timers
<1>2. TimersOf(map, Keys) = TimersOf(timeoutTimers, Keys \ {k})
  BY <1>1, EntryTaken
<1>3. TimersOf(timeoutTimers, Keys) = TimersOf(timeoutTimers, Keys \ {k}) \cup {u}
  BY <1>1 DEF TimersOf, Armed
<1>4. taken \subseteq ((running \cup waiting) \ {t}) \ TimersOf(timeoutTimers, Keys \ {k})
  BY <1>2 DEF OrphansOf, Apart
<1>5. Orphans \subseteq Timers
  BY DEF Orphans, TypeOK
<1>6. IsFiniteSet(Orphans) /\ Cardinality(Orphans) \in Nat
  BY <1>5, TimersFinite, FS_CardinalityType
<1>7. CASE t = u
  <2>1. taken \subseteq Orphans
    BY <1>3, <1>4, <1>7 DEF Orphans
  <2> QED BY <1>6, <2>1, FS_Subset
<1>8. CASE t # u
  <2>1. t \in Orphans
    <3>1. t \notin TimersOf(timeoutTimers, Keys)
      BY <1>1, <1>8 DEF TimersOf
    <3> QED BY <3>1 DEF Orphans
  <2>2. taken \subseteq (Orphans \ {t}) \cup {u}
    BY <1>3, <1>4 DEF Orphans
  <2>3. IsFiniteSet(Orphans \ {t}) /\ Cardinality(Orphans \ {t}) = Cardinality(Orphans) - 1
    BY <1>6, <2>1, FS_RemoveElement
  <2>4. /\ IsFiniteSet((Orphans \ {t}) \cup {u})
        /\ Cardinality((Orphans \ {t}) \cup {u}) <= Cardinality(Orphans)
    <3> DEFINE rest == Orphans \ {t}
    <3>1. IsFiniteSet(rest) /\ Cardinality(rest) = Cardinality(Orphans) - 1
      BY <2>3
    <3> HIDE DEF rest
    <3>2. /\ IsFiniteSet(rest \cup {u})
          /\ Cardinality(rest \cup {u}) = IF u \in rest THEN Cardinality(rest) ELSE Cardinality(rest) + 1
      BY <3>1, FS_AddElement
    <3>3. IsFiniteSet(rest \cup {u}) /\ Cardinality(rest \cup {u}) <= Cardinality(Orphans)
      BY <1>6, <3>1, <3>2
    <3> QED BY <3>3 DEF rest
  <2>5. IsFiniteSet(taken) /\ Cardinality(taken) <= Cardinality((Orphans \ {t}) \cup {u})
    BY <2>2, <2>4, FS_Subset
  <2>6. Cardinality(taken) \in Nat /\ Cardinality((Orphans \ {t}) \cup {u}) \in Nat
    BY <2>4, <2>5, FS_CardinalityType
  <2> QED BY <1>6, <2>4, <2>5, <2>6
<1> QED BY <1>7, <1>8

LEMMA OrphansStep ==
  ASSUME OrphansInv, [Next]_vars
  PROVE  OrphansInv'
<1>0. /\ TypeOK /\ TimersInv /\ Numbered /\ Apart /\ OrphansAreLate
      /\ timeoutTimers \in Entries
      /\ late \in SUBSET Timers
  BY DEF OrphansInv, TimersInv, TypeOK, Entries
<1> USE MaxStartsAssumption
<1>1. ASSUME NEW aborted \in SUBSET Keys, NEW started \in SUBSET Keys, Other(aborted, started)
      PROVE  (Numbered /\ Apart /\ OrphansAreLate)'
  <2>1. Handler(timeoutTimers, aborted, started) /\ waiting' = waiting
    BY <1>1 DEF Other
  <2> DEFINE Late == TimersOf(timeoutTimers, aborted) \cap waiting
  <2>2. OrphansOf(timeoutTimers, waiting) = Orphans
    BY DEF OrphansOf, Orphans
  <2>3. /\ Numbered' /\ Apart'
        /\ Orphans \cup Late \subseteq Timers
        /\ Orphans' = Orphans \cup Late
        /\ late' = late \cup Late
        /\ late \cap Late = {}
    BY <1>0, <2>1, <2>2, HandlerStartsNew
  <2> HIDE DEF Late
  <2>4. OrphansAreLate'
    BY <1>0, <2>3, GrowTogether DEF OrphansAreLate
  <2> QED BY <2>3, <2>4
<1>2. ASSUME NEW t \in Timers, Expire(t)
      PROVE  (Numbered /\ Apart /\ OrphansAreLate)'
  <2>1. /\ t \in running /\ running' = running \ {t} /\ waiting' = waiting \cup {t}
        /\ UNCHANGED <<starts, timeoutTimers, late>>
    BY <1>2 DEF Expire
  <2>2. TimersOf(timeoutTimers, Keys)' = TimersOf(timeoutTimers, Keys)
    BY <2>1 DEF TimersOf, Armed
  <2>3. running' \cup waiting' = running \cup waiting
    BY <2>1
  <2>4. Numbered'
    BY <1>0, <2>1, <2>3 DEF Numbered
  <2>5. Apart'
    BY <1>0, <2>1, <2>2 DEF Apart
  <2>6. Orphans' = Orphans
    BY <2>2, <2>3 DEF Orphans
  <2> QED BY <1>0, <2>1, <2>4, <2>5, <2>6 DEF OrphansAreLate
<1>3. ASSUME NEW t \in Timers, NEW aborted \in SUBSET Keys, NEW started \in SUBSET Keys,
             Deliver(t, aborted, started)
      PROVE  (Numbered /\ Apart /\ OrphansAreLate)'
  <2> DEFINE map == Removed(t[1])
             Late == TimersOf(map, aborted) \cap waiting
             W == waiting \ {t}
  <2>1. t[1] \in Keys
    BY DEF Timers
  <2>2. map \in Entries /\ \A k \in Keys : map[k] \in {0, timeoutTimers[k]}
    BY <1>0, <2>1, EntryTaken DEF Entries
  <2>3. /\ t \in waiting /\ timeoutTimers[t[1]] # 0
        /\ Handler(map, aborted, started) /\ waiting' = W
    BY <1>3 DEF Deliver, Current
  <2>4. Cardinality(OrphansOf(map, W)) <= Cardinality(Orphans)
    BY <1>0, <2>3, OrphanTaken
  <2>5. W \in SUBSET waiting /\ TimersOf(map, Keys) \cap waiting \subseteq W
    <3>1. t \notin TimersOf(map, Keys)
      BY <1>0, <2>1, EntryTaken DEF TimersOf
    <3> QED BY <3>1
  <2> HIDE DEF map
  <2>6. /\ Numbered' /\ Apart'
        /\ OrphansOf(map, W) \cup Late \subseteq Timers
        /\ Orphans' = OrphansOf(map, W) \cup Late
        /\ late' = late \cup Late
        /\ late \cap Late = {}
    BY <1>0, <2>2, <2>3, <2>5, HandlerStartsNew
  <2> HIDE DEF Late, W
  <2>7. Cardinality(OrphansOf(map, W)) <= Cardinality(late)
    <3>1. Orphans \subseteq Timers
      BY <1>0 DEF Orphans, TypeOK
    <3>2. /\ Cardinality(OrphansOf(map, W)) \in Nat
          /\ Cardinality(Orphans) \in Nat /\ Cardinality(late) \in Nat
      BY <1>0, <2>6, <3>1, TimersFinite, FS_CardinalityType
    <3> QED BY <1>0, <2>4, <3>2 DEF OrphansAreLate
  <2>8. OrphansAreLate'
    BY <1>0, <2>6, <2>7, GrowTogether DEF OrphansAreLate
  <2> QED BY <2>6, <2>8
<1>4. ASSUME NEW t \in Timers, Discard(t)
      PROVE  (Numbered /\ Apart /\ OrphansAreLate)'
  <2>1. /\ waiting' = waiting \ {t}
        /\ UNCHANGED <<starts, timeoutTimers, running, late>>
    BY <1>4 DEF Discard
  <2>2. TimersOf(timeoutTimers, Keys)' = TimersOf(timeoutTimers, Keys)
    BY <2>1 DEF TimersOf, Armed
  <2>3. Numbered'
    BY <1>0, <2>1 DEF Numbered
  <2>4. Apart'
    BY <1>0, <2>1, <2>2 DEF Apart
  <2>5. Orphans' \subseteq Orphans \cup {}
    BY <2>1, <2>2 DEF Orphans
  <2>6. Orphans \in SUBSET Timers /\ {} \in SUBSET Timers /\ late' = late \cup {}
    BY <1>0, <2>1 DEF Orphans, TypeOK
  <2>7. OrphansAreLate'
    BY <1>0, <2>5, <2>6, GrowTogether DEF OrphansAreLate
  <2> QED BY <2>3, <2>4, <2>7
<1>5. CASE UNCHANGED vars
  <2>1. UNCHANGED <<starts, timeoutTimers, running, waiting, late>>
    BY <1>5 DEF vars
  <2>2. TimersOf(timeoutTimers, Keys)' = TimersOf(timeoutTimers, Keys)
    BY <2>1 DEF TimersOf, Armed
  <2> QED BY <1>0, <2>1, <2>2, TimersInvStep DEF OrphansInv, Numbered, Apart, OrphansAreLate, Orphans
<1> QED BY <1>0, <1>1, <1>2, <1>3, <1>4, <1>5, TimersInvStep DEF OrphansInv, Next, Take

LEMMA OrphansInvInit == Init => OrphansInv
<1> SUFFICES ASSUME Init PROVE OrphansInv
  OBVIOUS
<1>1. running = {} /\ waiting = {} /\ late = {} /\ \A k \in Keys : timeoutTimers[k] <= starts[k]
  BY DEF Init
<1>2. Orphans = {}
  BY <1>1 DEF Orphans
<1>3. Cardinality(Orphans) <= Cardinality(late)
  BY <1>1, <1>2, FS_EmptySet
<1> QED BY <1>1, <1>3, TimersInvInit DEF OrphansInv, Numbered, Apart, OrphansAreLate

\* Only abortTimedEvent of a timer whose goroutine waits already leaves a
\* goroutine that can fire a later deadline early, and each such abort at most
\* one, although loop mistakes one event for another.
THEOREM OrphansBounded == Spec => []OrphansAreLate
<1>1. Init => OrphansInv
  BY OrphansInvInit
<1>2. OrphansInv /\ [Next]_vars => OrphansInv'
  BY OrphansStep
<1>3. OrphansInv => OrphansAreLate
  BY DEF OrphansInv
<1> QED BY <1>1, <1>2, <1>3, PTL DEF Spec

-----------------------------------------------------------------------------
(* Refinement *)

\* The timers of k in S.
OfEvent(k, S) == {t \in S : t[1] = k}

\* The armed deadlines that are due.
DueTimers(map, W) == {k \in Armed(map) : <<k, map[k]>> \in W}

\* A handler leaves one orphan more of each event whose deadline it aborts when
\* it is due, and no other.
LEMMA HandlerStrays ==
  ASSUME TypeOK, Numbered, Apart, NEW map \in Entries,
         \A k \in Keys : map[k] \in {0, timeoutTimers[k]},
         NEW W \in SUBSET waiting, waiting' = W, TimersOf(map, Keys) \cap waiting \subseteq W,
         NEW aborted \in SUBSET Keys, NEW started \in SUBSET Keys,
         Handler(map, aborted, started),
         NEW k \in Keys
  PROVE  Cardinality(OfEvent(k, Orphans)') =
           IF k \in aborted \cap DueTimers(map, waiting)
           THEN Cardinality(OfEvent(k, OrphansOf(map, W))) + 1
           ELSE Cardinality(OfEvent(k, OrphansOf(map, W)))
<1> DEFINE Late == TimersOf(map, aborted) \cap waiting
           S == OfEvent(k, OrphansOf(map, W))
           u == <<k, map[k]>>
<1>1. Orphans' = OrphansOf(map, W) \cup Late /\ OrphansOf(map, W) \cup Late \subseteq Timers
  BY HandlerStartsNew
<1>2. OfEvent(k, Orphans)' = S \cup OfEvent(k, Late)
  BY <1>1 DEF OfEvent
<1>3. OfEvent(k, Late) = IF k \in aborted \cap DueTimers(map, waiting) THEN {u} ELSE {}
  BY DEF OfEvent, TimersOf, DueTimers, Armed
<1>4. IsFiniteSet(S) /\ Cardinality(S) \in Nat
  <2>1. S \subseteq Timers
    BY <1>1 DEF OfEvent
  <2> QED BY <2>1, TimersFinite, FS_CardinalityType
<1>5. CASE k \in aborted \cap DueTimers(map, waiting)
  <2>1. u \in TimersOf(map, Keys)
    BY <1>5 DEF TimersOf, DueTimers
  <2>2. u \notin S
    BY <2>1 DEF OfEvent, OrphansOf
  <2> HIDE DEF S, u, Late
  <2>3. Cardinality(S \cup {u}) = Cardinality(S) + 1
    BY <1>4, <2>2, FS_AddElement
  <2>4. OfEvent(k, Orphans)' = S \cup {u}
    BY <1>2, <1>3, <1>5
  <2>5. Cardinality(OfEvent(k, Orphans)') = Cardinality(S) + 1
    BY <2>3, <2>4
  <2> QED BY <1>5, <2>5 DEF S
<1>6. CASE k \notin aborted \cap DueTimers(map, waiting)
  BY <1>2, <1>3, <1>6
<1> QED BY <1>5, <1>6

\* What is due after a handler was due before, and was neither aborted nor
\* started.
LEMMA HandlerDue ==
  ASSUME TypeOK, Numbered, Apart, NEW map \in Entries,
         \A k \in Keys : map[k] \in {0, timeoutTimers[k]},
         NEW W \in SUBSET waiting, waiting' = W, TimersOf(map, Keys) \cap waiting \subseteq W,
         NEW aborted \in SUBSET Keys, NEW started \in SUBSET Keys,
         Handler(map, aborted, started)
  PROVE  DueTimers(timeoutTimers, waiting)' = (DueTimers(map, waiting) \ aborted) \ started
<1>1. /\ timeoutTimers' = Left(map, aborted, started)
      /\ \A k \in started : <<k, timeoutTimers'[k]>> \in running'
  BY HandlerEffect
<1>2. Apart'
  BY HandlerStartsNew
<1>3. ASSUME NEW k \in started  PROVE k \notin DueTimers(timeoutTimers, waiting)'
  BY <1>1, <1>2 DEF DueTimers, Apart
<1>4. ASSUME NEW k \in Keys \ started
      PROVE  k \in DueTimers(timeoutTimers, waiting)' <=> k \in DueTimers(map, waiting) \ aborted
  <2>1. timeoutTimers'[k] = IF k \in aborted THEN 0 ELSE map[k]
    BY <1>1 DEF Left
  <2>2. map[k] # 0 /\ <<k, map[k]>> \in waiting => <<k, map[k]>> \in W
    BY DEF TimersOf, Armed
  <2> QED BY <2>1, <2>2 DEF DueTimers, Armed
<1>5. DueTimers(timeoutTimers, waiting)' \subseteq Keys /\ DueTimers(map, waiting) \subseteq Keys
  BY DEF DueTimers, Armed
<1> QED BY <1>3, <1>4, <1>5

\* When the event of t is handled the number of orphans of each event stays:
\* if t was one, the armed timer of its event becomes one.
LEMMA EventTaken ==
  ASSUME TypeOK, ArmedAlive, Apart, NEW t \in waiting, timeoutTimers[t[1]] # 0
  PROVE  /\ \A k \in Keys :
              Cardinality(OfEvent(k, OrphansOf(Removed(t[1]), waiting \ {t}))) =
                Cardinality(OfEvent(k, Orphans))
         /\ \/ t[1] \in DueTimers(timeoutTimers, waiting)
            \/ Cardinality(OfEvent(t[1], Orphans)) > 0
<1> DEFINE j == t[1]
           u == <<j, timeoutTimers[j]>>
           map == Removed(j)
           S == OfEvent(j, Orphans)
<1>1. t \in Timers /\ j \in Keys /\ t = <<j, t[2]>>
  BY DEF TypeOK, Timers
<1>2. /\ TimersOf(map, Keys) = TimersOf(timeoutTimers, Keys \ {j})
      /\ TimersOf(timeoutTimers, Keys) = TimersOf(timeoutTimers, Keys \ {j}) \cup {u}
      /\ u \notin TimersOf(timeoutTimers, Keys \ {j})
  BY <1>1, EntryTaken DEF TimersOf, Armed
<1>3. u \in running \cup waiting
  BY <1>2 DEF ArmedAlive
<1>4. t \notin running
  BY DEF Apart
<1>5. t \notin TimersOf(timeoutTimers, Keys \ {j})
  BY <1>1 DEF TimersOf
<1>6. OrphansOf(map, waiting \ {t}) = (Orphans \cup {u}) \ {t}
  BY <1>2, <1>3, <1>4 DEF OrphansOf, Orphans
<1>7. Orphans \subseteq Timers /\ S \subseteq Timers
  BY DEF Orphans, OfEvent, TypeOK
<1>8. IsFiniteSet(S) /\ Cardinality(S) \in Nat
  BY <1>7, TimersFinite, FS_CardinalityType
<1>9. u \notin Orphans
  BY <1>2 DEF Orphans
<1>10. ASSUME NEW k \in Keys, k # j
       PROVE  OfEvent(k, OrphansOf(map, waiting \ {t})) = OfEvent(k, Orphans)
  BY <1>6, <1>10 DEF OfEvent
<1>11. OfEvent(j, OrphansOf(map, waiting \ {t})) = (S \cup {u}) \ {t}
  BY <1>6 DEF OfEvent
<1>12. CASE t = u
  <2>1. (S \cup {u}) \ {t} = S
    BY <1>9, <1>12 DEF OfEvent
  <2>2. j \in DueTimers(timeoutTimers, waiting)
    BY <1>1, <1>12 DEF DueTimers, Armed
  <2> QED BY <1>10, <1>11, <2>1, <2>2
<1>13. CASE t # u
  <2>1. t \in S
    BY <1>1, <1>2, <1>5, <1>13 DEF OfEvent, Orphans
  <2>2. u \notin S
    BY <1>9 DEF OfEvent
  <2> HIDE DEF S, u, map, j
  <2>3. IsFiniteSet(S \cup {u}) /\ Cardinality(S \cup {u}) = Cardinality(S) + 1
    BY <1>8, <2>2, FS_AddElement
  <2>4. Cardinality((S \cup {u}) \ {t}) = Cardinality(S)
    <3> DEFINE more == S \cup {u}
    <3>1. t \in more /\ IsFiniteSet(more) /\ Cardinality(more) = Cardinality(S) + 1
      BY <2>1, <2>3
    <3> HIDE DEF more
    <3>2. Cardinality(more \ {t}) = Cardinality(more) - 1
      BY <3>1, FS_RemoveElement
    <3>3. Cardinality(more \ {t}) = Cardinality(S)
      BY <1>8, <3>1, <3>2
    <3> QED BY <3>3 DEF more
  <2>5. Cardinality(S) > 0
    BY <1>8, <2>1, FS_EmptySet
  <2>6. \A k \in Keys : Cardinality(OfEvent(k, OrphansOf(map, waiting \ {t}))) =
                          Cardinality(OfEvent(k, Orphans))
    BY <1>10, <1>11, <2>4 DEF S
  <2> QED BY <2>5, <2>6 DEF S, map, j
<1> QED BY <1>12, <1>13

\* What Deadlines calls a deadline's state, in terms of the above.
LEMMA Mapping ==
  /\ Deadline!vars = <<Armed(timeoutTimers), DueTimers(timeoutTimers, waiting),
                       [k \in Keys |-> Cardinality(OfEvent(k, Orphans))], handled, asked>>
  /\ \A kept, overdue, aborted, started :
       Deadline!Handle(kept, overdue, aborted, started) <=>
         /\ Armed(timeoutTimers)' = (kept \ aborted) \cup started
         /\ DueTimers(timeoutTimers, waiting)' = (overdue \ aborted) \ started
         /\ [k \in Keys |-> Cardinality(OfEvent(k, Orphans)')] =
              [k \in Keys |-> IF k \in aborted \cap overdue
                              THEN [j \in Keys |-> Cardinality(OfEvent(j, Orphans))][k] + 1
                              ELSE [j \in Keys |-> Cardinality(OfEvent(j, Orphans))][k]]
         /\ asked' = <<aborted, started>>
BY DEF Deadline!vars, Deadline!Handle, DueTimers, OfEvent

\* A handler of the code is a handler of Deadlines, with the same requests.
LEMMA HandlerHandles ==
  ASSUME TypeOK, Numbered, Apart, NEW map \in Entries,
         \A k \in Keys : map[k] \in {0, timeoutTimers[k]},
         NEW W \in SUBSET waiting, waiting' = W, TimersOf(map, Keys) \cap waiting \subseteq W,
         NEW aborted \in SUBSET Keys, NEW started \in SUBSET Keys,
         Handler(map, aborted, started),
         \A k \in Keys : Cardinality(OfEvent(k, OrphansOf(map, W))) =
                           Cardinality(OfEvent(k, Orphans))
  PROVE  Deadline!Handle(Armed(map), DueTimers(map, waiting), aborted, started)
<1>1. Armed(timeoutTimers)' = (Armed(map) \ aborted) \cup started
  BY HandlerArms
<1>2. DueTimers(timeoutTimers, waiting)' = (DueTimers(map, waiting) \ aborted) \ started
  BY HandlerDue
<1>3. \A k \in Keys : Cardinality(OfEvent(k, Orphans)') =
                        IF k \in aborted \cap DueTimers(map, waiting)
                        THEN Cardinality(OfEvent(k, Orphans)) + 1
                        ELSE Cardinality(OfEvent(k, Orphans))
  BY HandlerStrays
<1>4. asked' = <<aborted, started>>
  BY HandlerEffect
<1> QED BY <1>1, <1>2, <1>3, <1>4, Mapping

LEMMA DeadlineStep ==
  ASSUME OrphansInv, [Next]_vars
  PROVE  [Deadline!Next]_(Deadline!vars)
<1> DEFINE DueNow == DueTimers(timeoutTimers, waiting)
           Strays == [k \in Keys |-> Cardinality(OfEvent(k, Orphans))]
<1>0. /\ TypeOK /\ ArmedAlive /\ Numbered /\ Apart
      /\ timeoutTimers \in Entries
  BY DEF OrphansInv, TimersInv, TypeOK, Entries
<1>1. ASSUME NEW aborted \in SUBSET Keys, NEW started \in SUBSET Keys, Other(aborted, started)
      PROVE  Deadline!Next
  <2>1. Handler(timeoutTimers, aborted, started) /\ handled' = NoKey /\ waiting' = waiting
    BY <1>1 DEF Other
  <2>2. OrphansOf(timeoutTimers, waiting) = Orphans
    BY DEF OrphansOf, Orphans
  <2>3. Deadline!Handle(Armed(timeoutTimers), DueNow, aborted, started)
    BY <1>0, <2>1, <2>2, HandlerHandles
  <2>4. Deadline!Other(aborted, started)
    BY <2>1, <2>3 DEF Deadline!Other, DueTimers
  <2> QED BY <2>4 DEF Deadline!Next
<1>2. ASSUME NEW t \in Timers, NEW aborted \in SUBSET Keys, NEW started \in SUBSET Keys,
             Deliver(t, aborted, started)
      PROVE  Deadline!Next
  <2> DEFINE j == t[1]
             map == Removed(j)
             W == waiting \ {t}
  <2>1. j \in Keys
    BY DEF Timers
  <2>2. /\ t \in waiting /\ timeoutTimers[j] # 0
        /\ Handler(map, aborted, started) /\ waiting' = W /\ handled' = j
    BY <1>2 DEF Deliver, Current
  <2>3. /\ map \in Entries /\ \A k \in Keys : map[k] = IF k = j THEN 0 ELSE timeoutTimers[k]
        /\ Armed(map) = Armed(timeoutTimers) \ {j}
        /\ TimersOf(map, Keys) = TimersOf(timeoutTimers, Keys \ {j})
    BY <1>0, <2>1, EntryTaken
  <2>4. TimersOf(map, Keys) \cap waiting \subseteq W
    <3>1. t \notin TimersOf(map, Keys)
      BY <2>3 DEF TimersOf
    <3> QED BY <3>1
  <2>5. DueTimers(map, waiting) = DueNow \ {j}
    BY <2>3 DEF DueTimers, Armed
  <2>6. /\ \A k \in Keys : Cardinality(OfEvent(k, OrphansOf(map, W))) =
                             Cardinality(OfEvent(k, Orphans))
        /\ j \in DueNow \/ Cardinality(OfEvent(j, Orphans)) > 0
    BY <1>0, <2>2, EventTaken
  <2>7. \A k \in Keys : map[k] \in {0, timeoutTimers[k]}
    BY <2>3
  <2>8. W \in SUBSET waiting
    OBVIOUS
  <2>9. j \in Armed(timeoutTimers)
    BY <2>1, <2>2 DEF Armed
  <2> HIDE DEF map, W, j
  <2>10. Deadline!Handle(Armed(map), DueTimers(map, waiting), aborted, started)
    BY <1>0, <2>2, <2>3, <2>4, <2>6, <2>7, <2>8, HandlerHandles
  <2>11. Deadline!Handle(Armed(timeoutTimers) \ {j}, DueNow \ {j}, aborted, started)
    BY <2>3, <2>5, <2>10
  <2>12. j \in DueNow \/ Strays[j] > 0
    BY <2>1, <2>6
  <2>13. Deadline!Fire(j, aborted, started)
    BY <2>2, <2>9, <2>11, <2>12 DEF Deadline!Fire, DueTimers, OfEvent
  <2> QED BY <2>1, <2>13 DEF Deadline!Next
<1>3. ASSUME NEW t \in Timers, Expire(t)
      PROVE  Deadline!Next
  <2>1. /\ t \in running /\ running' = running \ {t} /\ waiting' = waiting \cup {t}
        /\ handled' = NoKey /\ asked' = <<{}, {}>>
        /\ UNCHANGED timeoutTimers
    BY <1>3 DEF Expire
  <2>2. Orphans' = Orphans
    BY <2>1 DEF Orphans, TimersOf, Armed
  <2>3. Strays' = Strays
    BY <2>2 DEF OfEvent
  <2>4. Armed(timeoutTimers)' = Armed(timeoutTimers)
    BY <2>1 DEF Armed
  <2>5. t[1] \in Keys /\ t = <<t[1], t[2]>>
    BY DEF Timers
  <2>6. CASE t = <<t[1], timeoutTimers[t[1]]>> /\ t[1] \in Armed(timeoutTimers)
    <3>1. DueNow' = DueNow \cup {t[1]}
      BY <2>1, <2>5, <2>6 DEF DueTimers, Armed
    <3>2. Deadline!ComeDue(t[1])
      BY <2>1, <2>3, <2>4, <2>6, <3>1 DEF Deadline!ComeDue, DueTimers, OfEvent
    <3> QED BY <2>5, <3>2 DEF Deadline!Next
  <2>7. CASE ~ (t = <<t[1], timeoutTimers[t[1]]>> /\ t[1] \in Armed(timeoutTimers))
    <3>1. DueNow' = DueNow
      BY <2>1, <2>5, <2>7 DEF DueTimers, Armed
    <3>2. Deadline!Handle(Armed(timeoutTimers), DueNow, {}, {})
      BY <2>1, <2>3, <2>4, <3>1 DEF Deadline!Handle, DueTimers, OfEvent
    <3>3. Deadline!Other({}, {})
      BY <2>1, <3>2 DEF Deadline!Other, DueTimers
    <3> QED BY <3>3 DEF Deadline!Next
  <2> QED BY <2>6, <2>7
<1>4. ASSUME NEW t \in Timers, Discard(t)
      PROVE  Deadline!Next
  <2> DEFINE j == t[1]
             S == OfEvent(j, Orphans)
  <2>1. /\ t \in waiting /\ timeoutTimers[j] = 0 /\ waiting' = waiting \ {t}
        /\ handled' = NoKey /\ asked' = <<{}, {}>>
        /\ UNCHANGED <<timeoutTimers, running>>
    BY <1>4, <1>0 DEF Discard, Current, Timers, TypeOK
  <2>2. j \in Keys /\ t = <<j, t[2]>> /\ j \notin Armed(timeoutTimers)
    BY <2>1 DEF Timers, Armed
  <2>3. t \in S
    BY <2>1, <2>2 DEF OfEvent, Orphans, TimersOf
  <2>4. Orphans' = Orphans \ {t}
    BY <1>0, <2>1 DEF Orphans, TimersOf, Armed, Apart
  <2>5. \A k \in Keys : OfEvent(k, Orphans)' = IF k = j THEN S \ {t} ELSE OfEvent(k, Orphans)
    BY <2>4 DEF OfEvent
  <2>6. IsFiniteSet(S) /\ Cardinality(S) \in Nat
    <3>1. S \subseteq Timers
      BY <1>0 DEF OfEvent, Orphans, TypeOK
    <3> QED BY <3>1, TimersFinite, FS_CardinalityType
  <2> HIDE DEF S
  <2>7. Cardinality(S \ {t}) = Cardinality(S) - 1 /\ Cardinality(S) > 0
    BY <2>3, <2>6, FS_RemoveElement, FS_EmptySet
  <2>8. DueNow' = DueNow /\ Armed(timeoutTimers)' = Armed(timeoutTimers)
    BY <2>1, <2>2 DEF DueTimers, Armed
  <2>9. Strays' = [Strays EXCEPT ![j] = @ - 1] /\ Strays[j] > 0
    BY <2>2, <2>5, <2>7 DEF S
  <2>10. Deadline!Drop(j)
    BY <2>1, <2>2, <2>8, <2>9 DEF Deadline!Drop, DueTimers, OfEvent
  <2> QED BY <2>2, <2>10 DEF Deadline!Next
<1>5. CASE UNCHANGED vars
  BY <1>5 DEF vars, Deadline!vars, Armed, Orphans, TimersOf
<1> QED BY <1>1, <1>2, <1>3, <1>4, <1>5 DEF Next, Take

\* The goroutines and the map of timedEvent, abortTimedEvent and loop implement
\* deadlines: what handlers abort and start is disarmed and armed and nothing
\* else, and an event is handled only when its deadline is due or an earlier
\* one was aborted too late, each such abort letting through one event.
THEOREM TimersImplementDeadlines == Spec => DeadlineSpec
<1>1. Init => Deadline!Init
  <2> SUFFICES ASSUME Init PROVE Deadline!Init
    OBVIOUS
  <2>1. Armed(timeoutTimers) = {} /\ DueTimers(timeoutTimers, waiting) = {}
    BY DEF Init, Armed, DueTimers
  <2>2. \A k \in Keys : OfEvent(k, Orphans) = {}
    BY DEF Init, Orphans, OfEvent
  <2>3. [k \in Keys |-> Cardinality(OfEvent(k, Orphans))] = [k \in Keys |-> 0]
    BY <2>2, FS_EmptySet
  <2> QED BY <2>1, <2>3 DEF Init, Deadline!Init, DueTimers, OfEvent
<1>2. Init => OrphansInv
  BY OrphansInvInit
<1>3. OrphansInv /\ [Next]_vars => OrphansInv'
  BY OrphansStep
<1>4. OrphansInv /\ [Next]_vars => [Deadline!Next]_(Deadline!vars)
  BY DeadlineStep
<1> QED BY <1>1, <1>2, <1>3, <1>4, PTL DEF Spec, DeadlineSpec, Deadline!Spec
=============================================================================
