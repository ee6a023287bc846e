----------------------------- MODULE TimedEvent -----------------------------
(***************************************************************************)
(* The timers of discovery/net.go as they are implemented: timedEvent      *)
(* starts a time.AfterFunc, whose goroutine, once the time has passed,     *)
(* waits on the unbuffered channel net.timeout until loop takes its event; *)
(* timeoutTimers maps an event to the timer armed for it last.             *)
(* abortTimedEvent stops the timer and removes the entry, but cannot       *)
(* recall a goroutine that already waits.  loop ignores an event without   *)
(* an entry.  It cannot tell whose event it takes, only that some timer    *)
(* is armed for it.                                                        *)
(*                                                                         *)
(* A timer is identified by its event and the number of its start.  The    *)
(* handlers are Network's; here they are any set of events aborted and any *)
(* set started, the latter not armed, which is what Network guarantees     *)
(* (its pings and queries are timed exactly while they are open).          *)
(***************************************************************************)
EXTENDS Integers, FiniteSets

CONSTANTS Keys,        \* timeoutEvent values: an event and a node
          NoKey,       \* no event
          MaxStarts    \* bound: how often each event's timer is started

ASSUME KeysAssumption == IsFiniteSet(Keys)
ASSUME NoKeyAssumption == NoKey \notin Keys
ASSUME MaxStartsAssumption == MaxStarts \in Nat

VARIABLES
  starts,         \* for each event, the timers started for it so far
  timeoutTimers,  \* net.timeoutTimers: for each event its timer, 0 for nil
  running,        \* the timers whose time has not passed
  waiting,        \* the timers whose goroutine waits on net.timeout
  late,           \* history: the timers aborted when they were waiting
  handled,        \* history: the event the last step handled, or NoKey
  asked           \* history: the events its handler aborted and started

vars == <<starts, timeoutTimers, running, waiting, late, handled, asked>>

Timers == Keys \X (1 .. MaxStarts)

Init ==
  /\ starts = [k \in Keys |-> 0]
  /\ timeoutTimers = [k \in Keys |-> 0]
  /\ running = {}
  /\ waiting = {}
  /\ late = {}
  /\ handled = NoKey
  /\ asked = <<{}, {}>>

\* The entries of map for the events in K.
Armed(map) == {k \in Keys : map[k] # 0}
TimersOf(map, K) == {<<k, map[k]>> : k \in K \cap Armed(map)}

\* abortTimedEvent for the events in aborted, then timedEvent for those in
\* started, from the entries in map.
NotStopped(map, aborted) == {}
StoppedAll(map, aborted) == running
Stopped(map, aborted) == TimersOf(map, aborted)
Handler(map, aborted, started) ==
  LET next == [k \in Keys |-> IF k \in started THEN starts[k] + 1 ELSE starts[k]]
  IN  /\ started \cap Armed(map) \subseteq aborted
      /\ \A k \in started : starts[k] < MaxStarts
      /\ starts' = next
      /\ timeoutTimers' = [k \in Keys |-> IF k \in started THEN next[k]
                                          ELSE IF k \in aborted THEN 0
                                          ELSE map[k]]
      /\ running' = (running \ Stopped(map, aborted)) \cup TimersOf(next, started)
      /\ late' = late \cup (TimersOf(map, aborted) \cap waiting)
      /\ asked' = <<aborted, started>>

\* A packet, a query or a refresh is handled.
Other(aborted, started) ==
  /\ Handler(timeoutTimers, aborted, started)
  /\ handled' = NoKey
  /\ UNCHANGED waiting

\* The time of a timer has passed: its goroutine starts to wait.
Expire(t) ==
  /\ t \in running
  /\ running' = running \ {t}
  /\ waiting' = waiting \cup {t}
  /\ handled' = NoKey
  /\ asked' = <<{}, {}>>
  /\ UNCHANGED <<starts, timeoutTimers, late>>

\* loop takes the event of t.  If there is an entry for it, it is removed and
\* the event is handled.
Current(k) == timeoutTimers[k] # 0
RemovedNever(k) == timeoutTimers
Removed(k) == [timeoutTimers EXCEPT ![k] = 0]
Deliver(t, aborted, started) ==
  /\ t \in waiting
  /\ Current(t[1])
  /\ waiting' = waiting \ {t}
  /\ Handler(Removed(t[1]), aborted, started)
  /\ handled' = t[1]

\* "Stale timer (was aborted)."
Discard(t) ==
  /\ t \in waiting
  /\ ~ Current(t[1])
  /\ waiting' = waiting \ {t}
  /\ handled' = NoKey
  /\ asked' = <<{}, {}>>
  /\ UNCHANGED <<starts, timeoutTimers, running, late>>

Take(t) ==
  \/ \E aborted, started \in SUBSET Keys : Deliver(t, aborted, started)
  \/ Discard(t)

Next ==
  \/ \E aborted, started \in SUBSET Keys : Other(aborted, started)
  \/ \E t \in Timers : Expire(t) \/ Take(t)

Spec == Init /\ [][Next]_vars

-----------------------------------------------------------------------------
\* The variables' types.
TypeOK ==
  /\ starts \in [Keys -> 0 .. MaxStarts]
  /\ timeoutTimers \in [Keys -> 0 .. MaxStarts]
  /\ running \subseteq Timers
  /\ waiting \subseteq Timers
  /\ late \subseteq Timers
  /\ handled \in Keys \cup {NoKey}
  /\ asked \in (SUBSET Keys) \X (SUBSET Keys)

\* A deadline is never lost: the timer of each entry is still running or has
\* its goroutine waiting, also when the event of an older timer was taken for
\* that of a newer one in between.
ArmedAlive == TimersOf(timeoutTimers, Keys) \subseteq running \cup waiting

\* The goroutines still alive whose timer is not the armed one.  Each can make
\* a later deadline of its event fire early.
Orphans == (running \cup waiting) \ TimersOf(timeoutTimers, Keys)

\* Timers are exact but for one race: as long as no timer was aborted after
\* its time had passed, every goroutine belongs to the entry of its event, so
\* that an event is handled only when the time of the armed timer has passed.
\* And each such abort leaves at most one goroutine too many, however often
\* events are mistaken for one another later.
OrphansAreLate == Cardinality(Orphans) <= Cardinality(late)

\* The goroutines and the map implement deadlines that come due: what handlers
\* abort and start is disarmed and armed and nothing else, an event is handled
\* only when its own deadline is due or an earlier deadline of that event was
\* aborted too late, and it disarms that deadline alone.
Deadline == INSTANCE Deadlines WITH
  armed <- Armed(timeoutTimers),
  due <- {k \in Armed(timeoutTimers) : <<k, timeoutTimers[k]>> \in waiting},
  stray <- [k \in Keys |-> Cardinality({t \in Orphans : t[1] = k})]
DeadlineSpec == Deadline!Spec
=============================================================================
