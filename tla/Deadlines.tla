------------------------------ MODULE Deadlines ------------------------------
(***************************************************************************)
(* What the main loop has of its timers: armed deadlines, which come due.  *)
(* Handlers ask for deadlines to be aborted and started, and exactly these *)
(* are.  The event of an armed deadline is handled once it is due, which   *)
(* disarms it, with one exception: when a deadline is aborted that was due *)
(* already, its event is still on its way (stray).  It is dropped, unless  *)
(* it meets a deadline of the same event that was armed since: then it is  *)
(* taken for that deadline, whose own event becomes the stray one.         *)
(*                                                                         *)
(* Network is written against this (Network!timeoutTimers), and lets armed *)
(* deadlines fire at any time.  TimedEvent, where the deadlines are        *)
(* goroutines and a map, implements it (TimedEvent!Deadline).              *)
(***************************************************************************)
EXTENDS Naturals

CONSTANTS Keys,    \* the events that can have a deadline: timeoutEvent values
          NoKey    \* no event

VARIABLES armed,   \* the armed deadlines
          due,     \* those whose time has passed
          stray,   \* for each event, how many are on their way without a deadline
          handled, \* the event the last step handled, or NoKey
          asked    \* the aborts and starts its handler asked for

vars == <<armed, due, stray, handled, asked>>

Init ==
  /\ armed = {} /\ due = {}
  /\ stray = [k \in Keys |-> 0]
  /\ handled = NoKey
  /\ asked = <<{}, {}>>

\* A handler runs with the deadlines in kept armed, those in overdue being due.
Handle(kept, overdue, aborted, started) ==
  /\ armed' = (kept \ aborted) \cup started
  /\ due' = (overdue \ aborted) \ started
  /\ stray' = [k \in Keys |-> IF k \in aborted \cap overdue THEN stray[k] + 1 ELSE stray[k]]
  /\ asked' = <<aborted, started>>

\* A packet, a query, a refresh, or nothing at all.
Other(aborted, started) ==
  /\ Handle(armed, due, aborted, started)
  /\ handled' = NoKey

\* The event of k is handled, once k is due or in place of a stray event.
Fire(k, aborted, started) ==
  /\ k \in armed
  /\ k \in due \/ stray[k] > 0
  /\ Handle(armed \ {k}, due \ {k}, aborted, started)
  /\ handled' = k

\* The time of k has passed.
ComeDue(k) ==
  /\ k \in armed
  /\ due' = due \cup {k}
  /\ handled' = NoKey
  /\ asked' = <<{}, {}>>
  /\ UNCHANGED <<armed, stray>>

\* A stray event meets no deadline.
Drop(k) ==
  /\ k \notin armed
  /\ stray[k] > 0
  /\ stray' = [stray EXCEPT ![k] = @ - 1]
  /\ handled' = NoKey
  /\ asked' = <<{}, {}>>
  /\ UNCHANGED <<armed, due>>

Next ==
  \/ \E aborted, started \in SUBSET Keys :
       \/ \E k \in Keys : Fire(k, aborted, started)
       \/ Other(aborted, started)
  \/ \E k \in Keys : ComeDue(k) \/ Drop(k)

Spec == Init /\ [][Next]_vars
=============================================================================
