------------------------------ MODULE IPTracker ------------------------------
(***************************************************************************)
(* IPTracker of netutil/iptrack.go: predicts our external endpoint from    *)
(* what other hosts state about it, and whether we are behind a full cone  *)
(* NAT from who stated it.  Statements and contacts are kept for a window  *)
(* and are collected lazily: by the predictions, and by an insertion when  *)
(* the last collection was a window ago.                                   *)
(*                                                                         *)
(* The clock is an integer that the calls only read.  The Go maps are      *)
(* partial functions.  What was said is also recorded in two history       *)
(* variables that nothing is removed from, so that a prediction can be     *)
(* compared with it.  What a prediction returns is a function of the maps  *)
(* it leaves; the properties ask for it in every state.                    *)
(***************************************************************************)
EXTENDS Integers, FiniteSets, SequencesExt, FiniteSetsExt

CONSTANTS Hosts,          \* hosts that make statements
          Contacts,       \* the hosts among them that we contact
          Endpoints,      \* endpoints they may state
          NoEndpoint,     \* the empty prediction
          Window,         \* window
          ContactWindow,  \* contactWindow
          MinStatements,  \* minStatements
          MaxTime         \* bound of the clock

ASSUME ContactsAssumption == Contacts \subseteq Hosts
ASSUME NoEndpointAssumption == NoEndpoint \notin Endpoints
ASSUME WindowAssumption == Window \in Nat \ {0} /\ ContactWindow \in Nat \ {0}
ASSUME MinStatementsAssumption == MinStatements \in Nat
ASSUME MaxTimeAssumption == MaxTime \in Nat

VARIABLES
  now,              \* it.clock
  statements,       \* it.statements: [endpoint, time] of some hosts
  contact,          \* it.contact: a time for some hosts
  lastStatementGC,  \* it.lastStatementGC
  lastContactGC,    \* it.lastContactGC
  stated,           \* history: each host's last statement, if it made one
  contacted         \* history: when each host was contacted first, if it was

tracker == <<statements, contact, lastStatementGC, lastContactGC>>
vars == <<now, tracker, stated, contacted>>

Put(map, h, x) == [g \in DOMAIN map \cup {h} |-> IF g = h THEN x ELSE map[g]]
Keep(map, hs) == [g \in DOMAIN map \cap hs |-> map[g]]
Nothing == [h \in {} |-> 0]

Init ==
  /\ now = 0
  /\ statements = Nothing
  /\ contact = Nothing
  /\ lastStatementGC = 0
  /\ lastContactGC = 0
  /\ stated = Nothing
  /\ contacted = Nothing

-----------------------------------------------------------------------------
(* Collection *)

\* What gcStatements and gcContact leave of a map.
Recent(map) == Keep(map, {h \in DOMAIN map : map[h].time >= now - Window})
RecentContacts(map) == Keep(map, {h \in DOMAIN map : map[h] >= now - ContactWindow})

CollectStatements(map) == statements' = Recent(map) /\ lastStatementGC' = now
CollectContacts(map) == contact' = RecentContacts(map) /\ lastContactGC' = now

\* An insertion collects when the last collection was a window ago.
NeverDue == FALSE
StatementsDue == now - lastStatementGC >= Window
ContactsDue == now - lastContactGC >= ContactWindow

-----------------------------------------------------------------------------
(* The calls *)

AddStatement(h, e) ==
  LET st   == [endpoint |-> e, time |-> now]
      with == Put(statements, h, st)
  IN  /\ \/ StatementsDue /\ CollectStatements(with)
         \/ ~ StatementsDue /\ statements' = with /\ UNCHANGED lastStatementGC
      /\ stated' = Put(stated, h, st)
      /\ UNCHANGED <<now, contact, lastContactGC, contacted>>

AddContact(h) ==
  LET with == Put(contact, h, now)
  IN  /\ \/ ContactsDue /\ CollectContacts(with)
         \/ ~ ContactsDue /\ contact' = with /\ UNCHANGED lastContactGC
      /\ contacted' = IF h \in DOMAIN contacted THEN contacted ELSE Put(contacted, h, now)
      /\ UNCHANGED <<now, statements, lastStatementGC, stated>>

\* The loop of PredictEndpoint over the statements sts, which a Go map yields
\* in any order: the first endpoint to reach the highest count.
CountTo(sts, order, i) ==
  Cardinality({j \in 1 .. i : sts[order[j]].endpoint = sts[order[i]].endpoint})
FirstThatSuffices(sts, order) ==
  FoldLeftDomain(LAMBDA best, i :
      IF best.count = 0 /\ CountTo(sts, order, i) >= MinStatements
      THEN [count |-> CountTo(sts, order, i), max |-> sts[order[i]].endpoint]
      ELSE best,
    [count |-> 0, max |-> NoEndpoint], order).max
Predicted(sts, order) ==
  FoldLeftDomain(LAMBDA best, i :
      IF CountTo(sts, order, i) > best.count /\ CountTo(sts, order, i) >= MinStatements
      THEN [count |-> CountTo(sts, order, i), max |-> sts[order[i]].endpoint]
      ELSE best,
    [count |-> 0, max |-> NoEndpoint], order).max

PredictEndpoint ==
  /\ CollectStatements(statements)
  /\ UNCHANGED <<now, contact, lastContactGC, stated, contacted>>

\* PredictFullConeNAT: the host of some statement is not among the contacts,
\* or was contacted after it.
FullConeUntimed(sts, cts) == \E h \in DOMAIN sts : h \notin DOMAIN cts
FullCone(sts, cts) ==
  \E h \in DOMAIN sts : h \notin DOMAIN cts \/ cts[h] > sts[h].time

PredictFullConeNAT ==
  /\ CollectContacts(contact)
  /\ CollectStatements(statements)
  /\ UNCHANGED <<now, stated, contacted>>

Tick ==
  /\ now < MaxTime
  /\ now' = now + 1
  /\ UNCHANGED <<tracker, stated, contacted>>

TrackerNext ==
  \/ \E h \in Hosts, e \in Endpoints : AddStatement(h, e)
  \/ \E h \in Contacts : AddContact(h)
  \/ PredictEndpoint
  \/ PredictFullConeNAT
  \/ Tick

Spec == Init /\ [][TrackerNext]_vars

-----------------------------------------------------------------------------
\* The variables' types: nothing kept is from the future.
TypeOK ==
  /\ now \in 0 .. MaxTime
  /\ DOMAIN statements \subseteq Hosts
  /\ \A h \in DOMAIN statements : statements[h] \in [endpoint : Endpoints, time : 0 .. now]
  /\ DOMAIN contact \subseteq Contacts
  /\ \A h \in DOMAIN contact : contact[h] \in 0 .. now
  /\ lastStatementGC \in 0 .. now
  /\ lastContactGC \in 0 .. now

\* The votes for e: the hosts whose last statement is e and within the window.
InWindow(h) == now - stated[h].time <= Window
Votes(e) == Cardinality({h \in DOMAIN stated : stated[h].endpoint = e /\ InWindow(h)})

\* PredictEndpoint names an endpoint that none has more votes than, if any has
\* enough of them: collecting statements lazily, at different moments, and
\* scanning the map in any order neither loses a vote nor counts an old one.
PredictionIsMajority ==
  LET sts    == Recent(statements)
      enough == {e \in Endpoints : Votes(e) > 0 /\ Votes(e) >= MinStatements}
  IN  \A order \in SetToSeqs(DOMAIN sts) :
        IF enough = {}
        THEN Predicted(sts, order) = NoEndpoint
        ELSE /\ Predicted(sts, order) \in enough
             /\ \A e \in enough : Votes(e) <= Votes(Predicted(sts, order))

\* "old statements and contacts are GCed even if Predict* isn't called" (the
\* comment of the test): an insertion leaves nothing of two windows ago, at
\* whatever moments the insertions before it were made and collected.
InsertionsCollect ==
  [][/\ stated' # stated =>
          \A h \in DOMAIN statements' : now - statements'[h].time < 2 * Window
     /\ contact' # contact =>
          \A h \in DOMAIN contact' : now - contact'[h] < 2 * ContactWindow]_vars

ContactedBefore(h) == h \in DOMAIN contacted /\ contacted[h] <= stated[h].time
ConePredicted == FullCone(Recent(statements), RecentContacts(contact))

\* As long as no full cone NAT is predicted, every host with a statement in
\* the window was contacted before it made it.
NoConeMeansContacted ==
  ~ ConePredicted => \A h \in DOMAIN stated : InWindow(h) => ContactedBefore(h)

-----------------------------------------------------------------------------
(* Stated by a comment of the code, and not true of it *)

\* "It predicts by checking whether any statement has been received from a
\* node we didn't contact before the statement was made."
ConeMeansUncontacted ==
  ConePredicted => \E h \in DOMAIN stated : InWindow(h) /\ ~ ContactedBefore(h)
=============================================================================
