---------------------------- MODULE HelperProofs ----------------------------
(***************************************************************************)
(* Proofs about the small components, which share nothing: Server,         *)
(* RelayedIP, IPTracker, NetSet, Metric and Neighbours, for any number of  *)
(* networks, hosts, addresses and nodes and any width of hashes.           *)
(***************************************************************************)
EXTENDS Server, RelayedIP, IPTracker, NetSet, Metric, Neighbours, SequenceLemmas

-----------------------------------------------------------------------------
(* Server *)

Nets == [port : {"fixed", "any"}, bound : BOOLEAN]

\* The types without the cardinality, and at most one holder of the port.
ServerTypes ==
  /\ config \in Configs
  /\ running \in BOOLEAN
  /\ quit \in {"nil", "open", "closed"}
  /\ DiscNetwork \in 0 .. Len(networks)
  /\ networks \in Seq(Nets)
  /\ Len(networks) <= MaxNetworks
  /\ taken \in BOOLEAN
  /\ panicked \in BOOLEAN
  /\ keyless \in BOOLEAN
  /\ spoiled \in BOOLEAN

OneHolder == \A i, j \in Holding : i = j

ServerInv == ServerTypes /\ OneHolder

\* quit follows running, except from a Start without a key to the next Start,
\* and Stop panics then only.
QuitFollows ==
  /\ ~ keyless => (running <=> quit = "open")
  /\ panicked => keyless

\* Unless something else failed, every network is bound, and the last one is
\* the server's; if it is to serve there is one.
AllBound ==
  ~ spoiled =>
    /\ DiscNetwork = Len(networks)
    /\ \A i \in DOMAIN networks : networks[i].bound
    /\ running /\ ~ keyless /\ ~ Disabled(config) => networks # <<>>

-----------------------------------------------------------------------------
\* The holders of the port change with the networks only.
LEMMA HoldersKept == ASSUME OneHolder, UNCHANGED networks PROVE OneHolder'
BY DEF OneHolder, Holding, Bound

\* A new network is the last one, and the others stay as they are.
LEMMA NetworkAdded ==
  ASSUME ServerTypes, PortFree,
         networks' = Append(networks, [port |-> config.port, bound |-> TRUE])
  PROVE  /\ networks' \in Seq(Nets)
         /\ Len(networks') = Len(networks) + 1
         /\ networks' # <<>>
         /\ DOMAIN networks' = DOMAIN networks \cup {Len(networks) + 1}
         /\ networks'[Len(networks) + 1].port = config.port
         /\ networks'[Len(networks) + 1].bound
         /\ \A i \in DOMAIN networks : networks'[i] = networks[i]
<1> DEFINE net == [port |-> config.port, bound |-> TRUE]
<1>1. net \in Nets /\ networks \in Seq(Nets)
  BY DEF ServerTypes, PortFree, Nets
<1>2. net.port = config.port /\ net.bound
  OBVIOUS
<1> HIDE DEF net
<1>3. networks' = Append(networks, net)
  BY DEF net
<1>4. /\ networks' \in Seq(Nets)
      /\ Len(networks') = Len(networks) + 1
      /\ networks' # <<>>
      /\ DOMAIN networks' = DOMAIN networks \cup {Len(networks) + 1}
      /\ networks'[Len(networks) + 1] = net
      /\ \A i \in DOMAIN networks : networks'[i] = networks[i]
  BY <1>1, <1>3, AppendProperties, LenProperties
<1> QED BY <1>2, <1>4

\* A network that is no longer bound is otherwise as it was.
LEMMA NetworkUnbound ==
  ASSUME ServerTypes, NEW i \in DOMAIN networks,
         networks' = [networks EXCEPT ![i].bound = FALSE]
  PROVE  /\ networks' \in Seq(Nets)
         /\ Len(networks') = Len(networks)
         /\ Holding' \subseteq Holding
<1> DEFINE net == [networks[i] EXCEPT !.bound = FALSE]
<1>1. networks \in Seq(Nets)
  BY DEF ServerTypes
<1>2. i \in 1 .. Len(networks) /\ networks[i] \in Nets
  BY <1>1, LenProperties, ElementOfSeq
<1>3. net \in Nets /\ ~ net.bound
  BY <1>2 DEF Nets
<1> HIDE DEF net
<1>4. networks' = [networks EXCEPT ![i] = net]
  BY DEF net
<1>5. /\ networks' \in Seq(Nets)
      /\ Len(networks') = Len(networks)
      /\ networks'[i] = net
      /\ \A j \in 1 .. Len(networks) : j # i => networks'[j] = networks[j]
  <2> DEFINE new == [networks EXCEPT ![i] = net]
  <2>1. /\ new \in Seq(Nets)
        /\ Len(new) = Len(networks)
        /\ \A j \in 1 .. Len(networks) : new[j] = IF j = i THEN net ELSE networks[j]
    BY <1>1, <1>2, <1>3, ExceptSeq
  <2> HIDE DEF new
  <2>2. networks' = new
    BY <1>4 DEF new
  <2> QED BY <1>2, <2>1, <2>2
<1>6. DOMAIN networks' = DOMAIN networks
  BY <1>4
<1>7. DOMAIN networks = 1 .. Len(networks)
  BY <1>1, LenProperties
<1>8. Holding' \subseteq Holding
  BY <1>3, <1>5, <1>6, <1>7 DEF Holding, Bound
<1> QED BY <1>5, <1>8

\* Networks are only added, and only when they can have their port.
LEMMA ServerTypesStep ==
  ASSUME ServerInv, [ServerNext]_serverVars
  PROVE  ServerInv'
<1> USE MaxNetworksAssumption
<1>0. ServerTypes /\ OneHolder
  BY DEF ServerInv
<1>1. CASE StartWithoutKey
  BY <1>0, <1>1, HoldersKept DEF StartWithoutKey, ServerInv, ServerTypes
<1>2. CASE Start
  <2>1. CASE WithoutDiscovery
    BY <1>0, <1>2, <2>1, HoldersKept DEF Start, NewQuit, WithoutDiscovery, ServerInv, ServerTypes
  <2>2. CASE ListenFails
    BY <1>0, <1>2, <2>2, HoldersKept DEF Start, NewQuit, ListenFails, BindFails, ServerInv, ServerTypes
  <2>3. CASE Listen
    <3>1. /\ networks' = Append(networks, [port |-> config.port, bound |-> TRUE])
          /\ Len(networks) < MaxNetworks
          /\ PortFree
      BY <2>3 DEF Listen
    <3>2. /\ DiscNetwork' \in {DiscNetwork, Len(networks')}
          /\ spoiled' \in BOOLEAN
      BY <1>0, <2>3 DEF Listen, ServerTypes
    <3>3. /\ networks' \in Seq(Nets)
          /\ Len(networks) \in Nat
          /\ Len(networks') = Len(networks) + 1
          /\ DiscNetwork \in 0 .. Len(networks)
      BY <1>0, <3>1, NetworkAdded, LenProperties DEF ServerTypes
    <3>4. /\ DiscNetwork' \in 0 .. Len(networks')
          /\ Len(networks') <= MaxNetworks
      BY <3>1, <3>2, <3>3
    <3>5. ServerTypes'
      BY <1>0, <1>2, <3>2, <3>3, <3>4 DEF Start, NewQuit, ServerTypes
    <3>6. OneHolder'
      <4>1. CASE config.port = "any"
        <5>1. Holding' \subseteq Holding
          BY <1>0, <3>1, <4>1, NetworkAdded DEF Holding, Bound
        <5> QED BY <1>0, <5>1 DEF OneHolder
      <4>2. CASE config.port # "any"
        <5>1. Holding = {}
          BY <3>1, <4>2 DEF PortFree
        <5>2. Holding' \subseteq {Len(networks) + 1}
          BY <1>0, <3>1, <5>1, NetworkAdded DEF Holding, Bound
        <5> QED BY <5>2 DEF OneHolder
      <4> QED BY <4>1, <4>2
    <3> QED BY <3>5, <3>6 DEF ServerInv
  <2> QED BY <1>2, <2>1, <2>2, <2>3 DEF Start
<1>3. CASE Stop
  BY <1>0, <1>3, HoldersKept DEF Stop, ServerInv, ServerTypes
<1>4. ASSUME NEW c \in Configs, Configure(c) PROVE ServerInv'
  BY <1>0, <1>4, HoldersKept DEF Configure, ServerInv, ServerTypes
<1>5. ASSUME NEW i \in DOMAIN networks, ReadFails(i) PROVE ServerInv'
  <2>1. networks' = [networks EXCEPT ![i].bound = FALSE]
    BY <1>5 DEF ReadFails
  <2>2. OneHolder'
    BY <1>0, <2>1, NetworkUnbound DEF OneHolder
  <2>3. ServerTypes'
    BY <1>0, <1>5, <2>1, NetworkUnbound DEF ReadFails, ServerTypes
  <2> QED BY <2>2, <2>3 DEF ServerInv
<1>6. CASE Rival
  BY <1>0, <1>6, HoldersKept DEF Rival, ServerInv, ServerTypes
<1>7. CASE UNCHANGED serverVars
  BY <1>0, <1>7, HoldersKept DEF serverVars, ServerInv, ServerTypes
<1> QED BY <1>1, <1>2, <1>3, <1>4, <1>5, <1>6, <1>7 DEF ServerNext

\* At first there is no network.
LEMMA ServerTypesInit == ServerInit => ServerInv /\ AllBound
<1> SUFFICES ASSUME ServerInit PROVE ServerInv /\ AllBound
  OBVIOUS
<1>1. networks = <<>> /\ DOMAIN networks = {} /\ Len(networks) = 0
  BY DEF ServerInit
<1>2. ServerTypes
  <2>1. networks \in Seq(Nets)
    BY <1>1, EmptySeq
  <2>2. DiscNetwork \in 0 .. Len(networks) /\ Len(networks) <= MaxNetworks
    BY <1>1, MaxNetworksAssumption DEF ServerInit
  <2>3. /\ config \in Configs /\ running \in BOOLEAN /\ taken \in BOOLEAN
        /\ panicked \in BOOLEAN /\ keyless \in BOOLEAN /\ spoiled \in BOOLEAN
        /\ quit \in {"nil", "open", "closed"}
    BY DEF ServerInit
  <2> QED BY <2>1, <2>2, <2>3 DEF ServerTypes
<1>3. OneHolder
  BY <1>1 DEF OneHolder, Holding
<1>4. AllBound
  BY <1>1 DEF ServerInit, AllBound
<1> QED BY <1>2, <1>3, <1>4 DEF ServerInv

\* The types, and at most one network with the fixed port: a run that finds the
\* port taken does not share it (setupDiscovery's net.ListenUDP).
THEOREM ServerTypeCorrect == ServerSpec => []ServerTypeOK
<1>1. ServerInit => ServerInv
  BY ServerTypesInit
<1>2. ServerInv /\ [ServerNext]_serverVars => ServerInv'
  BY ServerTypesStep
<1>3. ServerInv => ServerTypeOK
  <2> SUFFICES ASSUME ServerInv PROVE ServerTypeOK
    OBVIOUS
  <2>1. CASE Holding = {}
    <3>1. Cardinality(Holding) = 0
      BY <2>1, FS_EmptySet
    <3> QED BY <3>1 DEF ServerInv, ServerTypes, ServerTypeOK, Nets
  <2>2. CASE Holding # {}
    <3>1. PICK i : Holding = {i}
      BY <2>2 DEF ServerInv, OneHolder
    <3>2. Cardinality(Holding) = 1
      BY <3>1, FS_Singleton
    <3> QED BY <3>2 DEF ServerInv, ServerTypes, ServerTypeOK, Nets
  <2> QED BY <2>1, <2>2
<1> QED BY <1>1, <1>2, <1>3, PTL DEF ServerSpec

-----------------------------------------------------------------------------
\* Stop panics only after a Start that failed for want of a key (Server.Start
\* sets running before it checks the key, and makes quit after it).
THEOREM PanicsOnlyKeyless == ServerSpec => []PanicsWithoutKey
<1>1. ServerInit => QuitFollows
  BY DEF ServerInit, QuitFollows
<1>2. QuitFollows /\ [ServerNext]_serverVars => QuitFollows'
  <2> SUFFICES ASSUME QuitFollows, [ServerNext]_serverVars PROVE QuitFollows'
    OBVIOUS
  <2> USE DEF QuitFollows
  <2>1. CASE StartWithoutKey
    BY <2>1 DEF StartWithoutKey
  <2>2. CASE Start
    BY <2>2 DEF Start, NewQuit
  <2>3. CASE Stop
    BY <2>3 DEF Stop
  <2>4. ASSUME NEW c \in Configs, Configure(c) PROVE QuitFollows'
    BY <2>4 DEF Configure
  <2>5. ASSUME NEW i \in DOMAIN networks, ReadFails(i) PROVE QuitFollows'
    BY <2>5 DEF ReadFails
  <2>6. CASE Rival
    BY <2>6 DEF Rival
  <2>7. CASE UNCHANGED serverVars
    BY <2>7 DEF serverVars
  <2> QED BY <2>1, <2>2, <2>3, <2>4, <2>5, <2>6, <2>7 DEF ServerNext
<1>3. QuitFollows => PanicsWithoutKey
  BY DEF QuitFollows, PanicsWithoutKey
<1> QED BY <1>1, <1>2, <1>3, PTL DEF ServerSpec

-----------------------------------------------------------------------------
\* Every network is bound, and the last one is the server's, through starts
\* that find the port taken by the network of an earlier run.
LEMMA AllBoundStep ==
  ASSUME ServerInv, AllBound, [ServerNext]_serverVars
  PROVE  AllBound'
<1> USE DEF AllBound
<1>1. CASE StartWithoutKey
  BY <1>1 DEF StartWithoutKey
<1>2. CASE Start
  <2>1. CASE WithoutDiscovery
    BY <1>2, <2>1 DEF Start, WithoutDiscovery
  <2>2. CASE ListenFails
    <3>1. /\ UNCHANGED <<networks, DiscNetwork, config>>
          /\ ~ spoiled' => ~ spoiled /\ Holding # {}
      BY <1>2, <2>2 DEF Start, ListenFails, BindFails
    <3>2. Holding # {} => networks # <<>>
      BY DEF Holding
    <3> QED BY <3>1, <3>2 DEF ServerInv, ServerTypes
  <2>3. CASE Listen
    <3>1. /\ networks' = Append(networks, [port |-> config.port, bound |-> TRUE])
          /\ PortFree
          /\ ~ spoiled' => ~ spoiled /\ DiscNetwork' = Len(networks')
      BY <2>3 DEF Listen, ServerInv, ServerTypes, Configs
    <3> QED BY <3>1, NetworkAdded DEF ServerInv
  <2> QED BY <1>2, <2>1, <2>2, <2>3 DEF Start
<1>3. CASE Stop
  BY <1>3 DEF Stop
<1>4. ASSUME NEW c \in Configs, Configure(c) PROVE AllBound'
  BY <1>4 DEF Configure
<1>5. ASSUME NEW i \in DOMAIN networks, ReadFails(i) PROVE AllBound'
  BY <1>5 DEF ReadFails
<1>6. CASE Rival
  BY <1>6 DEF Rival
<1>7. CASE UNCHANGED serverVars
  BY <1>7 DEF serverVars
<1> QED BY <1>1, <1>2, <1>3, <1>4, <1>5, <1>6, <1>7 DEF ServerNext

\* A server that should have a network has one that is listening, although
\* Start swallows the failure to bind and Stop leaves networks running.
THEOREM ServerServes == ServerSpec => []Served
<1>1. ServerInit => ServerInv /\ AllBound
  BY ServerTypesInit
<1>2. ServerInv /\ AllBound /\ [ServerNext]_serverVars => (ServerInv /\ AllBound)'
  BY ServerTypesStep, AllBoundStep
<1>3. ServerInv /\ AllBound => Served
  BY DEF ServerInv, ServerTypes, AllBound, Served, Bound
<1> QED BY <1>1, <1>2, <1>3, PTL DEF ServerSpec

-----------------------------------------------------------------------------
(* RelayedIP *)

\* No host may relay a new node that is nearer to us than the host is.
LEMMA RelayedNoNearer ==
  ASSUME NEW sender, NEW addr, CheckRelayIP(sender, addr)
  PROVE  Nearness(addr) <= Nearness(sender)
BY DEF CheckRelayIP, IsLAN, Nearness

\* As long as no address is replaced, lookups that start at a WAN host lead to
\* WAN hosts only, and those from a local network never to our own host
\* (internNodeFromNeighbours checks every new node against its last relay), for
\* any network lists and any number of nodes.
THEOREM RelaysAreNoDetour == RelaySpec => []NoDetour
<1> DEFINE Inv == IP \in [Relayed -> Addresses \cup {NoIP}] /\ NoDetour
<1>1. RelayInit => Inv
  BY DEF RelayInit, NoDetour, Interned
<1>2. Inv /\ [RelayNext]_relayVars => Inv'
  <2> SUFFICES ASSUME Inv, [RelayNext]_relayVars  PROVE Inv'
    OBVIOUS
  <2>1. ASSUME NEW n \in Relayed, NEW addr \in Addresses, NEW sender \in Senders,
               RelayNew(sender, n, addr)
        PROVE  Inv'
    <3>1. /\ n \notin Interned /\ CheckRelayIP(sender, addr)
          /\ IP' = [IP EXCEPT ![n] = addr] /\ first' = first /\ replaced' = replaced
      BY <2>1 DEF RelayNew
    <3>2. IP' \in [Relayed -> Addresses \cup {NoIP}]
      BY <3>1
    <3>3. Interned' \subseteq Interned \cup {n} /\ \A k \in Interned : IP'[k] = IP[k]
      BY <3>1 DEF Interned
    <3>4. ASSUME ~ replaced  PROVE Nearness(addr) <= Nearness(first)
      <4>1. Nearness(sender) <= Nearness(first)
        BY <3>4 DEF Senders, NoDetour, Nearness
      <4>2. Nearness(addr) <= Nearness(sender)
        BY <3>1, RelayedNoNearer
      <4> QED BY <4>1, <4>2 DEF Nearness
    <3>5. addr \notin Unspecified /\ ~ IsSpecialNetwork(addr)
      BY <3>1 DEF CheckRelayIP
    <3>6. IP'[n] = addr
      BY <3>1
    <3> QED BY <3>1, <3>2, <3>3, <3>4, <3>5, <3>6 DEF NoDetour
  <2>2. ASSUME NEW n \in Relayed, NEW addr \in Addresses, RelayInterned(n, addr)  PROVE Inv'
    BY <2>2 DEF RelayInterned, NoDetour
  <2>3. ASSUME NEW n \in Relayed, BecomeKnown(n) \/ BecomeContested(n)  PROVE Inv'
    BY <2>3 DEF BecomeKnown, BecomeContested, NoDetour, Interned
  <2>4. CASE UNCHANGED relayVars
    BY <2>4 DEF relayVars, NoDetour, Interned
  <2> QED BY <2>1, <2>2, <2>3, <2>4 DEF RelayNext
<1> QED BY <1>1, <1>2, PTL DEF RelaySpec

-----------------------------------------------------------------------------
(* IPTracker *)

\* What is kept is what was said last, all of it that is in the window; a
\* contact was no later than the one kept; and what was too old when it was
\* collected last is gone.
TrackerInv ==
  /\ TypeOK
  /\ IsFiniteSet(DOMAIN statements)
  /\ \A h \in DOMAIN stated : stated[h] \in [endpoint : Endpoints, time : 0 .. now]
  /\ \A h \in DOMAIN statements : h \in DOMAIN stated /\ statements[h] = stated[h]
  /\ \A h \in DOMAIN stated : InWindow(h) => h \in DOMAIN statements
  /\ \A h \in DOMAIN contacted : contacted[h] \in 0 .. now
  /\ \A h \in DOMAIN contact : h \in DOMAIN contacted /\ contacted[h] <= contact[h]
  /\ \A h \in DOMAIN statements : statements[h].time >= lastStatementGC - Window
  /\ \A h \in DOMAIN contact : contact[h] >= lastContactGC - ContactWindow

\* The Go maps after a collection.
LEMMA RecentValues ==
  ASSUME NEW map
  PROVE  /\ DOMAIN Recent(map) = {h \in DOMAIN map : map[h].time >= now - Window}
         /\ \A h \in DOMAIN Recent(map) : Recent(map)[h] = map[h]
         /\ DOMAIN RecentContacts(map) = {h \in DOMAIN map : map[h] >= now - ContactWindow}
         /\ \A h \in DOMAIN RecentContacts(map) : RecentContacts(map)[h] = map[h]
BY DEF Recent, RecentContacts, Keep

LEMMA TrackerInit == Init => TrackerInv
<1> SUFFICES ASSUME Init PROVE TrackerInv
  OBVIOUS
<1>1. DOMAIN Nothing = {}
  BY DEF Nothing
<1>2. TypeOK
  BY <1>1, MaxTimeAssumption DEF Init, TypeOK
<1>3. IsFiniteSet(DOMAIN statements)
  BY <1>1, FS_EmptySet DEF Init
<1> QED BY <1>1, <1>2, <1>3 DEF Init, TrackerInv

\* What the collections leave, of maps that hold what was said.
LEMMA CollectStatementsKeeps ==
  ASSUME TrackerInv, UNCHANGED <<now, stated, contact, lastContactGC, contacted>>,
         CollectStatements(statements)
  PROVE  TrackerInv'
<1>1. /\ DOMAIN statements' = {h \in DOMAIN statements : statements[h].time >= now - Window}
      /\ \A h \in DOMAIN statements' : statements'[h] = statements[h]
      /\ lastStatementGC' = now
  BY RecentValues DEF CollectStatements
<1>2. TypeOK'
  BY <1>1 DEF TrackerInv, TypeOK
<1>3. IsFiniteSet(DOMAIN statements')
  BY <1>1, FS_Subset DEF TrackerInv
<1>4. ASSUME NEW h \in DOMAIN stated, InWindow(h)'  PROVE h \in DOMAIN statements'
  <2>1. now - stated[h].time <= Window
    BY <1>4 DEF InWindow
  <2>2. h \in DOMAIN statements /\ statements[h] = stated[h]
    BY <2>1 DEF TrackerInv, InWindow
  <2>3. stated[h].time \in Int /\ now \in Int /\ Window \in Int
    BY WindowAssumption DEF TrackerInv, TypeOK
  <2> QED BY <1>1, <2>1, <2>2, <2>3
<1>5. \A h \in DOMAIN statements' : h \in DOMAIN stated /\ statements'[h] = stated[h]
  BY <1>1 DEF TrackerInv
<1>6. \A h \in DOMAIN statements' : statements'[h].time >= lastStatementGC' - Window
  BY <1>1
<1> QED BY <1>2, <1>3, <1>4, <1>5, <1>6 DEF TrackerInv

LEMMA CollectContactsKeeps ==
  ASSUME TrackerInv, UNCHANGED <<now, stated, statements, lastStatementGC, contacted>>,
         CollectContacts(contact)
  PROVE  TrackerInv'
<1>1. /\ DOMAIN contact' = {h \in DOMAIN contact : contact[h] >= now - ContactWindow}
      /\ \A h \in DOMAIN contact' : contact'[h] = contact[h]
      /\ lastContactGC' = now
  BY RecentValues DEF CollectContacts
<1>2. TypeOK'
  BY <1>1 DEF TrackerInv, TypeOK
<1>3. /\ \A h \in DOMAIN contact' : h \in DOMAIN contacted /\ contacted[h] <= contact'[h]
      /\ \A h \in DOMAIN contact' : contact'[h] >= lastContactGC' - ContactWindow
  BY <1>1 DEF TrackerInv
<1> QED BY <1>2, <1>3 DEF TrackerInv, InWindow

\* A statement replaces the host's last one.
LEMMA AddStatementKeeps ==
  ASSUME TrackerInv, NEW h \in Hosts, NEW e \in Endpoints, AddStatement(h, e)
  PROVE  /\ TrackerInv'
         /\ \A g \in DOMAIN statements' : now - statements'[g].time < 2 * Window
         /\ UNCHANGED contact
<1> DEFINE st == [endpoint |-> e, time |-> now]
           with == Put(statements, h, st)
<1>1. /\ now \in 0 .. MaxTime /\ now \in Int /\ Window \in Nat \ {0}
      /\ \A g \in DOMAIN statements : statements[g] \in [endpoint : Endpoints, time : 0 .. now]
      /\ \A g \in DOMAIN stated : stated[g] \in [endpoint : Endpoints, time : 0 .. now]
      /\ lastStatementGC \in 0 .. now
  BY WindowAssumption DEF TrackerInv, TypeOK
<1>2. st \in [endpoint : Endpoints, time : 0 .. now] /\ st.time = now
  BY <1>1
<1>0. /\ stated' = Put(stated, h, st)
      /\ UNCHANGED <<now, contact, lastContactGC, contacted>>
      /\ \/ StatementsDue /\ CollectStatements(with)
         \/ ~ StatementsDue /\ statements' = with /\ UNCHANGED lastStatementGC
  BY DEF AddStatement
<1> HIDE DEF st
<1>3. /\ DOMAIN with = DOMAIN statements \cup {h}
      /\ \A g \in DOMAIN with : with[g] = IF g = h THEN st ELSE statements[g]
  BY DEF Put
<1>4. /\ DOMAIN stated' = DOMAIN stated \cup {h}
      /\ \A g \in DOMAIN stated' : stated'[g] = IF g = h THEN st ELSE stated[g]
      /\ UNCHANGED <<now, contact, lastContactGC, contacted>>
  BY <1>0 DEF Put
<1>5. ASSUME NEW g \in DOMAIN with
      PROVE  /\ g \in DOMAIN stated' /\ with[g] = stated'[g]
             /\ with[g] \in [endpoint : Endpoints, time : 0 .. now]
             /\ with[g].time >= lastStatementGC - Window
  BY <1>1, <1>2, <1>3, <1>4 DEF TrackerInv
<1>6. ASSUME NEW g \in DOMAIN stated', InWindow(g)'  PROVE g \in DOMAIN with
  <2>1. now - stated'[g].time <= Window
    BY <1>4, <1>6 DEF InWindow
  <2>2. g # h => g \in DOMAIN stated /\ InWindow(g)
    BY <1>4, <2>1 DEF InWindow
  <2> QED BY <1>3, <2>2 DEF TrackerInv
<1>7. IsFiniteSet(DOMAIN with) /\ DOMAIN with \subseteq Hosts
  BY <1>3, FS_AddElement DEF TrackerInv, TypeOK
<1> HIDE DEF with
<1>8. CASE StatementsDue /\ CollectStatements(with)
  <2>1. /\ DOMAIN statements' = {g \in DOMAIN with : with[g].time >= now - Window}
        /\ \A g \in DOMAIN statements' : statements'[g] = with[g]
        /\ lastStatementGC' = now
    BY <1>8, RecentValues DEF CollectStatements
  <2>2. TypeOK'
    BY <1>1, <1>4, <1>5, <1>7, <2>1 DEF TrackerInv, TypeOK
  <2>3. IsFiniteSet(DOMAIN statements')
    BY <1>7, <2>1, FS_Subset
  <2>4. ASSUME NEW g \in DOMAIN stated', InWindow(g)'  PROVE g \in DOMAIN statements'
    <3>1. now - stated'[g].time <= Window
      BY <1>4, <2>4 DEF InWindow
    <3>2. g \in DOMAIN with /\ with[g] = stated'[g] /\ with[g].time \in Int
      BY <1>1, <1>5, <1>6, <2>4
    <3> QED BY <1>1, <2>1, <3>1, <3>2
  <2>5. \A g \in DOMAIN statements' :
          /\ g \in DOMAIN stated' /\ statements'[g] = stated'[g]
          /\ statements'[g].time >= lastStatementGC' - Window
          /\ statements'[g].time \in Int
    BY <1>1, <1>5, <2>1
  <2>6. \A g \in DOMAIN stated' : stated'[g] \in [endpoint : Endpoints, time : 0 .. now']
    BY <1>1, <1>2, <1>4
  <2>7. TrackerInv'
    BY <1>4, <2>2, <2>3, <2>4, <2>5, <2>6 DEF TrackerInv
  <2>8. \A g \in DOMAIN statements' : now - statements'[g].time < 2 * Window
    BY <1>1, <2>1, <2>5
  <2> QED BY <1>4, <2>7, <2>8
<1>9. CASE ~ StatementsDue /\ statements' = with /\ UNCHANGED lastStatementGC
  <2>1. TypeOK'
    BY <1>1, <1>4, <1>5, <1>7, <1>9 DEF TrackerInv, TypeOK
  <2>2. \A g \in DOMAIN stated' : stated'[g] \in [endpoint : Endpoints, time : 0 .. now']
    BY <1>1, <1>2, <1>4
  <2>3. TrackerInv'
    BY <1>4, <1>5, <1>6, <1>7, <1>9, <2>1, <2>2 DEF TrackerInv
  <2>4. \A g \in DOMAIN statements' : now - statements'[g].time < 2 * Window
    <3> SUFFICES ASSUME NEW g \in DOMAIN with  PROVE now - with[g].time < 2 * Window
      BY <1>9
    <3>1. with[g].time \in Int /\ with[g].time >= lastStatementGC - Window
      BY <1>1, <1>5
    <3>2. now - lastStatementGC < Window
      BY <1>1, <1>9 DEF StatementsDue
    <3> QED BY <1>1, <3>1, <3>2
  <2> QED BY <1>4, <2>3, <2>4
<1> QED BY <1>0, <1>8, <1>9

\* The first contact is the one that counts, the last one is kept.
LEMMA AddContactKeeps ==
  ASSUME TrackerInv, NEW h \in Contacts, AddContact(h)
  PROVE  /\ TrackerInv'
         /\ \A g \in DOMAIN contact' : now - contact'[g] < 2 * ContactWindow
         /\ UNCHANGED stated
<1> DEFINE with == Put(contact, h, now)
<1>1. /\ now \in 0 .. MaxTime /\ now \in Int /\ ContactWindow \in Nat \ {0}
      /\ \A g \in DOMAIN contact : contact[g] \in 0 .. now
      /\ lastContactGC \in 0 .. now
  BY WindowAssumption DEF TrackerInv, TypeOK
<1>2. /\ DOMAIN with = DOMAIN contact \cup {h}
      /\ \A g \in DOMAIN with : with[g] = IF g = h THEN now ELSE contact[g]
  BY DEF Put
<1>3. /\ UNCHANGED <<now, statements, lastStatementGC, stated>>
      /\ \/ ContactsDue /\ CollectContacts(with)
         \/ ~ ContactsDue /\ contact' = with /\ UNCHANGED lastContactGC
  BY DEF AddContact
<1>4. /\ DOMAIN contacted' = DOMAIN contacted \cup {h}
      /\ \A g \in DOMAIN contacted : contacted'[g] = contacted[g]
      /\ h \notin DOMAIN contacted => contacted'[h] = now
  BY DEF AddContact, Put
<1>5. \A g \in DOMAIN contacted' : contacted'[g] \in 0 .. now
  BY <1>1, <1>4 DEF TrackerInv
<1>6. ASSUME NEW g \in DOMAIN with
      PROVE  /\ g \in DOMAIN contacted' /\ contacted'[g] <= with[g]
             /\ with[g] \in 0 .. now
             /\ with[g] >= lastContactGC - ContactWindow
  <2>1. CASE g = h
    BY <1>1, <1>2, <1>4, <1>5, <2>1
  <2>2. CASE g # h
    BY <1>1, <1>2, <1>4, <2>2 DEF TrackerInv
  <2> QED BY <2>1, <2>2
<1>7. DOMAIN with \subseteq Contacts
  BY <1>2 DEF TrackerInv, TypeOK
<1> HIDE DEF with
<1>8. CASE ContactsDue /\ CollectContacts(with)
  <2>1. /\ DOMAIN contact' = {g \in DOMAIN with : with[g] >= now - ContactWindow}
        /\ \A g \in DOMAIN contact' : contact'[g] = with[g]
        /\ lastContactGC' = now
    BY <1>8, RecentValues DEF CollectContacts
  <2>2. TypeOK'
    BY <1>1, <1>3, <1>6, <1>7, <2>1 DEF TrackerInv, TypeOK
  <2>3. \A g \in DOMAIN contact' :
          /\ g \in DOMAIN contacted' /\ contacted'[g] <= contact'[g]
          /\ contact'[g] >= lastContactGC' - ContactWindow
          /\ contact'[g] \in Int
    BY <1>1, <1>6, <2>1
  <2>4. TrackerInv'
    BY <1>3, <1>5, <2>2, <2>3 DEF TrackerInv, InWindow
  <2>5. \A g \in DOMAIN contact' : now - contact'[g] < 2 * ContactWindow
    BY <1>1, <2>1, <2>3
  <2> QED BY <1>3, <2>4, <2>5
<1>9. CASE ~ ContactsDue /\ contact' = with /\ UNCHANGED lastContactGC
  <2>1. TypeOK'
    BY <1>1, <1>3, <1>6, <1>7, <1>9 DEF TrackerInv, TypeOK
  <2>2. TrackerInv'
    BY <1>3, <1>5, <1>6, <1>9, <2>1 DEF TrackerInv, InWindow
  <2>3. \A g \in DOMAIN contact' : now - contact'[g] < 2 * ContactWindow
    <3> SUFFICES ASSUME NEW g \in DOMAIN with  PROVE now - with[g] < 2 * ContactWindow
      BY <1>9
    <3>1. with[g] \in Int /\ with[g] >= lastContactGC - ContactWindow
      BY <1>1, <1>6
    <3>2. now - lastContactGC < ContactWindow
      BY <1>1, <1>9 DEF ContactsDue
    <3> QED BY <1>1, <3>1, <3>2
  <2> QED BY <1>3, <2>2, <2>3
<1> QED BY <1>3, <1>8, <1>9

\* PredictFullConeNAT collects both maps.
LEMMA PredictFullConeKeeps ==
  ASSUME TrackerInv, PredictFullConeNAT
  PROVE  TrackerInv'
<1>1. /\ DOMAIN statements' = {h \in DOMAIN statements : statements[h].time >= now - Window}
      /\ \A h \in DOMAIN statements' : statements'[h] = statements[h]
      /\ lastStatementGC' = now
  BY RecentValues DEF PredictFullConeNAT, CollectStatements
<1>2. /\ DOMAIN contact' = {h \in DOMAIN contact : contact[h] >= now - ContactWindow}
      /\ \A h \in DOMAIN contact' : contact'[h] = contact[h]
      /\ lastContactGC' = now
  BY RecentValues DEF PredictFullConeNAT, CollectContacts
<1>3. UNCHANGED <<now, stated, contacted>>
  BY DEF PredictFullConeNAT
<1>4. TypeOK'
  BY <1>1, <1>2, <1>3 DEF TrackerInv, TypeOK
<1>5. IsFiniteSet(DOMAIN statements')
  BY <1>1, FS_Subset DEF TrackerInv
<1>6. ASSUME NEW h \in DOMAIN stated, InWindow(h)'  PROVE h \in DOMAIN statements'
  <2>1. now - stated[h].time <= Window
    BY <1>3, <1>6 DEF InWindow
  <2>2. h \in DOMAIN statements /\ statements[h] = stated[h]
    BY <2>1 DEF TrackerInv, InWindow
  <2>3. stated[h].time \in Int /\ now \in Int /\ Window \in Int
    BY WindowAssumption DEF TrackerInv, TypeOK
  <2> QED BY <1>1, <2>1, <2>2, <2>3
<1>7. /\ \A h \in DOMAIN statements' : h \in DOMAIN stated /\ statements'[h] = stated[h]
      /\ \A h \in DOMAIN statements' : statements'[h].time >= lastStatementGC' - Window
  BY <1>1 DEF TrackerInv
<1>8. /\ \A h \in DOMAIN contact' : h \in DOMAIN contacted /\ contacted[h] <= contact'[h]
      /\ \A h \in DOMAIN contact' : contact'[h] >= lastContactGC' - ContactWindow
  BY <1>2 DEF TrackerInv
<1> QED BY <1>3, <1>4, <1>5, <1>6, <1>7, <1>8 DEF TrackerInv

\* A prediction collects, and so does an insertion now and then.
LEMMA TrackerStep ==
  ASSUME TrackerInv, [TrackerNext]_vars
  PROVE  /\ TrackerInv'
         /\ stated' # stated =>
              \A h \in DOMAIN statements' : now - statements'[h].time < 2 * Window
         /\ contact' # contact =>
              \A h \in DOMAIN contact' : now - contact'[h] < 2 * ContactWindow
<1> DEFINE Collected ==
      /\ stated' # stated =>
           \A h \in DOMAIN statements' : now - statements'[h].time < 2 * Window
      /\ contact' # contact =>
           \A h \in DOMAIN contact' : now - contact'[h] < 2 * ContactWindow
<1>1. ASSUME NEW h \in Hosts, NEW e \in Endpoints, AddStatement(h, e)
      PROVE  TrackerInv' /\ Collected
  BY <1>1, AddStatementKeeps
<1>2. ASSUME NEW h \in Contacts, AddContact(h)
      PROVE  TrackerInv' /\ Collected
  BY <1>2, AddContactKeeps
<1>3. CASE PredictEndpoint
  BY <1>3, CollectStatementsKeeps DEF PredictEndpoint
<1>4. CASE PredictFullConeNAT
  <2>1. TrackerInv'
    BY <1>4, PredictFullConeKeeps
  <2>2. \A h \in DOMAIN contact' : now - contact'[h] < 2 * ContactWindow
    <3>1. /\ DOMAIN contact' = {g \in DOMAIN contact : contact[g] >= now - ContactWindow}
          /\ \A g \in DOMAIN contact' : contact'[g] = contact[g]
      BY <1>4, RecentValues DEF PredictFullConeNAT, CollectContacts
    <3>2. \A g \in DOMAIN contact' : contact'[g] \in Int /\ contact'[g] >= now - ContactWindow
      BY <3>1 DEF TrackerInv, TypeOK
    <3>3. now \in Int /\ ContactWindow \in Nat \ {0}
      BY WindowAssumption DEF TrackerInv, TypeOK
    <3> QED BY <3>2, <3>3
  <2>3. UNCHANGED stated
    BY <1>4 DEF PredictFullConeNAT
  <2> QED BY <2>1, <2>2, <2>3
<1>5. CASE Tick
  <2>1. /\ now' = now + 1 /\ now < MaxTime
        /\ UNCHANGED <<statements, contact, lastStatementGC, lastContactGC, stated, contacted>>
    BY <1>5 DEF Tick, tracker
  <2>2. now \in Nat /\ 0 .. now \subseteq 0 .. now' /\ now' \in 0 .. MaxTime
    BY <2>1, MaxTimeAssumption DEF TrackerInv, TypeOK
  <2>3. TypeOK'
    BY <2>1, <2>2 DEF TrackerInv, TypeOK
  <2>4. \A h \in DOMAIN stated : InWindow(h)' => InWindow(h)
    BY <2>1, <2>2, WindowAssumption DEF TrackerInv, InWindow
  <2>5. TrackerInv'
    BY <2>1, <2>2, <2>3, <2>4 DEF TrackerInv
  <2> QED BY <2>1, <2>5
<1>6. CASE UNCHANGED vars
  BY <1>6 DEF vars, tracker, TrackerInv, TypeOK, InWindow
<1> QED BY <1>1, <1>2, <1>3, <1>4, <1>5, <1>6 DEF TrackerNext

\* The tracker's variables keep their types, and nothing it keeps is from the
\* future.
THEOREM TrackerTyped == Spec => []TypeOK
<1>1. TrackerInv /\ [TrackerNext]_vars => TrackerInv'
  BY TrackerStep
<1>2. TrackerInv => TypeOK
  BY DEF TrackerInv
<1> QED BY <1>1, <1>2, TrackerInit, PTL DEF Spec

\* An insertion leaves nothing of two windows ago, whenever the insertions
\* before it collected: for every window and every sequence of calls.
THEOREM InsertionsAlsoCollect == Spec => InsertionsCollect
<1> DEFINE Collected ==
      /\ stated' # stated =>
           \A h \in DOMAIN statements' : now - statements'[h].time < 2 * Window
      /\ contact' # contact =>
           \A h \in DOMAIN contact' : now - contact'[h] < 2 * ContactWindow
<1>1. TrackerInv /\ [TrackerNext]_vars => TrackerInv' /\ Collected
  BY TrackerStep
<1>2. TrackerInv /\ [TrackerNext]_vars => [Collected]_vars
  BY <1>1
<1> QED BY <1>1, <1>2, TrackerInit, PTL DEF Spec, InsertionsCollect

\* As long as no full cone NAT is predicted, every host whose statement is in
\* the window was contacted before it made it: collecting contacts and
\* statements at different moments never hides one that was not.
THEOREM NoConeIsSafe == Spec => []NoConeMeansContacted
<1>1. TrackerInv /\ [TrackerNext]_vars => TrackerInv'
  BY TrackerStep
<1>2. ASSUME TrackerInv  PROVE NoConeMeansContacted
  <2> SUFFICES ASSUME ~ ConePredicted, NEW h \in DOMAIN stated, InWindow(h)
               PROVE  ContactedBefore(h)
    BY DEF NoConeMeansContacted
  <2>1. now \in Int /\ Window \in Int /\ stated[h].time \in Int
    BY WindowAssumption, <1>2 DEF TrackerInv, TypeOK
  <2>2. h \in DOMAIN statements /\ statements[h] = stated[h]
    BY <1>2 DEF TrackerInv
  <2>3. statements[h].time >= now - Window
    BY <2>1, <2>2 DEF InWindow
  <2>4. h \in DOMAIN Recent(statements) /\ Recent(statements)[h] = stated[h]
    BY <2>2, <2>3, RecentValues
  <2>5. /\ h \in DOMAIN RecentContacts(contact)
        /\ ~ (RecentContacts(contact)[h] > stated[h].time)
    BY <2>4 DEF ConePredicted, FullCone
  <2>6. h \in DOMAIN contact /\ RecentContacts(contact)[h] = contact[h]
    BY <2>5, RecentValues
  <2>7. h \in DOMAIN contacted /\ contacted[h] <= contact[h] /\ contacted[h] \in Int
        /\ contact[h] \in Int
    BY <2>6, <1>2 DEF TrackerInv, TypeOK
  <2> QED BY <2>1, <2>5, <2>6, <2>7 DEF ContactedBefore
<1> QED BY <1>1, <1>2, TrackerInit, PTL DEF Spec

-----------------------------------------------------------------------------
(* The loop of PredictEndpoint *)

\* The hosts that state e, and how many of the first k positions hold one.
Stating(sts, e) == {h \in DOMAIN sts : sts[h].endpoint = e}
PlacesOf(sts, order, k, e) == {j \in 1 .. k : sts[order[j]].endpoint = e}
CountOf(sts, order, k, e) == Cardinality(PlacesOf(sts, order, k, e))

\* One turn of the loop, and what holds of best after k turns: it has the votes
\* of its endpoint, and no endpoint with enough of them has more.
Bests == [count : Nat, max : Endpoints \cup {NoEndpoint}]
Better(sts, order, best, i) ==
  IF CountTo(sts, order, i) > best.count /\ CountTo(sts, order, i) >= MinStatements
  THEN [count |-> CountTo(sts, order, i), max |-> sts[order[i]].endpoint]
  ELSE best
BestOf(sts, order, k, best) ==
  /\ best \in Bests
  /\ \/ best.count = 0 /\ best.max = NoEndpoint
     \/ /\ best.count > 0 /\ best.count >= MinStatements /\ best.max \in Endpoints
        /\ best.count = CountOf(sts, order, k, best.max)
  /\ \A e \in Endpoints :
       CountOf(sts, order, k, e) <= best.count \/ CountOf(sts, order, k, e) < MinStatements

\* One more position counts for the endpoint stated there.
LEMMA CountStep ==
  ASSUME NEW sts, NEW order, NEW k \in Nat \ {0}, NEW e
  PROVE  /\ CountOf(sts, order, k, e) \in Nat
         /\ CountOf(sts, order, k - 1, e) \in Nat
         /\ CountOf(sts, order, k, e) =
              IF sts[order[k]].endpoint = e
              THEN CountOf(sts, order, k - 1, e) + 1
              ELSE CountOf(sts, order, k - 1, e)
<1> DEFINE A == PlacesOf(sts, order, k, e)
           B == PlacesOf(sts, order, k - 1, e)
<1>1. IsFiniteSet(1 .. k)
  BY FS_Interval
<1>2. A \in SUBSET (1 .. k) /\ B \in SUBSET (1 .. k) /\ k \notin B
  BY DEF PlacesOf
<1>3. IF sts[order[k]].endpoint = e THEN A = B \cup {k} ELSE A = B
  BY DEF PlacesOf
<1> HIDE DEF A, B
<1>4. IsFiniteSet(A) /\ IsFiniteSet(B)
  BY <1>1, <1>2, FS_Subset
<1>5. Cardinality(A) \in Nat /\ Cardinality(B) \in Nat
  BY <1>4, FS_CardinalityType
<1>6. Cardinality(B \cup {k}) = Cardinality(B) + 1
  BY <1>2, <1>4, FS_AddElement
<1> QED
  BY <1>3, <1>5, <1>6 DEF A, B, CountOf

\* One turn of the loop.
LEMMA BetterIsBest ==
  ASSUME NEW sts, NEW order, NEW k \in Nat \ {0}, NEW best,
         BestOf(sts, order, k - 1, best), sts[order[k]].endpoint \in Endpoints
  PROVE  BestOf(sts, order, k, Better(sts, order, best, k))
<1> DEFINE x == sts[order[k]].endpoint
           c == CountOf(sts, order, k, x)
<1>1. c = CountTo(sts, order, k)
  BY DEF CountOf, CountTo, PlacesOf
<1>2. /\ \A e : CountOf(sts, order, k, e) \in Nat /\ CountOf(sts, order, k - 1, e) \in Nat
      /\ \A e : e # x => CountOf(sts, order, k, e) = CountOf(sts, order, k - 1, e)
      /\ c = CountOf(sts, order, k - 1, x) + 1
  BY CountStep
<1>3. best \in Bests /\ best.count \in Nat /\ x \in Endpoints
  BY DEF BestOf, Bests
<1>4. c \in Nat /\ c > 0
  BY <1>2
<1>5. CASE c > best.count /\ c >= MinStatements
  <2> DEFINE new == [count |-> c, max |-> x]
  <2>1. Better(sts, order, best, k) = new
    BY <1>1, <1>5 DEF Better
  <2>2. new \in Bests /\ new.count = c /\ new.max = x
    BY <1>3, <1>4 DEF Bests
  <2>3. ASSUME NEW e \in Endpoints
        PROVE  CountOf(sts, order, k, e) <= c \/ CountOf(sts, order, k, e) < MinStatements
    <3>1. CASE e = x
      BY <1>4, <3>1
    <3>2. CASE e # x
      <4>1. CountOf(sts, order, k, e) = CountOf(sts, order, k - 1, e)
        BY <1>2, <3>2
      <4>2. \/ CountOf(sts, order, k - 1, e) <= best.count
            \/ CountOf(sts, order, k - 1, e) < MinStatements
        BY DEF BestOf
      <4>3. CountOf(sts, order, k - 1, e) \in Nat
        BY <1>2
      <4> HIDE DEF c
      <4> QED BY <1>3, <1>4, <1>5, <4>1, <4>2, <4>3
    <3> QED BY <3>1, <3>2
  <2> HIDE DEF new
  <2> QED BY <1>3, <1>4, <1>5, <2>1, <2>2, <2>3 DEF BestOf
<1>6. CASE ~ (c > best.count /\ c >= MinStatements)
  <2>1. Better(sts, order, best, k) = best
    BY <1>1, <1>6 DEF Better
  <2>2. \/ best.count = 0 /\ best.max = NoEndpoint
        \/ /\ best.count > 0 /\ best.count >= MinStatements /\ best.max \in Endpoints
           /\ best.count = CountOf(sts, order, k - 1, best.max)
    BY DEF BestOf
  <2>3. best.count = CountOf(sts, order, k - 1, best.max) /\ best.count >= MinStatements
           => best.max # x
    <3> SUFFICES ASSUME best.count = CountOf(sts, order, k - 1, x), best.count >= MinStatements
                 PROVE  FALSE
      OBVIOUS
    <3>1. c = best.count + 1
      BY <1>2
    <3> HIDE DEF c
    <3> QED BY <1>3, <1>6, <3>1, MinStatementsAssumption
  <2>4. best.max # x => CountOf(sts, order, k, best.max) = CountOf(sts, order, k - 1, best.max)
    BY <1>2
  <2>5. ASSUME NEW e \in Endpoints
        PROVE  \/ CountOf(sts, order, k, e) <= best.count
               \/ CountOf(sts, order, k, e) < MinStatements
    <3>1. CASE e = x
      BY <1>3, <1>4, <1>6, <3>1, MinStatementsAssumption
    <3>2. CASE e # x
      BY <1>2, <3>2 DEF BestOf
    <3> QED BY <3>1, <3>2
  <2> QED BY <1>3, <2>1, <2>2, <2>3, <2>4, <2>5 DEF BestOf
<1> QED BY <1>5, <1>6

\* The loop.
LEMMA PredictedIsBest ==
  ASSUME NEW sts, NEW order, NEW N \in Nat, DOMAIN order = 1 .. N,
         \A i \in 1 .. N : sts[order[i]].endpoint \in Endpoints
  PROVE  \E best : BestOf(sts, order, N, best) /\ Predicted(sts, order) = best.max
<1> DEFINE S == 1 .. N
           base == [count |-> 0, max |-> NoEndpoint]
           places == [i \in DOMAIN order |-> i]
           pick == [t \in SUBSET S |-> Max(t)]
           step == [x \in Bests \X S |-> Better(sts, order, x[1], x[2])]
           Folds(f) ==
             f = [t \in SUBSET S |->
                    IF t = {} THEN base ELSE Better(sts, order, f[t \ {Max(t)}], places[Max(t)])]
           iter == CHOOSE f : Folds(f)
<1>1. DOMAIN places = S
  OBVIOUS
<1>2. Predicted(sts, order) = iter[S].max
  BY <1>1 DEF Predicted, Better, FoldLeftDomain, FoldLeft, MapThenFoldSet
<1> HIDE DEF S
<1>3. \A t \in SUBSET S : t # {} => pick[t] \in t /\ Max(t) \in S /\ places[Max(t)] = Max(t)
  BY MaxOfPositions DEF S
<1> HIDE DEF places
<1>4. step \in [Bests \X S -> Bests]
  <2>1. ASSUME NEW b \in Bests, NEW i \in S  PROVE Better(sts, order, b, i) \in Bests
    <3>1. i \in Nat \ {0} /\ sts[order[i]].endpoint \in Endpoints
      BY DEF S
    <3>2. CountTo(sts, order, i) \in Nat
      <4>1. CountOf(sts, order, i, sts[order[i]].endpoint) \in Nat
        BY <3>1, CountStep
      <4> QED BY <4>1 DEF CountOf, CountTo, PlacesOf
    <3> QED BY <3>1, <3>2 DEF Better, Bests
  <2> QED BY <2>1
<1>5. IsFiniteSet(S)
  BY FS_Interval DEF S
<1>6. PICK f \in [SUBSET S -> Bests] : IsFold(f, S, base, step, pick)
  <2>1. base \in Bests
    BY DEF Bests
  <2>2. \A t \in SUBSET S : t # {} => pick[t] \in t
    BY <1>3
  <2> HIDE DEF base, pick, step
  <2> QED BY <1>4, <1>5, <2>1, <2>2, FoldExists
<1>7. Folds(f)
  <2>1. ASSUME NEW t \in SUBSET S, t # {}
        PROVE  f[t] = Better(sts, order, f[t \ {Max(t)}], places[Max(t)])
    <3>1. f[t \ {Max(t)}] \in Bests /\ pick[t] = Max(t) /\ Max(t) \in S /\ places[Max(t)] = Max(t)
      BY <1>3, <2>1
    <3>2. f[t] = step[<<f[t \ {Max(t)}], Max(t)>>]
      BY <1>6, <2>1, <3>1 DEF IsFold
    <3>3. <<f[t \ {Max(t)}], Max(t)>> \in Bests \X S
      BY <3>1
    <3> QED BY <3>1, <3>2, <3>3
  <2> QED BY <1>6, <2>1 DEF IsFold
<1>8. Folds(iter)
  BY <1>7
<1> HIDE DEF iter
<1>9. \A t \in SUBSET S :
        iter[t] = IF t = {} THEN base ELSE Better(sts, order, iter[t \ {Max(t)}], places[Max(t)])
  BY <1>8
<1> DEFINE T == {k \in 0 .. N : BestOf(sts, order, k, iter[1 .. k])}
<1>10. 0 \in T
  <2>0. 1 .. 0 = {}
    OBVIOUS
  <2>1. iter[1 .. 0] = base
    BY <1>9, <2>0
  <2>2. \A e \in Endpoints : CountOf(sts, order, 0, e) = 0
    BY FS_EmptySet DEF CountOf, PlacesOf
  <2>3. base \in Bests /\ base.count = 0 /\ base.max = NoEndpoint
    BY DEF Bests
  <2> HIDE DEF base
  <2> QED BY <2>1, <2>2, <2>3 DEF BestOf
<1>11. ASSUME NEW k \in 1 .. N, k - 1 \in T  PROVE k \in T
  <2>1. Max(1 .. k) = k /\ (1 .. k) \ {k} = 1 .. k - 1
    BY MaxOfPositions
  <2>2. k \in 1 .. k /\ 1 .. k \in SUBSET S /\ k \in S
    BY DEF S
  <2>3. iter[1 .. k] = Better(sts, order, iter[1 .. k - 1], k)
    <3> DEFINE t == 1 .. k
    <3>1. t \in SUBSET S /\ t # {}
      BY <2>2
    <3> HIDE DEF t
    <3>2. iter[t] = Better(sts, order, iter[t \ {Max(t)}], places[Max(t)])
      BY <1>9, <3>1
    <3>3. places[Max(t)] = Max(t)
      BY <1>3, <3>1
    <3> QED BY <2>1, <3>2, <3>3 DEF t
  <2>4. BestOf(sts, order, k, Better(sts, order, iter[1 .. k - 1], k))
    <3>1. /\ k \in Nat \ {0} /\ sts[order[k]].endpoint \in Endpoints
          /\ BestOf(sts, order, k - 1, iter[1 .. k - 1])
      BY <1>11
    <3> HIDE DEF T
    <3> QED BY <3>1, BetterIsBest
  <2> QED BY <2>3, <2>4
<1>12. N \in T
  <2>1. N \in 0 .. N
    OBVIOUS
  <2>2. \A k \in 1 .. N : k - 1 \in T => k \in T
    BY <1>11
  <2> HIDE DEF T
  <2> QED BY <1>10, <2>1, <2>2, UpTo
<1> QED BY <1>2, <1>12 DEF S

\* An order of all statements holds each of them once, so its positions count
\* the hosts.
LEMMA OrderCounts ==
  ASSUME NEW sts, IsFiniteSet(DOMAIN sts), NEW order \in SetToSeqs(DOMAIN sts), NEW e
  PROVE  CountOf(sts, order, Cardinality(DOMAIN sts), e) = Cardinality(Stating(sts, e))
<1> DEFINE H == DOMAIN sts
           N == Cardinality(H)
           A == PlacesOf(sts, order, N, e)
           B == Stating(sts, e)
<1>1. N \in Nat /\ IsFiniteSet(1 .. N) /\ Cardinality(1 .. N) = N
  BY FS_CardinalityType, FS_Interval
<1>2. order \in [1 .. N -> H] /\ \A i, j \in 1 .. N : i # j => order[i] # order[j]
  BY DEF SetToSeqs
<1>3. order \in Injection(1 .. N, H)
  BY <1>2 DEF Injection, IsInjective
<1>4. order \in Surjection(1 .. N, H)
  <2> HIDE DEF N
  <2> QED BY <1>1, <1>3, FS_Injection DEF N
<1>5. \A h \in H : \E i \in 1 .. N : order[i] = h
  BY <1>4 DEF Surjection
<1> DEFINE f == [j \in A |-> order[j]]
<1>6. f \in Bijection(A, B)
  <2>1. f \in [A -> B]
    BY <1>2 DEF PlacesOf, Stating
  <2>2. \A i, j \in A : f[i] = f[j] => i = j
    BY <1>2 DEF PlacesOf
  <2>3. \A h \in B : \E j \in A : f[j] = h
    BY <1>5 DEF PlacesOf, Stating
  <2> HIDE DEF f, A, B
  <2> QED BY <2>1, <2>2, <2>3 DEF Bijection, Injection, Surjection, IsInjective
<1>7. IsFiniteSet(A)
  BY <1>1, FS_Subset DEF PlacesOf
<1>8. ExistsBijection(A, B)
  BY <1>6 DEF ExistsBijection
<1> HIDE DEF A, B
<1> QED BY <1>7, <1>8, FS_Bijection DEF A, B, CountOf

\* PredictEndpoint names an endpoint that none has more votes than, if any has
\* enough of them: for any number of hosts, in whatever order the map yields
\* them, and however lazily their old statements were collected.
THEOREM PredictionHasMajority == Spec => []PredictionIsMajority
<1>1. TrackerInv /\ [TrackerNext]_vars => TrackerInv'
  BY TrackerStep
<1>2. ASSUME TrackerInv  PROVE PredictionIsMajority
  <2> DEFINE enough == {e \in Endpoints : Votes(e) > 0 /\ Votes(e) >= MinStatements}
  <2> SUFFICES ASSUME NEW order \in SetToSeqs(DOMAIN Recent(statements))
               PROVE  IF enough = {}
                      THEN Predicted(Recent(statements), order) = NoEndpoint
                      ELSE /\ Predicted(Recent(statements), order) \in enough
                           /\ \A e \in enough :
                                Votes(e) <= Votes(Predicted(Recent(statements), order))
    BY Zenon DEF PredictionIsMajority
  <2>1. PICK sts : sts = Recent(statements)
    OBVIOUS
  <2>2. /\ DOMAIN sts = {h \in DOMAIN statements : statements[h].time >= now - Window}
        /\ \A h \in DOMAIN sts : sts[h] = statements[h]
    BY <2>1, RecentValues
  <2>3. IsFiniteSet(DOMAIN sts)
    BY <2>2, FS_Subset, <1>2 DEF TrackerInv
  <2>4. \A h \in DOMAIN sts : sts[h].endpoint \in Endpoints /\ sts[h] = stated[h]
    BY <2>2, <1>2 DEF TrackerInv, TypeOK
  <2>5. ASSUME NEW h
        PROVE  h \in DOMAIN sts <=> h \in DOMAIN stated /\ InWindow(h)
    <3>1. now \in Int /\ Window \in Int /\ \A g \in DOMAIN stated : stated[g].time \in Int
      BY WindowAssumption, <1>2 DEF TrackerInv, TypeOK
    <3>2. \A g \in DOMAIN statements : g \in DOMAIN stated /\ statements[g] = stated[g]
      BY <1>2 DEF TrackerInv
    <3>3. h \in DOMAIN stated /\ InWindow(h) => h \in DOMAIN statements
      BY <1>2 DEF TrackerInv
    <3> QED BY <2>2, <3>1, <3>2, <3>3 DEF InWindow
  <2>6. ASSUME NEW e  PROVE Votes(e) = Cardinality(Stating(sts, e))
    <3>1. {h \in DOMAIN stated : stated[h].endpoint = e /\ InWindow(h)} = Stating(sts, e)
      BY <2>4, <2>5 DEF Stating
    <3> QED BY <3>1 DEF Votes
  <2> DEFINE N == Cardinality(DOMAIN sts)
  <2>7. N \in Nat /\ order \in [1 .. N -> DOMAIN sts]
    BY <2>1, <2>3, FS_CardinalityType DEF SetToSeqs
  <2>8. PICK best : BestOf(sts, order, N, best) /\ Predicted(sts, order) = best.max
    BY <2>4, <2>7, PredictedIsBest
  <2>9. \A e : CountOf(sts, order, N, e) = Votes(e) /\ Votes(e) \in Nat
    <3> TAKE e
    <3>1. IsFiniteSet(Stating(sts, e))
      BY <2>3, FS_Subset DEF Stating
    <3>2. Cardinality(Stating(sts, e)) \in Nat
      BY <3>1, FS_CardinalityType
    <3>3. CountOf(sts, order, N, e) = Cardinality(Stating(sts, e))
      BY <2>1, <2>3, OrderCounts
    <3> QED BY <2>6, <3>2, <3>3
  <2> HIDE DEF N
  <2>10. CASE best.count = 0 /\ best.max = NoEndpoint
    <3>1. \A e \in Endpoints : Votes(e) <= 0 \/ Votes(e) < MinStatements
      BY <2>8, <2>9, <2>10 DEF BestOf
    <3>2. enough = {}
      BY <2>9, <3>1, MinStatementsAssumption
    <3> QED BY <2>1, <2>8, <2>10, <3>2
  <2>11. CASE best.count > 0 /\ best.count >= MinStatements /\ best.max \in Endpoints
              /\ best.count = CountOf(sts, order, N, best.max)
    <3>1. best.max \in enough /\ best.count = Votes(best.max)
      BY <2>9, <2>11
    <3>2. \A e \in Endpoints : Votes(e) <= best.count \/ Votes(e) < MinStatements
      BY <2>8, <2>9 DEF BestOf
    <3>3. \A e \in enough : Votes(e) <= Votes(best.max)
      BY <2>9, <3>1, <3>2, MinStatementsAssumption
    <3> QED BY <2>1, <2>8, <3>1, <3>3
  <2> QED BY <2>8, <2>10, <2>11 DEF BestOf
<1> QED BY <1>1, <1>2, TrackerInit, PTL DEF Spec

-----------------------------------------------------------------------------
(* NetSet *)

\* Two addresses are of one network if the set has one key for them.
LEMMA SameKey ==
  ASSUME NEW ip \in IPs, NEW other \in IPs
  PROVE  SameNet(Subnet, ip, other) <=> KeyOf(ip) = KeyOf(other)
<1> DEFINE a == ip.bits
           b == other.bits
           m(L) == Min({Subnet, L})
<1>1. a \in Seq({0, 1}) /\ b \in Seq({0, 1}) /\ (ip.v = other.v => Len(a) = Len(b))
  BY IPsAssumption
<1>2. (Subnet \div 8) * 8 <= Len(a) /\ Subnet \in Nat
  BY PrefixAssumption, SubnetAssumption
<1>3. ASSUME NEW L \in Nat
      PROVE  m(L) \in Nat /\ m(L) <= L /\ m(L) <= Subnet /\ (m(L) = L \/ m(L) = Subnet)
  <2>1. CASE Subnet <= L
    <3>1. m(L) = Subnet
      BY <1>2, <2>1 DEF Min
    <3> QED BY <1>2, <2>1, <3>1
  <2>2. CASE L <= Subnet
    <3>1. m(L) = L
      BY <1>2, <2>2 DEF Min
    <3> QED BY <1>2, <2>2, <3>1
  <2> QED BY <1>2, <2>1, <2>2
<1> HIDE DEF m
<1>4. Len(a) \in Nat /\ Len(b) \in Nat
  BY <1>1, LenProperties
<1>5. /\ SubSeq(a, 1, m(Len(a))) = [i \in 1 .. m(Len(a)) |-> a[i]]
      /\ SubSeq(b, 1, m(Len(b))) = [i \in 1 .. m(Len(b)) |-> b[i]]
  BY <1>1, <1>3, <1>4
<1>6. KeyOf(ip) = <<ip.v, SubSeq(a, 1, m(Len(a)))>> /\ KeyOf(other) = <<other.v, SubSeq(b, 1, m(Len(b)))>>
  BY DEF KeyOf, m
<1>7. SameNet(Subnet, ip, other) <=>
        ip.v = other.v /\ \A i \in 1 .. Len(a) : i <= Subnet => a[i] = b[i]
  BY <1>2 DEF SameNet
<1> HIDE DEF a, b
<1>8. CASE ip.v = other.v
  <2>1. Len(a) = Len(b)
    BY <1>1, <1>8
  <2>2. PICK n \in Nat : n = m(Len(a)) /\ n <= Len(a) /\ n <= Subnet /\ (n = Len(a) \/ n = Subnet)
    BY <1>3, <1>4
  <2>3. KeyOf(ip) = KeyOf(other) <=> [i \in 1 .. n |-> a[i]] = [i \in 1 .. n |-> b[i]]
    <3>1. m(Len(b)) = n /\ m(Len(a)) = n
      BY <2>1, <2>2
    <3>2. /\ KeyOf(ip) = <<ip.v, [i \in 1 .. n |-> a[i]]>>
          /\ KeyOf(other) = <<ip.v, [i \in 1 .. n |-> b[i]]>>
      BY <1>5, <1>6, <1>8, <3>1
    <3>3. PICK f, g : f = [i \in 1 .. n |-> a[i]] /\ g = [i \in 1 .. n |-> b[i]]
      OBVIOUS
    <3>4. KeyOf(ip) = <<ip.v, f>> /\ KeyOf(other) = <<ip.v, g>>
      BY <3>2, <3>3
    <3>5. KeyOf(ip) = KeyOf(other) <=> f = g
      BY <3>4
    <3> QED BY <3>3, <3>5, Zenon
  <2>4. [i \in 1 .. n |-> a[i]] = [i \in 1 .. n |-> b[i]] <=> \A i \in 1 .. n : a[i] = b[i]
    OBVIOUS
  <2>5. \A i \in 1 .. Len(a) : i <= Subnet <=> i \in 1 .. n
    BY <1>2, <1>4, <2>2
  <2>6. \A i \in 1 .. n : i \in 1 .. Len(a)
    BY <1>4, <2>2
  <2> QED BY <1>7, <1>8, <2>3, <2>4, <2>5, <2>6
<1>9. CASE ip.v # other.v
  BY <1>6, <1>7, <1>9
<1> QED BY <1>8, <1>9

\* As long as only accepted addresses are removed, a network's count is that of
\* the accepted addresses in it; and it never exceeds that of those offered.
NetInv ==
  /\ SetTypeOK
  /\ \A ip \in IPs : inside[ip] <= offered[ip]
  /\ \A ip \in IPs : orderly => SumOver(inside, Near(ip)) = Size(KeyOf(ip))
  /\ \A ip \in IPs : Size(KeyOf(ip)) <= SumOver(offered, Near(ip))

\* A set of near addresses, and who is in it.
LEMMA NearSets ==
  ASSUME NEW ip \in IPs
  PROVE  /\ IsFiniteSet(Near(ip)) /\ Near(ip) \subseteq IPs
         /\ \A other \in IPs : other \in Near(ip) <=> KeyOf(ip) = KeyOf(other)
<1>1. Near(ip) \subseteq IPs
  BY DEF Near
<1>2. IsFiniteSet(Near(ip))
  BY <1>1, IPsAssumption, FS_Subset
<1>3. \A other \in IPs : other \in Near(ip) <=> KeyOf(ip) = KeyOf(other)
  BY SameKey DEF Near
<1> QED BY <1>1, <1>2, <1>3

\* A count is a number, and at most the limit.
LEMMA SizeBounds ==
  ASSUME SetTypeOK, NEW key
  PROVE  Size(key) \in 0 .. Limit
BY SubnetAssumption DEF SetTypeOK, Size

\* Add, of an address of network key.
LEMMA AddIPKeeps ==
  ASSUME NetInv, NEW ip \in IPs, AddIP(ip)
  PROVE  NetInv'
<1> DEFINE key == KeyOf(ip)
<1>1. /\ offered[ip] < MaxOffers /\ offered' = [offered EXCEPT ![ip] = @ + 1]
      /\ orderly' = orderly /\ orderly \in BOOLEAN
      /\ IF Room(key)
         THEN /\ members' = [k \in KeysWith(key) |-> IF k = key THEN Size(k) + 1 ELSE members[k]]
              /\ inside' = [inside EXCEPT ![ip] = @ + 1]
         ELSE UNCHANGED <<members, inside>>
  BY DEF AddIP, NetInv, SetTypeOK
<1>2. /\ offered \in [IPs -> 0 .. MaxOffers] /\ inside \in [IPs -> 0 .. MaxOffers]
      /\ \A other \in IPs : inside[other] <= offered[other]
      /\ MaxOffers \in Nat /\ Limit \in Nat
  BY SubnetAssumption DEF NetInv, SetTypeOK
<1>3. \A other \in IPs : /\ offered[other] \in 0 .. MaxOffers /\ inside[other] \in 0 .. MaxOffers
                         /\ offered'[other] = IF other = ip THEN offered[other] + 1 ELSE offered[other]
  BY <1>1, <1>2
<1>4. offered' \in [IPs -> 0 .. MaxOffers]
  BY <1>1, <1>2
<1>5. ASSUME NEW other \in IPs
      PROVE  /\ SumOver(offered, Near(other)) \in Nat
             /\ SumOver(offered', Near(other)) =
                  IF key = KeyOf(other) THEN SumOver(offered, Near(other)) + 1
                  ELSE SumOver(offered, Near(other))
  <2> DEFINE S == Near(other)
  <2>1. IsFiniteSet(S) /\ S \subseteq IPs /\ (ip \in S <=> KeyOf(other) = KeyOf(ip))
    BY NearSets
  <2>2. PICK f, h : f = offered /\ h = offered'
    OBVIOUS
  <2>3. /\ \A x \in S : f[x] \in Nat /\ h[x] \in Nat
        /\ \A x \in S : h[x] = IF x = ip THEN f[x] + 1 ELSE f[x]
    BY <1>2, <1>3, <1>4, <2>1, <2>2
  <2> HIDE DEF S
  <2>4. SumOver(f, S) \in Nat /\ SumOver(h, S) = IF ip \in S THEN SumOver(f, S) + 1 ELSE SumOver(f, S)
    BY <2>1, <2>3, SumChange
  <2> QED BY <2>1, <2>2, <2>4 DEF S
<1>6. CASE Room(key)
  <2>1. /\ members' = [k \in DOMAIN members \cup {key} |-> IF k = key THEN Size(k) + 1 ELSE members[k]]
        /\ inside' = [inside EXCEPT ![ip] = @ + 1]
        /\ Size(key) < Limit
    BY <1>1, <1>6 DEF Room, KeysWith
  <2>2. Size(key) \in 0 .. Limit
    BY SizeBounds DEF NetInv
  <2> HIDE DEF key
  <2>3. \A k : Size(k)' = IF k = key THEN Size(k) + 1 ELSE Size(k)
    BY <2>1 DEF Size
  <2>4. \A k \in DOMAIN members' : members'[k] \in 1 .. Limit
    BY <1>2, <2>1, <2>2 DEF NetInv, SetTypeOK
  <2>5. DOMAIN members' \subseteq {KeyOf(other) : other \in IPs}
    BY <2>1 DEF NetInv, SetTypeOK, key
  <2>6. inside[ip] < MaxOffers
    BY <1>1, <1>2, <1>3
  <2>7. inside' \in [IPs -> 0 .. MaxOffers]
    BY <1>2, <2>1, <2>6
  <2>8. \A other \in IPs : inside'[other] = IF other = ip THEN inside[other] + 1 ELSE inside[other]
    BY <1>2, <2>1
  <2>9. ASSUME NEW other \in IPs
        PROVE  /\ SumOver(inside, Near(other)) \in Nat
               /\ SumOver(inside', Near(other)) =
                    IF key = KeyOf(other) THEN SumOver(inside, Near(other)) + 1
                    ELSE SumOver(inside, Near(other))
    <3> DEFINE S == Near(other)
    <3>1. IsFiniteSet(S) /\ S \subseteq IPs /\ (ip \in S <=> KeyOf(other) = KeyOf(ip))
      BY NearSets
    <3>2. PICK f, h : f = inside /\ h = inside'
      OBVIOUS
    <3>3. /\ \A x \in S : f[x] \in Nat /\ h[x] \in Nat
          /\ \A x \in S : h[x] = IF x = ip THEN f[x] + 1 ELSE f[x]
      BY <1>2, <2>7, <2>8, <3>1, <3>2
    <3> HIDE DEF S
    <3>4. SumOver(f, S) \in Nat /\ SumOver(h, S) = IF ip \in S THEN SumOver(f, S) + 1 ELSE SumOver(f, S)
      BY <3>1, <3>3, SumChange
    <3> QED BY <3>1, <3>2, <3>4 DEF S, key
  <2>10. SetTypeOK'
    BY <1>1, <1>4, <2>4, <2>5, <2>7 DEF SetTypeOK
  <2>11. \A other \in IPs : inside'[other] <= offered'[other]
    BY <1>2, <1>3, <2>8
  <2>12. ASSUME NEW other \in IPs
         PROVE  /\ orderly' => SumOver(inside', Near(other)) = Size(KeyOf(other))'
                /\ Size(KeyOf(other))' <= SumOver(offered', Near(other))
    <3>1. Size(KeyOf(other)) \in Nat
      BY SizeBounds DEF NetInv
    <3>2. /\ orderly => SumOver(inside, Near(other)) = Size(KeyOf(other))
          /\ Size(KeyOf(other)) <= SumOver(offered, Near(other))
      BY DEF NetInv
    <3>3. Size(KeyOf(other))' =
            IF KeyOf(other) = key THEN Size(KeyOf(other)) + 1 ELSE Size(KeyOf(other))
      BY <2>3
    <3>4. Size(KeyOf(other))' <= SumOver(offered', Near(other))
      BY <1>5, <3>1, <3>2, <3>3
    <3>5. ASSUME orderly'  PROVE SumOver(inside', Near(other)) = Size(KeyOf(other))'
      <4>1. orderly
        BY <1>1, <3>5
      <4> QED BY <2>9, <3>1, <3>2, <3>3, <4>1
    <3> QED BY <3>4, <3>5
  <2> QED BY <2>10, <2>11, <2>12 DEF NetInv, Near
<1>7. CASE ~ Room(key)
  <2>1. UNCHANGED <<members, inside>>
    BY <1>1, <1>7
  <2>2. SetTypeOK'
    BY <1>1, <1>4, <2>1 DEF NetInv, SetTypeOK
  <2>3. \A other \in IPs : inside'[other] <= offered'[other]
    BY <1>2, <1>3, <2>1
  <2>4. ASSUME NEW other \in IPs
        PROVE  /\ orderly' => SumOver(inside', Near(other)) = Size(KeyOf(other))'
               /\ Size(KeyOf(other))' <= SumOver(offered', Near(other))
    <3>1. Size(KeyOf(other)) \in Nat /\ Size(KeyOf(other))' = Size(KeyOf(other))
      BY <2>1, SizeBounds DEF NetInv, Size
    <3>2. /\ orderly => SumOver(inside, Near(other)) = Size(KeyOf(other))
          /\ Size(KeyOf(other)) <= SumOver(offered, Near(other))
      BY DEF NetInv
    <3>3. SumOver(offered, Near(other)) <= SumOver(offered', Near(other))
      BY <1>5
    <3>4. Size(KeyOf(other))' <= SumOver(offered', Near(other))
      BY <1>5, <3>1, <3>2, <3>3
    <3>5. ASSUME orderly'  PROVE SumOver(inside', Near(other)) = Size(KeyOf(other))'
      <4>1. orderly
        BY <1>1, <3>5
      <4> QED BY <2>1, <3>1, <3>2, <4>1
    <3> QED BY <3>4, <3>5
  <2> QED BY <2>2, <2>3, <2>4 DEF NetInv, Near
<1> QED BY <1>6, <1>7

\* Remove, of an address that was accepted or of one that was not.
LEMMA RemoveIPKeeps ==
  ASSUME NetInv, NEW ip \in IPs, RemoveIP(ip)
  PROVE  NetInv'
<1> DEFINE key == KeyOf(ip)
           left == [k \in DOMAIN members |-> IF k = key THEN Less(members[k]) ELSE members[k]]
<1>1. /\ offered' = [offered EXCEPT ![ip] = Less(@)]
      /\ members' = [k \in {x \in DOMAIN left : left[x] # 0} |-> left[k]]
      /\ inside' = [inside EXCEPT ![ip] = Less(@)]
      /\ orderly' = (orderly /\ inside[ip] > 0)
  BY DEF RemoveIP, Restrict
<1>2. /\ offered \in [IPs -> 0 .. MaxOffers] /\ inside \in [IPs -> 0 .. MaxOffers]
      /\ \A other \in IPs : inside[other] <= offered[other]
      /\ MaxOffers \in Nat /\ Limit \in Nat /\ orderly \in BOOLEAN
  BY SubnetAssumption DEF NetInv, SetTypeOK
<1>3. \A other \in IPs :
        /\ offered[other] \in 0 .. MaxOffers /\ inside[other] \in 0 .. MaxOffers
        /\ offered'[other] = IF other = ip THEN Less(offered[other]) ELSE offered[other]
        /\ inside'[other] = IF other = ip THEN Less(inside[other]) ELSE inside[other]
  BY <1>1, <1>2
<1>4. /\ Less(inside[ip]) \in 0 .. MaxOffers /\ Less(offered[ip]) \in 0 .. MaxOffers
      /\ Less(inside[ip]) <= Less(offered[ip])
  BY <1>2, <1>3 DEF Less
<1>5. offered' \in [IPs -> 0 .. MaxOffers] /\ inside' \in [IPs -> 0 .. MaxOffers]
  BY <1>1, <1>2, <1>3, <1>4
<1>6. \A k \in DOMAIN members : members[k] \in 1 .. Limit
  BY DEF NetInv, SetTypeOK
<1>7. \A k : Size(k) \in 0 .. Limit
  BY SizeBounds DEF NetInv
<1> HIDE DEF key
<1>8. \A k : Size(k)' = IF k = key THEN Less(Size(k)) ELSE Size(k)
  BY <1>1, <1>2, <1>6 DEF Size, Less
<1>9. SetTypeOK'
  <2>1. \A k \in DOMAIN members' : k \in DOMAIN members /\ members'[k] \in 1 .. Limit
    BY <1>1, <1>2, <1>6 DEF Less
  <2>2. orderly' \in BOOLEAN
    BY <1>1, Zenon
  <2> QED BY <1>5, <2>1, <2>2 DEF NetInv, SetTypeOK
<1>10. \A other \in IPs : inside'[other] <= offered'[other]
  BY <1>2, <1>3, <1>4
<1>11. ASSUME NEW other \in IPs
       PROVE  /\ SumOver(offered, Near(other)) \in Nat
              /\ SumOver(offered', Near(other)) \in Nat
              /\ \/ SumOver(offered', Near(other)) = SumOver(offered, Near(other))
                 \/ /\ key = KeyOf(other)
                    /\ SumOver(offered', Near(other)) = SumOver(offered, Near(other)) - 1
  <2> DEFINE S == Near(other)
  <2>1. IsFiniteSet(S) /\ S \subseteq IPs /\ (ip \in S <=> KeyOf(other) = KeyOf(ip))
    BY NearSets
  <2>2. PICK f, h : f = offered /\ h = offered'
    OBVIOUS
  <2>3. \A x \in S : f[x] \in Nat /\ h[x] \in Nat
    <3>1. \A x \in IPs : f[x] \in Nat /\ h[x] \in Nat
      BY <1>2, <1>3, <1>5, <2>2
    <3> QED BY <2>1, <3>1
  <2>4. SumOver(f, S) \in Nat /\ SumOver(h, S) \in Nat
    <3>1. ASSUME NEW g, \A x \in S : g[x] \in Nat  PROVE SumOver(g, S) \in Nat
      <4>1. IsFiniteSet(S) /\ \A x \in S : g[x] = IF x = ip THEN g[x] + 0 ELSE g[x]
        BY <2>1, <3>1
      <4> HIDE DEF S
      <4> QED BY <3>1, <4>1, SumChange
    <3> QED BY <2>3, <3>1
  <2>5. CASE offered[ip] = 0
    <3>1. h = f
      BY <1>1, <1>2, <2>2, <2>5 DEF Less
    <3> QED BY <2>2, <2>4, <3>1
  <2>6. CASE offered[ip] # 0
    <3>1. \A x \in S : h[x] = IF x = ip THEN f[x] + (-1) ELSE f[x]
      BY <1>2, <1>3, <2>1, <2>2, <2>6 DEF Less
    <3>2. -1 \in Int
      OBVIOUS
    <3> HIDE DEF S
    <3>3. SumOver(h, S) = IF ip \in S THEN SumOver(f, S) + (-1) ELSE SumOver(f, S)
      BY <2>1, <2>3, <3>1, <3>2, SumChange
    <3> QED BY <2>1, <2>2, <2>4, <3>3 DEF S, key
  <2> QED BY <2>5, <2>6
<1>12. ASSUME NEW other \in IPs, inside[ip] > 0
       PROVE  /\ SumOver(inside, Near(other)) \in Nat
              /\ SumOver(inside', Near(other)) \in Nat
              /\ SumOver(inside', Near(other)) =
                   IF key = KeyOf(other) THEN SumOver(inside, Near(other)) - 1
                   ELSE SumOver(inside, Near(other))
  <2> DEFINE S == Near(other)
  <2>1. IsFiniteSet(S) /\ S \subseteq IPs /\ (ip \in S <=> KeyOf(other) = KeyOf(ip))
    BY NearSets
  <2>2. PICK f, h : f = inside /\ h = inside'
    OBVIOUS
  <2>3. /\ \A x \in S : f[x] \in Nat /\ h[x] \in Nat
        /\ \A x \in S : h[x] = IF x = ip THEN f[x] + (-1) ELSE f[x]
    BY <1>2, <1>3, <1>5, <1>12, <2>1, <2>2 DEF Less
  <2>4. \A x \in S : h[x] = IF x = ip THEN h[x] + 0 ELSE h[x]
    BY <2>3
  <2> HIDE DEF S
  <2>5. -1 \in Int
    OBVIOUS
  <2>6. SumOver(f, S) \in Nat /\ SumOver(h, S) = IF ip \in S THEN SumOver(f, S) + (-1) ELSE SumOver(f, S)
    BY <2>1, <2>3, <2>5, SumChange
  <2>7. SumOver(h, S) \in Nat
    BY <2>1, <2>3, <2>4, SumChange
  <2> QED BY <2>1, <2>2, <2>6, <2>7 DEF S, key
<1>13. ASSUME NEW other \in IPs
       PROVE  /\ orderly' => SumOver(inside', Near(other)) = Size(KeyOf(other))'
              /\ Size(KeyOf(other))' <= SumOver(offered', Near(other))
  <2>1. /\ orderly => SumOver(inside, Near(other)) = Size(KeyOf(other))
        /\ Size(KeyOf(other)) <= SumOver(offered, Near(other))
    BY DEF NetInv
  <2>2. Size(KeyOf(other)) \in Nat
    BY <1>2, <1>7
  <2>3. Size(KeyOf(other))' =
          IF KeyOf(other) = key THEN Less(Size(KeyOf(other))) ELSE Size(KeyOf(other))
    BY <1>8
  <2>4. Size(KeyOf(other))' <= SumOver(offered', Near(other))
    BY <1>11, <2>1, <2>2, <2>3 DEF Less
  <2>5. ASSUME orderly'  PROVE SumOver(inside', Near(other)) = Size(KeyOf(other))'
    <3>1. orderly /\ inside[ip] > 0
      BY <1>1, <2>5
    <3> QED BY <1>12, <2>1, <2>2, <2>3, <3>1 DEF Less
  <2> QED BY <2>4, <2>5
<1> QED BY <1>9, <1>10, <1>13 DEF NetInv, Near

\* The empty set, and every step.
LEMMA NetInit == SetInit => NetInv
<1> SUFFICES ASSUME SetInit  PROVE NetInv
  OBVIOUS
<1>1. \A key : Size(key) = 0
  BY DEF SetInit, Size
<1>2. SetTypeOK
  BY SubnetAssumption DEF SetInit, SetTypeOK
<1>3. ASSUME NEW ip \in IPs
      PROVE  SumOver(inside, Near(ip)) = 0 /\ SumOver(offered, Near(ip)) = 0
  <2>1. IsFiniteSet(Near(ip)) /\ Near(ip) \subseteq IPs
    BY NearSets
  <2>2. /\ \A x \in Near(ip) : inside[x] = 0
        /\ \A x \in Near(ip) : offered[x] = 0
    BY <2>1 DEF SetInit
  <2> QED BY <2>1, <2>2, SumOfZeros
<1> QED BY <1>1, <1>2, <1>3 DEF SetInit, NetInv

LEMMA NetStep == NetInv /\ [SetNext]_setVars => NetInv'
<1> SUFFICES ASSUME NetInv, [SetNext]_setVars  PROVE NetInv'
  OBVIOUS
<1>1. CASE SetNext
  BY <1>1, AddIPKeeps, RemoveIPKeeps DEF SetNext
<1>2. CASE UNCHANGED setVars
  BY <1>2 DEF setVars, NetInv, SetTypeOK, Size, Near
<1> QED BY <1>1, <1>2

\* The variables of a DistinctNetSet keep their types, and a network without
\* addresses is not kept.
THEOREM NetSetTyped == SetSpec => []SetTypeOK
<1>1. NetInv => SetTypeOK
  BY DEF NetInv
<1> QED BY <1>1, NetInit, NetStep, PTL DEF SetSpec

\* Of the addresses in one network, as SameNet has it, at most Limit are in the
\* set, and a refusal means that there are as many, if nothing is removed that
\* was refused; in any order of any calls a network counts no more than was
\* offered of it.  For every prefix, limit and set of addresses.
THEOREM NetsAreDistinct == SetSpec => []DistinctNets
<1>1. ASSUME NetInv  PROVE DistinctNets
  <2> SUFFICES ASSUME NEW ip \in IPs
               PROVE  /\ orderly => Total(inside, Near(ip)) = Size(KeyOf(ip))
                      /\ Size(KeyOf(ip)) <= Limit /\ Size(KeyOf(ip)) <= Total(offered, Near(ip))
    BY DEF DistinctNets
  <2>1. /\ orderly => SumOver(inside, Near(ip)) = Size(KeyOf(ip))
        /\ Size(KeyOf(ip)) <= SumOver(offered, Near(ip))
    BY <1>1 DEF NetInv
  <2>2. Size(KeyOf(ip)) \in 0 .. Limit
    BY <1>1, SizeBounds DEF NetInv
  <2>3. Size(KeyOf(ip)) <= Limit
    BY <2>2, SubnetAssumption
  <2> QED BY <2>1, <2>3 DEF Total, SumOver
<1> QED BY <1>1, NetInit, NetStep, PTL DEF SetSpec

-----------------------------------------------------------------------------
(* Metric *)

\* Powers of two, counted by the subsets of 1 .. n: those with n + 1 are as
\* many as those without.
LEMMA PowerStep ==
  ASSUME NEW n \in Nat
  PROVE  2 ^ n \in Nat /\ 2 ^ (n + 1) = 2 * 2 ^ n
<1> DEFINE A == SUBSET (1 .. n)
           B == {s \cup {n + 1} : s \in A}
<1>1. ASSUME NEW k \in Nat
      PROVE  /\ IsFiniteSet(SUBSET (1 .. k))
             /\ Cardinality(SUBSET (1 .. k)) = 2 ^ k
  <2>1. IsFiniteSet(1 .. k) /\ Cardinality(1 .. k) = k
    BY FS_Interval
  <2> QED BY <2>1, FS_SUBSET
<1>2. 2 ^ n \in Nat
  BY <1>1, FS_CardinalityType
<1>3. SUBSET (1 .. n + 1) = A \cup B
  <2>1. 1 .. n + 1 = (1 .. n) \cup {n + 1} /\ n + 1 \notin 1 .. n
    OBVIOUS
  <2>2. ASSUME NEW s \in SUBSET (1 .. n + 1)  PROVE s \in A \cup B
    <3>1. CASE n + 1 \in s
      <4>1. s \ {n + 1} \in A /\ s = (s \ {n + 1}) \cup {n + 1}
        BY <2>1, <3>1
      <4> QED BY <4>1
    <3>2. CASE n + 1 \notin s
      BY <2>1, <3>2
    <3> QED BY <3>1, <3>2
  <2>3. ASSUME NEW s \in A  PROVE s \in SUBSET (1 .. n + 1) /\ s \cup {n + 1} \in SUBSET (1 .. n + 1)
    BY <2>1
  <2>4. \A t \in B : t \in SUBSET (1 .. n + 1)
    BY <2>3
  <2>5. \A t \in A : t \in SUBSET (1 .. n + 1)
    BY <2>3
  <2> HIDE DEF A, B
  <2> QED BY <2>2, <2>4, <2>5
<1>4. A \cap B = {}
  OBVIOUS
<1>5. IsFiniteSet(B) /\ Cardinality(B) = Cardinality(A)
  <2> DEFINE f == [s \in A |-> s \cup {n + 1}]
  <2>1. \A s, t \in A : s \cup {n + 1} = t \cup {n + 1} => s = t
    <3>1. n + 1 \notin 1 .. n
      OBVIOUS
    <3> QED BY <3>1
  <2>2. f \in Bijection(A, B)
    <3>1. f \in [A -> B] /\ \A s \in A : f[s] = s \cup {n + 1}
      OBVIOUS
    <3>2. \A t \in B : \E s \in A : t = s \cup {n + 1}
      OBVIOUS
    <3> HIDE DEF A, B, f
    <3>3. \A s, t \in A : f[s] = f[t] => s = t
      BY <2>1, <3>1
    <3>4. \A t \in B : \E s \in A : f[s] = t
      BY <3>1, <3>2
    <3> QED BY <3>1, <3>3, <3>4 DEF Bijection, Injection, Surjection, IsInjective
  <2>3. ExistsBijection(A, B)
    BY <2>2 DEF ExistsBijection
  <2> QED BY <1>1, <2>3, FS_Bijection
<1> HIDE DEF A, B
<1>6. Cardinality(A \cup B) = 2 ^ n + 2 ^ n
  <2>1. IsFiniteSet(A) /\ Cardinality(A) = 2 ^ n
    BY <1>1 DEF A
  <2>2. Cardinality(A \cup B) = Cardinality(A) + Cardinality(B) - Cardinality(A \cap B)
    BY <1>5, <2>1, FS_Union
  <2> QED BY <1>2, <1>4, <1>5, <2>1, <2>2, FS_EmptySet
<1>7. 2 ^ (n + 1) = 2 ^ n + 2 ^ n
  <2>1. Cardinality(SUBSET (1 .. n + 1)) = 2 ^ (n + 1)
    BY <1>1
  <2> QED BY <1>3, <1>6, <2>1
<1> QED BY <1>2, <1>7

LEMMA PowerZero == 2 ^ 0 = 1
<1>1. IsFiniteSet({}) /\ Cardinality({}) = 0
  BY FS_EmptySet
<1>2. Cardinality(SUBSET {}) = 2 ^ 0
  BY <1>1, FS_SUBSET
<1>3. SUBSET {} = {{}}
  OBVIOUS
<1> QED BY <1>2, <1>3, FS_Singleton

LEMMA Powers ==
  ASSUME NEW m \in Nat, NEW n \in Nat
  PROVE  /\ 2 ^ m \in Nat \ {0}
         /\ 2 ^ (m + n) = 2 ^ m * 2 ^ n
         /\ m <= n => 2 ^ m <= 2 ^ n
<1>1. ASSUME NEW k \in Nat  PROVE 2 ^ k \in Nat \ {0}
  <2> DEFINE T == {j \in 0 .. k : 2 ^ j \in Nat \ {0}}
  <2>1. 0 \in T
    BY PowerZero
  <2>2. ASSUME NEW j \in 1 .. k, j - 1 \in T  PROVE j \in T
    <3>1. PICK i \in Nat : i = j - 1 /\ j = i + 1
      OBVIOUS
    <3>2. 2 ^ i \in Nat \ {0} /\ 2 ^ (i + 1) = 2 * 2 ^ i
      BY <2>2, <3>1, PowerStep
    <3>3. 2 ^ (i + 1) \in Nat \ {0}
      BY <3>2
    <3> QED BY <3>1, <3>3
  <2>3. k \in 0 .. k
    OBVIOUS
  <2> HIDE DEF T
  <2>4. k \in T
    BY <2>1, <2>2, <2>3, UpTo
  <2> QED BY <2>4 DEF T
<1>2. ASSUME NEW i \in Nat, NEW k \in Nat  PROVE 2 ^ (i + k) = 2 ^ i * 2 ^ k
  <2> DEFINE T == {j \in 0 .. k : 2 ^ (i + j) = 2 ^ i * 2 ^ j}
  <2>1. 0 \in T
    <3>1. i + 0 = i /\ 2 ^ i \in Nat
      BY <1>1
    <3>2. 2 ^ (i + 0) = 2 ^ i * 2 ^ 0
      BY <3>1, PowerZero
    <3> QED BY <3>2
  <2>2. ASSUME NEW j \in 1 .. k, j - 1 \in T  PROVE j \in T
    <3>1. PICK l \in Nat : l = j - 1 /\ j = l + 1
      OBVIOUS
    <3>2. 2 ^ (i + l) = 2 ^ i * 2 ^ l
      BY <2>2, <3>1
    <3>3. 2 ^ (l + 1) = 2 * 2 ^ l
      BY PowerStep
    <3>4. 2 ^ ((i + l) + 1) = 2 * 2 ^ (i + l)
      BY PowerStep
    <3>5. PICK x \in Nat : x = 2 ^ i
      BY <1>1
    <3>6. PICK y \in Nat : y = 2 ^ l
      BY <1>1
    <3>7. 2 * (x * y) = x * (2 * y)
      OBVIOUS
    <3>8. 2 ^ ((i + l) + 1) = 2 ^ i * 2 ^ (l + 1)
      BY <3>2, <3>3, <3>4, <3>5, <3>6, <3>7
    <3>9. i + j = (i + l) + 1
      BY <3>1
    <3> QED BY <3>1, <3>8, <3>9
  <2>3. k \in 0 .. k
    OBVIOUS
  <2> HIDE DEF T
  <2>4. k \in T
    BY <2>1, <2>2, <2>3, UpTo
  <2> QED BY <2>4 DEF T
<1>3. ASSUME m <= n  PROVE 2 ^ m <= 2 ^ n
  <2>1. PICK k \in Nat : n = m + k
    <3>1. n - m \in Nat /\ n = m + (n - m)
      BY <1>3
    <3> QED BY <3>1
  <2>2. PICK x \in Nat \ {0} : x = 2 ^ m
    BY <1>1
  <2>3. PICK y \in Nat \ {0} : y = 2 ^ k
    BY <1>1
  <2>4. x <= x * y
    OBVIOUS
  <2> QED BY <1>2, <2>1, <2>2, <2>3, <2>4
<1> QED BY <1>1, <1>2, <1>3

\* The prefixes of a hash are computed byte by byte.
IsChain(g, h, k) == g[0] = 0 /\ \A j \in 1 .. k : g[j] = g[j - 1] * 2 ^ ByteBits + h[j]

LEMMA Widths ==
  /\ ByteBits \in Nat \ {0} /\ Bytes \in Nat /\ PrefixBytes \in 1 .. Bytes
  /\ 2 ^ ByteBits \in Nat \ {0}
  /\ 0 \in Byte /\ Byte \subseteq Nat /\ \A a \in Byte : a < 2 ^ ByteBits
<1>1. ByteBits \in Nat \ {0} /\ Bytes \in Nat /\ PrefixBytes \in 1 .. Bytes
  BY WidthAssumption
<1>2. PICK b \in Nat \ {0} : b = 2 ^ ByteBits
  BY <1>1, Powers
<1>3. Byte = 0 .. b - 1
  BY <1>2 DEF Byte
<1> QED BY <1>1, <1>2, <1>3

LEMMA PrefixChain ==
  ASSUME NEW h \in Hashes, NEW k \in 0 .. Bytes
  PROVE  \E g \in [0 .. k -> Nat] : IsChain(g, h, k) /\ g[k] = PrefixOf(h, k)
<1> DEFINE S == 1 .. k
           s == SubSeq(h, 1, k)
           Shifted(v, b) == v * 2 ^ ByteBits + b
           pick == [t \in SUBSET S |-> Max(t)]
           step == [x \in Nat \X S |-> Shifted(x[1], h[x[2]])]
           Folds(f) == f = [t \in SUBSET S |-> IF t = {} THEN 0 ELSE Shifted(f[t \ {Max(t)}], s[Max(t)])]
           iter == CHOOSE f : Folds(f)
<1>0. k \in Nat /\ \A i \in S : i \in 1 .. Bytes /\ h[i] \in Nat
  <2>1. k \in Nat /\ \A i \in S : i \in 1 .. Bytes
    BY Widths
  <2>2. \A i \in 1 .. Bytes : h[i] \in Byte
    BY DEF Hashes
  <2> QED BY <2>1, <2>2, Widths
<1>1. s = [i \in S |-> h[i]] /\ DOMAIN s = S
  <2>1. s = [i \in 1 .. 1 + k - 1 |-> h[i + 1 - 1]]
    BY <1>0
  <2>2. 1 + k - 1 = k /\ \A i \in 1 .. k : i + 1 - 1 = i
    BY <1>0
  <2> QED BY <2>1, <2>2
<1>2. PrefixOf(h, k) = iter[S]
  BY <1>1 DEF PrefixOf, FoldLeft, MapThenFoldSet
<1>3. PICK b \in Nat : b = 2 ^ ByteBits
  BY Widths
<1> HIDE DEF S
<1>4. \A t \in SUBSET S : t # {} => pick[t] \in t /\ Max(t) \in S /\ pick[t] = Max(t) /\ s[Max(t)] = h[Max(t)]
  <2>1. \A t \in SUBSET S : t # {} => Max(t) \in t
    BY <1>0, MaxOfPositions DEF S
  <2> QED BY <1>1, <2>1
<1> HIDE DEF s
<1>5. step \in [Nat \X S -> Nat]
  <2>1. \A v \in Nat, i \in S : Shifted(v, h[i]) \in Nat
    BY <1>0, <1>3
  <2> QED BY <2>1
<1>6. PICK f \in [SUBSET S -> Nat] : IsFold(f, S, 0, step, pick)
  <2>1. IsFiniteSet(S)
    BY <1>0, FS_Interval DEF S
  <2>2. \A t \in SUBSET S : t # {} => pick[t] \in t
    BY <1>4
  <2>3. 0 \in Nat
    OBVIOUS
  <2> HIDE DEF pick, step
  <2> QED BY <1>5, <2>1, <2>2, <2>3, FoldExists
<1>7. Folds(f)
  <2>1. ASSUME NEW t \in SUBSET S, t # {}
        PROVE  f[t] = Shifted(f[t \ {Max(t)}], s[Max(t)])
    <3>1. f[t \ {Max(t)}] \in Nat /\ pick[t] = Max(t) /\ Max(t) \in S /\ s[Max(t)] = h[Max(t)]
      BY <1>4, <2>1
    <3>2. f[t] = step[<<f[t \ {Max(t)}], Max(t)>>]
      BY <1>6, <2>1, <3>1 DEF IsFold
    <3>3. <<f[t \ {Max(t)}], Max(t)>> \in Nat \X S
      BY <3>1
    <3> HIDE DEF Shifted
    <3> QED BY <3>1, <3>2, <3>3
  <2> HIDE DEF Shifted
  <2> QED BY <1>6, <2>1 DEF IsFold
<1>8. Folds(iter)
  BY <1>7
<1> HIDE DEF iter, Shifted
<1>9. \A t \in SUBSET S : iter[t] = IF t = {} THEN 0 ELSE Shifted(iter[t \ {Max(t)}], s[Max(t)])
  BY <1>8
<1> DEFINE g == [j \in 0 .. k |-> iter[1 .. j]]
<1>10. g[0] = 0
  <2>1. 1 .. 0 = {} /\ {} \in SUBSET S /\ 0 \in 0 .. k
    BY <1>0
  <2> QED BY <1>9, <2>1
<1>11. ASSUME NEW j \in 1 .. k  PROVE g[j] = g[j - 1] * 2 ^ ByteBits + h[j]
  <2>1. Max(1 .. j) = j /\ (1 .. j) \ {j} = 1 .. j - 1
    BY <1>0, MaxOfPositions
  <2>2. PICK t : t = 1 .. j
    OBVIOUS
  <2>3. t \in SUBSET S /\ t # {}
    <3>1. j \in 1 .. j /\ 1 .. j \subseteq 1 .. k
      BY <1>0
    <3> QED BY <2>2, <3>1 DEF S
  <2>4. iter[t] = Shifted(iter[t \ {Max(t)}], s[Max(t)]) /\ s[Max(t)] = h[Max(t)]
    BY <1>4, <1>9, <2>3
  <2>5. iter[1 .. j] = Shifted(iter[1 .. j - 1], h[j])
    BY <2>1, <2>2, <2>4
  <2>6. j \in 0 .. k /\ j - 1 \in 0 .. k
    OBVIOUS
  <2> QED BY <2>5, <2>6 DEF Shifted
<1> DEFINE T == {j \in 0 .. k : g[j] \in Nat}
<1>12. \A j \in 0 .. k : j \in T
  <2>1. 0 \in 0 .. k
    BY <1>0
  <2>2. 0 \in T
    BY <1>10, <2>1
  <2> HIDE DEF g
  <2>3. ASSUME NEW j \in 1 .. k, j - 1 \in T  PROVE j \in T
    <3>1. g[j - 1] \in Nat /\ h[j] \in Nat /\ g[j] = g[j - 1] * b + h[j] /\ j \in 0 .. k
      BY <1>0, <1>3, <1>11, <2>3 DEF S
    <3> QED BY <3>1
  <2> HIDE DEF T
  <2> QED BY <1>0, <2>2, <2>3, UpTo
<1>13. g \in [0 .. k -> Nat]
  BY <1>12
<1>14. k \in 0 .. k /\ g[k] = PrefixOf(h, k)
  BY <1>0, <1>2 DEF S
<1> HIDE DEF g
<1> QED BY <1>10, <1>11, <1>13, <1>14 DEF IsChain

LEMMA PrefixStep ==
  ASSUME NEW h \in Hashes
  PROVE  /\ PrefixOf(h, 0) = 0
         /\ \A k \in 1 .. Bytes : PrefixOf(h, k) = PrefixOf(h, k - 1) * 2 ^ ByteBits + h[k]
<1>1. PrefixOf(h, 0) = 0
  <2>1. 0 \in 0 .. Bytes
    BY Widths
  <2> QED BY <2>1, PrefixChain DEF IsChain
<1>2. ASSUME NEW k \in 1 .. Bytes
      PROVE  PrefixOf(h, k) = PrefixOf(h, k - 1) * 2 ^ ByteBits + h[k]
  <2>1. PICK j \in Nat : j = k - 1 /\ k = j + 1 /\ j \in 0 .. Bytes /\ k \in 0 .. Bytes
    BY Widths
  <2>2. PICK g \in [0 .. k -> Nat] : IsChain(g, h, k) /\ g[k] = PrefixOf(h, k)
    BY <2>1, PrefixChain
  <2>3. PICK f \in [0 .. j -> Nat] : IsChain(f, h, j) /\ f[j] = PrefixOf(h, j)
    BY <2>1, PrefixChain
  <2> DEFINE T == {i \in 0 .. j : f[i] = g[i]}
  <2>4. 0 \in T
    BY <2>1, <2>2, <2>3 DEF IsChain
  <2>5. ASSUME NEW i \in 1 .. j, i - 1 \in T  PROVE i \in T
    <3>1. i \in 1 .. k /\ i \in 0 .. j
      BY <2>1
    <3>2. f[i - 1] = g[i - 1]
      BY <2>5
    <3> QED BY <2>2, <2>3, <3>1, <3>2 DEF IsChain
  <2>6. j \in 0 .. j
    OBVIOUS
  <2> HIDE DEF T
  <2>7. j \in T
    BY <2>4, <2>5, <2>6, UpTo
  <2>8. f[j] = g[j]
    BY <2>7 DEF T
  <2>9. k \in 1 .. k
    BY <2>1
  <2>10. g[k] = g[k - 1] * 2 ^ ByteBits + h[k]
    BY <2>2, <2>9 DEF IsChain
  <2> QED BY <2>1, <2>2, <2>3, <2>8, <2>10
<1> QED BY <1>1, <1>2

\* A prefix of k bytes is a number of k bytes.
LEMMA PrefixRange ==
  ASSUME NEW h \in Hashes, NEW k \in 0 .. Bytes
  PROVE  PrefixOf(h, k) \in Nat /\ PrefixOf(h, k) < 2 ^ (k * ByteBits)
<1> DEFINE T == {j \in 0 .. k : PrefixOf(h, j) \in Nat /\ PrefixOf(h, j) < 2 ^ (j * ByteBits)}
<1>1. 0 \in T
  <2>1. 0 * ByteBits = 0 /\ 0 \in 0 .. k
    BY Widths
  <2>2. PrefixOf(h, 0) < 2 ^ (0 * ByteBits)
    <3>1. 2 ^ (0 * ByteBits) = 1 /\ PrefixOf(h, 0) = 0
      BY <2>1, PowerZero, PrefixStep
    <3> QED BY <3>1
  <2> QED BY <2>1, <2>2, PrefixStep
<1>2. ASSUME NEW j \in 1 .. k, j - 1 \in T  PROVE j \in T
  <2>1. PICK i \in Nat : i = j - 1 /\ j = i + 1 /\ j \in 0 .. k /\ j \in 1 .. Bytes
    BY Widths
  <2>2. PICK v \in Nat : v = PrefixOf(h, i)
    BY <1>2, <2>1
  <2>3. PICK a \in Nat : a = h[j] /\ a < 2 ^ ByteBits
    BY <2>1, Widths DEF Hashes
  <2>4. PICK b \in Nat : b = 2 ^ ByteBits
    BY Widths
  <2>5. i * ByteBits \in Nat /\ j * ByteBits = i * ByteBits + ByteBits
    BY <2>1, Widths
  <2>6. PICK m \in Nat : m = 2 ^ (i * ByteBits)
    BY <2>5, Powers
  <2>7. 2 ^ (j * ByteBits) = m * b
    BY <2>4, <2>5, <2>6, Powers, Widths
  <2>8. v < m
    BY <1>2, <2>1, <2>2, <2>6
  <2>9. v * b + a \in Nat /\ v * b + a < m * b
    <3>1. v + 1 <= m
      BY <2>8
    <3>2. (v + 1) * b <= m * b
      BY <3>1
    <3>3. (v + 1) * b = v * b + b
      OBVIOUS
    <3>4. v * b \in Nat /\ m * b \in Nat
      OBVIOUS
    <3> QED BY <2>3, <2>4, <3>2, <3>3, <3>4
  <2>10. PrefixOf(h, j) = v * b + a
    BY <2>1, <2>2, <2>3, <2>4, PrefixStep
  <2> QED BY <2>1, <2>7, <2>9, <2>10
<1>3. k \in 0 .. k /\ k \in Nat
  BY Widths
<1> HIDE DEF T
<1>4. k \in T
  BY <1>1, <1>2, <1>3, UpTo
<1> QED BY <1>4 DEF T

\* Prefixes that agree byte for byte are equal.
LEMMA SamePrefix ==
  ASSUME NEW h \in Hashes, NEW l \in Hashes, NEW k \in 0 .. Bytes,
         \A j \in 1 .. k : h[j] = l[j]
  PROVE  PrefixOf(h, k) = PrefixOf(l, k)
<1> DEFINE T == {j \in 0 .. k : PrefixOf(h, j) = PrefixOf(l, j)}
<1>1. k \in 0 .. k /\ k \in Nat /\ 0 \in 0 .. k /\ \A j \in 1 .. k : j \in 1 .. Bytes /\ j \in 0 .. k
  BY Widths
<1>2. 0 \in T
  BY <1>1, PrefixStep
<1>3. ASSUME NEW j \in 1 .. k, j - 1 \in T  PROVE j \in T
  <2>1. PrefixOf(h, j - 1) = PrefixOf(l, j - 1)
    BY <1>3
  <2> QED BY <1>1, <2>1, PrefixStep
<1> HIDE DEF T
<1>4. k \in T
  BY <1>1, <1>2, <1>3, UpTo
<1> QED BY <1>4 DEF T

\* What orders two prefixes orders the hashes: nothing behind them outweighs it.
LEMMA SmallerPrefix ==
  ASSUME NEW h \in Hashes, NEW l \in Hashes, NEW i \in 0 .. Bytes, NEW k \in i .. Bytes,
         PrefixOf(h, i) < PrefixOf(l, i)
  PROVE  PrefixOf(h, k) < PrefixOf(l, k)
<1> DEFINE T == {j \in 0 .. k - i : PrefixOf(h, i + j) < PrefixOf(l, i + j)}
<1>1. i \in Nat /\ k \in Nat /\ k - i \in Nat /\ i + 0 = i /\ i + (k - i) = k /\ k - i \in 0 .. k - i
  BY Widths
<1>2. 0 \in T
  BY <1>1
<1>3. ASSUME NEW j \in 1 .. k - i, j - 1 \in T  PROVE j \in T
  <2>1. PICK m \in Nat : m = i + j /\ m - 1 = i + (j - 1) /\ m \in 1 .. Bytes /\ m - 1 \in 0 .. Bytes
    BY <1>1, Widths
  <2>2. PICK v \in Nat : v = PrefixOf(h, m - 1)
    BY <2>1, PrefixRange
  <2>3. PICK w \in Nat : w = PrefixOf(l, m - 1)
    BY <2>1, PrefixRange
  <2>4. PICK b \in Nat : b = 2 ^ ByteBits
    BY Widths
  <2>5. PICK x \in Nat : x = h[m] /\ x < b
    BY <2>1, <2>4, Widths DEF Hashes
  <2>6. PICK y \in Nat : y = l[m]
    BY <2>1, Widths DEF Hashes
  <2>7. v < w
    BY <1>3, <2>1, <2>2, <2>3
  <2>8. v * b + x < w * b + y
    <3>1. (v + 1) * b <= w * b
      BY <2>7
    <3>2. (v + 1) * b = v * b + b /\ v * b \in Nat /\ w * b \in Nat
      OBVIOUS
    <3> QED BY <2>5, <2>6, <3>1, <3>2
  <2>9. PrefixOf(h, m) = v * b + x /\ PrefixOf(l, m) = w * b + y
    BY <2>1, <2>2, <2>3, <2>4, <2>5, <2>6, PrefixStep
  <2>10. j \in 0 .. k - i
    OBVIOUS
  <2> QED BY <2>1, <2>8, <2>9, <2>10
<1> HIDE DEF T
<1>4. k - i \in T
  BY <1>1, <1>2, <1>3, UpTo
<1> QED BY <1>1, <1>4 DEF T

\* The exclusive or of bytes.
LEMMA XorOfBytes ==
  ASSUME NEW a \in Byte, NEW b \in Byte, NEW c \in Byte
  PROVE  /\ XorOf(a, b) \in Byte /\ XorOf(a, b) = XorOf(b, a)
         /\ XorOf(a, b) = 0 <=> a = b
         /\ XorOf(a, c) = XorOf(b, c) => a = b
<1>1. \A x, y \in Byte :
        XorOf(x, y) \in Byte /\ XorOf(x, y) = XorOf(y, x) /\ XorOf(XorOf(x, y), y) = x /\ XorOf(0, x) = x
  BY XorAssumption
<1>2. ASSUME a = b  PROVE XorOf(a, b) = 0
  <2>1. XorOf(XorOf(0, a), a) = 0 /\ XorOf(0, a) = a
    BY <1>1, Widths
  <2> QED BY <1>2, <2>1
<1>3. ASSUME XorOf(a, b) = 0  PROVE a = b
  <2>1. XorOf(XorOf(a, b), b) = a /\ XorOf(0, b) = b
    BY <1>1
  <2> QED BY <1>3, <2>1
<1>4. ASSUME XorOf(a, c) = XorOf(b, c)  PROVE a = b
  <2>1. XorOf(XorOf(a, c), c) = a /\ XorOf(XorOf(b, c), c) = b
    BY <1>1
  <2> QED BY <1>4, <2>1
<1> QED BY <1>1, <1>2, <1>3, <1>4

\* The exclusive or of two hashes.
Xored(a, b) == [i \in 1 .. Bytes |-> XorOf(a[i], b[i])]

LEMMA XoredType ==
  ASSUME NEW a \in Hashes, NEW b \in Hashes
  PROVE  Xored(a, b) \in Hashes /\ \A i \in 1 .. Bytes : Xored(a, b)[i] = XorOf(a[i], b[i])
BY XorOfBytes DEF Xored, Hashes

LEMMA FirstDifference ==
  ASSUME NEW a \in Hashes, NEW b \in Hashes
  PROVE  IF a = b THEN Differing(a, b) = {}
         ELSE /\ Differing(a, b) # {}
              /\ Min(Differing(a, b)) \in 1 .. Bytes
              /\ a[Min(Differing(a, b))] # b[Min(Differing(a, b))]
              /\ \A j \in 1 .. Bytes : j < Min(Differing(a, b)) => a[j] = b[j]
<1> DEFINE D == Differing(a, b)
<1>1. D \in SUBSET Nat /\ \A i : i \in D <=> i \in 1 .. Bytes /\ a[i] # b[i]
  BY Widths DEF Differing
<1>2. a = b <=> \A i \in 1 .. Bytes : a[i] = b[i]
  <2>1. a = [i \in 1 .. Bytes |-> a[i]] /\ b = [i \in 1 .. Bytes |-> b[i]]
    BY DEF Hashes
  <2>2. (\A i \in 1 .. Bytes : a[i] = b[i]) => [i \in 1 .. Bytes |-> a[i]] = [i \in 1 .. Bytes |-> b[i]]
    OBVIOUS
  <2> QED BY <2>1, <2>2, Zenon
<1> HIDE DEF D
<1>3. CASE a = b
  BY <1>1, <1>2, <1>3 DEF D
<1>4. CASE a # b
  <2>1. PICK n \in D : TRUE
    BY <1>1, <1>2, <1>4
  <2>2. PICK m \in D : \A j \in D : m <= j
    BY <1>1, <2>1, LeastElement
  <2>3. Min(D) \in D /\ \A j \in D : Min(D) <= j
    BY <2>2 DEF Min
  <2>4. ASSUME NEW j \in 1 .. Bytes, j < Min(D)  PROVE a[j] = b[j]
    <3>1. j \in D => Min(D) <= j
      BY <2>3
    <3>2. Min(D) \in Nat /\ j \in Nat
      BY <1>1, <2>3
    <3> QED BY <1>1, <2>4, <3>1, <3>2
  <2> QED BY <1>1, <1>4, <2>3, <2>4 DEF D
<1> QED BY <1>3, <1>4

\* The byte in which two distances differ first decides.
LEMMA DistcmpOrders ==
  ASSUME NEW t \in Hashes, NEW a \in Hashes, NEW b \in Hashes
  PROVE  Distcmp(t, a, b) = IF Distance(t, a) > Distance(t, b) THEN 1
                            ELSE IF Distance(t, a) < Distance(t, b) THEN -1 ELSE 0
<1> DEFINE d == Xored(t, a)
           e == Xored(t, b)
<1>1. d \in Hashes /\ e \in Hashes /\ Bytes \in 0 .. Bytes
  BY XoredType, Widths
<1>2. Distance(t, a) = PrefixOf(d, Bytes) /\ Distance(t, b) = PrefixOf(e, Bytes)
  BY DEF Distance, Xored
<1>3. PrefixOf(d, Bytes) \in Nat /\ PrefixOf(e, Bytes) \in Nat
  BY <1>1, PrefixRange
<1>4. CASE a = b
  <2>1. Differing(a, b) = {}
    BY <1>4, FirstDifference
  <2> QED BY <1>2, <1>3, <1>4, <2>1 DEF Distcmp
<1>5. CASE a # b
  <2>1. PICK i : /\ i = Min(Differing(a, b)) /\ i \in 1 .. Bytes /\ a[i] # b[i]
                 /\ \A j \in 1 .. Bytes : j < i => a[j] = b[j]
    BY <1>5, FirstDifference
  <2>2. /\ \A j \in 1 .. Bytes : d[j] = XorOf(a[j], t[j]) /\ e[j] = XorOf(b[j], t[j])
        /\ \A j \in 1 .. Bytes : d[j] \in Byte /\ e[j] \in Byte
    BY <1>1, XoredType, XorOfBytes DEF Hashes
  <2>3. Distcmp(t, a, b) = IF d[i] > e[i] THEN 1 ELSE -1
    <3>1. Differing(a, b) # {}
      BY <1>5, FirstDifference
    <3> QED BY <2>1, <2>2, <3>1 DEF Distcmp
  <2>4. d[i] # e[i] /\ d[i] \in Nat /\ e[i] \in Nat
    <3>1. t[i] \in Byte /\ a[i] \in Byte /\ b[i] \in Byte
      BY <2>1 DEF Hashes
    <3>2. XorOf(a[i], t[i]) # XorOf(b[i], t[i])
      BY <2>1, <3>1, XorOfBytes
    <3> QED BY <2>1, <2>2, <3>2, Widths
  <2>5. i \in Nat /\ i - 1 \in 0 .. Bytes /\ i \in 0 .. Bytes /\ Bytes \in i .. Bytes
        /\ \A j \in 1 .. i - 1 : j \in 1 .. Bytes /\ j < i
    BY <2>1, Widths
  <2>6. PrefixOf(d, i - 1) = PrefixOf(e, i - 1)
    <3>1. \A j \in 1 .. i - 1 : d[j] = e[j]
      BY <2>1, <2>2, <2>5
    <3> QED BY <1>1, <2>5, <3>1, SamePrefix
  <2>7. PICK v \in Int : v = PrefixOf(d, i - 1) * 2 ^ ByteBits
    <3>1. PrefixOf(d, i - 1) \in Nat
      BY <1>1, <2>5, PrefixRange
    <3> QED BY <3>1, Widths
  <2>8. PrefixOf(d, i) = v + d[i] /\ PrefixOf(e, i) = v + e[i]
    BY <1>1, <2>1, <2>6, <2>7, PrefixStep
  <2>9. CASE d[i] > e[i]
    <3>1. PrefixOf(e, i) < PrefixOf(d, i)
      BY <2>4, <2>8, <2>9
    <3>2. PrefixOf(e, Bytes) < PrefixOf(d, Bytes)
      BY <1>1, <2>5, <3>1, SmallerPrefix
    <3> QED BY <1>2, <1>3, <2>3, <2>9, <3>2
  <2>10. CASE d[i] < e[i]
    <3>1. PrefixOf(d, i) < PrefixOf(e, i)
      BY <2>4, <2>8, <2>10
    <3>2. PrefixOf(d, Bytes) < PrefixOf(e, Bytes)
      BY <1>1, <2>5, <3>1, SmallerPrefix
    <3>3. ~ (d[i] > e[i])
      BY <2>4, <2>10
    <3> QED BY <1>2, <1>3, <2>3, <3>2, <3>3
  <2> QED BY <2>4, <2>9, <2>10
<1> QED BY <1>4, <1>5

\* The table of leading zeros has the length of every byte but 0, which no byte
\* that differs is mapped to.
LEMMA ZerosOfByte ==
  ASSUME NEW x \in Byte, x # 0
  PROVE  \E m \in 1 .. ByteBits :
           LeadingZeros(x) = ByteBits - m /\ 2 ^ (m - 1) <= x /\ x < 2 ^ m
<1>1. x \in Nat \ {0} /\ x < 2 ^ ByteBits /\ ByteBits \in 1 .. 8
  BY Widths, WidthAssumption
<1>2. x \in 1 .. 255
  <2>1. 2 ^ 8 = 256
    <3>1. 2 ^ 0 = 1 /\ 2 ^ (0 + 1) = 2 * 2 ^ 0 /\ 2 ^ (1 + 1) = 2 * 2 ^ 1 /\ 2 ^ (2 + 1) = 2 * 2 ^ 2
      BY PowerZero, PowerStep
    <3>2. 2 ^ 3 = 8
      BY <3>1
    <3>3. 2 ^ (3 + 1) = 2 * 2 ^ 3 /\ 2 ^ (4 + 1) = 2 * 2 ^ 4 /\ 2 ^ (5 + 1) = 2 * 2 ^ 5
      BY PowerStep
    <3>4. 2 ^ 6 = 64
      BY <3>2, <3>3
    <3>5. 2 ^ (6 + 1) = 2 * 2 ^ 6 /\ 2 ^ (7 + 1) = 2 * 2 ^ 7
      BY PowerStep
    <3> QED BY <3>4, <3>5
  <2>2. 2 ^ ByteBits \in Nat /\ 2 ^ ByteBits <= 2 ^ 8
    <3>1. PICK e \in Nat : e = 8 /\ ByteBits <= e /\ ByteBits \in Nat
      BY <1>1
    <3>2. 2 ^ ByteBits \in Nat /\ 2 ^ ByteBits <= 2 ^ e
      BY <3>1, Powers
    <3> QED BY <3>1, <3>2
  <2> QED BY <1>1, <2>1, <2>2
<1>3. PICK m \in 0 .. 8 : m = 8 - lzcount[x + 1] /\ x < 2 ^ m /\ 2 * x >= 2 ^ m
  <2>1. PICK z \in 0 .. 8 : z = lzcount[x + 1] /\ x < 2 ^ (8 - z) /\ 2 * x >= 2 ^ (8 - z)
    BY <1>2, LzcountAssumption
  <2>2. 8 - z \in 0 .. 8
    OBVIOUS
  <2> QED BY <2>1, <2>2
<1>4. m # 0
  <2> SUFFICES ASSUME m = 0  PROVE FALSE
    OBVIOUS
  <2>1. 2 ^ m = 1
    BY PowerZero
  <2> QED BY <1>1, <1>3, <2>1
<1>5. PICK n \in Nat : n = m - 1 /\ m = n + 1
  BY <1>3, <1>4
<1>6. 2 ^ n <= x /\ 2 ^ n \in Nat
  <2>1. 2 ^ n \in Nat /\ 2 ^ m = 2 * 2 ^ n
    BY <1>5, PowerStep
  <2> QED BY <1>1, <1>3, <2>1
<1>7. m <= ByteBits
  <2> SUFFICES ASSUME m > ByteBits  PROVE FALSE
    BY <1>1, <1>3
  <2>1. ByteBits <= n /\ ByteBits \in Nat
    BY <1>1, <1>5
  <2>2. 2 ^ ByteBits <= 2 ^ n /\ 2 ^ ByteBits \in Nat
    BY <2>1, Powers
  <2> QED BY <1>1, <1>6, <2>2
<1>8. LeadingZeros(x) = ByteBits - m
  <2>1. lzcount[x + 1] = 8 - m
    <3>1. PICK z \in 0 .. 8 : z = lzcount[x + 1]
      BY <1>2, LzcountAssumption
    <3> QED BY <1>3, <3>1
  <2> QED BY <1>1, <1>3, <2>1 DEF LeadingZeros
<1> QED BY <1>1, <1>3, <1>4, <1>5, <1>6, <1>7, <1>8

LEMMA ZeroPrefix ==
  ASSUME NEW h \in Hashes, NEW k \in 0 .. Bytes, \A j \in 1 .. k : h[j] = 0
  PROVE  PrefixOf(h, k) = 0
<1> DEFINE T == {j \in 0 .. k : PrefixOf(h, j) = 0}
<1>1. k \in 0 .. k /\ k \in Nat /\ 0 \in 0 .. k /\ \A j \in 1 .. k : j \in 1 .. Bytes /\ j \in 0 .. k
  BY Widths
<1>2. 0 \in T
  BY <1>1, PrefixStep
<1>3. ASSUME NEW j \in 1 .. k, j - 1 \in T  PROVE j \in T
  <2>1. PrefixOf(h, j - 1) = 0
    BY <1>3
  <2>2. PrefixOf(h, j) = 0 * 2 ^ ByteBits + 0
    BY <1>1, <2>1, PrefixStep
  <2> QED BY <1>1, <2>2, Widths
<1> HIDE DEF T
<1>4. k \in T
  BY <1>1, <1>2, <1>3, UpTo
<1> QED BY <1>4 DEF T

\* A byte appended to a number of m bits makes it one of m + ByteBits bits.
LEMMA LongerPrefix ==
  ASSUME NEW n \in Nat, NEW m \in Nat, NEW v \in Nat, NEW x \in Byte, 2 ^ n <= v, v < 2 ^ m
  PROVE  2 ^ (n + ByteBits) <= v * 2 ^ ByteBits + x /\ v * 2 ^ ByteBits + x < 2 ^ (m + ByteBits)
<1>1. PICK b \in Nat : b = 2 ^ ByteBits
  BY Widths
<1>2. PICK lo \in Nat : lo = 2 ^ n
  BY Powers
<1>3. PICK hi \in Nat : hi = 2 ^ m
  BY Powers
<1>4. 2 ^ (n + ByteBits) = lo * b /\ 2 ^ (m + ByteBits) = hi * b
  BY <1>1, <1>2, <1>3, Powers, Widths
<1>5. x \in Nat /\ x < b
  BY <1>1, Widths
<1>6. lo <= v /\ v + 1 <= hi
  BY <1>2, <1>3
<1>7. lo * b <= v * b /\ (v + 1) * b <= hi * b
  BY <1>6
<1>8. (v + 1) * b = v * b + b /\ v * b \in Nat /\ lo * b \in Nat /\ hi * b \in Nat
  OBVIOUS
<1>9. lo * b <= v * b + x /\ v * b + x < hi * b
  BY <1>5, <1>7, <1>8
<1> QED BY <1>1, <1>4, <1>9

\* logdist is the length of the distance.
LEMMA LogdistIsLength ==
  ASSUME NEW a \in Hashes, NEW b \in Hashes
  PROVE  /\ Distance(a, b) \in Nat /\ Logdist(a, b) \in Nat
         /\ IF Distance(a, b) = 0 THEN Logdist(a, b) = 0
            ELSE /\ Logdist(a, b) > 0
                 /\ 2 ^ (Logdist(a, b) - 1) <= Distance(a, b) /\ Distance(a, b) < 2 ^ Logdist(a, b)
<1> DEFINE d == Xored(a, b)
<1>1. d \in Hashes /\ Bytes \in 0 .. Bytes /\ Bytes \in Nat /\ ByteBits \in Nat
  BY XoredType, Widths
<1>2. Distance(a, b) = PrefixOf(d, Bytes)
  BY DEF Distance, Xored
<1>3. PrefixOf(d, Bytes) \in Nat
  BY <1>1, PrefixRange
<1>4. \A j \in 1 .. Bytes : d[j] \in Byte /\ (d[j] = 0 <=> a[j] = b[j]) /\ d[j] = XorOf(a[j], b[j])
  <2> TAKE j \in 1 .. Bytes
  <2>1. a[j] \in Byte /\ b[j] \in Byte
    BY DEF Hashes
  <2>2. d[j] = XorOf(a[j], b[j])
    BY XoredType
  <2> HIDE DEF d
  <2> QED BY <2>1, <2>2, XorOfBytes
<1>5. CASE a = b
  <2>1. Differing(a, b) = {}
    BY <1>5, FirstDifference
  <2>2. PrefixOf(d, Bytes) = 0
    BY <1>1, <1>4, <1>5, ZeroPrefix
  <2> QED BY <1>2, <2>1, <2>2 DEF Logdist
<1>6. CASE a # b
  <2>1. PICK i : /\ i = Min(Differing(a, b)) /\ i \in 1 .. Bytes /\ a[i] # b[i]
                 /\ \A j \in 1 .. Bytes : j < i => a[j] = b[j]
    BY <1>6, FirstDifference
  <2>2. d[i] \in Byte /\ d[i] # 0
    BY <1>4, <2>1
  <2>3. PICK m \in 1 .. ByteBits :
          LeadingZeros(d[i]) = ByteBits - m /\ 2 ^ (m - 1) <= d[i] /\ d[i] < 2 ^ m
    BY <2>2, ZerosOfByte
  <2>4. PICK n \in Nat : n = m - 1 /\ m = n + 1
    BY <1>1
  <2>5. i \in Nat /\ i - 1 \in 0 .. Bytes /\ \A j \in 1 .. i - 1 : j \in 1 .. Bytes /\ j < i
    BY <1>1, <2>1
  <2>6. PrefixOf(d, i - 1) = 0
    <3>1. \A j \in 1 .. i - 1 : d[j] = 0
      BY <1>4, <2>1, <2>5
    <3> QED BY <1>1, <2>5, <3>1, ZeroPrefix
  <2>7. PrefixOf(d, i) = d[i]
    <3>1. PrefixOf(d, i) = 0 * 2 ^ ByteBits + d[i]
      BY <1>1, <2>1, <2>6, PrefixStep
    <3>2. PICK w \in Nat : w = 2 ^ ByteBits
      BY Widths
    <3>3. 0 * w = 0
      OBVIOUS
    <3>4. d[i] \in Nat
      <4> HIDE DEF d
      <4> QED BY <2>2, Widths
    <3> QED BY <3>1, <3>2, <3>3, <3>4
  <2> DEFINE T == {j \in 0 .. Bytes - i : /\ 2 ^ (n + j * ByteBits) <= PrefixOf(d, i + j)
                                         /\ PrefixOf(d, i + j) < 2 ^ (m + j * ByteBits)}
  <2>8. 0 \in T
    <3>1. i + 0 = i /\ n + 0 * ByteBits = n /\ m + 0 * ByteBits = m /\ 0 \in 0 .. Bytes - i
      BY <1>1, <2>1
    <3>2. 2 ^ n <= PrefixOf(d, i) /\ PrefixOf(d, i) < 2 ^ m
      BY <2>3, <2>4, <2>7
    <3>3. 2 ^ (n + 0 * ByteBits) <= PrefixOf(d, i + 0) /\ PrefixOf(d, i + 0) < 2 ^ (m + 0 * ByteBits)
      BY <3>1, <3>2
    <3> QED BY <3>1, <3>3
  <2>9. ASSUME NEW j \in 1 .. Bytes - i, j - 1 \in T  PROVE j \in T
    <3>1. PICK l \in Nat : l = j - 1 /\ j = l + 1
      OBVIOUS
    <3>2. PICK k \in 1 .. Bytes : k = i + j /\ k - 1 = i + l /\ k - 1 \in 0 .. Bytes
      BY <1>1, <2>1, <3>1
    <3>3. PICK v \in Nat : v = PrefixOf(d, k - 1)
      BY <1>1, <3>2, PrefixRange
    <3>4. PICK e \in Nat : e = l * ByteBits /\ j * ByteBits = e + ByteBits
      BY <1>1, <3>1
    <3>5. 2 ^ (n + e) <= v /\ v < 2 ^ (m + e)
      BY <2>9, <3>1, <3>2, <3>3, <3>4
    <3>6. PICK x \in Byte : x = d[k]
      BY <1>4
    <3>7. /\ 2 ^ (n + e + ByteBits) <= v * 2 ^ ByteBits + x
          /\ v * 2 ^ ByteBits + x < 2 ^ (m + e + ByteBits)
      <4>1. n + e \in Nat /\ m + e \in Nat
        OBVIOUS
      <4> QED BY <3>5, <4>1, LongerPrefix
    <3>8. PrefixOf(d, k) = v * 2 ^ ByteBits + x
      BY <1>1, <3>3, <3>6, PrefixStep
    <3>9. n + e + ByteBits = n + j * ByteBits /\ m + e + ByteBits = m + j * ByteBits
      BY <1>1, <3>4
    <3>10. 2 ^ (n + j * ByteBits) <= PrefixOf(d, i + j) /\ PrefixOf(d, i + j) < 2 ^ (m + j * ByteBits)
      BY <3>2, <3>7, <3>8, <3>9
    <3> QED BY <3>10
  <2>10. PICK N \in Nat : N = Bytes - i /\ N \in 0 .. N /\ i + N = Bytes
    BY <1>1, <2>1
  <2>11. N \in T
    <3>1. \A j \in 1 .. N : j - 1 \in T => j \in T
      BY <2>9, <2>10
    <3> HIDE DEF T
    <3> QED BY <2>8, <2>10, <3>1, UpTo
  <2>12. PICK z \in Nat : z = m + N * ByteBits /\ z - 1 = n + N * ByteBits /\ z > 0
    <3>1. N * ByteBits \in Nat
      BY <1>1
    <3> QED BY <2>4, <3>1
  <2>13. 2 ^ (z - 1) <= Distance(a, b) /\ Distance(a, b) < 2 ^ z
    BY <1>2, <2>10, <2>11, <2>12
  <2>14. Logdist(a, b) = z
    <3>1. Differing(a, b) # {}
      BY <1>6, FirstDifference
    <3>2. Logdist(a, b) = Bytes * ByteBits - ((i - 1) * ByteBits + (ByteBits - m))
      BY <1>4, <2>1, <2>3, <3>1 DEF Logdist
    <3>3. Bytes * ByteBits = N * ByteBits + i * ByteBits
      BY <1>1, <2>5, <2>10
    <3>4. (i - 1) * ByteBits = i * ByteBits - ByteBits
      BY <1>1, <2>5
    <3>5. Bytes * ByteBits \in Nat /\ i * ByteBits \in Nat /\ N * ByteBits \in Nat
      BY <1>1, <2>5
    <3> QED BY <1>1, <2>12, <3>2, <3>3, <3>4, <3>5
  <2>15. Distance(a, b) # 0
    <3>1. 2 ^ (z - 1) \in Nat \ {0}
      <4>1. z - 1 \in Nat
        BY <2>12
      <4> QED BY <4>1, Powers
    <3>2. Distance(a, b) \in Nat
      BY <1>2, <1>3
    <3> QED BY <2>13, <3>1, <3>2
  <2> QED BY <1>2, <1>3, <2>12, <2>13, <2>14, <2>15
<1> QED BY <1>5, <1>6

\* The hashes stay hashes.
MetricInv == self \in Hashes /\ sha \in Hashes /\ target \in Hashes

LEMMA MetricInvariant == MetricSpec => []MetricInv
<1>1. MetricInit => MetricInv
  BY SelvesAssumption DEF MetricInit, MetricInv
<1>2. MetricInv /\ [MetricNext]_metricVars => MetricInv'
  BY DEF MetricInv, metricVars, MetricNext, ChooseBucketRefreshTarget
<1> QED BY <1>1, <1>2, PTL DEF MetricSpec

\* For bytes of up to eight bits and hashes of any number of them, comparing the first byte that
\* differs orders nodes by the exclusive or with the target, and logdist is the
\* length in bits of that distance (discovery/node.go distcmp, discovery/table.go
\* logdist).
THEOREM DistancesAreXor == MetricSpec => []MetricIsXor
<1>1. MetricInv => MetricIsXor
  <2> SUFFICES ASSUME MetricInv  PROVE MetricIsXor
    OBVIOUS
  <2>1. self \in Hashes /\ sha \in Hashes /\ target \in Hashes
    BY DEF MetricInv
  <2>2. Distance(target, self) \in Nat /\ Distance(target, sha) \in Nat
    BY <2>1, LogdistIsLength
  <2> QED BY <2>1, <2>2, DistcmpOrders, LogdistIsLength DEF MetricIsXor
<1> QED BY <1>1, MetricInvariant, PTL

-----------------------------------------------------------------------------
(* Neighbours *)

\* What does not fit together with one more node: the sizes that maxNeighbors is
\* the least of.
Fits(n) == HeadSize + n * NodeSize < BufferSize

LEMMA MaxNeighborsFit ==
  /\ MaxNeighbors \in Nat \ {0}
  /\ \A n \in 1 .. MaxNeighbors : Fits(n)
  /\ ~ Fits(MaxNeighbors + 1)
<1> DEFINE K == {n \in 0 .. BufferSize : HeadSize + (n + 1) * NodeSize >= BufferSize}
<1>1. /\ BufferSize \in Nat /\ HeadSize \in Nat /\ NodeSize \in Nat \ {0}
      /\ HeadSize + NodeSize < BufferSize
  BY SizesAssumption
<1>2. \A n \in Nat : n * NodeSize \in Nat /\ (n + 1) * NodeSize = n * NodeSize + NodeSize
  BY <1>1
<1>3. \A n \in Nat : n * NodeSize >= n
  <2> SUFFICES ASSUME NEW n \in Nat  PROVE n * NodeSize >= n
    OBVIOUS
  <2>1. PICK k \in Nat : NodeSize = k + 1
    <3>1. NodeSize - 1 \in Nat /\ NodeSize = NodeSize - 1 + 1
      BY <1>1
    <3> QED BY <3>1
  <2>2. n * (k + 1) = n * k + n /\ n * k \in Nat
    OBVIOUS
  <2> QED BY <2>1, <2>2
<1>4. BufferSize \in K
  BY <1>1, <1>2, <1>3
<1>5. PICK m \in K : \A n \in K : m <= n
  <2>1. K \in SUBSET Nat
    OBVIOUS
  <2> HIDE DEF K
  <2> QED BY <1>4, <2>1, LeastElement
<1>6. MaxNeighbors = m
  <2>1. MaxNeighbors = CHOOSE x \in K : \A y \in K : x <= y
    BY DEF MaxNeighbors, Min
  <2>2. \A x, y \in K : x <= y /\ y <= x => x = y
    OBVIOUS
  <2> HIDE DEF K
  <2>3. MaxNeighbors \in K /\ \A y \in K : MaxNeighbors <= y
    BY <1>5, <2>1
  <2> QED BY <1>5, <2>2, <2>3
<1>7. m \in Nat /\ m <= BufferSize /\ HeadSize + (m + 1) * NodeSize >= BufferSize
  BY <1>1, <1>5
<1>8. m # 0
  BY <1>1, <1>7
<1>9. ASSUME NEW n \in 1 .. m  PROVE HeadSize + n * NodeSize < BufferSize
  <2>1. n - 1 \in 0 .. BufferSize /\ ~ (m <= n - 1) /\ n - 1 + 1 = n
    BY <1>1, <1>7
  <2>2. n - 1 \notin K
    BY <1>5, <2>1
  <2>3. ~ (HeadSize + n * NodeSize >= BufferSize)
    BY <2>1, <2>2
  <2>4. n * NodeSize \in Nat
    BY <1>1
  <2> QED BY <1>1, <2>3, <2>4
<1>10. ~ (HeadSize + (m + 1) * NodeSize < BufferSize)
  <2>1. (m + 1) * NodeSize \in Nat
    BY <1>1, <1>7
  <2> QED BY <1>1, <1>7, <2>1
<1> HIDE DEF K
<1> QED BY <1>6, <1>7, <1>8, <1>9, <1>10 DEF Fits

\* The packets sent and the one being filled are the nodes passed, in order; all
\* packets are full, but the last one after the last node.
SendInv ==
  /\ results \in Seq(ToSet(results))
  /\ next \in 1 .. Len(results) + 1
  /\ Nodes \in Seq(ToSet(results)) /\ Len(Nodes) < MaxNeighbors
  /\ sent \in Seq(Seq(ToSet(results)))
  /\ FlattenSeq(sent) \o Nodes = SubSeq(results, 1, next - 1)
  /\ next > Len(results) => Nodes = <<>>
  /\ \A i \in 1 .. Len(sent) :
       /\ Len(sent[i]) \in 1 .. MaxNeighbors
       /\ i < Len(sent) \/ next <= Len(results) => Len(sent[i]) = MaxNeighbors

LEMMA SendInitInv == SendInit => SendInv
<1> SUFFICES ASSUME SendInit  PROVE SendInv
  OBVIOUS
<1>1. results \in Seq(ToSet(results)) /\ next = 1 /\ Nodes = <<>> /\ sent = <<>>
  BY ResultsAssumption DEF SendInit
<1>2. Len(results) \in Nat
  BY <1>1, LenProperties
<1>3. /\ Nodes \in Seq(ToSet(results)) /\ Len(Nodes) = 0
      /\ sent \in Seq(Seq(ToSet(results))) /\ Len(sent) = 0
  BY <1>1, EmptySeq
<1>4. FlattenSeq(sent) \o Nodes = <<>>
  <2>1. FlattenSeq(sent) = <<>>
    BY <1>1, <1>3 DEF FlattenSeq
  <2> QED BY <1>1, <1>3, <2>1, ConcatEmptySeq
<1>5. SubSeq(results, 1, next - 1) = <<>>
  BY <1>1, SubSeqEmpty
<1>6. FlattenSeq(sent) \o Nodes = SubSeq(results, 1, next - 1)
  BY <1>4, <1>5, Zenon
<1>7. next \in 1 .. Len(results) + 1 /\ Len(Nodes) < MaxNeighbors
  BY <1>1, <1>2, <1>3, MaxNeighborsFit
<1>8. 1 .. Len(sent) = {}
  BY <1>3
<1> QED BY <1>1, <1>3, <1>6, <1>7, <1>8 DEF SendInv

\* An iteration passes one node more.
LEMMA SendNeighboursKeeps ==
  ASSUME SendInv, SendNeighbours
  PROVE  SendInv'
<1> DEFINE A == ToSet(results)
           nodes == Append(Nodes, results[next])
           M == MaxNeighbors
<1>1. /\ results \in Seq(A) /\ next \in 1 .. Len(results) + 1 /\ next <= Len(results)
      /\ Nodes \in Seq(A) /\ Len(Nodes) < M /\ sent \in Seq(Seq(A))
      /\ FlattenSeq(sent) \o Nodes = SubSeq(results, 1, next - 1)
      /\ next' = next + 1 /\ results' = results
      /\ IF Len(nodes) = M \/ next = Len(results)
         THEN sent' = Append(sent, nodes) /\ Nodes' = <<>>
         ELSE Nodes' = nodes /\ UNCHANGED sent
  BY DEF SendInv, SendNeighbours, Complete
<1>2. \A i \in 1 .. Len(sent) : Len(sent[i]) = M
  BY <1>1 DEF SendInv
<1>3. /\ Len(results) \in Nat /\ next \in 1 .. Len(results) /\ M \in Nat \ {0}
      /\ Len(Nodes) \in Nat /\ Len(sent) \in Nat
  BY <1>1, LenProperties, MaxNeighborsFit
<1> HIDE DEF A, M
<1>4. results[next] \in A
  BY <1>1, <1>3, ElementOfSeq
<1>5. /\ nodes \in Seq(A) /\ Len(nodes) = Len(Nodes) + 1 /\ Len(nodes) \in 1 .. M
      /\ nodes = Nodes \o <<results[next]>>
  <2>1. nodes \in Seq(A) /\ Len(nodes) = Len(Nodes) + 1
    BY <1>1, <1>4, AppendProperties
  <2>2. nodes = Nodes \o <<results[next]>>
    BY <1>1, <1>4, AppendIsConcat
  <2> QED BY <1>1, <1>3, <2>1, <2>2
<1>6. FlattenSeq(sent) \in Seq(A)
  BY <1>1, EmptySeq, FlattenAppend
<1>7. FlattenSeq(sent) \o nodes = SubSeq(results, 1, next)
  <2>1. <<results[next]>> \in Seq(A)
    BY <1>4
  <2>2. FlattenSeq(sent) \o nodes = (FlattenSeq(sent) \o Nodes) \o <<results[next]>>
    <3>1. (FlattenSeq(sent) \o Nodes) \o <<results[next]>> = FlattenSeq(sent) \o (Nodes \o <<results[next]>>)
      <4>1. PICK x, y, z \in Seq(A) :
              x = FlattenSeq(sent) /\ y = Nodes /\ z = <<results[next]>>
        BY <1>1, <1>6, <2>1
      <4>2. (x \o y) \o z = x \o (y \o z)
        BY ConcatAssociative
      <4> QED BY <4>1, <4>2, Zenon
    <3> HIDE DEF nodes
    <3> QED BY <1>5, <3>1, Zenon
  <2>3. SubSeq(results, 1, next) = SubSeq(results, 1, next - 1) \o <<results[next]>>
    <3>1. 1 \in 1 .. Len(results) /\ next \in 1 .. Len(results)
      BY <1>3
    <3> QED BY <1>1, <3>1, SubSeqRecursiveSecond
  <2> HIDE DEF nodes
  <2> QED BY <1>1, <2>2, <2>3, Zenon
<1> HIDE DEF nodes
<1>8. next' - 1 = next /\ next' \in 1 .. Len(results) + 1
  BY <1>1, <1>3
<1>9. CASE Len(nodes) = M \/ next = Len(results)
  <2>1. sent' = Append(sent, nodes) /\ Nodes' = <<>>
    BY <1>1, <1>9
  <2>2. /\ sent' \in Seq(Seq(A)) /\ Len(sent') = Len(sent) + 1
        /\ \A i \in 1 .. Len(sent) : sent'[i] = sent[i]
        /\ sent'[Len(sent) + 1] = nodes
    BY <1>1, <1>5, <2>1, AppendProperties
  <2>3. FlattenSeq(sent') = FlattenSeq(sent) \o nodes /\ FlattenSeq(sent') \in Seq(A)
    BY <1>1, <1>5, <2>1, <2>2, FlattenAppend
  <2>4. FlattenSeq(sent') \o Nodes' = FlattenSeq(sent')
    BY <2>1, <2>3, ConcatEmptySeq
  <2>5. FlattenSeq(sent') \o Nodes' = SubSeq(results, 1, next' - 1)
    BY <1>7, <1>8, <2>3, <2>4
  <2>6. Nodes' \in Seq(A) /\ Len(Nodes') = 0
    BY <2>1, EmptySeq
  <2>7. ASSUME NEW i \in 1 .. Len(sent')
        PROVE  /\ Len(sent'[i]) \in 1 .. M
               /\ i < Len(sent') \/ next' <= Len(results) => Len(sent'[i]) = M
    <3>1. CASE i = Len(sent) + 1
      <4>1. sent'[i] = nodes /\ ~ (i < Len(sent'))
        BY <1>3, <2>2, <3>1
      <4>2. next' <= Len(results) => next # Len(results)
        BY <1>1, <1>3
      <4> QED BY <1>5, <1>9, <4>1, <4>2
    <3>2. CASE i # Len(sent) + 1
      <4>1. i \in 1 .. Len(sent)
        BY <1>3, <2>2, <3>2
      <4>2. Len(sent'[i]) = M
        BY <1>2, <2>2, <4>1
      <4> QED BY <1>3, <4>2
    <3> QED BY <3>1, <3>2
  <2>8. /\ next' > Len(results) => Nodes' = <<>>
        /\ Len(Nodes') < M
    BY <1>3, <2>1, <2>6
  <2>9. results' = results /\ results \in Seq(A)
    BY <1>1
  <2> QED BY <1>8, <2>2, <2>5, <2>6, <2>7, <2>8, <2>9 DEF SendInv, A, M, MaxNeighbors
<1>10. CASE ~ (Len(nodes) = M \/ next = Len(results))
  <2>1. Nodes' = nodes /\ sent' = sent
    BY <1>1, <1>10
  <2>2. FlattenSeq(sent') \o Nodes' = SubSeq(results, 1, next' - 1)
    BY <1>7, <1>8, <2>1
  <2>3. Len(Nodes') < M /\ next' <= Len(results)
    BY <1>1, <1>3, <1>5, <1>10, <2>1
  <2>4. ~ (next' > Len(results))
    BY <1>1, <1>3, <2>3
  <2>5. \A i \in 1 .. Len(sent') : Len(sent'[i]) = M /\ Len(sent'[i]) \in 1 .. M
    BY <1>2, <1>3, <2>1
  <2> QED BY <1>1, <1>5, <1>8, <2>1, <2>2, <2>3, <2>4, <2>5 DEF SendInv, A, M, MaxNeighbors
<1> QED BY <1>9, <1>10

\* Splitting an answer loses nothing: when the loop ends every node was sent,
\* once and in order, in packets that fit into the reader's buffer, of which all
\* but the last have no room for another node and none is empty.  For answers,
\* node sizes and buffers of every size.
THEOREM AnswersArrive == SendSpec => []AnswerArrives
<1>1. SendInv /\ [SendNext]_sendVars => SendInv'
  <2> SUFFICES ASSUME SendInv, [SendNext]_sendVars  PROVE SendInv'
    OBVIOUS
  <2>1. CASE SendNext
    BY <2>1, SendNeighboursKeeps DEF SendNext
  <2>2. CASE UNCHANGED sendVars
    BY <2>2 DEF sendVars, SendInv, MaxNeighbors
  <2> QED BY <2>1, <2>2
<1>2. ASSUME SendInv  PROVE AnswerArrives
  <2>1. /\ results \in Seq(ToSet(results)) /\ sent \in Seq(Seq(ToSet(results)))
        /\ next \in 1 .. Len(results) + 1
        /\ FlattenSeq(sent) \o Nodes = SubSeq(results, 1, next - 1)
        /\ next > Len(results) => Nodes = <<>>
    BY <1>2 DEF SendInv
  <2>2. Len(results) \in Nat /\ DOMAIN sent = 1 .. Len(sent) /\ Len(sent) \in Nat
    BY <2>1, LenProperties
  <2>3. ASSUME next > Len(results)  PROVE FlattenSeq(sent) = results
    <3>1. next - 1 = Len(results) /\ Nodes = <<>>
      BY <2>1, <2>2, <2>3
    <3>2. FlattenSeq(sent) \in Seq(ToSet(results))
      BY <2>1, EmptySeq, FlattenAppend
    <3>3. FlattenSeq(sent) \o Nodes = FlattenSeq(sent)
      BY <3>1, <3>2, ConcatEmptySeq
    <3>4. SubSeq(results, 1, Len(results)) = results
      BY <2>1, SubSeqFull
    <3> QED BY <2>1, <3>1, <3>3, <3>4
  <2>4. ASSUME NEW i \in 1 .. Len(sent)
        PROVE  /\ sent[i] # <<>>
               /\ HeadSize + Len(sent[i]) * NodeSize < BufferSize
               /\ i < Len(sent) => HeadSize + (Len(sent[i]) + 1) * NodeSize >= BufferSize
    <3>1. /\ Len(sent[i]) \in 1 .. MaxNeighbors
          /\ i < Len(sent) => Len(sent[i]) = MaxNeighbors
      BY <1>2 DEF SendInv
    <3>2. sent[i] # <<>>
      BY <3>1, EmptySeq
    <3>3. HeadSize + Len(sent[i]) * NodeSize < BufferSize
      BY <3>1, MaxNeighborsFit DEF Fits
    <3>4. HeadSize + (MaxNeighbors + 1) * NodeSize >= BufferSize
      <4>1. (MaxNeighbors + 1) * NodeSize \in Nat /\ HeadSize \in Nat /\ BufferSize \in Nat
        BY MaxNeighborsFit, SizesAssumption
      <4>2. ~ (HeadSize + (MaxNeighbors + 1) * NodeSize < BufferSize)
        BY MaxNeighborsFit DEF Fits
      <4> QED BY <4>1, <4>2
    <3> QED BY <3>1, <3>2, <3>3, <3>4
  <2> QED BY <2>2, <2>3, <2>4 DEF AnswerArrives
<1> QED BY <1>1, <1>2, SendInitInv, PTL DEF SendSpec
=============================================================================
