------------------------------- MODULE Server -------------------------------
(***************************************************************************)
(* The life cycle of a Server (server.go) and of the discovery networks it *)
(* starts (ListenUDP of discovery/udp.go).  Start and Stop hold the        *)
(* server's lock and are single actions.  Stop does not close the network: *)
(* nothing ever sends to its closeReq, so that its main loop runs for ever *)
(* and its socket stays bound until reading from it fails.                 *)
(*                                                                         *)
(* The fields of Config may change while the server is stopped.            *)
(* setupListening and listenLoop are not part of it: the call is commented *)
(* out.                                                                    *)
(***************************************************************************)
EXTENDS Integers, Sequences, FiniteSets

CONSTANT MaxNetworks  \* bound: networks created

ASSUME MaxNetworksAssumption == MaxNetworks \in Nat

VARIABLES
  config,       \* srv.Config: the fields that matter here
  running,      \* srv.running
  quit,         \* srv.quit: "nil", "open" or "closed"
  DiscNetwork,  \* srv.DiscNetwork: the number of a network, or 0 for nil
  networks,     \* the networks created, their ports and whether they are bound
  taken,        \* another process has the fixed port
  panicked,     \* the program has crashed
  keyless,      \* history: the last Start that was not refused had no key
  spoiled       \* history: a Start failed for its address, a bad node or
                \* another process, or reading from a socket failed

serverVars == <<config, running, quit, DiscNetwork, networks, taken, panicked, keyless, spoiled>>

\* ListenAddr has a port, or 0 for any that is free, or is no address that can
\* be resolved and bound.  Some bootstrap node may be incomplete, with which
\* SetFallbackNodes fails.
Configs == [PrivateKey : BOOLEAN, NoDiscovery : BOOLEAN, Discovery : BOOLEAN,
            port : {"fixed", "any", "invalid"}, BootstrapNodes : {"complete", "bad"}]

ServerInit ==
  /\ config \in Configs
  /\ running = FALSE
  /\ quit = "nil"
  /\ DiscNetwork = 0
  /\ networks = <<>>
  /\ taken \in BOOLEAN
  /\ panicked = FALSE
  /\ keyless = FALSE
  /\ spoiled = FALSE

Bound(i) == networks[i].bound
Holding == {i \in DOMAIN networks : Bound(i) /\ networks[i].port = "fixed"}
PortFree == config.port = "any" \/ (config.port = "fixed" /\ ~ taken /\ Holding = {})

-----------------------------------------------------------------------------
(* Start *)

\* "Server.PrivateKey must be set to a non-nil key": but running is set.
StartWithoutKey ==
  /\ ~ panicked /\ ~ running
  /\ ~ config.PrivateKey
  /\ running' = TRUE
  /\ keyless' = TRUE
  /\ UNCHANGED <<config, quit, DiscNetwork, networks, taken, panicked, spoiled>>

\* setupDiscovery has nothing to do.
Disabled(c) == c.NoDiscovery /\ ~ c.Discovery
WithoutDiscovery == Disabled(config) /\ UNCHANGED <<DiscNetwork, networks, spoiled>>

\* setupDiscovery fails: ListenAddr cannot be resolved, or the port not bound,
\* another process having it or a network of ours.  Start returns nil all the
\* same.
BindForgets == DiscNetwork' = 0
BindFails == UNCHANGED DiscNetwork
ListenFails ==
  /\ ~ Disabled(config)
  /\ ~ PortFree
  /\ BindFails
  /\ spoiled' = (spoiled \/ config.port = "invalid" \/ Holding = {})
  /\ UNCHANGED networks

\* A network is created and served.  With a bad node it is not kept.
Listen ==
  /\ ~ Disabled(config)
  /\ PortFree
  /\ Len(networks) < MaxNetworks
  /\ networks' = Append(networks, [port |-> config.port, bound |-> TRUE])
  /\ \/ /\ config.BootstrapNodes = "complete"
        /\ DiscNetwork' = Len(networks')
        /\ UNCHANGED spoiled
     \/ /\ config.BootstrapNodes = "bad"
        /\ spoiled' = TRUE
        /\ UNCHANGED DiscNetwork

QuitKept == quit' = IF quit = "nil" THEN "open" ELSE quit
NewQuit == quit' = "open"
Start ==
  /\ ~ panicked /\ ~ running
  /\ config.PrivateKey
  /\ running' = TRUE
  /\ NewQuit
  /\ keyless' = FALSE
  /\ WithoutDiscovery \/ ListenFails \/ Listen
  /\ UNCHANGED <<config, taken, panicked>>

-----------------------------------------------------------------------------
\* Stop.  Closing a channel that is nil, or closed already, panics.
Stop ==
  /\ ~ panicked /\ running
  /\ running' = FALSE
  /\ IF quit = "open"
     THEN quit' = "closed" /\ UNCHANGED panicked
     ELSE panicked' = TRUE /\ UNCHANGED quit
  /\ UNCHANGED <<config, DiscNetwork, networks, taken, keyless, spoiled>>

Configure(c) ==
  /\ ~ panicked /\ ~ running
  /\ config' = c
  /\ UNCHANGED <<running, quit, DiscNetwork, networks, taken, panicked, keyless, spoiled>>

\* readLoop: reading failed for good, and the socket is closed.
ReadFails(i) ==
  /\ ~ panicked
  /\ Bound(i)
  /\ networks' = [networks EXCEPT ![i].bound = FALSE]
  /\ spoiled' = TRUE
  /\ UNCHANGED <<config, running, quit, DiscNetwork, taken, panicked, keyless>>

\* Another process takes the fixed port, or releases it.
Rival ==
  /\ ~ panicked
  /\ taken \/ Holding = {}
  /\ taken' = ~ taken
  /\ UNCHANGED <<config, running, quit, DiscNetwork, networks, panicked, keyless, spoiled>>

ServerNext ==
  \/ StartWithoutKey
  \/ Start
  \/ Stop
  \/ \E c \in Configs : Configure(c)
  \/ \E i \in DOMAIN networks : ReadFails(i)
  \/ Rival

ServerSpec == ServerInit /\ [][ServerNext]_serverVars

-----------------------------------------------------------------------------
\* The variables' types; of all networks at most one has the fixed port.
ServerTypeOK ==
  /\ config \in Configs
  /\ running \in BOOLEAN
  /\ quit \in {"nil", "open", "closed"}
  /\ DiscNetwork \in 0 .. Len(networks)
  /\ networks \in Seq([port : {"fixed", "any"}, bound : BOOLEAN])
  /\ Len(networks) <= MaxNetworks
  /\ Cardinality(Holding) <= 1
  /\ taken \in BOOLEAN
  /\ panicked \in BOOLEAN
  /\ keyless \in BOOLEAN
  /\ spoiled \in BOOLEAN

\* Start swallows the failure of setupDiscovery, and Stop leaves the network
\* running.  For one failure the two make up for each other: a server that could
\* not bind its port because of its own earlier network has that one listening.
\* So a server started with discovery has a network that is listening, unless a
\* Start ever failed for something else (spoiled), after which it may have none.
Served ==
  running /\ ~ keyless /\ ~ Disabled(config) /\ ~ spoiled =>
    DiscNetwork # 0 /\ Bound(DiscNetwork)

\* Stop panics only when the Start before it failed for want of a key, however
\* often the server was started and stopped before, and with what settings.
PanicsWithoutKey == panicked => keyless
=============================================================================
