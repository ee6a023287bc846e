------------------------------ MODULE PosChain ------------------------------
(***************************************************************************)
(* main/PosChain.go: a proof-of-stake chain.  Every connection is a        *)
(* validator that stakes a balance and submits blocks; a collector gathers *)
(* them; pickWinner draws one validator per round, appends its block to    *)
(* the chain and announces it.                                             *)
(*                                                                         *)
(* The mutex is never held across two of the steps below.  The validators  *)
(* map is written without it, and the Go runtime may notice such a race    *)
(* and kill the program.  A block's hash covers the time it was made, so   *)
(* that it is named by its validator and a number.                         *)
(*                                                                         *)
(* Writing to a connection ends when the client reads, which it need not,  *)
(* or when the connection is closed.                                       *)
(***************************************************************************)
EXTENDS Integers, SequencesExt

CONSTANTS Conns,      \* connections, and their validators' addresses
          Stakes,     \* the balances a validator may enter
          MaxBlocks,  \* bounds on the blocks made by each connection
          NoOne       \* the validator of the genesis block

ASSUME NoOneAssumption == NoOne \notin Conns
ASSUME StakesAssumption == Stakes \subseteq Int
ASSUME MaxBlocksAssumption == MaxBlocks \in [Conns -> Nat]

VARIABLES
  pc,           \* what each connection does
  closed,       \* the connections closed, by the client or by the program
  writing,      \* those whose listener is writing an announcement
  block,        \* the block each connection made last
  validators,   \* the map from validators to balances
  inHand,       \* the block the collector has received and not yet stored
  tempBlocks,
  Blockchain,
  picker,       \* what pickWinner does
  temp,         \* its copy of tempBlocks...
  weighed,      \* ... the number of blocks of it that were weighed...
  lotteryPool,  \* ... and the validators in the pool, without repetitions
  ranged, told, \* the validators its announcements started with, and passed
  ranging,      \* the validator it is at, or NoOne
  heard,        \* history: the connections that read this round's winner
  crashed       \* the program has panicked or was killed

conns == <<pc, block, closed>>
chain == <<inHand, tempBlocks, Blockchain>>
lottery == <<temp, weighed, lotteryPool>>
news == <<ranged, told, ranging, heard>>
vars == <<conns, writing, validators, chain, picker, lottery, news, crashed>>

Genesis == [id |-> <<NoOne, 0>>, index |-> 0, prev |-> <<NoOne, 0>>]
Validator(b) == b.id[1]
Number(b) == b.id[2]

Init ==
  /\ pc = [c \in Conns |-> "off"]
  /\ block = [c \in Conns |-> Genesis]
  /\ closed = {} /\ writing = {}
  /\ validators = <<>>
  /\ inHand = <<>> /\ tempBlocks = <<>> /\ Blockchain = <<Genesis>>
  /\ picker = "sleep"
  /\ temp = <<>> /\ weighed = 0 /\ lotteryPool = {}
  /\ ranged = {} /\ told = {} /\ ranging = NoOne /\ heard = {}
  /\ crashed = FALSE

-----------------------------------------------------------------------------
(* Connections *)

Goto(c, label) == pc' = [pc EXCEPT ![c] = label]

Accept(c) ==
  /\ pc[c] = "off"
  /\ Goto(c, "balance")
  /\ UNCHANGED <<block, closed, writing, validators, chain, picker, lottery, news, crashed>>

\* The client goes.  Lines that were read already are still there, and nobody
\* deletes its validator.
Disconnect(c) ==
  /\ pc[c] # "off" /\ c \notin closed
  /\ closed' = closed \cup {c}
  /\ UNCHANGED <<pc, block, writing, validators, chain, picker, lottery, news, crashed>>

\* A write of the map races pickWinner's reads and other connections' writes.
SetValidators(c, map) ==
  /\ validators' = map
  /\ crashed' \in IF \/ picker = "weigh" /\ weighed < Len(temp)
                     \/ picker = "announce" /\ ranging = NoOne
                     \/ \E d \in Conns \ {c} : pc[d] \in {"balance", "bpm"}
                  THEN BOOLEAN ELSE {FALSE}

Register(c, balance) ==
  /\ pc[c] = "balance"
  /\ Goto(c, "bpm")
  /\ SetValidators(c, [v \in DOMAIN validators \cup {c} |->
                         IF v = c THEN balance ELSE validators[v]])
  /\ UNCHANGED <<block, closed, writing, chain, picker, lottery, news>>

\* A balance that is not a number.
Leave(c) ==
  /\ pc[c] = "balance"
  /\ Goto(c, "ended")
  /\ closed' = closed \cup {c}
  /\ UNCHANGED <<block, writing, validators, chain, picker, lottery, news, crashed>>

\* The end of the input, or a line that is too long: the connection makes
\* blocks from the lines that follow, for a validator that nobody registered.
NoBalance(c) ==
  /\ pc[c] = "balance"
  /\ Goto(c, "bpm")
  /\ UNCHANGED <<block, closed, writing, validators, chain, picker, lottery, news, crashed>>

ReadBPM(c) ==
  /\ pc[c] = "bpm" /\ Number(block[c]) < MaxBlocks[c]
  /\ Goto(c, "forging")
  /\ UNCHANGED <<block, closed, writing, validators, chain, picker, lottery, news, crashed>>

\* Input that is not a number: the validator is deleted and the connection
\* closed, and the handler goes on and makes a block all the same, and more
\* from the lines its scanner has read already.
ReadBadBPM(c) ==
  /\ pc[c] = "bpm" /\ Number(block[c]) < MaxBlocks[c]
  /\ Goto(c, "forging")
  /\ closed' = closed \cup {c}
  /\ SetValidators(c, [v \in DOMAIN validators \ {c} |-> validators[v]])
  /\ UNCHANGED <<block, writing, chain, picker, lottery, news>>

\* A block that continues the chain as it is now, and so is valid.
isBlockValid(newBlock, oldBlock) ==
  oldBlock.index + 1 = newBlock.index /\ oldBlock.id = newBlock.prev
NextIndexKept == Last(Blockchain).index
NextIndex == Last(Blockchain).index + 1
Forge(c) ==
  /\ pc[c] = "forging"
  /\ block' = [block EXCEPT ![c] = [id    |-> <<c, Number(@) + 1>>,
                                    index |-> NextIndex,
                                    prev  |-> Last(Blockchain).id]]
  /\ Goto(c, "sending")
  /\ UNCHANGED <<closed, writing, validators, chain, picker, lottery, news, crashed>>

\* The collector takes the block from candidateBlocks, and stores it.
Submit(c) ==
  /\ pc[c] = "sending"
  /\ inHand = <<>>
  /\ inHand' = <<block[c]>>
  /\ Goto(c, "bpm")
  /\ UNCHANGED <<block, closed, writing, validators, tempBlocks, Blockchain, picker, lottery, news, crashed>>

Collect ==
  /\ inHand # <<>>
  /\ tempBlocks' = tempBlocks \o inHand
  /\ inHand' = <<>>
  /\ UNCHANGED <<conns, writing, validators, Blockchain, picker, lottery, news, crashed>>

-----------------------------------------------------------------------------
(* pickWinner *)

\* The sleep is over: copy tempBlocks.
Snapshot ==
  /\ picker = "sleep"
  /\ temp' = tempBlocks /\ weighed' = 0 /\ lotteryPool' = {}
  /\ picker' = IF tempBlocks = <<>> THEN "reset" ELSE "weigh"
  /\ UNCHANGED <<conns, writing, validators, chain, news, crashed>>

\* One turn of the loop over temp: the validator gets as many tickets as it
\* has staked, if it is still in the map.
Weigh ==
  /\ picker = "weigh" /\ weighed < Len(temp)
  /\ weighed' = weighed + 1
  /\ lotteryPool' = lotteryPool \cup
       {v \in DOMAIN validators : v = Validator(temp[weighed + 1]) /\ validators[v] > 0}
  /\ UNCHANGED <<conns, writing, validators, chain, picker, temp, news, crashed>>

\* The winner's first block in temp joins the chain as it is.
Draw(winner) ==
  /\ picker = "weigh" /\ weighed = Len(temp)
  /\ winner \in lotteryPool
  /\ \E i \in DOMAIN temp :
       /\ Validator(temp[i]) = winner
       /\ \A j \in 1 .. i - 1 : Validator(temp[j]) # winner
       /\ Blockchain' = Append(Blockchain, temp[i])
  /\ picker' = "announce"
  /\ ranged' = DOMAIN validators /\ told' = {} /\ ranging' = NoOne /\ heard' = {}
  /\ UNCHANGED <<conns, writing, validators, inHand, tempBlocks, lottery, crashed>>

\* No validator in the pool: Intn(0) panics.
Panic ==
  /\ picker = "weigh" /\ weighed = Len(temp)
  /\ lotteryPool = {}
  /\ crashed' = TRUE
  /\ UNCHANGED <<conns, writing, validators, chain, picker, lottery, news>>

\* The range over the map comes to a validator.  It passes all that were there
\* when it began, unless they are deleted first; it may, but need not, pass
\* those that joined meanwhile.
NextKey(v) ==
  /\ picker = "announce" /\ ranging = NoOne
  /\ v \in DOMAIN validators \ told
  /\ ranging' = v /\ told' = told \cup {v}
  /\ UNCHANGED <<conns, writing, validators, chain, picker, lottery, ranged, heard, crashed>>

\* Every connection ever accepted has a goroutine that reads announcements and
\* outlives the connection.  One that is not writing gets the message, and
\* starts to write it.
ListenersOpenOnly == {c \in Conns : pc[c] # "off"} \ closed
Listeners == {c \in Conns : pc[c] # "off"}
Announce(listener) ==
  /\ picker = "announce" /\ ranging # NoOne
  /\ listener \in Listeners \ writing
  /\ writing' = writing \cup {listener}
  /\ ranging' = NoOne
  /\ heard' = heard \cup {listener}
  /\ UNCHANGED <<conns, validators, chain, picker, lottery, ranged, told, crashed>>

\* The listener's write returns.
Written(c) ==
  /\ c \in writing
  /\ writing' = writing \ {c}
  /\ UNCHANGED <<conns, validators, chain, picker, lottery, news, crashed>>

\* The range is over.
Announced ==
  /\ picker = "announce" /\ ranging = NoOne
  /\ ranged \cap DOMAIN validators \subseteq told
  /\ picker' = "reset"
  /\ UNCHANGED <<conns, writing, validators, chain, lottery, news, crashed>>

\* All collected blocks are dropped, those collected since Snapshot included.
KeptBlocks == tempBlocks
OneZeroBlock == <<Genesis>>
LeftBlocks == <<>>
Reset ==
  /\ picker = "reset"
  /\ tempBlocks' = LeftBlocks
  /\ picker' = "sleep"
  /\ UNCHANGED <<conns, writing, validators, inHand, Blockchain, lottery, news, crashed>>

-----------------------------------------------------------------------------
Connection(c) ==
  \/ Accept(c)
  \/ Disconnect(c)
  \/ \E balance \in Stakes : Register(c, balance)
  \/ Leave(c)
  \/ NoBalance(c)
  \/ ReadBPM(c)
  \/ ReadBadBPM(c)
  \/ Forge(c)
  \/ Submit(c)

PickWinner ==
  \/ Snapshot
  \/ Weigh
  \/ \E c \in Conns : Draw(c) \/ NextKey(c) \/ Announce(c)
  \/ Panic
  \/ Announced
  \/ Reset

Next ==
  /\ ~ crashed
  /\ (\E c \in Conns : Connection(c) \/ Written(c)) \/ Collect \/ PickWinner

Spec == Init /\ [][Next]_vars

\* pickWinner's goroutine runs whenever it can, and a write to a connection that
\* is closed returns.  Nothing makes a client read.
FairSpec ==
  /\ Spec
  /\ WF_vars(~ crashed /\ PickWinner)
  /\ \A c \in Conns : WF_vars(~ crashed /\ c \in closed /\ Written(c))

-----------------------------------------------------------------------------
\* A block's number names its validator's blocks in the order they are made:
\* no block that waits anywhere was made after the connection's last one.
TypeOK ==
  /\ pc \in [Conns -> {"off", "balance", "bpm", "forging", "sending", "ended"}]
  /\ DOMAIN validators \subseteq Conns
  /\ picker \in {"sleep", "weigh", "announce", "reset"}
  /\ Len(inHand) <= 1
  /\ \A b \in ToSet(inHand \o tempBlocks \o temp \o Tail(Blockchain)) :
       Validator(b) \in Conns /\ Number(b) \in 1 .. Number(block[Validator(b)])
  /\ weighed \in 0 .. Len(temp)
  /\ lotteryPool \cup ranged \cup told \cup heard \cup closed \cup writing \subseteq Conns
  /\ ranging \in Conns \cup {NoOne}
  /\ crashed \in BOOLEAN

\* What holds although blocks are appended without being validated again:
\* every block continues an earlier block of the chain.
LinkedToEarlier ==
  \A i \in 2 .. Len(Blockchain) :
    \E j \in 1 .. i - 1 : isBlockValid(Blockchain[i], Blockchain[j])

\* No block is forged into the chain twice, although it stays among the
\* collected blocks while its round is announced.
ForgedOnce == IsInjective(Blockchain)

\* Every listener is writing to a client that is there and does not read.
Unread == Listeners # {} /\ Listeners \subseteq writing \ closed

\* Every round ends, also when the announced validators have left: their
\* listeners still read the announcements.  Clients that are there and do not
\* read hold it up, for ever, when there is no listener but theirs.
RoundEnds == ~ <>[]Unread => (picker # "sleep" ~> picker = "sleep" \/ crashed)

-----------------------------------------------------------------------------
(* Stated by comments of the code, and not true of it *)

\* "Blockchain is a series of validated Blocks".
ChainValid ==
  \A i \in 2 .. Len(Blockchain) : isBlockValid(Blockchain[i], Blockchain[i - 1])

\* "announcements broadcasts winning validator to all nodes": those that were
\* validators when the announcements started, and still are, have heard.
AllHear ==
  picker = "reset" /\ temp # <<>> => ranged \cap DOMAIN validators \subseteq heard

\* "lock list of validators to prevent data race": the program does not die
\* while the stakes are weighed (only after that, when nobody has one).
LotteryUnraced ==
  crashed /\ picker = "weigh" => weighed = Len(temp)
=============================================================================
