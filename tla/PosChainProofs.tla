--------------------------- MODULE PosChainProofs ---------------------------
(***************************************************************************)
(* LinkedToEarlier and ForgedOnce, for any number of connections and       *)
(* blocks and any stakes.  Although the winning block is appended without  *)
(* being validated again, it was valid when it was made, and the chain     *)
(* only grows.  Although it stays among the collected blocks while it is   *)
(* announced, it is dropped with them before the next round.               *)
(***************************************************************************)
EXTENDS PosChain, SequenceLemmas

Ids == (Conns \cup {NoOne}) \X Nat
Labels == {"off", "balance", "bpm", "forging", "sending", "ended"}
Blocks == [id : Ids, index : Nat, prev : Ids]

\* The types of all that holds blocks.
ChainTypes ==
  /\ pc \in [Conns -> Labels]
  /\ block \in [Conns -> Blocks]
  /\ {inHand, tempBlocks, temp, Blockchain} \subseteq Seq(Blocks)
  /\ Blockchain # <<>>

\* b continues a block that is in the chain.
Linked(b) == \E j \in DOMAIN Blockchain : isBlockValid(b, Blockchain[j])

\* So does every block that may be appended one day.
Waiting == ToSet(inHand) \cup ToSet(tempBlocks) \cup ToSet(temp)
WaitingLinked ==
  /\ \A b \in Waiting : Linked(b)
  /\ \A c \in Conns : pc[c] = "sending" => Linked(block[c])

LinkedInv == ChainTypes /\ WaitingLinked /\ LinkedToEarlier

-----------------------------------------------------------------------------
(* The chain's end, and what is linked to it *)

\* The last block of the chain.
LEMMA LastBlock ==
  ASSUME ChainTypes
  PROVE  /\ Len(Blockchain) \in DOMAIN Blockchain
         /\ Last(Blockchain) = Blockchain[Len(Blockchain)]
         /\ Last(Blockchain) \in Blocks
<1>1. Blockchain \in Seq(Blocks) /\ Blockchain # <<>>
  BY DEF ChainTypes
<1>2. Len(Blockchain) \in Nat \ {0} /\ DOMAIN Blockchain = 1 .. Len(Blockchain)
  BY <1>1, LenProperties, EmptySeq
<1>3. Blockchain[Len(Blockchain)] \in Blocks
  BY <1>1, <1>2, ElementOfSeq
<1> QED
  BY <1>2, <1>3 DEF Last

\* What is linked remains linked while the chain does not change.
LEMMA LinkedKept ==
  ASSUME UNCHANGED Blockchain, NEW b
  PROVE  Linked(b) => Linked(b)'
BY DEF Linked

-----------------------------------------------------------------------------
(* The chain does not change: which blocks may be appended one day does *)

\* As long as the chain stays as it is, only new candidates matter.
LEMMA LinkedInvKept ==
  ASSUME LinkedInv, UNCHANGED Blockchain, ChainTypes',
         \A b \in Waiting' : Linked(b),
         \A c \in Conns : pc'[c] = "sending" => Linked(block'[c])
  PROVE  LinkedInv'
<1>1. WaitingLinked'
  BY LinkedKept DEF WaitingLinked, Linked
<1>2. LinkedToEarlier'
  BY DEF LinkedInv, LinkedToEarlier
<1> QED
  BY <1>1, <1>2 DEF LinkedInv

\* Every step leaves the chain, and all that may join it, linked.
LEMMA LinkedInvStep ==
  LinkedInv /\ [Next]_vars => LinkedInv'
<1> SUFFICES ASSUME LinkedInv, [Next]_vars  PROVE LinkedInv'
  OBVIOUS
<1> USE DEF conns, chain, Labels
<1>1. ASSUME NEW c \in Conns, NEW label \in Labels \ {"sending"}, Goto(c, label),
             UNCHANGED <<block, chain, temp>>
      PROVE  LinkedInv'
  <2>1. ChainTypes'
    BY <1>1 DEF LinkedInv, ChainTypes, Goto
  <2>2. \A b \in Waiting' : Linked(b)
    BY <1>1 DEF LinkedInv, WaitingLinked, Waiting
  <2>3. \A d \in Conns : pc'[d] = "sending" => Linked(block'[d])
    BY <1>1 DEF LinkedInv, WaitingLinked, ChainTypes, Goto
  <2> QED
    BY <1>1, <2>1, <2>2, <2>3, LinkedInvKept
<1>2. ASSUME NEW c \in Conns, Forge(c)  PROVE LinkedInv'
  <2> DEFINE new == [id    |-> <<c, Number(block[c]) + 1>>,
                     index |-> Last(Blockchain).index + 1,
                     prev  |-> Last(Blockchain).id]
  <2>1. /\ pc' = [pc EXCEPT ![c] = "sending"] /\ block' = [block EXCEPT ![c] = new]
        /\ UNCHANGED <<inHand, tempBlocks, temp, Blockchain>>
    BY <1>2 DEF Forge, Goto, NextIndex, lottery
  <2>2. Last(Blockchain) \in Blocks /\ block[c] \in Blocks
    BY LastBlock DEF LinkedInv, ChainTypes
  <2>3. new \in Blocks
    BY <2>2 DEF Blocks, Ids, Number
  <2>4. ChainTypes'
    BY <2>1, <2>3 DEF LinkedInv, ChainTypes
  <2>5. Linked(new)
    <3>1. isBlockValid(new, Last(Blockchain))
      BY DEF isBlockValid
    <3> HIDE DEF new
    <3> QED
      BY <3>1, LastBlock DEF Linked, LinkedInv
  <2>6. \A b \in Waiting' : Linked(b)
    BY <2>1 DEF LinkedInv, WaitingLinked, Waiting
  <2> HIDE DEF new
  <2>7. \A d \in Conns : pc'[d] = "sending" => Linked(block'[d])
    BY <2>1, <2>5 DEF LinkedInv, WaitingLinked, ChainTypes
  <2> QED
    BY <2>1, <2>4, <2>6, <2>7, LinkedInvKept
<1>3. ASSUME NEW c \in Conns, Submit(c)  PROVE LinkedInv'
  <2>1. /\ pc[c] = "sending" /\ pc' = [pc EXCEPT ![c] = "bpm"]
        /\ inHand' = <<block[c]>>
        /\ UNCHANGED <<block, tempBlocks, temp, Blockchain>>
    BY <1>3 DEF Submit, Goto, lottery
  <2>2. <<block[c]>> \in Seq(Blocks) /\ ToSet(<<block[c]>>) = {block[c]}
    BY DEF LinkedInv, ChainTypes, ToSet
  <2>3. ChainTypes'
    BY <2>1, <2>2 DEF LinkedInv, ChainTypes
  <2>4. \A b \in Waiting' : Linked(b)
    BY <2>1, <2>2 DEF LinkedInv, WaitingLinked, Waiting
  <2>5. \A d \in Conns : pc'[d] = "sending" => Linked(block'[d])
    BY <2>1 DEF LinkedInv, WaitingLinked, ChainTypes
  <2> QED
    BY <2>1, <2>3, <2>4, <2>5, LinkedInvKept
<1>4. ASSUME NEW c \in Conns, Connection(c), ~ Disconnect(c)  PROVE LinkedInv'
  <2>1. CASE \/ Accept(c) \/ Leave(c) \/ NoBalance(c)
             \/ \E balance \in Stakes : Register(c, balance)
             \/ ReadBPM(c) \/ ReadBadBPM(c)
    <3>1. \/ Goto(c, "balance") \/ Goto(c, "bpm")
          \/ Goto(c, "ended") \/ Goto(c, "forging")
      BY <2>1 DEF Accept, Register, Leave, NoBalance, ReadBPM, ReadBadBPM
    <3>2. UNCHANGED <<block, chain, temp>>
      BY <2>1 DEF Accept, Register, Leave, NoBalance, ReadBPM, ReadBadBPM, lottery
    <3> QED
      BY <3>1, <3>2, <1>1
  <2> QED
    BY <1>2, <1>3, <1>4, <2>1 DEF Connection
<1>5. ASSUME Collect  PROVE LinkedInv'
  <2>1. /\ tempBlocks' = tempBlocks \o inHand /\ inHand' = <<>>
        /\ UNCHANGED <<pc, block, temp, Blockchain>>
    BY <1>5 DEF Collect, lottery
  <2>2. /\ tempBlocks \o inHand \in Seq(Blocks)
        /\ ToSet(tempBlocks \o inHand) = ToSet(tempBlocks) \cup ToSet(inHand)
    BY ConcatRange DEF LinkedInv, ChainTypes
  <2>3. <<>> \in Seq(Blocks) /\ ToSet(<<>>) = {}
    BY EmptySeq DEF ToSet
  <2>4. ChainTypes'
    BY <2>1, <2>2, <2>3 DEF LinkedInv, ChainTypes
  <2>5. \A b \in Waiting' : Linked(b)
    BY <2>1, <2>2, <2>3 DEF LinkedInv, WaitingLinked, Waiting
  <2>6. \A d \in Conns : pc'[d] = "sending" => Linked(block'[d])
    BY <2>1 DEF LinkedInv, WaitingLinked
  <2> QED
    BY <2>1, <2>4, <2>5, <2>6, LinkedInvKept
<1>6. ASSUME Snapshot \/ Reset  PROVE LinkedInv'
  <2>1. /\ temp' \in {temp, tempBlocks} /\ tempBlocks' \in {tempBlocks, <<>>}
        /\ UNCHANGED <<pc, block, inHand, Blockchain>>
    BY <1>6 DEF Snapshot, Reset, LeftBlocks, lottery
  <2>2. <<>> \in Seq(Blocks) /\ ToSet(<<>>) = {}
    BY EmptySeq DEF ToSet
  <2>3. ChainTypes'
    BY <2>1, <2>2 DEF LinkedInv, ChainTypes
  <2>4. Waiting' \subseteq Waiting
    BY <2>1, <2>2 DEF Waiting
  <2>5. \A b \in Waiting' : Linked(b)
    BY <2>4 DEF LinkedInv, WaitingLinked
  <2>6. \A d \in Conns : pc'[d] = "sending" => Linked(block'[d])
    BY <2>1 DEF LinkedInv, WaitingLinked
  <2> QED
    BY <2>1, <2>3, <2>5, <2>6, LinkedInvKept
<1>7. ASSUME NEW winner \in Conns, Draw(winner)  PROVE LinkedInv'
  <2>1. PICK i \in DOMAIN temp : Blockchain' = Append(Blockchain, temp[i])
    BY <1>7 DEF Draw
  <2>2. UNCHANGED <<pc, block, inHand, tempBlocks, temp>>
    BY <1>7 DEF Draw, lottery
  <2> DEFINE N == Len(Blockchain)
  <2>3. temp[i] \in Blocks /\ temp[i] \in ToSet(temp)
    BY ElementOfSeq, LenProperties DEF LinkedInv, ChainTypes, ToSet
  <2>4. /\ N \in Nat /\ DOMAIN Blockchain = 1 .. N
        /\ Blockchain' \in Seq(Blocks)
        /\ Len(Blockchain') = N + 1 /\ DOMAIN Blockchain' = 1 .. N + 1
        /\ \A j \in 1 .. N : Blockchain'[j] = Blockchain[j]
        /\ Blockchain'[N + 1] = temp[i]
    BY <2>1, <2>3, AppendProperties, LenProperties DEF LinkedInv, ChainTypes
  <2>5. ChainTypes'
    <3>1. Blockchain' # <<>>
      BY <2>4, EmptySeq
    <3> QED
      BY <2>2, <2>4, <3>1 DEF LinkedInv, ChainTypes
  <2>6. \A b : Linked(b) => Linked(b)'
    BY <2>4 DEF Linked, isBlockValid
  <2>7. WaitingLinked'
    <3>1. Waiting' = Waiting
      BY <2>2 DEF Waiting
    <3> QED
      BY <2>2, <2>6, <3>1 DEF LinkedInv, WaitingLinked
  <2>8. LinkedToEarlier'
    <3> SUFFICES ASSUME NEW k \in 2 .. N + 1
                 PROVE  \E j \in 1 .. k - 1 : isBlockValid(Blockchain'[k], Blockchain'[j])
      BY <2>4 DEF LinkedToEarlier, isBlockValid
    <3>1. CASE k = N + 1
      <4>1. PICK j \in 1 .. N : isBlockValid(temp[i], Blockchain[j])
        BY <2>3, <2>4 DEF LinkedInv, WaitingLinked, Waiting, Linked
      <4> QED
        BY <2>4, <3>1, <4>1
    <3>2. CASE k \in 2 .. N
      <4>1. PICK j \in 1 .. k - 1 : isBlockValid(Blockchain[k], Blockchain[j])
        BY <3>2 DEF LinkedInv, LinkedToEarlier
      <4>2. k \in 1 .. N /\ j \in 1 .. N
        BY <2>4, <3>2
      <4> QED
        BY <2>4, <4>1, <4>2
    <3> QED
      BY <2>4, <3>1, <3>2
  <2> QED
    BY <2>5, <2>7, <2>8 DEF LinkedInv
<1>8. ASSUME UNCHANGED <<pc, block, chain, temp>>  PROVE LinkedInv'
  BY <1>8 DEF LinkedInv, ChainTypes, WaitingLinked, Waiting, Linked, LinkedToEarlier
<1>9. ASSUME PickWinner  PROVE LinkedInv'
  <2>1. CASE Weigh \/ Panic \/ Announced \/ \E c \in Conns : NextKey(c) \/ Announce(c)
    BY <2>1, <1>8 DEF Weigh, Panic, Announced, NextKey, Announce, lottery
  <2> QED
    BY <1>6, <1>7, <1>9, <2>1 DEF PickWinner
<1>10. CASE UNCHANGED vars
  BY <1>10, <1>8 DEF vars, lottery
<1>11. ASSUME NEW c \in Conns, Disconnect(c) \/ Written(c)  PROVE LinkedInv'
  BY <1>8, <1>11 DEF Disconnect, Written, lottery
<1> QED
  BY <1>4, <1>5, <1>9, <1>10, <1>11 DEF Next

\* The genesis block has nothing to continue.
LEMMA LinkedInvInit ==
  Init => LinkedInv
<1> SUFFICES ASSUME Init  PROVE LinkedInv
  OBVIOUS
<1>1. Genesis \in Blocks
  BY DEF Genesis, Blocks, Ids
<1>2. <<Genesis>> \in Seq(Blocks) /\ <<Genesis>> # <<>> /\ Len(<<Genesis>>) = 1
  BY <1>1
<1>3. <<>> \in Seq(Blocks) /\ ToSet(<<>>) = {}
  BY EmptySeq DEF ToSet
<1>4. ChainTypes
  BY <1>1, <1>2, <1>3 DEF Init, ChainTypes, Labels
<1>5. WaitingLinked
  BY <1>3 DEF Init, WaitingLinked, Waiting
<1>6. LinkedToEarlier
  BY <1>2 DEF Init, LinkedToEarlier
<1> QED
  BY <1>4, <1>5, <1>6 DEF LinkedInv

\* Every block of the chain continues an earlier one.
THEOREM BlocksLinked == Spec => []LinkedToEarlier
<1>1. LinkedInv => LinkedToEarlier
  BY DEF LinkedInv
<1> QED
  BY <1>1, LinkedInvInit, LinkedInvStep, PTL DEF Spec

-----------------------------------------------------------------------------
(* No block is forged twice *)

Forged == ToSet(Blockchain)
Existing == Waiting \cup Forged

\* Blocks are numbered in the order they are made, so that a new block is
\* none of those that exist; a block is sent once, collected once, and forged
\* only while it is collected; after it was forged no block is drawn before
\* all collected ones are dropped.
Numbered ==
  \A b \in Existing : Validator(b) \in Conns => Number(b) <= Number(block[Validator(b)])
SentOnce ==
  \A c \in Conns : pc[c] = "sending" => Validator(block[c]) = c /\ block[c] \notin Existing
CollectedOnce == ToSet(inHand) \cap (ToSet(tempBlocks) \cup Forged) = {}
DrawnOnce ==
  /\ picker # "sleep" => ToSet(temp) \subseteq ToSet(tempBlocks)
  /\ picker \in {"sleep", "weigh"} => ToSet(tempBlocks) \cap Forged = {}

OnceInv == Numbered /\ SentOnce /\ CollectedOnce /\ DrawnOnce /\ ForgedOnce

\* What exists is a block.
LEMMA ExistingType ==
  ASSUME ChainTypes
  PROVE  Existing \subseteq Blocks
<1>1. \A s \in Seq(Blocks) : ToSet(s) \subseteq Blocks
  BY ElementOfSeq, LenProperties DEF ToSet
<1> QED
  BY <1>1 DEF ChainTypes, Existing, Waiting, Forged

\* Steps that neither make, move nor forge a block.
LEMMA OnceInvKept ==
  ASSUME OnceInv, UNCHANGED <<block, inHand, tempBlocks, Blockchain, temp>>,
         \A c \in Conns : pc'[c] = "sending" => pc[c] = "sending",
         picker' = picker \/ (picker = "announce" /\ picker' = "reset")
  PROVE  OnceInv'
<1>1. UNCHANGED <<Existing, Forged>>
  BY DEF Existing, Forged, Waiting
<1>2. Numbered' /\ SentOnce' /\ CollectedOnce' /\ ForgedOnce'
  BY <1>1 DEF OnceInv, Numbered, SentOnce, CollectedOnce, ForgedOnce
<1>3. DrawnOnce'
  BY <1>1 DEF OnceInv, DrawnOnce
<1> QED
  BY <1>2, <1>3 DEF OnceInv

\* Every step keeps the collected, sent and forged blocks apart.
LEMMA OnceInvStep ==
  ASSUME ChainTypes, OnceInv, [Next]_vars
  PROVE  OnceInv'
<1> USE DEF conns, chain, Labels
<1>1. ASSUME NEW c \in Conns, NEW label \in Labels \ {"sending"}, Goto(c, label),
             UNCHANGED <<block, chain, temp, picker>>
      PROVE  OnceInv'
  <2>1. \A d \in Conns : pc'[d] = "sending" => pc[d] = "sending"
    BY <1>1 DEF Goto, ChainTypes
  <2> QED
    BY <1>1, <2>1, OnceInvKept
<1>2. ASSUME NEW c \in Conns, Forge(c)  PROVE OnceInv'
  <2> DEFINE new == [id    |-> <<c, Number(block[c]) + 1>>,
                     index |-> Last(Blockchain).index + 1,
                     prev  |-> Last(Blockchain).id]
  <2>1. /\ pc' = [pc EXCEPT ![c] = "sending"] /\ block' = [block EXCEPT ![c] = new]
        /\ UNCHANGED <<inHand, tempBlocks, temp, Blockchain, picker>>
    BY <1>2 DEF Forge, Goto, NextIndex, lottery
  <2>2. \A d \in Conns : Number(block[d]) \in Nat
    BY DEF ChainTypes, Blocks, Ids, Number
  <2>3. Validator(new) = c /\ Number(new) = Number(block[c]) + 1
    BY DEF Validator, Number
  <2>4. UNCHANGED <<Existing, Forged>>
    BY <2>1 DEF Existing, Forged, Waiting
  <2> HIDE DEF new
  <2>5. block'[c] = new /\ \A d \in Conns \ {c} : block'[d] = block[d]
    BY <2>1 DEF ChainTypes
  <2>6. new \notin Existing
    BY <2>2, <2>3 DEF OnceInv, Numbered
  <2>7. Numbered'
    <3> SUFFICES ASSUME NEW b \in Existing, Validator(b) \in Conns
                 PROVE  Number(b) <= Number(block'[Validator(b)])
      BY <2>4 DEF Numbered, Validator, Number
    <3>1. Number(b) <= Number(block[Validator(b)])
      BY DEF OnceInv, Numbered
    <3>2. CASE Validator(b) = c
      <4>1. Number(b) <= Number(block[c])
        BY <3>1, <3>2
      <4>2. Number(b) \in Nat
        BY ExistingType DEF Blocks, Ids, Number
      <4> QED
        BY <2>2, <2>3, <2>5, <3>2, <4>1, <4>2
    <3>3. CASE Validator(b) # c
      BY <2>5, <3>1, <3>3
    <3> QED
      BY <3>2, <3>3
  <2>8. SentOnce'
    BY <2>1, <2>3, <2>4, <2>5, <2>6 DEF OnceInv, SentOnce, ChainTypes, Validator
  <2>9. CollectedOnce' /\ DrawnOnce' /\ ForgedOnce'
    BY <2>1, <2>4 DEF OnceInv, CollectedOnce, DrawnOnce, ForgedOnce
  <2> QED
    BY <2>7, <2>8, <2>9 DEF OnceInv
<1>3. ASSUME NEW c \in Conns, Submit(c)  PROVE OnceInv'
  <2>1. /\ pc[c] = "sending" /\ pc' = [pc EXCEPT ![c] = "bpm"]
        /\ inHand = <<>> /\ inHand' = <<block[c]>>
        /\ UNCHANGED <<block, tempBlocks, temp, Blockchain, picker>>
    BY <1>3 DEF Submit, Goto, lottery
  <2>2. ToSet(<<block[c]>>) = {block[c]} /\ ToSet(<<>>) = {}
    BY DEF ToSet
  <2>3. Existing' = Existing \cup {block[c]} /\ Forged' = Forged
    BY <2>1, <2>2 DEF Existing, Forged, Waiting
  <2>4. Validator(block[c]) = c /\ block[c] \notin Existing
    BY <2>1 DEF OnceInv, SentOnce
  <2>5. Numbered'
    <3>1. Number(block[c]) <= Number(block[c])
      BY DEF ChainTypes, Blocks, Ids, Number
    <3> QED
      BY <2>1, <2>3, <2>4, <3>1 DEF OnceInv, Numbered, Validator, Number
  <2>6. SentOnce'
    BY <2>1, <2>3, <2>4 DEF OnceInv, SentOnce, ChainTypes, Validator
  <2>7. CollectedOnce'
    BY <2>1, <2>2, <2>3, <2>4 DEF CollectedOnce, Existing, Waiting
  <2>8. DrawnOnce' /\ ForgedOnce'
    BY <2>1, <2>3 DEF OnceInv, DrawnOnce, ForgedOnce
  <2> QED
    BY <2>5, <2>6, <2>7, <2>8 DEF OnceInv
<1>4. ASSUME NEW c \in Conns, Connection(c), ~ Disconnect(c)  PROVE OnceInv'
  <2>1. CASE \/ Accept(c) \/ Leave(c) \/ NoBalance(c)
             \/ \E balance \in Stakes : Register(c, balance)
             \/ ReadBPM(c) \/ ReadBadBPM(c)
    <3>1. \/ Goto(c, "balance") \/ Goto(c, "bpm")
          \/ Goto(c, "ended") \/ Goto(c, "forging")
      BY <2>1 DEF Accept, Register, Leave, NoBalance, ReadBPM, ReadBadBPM
    <3>2. UNCHANGED <<block, chain, temp, picker>>
      BY <2>1 DEF Accept, Register, Leave, NoBalance, ReadBPM, ReadBadBPM, lottery
    <3> QED
      BY <3>1, <3>2, <1>1
  <2> QED
    BY <1>2, <1>3, <1>4, <2>1 DEF Connection
<1>5. ASSUME Collect  PROVE OnceInv'
  <2>1. /\ tempBlocks' = tempBlocks \o inHand /\ inHand' = <<>>
        /\ UNCHANGED <<pc, block, temp, Blockchain, picker>>
    BY <1>5 DEF Collect, lottery
  <2>2. ToSet(tempBlocks \o inHand) = ToSet(tempBlocks) \cup ToSet(inHand)
    BY ConcatRange DEF ChainTypes
  <2>3. ToSet(<<>>) = {}
    BY DEF ToSet
  <2>4. UNCHANGED <<Existing, Forged>>
    BY <2>1, <2>2, <2>3 DEF Existing, Forged, Waiting
  <2>5. Numbered' /\ SentOnce' /\ ForgedOnce' /\ CollectedOnce'
    BY <2>1, <2>3, <2>4 DEF OnceInv, Numbered, SentOnce, ForgedOnce, CollectedOnce
  <2>6. DrawnOnce'
    BY <2>1, <2>2, <2>4 DEF OnceInv, DrawnOnce, CollectedOnce
  <2> QED
    BY <2>5, <2>6 DEF OnceInv
<1>6. ASSUME Snapshot \/ Reset  PROVE OnceInv'
  <2>1. UNCHANGED <<pc, block, inHand, Blockchain>>
    BY <1>6 DEF Snapshot, Reset
  <2>2. \/ picker = "sleep" /\ temp' = tempBlocks /\ tempBlocks' = tempBlocks
        \/ picker' = "sleep" /\ temp' = temp /\ tempBlocks' = <<>>
    BY <1>6 DEF Snapshot, Reset, LeftBlocks, lottery
  <2>3. ToSet(<<>>) = {}
    BY DEF ToSet
  <2>4. Existing' \subseteq Existing /\ UNCHANGED Forged
    BY <2>1, <2>2, <2>3 DEF Existing, Forged, Waiting
  <2>5. Numbered' /\ SentOnce' /\ ForgedOnce'
    BY <2>1, <2>4 DEF OnceInv, Numbered, SentOnce, ForgedOnce
  <2>6. CollectedOnce' /\ DrawnOnce'
    BY <2>1, <2>2, <2>3, <2>4 DEF OnceInv, CollectedOnce, DrawnOnce
  <2> QED
    BY <2>5, <2>6 DEF OnceInv
<1>7. ASSUME NEW winner \in Conns, Draw(winner)  PROVE OnceInv'
  <2>1. PICK i \in DOMAIN temp : Blockchain' = Append(Blockchain, temp[i])
    BY <1>7 DEF Draw
  <2>2. /\ UNCHANGED <<pc, block, inHand, tempBlocks, temp>>
        /\ picker = "weigh" /\ picker' = "announce"
    BY <1>7 DEF Draw, lottery
  <2>3. temp[i] \in Blocks /\ temp[i] \in ToSet(temp)
    BY ElementOfSeq, LenProperties DEF ChainTypes, ToSet
  <2>4. temp[i] \in ToSet(tempBlocks) /\ temp[i] \notin Forged
    BY <2>2, <2>3 DEF OnceInv, DrawnOnce
  <2>5. /\ Forged' = Forged \cup {temp[i]}
        /\ ForgedOnce'
    BY <2>1, <2>3, <2>4, AppendRange DEF ChainTypes, OnceInv, ForgedOnce, Forged
  <2>6. UNCHANGED Existing
    BY <2>2, <2>3, <2>5 DEF Existing, Waiting
  <2>7. Numbered' /\ SentOnce'
    BY <2>2, <2>6 DEF OnceInv, Numbered, SentOnce
  <2>8. CollectedOnce' /\ DrawnOnce'
    BY <2>2, <2>4, <2>5 DEF OnceInv, CollectedOnce, DrawnOnce
  <2> QED
    BY <2>5, <2>7, <2>8 DEF OnceInv
<1>8. ASSUME PickWinner  PROVE OnceInv'
  <2>1. CASE Weigh \/ Panic \/ Announced \/ \E c \in Conns : NextKey(c) \/ Announce(c)
    BY <2>1, OnceInvKept DEF Weigh, Panic, Announced, NextKey, Announce, lottery
  <2> QED
    BY <1>6, <1>7, <1>8, <2>1 DEF PickWinner
<1>9. CASE UNCHANGED vars
  BY <1>9, OnceInvKept DEF vars, lottery
<1>10. ASSUME NEW c \in Conns, Disconnect(c) \/ Written(c)  PROVE OnceInv'
  BY <1>10, OnceInvKept DEF Disconnect, Written, lottery
<1> QED
  BY <1>4, <1>5, <1>8, <1>9, <1>10 DEF Next

\* No block is in the chain twice.
THEOREM BlocksForgedOnce == Spec => []ForgedOnce
<1>1. Init => OnceInv
  <2> SUFFICES ASSUME Init  PROVE OnceInv
    OBVIOUS
  <2>1. ToSet(<<>>) = {} /\ ToSet(<<Genesis>>) = {Genesis} /\ IsInjective(<<Genesis>>)
    BY DEF ToSet, IsInjective
  <2>2. Existing = {Genesis} /\ ToSet(inHand) = {} /\ ToSet(tempBlocks) = {}
    BY <2>1 DEF Init, Existing, Waiting, Forged
  <2>3. Validator(Genesis) \notin Conns
    BY NoOneAssumption DEF Genesis, Validator
  <2> QED
    BY <2>1, <2>2, <2>3 DEF Init, OnceInv, Numbered, SentOnce, CollectedOnce,
                            DrawnOnce, ForgedOnce
<1>2. LinkedInv /\ OnceInv /\ [Next]_vars => (LinkedInv /\ OnceInv)'
  BY LinkedInvStep, OnceInvStep DEF LinkedInv
<1>3. OnceInv => ForgedOnce
  BY DEF OnceInv
<1> QED
  BY <1>1, <1>2, <1>3, LinkedInvInit, PTL DEF Spec

-----------------------------------------------------------------------------
(* Types *)

\* b was made by a connection, and not after the last block it made.
Made(b) == Validator(b) \in Conns /\ Number(b) \in 1 .. Number(block[Validator(b)])

\* So was every block but the first, and every one that may join the chain.
AllMade ==
  /\ \A b \in Waiting : Made(b)
  /\ \A c \in Conns : pc[c] = "sending" => Made(block[c])
  /\ \A i \in 2 .. Len(Blockchain) : Made(Blockchain[i])

PlainTypes ==
  /\ DOMAIN validators \subseteq Conns
  /\ picker \in {"sleep", "weigh", "announce", "reset"}
  /\ Len(inHand) <= 1
  /\ weighed \in 0 .. Len(temp)
  /\ lotteryPool \cup ranged \cup told \cup heard \cup closed \cup writing \subseteq Conns
  /\ ranging \in Conns \cup {NoOne}
  /\ crashed \in BOOLEAN

\* AllMade is TypeOK's, said of each queue.
LEMMA MadeTypes ==
  ASSUME ChainTypes, AllMade, PlainTypes
  PROVE  TypeOK
<1>1. /\ inHand \in Seq(Blocks) /\ tempBlocks \in Seq(Blocks) /\ temp \in Seq(Blocks)
      /\ Blockchain \in Seq(Blocks) /\ Blockchain # <<>>
  BY DEF ChainTypes
<1> DEFINE tail == Tail(Blockchain)
<1>2. /\ tail \in Seq(Blocks)
      /\ Len(tail) = Len(Blockchain) - 1
      /\ \A i \in 1 .. Len(tail) : tail[i] = Blockchain[i + 1]
  BY <1>1, HeadTailProperties
<1> HIDE DEF tail
<1> DEFINE early == inHand \o tempBlocks
           waiting == early \o temp
<1>3. early \in Seq(Blocks) /\ ToSet(early) = ToSet(inHand) \cup ToSet(tempBlocks)
  BY <1>1, ConcatRange, ConcatProperties
<1> HIDE DEF early
<1>4. waiting \in Seq(Blocks) /\ ToSet(waiting) = ToSet(early) \cup ToSet(temp)
  BY <1>1, <1>3, ConcatRange, ConcatProperties
<1> HIDE DEF waiting
<1>5. ToSet(waiting \o tail) = ToSet(waiting) \cup ToSet(tail)
  BY <1>2, <1>4, ConcatRange
<1>6. \A b \in ToSet(tail) : Made(b)
  <2> SUFFICES ASSUME NEW i \in DOMAIN tail  PROVE Made(tail[i])
    BY DEF ToSet
  <2>1. i \in 1 .. Len(tail)
    BY <1>2, LenProperties
  <2>2. Len(Blockchain) \in Nat
    BY <1>1, LenProperties
  <2>3. i + 1 \in 2 .. Len(Blockchain)
    BY <1>2, <2>1, <2>2
  <2> QED
    BY <1>2, <2>1, <2>3 DEF AllMade
<1>7. \A b \in ToSet(waiting \o tail) : Made(b)
  BY <1>3, <1>4, <1>5, <1>6 DEF AllMade, Waiting
<1> QED
  BY <1>7 DEF TypeOK, Made, PlainTypes, ChainTypes, Labels, waiting, early, tail

\* What was made stays made: a connection only makes later blocks.
LEMMA MadeKept ==
  ASSUME UNCHANGED block, NEW b
  PROVE  Made(b) => Made(b)'
BY DEF Made, Validator, Number

\* Steps that make and append no block, and move none into a queue but one sent.
LEMMA AllMadeKept ==
  ASSUME AllMade, UNCHANGED <<block, Blockchain>>,
         \A b \in Waiting' : Made(b),
         \A c \in Conns : pc'[c] = "sending" => pc[c] = "sending"
  PROVE  AllMade'
<1>1. \A b : Made(b) => Made(b)'
  BY MadeKept
<1>2. \A i \in 2 .. Len(Blockchain') : Made(Blockchain'[i])
  BY DEF AllMade
<1>3. \A c \in Conns : pc'[c] = "sending" => Made(block'[c])
  BY DEF AllMade
<1> QED
  BY <1>1, <1>2, <1>3 DEF AllMade

\* Blocks are made by the connections, one after another.
LEMMA AllMadeStep ==
  ASSUME ChainTypes, AllMade, [Next]_vars
  PROVE  AllMade'
<1> USE DEF conns, chain, Labels
<1>1. ASSUME NEW c \in Conns, NEW label \in Labels \ {"sending"}, Goto(c, label),
             UNCHANGED <<block, chain, temp>>
      PROVE  AllMade'
  <2>1. \A d \in Conns : pc'[d] = "sending" => pc[d] = "sending"
    BY <1>1 DEF Goto, ChainTypes
  <2>2. \A b \in Waiting' : Made(b)
    BY <1>1 DEF AllMade, Waiting
  <2> QED
    BY <1>1, <2>1, <2>2, AllMadeKept
<1>2. ASSUME NEW c \in Conns, Forge(c)  PROVE AllMade'
  <2>0. PICK new : new = [id    |-> <<c, Number(block[c]) + 1>>,
                          index |-> Last(Blockchain).index + 1,
                          prev  |-> Last(Blockchain).id]
    OBVIOUS
  <2>1. /\ pc' = [pc EXCEPT ![c] = "sending"] /\ block' = [block EXCEPT ![c] = new]
        /\ UNCHANGED <<inHand, tempBlocks, temp, Blockchain>>
    BY <1>2, <2>0 DEF Forge, Goto, NextIndex, lottery
  <2>2. \A d \in Conns : Number(block[d]) \in Nat
    BY DEF ChainTypes, Blocks, Ids, Number
  <2>3. Validator(new) = c /\ Number(new) = Number(block[c]) + 1
    BY <2>0 DEF Validator, Number
  <2>4. block'[c] = new /\ \A d \in Conns \ {c} : block'[d] = block[d]
    BY <2>1 DEF ChainTypes
  <2>5. ASSUME NEW b, Made(b)  PROVE Made(b)'
    <3>1. /\ Validator(b) \in Conns /\ Number(b) \in 1 .. Number(block[Validator(b)])
      BY <2>5 DEF Made
    <3>2. Number(b) \in 1 .. Number(block'[Validator(b)])
      BY <2>2, <2>3, <2>4, <3>1
    <3> QED
      BY <3>1, <3>2 DEF Made, Validator, Number
  <2>6. Made(new)'
    <3>1. Number(new) \in 1 .. Number(block'[Validator(new)])
      BY <2>2, <2>3, <2>4
    <3> QED
      BY <2>3, <3>1 DEF Made, Validator, Number
  <2>7. ASSUME NEW d \in Conns, pc'[d] = "sending"  PROVE Made(block[d])'
    <3>1. PICK b : b = block'[d] /\ (b = new \/ Made(b))
      BY <2>1, <2>4, <2>7 DEF AllMade, ChainTypes
    <3>2. Made(b)'
      BY <2>5, <2>6, <3>1
    <3> QED
      BY <3>1, <3>2 DEF Made, Validator, Number
  <2>8. \A b \in Waiting' : Made(b)'
    BY <2>1, <2>5 DEF AllMade, Waiting
  <2>9. ASSUME NEW i \in 2 .. Len(Blockchain')  PROVE Made(Blockchain[i])'
    <3>1. PICK b : b = Blockchain'[i] /\ Made(b)
      BY <2>1 DEF AllMade
    <3>2. Made(b)'
      BY <2>5, <3>1
    <3> QED
      BY <3>1, <3>2 DEF Made, Validator, Number
  <2> QED
    BY <2>7, <2>8, <2>9 DEF AllMade
<1>3. ASSUME NEW c \in Conns, Submit(c)  PROVE AllMade'
  <2>1. /\ pc[c] = "sending" /\ pc' = [pc EXCEPT ![c] = "bpm"]
        /\ inHand' = <<block[c]>>
        /\ UNCHANGED <<block, tempBlocks, temp, Blockchain>>
    BY <1>3 DEF Submit, Goto, lottery
  <2>2. ToSet(<<block[c]>>) = {block[c]}
    BY DEF ToSet
  <2>3. \A b \in Waiting' : Made(b)
    BY <2>1, <2>2 DEF AllMade, Waiting
  <2>4. \A d \in Conns : pc'[d] = "sending" => pc[d] = "sending"
    BY <2>1 DEF ChainTypes
  <2> QED
    BY <2>1, <2>3, <2>4, AllMadeKept
<1>4. ASSUME NEW c \in Conns, Connection(c), ~ Disconnect(c)  PROVE AllMade'
  <2>1. CASE \/ Accept(c) \/ Leave(c) \/ NoBalance(c)
             \/ \E balance \in Stakes : Register(c, balance)
             \/ ReadBPM(c) \/ ReadBadBPM(c)
    <3>1. \/ Goto(c, "balance") \/ Goto(c, "bpm")
          \/ Goto(c, "ended") \/ Goto(c, "forging")
      BY <2>1 DEF Accept, Register, Leave, NoBalance, ReadBPM, ReadBadBPM
    <3>2. UNCHANGED <<block, chain, temp>>
      BY <2>1 DEF Accept, Register, Leave, NoBalance, ReadBPM, ReadBadBPM, lottery
    <3> QED
      BY <3>1, <3>2, <1>1
  <2> QED
    BY <1>2, <1>3, <1>4, <2>1 DEF Connection
<1>5. ASSUME UNCHANGED <<pc, block, Blockchain>>, Waiting' \subseteq Waiting  PROVE AllMade'
  <2>1. \A b \in Waiting' : Made(b)
    BY <1>5 DEF AllMade
  <2> QED
    BY <1>5, <2>1, AllMadeKept
<1>6. ASSUME Collect  PROVE AllMade'
  <2>1. /\ tempBlocks' = tempBlocks \o inHand /\ inHand' = <<>>
        /\ UNCHANGED <<pc, block, temp, Blockchain>>
    BY <1>6 DEF Collect, lottery
  <2>2. ToSet(tempBlocks \o inHand) = ToSet(tempBlocks) \cup ToSet(inHand)
    BY ConcatRange DEF ChainTypes
  <2>3. ToSet(<<>>) = {}
    BY DEF ToSet
  <2> QED
    BY <1>5, <2>1, <2>2, <2>3 DEF Waiting
<1>7. ASSUME Snapshot \/ Reset  PROVE AllMade'
  <2>1. UNCHANGED <<pc, block, inHand, Blockchain>>
    BY <1>7 DEF Snapshot, Reset
  <2>2. \/ temp' = tempBlocks /\ tempBlocks' = tempBlocks
        \/ temp' = temp /\ tempBlocks' = <<>>
    BY <1>7 DEF Snapshot, Reset, LeftBlocks, lottery
  <2>3. ToSet(<<>>) = {}
    BY DEF ToSet
  <2> QED
    BY <1>5, <2>1, <2>2, <2>3 DEF Waiting
<1>8. ASSUME NEW winner \in Conns, Draw(winner)  PROVE AllMade'
  <2>1. PICK i \in DOMAIN temp : Blockchain' = Append(Blockchain, temp[i])
    BY <1>8 DEF Draw
  <2>2. UNCHANGED <<pc, block, inHand, tempBlocks, temp>>
    BY <1>8 DEF Draw, lottery
  <2>3. temp[i] \in Blocks /\ temp[i] \in ToSet(temp)
    BY ElementOfSeq, LenProperties DEF ChainTypes, ToSet
  <2>4. /\ Len(Blockchain) \in Nat /\ Len(Blockchain') = Len(Blockchain) + 1
        /\ Blockchain'[Len(Blockchain) + 1] = temp[i]
        /\ \A j \in 1 .. Len(Blockchain) : Blockchain'[j] = Blockchain[j]
    BY <2>1, <2>3, AppendProperties, LenProperties DEF ChainTypes
  <2>5. \A j \in 2 .. Len(Blockchain') : Made(Blockchain'[j])
    <3> SUFFICES ASSUME NEW j \in 2 .. Len(Blockchain')  PROVE Made(Blockchain'[j])
      OBVIOUS
    <3>1. j \in 2 .. Len(Blockchain) \/ j = Len(Blockchain) + 1
      BY <2>4
    <3>2. Made(temp[i])
      BY <2>3 DEF AllMade, Waiting
    <3> QED
      BY <2>4, <3>1, <3>2 DEF AllMade
  <2>6. \A b : Made(b) => Made(b)'
    BY <2>2, MadeKept
  <2>7. /\ \A b \in Waiting' : Made(b)
        /\ \A c \in Conns : pc'[c] = "sending" => Made(block'[c])
    BY <2>2 DEF AllMade, Waiting
  <2> QED
    BY <2>5, <2>6, <2>7 DEF AllMade
<1>9. ASSUME PickWinner  PROVE AllMade'
  <2>1. CASE Weigh \/ Panic \/ Announced \/ \E c \in Conns : NextKey(c) \/ Announce(c)
    BY <1>5, <2>1 DEF Weigh, Panic, Announced, NextKey, Announce, lottery, Waiting
  <2> QED
    BY <1>7, <1>8, <1>9, <2>1 DEF PickWinner
<1>10. CASE UNCHANGED vars
  BY <1>5, <1>10 DEF vars, lottery, Waiting
<1>11. ASSUME NEW c \in Conns, Disconnect(c) \/ Written(c)  PROVE AllMade'
  BY <1>5, <1>11 DEF Disconnect, Written, lottery, Waiting
<1> QED
  BY <1>4, <1>6, <1>9, <1>10, <1>11 DEF Next

\* Everything else has the type it starts with.
LEMMA PlainTypesStep ==
  ASSUME ChainTypes, PlainTypes, [Next]_vars
  PROVE  PlainTypes'
<1> USE DEF conns, chain, lottery, news
<1>1. Len(temp) \in Nat /\ Len(tempBlocks) \in Nat
  BY LenProperties DEF ChainTypes
<1>2. ASSUME NEW c \in Conns, NEW map, SetValidators(c, map)  PROVE crashed' \in BOOLEAN
  BY <1>2 DEF SetValidators
<1>3. ASSUME NEW c \in Conns, Connection(c)  PROVE PlainTypes'
  <2>1. CASE Accept(c) \/ Disconnect(c) \/ Leave(c) \/ NoBalance(c) \/ ReadBPM(c) \/ Forge(c)
    BY <2>1 DEF Accept, Disconnect, Leave, NoBalance, ReadBPM, Forge, PlainTypes
  <2>2. ASSUME NEW balance \in Stakes, Register(c, balance)  PROVE PlainTypes'
    <3>1. PICK map : SetValidators(c, map) /\ DOMAIN map = DOMAIN validators \cup {c}
      BY <2>2 DEF Register
    <3>2. crashed' \in BOOLEAN /\ DOMAIN validators' \subseteq Conns
      BY <1>2, <3>1 DEF SetValidators, PlainTypes
    <3> QED
      BY <2>2, <3>2 DEF Register, PlainTypes
  <2>3. CASE ReadBadBPM(c)
    <3>1. crashed' \in BOOLEAN
      BY <1>2, <2>3 DEF ReadBadBPM
    <3>2. DOMAIN validators' \subseteq Conns
      BY <2>3 DEF ReadBadBPM, SetValidators, PlainTypes
    <3> QED
      BY <2>3, <3>1, <3>2 DEF ReadBadBPM, PlainTypes
  <2>4. CASE Submit(c)
    <3>1. Len(<<block[c]>>) = 1
      OBVIOUS
    <3> QED
      BY <2>4, <3>1 DEF Submit, PlainTypes
  <2> QED
    BY <1>3, <2>1, <2>2, <2>3, <2>4 DEF Connection
<1>4. Len(<<>>) = 0
  OBVIOUS
<1>5. CASE Collect
  BY <1>4, <1>5 DEF Collect, PlainTypes
<1>6. CASE Snapshot
  BY <1>1, <1>6 DEF Snapshot, PlainTypes
<1>7. CASE Weigh
  BY <1>1, <1>7 DEF Weigh, PlainTypes
<1>8. ASSUME NEW winner \in Conns, Draw(winner)  PROVE PlainTypes'
  BY <1>8 DEF Draw, PlainTypes
<1>9. ASSUME NEW c \in Conns, NextKey(c) \/ Announce(c) \/ Written(c)  PROVE PlainTypes'
  BY <1>9 DEF NextKey, Announce, Written, PlainTypes
<1>10. CASE Panic \/ Announced \/ Reset
  BY <1>10 DEF Panic, Announced, Reset, PlainTypes
<1>11. CASE UNCHANGED vars
  BY <1>11 DEF vars, PlainTypes
<1> QED
  BY <1>3, <1>5, <1>6, <1>7, <1>8, <1>9, <1>10, <1>11 DEF Next, PickWinner

\* The types: what the collector, the draw and the chain hold was made by
\* connections of the program, each naming its blocks in the order it made
\* them (handleConn, the collector and pickWinner).
THEOREM PosChainTyped == Spec => []TypeOK
<1> DEFINE TypesInv == LinkedInv /\ AllMade /\ PlainTypes
<1>1. Init => TypesInv
  <2> SUFFICES ASSUME Init  PROVE AllMade /\ PlainTypes
    BY LinkedInvInit
  <2>1. ToSet(<<>>) = {} /\ Len(<<>>) = 0 /\ Len(<<Genesis>>) = 1 /\ DOMAIN <<>> = {}
    BY DEF ToSet
  <2>2. AllMade
    BY <2>1 DEF Init, AllMade, Waiting
  <2>3. PlainTypes
    <3>1. /\ inHand = <<>> /\ temp = <<>> /\ validators = <<>> /\ picker = "sleep" /\ weighed = 0
          /\ lotteryPool = {} /\ ranged = {} /\ told = {} /\ ranging = NoOne /\ heard = {}
          /\ closed = {} /\ writing = {}
      BY DEF Init
    <3>2. crashed \in BOOLEAN
      BY DEF Init
    <3> QED
      BY <2>1, <3>1, <3>2 DEF PlainTypes
  <2> QED
    BY <2>2, <2>3
<1>2. TypesInv /\ [Next]_vars => TypesInv'
  BY LinkedInvStep, AllMadeStep, PlainTypesStep DEF LinkedInv
<1>3. TypesInv => TypeOK
  BY MadeTypes DEF LinkedInv
<1> QED
  BY <1>1, <1>2, <1>3, PTL DEF Spec
=============================================================================
