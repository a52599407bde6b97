-------------------------- MODULE Transfer_proofs --------------------------
(***************************************************************************)
(* Proofs about Transfer, for any number of wallets, addresses, owners,    *)
(* restarts and recoveries: the invariant TransferInv states is inductive, *)
(* and the safety properties of Transfer follow from it.                   *)
(***************************************************************************)
EXTENDS TransferInv, TLAPS

USE TransferAssumption DEF Key

-----------------------------------------------------------------------------
(***************************************************************************)
(* The types.                                                              *)
(***************************************************************************)
\* The statechain grows by one owner.
LEMMA ChainGrows ==
  ASSUME TypeOK, NEW a \in Address, Owned < MaxKey, chain' = Append(chain, a)
  PROVE  /\ chain' \in Seq(Address)
         /\ Owned' = Owned + 1
         /\ Owned' \in Key
         /\ chain'[Owned + 1] = a
         /\ \A k \in 1..Owned : chain'[k] = chain[k]
  BY DEF TypeOK, Owned

\* A coin of a wallet gets a status.
LEMMA CoinSet ==
  ASSUME TypeOK, NEW w \in Wallet, NEW k \in Key, NEW v \in Status,
         coin' = [coin EXCEPT ![w][k] = v]
  PROVE  /\ coin' \in [Wallet -> [Key -> Status]]
         /\ \A x \in Wallet, j \in Key :
               coin'[x][j] = IF x = w /\ j = k THEN v ELSE coin[x][j]
  BY DEF TypeOK

\* The sender's coin of a transfer within the wallet is set AVAILABLE.
LEMMA PreviousSet ==
  ASSUME TypeOK, NEW w \in Wallet, NEW m \in TransferMsg, SetPreviousAvailable(w, m)
  PROVE  /\ coin' \in [Wallet -> [Key -> Status]]
         /\ torn' \subseteq Wallet /\ torn \subseteq torn'
         /\ \A x \in Wallet, j \in Key :
               coin'[x][j] = IF x = w /\ j = m.key /\ coin[x][j] # "none" THEN "AVAILABLE"
                             ELSE coin[x][j]
         /\ coin[w][m.key] # "none" /\ m.key \notin timer[w] => w \in torn'
<1>1. m.key \in Key
  BY DEF TransferMsg
<1> DEFINE v == IF coin[w][m.key] = "none" THEN "none" ELSE "AVAILABLE"
<1>2. v \in Status
  BY DEF Status
<1>3. coin' = [coin EXCEPT ![w][m.key] = v]
  BY DEF SetPreviousAvailable
<1>4. /\ coin' \in [Wallet -> [Key -> Status]]
      /\ \A x \in Wallet, j \in Key :
            coin'[x][j] = IF x = w /\ j = m.key THEN v ELSE coin[x][j]
  <2> HIDE DEF v
  <2> QED  BY <1>1, <1>2, <1>3 DEF TypeOK
<1>5. torn' = torn \cup {x \in {w} : \/ coin[x][m.key] # "none" /\ m.key \notin timer[x]
                                     \/ coin[x][m.key + 1] = "SENDING"}
  BY DEF SetPreviousAvailable
<1>6. torn' \subseteq Wallet /\ torn \subseteq torn'
  BY <1>5 DEF TypeOK
<1>7. coin[w][m.key] # "none" /\ m.key \notin timer[w] => w \in torn'
  BY <1>5
<1>8. \A x \in Wallet, j \in Key :
         coin'[x][j] = IF x = w /\ j = m.key /\ coin[x][j] # "none" THEN "AVAILABLE"
                       ELSE coin[x][j]
  BY <1>4
<1> QED  BY <1>4, <1>6, <1>7, <1>8

\* The coins of a wallet are saved as a whole.
LEMMA Saved ==
  ASSUME TypeOK, NEW w \in Wallet, Save(w), coin' \in [Wallet -> [Key -> Status]]
  PROVE  /\ disk' \in [Wallet -> [Key -> Status]]
         /\ \A x \in Wallet, j \in Key :
               disk'[x][j] = IF x = w THEN coin'[x][j] ELSE disk[x][j]
  BY DEF TypeOK, Save

LEMMA InitType == Init => TypeOK
<1> SUFFICES ASSUME Init PROVE TypeOK
  OBVIOUS
<1>1. chain \in Seq(Address) /\ Len(chain) = 1
  BY DEF Init
<1>2. [NoCoin EXCEPT ![1] = "AVAILABLE"] \in [Key -> Status] /\ NoCoin \in [Key -> Status]
  BY DEF NoCoin, Status
<1>3. coin \in [Wallet -> [Key -> Status]]
  BY <1>2 DEF Init
<1>4. sending \in [Wallet -> Sending]
  BY DEF Init, Idle, Sending
<1> QED  BY <1>1, <1>3, <1>4 DEF Init, TypeOK

\* The sender's steps.
LEMMA SenderType ==
  ASSUME TypeOK, NEW w \in Wallet,
         \/ \E k \in Key, to \in Address : TransferSender(w, k, to)
         \/ TransferInit(w) \/ TransferSenderFails(w) \/ TransferSigned(w)
         \/ TransferUpdateMsg(w) \/ \E k \in Key : GetOwner(w, k)
  PROVE  TypeOK'
<1>1. sending[w] \in Sending /\ Msg(sending[w]) \in TransferMsg /\ Idle \in Sending
  BY DEF TypeOK, Msg, Sending, TransferMsg, Idle
<1>2. ASSUME NEW k \in Key, NEW to \in Address, TransferSender(w, k, to) PROVE TypeOK'
  <2>1. [at |-> "asked", key |-> k, to |-> to] \in Sending
    BY DEF Sending
  <2> QED  BY <1>2, <2>1 DEF TransferSender, TypeOK, entity, messages, history
<1>3. CASE TransferInit(w)
  BY <1>1, <1>3 DEF TransferInit, TypeOK, messages, history, Sending
<1>4. CASE TransferSenderFails(w)
  BY <1>1, <1>4 DEF TransferSenderFails, TypeOK, entity, messages, history
<1>5. CASE TransferSigned(w)
  <2>1. coin' \in [Wallet -> [Key -> Status]]
    BY <1>1, <1>5, CoinSet DEF TransferSigned, Sending, Status
  <2>2. timer' \in [Wallet -> SUBSET Key]
    BY <1>1, <1>5 DEF TransferSigned, TypeOK, Sending
  <2>3. sending' \in [Wallet -> Sending]
    BY <1>1, <1>5 DEF TransferSigned, TypeOK, Sending
  <2> QED  BY <1>5, <2>1, <2>2, <2>3 DEF TransferSigned, TypeOK, entity, messages, history
<1>6. CASE TransferUpdateMsg(w)
  <2>1. disk' \in [Wallet -> [Key -> Status]]
    BY <1>6, Saved DEF TransferUpdateMsg, TypeOK
  <2>2. sending' \in [Wallet -> Sending]
    BY <1>1, <1>6 DEF TransferUpdateMsg, TypeOK
  <2>3. mailbox' \subseteq TransferMsg /\ given' \subseteq TransferMsg
    BY <1>1, <1>6 DEF TransferUpdateMsg, TypeOK
  <2> QED  BY <1>6, <2>1, <2>2, <2>3 DEF TransferUpdateMsg, TypeOK, entity, history
<1>7. ASSUME NEW k \in Key, GetOwner(w, k) PROVE TypeOK'
  <2>1. coin' \in [Wallet -> [Key -> Status]] /\ disk' \in [Wallet -> [Key -> Status]]
    <3>1. CASE coin[w][k] = "AVAILABLE"
      BY <1>7, <3>1, CoinSet, Saved DEF GetOwner, Status
    <3>2. CASE coin[w][k] # "AVAILABLE"
      BY <1>7, <3>2 DEF GetOwner, TypeOK
    <3> QED  BY <3>1, <3>2
  <2>2. timer' \in [Wallet -> SUBSET Key]
    BY <1>7 DEF GetOwner, TypeOK
  <2> QED  BY <1>7, <2>1, <2>2 DEF GetOwner, TypeOK, entity, messages, history
<1> QED  BY <1>2, <1>3, <1>4, <1>5, <1>6, <1>7

\* What the receiver's steps have in common: the transfer is complete, and the
\* wallet goes on to finalize it or was not answered.
LEMMA CompleteType ==
  ASSUME TypeOK, NEW w \in Wallet, NEW m \in TransferMsg,
         Complete(w, m) \/ CompletedBefore(w, m)
  PROVE  TypeOK'
<1>1. CASE Complete(w, m)
  <2>1. chain' \in Seq(Address) /\ Owned' = Owned + 1 /\ Owned' \in Key
    BY <1>1, ChainGrows DEF Complete, TransferMsg
  <2>2. /\ receiving' \in [Wallet -> Key \cup {0}]
        /\ coin' \in [Wallet -> [Key -> Status]] /\ torn' \subseteq Wallet
    <3>1. CASE UNCHANGED <<receiving, coin, torn>>
      BY <3>1 DEF TypeOK
    <3>2. CASE receiving' = [receiving EXCEPT ![w] = Owned + 1] /\ SetPreviousAvailable(w, m)
      BY <2>1, <3>2, PreviousSet DEF TypeOK
    <3> QED  BY <1>1, <3>1, <3>2 DEF Complete
  <2> QED  BY <1>1, <2>1, <2>2 DEF Complete, TypeOK, messages, Owned
<1>2. CASE CompletedBefore(w, m)
  <2>1. Owned \in Key
    BY DEF TypeOK, Owned
  <2>2. coin' \in [Wallet -> [Key -> Status]] /\ torn' \subseteq Wallet
    BY <1>2, PreviousSet DEF CompletedBefore
  <2>3. receiving' \in [Wallet -> Key \cup {0}]
    BY <1>2, <2>1 DEF CompletedBefore, TypeOK
  <2> QED  BY <1>2, <2>2, <2>3 DEF CompletedBefore, TypeOK, entity, messages
<1> QED  BY <1>1, <1>2

\* The receiver's steps, restarts and recoveries.
LEMMA ReceiverType ==
  ASSUME TypeOK, NEW w \in Wallet,
         \/ GetTransfers(w) \/ TransferReceiver(w) \/ TransferReceiverFinalize(w)
         \/ TransferReceiverFails(w) \/ Restart(w) \/ RecoverCoins(w)
  PROVE  TypeOK'
<1>1. CASE GetTransfers(w) \/ TransferReceiver(w)
  <2>1. mailbox \subseteq TransferMsg /\ given \subseteq TransferMsg
    BY DEF TypeOK
  <2> QED  BY <1>1, <2>1, CompleteType DEF GetTransfers, TransferReceiver
<1>2. CASE TransferReceiverFinalize(w)
  <2>1. receiving[w] \in Key
    BY <1>2 DEF TransferReceiverFinalize, TypeOK
  <2>2. coin' \in [Wallet -> [Key -> Status]] /\ disk' \in [Wallet -> [Key -> Status]]
    BY <1>2, <2>1, CoinSet, Saved DEF TransferReceiverFinalize, Status
  <2> QED  BY <1>2, <2>2 DEF TransferReceiverFinalize, TypeOK, entity, messages, history
<1>3. CASE TransferReceiverFails(w)
  BY <1>3 DEF TransferReceiverFails, TypeOK, entity, messages, history
<1>4. CASE Restart(w) \/ RecoverCoins(w)
  <2>1. Idle \in Sending
    BY DEF Idle, Sending
  <2>2. /\ restarts' \in 0..MaxRestarts /\ timer' \in [Wallet -> SUBSET Key]
        /\ sending' \in [Wallet -> Sending] /\ receiving' \in [Wallet -> Key \cup {0}]
    <3>1. Stop(w)
      BY <1>4 DEF Restart, RecoverCoins
    <3>2. restarts' \in 0..MaxRestarts
      BY <3>1 DEF Stop, TypeOK
    <3> QED  BY <2>1, <3>1, <3>2 DEF Stop, TypeOK
  <2>3. torn' \subseteq Wallet
    BY <1>4 DEF Restart, RecoverCoins, TypeOK
  <2>4. CASE Restart(w)
    BY <2>2, <2>3, <2>4 DEF Restart, TypeOK, entity, messages
  <2>5. CASE RecoverCoins(w)
    <3>1. \A k \in Key : NoCoin \in [Key -> Status]
                         /\ [NoCoin EXCEPT ![k] = "AVAILABLE"] \in [Key -> Status]
      BY DEF NoCoin, Status
    <3>2. Owned \in Key
      BY DEF TypeOK, Owned
    <3>3. coin' \in [Wallet -> [Key -> Status]]
      BY <2>5, <3>1, <3>2 DEF RecoverCoins, Recovered, TypeOK
    <3>4. disk' \in [Wallet -> [Key -> Status]]
      BY <2>5, <3>3, Saved DEF RecoverCoins
    <3> QED  BY <2>2, <2>3, <2>5, <3>3, <3>4 DEF RecoverCoins, TypeOK, entity, messages
  <2> QED  BY <1>4, <2>4, <2>5
<1> QED  BY <1>1, <1>2, <1>3, <1>4

LEMMA TypeStep == ASSUME TypeOK, [Next]_vars PROVE TypeOK'
<1>1. CASE UNCHANGED vars
  BY <1>1 DEF vars, TypeOK
<1>2. CASE Next
  BY <1>2, SenderType, ReceiverType DEF Next
<1> QED  BY <1>1, <1>2

-----------------------------------------------------------------------------
(***************************************************************************)
(* The invariant.  Rest is what a step has to keep besides the types.      *)
(***************************************************************************)
Rest == MineInv /\ MessageInv /\ CoinInv /\ TrackInv

\* What the steps need of the types.
LEMMA Fields ==
  ASSUME TypeOK
  PROVE  /\ Owned \in Key
         /\ \A w \in Wallet : /\ sending[w].key \in Key
                               /\ receiving[w] \in Key \cup {0}
                               /\ Home[chain[Owned]] \in Wallet
         /\ \A w \in Wallet, k \in Key : coin[w][k] \in Status /\ disk[w][k] \in Status
<1>1. Owned \in Key /\ Home[chain[Owned]] \in Wallet
  BY DEF TypeOK, Owned
<1>2. \A w \in Wallet : sending[w].key \in Key /\ receiving[w] \in Key \cup {0}
  BY DEF TypeOK, Sending
<1>3. \A w \in Wallet, k \in Key : coin[w][k] \in Status /\ disk[w][k] \in Status
  BY DEF TypeOK
<1> QED  BY <1>1, <1>2, <1>3

LEMMA InitRest == Init => Rest
<1> SUFFICES ASSUME Init PROVE Rest
  OBVIOUS
<1>1. TypeOK
  BY InitType
<1>2. Owned = 1 /\ chain[1] = First
  BY DEF Init, Owned
<1>3. \A w \in Wallet, k \in Key :
         coin[w][k] = IF w = Home[First] /\ k = 1 THEN "AVAILABLE" ELSE "none"
  BY DEF Init, NoCoin
<1>4. disk = coin
  BY DEF Init
<1>5. /\ pending = {} /\ mailbox = {} /\ given = {}
      /\ \A w \in Wallet : receiving[w] = 0 /\ sending[w].at = "idle"
  BY DEF Init, Idle
<1>6. MineInv
  BY <1>2, <1>3, <1>4, <1>5 DEF MineInv, Mine
<1>7. MessageInv
  BY <1>5 DEF MessageInv
<1>8. CoinInv
  BY <1>3, <1>4 DEF CoinInv
<1>9. TrackInv
  BY <1>2, <1>3, <1>4, <1>5 DEF TrackInv, HandedOut, Signed
<1> QED  BY <1>6, <1>7, <1>8, <1>9 DEF Rest

\* The sender takes its lock: the coin is one of its own.
LEMMA SenderRest ==
  ASSUME IInv, NEW w \in Wallet, NEW k \in Key, NEW to \in Address, TransferSender(w, k, to)
  PROVE  Rest'
<1> USE DEF IInv
<1>1. UNCHANGED <<Owned, chain, pending, mailbox, given, coin, disk, timer, receiving, torn>>
  BY DEF TransferSender, entity, messages, history, Owned
<1>2. \A x \in Wallet :
         /\ sending'[x].at = IF x = w THEN "asked" ELSE sending[x].at
         /\ sending'[x].key = IF x = w THEN k ELSE sending[x].key
  BY DEF TransferSender, TypeOK
<1>3. sending[w].at = "idle" /\ coin[w][k] # "none"
  BY DEF TransferSender
<1>4. MineInv'
  BY <1>1, <1>2, <1>3, Fields DEF MineInv, Mine
<1>5. MessageInv'
  BY <1>1, <1>2, <1>3, Fields DEF MessageInv
<1>6. CoinInv'
  BY <1>1, Fields DEF CoinInv
<1>7. TrackInv'
  BY <1>1, <1>2, <1>3, Fields DEF TrackInv, HandedOut, Signed
<1> QED  BY <1>4, <1>5, <1>6, <1>7 DEF Rest

\* The state entity prepares the transfer of the present owner's coin, and no
\* message waits at the state entity any more.
LEMMA InitStepRest ==
  ASSUME IInv, NEW w \in Wallet, TransferInit(w)
  PROVE  Rest'
<1> USE DEF IInv
<1>1. UNCHANGED <<Owned, chain, given, coin, disk, timer, receiving, torn>> /\ mailbox' = {}
  BY DEF TransferInit, messages, history, Owned
<1>2. \A x \in Wallet :
         /\ sending'[x].at = IF x = w THEN "posted" ELSE sending[x].at
         /\ sending'[x].key = sending[x].key
  BY DEF TransferInit, TypeOK, Sending
<1>3. sending[w].at = "asked" /\ sending[w].key = Owned
  BY DEF TransferInit
<1>4. \A m \in pending' : m.key = Owned
  BY <1>3 DEF TransferInit, Msg
<1>5. coin[w][Owned] # "none" /\ Home[chain[Owned]] = w /\ Owned \in Key
  BY <1>3, Fields DEF MineInv, Mine
<1>6. MineInv'
  BY <1>1, <1>2, <1>3, Fields DEF MineInv, Mine
<1>7. MessageInv'
  BY <1>1, <1>4, Fields DEF MessageInv
<1>8. CoinInv'
  BY <1>1, Fields DEF CoinInv
<1>9. TrackInv'
  <2> SUFFICES ASSUME NEW x \in Wallet, x \notin torn, NEW j \in Key
               PROVE  /\ coin[x][j] = "AVAILABLE"
                           => j \in timer[x] \/ (j = Owned /\ ~HandedOut(j) /\ ~(Signed(x, j))')
                      /\ disk[x][j] = "AVAILABLE" => \/ coin[x][j] = "AVAILABLE" /\ j \in timer[x]
                                                     \/ (Signed(x, j))'
                                                     \/ j = Owned /\ ~HandedOut(j)
                      /\ coin[x][j] = "SENDING" \/ disk[x][j] = "SENDING" => HandedOut(j) \/ (Signed(x, j))'
                      /\ receiving[x] = j => /\ j = Owned /\ coin[x][j] = "none"
                                             /\ \A m \in given \cup pending' : m.key # j
                      /\ j = Owned /\ coin[x][j] = "none" /\ Home[chain[j]] = x
                            => \A m \in given \cup pending' : m.key # j
    BY <1>1, Fields DEF TrackInv, HandedOut
  <2>1. (Signed(x, j))' <=> Signed(x, j)
    BY <1>2, <1>3 DEF Signed
  <2>2. receiving[x] = j => x # w
    BY <1>5 DEF TrackInv
  <2>3. receiving[x] = j => Home[chain[j]] = x /\ j = Owned
    BY DEF MineInv, Mine, TrackInv
  <2>4. ~(receiving[x] = j)
    BY <1>5, <2>2, <2>3
  <2>5. j = Owned /\ coin[x][j] = "none" => Home[chain[j]] # x
    BY <1>5
  <2> QED  BY <2>1, <2>4, <2>5 DEF TrackInv
<1> QED  BY <1>6, <1>7, <1>8, <1>9 DEF Rest

\* transfer_sender throws.
LEMMA SenderFailsRest ==
  ASSUME IInv, NEW w \in Wallet, TransferSenderFails(w)
  PROVE  Rest'
<1> USE DEF IInv
<1>1. UNCHANGED <<Owned, chain, pending, mailbox, given, coin, disk, timer, receiving, torn>>
  BY DEF TransferSenderFails, entity, messages, history, Owned
<1>2. \A x \in Wallet :
         /\ x # w => sending'[x] = sending[x]
         /\ sending'[w].at = "idle"
  BY DEF TransferSenderFails, TypeOK, Idle
<1>3. sending[w].at # "signed"
  BY DEF TransferSenderFails
<1>4. MineInv'
  BY <1>1, <1>2, Fields DEF MineInv, Mine
<1>5. MessageInv'
  BY <1>1, <1>2, Fields DEF MessageInv
<1>6. CoinInv'
  BY <1>1, Fields DEF CoinInv
<1>7. TrackInv'
  BY <1>1, <1>2, <1>3, Fields DEF TrackInv, HandedOut, Signed
<1> QED  BY <1>4, <1>5, <1>6, <1>7 DEF Rest

\* The coin is SENDING, and its timer runs.
LEMMA SignedRest ==
  ASSUME IInv, NEW w \in Wallet, TransferSigned(w)
  PROVE  Rest'
<1> USE DEF IInv
<1>1. UNCHANGED <<Owned, chain, pending, mailbox, given, disk, receiving, torn>>
  BY DEF TransferSigned, entity, messages, history, Owned
<1>2. \A x \in Wallet :
         /\ sending'[x].at = IF x = w THEN "signed" ELSE sending[x].at
         /\ sending'[x].key = sending[x].key
  BY DEF TransferSigned, TypeOK, Sending
<1>3. /\ sending[w].at = "posted" /\ sending[w].key = Owned /\ Owned \in Key
      /\ coin[w][Owned] # "none"
  BY Fields DEF TransferSigned, MineInv
<1>4. \A x \in Wallet, j \in Key :
         /\ x = w /\ j = Owned => coin'[x][j] = "SENDING" /\ j \in timer'[x]
         /\ x # w \/ j # Owned => coin'[x][j] = coin[x][j] /\ (j \in timer'[x] <=> j \in timer[x])
  <2>1. coin' = [coin EXCEPT ![w][Owned] = "SENDING"] /\ timer' = [timer EXCEPT ![w] = @ \cup {Owned}]
    BY <1>3 DEF TransferSigned
  <2>2. \A x \in Wallet, j \in Key :
           /\ x = w /\ j = Owned => coin'[x][j] = "SENDING"
           /\ x # w \/ j # Owned => coin'[x][j] = coin[x][j]
    BY <1>3, <2>1 DEF TypeOK
  <2>3. \A x \in Wallet : timer'[x] = IF x = w THEN timer[x] \cup {Owned} ELSE timer[x]
    BY <2>1 DEF TypeOK
  <2> QED  BY <2>2, <2>3
<1>5. MineInv'
  BY <1>1, <1>2, <1>3, <1>4, Fields DEF MineInv, Mine
<1>6. MessageInv'
  BY <1>1, <1>2, <1>3, Fields DEF MessageInv
<1>7. CoinInv'
  BY <1>1, <1>3, <1>4, Fields DEF CoinInv
<1>8. TrackInv'
  BY <1>1, <1>2, <1>3, <1>4, Fields DEF TrackInv, HandedOut, Signed
<1> QED  BY <1>5, <1>6, <1>7, <1>8 DEF Rest

\* The message is handed out, and the coin saved as SENDING.
LEMMA UpdateMsgRest ==
  ASSUME IInv, NEW w \in Wallet, TransferUpdateMsg(w)
  PROVE  Rest'
<1> USE DEF IInv
<1> DEFINE n == Msg(sending[w])
<1>1. UNCHANGED <<Owned, chain, pending, coin, timer, receiving, torn>>
  BY DEF TransferUpdateMsg, entity, history, Owned
<1>2. \A x \in Wallet : /\ x # w => sending'[x] = sending[x]
                        /\ sending'[w].at = "idle"
  BY DEF TransferUpdateMsg, TypeOK, Idle
<1>3. /\ sending[w].at = "signed" /\ n.key = sending[w].key /\ n.key \in Key
      /\ coin[w][n.key] # "none" /\ n.key =< Owned /\ Home[chain[n.key]] = w
  BY Fields DEF TransferUpdateMsg, MineInv, Mine, Msg
<1>4. given' = given \cup {n} /\ mailbox' \in {mailbox, mailbox \cup ({n} \cap pending)}
  BY DEF TransferUpdateMsg
<1>5. \A x \in Wallet, j \in Key : disk'[x][j] = IF x = w THEN coin[x][j] ELSE disk[x][j]
  <2>1. Save(w) /\ coin' = coin /\ coin' \in [Wallet -> [Key -> Status]]
    BY <1>1 DEF TransferUpdateMsg, TypeOK
  <2> QED  BY <2>1, Saved
<1> HIDE DEF n
<1>6. \A k \in Key : (HandedOut(k))' <=> HandedOut(k) \/ k = n.key
  BY <1>4 DEF HandedOut
<1>7. \A k \in Key : Signed(w, k) <=> k = n.key
  BY <1>3 DEF Signed
<1>8. MineInv'
  BY <1>1, <1>2, Fields DEF MineInv, Mine
<1>9. MessageInv'
  <2>1. \A m \in mailbox' : \/ m \in mailbox
                            \/ m = n /\ n \in pending /\ n.key = Owned
    BY <1>4 DEF MessageInv
  <2>2. ASSUME NEW m \in mailbox', NEW g \in given' \cup pending PROVE g.key =< m.key
    <3>1. CASE m \in mailbox
      BY <1>3, <1>4, <2>2, <3>1 DEF MessageInv
    <3>2. CASE m = n /\ n \in pending /\ n.key = Owned
      <4>1. CASE g = n
        BY <1>3, <3>2, <4>1
      <4>2. CASE g # n
        <5>1. g.key =< Owned
          BY <1>4, <2>2, <4>2, Fields DEF MessageInv
        <5> QED  BY <3>2, <5>1
      <4> QED  BY <4>1, <4>2
    <3> QED  BY <2>1, <3>1, <3>2
  <2>3. ASSUME NEW m \in mailbox', NEW x \in Wallet, sending'[x].at \in {"posted", "signed"}
        PROVE  sending'[x].key =< m.key
    <3>1. x # w /\ sending'[x] = sending[x]
      BY <1>2, <2>3
    <3>2. sending[x].key =< Owned
      BY <2>3, <3>1, Fields DEF MineInv, Mine
    <3> QED  BY <2>1, <2>3, <3>1, <3>2 DEF MessageInv
  <2>4. mailbox' \subseteq given' /\ \A m \in given' : m.key =< Owned
    BY <1>3, <1>4 DEF MessageInv
  <2> QED  BY <1>1, <2>2, <2>3, <2>4 DEF MessageInv
<1>10. CoinInv'
  BY <1>1, <1>5, Fields DEF CoinInv
<1>11. TrackInv'
  <2>1. ASSUME NEW x \in Wallet, x \notin torn, NEW j \in Key
        PROVE  /\ (Signed(x, j))' <=> Signed(x, j) /\ x # w
               /\ coin[x][j] # "none" => (j = n.key => x = w)
               /\ receiving[x] = j => j # n.key
    BY <1>2, <1>3, <2>1 DEF Signed, MineInv, Mine, TrackInv
  <2>2. ASSUME NEW x \in Wallet, x \notin torn, NEW j \in Key,
               receiving[x] = j \/ (j = Owned /\ coin[x][j] = "none" /\ Home[chain[j]] = x)
        PROVE  \A m \in given' \cup pending : m.key # j
    BY <1>3, <1>4, <2>1, <2>2 DEF TrackInv
  <2>3. ASSUME NEW x \in Wallet, x \notin torn, NEW j \in Key
        PROVE  /\ coin[x][j] = "AVAILABLE"
                    => j \in timer[x] \/ (j = Owned /\ ~(HandedOut(j))' /\ ~(Signed(x, j))')
               /\ disk'[x][j] = "AVAILABLE" => \/ coin[x][j] = "AVAILABLE" /\ j \in timer[x]
                                               \/ (Signed(x, j))'
                                               \/ j = Owned /\ ~(HandedOut(j))'
               /\ coin[x][j] = "SENDING" \/ disk'[x][j] = "SENDING"
                    => (HandedOut(j))' \/ (Signed(x, j))'
    <3>1. coin[x][j] = "AVAILABLE"
            => j \in timer[x] \/ (j = Owned /\ ~(HandedOut(j))' /\ ~(Signed(x, j))')
      BY <1>6, <1>7, <2>1, <2>3 DEF TrackInv
    <3>2. CASE x = w
      <4>1. disk'[x][j] = coin[x][j]
        BY <1>5, <3>2
      <4>2. coin[x][j] = "SENDING" => HandedOut(j) \/ Signed(x, j)
        BY <2>3 DEF TrackInv
      <4>3. coin[x][j] = "SENDING" => (HandedOut(j))'
        BY <1>6, <1>7, <3>2, <4>2
      <4> QED  BY <3>1, <4>1, <4>3
    <3>3. CASE x # w
      <4>1. disk[x][j] # "none" => j # n.key
        BY <1>3, <2>1, <2>3, <3>3 DEF CoinInv
      <4> QED  BY <1>5, <1>6, <2>1, <2>3, <3>1, <3>3, <4>1 DEF TrackInv
    <3> QED  BY <3>2, <3>3
  <2> QED  BY <1>1, <2>2, <2>3 DEF TrackInv
<1> QED  BY <1>8, <1>9, <1>10, <1>11 DEF Rest

\* The timer marks a coin that is AVAILABLE, and saves it.
LEMMA GetOwnerRest ==
  ASSUME IInv, NEW w \in Wallet, NEW k \in Key, GetOwner(w, k)
  PROVE  Rest'
<1> USE DEF IInv
<1>1. UNCHANGED <<Owned, chain, pending, mailbox, given, sending, receiving, torn>>
  BY DEF GetOwner, entity, messages, history, Owned
<1>2. k # Owned /\ k \in timer[w]
  BY DEF GetOwner
<1>3. \A x \in Wallet, j \in Key :
         j \in timer'[x] <=> j \in timer[x] /\ ~(x = w /\ j = k)
  BY DEF GetOwner, TypeOK
<1>4. CASE coin[w][k] = "AVAILABLE"
  <2>1. coin' = [coin EXCEPT ![w][k] = "IN_TRANSFER"] /\ Save(w)
    BY <1>4 DEF GetOwner
  <2>2. coin' \in [Wallet -> [Key -> Status]]
    BY <2>1, CoinSet DEF Status
  <2>3. \A x \in Wallet, j \in Key :
           /\ x = w /\ j = k => coin'[x][j] = "IN_TRANSFER"
           /\ x # w \/ j # k => coin'[x][j] = coin[x][j]
    BY <2>1 DEF TypeOK
  <2>4. \A x \in Wallet, j \in Key : disk'[x][j] = IF x = w THEN coin'[x][j] ELSE disk[x][j]
    BY <2>1, <2>2, Saved
  <2>5. k < Owned
    BY <1>2, <1>4, Fields DEF MineInv, Mine
  <2>6. MineInv'
    BY <1>1, <1>4, <2>3, Fields DEF MineInv, Mine
  <2>7. MessageInv'
    BY <1>1 DEF MessageInv
  <2>8. CoinInv'
    BY <1>1, <1>4, <2>3, <2>4, <2>5, Fields DEF CoinInv
  <2>9. TrackInv'
    <3>1. \A x \in Wallet, j \in Key : /\ (HandedOut(j))' <=> HandedOut(j)
                                       /\ (Signed(x, j))' <=> Signed(x, j)
      BY <1>1 DEF HandedOut, Signed
    <3> QED  BY <1>1, <1>2, <1>3, <1>4, <2>3, <2>4, <2>5, <3>1, Fields DEF TrackInv
  <2> QED  BY <2>6, <2>7, <2>8, <2>9 DEF Rest
<1>5. CASE coin[w][k] # "AVAILABLE"
  <2>1. UNCHANGED <<coin, disk>>
    BY <1>5 DEF GetOwner
  <2>2. MineInv' /\ CoinInv' /\ MessageInv'
    BY <1>1, <2>1 DEF MineInv, Mine, CoinInv, MessageInv
  <2>3. TrackInv'
    BY <1>1, <1>2, <1>3, <1>5, <2>1, Fields DEF TrackInv, HandedOut, Signed
  <2> QED  BY <2>2, <2>3 DEF Rest
<1> QED  BY <1>4, <1>5

\* What a wallet that goes on to finalize, or lost the answer, does to its coins.
LEMMA Previous ==
  ASSUME TypeOK, NEW w \in Wallet, NEW m \in TransferMsg,
         SetPreviousAvailable(w, m) \/ UNCHANGED <<coin, torn>>
  PROVE  /\ torn \subseteq torn'
         /\ \A x \in Wallet, j \in Key :
               \/ coin'[x][j] = coin[x][j]
               \/ /\ x = w /\ j = m.key
                  /\ coin[x][j] # "none" /\ coin'[x][j] = "AVAILABLE"
                  /\ j \in timer[x] \/ x \in torn'
<1>1. CASE UNCHANGED <<coin, torn>>
  BY <1>1
<1>2. CASE SetPreviousAvailable(w, m)
  BY <1>2, PreviousSet
<1> QED  BY <1>1, <1>2

\* The state entity completes the transfer whose message was handed out.
LEMMA CompleteRest ==
  ASSUME IInv, NEW w \in Wallet, NEW m \in given, Complete(w, m)
  PROVE  Rest'
<1> USE DEF IInv
<1>1. m \in TransferMsg /\ m.key \in Key /\ m.to \in Address
  BY DEF TypeOK, TransferMsg
<1>2. /\ UNCHANGED <<mailbox, given, disk, timer, sending>> /\ pending' = {}
      /\ m.key = Owned /\ Home[m.to] = w
  BY DEF Complete, MadeToThisWallet, MayReceive, messages
<1>3. Owned' = Owned + 1 /\ chain'[Owned + 1] = m.to /\ Owned \in Key /\ Owned' \in Key
      /\ \A k \in 1..Owned : chain'[k] = chain[k]
  BY <1>1, ChainGrows, Fields DEF Complete
<1>4. /\ torn \subseteq torn'
      /\ \A x \in Wallet, j \in Key :
            \/ coin'[x][j] = coin[x][j]
            \/ /\ x = w /\ j = Owned
               /\ coin[x][j] # "none" /\ coin'[x][j] = "AVAILABLE"
               /\ j \in timer[x] \/ x \in torn'
  BY <1>1, <1>2, Previous DEF Complete
<1>5. \A x \in Wallet : receiving'[x] = receiving[x] \/ (x = w /\ receiving'[x] = Owned + 1)
  BY <1>3 DEF Complete, TypeOK
<1>6. \A x \in Wallet, k \in Key : Mine(x, k) => (Mine(x, k))'
  BY <1>3 DEF Mine
<1>7. MineInv'
  <2>1. Owned + 1 =< Owned' /\ Home[chain'[Owned + 1]] = w
    BY <1>2, <1>3
  <2>2. ASSUME NEW x \in Wallet, NEW k \in Key, coin'[x][k] # "none" PROVE (Mine(x, k))'
    BY <1>4, <1>6, <2>2 DEF MineInv
  <2>3. ASSUME NEW x \in Wallet, receiving'[x] # 0
        PROVE  receiving'[x] =< Owned' /\ Home[chain'[receiving'[x]]] = x
    BY <1>5, <1>6, <2>1, <2>3, Fields DEF MineInv, Mine
  <2>4. ASSUME NEW x \in Wallet, sending[x].at # "idle"
        PROVE  coin'[x][sending[x].key] # "none"
    BY <1>4, <2>4, Fields DEF MineInv
  <2> QED  BY <1>2, <2>2, <2>3, <2>4 DEF MineInv, Mine
<1>8. MessageInv'
  <2>1. \A g \in given : g.key =< Owned + 1
    <3> SUFFICES ASSUME NEW g \in given PROVE g.key =< Owned + 1
      OBVIOUS
    <3>1. g.key \in Key /\ g.key =< Owned
      BY DEF MessageInv, TypeOK, TransferMsg
    <3> QED  BY <1>3, <3>1
  <2> QED  BY <1>2, <1>3, <2>1 DEF MessageInv
<1>9. CoinInv'
  <2> SUFFICES ASSUME NEW x \in Wallet, NEW j \in Key
               PROVE  /\ coin'[x][j] = "none" <=> disk[x][j] = "none"
                      /\ coin'[x][j] = "IN_TRANSFER" \/ disk[x][j] = "IN_TRANSFER" => j < Owned + 1
    BY <1>2, <1>3 DEF CoinInv
  <2> QED  BY <1>3, <1>4 DEF CoinInv
<1>10. TrackInv'
  <2> SUFFICES ASSUME NEW x \in Wallet, x \notin torn', NEW j \in Key
               PROVE  /\ coin'[x][j] = "AVAILABLE" => j \in timer[x]
                      /\ disk[x][j] = "AVAILABLE" => \/ coin'[x][j] = "AVAILABLE" /\ j \in timer[x]
                                                     \/ Signed(x, j)
                      /\ coin'[x][j] = "SENDING" \/ disk[x][j] = "SENDING"
                            => HandedOut(j) \/ Signed(x, j)
                      /\ receiving'[x] = j => j = Owned + 1 /\ coin'[x][j] = "none"
                      /\ j = Owned + 1 => \A g \in given : g.key # j
    BY <1>2, <1>3 DEF TrackInv, HandedOut, Signed
  <2>1. HandedOut(Owned) /\ x \notin torn
    BY <1>2, <1>4 DEF HandedOut
  <2>2. j = Owned + 1 => coin[x][j] = "none" /\ \A g \in given : g.key # j
    BY <1>3 DEF MineInv, Mine, MessageInv
  <2>3. receiving'[x] = j => j = Owned + 1
    <3>1. receiving[x] = j => FALSE
      BY <1>2, <2>1 DEF TrackInv
    <3> QED  BY <1>5, <3>1
  <2> QED  BY <1>3, <1>4, <2>1, <2>2, <2>3 DEF TrackInv
<1> QED  BY <1>7, <1>8, <1>9, <1>10 DEF Rest

\* A transfer completed before is taken up again: no message for the next owner
\* is out, and the wallet has no coin with the key it is about to get.
LEMMA CompletedBeforeRest ==
  ASSUME IInv, NEW w \in Wallet, NEW m \in given, CompletedBefore(w, m)
  PROVE  Rest'
<1> USE DEF IInv
<1>1. m \in TransferMsg /\ m.key \in Key /\ Owned \in Key
  BY Fields DEF TypeOK, TransferMsg
<1>2. /\ UNCHANGED <<Owned, chain, pending, mailbox, given, disk, timer, sending>>
      /\ m.key + 1 = Owned /\ Home[chain[Owned]] = w
      /\ \A k \in Key : coin[w][k] # "AVAILABLE"
  BY DEF CompletedBefore, MadeToThisWallet, MayReceive, entity, messages, Owned
<1>3. /\ torn \subseteq torn'
      /\ \A x \in Wallet, j \in Key :
            \/ coin'[x][j] = coin[x][j]
            \/ /\ x = w /\ j = m.key
               /\ coin[x][j] # "none" /\ coin'[x][j] = "AVAILABLE"
               /\ j \in timer[x] \/ x \in torn'
  BY <1>1, Previous DEF CompletedBefore
<1>4. \A x \in Wallet : receiving'[x] = IF x = w THEN Owned ELSE receiving[x]
  BY DEF CompletedBefore, TypeOK
<1>5. MineInv'
  BY <1>1, <1>2, <1>3, <1>4, Fields DEF MineInv, Mine
<1>6. MessageInv'
  BY <1>2 DEF MessageInv
<1>7. CoinInv'
  BY <1>2, <1>3 DEF CoinInv
<1>8. w \notin torn' => coin[w][Owned] = "none"
  <2>1. coin[w][Owned] # "IN_TRANSFER"
    BY <1>1 DEF CoinInv
  <2>2. coin[w][Owned] = "SENDING" => w \in torn'
    BY <1>2 DEF CompletedBefore, SetPreviousAvailable
  <2> QED  BY <1>1, <1>2, <2>1, <2>2, Fields DEF Status
<1>9. TrackInv'
  <2> SUFFICES ASSUME NEW x \in Wallet, x \notin torn', NEW j \in Key
               PROVE  /\ coin'[x][j] = "AVAILABLE"
                           => j \in timer[x] \/ (j = Owned /\ ~HandedOut(j) /\ ~Signed(x, j))
                      /\ disk[x][j] = "AVAILABLE" => \/ coin'[x][j] = "AVAILABLE" /\ j \in timer[x]
                                                     \/ Signed(x, j)
                                                     \/ j = Owned /\ ~HandedOut(j)
                      /\ coin'[x][j] = "SENDING" \/ disk[x][j] = "SENDING"
                           => HandedOut(j) \/ Signed(x, j)
                      /\ receiving'[x] = j => /\ j = Owned /\ coin'[x][j] = "none"
                                              /\ \A g \in given \cup pending : g.key # j
                      /\ j = Owned /\ coin'[x][j] = "none" /\ Home[chain[j]] = x
                           => \A g \in given \cup pending : g.key # j
    BY <1>2 DEF TrackInv, HandedOut, Signed
  <2>1. x \notin torn
    BY <1>3
  <2>2. j = Owned /\ x = w => coin[x][j] = "none" /\ coin'[x][j] = "none"
    BY <1>3, <1>8
  <2>3. j = Owned /\ coin'[x][j] = "none" /\ Home[chain[j]] = x
           => \A g \in given \cup pending : g.key # j
    BY <1>3, <2>1 DEF TrackInv
  <2>4. receiving'[x] = j => /\ j = Owned /\ coin'[x][j] = "none"
                            /\ \A g \in given \cup pending : g.key # j
    <3>1. CASE x = w
      BY <1>2, <1>4, <2>2, <2>3, <3>1
    <3>2. CASE x # w
      BY <1>3, <1>4, <2>1, <3>2 DEF TrackInv
    <3> QED  BY <3>1, <3>2
  <2> QED  BY <1>3, <2>1, <2>3, <2>4 DEF TrackInv
<1> QED  BY <1>5, <1>6, <1>7, <1>9 DEF Rest

\* The coin received is AVAILABLE and saved.
LEMMA FinalizeRest ==
  ASSUME IInv, NEW w \in Wallet, TransferReceiverFinalize(w)
  PROVE  Rest'
<1> USE DEF IInv
<1> DEFINE r == receiving[w]
<1>1. /\ UNCHANGED <<Owned, chain, pending, mailbox, given, timer, sending, torn>>
      /\ r \in Key /\ r # 0
  BY Fields DEF TransferReceiverFinalize, entity, messages, history, Owned
<1>2. \A x \in Wallet : receiving'[x] = IF x = w THEN 0 ELSE receiving[x]
  BY DEF TransferReceiverFinalize, TypeOK
<1>3. coin' = [coin EXCEPT ![w][r] = "AVAILABLE"] /\ Save(w)
  BY DEF TransferReceiverFinalize
<1> HIDE DEF r
<1>4. coin' \in [Wallet -> [Key -> Status]]
  BY <1>1, <1>3, CoinSet DEF Status
<1>5. \A x \in Wallet, j \in Key :
         /\ x = w /\ j = r => coin'[x][j] = "AVAILABLE"
         /\ x # w \/ j # r => coin'[x][j] = coin[x][j]
  BY <1>1, <1>3 DEF TypeOK
<1>6. \A x \in Wallet, j \in Key :
         /\ x = w => disk'[x][j] = coin'[x][j]
         /\ x # w => disk'[x][j] = disk[x][j]
  BY <1>3, <1>4, Saved
<1>7. Mine(w, r)
  BY <1>1 DEF MineInv, r
<1>8. MineInv'
  BY <1>1, <1>2, <1>5, <1>7, Fields DEF MineInv, Mine
<1>9. MessageInv'
  BY <1>1 DEF MessageInv
<1>10. CoinInv'
  BY <1>1, <1>5, <1>6, Fields DEF CoinInv
<1>11. TrackInv'
  <2>1. w \notin torn => /\ r = Owned /\ ~HandedOut(r) /\ ~Signed(w, r)
                         /\ coin[w][r] = "none"
    BY <1>1 DEF TrackInv, MineInv, HandedOut, Signed, r
  <2>2. \A x \in Wallet, j \in Key : /\ (HandedOut(j))' <=> HandedOut(j)
                                     /\ (Signed(x, j))' <=> Signed(x, j)
    BY <1>1 DEF HandedOut, Signed
  <2>3. ASSUME NEW x \in Wallet, x \notin torn, NEW j \in Key
        PROVE  /\ receiving'[x] = j => receiving[x] = j /\ x # w
               /\ coin'[x][j] = "none" => coin[x][j] = "none"
    BY <1>2, <1>5, <2>3
  <2> QED  BY <1>1, <1>5, <1>6, <2>1, <2>2, <2>3 DEF TrackInv
<1> QED  BY <1>8, <1>9, <1>10, <1>11 DEF Rest

\* transfer_receiver throws.
LEMMA ReceiverFailsRest ==
  ASSUME IInv, NEW w \in Wallet, TransferReceiverFails(w)
  PROVE  Rest'
<1> USE DEF IInv
<1>1. UNCHANGED <<Owned, chain, pending, mailbox, given, coin, disk, timer, sending, torn>>
  BY DEF TransferReceiverFails, entity, messages, history, Owned
<1>2. \A x \in Wallet : receiving'[x] = IF x = w THEN 0 ELSE receiving[x]
  BY DEF TransferReceiverFails, TypeOK
<1>3. MineInv' /\ MessageInv' /\ CoinInv'
  BY <1>1, <1>2 DEF MineInv, Mine, MessageInv, CoinInv
<1>4. TrackInv'
  BY <1>1, <1>2 DEF TrackInv, HandedOut, Signed
<1> QED  BY <1>3, <1>4 DEF Rest

\* A wallet that is closed or lost forgets what it was doing.
Forgets(w) ==
  \A x \in Wallet :
    /\ x # w => /\ timer'[x] = timer[x] /\ sending'[x] = sending[x]
                /\ receiving'[x] = receiving[x]
    /\ x = w => timer'[x] = {} /\ sending'[x].at = "idle" /\ receiving'[x] = 0

LEMMA Stopped == ASSUME TypeOK, NEW w \in Wallet, Stop(w) PROVE Forgets(w)
  BY DEF Stop, TypeOK, Idle, Forgets

\* Closed and loaded again, it has the coins it saved.
LEMMA RestartRest ==
  ASSUME IInv, NEW w \in Wallet, Restart(w)
  PROVE  Rest'
<1> USE DEF IInv
<1>1. UNCHANGED <<Owned, chain, pending, mailbox, given, disk>> /\ Forgets(w)
  BY Stopped DEF Restart, entity, messages, Owned
<1>2. torn \subseteq torn' /\ (Unsettled(w) => w \in torn')
  BY DEF Restart
<1>3. \A x \in Wallet, j \in Key : coin'[x][j] = IF x = w THEN disk[x][j] ELSE coin[x][j]
  BY DEF Restart, TypeOK
<1>4. MineInv'
  BY <1>1, <1>3, Fields DEF MineInv, Mine, CoinInv, Forgets
<1>5. MessageInv'
  BY <1>1 DEF MessageInv, Forgets
<1>6. CoinInv'
  BY <1>1, <1>3 DEF CoinInv
<1>7. TrackInv'
  <2> SUFFICES ASSUME NEW x \in Wallet, x \notin torn', NEW j \in Key
               PROVE  /\ coin'[x][j] = "AVAILABLE"
                           => j \in timer'[x] \/ (j = Owned /\ ~HandedOut(j) /\ ~(Signed(x, j))')
                      /\ disk[x][j] = "AVAILABLE" => \/ coin'[x][j] = "AVAILABLE" /\ j \in timer'[x]
                                                     \/ (Signed(x, j))'
                                                     \/ j = Owned /\ ~HandedOut(j)
                      /\ coin'[x][j] = "SENDING" \/ disk[x][j] = "SENDING"
                           => HandedOut(j) \/ (Signed(x, j))'
                      /\ receiving'[x] = j => /\ j = Owned /\ coin'[x][j] = "none"
                                              /\ \A g \in given \cup pending : g.key # j
                      /\ j = Owned /\ coin'[x][j] = "none" /\ Home[chain[j]] = x
                           => \A g \in given \cup pending : g.key # j
    BY <1>1 DEF TrackInv, HandedOut
  <2>1. CASE x # w
    BY <1>2, <1>3, <2>1, <1>1 DEF TrackInv, Signed, Forgets
  <2>2. CASE x = w
    <3>1. ~Unsettled(w) /\ w \notin torn
      BY <1>2, <2>2
    <3>2. ~Signed(w, j) /\ ~(Signed(w, j))' /\ receiving'[w] = 0
      BY <1>1, <3>1 DEF Signed, Unsettled, Forgets
    <3>3. coin'[w][j] = disk[w][j] /\ (disk[w][j] = "none" => coin[w][j] = "none")
      BY <1>3 DEF CoinInv
    <3>4. disk[w][j] = "AVAILABLE" => j = Owned /\ ~HandedOut(j)
      BY <3>1, <3>2 DEF TrackInv, Unsettled
    <3> QED  BY <2>2, <3>1, <3>2, <3>3, <3>4 DEF TrackInv
  <2> QED  BY <2>1, <2>2
<1> QED  BY <1>4, <1>5, <1>6, <1>7 DEF Rest

\* Recovered, it has the coin the state entity says is its own.
LEMMA RecoverRest ==
  ASSUME IInv, NEW w \in Wallet, RecoverCoins(w)
  PROVE  Rest'
<1> USE DEF IInv
<1>1. UNCHANGED <<Owned, chain, pending, mailbox, given>> /\ Forgets(w) /\ Owned \in Key
  BY Stopped, Fields DEF RecoverCoins, entity, messages, Owned
<1>2. /\ torn \subseteq torn'
      /\ Unsettled(w) \/ (\E k \in Key : coin[w][k] = "SENDING") => w \in torn'
  BY DEF RecoverCoins
<1> DEFINE Found(j) == j = Owned /\ Home[chain[Owned]] = w
<1>3. \A j \in Key : coin'[w][j] = IF Found(j) THEN "AVAILABLE" ELSE "none"
  BY <1>1 DEF RecoverCoins, Recovered, TypeOK, NoCoin
<1>4. \A x \in Wallet, j \in Key : x # w => coin'[x][j] = coin[x][j]
  BY DEF RecoverCoins, TypeOK
<1>5. \A x \in Wallet, j \in Key :
         /\ x = w => disk'[x][j] = coin'[x][j]
         /\ x # w => disk'[x][j] = disk[x][j]
  BY DEF RecoverCoins, Save, TypeOK
<1>6. MineInv'
  BY <1>1, <1>3, <1>4, Fields DEF MineInv, Mine, Forgets
<1>7. MessageInv'
  BY <1>1 DEF MessageInv, Forgets
<1>8. CoinInv'
  BY <1>1, <1>3, <1>4, <1>5 DEF CoinInv
<1>9. TrackInv'
  <2> SUFFICES ASSUME NEW x \in Wallet, x \notin torn', NEW j \in Key
               PROVE  /\ coin'[x][j] = "AVAILABLE"
                           => j \in timer'[x] \/ (j = Owned /\ ~HandedOut(j) /\ ~(Signed(x, j))')
                      /\ disk'[x][j] = "AVAILABLE" => \/ coin'[x][j] = "AVAILABLE" /\ j \in timer'[x]
                                                      \/ (Signed(x, j))'
                                                      \/ j = Owned /\ ~HandedOut(j)
                      /\ coin'[x][j] = "SENDING" \/ disk'[x][j] = "SENDING"
                           => HandedOut(j) \/ (Signed(x, j))'
                      /\ receiving'[x] = j => /\ j = Owned /\ coin'[x][j] = "none"
                                              /\ \A g \in given \cup pending : g.key # j
                      /\ j = Owned /\ coin'[x][j] = "none" /\ Home[chain[j]] = x
                           => \A g \in given \cup pending : g.key # j
    BY <1>1 DEF TrackInv, HandedOut
  <2>1. CASE x # w
    BY <1>1, <1>2, <1>4, <1>5, <2>1 DEF TrackInv, Signed, Forgets
  <2>2. CASE x = w
    <3>1. ~Unsettled(w) /\ w \notin torn /\ coin[w][j] # "SENDING"
      BY <1>2, <2>2
    <3>2. ~(Signed(w, j))' /\ receiving'[w] = 0
      BY <1>1 DEF Signed, Forgets
    <3>3. Found(j) => ~HandedOut(j)
      <4>1. CASE coin[w][j] = "none"
        BY <3>1, <4>1 DEF TrackInv, HandedOut
      <4>2. CASE coin[w][j] = "AVAILABLE"
        BY <3>1, <4>2 DEF TrackInv, Unsettled
      <4>3. CASE coin[w][j] = "IN_TRANSFER"
        BY <1>1, <4>3 DEF CoinInv
      <4> QED  BY <3>1, <4>1, <4>2, <4>3, Fields DEF Status
    <3> QED  BY <1>3, <1>5, <2>2, <3>2, <3>3
  <2> QED  BY <2>1, <2>2
<1> QED  BY <1>6, <1>7, <1>8, <1>9 DEF Rest

LEMMA RestStep == ASSUME IInv, [Next]_vars PROVE Rest'
<1>1. TypeOK
  BY DEF IInv
<1>2. CASE UNCHANGED vars
  <2>1. Rest
    BY DEF IInv, Rest
  <2> QED  BY <1>2, <2>1 DEF vars, Rest, MineInv, Mine, MessageInv, CoinInv, TrackInv, HandedOut,
                             Signed, Owned
<1>3. CASE Next
  <2>1. PICK w \in Wallet :
          \/ \E k \in Key, to \in Address : TransferSender(w, k, to)
          \/ TransferInit(w) \/ TransferSenderFails(w) \/ TransferSigned(w)
          \/ TransferUpdateMsg(w) \/ \E k \in Key : GetOwner(w, k)
          \/ GetTransfers(w) \/ TransferReceiver(w) \/ TransferReceiverFinalize(w)
          \/ TransferReceiverFails(w) \/ Restart(w) \/ RecoverCoins(w)
    BY <1>3 DEF Next
  <2>2. CASE GetTransfers(w) \/ TransferReceiver(w)
    <3>1. mailbox \subseteq given
      BY DEF IInv, MessageInv
    <3>2. \E m \in given : Complete(w, m) \/ CompletedBefore(w, m)
      BY <2>2, <3>1 DEF GetTransfers, TransferReceiver
    <3> QED  BY <3>2, CompleteRest, CompletedBeforeRest
  <2> QED  BY <2>1, <2>2, SenderRest, InitStepRest, SenderFailsRest, SignedRest, UpdateMsgRest,
              GetOwnerRest, FinalizeRest, ReceiverFailsRest, RestartRest, RecoverRest
<1> QED  BY <1>2, <1>3

-----------------------------------------------------------------------------
(***************************************************************************)
(* The theorems.                                                           *)
(***************************************************************************)
THEOREM Invariance == Spec => []IInv
<1>1. Init => IInv
  BY InitType, InitRest DEF IInv, Rest
<1>2. IInv /\ [Next]_vars => IInv'
  BY TypeStep, RestStep DEF IInv, Rest
<1> QED  BY <1>1, <1>2, PTL DEF Spec

\* The variables keep their types.
THEOREM TransferTyping == Spec => []TypeOK
<1>1. IInv => TypeOK
  BY DEF IInv
<1> QED  BY <1>1, Invariance, PTL

\* A coin a wallet offers has the key the state entity holds, or its timer is about
\* to mark it, unless the wallet lost track of a send.
THEOREM OfferedIsOwned == Spec => []AvailableIsOwned
<1>1. IInv => AvailableIsOwned
  BY DEF IInv, TrackInv, AvailableIsOwned
<1> QED  BY <1>1, Invariance, PTL

\* A coin that is being sent has its message on the way, or handed out.
THEOREM SentHasMessage == Spec => []SendingHasMessage
<1>1. IInv => SendingHasMessage
  BY DEF IInv, TrackInv, SendingHasMessage, HandedOut, Signed
<1> QED  BY <1>1, Invariance, PTL

\* A wallet never holds a coin of another wallet's addresses.
THEOREM OnlyMyCoins == Spec => []CoinsAreMine
<1>1. IInv => CoinsAreMine
  <2> SUFFICES ASSUME IInv, NEW w \in Wallet, NEW k \in Key,
                      {coin[w][k], disk[w][k]} # {"none"}
               PROVE  k =< Owned /\ Home[chain[k]] = w
    BY DEF CoinsAreMine
  <2>1. coin[w][k] # "none"
    <3>1. coin[w][k] # "none" \/ disk[w][k] # "none"
      OBVIOUS
    <3> QED  BY <3>1 DEF IInv, CoinInv
  <2> QED  BY <2>1 DEF IInv, MineInv, Mine
<1> QED  BY <1>1, Invariance, PTL

=============================================================================
