------------------------------ MODULE Transfer ------------------------------
(***************************************************************************)
(* One statecoin sent from wallet to wallet, or from an address of a       *)
(* wallet to another of the same one: the sender's steps with the state    *)
(* entity, the transfer message that waits at the state entity or is       *)
(* handed over by the user, the receiver's polls and retries, the timer    *)
(* with which the sender waits for the receiver, restarts, and wallets     *)
(* recovered from the state entity.                                        *)
(* The n-th owner holds the n-th key: a coin of a wallet is named by the   *)
(* number of its shared key.  An address receives the coin once.           *)
(***************************************************************************)
EXTENDS Naturals, Sequences, Functions

CONSTANTS
  Wallet,
  Address,      \* proof keys
  Home,         \* Address -> the wallet it belongs to
  First,        \* the address the coin was deposited to
  MaxKey,       \* bound: owners
  MaxRestarts   \* bound: restarts and recoveries of wallets

ASSUME TransferAssumption ==
  /\ Home \in [Address -> Wallet]
  /\ First \in Address
  /\ MaxKey \in Nat \ {0}
  /\ MaxRestarts \in Nat

VARIABLES
  chain,        \* the statechain: the addresses that have owned the coin
  pending,      \* the transfers the state entity is prepared to complete: the last one
  mailbox,      \* transfer messages that wait at the state entity
  given,        \* transfer messages the senders' users were shown
  coin,         \* Wallet -> key number -> status of the coin in memory
  disk,         \* Wallet -> the coins as last saved
  timer,        \* Wallet -> the keys whose owner is polled
  sending,      \* Wallet -> progress of transfer_sender, one at a time
  receiving,    \* Wallet -> key whose coin is still to be finalized, 0 if none
  torn,         \* wallets that lost track of a coin they were sending (history)
  restarts      \* counter for MaxRestarts

vars == <<chain, pending, mailbox, given, coin, disk, timer, sending, receiving,
          torn, restarts>>
entity == <<chain, pending>>
messages == <<mailbox, given>>
history == <<torn, restarts>>

Key == 1..MaxKey
Status == {"none", "AVAILABLE", "SENDING", "IN_TRANSFER"}
TransferMsg == [key : Key, to : Address]
Sending == [at : {"idle", "asked", "posted", "signed"}, key : Key, to : Address]

TypeOK ==
  /\ chain \in Seq(Address) /\ Len(chain) \in Key
  /\ pending \subseteq TransferMsg
  /\ mailbox \subseteq TransferMsg
  /\ given \subseteq TransferMsg
  /\ coin \in [Wallet -> [Key -> Status]]
  /\ disk \in [Wallet -> [Key -> Status]]
  /\ timer \in [Wallet -> SUBSET Key]
  /\ sending \in [Wallet -> Sending]
  /\ receiving \in [Wallet -> Key \cup {0}]
  /\ torn \subseteq Wallet
  /\ restarts \in 0..MaxRestarts

Owned == Len(chain)
Idle == [at |-> "idle", key |-> 1, to |-> First]
NoCoin == [k \in Key |-> "none"]
Msg(s) == [key |-> s.key, to |-> s.to]

Init ==
  /\ chain = <<First>>
  /\ pending = {}
  /\ mailbox = {}
  /\ given = {}
  /\ coin = [w \in Wallet |-> IF w = Home[First] THEN [NoCoin EXCEPT ![1] = "AVAILABLE"]
                                                 ELSE NoCoin]
  /\ disk = coin
  /\ timer = [w \in Wallet |-> {}]
  /\ sending = [w \in Wallet |-> Idle]
  /\ receiving = [w \in Wallet |-> 0]
  /\ torn = {}
  /\ restarts = 0

\* The wallet's list of coins is saved as a whole.
Save(w) == disk' = [disk EXCEPT ![w] = coin'[w]]

----------------------------------------------------------------------------
(* The sender *)

\* transfer_sender takes its lock and checks the coin.
TransferSender(w, k, to) ==
  /\ sending[w].at = "idle"
  /\ coin[w][k] \in {"AVAILABLE", "SENDING"}
  /\ to \notin Range(chain)
  /\ sending' = [sending EXCEPT ![w] = [at |-> "asked", key |-> k, to |-> to]]
  /\ UNCHANGED <<entity, messages, coin, disk, timer, receiving, history>>

\* The state entity still has the coin's proof key as that of the owner, and
\* prepares the transfer; it forgets one it prepared before, and its message.
TransferInit(w) ==
  /\ sending[w].at = "asked"
  /\ sending[w].key = Owned
  /\ sending[w].to \notin Range(chain)
  /\ pending' = {Msg(sending[w])}
  /\ mailbox' = {}
  /\ sending' = [sending EXCEPT ![w].at = "posted"]
  /\ UNCHANGED <<chain, given, coin, disk, timer, receiving, history>>

\* The coin has another owner, or a request fails, before the new backup
\* transaction is signed: transfer_sender throws.
TransferSenderFails(w) ==
  /\ sending[w].at \in {"asked", "posted"}
  /\ sending' = [sending EXCEPT ![w] = Idle]
  /\ UNCHANGED <<entity, messages, coin, disk, timer, receiving, history>>

\* The backup transaction for the receiver is signed; the coin is SENDING in
\* memory and its owner is polled from now on.
TransferSigned(w) ==
  /\ sending[w].at = "posted"
  /\ sending[w].key = Owned
  /\ coin' = [coin EXCEPT ![w][sending[w].key] = "SENDING"]
  /\ timer' = [timer EXCEPT ![w] = @ \cup {sending[w].key}]
  /\ sending' = [sending EXCEPT ![w].at = "signed"]
  /\ UNCHANGED <<entity, messages, disk, receiving, history>>

\* Mutant: a message that could not be left with the state entity is not shown.
TransferUpdateMsgOnly(w) ==
  /\ sending[w].at = "signed"
  /\ \/ /\ mailbox' = mailbox \cup ({Msg(sending[w])} \cap pending)
        /\ given' = given \cup {Msg(sending[w])}
     \/ UNCHANGED messages
  /\ sending' = [sending EXCEPT ![w] = Idle]
  /\ UNCHANGED <<entity, coin, timer, receiving, history>>
  /\ Save(w)

\* transferUpdateMsg leaves the message with the state entity, which takes that of
\* the transfer it prepared, or gives up after ten tries; it is shown to the user
\* in either case, and the coin saved.
TransferUpdateMsg(w) ==
  /\ sending[w].at = "signed"
  /\ mailbox' \in {mailbox, mailbox \cup ({Msg(sending[w])} \cap pending)}
  /\ given' = given \cup {Msg(sending[w])}
  /\ sending' = [sending EXCEPT ![w] = Idle]
  /\ UNCHANGED <<entity, coin, timer, receiving, history>>
  /\ Save(w)

\* Mutant: the coin is marked as withdrawn.
GetOwnerWithdrawn(w, k) ==
  /\ k \in timer[w]
  /\ k # Owned
  /\ timer' = [timer EXCEPT ![w] = @ \ {k}]
  /\ IF coin[w][k] = "AVAILABLE"
     THEN coin' = [coin EXCEPT ![w][k] = "WITHDRAWN"] /\ Save(w)
     ELSE UNCHANGED <<coin, disk>>
  /\ UNCHANGED <<entity, messages, sending, receiving, history>>

\* Mutant: the timer stops and marks nothing.
GetOwnerStops(w, k) ==
  /\ k \in timer[w]
  /\ k # Owned
  /\ timer' = [timer EXCEPT ![w] = @ \ {k}]
  /\ UNCHANGED <<entity, messages, coin, disk, sending, receiving, history>>

\* The timer finds a new owner, stops, and calls setStateCoinSpent, which does
\* nothing to a coin that is SENDING.
GetOwner(w, k) ==
  /\ k \in timer[w]
  /\ k # Owned
  /\ timer' = [timer EXCEPT ![w] = @ \ {k}]
  /\ IF coin[w][k] = "AVAILABLE"
     THEN coin' = [coin EXCEPT ![w][k] = "IN_TRANSFER"] /\ Save(w)
     ELSE UNCHANGED <<coin, disk>>
  /\ UNCHANGED <<entity, messages, sending, receiving, history>>

----------------------------------------------------------------------------
(* The receiver *)

\* Mutant: the message may be for the address of another wallet.
MayReceiveAny(w, m) ==
  /\ receiving[w] = 0
  /\ \A k \in Key : coin[w][k] # "AVAILABLE"

\* getTransferMsg4 refuses a message whose proof key is none of the wallet's; that
\* its backup transaction is valid and confirmed is taken for granted.
MadeToThisWallet(w, m) == Home[m.to] = w

\* A coin of this statechain that is AVAILABLE makes the receiver skip a message.
MayReceive(w, m) ==
  /\ MadeToThisWallet(w, m)
  /\ receiving[w] = 0
  /\ \A k \in Key : coin[w][k] # "AVAILABLE"

\* The sender's coin of a transfer within the wallet is set AVAILABLE, so that
\* its timer can mark it, if the wallet was not closed since.  A wallet that is
\* sending the coin on when it takes its message again gets it back.
SetPreviousAvailable(w, m) ==
  /\ coin' = [coin EXCEPT ![w][m.key] = IF @ = "none" THEN @ ELSE "AVAILABLE"]
  /\ torn' = torn \cup {x \in {w} : \/ coin[x][m.key] # "none" /\ m.key \notin timer[x]
                                  \/ coin[x][m.key + 1] = "SENDING"}

\* The message's signature is that of the owner, and the state entity completes
\* the transfer it prepared last; the answer may be lost.
Complete(w, m) ==
  /\ MayReceive(w, m)
  /\ m.key = Owned
  /\ m \in pending
  /\ Owned < MaxKey
  /\ chain' = Append(chain, m.to)
  /\ pending' = {}
  /\ \/ /\ receiving' = [receiving EXCEPT ![w] = Owned + 1]
        /\ SetPreviousAvailable(w, m)
     \/ UNCHANGED <<receiving, coin, torn>>
  /\ UNCHANGED <<messages, disk, timer, sending, restarts>>

\* Mutant: the link of the statechain is off by one.
CompletedBeforeOffByOne(w, m) ==
  /\ MayReceive(w, m)
  /\ m.key = Owned
  /\ m.to = chain[Owned]
  /\ receiving' = [receiving EXCEPT ![w] = Owned]
  /\ SetPreviousAvailable(w, m)
  /\ UNCHANGED <<entity, messages, disk, timer, sending, restarts>>

\* The transfer was completed before, but not finalized: its key is asked for.
CompletedBefore(w, m) ==
  /\ MayReceive(w, m)
  /\ m.key + 1 = Owned
  /\ m.to = chain[Owned]
  /\ receiving' = [receiving EXCEPT ![w] = Owned]
  /\ SetPreviousAvailable(w, m)
  /\ UNCHANGED <<entity, messages, disk, timer, sending, restarts>>

\* get_transfers polls the address.
GetTransfers(w) == \E m \in mailbox : Complete(w, m) \/ CompletedBefore(w, m)

\* By hand: transfer_receiver takes a message the user was shown.
TransferReceiver(w) == \E m \in given : Complete(w, m) \/ CompletedBefore(w, m)

\* Both parties generate the new shared key and the coin is added; or that fails,
\* and transfer_receiver throws.
TransferReceiverFinalize(w) ==
  /\ receiving[w] # 0
  /\ receiving' = [receiving EXCEPT ![w] = 0]
  /\ coin' = [coin EXCEPT ![w][receiving[w]] = "AVAILABLE"]
  /\ Save(w)
  /\ UNCHANGED <<entity, messages, timer, sending, history>>

TransferReceiverFails(w) ==
  /\ receiving[w] # 0
  /\ receiving' = [receiving EXCEPT ![w] = 0]
  /\ UNCHANGED <<entity, messages, coin, disk, timer, sending, history>>

----------------------------------------------------------------------------
(* Restarts and recovery *)

\* The wallet is sending a coin and has not saved that, or it depends on a timer
\* to mark the coin.
Unsettled(w) ==
  \/ sending[w].at = "signed"
  \/ \E k \in timer[w] : coin[w][k] = "AVAILABLE"

Stop(w) ==
  /\ restarts < MaxRestarts
  /\ restarts' = restarts + 1
  /\ timer' = [timer EXCEPT ![w] = {}]
  /\ sending' = [sending EXCEPT ![w] = Idle]
  /\ receiving' = [receiving EXCEPT ![w] = 0]

\* The wallet is closed and loaded again.
Restart(w) ==
  /\ Stop(w)
  /\ coin' = [coin EXCEPT ![w] = disk[w]]
  /\ torn' = torn \cup {x \in {w} : Unsettled(x)}
  /\ UNCHANGED <<entity, messages, disk>>

\* The state entity tells the coins of a wallet's proof keys.
Recovered(w) ==
  IF Home[chain[Owned]] = w THEN [NoCoin EXCEPT ![Owned] = "AVAILABLE"] ELSE NoCoin

\* The wallet is lost and recovered from its mnemonic.
RecoverCoins(w) ==
  /\ Stop(w)
  /\ coin' = [coin EXCEPT ![w] = Recovered(w)]
  /\ Save(w)
  /\ torn' = torn \cup {x \in {w} : Unsettled(x) \/ \E k \in Key : coin[x][k] = "SENDING"}
  /\ UNCHANGED <<entity, messages>>

----------------------------------------------------------------------------

Next ==
  \E w \in Wallet :
    \/ \E k \in Key, to \in Address : TransferSender(w, k, to)
    \/ TransferInit(w)
    \/ TransferSenderFails(w)
    \/ TransferSigned(w)
    \/ TransferUpdateMsg(w)
    \/ \E k \in Key : GetOwner(w, k)
    \/ GetTransfers(w)
    \/ TransferReceiver(w)
    \/ TransferReceiverFinalize(w)
    \/ TransferReceiverFails(w)
    \/ Restart(w)
    \/ RecoverCoins(w)

Spec == Init /\ [][Next]_vars

\* Timers fire, the wallet polls for transfers when the user asks it to, which
\* is again and again, and what is tried for ever succeeds in the end.
Fairness ==
  \A w \in Wallet :
    /\ \A k \in Key : WF_vars(GetOwner(w, k))
    /\ WF_vars(GetTransfers(w))
    /\ WF_vars(TransferReceiverFinalize(w) \/ TransferReceiverFails(w))
    /\ SF_vars(TransferReceiverFinalize(w))

FairSpec == Spec /\ Fairness
----------------------------------------------------------------------------
(* Properties *)

\* A coin a wallet offers for use has the key the state entity holds, unless its
\* timer is about to mark it, or the wallet was closed or lost amid a send or a
\* transfer to itself, or received again a coin it was sending on.
AvailableIsOwned ==
  \A w \in Wallet \ torn, k \in Key :
     coin[w][k] = "AVAILABLE" => k = Owned \/ k \in timer[w]

\* A coin that is being sent can reach somebody: its message is on its way, and
\* is not lost when it could not be left with the state entity, or the wallet
\* was closed amid the send.
SendingHasMessage ==
  \A w \in Wallet \ torn, k \in Key :
     coin[w][k] = "SENDING" =>
       \/ sending[w].at = "signed" /\ sending[w].key = k
       \/ \E m \in given : m.key = k

\* A wallet holds no coin that was never its own, whoever gets its messages.
CoinsAreMine ==
  \A w \in Wallet, k \in Key :
     {coin[w][k], disk[w][k]} # {"none"} => k =< Owned /\ Home[chain[k]] = w

\* A transfer the state entity completed, and whose message it keeps, gives the
\* receiver the coin in the end, although answers were lost and key generation
\* failed on the way; a wallet that lost track of a send may skip it for ever.
TransferSettles ==
  \A w \in Wallet, k \in Key :
    (/\ Owned = k
     /\ Home[chain[k]] = w
     /\ \E m \in mailbox : m.key + 1 = k /\ m.to = chain[k]) ~>
    (coin[w][k] # "none" \/ Owned > k \/ w \in torn)
=============================================================================
