------------------------------ MODULE Deposit ------------------------------
(***************************************************************************)
(* One coin from the request for a deposit address until it is AVAILABLE:  *)
(* the block explorer that is polled for the transactions paying the       *)
(* address, the calls of depositConfirm that make the backup transaction,  *)
(* the display updates that drive both, replacements of the funding        *)
(* transaction, second deposits to the address, and restarts.              *)
(* Amounts, fees, proofs and addresses are abstracted; every transaction   *)
(* of Tx pays the coin's address the amount that was asked for.            *)
(***************************************************************************)
EXTENDS Naturals, Sequences, FiniteSets, SequencesExt

CONSTANTS
  Tx,           \* transactions that may pay the deposit address
  NoTx,         \* the empty funding_txid, or tx_backup = null
  Query,        \* listunspent requests that may be in flight at once
  Call,         \* calls of depositConfirm that may be in flight at once
  Required,     \* config.required_confirmations
  MaxHeight,    \* bound: height of the chain
  MaxReconnects \* bound: restarts of the wallet or of its electrum client

ASSUME DepositAssumption ==
  /\ NoTx \notin Tx
  /\ Required \in Nat \ {0}
  /\ MaxHeight \in Nat
  /\ MaxReconnects \in Nat

VARIABLES
  chain,        \* Tx -> where the transaction is, and in which block
  height,       \* height of the chain
  coin,         \* the coin in memory
  disk,         \* the coin as last saved
  dups,         \* outpoints of "-R" coins, in memory
  block_height, \* what the wallet knows of height
  connected,    \* how far initElectrumClient came: not run, failed, or "up"
  subscribed,   \* the polling interval of the coin's script is set
  query,        \* Query -> outputs of an answer still to be handled, the next first
  multi,        \* outputs in the answer checkMultipleDeposits waits for
  call,         \* Call -> progress of a call of depositConfirm
  reconnects    \* counter for MaxReconnects

vars == <<chain, height, coin, disk, dups, block_height, connected, subscribed,
          query, multi, call, reconnects>>
server == <<chain, height>>
client == <<block_height, connected, subscribed>>

Status == {"NONE", "INITIALISED", "IN_MEMPOOL", "UNCONFIRMED", "AVAILABLE",
           "DUPLICATE", "REMOVED"}
Coin == [status : Status, funding : Tx \cup {NoTx}, block : 0..MaxHeight,
         backup : Tx \cup {NoTx}, backup_confirm : BOOLEAN]
Output == [tx : Tx, height : 0..MaxHeight]

\* A call is idle, waits for fees and lock time, or signs a backup of a transaction.
Progress == {"idle", "init"} \cup Tx

TypeOK ==
  /\ chain \in [Tx -> [at : {"none", "mempool", "mined", "replaced"}, height : 0..MaxHeight]]
  /\ height \in 0..MaxHeight
  /\ coin \in Coin
  /\ disk \in Coin
  /\ dups \subseteq Tx
  /\ block_height \in 0..MaxHeight
  /\ connected \in {"down", "failed", "up"}
  /\ subscribed \in BOOLEAN
  /\ query \in [Query -> Seq(Output)]
  /\ multi \subseteq Tx
  /\ call \in [Call -> Progress]
  /\ reconnects \in 0..MaxReconnects

NewCoin == [status |-> "NONE", funding |-> NoTx, block |-> 0, backup |-> NoTx,
            backup_confirm |-> FALSE]

Init ==
  /\ chain = [t \in Tx |-> [at |-> "none", height |-> 0]]
  /\ height = 0
  /\ coin = NewCoin
  /\ disk = NewCoin
  /\ dups = {}
  /\ block_height = 0
  /\ connected = "up"
  /\ subscribed = FALSE
  /\ query = [q \in Query |-> << >>]
  /\ multi = {}
  /\ call = [k \in Call |-> "idle"]
  /\ reconnects = 0

----------------------------------------------------------------------------
(* The chain and the block explorer *)

Paying == {t \in Tx : chain[t].at \in {"mempool", "mined"}}

\* Somebody pays the address, which is known from the deposit on.
Pay(t) ==
  /\ coin.status # "NONE"
  /\ chain[t].at = "none"
  /\ chain' = [chain EXCEPT ![t].at = "mempool"]
  /\ UNCHANGED <<height, coin, disk, dups, client, query, multi, call, reconnects>>

\* The payer replaces the transaction by one with a higher fee.
Replace(t, u) ==
  /\ chain[t].at = "mempool"
  /\ chain[u].at = "none"
  /\ chain' = [chain EXCEPT ![t].at = "replaced", ![u].at = "mempool"]
  /\ UNCHANGED <<height, coin, disk, dups, client, query, multi, call, reconnects>>

\* A block is found; heights count from the deposit, and a transaction is mined
\* only as long as the bound leaves room for its confirmations.
Block(mined) ==
  /\ coin.status # "NONE"
  /\ height < MaxHeight
  /\ mined # {} => height + Required =< MaxHeight
  /\ \A t \in mined : chain[t].at = "mempool"
  /\ height' = height + 1
  /\ chain' = [t \in Tx |-> IF t \in mined THEN [at |-> "mined", height |-> height + 1]
                                           ELSE chain[t]]
  /\ UNCHANGED <<coin, disk, dups, client, query, multi, call, reconnects>>

\* The unspent outputs of the address, in any order; no height in the mempool.
Unspent == {[i \in DOMAIN s |-> [tx |-> s[i], height |-> chain[s[i]].height]] :
              s \in SetToSeqs(Paying)}

----------------------------------------------------------------------------
(* The wallet's block explorer client *)

\* The wallet learns the height of the chain.
SetBlockHeight ==
  /\ block_height # height
  /\ block_height' = height
  /\ UNCHANGED <<server, coin, disk, dups, connected, subscribed, query, multi, call, reconnects>>

Asked(q) ==
  /\ query[q] = << >>
  /\ \E s \in Unspent : query' = [query EXCEPT ![q] = s]

\* The interval finds the address used and asks for its outputs.
GetScriptHashStatus(q) ==
  /\ subscribed
  /\ Paying # {}
  /\ Asked(q)
  /\ UNCHANGED <<server, coin, disk, dups, client, multi, call, reconnects>>

\* The coins that were not confirmed yet are looked up; an answer may be lost.
LookUp ==
  \/ /\ coin.status \in {"INITIALISED", "IN_MEMPOOL"}
     /\ Paying # {}
     /\ \E q \in Query : Asked(q)
  \/ UNCHANGED query

\* Mutant: the coins are looked up once and not polled.
InitElectrumClientLooksOnce ==
  /\ connected = "down"
  /\ connected' = "up"
  /\ subscribed' = FALSE
  /\ LookUp
  /\ UNCHANGED <<server, coin, disk, dups, block_height, multi, call, reconnects>>

\* Set up the client, and ask for the fees: then coins not seen yet are polled,
\* and those in the mempool are looked up once.
InitElectrumClient ==
  /\ connected = "down"
  /\ connected' = "up"
  /\ subscribed' = (coin.status = "INITIALISED")
  /\ LookUp
  /\ UNCHANGED <<server, coin, disk, dups, block_height, multi, call, reconnects>>

\* The request for the fees fails, which is only logged: nothing is polled or
\* looked up, and nothing asks again.
InitElectrumClientFails ==
  /\ connected = "down"
  /\ connected' = "failed"
  /\ UNCHANGED <<server, coin, disk, dups, block_height, subscribed, query, multi, call, reconnects>>

\* The explorer does not answer pings; a new client is made. Answers to the old
\* one may still arrive.
PingElectrumRestart ==
  /\ connected # "down"
  /\ reconnects < MaxReconnects
  /\ reconnects' = reconnects + 1
  /\ connected' = "down"
  /\ subscribed' = FALSE
  /\ UNCHANGED <<server, coin, disk, dups, block_height, query, multi, call>>

----------------------------------------------------------------------------
(* The wallet *)

DepositInit ==
  /\ coin.status = "NONE"
  /\ connected # "down"
  /\ coin' = [coin EXCEPT !.status = "INITIALISED"]
  /\ disk' = coin'
  /\ subscribed' = TRUE
  /\ UNCHANGED <<server, dups, block_height, connected, query, multi, call, reconnects>>

\* The user deletes a deposit that shows no payment; its interval goes on.
RemoveStatecoin ==
  /\ coin.status = "INITIALISED"
  /\ coin' = [coin EXCEPT !.status = "REMOVED"]
  /\ disk' = coin'
  /\ UNCHANGED <<server, dups, client, query, multi, call, reconnects>>

\* A backup made for another transaction than the one now seen is dropped.
DropReplaced(c, t) ==
  IF c.backup_confirm /\ c.funding # t
  THEN [c EXCEPT !.backup = NoTx, !.backup_confirm = FALSE]
  ELSE c

\* Mutant: the name of the backup status is taken for the one of the coin.
SetCoinBackupInMempool(c, t) == [c EXCEPT !.status = "In mempool", !.funding = t]

SetCoinInMempool(c, t) == [c EXCEPT !.status = "IN_MEMPOOL", !.funding = t]

SetCoinUnconfirmed(c, out) ==
  [c EXCEPT !.status = "UNCONFIRMED", !.block = out.height,
            !.funding = IF @ = NoTx THEN out.tx ELSE @]

\* checkFundingTxListUnspent for the next output of an answer; the coin is saved
\* before the one after it is handled. An output in the mempool is saved only
\* when it is news, and one in a block ends the polling.
CheckFundingTxListUnspent(q) ==
  /\ query[q] # << >>
  /\ coin.status \notin {"NONE", "REMOVED"}
  /\ LET out == Head(query[q])
         c == DropReplaced(coin, out.tx)
     IN \/ /\ out.height = 0
           /\ coin' = SetCoinInMempool(c, out.tx)
           /\ disk' = IF c.status # "IN_MEMPOOL" \/ c.funding # out.tx THEN coin' ELSE disk
           /\ UNCHANGED subscribed
        \/ /\ out.height # 0
           /\ coin' = SetCoinUnconfirmed(c, out)
           /\ disk' = coin'
           /\ subscribed' = FALSE
  /\ query' = [query EXCEPT ![q] = Tail(@)]
  /\ UNCHANGED <<server, dups, block_height, connected, multi, call, reconnects>>

\* Handling throws, because the coin was removed. (A lost answer is one that was
\* never asked for: the interval asks again.)
ListUnspentFails(q) ==
  /\ query[q] # << >>
  /\ coin.status = "REMOVED"
  /\ query' = [query EXCEPT ![q] = << >>]
  /\ UNCHANGED <<server, coin, disk, dups, client, multi, call, reconnects>>

\* Mutant: one confirmation too few.
ConfirmedEarly(c) == c.status = "UNCONFIRMED" /\ block_height + 2 >= Required + c.block

Confirmed(c) == c.status = "UNCONFIRMED" /\ block_height + 1 >= Required + c.block

\* checkUnconfirmedCoinsStatus for a coin that has its backup. The branch for
\* coins in the mempool reads a promise that was not awaited and does nothing.
SetConfirmed(c) == IF Confirmed(c) /\ c.backup # NoTx THEN [c EXCEPT !.status = "AVAILABLE"] ELSE c

\* A number of calls of depositConfirm begins, as far as Call bounds them; it throws
\* at once for an INITIALISED or AVAILABLE coin, which no caller here has.
DepositConfirms(n) ==
  LET idle == {k \in Call : call[k] = "idle"}
  IN \E new \in SUBSET idle :
     /\ Cardinality(new) = n \/ (Cardinality(new) < n /\ new = idle)
     /\ call' = [k \in Call |-> IF k \in new THEN "init" ELSE call[k]]

\* checkUnconfirmedCoinsStatus, which the list of coins runs with every update
\* of its display, on its own or after checkReceivedTxStatus.
GetDisplayData(received) ==
  LET begins == received /\ coin.status \in {"UNCONFIRMED", "IN_MEMPOOL"} /\ coin.backup = NoTx
      c == IF begins THEN [coin EXCEPT !.backup_confirm = TRUE] ELSE coin
      again == Confirmed(c) /\ c.backup = NoTx
  IN /\ begins \/ Confirmed(c)
     /\ DepositConfirms(IF begins /\ again THEN 2 ELSE IF begins \/ again THEN 1 ELSE 0)
     /\ coin' = SetConfirmed(c)
     /\ disk' = IF coin'.status # c.status THEN coin' ELSE disk
     /\ UNCHANGED <<server, dups, client, query, multi, reconnects>>

GetUnconfirmedStatecoinsDisplayData == GetDisplayData(FALSE)
GetUnconfirmedAndUnminedCoinsFundingTxData == GetDisplayData(TRUE)

\* depositConfirm after its fee and lock time requests: the backup transaction
\* is built for the funding transaction the coin has now.
BuildBackup(k) ==
  /\ call[k] = "init"
  /\ coin.funding # NoTx
  /\ call' = [call EXCEPT ![k] = coin.funding]
  /\ UNCHANGED <<server, coin, disk, dups, client, query, multi, reconnects>>

\* It is signed, the state entity has confirmed, and the coin is completed.
DepositConfirmed(k) ==
  /\ call[k] \in Tx
  /\ coin' = [coin EXCEPT !.backup = call[k]]
  /\ disk' = coin'
  /\ call' = [call EXCEPT ![k] = "idle"]
  /\ UNCHANGED <<server, dups, client, query, multi, reconnects>>

\* One of its requests fails, before or after the transaction was built.
DepositConfirmFails(k) ==
  /\ call[k] \in Tx
  /\ call' = [call EXCEPT ![k] = "idle"]
  /\ UNCHANGED <<server, coin, disk, dups, client, query, multi, reconnects>>

\* The user looks for further deposits to the address of a completed coin.
AskMultipleDeposits ==
  /\ coin.status = "AVAILABLE"
  /\ coin.backup # NoTx
  /\ multi = {}
  /\ multi' = Paying
  /\ UNCHANGED <<server, coin, disk, dups, client, query, call, reconnects>>

\* An output that no coin has becomes a coin of its own; when it is the only one,
\* the coin is taken to be paid by it. That change is not saved.
CheckMultipleDeposits ==
  /\ multi # {}
  /\ LET new == multi \ (dups \cup {coin.funding})
     IN \/ /\ Cardinality(multi) = 1
           /\ \E t \in new : coin' = [coin EXCEPT !.funding = t, !.status = "DUPLICATE"]
           /\ UNCHANGED dups
        \/ /\ Cardinality(multi) = 1 => new = {}
           /\ dups' = dups \cup new
           /\ UNCHANGED coin
  /\ multi' = {}
  /\ UNCHANGED <<server, disk, client, query, call, reconnects>>

\* The process stops and the wallet is loaded from its file. A coin without a
\* backup no longer counts as being confirmed.
Restart ==
  /\ reconnects < MaxReconnects
  /\ reconnects' = reconnects + 1
  /\ coin' = [disk EXCEPT !.backup_confirm = @ /\ disk.backup # NoTx]
  /\ query' = [q \in Query |-> << >>]
  /\ multi' = {}
  /\ call' = [k \in Call |-> "idle"]
  /\ connected' = "down"
  /\ subscribed' = FALSE
  /\ UNCHANGED <<server, disk, dups, block_height>>

----------------------------------------------------------------------------

Chain ==
  \/ \E t \in Tx : Pay(t)
  \/ \E t, u \in Tx : Replace(t, u)
  \/ \E mined \in SUBSET Tx : Block(mined)

Client ==
  \/ SetBlockHeight
  \/ \E q \in Query : GetScriptHashStatus(q)
  \/ InitElectrumClient
  \/ InitElectrumClientFails
  \/ PingElectrumRestart

Wallet ==
  \/ DepositInit
  \/ RemoveStatecoin
  \/ \E q \in Query : CheckFundingTxListUnspent(q) \/ ListUnspentFails(q)
  \/ GetUnconfirmedStatecoinsDisplayData
  \/ GetUnconfirmedAndUnminedCoinsFundingTxData
  \/ \E k \in Call : BuildBackup(k) \/ DepositConfirmed(k) \/ DepositConfirmFails(k)
  \/ AskMultipleDeposits
  \/ CheckMultipleDeposits
  \/ Restart

Next == Chain \/ Client \/ Wallet

Spec == Init /\ [][Next]_vars

\* Timers fire, blocks are found with the transactions that wait for them, and
\* a request that is repeated for ever is in the end answered.
Fairness ==
  /\ WF_vars(SetBlockHeight)
  /\ WF_vars(InitElectrumClient \/ InitElectrumClientFails)
  /\ WF_vars(\E q \in Query : GetScriptHashStatus(q))
  /\ WF_vars(Block({}))
  /\ WF_vars(GetUnconfirmedAndUnminedCoinsFundingTxData)
  /\ \A q \in Query : WF_vars(CheckFundingTxListUnspent(q))
  /\ WF_vars(\E k \in Call : BuildBackup(k))
  /\ SF_vars(\E k \in Call : DepositConfirmed(k))

FairSpec == Spec /\ Fairness
----------------------------------------------------------------------------
(* Properties *)

ConfirmedOnChain(t) ==
  chain[t].at = "mined" /\ height + 1 >= Required + chain[t].height

\* A coin offered as AVAILABLE, now or after a reload, has a backup transaction,
\* and a payment to its address has the required confirmations, whatever answers
\* were late, repeated or lost.
AvailableIsConfirmed ==
  \A c \in {coin, disk} :
     c.status = "AVAILABLE" => /\ c.backup # NoTx
                               /\ \E t \in Tx : ConfirmedOnChain(t)

\* Waiting for the next set-up of the client: nothing looks at the coin any more,
\* because it is only polled until it is seen, or because the set-up failed.
WaitsForReconnect ==
  /\ \/ coin.status = "IN_MEMPOOL"
     \/ coin.status = "INITIALISED" /\ connected = "failed"
  /\ connected # "down" /\ ~subscribed
  /\ \A q \in Query : query[q] = << >>

\* A deposit that was mined is in the end AVAILABLE, also after a late answer has
\* taken it back, unless its user removed it or it waits for the next set-up of
\* the client.
DepositSettles ==
  (\E t \in Tx : chain[t].at = "mined") ~>
     coin.status \in {"AVAILABLE", "DUPLICATE", "REMOVED"} \/ WaitsForReconnect
=============================================================================
