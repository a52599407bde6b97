---------------------------- MODULE Deposit_proofs ----------------------------
(***************************************************************************)
(* Proofs about Deposit, for any number of transactions, requests, calls   *)
(* of depositConfirm, blocks and restarts: the types, and that a coin      *)
(* offered as AVAILABLE is paid and backed up.                             *)
(***************************************************************************)
EXTENDS Deposit, TLAPS, FiniteSetTheorems

MinedAt(t, h) == chain[t].at = "mined" /\ chain[t].height = h

(* Only finitely many transactions pay the address, so that an answer is a *)
(* sequence; a transaction that is not in a block has no height.           *)
ChainInv ==
    /\ IsFiniteSet(Paying)
    /\ \A t \in Tx : chain[t].at # "mined" => chain[t].height = 0

(* An output with a height was mined at it, however old the answer is.     *)
OutputKnown(out) == out.height # 0 => MinedAt(out.tx, out.height)

QueryInv == \A q \in Query : \A i \in DOMAIN query[q] : OutputKnown(query[q][i])

(* The wallet is not ahead of the chain, and an UNCONFIRMED coin, in       *)
(* memory or saved, counts from a block that holds a payment.              *)
Paid(c) == c.status = "UNCONFIRMED" => \E t \in Tx : MinedAt(t, c.block)

Offered(c) ==
    c.status = "AVAILABLE" => c.backup # NoTx /\ \E t \in Tx : ConfirmedOnChain(t)

PaidInv ==
    /\ block_height =< height
    /\ Paid(coin) /\ Paid(disk)
    /\ Offered(coin) /\ Offered(disk)

Inv == TypeOK /\ ChainInv /\ QueryInv /\ PaidInv

USE DepositAssumption

----------------------------------------------------------------------------
(* One output of an answer *)

LEMMA CoinType ==
    ASSUME NEW c \in Coin
    PROVE  /\ c.status \in Status /\ c.funding \in Tx \cup {NoTx} /\ c.block \in 0..MaxHeight
           /\ c.backup \in Tx \cup {NoTx} /\ c.backup_confirm \in BOOLEAN
BY DEF Coin

LEMMA DropReplacedType ==
    ASSUME NEW c \in Coin, NEW t \in Tx
    PROVE  DropReplaced(c, t) \in Coin /\ DropReplaced(c, t).block = c.block
BY DEF DropReplaced, Coin

LEMMA InMempool ==
    ASSUME NEW c \in Coin, NEW t \in Tx
    PROVE  SetCoinInMempool(c, t) \in Coin /\ SetCoinInMempool(c, t).status = "IN_MEMPOOL"
BY DEF SetCoinInMempool, Coin, Status

LEMMA Unconfirmed ==
    ASSUME NEW c \in Coin, NEW out \in Output
    PROVE  /\ SetCoinUnconfirmed(c, out) \in Coin
           /\ SetCoinUnconfirmed(c, out).status = "UNCONFIRMED"
           /\ SetCoinUnconfirmed(c, out).block = out.height
BY DEF SetCoinUnconfirmed, Coin, Status, Output

(* The coin that is left when an output has been handled: seen in the      *)
(* mempool, and saved or not, or seen mined, with its height, and saved.   *)
LEMMA AnswerHandled ==
    ASSUME Inv, NEW q \in Query, CheckFundingTxListUnspent(q)
    PROVE  /\ coin' \in Coin /\ disk' \in Coin /\ subscribed' \in BOOLEAN
           /\ Paid(coin') /\ Paid(disk') /\ Offered(coin') /\ Offered(disk')
<1> DEFINE out == Head(query[q])
           c == DropReplaced(coin, out.tx)
<1>1. query[q] \in Seq(Output) /\ query[q] # << >> /\ coin \in Coin /\ disk \in Coin
  BY DEF Inv, TypeOK, CheckFundingTxListUnspent
<1>2. out \in Output /\ OutputKnown(out)
  <2>1. Len(query[q]) >= 1 /\ 1 \in DOMAIN query[q] /\ out = query[q][1]
    BY <1>1
  <2> QED BY <1>1, <2>1 DEF Inv, QueryInv
<1> HIDE DEF out
<1>3. out.tx \in Tx /\ out.height \in 0..MaxHeight
  BY <1>2 DEF Output
<1>4. c \in Coin
  BY <1>1, <1>3, DropReplacedType
<1>5. CASE out.height = 0
  <2>1. SetCoinInMempool(c, out.tx) \in Coin /\ SetCoinInMempool(c, out.tx).status = "IN_MEMPOOL"
    BY <1>3, <1>4, InMempool
  <2>2. /\ coin' = SetCoinInMempool(c, out.tx) /\ disk' \in {coin', disk}
        /\ subscribed' = subscribed
    BY <1>5 DEF CheckFundingTxListUnspent, out
  <2>3. Paid(disk) /\ Offered(disk) /\ subscribed \in BOOLEAN
    BY DEF Inv, TypeOK, PaidInv
  <2> QED BY <1>1, <2>1, <2>2, <2>3 DEF Paid, Offered
<1>6. CASE out.height # 0
  <2>1. /\ SetCoinUnconfirmed(c, out) \in Coin
        /\ SetCoinUnconfirmed(c, out).status = "UNCONFIRMED"
        /\ SetCoinUnconfirmed(c, out).block = out.height
    BY <1>2, <1>4, Unconfirmed
  <2>2. coin' = SetCoinUnconfirmed(c, out) /\ disk' = coin' /\ subscribed' = FALSE
    BY <1>6 DEF CheckFundingTxListUnspent, out
  <2>3. MinedAt(out.tx, out.height)
    BY <1>2, <1>6 DEF OutputKnown
  <2> QED BY <1>3, <2>1, <2>2, <2>3 DEF Paid, Offered
<1> QED BY <1>5, <1>6

----------------------------------------------------------------------------
(* The chain and the answers of the explorer *)

(* What is mined stays where it is.                                        *)
ChainGrows ==
    /\ height' \in Nat /\ height =< height'
    /\ \A t \in Tx : chain[t].at = "mined" => chain'[t] = chain[t]

LEMMA MinedStays ==
    ASSUME Inv, ChainGrows
    PROVE  /\ \A t \in Tx : ConfirmedOnChain(t) => ConfirmedOnChain(t)'
           /\ \A t \in Tx, h \in Nat : MinedAt(t, h) => MinedAt(t, h)'
BY DEF Inv, TypeOK, ChainGrows, ConfirmedOnChain, MinedAt

LEMMA AnswerType ==
    ASSUME Inv, NEW s \in Unspent
    PROVE  /\ s \in Seq(Output)
           /\ \A i \in DOMAIN s : OutputKnown(s[i])
<1> DEFINE n == Cardinality(Paying)
<1>1. n \in Nat
  BY FS_CardinalityType DEF Inv, ChainInv
<1>2. PICK f \in [1..n -> Paying] : s = [i \in DOMAIN f |-> [tx |-> f[i], height |-> chain[f[i]].height]]
  BY DEF Unspent, SetToSeqs
<1> HIDE DEF n
<1>3. ASSUME NEW i \in 1..n
      PROVE  /\ f[i] \in Tx /\ chain[f[i]].height \in 0..MaxHeight
             /\ chain[f[i]].height # 0 => chain[f[i]].at = "mined"
  BY <1>2 DEF Inv, TypeOK, ChainInv, Paying
<1>4. s \in [1..n -> Output]
  BY <1>2, <1>3 DEF Output
<1>5. \A i \in 1..n : OutputKnown(s[i])
  BY <1>2, <1>3 DEF OutputKnown, MinedAt
<1> QED BY <1>1, <1>4, <1>5

(* Answers that are asked for, handled or lost.                            *)
LEMMA QueriesKept ==
    ASSUME Inv, ChainGrows,
           \/ query' = query
           \/ query' = [p \in Query |-> << >>]
           \/ \E q \in Query, s \in Unspent \cup {<< >>} : query' = [query EXCEPT ![q] = s]
           \/ \E q \in Query : query[q] # << >> /\ query' = [query EXCEPT ![q] = Tail(@)]
    PROVE  query' \in [Query -> Seq(Output)] /\ QueryInv'
<1>1. ASSUME NEW out \in Output, OutputKnown(out) PROVE OutputKnown(out)'
  BY <1>1, MinedStays DEF OutputKnown, Output
<1>2. ASSUME NEW q \in Query
      PROVE  query'[q] \in Seq(Output) /\ \A i \in DOMAIN query'[q] : OutputKnown(query'[q][i])
  <2>1. query[q] \in Seq(Output) /\ \A i \in DOMAIN query[q] : OutputKnown(query[q][i])
    BY DEF Inv, TypeOK, QueryInv
  <2>2. << >> \in Seq(Output) /\ DOMAIN << >> = {}
    OBVIOUS
  <2>3. \/ query'[q] = query[q] \/ query'[q] = << >> \/ query'[q] \in Unspent
        \/ query[q] # << >> /\ query'[q] = Tail(query[q])
    BY DEF Inv, TypeOK
  <2>4. CASE query[q] # << >> /\ query'[q] = Tail(query[q])
    <3>1. /\ Tail(query[q]) \in Seq(Output)
          /\ \A i \in DOMAIN Tail(query[q]) :
                i + 1 \in DOMAIN query[q] /\ Tail(query[q])[i] = query[q][i + 1]
      BY <2>1, <2>4
    <3> QED BY <2>1, <2>4, <3>1
  <2> QED BY <2>1, <2>2, <2>3, <2>4, AnswerType
<1>3. query' \in [Query -> Seq(Output)]
  <2>1. DOMAIN query' = Query /\ query' = [q \in Query |-> query'[q]]
    BY DEF Inv, TypeOK
  <2> QED BY <1>2, <2>1
<1>4. QueryInv'
  <2> SUFFICES ASSUME NEW q \in Query, NEW i \in DOMAIN query'[q] PROVE OutputKnown(query[q][i])'
    BY DEF QueryInv
  <2>1. query'[q][i] \in Output /\ OutputKnown(query'[q][i])
    BY <1>2
  <2> QED BY <1>1, <2>1 DEF OutputKnown, MinedAt
<1> QED BY <1>3, <1>4

LEMMA ServerKept ==
    ASSUME Inv, UNCHANGED server
    PROVE  ChainGrows /\ ChainInv'
BY DEF Inv, TypeOK, server, ChainGrows, ChainInv, Paying

(* The coins of a step: they are UNCONFIRMED or AVAILABLE for a reason.    *)
LEMMA CoinsKept ==
    ASSUME Inv, ChainGrows, block_height' \in {block_height, height},
           Paid(coin'), Paid(disk'), Offered(coin'), Offered(disk'),
           coin' \in Coin, disk' \in Coin
    PROVE  PaidInv'
<1>1. ASSUME NEW c \in Coin, Paid(c), Offered(c) PROVE Paid(c)' /\ Offered(c)'
  BY <1>1, MinedStays DEF Paid, Offered, Coin
<1>2. block_height' =< height'
  BY DEF Inv, TypeOK, PaidInv, ChainGrows
<1> QED BY <1>1, <1>2 DEF PaidInv

----------------------------------------------------------------------------
(* The steps *)

LEMMA ChainStep ==
    ASSUME Inv, Chain
    PROVE  Inv'
<1>1. ASSUME UNCHANGED <<coin, disk, dups, client, query, multi, call, reconnects>>,
             chain' \in [Tx -> [at : {"none", "mempool", "mined", "replaced"}, height : 0..MaxHeight]],
             height' \in 0..MaxHeight, ChainGrows, IsFiniteSet(Paying'),
             \A t \in Tx : chain'[t].at # "mined" => chain'[t].height = 0
      PROVE  Inv'
  <2>1. TypeOK'
    BY <1>1 DEF Inv, TypeOK, client
  <2>2. ChainInv'
    BY <1>1 DEF ChainInv
  <2>3. QueryInv'
    BY <1>1, QueriesKept
  <2>4. PaidInv'
    BY <1>1, CoinsKept DEF Inv, TypeOK, PaidInv, client
  <2> QED BY <2>1, <2>2, <2>3, <2>4 DEF Inv
<1>2. ASSUME NEW t \in Tx, Pay(t) PROVE Inv'
  <2>1. Paying' \subseteq Paying \cup {t}
    BY <1>2 DEF Pay, Paying, Inv, TypeOK
  <2>3. IsFiniteSet(Paying')
    BY <2>1, FS_AddElement, FS_Subset DEF Inv, ChainInv
  <2>2. /\ chain' \in [Tx -> [at : {"none", "mempool", "mined", "replaced"}, height : 0..MaxHeight]]
        /\ height' \in 0..MaxHeight /\ ChainGrows
        /\ \A u \in Tx : chain'[u].at # "mined" => chain'[u].height = 0
    BY <1>2 DEF Pay, Inv, TypeOK, ChainInv, ChainGrows
  <2> QED BY <1>1, <1>2, <2>2, <2>3 DEF Pay
<1>3. ASSUME NEW t \in Tx, NEW u \in Tx, Replace(t, u) PROVE Inv'
  <2>1. Paying' \subseteq Paying \cup {u} /\ IsFiniteSet(Paying \cup {u})
    BY <1>3, FS_AddElement DEF Replace, Paying, Inv, TypeOK, ChainInv
  <2>2. IsFiniteSet(Paying')
    BY <2>1, FS_Subset
  <2>3. /\ chain' \in [Tx -> [at : {"none", "mempool", "mined", "replaced"}, height : 0..MaxHeight]]
        /\ height' \in 0..MaxHeight /\ ChainGrows
        /\ \A v \in Tx : chain'[v].at # "mined" => chain'[v].height = 0
    <3>1. /\ t # u
          /\ chain' = [chain EXCEPT ![t].at = "replaced", ![u].at = "mempool"]
          /\ chain[t].at = "mempool" /\ chain[u].at = "none"
      BY <1>3 DEF Replace
    <3>2. ASSUME NEW v \in Tx
          PROVE  /\ chain'[v].height = chain[v].height
                 /\ chain'[v].at = IF v = t THEN "replaced" ELSE IF v = u THEN "mempool" ELSE chain[v].at
                 /\ chain'[v] \in [at : {"none", "mempool", "mined", "replaced"}, height : 0..MaxHeight]
                 /\ v \notin {t, u} => chain'[v] = chain[v]
      BY <3>1 DEF Inv, TypeOK
    <3>3. chain' \in [Tx -> [at : {"none", "mempool", "mined", "replaced"}, height : 0..MaxHeight]]
      BY <3>1, <3>2 DEF Inv, TypeOK
    <3>4. ChainGrows
      BY <1>3, <3>1, <3>2 DEF Replace, ChainGrows, Inv, TypeOK
    <3>5. \A v \in Tx : chain'[v].at # "mined" => chain'[v].height = 0
      BY <3>1, <3>2 DEF Inv, ChainInv
    <3>6. height' \in 0..MaxHeight
      BY <1>3 DEF Replace, Inv, TypeOK
    <3> QED BY <3>3, <3>4, <3>5, <3>6
  <2> QED BY <1>1, <1>3, <2>2, <2>3 DEF Replace
<1>4. ASSUME NEW mined \in SUBSET Tx, Block(mined) PROVE Inv'
  <2>1. Paying' = Paying /\ IsFiniteSet(Paying)
    BY <1>4 DEF Block, Paying, Inv, TypeOK, ChainInv
  <2>2. height + 1 \in 0..MaxHeight /\ height' = height + 1
    BY <1>4 DEF Block, Inv, TypeOK
  <2>3. chain' \in [Tx -> [at : {"none", "mempool", "mined", "replaced"}, height : 0..MaxHeight]]
    BY <1>4, <2>2 DEF Block, Inv, TypeOK
  <2>4. ChainGrows /\ \A t \in Tx : chain'[t].at # "mined" => chain'[t].height = 0
    BY <1>4, <2>2 DEF Block, Inv, TypeOK, ChainInv, ChainGrows
  <2> QED BY <1>1, <1>4, <2>1, <2>2, <2>3, <2>4 DEF Block
<1> QED BY <1>2, <1>3, <1>4 DEF Chain

(* A step of the wallet or of its client.                                  *)
LEMMA Steps ==
    ASSUME Inv, UNCHANGED server,
           block_height' \in {block_height, height}, connected' \in {"down", "failed", "up"}, subscribed' \in BOOLEAN,
           dups' \subseteq Tx, multi' \subseteq Tx, call' \in [Call -> Progress],
           reconnects' \in 0..MaxReconnects,
           \/ query' = query
           \/ query' = [p \in Query |-> << >>]
           \/ \E q \in Query, s \in Unspent \cup {<< >>} : query' = [query EXCEPT ![q] = s]
           \/ \E q \in Query : query[q] # << >> /\ query' = [query EXCEPT ![q] = Tail(@)],
           Paid(coin'), Paid(disk'), Offered(coin'), Offered(disk'),
           coin' \in Coin, disk' \in Coin
    PROVE  Inv'
<1>1. ChainGrows /\ ChainInv'
  BY ServerKept
<1>2. query' \in [Query -> Seq(Output)] /\ QueryInv'
  BY <1>1, QueriesKept
<1>3. PaidInv'
  BY <1>1, CoinsKept
<1>4. TypeOK'
  <2>1. block_height' \in 0..MaxHeight
    BY DEF Inv, TypeOK
  <2> QED BY <1>2, <2>1 DEF Inv, TypeOK, server
<1> QED BY <1>1, <1>2, <1>3, <1>4 DEF Inv

(* What is known of the coins and counters before a step.                  *)
LEMMA Before ==
    ASSUME Inv
    PROVE  /\ coin \in Coin /\ disk \in Coin /\ dups \subseteq Tx /\ multi \subseteq Tx
           /\ Paid(coin) /\ Paid(disk) /\ Offered(coin) /\ Offered(disk)
           /\ call \in [Call -> Progress] /\ reconnects \in 0..MaxReconnects
           /\ connected \in {"down", "failed", "up"} /\ subscribed \in BOOLEAN
           /\ block_height \in Nat /\ height \in Nat
BY DEF Inv, TypeOK, PaidInv

LEMMA ClientStep ==
    ASSUME Inv, Client
    PROVE  Inv'
<1>1. CASE SetBlockHeight
  BY <1>1, Before, Steps DEF SetBlockHeight
<1>2. ASSUME NEW q \in Query, GetScriptHashStatus(q) PROVE Inv'
  BY <1>2, Before, Steps DEF GetScriptHashStatus, Asked, client
<1>3. CASE InitElectrumClient
  <2>1. subscribed' \in BOOLEAN /\ connected' \in {"down", "failed", "up"}
    BY <1>3 DEF InitElectrumClient
  <2>2. query' = query \/ \E q \in Query, s \in Unspent : query' = [query EXCEPT ![q] = s]
    BY <1>3 DEF InitElectrumClient, LookUp, Asked
  <2> QED BY <1>3, <2>1, <2>2, Before, Steps DEF InitElectrumClient
<1>4. CASE PingElectrumRestart
  <2>1. reconnects' \in 0..MaxReconnects
    BY <1>4 DEF PingElectrumRestart, Inv, TypeOK
  <2> QED BY <1>4, <2>1, Before, Steps DEF PingElectrumRestart
<1>5. CASE InitElectrumClientFails
  BY <1>5, Before, Steps DEF InitElectrumClientFails
<1> QED BY <1>1, <1>2, <1>3, <1>4, <1>5 DEF Client

(* The coin of a display update: it has its confirmations, or it stays.    *)
LEMMA Displayed ==
    ASSUME Inv, NEW received \in BOOLEAN, GetDisplayData(received)
    PROVE  /\ coin' \in Coin /\ disk' \in {disk, coin'}
           /\ Paid(coin') /\ Offered(coin')
           /\ coin'.funding = coin.funding
           /\ \/ coin'.status = coin.status /\ disk' = disk
              \/ /\ coin.status = "UNCONFIRMED" /\ coin'.status = "AVAILABLE"
                 /\ disk' = coin'
           /\ call' \in [Call -> Progress]
<1> DEFINE begins == received /\ coin.status \in {"UNCONFIRMED", "IN_MEMPOOL"} /\ coin.backup = NoTx
           c == IF begins THEN [coin EXCEPT !.backup_confirm = TRUE] ELSE coin
<1>1. /\ c \in Coin /\ c.status = coin.status /\ c.funding = coin.funding
      /\ c.block = coin.block /\ c.backup = coin.backup
  BY Before DEF Coin
<1>2. coin' = SetConfirmed(c) /\ disk' = IF coin'.status # c.status THEN coin' ELSE disk
  BY DEF GetDisplayData
<1>3. call' \in [Call -> Progress]
  BY Before DEF GetDisplayData, DepositConfirms, Progress
<1> HIDE DEF c
<1>4. CASE Confirmed(c) /\ c.backup # NoTx
  <2>1. coin' = [c EXCEPT !.status = "AVAILABLE"] /\ c.status = "UNCONFIRMED"
        /\ block_height + 1 >= Required + c.block
    BY <1>2, <1>4 DEF SetConfirmed, Confirmed
  <2>2. /\ coin' \in Coin /\ coin'.status = "AVAILABLE" /\ coin'.backup = c.backup
        /\ coin'.funding = c.funding
    BY <1>1, <2>1 DEF Coin, Status
  <2>3. PICK t \in Tx : MinedAt(t, c.block)
    BY <1>1, <2>1, Before DEF Paid
  <2>4. ConfirmedOnChain(t)
    <3>1. c.block \in Nat /\ block_height =< height
      BY <1>1, CoinType DEF Inv, PaidInv
    <3> QED BY <2>1, <2>3, <3>1, Before DEF ConfirmedOnChain, MinedAt
  <2>5. disk' = coin'
    BY <1>2, <2>1, <2>2
  <2> QED BY <1>1, <1>3, <1>4, <2>1, <2>2, <2>4, <2>5 DEF Paid, Offered
<1>5. CASE ~(Confirmed(c) /\ c.backup # NoTx)
  <2>1. coin' = c /\ disk' = disk
    BY <1>2, <1>5 DEF SetConfirmed
  <2> QED BY <1>1, <1>3, <2>1, Before DEF Paid, Offered
<1> QED BY <1>4, <1>5

LEMMA WalletStep ==
    ASSUME Inv, Wallet
    PROVE  Inv'
<1>1. CASE DepositInit
  <2>1. coin' \in Coin /\ Paid(coin') /\ Offered(coin') /\ disk' = coin'
    BY <1>1, Before DEF DepositInit, Coin, Status, Paid, Offered
  <2> QED BY <1>1, <2>1, Before, Steps DEF DepositInit
<1>2. CASE RemoveStatecoin
  <2>1. coin' \in Coin /\ Paid(coin') /\ Offered(coin') /\ disk' = coin'
    BY <1>2, Before DEF RemoveStatecoin, Coin, Status, Paid, Offered
  <2> QED BY <1>2, <2>1, Before, Steps DEF RemoveStatecoin, client
<1>3. ASSUME NEW q \in Query, CheckFundingTxListUnspent(q) PROVE Inv'
  BY <1>3, Before, AnswerHandled, Steps DEF CheckFundingTxListUnspent
<1>4. ASSUME NEW q \in Query, ListUnspentFails(q) PROVE Inv'
  BY <1>4, Before, Steps DEF ListUnspentFails, client
<1>5. ASSUME NEW received \in BOOLEAN, GetDisplayData(received) PROVE Inv'
  <2>1. /\ UNCHANGED <<server, dups, client, query, multi, reconnects>>
    BY <1>5 DEF GetDisplayData
  <2> QED BY <1>5, <2>1, Before, Displayed, Steps DEF client
<1>6. ASSUME NEW k \in Call, BuildBackup(k) PROVE Inv'
  <2>1. call' \in [Call -> Progress]
    BY <1>6, Before DEF BuildBackup, Coin, Progress
  <2> QED BY <1>6, <2>1, Before, Steps DEF BuildBackup, client
<1>7. ASSUME NEW k \in Call, DepositConfirmed(k) PROVE Inv'
  <2>1. coin' \in Coin /\ Paid(coin') /\ Offered(coin') /\ disk' = coin'
    BY <1>7, Before DEF DepositConfirmed, Coin, Paid, Offered, DepositAssumption
  <2>2. call' \in [Call -> Progress]
    BY <1>7, Before DEF DepositConfirmed, Progress
  <2> QED BY <1>7, <2>1, <2>2, Before, Steps DEF DepositConfirmed, client
<1>8. ASSUME NEW k \in Call, DepositConfirmFails(k) PROVE Inv'
  <2>1. call' \in [Call -> Progress]
    BY <1>8, Before DEF DepositConfirmFails, Progress
  <2> QED BY <1>8, <2>1, Before, Steps DEF DepositConfirmFails, client
<1>9. CASE AskMultipleDeposits
  <2>1. multi' \subseteq Tx
    BY <1>9 DEF AskMultipleDeposits, Paying
  <2> QED BY <1>9, <2>1, Before, Steps DEF AskMultipleDeposits, client
<1>10. CASE CheckMultipleDeposits
  <2>1. coin' \in Coin /\ Paid(coin') /\ Offered(coin')
    <3>1. CASE UNCHANGED coin
      BY <3>1, Before
    <3>2. CASE \E t \in Tx : coin' = [coin EXCEPT !.funding = t, !.status = "DUPLICATE"]
      BY <3>2, Before DEF Coin, Status, Paid, Offered
    <3> QED BY <1>10, <3>1, <3>2, Before DEF CheckMultipleDeposits
  <2>2. dups' \subseteq Tx /\ multi' \subseteq Tx
    BY <1>10, Before DEF CheckMultipleDeposits
  <2> QED BY <1>10, <2>1, <2>2, Before, Steps DEF CheckMultipleDeposits, client
<1>11. CASE Restart
  <2>1. coin' \in Coin /\ Paid(coin') /\ Offered(coin')
    <3> DEFINE b == disk.backup_confirm /\ disk.backup # NoTx
    <3>1. coin' = [disk EXCEPT !.backup_confirm = b] /\ b \in BOOLEAN
      BY <1>11 DEF Restart
    <3> HIDE DEF b
    <3>2. /\ coin' \in Coin /\ coin'.status = disk.status /\ coin'.block = disk.block
          /\ coin'.backup = disk.backup
      BY <3>1, Before DEF Coin
    <3> QED BY <3>2, Before DEF Paid, Offered
  <2>2. reconnects' \in 0..MaxReconnects
    BY <1>11 DEF Restart, Inv, TypeOK
  <2>3. call' \in [Call -> Progress]
    BY <1>11 DEF Restart, Progress
  <2> QED BY <1>11, <2>1, <2>2, <2>3, Before, Steps DEF Restart
<1> QED
  BY <1>1, <1>2, <1>3, <1>4, <1>5, <1>6, <1>7, <1>8, <1>9, <1>10, <1>11
  DEF Wallet, GetUnconfirmedStatecoinsDisplayData, GetUnconfirmedAndUnminedCoinsFundingTxData

LEMMA StutterStep ==
    ASSUME Inv, UNCHANGED vars
    PROVE  Inv'
BY Before, Steps DEF vars, server

LEMMA InitInv ==
    ASSUME Init
    PROVE  Inv
<1>1. NewCoin \in Coin /\ NewCoin.status = "NONE" /\ NewCoin.funding = NoTx
  <2>1. 0 \in 0..MaxHeight
    OBVIOUS
  <2> QED BY <2>1 DEF NewCoin, Coin, Status
<1>2. TypeOK
  <2>1. 0 \in 0..MaxHeight /\ 0 \in 0..MaxReconnects
    OBVIOUS
  <2>2. chain \in [Tx -> [at : {"none", "mempool", "mined", "replaced"}, height : 0..MaxHeight]]
    BY <2>1 DEF Init
  <2>3. query \in [Query -> Seq(Output)] /\ call \in [Call -> Progress]
    BY DEF Init, Progress
  <2>4. dups \subseteq Tx /\ multi \subseteq Tx /\ connected \in {"down", "failed", "up"} /\ subscribed \in BOOLEAN
    BY DEF Init
  <2> QED BY <1>1, <2>1, <2>2, <2>3, <2>4 DEF Init, TypeOK
<1>3. ChainInv
  <2>1. Paying = {}
    BY DEF Init, Paying
  <2> QED BY <2>1, FS_EmptySet DEF Init, ChainInv
<1>4. QueryInv /\ PaidInv
  BY <1>1 DEF Init, QueryInv, PaidInv, Paid, Offered
<1> QED BY <1>2, <1>3, <1>4 DEF Inv

----------------------------------------------------------------------------

\* The inductive invariant holds in every reachable state, for any number of
\* requests in flight: what an UNCONFIRMED or AVAILABLE coin of wallet.ts says of
\* the chain stays true, however old the answers were from which it was learnt.
THEOREM Invariance == Spec => []Inv
<1>1. Init => Inv
  BY InitInv
<1>2. Inv /\ [Next]_vars => Inv'
  BY ChainStep, ClientStep, WalletStep, StutterStep DEF Next
<1> QED BY <1>1, <1>2, PTL DEF Spec

\* The variables keep their types, for any number of transactions, requests, calls
\* of depositConfirm, blocks and restarts.
THEOREM Typing == Spec => []TypeOK
<1>1. Inv => TypeOK
  BY DEF Inv
<1> QED BY <1>1, Invariance, PTL

\* A coin that checkUnconfirmedCoinsStatus made AVAILABLE, in memory or saved, has
\* a backup transaction, and its address a payment with the confirmations that are
\* required, however many answers were late, repeated or lost.
THEOREM OfferedIsPaid == Spec => []AvailableIsConfirmed
<1>1. Inv => AvailableIsConfirmed
  BY DEF Inv, PaidInv, Offered, AvailableIsConfirmed
<1> QED BY <1>1, Invariance, PTL
=============================================================================
