--------------------------- MODULE Spending_proofs ---------------------------
(***************************************************************************)
(* Proofs about Spending, for any number of coins, withdrawals, fees, lock *)
(* times and bounds: the types, and that a coin that is offered is not     *)
(* spent by a withdrawal that was signed, unless the end of a swap loop    *)
(* took it out of the withdrawal.                                          *)
(***************************************************************************)
EXTENDS Spending, TLAPS

(* Coins that are offered, or may be again: checkLocktime restores one     *)
(* that expired, unless its backup transaction is known to be settled.     *)
Offered(d) ==
    \/ d.status \in {"AVAILABLE", "SWAPLIMIT", "AWAITING_SWAP"}
    \/ d.status = "EXPIRED" /\ d.backup \notin {"CONFIRMED", "TAKEN"}

Unspent(c) == \A w \in Withdrawal : c \in wd[w].coins => wd[w].at \notin Live

Excused(c) == Unspent(c) \/ c \in reset

OfferedInv == \A c \in Coin : Offered(coin[c]) \/ Offered(disk[c]) => Excused(c)

(* A request about a backup transaction is only made while it is open, and *)
(* its answer comes before anything settles it.                            *)
RequestInv == \A c \in Coin : bk[c] # "idle" => coin[c].backup \notin {"CONFIRMED", "TAKEN"}

Inv == TypeOK /\ OfferedInv /\ RequestInv

USE SpendingAssumption

----------------------------------------------------------------------------
(* Coins *)

LEMMA StatusChanged ==
    ASSUME NEW d \in StateCoin, NEW s \in Status
    PROVE  /\ [d EXCEPT !.status = s] \in StateCoin
           /\ [d EXCEPT !.status = s].status = s
           /\ [d EXCEPT !.status = s].backup = d.backup
BY DEF StateCoin

LEMMA BackupChanged ==
    ASSUME NEW d \in StateCoin, NEW b \in BackupStatus
    PROVE  /\ [d EXCEPT !.backup = b] \in StateCoin
           /\ [d EXCEPT !.backup = b].backup = b
           /\ [d EXCEPT !.backup = b].status = d.status
BY DEF StateCoin

(* the coins of cs become those of f, and are saved with the list or not *)
Changed(cs, f) == [c \in Coin |-> IF c \in cs THEN f[c] ELSE coin[c]]

CoinsMove(cs, f) ==
    /\ coin' = Changed(cs, f)
    /\ disk' \in {disk, coin'}

(* Coins whose withdrawals stay as they were: they are offered afterwards  *)
(* only if they were before.                                               *)
LEMMA CoinsMoved ==
    ASSUME Inv, NEW cs \in SUBSET Coin, NEW f \in [cs -> StateCoin], CoinsMove(cs, f), wd' = wd,
           reset \subseteq reset', \A c \in cs : Offered(f[c]) => Unspent(c) \/ c \in reset'
    PROVE  /\ coin' \in [Coin -> StateCoin] /\ disk' \in [Coin -> StateCoin]
           /\ OfferedInv'
<1>1. coin' \in [Coin -> StateCoin] /\ disk' \in [Coin -> StateCoin]
  BY DEF Inv, TypeOK, CoinsMove, Changed
<1>2. \A e \in Coin : Unspent(e)' <=> Unspent(e)
  BY DEF Unspent
<1>3. \A e \in Coin : Offered(coin'[e]) => Unspent(e) \/ e \in reset'
  <2> TAKE e \in Coin
  <2>1. CASE e \in cs
    BY <2>1 DEF CoinsMove, Changed
  <2>2. CASE e \notin cs
    BY <2>2 DEF CoinsMove, Changed, Inv, OfferedInv, Excused
  <2> QED BY <2>1, <2>2
<1>4. \A e \in Coin : Offered(disk'[e]) => Unspent(e) \/ e \in reset'
  BY <1>3 DEF Inv, OfferedInv, CoinsMove, Excused
<1> QED BY <1>1, <1>2, <1>3, <1>4 DEF OfferedInv, Excused

(* No request is made for a coin of a step that keeps its backup status.   *)
LEMMA RequestsKept ==
    ASSUME Inv, NEW cs \in SUBSET Coin, NEW f \in [cs -> StateCoin], CoinsMove(cs, f),
           \A c \in Coin : bk'[c] # "idle" =>
              \/ c \in cs /\ f[c].backup \notin {"CONFIRMED", "TAKEN"}
              \/ c \notin cs /\ bk[c] # "idle"
    PROVE  RequestInv'
BY DEF Inv, TypeOK, RequestInv, CoinsMove, Changed

(* The withdrawals of coins that are not touched: none becomes live.       *)
LEMMA WithdrawalsMoved ==
    ASSUME Inv, UNCHANGED <<coin, disk, bk, reset>>,
           \A w \in Withdrawal : wd'[w].at \in Live => wd[w].at \in Live /\ wd'[w].coins = wd[w].coins
    PROVE  OfferedInv' /\ RequestInv'
<1>1. \A e \in Coin : Unspent(e) => Unspent(e)'
  BY DEF Unspent, Live
<1>2. OfferedInv'
  BY <1>1 DEF Inv, OfferedInv, Excused
<1>3. RequestInv'
  BY DEF Inv, RequestInv
<1> QED BY <1>2, <1>3

----------------------------------------------------------------------------
(* One lemma for each part of Next *)

LEMMA ChainInv ==
    ASSUME Inv, Chain
    PROVE  Inv'
<1>1. ASSUME NEW ws \in SUBSET Withdrawal, NEW bs \in SUBSET Coin, Block(ws, bs) PROVE Inv'
  <2>1. TypeOK'
    BY <1>1 DEF Inv, TypeOK, Block, Progress
  <2>2. /\ UNCHANGED <<coin, disk, bk, reset>>
        /\ \A w \in Withdrawal : wd'[w].at \in Live => wd[w].at \in Live /\ wd'[w].coins = wd[w].coins
    BY <1>1 DEF Inv, TypeOK, Block, Live
  <2> QED BY <2>1, <2>2, WithdrawalsMoved DEF Inv
<1>2. CASE SetBlockHeight
  <2>1. TypeOK' /\ UNCHANGED <<wd, coin, disk, bk, reset>>
    BY <1>2 DEF Inv, TypeOK, SetBlockHeight, chain
  <2> QED BY <2>1, WithdrawalsMoved DEF Inv
<1>3. CASE GetLatestBlockFails
  <2>1. TypeOK' /\ UNCHANGED <<wd, coin, disk, bk, reset>>
    BY <1>3 DEF Inv, TypeOK, GetLatestBlockFails, chain
  <2> QED BY <2>1, WithdrawalsMoved DEF Inv
<1> QED BY <1>1, <1>2, <1>3 DEF Chain

(* A coin of the pool step becomes AVAILABLE or AWAITING_SWAP: it was      *)
(* offered before, or its loop took it out of a withdrawal.                *)
LEMMA PoolInv ==
    ASSUME Inv, Pool
    PROVE  Inv'
<1>1. ASSUME NEW c \in Coin, DoSwap(c) PROVE Inv'
  <2>1. UNCHANGED <<wd, coin, disk, bk, reset>>
    BY <1>1 DEF DoSwap
  <2>2. TypeOK'
    BY <1>1 DEF Inv, TypeOK, DoSwap, chain
  <2> QED BY <2>1, <2>2, WithdrawalsMoved DEF Inv
<1>2. ASSUME NEW c \in Coin, NEW s \in Offerable, wd' = wd, bk' = bk,
             reset' = reset \/ reset' = reset \union {c},
             coin[c].status \in Offerable \/ c \in reset',
             coin' = [d \in Coin |-> IF d = c THEN [coin[d] EXCEPT !.status = s] ELSE coin[d]],
             disk' = coin',
             loop' \in [Coin -> {"none", "starting", "running"}],
             UNCHANGED <<chain, withdrawn, confirming, block_height, faults>>
      PROVE  Inv'
  <2> DEFINE f == [x \in {c} |-> [coin[x] EXCEPT !.status = s]]
  <2>1. CoinsMove({c}, f) /\ reset \subseteq reset'
    BY <1>2 DEF CoinsMove, Changed
  <2>2. f \in [{c} -> StateCoin] /\ f[c].backup = coin[c].backup
    <3>1. coin[c] \in StateCoin
      BY DEF Inv, TypeOK
    <3> QED BY <3>1 DEF StateCoin, Status, Offerable
  <2>3. Unspent(c) \/ c \in reset'
    BY <1>2, <2>1 DEF Inv, OfferedInv, Offered, Offerable, Excused
  <2> HIDE DEF f
  <2>4. coin' \in [Coin -> StateCoin] /\ disk' \in [Coin -> StateCoin] /\ OfferedInv'
    BY <1>2, <2>1, <2>2, <2>3, CoinsMoved
  <2>5. RequestInv'
    BY <1>2, <2>1, <2>2, RequestsKept DEF Inv, RequestInv
  <2>6. TypeOK'
    BY <1>2, <2>4 DEF Inv, TypeOK, chain
  <2> QED BY <2>4, <2>5, <2>6 DEF Inv
<1>3. ASSUME NEW c \in Coin, PrepareStatecoin(c) PROVE Inv'
  BY <1>2, <1>3 DEF PrepareStatecoin, Save, Offerable, Inv, TypeOK
<1>4. ASSUME NEW c \in Coin, RemoveCoinFromSwapPool(c) PROVE Inv'
  BY <1>2, <1>4 DEF RemoveCoinFromSwapPool, Save, Offerable, Inv, TypeOK
<1>5. ASSUME NEW c \in Coin, SwapLoopEnds(c) PROVE Inv'
  BY <1>2, <1>5 DEF SwapLoopEnds, Save, Offerable, Inv, TypeOK
<1> QED BY <1>1, <1>3, <1>4, <1>5 DEF Pool

LEMMA WithdrawInv ==
    ASSUME Inv, Withdraw
    PROVE  Inv'
<1>1. ASSUME NEW w \in Withdrawal, NEW cs \in SUBSET Coin \ {{}}, WithdrawInit(w, cs) PROVE Inv'
  <2>1. TypeOK'
    BY <1>1 DEF Inv, TypeOK, WithdrawInit, chain, Progress
  <2>2. /\ UNCHANGED <<coin, disk, bk, reset>>
        /\ \A v \in Withdrawal : wd'[v].at \in Live => wd[v].at \in Live /\ wd'[v].coins = wd[v].coins
    BY <1>1 DEF Inv, TypeOK, WithdrawInit, Live
  <2> QED BY <2>1, <2>2, WithdrawalsMoved DEF Inv
<1>2. ASSUME NEW w \in Withdrawal, WithdrawRecorded(w) PROVE Inv'
  <2> DEFINE cs == wd[w].coins
             f == [c \in cs |-> Withdrawing(c, w)]
  <2>1. /\ CoinsMove(cs, f) /\ bk' = bk /\ disk' = coin' /\ reset' = reset \ cs
        /\ wd' = [wd EXCEPT ![w].at = "signed"] /\ wd[w].at = "cosigned"
        /\ cs \in SUBSET Coin
    BY <1>2 DEF WithdrawRecorded, Save, CoinsMove, Changed, Inv, TypeOK
  <2>2. ASSUME NEW c \in Coin
        PROVE  /\ Withdrawing(c, w) \in StateCoin
               /\ Withdrawing(c, w).status \in {"WITHDRAWN", "WITHDRAWING"}
               /\ Withdrawing(c, w).backup = coin[c].backup
    <3>1. coin[c] \in StateCoin
      BY DEF Inv, TypeOK
    <3>2. Append(coin[c].broadcasts, w) \in Seq(Withdrawal)
      BY <3>1 DEF StateCoin
    <3> QED BY <3>1, <3>2 DEF Withdrawing, StateCoin, Status, Offerable
  <2>3. f \in [cs -> StateCoin]
    BY <2>1, <2>2
  <2>4. coin' \in [Coin -> StateCoin] /\ disk' \in [Coin -> StateCoin]
    BY <2>1, <2>3 DEF CoinsMove, Changed, Inv, TypeOK
  <2>5. RequestInv'
    <3>1. \A c \in cs : f[c].backup = coin[c].backup
      BY <2>1, <2>2
    <3> HIDE DEF f, cs
    <3> QED BY <2>1, <2>3, <3>1, RequestsKept DEF Inv, RequestInv
  <2>6. OfferedInv'
    <3>1. \A c \in Coin \ cs : Unspent(c) => Unspent(c)'
      BY <2>1 DEF Unspent, Inv, TypeOK
    <3>2. ASSUME NEW c \in Coin, Offered(coin'[c]) PROVE Excused(c)'
      <4>1. c \notin cs
        BY <2>1, <2>2, <3>2 DEF CoinsMove, Changed, Offered
      <4>2. coin'[c] = coin[c]
        BY <2>1, <4>1 DEF CoinsMove, Changed
      <4> QED BY <2>1, <3>1, <3>2, <4>1, <4>2 DEF Inv, OfferedInv, Excused
    <3> QED BY <2>1, <3>2 DEF OfferedInv
  <2>7. TypeOK'
    BY <1>2, <2>1, <2>4 DEF Inv, TypeOK, WithdrawRecorded, chain, Progress
  <2> QED BY <2>5, <2>6, <2>7 DEF Inv
<1>3. ASSUME NEW w \in Withdrawal, WithdrawCosigned(w) \/ WithdrawRefused(w) \/ BroadcastFails(w) PROVE Inv'
  <2>1. TypeOK'
    <3>1. CASE WithdrawCosigned(w) \/ BroadcastFails(w)
      BY <3>1 DEF Inv, TypeOK, WithdrawCosigned, BroadcastFails, chain, Progress
    <3>2. CASE WithdrawRefused(w)
      <4>1. Unmade \in [at : Progress, coins : SUBSET Coin]
        BY DEF Unmade, Progress
      <4> QED BY <3>2, <4>1 DEF Inv, TypeOK, WithdrawRefused, chain
    <3> QED BY <1>3, <3>1, <3>2
  <2>2. /\ UNCHANGED <<coin, disk, bk, reset>>
        /\ \A v \in Withdrawal : wd'[v].at \in Live => wd[v].at \in Live /\ wd'[v].coins = wd[v].coins
    BY <1>3 DEF Inv, TypeOK, WithdrawCosigned, WithdrawRefused, Unmade, BroadcastFails, Live
  <2> QED BY <2>1, <2>2, WithdrawalsMoved DEF Inv
<1>4. ASSUME NEW w \in Withdrawal, Broadcast(w) PROVE Inv'
  <2>1. TypeOK'
    BY <1>4 DEF Inv, TypeOK, Broadcast, chain, Progress
  <2>2. /\ UNCHANGED <<coin, disk, bk, reset>>
        /\ \A v \in Withdrawal : wd'[v].at \in Live => wd[v].at \in Live /\ wd'[v].coins = wd[v].coins
    BY <1>4 DEF Inv, TypeOK, Broadcast, Live
  <2> QED BY <2>1, <2>2, WithdrawalsMoved DEF Inv
<1>5. ASSUME NEW w \in Withdrawal, WithdrawConfirmed(w) PROVE Inv'
  <2>1. TypeOK' /\ UNCHANGED <<wd, coin, disk, bk, reset>>
    BY <1>5 DEF Inv, TypeOK, WithdrawConfirmed, chain
  <2> QED BY <2>1, WithdrawalsMoved DEF Inv
<1>6. ASSUME NEW c \in Coin, NEW w \in Withdrawal, CheckWithdrawingTxStatus(c, w) PROVE Inv'
  <2> DEFINE cs == wd[w].coins
             f == [x \in cs |-> [coin[x] EXCEPT !.status = "WITHDRAWN"]]
  <2>1. CoinsMove(cs, f) /\ wd' = wd /\ bk' = bk /\ reset' = reset /\ cs \in SUBSET Coin
    BY <1>6 DEF CheckWithdrawingTxStatus, Save, CoinsMove, Changed, Inv, TypeOK
  <2>2. /\ f \in [cs -> StateCoin]
        /\ \A x \in cs : f[x].backup = coin[x].backup /\ ~Offered(f[x])
    <3>1. "WITHDRAWN" \in Status /\ "WITHDRAWN" \notin Offerable
      BY DEF Status, Offerable
    <3>2. \A x \in cs : coin[x] \in StateCoin
      BY <2>1 DEF Inv, TypeOK
    <3> QED BY <3>1, <3>2, StatusChanged DEF Offered
  <2> HIDE DEF f, cs
  <2>3. coin' \in [Coin -> StateCoin] /\ disk' \in [Coin -> StateCoin] /\ OfferedInv'
    BY <2>1, <2>2, CoinsMoved
  <2>4. RequestInv'
    BY <2>1, <2>2, RequestsKept DEF Inv, RequestInv
  <2>5. TypeOK'
    BY <1>6, <2>1, <2>3 DEF Inv, TypeOK, CheckWithdrawingTxStatus, chain
  <2> QED BY <2>3, <2>4, <2>5 DEF Inv
<1> QED BY <1>1, <1>2, <1>3, <1>4, <1>5, <1>6 DEF Withdraw

(* A step that only moves one coin, and perhaps the transaction and the    *)
(* request of its backup.                                                  *)
BackupFrames(c) ==
    /\ UNCHANGED <<explorer, height, wd, withdrawn, loop, confirming, reset, block_height, faults>>
    /\ btx' \in {btx, [btx EXCEPT ![c] = "mempool"]}

LEMMA BackupMoved ==
    ASSUME Inv, NEW c \in Coin, NEW d \in StateCoin, BackupFrames(c),
           coin' = [coin EXCEPT ![c] = d], disk' \in {disk, coin'},
           Offered(d) => Excused(c),
           NEW b \in {"idle", "broadcast", "lookup"}, bk' = [bk EXCEPT ![c] = b],
           b # "idle" => d.backup \notin {"CONFIRMED", "TAKEN"}
    PROVE  Inv'
<1> DEFINE f == [x \in {c} |-> d]
<1>1. CoinsMove({c}, f) /\ f \in [{c} -> StateCoin] /\ f[c] = d
  BY DEF CoinsMove, Changed, Inv, TypeOK
<1>2. wd' = wd /\ reset' = reset
  BY DEF BackupFrames
<1> HIDE DEF f
<1>3. coin' \in [Coin -> StateCoin] /\ disk' \in [Coin -> StateCoin] /\ OfferedInv'
  BY <1>1, <1>2, CoinsMoved DEF Excused
<1>4. RequestInv'
  BY <1>1, RequestsKept DEF Inv, TypeOK
<1>5. TypeOK'
  BY <1>2, <1>3 DEF Inv, TypeOK, BackupFrames
<1> QED BY <1>3, <1>4, <1>5 DEF Inv

LEMMA BackupInv ==
    ASSUME Inv, Backup
    PROVE  Inv'
<1> SUFFICES ASSUME NEW c \in Coin,
                    \/ CheckLocktime(c)
                    \/ UpdateBackupTxStatus(c)
                    \/ ProcessTXBroadcastResponse(c)
                    \/ CheckMempoolTx(c)
             PROVE  Inv'
  BY DEF Backup
<1>0. /\ coin[c] \in StateCoin /\ coin[c].status \in Status
      /\ Offered(coin[c]) => Excused(c)
  BY DEF Inv, TypeOK, StateCoin, OfferedInv
<1>1. CASE CheckLocktime(c)
  <2> DEFINE s == CASE coin[c].status = "AVAILABLE" /\ BlocksToLocktime(c) < SwapLimit -> "SWAPLIMIT"
                    [] coin[c].status = "EXPIRED" /\ BlocksToLocktime(c) > SwapLimit -> "AVAILABLE"
                    [] OTHER -> coin[c].status
             d == [coin[c] EXCEPT !.backup = "PRE_LOCKTIME", !.status = s]
  <2>1. /\ coin' = [coin EXCEPT ![c] = d] /\ disk' \in {disk, coin'}
        /\ BackupTxCheckRequired(c) /\ BackupFrames(c) /\ bk' = bk
    BY <1>1 DEF CheckLocktime, BackupFrames, chain
  <2>2. s \in Status
    BY <1>0 DEF Status, Offerable
  <2>3. d \in StateCoin /\ d.status = s /\ d.backup = "PRE_LOCKTIME"
    <3> HIDE DEF s
    <3> QED BY <1>0, <2>2 DEF StateCoin, BackupStatus
  <2>4. Offered(d) => Offered(coin[c])
    BY <2>1, <2>3 DEF Offered, BackupTxCheckRequired
  <2>5. bk' = [bk EXCEPT ![c] = bk[c]] /\ bk[c] \in {"idle", "broadcast", "lookup"}
    BY <2>1 DEF Inv, TypeOK
  <2> HIDE DEF d, s
  <2> QED BY <1>0, <2>1, <2>3, <2>4, <2>5, BackupMoved
<1>2. CASE UpdateBackupTxStatus(c)
  <2>1. /\ BackupTxCheckRequired(c) /\ BackupFrames(c)
        /\ \E b \in {"broadcast", "lookup"} : bk' = [bk EXCEPT ![c] = b]
    BY <1>2 DEF UpdateBackupTxStatus, BackupFrames, chain
  <2>2. PICK b \in {"broadcast", "lookup"} : bk' = [bk EXCEPT ![c] = b]
    BY <2>1
  <2>3. CASE coin[c].status \in {"AVAILABLE", "SWAPLIMIT"}
    <3> DEFINE d == [coin[c] EXCEPT !.status = "EXPIRED"]
    <3>1. coin' = [coin EXCEPT ![c] = d] /\ disk' = coin'
      BY <1>2, <2>3 DEF UpdateBackupTxStatus, Save, Inv, TypeOK
    <3>2. d \in StateCoin /\ d.backup = coin[c].backup
      BY <1>0, StatusChanged DEF Status, Offerable
    <3>3. Excused(c)
      BY <1>0, <2>3 DEF Offered
    <3> HIDE DEF d
    <3> QED BY <2>1, <2>2, <3>1, <3>2, <3>3, BackupMoved DEF BackupTxCheckRequired
  <2>4. CASE coin[c].status \notin {"AVAILABLE", "SWAPLIMIT"}
    <3>1. coin' = [coin EXCEPT ![c] = coin[c]] /\ disk' = disk
      BY <1>2, <2>4 DEF UpdateBackupTxStatus, Inv, TypeOK
    <3> QED BY <1>0, <2>1, <2>2, <3>1, BackupMoved DEF BackupTxCheckRequired
  <2> QED BY <2>3, <2>4
<1>3. CASE ProcessTXBroadcastResponse(c)
  <2>1. PICK d \in BroadcastAnswers(c) :
          /\ coin' = [coin EXCEPT ![c] = d]
          /\ btx' = [btx EXCEPT ![c] = IF d.backup = "IN_MEMPOOL" THEN "mempool" ELSE @]
    BY <1>3 DEF ProcessTXBroadcastResponse
  <2>2. /\ disk' = disk /\ bk' = [bk EXCEPT ![c] = "idle"] /\ BackupFrames(c)
        /\ coin[c].backup \notin {"CONFIRMED", "TAKEN"}
    BY <1>3, <2>1 DEF ProcessTXBroadcastResponse, BackupFrames, Inv, TypeOK, RequestInv
  <2>3. d \in StateCoin /\ (Offered(d) => Offered(coin[c]))
    <3>1. CASE d = [coin[c] EXCEPT !.backup = "IN_MEMPOOL"]
      BY <1>0, <2>2, <3>1, BackupChanged DEF Offered, BackupStatus
    <3>2. CASE d = [coin[c] EXCEPT !.backup = "BELOW_MIN_FEE"]
      BY <1>0, <2>2, <3>2, BackupChanged DEF Offered, BackupStatus
    <3>3. CASE d = [coin[c] EXCEPT !.backup = "CONFIRMED",
                                   !.status = IF @ = "EXPIRED" THEN @ ELSE Spent(c, "WITHDRAWN")]
      <4> DEFINE s == IF coin[c].status = "EXPIRED" THEN coin[c].status ELSE Spent(c, "WITHDRAWN")
      <4>1. s \in Status /\ s \in {"EXPIRED", "WITHDRAWN", "WITHDRAWING", "AWAITING_SWAP"}
            /\ (s = "AWAITING_SWAP" => coin[c].status = s)
        BY <1>0 DEF Spent, Status, Offerable
      <4>2. d = [coin[c] EXCEPT !.backup = "CONFIRMED", !.status = s]
        BY <3>3
      <4> HIDE DEF s
      <4> QED BY <1>0, <4>1, <4>2 DEF Offered, StateCoin, BackupStatus
    <3>4. CASE d = [coin[c] EXCEPT !.backup = "TAKEN", !.status = Spent(c, "EXPIRED")]
      <4>1. /\ Spent(c, "EXPIRED") \in Status
            /\ Spent(c, "EXPIRED") \in {"EXPIRED", "WITHDRAWING", "AWAITING_SWAP"}
            /\ (Spent(c, "EXPIRED") = "AWAITING_SWAP" => coin[c].status = "AWAITING_SWAP")
        BY <1>0 DEF Spent, Status, Offerable
      <4> QED BY <1>0, <3>4, <4>1 DEF Offered, StateCoin, BackupStatus
    <3>5. CASE d = coin[c]
      BY <1>0, <3>5
    <3> QED BY <2>1, <3>1, <3>2, <3>3, <3>4, <3>5 DEF BroadcastAnswers
  <2> QED BY <1>0, <2>1, <2>2, <2>3, BackupMoved
<1>4. CASE CheckMempoolTx(c)
  <2>1. bk' = [bk EXCEPT ![c] = "idle"] /\ BackupFrames(c)
    BY <1>4 DEF CheckMempoolTx, BackupFrames, chain
  <2>2. CASE UNCHANGED <<coin, disk>>
    <3>1. coin' = [coin EXCEPT ![c] = coin[c]] /\ disk' = disk
      BY <2>2 DEF Inv, TypeOK
    <3> QED BY <1>0, <2>1, <3>1, BackupMoved
  <2>3. CASE ~UNCHANGED <<coin, disk>>
    <3> DEFINE s == IF coin[c].status = "EXPIRED" THEN coin[c].status ELSE Spent(c, "WITHDRAWN")
               d == [coin[c] EXCEPT !.backup = "CONFIRMED", !.status = s]
    <3>1. coin' = [coin EXCEPT ![c] = d] /\ disk' = coin'
      BY <1>4, <2>3 DEF CheckMempoolTx, Save, Inv, TypeOK
    <3>2. s \in Status /\ s \in {"EXPIRED", "WITHDRAWN", "WITHDRAWING", "AWAITING_SWAP"}
          /\ (s = "AWAITING_SWAP" => coin[c].status = s)
      BY <1>0 DEF Spent, Status, Offerable
    <3>3. d \in StateCoin /\ (Offered(d) => Offered(coin[c]))
      <4> HIDE DEF s
      <4> QED BY <1>0, <3>2 DEF Offered, StateCoin, BackupStatus
    <3> HIDE DEF d, s
    <3> QED BY <1>0, <2>1, <3>1, <3>3, BackupMoved
  <2> QED BY <2>2, <2>3
<1> QED BY <1>1, <1>2, <1>3, <1>4

LEMMA RestartInv ==
    ASSUME Inv, Restart
    PROVE  Inv'
<1> DEFINE s(c) == IF disk[c].status = "AWAITING_SWAP" THEN "AVAILABLE" ELSE disk[c].status
<1>1. ASSUME NEW c \in Coin
      PROVE  /\ coin'[c] = [disk[c] EXCEPT !.status = s(c)]
             /\ coin'[c] \in StateCoin
             /\ Offered(coin'[c]) => Offered(disk[c])
  <2>1. disk[c] \in StateCoin /\ disk[c].status \in Status
    BY DEF Inv, TypeOK, StateCoin
  <2>2. s(c) \in Status /\ coin'[c] = [disk[c] EXCEPT !.status = s(c)]
    BY <2>1 DEF Restart, Status, Offerable
  <2>3. /\ coin'[c] \in StateCoin /\ coin'[c].status = s(c)
        /\ coin'[c].backup = disk[c].backup
    <3> HIDE DEF s
    <3> QED BY <2>1, <2>2, StatusChanged
  <2> QED BY <2>2, <2>3 DEF Offered
<1>2. coin' \in [Coin -> StateCoin] /\ disk' = coin'
  BY <1>1 DEF Restart
<1>3. \A c \in Coin : Excused(c) => Excused(c)'
  BY DEF Excused, Unspent, Restart, Unmade, Live, Inv, TypeOK
<1>4. OfferedInv'
  BY <1>1, <1>2, <1>3 DEF Inv, OfferedInv
<1>5. RequestInv'
  <2>1. \A c \in Coin : bk'[c] = "idle"
    BY DEF Restart
  <2> QED BY <2>1 DEF RequestInv
<1>6. wd' \in [Withdrawal -> [at : Progress, coins : SUBSET Coin]]
  <2>1. wd \in [Withdrawal -> [at : Progress, coins : SUBSET Coin]]
    BY DEF Inv, TypeOK
  <2> QED BY <2>1 DEF Restart, Unmade, Progress
<1>7. TypeOK'
  <2>1. /\ loop' \in [Coin -> {"none", "starting", "running"}] /\ confirming' \subseteq Withdrawal
        /\ bk' \in [Coin -> {"idle", "broadcast", "lookup"}]
    BY DEF Restart
  <2>2. faults' \in 0..MaxFaults
    BY DEF Inv, TypeOK, Restart
  <2>3. UNCHANGED <<explorer, height, btx, withdrawn, reset, block_height>>
    BY DEF Restart, chain
  <2> QED BY <1>2, <1>6, <2>1, <2>2, <2>3 DEF Inv, TypeOK
<1> QED BY <1>4, <1>5, <1>7 DEF Inv

----------------------------------------------------------------------------

LEMMA InitInv ==
    ASSUME Init
    PROVE  Inv
<1>1. NewCoin \in StateCoin
  BY DEF NewCoin, StateCoin, Status, Offerable, BackupStatus
<1>2. TypeOK
  BY <1>1 DEF Init, TypeOK, Progress
<1>3. OfferedInv /\ RequestInv
  BY DEF Init, OfferedInv, Excused, Unspent, Live, RequestInv
<1> QED BY <1>2, <1>3 DEF Inv

LEMMA StutterInv ==
    ASSUME Inv, UNCHANGED vars
    PROVE  Inv'
<1>1. TypeOK'
  BY DEF Inv, TypeOK, vars
<1>2. UNCHANGED <<wd, coin, disk, bk, reset>>
  BY DEF vars
<1> QED BY <1>1, <1>2, WithdrawalsMoved DEF Inv

\* The inductive invariant holds in every reachable state: what the coins in
\* memory and on disk, the coins their loops took back and the requests about
\* backup transactions say of the withdrawals that were signed.
THEOREM Invariance == Spec => []Inv
<1>1. Init => Inv
  BY InitInv
<1>2. Inv /\ [Next]_vars => Inv'
  BY ChainInv, PoolInv, WithdrawInv, BackupInv, RestartInv, StutterInv DEF Next
<1> QED BY <1>1, <1>2, PTL DEF Spec

\* The variables keep their types, for every number of coins, withdrawals, blocks,
\* lost polls and restarts.
THEOREM Typing == Spec => []TypeOK
<1>1. Inv => TypeOK
  BY DEF Inv
<1> QED BY <1>1, Invariance, PTL

\* A coin that is offered for swaps, sends and withdrawals, in memory or after a
\* reload, is not spent by a withdrawal that was signed: withdraw_init, checkLocktime,
\* setStateCoinSpent and the pool agree on it in every order, and only the end of a
\* swap loop (handleSwapError) breaks it.
THEOREM OfferedIsUnspent == Spec => []AvailableIsUnspent
<1>1. Inv => AvailableIsUnspent
  <2> SUFFICES ASSUME Inv, NEW c \in Coin, c \notin reset,
                      {coin[c].status, disk[c].status} \cap Offerable # {}
               PROVE  LiveFor(c) = {}
    BY DEF AvailableIsUnspent, IsOffered
  <2>1. Unspent(c)
    BY DEF Inv, OfferedInv, Offered, Offerable, Excused
  <2> QED BY <2>1 DEF Unspent, Spends, LiveFor
<1> QED BY <1>1, Invariance, PTL
=============================================================================
