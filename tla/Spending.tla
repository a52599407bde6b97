------------------------------ MODULE Spending ------------------------------
(***************************************************************************)
(* Coins on their way out of the wallet: batched and replaced withdrawals, *)
(* the end of the lock time with the backup transaction, and the loop of a *)
(* coin that waits in the swap pool, which runs beside the withdrawals,    *)
(* with the explorer that may fail, the chain's rules for conflicting      *)
(* transactions, and restarts of the application.                          *)
(* A withdrawal stands for its transaction, a coin for its backup          *)
(* transaction; all withdrawals pay one address; a coin takes part in no   *)
(* swap here (CoinSwap does that), it only waits for one, in one loop at a *)
(* time.                                                                   *)
(***************************************************************************)
EXTENDS Naturals, Sequences, SequencesExt, FiniteSets, FiniteSetsExt

CONSTANTS
  Coin,
  Withdrawal,   \* calls of withdraw_init, and the transactions they make
  Fee,          \* Withdrawal -> the fee its user chose
  Locktime,     \* Coin -> lock time of its backup transaction
  SwapLimit,    \* config.swaplimit
  Pooled,       \* bound: coins the user puts in the swap pool
  MaxHeight,    \* bound: height of the chain
  MaxFaults     \* bound: polls of the height that fail, and restarts

ASSUME SpendingAssumption ==
  /\ Fee \in [Withdrawal -> Nat]
  /\ Locktime \in [Coin -> Nat \ {0}]
  /\ SwapLimit \in Nat
  /\ MaxHeight \in Nat
  /\ MaxFaults \in Nat

VARIABLES
  explorer,     \* what a transaction lookup answers: its status, or confirmations
  height,       \* height of the chain
  btx,          \* Coin -> where its backup transaction is
  wd,           \* Withdrawal -> progress and coins
  withdrawn,    \* coins whose withdrawal the state entity has confirmed
  coin,         \* Coin -> the coin in memory
  disk,         \* Coin -> the coin as last saved
  loop,         \* Coin -> the call of do_swap for it, on its way or in its loop
  bk,           \* Coin -> the request of updateBackupTxStatus in flight
  confirming,   \* withdrawals whose confirmation is being posted
  reset,        \* history: coins the end of a loop offers again, though they were not offered
  block_height, \* what the wallet knows of height, 0 if the last poll failed
  faults        \* counter for MaxFaults

vars == <<explorer, height, btx, wd, withdrawn, coin, disk, loop, bk, confirming, reset,
          block_height, faults>>
chain == <<explorer, height, btx>>

\* Statuses in which a coin is offered for a swap, a send or a withdrawal, or waits
\* for a swap.
Offerable == {"AVAILABLE", "SWAPLIMIT", "AWAITING_SWAP"}
Status == Offerable \cup {"WITHDRAWING", "WITHDRAWN", "EXPIRED"}
BackupStatus == {"PRE_LOCKTIME", "IN_MEMPOOL", "CONFIRMED", "TAKEN", "BELOW_MIN_FEE"}
StateCoin == [status : Status, backup : BackupStatus, broadcasts : Seq(Withdrawal)]

\* A withdrawal is asked of the state entity, cosigned by it, signed (recorded by
\* the wallet and sent), in the mempool or mined; or it is lost: refused, its
\* signature not received, not sent, or replaced.
Progress == {"none", "asked", "cosigned", "signed", "mempool", "mined", "lost"}

TypeOK ==
  /\ explorer \in {"electrs", "electrum"}
  /\ height \in 0..MaxHeight
  /\ btx \in [Coin -> {"none", "mempool", "mined"}]
  /\ wd \in [Withdrawal -> [at : Progress, coins : SUBSET Coin]]
  /\ withdrawn \subseteq Coin
  /\ coin \in [Coin -> StateCoin]
  /\ disk \in [Coin -> StateCoin]
  /\ loop \in [Coin -> {"none", "starting", "running"}]
  /\ bk \in [Coin -> {"idle", "broadcast", "lookup"}]
  /\ confirming \subseteq Withdrawal
  /\ reset \subseteq Coin
  /\ block_height \in 0..MaxHeight
  /\ faults \in 0..MaxFaults

NewCoin == [status |-> "AVAILABLE", backup |-> "PRE_LOCKTIME", broadcasts |-> << >>]

Init ==
  /\ explorer \in {"electrs", "electrum"}
  /\ height = 0
  /\ btx = [c \in Coin |-> "none"]
  /\ wd = [w \in Withdrawal |-> [at |-> "none", coins |-> {}]]
  /\ withdrawn = {}
  /\ coin = [c \in Coin |-> NewCoin]
  /\ disk = coin
  /\ loop = [c \in Coin |-> "none"]
  /\ bk = [c \in Coin |-> "idle"]
  /\ confirming = {}
  /\ reset = {}
  /\ block_height = 0
  /\ faults = 0

\* The coins of cs become f(c) and are saved: with the list they are in, so that
\* the others are saved too.
Save(cs, f(_)) ==
  /\ coin' = [c \in Coin |-> IF c \in cs THEN f(c) ELSE coin[c]]
  /\ disk' = coin'

----------------------------------------------------------------------------
(* The chain *)

\* Withdrawals that spend a coin of cs.
Spends(cs) == {w \in Withdrawal : wd[w].coins \cap cs # {}}

\* A block confirms some of the transactions that wait. Answers about backup
\* transactions come before the next block, and coins leave the swap pool, which
\* takes none closer than SwapLimit, before their lock time.
Block(ws, bs) ==
  /\ height < MaxHeight
  /\ \A w \in ws : wd[w].at = "mempool"
  /\ \A c \in bs : btx[c] = "mempool"
  /\ \A c \in Coin : bk[c] = "idle"
  /\ \A c \in Coin : loop[c] # "none" => height + 1 < Locktime[c]
  /\ height' = height + 1
  /\ wd' = [w \in Withdrawal |-> IF w \in ws THEN [wd[w] EXCEPT !.at = "mined"] ELSE wd[w]]
  /\ btx' = [c \in Coin |-> IF c \in bs THEN "mined" ELSE btx[c]]
  /\ UNCHANGED <<explorer, withdrawn, coin, disk, loop, bk, confirming, reset, block_height, faults>>

\* Mutant: the height of the block that is mined next.
SetBlockHeightNext ==
  /\ block_height # height + 1
  /\ block_height' = height + 1
  /\ UNCHANGED <<chain, wd, withdrawn, coin, disk, loop, bk, confirming, reset, faults>>

\* The wallet learns the height.
SetBlockHeight ==
  /\ block_height # height
  /\ block_height' = height
  /\ UNCHANGED <<chain, wd, withdrawn, coin, disk, loop, bk, confirming, reset, faults>>

\* The poll fails, and the height becomes null, which counts as 0.
GetLatestBlockFails ==
  /\ block_height # 0
  /\ faults < MaxFaults
  /\ faults' = faults + 1
  /\ block_height' = 0
  /\ UNCHANGED <<chain, wd, withdrawn, coin, disk, loop, bk, confirming, reset>>

----------------------------------------------------------------------------
(* The swap pool *)

\* do_swap: the coin may enter the pool, and the call waits for its turn.
DoSwap(c) ==
  /\ c \in Pooled
  /\ coin[c].status = "AVAILABLE"
  /\ loop[c] = "none"
  /\ height < Locktime[c]
  /\ loop' = [loop EXCEPT ![c] = "starting"]
  /\ UNCHANGED <<chain, wd, withdrawn, coin, disk, bk, confirming, reset, block_height, faults>>

\* prepare_statecoin: the coin, checked again, is put in the pool.
PrepareStatecoin(c) ==
  /\ loop[c] = "starting"
  /\ coin[c].status = "AVAILABLE"
  /\ loop' = [loop EXCEPT ![c] = "running"]
  /\ Save({c}, LAMBDA d : [coin[d] EXCEPT !.status = "AWAITING_SWAP"])
  /\ UNCHANGED <<chain, wd, withdrawn, bk, confirming, reset, block_height, faults>>

\* The coin leaves the pool; its loop notices later.
RemoveCoinFromSwapPool(c) ==
  /\ coin[c].status = "AWAITING_SWAP"
  /\ Save({c}, LAMBDA d : [coin[d] EXCEPT !.status = "AVAILABLE"])
  /\ UNCHANGED <<chain, wd, withdrawn, loop, bk, confirming, reset, block_height, faults>>

\* The loop, or a check before its first step, throws, and handleSwapError makes
\* the coin AVAILABLE whatever became of it.
SwapLoopEnds(c) ==
  /\ loop[c] # "none"
  /\ loop' = [loop EXCEPT ![c] = "none"]
  /\ reset' = IF coin[c].status \in Offerable THEN reset ELSE reset \cup {c}
  /\ Save({c}, LAMBDA d : [coin[d] EXCEPT !.status = "AVAILABLE"])
  /\ UNCHANGED <<chain, wd, withdrawn, bk, confirming, block_height, faults>>

----------------------------------------------------------------------------
(* Withdrawals *)

FeesOf(c) == {Fee[w] : w \in Range(coin[c].broadcasts)}

\* A replacement pays more and batches the same coins: looked up for the first
\* coin of the list only.
ReplacementValid(first, cs, w) ==
  coin[first].broadcasts # << >> =>
    /\ Fee[w] > Max(FeesOf(first))
    /\ cs = wd[Last(coin[first].broadcasts)].coins

\* withdraw_init up to the request to the state entity; only the status tells it
\* that a coin waits for a swap.
WithdrawInit(w, cs) ==
  /\ wd[w].at = "none"
  /\ \A c \in cs : coin[c].status \notin {"AWAITING_SWAP", "WITHDRAWN"}
  /\ \E first \in cs : ReplacementValid(first, cs, w)
  /\ wd' = [wd EXCEPT ![w] = [at |-> "asked", coins |-> cs]]
  /\ UNCHANGED <<chain, withdrawn, coin, disk, loop, bk, confirming, reset, block_height, faults>>

\* The state entity signs for the owner of coins it has not withdrawn.
WithdrawCosigned(w) ==
  /\ wd[w].at = "asked"
  /\ wd[w].coins \cap withdrawn = {}
  /\ wd' = [wd EXCEPT ![w].at = "cosigned"]
  /\ UNCHANGED <<chain, withdrawn, coin, disk, loop, bk, confirming, reset, block_height, faults>>

\* Mutant: a coin that has entered the pool meanwhile stays there.
WithdrawingIfAvailable(c, w) ==
  [coin[c] EXCEPT !.status = IF @ \in {"AWAITING_SWAP", "WITHDRAWN"} THEN @ ELSE "WITHDRAWING",
                  !.broadcasts = Append(@, w)]

Withdrawing(c, w) ==
  [coin[c] EXCEPT !.status = IF @ = "WITHDRAWN" THEN @ ELSE "WITHDRAWING",
                  !.broadcasts = Append(@, w)]

\* The signed transaction arrives: the coins are marked and saved before it is sent.
WithdrawRecorded(w) ==
  /\ wd[w].at = "cosigned"
  /\ wd' = [wd EXCEPT ![w].at = "signed"]
  /\ reset' = reset \ wd[w].coins
  /\ Save(wd[w].coins, LAMBDA c : Withdrawing(c, w))
  /\ UNCHANGED <<chain, withdrawn, loop, bk, confirming, block_height, faults>>

\* A withdrawal the wallet has no transaction of spends no coin.
Unmade == [at |-> "lost", coins |-> {}]

\* The state entity refuses, or an answer of it is lost: the wallet records nothing.
WithdrawRefused(w) ==
  /\ wd[w].at \in {"asked", "cosigned"}
  /\ wd' = [wd EXCEPT ![w] = Unmade]
  /\ UNCHANGED <<chain, withdrawn, coin, disk, loop, bk, confirming, reset, block_height, faults>>

\* The network takes a withdrawal that spends no output spent in a block or by a
\* backup transaction, and pays more than the withdrawals it replaces.
Accepts(w) ==
  /\ \A c \in wd[w].coins : btx[c] = "none"
  /\ \A v \in Spends(wd[w].coins) :
       /\ wd[v].at # "mined"
       /\ wd[v].at = "mempool" => Fee[v] < Fee[w]

Broadcast(w) ==
  /\ wd[w].at = "signed"
  /\ Accepts(w)
  /\ wd' = [v \in Withdrawal |->
              IF v = w THEN [wd[v] EXCEPT !.at = "mempool"]
              ELSE IF v \in Spends(wd[w].coins) /\ wd[v].at = "mempool"
                   THEN [wd[v] EXCEPT !.at = "lost"] ELSE wd[v]]
  /\ UNCHANGED <<chain, withdrawn, coin, disk, loop, bk, confirming, reset, block_height, faults>>

\* The tenth attempt fails: the coins stay WITHDRAWING.
BroadcastFails(w) ==
  /\ wd[w].at = "signed"
  /\ wd' = [wd EXCEPT ![w].at = "lost"]
  /\ UNCHANGED <<chain, withdrawn, coin, disk, loop, bk, confirming, reset, block_height, faults>>

\* Mutant: only the last replacement is looked up.
CheckWithdrawingLastTx(c, w) ==
  /\ coin[c].status = "WITHDRAWING"
  /\ w = Last(coin[c].broadcasts)
  /\ wd[w].at = "mined"
  /\ explorer = "electrs"
  /\ Save(wd[w].coins, LAMBDA d : [coin[d] EXCEPT !.status = "WITHDRAWN"])
  /\ confirming' = confirming \cup {w}
  /\ UNCHANGED <<chain, wd, withdrawn, loop, bk, reset, block_height, faults>>

\* checkWithdrawingTxStatus: one of the coin's withdrawals is confirmed by the
\* lookup's status, and all coins of the withdrawal are.
CheckWithdrawingTxStatus(c, w) ==
  /\ coin[c].status = "WITHDRAWING"
  /\ w \in Range(coin[c].broadcasts)
  /\ wd[w].at = "mined"
  /\ explorer = "electrs"
  /\ Save(wd[w].coins, LAMBDA d : [coin[d] EXCEPT !.status = "WITHDRAWN"])
  /\ confirming' = confirming \cup {w}
  /\ UNCHANGED <<chain, wd, withdrawn, loop, bk, reset, block_height, faults>>

\* withdraw_confirm is answered, or fails and is not posted again.
WithdrawConfirmed(w) ==
  /\ w \in confirming
  /\ confirming' = confirming \ {w}
  /\ withdrawn' \in {withdrawn, withdrawn \cup wd[w].coins}
  /\ UNCHANGED <<chain, wd, coin, disk, loop, bk, reset, block_height, faults>>

----------------------------------------------------------------------------
(* Backup transactions *)

BackupTxCheckRequired(c) ==
  /\ coin[c].backup \notin {"CONFIRMED", "TAKEN"}
  /\ coin[c].status \notin {"WITHDRAWN", "WITHDRAWING"}

BlocksToLocktime(c) == IF Locktime[c] > block_height THEN Locktime[c] - block_height ELSE 0

\* checkLocktime before the lock time: a coin too close to it for a swap is
\* marked in memory, and one that expired by mistake comes back.
CheckLocktime(c) ==
  LET d == [coin[c] EXCEPT
              !.backup = "PRE_LOCKTIME",
              !.status = CASE @ = "AVAILABLE" /\ BlocksToLocktime(c) < SwapLimit -> "SWAPLIMIT"
                           [] @ = "EXPIRED" /\ BlocksToLocktime(c) > SwapLimit -> "AVAILABLE"
                           [] OTHER -> @]
  IN /\ BackupTxCheckRequired(c)
     /\ BlocksToLocktime(c) > 0
     /\ d # coin[c]
     /\ coin' = [coin EXCEPT ![c] = d]
     /\ disk' = IF coin[c].status = "EXPIRED" /\ BlocksToLocktime(c) > 1 THEN coin' ELSE disk
     /\ UNCHANGED <<chain, wd, withdrawn, loop, bk, confirming, reset, block_height, faults>>

\* Mutant: a coin past its swap limit does not expire.
UpdateBackupOfAvailable(c) ==
  /\ BackupTxCheckRequired(c)
  /\ BlocksToLocktime(c) = 0
  /\ bk[c] = "idle"
  /\ bk' = [bk EXCEPT ![c] = IF coin[c].backup = "IN_MEMPOOL" THEN "lookup" ELSE "broadcast"]
  /\ IF coin[c].status = "AVAILABLE"
     THEN Save({c}, LAMBDA d : [coin[d] EXCEPT !.status = "EXPIRED"])
     ELSE UNCHANGED <<coin, disk>>
  /\ UNCHANGED <<chain, wd, withdrawn, loop, confirming, reset, block_height, faults>>

\* updateBackupTxStatus at the lock time: the coin expires, and its backup
\* transaction is sent, or looked up when it is known to be in the mempool.
UpdateBackupTxStatus(c) ==
  /\ BackupTxCheckRequired(c)
  /\ BlocksToLocktime(c) = 0
  /\ bk[c] = "idle"
  /\ bk' = [bk EXCEPT ![c] = IF coin[c].backup = "IN_MEMPOOL" THEN "lookup" ELSE "broadcast"]
  /\ IF coin[c].status \in {"AVAILABLE", "SWAPLIMIT"}
     THEN Save({c}, LAMBDA d : [coin[d] EXCEPT !.status = "EXPIRED"])
     ELSE UNCHANGED <<coin, disk>>
  /\ UNCHANGED <<chain, wd, withdrawn, loop, confirming, reset, block_height, faults>>

\* setStateCoinSpent does nothing to a coin that is waiting or being withdrawn.
Spent(c, status) ==
  IF coin[c].status \in {"AWAITING_SWAP", "WITHDRAWING"} THEN coin[c].status ELSE status

\* What the network says of a backup transaction, and what becomes of the coin.
BroadcastAnswers(c) ==
  LET taken == \E w \in Spends({c}) : wd[w].at \in {"mempool", "mined"} IN
  {[coin[c] EXCEPT !.backup = "IN_MEMPOOL"] :
     x \in {y \in {0} : ~taken /\ btx[c] # "mined" /\ height >= Locktime[c]}} \cup
  {[coin[c] EXCEPT !.backup = "BELOW_MIN_FEE"] : x \in {y \in {0} : ~taken /\ btx[c] = "none"}} \cup
  {[coin[c] EXCEPT !.backup = "CONFIRMED",
                   !.status = IF @ = "EXPIRED" THEN @ ELSE Spent(c, "WITHDRAWN")] :
     x \in {y \in {0} : btx[c] = "mined"}} \cup
  {[coin[c] EXCEPT !.backup = "TAKEN", !.status = Spent(c, "EXPIRED")] :
     x \in {y \in {0} : taken \/ btx[c] = "mined"}} \cup
  {coin[c]}

\* The answer to the broadcast, or its loss; the coin is not saved.
ProcessTXBroadcastResponse(c) ==
  /\ bk[c] = "broadcast"
  /\ bk' = [bk EXCEPT ![c] = "idle"]
  /\ \E d \in BroadcastAnswers(c) :
       /\ coin' = [coin EXCEPT ![c] = d]
       /\ btx' = [btx EXCEPT ![c] = IF d.backup = "IN_MEMPOOL" THEN "mempool" ELSE @]
  /\ UNCHANGED <<explorer, height, wd, withdrawn, disk, loop, confirming, reset, block_height, faults>>

\* checkMempoolTx: only a lookup that answers confirmations confirms the backup.
CheckMempoolTx(c) ==
  /\ bk[c] = "lookup"
  /\ bk' = [bk EXCEPT ![c] = "idle"]
  /\ \/ /\ explorer = "electrum" /\ btx[c] = "mined"
        /\ Save({c}, LAMBDA d :
                  [coin[d] EXCEPT !.backup = "CONFIRMED",
                                  !.status = IF @ = "EXPIRED" THEN @ ELSE Spent(d, "WITHDRAWN")])
     \/ UNCHANGED <<coin, disk>>
  /\ UNCHANGED <<chain, wd, withdrawn, loop, confirming, reset, block_height, faults>>

----------------------------------------------------------------------------

\* The application is closed and the wallet loaded again: requests and loops are
\* gone, a coin that was waiting in the pool is AVAILABLE, and a transaction that
\* was not sent is in nobody's hands.
Restart ==
  /\ faults < MaxFaults
  /\ faults' = faults + 1
  /\ coin' = [c \in Coin |->
                [disk[c] EXCEPT !.status = IF @ = "AWAITING_SWAP" THEN "AVAILABLE" ELSE @]]
  /\ disk' = coin'
  /\ loop' = [c \in Coin |-> "none"]
  /\ bk' = [c \in Coin |-> "idle"]
  /\ confirming' = {}
  /\ wd' = [w \in Withdrawal |->
              IF wd[w].at \in {"asked", "cosigned"} THEN Unmade
              ELSE IF wd[w].at = "signed" THEN [wd[w] EXCEPT !.at = "lost"] ELSE wd[w]]
  /\ UNCHANGED <<chain, withdrawn, reset, block_height>>

Chain ==
  \/ \E ws \in SUBSET Withdrawal, bs \in SUBSET Coin : Block(ws, bs)
  \/ SetBlockHeight
  \/ GetLatestBlockFails

Pool ==
  \E c \in Coin :
    \/ DoSwap(c)
    \/ PrepareStatecoin(c)
    \/ RemoveCoinFromSwapPool(c)
    \/ SwapLoopEnds(c)

Withdraw ==
  \/ \E w \in Withdrawal, cs \in SUBSET Coin \ {{}} : WithdrawInit(w, cs)
  \/ \E w \in Withdrawal :
       \/ WithdrawCosigned(w)
       \/ WithdrawRecorded(w)
       \/ WithdrawRefused(w)
       \/ Broadcast(w)
       \/ BroadcastFails(w)
       \/ WithdrawConfirmed(w)
  \/ \E c \in Coin, w \in Withdrawal : CheckWithdrawingTxStatus(c, w)

Backup ==
  \E c \in Coin :
    \/ CheckLocktime(c)
    \/ UpdateBackupTxStatus(c)
    \/ ProcessTXBroadcastResponse(c)
    \/ CheckMempoolTx(c)

Next == Chain \/ Pool \/ Withdraw \/ Backup \/ Restart

Spec == Init /\ [][Next]_vars

\* The explorer is polled and the display refreshed for ever, and requests are
\* answered or time out.
Fairness ==
  /\ WF_vars(SetBlockHeight)
  /\ \A c \in Coin :
       /\ WF_vars(UpdateBackupTxStatus(c))
       /\ WF_vars(ProcessTXBroadcastResponse(c))
       /\ WF_vars(CheckMempoolTx(c))
       /\ WF_vars(\E w \in Withdrawal : CheckWithdrawingTxStatus(c, w))

FairSpec == Spec /\ Fairness
----------------------------------------------------------------------------
(* Properties *)

\* Withdrawals the wallet has recorded that may be mined. One that is only cosigned
\* is not: its transaction is on its way to the wallet, which has not sent it.
Live == {"signed", "mempool", "mined"}

LiveFor(c) == {w \in Spends({c}) : wd[w].at \in Live}

IsOffered(c) == {coin[c].status, disk[c].status} \cap Offerable # {}

\* A coin offered for swaps, sends and withdrawals, now or after a reload, is
\* not spent by a withdrawal that was signed, however withdrawals are batched,
\* repeated or replaced, and whatever else asks for the coin meanwhile; but for a
\* coin that handleSwapError took out of its withdrawal.
AvailableIsUnspent == \A c \in Coin \ reset : IsOffered(c) => LiveFor(c) = {}

\* All coins of a mined withdrawal are in the end WITHDRAWN, whichever of
\* several replacements was mined, if the explorer answers a status and no loop
\* took the coin out of its withdrawal.
WithdrawalSettles ==
  \A c \in Coin :
    (explorer = "electrs" /\ \E w \in Spends({c}) : wd[w].at = "mined")
       ~> (coin[c].status = "WITHDRAWN" \/ c \in reset)

\* A coin is in the end no longer offered once its lock time is reached, although
\* the height was lost for a time and the coin restored.
ExpiryNoticed ==
  \A c \in Coin : []<>(height < Locktime[c] \/ coin[c].status \notin {"AVAILABLE", "SWAPLIMIT"})
=============================================================================
