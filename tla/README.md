# Mercury wallet: specifications, model checking and proofs

Mercury wallet is a client of statechains: a *statecoin* is a bitcoin output
whose key is shared between the wallet and a state entity, and it changes hands
by changing the wallet's share instead of by a transaction on the chain. A
*swap* exchanges coins of equal value among several wallets in one atomic batch,
so that nobody can tell which coin went where. This directory holds TLA+
modules of the wallet's logic, the TLC runs that check them on small instances,
and TLAPS proofs about them for every instance. Paths below are relative to the
repository's root; `wallet/` abbreviates `src/wallet/`, as do bare file names such as `wallet.ts` or `swap.ts`.

## 1. The system

| component | state | operations | talks to |
|---|---|---|---|
| swap loop (`wallet/swap/`) | `next_step`, `n_retries`, step timer, the coin it swaps | 17 steps in a table, each with three guards and a retry rule | HTTP client, wallet save, coin list |
| wallet swap operations (`wallet/wallet.ts`) | `active`, the coin list, two semaphores | `do_swap`, `resume_swap`, `handleSwapError`, `doPostSwap`, `deRegisterSwapCoin`, `resetSwapStates`, `updateSwapStatus`, `start`/`stop`/`unload` | loop, store, conductor |
| coin list (`wallet/statecoin.ts`) | each coin's status, swap data, backup status | add, spend, remove, the status setters, validation | everyone |
| transfer (`wallet/mercury/transfer.ts`) | none of its own | `transferSender`, `getTransferMsg4`, `transferReceiver`, `transferReceiverFinalize` | state entity, electrum |
| HTTP client (`wallet/http_client.ts`) | semaphore of five permits | `get`, `post` | servers, through the tor adapter |
| swap conductor, state entity | registrations, swaps and their phases, batch transfers, owners | not in this repository | wallets |
| deposits (`wallet/wallet.ts`, `wallet/mercury/deposit.ts`) | coin status, backup transaction, the script that is polled, coins of further payments | `deposit_init`, `checkFundingTxListUnspent`, `depositConfirm`, `checkMultipleDeposits` | explorer, state entity |
| withdrawals and backups (`wallet/wallet.ts`, `wallet/mercury/withdraw.ts`) | broadcasts of a coin, backup status, block height | `withdraw_init`, `broadcastWithdrawal`, `withdraw_confirm`, `checkWithdrawingTxStatus`, `updateBackupTxStatus` | explorer, state entity, swap loop |
| sends and receives (`wallet/wallet.ts`, `wallet/mercury/transfer.ts`, `wallet/recovery.ts`) | coin status, a timer per coin that is sent | `transfer_sender`, `transferUpdateMsg`, `get_transfers`, `transfer_receiver` and its finalize, recovery | state entity, the other wallet |
| store (`store.ts`) | the wallet file: maps of coins and of swapped coins, and a list | store, get, delete | wallet |
| Redux slice (`features/WalletDataSlice.js`) | wallet object, dispatched coin lists | load, reload, stop, unload, the handlers of swaps that end | wallet |
| auto swap and the swap buttons (`AutoSwapToggle.js`, `Swap.js`, `CoinsList.js`, the slice) | `swapPendingCoins`, `inSwapValues`, the switch `swap_auto` of a coin | join, leave, switch on and off, an interval of five seconds | `do_swap`, `deRegisterSwapCoin` |
| tor adapter (`src/tor-adapter/`) | endpoint index, Tor node | proxy routes, endpoint rotation, new circuit | HTTP client, servers |
| lightning adapter (`src/lightning-adapter/`) | LDK client, database of peers and channels, files, chain synchronisation | REST routes, LDK events, a sync every ten seconds | wallet, peers, explorer |
| payments and monitors (`src/lightning-adapter/`, `ChannelList.js`) | payments, files of monitors and of the channel manager, rows of events | send, receive, close, `persist_manager`, the notifications of the channel list | LDK, wallet |

The swap is the core: it is the longest protocol, the one several parties must
finish together, and the one where a coin may be lost or shown twice. What is
hard about it:

* **Interleaving.** JavaScript runs one callback at a time, but every step awaits
  requests and saves, and in between the user leaves the pool, another operation
  saves, or the wallet is unloaded. `unload` tells the loops to end and they
  notice at their next step.
* **Crashes.** The process may stop anywhere. Loading decides from the file what
  is kept: `resetSwapStates` frees coins in a swap before phase 4,
  `deRegisterSwaps` those that wait in a pool, `updateSwapStatus` resumes phase 4.
* **Unreliable delivery.** A request may be lost before or after the server acted
  on it; the wallet sees a timeout either way and retries, or gives up.
* **Others.** The batch needs every participant; it may time out at any moment,
  and the wallet learns the outcome by polling.
* **Failing saves.** Each save may throw after memory was changed.

What makes it correct: the wallet never offers a coin that was given away; the
coin received appears once and only after the transfer; nothing needed to finish
is lost by a crash or error; a swap comes to an end; the coin received can be
signed for.

Around it, the same questions return with other partners. A **deposit** depends on
notifications that may be missed, repeated or late, and on transactions that may be
replaced. A **withdrawal** may be replaced by one with a higher fee while the first is
being mined, and races the lock time of the backup transaction. A **send** is a
protocol of two wallets over a mailbox, each of which may stop in the middle. The
**store** is written in two steps and by every Wallet object that was ever loaded.
The **HTTP client** and the **tor adapter** share permits and an endpoint index among all
requests. **Auto swap** keeps two lists in the Redux store that outlive the swaps, and
even the wallet, they are about. The **lightning adapter** keeps per-channel data in
static fields, synchronises with a chain that moves under it, and writes files that
must be in step when it ends at any moment.

## 2. Modules

| module | what it is |
|---|---|
| `SwapServer` | the conductor and the state entity as one coin sees them; external, modelled from the requests and from the answers and error texts the wallet tells apart |
| `CoinSwap` | one coin through the swap protocol: the loops, the coin in memory, the file, the user's operations, restarts; EXTENDS `SwapServer` |
| `IdealSwap` | the abstract specification: what the wallet shows and what its user owns, with an atomic transfer |
| `CoinSwapInv` | the inductive invariant `IInv` and the assumption `Careful` |
| `MCCoinSwap` | values of the constants for TLC |
| `Deposit` | one coin from its address to AVAILABLE, with the explorer, several payments and restarts |
| `Spending` | coins that wait for a swap, are withdrawn or reach their lock time |
| `Transfer` | a coin sent between wallets, with the state entity's mailbox, restarts and recovery |
| `TransferInv` | the inductive invariant of `Transfer` |
| `Session` | Wallet objects over one file: load, swap loops, saves, stop, unload, crashes |
| `TorAdapter` | the permits of the HTTP client and the tor adapter behind it |
| `LightningAdapter` | openings of channels, their database and files, and the synchronisation with the chain |
| `LightningPayments` | payments through open channels, the files of monitors and manager, events and their notifications |
| `AutoSwap` | the switch, the buttons and the interval that start swaps, and the handlers of their ends |
| `CoinSwap_proofs`, `Deposit_proofs`, `Spending_proofs`, `Transfer_proofs`, `Session_proofs`, `AutoSwap_proofs`, `LightningAdapter_proofs` | what is proved about each (section 4) |
| `Adapters_proofs` | what is proved about `TorAdapter` and `LightningPayments`, which share no state; the names `PaymentsInit`, `PaymentsSpec`, `PaymentsTypeOK` of the latter keep the two apart |
| `MCDeposit`, `MCSpending`, `MCTransfer`, `MCSession`, `MCTorAdapter`, `MCLightningAdapter`, `MCLightningPayments`, `MCAutoSwap` | values of the constants for TLC |

### How CoinSwap corresponds to the code

The model follows **one coin**. An *attempt* is one `Swap` object, with the proof
key that `resume_swap` generated for it; attempts are therefore keys too, and
`swap_address = a` means "made with the key of attempt a".

* `coin`, `disk` are the `StateCoin` in memory and as last saved, reduced to the
  fields the step table reads. `swap_address` also stands for
  `swap_my_bst_data`, set in the same step. `msg3` is the key that
  `swap_transfer_msg_3_receiver` is made out to, `msg4` the key
  `swap_transfer_msg_4` was made with, and `finalized` the key from which the share
  `o2` in `swap_transfer_finalized_data` was derived.
* `out` is the coin received, with its proof key and the key of its share.
* `step`, `nret`, `resumed` are the fields of the `Swap` object. `pc` says where
  the loop is within a step: `ready` before the checks, `wait` for an answer, and
  in step 14 (`transferReceiver`, which makes, saves and posts msg4) `msg4`,
  `post`, `posted`; `poll` and `polled` are the error path of steps 14 and 16.
* `Request(a)` is the part of a step up to its await; the action `On...` of the
  step is the rest of the handler, with its error path, its saves and the
  bookkeeping of `processStepResult`. `StepOk`, `StepRetry` and `Throw` are the
  three ways a step ends; `Throw` includes `handleSwapError`.
* `StatusOK`, `SwapStatusOK` and `PropertiesOK` are the three guards of the step
  table in `swap.init.ts` .. `swap.phase4.ts`. A step whose guard fails throws
  (`StepThrows`); so does one whose retries are used up, except in phase 4.
* `Leave` and `RemoveCoinFromSwapPool` are the two halves of `deRegisterSwapCoin`
  around its await; `Unload` is `stop` and `save`; `Restart`, `DeRegisterSwaps`
  and `UpdateSwapStatus` are the stages of `walletLoad` in `WalletDataSlice.js`.

Abstracted: amounts, addresses, blinded signatures, fees, proofs of inclusion and
UI statuses. The step timer is a possibility that appears once a step was
retried. `saveStateCoin`, two writes in the code, is one write here.
`transfer_sender` and its four signing requests are one request. The steps
that need several requests without changing the coin between them are one
request with several outcomes. A permit of the HTTP client's semaphore appears as
the guard of the second message, which takes them all but one.

The server's choices that matter are all there: a poll of an ended swap may
be answered with null or with an error, the pool may time out, the swap may be
dropped in any phase, a peer may send its message early, late or never, and a
batch ends by finalizing, only if this wallet sent and received, or by timing
out.

### Deposit

`chain` says where each transaction is that pays the coin's address; `coin` and `disk`
are the coin in memory and in the file; `dups` are the outputs `checkMultipleDeposits`
made "-R" coins of. A `query` is a `listunspent` whose answer is still to be handled;
several may be in flight, and `CheckFundingTxListUnspent` handles one output of one of
them, which makes the coin IN_MEMPOOL or UNCONFIRMED and saves it: other answers, calls
and refreshes come between two outputs. A `call` is a call of `depositConfirm` between its
requests. `GetDisplayData` and `GetUnconfirmedAndUnminedCoinsFundingTxData` are the
refreshes that drive a coin on. `connected` is how far `initElectrumClient` came: it may
fail (`InitElectrumClientFails`, the request for the fees at `wallet.ts:1037`), which is
only logged, so that nothing is polled or looked up until the ping makes another client.
`checkUnconfirmedCoinsStatus` does not await its `getTransaction` (`wallet.ts:1328`), so a
coin in the mempool is confirmed only by an answer about its address; when the
subscription was dropped and none is in flight it waits for the next set-up of the
client, and so does a coin not seen yet after a failed set-up: `WaitsForReconnect` in
`DepositSettles`. That the client itself cannot connect, and retries, counts as the time
until the set-up.

Late answers take a coin back, also one that is AVAILABLE. `AvailableIsConfirmed` still
holds then. Two things one would expect do not, and are no properties; TLC gives a
trace of each in the instance of `deposit`, when it is asked whether the output of an
AVAILABLE coin is its own (`coin.funding \notin dups`) and whether its backup spends it
(`coin.backup = coin.funding`):

* *One output, two coins.* By one of two answers in flight the coin is confirmed, and
  `checkMultipleDeposits` makes a "-R" coin of the second payment, after looking "that no
  existing coin exists with this outpoint" (`wallet.ts:2284`). The other answer is from the
  time when that payment was in the mempool: it sets the coin's output to it, since
  `setCoinInMempool` (`statecoin.ts:412`) does not look at the status, and the coin becomes
  AVAILABLE again with the output of the "-R" coin.
* *The backup of another payment.* A call of `depositConfirm` signs the backup for the
  payment seen first; meanwhile an answer sets the coin's output to a second payment and
  drops the backup (`wallet.ts:2191`). The first is mined, `setCoinUnconfirmed` leaves the
  output as it is (`statecoin.ts:438-442`), the call stores its backup (`deposit.ts:254`), and
  the coin becomes AVAILABLE with a backup transaction that spends another output.

### Spending

A withdrawal is its transaction; `Fee` fixes what it pays. `WithdrawInit` has the
checks of `withdraw_init` (the status; for a replacement, `ReplacementValid`: same coins,
higher fee) and ends where it awaits the state entity. `WithdrawCosigned` is the state
entity's signature; only `WithdrawRecorded`, a step later, marks and saves the coins.
In between they are AVAILABLE as before: they may enter the swap pool, be withdrawn
once more, or the wallet be closed, which leaves the transaction in nobody's hands
(`Unmade`). `Broadcast` and `BroadcastFails` are its broadcast.
`loop` is a call of `do_swap`: it starts (`DoSwap`), puts the coin in the pool
(`PrepareStatecoin`), and at its end, or when a check before its first step throws,
`handleSwapError` sets the coin AVAILABLE whatever it has become meanwhile (`SwapLoopEnds`).
That takes a coin out of a recorded withdrawal: a coin that waits in the pool is taken out of
it, as `withdraw_init` asks for (`wallet.ts:3027`), and withdrawn; its loop then notices that it
left, and `handleSwapError` (`wallet.ts:2585`, `statecoin.ts:992`) offers and saves it as AVAILABLE
though its withdrawal is recorded, sent or even mined. `reset` (history) names such a coin
until it is withdrawn again; `AvailableIsUnspent` fails without this exception.
`CheckWithdrawingTxStatus` handles an answer about any of the broadcasts;
`UpdateBackupTxStatus` and the three actions after it are the loop over backup
transactions with its awaits. `explorer` chooses between the two kinds of answers:
electrs gives a status (a withdrawal is found mined, a backup never counts as
confirmed in `checkMempoolTx`), the electrum protocol gives confirmations (the other way
round); hence the premise of `WithdrawalSettles`. Assumed: a coin has one loop at a time
(`AutoSwap` has two); it leaves the pool before its lock time, `SwapLimit` blocks later;
answers about backups come before the next block. Known from the code and outside the
properties: the batch of a replacement is looked up from its first coin only
(`wallet.ts:3095`); a coin that is WITHDRAWING never has its backup broadcast; the post of
`withdraw_confirm` is not repeated; a withdrawal of a duplicate coin (`wallet.ts:3043`) is
not modelled.

### Transfer

The n-th owner of the coin holds the n-th key, so `chain` names owners and
`coin[w][k]` is the status, in wallet `w`, of the coin with the n-th key. `sending`
is the progress of `transfer_sender`, one at a time behind its lock; `timer` are the
coins whose owner is polled every few seconds; `mailbox` and `given` are messages
left with the state entity and shown to the user. `receiving` is a transfer
completed by the state entity and not yet finalized. `torn` (history) marks a wallet
that was closed between a signature and its save, or while only a timer would have
marked its coin: there the code does lose track, and the properties say so. Also
known: a coin that is SENDING is never marked IN_TRANSFER, since
`setStateCoinSpent` (`wallet.ts:1977`) does not list it; a message pasted again while
the coin is being sent on brings the coin back (`transfer_receiver` refuses only an
AVAILABLE one, `wallet.ts:2823`), for which the wallet counts as `torn`: the code then has
two entries of one key, of which the model keeps the AVAILABLE one; with electrs the confirmations of the coin are not checked
(`transfer.ts:423`, the answer has no such field).

### Session

Each load makes a Wallet object, a *session*; all sessions of an application share the
permits and the file. `save[s][c]` is how far a save is: the coin, then the list.
`loop[s][c]` is the swap of a coin; `heir` is the coin received for it. `Crash` may come
between the two writes. `StopAcquires` takes one permit after the other, as `stop`
does; `LoadWallet` releases `N` more, as the constructor's `start` does, so a stop
after the first load does not wait for loops: they go on until their next check, and
may write the file a new session has loaded. What still holds then is
`NothingLost`; `SavedIsLoaded` is about a session alone on its file (`tidy`).
`StopNotStarved` holds while failed writes times deposited coins are at most `N` (100 in
the code): a failed write can jam the mutex and hang every loop of its session. Left out: `updateSwapSemaphore`, which only `stop` takes.

### TorAdapter

`pc` is where a caller or a loop at its second message is; `queue` is the order in
which the semaphore wakes its waiters. A loop takes `newid`, then all permits but one
(`swap.ts:534`; the comment there says all, `MAX - 1` are taken), asks for a new
identity, sends its message and gives back what it has. `at` is the request the adapter
has forwarded: the endpoint, and the length of the list of endpoints it was made with,
which the handler keeps when the list is replaced. `HandleError` moves the index on
along that list, or starts the node when it refuses the connection. `stray` are requests their caller gave up on.

### LightningAdapter

A *call* is one run of the callback in `createChannel` (`wallet.ts`): it posts
`setTxData`, `connectToPeer` and `createChannel`, and stands for the channel it opens.
`key` and `input` are the static fields of `MercuryEventHandler`; `late` are calls whose
`setEventTxData` in `createChannel` (`LightningClient.ts:358`) was not awaited. A query of the
database is one step, so that `FindPeer` and `SaveNewPeerToDB` of two calls
interleave. `ForgetClient` is what every end of the client has in common: `closeLDK`,
a failed start, and `Die`, an unhandled rejection. `SyncHead` to `SyncConfirmed` are the
parts of `sync` between its awaits; `telling` are confirmations told after it, because
`sync_confirmed_transactions` is not awaited. The explorer client is the one of
the development and test networks; a lookup that fails answers undefined or null.
Calls and addresses are numbered in the order in which they appear. Assumed: a
sync begins when no call is under way and ends before the next begins; blocks are
counted once the channels' openings are over, and only while a client has a
channel; the explorer's tip does not go back to an earlier block. Known from the
code and outside the properties: overlapping openings use each other's key and coin
(`OwnCoin` is about the others, `mixed` is the history); a row is never deleted, so a
failed opening blocks its peer for good; with channels in the manager's file no client
starts, because Step 7 of `initializeLDK` looks for the monitors under a wrong
path; the intervals of a closed client go on writing that file.

### LightningPayments

`chan` and `monitor` are LDK's channels and the number of updates in their monitors,
`file` and `lookup` the monitors as `MercuryPersist` wrote them, `manager` what
`MercuryPersister` wrote of the channel manager. `pay` is how far a payment is and `via` its
channel; `raised` are LDK's events, which `HandleEvent` takes in order, saves
(`SaveEventDataToDb`) and answers. `UpdateChannelEventsInfo` is the interval of the
channel list, `SetEventNotificationSeen` its request per event shown. `Update` is LDK
writing a monitor in the step that changes it; when the file cannot be written the
channel is closed (`PermanentFailure`), which for a new channel may happen with its
monitor written and its id or the lookup table not (`OnlyMonitorWritten`). `FileOf(c) == 1`: the number of a file is counted
from names that start with `channels`, but the names saved start with the wallet's
folder (`MercuryPersist.ts:143`), so all channels share one file; `ManagerNotAhead` is about
the channel whose monitor it holds. Known from the code and outside the
properties: a client with channels does not start again (`initializeLDK.ts:180`, a
missing "/"), hence the guard of `StartLDK`; `createInvoice` is given its arguments in each
other's place (`serverRoutes.ts:112`); `sendPayment` answers with success for a
payment LDK refused; the events of one channel only are ever asked for
(`channelRoutes.ts:238`, `EventChannel`); after a cooperative close the list is
updated by a name that does not exist (`WithdrawLightning.js:156`).

### AutoSwap

`pending` and `inSwapValues` are the two lists in the store, `single` is
`config.singleSwapMode`. A slot of `calls` is one call of `do_swap`: who made it (`hand`,
`auto`, or `load` for a swap the wallet resumed), where it is, and the coin received
(`heir`). What the swap does to its coin is in `CoinSwap`; here `UpdateStateCoinToPhase1`,
`EnterPhase4`, `LoopFails`, `BatchEnded`, `RegistrationFails` and `SetStatecoinOut` keep of it
what the lists depend on. `HandleEndSwap` and `HandleEndAutoSwap` are the handlers of
its end, `LeaveDone` that of a coin that left the pool. Five history variables
name what the code is known to do, so that the properties speak of the rest:
`freed`, a value freed under a swap of it, by turning a switch off (against the tooltip at
`Coin.js:47`) or by a swap that ends while no wallet is loaded (`handleEndSwap` then empties
both lists); `stuck`, a value left taken because
`handleEndAutoSwap` returns early after "Failed statecoin registration"; `dropped`, a coin
with its switch on that nothing will start (a refused start, Leave Group, the end of
a resumed swap); `stale`, a coin left in the list by a wallet that was unloaded, or put there by one of
its calls;
`given`, a coin a second call of `do_swap` reset to AVAILABLE under the first, which then
gave it away. `LoadWallet` waits for nobody: the calls of the old wallet become
`leftover`, with the switches of the old StateCoin objects, and their handlers run in
the new one. How far such a call still gets is left open: after `stop` it ends before
its next step, after `reloadWallet` (a change of the settings), for which `Logout` stands
too, it goes on. A coin it receives is saved by the old wallet's list; whether the new
one ever shows it is left open (`"ELSEWHERE"`), what it does to the file is the matter of
`Session`. Assumed: the interval is longer than the beginning of a call, and a group
takes longer to form than another call to begin; one coin at a time leaves with the
button (`swapLoad.leave`). A call that was left over does not change the coins of the new
wallet: it has StateCoin objects of its own.

## 3. What is checked

Bounds of the swap runs: `MaxSwaps` swaps the conductor makes with the coin, `MaxReps` for
`SWAP_RETRY.MAX_REPS_PER_STEP` (120 in the code), `RegLimit` for the ten retries
of a registration, `MaxRestarts` restarts, and the number of attempts. Two
retries already distinguish a first try, a repeated one and the last; two swaps
make data of one swap meet the next; a restart within the second attempt still
leaves a third to resume it. `SaveFails` is the set of saves that may throw;
`Hasty` lets a user start a swap while the wallet is loading or while an older
loop has not noticed its end. Deadlock is not checked because a wallet that was
unloaded, or has used up the bounded attempts, really stops; so do the other
models at the end of their bounds.

| run | bounds | shows |
|---|---|---|
| `swap_alive` | 2 attempts, 2 swaps, no restart | `SwapSettles`: a coin in a swap leaves it, or its loop has ended (the code ends a loop with the coin in phase 4 when step 15 is answered with "No data for identifier"; the next load resumes it). `ReceivedCoinUsable`: without a restart the share of the received coin belongs to its key |
| `swap_restart` | 3 attempts, 2 swaps, 1 restart, symmetry of attempts | `TypeOK`, `TransferredNotOffered`, `CommittedKeepsData`, and `KeepsPromise`: `CoinSwap` implements `IdealSwap` |
| `swap_resume_key_share` | 2 attempts, 1 swap, 1 restart | finding: `ReceivedCoinUsable` violated |
| `autoswap_load` | as in `autoswap` | finding: `OffWhenLoaded` violated |
| `deposit` | 2 transactions, 2 answers in flight, 1 call, 2 confirmations required, height 2, 1 reconnect | `AvailableIsConfirmed`; `DepositSettles`: a mined payment makes the coin AVAILABLE |
| `spending` | a coin that reaches its lock time and a young one, which alone the user puts in the pool (`Pooled`), 2 withdrawals of which the second pays more, height 3, 2 faults (failed polls and restarts, `MaxFaults`) | `AvailableIsUnspent`; `WithdrawalSettles`, `ExpiryNoticed` |
| `transfer` | 2 wallets with 3 addresses, 3 owners, 2 restarts or recoveries | `AvailableIsOwned`, `SendingHasMessage`, `CoinsAreMine`; `TransferSettles` |
| `session` | 2 session names, 2 loads, 3 permits, 1 crash, 1 failing write; symmetry of sessions | `NothingLost`, `SavedIsLoaded`, `StopNotStarved` |
| `adapter` | a caller and two loops over 3 permits and 2 endpoints; one timeout, crash of the node, update of the list and outage each | `SecondMessageAlone`; `SecondMessageSettles`, `Served` |
| `lightning` | 2 calls, 3 addresses with 2 peers, 3 blocks, 1 fault (failed request, broken connection, close, reorganisation) | `OneChannelPerRow`, `OwnCoin`; `FundingConfirmed`, `StaleTakenBack` |
| `payments` | 2 channels, 1 payment, 1 fault (end of the adapter, failed write or request, close) | `ManagerNotAhead`; `PaymentClaimed`, `EventShown` |
| `autoswap` | 2 coins of one value in single swap mode with 3 clicks and 1 coin otherwise with 1, 1 coin received, 1 fault (refusal, failed request, lost connection, logout) | `PendingIsAuto`, `SwapsWithOthers`; `AutoGoesOn` |

Each instance is the smallest in which its hazards meet: two payments to one
address and two answers about it in flight; a replacement mined after its successor was broadcast, a coin that enters the pool while its withdrawal is asked for,
and one that expires while another does not; a coin sent on, sent back and sent within a wallet;
a session that starts while loops of the last one run; two loops at their second
message with a caller between; two openings for one address, for one peer and
for two peers, a funding in a block that leaves the chain; a payment
whose adapter ends between two files; a switch turned off while another coin of
its value swaps, and a login while a swap of the old wallet goes on. `TypeOK` is checked in one run of
each model.

**Refinement.** `IdealSwap` has two variables: `held`, the coin the wallet shows as
spendable ("input", "output", or "pending" for none), and `owned`, the coin that
is the user's on the state entity. The mapping is `Held` and `Owned` in
`CoinSwap`: shown is the output once it is in the wallet, else the input when it
is AVAILABLE; owned is the output once a batch was finalized. So a wallet that
makes its input AVAILABLE after the transfer, or adds the output before it, or
drops back from the output to the input on a reload, has no ideal step.

**Fairness** (only in `FairSpec`). In `swap_alive`: A started loop goes on:
its next step is a promise or a timer of the JavaScript event loop (weak
fairness of `LoopNext`). A request repeated for ever is in the end answered
(strong fairness of the requests restricted to a delivered answer: retries
alternate between enabled and disabled). The state entity ends every batch
transfer, which has a lifetime (weak fairness of `BatchEnds`). Nothing is assumed
of the user, of the peers, or of the conductor in phases 1 to 3: there the retry
limit ends the loop. In the other modules the same two reasons carry every
condition: an interval of the code goes on firing (polls of the height and of an
address, display refreshes, the owner's timer, the sync of the lightning adapter:
weak fairness), and a request that is repeated for ever is in the end answered
(strong fairness of `DepositConfirmed` and `TransferReceiverFinalize`, whose tries
alternate with their failures). The set-up of a client comes to its end, good or bad. Blocks are found where a property waits for one;
an endpoint that is down and a node that was started come up. In `AutoSwap` the interval
fires, a call of `do_swap` begins and ends (what `SwapSettles` is for), its handler runs,
also when its wallet was unloaded, and a lost connection returns; in `LightningPayments` the two intervals fire and a
peer takes the preimage it is given. No fairness is
given to users, senders, peers or restarts, nor to a loop's beginning a second
message.

**Findings.** Each is a run that TLC refutes.

1. *A resumed swap gets a wrong key share* (`swap_resume_key_share`). `resume_swap`
   (`wallet.ts:2538`) makes a new proof key for every attempt. When msg4 was made before
   the restart, the resumed attempt posts it and derives the share `o2` from its own, new
   key. The check that would refuse this (`transfer.ts:503-505`) sits inside the branch
   for a signature that does not verify.
2. *Auto swap survives a logout* (`autoswap_load`). `swapPendingCoins` is not cleared when
   the wallet is unloaded. After the next login `disableAutoSwaps` has turned the
   coin's switch off, and still the interval starts a swap of it.

What else the code is known to do against one's expectation is named with its module in
section 2; the properties except it by name.

Known from the code, and why the theorems ask for a careful user and for saves that
do not fail: when the first attempt was stopped in phase 4 before msg4 was made, the
resumed one compares its new key with the one in msg3, throws "Transfer not made to
this wallet", and gives the swap up though the batch is open (`wallet.ts:2489` promises
"Always try and resume coins in swap phase 4 so transfer is completed"); no coin is
lost by this, but the whole batch fails. `setStatecoinOut` changes the coin before
`addStatecoin` saves (`swap.ts:916-936`): when the save throws, the retried step fails its
status check, and `handleSwapError` clears a swap that is complete on the server.
`updateSwapStatus` resets a running swap when the user starts one while the wallet is
still loading: the home page is shown before `walletLoadConnection` is through, and
the function does not look for running loops.

## 4. What is proved

Each theorem holds for every value of the constants that satisfies the assumptions
declared beside them (TLC evaluates these in each run): for any number of coins,
attempts, wallets, requests, permits, channels and restarts, and for any bound. A
hypothesis beyond them is written into the theorem and named here. All are stated of
`Spec`, without fairness. Each `..._proofs` module states its inductive invariant
first, proves one lemma per action or group of actions, and ends with the theorems.

| module | theorems | of |
|---|---|---|
| `CoinSwap_proofs` | `Typing`; under `Careful`: `Invariance`, `NotOffered`, `NotCountedTwice`, `DataKept`, `LeftAlone`, `UsableUnlessResumed`, `PromiseKept`; of `IdealSwap`: `ShownIsOwned` | `TypeOK`, `TransferredNotOffered`, `ReceivedNotCountedTwice`, `CommittedKeepsData`, `RunningSwapLeftAlone`, `ReceivedCoinUsable`, `KeepsPromise` |
| | `UsableWithoutRestart`, under `Careful` and `MaxRestarts = 0` | `ReceivedCoinUsable`, as in `swap_alive` |
| `Deposit_proofs` | `Invariance`, `Typing`, `OfferedIsPaid` | `TypeOK`, `AvailableIsConfirmed` |
| `Spending_proofs` | `Invariance`, `Typing`, `OfferedIsUnspent` | `TypeOK`, `AvailableIsUnspent` |
| `Transfer_proofs` | `Invariance`, `TransferTyping`, `OfferedIsOwned`, `SentHasMessage`, `OnlyMyCoins` | `TypeOK`, `AvailableIsOwned`, `SendingHasMessage`, `CoinsAreMine` |
| `Session_proofs` | `Invariance`, `SessionTyping`, `CoinsKept`, `LoadGivesSaved` | `TypeOK`, `NothingLost`, `SavedIsLoaded` |
| | `StopGetsPermits`, `StopNeverStarved`, for finitely many deposits, with the number of failed writes times that of deposits at most `N` | `StopNotStarved` |
| `AutoSwap_proofs` | `Invariance`, `Typing`, `PendingCoins`, `NotWithOneself` | `TypeOK`, `PendingIsAuto`, `SwapsWithOthers` |
| `Adapters_proofs` | of `TorAdapter`: `TorInvariance`, `TorTyping`, `Alone` | `TypeOK`, `SecondMessageAlone` |
| `LightningAdapter_proofs` | `Invariance`, `Typing`, `OneChannel`, `FundedByOwnCoin` | `TypeOK`, `OneChannelPerRow`, `OwnCoin` |
| `Adapters_proofs` | of `LightningPayments`: `LightningInvariance`, `LightningTyping`, `MonitorNotBehind` | `PaymentsTypeOK`, `ManagerNotAhead` |

### The swap

`Typing` needs nothing. The others hold under `Careful`: the user is not hasty, and the
saves of msg4 and of the received coin do not throw; all other saves may. Each part is
needed: the failing save of the received coin and the hasty user are described in
section 3, and a msg4 whose save threw is posted by the next try from memory, so that
a restart after the post finds no msg4 in the file, makes one with a new key, is
refused and frees a coin that was given away.

The safety properties are not inductive: that a finalized coin is not AVAILABLE
depends on the fact that its loop is in phase 4 with msg4, that no other loop
and no half-finished `deRegisterSwapCoin` can reset it, and that the file says the
same. `IInv` (`CoinSwapInv`) states this in parts: `ServerInv` (one swap at a time,
none after the transfer), `CoinInv` (a coin in phase 4 has the data of phase 4,
in memory and in the file), `OneLoop` (at most one loop, none while loading),
`LoopInv` (what the coin holds when its loop is at a step and a place in it),
`ReplyInv` (what an answer in flight says is still so), `DiskInv` (msg4 and the
received coin are saved) and `CommitInv` (from the post on, the coin is in phase
4 with its msg4 in the swap the server runs). `TransferredNotOffered` follows
from `CommitInv`, `CoinInv` and `DiskInv`. The loop's steps share a lemma per way a step
ends. The refinement takes each action to a step of `IdealSwap` or a stutter, with
`IInv` before and after; that the ideal swap never shows a coin its user does not own
is a theorem about it alone.

`ReceivedCoinUsable` is false of a swap that was resumed (finding 1).
`UsableUnlessResumed` says that this is the only way: over any restarts, as long as no
swap was resumed, the share of the received coin is made from the key the coin was
sent to. Its invariant `KeyInv` adds to `IInv` that the message and the share a running
loop has are of its own key. `UsableWithoutRestart` adds that a wallet that was never
restarted resumes nothing (`FreshInv`).

### Deposits and withdrawals

`Deposit`: an answer about the address may be older than the chain, so that an AVAILABLE
coin is paid rests on `QueryInv` (an output with a height was mined at it, however old
the answer) and `PaidInv` (an UNCONFIRMED coin, in memory or in the file, counts from a
block that holds a payment, and the wallet's height is not above the chain's). Both hold
for any number of answers in flight, handled output by output (`AnswerHandled` is one
output). Blocks do not leave the chain in this model.

`Spending`: `OfferedInv` says more than `AvailableIsUnspent`: an expired coin that may be
restored (`checkLocktime`) is not spent either, and the file says the same as memory as far
as that goes. It holds of a coin that no loop has taken out of its withdrawal (`Excused`);
nothing keeps a coin's loop and its withdrawal apart, neither in the code nor in the
model, so the exception cannot be dropped (section 2). The point of the proof is the
record: `WithdrawRecorded` marks the coin whatever it has become since it was asked for, in
memory and in the file at once, which also ends the exception. `RequestInv` says that an
answer about a backup transaction comes before anything settles it.

### Sends, sessions, the tor adapter

`Transfer`: that an offered coin is owned is not inductive, because the message of a
transfer that was begun may complete it at any time. `MessageInv` says that messages and
the prepared transfer are never newer than the present owner and the mailbox holds the
newest only; `MineInv` that all a wallet holds or handles is its own; `CoinInv` that
memory and file have the same coins; `TrackInv` that a coin AVAILABLE without a timer was
never handed out, in memory and in the file, and what is on its way has a message.

`Session`: `KeptInv` relates the maps of the file to the ids of swapped coins through each of
the two writes; `TidyInv` relates the file to the memory of a session alone on it, for
every place a save can be at. `PermitInv` keeps the accounts of the shared permits: `N` and
what the stops of loaded wallets have still to take are at most what is free, what loops
hold, and what is gone; and what is gone, with the loops of jammed sessions and those
about to end without giving theirs back, is at most one permit for each failed write and
deposited coin. That hypothesis cannot be dropped: a permit a failed save costs is never
released, and the run has one failing write, one deposit and three permits.

`TorAdapter`: the permits are conserved (`PermitsInv`: those that are free, those of requests
under way and those the one loop in `newid` has collected add up to the count of the
semaphore), the queue holds every waiter once (`QueueInv`), and a loop that waits for its
new identity has all permits but one (`LoopInv`), so nobody else has any.

### Auto swap

That single swap mode keeps the coins of one value apart is not inductive: what the buttons,
the switch and the interval look at is not the calls under way but `inSwapValues`.
`SingleInv` ties the two together and goes further than `SwapsWithOthers`: until the handler
of a call has run, not only while it swaps, its value is in the list and no other call has
it. So the handler that takes the value off the list frees the value of no other swap. The
switch does just that, and `freed` excepts it; a value is excepted until no call of
it is left. A login does not wait for the calls of the old wallet: `LeftSingleInv` says that
they hold their values as the wallet's own do, against each other and against the new
wallet's calls. While no wallet is loaded a handler may empty the list under running
swaps; their values are `freed` then, until the last of them is over.

`PendingIsAuto` needs to know which coins still have a handler (`PendingInv`): a coin whose
switch is off may be in the list only as long as a call of the buttons or the interval
is under way, or after a login, when the handlers of the old wallet's calls read the
switches of the old objects (`stale`). A failed registration with a group switches auto swap off, and a swap that
was resumed has no handler; `ResumedInv` (such a swap is in phase 4 and its coin's only
loop) shows that the two do not meet. What one press of a button, or one round of the
interval, starts is the result of a pass over a list; `PickedWell` says, by induction over
the list, that those coins are AVAILABLE, have a call left and, in single swap mode, values
that are free and of one coin each. `Removed` says what is left of the pending list.

### The lightning adapter

`LightningAdapter`: `PeersInv` counts the rows of peers against the calls that got one, so that
the id of a new row is new; `RowsInv` keeps `OneChannelPerRow` through the queries between
the select and the insert; `MixedInv` says that an opening that overlapped no other
finds its own key and coin in the static fields, from the request that set them to
the funding.

`LightningPayments`: `FileInv` says that the one file that is ever written holds the last
update of the channel it is of, because LDK waits for it in the step that changes the
monitor, and that the manager's file is at most as recent as the monitors in memory.

### Only model-checked

Every invariant a run checks is stated by a theorem, some under the hypotheses of the
table. What is left to TLC:

* Everything about liveness, which with fairness is out of the prover's reach:
  `SwapSettles`, `DepositSettles`, `WithdrawalSettles`, `ExpiryNoticed`, `TransferSettles`,
  `SecondMessageSettles`, `Served`, `FundingConfirmed`, `StaleTakenBack`, `PaymentClaimed`,
  `EventShown`, `AutoGoesOn`.
* The two findings, which are traces.

## 5. Not modelled, and the plan

`PROJECT.json` lists every component and hazard, and for a hazard no property covers
the reason. What is next, in order:

1. The explorer clients and the connection they keep (`electrum.ts`, `electrs.ts`,
   `electrs_local.ts`, `eps.ts`, the ping of the slice), with the change of the network.
2. The processes: `public/electron.js`, the tor adapter's settings and shutdown.
3. A coin that is in a swap, and not only in the pool, when it is spent: `CoinSwap`
   composed with `Spending`, and with the file as `Session` has it after a login.
4. Withdrawals of duplicates and CPFP; tokens; the grouping of recovered
   withdrawals; the messages of the two-party ECDSA client; the fee and transaction
   builders of `util.ts`.

Left out for good: the cryptography (its outcome is what the models use), React
components (display and forms; which operations they offer is in the guards of the
user's actions), logging and activity records, packaging, images and binaries.
