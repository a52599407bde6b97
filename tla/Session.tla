------------------------------ MODULE Session ------------------------------
(***************************************************************************)
(* The life of the wallet objects of one running application: a wallet is  *)
(* loaded from its file, swaps its coins, saves them, is stopped,          *)
(* unloaded and loaded again, and the application may be killed at any     *)
(* moment.  Each load makes a new Wallet object, a session here; the swap  *)
(* loops of an old one go on until they next look at its "active" flag and *)
(* write to the same file.  The permits of swapSemaphore belong to the     *)
(* module wallet.ts and are shared by all sessions.                        *)
(***************************************************************************)
EXTENDS Naturals, FiniteSets, FiniteSetsExt

CONSTANTS
    Coin,        \* shared key ids
    Deposited,   \* those of deposits; the others are received in swaps
    SessionId,   \* names of wallet objects; a quiet unloaded one is reused
    NoSession,
    N,           \* MAX_SWAP_SEMAPHORE_COUNT
    MaxLoads,    \* bound: loads
    MaxCrashes,  \* bound: times the application is killed
    MaxFailures  \* bound: writes to the file that throw

ASSUME SessionAssumption ==
    /\ NoSession \notin SessionId /\ Deposited \subseteq Coin
    /\ N \in Nat \ {0}
    /\ MaxLoads \in Nat /\ MaxCrashes \in Nat /\ MaxFailures \in Nat

VARIABLES
    wallet,    \* the slice's variable "wallet": a session or NoSession
    active,    \* Wallet.active of each session
    stop,      \* how far Wallet.stop of each session is
    taken,     \* permits it holds
    list,      \* statecoins.coins of each session: the status of each coin
    save,      \* how far the save of a coin is, in each session
    jammed,    \* sessions whose saveMutex is never released again
    loop,      \* the swap loop of a coin, in each session
    file,      \* the wallet file
    permits,   \* swapSemaphore
    heir,      \* the coin the state entity gave for a swapped one, else itself
    loads, crashes, failures,
    kept,      \* history: coins whose first save reached the file
    tidy       \* history: sessions that alone wrote the file since their load

memory == <<active, stop, taken, list, save, jammed, loop>>
vars == <<wallet, memory, file, permits, heir, loads, crashes, failures,
          kept, tidy>>

(***************************************************************************)
(* Coins.  "IN_SWAP" stands for AWAITING_SWAP and for IN_SWAP before the   *)
(* commitment, "PHASE4" for IN_SWAP with swap_status Phase4, whose swap    *)
(* data survive.                                                           *)
(***************************************************************************)
Status == {"NONE", "INITIALISED", "AVAILABLE", "IN_SWAP", "PHASE4", "SWAPPED"}
Coins == [Coin -> Status]
NoCoins == [c \in Coin |-> "NONE"]
NewDeposits == [c \in Coin |-> IF c \in Deposited THEN "INITIALISED" ELSE "NONE"]
In(l) == {c \in Coin : l[c] # "NONE"}
SwappedIn(l) == {c \in Coin : l[c] = "SWAPPED"}

(***************************************************************************)
(* The file: statecoins_obj, the keys of swapped_statecoins_obj, and the   *)
(* list saved under "statecoins".                                          *)
(***************************************************************************)
File == [obj : Coins, ids : SUBSET Coin, list : Coins]

StoreWalletStateCoin(f, c, v) ==
    IF v = "SWAPPED"
    THEN [f EXCEPT !.obj[c] = "NONE", !.ids = @ \union {c}]
    ELSE [f EXCEPT !.obj[c] = v]

DeleteWalletStateCoin(f, c) == [f EXCEPT !.obj[c] = "NONE"]

SaveKey(f, l) == [f EXCEPT !.list = l]

StoreWalletStateCoinsArrayReplaces(f, l) ==
    [f EXCEPT !.obj = [c \in Coin |-> IF c \in SwappedIn(l) THEN "NONE" ELSE l[c]],
              !.ids = @ \union SwappedIn(l)]

StoreWalletStateCoinsArray(f, l) ==
    [f EXCEPT !.obj = [c \in Coin |-> IF c \in SwappedIn(l) THEN "NONE"
                                      ELSE IF c \in In(l) THEN l[c] ELSE @[c]],
              !.ids = @ \union SwappedIn(l)]

StoreWallet(f, l) == SaveKey(StoreWalletStateCoinsArray(f, l), l)

LoadStatecoinsQuick(f) ==
    IF In(f.list) = {} THEN f ELSE StoreWalletStateCoinsArray(f, f.list)

(* setConfirmed: the coin a load resets is not in a swap any more *)
ResetStatus(v) == IF v = "IN_SWAP" THEN "AVAILABLE" ELSE v

----------------------------------------------------------------------------
(***************************************************************************)
(* Saving.  A save has two writes, each under the session's mutex; a       *)
(* write that throws leaves "failed" for the caller that awaits it.        *)
(***************************************************************************)
Saved(s, c) == save[s][c] = "none"
Awaited(s, c) == \E b \in Coin : loop[s][b] # "none" /\ (b = c \/ heir[b] = c)
WriteBy(s) == /\ s \notin jammed
              /\ tidy' = tidy \intersect {s}

SaveCoin(s, c, v) ==
    /\ list' = [list EXCEPT ![s][c] = v]
    /\ save' = [save EXCEPT ![s][c] = "coin"]
    /\ UNCHANGED <<active, stop, taken, jammed>>

SaveStateCoinOnly(s, c) ==
    /\ save[s][c] = "coin"
    /\ WriteBy(s)
    /\ file' = StoreWalletStateCoin(file, c, list[s][c])
    /\ save' = [save EXCEPT ![s][c] = "none"]
    /\ kept' = kept \union {c}
    /\ UNCHANGED <<wallet, active, stop, taken, list, jammed, loop, permits,
                   heir, loads, crashes, failures>>

(* the first write of saveStateCoin *)
SaveStateCoin(s, c) ==
    /\ save[s][c] = "coin"
    /\ WriteBy(s)
    /\ file' = StoreWalletStateCoin(file, c, list[s][c])
    /\ save' = [save EXCEPT ![s][c] = "list"]
    /\ kept' = kept \union {c}
    /\ UNCHANGED <<wallet, active, stop, taken, list, jammed, loop, permits,
                   heir, loads, crashes, failures>>

(* deleteStateCoin, for a coin no longer in the list *)
DeleteStateCoin(s, c) ==
    /\ save[s][c] = "delete"
    /\ WriteBy(s)
    /\ file' = DeleteWalletStateCoin(file, c)
    /\ save' = [save EXCEPT ![s][c] = "list"]
    /\ kept' = kept \ {c}
    /\ UNCHANGED <<wallet, active, stop, taken, list, jammed, loop, permits,
                   heir, loads, crashes, failures>>

(* saveItem("statecoins"): the whole list; removeStatecoin calls it before too *)
SaveItem(s, c) ==
    /\ save[s][c] \in {"list", "remove"}
    /\ WriteBy(s)
    /\ file' = SaveKey(file, list[s])
    /\ save' = [save EXCEPT ![s][c] = IF @ = "remove" THEN "delete" ELSE "none"]
    /\ UNCHANGED <<wallet, active, stop, taken, list, jammed, loop, permits,
                   heir, loads, crashes, failures, kept>>

(* a write throws; saveItem does not release the mutex then *)
SaveThrows(s, c) ==
    /\ failures < MaxFailures
    /\ s \notin jammed
    /\ save[s][c] \in {"coin", "delete", "list", "remove"}
    /\ failures' = failures + 1
    /\ jammed' = IF save[s][c] \in {"list", "remove"} THEN jammed \union {s} ELSE jammed
    /\ save' = [save EXCEPT ![s][c] = IF Awaited(s, c) THEN "failed" ELSE "none"]
    /\ tidy' = tidy \ {s}
    /\ UNCHANGED <<wallet, active, stop, taken, list, loop, file, permits,
                   heir, loads, crashes, kept>>

(* save(): the coins merged into the file and then the list, in one go *)
SaveWallet(s) ==
    /\ wallet = s
    /\ WriteBy(s)
    /\ file' = StoreWallet(file, list[s])
    /\ kept' = kept \union In(list[s])
    /\ UNCHANGED <<wallet, memory, permits, heir, loads, crashes, failures>>

----------------------------------------------------------------------------
(***************************************************************************)
(* Coins that come and go.                                                 *)
(***************************************************************************)
NoFile == <<wallet, file, loads, crashes, failures, kept, tidy>>
Busy(s) == \E c \in Coin : loop[s][c] # "none" \/ save[s][c] # "none"
Unused(c) == /\ heir[c] = c
             /\ \A b \in Coin : b # c => heir[b] # c
             /\ c \notin In(file.obj) \union In(file.list) \union file.ids
             /\ \A s \in SessionId : list[s][c] = "NONE"

(* the wallet file holds coins of deposits that are not yet paid; one is paid *)
DepositConfirmed(c) ==
    /\ wallet # NoSession /\ list[wallet][c] = "INITIALISED" /\ Saved(wallet, c)
    /\ SaveCoin(wallet, c, "AVAILABLE")
    /\ UNCHANGED <<NoFile, loop, permits, heir>>

(* removeStatecoin, of a coin nothing was paid to *)
RemoveStatecoin(c) ==
    /\ wallet # NoSession /\ list[wallet][c] = "INITIALISED" /\ Saved(wallet, c)
    /\ list' = [list EXCEPT ![wallet][c] = "NONE"]
    /\ save' = [save EXCEPT ![wallet][c] = "remove"]
    /\ UNCHANGED <<NoFile, active, stop, taken, jammed, loop, permits, heir>>

----------------------------------------------------------------------------
(***************************************************************************)
(* Swaps.  A loop waits for a permit ("queue"), looks at the wallet's flag *)
(* ("check"), takes a step ("step"), and ends: the new coin is saved, at   *)
(* the end of the last step ("received") and once more ("again"), then the *)
(* old one ("spent"), and the permit is given back; after an error it is   *)
(* given back as soon as the save is over ("release").                     *)
(***************************************************************************)
Goto(s, c, p) == loop' = [loop EXCEPT ![s][c] = p]
Stays == UNCHANGED <<NoFile, active, stop, taken, jammed>>

(* do_swap; a coin in phase 4 is resumed.  updateSwapStatus resumes it too *)
DoSwap(c) ==
    LET s == wallet IN
    /\ s # NoSession /\ active[s] /\ loop[s][c] = "none"
    /\ c \in Deposited  \* bound: a coin is swapped once
    /\ list[s][c] \in {"AVAILABLE", "PHASE4"}
    /\ Goto(s, c, "queue")
    /\ Stays /\ UNCHANGED <<list, save, permits, heir>>

(* do_swap takes a permit, finds the coin in no pool and gives it back;    *)
(* resume_swap takes one; do_swap_poll validates and resets the coin       *)
ResumeSwap(s, c) ==
    /\ loop[s][c] = "queue" /\ permits > 0
    /\ permits' = permits - 1
    /\ list' = [list EXCEPT ![s][c] = IF @ = "AVAILABLE" THEN "IN_SWAP" ELSE @]
    /\ Goto(s, c, "check")
    /\ Stays /\ UNCHANGED <<save, heir>>

CheckWalletStatus(s, c) ==
    /\ loop[s][c] = "check" /\ Saved(s, c) /\ active[s]
    /\ Goto(s, c, "step")
    /\ Stays /\ UNCHANGED <<list, save, permits, heir>>

(* a step is done, or to be retried *)
DoNext(s, c) ==
    /\ loop[s][c] = "step"
    /\ Goto(s, c, "check")
    /\ Stays /\ UNCHANGED <<list, save, permits, heir>>

(* transferSender and makeSwapCommitment save; a save that throws is retried *)
MakeSwapCommitment(s, c) ==
    /\ loop[s][c] = "step" /\ list[s][c] = "IN_SWAP" /\ Saved(s, c)
    /\ SaveCoin(s, c, "PHASE4")
    /\ Goto(s, c, "check")
    /\ UNCHANGED <<NoFile, permits, heir>>

SaveRetried(s, c) ==
    /\ loop[s][c] = "check" /\ save[s][c] = "failed"
    /\ save' = [save EXCEPT ![s][c] = "none"]
    /\ Stays /\ UNCHANGED <<list, loop, permits, heir>>

(* transferReceiverFinalize: the old coin is SWAPPED in memory, the new one *)
(* is added and saved                                                       *)
TransferReceiverFinalize(s, c) ==
    \E d \in Coin :
        /\ loop[s][c] = "step" /\ list[s][c] = "PHASE4" /\ heir[c] = c
        /\ d \notin Deposited /\ d # c /\ Unused(d)
        /\ heir' = [heir EXCEPT ![c] = d]
        /\ list' = [list EXCEPT ![s][c] = "SWAPPED", ![s][d] = "AVAILABLE"]
        /\ save' = [save EXCEPT ![s][d] = "coin"]
        /\ Goto(s, c, "received")
        /\ Stays /\ UNCHANGED permits

(* handleSwapError: before phase 4, and for some errors in it, the swap data *)
(* go; the check of an inactive wallet is not one of those                    *)
HandleSwapError(s, c) ==
    /\ \/ loop[s][c] = "step"
       \/ loop[s][c] = "check" /\ Saved(s, c) /\ ~active[s]
    /\ \/ /\ list[s][c] = "IN_SWAP" \/ loop[s][c] = "step"
          /\ SaveCoin(s, c, "AVAILABLE")
       \/ /\ list[s][c] = "PHASE4"
          /\ UNCHANGED <<active, stop, taken, jammed, list, save>>
    /\ Goto(s, c, "release")
    /\ UNCHANGED <<NoFile, permits, heir>>

(* the save of the new coin throws: the step is retried, finds the old one   *)
(* SWAPPED and throws, and handleSwapError takes that back                    *)
ReceivedNotSaved(s, c) ==
    /\ loop[s][c] = "received" /\ save[s][heir[c]] = "failed"
    /\ list' = [list EXCEPT ![s][c] = "AVAILABLE"]
    /\ save' = [save EXCEPT ![s][heir[c]] = "none", ![s][c] = "coin"]
    /\ Goto(s, c, "release")
    /\ Stays /\ UNCHANGED <<permits, heir>>

(* doPostSwap: the new coin is saved once more ... *)
SaveNewStatecoin(s, c) ==
    /\ loop[s][c] = "received" /\ Saved(s, heir[c])
    /\ SaveCoin(s, heir[c], "AVAILABLE")
    /\ Goto(s, c, "again")
    /\ UNCHANGED <<NoFile, permits, heir>>

(* ... and the coin swapped is spent *)
SetStateCoinSpent(s, c) ==
    /\ loop[s][c] = "again" /\ Saved(s, heir[c])
    /\ SaveCoin(s, c, "SWAPPED")
    /\ Goto(s, c, "spent")
    /\ UNCHANGED <<NoFile, permits, heir>>

DoPostSwapKeepsPermit(s, c) ==
    /\ \/ loop[s][c] = "release" /\ save[s][c] \in {"none", "failed"}
       \/ loop[s][c] = "spent" /\ Saved(s, c)
    /\ save' = [save EXCEPT ![s][c] = "none"]
    /\ Goto(s, c, "none")
    /\ Stays /\ UNCHANGED <<list, permits, heir>>

(* the end of doPostSwap *)
DoPostSwap(s, c) ==
    /\ \/ loop[s][c] = "release" /\ save[s][c] \in {"none", "failed"}
       \/ loop[s][c] = "spent" /\ Saved(s, c)
    /\ permits' = permits + 1
    /\ save' = [save EXCEPT ![s][c] = "none"]
    /\ Goto(s, c, "none")
    /\ Stays /\ UNCHANGED <<list, heir>>

(* a save of doPostSwap throws: the permit is never given back *)
DoPostSwapThrows(s, c) ==
    /\ \/ loop[s][c] = "again" /\ save[s][heir[c]] = "failed"
       \/ loop[s][c] = "spent" /\ save[s][c] = "failed"
    /\ save' = [save EXCEPT ![s] = [d \in Coin |-> IF @[d] = "failed" THEN "none" ELSE @[d]]]
    /\ Goto(s, c, "none")
    /\ Stays /\ UNCHANGED <<list, permits, heir>>

----------------------------------------------------------------------------
(***************************************************************************)
(* Loading, stopping and unloading.                                        *)
(***************************************************************************)
(* Wallet.load, the constructor's start(), resetSwapStates *)
LoadWallet(s) ==
    LET f == LoadStatecoinsQuick(file) IN
    /\ loads < MaxLoads /\ loads' = loads + 1
    /\ s # wallet /\ ~Busy(s) /\ stop[s] # "taking"
    /\ wallet' = s
    /\ active' = [active EXCEPT ![s] = TRUE]
    /\ stop' = [stop EXCEPT ![s] = "no"]
    /\ taken' = [taken EXCEPT ![s] = 0]
    /\ jammed' = jammed \ {s}
    /\ file' = f
    /\ list' = [list EXCEPT ![s] = [c \in Coin |-> ResetStatus(f.obj[c])]]
    /\ save' = [save EXCEPT ![s] =
                  [c \in Coin |-> IF f.obj[c] = "IN_SWAP" THEN "coin" ELSE "none"]]
    /\ permits' = permits + N
    /\ tidy' = {s}
    /\ UNCHANGED <<loop, heir, crashes, failures, kept>>

(* loadWalletFromMemory from the load screen *)
WalletLoad(s) == wallet = NoSession /\ LoadWallet(s)

(* callUpdateConfig saves, and reloadWallet drops the wallet unstopped *)
ReloadWallet(s) == wallet # NoSession /\ LoadWallet(s)

(* stopWallet: only an active wallet is stopped *)
StopWallet ==
    /\ wallet # NoSession /\ active[wallet]
    /\ active' = [active EXCEPT ![wallet] = FALSE]
    /\ stop' = [stop EXCEPT ![wallet] = "taking"]
    /\ UNCHANGED <<NoFile, taken, list, save, jammed, loop, permits, heir>>

StopAcquiresAll(s) ==
    /\ stop[s] = "taking" /\ taken[s] < N /\ permits > 0
    /\ permits' = 0
    /\ taken' = [taken EXCEPT ![s] = @ + permits]
    /\ UNCHANGED <<NoFile, active, stop, list, save, jammed, loop, heir>>

(* the permits that are free are taken one after the other, at once *)
StopAcquires(s) ==
    /\ stop[s] = "taking" /\ taken[s] < N /\ permits > 0
    /\ LET n == Min({permits, N - taken[s]}) IN
           /\ permits' = permits - n
           /\ taken' = [taken EXCEPT ![s] = @ + n]
    /\ UNCHANGED <<NoFile, active, stop, list, save, jammed, loop, heir>>

StopReturns(s) ==
    /\ stop[s] = "taking" /\ taken[s] = N
    /\ stop' = [stop EXCEPT ![s] = "done"]
    /\ UNCHANGED <<NoFile, active, taken, list, save, jammed, loop, permits, heir>>

(* the caller of stopWallet, or a second one that found the wallet inactive *)
UnloadWallet ==
    /\ wallet # NoSession /\ ~active[wallet]
    /\ wallet' = NoSession
    /\ UNCHANGED <<memory, file, permits, heir, loads, crashes, failures, kept, tidy>>

(* the application is killed and started again *)
Crash ==
    /\ crashes < MaxCrashes /\ crashes' = crashes + 1
    /\ wallet' = NoSession
    /\ active' = [s \in SessionId |-> FALSE]
    /\ stop' = [s \in SessionId |-> "no"]
    /\ taken' = [s \in SessionId |-> 0]
    /\ list' = [s \in SessionId |-> NoCoins]
    /\ save' = [s \in SessionId |-> [c \in Coin |-> "none"]]
    /\ jammed' = {}
    /\ loop' = [s \in SessionId |-> [c \in Coin |-> "none"]]
    /\ permits' = N
    /\ tidy' = {}
    /\ UNCHANGED <<file, heir, loads, failures, kept>>

Init ==
    /\ wallet = NoSession
    /\ active = [s \in SessionId |-> FALSE]
    /\ stop = [s \in SessionId |-> "no"]
    /\ taken = [s \in SessionId |-> 0]
    /\ list = [s \in SessionId |-> NoCoins]
    /\ save = [s \in SessionId |-> [c \in Coin |-> "none"]]
    /\ jammed = {}
    /\ loop = [s \in SessionId |-> [c \in Coin |-> "none"]]
    /\ file = [obj |-> NewDeposits, ids |-> {}, list |-> NewDeposits]
    /\ permits = N
    /\ heir = [c \in Coin |-> c]
    /\ loads = 0 /\ crashes = 0 /\ failures = 0
    /\ kept = Deposited /\ tidy = {}

SaveNext(s, c) == \/ SaveStateCoin(s, c) \/ DeleteStateCoin(s, c)
                  \/ SaveItem(s, c)
LoopNext(s, c) ==
    \/ ResumeSwap(s, c) \/ CheckWalletStatus(s, c)
    \/ DoNext(s, c) \/ MakeSwapCommitment(s, c) \/ SaveRetried(s, c)
    \/ TransferReceiverFinalize(s, c) \/ HandleSwapError(s, c)
    \/ ReceivedNotSaved(s, c) \/ SaveNewStatecoin(s, c)
    \/ SetStateCoinSpent(s, c) \/ DoPostSwap(s, c) \/ DoPostSwapThrows(s, c)
StopNext(s) == StopAcquires(s) \/ StopReturns(s)

Next ==
    \/ \E c \in Coin : \/ DepositConfirmed(c) \/ RemoveStatecoin(c)
                       \/ DoSwap(c)
    \/ \E s \in SessionId, c \in Coin :
           SaveNext(s, c) \/ SaveThrows(s, c) \/ LoopNext(s, c)
    \/ \E s \in SessionId : \/ SaveWallet(s) \/ StopNext(s)
                            \/ WalletLoad(s) \/ ReloadWallet(s)
    \/ StopWallet \/ UnloadWallet \/ Crash

Spec == Init /\ [][Next]_vars

----------------------------------------------------------------------------
(* The variables keep their types and the bounds hold. *)
TypeOK ==
    /\ wallet \in SessionId \union {NoSession}
    /\ active \in [SessionId -> BOOLEAN]
    /\ stop \in [SessionId -> {"no", "taking", "done"}]
    /\ taken \in [SessionId -> 0 .. N]
    /\ list \in [SessionId -> Coins]
    /\ save \in [SessionId -> [Coin -> {"none", "coin", "list", "remove",
                                        "delete", "failed"}]]
    /\ jammed \in SUBSET SessionId
    /\ loop \in [SessionId -> [Coin -> {"none", "queue", "check", "step",
                                        "received", "again", "spent", "release"}]]
    /\ file \in File
    /\ permits \in Nat
    /\ heir \in [Coin -> Coin]
    /\ loads \in 0 .. MaxLoads
    /\ crashes \in 0 .. MaxCrashes /\ failures \in 0 .. MaxFailures
    /\ kept \in SUBSET Coin /\ tidy \in SUBSET SessionId

(* A coin whose first save reached the file is found by every later load,  *)
(* as a coin of the wallet or as one swapped away, until it is removed:    *)
(* whatever old sessions write over it, and wherever the application dies  *)
(* between the two writes of a save.                                       *)
NothingLost ==
    LET f == LoadStatecoinsQuick(file) IN kept \subseteq In(f.obj) \union f.ids

(* As long as no other session writes the file and no write fails, a load  *)
(* gives each coin whose save is done, and that of the coin received for   *)
(* it, the status it has in memory, up to the reset of an unfinished swap. *)
SavedIsLoaded ==
    LET f == LoadStatecoinsQuick(file) IN
    \A s \in tidy, c \in Coin :
        Saved(s, c) /\ Saved(s, heir[c]) =>
            \/ list[s][c] = "SWAPPED" /\ f.obj[c] = "NONE" /\ c \in f.ids
            \/ ResetStatus(f.obj[c]) = ResetStatus(list[s][c])

(* A wallet that is being stopped can get its permits, whatever the saves  *)
(* that failed and whatever loops of other wallets run: those it has,      *)
(* those that are free and those of loops that can still end are enough.   *)
HoldsPermit(s, c) == loop[s][c] \notin {"none", "queue"}
StopNotStarved ==
    \A s \in SessionId :
        stop[s] = "taking" =>
            N <= permits + taken[s]
                 + Cardinality({l \in (SessionId \ jammed) \X Coin : HoldsPermit(l[1], l[2])})

============================================================================
