------------------------------ MODULE AutoSwap ------------------------------
(***************************************************************************)
(* The part of the application that starts swaps: the Join Group and Leave *)
(* Group buttons (containers/Swap/Swap.js), the switch of a coin's auto    *)
(* swap (components/AutoSwapToggle), the interval that starts the swaps    *)
(* of pending coins (components/coins/CoinsList.js), and the handlers that *)
(* run when a swap is over (features/WalletDataSlice.js).  They share two  *)
(* lists in the Redux store, which outlive the wallet: the coins that wait *)
(* for the interval, and the values of coins in swaps, by which the single *)
(* swap mode keeps two coins of one user out of the same pool.             *)
(*                                                                         *)
(* Modules CoinSwap and Session say what a swap does to its coin; here a   *)
(* call of do_swap is reduced to where it is and what it may do next.      *)
(* A call outlives the wallet object it was made of: when the wallet is    *)
(* loaded again it goes on with the old StateCoin objects, and its handler *)
(* then reads and changes the same two lists.                              *)
(***************************************************************************)
EXTENDS Naturals, Sequences, SequencesExt

CONSTANTS
    InitValues,   \* the values of the coins the wallet begins with, for each
                  \* setting of the single swap mode
    MaxReceived,  \* bound: coins received in swaps
    MaxClicks,    \* bound: operations of the user, for each setting of the mode
    MaxFaults     \* bound: refused starts, failed requests, lost connections,
                  \* and loading the wallet again

ASSUME BoundsAssumption ==
    /\ MaxReceived \in Nat
    /\ \A s \in BOOLEAN : InitValues[s] \in Seq(Range(InitValues[s]))
    /\ Len(InitValues[FALSE]) \in 1 .. Len(InitValues[TRUE])
    /\ MaxClicks \in [BOOLEAN -> Nat] /\ MaxFaults \in Nat

Coin == 1 .. Len(InitValues[TRUE]) + MaxReceived

Value == Range(InitValues[TRUE]) \cup Range(InitValues[FALSE])

\* At most two calls of do_swap are under way for a coin (bound).
Slot == Coin \X {1, 2}

VARIABLES
    single,        \* config.singleSwapMode
    active,        \* isWalletActive()
    online,        \* torInfo.online
    coin,          \* wallet.statecoins, a received coin at the end; one that
                   \* only the file has is "ELSEWHERE"; "given" (history): a
                   \* swap gave it away
    calls,         \* calls of do_swap: [by, at, heir]
    leftover,      \* calls of wallets that were unloaded, with the switches
                   \* of their StateCoin objects: auto, and heirAuto
    pending,       \* swapPendingCoins
    inSwapValues,  \* inSwapValues
    leaving,       \* calls of deRegisterSwapCoin: [coin, by, at]
    dropped,       \* history: taken from pending or refused, auto swap left on
    stale,         \* history: pending when a wallet was loaded, or put there
                   \* by a call left over
    freed,         \* history: values freed, by a switch or while no wallet was
                   \* loaded, though one of them swaps
    stuck,         \* history: values a failed registration or an unloaded
                   \* wallet left in inSwapValues
    clicks, faults

ui == <<pending, inSwapValues>>
history == <<dropped, stale, freed, stuck>>
bounds == <<clicks, faults>>
vars == <<single, active, online, coin, calls, leftover, ui, leaving, history, bounds>>

NoCall == [by |-> "nobody", at |-> "none", heir |-> 0]

NewCall(by) == [by |-> by, at |-> "starting", heir |-> 0]

NewCoin(v, auto) ==
    [value |-> v, status |-> "AVAILABLE", phase4 |-> FALSE, auto |-> auto,
     given |-> FALSE]

Init ==
    /\ single \in BOOLEAN
    /\ active = TRUE
    /\ online = TRUE
    /\ coin = [i \in DOMAIN InitValues[single] |-> NewCoin(InitValues[single][i], FALSE)]
    /\ calls = [k \in Slot |-> NoCall]
    /\ pending = <<>>
    /\ inSwapValues = {}
    /\ leftover = {}
    /\ leaving = {}
    /\ dropped = {} /\ stale = {} /\ freed = {} /\ stuck = {}
    /\ clicks = 0 /\ faults = 0

Swapping(c) == \E i \in {1, 2} : calls[<<c, i>>].at # "none"

SwappingValue(v) ==
    \/ \E c \in DOMAIN coin : coin[c].value = v /\ Swapping(c)
    \/ \E l \in leftover : coin[l.coin].value = v

\* The wallet's list has the coin, and not as spent.
Listed(c) == coin[c].status \notin {"SPENT", "ELSEWHERE"}

Click == clicks < MaxClicks[single] /\ clicks' = clicks + 1 /\ UNCHANGED faults

Fault == faults < MaxFaults /\ faults' = faults + 1 /\ UNCHANGED clicks

\* Mutant: taken from the front.
RemoveFirstPendingCoin(p, c) == IF p # <<>> /\ Head(p) = c THEN Tail(p) ELSE p

RemoveSwapPendingCoin(p, c) ==
    LET kept[n \in 0 .. Len(p)] ==
            IF n = 0 THEN <<>>
            ELSE IF p[n] = c THEN kept[n - 1] ELSE Append(kept[n - 1], p[n])
    IN  kept[Len(p)]

\* Mutant: without looking whether the coin is there.
AddSwapPendingCoinAgain(p, c) == Append(p, c)

AddSwapPendingCoin(p, c) == IF c \in Range(p) THEN p ELSE Append(p, c)

SetSwapDataToNull(c) == [coin[c] EXCEPT !.status = "AVAILABLE", !.phase4 = FALSE]

-----------------------------------------------------------------------------
(* Starting swaps.  The checks and the synchronous beginning of do_swap    *)
(* (validateSwap) are one step: the coin stays AVAILABLE until the call    *)
(* has generated a key and taken its permits.                              *)

CheckSwapAvailability(c, values) ==
    /\ coin[c].status = "AVAILABLE"
    /\ ~(single /\ coin[c].value \in values)

\* Mutant: the coins of one list do not count.
PickUncounted(picked, c) ==
    IF CheckSwapAvailability(c, picked.values) /\ calls[<<c, 2>>] = NoCall
    THEN [picked EXCEPT !.coins = @ \cup {c}]
    ELSE picked

\* The coins of a list that are started, and the values in use afterwards.
Pick(picked, c) ==
    IF CheckSwapAvailability(c, picked.values) /\ calls[<<c, 2>>] = NoCall
    THEN [values |-> picked.values \cup {coin[c].value},
          coins |-> picked.coins \cup {c}]
    ELSE picked

Picked(list) ==
    LET after[n \in 0 .. Len(list)] ==
            IF n = 0 THEN [values |-> inSwapValues, coins |-> {}]
            ELSE Pick(after[n - 1], list[n])
    IN  after[Len(list)]

FreeSlot(c) == IF calls[<<c, 1>>] = NoCall THEN 1 ELSE 2

CallDoSwap(coins, by) ==
    calls' = [k \in Slot |-> IF k[1] \in coins /\ k[2] = FreeSlot(k[1])
                             THEN NewCall(by) ELSE calls[k]]

\* Join Group: the selected coins in a random order.
SwapButtonAction ==
    /\ active /\ online /\ Click
    /\ \E list \in SetToAllKPermutations(DOMAIN coin) :
         /\ Picked(list).coins # {}
         /\ CallDoSwap(Picked(list).coins, "hand")
         /\ inSwapValues' = Picked(list).values
    /\ UNCHANGED <<single, active, online, coin, leftover, pending, leaving, history>>

\* Every five seconds, time enough for a call to begin: a coin that is
\* started stays in the list.
AutoSwapLoop ==
    /\ active /\ online
    /\ \A k \in Slot : calls[k].at # "starting"
    /\ Picked(pending).coins # {}
    /\ CallDoSwap(Picked(pending).coins, "auto")
    /\ inSwapValues' = Picked(pending).values
    /\ UNCHANGED <<single, active, online, coin, leftover, pending, leaving, history, bounds>>

\* The switch, on: no longer pending, its value free, leave the pool.
ToggleOff(c) ==
    /\ active /\ Click
    /\ coin[c].auto /\ Listed(c)
    /\ coin' = [coin EXCEPT ![c].auto = FALSE]
    /\ pending' = RemoveSwapPendingCoin(pending, c)
    /\ inSwapValues' = inSwapValues \ {coin[c].value}
    /\ dropped' = dropped \ {c}
    /\ stale' = stale \ {c}
    /\ stuck' = stuck \ {coin[c].value}
    /\ freed' = IF SwappingValue(coin[c].value) THEN freed \cup {coin[c].value}
                                                ELSE freed
    /\ leaving' = leaving \cup {[coin |-> c, by |-> "toggle", at |-> "asked"]}
    /\ UNCHANGED <<single, active, online, calls, leftover>>

\* The switch, off: start at once, or wait for the interval.
ToggleOn(c) ==
    /\ active /\ online /\ Click
    /\ ~coin[c].auto /\ Listed(c)
    /\ coin' = [coin EXCEPT ![c].auto = TRUE]
    /\ IF CheckSwapAvailability(c, inSwapValues)
       THEN /\ calls[<<c, 2>>] = NoCall
            /\ CallDoSwap({c}, "hand")
            /\ inSwapValues' = inSwapValues \cup {coin[c].value}
            /\ UNCHANGED pending
       ELSE /\ pending' = AddSwapPendingCoin(pending, c)
            /\ UNCHANGED <<calls, inSwapValues>>
    /\ dropped' = dropped \ {c}
    /\ UNCHANGED <<single, active, online, leftover, leaving, stale, freed, stuck>>

-----------------------------------------------------------------------------
(* Leaving the pool.                                                       *)

LeavePoolButtonAction(c) ==
    /\ active /\ online /\ Click
    /\ Listed(c)
    /\ leaving = {}
    /\ leaving' = leaving \cup {[coin |-> c, by |-> "leave", at |-> "asked"]}
    /\ UNCHANGED <<single, active, online, coin, calls, leftover, ui, history>>

\* The server has answered: the coin is looked at again, reset and saved.
DeRegisterSwapCoin(l) ==
    /\ l.at = "asked"
    /\ coin' = IF coin[l.coin].status = "AWAITING_SWAP"
               THEN [coin EXCEPT ![l.coin] = SetSwapDataToNull(l.coin)] ELSE coin
    /\ leaving' = (leaving \ {l}) \cup {[l EXCEPT !.at = "saved"]}
    /\ UNCHANGED <<single, active, online, calls, leftover, ui, history, bounds>>

DeRegisterFails(l) ==
    /\ l.at = "asked" /\ Fault
    /\ coin[l.coin].status = "AWAITING_SWAP"
    /\ leaving' = (leaving \ {l}) \cup {[l EXCEPT !.at = "saved"]}
    /\ UNCHANGED <<single, active, online, coin, calls, leftover, ui, history>>

\* The button's handler takes the coin off the list whatever the outcome,
\* and leaves its auto swap on.
LeaveDone(l) ==
    /\ l.at = "saved"
    /\ leaving' = leaving \ {l}
    /\ IF l.by = "leave"
       THEN /\ pending' = RemoveSwapPendingCoin(pending, l.coin)
            /\ dropped' = IF l.coin \in Range(pending) /\ coin[l.coin].auto
                          THEN dropped \cup {l.coin} ELSE dropped
            /\ stale' = stale \ {l.coin}
       ELSE UNCHANGED <<pending, dropped, stale>>
    /\ UNCHANGED <<single, active, online, coin, calls, leftover, inSwapValues,
                   freed, stuck, bounds>>

-----------------------------------------------------------------------------
(* A call of do_swap.                                                      *)

Goes(k, at) == calls' = [calls EXCEPT ![k].at = at]

OnlyCoinAndCalls ==
    UNCHANGED <<single, active, online, leftover, ui, leaving, history>>

\* prepare_statecoin; when another call was first, validate throws and
\* handleSwapError resets the coin unless it is in phase 4.
PrepareStatecoin(k) ==
    /\ calls[k].at = "starting"
    /\ IF coin[k[1]].status = "AVAILABLE"
       THEN /\ coin' = [coin EXCEPT ![k[1]].status = "AWAITING_SWAP"]
            /\ Goes(k, "loop")
       ELSE /\ coin' = IF coin[k[1]].phase4 THEN coin
                       ELSE [coin EXCEPT ![k[1]] = SetSwapDataToNull(k[1])]
            /\ Goes(k, "over")
    /\ OnlyCoinAndCalls /\ UNCHANGED bounds

\* do_swap itself throws: a duplicate deposit, or a key that is not saved.
DoSwapRejected(k) ==
    /\ calls[k].at = "starting" /\ Fault
    /\ Goes(k, "rejected")
    /\ OnlyCoinAndCalls /\ UNCHANGED coin

\* The steps of the loop that change the coin's status.  A group takes
\* longer to form than another call to begin.  The loop looks whether the
\* wallet is active before a step, so the one under way is completed.
UpdateStateCoinToPhase1(k) ==
    /\ calls[k].at = "loop"
    /\ coin[k[1]].status = "AWAITING_SWAP"
    /\ \A i \in {1, 2} : calls[<<k[1], i>>].at # "starting"
    /\ coin' = [coin EXCEPT ![k[1]].status = "IN_SWAP"]
    /\ OnlyCoinAndCalls /\ UNCHANGED <<calls, bounds>>

EnterPhase4(k) ==
    /\ calls[k].at = "loop"
    /\ coin[k[1]].status = "IN_SWAP" /\ ~coin[k[1]].phase4
    /\ coin' = [coin EXCEPT ![k[1]].phase4 = TRUE]
    /\ OnlyCoinAndCalls /\ UNCHANGED <<calls, bounds>>

\* The loop ends without a coin: it gave up, noticed that the coin left the
\* pool or that the wallet was stopped; in phase 4 the coin stays as it is.
LoopFails(k) ==
    /\ calls[k].at = "loop"
    /\ coin' = IF coin[k[1]].phase4 THEN coin
               ELSE [coin EXCEPT ![k[1]] = SetSwapDataToNull(k[1])]
    /\ Goes(k, "over")
    /\ OnlyCoinAndCalls /\ UNCHANGED bounds

BatchEnded(k) ==
    /\ calls[k].at = "loop" /\ coin[k[1]].phase4
    /\ coin' = [coin EXCEPT ![k[1]] = SetSwapDataToNull(k[1])]
    /\ Goes(k, "over")
    /\ OnlyCoinAndCalls /\ UNCHANGED bounds

\* "Failed statecoin registration" switches the coin's auto swap off.
RegistrationFails(k) ==
    /\ calls[k].at = "loop" /\ Fault
    /\ coin[k[1]].status = "AWAITING_SWAP"
    /\ coin' = [coin EXCEPT ![k[1]] = [SetSwapDataToNull(k[1]) EXCEPT !.auto = FALSE]]
    /\ Goes(k, "over")
    /\ OnlyCoinAndCalls

\* setStatecoinOut and doPostSwap: the coin received inherits the switch.
SetStatecoinOut(k) ==
    /\ calls[k].at = "loop"
    /\ coin[k[1]].phase4 /\ Len(coin) < Len(InitValues[single]) + MaxReceived
    /\ coin' = Append([coin EXCEPT ![k[1]].status = "SPENT", ![k[1]].phase4 = FALSE,
                                    ![k[1]].given = TRUE],
                      NewCoin(coin[k[1]].value, coin[k[1]].auto))
    /\ calls' = [calls EXCEPT ![k] = [@ EXCEPT !.at = "over", !.heir = Len(coin) + 1]]
    /\ OnlyCoinAndCalls /\ UNCHANGED bounds

-----------------------------------------------------------------------------
(* When a swap is over.                                                    *)

\* Mutant: the coin that was swapped is entered again.
SuccessorIsInput(c, heir) == c

\* The coin that goes on swapping: the one received, or the one that failed.
Successor(c, heir) == IF heir # 0 THEN heir ELSE c

\* What the handlers do to the lists.  For a swap the interval started: when
\* the coin's switch is off the handler returns before it frees the value.
EndAutoSwap(c, auto, next, again) ==
    LET list == RemoveSwapPendingCoin(pending, c)
        v == coin[c].value
    IN  /\ pending' = IF auto /\ again THEN AddSwapPendingCoin(list, next) ELSE list
        /\ inSwapValues' = IF auto THEN inSwapValues \ {v} ELSE inSwapValues
        /\ stuck' = IF auto THEN stuck \ {v} ELSE stuck \cup ({v} \cap inSwapValues)

\* For a swap of the buttons or the switch.
EndSwap(c, next, again) ==
    IF active THEN EndAutoSwap(c, TRUE, next, again)
    ELSE pending' = <<>> /\ inSwapValues' = {} /\ stuck' = {}

\* The history of a handler; of the list, the coins of "left" are stale.
EndHistory(c, next, left) ==
    /\ dropped' = (dropped \ Range(pending')) \cup
                     {x \in {c, next} : /\ coin'[x].auto /\ ~coin'[x].given
                                        /\ x \notin Range(pending')}
    /\ stale' = left \cap Range(pending')
    /\ freed' = {v \in freed \cup (inSwapValues \ (inSwapValues' \cup {coin[c].value})) :
                   SwappingValue(v)'}
    /\ UNCHANGED <<single, active, online, leaving, bounds>>

CallOver(k) == calls' = [calls EXCEPT ![k] = NoCall] /\ UNCHANGED <<coin, leftover>>

HandleEndAutoSwap(k) ==
    LET c == k[1]
        next == Successor(c, calls[k].heir)
    IN  /\ calls[k].at \in {"over", "rejected"} /\ calls[k].by = "auto"
        /\ EndAutoSwap(c, coin[c].auto, next, coin[next].auto)
        /\ CallOver(k)
        /\ EndHistory(c, next, stale \ {c})

HandleEndSwap(k) ==
    LET c == k[1]
        next == Successor(c, calls[k].heir)
    IN  /\ calls[k].at \in {"over", "rejected"} /\ calls[k].by = "hand"
        /\ EndSwap(c, next, calls[k].at = "over" /\ coin[next].auto)
        /\ CallOver(k)
        /\ EndHistory(c, next, stale \ {c})

\* A swap the wallet resumed by itself has no handler.
ResumedOver(k) ==
    /\ calls[k].at = "over" /\ calls[k].by = "load"
    /\ CallOver(k)
    /\ UNCHANGED <<single, active, online, ui, leaving, stale, stuck, bounds>>
    /\ dropped' = IF calls[k].heir # 0 THEN dropped \cup {calls[k].heir} ELSE dropped
    /\ freed' = {v \in freed : SwappingValue(v)'}

-----------------------------------------------------------------------------
(* A call left over by a wallet that was unloaded, with its handler.  How  *)
(* far it still gets is left open: a wallet that was stopped ends it       *)
(* before the next step, one that was reloaded after a change of the       *)
(* settings does not.                                                      *)

\* The call l has become m.  handleEndAutoSwap has the old StateCoin, and
\* handleEndSwap asks the present wallet for a coin that was not swapped.
LeftoverHandled(l, m) ==
    LET next == Successor(m.coin, m.heir)
        again == m.at = "over" /\ IF m.heir # 0 THEN m.heirAuto ELSE coin[m.coin].auto
    IN  /\ CASE m.by = "auto" -> EndAutoSwap(m.coin, m.auto, next, m.heirAuto)
             [] m.by = "hand" -> EndSwap(m.coin, next, again)
             [] OTHER         -> UNCHANGED <<ui, stuck>>
        /\ leftover' = leftover \ {l} /\ UNCHANGED calls
        /\ EndHistory(m.coin, next, stale \cup {next})

LeftoverOver(l) ==
    /\ l.at \in {"over", "rejected"}
    /\ UNCHANGED coin
    /\ LeftoverHandled(l, l)

LeftoverEnds(l) ==
    /\ l.at \in {"starting", "loop"}
    /\ UNCHANGED coin
    /\ \E at \in {"over", "rejected"}, auto \in {l.auto, FALSE} :
         /\ at = "rejected" => l.at = "starting" /\ auto = l.auto
         /\ LeftoverHandled(l, [l EXCEPT !.at = at, !.auto = auto, !.heirAuto = auto])

\* The coin received is saved, in the list of the old wallet.
LeftoverReceives(l) ==
    /\ l.at \in {"starting", "loop"}
    /\ Len(coin) < Len(InitValues[single]) + MaxReceived
    /\ coin' = Append([coin EXCEPT ![l.coin].given = TRUE],
                      [NewCoin(coin[l.coin].value, l.auto) EXCEPT !.status = "ELSEWHERE"])
    /\ LeftoverHandled(l, [l EXCEPT !.at = "over", !.heir = Len(coin) + 1,
                                    !.heirAuto = l.auto])

-----------------------------------------------------------------------------
(* The connection, and logging out and in again.  The lists stay.          *)

SetOnline ==
    /\ IF online THEN Fault ELSE UNCHANGED bounds
    /\ online' = ~online
    /\ UNCHANGED <<single, active, coin, calls, leftover, ui, leaving, history>>

Logout ==
    /\ active /\ Fault
    /\ active' = FALSE
    /\ UNCHANGED <<single, online, coin, calls, leftover, ui, leaving, history>>

\* The calls of an old wallet are not waited for: "stop" finds the permits
\* "start" released (Session), and a reload does not stop the wallet.
Leftover(k) ==
    [coin |-> k[1], call |-> k[2], load |-> faults, by |-> calls[k].by,
     at |-> calls[k].at, heir |-> calls[k].heir, auto |-> coin[k[1]].auto,
     heirAuto |-> coin[Successor(k[1], calls[k].heir)].auto]

\* resetSwapStates, disableAutoSwaps, deRegisterSwaps and updateSwapStatus.
\* Of the coins only the file had, some are found in it again.
LoadWallet ==
    /\ ~active
    /\ active' = TRUE
    /\ \E found \in SUBSET {c \in DOMAIN coin : coin[c].status = "ELSEWHERE"} :
         coin' = [c \in DOMAIN coin |->
                    IF c \notin found /\ (~Listed(c) \/ coin[c].phase4)
                    THEN [coin[c] EXCEPT !.auto = FALSE]
                    ELSE [SetSwapDataToNull(c) EXCEPT !.auto = FALSE]]
    /\ calls' = [k \in Slot |-> IF k[1] \in DOMAIN coin /\ k[2] = 1 /\ coin[k[1]].phase4
                                THEN [NewCall("load") EXCEPT !.at = "loop"] ELSE NoCall]
    /\ leftover' = leftover \cup {Leftover(k) : k \in {j \in Slot : calls[j] # NoCall}}
    /\ leaving' = {[l EXCEPT !.at = "saved"] : l \in leaving}
    /\ stale' = Range(pending)
    /\ dropped' = {}
    /\ stuck' = inSwapValues
    /\ UNCHANGED <<single, online, ui, freed, bounds>>

UserNext ==
    \/ SwapButtonAction
    \/ \E c \in DOMAIN coin : ToggleOff(c) \/ ToggleOn(c) \/ LeavePoolButtonAction(c)
    \/ Logout
    \/ LoadWallet

LeavingNext == \E l \in leaving : DeRegisterSwapCoin(l) \/ DeRegisterFails(l) \/ LeaveDone(l)

Ends(k) == LoopFails(k) \/ BatchEnded(k) \/ SetStatecoinOut(k)

Handles(k) == HandleEndSwap(k) \/ HandleEndAutoSwap(k) \/ ResumedOver(k)

CallNext(k) ==
    \/ PrepareStatecoin(k) \/ DoSwapRejected(k)
    \/ UpdateStateCoinToPhase1(k) \/ EnterPhase4(k)
    \/ RegistrationFails(k) \/ Ends(k) \/ Handles(k)

LeftoverNext ==
    \E l \in leftover : LeftoverOver(l) \/ LeftoverEnds(l) \/ LeftoverReceives(l)

Next ==
    \/ UserNext
    \/ AutoSwapLoop
    \/ LeavingNext
    \/ \E k \in Slot : CallNext(k)
    \/ LeftoverNext
    \/ SetOnline

Spec == Init /\ [][Next]_vars

\* The interval fires while the application is online, a call of do_swap
\* goes on and ends (CoinSwap), and its handler runs; a connection that was
\* lost comes back.
FairSpec ==
    /\ Spec
    /\ WF_vars(AutoSwapLoop)
    /\ WF_vars(~online /\ SetOnline)
    /\ WF_vars(LeftoverNext)
    /\ \A k \in Slot : WF_vars(PrepareStatecoin(k) \/ Ends(k) \/ Handles(k))

-----------------------------------------------------------------------------
TypeOK ==
    /\ single \in BOOLEAN /\ active \in BOOLEAN /\ online \in BOOLEAN
    /\ DOMAIN coin \subseteq Coin
    /\ \A c \in DOMAIN coin :
         /\ coin[c].value \in Value /\ coin[c].auto \in BOOLEAN
         /\ coin[c].status \in {"AVAILABLE", "AWAITING_SWAP", "IN_SWAP", "SPENT",
                               "ELSEWHERE"}
         /\ coin[c].phase4 => coin[c].status = "IN_SWAP"
    /\ \A k \in Slot : /\ calls[k].by \in {"nobody", "hand", "auto", "load"}
                       /\ calls[k].at \in {"none", "starting", "loop", "over", "rejected"}
                       /\ calls[k].heir # 0 => calls[k].heir \in DOMAIN coin
                       /\ calls[k].at # "none" => k[1] \in DOMAIN coin
    /\ \A l \in leftover : /\ l.coin \in DOMAIN coin
                           /\ l.by \in {"hand", "auto", "load"}
                           /\ l.at \in {"starting", "loop", "over", "rejected"}
                           /\ l.heir # 0 => l.heir \in DOMAIN coin
                           /\ l.auto \in BOOLEAN /\ l.heirAuto \in BOOLEAN
    /\ IsInjective(pending) /\ Range(pending) \subseteq DOMAIN coin
    /\ inSwapValues \subseteq Value
    /\ \A l \in leaving : l.coin \in DOMAIN coin

\* A coin the interval would start has its auto swap on, or its swap is not
\* over and the handler will take it off the list: a switch turned off stays
\* off.  Excepted are coins left in the list by a wallet that was unloaded,
\* or put back there by one of its calls.
PendingIsAuto ==
    \A c \in Range(pending) : coin[c].auto \/ Swapping(c) \/ c \in stale

\* disableAutoSwaps and deRegisterSwaps turn auto swap off when a wallet is
\* loaded: no coin is then started but by the user.
OffWhenLoaded ==
    \A c \in Range(pending) : coin[c].auto \/ Swapping(c)

InPool(v) == {k \in Slot : /\ k[1] \in DOMAIN coin /\ coin[k[1]].value = v
                           /\ calls[k].at \in {"starting", "loop"}
                           /\ calls[k].by # "load"}

LeftInPool(v) == {l \in leftover : /\ coin[l.coin].value = v /\ l.by # "load"
                                   /\ l.at \in {"starting", "loop"}}

\* In single swap mode no two swaps of one value run at once, so that a user
\* does not swap with himself, over logins that leave swaps of the old wallet
\* behind.  Excepted is a value that was freed under a swap: its switch was
\* turned off, or a swap ended while no wallet was loaded.
SwapsWithOthers ==
    single => \A v \in Value \ freed :
                 /\ \A j, k \in InPool(v) : j = k
                 /\ \A j, k \in LeftInPool(v) : j = k
                 /\ InPool(v) = {} \/ LeftInPool(v) = {}

AutoCoins ==
    {c \in DOMAIN coin : coin[c].auto /\ coin[c].status = "AVAILABLE" /\ ~coin[c].given}

Excused(c) == c \in dropped \/ ~active \/ (single /\ coin[c].value \in stuck)

\* Auto swap goes on: a coin whose switch is on and that is AVAILABLE gets
\* into a swap or its switch is turned off, over failed swaps, other coins of
\* its value and lost connections.  It is forgotten only when the user left
\* the pool, the start from the switch was refused, or a failed registration
\* or an unloaded wallet left its value taken.
AutoGoesOn ==
    \A c \in Coin : (c \in AutoCoins) ~> (c \notin AutoCoins \/ Swapping(c) \/ Excused(c))
=============================================================================
