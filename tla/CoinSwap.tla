------------------------------- MODULE CoinSwap -------------------------------
(***************************************************************************)
(* One statecoin going through the wallet's swap protocol                  *)
(* (src/wallet/swap/swap.ts, swap.init.ts, swap.phase0.ts .. phase4.ts and *)
(* the swap operations of src/wallet/wallet.ts), with the server of        *)
(* module SwapServer, the wallet file on disk, and restarts.               *)
(*                                                                         *)
(* Every await of the code is an interleaving point: a step sends its      *)
(* request in one action (Request and the like) and applies the answer to  *)
(* the coin in another (On...), and anything may happen in between.        *)
(***************************************************************************)
EXTENDS SwapServer

CONSTANTS
    MaxReps,      \* SWAP_RETRY.MAX_REPS_PER_STEP (120 in the code)
    RegLimit,     \* retries of a failing registration (10 in the code)
    MaxRestarts,  \* bound on restarts of the wallet
    Hasty,        \* may the user swap the coin before loading is through, or
                  \* before an older loop on it has noticed that it is over
    SaveFails     \* the saves that may throw

SavePlaces == {"error", "sender", "msg3", "commit", "msg4", "finalize", "out"}

ASSUME LimitsAssumption ==
    /\ MaxReps \in Nat \ {0} /\ RegLimit \in Nat /\ RegLimit < MaxReps
    /\ MaxRestarts \in Nat
ASSUME ModesAssumption ==
    Hasty \in BOOLEAN /\ SaveFails \subseteq SavePlaces

VARIABLES
    coin,       \* the StateCoin object in memory
    out,        \* the coin received from the swap, in the wallet's list
    disk,       \* coin and out as last saved
    pc,         \* per attempt: where its Swap object is
    step,       \* per attempt: next_step
    nret,       \* per attempt: n_retries
    resumed,    \* per attempt: the resume flag
    reply,      \* per attempt: the answer of the request in flight
    active,     \* wallet.active
    boot,       \* how far loading the wallet has come
    leaving,    \* deRegisterSwapCoin is between its request and its re-check
    restarts    \* restarts so far

walletVars ==
    <<coin, out, disk, pc, step, nret, resumed, reply, active, boot, leaving, restarts>>
vars == <<serverVars, walletVars>>

-------------------------------------------------------------------------------
(* The coin *)

Statuses == {"AVAILABLE", "AWAITING_SWAP", "IN_SWAP", "SWAPPED"}
SwapStatuses ==
    {"null", "Init", "Phase0", "Phase1", "Phase2", "Phase3", "Phase4", "End"}

\* swap_address stands for swap_my_bst_data too, msg3 is
\* swap_transfer_msg_3_receiver and the key it is made out to, msg4 the key
\* swap_transfer_msg_4 was made with, finalized the o2 key of
\* swap_transfer_finalized_data.
Coins ==
    [status : Statuses, swap_status : SwapStatuses, swap_id : 0 .. MaxSwaps,
     swap_info : BOOLEAN, swap_address : Keys, receiver_addr : BOOLEAN,
     transfer_msg : BOOLEAN, batch_data : BOOLEAN,
     msg3 : Keys, msg4 : Keys, finalized : Keys]

\* setSwapDataToNull: the data goes and the coin is AVAILABLE.
SwapDataNull ==
    [status |-> "AVAILABLE", swap_status |-> "null", swap_id |-> 0,
     swap_info |-> FALSE, swap_address |-> NoKey, receiver_addr |-> FALSE,
     transfer_msg |-> FALSE, batch_data |-> FALSE,
     msg3 |-> NoKey, msg4 |-> NoKey, finalized |-> NoKey]

Outs == [proof_key : Keys, o2 : Keys]
NoOut == [proof_key |-> NoKey, o2 |-> NoKey]

\* saveStateCoin stores the whole coin list, or throws and stores nothing.
Save == disk' = [coin |-> coin', out |-> out']
SaveThrows(place) == place \in SaveFails /\ UNCHANGED disk

-------------------------------------------------------------------------------
(* The loop of one attempt *)

PCs == {"new", "starting", "ready", "wait", "msg4", "post", "posted",
        "poll", "polled", "done"}
Replies == {"ok", "err", "id", "null", "gone", "nodata", "Phase1", "Phase2",
            "Phase3", "Phase4", "one", "many", "none", "notmine", "timeout", "open"}

Live == {a \in Attempts : pc[a] \notin {"new", "done"}}

\* The three guards of the step table.
StatusOK(n) ==
    /\ n \in 0 .. 2 => coin.status = "AWAITING_SWAP"
    /\ n \in (3 .. 6) \cup (9 .. 11) \cup (14 .. 16) => coin.status = "IN_SWAP"

SwapStatusOK(n) ==
    /\ n \in 0 .. 1 => coin.swap_status \in {"null", "Init"}
    /\ n = 2 => coin.swap_status = "Phase0"
    /\ n \in 3 .. 5 => coin.swap_status = "Phase1"
    /\ n = 6 => coin.swap_status = "Phase2"
    /\ n \in 9 .. 11 => coin.swap_status = "Phase3"
    /\ n \in 14 .. 16 => coin.swap_status = "Phase4"

PropertiesOK(n) ==
    /\ n \in {3, 6, 9, 14, 15, 16} => coin.swap_id # 0
    /\ n \in {6, 9, 14, 15, 16} => coin.swap_info
    /\ n \in {6, 9} => coin.swap_address # NoKey
    /\ n = 9 => coin.receiver_addr
    /\ n \in {11, 12} => coin.transfer_msg
    /\ n \in {13, 14} => coin.msg3 # NoKey
    /\ n = 14 => coin.batch_data
    /\ n \in {15, 16} => coin.finalized # NoKey

\* doNext: the checks a step passes before it runs.
ChecksPass(a) ==
    /\ active
    /\ StatusOK(step[a]) /\ SwapStatusOK(step[a]) /\ PropertiesOK(step[a])
    /\ coin.swap_status = "Phase4" \/ nret[a] < MaxReps
    /\ coin.status # "AVAILABLE"

\* The step timer runs over in a step that was retried.
TimerMayExpire(a) == nret[a] > 0 /\ coin.swap_status \notin {"Phase0", "Phase4"}

\* The messages of the step table that ask to exit the swap.
ChecksError(a) ==
    IF /\ active /\ StatusOK(step[a]) /\ SwapStatusOK(step[a])
       /\ ~PropertiesOK(step[a]) /\ step[a] \in {11, 14, 15, 16}
    THEN "exiting" ELSE "other"

\* incrementRetries: in phase 4, where the count is not read, it stays.
RetriesAfter(a, c, why) ==
    CASE c.status = "AWAITING_SWAP" /\ why = "waiting" -> 1
      [] c.status # "AWAITING_SWAP" /\ c.swap_status = "Phase4" -> nret[a]
      [] OTHER -> IF nret[a] < MaxReps THEN nret[a] + 1 ELSE nret[a]

\* SwapStepResult.Ok: next step, counters reset.
StepOk(a, c) ==
    /\ coin' = c
    /\ pc' = [pc EXCEPT ![a] = "ready"]
    /\ step' = [step EXCEPT ![a] = @ + 1]
    /\ nret' = [nret EXCEPT ![a] = 0]

\* SwapStepResult.Retry: the same step again after a delay.
StepRetry(a, c, why) ==
    /\ coin' = c
    /\ pc' = [pc EXCEPT ![a] = "ready"]
    /\ nret' = [nret EXCEPT ![a] = RetriesAfter(a, c, why)]
    /\ UNCHANGED step

EndLoop(a) ==
    /\ pc' = [pc EXCEPT ![a] = "done"]
    /\ step' = [step EXCEPT ![a] = 0]
    /\ nret' = [nret EXCEPT ![a] = 0]

\* Mutant: every error clears the swap data.
ThrowClearsAlways(a, c, e) ==
    /\ EndLoop(a)
    /\ UNCHANGED out
    /\ coin' = SwapDataNull
    /\ Save \/ SaveThrows("error")

\* An error leaves do_swap_poll: handleSwapError, then the loop is over.
\* c is the coin as the step left it, e what the message contains.
Throw(a, c, e) ==
    /\ EndLoop(a)
    /\ UNCHANGED out
    /\ IF c.swap_status # "Phase4" \/ e \in {"timeout", "exiting"}
       THEN /\ coin' = SwapDataNull
            /\ Save \/ SaveThrows("error")
       ELSE coin' = c /\ UNCHANGED disk

NoReply == [kind |-> "ok", id |-> 0]

LoopFrame == UNCHANGED <<resumed, active, boot, leaving, restarts>>

\* A step that goes on without a request of its own.
NoRequest == UNCHANGED <<serverVars, reply>> /\ LoopFrame

\* A step that takes the answer of its request.
TakesReply(a) ==
    /\ reply' = [reply EXCEPT ![a] = NoReply]
    /\ UNCHANGED serverVars /\ LoopFrame

\* A request goes out and is answered with k, or the answer is lost.
Ask(a, to, k) ==
    /\ pc' = [pc EXCEPT ![a] = to]
    /\ reply' = [reply EXCEPT ![a] = [kind |-> k, id |-> sid]]
    /\ UNCHANGED <<coin, out, disk, step, nret>> /\ LoopFrame

Query(a, to, kinds) ==
    /\ \E k \in kinds \cup {"err"} : Ask(a, to, k)
    /\ UNCHANGED serverVars

Command(a, to, Effect) ==
    \/ Effect /\ \E k \in {"ok", "err"} : Ask(a, to, k)
    \/ UNCHANGED serverVars /\ Ask(a, to, "err")

-------------------------------------------------------------------------------
(* doNext *)

\* A check fails: the step is not run.
StepThrows(a) ==
    /\ pc[a] = "ready"
    /\ ~ChecksPass(a) \/ TimerMayExpire(a)
    /\ Throw(a, coin, ChecksError(a))
    /\ NoRequest

\* The attempt's one HTTP request is out and holds a permit of http_client's
\* semaphore (steps of several requests hold none between two of them).
HoldsPermit(a) == pc[a] = "wait" /\ step[a] \in (1 .. 7) \cup {9, 12, 15}

\* The checks pass and the step sends its request.  The second message takes
\* all permits, so it waits until the requests of the other loops are done.
Request(a) ==
    /\ pc[a] = "ready" /\ ChecksPass(a)
    /\ \/ step[a] = 1 /\ Command(a, "wait", RegisterUtxo)
       \/ step[a] \in {2, 3} /\ Query(a, "wait", PollUtxoReply)
       \/ step[a] = 4 /\ Query(a, "wait", SwapInfoReply(coin.swap_id))
       \/ step[a] = 5 /\ Command(a, "wait", FirstMessage(coin.swap_id, a))
       \/ step[a] \in {6, 9, 15} /\ Query(a, "wait", PollSwapReply(coin.swap_id))
       \/ step[a] = 7 /\ Query(a, "wait", BSSReply(coin.swap_id))
       \/ /\ step[a] = 8 /\ \A b \in Attempts \ {a} : ~HoldsPermit(b)
          /\ Command(a, "wait", SecondMessage(coin.swap_id))
       \/ step[a] = 10 /\ Query(a, "wait", SenderReply(coin.swap_id))
       \/ step[a] = 11 /\ Command(a, "wait", UpdateMsg(coin.swap_id))
       \/ step[a] = 12 /\ coin.msg3 = NoKey /\ Query(a, "wait", Msg3Reply(a))
       \/ step[a] = 16 /\ Query(a, "wait", KeygenReply(coin.swap_id))

\* The answer of the request of step n has arrived.
Answered(a, n) ==
    /\ pc[a] = "wait" /\ step[a] = n
    /\ TakesReply(a)

-------------------------------------------------------------------------------
(* The steps, in the order of the step table *)

CheckProofKeyDer(a) ==
    /\ pc[a] = "ready" /\ step[a] = 0 /\ ChecksPass(a)
    /\ StepOk(a, coin)
    /\ UNCHANGED <<out, disk>> /\ NoRequest

OnSwapRegisterUtxo(a) ==
    /\ Answered(a, 1)
    /\ \/ /\ reply[a].kind = "ok"
          /\ StepOk(a, [coin EXCEPT !.swap_status = "Phase0"])
          /\ UNCHANGED <<out, disk>>
       \/ /\ reply[a].kind = "err" /\ nret[a] <= RegLimit
          /\ StepRetry(a, coin, "other")
          /\ UNCHANGED <<out, disk>>
       \/ /\ reply[a].kind = "err" /\ nret[a] > RegLimit
          /\ Throw(a, coin, "other")

OnPollUtxoPhase0(a) ==
    /\ Answered(a, 2)
    /\ \/ /\ reply[a].kind = "id"
          /\ StepOk(a, [coin EXCEPT !.swap_id = reply[a].id, !.status = "IN_SWAP",
                                    !.swap_status = "Phase1"])
          /\ UNCHANGED <<out, disk>>
       \/ /\ reply[a].kind \in {"null", "err"}
          /\ StepRetry(a, coin, IF reply[a].kind = "null" THEN "waiting" ELSE "other")
          /\ UNCHANGED <<out, disk>>
       \/ /\ reply[a].kind = "gone"
          /\ Throw(a, coin, "other")

OnPollUtxoPhase1(a) ==
    /\ Answered(a, 3)
    /\ \/ /\ reply[a].kind = "id"
          /\ StepOk(a, [coin EXCEPT !.swap_id = reply[a].id])
          /\ UNCHANGED <<out, disk>>
       \/ /\ reply[a].kind \in {"gone", "err"}
          /\ StepRetry(a, coin, "other")
          /\ UNCHANGED <<out, disk>>
       \/ /\ reply[a].kind = "null"
          /\ Throw(a, [coin EXCEPT !.swap_id = 0], "other")

OnLoadSwapInfo(a) ==
    /\ Answered(a, 4)
    /\ IF reply[a].kind = "ok"
       THEN StepOk(a, [coin EXCEPT !.swap_info = TRUE])
       ELSE StepRetry(a, coin, "other")
    /\ UNCHANGED <<out, disk>>

OnGetBSTData(a) ==
    /\ Answered(a, 5)
    /\ IF reply[a].kind = "ok"
       THEN StepOk(a, [coin EXCEPT !.swap_address = a, !.swap_status = "Phase2"])
       ELSE StepRetry(a, coin, "other")
    /\ UNCHANGED <<out, disk>>

OnPollSwapPhase2(a) ==
    /\ Answered(a, 6)
    /\ \/ reply[a].kind = "Phase2" /\ StepOk(a, coin) /\ UNCHANGED <<out, disk>>
       \/ /\ reply[a].kind \in {"Phase1", "nodata", "err"}
          /\ StepRetry(a, coin, "other")
          /\ UNCHANGED <<out, disk>>
       \/ reply[a].kind \in {"null", "Phase3", "Phase4"} /\ Throw(a, coin, "other")

OnGetBSS(a) ==
    /\ Answered(a, 7)
    /\ IF reply[a].kind = "ok" THEN StepOk(a, coin) ELSE StepRetry(a, coin, "other")
    /\ UNCHANGED <<out, disk>>

OnDoSwapSecondMessage(a) ==
    /\ Answered(a, 8)
    /\ IF reply[a].kind = "ok"
       THEN StepOk(a, [coin EXCEPT !.receiver_addr = TRUE, !.swap_status = "Phase3"])
       ELSE StepRetry(a, coin, "other")
    /\ UNCHANGED <<out, disk>>

OnPollSwapPhase3(a) ==
    /\ Answered(a, 9)
    /\ \/ reply[a].kind = "Phase4" /\ StepOk(a, coin) /\ UNCHANGED <<out, disk>>
       \/ /\ reply[a].kind \notin {"Phase4", "null"}
          /\ StepRetry(a, coin, "other")
          /\ UNCHANGED <<out, disk>>
       \/ reply[a].kind = "null" /\ Throw(a, coin, "other")

OnTransferSender(a) ==
    /\ Answered(a, 10)
    /\ UNCHANGED out
    /\ IF reply[a].kind = "ok"
       THEN LET c == [coin EXCEPT !.transfer_msg = TRUE]
            IN  \/ StepOk(a, c) /\ Save
                \/ StepRetry(a, c, "other") /\ SaveThrows("sender")
       ELSE StepRetry(a, coin, "other") /\ UNCHANGED disk

OnTransferUpdateMsg(a) ==
    /\ Answered(a, 11)
    /\ IF reply[a].kind = "ok" THEN StepOk(a, coin) ELSE StepRetry(a, coin, "other")
    /\ UNCHANGED <<out, disk>>

\* A message kept from an earlier try of the step.
GetTransferMsg3Kept(a) ==
    /\ pc[a] = "ready" /\ step[a] = 12 /\ ChecksPass(a)
    /\ coin.msg3 # NoKey
    /\ StepOk(a, coin)
    /\ UNCHANGED <<out, disk>> /\ NoRequest

\* The request is outside any try: a network error ends the swap.
OnGetTransferMsg3(a) ==
    /\ Answered(a, 12)
    /\ \/ /\ reply[a].kind = "one" /\ coin.swap_info
          /\ UNCHANGED out
          /\ LET c == [coin EXCEPT !.msg3 = a]
             IN  \/ StepOk(a, c) /\ Save
                 \/ StepRetry(a, c, "other") /\ SaveThrows("msg3")
       \/ /\ reply[a].kind = "none" /\ coin.swap_status # "Phase4"
          /\ StepRetry(a, coin, "other")
          /\ UNCHANGED <<out, disk>>
       \/ /\ reply[a].kind = "none" /\ coin.swap_status = "Phase4"
          /\ Throw(a, coin, "exiting")
       \/ /\ reply[a].kind = "many" /\ coin.swap_info
          /\ Throw(a, coin, "exiting")
       \/ /\ reply[a].kind = "err" \/ (reply[a].kind \in {"one", "many"} /\ ~coin.swap_info)
          /\ Throw(a, coin, "other")

MakeSwapCommitment(a) ==
    /\ pc[a] = "ready" /\ step[a] = 13 /\ ChecksPass(a)
    /\ NoRequest
    /\ IF coin.swap_info
       THEN LET c == [coin EXCEPT !.batch_data = TRUE, !.swap_status = "Phase4"]
            IN  /\ UNCHANGED out
                /\ \/ StepOk(a, c) /\ Save
                   \/ StepRetry(a, c, "other") /\ SaveThrows("commit")
       ELSE Throw(a, coin, "other")

(* transferReceiver: msg4 is made and saved, then posted. *)

\* Nothing to do when the data of an earlier try is there; the key check of
\* getTransferMsg4 compares the attempt's own key with the message's.
TransferReceiver(a) ==
    /\ pc[a] = "ready" /\ step[a] = 14 /\ ChecksPass(a)
    /\ \/ /\ coin.finalized # NoKey
          /\ StepOk(a, coin)
          /\ UNCHANGED <<out, disk>> /\ NoRequest
       \/ /\ coin.finalized = NoKey /\ coin.msg4 # NoKey
          /\ pc' = [pc EXCEPT ![a] = "post"]
          /\ UNCHANGED <<coin, out, disk, step, nret>> /\ NoRequest
       \/ /\ coin.finalized = NoKey /\ coin.msg4 = NoKey
          /\ Query(a, "msg4", {IF a = coin.msg3 THEN "ok" ELSE "notmine"})

\* Mutant: msg4 is posted before it is saved.
OnGetTransferMsg4Unsaved(a) ==
    /\ pc[a] = "msg4" /\ step[a] = 14
    /\ TakesReply(a)
    /\ \/ /\ reply[a].kind = "ok"
          /\ coin' = [coin EXCEPT !.msg4 = a]
          /\ pc' = [pc EXCEPT ![a] = "post"]
          /\ UNCHANGED <<out, disk, step, nret>>
       \/ /\ reply[a].kind = "err"
          /\ pc' = [pc EXCEPT ![a] = "poll"]
          /\ UNCHANGED <<coin, out, disk, step, nret>>
       \/ /\ reply[a].kind = "notmine"
          /\ Throw(a, coin, "exiting")

OnGetTransferMsg4(a) ==
    /\ pc[a] = "msg4" /\ step[a] = 14
    /\ TakesReply(a)
    /\ \/ /\ reply[a].kind = "ok"
          /\ coin' = [coin EXCEPT !.msg4 = a]
          /\ UNCHANGED <<out, step, nret>>
          /\ \/ pc' = [pc EXCEPT ![a] = "post"] /\ Save
             \/ pc' = [pc EXCEPT ![a] = "poll"] /\ SaveThrows("msg4")
       \/ /\ reply[a].kind = "err"
          /\ pc' = [pc EXCEPT ![a] = "poll"]
          /\ UNCHANGED <<coin, out, disk, step, nret>>
       \/ /\ reply[a].kind = "notmine"
          /\ Throw(a, coin, "exiting")

\* Posts msg4 unless the statechain has already changed hands, in which case
\* the owner is asked for; both need this attempt's key to be the message's
\* only in the second case.
PostTransferMsg4(a) ==
    /\ pc[a] = "post"
    /\ IF coin.swap_id # 0 /\ batch[coin.swap_id] = "finalized"
       THEN Query(a, "posted", IF a = coin.msg3 THEN {"ok"} ELSE {})
       ELSE Command(a, "posted",
                    coin.msg3 # NoKey /\ coin.batch_data /\ PostReceiver(coin.swap_id))

OnTransferReceiver(a) ==
    /\ pc[a] = "posted" /\ step[a] = 14
    /\ TakesReply(a) /\ UNCHANGED out
    /\ IF reply[a].kind = "ok"
       THEN LET c == [coin EXCEPT !.finalized = a]
            IN  \/ StepOk(a, c) /\ Save
                \/ /\ coin' = c /\ SaveThrows("finalize")
                   /\ pc' = [pc EXCEPT ![a] = "poll"]
                   /\ UNCHANGED <<step, nret>>
       ELSE /\ pc' = [pc EXCEPT ![a] = "poll"]
            /\ UNCHANGED <<coin, disk, step, nret>>

\* Errors of steps 14 and 16: the swap is polled and, when it is over, the
\* status of its batch transfer.
PollAfterError(a) ==
    /\ pc[a] = "poll"
    /\ Query(a, "polled", IF coin.swap_id = 0 THEN {} ELSE BatchReply(coin.swap_id))

\* Mutant: the timeout of the batch transfer is not recognised.
OnPollAfterErrorRetries(a) ==
    /\ pc[a] = "polled"
    /\ TakesReply(a)
    /\ StepRetry(a, coin, "other") /\ UNCHANGED <<out, disk>>

OnPollAfterError(a) ==
    /\ pc[a] = "polled"
    /\ TakesReply(a)
    /\ IF reply[a].kind = "timeout"
       THEN Throw(a, coin, "timeout")
       ELSE StepRetry(a, coin, "other") /\ UNCHANGED <<out, disk>>

\* The error of swapPhase4CheckPhase is thrown inside the try of
\* swapPhase4PollSwap, whose catch lets only the missing identifier through.
OnSwapPhase4PollSwap(a) ==
    /\ Answered(a, 15)
    /\ \/ /\ reply[a].kind \in {"Phase4", "null"}
          /\ StepOk(a, coin) /\ UNCHANGED <<out, disk>>
       \/ /\ reply[a].kind \in {"Phase1", "Phase2", "Phase3", "err"}
          /\ StepRetry(a, coin, "other") /\ UNCHANGED <<out, disk>>
       \/ reply[a].kind = "nodata" /\ Throw(a, coin, "other")

\* Mutants: the loop runs one step too far; the swap data is cleared before the
\* received coin is made from it.
OnTransferReceiverFinalizeOneMore(a) ==
    /\ Answered(a, 16)
    /\ reply[a].kind = "ok"
    /\ out' = [proof_key |-> coin.msg3, o2 |-> coin.finalized]
    /\ StepOk(a, coin)
    /\ Save

OnTransferReceiverFinalizeCleared(a) ==
    /\ Answered(a, 16)
    /\ reply[a].kind = "ok"
    /\ coin' = [SwapDataNull EXCEPT !.status = "SWAPPED"]
    /\ out' = [proof_key |-> coin.msg3, o2 |-> coin'.finalized]
    /\ EndLoop(a)
    /\ Save

\* transferReceiverFinalize, setStatecoinOut and, after the last step,
\* doPostSwap; when the save in addStatecoin throws, the step is retried on a
\* coin that is no longer in the swap.
OnTransferReceiverFinalize(a) ==
    /\ Answered(a, 16)
    /\ \/ /\ reply[a].kind = "err"
          /\ pc' = [pc EXCEPT ![a] = "poll"]
          /\ UNCHANGED <<coin, out, disk, step, nret>>
       \/ /\ reply[a].kind = "ok"
          /\ out' = [proof_key |-> coin.msg3, o2 |-> coin.finalized]
          /\ \/ /\ coin' = [SwapDataNull EXCEPT !.status = "SWAPPED",
                                                !.finalized = coin.finalized]
                /\ EndLoop(a)
                /\ Save
             \/ /\ coin' = [coin EXCEPT !.status = "SWAPPED", !.swap_status = "End"]
                /\ pc' = [pc EXCEPT ![a] = "poll"]
                /\ UNCHANGED <<step, nret>>
                /\ SaveThrows("out")

-------------------------------------------------------------------------------
(* The wallet's operations on the coin *)

\* do_swap up to the point where the new proof key is being made.  The user
\* interface offers AVAILABLE coins only.
DoSwap(a) ==
    /\ pc[a] = "new" /\ active
    /\ Hasty \/ (boot = "ready" /\ Live = {})
    /\ coin.status = "AVAILABLE"
    /\ pc' = [pc EXCEPT ![a] = "starting"]
    /\ resumed' = [resumed EXCEPT ![a] = (coin.swap_status = "Phase4")]
    /\ UNCHANGED <<serverVars, coin, out, disk, step, nret, reply,
                   active, boot, leaving, restarts>>

\* do_swap_poll: validate, prepare_statecoin, resetCounters.
StartLoop(a) ==
    /\ pc[a] = "starting"
    /\ NoRequest
    /\ LET valid ==
             IF resumed[a]
             THEN coin.status = "IN_SWAP" /\ coin.swap_status = "Phase4"
             ELSE coin.status = "AVAILABLE" /\ coin.swap_status # "Phase4"
       IN  \/ /\ valid
              /\ coin' = IF resumed[a] THEN coin
                         ELSE [SwapDataNull EXCEPT !.status = "AWAITING_SWAP",
                                                   !.swap_status = "Init"]
              /\ pc' = [pc EXCEPT ![a] = "ready"]
              /\ step' = [step EXCEPT ![a] = IF resumed[a] THEN 14 ELSE 0]
              /\ nret' = [nret EXCEPT ![a] = 0]
              /\ UNCHANGED <<out, disk>>
           \/ /\ ~valid
              /\ Throw(a, coin, "other")

\* deRegisterSwapCoin: the check and the request; a refused or lost request
\* throws and changes nothing in the wallet.
Leave ==
    /\ active /\ ~leaving /\ coin.status = "AWAITING_SWAP"
    /\ DeregisterUtxo
    /\ \E answered \in BOOLEAN : leaving' = answered
    /\ UNCHANGED <<coin, out, disk, pc, step, nret, resumed, reply,
                   active, boot, restarts>>

\* removeCoinFromSwapPool checks the status again after the await.
RemoveCoinFromSwapPool ==
    /\ leaving
    /\ leaving' = FALSE
    /\ \/ coin.status = "AWAITING_SWAP" /\ coin' = SwapDataNull /\ UNCHANGED out /\ Save
       \/ coin.status # "AWAITING_SWAP" /\ UNCHANGED <<coin, out, disk>>
    /\ UNCHANGED <<serverVars, pc, step, nret, resumed, reply, active, boot, restarts>>

\* unload: the loops are told to end, and are not waited for.
Unload ==
    /\ active
    /\ active' = FALSE
    /\ UNCHANGED <<coin, out>> /\ Save
    /\ UNCHANGED <<serverVars, pc, step, nret, resumed, reply, boot, leaving, restarts>>

\* Mutant: a coin in phase 4 is reset too.
ResetSwapStatesAll(c) == IF c.status = "IN_SWAP" THEN SwapDataNull ELSE c

\* resetSwapStates on a coin read from disk.
ResetSwapStates(c) ==
    IF c.status = "IN_SWAP" /\ c.swap_status # "Phase4" THEN SwapDataNull ELSE c

\* The process ends, at any point, and the wallet is loaded again.
Restart ==
    /\ restarts < MaxRestarts
    /\ restarts' = restarts + 1
    /\ coin' = ResetSwapStates(disk.coin)
    /\ out' = disk.out
    /\ Save
    /\ pc' = [a \in Attempts |-> IF pc[a] = "new" THEN "new" ELSE "done"]
    /\ step' = [a \in Attempts |-> 0]
    /\ nret' = [a \in Attempts |-> 0]
    /\ reply' = [a \in Attempts |-> NoReply]
    /\ active' = TRUE
    /\ boot' = "loaded"
    /\ leaving' = FALSE
    /\ UNCHANGED <<serverVars, resumed>>

\* deRegisterSwaps: an answer that is lost, or a refusal, stops the loading.
DeRegisterSwaps ==
    /\ active /\ boot = "loaded"
    /\ UNCHANGED <<pc, step, nret, resumed, reply, active, leaving, restarts>>
    /\ \/ /\ coin.status # "AWAITING_SWAP"
          /\ boot' = "deregistered"
          /\ UNCHANGED <<serverVars, coin, out, disk>>
       \/ /\ coin.status = "AWAITING_SWAP" /\ DeregisterUtxo
          /\ \/ /\ coin' = SwapDataNull /\ UNCHANGED out /\ Save
                /\ boot' = "deregistered"
             \/ UNCHANGED <<coin, out, disk, boot>>

\* updateSwapStatus: a coin in phase 4 is resumed with a new proof key.
UpdateSwapStatus ==
    /\ active /\ boot = "deregistered"
    /\ boot' = "ready"
    /\ UNCHANGED <<serverVars, step, nret, reply, active, leaving, restarts, out>>
    /\ \/ /\ coin.status \in {"AVAILABLE", "SWAPPED"}
          /\ UNCHANGED <<coin, disk, pc, resumed>>
       \/ /\ coin.status \in {"AWAITING_SWAP", "IN_SWAP"} /\ coin.swap_status # "Phase4"
          /\ coin' = SwapDataNull /\ Save
          /\ UNCHANGED <<pc, resumed>>
       \/ /\ coin.status \in {"AWAITING_SWAP", "IN_SWAP"} /\ coin.swap_status = "Phase4"
          /\ \E a \in Attempts :
                /\ pc[a] = "new"
                /\ pc' = [pc EXCEPT ![a] = "starting"]
                /\ resumed' = [resumed EXCEPT ![a] = TRUE]
          /\ UNCHANGED <<coin, disk>>

-------------------------------------------------------------------------------
Init ==
    /\ ServerInit
    /\ coin = SwapDataNull
    /\ out = NoOut
    /\ disk = [coin |-> coin, out |-> out]
    /\ pc = [a \in Attempts |-> "new"]
    /\ step = [a \in Attempts |-> 0]
    /\ nret = [a \in Attempts |-> 0]
    /\ resumed = [a \in Attempts |-> FALSE]
    /\ reply = [a \in Attempts |-> NoReply]
    /\ active = TRUE
    /\ boot = "loaded"
    /\ leaving = FALSE
    /\ restarts = 0

LoopNext(a) ==
    \/ StartLoop(a) \/ StepThrows(a) \/ Request(a)
    \/ CheckProofKeyDer(a) \/ OnSwapRegisterUtxo(a)
    \/ OnPollUtxoPhase0(a) \/ OnPollUtxoPhase1(a)
    \/ OnLoadSwapInfo(a) \/ OnGetBSTData(a)
    \/ OnPollSwapPhase2(a) \/ OnGetBSS(a) \/ OnDoSwapSecondMessage(a)
    \/ OnPollSwapPhase3(a) \/ OnTransferSender(a) \/ OnTransferUpdateMsg(a)
    \/ GetTransferMsg3Kept(a) \/ OnGetTransferMsg3(a) \/ MakeSwapCommitment(a)
    \/ TransferReceiver(a) \/ OnGetTransferMsg4(a)
    \/ PostTransferMsg4(a) \/ OnTransferReceiver(a)
    \/ PollAfterError(a) \/ OnPollAfterError(a)
    \/ OnSwapPhase4PollSwap(a) \/ OnTransferReceiverFinalize(a)

WalletNext ==
    \/ Leave \/ RemoveCoinFromSwapPool
    \/ Unload \/ Restart \/ DeRegisterSwaps \/ UpdateSwapStatus

Next ==
    \/ ServerNext /\ UNCHANGED walletVars
    \/ \E a \in Attempts : DoSwap(a) \/ LoopNext(a)
    \/ WalletNext

Spec == Init /\ [][Next]_vars

-------------------------------------------------------------------------------
(* Fairness: the loop of a started attempt is driven by the event loop and *)
(* its delays; a request that is repeated for ever is answered in the end; *)
(* the state entity ends every batch transfer.                             *)
Delivered(a) == reply'[a].kind \notin {"err", "nodata"}

Fairness ==
    /\ \A a \in Attempts :
          /\ WF_vars(LoopNext(a))
          /\ SF_vars(Request(a) /\ Delivered(a))
          /\ SF_vars(PostTransferMsg4(a) /\ Delivered(a))
          /\ SF_vars(PollAfterError(a) /\ Delivered(a))
    /\ WF_vars(BatchEnds /\ UNCHANGED walletVars)

FairSpec == Spec /\ Fairness

-------------------------------------------------------------------------------
(* Properties *)

\* Every variable has its type.
TypeOK ==
    /\ ServerTypeOK
    /\ coin \in Coins
    /\ out \in Outs
    /\ disk \in [coin : Coins, out : Outs]
    /\ pc \in [Attempts -> PCs]
    /\ step \in [Attempts -> 0 .. 16]
    /\ nret \in [Attempts -> 0 .. MaxReps]
    /\ resumed \in [Attempts -> BOOLEAN]
    /\ reply \in [Attempts -> [kind : Replies, id : 0 .. MaxSwaps]]
    /\ active \in BOOLEAN
    /\ boot \in {"loaded", "deregistered", "ready"}
    /\ leaving \in BOOLEAN
    /\ restarts \in 0 .. MaxRestarts

\* Once the batch transfer is finalized the input coin belongs to another
\* wallet: this wallet does not offer it again, neither now nor when it is
\* loaded from disk at any later moment (handleSwapError: "Do not delete swap
\* data for statecoins with transfer completed server side").
TransferredNotOffered ==
    Finalized => /\ coin.status # "AVAILABLE"
                 /\ ResetSwapStates(disk.coin).status # "AVAILABLE"

\* The received coin is in the wallet only when the batch was finalized, and
\* never together with a spendable input coin: the swap does not add value.
ReceivedNotCountedTwice ==
    /\ out # NoOut => Finalized /\ coin.status = "SWAPPED"
    /\ disk.out # NoOut => disk.coin.status = "SWAPPED"

\* The key share of the received coin is the one of the proof key the sender
\* made the transfer to, so the new owner can sign with it.
ReceivedCoinUsable == out.o2 = out.proof_key

\* Write-ahead: from the moment transfer_receiver commits this wallet to a
\* batch, the swap data that is needed to finish is in memory and on disk, so
\* neither an error nor a crash can lose it.
KeepsSwapData(c) ==
    /\ c.status = "IN_SWAP" /\ c.swap_status = "Phase4"
    /\ c.swap_id = sid /\ c.msg4 # NoKey

CommittedKeepsData ==
    sid # 0 /\ recvd => KeepsSwapData(coin) /\ KeepsSwapData(disk.coin)

\* A coin that got into a swap leaves it, or its loop has ended.
SwapSettles == coin.status = "IN_SWAP" ~> (coin.status # "IN_SWAP" \/ Live = {})

\* "If there are no swaps running then set all the statecoin swap data to null":
\* updateSwapStatus leaves a coin alone whose swap is running.
RunningSwapLeftAlone ==
    [][boot = "deregistered" /\ boot' = "ready" /\ Live # {}
       => UNCHANGED <<coin, pc>>]_vars

\* The swap keeps the promise of IdealSwap.
Held == IF out # NoOut THEN "output"
        ELSE IF coin.status = "AVAILABLE" THEN "input" ELSE "pending"

Owned == IF Finalized THEN "output" ELSE "input"

Ideal == INSTANCE IdealSwap WITH held <- Held, owned <- Owned

KeepsPromise == Ideal!Spec
===============================================================================
