--------------------------- MODULE CoinSwap_proofs -----------------------------
(***************************************************************************)
(* Proofs about CoinSwap, for every number of attempts, swaps, retries and *)
(* restarts.  First the types, whatever saves fail and however hasty the   *)
(* user; then the safety of a careful user's swap, by the invariant of     *)
(* module CoinSwapInv; and last that such a swap implements IdealSwap.     *)
(***************************************************************************)
EXTENDS CoinSwapInv, TLAPS

\* The variables a loop's step writes, and all the others.
SwapTypes ==
    /\ coin \in Coins /\ out \in Outs /\ disk \in [coin : Coins, out : Outs]
    /\ pc \in [Attempts -> PCs]
    /\ step \in [Attempts -> 0 .. 16]
    /\ nret \in [Attempts -> 0 .. MaxReps]

OtherTypes ==
    /\ ServerTypeOK
    /\ resumed \in [Attempts -> BOOLEAN]
    /\ reply \in [Attempts -> [kind : Replies, id : 0 .. MaxSwaps]]
    /\ active \in BOOLEAN
    /\ boot \in {"loaded", "deregistered", "ready"}
    /\ leaving \in BOOLEAN
    /\ restarts \in 0 .. MaxRestarts

\* What a step does with the wallet file when it leaves out alone.
Kept == UNCHANGED <<out, disk>>
Saved == UNCHANGED out /\ (Save \/ \E place : SaveThrows(place))

-------------------------------------------------------------------------------
(* The initial state *)

LEMMA ZeroIds == 0 \in 0 .. MaxSwaps
  BY MaxSwapsAssumption

LEMMA NullTyped ==
  /\ SwapDataNull \in Coins /\ NoOut \in Outs
  /\ NoReply \in [kind : Replies, id : 0 .. MaxSwaps]
  BY NoKeyAssumption, MaxSwapsAssumption
  DEF SwapDataNull, Coins, NoOut, Outs, NoReply, Replies, Keys, Statuses, SwapStatuses

LEMMA InitTypes ==
  ASSUME Init PROVE TypeOK
  <1>1. sid \in 0 .. MaxSwaps /\ lastSid \in 0 .. MaxSwaps /\ phase \in 0 .. 4
    BY MaxSwapsAssumption DEF Init, ServerInit
  <1>2. /\ pool \in BOOLEAN /\ second \in BOOLEAN /\ updated \in BOOLEAN
        /\ incoming \in BOOLEAN /\ recvd \in BOOLEAN
    BY DEF Init, ServerInit
  <1>3. batch \in [SwapIds -> BatchStates]
    BY DEF Init, ServerInit, BatchStates
  <1>4. addr \in Keys
    BY DEF Init, ServerInit, Keys
  <1>5. ServerTypeOK
    BY <1>1, <1>2, <1>3, <1>4 DEF ServerTypeOK
  <1>6. coin \in Coins /\ out \in Outs /\ disk \in [coin : Coins, out : Outs]
    BY NullTyped DEF Init
  <1>7. /\ pc \in [Attempts -> PCs] /\ resumed \in [Attempts -> BOOLEAN]
        /\ reply \in [Attempts -> [kind : Replies, id : 0 .. MaxSwaps]]
    BY NullTyped DEF Init, PCs
  <1>8. /\ step \in [Attempts -> 0 .. 16] /\ nret \in [Attempts -> 0 .. MaxReps]
        /\ restarts \in 0 .. MaxRestarts
    BY LimitsAssumption DEF Init
  <1>9. active \in BOOLEAN /\ leaving \in BOOLEAN /\ boot \in {"loaded", "deregistered", "ready"}
    BY DEF Init
  <1> QED
    BY <1>5, <1>6, <1>7, <1>8, <1>9 DEF TypeOK

-------------------------------------------------------------------------------
(* The conductor's steps *)

LEMMA SwapEndsTypes ==
  ASSUME TypeOK, SwapEnds, batch' \in [SwapIds -> BatchStates] PROVE ServerTypeOK'
  <1>1. sid' \in 0 .. MaxSwaps /\ phase' \in 0 .. 4
    BY ZeroIds DEF SwapEnds
  <1>2. second' \in BOOLEAN /\ updated' \in BOOLEAN /\ recvd' \in BOOLEAN
    BY DEF SwapEnds
  <1> QED
    BY <1>1, <1>2 DEF SwapEnds, TypeOK, ServerTypeOK

LEMMA MatchSwapTypes ==
  ASSUME TypeOK, MatchSwap PROVE ServerTypeOK'
  <1>1. sid' \in 0 .. MaxSwaps /\ lastSid' \in 0 .. MaxSwaps
    BY MaxSwapsAssumption DEF TypeOK, ServerTypeOK, MatchSwap
  <1>2. phase' \in 0 .. 4 /\ addr' \in Keys
    BY DEF MatchSwap, Keys
  <1>3. /\ pool' \in BOOLEAN /\ second' \in BOOLEAN /\ updated' \in BOOLEAN
        /\ incoming' \in BOOLEAN /\ recvd' \in BOOLEAN
    BY DEF MatchSwap
  <1> QED
    BY <1>1, <1>2, <1>3 DEF MatchSwap, TypeOK, ServerTypeOK

LEMMA ServerTypes ==
  ASSUME TypeOK, ServerNext PROVE ServerTypeOK'
  <1>1. CASE PoolTimeout
    BY <1>1 DEF PoolTimeout, TypeOK, ServerTypeOK
  <1>2. CASE AdvancePhase
    BY <1>2 DEF AdvancePhase, TypeOK, ServerTypeOK
  <1>3. CASE PeerSends
    BY <1>3 DEF PeerSends, TypeOK, ServerTypeOK
  <1>4. CASE SwapHalted
    BY <1>4, SwapEndsTypes DEF SwapHalted, TypeOK, ServerTypeOK
  <1>5. CASE BatchFinalize
    <2>1. batch' \in [SwapIds -> BatchStates]
      BY <1>5 DEF BatchFinalize, TypeOK, ServerTypeOK, BatchStates
    <2> QED
      BY <1>5, <2>1, SwapEndsTypes DEF BatchFinalize
  <1>6. CASE BatchTimeout
    <2>1. batch' \in [SwapIds -> BatchStates]
      BY <1>6 DEF BatchTimeout, TypeOK, ServerTypeOK, BatchStates
    <2> QED
      BY <1>6, <2>1, SwapEndsTypes DEF BatchTimeout
  <1> QED
    BY <1>1, <1>2, <1>3, <1>4, <1>5, <1>6, MatchSwapTypes DEF ServerNext, BatchEnds

-------------------------------------------------------------------------------
(* The ways a step of a loop can end *)

LEMMA FrameTypes ==
  ASSUME TypeOK, NEW a \in Attempts, TakesReply(a) \/ NoRequest PROVE OtherTypes'
  BY NullTyped
  DEF TypeOK, OtherTypes, TakesReply, NoRequest, LoopFrame, serverVars, ServerTypeOK

LEMMA SaveTypes ==
  ASSUME SwapTypes, coin' \in Coins, out' \in Outs, NEW place, Save \/ SaveThrows(place)
  PROVE  disk' \in [coin : Coins, out : Outs]
  BY DEF SwapTypes, Save, SaveThrows

LEMMA OkTypes ==
  ASSUME TypeOK, NEW a \in Attempts, NEW c \in Coins, StepOk(a, c), step[a] # 16, Kept \/ Saved
  PROVE  SwapTypes'
  <1>1. coin' \in Coins /\ out' \in Outs
    BY DEF TypeOK, StepOk, Kept, Saved
  <1>2. disk' \in [coin : Coins, out : Outs]
    BY <1>1, SaveTypes DEF TypeOK, SwapTypes, Kept, Saved
  <1> QED BY <1>1, <1>2, LimitsAssumption DEF TypeOK, SwapTypes, StepOk, PCs

LEMMA RetriesTypes ==
  ASSUME TypeOK, NEW a \in Attempts, NEW c \in Coins, NEW w
  PROVE  RetriesAfter(a, c, w) \in 0 .. MaxReps
  BY LimitsAssumption DEF TypeOK, RetriesAfter

LEMMA RetryTypes ==
  ASSUME TypeOK, NEW a \in Attempts, NEW c \in Coins, NEW w, StepRetry(a, c, w), Kept \/ Saved
  PROVE  SwapTypes'
  <1>1. coin' \in Coins /\ out' \in Outs
    BY DEF TypeOK, StepRetry, Kept, Saved
  <1>2. disk' \in [coin : Coins, out : Outs]
    BY <1>1, SaveTypes DEF TypeOK, SwapTypes, Kept, Saved
  <1> QED BY <1>1, <1>2, RetriesTypes DEF TypeOK, SwapTypes, StepRetry, PCs

LEMMA ThrowTypes ==
  ASSUME TypeOK, NEW a \in Attempts, NEW c \in Coins, NEW e, Throw(a, c, e)
  PROVE  SwapTypes'
  <1>1. coin' \in Coins /\ out' \in Outs
    BY NullTyped DEF TypeOK, Throw
  <1>2. disk' \in [coin : Coins, out : Outs]
    BY <1>1, SaveTypes DEF TypeOK, SwapTypes, Throw
  <1> QED BY <1>1, <1>2, LimitsAssumption DEF TypeOK, SwapTypes, Throw, EndLoop, PCs

-------------------------------------------------------------------------------
(* Requests *)

LEMMA ReplyKinds ==
  ASSUME NEW id, NEW key
  PROVE /\ PollUtxoReply \subseteq Replies /\ PollSwapReply(id) \subseteq Replies
        /\ SwapInfoReply(id) \subseteq Replies /\ BSSReply(id) \subseteq Replies
        /\ SenderReply(id) \subseteq Replies /\ Msg3Reply(key) \subseteq Replies
        /\ BatchReply(id) \subseteq Replies /\ KeygenReply(id) \subseteq Replies
  BY
  DEF PollUtxoReply, PollSwapReply, SwapInfoReply, BSSReply, SenderReply, Msg3Reply,
      BatchReply, KeygenReply, Replies

LEMMA AskTypes ==
  ASSUME TypeOK, ServerTypeOK', NEW a \in Attempts, NEW to \in PCs, NEW k \in Replies, Ask(a, to, k)
  PROVE TypeOK'
  BY DEF TypeOK, ServerTypeOK, Ask, LoopFrame, PCs

LEMMA QueryTypes ==
  ASSUME TypeOK, NEW a \in Attempts, NEW to \in PCs, NEW K \in SUBSET Replies, Query(a, to, K)
  PROVE TypeOK'
  <1>1. ServerTypeOK'
    BY DEF Query, serverVars, TypeOK, ServerTypeOK
  <1>2. PICK k \in Replies : Ask(a, to, k)
    BY DEF Query, Replies
  <1> QED BY <1>1, <1>2, AskTypes

LEMMA RequestTypes ==
  ASSUME TypeOK, NEW a \in Attempts, Request(a) PROVE TypeOK'
  <1>1. "wait" \in PCs /\ "ok" \in Replies /\ "err" \in Replies
    BY DEF PCs, Replies
  <1>2. ASSUME NEW K \in SUBSET Replies, Query(a, "wait", K) PROVE TypeOK'
    BY <1>1, <1>2, QueryTypes
  <1>3. CASE UNCHANGED serverVars /\ Ask(a, "wait", "err")
    BY <1>1, <1>3, AskTypes DEF TypeOK, ServerTypeOK, serverVars
  <1>4. CASE /\ \E id : RegisterUtxo \/ FirstMessage(id, a) \/ SecondMessage(id) \/ UpdateMsg(id)
             /\ \E k \in {"ok", "err"} : Ask(a, "wait", k)
    <2>1. ServerTypeOK'
      BY <1>4
      DEF TypeOK, ServerTypeOK, RegisterUtxo, FirstMessage, SecondMessage, UpdateMsg,
          Keys
    <2> QED BY <1>1, <1>4, <2>1, AskTypes
  <1> QED
    BY <1>2, <1>3, <1>4, ReplyKinds DEF Request, Command

LEMMA LaterRequestTypes ==
  ASSUME TypeOK, NEW a \in Attempts, PostTransferMsg4(a) \/ PollAfterError(a) PROVE TypeOK'
  <1>1. "posted" \in PCs /\ "polled" \in PCs /\ "ok" \in Replies /\ "err" \in Replies
    BY DEF PCs, Replies
  <1>2. ASSUME NEW K \in SUBSET Replies, NEW to \in PCs, Query(a, to, K) PROVE TypeOK'
    BY <1>2, QueryTypes
  <1>3. CASE UNCHANGED serverVars /\ Ask(a, "posted", "err")
    BY <1>1, <1>3, AskTypes DEF TypeOK, ServerTypeOK, serverVars
  <1>4. CASE /\ PostReceiver(coin.swap_id)
             /\ \E k \in {"ok", "err"} : Ask(a, "posted", k)
    <2>1. ServerTypeOK'
      BY <1>4 DEF TypeOK, ServerTypeOK, PostReceiver
    <2> QED BY <1>1, <1>4, <2>1, AskTypes
  <1>5. CASE PollAfterError(a)
    BY <1>1, <1>2, <1>5, ReplyKinds DEF PollAfterError
  <1>6. CASE PostTransferMsg4(a)
    BY <1>1, <1>2, <1>3, <1>4, <1>6 DEF PostTransferMsg4, Command
  <1> QED
    BY <1>5, <1>6

-------------------------------------------------------------------------------
(* The steps of a loop *)

LEMMA TransferReceiverTypes ==
  ASSUME TypeOK, NEW a \in Attempts, TransferReceiver(a) PROVE TypeOK'
  <1>1. CASE \E K \in SUBSET Replies : Query(a, "msg4", K)
    BY <1>1, QueryTypes DEF PCs
  <1>2. CASE NoRequest /\ StepOk(a, coin) /\ Kept
    <2>1. SwapTypes'
      BY <1>2, OkTypes DEF TransferReceiver, TypeOK
    <2> QED BY <1>2, <2>1, FrameTypes DEF TypeOK, SwapTypes, OtherTypes
  <1>3. CASE /\ NoRequest /\ pc' = [pc EXCEPT ![a] = "post"]
             /\ UNCHANGED <<coin, out, disk, step, nret>>
    BY <1>3, FrameTypes DEF TypeOK, OtherTypes, PCs
  <1> QED
    BY <1>1, <1>2, <1>3 DEF TransferReceiver, Kept, Replies

LEMMA CheckProofKeyDerTypes ==
  ASSUME TypeOK, NEW a \in Attempts, CheckProofKeyDer(a) PROVE TypeOK'
  <1>1. coin \in Coins
    BY DEF TypeOK
  <1>2. SwapTypes'
    BY <1>1, OkTypes, RetryTypes, ThrowTypes DEF CheckProofKeyDer, Answered, Kept, Saved
  <1> QED
    BY <1>2, FrameTypes DEF CheckProofKeyDer, Answered, TypeOK, SwapTypes, OtherTypes

LEMMA StepThrowsTypes ==
  ASSUME TypeOK, NEW a \in Attempts, StepThrows(a) PROVE TypeOK'
  <1>1. coin \in Coins
    BY DEF TypeOK
  <1>2. SwapTypes'
    BY <1>1, OkTypes, RetryTypes, ThrowTypes DEF StepThrows, Answered, Kept, Saved
  <1> QED
    BY <1>2, FrameTypes DEF StepThrows, Answered, TypeOK, SwapTypes, OtherTypes

LEMMA OnSwapRegisterUtxoTypes ==
  ASSUME TypeOK, NEW a \in Attempts, OnSwapRegisterUtxo(a) PROVE TypeOK'
  <1>1. coin \in Coins
    BY DEF TypeOK
  <1>2. [coin EXCEPT !.swap_status = "Phase0"] \in Coins
    BY DEF TypeOK, Coins, SwapStatuses
  <1>3. SwapTypes'
    BY <1>1, <1>2, OkTypes, RetryTypes, ThrowTypes
    DEF OnSwapRegisterUtxo, Answered, Kept, Saved
  <1> QED
    BY <1>3, FrameTypes DEF OnSwapRegisterUtxo, Answered, TypeOK, SwapTypes, OtherTypes

LEMMA OnPollUtxoPhase0Types ==
  ASSUME TypeOK, NEW a \in Attempts, OnPollUtxoPhase0(a) PROVE TypeOK'
  <1>1. coin \in Coins
    BY DEF TypeOK
  <1>2. [coin EXCEPT !.swap_id = reply[a].id, !.status = "IN_SWAP",
                      !.swap_status = "Phase1"] \in Coins
    BY DEF TypeOK, Coins, SwapStatuses, Statuses
  <1>3. SwapTypes'
    BY <1>1, <1>2, OkTypes, RetryTypes, ThrowTypes
    DEF OnPollUtxoPhase0, Answered, Kept, Saved
  <1> QED
    BY <1>3, FrameTypes DEF OnPollUtxoPhase0, Answered, TypeOK, SwapTypes, OtherTypes

LEMMA OnPollUtxoPhase1Types ==
  ASSUME TypeOK, NEW a \in Attempts, OnPollUtxoPhase1(a) PROVE TypeOK'
  <1>1. coin \in Coins
    BY DEF TypeOK
  <1>2. [coin EXCEPT !.swap_id = reply[a].id] \in Coins
    BY DEF TypeOK, Coins
  <1>3. [coin EXCEPT !.swap_id = 0] \in Coins
    BY ZeroIds DEF TypeOK, Coins
  <1>4. SwapTypes'
    BY <1>1, <1>2, <1>3, OkTypes, RetryTypes, ThrowTypes
    DEF OnPollUtxoPhase1, Answered, Kept, Saved
  <1> QED
    BY <1>4, FrameTypes DEF OnPollUtxoPhase1, Answered, TypeOK, SwapTypes, OtherTypes

LEMMA OnLoadSwapInfoTypes ==
  ASSUME TypeOK, NEW a \in Attempts, OnLoadSwapInfo(a) PROVE TypeOK'
  <1>1. coin \in Coins
    BY DEF TypeOK
  <1>2. [coin EXCEPT !.swap_info = TRUE] \in Coins
    BY DEF TypeOK, Coins
  <1>3. SwapTypes'
    BY <1>1, <1>2, OkTypes, RetryTypes, ThrowTypes
    DEF OnLoadSwapInfo, Answered, Kept, Saved
  <1> QED
    BY <1>3, FrameTypes DEF OnLoadSwapInfo, Answered, TypeOK, SwapTypes, OtherTypes

LEMMA OnGetBSTDataTypes ==
  ASSUME TypeOK, NEW a \in Attempts, OnGetBSTData(a) PROVE TypeOK'
  <1>1. coin \in Coins
    BY DEF TypeOK
  <1>2. [coin EXCEPT !.swap_address = a, !.swap_status = "Phase2"] \in Coins
    BY DEF TypeOK, Coins, SwapStatuses, Keys
  <1>3. SwapTypes'
    BY <1>1, <1>2, OkTypes, RetryTypes, ThrowTypes
    DEF OnGetBSTData, Answered, Kept, Saved
  <1> QED
    BY <1>3, FrameTypes DEF OnGetBSTData, Answered, TypeOK, SwapTypes, OtherTypes

LEMMA OnPollSwapPhase2Types ==
  ASSUME TypeOK, NEW a \in Attempts, OnPollSwapPhase2(a) PROVE TypeOK'
  <1>1. coin \in Coins
    BY DEF TypeOK
  <1>2. SwapTypes'
    BY <1>1, OkTypes, RetryTypes, ThrowTypes DEF OnPollSwapPhase2, Answered, Kept, Saved
  <1> QED
    BY <1>2, FrameTypes DEF OnPollSwapPhase2, Answered, TypeOK, SwapTypes, OtherTypes

LEMMA OnGetBSSTypes ==
  ASSUME TypeOK, NEW a \in Attempts, OnGetBSS(a) PROVE TypeOK'
  <1>1. coin \in Coins
    BY DEF TypeOK
  <1>2. SwapTypes'
    BY <1>1, OkTypes, RetryTypes, ThrowTypes DEF OnGetBSS, Answered, Kept, Saved
  <1> QED
    BY <1>2, FrameTypes DEF OnGetBSS, Answered, TypeOK, SwapTypes, OtherTypes

LEMMA OnDoSwapSecondMessageTypes ==
  ASSUME TypeOK, NEW a \in Attempts, OnDoSwapSecondMessage(a) PROVE TypeOK'
  <1>1. coin \in Coins
    BY DEF TypeOK
  <1>2. [coin EXCEPT !.receiver_addr = TRUE, !.swap_status = "Phase3"] \in Coins
    BY DEF TypeOK, Coins, SwapStatuses
  <1>3. SwapTypes'
    BY <1>1, <1>2, OkTypes, RetryTypes, ThrowTypes
    DEF OnDoSwapSecondMessage, Answered, Kept, Saved
  <1> QED
    BY <1>3, FrameTypes
    DEF OnDoSwapSecondMessage, Answered, TypeOK, SwapTypes, OtherTypes

LEMMA OnPollSwapPhase3Types ==
  ASSUME TypeOK, NEW a \in Attempts, OnPollSwapPhase3(a) PROVE TypeOK'
  <1>1. coin \in Coins
    BY DEF TypeOK
  <1>2. SwapTypes'
    BY <1>1, OkTypes, RetryTypes, ThrowTypes DEF OnPollSwapPhase3, Answered, Kept, Saved
  <1> QED
    BY <1>2, FrameTypes DEF OnPollSwapPhase3, Answered, TypeOK, SwapTypes, OtherTypes

LEMMA OnTransferSenderTypes ==
  ASSUME TypeOK, NEW a \in Attempts, OnTransferSender(a) PROVE TypeOK'
  <1>1. coin \in Coins
    BY DEF TypeOK
  <1>2. [coin EXCEPT !.transfer_msg = TRUE] \in Coins
    BY DEF TypeOK, Coins
  <1>3. SwapTypes'
    BY <1>1, <1>2, OkTypes, RetryTypes, ThrowTypes
    DEF OnTransferSender, Answered, Kept, Saved
  <1> QED
    BY <1>3, FrameTypes DEF OnTransferSender, Answered, TypeOK, SwapTypes, OtherTypes

LEMMA OnTransferUpdateMsgTypes ==
  ASSUME TypeOK, NEW a \in Attempts, OnTransferUpdateMsg(a) PROVE TypeOK'
  <1>1. coin \in Coins
    BY DEF TypeOK
  <1>2. SwapTypes'
    BY <1>1, OkTypes, RetryTypes, ThrowTypes
    DEF OnTransferUpdateMsg, Answered, Kept, Saved
  <1> QED
    BY <1>2, FrameTypes DEF OnTransferUpdateMsg, Answered, TypeOK, SwapTypes, OtherTypes

LEMMA GetTransferMsg3KeptTypes ==
  ASSUME TypeOK, NEW a \in Attempts, GetTransferMsg3Kept(a) PROVE TypeOK'
  <1>1. coin \in Coins
    BY DEF TypeOK
  <1>2. SwapTypes'
    BY <1>1, OkTypes, RetryTypes, ThrowTypes
    DEF GetTransferMsg3Kept, Answered, Kept, Saved
  <1> QED
    BY <1>2, FrameTypes DEF GetTransferMsg3Kept, Answered, TypeOK, SwapTypes, OtherTypes

LEMMA OnGetTransferMsg3Types ==
  ASSUME TypeOK, NEW a \in Attempts, OnGetTransferMsg3(a) PROVE TypeOK'
  <1>1. coin \in Coins
    BY DEF TypeOK
  <1>2. [coin EXCEPT !.msg3 = a] \in Coins
    BY DEF TypeOK, Coins, Keys
  <1>3. SwapTypes'
    BY <1>1, <1>2, OkTypes, RetryTypes, ThrowTypes
    DEF OnGetTransferMsg3, Answered, Kept, Saved
  <1> QED
    BY <1>3, FrameTypes DEF OnGetTransferMsg3, Answered, TypeOK, SwapTypes, OtherTypes

LEMMA MakeSwapCommitmentTypes ==
  ASSUME TypeOK, NEW a \in Attempts, MakeSwapCommitment(a) PROVE TypeOK'
  <1>1. coin \in Coins
    BY DEF TypeOK
  <1>2. [coin EXCEPT !.batch_data = TRUE, !.swap_status = "Phase4"] \in Coins
    BY DEF TypeOK, Coins, SwapStatuses
  <1>3. SwapTypes'
    BY <1>1, <1>2, OkTypes, RetryTypes, ThrowTypes
    DEF MakeSwapCommitment, Answered, Kept, Saved
  <1> QED
    BY <1>3, FrameTypes DEF MakeSwapCommitment, Answered, TypeOK, SwapTypes, OtherTypes

LEMMA OnGetTransferMsg4Types ==
  ASSUME TypeOK, NEW a \in Attempts, OnGetTransferMsg4(a) PROVE TypeOK'
  <1>1. coin \in Coins
    BY DEF TypeOK
  <1>2. [coin EXCEPT !.msg4 = a] \in Coins
    BY DEF TypeOK, Coins, Keys
  <1>3. CASE coin' \in Coins /\ UNCHANGED <<out, step, nret>> /\ pc' \in [Attempts -> PCs] /\ (Save \/ UNCHANGED disk)
    BY <1>3, FrameTypes, SaveTypes DEF OnGetTransferMsg4, TypeOK, SwapTypes, OtherTypes
  <1>4. SwapTypes'
    BY <1>1, <1>2, <1>3, OkTypes, ThrowTypes, SaveTypes
    DEF OnGetTransferMsg4, Saved, SaveThrows, TypeOK, SwapTypes, PCs
  <1> QED
    BY <1>4, FrameTypes DEF OnGetTransferMsg4, Answered, TypeOK, SwapTypes, OtherTypes

LEMMA OnPollAfterErrorTypes ==
  ASSUME TypeOK, NEW a \in Attempts, OnPollAfterError(a) PROVE TypeOK'
  <1>1. coin \in Coins
    BY DEF TypeOK
  <1>2. SwapTypes'
    BY <1>1, OkTypes, RetryTypes, ThrowTypes DEF OnPollAfterError, Answered, Kept, Saved
  <1> QED
    BY <1>2, FrameTypes DEF OnPollAfterError, Answered, TypeOK, SwapTypes, OtherTypes

LEMMA OnSwapPhase4PollSwapTypes ==
  ASSUME TypeOK, NEW a \in Attempts, OnSwapPhase4PollSwap(a) PROVE TypeOK'
  <1>1. coin \in Coins
    BY DEF TypeOK
  <1>2. SwapTypes'
    BY <1>1, OkTypes, RetryTypes, ThrowTypes
    DEF OnSwapPhase4PollSwap, Answered, Kept, Saved
  <1> QED
    BY <1>2, FrameTypes
    DEF OnSwapPhase4PollSwap, Answered, TypeOK, SwapTypes, OtherTypes

LEMMA OnTransferReceiverTypes ==
  ASSUME TypeOK, NEW a \in Attempts, OnTransferReceiver(a) PROVE TypeOK'
  <1>1. coin \in Coins /\ [coin EXCEPT !.finalized = a] \in Coins
    BY DEF TypeOK, Coins, Keys
  <1>2. SwapTypes'
    <2>1. CASE StepOk(a, [coin EXCEPT !.finalized = a]) /\ Save
      BY <1>1, <2>1, OkTypes DEF OnTransferReceiver, Saved
    <2>2. CASE /\ coin' \in Coins /\ UNCHANGED <<out, disk, step, nret>>
               /\ pc' = [pc EXCEPT ![a] = "poll"]
      BY <2>2 DEF TypeOK, SwapTypes, PCs
    <2> QED
      BY <1>1, <2>1, <2>2 DEF OnTransferReceiver, SaveThrows
  <1> QED
    BY <1>2, FrameTypes DEF OnTransferReceiver, TypeOK, SwapTypes, OtherTypes

LEMMA OnTransferReceiverFinalizeTypes ==
  ASSUME TypeOK, NEW a \in Attempts, OnTransferReceiverFinalize(a) PROVE TypeOK'
  <1>1. /\ pc' \in [Attempts -> PCs] /\ step' \in [Attempts -> 0 .. 16]
        /\ nret' \in [Attempts -> 0 .. MaxReps]
    <2>1. CASE EndLoop(a)
      BY <2>1, LimitsAssumption DEF EndLoop, TypeOK, PCs
    <2>2. CASE pc' = [pc EXCEPT ![a] = "poll"] /\ UNCHANGED <<step, nret>>
      BY <2>2 DEF TypeOK, PCs
    <2> QED
      BY <2>1, <2>2 DEF OnTransferReceiverFinalize
  <1>2. coin' \in Coins
    <2>1. [SwapDataNull EXCEPT !.status = "SWAPPED", !.finalized = coin.finalized] \in Coins
      BY NullTyped DEF TypeOK, Coins, Statuses
    <2>2. [coin EXCEPT !.status = "SWAPPED", !.swap_status = "End"] \in Coins
      BY DEF TypeOK, Coins, Statuses, SwapStatuses
    <2> QED BY <2>1, <2>2 DEF OnTransferReceiverFinalize, TypeOK
  <1>3. out' \in Outs
    BY DEF OnTransferReceiverFinalize, TypeOK, Coins, Outs
  <1>4. disk' \in [coin : Coins, out : Outs]
    BY <1>2, <1>3, SaveTypes DEF OnTransferReceiverFinalize, TypeOK, SwapTypes
  <1> QED
    BY <1>1, <1>2, <1>3, <1>4, FrameTypes
    DEF OnTransferReceiverFinalize, Answered, TypeOK, OtherTypes

LEMMA StartLoopTypes ==
  ASSUME TypeOK, NEW a \in Attempts, StartLoop(a) PROVE TypeOK'
  <1>1. CASE Throw(a, coin, "other")
    BY <1>1, ThrowTypes, FrameTypes DEF StartLoop, TypeOK, SwapTypes, OtherTypes
  <1>2. CASE UNCHANGED <<out, disk>>
    <2>1. coin' \in Coins
      <3>1. [SwapDataNull EXCEPT !.status = "AWAITING_SWAP", !.swap_status = "Init"] \in Coins
        BY NullTyped DEF Coins, Statuses, SwapStatuses
      <3> QED BY <3>1, <1>1, ThrowTypes DEF StartLoop, TypeOK, SwapTypes
    <2>2. pc' \in [Attempts -> PCs] /\ step' \in [Attempts -> 0 .. 16]
          /\ nret' \in [Attempts -> 0 .. MaxReps]
      BY LimitsAssumption, SMTT(30) DEF StartLoop, Throw, EndLoop, TypeOK, PCs
    <2> QED
      BY <1>2, <2>1, <2>2, FrameTypes DEF StartLoop, TypeOK, OtherTypes
  <1> QED BY <1>1, <1>2 DEF StartLoop

LEMMA LoopTypes ==
  ASSUME TypeOK, NEW a \in Attempts, LoopNext(a) PROVE TypeOK'
  BY RequestTypes, LaterRequestTypes, StartLoopTypes, TransferReceiverTypes,
     CheckProofKeyDerTypes, StepThrowsTypes, OnSwapRegisterUtxoTypes,
     OnPollUtxoPhase0Types, OnPollUtxoPhase1Types, OnLoadSwapInfoTypes,
     OnGetBSTDataTypes, OnPollSwapPhase2Types, OnGetBSSTypes,
     OnDoSwapSecondMessageTypes, OnPollSwapPhase3Types, OnTransferSenderTypes,
     OnTransferUpdateMsgTypes, GetTransferMsg3KeptTypes, OnGetTransferMsg3Types,
     MakeSwapCommitmentTypes, OnGetTransferMsg4Types, OnPollAfterErrorTypes,
     OnSwapPhase4PollSwapTypes,
     OnTransferReceiverTypes, OnTransferReceiverFinalizeTypes
  DEF LoopNext

-------------------------------------------------------------------------------
(* The wallet's operations *)

LEMMA DoSwapTypes ==
  ASSUME TypeOK, NEW a \in Attempts, DoSwap(a) PROVE TypeOK'
  BY DEF DoSwap, TypeOK, ServerTypeOK, serverVars, PCs

LEMMA DeregisterTypes == TypeOK /\ DeregisterUtxo => ServerTypeOK'
  BY DEF TypeOK, ServerTypeOK, DeregisterUtxo

LEMMA LeaveTypes == TypeOK /\ Leave => TypeOK'
  BY DeregisterTypes DEF Leave, TypeOK

LEMMA RemoveTypes == TypeOK /\ RemoveCoinFromSwapPool => TypeOK'
  <1> SUFFICES ASSUME TypeOK, RemoveCoinFromSwapPool PROVE TypeOK'
    OBVIOUS
  <1>1. coin' \in Coins /\ out' \in Outs /\ disk' \in [coin : Coins, out : Outs]
    BY NullTyped DEF RemoveCoinFromSwapPool, TypeOK, Save
  <1> QED
    BY <1>1 DEF RemoveCoinFromSwapPool, TypeOK, ServerTypeOK, serverVars

LEMMA UnloadTypes == TypeOK /\ Unload => TypeOK'
  <1> SUFFICES ASSUME TypeOK, Unload PROVE TypeOK'
    OBVIOUS
  <1>1. coin' \in Coins /\ out' \in Outs /\ disk' \in [coin : Coins, out : Outs]
    BY DEF Unload, TypeOK, Save
  <1> QED
    BY <1>1 DEF Unload, TypeOK, ServerTypeOK, serverVars

LEMMA ResetTypes == ASSUME NEW c \in Coins PROVE ResetSwapStates(c) \in Coins
  BY NullTyped DEF ResetSwapStates

LEMMA RestartTypes == TypeOK /\ Restart => TypeOK'
  <1> SUFFICES ASSUME TypeOK, Restart PROVE TypeOK'
    OBVIOUS
  <1>1. coin' \in Coins /\ out' \in Outs
    BY ResetTypes DEF TypeOK, Restart
  <1>2. disk' \in [coin : Coins, out : Outs]
    BY <1>1 DEF Restart, Save
  <1>3. pc' \in [Attempts -> PCs]
    BY DEF Restart, TypeOK, PCs
  <1>4. step' \in [Attempts -> 0 .. 16] /\ nret' \in [Attempts -> 0 .. MaxReps]
    BY LimitsAssumption DEF Restart
  <1>5. reply' \in [Attempts -> [kind : Replies, id : 0 .. MaxSwaps]]
    BY NullTyped DEF Restart
  <1>6. restarts' \in 0 .. MaxRestarts
    BY LimitsAssumption DEF Restart, TypeOK
  <1> QED
    BY <1>1, <1>2, <1>3, <1>4, <1>5, <1>6 DEF Restart, TypeOK, ServerTypeOK, serverVars

LEMMA DeRegisterSwapsTypes == TypeOK /\ DeRegisterSwaps => TypeOK'
  <1> SUFFICES ASSUME TypeOK, DeRegisterSwaps PROVE TypeOK'
    OBVIOUS
  <1>1. ServerTypeOK'
    BY DeregisterTypes DEF DeRegisterSwaps, TypeOK, ServerTypeOK, serverVars
  <1>2. coin' \in Coins /\ out' \in Outs /\ disk' \in [coin : Coins, out : Outs]
    BY NullTyped DEF DeRegisterSwaps, TypeOK, Save
  <1> QED
    BY <1>1, <1>2 DEF DeRegisterSwaps, TypeOK

LEMMA UpdateSwapStatusTypes == TypeOK /\ UpdateSwapStatus => TypeOK'
  <1> SUFFICES ASSUME TypeOK, UpdateSwapStatus PROVE TypeOK'
    OBVIOUS
  <1>2. coin' \in Coins /\ out' \in Outs /\ disk' \in [coin : Coins, out : Outs]
    BY NullTyped DEF UpdateSwapStatus, TypeOK, Save
  <1>3. pc' \in [Attempts -> PCs] /\ resumed' \in [Attempts -> BOOLEAN]
    BY DEF UpdateSwapStatus, TypeOK, PCs
  <1> QED
    BY <1>2, <1>3 DEF UpdateSwapStatus, TypeOK, ServerTypeOK, serverVars

-------------------------------------------------------------------------------
LEMMA NextTypes ==
  ASSUME TypeOK, [Next]_vars PROVE TypeOK'
  <1>1. CASE ServerNext /\ UNCHANGED walletVars
    BY <1>1, ServerTypes DEF walletVars, TypeOK
  <1>2. ASSUME NEW a \in Attempts, DoSwap(a) \/ LoopNext(a) PROVE TypeOK'
    BY <1>2, DoSwapTypes, LoopTypes
  <1>3. CASE WalletNext
    BY <1>3, LeaveTypes, RemoveTypes, UnloadTypes, RestartTypes,
       DeRegisterSwapsTypes, UpdateSwapStatusTypes DEF WalletNext
  <1>4. CASE UNCHANGED vars
    BY <1>4 DEF vars, serverVars, walletVars, TypeOK, ServerTypeOK
  <1> QED
    BY <1>1, <1>2, <1>3, <1>4 DEF Next

\* No step of the swap protocol, of a restart or of the server takes a variable
\* out of its type: the coin object of wallet.ts keeps a known status, the loop
\* of do_swap_steps never runs past step 16, and n_retries stays bounded.
THEOREM Typing == Spec => []TypeOK
  <1>1. Init => TypeOK
    BY InitTypes
  <1>2. TypeOK /\ [Next]_vars => TypeOK'
    BY NextTypes
  <1> QED
    BY <1>1, <1>2, PTL DEF Spec

-------------------------------------------------------------------------------
(* A step of the one loop that runs *)

\* A step of loop a that leaves the servers and the other loops alone.
LoopFrames(a) ==
    /\ UNCHANGED <<serverVars, resumed, boot>>
    /\ reply' = reply \/ reply' = [reply EXCEPT ![a] = NoReply]

\* The servers rely on the coin's msg4.
Committed == Finalized \/ (sid # 0 /\ recvd)

\* c may follow coin: it is complete, and what the servers rely on is kept.
Follows(c) ==
    /\ CoinInv(c) /\ c.status # "SWAPPED"
    /\ Committed => c.msg4 # NoKey /\ c.swap_id = coin.swap_id
    /\ c.msg4 # NoKey => Save \/ (coin.msg4 # NoKey /\ c.swap_id = coin.swap_id)

LEMMA OnlyLoop ==
  ASSUME IInv, NEW a \in Attempts, pc[a] \notin {"new", "done"}
  PROVE  /\ \A b \in Attempts \ {a} : pc[b] \in {"new", "done"}
         /\ boot = "ready" /\ coin.status # "SWAPPED" /\ a \in Live
  <1>1. a \in Live
    BY DEF Live
  <1>2. boot = "ready" /\ coin.status # "SWAPPED"
    BY <1>1 DEF IInv, SwapInv, OneLoop
  <1>3. ASSUME NEW b \in Attempts \ {a} PROVE pc[b] \in {"new", "done"}
    BY <1>1 DEF IInv, SwapInv, OneLoop, Live
  <1> QED
    BY <1>1, <1>2, <1>3

LEMMA LoopMoves ==
  ASSUME IInv, NEW a \in Attempts, pc[a] \notin {"new", "done"},
         LoopFrames(a), NEW p \in PCs \ {"wait", "polled", "starting"}, NEW n \in 0 .. 16,
         pc' = [pc EXCEPT ![a] = p], step' = [step EXCEPT ![a] = n],
         Follows(coin'), UNCHANGED out, Save \/ UNCHANGED disk,
         p # "done" => StepInv(n, coin') /\ PlaceInv(p, n, coin')
  PROVE  SwapInv'
  <1>1. /\ UNCHANGED batch /\ UNCHANGED sid /\ UNCHANGED recvd /\ UNCHANGED pool /\ UNCHANGED lastSid
        /\ Finalized' = Finalized
    BY DEF LoopFrames, serverVars, Finalized
  <1>2. ServerInv'
    BY <1>1 DEF IInv, SwapInv, ServerInv
  <1>3. CoinInv(coin)' /\ CoinInv(disk.coin)'
    BY DEF IInv, SwapInv, Follows, Save, CoinInv
  <1>4. OneLoop'
    <2>1. \A b \in Attempts \ {a} : pc'[b] \in {"new", "done"}
      BY OnlyLoop DEF IInv, TypeOK
    <2>2. Live' \subseteq {a}
      BY <2>1 DEF Live
    <2>3. boot' = "ready" /\ coin'.status # "SWAPPED"
      BY OnlyLoop DEF LoopFrames, Follows
    <2> QED
      BY <2>2, <2>3 DEF OneLoop
  <1>5. ASSUME NEW b \in Attempts PROVE LoopInv(b)' /\ ReplyInv(b)'
    <2>1. CASE b = a
      BY <2>1 DEF IInv, TypeOK, LoopInv, ReplyInv
    <2>2. CASE b # a
      <3>1. pc'[b] \in {"new", "done"}
        BY <2>2, OnlyLoop DEF IInv, TypeOK
      <3> QED
        BY <3>1 DEF LoopInv, ReplyInv
    <2> QED
      BY <2>1, <2>2
  <1>6. DiskInv'
    <2>1. coin.status # "SWAPPED" /\ coin'.status # "SWAPPED"
      BY OnlyLoop DEF Follows
    <2>2. CASE UNCHANGED disk /\ ~Save
      BY <2>1, <2>2, <1>1 DEF IInv, SwapInv, DiskInv, Follows
    <2>3. CASE Save
      BY <2>1, <2>3, <1>1 DEF IInv, SwapInv, DiskInv, Follows, Save
    <2> QED
      BY <2>2, <2>3
  <1>7. CommitInv'
    <2>1. coin.status # "SWAPPED"
      BY OnlyLoop
    <2> QED
      BY <2>1, <1>1 DEF IInv, SwapInv, CommitInv, Committed, Follows
  <1> QED
    BY <1>2, <1>3, <1>4, <1>5, <1>6, <1>7 DEF SwapInv

LEMMA FrameFacts ==
  ASSUME IInv, NEW a \in Attempts, TakesReply(a) \/ NoRequest
  PROVE  LoopFrames(a)
  BY DEF TakesReply, NoRequest, LoopFrame, LoopFrames

LEMMA CoinFollows ==
  ASSUME IInv, coin.status # "SWAPPED" PROVE Follows(coin)
  BY DEF IInv, SwapInv, CommitInv, Committed, Follows

LEMMA OkMoves ==
  ASSUME IInv, NEW a \in Attempts, pc[a] \notin {"new", "done", "starting"}, LoopFrames(a),
         NEW c, StepOk(a, c), step[a] # 16, Kept \/ Saved, Follows(c), StepInv(step[a] + 1, c)
  PROVE  SwapInv'
  <1>1. step[a] + 1 \in 0 .. 16 /\ "ready" \in PCs
    BY DEF IInv, TypeOK, PCs
  <1>2. PlaceInv("ready", step[a] + 1, c)
    BY DEF PlaceInv
  <1>3. coin' = c /\ pc' = [pc EXCEPT ![a] = "ready"] /\ step' = [step EXCEPT ![a] = step[a] + 1]
    BY DEF StepOk
  <1>4. UNCHANGED out /\ (Save \/ UNCHANGED disk)
    BY DEF Kept, Saved, SaveThrows
  <1> QED
    BY <1>1, <1>2, <1>3, <1>4, LoopMoves

LEMMA RetryMoves ==
  ASSUME IInv, NEW a \in Attempts, pc[a] \notin {"new", "done", "starting"}, LoopFrames(a),
         NEW c, NEW w, StepRetry(a, c, w), Kept \/ Saved, Follows(c), StepInv(step[a], c)
  PROVE  SwapInv'
  <1>1. step[a] \in 0 .. 16 /\ "ready" \in PCs
    BY DEF IInv, TypeOK, PCs
  <1>2. PlaceInv("ready", step[a], c)
    BY DEF PlaceInv
  <1>3. coin' = c /\ pc' = [pc EXCEPT ![a] = "ready"] /\ step' = [step EXCEPT ![a] = step[a]]
    BY DEF StepRetry, IInv, TypeOK
  <1>4. UNCHANGED out /\ (Save \/ UNCHANGED disk)
    BY DEF Kept, Saved, SaveThrows
  <1> QED
    BY <1>1, <1>2, <1>3, <1>4, LoopMoves

LEMMA ThrowMoves ==
  ASSUME IInv, NEW a \in Attempts, pc[a] \notin {"new", "done", "starting"}, LoopFrames(a),
         NEW c, NEW e, Throw(a, c, e), 
         c.swap_status = "Phase4" /\ e \notin {"timeout", "exiting"} => Follows(c),
         c.swap_status # "Phase4" \/ e \in {"timeout", "exiting"} =>
            ~Committed
  PROVE  SwapInv'
  <1>1. 0 \in 0 .. 16 /\ "done" \in PCs
    BY DEF PCs
  <1>3. pc' = [pc EXCEPT ![a] = "done"] /\ step' = [step EXCEPT ![a] = 0]
    BY DEF Throw, EndLoop
  <1>4. UNCHANGED out /\ (Save \/ UNCHANGED disk)
    BY DEF Throw, SaveThrows
  <1>5. Follows(coin')
    BY DEF Throw, Follows, SwapDataNull, CoinInv
  <1> QED
    BY <1>1, <1>3, <1>4, <1>5, LoopMoves

LEMMA NoReplyLive ==
  ASSUME IInv, NEW a \in Attempts, pc[a] \notin {"new", "done", "starting"}
  PROVE  /\ StepInv(step[a], coin) /\ PlaceInv(pc[a], step[a], coin)
         /\ Follows(coin) /\ coin.status # "SWAPPED"
         /\ step[a] \in 0 .. 16
         /\ coin.swap_status # "Phase4" => ~Committed /\ coin.msg4 = NoKey
  <1>1. coin.status # "SWAPPED"
    BY OnlyLoop
  <1>2. Follows(coin)
    BY <1>1, CoinFollows
  <1>3. LoopInv(a)
    BY DEF IInv, SwapInv
  <1> QED
    BY <1>1, <1>2, <1>3
    DEF LoopInv, IInv, TypeOK, SwapInv, CoinInv, CommitInv, Committed

LEMMA RetrySame ==
  ASSUME IInv, NEW a \in Attempts, pc[a] \notin {"new", "done", "starting"},
         TakesReply(a) \/ NoRequest,
         NEW w, StepRetry(a, coin, w), Kept \/ Saved
  PROVE  SwapInv'
  BY NoReplyLive, FrameFacts, RetryMoves

LEMMA ThrowSame ==
  ASSUME IInv, NEW a \in Attempts, pc[a] \notin {"new", "done", "starting"},
         TakesReply(a) \/ NoRequest,
         NEW e, Throw(a, coin, e), e \in {"timeout", "exiting"} => ~Committed
  PROVE  SwapInv'
  BY NoReplyLive, FrameFacts, ThrowMoves

LEMMA OkStep ==
  ASSUME IInv, NEW a \in Attempts, pc[a] \notin {"new", "done", "starting"},
         TakesReply(a) \/ NoRequest,
         NEW c, StepOk(a, c), step[a] # 16, Kept \/ Saved, 
         Follows(c), StepInv(step[a] + 1, c)
  PROVE  SwapInv'
  BY FrameFacts, OkMoves

\* A step before phase 4 may change the coin as it likes.
LEMMA EarlyFollows ==
  ASSUME IInv, NEW a \in Attempts, pc[a] \notin {"new", "done", "starting"},
         step[a] <= 12, NEW c, c.swap_status # "Phase4", c.status # "SWAPPED",
         c.msg4 = coin.msg4
  PROVE  Follows(c)
  BY NoReplyLive DEF StepInv, Follows, CoinInv

\* A step within a step: the loop goes on to another place of step 14 or 16.
LEMMA PlaceMoves ==
  ASSUME IInv, NEW a \in Attempts, pc[a] \notin {"new", "done", "starting"},
         TakesReply(a) \/ NoRequest, NEW p \in {"post", "poll"},
         pc' = [pc EXCEPT ![a] = p], UNCHANGED step, UNCHANGED out, Save \/ UNCHANGED disk,
         Follows(coin'), StepInv(step[a], coin'), PlaceInv(p, step[a], coin')
  PROVE  SwapInv'
  <1>1. step[a] \in 0 .. 16 /\ p \in PCs \ {"wait", "polled", "starting"}
    BY DEF IInv, TypeOK, PCs
  <1>2. LoopFrames(a)
    BY FrameFacts
  <1>3. step' = [step EXCEPT ![a] = step[a]]
    BY DEF IInv, TypeOK
  <1> QED
    BY <1>1, <1>2, <1>3, LoopMoves

-------------------------------------------------------------------------------
(* The steps of a loop *)

LEMMA OnSwapRegisterUtxoSafe ==
  ASSUME IInv, NEW a \in Attempts, OnSwapRegisterUtxo(a) PROVE SwapInv'
  <1>1. pc[a] = "wait" /\ step[a] = 1 /\ TakesReply(a) /\ coin \in Coins
    BY DEF OnSwapRegisterUtxo, Answered, IInv, TypeOK
  <1>2. StepInv(1, coin)
    BY <1>1, NoReplyLive
  <1> DEFINE c == [coin EXCEPT !.swap_status = "Phase0"]
  <1> HIDE DEF c
  <1>3. Follows(c) /\ StepInv(1 + 1, c)
    <2>1. c.swap_status # "Phase4" /\ c.status # "SWAPPED" /\ c.msg4 = coin.msg4
      BY <1>1, <1>2, NoReplyLive DEF c, Coins, StepInv
    <2>2. StepInv(1 + 1, c)
      BY <1>1, <1>2 DEF c, Coins, StepInv, OnSwapRegisterUtxo, IInv, SwapInv, ReplyInv
    <2> QED
      BY <1>1, <2>1, <2>2, EarlyFollows
  <1>4. CASE StepOk(a, c) /\ (Kept \/ Saved)
    BY <1>1, <1>3, <1>4, OkStep
  <1>5. CASE (\E w : StepRetry(a, coin, w)) /\ Kept
    BY <1>1, <1>5, RetrySame
  <1>6. CASE Throw(a, coin, "other")
    BY <1>1, <1>6, ThrowSame
  <1> QED
    BY <1>1, <1>4, <1>5, <1>6 DEF c, OnSwapRegisterUtxo, Kept

LEMMA OnLoadSwapInfoSafe ==
  ASSUME IInv, NEW a \in Attempts, OnLoadSwapInfo(a) PROVE SwapInv'
  <1>1. pc[a] = "wait" /\ step[a] = 4 /\ TakesReply(a) /\ coin \in Coins
    BY DEF OnLoadSwapInfo, Answered, IInv, TypeOK
  <1>2. StepInv(4, coin)
    BY <1>1, NoReplyLive
  <1> DEFINE c == [coin EXCEPT !.swap_info = TRUE]
  <1> HIDE DEF c
  <1>3. Follows(c) /\ StepInv(4 + 1, c)
    <2>1. c.swap_status # "Phase4" /\ c.status # "SWAPPED" /\ c.msg4 = coin.msg4
      BY <1>1, <1>2, NoReplyLive DEF c, Coins, StepInv
    <2>2. StepInv(4 + 1, c)
      BY <1>1, <1>2 DEF c, Coins, StepInv, OnLoadSwapInfo, IInv, SwapInv, ReplyInv
    <2> QED
      BY <1>1, <2>1, <2>2, EarlyFollows
  <1>4. CASE StepOk(a, c) /\ (Kept \/ Saved)
    BY <1>1, <1>3, <1>4, OkStep
  <1>5. CASE (\E w : StepRetry(a, coin, w)) /\ Kept
    BY <1>1, <1>5, RetrySame
  <1> QED
    BY <1>1, <1>4, <1>5 DEF c, OnLoadSwapInfo, Kept

LEMMA OnGetBSTDataSafe ==
  ASSUME IInv, NEW a \in Attempts, OnGetBSTData(a) PROVE SwapInv'
  <1>1. pc[a] = "wait" /\ step[a] = 5 /\ TakesReply(a) /\ coin \in Coins
    BY DEF OnGetBSTData, Answered, IInv, TypeOK
  <1>2. StepInv(5, coin)
    BY <1>1, NoReplyLive
  <1> DEFINE c == [coin EXCEPT !.swap_address = a, !.swap_status = "Phase2"]
  <1> HIDE DEF c
  <1>3. Follows(c) /\ StepInv(5 + 1, c)
    <2>1. c.swap_status # "Phase4" /\ c.status # "SWAPPED" /\ c.msg4 = coin.msg4
      BY <1>1, <1>2, NoReplyLive DEF c, Coins, StepInv
    <2>2. StepInv(5 + 1, c)
      BY <1>1, <1>2 DEF c, Coins, StepInv, OnGetBSTData, IInv, SwapInv, ReplyInv
    <2> QED
      BY <1>1, <2>1, <2>2, EarlyFollows
  <1>4. CASE StepOk(a, c) /\ (Kept \/ Saved)
    BY <1>1, <1>3, <1>4, OkStep
  <1>5. CASE (\E w : StepRetry(a, coin, w)) /\ Kept
    BY <1>1, <1>5, RetrySame
  <1> QED
    BY <1>1, <1>4, <1>5 DEF c, OnGetBSTData, Kept

LEMMA OnPollSwapPhase2Safe ==
  ASSUME IInv, NEW a \in Attempts, OnPollSwapPhase2(a) PROVE SwapInv'
  <1>1. pc[a] = "wait" /\ step[a] = 6 /\ TakesReply(a) /\ coin \in Coins
    BY DEF OnPollSwapPhase2, Answered, IInv, TypeOK
  <1>2. StepInv(6, coin)
    BY <1>1, NoReplyLive
  <1>3. Follows(coin) /\ StepInv(6 + 1, coin)
    BY <1>1, <1>2, NoReplyLive DEF StepInv
  <1>4. CASE StepOk(a, coin) /\ (Kept \/ Saved)
    BY <1>1, <1>3, <1>4, OkStep
  <1>5. CASE (\E w : StepRetry(a, coin, w)) /\ Kept
    BY <1>1, <1>5, RetrySame
  <1>6. CASE Throw(a, coin, "other")
    BY <1>1, <1>6, ThrowSame
  <1> QED
    BY <1>1, <1>4, <1>5, <1>6 DEF OnPollSwapPhase2, Kept

LEMMA OnGetBSSSafe ==
  ASSUME IInv, NEW a \in Attempts, OnGetBSS(a) PROVE SwapInv'
  <1>1. pc[a] = "wait" /\ step[a] = 7 /\ TakesReply(a) /\ coin \in Coins
    BY DEF OnGetBSS, Answered, IInv, TypeOK
  <1>2. StepInv(7, coin)
    BY <1>1, NoReplyLive
  <1>3. Follows(coin) /\ StepInv(7 + 1, coin)
    BY <1>1, <1>2, NoReplyLive DEF StepInv
  <1>4. CASE StepOk(a, coin) /\ (Kept \/ Saved)
    BY <1>1, <1>3, <1>4, OkStep
  <1>5. CASE (\E w : StepRetry(a, coin, w)) /\ Kept
    BY <1>1, <1>5, RetrySame
  <1> QED
    BY <1>1, <1>4, <1>5 DEF OnGetBSS, Kept

LEMMA OnDoSwapSecondMessageSafe ==
  ASSUME IInv, NEW a \in Attempts, OnDoSwapSecondMessage(a) PROVE SwapInv'
  <1>1. pc[a] = "wait" /\ step[a] = 8 /\ TakesReply(a) /\ coin \in Coins
    BY DEF OnDoSwapSecondMessage, Answered, IInv, TypeOK
  <1>2. StepInv(8, coin)
    BY <1>1, NoReplyLive
  <1> DEFINE c == [coin EXCEPT !.receiver_addr = TRUE, !.swap_status = "Phase3"]
  <1> HIDE DEF c
  <1>3. Follows(c) /\ StepInv(8 + 1, c)
    <2>1. c.swap_status # "Phase4" /\ c.status # "SWAPPED" /\ c.msg4 = coin.msg4
      BY <1>1, <1>2, NoReplyLive DEF c, Coins, StepInv
    <2>2. StepInv(8 + 1, c)
      BY <1>1, <1>2
      DEF c, Coins, StepInv, OnDoSwapSecondMessage, IInv, SwapInv, ReplyInv
    <2> QED
      BY <1>1, <2>1, <2>2, EarlyFollows
  <1>4. CASE StepOk(a, c) /\ (Kept \/ Saved)
    BY <1>1, <1>3, <1>4, OkStep
  <1>5. CASE (\E w : StepRetry(a, coin, w)) /\ Kept
    BY <1>1, <1>5, RetrySame
  <1> QED
    BY <1>1, <1>4, <1>5 DEF c, OnDoSwapSecondMessage, Kept

LEMMA OnPollSwapPhase3Safe ==
  ASSUME IInv, NEW a \in Attempts, OnPollSwapPhase3(a) PROVE SwapInv'
  <1>1. pc[a] = "wait" /\ step[a] = 9 /\ TakesReply(a) /\ coin \in Coins
    BY DEF OnPollSwapPhase3, Answered, IInv, TypeOK
  <1>2. StepInv(9, coin)
    BY <1>1, NoReplyLive
  <1>3. Follows(coin) /\ StepInv(9 + 1, coin)
    BY <1>1, <1>2, NoReplyLive DEF StepInv
  <1>4. CASE StepOk(a, coin) /\ (Kept \/ Saved)
    BY <1>1, <1>3, <1>4, OkStep
  <1>5. CASE (\E w : StepRetry(a, coin, w)) /\ Kept
    BY <1>1, <1>5, RetrySame
  <1>6. CASE Throw(a, coin, "other")
    BY <1>1, <1>6, ThrowSame
  <1> QED
    BY <1>1, <1>4, <1>5, <1>6 DEF OnPollSwapPhase3, Kept

LEMMA OnTransferUpdateMsgSafe ==
  ASSUME IInv, NEW a \in Attempts, OnTransferUpdateMsg(a) PROVE SwapInv'
  <1>1. pc[a] = "wait" /\ step[a] = 11 /\ TakesReply(a) /\ coin \in Coins
    BY DEF OnTransferUpdateMsg, Answered, IInv, TypeOK
  <1>2. StepInv(11, coin)
    BY <1>1, NoReplyLive
  <1>3. Follows(coin) /\ StepInv(11 + 1, coin)
    BY <1>1, <1>2, NoReplyLive DEF StepInv
  <1>4. CASE StepOk(a, coin) /\ (Kept \/ Saved)
    BY <1>1, <1>3, <1>4, OkStep
  <1>5. CASE (\E w : StepRetry(a, coin, w)) /\ Kept
    BY <1>1, <1>5, RetrySame
  <1> QED
    BY <1>1, <1>4, <1>5 DEF OnTransferUpdateMsg, Kept

LEMMA OnPollUtxoPhase0Safe ==
  ASSUME IInv, NEW a \in Attempts, OnPollUtxoPhase0(a) PROVE SwapInv'
  <1>1. pc[a] = "wait" /\ step[a] = 2 /\ TakesReply(a) /\ coin \in Coins
    BY DEF OnPollUtxoPhase0, Answered, IInv, TypeOK
  <1>2. StepInv(2, coin)
    BY <1>1, NoReplyLive
  <1> DEFINE c == [coin EXCEPT !.swap_id = reply[a].id, !.status = "IN_SWAP",
                          !.swap_status = "Phase1"]
  <1> HIDE DEF c
  <1>3. ASSUME reply[a].kind = "id" PROVE Follows(c) /\ StepInv(2 + 1, c)
    <2>1. c.swap_status # "Phase4" /\ c.status # "SWAPPED" /\ c.msg4 = coin.msg4
      BY <1>1, <1>2, NoReplyLive DEF c, Coins, StepInv
    <2>2. StepInv(2 + 1, c)
      BY <1>1, <1>2, <1>3, NoReplyLive DEF c, Coins, StepInv, IInv, SwapInv, ReplyInv
    <2> QED
      BY <1>1, <2>1, <2>2, EarlyFollows
  <1>4. CASE reply[a].kind = "id" /\ StepOk(a, c) /\ (Kept \/ Saved)
    BY <1>1, <1>3, <1>4, OkStep
  <1>5. CASE (\E w : StepRetry(a, coin, w)) /\ Kept
    BY <1>1, <1>5, RetrySame
  <1>6. CASE Throw(a, coin, "other")
    BY <1>1, <1>6, ThrowSame
  <1> QED
    BY <1>1, <1>4, <1>5, <1>6 DEF c, OnPollUtxoPhase0, Kept

LEMMA OnPollUtxoPhase1Safe ==
  ASSUME IInv, NEW a \in Attempts, OnPollUtxoPhase1(a) PROVE SwapInv'
  <1>1. pc[a] = "wait" /\ step[a] = 3 /\ TakesReply(a) /\ coin \in Coins
    BY DEF OnPollUtxoPhase1, Answered, IInv, TypeOK
  <1>2. StepInv(3, coin)
    BY <1>1, NoReplyLive
  <1> DEFINE c == [coin EXCEPT !.swap_id = reply[a].id]
  <1> HIDE DEF c
  <1>3. ASSUME reply[a].kind = "id" PROVE Follows(c) /\ StepInv(3 + 1, c)
    <2>1. c.swap_status # "Phase4" /\ c.status # "SWAPPED" /\ c.msg4 = coin.msg4
      BY <1>1, <1>2, NoReplyLive DEF c, Coins, StepInv
    <2>2. StepInv(3 + 1, c)
      BY <1>1, <1>2, <1>3, NoReplyLive DEF c, Coins, StepInv, IInv, SwapInv, ReplyInv
    <2> QED
      BY <1>1, <2>1, <2>2, EarlyFollows
  <1>4. CASE reply[a].kind = "id" /\ StepOk(a, c) /\ (Kept \/ Saved)
    BY <1>1, <1>3, <1>4, OkStep
  <1>5. CASE (\E w : StepRetry(a, coin, w)) /\ Kept
    BY <1>1, <1>5, RetrySame
  <1>6. CASE Throw(a, coin, "other")
    BY <1>1, <1>6, ThrowSame
  <1>7. CASE Throw(a, [coin EXCEPT !.swap_id = 0], "other")
    <2> DEFINE d == [coin EXCEPT !.swap_id = 0]
    <2>1. d.swap_status # "Phase4" /\ ~Committed
      BY <1>1, <1>2, NoReplyLive DEF Coins, StepInv
    <2>2. Throw(a, d, "other")
      BY <1>7
    <2> HIDE DEF d
    <2> QED
      BY <1>1, <2>1, <2>2, FrameFacts, ThrowMoves
  <1> QED
    BY <1>1, <1>4, <1>5, <1>6, <1>7 DEF c, OnPollUtxoPhase1, Kept

LEMMA CheckProofKeyDerSafe ==
  ASSUME IInv, NEW a \in Attempts, CheckProofKeyDer(a) PROVE SwapInv'
  <1>1. pc[a] = "ready" /\ step[a] = 0 /\ NoRequest /\ StepOk(a, coin) /\ Kept
    BY DEF CheckProofKeyDer, Kept
  <1>2. StepInv(0 + 1, coin)
    BY <1>1, NoReplyLive DEF StepInv
  <1> QED
    BY <1>1, <1>2, NoReplyLive, OkStep

LEMMA StepThrowsSafe ==
  ASSUME IInv, NEW a \in Attempts, StepThrows(a) PROVE SwapInv'
  <1>1. pc[a] = "ready" /\ NoRequest /\ Throw(a, coin, ChecksError(a))
    BY DEF StepThrows
  <1>2. ChecksError(a) \in {"timeout", "exiting"} => ~Committed
    <2>1. coin.swap_status = "Phase4" =>
             /\ coin.swap_id # 0 /\ coin.swap_info /\ coin.batch_data /\ coin.msg3 # NoKey
      BY DEF IInv, SwapInv, CoinInv
    <2> QED
      BY <1>1, <2>1, NoReplyLive
      DEF ChecksError, StatusOK, SwapStatusOK, PropertiesOK, StepInv
  <1> QED
    BY <1>1, <1>2, ThrowSame

LEMMA OnTransferSenderSafe ==
  ASSUME IInv, NEW a \in Attempts, OnTransferSender(a) PROVE SwapInv'
  <1>1. pc[a] = "wait" /\ step[a] = 10 /\ TakesReply(a) /\ coin \in Coins
    BY DEF OnTransferSender, Answered, IInv, TypeOK
  <1>2. StepInv(10, coin)
    BY <1>1, NoReplyLive
  <1> DEFINE c == [coin EXCEPT !.transfer_msg = TRUE]
  <1> HIDE DEF c
  <1>3. Follows(c) /\ StepInv(10, c) /\ StepInv(10 + 1, c)
    <2>1. c.swap_status # "Phase4" /\ c.status # "SWAPPED" /\ c.msg4 = coin.msg4
      BY <1>1, <1>2, NoReplyLive DEF c, Coins, StepInv
    <2>2. StepInv(10, c) /\ StepInv(10 + 1, c)
      BY <1>1, <1>2 DEF c, Coins, StepInv
    <2> QED
      BY <1>1, <2>1, <2>2, EarlyFollows
  <1>4. CASE StepOk(a, c) /\ Saved
    BY <1>1, <1>3, <1>4, OkStep
  <1>5. CASE (\E w : StepRetry(a, c, w)) /\ Saved
    BY <1>1, <1>3, <1>5, FrameFacts, RetryMoves
  <1>6. CASE (\E w : StepRetry(a, coin, w)) /\ Kept
    BY <1>1, <1>6, RetrySame
  <1> QED
    BY <1>1, <1>4, <1>5, <1>6 DEF c, OnTransferSender, Kept, Saved

LEMMA GetTransferMsg3KeptSafe ==
  ASSUME IInv, NEW a \in Attempts, GetTransferMsg3Kept(a) PROVE SwapInv'
  <1>1. /\ pc[a] = "ready" /\ step[a] = 12 /\ coin.msg3 # NoKey
        /\ NoRequest /\ StepOk(a, coin) /\ Kept
    BY DEF GetTransferMsg3Kept, Kept
  <1>2. StepInv(12 + 1, coin)
    BY <1>1, NoReplyLive DEF StepInv
  <1> QED
    BY <1>1, <1>2, NoReplyLive, OkStep

LEMMA OnGetTransferMsg3Safe ==
  ASSUME IInv, NEW a \in Attempts, OnGetTransferMsg3(a) PROVE SwapInv'
  <1>1. pc[a] = "wait" /\ step[a] = 12 /\ TakesReply(a) /\ coin \in Coins
    BY DEF OnGetTransferMsg3, Answered, IInv, TypeOK
  <1>2. StepInv(12, coin) /\ ~Committed
    BY <1>1, NoReplyLive DEF StepInv
  <1> DEFINE c == [coin EXCEPT !.msg3 = a]
  <1> HIDE DEF c
  <1>3. Follows(c) /\ StepInv(12, c) /\ StepInv(12 + 1, c)
    <2>1. c.swap_status # "Phase4" /\ c.status # "SWAPPED" /\ c.msg4 = coin.msg4
      BY <1>1, <1>2, NoReplyLive DEF c, Coins, StepInv
    <2>2. StepInv(12, c) /\ StepInv(12 + 1, c)
      BY <1>1, <1>2, NoKeyAssumption DEF c, Coins, StepInv
    <2> QED
      BY <1>1, <2>1, <2>2, EarlyFollows
  <1>4. CASE StepOk(a, c) /\ Saved
    BY <1>1, <1>3, <1>4, OkStep
  <1>5. CASE (\E w : StepRetry(a, c, w)) /\ Saved
    BY <1>1, <1>3, <1>5, FrameFacts, RetryMoves
  <1>6. CASE (\E w : StepRetry(a, coin, w)) /\ Kept
    BY <1>1, <1>6, RetrySame
  <1>7. CASE \E e : Throw(a, coin, e)
    BY <1>1, <1>2, <1>7, ThrowSame
  <1> QED
    BY <1>1, <1>4, <1>5, <1>6, <1>7 DEF c, OnGetTransferMsg3, Kept, Saved

LEMMA MakeSwapCommitmentSafe ==
  ASSUME IInv, NEW a \in Attempts, MakeSwapCommitment(a) PROVE SwapInv'
  <1>1. pc[a] = "ready" /\ step[a] = 13 /\ NoRequest /\ coin \in Coins
    BY DEF MakeSwapCommitment, IInv, TypeOK
  <1>2. StepInv(13, coin) /\ Follows(coin)
    BY <1>1, NoReplyLive
  <1> DEFINE c == [coin EXCEPT !.batch_data = TRUE, !.swap_status = "Phase4"]
  <1> HIDE DEF c
  <1>3. StepInv(13, c) /\ StepInv(13 + 1, c)
    BY <1>2 DEF c, Coins, StepInv
  <1>4. Follows(c)
    <2>1. /\ c.swap_status = "Phase4" /\ c.batch_data /\ c.msg4 = coin.msg4
          /\ c.status = "IN_SWAP" /\ c.swap_id = coin.swap_id
          /\ c.swap_id # 0 /\ c.swap_info /\ c.msg3 # NoKey
      BY <1>1, <1>2 DEF c, Coins, StepInv
    <2> QED
      BY <1>2, <2>1 DEF Follows, CoinInv
  <1>5. CASE StepOk(a, c) /\ Saved
    BY <1>1, <1>3, <1>4, <1>5, OkStep
  <1>6. CASE (\E w : StepRetry(a, c, w)) /\ Saved
    BY <1>1, <1>3, <1>4, <1>6, FrameFacts, RetryMoves
  <1>7. CASE Throw(a, coin, "other")
    BY <1>1, <1>7, ThrowSame
  <1> QED
    BY <1>1, <1>5, <1>6, <1>7 DEF c, MakeSwapCommitment, Kept, Saved

LEMMA OnSwapPhase4PollSwapSafe ==
  ASSUME IInv, NEW a \in Attempts, OnSwapPhase4PollSwap(a) PROVE SwapInv'
  <1>1. pc[a] = "wait" /\ step[a] = 15 /\ TakesReply(a)
    BY DEF OnSwapPhase4PollSwap, Answered
  <1>2. Follows(coin) /\ StepInv(15 + 1, coin)
    BY <1>1, NoReplyLive DEF StepInv
  <1>3. CASE StepOk(a, coin) /\ Kept
    BY <1>1, <1>2, <1>3, OkStep
  <1>4. CASE (\E w : StepRetry(a, coin, w)) /\ Kept
    BY <1>1, <1>4, RetrySame
  <1>5. CASE Throw(a, coin, "other")
    BY <1>1, <1>5, ThrowSame
  <1> QED
    BY <1>3, <1>4, <1>5 DEF OnSwapPhase4PollSwap, Kept

LEMMA OnPollAfterErrorSafe ==
  ASSUME IInv, NEW a \in Attempts, OnPollAfterError(a) PROVE SwapInv'
  <1>1. pc[a] = "polled" /\ TakesReply(a)
    BY DEF OnPollAfterError
  <1>2. CASE (\E w : StepRetry(a, coin, w)) /\ Kept
    BY <1>1, <1>2, RetrySame
  <1>3. CASE reply[a].kind = "timeout" /\ Throw(a, coin, "timeout")
    <2>1. batch[coin.swap_id] = "timeout"
      BY <1>1, <1>3 DEF IInv, SwapInv, ReplyInv
    <2>2. ~Committed
      BY <1>1, <2>1, OnlyLoop DEF IInv, SwapInv, ServerInv, CommitInv, Committed
    <2> QED
      BY <1>1, <1>3, <2>2, ThrowSame
  <1> QED
    BY <1>2, <1>3 DEF OnPollAfterError, Kept

LEMMA AskMoves ==
  ASSUME IInv, NEW a \in Attempts, pc[a] \notin {"new", "done", "starting"},
         NEW to \in PCs \ {"new", "done", "starting"}, NEW k, Ask(a, to, k),
         UNCHANGED batch, ServerInv', CommitInv', PlaceInv(to, step[a], coin),
         to = "wait" /\ step[a] \in {2, 3} /\ k = "id" => sid # 0,
         to = "wait" /\ step[a] = 16 /\ k = "ok" => batch[coin.swap_id] = "finalized",
         to = "polled" /\ k = "timeout" => batch[coin.swap_id] = "timeout"
  PROVE  SwapInv'
  <1>1. /\ UNCHANGED <<coin, out, disk, step, resumed, boot>>
        /\ pc' = [pc EXCEPT ![a] = to]
        /\ reply' = [reply EXCEPT ![a] = [kind |-> k, id |-> sid]]
    BY DEF Ask, LoopFrame
  <1>2. CoinInv(coin)' /\ CoinInv(disk.coin)'
    BY <1>1 DEF IInv, SwapInv, CoinInv
  <1>3. OneLoop'
    <2>1. Live' \subseteq {a}
      BY <1>1, OnlyLoop DEF IInv, TypeOK, Live
    <2> QED
      BY <1>1, <2>1, OnlyLoop DEF OneLoop
  <1>4. ASSUME NEW b \in Attempts PROVE LoopInv(b)' /\ ReplyInv(b)'
    <2>1. CASE b = a
      <3>1. pc'[a] = to /\ reply'[a] = [kind |-> k, id |-> sid] /\ step'[a] = step[a]
        BY <1>1 DEF IInv, TypeOK
      <3>2. LoopInv(a)'
        BY <1>1, <3>1, NoReplyLive DEF LoopInv
      <3>3. ReplyInv(a)'
        BY <1>1, <3>1 DEF ReplyInv
      <3> QED
        BY <2>1, <3>2, <3>3
    <2>2. CASE b # a
      BY <1>1, <2>2, OnlyLoop DEF IInv, TypeOK, LoopInv, ReplyInv
    <2> QED
      BY <2>1, <2>2
  <1>5. DiskInv'
    BY <1>1 DEF IInv, SwapInv, DiskInv, Finalized
  <1> QED
    BY <1>2, <1>3, <1>4, <1>5 DEF SwapInv

LEMMA ServersKept ==
  ASSUME IInv, UNCHANGED serverVars, UNCHANGED coin PROVE UNCHANGED batch /\ ServerInv' /\ CommitInv'
  BY DEF IInv, SwapInv, ServerInv, CommitInv, serverVars, Finalized

LEMMA CommandsKeep ==
  ASSUME IInv, NEW id, NEW key, UNCHANGED coin,
         RegisterUtxo \/ DeregisterUtxo \/ FirstMessage(id, key) \/ SecondMessage(id) \/ UpdateMsg(id)
  PROVE  UNCHANGED batch /\ ServerInv' /\ CommitInv'
  BY DEF IInv, SwapInv, ServerInv, CommitInv, Finalized, RegisterUtxo, DeregisterUtxo,
         FirstMessage, SecondMessage, UpdateMsg

LEMMA RequestSafe ==
  ASSUME IInv, NEW a \in Attempts, Request(a) PROVE SwapInv'
  <1>1. /\ pc[a] = "ready" /\ "wait" \in PCs \ {"new", "done", "starting"}
        /\ UNCHANGED coin /\ step[a] \notin {0, 13, 14}
    BY DEF Request, PCs, Query, Command, Ask
  <1>2. PlaceInv("wait", step[a], coin)
    BY <1>1 DEF PlaceInv
  <1>3. ASSUME NEW k, Ask(a, "wait", k), UNCHANGED batch /\ ServerInv' /\ CommitInv',
               step[a] \in {2, 3} => k # "id" \/ sid # 0,
               step[a] = 16 => k # "ok" \/ batch[coin.swap_id] = "finalized"
        PROVE  SwapInv'
    BY <1>1, <1>2, <1>3, AskMoves
  <1>4. CASE step[a] \in {2, 3}
    <2>1. PICK k : Ask(a, "wait", k) /\ UNCHANGED serverVars /\ (k # "id" \/ sid # 0)
      BY <1>4 DEF Request, Query, PollUtxoReply
    <2> QED
      BY <1>1, <1>3, <1>4, <2>1, ServersKept
  <1>5. CASE step[a] = 16
    <2>1. PICK k : Ask(a, "wait", k) /\ UNCHANGED serverVars
                   /\ (k # "ok" \/ batch[coin.swap_id] = "finalized")
      BY <1>5 DEF Request, Query, KeygenReply
    <2> QED
      BY <1>1, <1>3, <1>5, <2>1, ServersKept
  <1>6. CASE step[a] \in {4, 6, 7, 9, 10, 12, 15}
    <2>1. PICK k : Ask(a, "wait", k) /\ UNCHANGED serverVars
      BY <1>6 DEF Request, Query
    <2> QED
      BY <1>1, <1>3, <1>6, <2>1, ServersKept
  <1>7. CASE step[a] \in {1, 5, 8, 11}
    <2>1. PICK k : Ask(a, "wait", k)
      BY <1>7 DEF Request, Command
    <2>2. UNCHANGED batch /\ ServerInv' /\ CommitInv'
      BY <1>1, <1>7, ServersKept, CommandsKeep DEF Request, Command
    <2> QED
      BY <1>1, <1>3, <1>7, <2>1, <2>2
  <1> QED
    BY <1>4, <1>5, <1>6, <1>7 DEF Request

LEMMA PollAfterErrorSafe ==
  ASSUME IInv, NEW a \in Attempts, PollAfterError(a) PROVE SwapInv'
  <1>1. /\ pc[a] = "poll" /\ "polled" \in PCs \ {"new", "done", "starting"}
    BY DEF PollAfterError, PCs
  <1>2. PlaceInv("polled", step[a], coin)
    BY <1>1, NoReplyLive DEF PlaceInv
  <1>3. PICK k : /\ Ask(a, "polled", k) /\ UNCHANGED serverVars
                 /\ k = "timeout" => batch[coin.swap_id] = "timeout"
    BY DEF PollAfterError, Query, BatchReply
  <1>4. UNCHANGED coin
    BY <1>3 DEF Ask
  <1> QED
    BY <1>1, <1>2, <1>3, <1>4, ServersKept, AskMoves

LEMMA PostTransferMsg4Safe ==
  ASSUME IInv, NEW a \in Attempts, PostTransferMsg4(a) PROVE SwapInv'
  <1>1. /\ pc[a] = "post" /\ "posted" \in PCs \ {"new", "done", "starting"}
    BY DEF PostTransferMsg4, PCs
  <1>2. PlaceInv("posted", step[a], coin) /\ coin.msg4 # NoKey
    BY <1>1, NoReplyLive DEF PlaceInv
  <1>3. ASSUME NEW k, Ask(a, "posted", k), UNCHANGED batch /\ ServerInv' /\ CommitInv'
        PROVE  SwapInv'
    BY <1>1, <1>2, <1>3, AskMoves
  <1>4. PICK k : Ask(a, "posted", k) /\ (UNCHANGED serverVars \/ PostReceiver(coin.swap_id))
    BY DEF PostTransferMsg4, Query, Command
  <1>5. UNCHANGED coin
    BY <1>4 DEF Ask
  <1>6. CASE PostReceiver(coin.swap_id)
    <2>1. UNCHANGED batch /\ ServerInv' /\ CommitInv'
      BY <1>2, <1>5, <1>6
      DEF IInv, SwapInv, ServerInv, CommitInv, Finalized, PostReceiver, Running
    <2> QED
      BY <1>3, <1>4, <2>1
  <1> QED
    BY <1>3, <1>4, <1>5, <1>6, ServersKept

LEMMA TransferReceiverSafe ==
  ASSUME IInv, NEW a \in Attempts, TransferReceiver(a) PROVE SwapInv'
  <1>1. pc[a] = "ready" /\ step[a] = 14 /\ StepInv(14, coin) /\ Follows(coin)
    BY NoReplyLive DEF TransferReceiver
  <1>2. CASE coin.finalized # NoKey /\ StepOk(a, coin) /\ NoRequest /\ Kept
    <2>1. StepInv(14 + 1, coin)
      BY <1>1, <1>2 DEF StepInv
    <2> QED
      BY <1>1, <1>2, <2>1, OkStep
  <1>3. CASE /\ coin.msg4 # NoKey /\ pc' = [pc EXCEPT ![a] = "post"]
             /\ UNCHANGED <<coin, out, disk, step>> /\ NoRequest
    <2>1. PlaceInv("post", 14, coin)
      BY <1>1, <1>3 DEF PlaceInv
    <2>2. Follows(coin') /\ StepInv(14, coin') /\ PlaceInv("post", 14, coin')
      BY <1>1, <1>3, <2>1 DEF Follows
    <2> QED
      BY <1>1, <1>3, <2>2, PlaceMoves
  <1>4. CASE coin.msg4 = NoKey /\ \E K : Query(a, "msg4", K)
    <2>1. PICK k : Ask(a, "msg4", k) /\ UNCHANGED serverVars
      BY <1>4 DEF Query
    <2>2. PlaceInv("msg4", step[a], coin) /\ "msg4" \in PCs \ {"new", "done", "starting"}
      BY <1>1, <1>4 DEF PlaceInv, PCs
    <2>3. UNCHANGED coin
      BY <2>1 DEF Ask
    <2> QED
      BY <1>1, <2>1, <2>2, <2>3, ServersKept, AskMoves
  <1> QED
    BY <1>2, <1>3, <1>4 DEF TransferReceiver, Kept

LEMMA OnGetTransferMsg4Safe ==
  ASSUME IInv, Careful, NEW a \in Attempts, OnGetTransferMsg4(a) PROVE SwapInv'
  <1>1. /\ pc[a] = "msg4" /\ step[a] = 14 /\ TakesReply(a) /\ coin \in Coins
    BY DEF OnGetTransferMsg4, IInv, TypeOK
  <1>2. StepInv(14, coin) /\ Follows(coin) /\ coin.msg4 = NoKey /\ ~Committed
    BY <1>1, NoReplyLive DEF PlaceInv, Follows, IInv, SwapInv, CommitInv, Committed
  <1>3. CASE coin' = [coin EXCEPT !.msg4 = a] /\ UNCHANGED <<out, step>>
             /\ pc' = [pc EXCEPT ![a] = "post"] /\ Save
    <2> DEFINE c == [coin EXCEPT !.msg4 = a]
    <2> HIDE DEF c
    <2>1. /\ c.swap_status = "Phase4" /\ c.batch_data /\ c.msg4 # NoKey
          /\ c.status = "IN_SWAP" /\ c.swap_id # 0 /\ c.swap_info /\ c.msg3 # NoKey
          /\ StepInv(14, c)
      BY <1>1, <1>2, NoKeyAssumption DEF c, Coins, StepInv, IInv, SwapInv, CoinInv
    <2>2. Follows(c)
      BY <1>2, <1>3, <2>1 DEF Follows, CoinInv
    <2>3. PlaceInv("post", 14, c)
      BY <2>1 DEF PlaceInv
    <2>4. coin' = c
      BY <1>3 DEF c
    <2> QED
      BY <1>1, <1>3, <2>1, <2>2, <2>3, <2>4, PlaceMoves
  <1>4. CASE pc' = [pc EXCEPT ![a] = "poll"] /\ UNCHANGED <<coin, out, disk, step>>
    <2>1. PlaceInv("poll", 14, coin)
      BY DEF PlaceInv
    <2>2. Follows(coin') /\ StepInv(14, coin') /\ PlaceInv("poll", 14, coin')
      BY <1>2, <1>4, <2>1 DEF Follows
    <2> QED
      BY <1>1, <1>4, <2>2, PlaceMoves
  <1>5. CASE Throw(a, coin, "exiting")
    BY <1>1, <1>2, <1>5, ThrowSame
  <1> QED
    BY <1>3, <1>4, <1>5 DEF OnGetTransferMsg4, SaveThrows, Careful

LEMMA OnTransferReceiverSafe ==
  ASSUME IInv, NEW a \in Attempts, OnTransferReceiver(a) PROVE SwapInv'
  <1>1. /\ pc[a] = "posted" /\ step[a] = 14 /\ TakesReply(a) /\ UNCHANGED out /\ coin \in Coins
    BY DEF OnTransferReceiver, IInv, TypeOK
  <1>2. StepInv(14, coin) /\ Follows(coin)
    BY <1>1, NoReplyLive
  <1> DEFINE c == [coin EXCEPT !.finalized = a]
  <1> HIDE DEF c
  <1>3. StepInv(14, c) /\ StepInv(14 + 1, c) /\ Follows(c)
    <2>1. /\ c.swap_status = coin.swap_status /\ c.batch_data = coin.batch_data
          /\ c.msg4 = coin.msg4 /\ c.status = coin.status /\ c.swap_id = coin.swap_id
          /\ c.swap_info = coin.swap_info /\ c.msg3 = coin.msg3 /\ c.finalized # NoKey
      BY <1>1, NoKeyAssumption DEF c, Coins
    <2> QED
      BY <1>2, <2>1 DEF StepInv, Follows, CoinInv
  <1>4. CASE StepOk(a, c) /\ Saved
    BY <1>1, <1>3, <1>4, OkStep
  <1>5. CASE (coin' = c \/ coin' = coin) /\ pc' = [pc EXCEPT ![a] = "poll"]
             /\ UNCHANGED <<disk, step>>
    <2>1. PlaceInv("poll", 14, coin')
      BY DEF PlaceInv
    <2>2. Follows(coin') /\ StepInv(14, coin')
      BY <1>2, <1>3, <1>5 DEF Follows
    <2> QED
      BY <1>1, <1>5, <2>1, <2>2, PlaceMoves
  <1> QED
    BY <1>1, <1>4, <1>5 DEF c, OnTransferReceiver, SaveThrows, Saved

LEMMA OnTransferReceiverFinalizeSafe ==
  ASSUME IInv, Careful, NEW a \in Attempts, OnTransferReceiverFinalize(a) PROVE SwapInv'
  <1>1. /\ pc[a] = "wait" /\ step[a] = 16 /\ TakesReply(a) /\ coin \in Coins
    BY DEF OnTransferReceiverFinalize, Answered, IInv, TypeOK
  <1>2. StepInv(16, coin) /\ Follows(coin)
    BY <1>1, NoReplyLive
  <1>3. CASE pc' = [pc EXCEPT ![a] = "poll"] /\ UNCHANGED <<coin, out, disk, step>>
    <2>1. PlaceInv("poll", 16, coin)
      BY DEF PlaceInv
    <2>2. Follows(coin') /\ StepInv(16, coin') /\ PlaceInv("poll", 16, coin')
      BY <1>2, <1>3, <2>1 DEF Follows
    <2> QED
      BY <1>1, <1>3, <2>2, PlaceMoves
  <1>4. CASE /\ reply[a].kind = "ok" /\ EndLoop(a) /\ Save
             /\ out' = [proof_key |-> coin.msg3, o2 |-> coin.finalized]
             /\ coin' = [SwapDataNull EXCEPT !.status = "SWAPPED", !.finalized = coin.finalized]
    <2>1. /\ coin'.status = "SWAPPED" /\ coin'.swap_status = "null" /\ coin'.msg4 = NoKey
      BY <1>4 DEF SwapDataNull
    <2>2. out' # NoOut /\ disk' = [coin |-> coin', out |-> out']
      BY <1>2, <1>4 DEF StepInv, NoOut, Save
    <2>3. Finalized
      <3>1. coin.swap_id \in SwapIds
        BY <1>1, <1>2 DEF StepInv, Coins, SwapIds
      <3>2. batch[coin.swap_id] = "finalized"
        BY <1>1, <1>4 DEF IInv, SwapInv, ReplyInv
      <3> QED
        BY <3>1, <3>2 DEF Finalized
    <2>4. UNCHANGED <<batch, sid, recvd, pool, lastSid>> /\ Finalized' = Finalized
      BY <1>1 DEF TakesReply, serverVars, Finalized
    <2>5. ServerInv'
      BY <2>4 DEF IInv, SwapInv, ServerInv
    <2>6. CoinInv(coin)' /\ CoinInv(disk.coin)'
      BY <2>1, <2>2 DEF CoinInv
    <2>7. \A b \in Attempts : pc'[b] \in {"new", "done"}
      BY <1>1, <1>4, OnlyLoop DEF EndLoop, IInv, TypeOK
    <2>8. OneLoop' /\ \A b \in Attempts : LoopInv(b)' /\ ReplyInv(b)'
      BY <2>7 DEF OneLoop, Live, LoopInv, ReplyInv
    <2>9. DiskInv'
      BY <2>1, <2>2, <2>3, <2>4 DEF DiskInv
    <2>10. CommitInv'
      BY <2>1, <2>3, <2>4 DEF CommitInv, IInv, SwapInv, ServerInv
    <2> QED
      BY <2>5, <2>6, <2>8, <2>9, <2>10 DEF SwapInv
  <1> QED
    BY <1>3, <1>4 DEF OnTransferReceiverFinalize, SaveThrows, Careful

LEMMA StartLoopSafe ==
  ASSUME IInv, NEW a \in Attempts, StartLoop(a) PROVE SwapInv'
  <1>1. /\ pc[a] = "starting" /\ StartInv(resumed[a], coin) /\ CoinInv(coin)
        /\ coin.status # "SWAPPED" /\ LoopFrames(a)
    BY OnlyLoop, FrameFacts DEF StartLoop, IInv, SwapInv, LoopInv
  <1>2. /\ pc' = [pc EXCEPT ![a] = "ready"]
        /\ step' = [step EXCEPT ![a] = IF resumed[a] THEN 14 ELSE 0]
        /\ coin' = IF resumed[a] THEN coin
                   ELSE [SwapDataNull EXCEPT !.status = "AWAITING_SWAP", !.swap_status = "Init"]
        /\ UNCHANGED <<out, disk>>
    BY <1>1 DEF StartLoop, StartInv, CoinInv
  <1>3. "ready" \in PCs \ {"wait", "polled", "starting"} /\ 14 \in 0 .. 16 /\ 0 \in 0 .. 16
    BY DEF PCs
  <1>4. CASE resumed[a]
    <2>1. Follows(coin') /\ coin' = coin
      BY <1>1, <1>2, <1>4, CoinFollows DEF Follows
    <2>2. StepInv(14, coin')
      BY <1>1, <1>4, <2>1 DEF StartInv, CoinInv, StepInv
    <2>3. PlaceInv("ready", 14, coin')
      BY DEF PlaceInv
    <2> QED
      BY <1>1, <1>2, <1>3, <1>4, <2>1, <2>2, <2>3, LoopMoves
  <1>5. CASE ~resumed[a]
    <2>1. coin'.status = "AWAITING_SWAP" /\ coin'.swap_status = "Init" /\ coin'.msg4 = NoKey
      BY <1>2, <1>5 DEF SwapDataNull
    <2>2. ~Committed
      BY <1>1, <1>5 DEF StartInv, Committed, CoinInv, IInv, SwapInv, CommitInv
    <2>3. Follows(coin') /\ StepInv(0, coin') /\ PlaceInv("ready", 0, coin')
      BY <2>1, <2>2 DEF Follows, CoinInv, StepInv, PlaceInv
    <2> QED
      BY <1>1, <1>2, <1>3, <1>5, <2>3, LoopMoves
  <1> QED
    BY <1>4, <1>5

-------------------------------------------------------------------------------
(* The servers and the wallet's operations *)

\* The coin and its loops stay as they are.
LEMMA LoopsKept ==
  ASSUME IInv, UNCHANGED <<coin, out, disk, pc, step, resumed, reply, batch>>,
         UNCHANGED boot \/ Live = {}, ServerInv', CommitInv'
  PROVE  SwapInv'
  <1>1. CoinInv(coin)' /\ CoinInv(disk.coin)'
    BY DEF IInv, SwapInv, CoinInv
  <1>2. OneLoop'
    BY DEF IInv, SwapInv, OneLoop, Live
  <1>3. ASSUME NEW a \in Attempts PROVE LoopInv(a)' /\ ReplyInv(a)'
    BY DEF IInv, SwapInv, LoopInv, ReplyInv
  <1>4. DiskInv'
    BY DEF IInv, SwapInv, DiskInv, Finalized
  <1> QED
    BY <1>1, <1>2, <1>3, <1>4 DEF SwapInv

\* setSwapDataToNull on a coin that is not in phase 4.
LEMMA CoinNulled ==
  ASSUME IInv, coin.swap_status # "Phase4", coin.status # "SWAPPED",
         coin' = SwapDataNull, UNCHANGED <<out, pc, step, resumed, reply, batch, sid, recvd>>,
         Save, ServerInv', coin.status = "AWAITING_SWAP" \/ Live = {},
         UNCHANGED boot \/ Live = {}
  PROVE  SwapInv'
  <1>1. /\ coin'.status = "AVAILABLE" /\ coin'.swap_status = "null" /\ coin'.msg4 = NoKey
        /\ disk' = [coin |-> coin', out |-> out]
    BY DEF SwapDataNull, Save
  <1>2. coin.msg4 = NoKey /\ ~Finalized /\ ~(sid # 0 /\ recvd) /\ Finalized' = Finalized
    BY DEF IInv, SwapInv, CoinInv, CommitInv, Finalized
  <1>3. CoinInv(coin)' /\ CoinInv(disk.coin)'
    BY <1>1 DEF CoinInv
  <1>4. OneLoop'
    BY <1>1 DEF IInv, SwapInv, OneLoop, Live
  <1>5. ASSUME NEW a \in Attempts PROVE LoopInv(a)' /\ ReplyInv(a)'
    <2>1. CASE Live = {}
      BY <2>1 DEF Live, LoopInv, ReplyInv
    <2>2. CASE coin.status = "AWAITING_SWAP"
      <3>1. step[a] \in 0 .. 16 /\ LoopInv(a) /\ CoinInv(coin)
        BY DEF IInv, TypeOK, SwapInv
      <3>2. pc[a] # "starting"
        BY <2>2, <3>1 DEF LoopInv, StartInv, CoinInv
      <3>3. CASE pc[a] \notin {"new", "done"}
        <4>1. step[a] < 3 /\ pc[a] \notin {"msg4", "post", "posted", "poll", "polled"}
          BY <2>2, <3>1, <3>2, <3>3 DEF LoopInv, StepInv, PlaceInv
        <4>2. LoopInv(a)'
          BY <1>1, <3>1, <3>2, <3>3, <4>1 DEF LoopInv, StepInv, PlaceInv
        <4>3. ReplyInv(a)'
          BY <4>1 DEF ReplyInv, IInv, SwapInv
        <4> QED
          BY <4>2, <4>3
      <3> QED
        BY <3>3 DEF LoopInv, ReplyInv
    <2> QED
      BY <2>1, <2>2
  <1>6. DiskInv'
    BY <1>1 DEF IInv, SwapInv, DiskInv
  <1>7. CommitInv'
    BY <1>2 DEF CommitInv
  <1> QED
    BY <1>3, <1>4, <1>5, <1>6, <1>7 DEF SwapInv

\* do_swap or resume_swap on an idle coin.
LEMMA StartsSafe ==
  ASSUME IInv, Live = {}, NEW a \in Attempts, NEW r \in BOOLEAN,
         UNCHANGED <<serverVars, coin, out, disk>>,
         pc' = [pc EXCEPT ![a] = "starting"], resumed' = [resumed EXCEPT ![a] = r],
         StartInv(r, coin), boot' = "ready", coin.status # "SWAPPED"
  PROVE  SwapInv'
  <1>1. UNCHANGED <<batch, sid, recvd, pool, lastSid>> /\ Finalized' = Finalized
    BY DEF serverVars, Finalized
  <1>2. ServerInv' /\ CommitInv' /\ DiskInv'
    BY <1>1 DEF IInv, SwapInv, ServerInv, CommitInv, DiskInv
  <1>3. CoinInv(coin)' /\ CoinInv(disk.coin)'
    BY DEF IInv, SwapInv, CoinInv
  <1>4. \A b \in Attempts : pc'[b] = IF b = a THEN "starting" ELSE pc[b]
    BY DEF IInv, TypeOK
  <1>5. \A b \in Attempts \ {a} : pc'[b] \in {"new", "done"}
    BY <1>4 DEF Live
  <1>6. OneLoop'
    BY <1>5 DEF OneLoop, Live
  <1>7. resumed'[a] = r
    BY DEF IInv, TypeOK
  <1>8. ASSUME NEW b \in Attempts PROVE LoopInv(b)' /\ ReplyInv(b)'
    <2>1. CASE b = a
      BY <1>4, <1>7, <2>1 DEF LoopInv, ReplyInv
    <2>2. CASE b # a
      BY <1>5, <2>2 DEF LoopInv, ReplyInv
    <2> QED
      BY <2>1, <2>2
  <1> QED
    BY <1>2, <1>3, <1>6, <1>8 DEF SwapInv

LEMMA DoSwapSafe ==
  ASSUME IInv, Careful, NEW a \in Attempts, DoSwap(a) PROVE SwapInv'
  <1>1. Live = {} /\ boot' = "ready" /\ coin.status = "AVAILABLE"
    BY DEF DoSwap, Careful
  <1>2. coin.swap_status # "Phase4"
    BY <1>1 DEF IInv, SwapInv, CoinInv
  <1>3. StartInv(FALSE, coin) /\ resumed' = [resumed EXCEPT ![a] = FALSE]
    BY <1>1, <1>2 DEF DoSwap, StartInv
  <1> QED
    BY <1>1, <1>3, StartsSafe DEF DoSwap

LEMMA LeaveSafe ==
  ASSUME IInv, Leave PROVE SwapInv'
  <1>1. UNCHANGED coin /\ DeregisterUtxo
    BY DEF Leave
  <1>2. UNCHANGED batch /\ ServerInv' /\ CommitInv'
    BY <1>1, CommandsKeep
  <1> QED
    BY <1>2, LoopsKept DEF Leave

LEMMA RemoveSafe ==
  ASSUME IInv, RemoveCoinFromSwapPool PROVE SwapInv'
  <1>1. UNCHANGED serverVars /\ UNCHANGED <<pc, step, resumed, reply, boot>>
    BY DEF RemoveCoinFromSwapPool
  <1>2. UNCHANGED <<batch, sid, recvd>> /\ ServerInv'
    BY <1>1 DEF serverVars, IInv, SwapInv, ServerInv, Finalized
  <1>3. CASE coin.status = "AWAITING_SWAP" /\ coin' = SwapDataNull /\ UNCHANGED out /\ Save
    <2>1. coin.swap_status # "Phase4"
      BY <1>3 DEF IInv, SwapInv, CoinInv
    <2> QED
      BY <1>1, <1>2, <1>3, <2>1, CoinNulled
  <1>4. CASE UNCHANGED <<coin, out, disk>>
    BY <1>1, <1>2, <1>4, ServersKept, LoopsKept
  <1> QED
    BY <1>3, <1>4 DEF RemoveCoinFromSwapPool

LEMMA UnloadSafe ==
  ASSUME IInv, Unload PROVE SwapInv'
  <1>1. /\ UNCHANGED <<coin, out, pc, step, resumed, reply, boot>> /\ UNCHANGED serverVars
        /\ disk' = [coin |-> coin, out |-> out]
    BY DEF Unload, Save
  <1>2. UNCHANGED batch /\ ServerInv' /\ CommitInv' /\ Finalized' = Finalized
    BY <1>1, ServersKept DEF serverVars, Finalized
  <1>3. CoinInv(coin)' /\ CoinInv(disk.coin)'
    BY <1>1 DEF IInv, SwapInv, CoinInv
  <1>4. OneLoop'
    BY <1>1 DEF IInv, SwapInv, OneLoop, Live
  <1>5. ASSUME NEW a \in Attempts PROVE LoopInv(a)' /\ ReplyInv(a)'
    BY <1>1, <1>2 DEF IInv, SwapInv, LoopInv, ReplyInv
  <1>6. DiskInv'
    BY <1>1, <1>2 DEF IInv, SwapInv, DiskInv
  <1> QED
    BY <1>2, <1>3, <1>4, <1>5, <1>6 DEF SwapInv

LEMMA RestartSafe ==
  ASSUME IInv, Restart PROVE SwapInv'
  <1>1. /\ coin' = ResetSwapStates(disk.coin) /\ out' = disk.out
        /\ disk' = [coin |-> coin', out |-> out'] /\ UNCHANGED serverVars
    BY DEF Restart, Save
  <1>2. UNCHANGED <<batch, sid, recvd>> /\ ServerInv' /\ Finalized' = Finalized
    BY <1>1 DEF serverVars, IInv, SwapInv, ServerInv, Finalized
  <1>3. \A a \in Attempts : pc'[a] \in {"new", "done"}
    BY DEF Restart
  <1>4. OneLoop' /\ \A a \in Attempts : LoopInv(a)' /\ ReplyInv(a)'
    BY <1>3 DEF OneLoop, Live, LoopInv, ReplyInv
  <1>5. CoinInv(disk.coin) /\ DiskInv /\ CommitInv
    BY DEF IInv, SwapInv
  <1>6. CASE coin' = disk.coin
    <2>1. CoinInv(coin)' /\ CoinInv(disk.coin)'
      BY <1>1, <1>5, <1>6 DEF CoinInv
    <2>2. DiskInv'
      BY <1>1, <1>2, <1>5, <1>6 DEF DiskInv
    <2>3. CommitInv'
      BY <1>1, <1>2, <1>5, <1>6 DEF DiskInv, CommitInv
    <2> QED
      BY <1>2, <1>4, <2>1, <2>2, <2>3 DEF SwapInv
  <1>7. CASE /\ coin' = SwapDataNull /\ disk.coin.status = "IN_SWAP"
             /\ disk.coin.swap_status # "Phase4"
    <2>1. coin'.status = "AVAILABLE" /\ coin'.swap_status = "null" /\ coin'.msg4 = NoKey
      BY <1>7 DEF SwapDataNull
    <2>2. disk.coin.msg4 = NoKey
      BY <1>5, <1>7 DEF CoinInv
    <2>3. coin.msg4 = NoKey /\ coin.status # "SWAPPED"
      BY <1>5, <1>7, <2>2 DEF DiskInv
    <2>4. CoinInv(coin)' /\ CoinInv(disk.coin)'
      BY <1>1, <2>1 DEF CoinInv
    <2>5. DiskInv'
      BY <1>1, <1>2, <1>5, <2>1, <2>3 DEF DiskInv
    <2>6. CommitInv'
      BY <1>2, <1>5, <2>3 DEF CommitInv
    <2> QED
      BY <1>2, <1>4, <2>4, <2>5, <2>6 DEF SwapInv
  <1> QED
    BY <1>1, <1>6, <1>7 DEF ResetSwapStates

LEMMA DeRegisterSwapsSafe ==
  ASSUME IInv, DeRegisterSwaps PROVE SwapInv'
  <1>1. Live = {} /\ UNCHANGED <<pc, step, resumed, reply>>
    BY DEF DeRegisterSwaps, IInv, SwapInv, OneLoop
  <1>2. CASE DeregisterUtxo /\ coin.status = "AWAITING_SWAP" /\ coin' = SwapDataNull /\ UNCHANGED out /\ Save
    <2>1. coin.swap_status # "Phase4"
      BY <1>2 DEF IInv, SwapInv, CoinInv
    <2>2. UNCHANGED <<batch, sid, recvd>> /\ ServerInv'
      BY <1>2 DEF DeregisterUtxo, IInv, SwapInv, ServerInv, Finalized
    <2> QED
      BY <1>1, <1>2, <2>1, <2>2, CoinNulled
  <1>3. CASE UNCHANGED <<coin, out, disk>> /\ (UNCHANGED serverVars \/ DeregisterUtxo)
    <2>1. UNCHANGED coin
      BY <1>3
    <2>2. UNCHANGED batch /\ ServerInv' /\ CommitInv'
      BY <1>3, <2>1, ServersKept, CommandsKeep
    <2> QED
      BY <1>1, <1>3, <2>2, LoopsKept
  <1> QED
    BY <1>2, <1>3 DEF DeRegisterSwaps

LEMMA UpdateSwapStatusSafe ==
  ASSUME IInv, UpdateSwapStatus PROVE SwapInv'
  <1>1. Live = {} /\ UNCHANGED <<step, reply, out>> /\ UNCHANGED serverVars /\ boot' = "ready"
    BY DEF UpdateSwapStatus, IInv, SwapInv, OneLoop
  <1>2. UNCHANGED <<batch, sid, recvd>> /\ ServerInv'
    BY <1>1 DEF serverVars, IInv, SwapInv, ServerInv, Finalized
  <1>3. CASE UNCHANGED <<coin, disk, pc, resumed>>
    BY <1>1, <1>2, <1>3, ServersKept, LoopsKept
  <1>4. CASE /\ coin.status # "SWAPPED" /\ coin.swap_status # "Phase4"
             /\ coin' = SwapDataNull /\ Save /\ UNCHANGED <<pc, resumed>>
    BY <1>1, <1>2, <1>4, CoinNulled
  <1>5. ASSUME NEW a \in Attempts, coin.status # "SWAPPED", coin.swap_status = "Phase4",
               pc' = [pc EXCEPT ![a] = "starting"], resumed' = [resumed EXCEPT ![a] = TRUE],
               UNCHANGED <<coin, disk>>
        PROVE  SwapInv'
    <2>1. StartInv(TRUE, coin)
      BY <1>5 DEF StartInv
    <2> QED
      BY <1>1, <1>5, <2>1, StartsSafe
  <1> QED
    BY <1>3, <1>4, <1>5 DEF UpdateSwapStatus

\* A step of the servers that leaves the outcomes of the batches alone.
LEMMA ConductorSafe ==
  ASSUME IInv, MatchSwap \/ PoolTimeout \/ AdvancePhase \/ SwapHalted \/ PeerSends,
         UNCHANGED walletVars
  PROVE  SwapInv'
  <1>1. /\ UNCHANGED <<coin, out, disk, pc, step, resumed, reply, boot>>
        /\ UNCHANGED batch /\ Finalized' = Finalized
    BY
    DEF walletVars, MatchSwap, PoolTimeout, AdvancePhase, SwapHalted, SwapEnds,
        PeerSends,
           Finalized
  <1>2. CommitInv'
    BY <1>1
    DEF IInv, SwapInv, CommitInv, MatchSwap, PoolTimeout, AdvancePhase, SwapHalted,
           SwapEnds, PeerSends
  <1>3. ServerInv /\ lastSid \in 0 .. MaxSwaps /\ MaxSwaps \in Nat
    BY MaxSwapsAssumption DEF IInv, SwapInv, TypeOK, ServerTypeOK
  <1>4. ServerInv'
    <2>1. CASE MatchSwap
      <3>1. lastSid + 1 \in SwapIds
        BY <1>3, <2>1 DEF MatchSwap, SwapIds
      <3> QED
        BY <1>1, <1>3, <2>1, <3>1 DEF MatchSwap, ServerInv, SwapIds
    <2>2. CASE PoolTimeout \/ AdvancePhase \/ PeerSends
      BY <1>1, <1>3, <2>2 DEF PoolTimeout, AdvancePhase, PeerSends, ServerInv
    <2>3. CASE SwapHalted
      BY <1>1, <1>3, <2>3 DEF SwapHalted, SwapEnds, ServerInv
    <2> QED
      BY <2>1, <2>2, <2>3
  <1> QED
    BY <1>1, <1>2, <1>4, LoopsKept

LEMMA BatchEndsSafe ==
  ASSUME IInv, BatchEnds, UNCHANGED walletVars PROVE SwapInv'
  <1>1. UNCHANGED <<coin, out, disk, pc, step, resumed, reply, boot>>
    BY DEF walletVars
  <1>2. /\ sid \in SwapIds /\ sid # 0 /\ batch[sid] = "open" /\ ~pool /\ ~Finalized
        /\ batch \in [SwapIds -> BatchStates]
    BY DEF IInv, TypeOK, ServerTypeOK, SwapInv, ServerInv, BatchEnds, BatchFinalize,
           BatchTimeout, SwapIds
  <1>3. PICK o \in {"finalized", "timeout"} : batch' = [batch EXCEPT ![sid] = o]
    BY DEF BatchEnds, BatchFinalize, BatchTimeout
  <1>4. sid' = 0 /\ UNCHANGED pool /\ UNCHANGED lastSid
    BY DEF BatchEnds, BatchFinalize, BatchTimeout, SwapEnds
  <1>5. /\ batch'[sid] = o
        /\ \A i \in SwapIds \ {sid} : batch'[i] = batch[i]
    BY <1>2, <1>3
  <1>6. Finalized' => o = "finalized" /\ recvd
    <2>1. CASE BatchFinalize
      BY <1>2, <1>3, <2>1, <1>5 DEF BatchFinalize, Finalized
    <2>2. CASE BatchTimeout
      <3>1. o # "finalized"
        BY <1>2, <1>3, <1>5, <2>2 DEF BatchTimeout
      <3> QED
        BY <1>2, <1>5, <3>1 DEF Finalized
    <2> QED
      BY <2>1, <2>2 DEF BatchEnds
  <1>7. ServerInv'
    <2>1. sid <= lastSid
      BY <1>2 DEF IInv, SwapInv, ServerInv
    <2>2. ASSUME NEW i \in SwapIds, i > lastSid PROVE batch'[i] = "open"
      <3>1. i # sid /\ batch[i] = "open"
        BY <2>1, <2>2, <1>2 DEF IInv, TypeOK, ServerTypeOK, SwapInv, ServerInv, SwapIds
      <3> QED
        BY <1>5, <3>1
    <2> QED
      BY <1>2, <1>4, <2>2 DEF ServerInv
  <1>8. CoinInv(coin)' /\ CoinInv(disk.coin)'
    BY <1>1 DEF IInv, SwapInv, CoinInv
  <1>9. OneLoop'
    BY <1>1 DEF IInv, SwapInv, OneLoop, Live
  <1>10. ASSUME NEW a \in Attempts PROVE LoopInv(a)' /\ ReplyInv(a)'
    <2>1. LoopInv(a)'
      BY <1>1 DEF IInv, SwapInv, LoopInv
    <2>2. ASSUME pc[a] \in {"wait", "polled"}, step[a] \in {14, 16}
          PROVE  coin.swap_id \in SwapIds
      <3>1. StepInv(step[a], coin)
        BY <2>2, NoReplyLive
      <3> QED
        BY <2>2, <3>1 DEF IInv, TypeOK, Coins, SwapIds, StepInv
    <2>3. pc[a] = "polled" => step[a] \in {14, 16}
      BY NoReplyLive DEF PlaceInv
    <2>4. ReplyInv(a)'
      BY <1>1, <1>2, <1>5, <2>2, <2>3 DEF IInv, SwapInv, ReplyInv
    <2> QED
      BY <2>1, <2>4
  <1>11. DiskInv'
    BY <1>1, <1>2 DEF IInv, SwapInv, DiskInv
  <1>12. CommitInv'
    BY <1>1, <1>2, <1>4, <1>5, <1>6 DEF IInv, SwapInv, CommitInv
  <1> QED
    BY <1>7, <1>8, <1>9, <1>10, <1>11, <1>12 DEF SwapInv

-------------------------------------------------------------------------------
(* The theorems *)

LEMMA InitSafe ==
  ASSUME Init PROVE SwapInv
  <1>1. ServerInv
    BY DEF Init, ServerInit, ServerInv, Finalized
  <1>2. CoinInv(coin) /\ CoinInv(disk.coin)
    BY DEF Init, SwapDataNull, CoinInv
  <1>3. OneLoop /\ \A a \in Attempts : LoopInv(a) /\ ReplyInv(a)
    BY DEF Init, SwapDataNull, OneLoop, Live, LoopInv, ReplyInv
  <1>4. DiskInv /\ CommitInv
    BY DEF Init, ServerInit, SwapDataNull, DiskInv, CommitInv, Finalized
  <1> QED
    BY <1>1, <1>2, <1>3, <1>4 DEF SwapInv

LEMMA LoopSafe ==
  ASSUME IInv, Careful, NEW a \in Attempts, LoopNext(a) PROVE SwapInv'
  BY StartLoopSafe, StepThrowsSafe, RequestSafe, CheckProofKeyDerSafe, OnSwapRegisterUtxoSafe,
     OnPollUtxoPhase0Safe, OnPollUtxoPhase1Safe, OnLoadSwapInfoSafe, OnGetBSTDataSafe,
     OnPollSwapPhase2Safe, OnGetBSSSafe, OnDoSwapSecondMessageSafe, OnPollSwapPhase3Safe,
     OnTransferSenderSafe, OnTransferUpdateMsgSafe, GetTransferMsg3KeptSafe,
     OnGetTransferMsg3Safe, MakeSwapCommitmentSafe, TransferReceiverSafe,
     OnGetTransferMsg4Safe, PostTransferMsg4Safe, OnTransferReceiverSafe, PollAfterErrorSafe,
     OnPollAfterErrorSafe, OnSwapPhase4PollSwapSafe, OnTransferReceiverFinalizeSafe
  DEF LoopNext

LEMMA NextSafe ==
  ASSUME IInv, Careful, [Next]_vars PROVE IInv'
  <1>1. TypeOK'
    BY NextTypes DEF IInv
  <1>2. SUFFICES SwapInv'
    BY <1>1 DEF IInv
  <1>3. CASE ServerNext /\ UNCHANGED walletVars
    BY <1>3, ConductorSafe, BatchEndsSafe DEF ServerNext
  <1>4. ASSUME NEW a \in Attempts, DoSwap(a) \/ LoopNext(a) PROVE SwapInv'
    BY <1>4, DoSwapSafe, LoopSafe
  <1>5. CASE WalletNext
    BY <1>5, LeaveSafe, RemoveSafe, UnloadSafe, RestartSafe, DeRegisterSwapsSafe,
       UpdateSwapStatusSafe DEF WalletNext
  <1>6. CASE UNCHANGED vars
    <2>1. UNCHANGED serverVars /\ UNCHANGED <<coin, out, disk, pc, step, resumed, reply, boot>>
      BY <1>6 DEF vars, walletVars
    <2>2. UNCHANGED batch /\ ServerInv' /\ CommitInv'
      BY <2>1, ServersKept
    <2> QED
      BY <2>1, <2>2, LoopsKept
  <1> QED
    BY <1>3, <1>4, <1>5, <1>6 DEF Next

\* What relates the coin, its loop, the wallet file and the servers in every
\* state of a careful wallet: a coin in phase 4 has the data the last steps
\* read, at most one loop runs on it, and msg4 is on disk before it is posted.
THEOREM Invariance == ASSUME Careful PROVE Spec => []IInv
  <1>1. Init => IInv
    BY InitTypes, InitSafe DEF IInv
  <1>2. IInv /\ [Next]_vars => IInv'
    BY NextSafe
  <1> QED
    BY <1>1, <1>2, PTL DEF Spec

\* After the batch transfer handleSwapError and resetSwapStates never make the
\* input coin AVAILABLE, in memory or from the wallet file.
THEOREM NotOffered == ASSUME Careful PROVE Spec => []TransferredNotOffered
  <1>1. IInv => TransferredNotOffered
    <2> SUFFICES ASSUME IInv, Finalized
                 PROVE  /\ coin.status # "AVAILABLE"
                        /\ ResetSwapStates(disk.coin).status # "AVAILABLE"
      BY DEF TransferredNotOffered
    <2>1. CoinInv(coin) /\ CoinInv(disk.coin) /\ DiskInv /\ CommitInv
      BY DEF IInv, SwapInv
    <2>2. CASE coin.status = "SWAPPED"
      BY <2>1, <2>2 DEF DiskInv, ResetSwapStates
    <2>3. CASE coin.msg4 # NoKey
      BY <2>1, <2>3 DEF DiskInv, CoinInv, ResetSwapStates
    <2> QED
      BY <2>1, <2>2, <2>3 DEF CommitInv
  <1> QED
    BY <1>1, Invariance, PTL

\* setStatecoinOut adds the received coin only after the batch transfer, and
\* only together with marking the input coin SWAPPED.
THEOREM NotCountedTwice == ASSUME Careful PROVE Spec => []ReceivedNotCountedTwice
  <1>1. IInv => ReceivedNotCountedTwice
    BY DEF IInv, SwapInv, DiskInv, ReceivedNotCountedTwice
  <1> QED
    BY <1>1, Invariance, PTL

\* From the post of transfer_receiver to the end of the batch transfer the data
\* that finishes the swap is in memory and in the wallet file.
THEOREM DataKept == ASSUME Careful PROVE Spec => []CommittedKeepsData
  <1>1. IInv => CommittedKeepsData
    BY DEF IInv, SwapInv, CommitInv, DiskInv, CoinInv, CommittedKeepsData, KeepsSwapData
  <1> QED
    BY <1>1, Invariance, PTL

\* updateSwapStatus finds no loop running on the coin, so the coin and the
\* loops it leaves alone are those of a swap that is really over.
THEOREM LeftAlone == ASSUME Careful PROVE Spec => RunningSwapLeftAlone
  <1>1. IInv => (boot = "deregistered" => Live = {})
    BY DEF IInv, SwapInv, OneLoop
  <1>2. IInv => [boot = "deregistered" /\ boot' = "ready" /\ Live # {}
                 => UNCHANGED <<coin, pc>>]_vars
    BY <1>1
  <1> QED
    BY <1>2, Invariance, PTL DEF Spec, RunningSwapLeftAlone

-------------------------------------------------------------------------------
(* The swap implements IdealSwap *)

LEMMA LoopKeepsBatch ==
  ASSUME NEW a \in Attempts, LoopNext(a) PROVE UNCHANGED batch
  <1>1. CASE TakesReply(a) \/ NoRequest
    BY <1>1 DEF TakesReply, NoRequest, serverVars
  <1>2. CASE \E to, K : Query(a, to, K)
    BY <1>2 DEF Query, serverVars
  <1>3. CASE Request(a)
    BY <1>3
    DEF Request, Query, Command, serverVars, RegisterUtxo, FirstMessage, SecondMessage,
                UpdateMsg
  <1>4. CASE PostTransferMsg4(a)
    BY <1>4 DEF PostTransferMsg4, Query, Command, serverVars, PostReceiver
  <1> QED
    BY <1>1, <1>2, <1>3, <1>4
    DEF LoopNext, Answered, StartLoop, StepThrows, CheckProofKeyDer, OnSwapRegisterUtxo,
        OnPollUtxoPhase0, OnPollUtxoPhase1, OnLoadSwapInfo, OnGetBSTData, OnPollSwapPhase2,
        OnGetBSS, OnDoSwapSecondMessage, OnPollSwapPhase3, OnTransferSender,
        OnTransferUpdateMsg, GetTransferMsg3Kept, OnGetTransferMsg3, MakeSwapCommitment,
        TransferReceiver, OnGetTransferMsg4, OnTransferReceiver, PollAfterError,
        OnPollAfterError, OnSwapPhase4PollSwap, OnTransferReceiverFinalize

\* Only the end of a batch transfer changes the owner.
LEMMA OwnerKept ==
  ASSUME [Next]_vars, ~(BatchEnds /\ UNCHANGED walletVars)
  PROVE  UNCHANGED batch
  <1>1. CASE ServerNext /\ UNCHANGED walletVars
    BY <1>1 DEF ServerNext, MatchSwap, PoolTimeout, AdvancePhase, SwapHalted, PeerSends
  <1>2. ASSUME NEW a \in Attempts, DoSwap(a) \/ LoopNext(a) PROVE UNCHANGED batch
    BY <1>2, LoopKeepsBatch DEF DoSwap, serverVars
  <1>3. CASE WalletNext
    BY <1>3
    DEF WalletNext, Leave, RemoveCoinFromSwapPool, Unload, Restart, DeRegisterSwaps,
                UpdateSwapStatus, DeregisterUtxo, serverVars
  <1>4. CASE UNCHANGED vars
    BY <1>4 DEF vars, serverVars
  <1> QED
    BY <1>1, <1>2, <1>3, <1>4 DEF Next

\* A coin that was received stays.
LEMMA OutKept ==
  ASSUME IInv, [Next]_vars, out # NoOut PROVE out' = out
  <1>1. Live = {} /\ disk.out = out
    BY DEF IInv, SwapInv, DiskInv, OneLoop
  <1>2. \A a \in Attempts : pc[a] \in {"new", "done"}
    BY <1>1 DEF Live
  <1>3. CASE ServerNext /\ UNCHANGED walletVars
    BY <1>3 DEF walletVars
  <1>4. ASSUME NEW a \in Attempts, DoSwap(a) PROVE out' = out
    BY <1>4 DEF DoSwap
  <1>5. ASSUME NEW a \in Attempts, LoopNext(a) PROVE FALSE
    BY <1>2, <1>5
    DEF LoopNext, Answered, StartLoop, StepThrows, Request, CheckProofKeyDer,
        OnSwapRegisterUtxo, OnPollUtxoPhase0, OnPollUtxoPhase1, OnLoadSwapInfo, OnGetBSTData,
        OnPollSwapPhase2, OnGetBSS, OnDoSwapSecondMessage, OnPollSwapPhase3, OnTransferSender,
        OnTransferUpdateMsg, GetTransferMsg3Kept, OnGetTransferMsg3, MakeSwapCommitment,
        TransferReceiver, OnGetTransferMsg4, PostTransferMsg4, OnTransferReceiver,
        PollAfterError, OnPollAfterError, OnSwapPhase4PollSwap, OnTransferReceiverFinalize
  <1>6. CASE WalletNext
    BY <1>1, <1>6 DEF WalletNext, Leave, RemoveCoinFromSwapPool, Unload, Restart,
                DeRegisterSwaps, UpdateSwapStatus
  <1>7. CASE UNCHANGED vars
    BY <1>7 DEF vars, walletVars
  <1> QED
    BY <1>3, <1>4, <1>5, <1>6, <1>7 DEF Next

\* What the wallet shows agrees with who owns what.
LEMMA HeldAgrees ==
  ASSUME IInv
  PROVE  /\ Held = "input" => ~Finalized
         /\ Held = "output" <=> out # NoOut
         /\ Held = "output" => Finalized
         /\ Held \in {"input", "pending", "output"}
  BY DEF IInv, SwapInv, DiskInv, CommitInv, CoinInv, Held

LEMMA StepKeepsPromise ==
  ASSUME IInv, IInv', [Next]_vars PROVE [Ideal!Next]_(Ideal!vars)
  <1>1. CASE BatchEnds /\ UNCHANGED walletVars
    <2>1. Held' = Held
      BY <1>1 DEF walletVars, Held
    <2>2. ~Finalized /\ (Finalized' => Held = "pending")
      <3>1. ~Finalized
        BY <1>1 DEF BatchEnds, BatchFinalize, BatchTimeout, IInv, SwapInv, ServerInv
      <3>2. Finalized' => Held' # "input"
        BY HeldAgrees, <1>1, <2>1
        DEF Held, IInv, SwapInv, CommitInv, CoinInv, walletVars
      <3> QED
        BY <2>1, <3>1, <3>2, HeldAgrees
    <2> QED
      BY <2>1, <2>2 DEF Ideal!Next, Ideal!Transfer, Ideal!vars, Owned
  <1>2. CASE ~(BatchEnds /\ UNCHANGED walletVars)
    <2>1. Finalized' = Finalized
      BY <1>2, OwnerKept DEF Finalized
    <2>2. Owned' = Owned
      BY <2>1 DEF Owned
    <2>3. /\ Held' = "input" => ~Finalized'
          /\ Held' = "output" => Finalized'
          /\ Held' \in {"input", "pending", "output"}
      BY DEF IInv, SwapInv, DiskInv, CommitInv, CoinInv, Held
    <2>4. Held = "output" => Held' = "output"
      BY OutKept, HeldAgrees DEF Held
    <2> QED
      BY <2>1, <2>2, <2>3, <2>4, HeldAgrees
      DEF Ideal!Next, Ideal!Enter, Ideal!GiveUp, Ideal!Settle, Ideal!vars, Owned
  <1> QED
    BY <1>1, <1>2

\* The swap of a careful wallet implements IdealSwap: the coin that the wallet
\* shows as spendable enters the swap, is given back or is replaced, and the
\* wallet settles only on the coin that the state entity says is its own.
THEOREM PromiseKept == ASSUME Careful PROVE Spec => KeepsPromise
  <1>1. Init => Ideal!Init
    BY DEF Init, ServerInit, SwapDataNull, Ideal!Init, Held, Owned, Finalized
  <1>2. IInv /\ IInv' /\ [Next]_vars => [Ideal!Next]_(Ideal!vars)
    BY StepKeepsPromise
  <1> QED
    BY <1>1, <1>2, Invariance, PTL DEF Spec, Ideal!Spec, KeepsPromise

-------------------------------------------------------------------------------
(* The key of the received coin, as long as no swap is resumed *)

NoneResumed == \A a \in Attempts : ~resumed[a]

\* The message and the share in c are those of attempt a, or not there yet.
Mine(c, a) == c.msg3 \in {NoKey, a} /\ c.finalized \in {NoKey, a}

\* A running loop that is not resumed works with its own keys only.
KeyInv ==
    /\ \A a \in Attempts : pc[a] = "new" => ~resumed[a]
    /\ NoneResumed =>
          /\ ReceivedCoinUsable
          /\ \A a \in Attempts : pc[a] \notin {"new", "done", "starting"} => Mine(coin, a)

\* A step of loop a that leaves the coin with its keys, or ends the loop.
KeepsKeys(a) == out' = out /\ (Mine(coin', a) \/ pc'[a] = "done")

\* A loop that ends with an error, and a step that only asks.
LEMMA EndKeys ==
  ASSUME TypeOK, NEW a \in Attempts, NEW c, NEW e, Throw(a, c, e)
  PROVE  KeepsKeys(a)
  BY DEF Throw, EndLoop, KeepsKeys, TypeOK

LEMMA SameKeys ==
  ASSUME NEW a \in Attempts, Mine(coin, a), UNCHANGED <<coin, out>>
  PROVE  KeepsKeys(a)
  BY DEF KeepsKeys

\* Every step of the table keeps the keys, but for the last.
LEMMA TableKeys ==
  ASSUME TypeOK, NEW a \in Attempts, Mine(coin, a), LoopNext(a), ~StartLoop(a),
         ~OnTransferReceiverFinalize(a)
  PROVE  KeepsKeys(a)
  <1>0. coin \in Coins
    BY DEF TypeOK
  <1>1. CASE StepThrows(a)
    BY <1>0, <1>1, EndKeys DEF StepThrows, StepOk, StepRetry, KeepsKeys, Mine, Coins
  <1>2. CASE CheckProofKeyDer(a)
    BY <1>0, <1>2, EndKeys DEF CheckProofKeyDer, StepOk, StepRetry, KeepsKeys, Mine, Coins
  <1>3. CASE OnSwapRegisterUtxo(a)
    BY <1>0, <1>3, EndKeys DEF OnSwapRegisterUtxo, StepOk, StepRetry, KeepsKeys, Mine, Coins
  <1>4. CASE OnPollUtxoPhase0(a)
    BY <1>0, <1>4, EndKeys DEF OnPollUtxoPhase0, StepOk, StepRetry, KeepsKeys, Mine, Coins
  <1>5. CASE OnPollUtxoPhase1(a)
    BY <1>0, <1>5, EndKeys DEF OnPollUtxoPhase1, StepOk, StepRetry, KeepsKeys, Mine, Coins
  <1>6. CASE OnLoadSwapInfo(a)
    BY <1>0, <1>6, EndKeys DEF OnLoadSwapInfo, StepOk, StepRetry, KeepsKeys, Mine, Coins
  <1>7. CASE OnGetBSTData(a)
    BY <1>0, <1>7, EndKeys DEF OnGetBSTData, StepOk, StepRetry, KeepsKeys, Mine, Coins
  <1>8. CASE OnPollSwapPhase2(a)
    BY <1>0, <1>8, EndKeys DEF OnPollSwapPhase2, StepOk, StepRetry, KeepsKeys, Mine, Coins
  <1>9. CASE OnGetBSS(a)
    BY <1>0, <1>9, EndKeys DEF OnGetBSS, StepOk, StepRetry, KeepsKeys, Mine, Coins
  <1>10. CASE OnDoSwapSecondMessage(a)
    BY <1>0, <1>10, EndKeys DEF OnDoSwapSecondMessage, StepOk, StepRetry, KeepsKeys, Mine, Coins
  <1>11. CASE OnPollSwapPhase3(a)
    BY <1>0, <1>11, EndKeys DEF OnPollSwapPhase3, StepOk, StepRetry, KeepsKeys, Mine, Coins
  <1>12. CASE OnTransferSender(a)
    BY <1>0, <1>12, EndKeys DEF OnTransferSender, StepOk, StepRetry, KeepsKeys, Mine, Coins
  <1>13. CASE OnTransferUpdateMsg(a)
    BY <1>0, <1>13, EndKeys DEF OnTransferUpdateMsg, StepOk, StepRetry, KeepsKeys, Mine, Coins
  <1>14. CASE GetTransferMsg3Kept(a)
    BY <1>0, <1>14, EndKeys DEF GetTransferMsg3Kept, StepOk, StepRetry, KeepsKeys, Mine, Coins
  <1>15. CASE OnGetTransferMsg3(a)
    BY <1>0, <1>15, EndKeys DEF OnGetTransferMsg3, StepOk, StepRetry, KeepsKeys, Mine, Coins
  <1>16. CASE MakeSwapCommitment(a)
    BY <1>0, <1>16, EndKeys DEF MakeSwapCommitment, StepOk, StepRetry, KeepsKeys, Mine, Coins
  <1>17. CASE OnGetTransferMsg4(a)
    BY <1>0, <1>17, EndKeys DEF OnGetTransferMsg4, StepOk, StepRetry, KeepsKeys, Mine, Coins
  <1>18. CASE OnTransferReceiver(a)
    BY <1>0, <1>18, EndKeys DEF OnTransferReceiver, StepOk, StepRetry, KeepsKeys, Mine, Coins
  <1>19. CASE OnPollAfterError(a)
    BY <1>0, <1>19, EndKeys DEF OnPollAfterError, StepOk, StepRetry, KeepsKeys, Mine, Coins
  <1>20. CASE OnSwapPhase4PollSwap(a)
    BY <1>0, <1>20, EndKeys DEF OnSwapPhase4PollSwap, StepOk, StepRetry, KeepsKeys, Mine, Coins
  <1>21. CASE Request(a) \/ PostTransferMsg4(a) \/ PollAfterError(a) \/ TransferReceiver(a)
    BY <1>21, SameKeys DEF Request, PostTransferMsg4, PollAfterError, TransferReceiver,
                           Query, Command, Ask, StepOk
  <1> QED
    BY <1>1, <1>2, <1>3, <1>4, <1>5, <1>6, <1>7, <1>8, <1>9, <1>10, <1>11,
       <1>12, <1>13, <1>14, <1>15, <1>16, <1>17, <1>18, <1>19, <1>20, <1>21
    DEF LoopNext

\* A step of loop a moves this loop only.
LEMMA LoopPlace ==
  ASSUME NEW a \in Attempts, LoopNext(a)
  PROVE  /\ UNCHANGED <<resumed, boot, restarts>> /\ pc[a] \notin {"new", "done"}
         /\ \E p \in PCs \ {"new"} : pc' = [pc EXCEPT ![a] = p]
  <1>1. UNCHANGED <<resumed, boot, restarts>>
    <2>1. CASE TakesReply(a) \/ NoRequest
      BY <2>1 DEF TakesReply, NoRequest, LoopFrame
    <2>2. CASE Request(a) \/ PostTransferMsg4(a) \/ PollAfterError(a) \/ TransferReceiver(a)
      BY <2>2 DEF Request, PostTransferMsg4, PollAfterError, TransferReceiver, Query, Command,
                  Ask, NoRequest, LoopFrame
    <2> QED
      BY <2>1, <2>2
      DEF LoopNext, Answered, StartLoop, StepThrows, CheckProofKeyDer, OnSwapRegisterUtxo,
          OnPollUtxoPhase0, OnPollUtxoPhase1, OnLoadSwapInfo, OnGetBSTData, OnPollSwapPhase2,
          OnGetBSS, OnDoSwapSecondMessage, OnPollSwapPhase3, OnTransferSender,
          OnTransferUpdateMsg, GetTransferMsg3Kept, OnGetTransferMsg3, MakeSwapCommitment,
          OnGetTransferMsg4, OnTransferReceiver, OnPollAfterError, OnSwapPhase4PollSwap,
          OnTransferReceiverFinalize
  <1>2. pc[a] \notin {"new", "done"}
    BY DEF LoopNext, Answered, StartLoop, StepThrows, Request, CheckProofKeyDer,
           OnSwapRegisterUtxo, OnPollUtxoPhase0, OnPollUtxoPhase1, OnLoadSwapInfo, OnGetBSTData,
           OnPollSwapPhase2, OnGetBSS, OnDoSwapSecondMessage, OnPollSwapPhase3,
           OnTransferSender, OnTransferUpdateMsg, GetTransferMsg3Kept, OnGetTransferMsg3,
           MakeSwapCommitment, TransferReceiver, OnGetTransferMsg4, PostTransferMsg4,
           OnTransferReceiver, PollAfterError, OnPollAfterError, OnSwapPhase4PollSwap,
           OnTransferReceiverFinalize
  <1>3. \E p \in PCs \ {"new"} : pc' = [pc EXCEPT ![a] = p]
    <2>1. CASE Request(a) \/ PostTransferMsg4(a) \/ PollAfterError(a) \/ TransferReceiver(a)
      BY <2>1 DEF Request, PostTransferMsg4, PollAfterError, TransferReceiver, Query, Command,
                  Ask, StepOk, PCs
    <2>2. CASE OnGetTransferMsg4(a) \/ OnTransferReceiver(a) \/ OnTransferReceiverFinalize(a)
      BY <2>2 DEF OnGetTransferMsg4, OnTransferReceiver, OnTransferReceiverFinalize, StepOk,
                  Throw, EndLoop, PCs
    <2>3. ASSUME NEW c, NEW e, StepOk(a, c) \/ StepRetry(a, c, e) \/ Throw(a, c, e)
          PROVE  \E p \in PCs \ {"new"} : pc' = [pc EXCEPT ![a] = p]
      BY <2>3 DEF StepOk, StepRetry, Throw, EndLoop, PCs
    <2>4. CASE StartLoop(a)
      BY <2>3, <2>4 DEF StartLoop, PCs
    <2>5. CASE StepThrows(a) \/ CheckProofKeyDer(a) \/ OnSwapRegisterUtxo(a)
               \/ OnPollUtxoPhase0(a) \/ OnPollUtxoPhase1(a) \/ OnLoadSwapInfo(a)
      BY <2>3, <2>5 DEF StepThrows, CheckProofKeyDer, OnSwapRegisterUtxo, OnPollUtxoPhase0,
                        OnPollUtxoPhase1, OnLoadSwapInfo
    <2>6. CASE OnGetBSTData(a) \/ OnPollSwapPhase2(a) \/ OnGetBSS(a)
               \/ OnDoSwapSecondMessage(a) \/ OnPollSwapPhase3(a) \/ OnTransferSender(a)
      BY <2>3, <2>6 DEF OnGetBSTData, OnPollSwapPhase2, OnGetBSS, OnDoSwapSecondMessage,
                        OnPollSwapPhase3, OnTransferSender
    <2>7. CASE OnTransferUpdateMsg(a) \/ GetTransferMsg3Kept(a) \/ OnGetTransferMsg3(a)
               \/ MakeSwapCommitment(a) \/ OnPollAfterError(a) \/ OnSwapPhase4PollSwap(a)
      BY <2>3, <2>7 DEF OnTransferUpdateMsg, GetTransferMsg3Kept, OnGetTransferMsg3,
                        MakeSwapCommitment, OnPollAfterError, OnSwapPhase4PollSwap
    <2> QED
      BY <2>1, <2>2, <2>4, <2>5, <2>6, <2>7 DEF LoopNext
  <1> QED
    BY <1>1, <1>2, <1>3

\* At the last step both keys are there, so they are the same; a loop that
\* starts afresh has a coin without keys.
LEMMA LoopKeys ==
  ASSUME IInv, Careful, KeyInv, NEW a \in Attempts, LoopNext(a) PROVE KeyInv'
  <1>1. /\ UNCHANGED resumed /\ pc[a] \notin {"new", "done"} /\ NoneResumed' = NoneResumed
        /\ TypeOK
    BY LoopPlace DEF NoneResumed, IInv
  <1>2. \A b \in Attempts \ {a} : pc[b] \in {"new", "done"} /\ pc'[b] = pc[b]
    BY <1>1, LoopPlace, OnlyLoop DEF TypeOK
  <1>3. pc'[a] # "new"
    BY <1>1, LoopPlace DEF TypeOK
  <1>4. \A b \in Attempts : pc'[b] = "new" => ~resumed'[b]
    BY <1>1, <1>2, <1>3 DEF KeyInv
  <1>5. ASSUME NoneResumed
        PROVE  ReceivedCoinUsable' /\ (pc'[a] \notin {"new", "done", "starting"} => Mine(coin', a))
    <2>0. ReceivedCoinUsable /\ (pc[a] # "starting" => Mine(coin, a))
      BY <1>1, <1>5 DEF KeyInv
    <2>1. CASE StartLoop(a)
      <3>1. UNCHANGED out
        BY <2>1 DEF StartLoop, Throw
      <3>2. \/ coin' = [SwapDataNull EXCEPT !.status = "AWAITING_SWAP", !.swap_status = "Init"]
            \/ pc'[a] = "done"
        BY <1>1, <1>5, <2>1 DEF StartLoop, Throw, EndLoop, NoneResumed, TypeOK
      <3>3. Mine(coin', a) \/ pc'[a] = "done"
        BY <3>2 DEF Mine, SwapDataNull
      <3> QED
        BY <2>0, <3>1, <3>3 DEF ReceivedCoinUsable
    <2>2. CASE OnTransferReceiverFinalize(a)
      <3>1. pc[a] = "wait" /\ step[a] = 16
        BY <2>2 DEF OnTransferReceiverFinalize, Answered
      <3>2. StepInv(16, coin) /\ CoinInv(coin)
        BY <3>1 DEF IInv, SwapInv, LoopInv
      <3>3. coin.msg3 = a /\ coin.finalized = a
        BY <2>0, <3>1, <3>2 DEF StepInv, CoinInv, Mine
      <3>4. CASE UNCHANGED <<coin, out>>
        BY <2>0, <3>1, <3>4 DEF ReceivedCoinUsable
      <3>5. CASE /\ out' = [proof_key |-> coin.msg3, o2 |-> coin.finalized] /\ EndLoop(a)
        BY <1>1, <3>3, <3>5 DEF EndLoop, ReceivedCoinUsable, TypeOK
      <3> QED
        BY <2>2, <3>4, <3>5 DEF OnTransferReceiverFinalize, SaveThrows, Careful
    <2>3. CASE ~StartLoop(a) /\ ~OnTransferReceiverFinalize(a)
      <3>1. Mine(coin, a)
        <4>1. pc[a] # "starting"
          BY <1>1, <2>3
          DEF LoopNext, Answered, StepThrows, Request, CheckProofKeyDer,
              OnSwapRegisterUtxo, OnPollUtxoPhase0, OnPollUtxoPhase1, OnLoadSwapInfo,
              OnGetBSTData, OnPollSwapPhase2, OnGetBSS, OnDoSwapSecondMessage,
              OnPollSwapPhase3, OnTransferSender, OnTransferUpdateMsg, GetTransferMsg3Kept,
              OnGetTransferMsg3, MakeSwapCommitment, TransferReceiver, OnGetTransferMsg4,
              PostTransferMsg4, OnTransferReceiver, PollAfterError, OnPollAfterError,
              OnSwapPhase4PollSwap
        <4> QED
          BY <2>0, <4>1
      <3>2. KeepsKeys(a)
        BY <1>1, <2>3, <3>1, TableKeys
      <3> QED
        BY <2>0, <3>2 DEF KeepsKeys, ReceivedCoinUsable
    <2> QED
      BY <2>1, <2>2, <2>3
  <1> QED
    BY <1>1, <1>2, <1>4, <1>5 DEF KeyInv

\* The wallet's own operations reach the coin when no loop runs on it, or while
\* it waits in the pool, when it has no keys.
LEMMA NextKeys ==
  ASSUME IInv, Careful, KeyInv, [Next]_vars PROVE KeyInv'
  <1>0. TypeOK /\ OneLoop /\ DiskInv
    BY DEF IInv, SwapInv
  <1>1. CASE ServerNext /\ UNCHANGED walletVars
    BY <1>1 DEF walletVars, KeyInv, NoneResumed, ReceivedCoinUsable
  <1>2. ASSUME NEW a \in Attempts, DoSwap(a) PROVE KeyInv'
    <2>1. \A b \in Attempts : pc'[b] # pc[b] => pc'[b] = "starting"
      BY <1>0, <1>2 DEF DoSwap, TypeOK
    <2>2. \A b \in Attempts : resumed'[b] = resumed[b] \/ (b = a /\ pc'[b] = "starting")
      BY <1>0, <1>2 DEF DoSwap, TypeOK
    <2>3. NoneResumed' => NoneResumed
      BY <1>2, <2>2 DEF NoneResumed, KeyInv, DoSwap
    <2> QED
      BY <1>2, <2>1, <2>2, <2>3 DEF KeyInv, DoSwap, ReceivedCoinUsable
  <1>3. ASSUME NEW a \in Attempts, LoopNext(a) PROVE KeyInv'
    BY <1>3, LoopKeys
  <1>4. CASE Leave
    BY <1>4 DEF Leave, KeyInv, NoneResumed, ReceivedCoinUsable
  <1>5. CASE RemoveCoinFromSwapPool
    <2>1. \A a : Mine(coin, a) => Mine(coin', a)
      BY <1>5 DEF RemoveCoinFromSwapPool, Mine, SwapDataNull
    <2>2. UNCHANGED <<out, pc, resumed>>
      BY <1>5 DEF RemoveCoinFromSwapPool
    <2> QED
      BY <2>1, <2>2 DEF KeyInv, NoneResumed, ReceivedCoinUsable
  <1>6. CASE Unload
    BY <1>6 DEF Unload, KeyInv, NoneResumed, ReceivedCoinUsable
  <1>7. CASE Restart
    <2>1. UNCHANGED <<out, resumed>>
      BY <1>0, <1>7 DEF Restart, DiskInv
    <2>2. \A a \in Attempts : pc'[a] = "done" \/ (pc'[a] = "new" /\ pc[a] = "new")
      BY <1>7 DEF Restart
    <2> QED
      BY <2>1, <2>2 DEF KeyInv, NoneResumed, ReceivedCoinUsable
  <1>8. CASE DeRegisterSwaps
    <2>1. UNCHANGED <<out, pc, resumed>>
      BY <1>8 DEF DeRegisterSwaps
    <2>2. \A a \in Attempts : pc[a] \in {"new", "done"}
      BY <1>0, <1>8 DEF DeRegisterSwaps, OneLoop, Live
    <2> QED
      BY <2>1, <2>2 DEF KeyInv, NoneResumed, ReceivedCoinUsable
  <1>9. CASE UpdateSwapStatus
    <2>1. \A a \in Attempts : pc[a] \in {"new", "done"}
      BY <1>0, <1>9 DEF UpdateSwapStatus, OneLoop, Live
    <2>2. UNCHANGED out
      BY <1>9 DEF UpdateSwapStatus
    <2>3. CASE UNCHANGED <<pc, resumed>>
      BY <2>1, <2>2, <2>3 DEF KeyInv, NoneResumed, ReceivedCoinUsable
    <2>4. ASSUME NEW a \in Attempts, pc' = [pc EXCEPT ![a] = "starting"],
                 resumed' = [resumed EXCEPT ![a] = TRUE]
          PROVE  KeyInv'
      <3>1. resumed'[a] /\ \A b \in Attempts : pc'[b] = "new" => ~resumed'[b]
        BY <1>0, <2>4 DEF TypeOK, KeyInv
      <3> QED
        BY <3>1 DEF KeyInv, NoneResumed
    <2> QED
      BY <1>9, <2>3, <2>4 DEF UpdateSwapStatus
  <1>10. CASE UNCHANGED vars
    BY <1>10 DEF vars, walletVars, KeyInv, NoneResumed, ReceivedCoinUsable
  <1> QED
    BY <1>1, <1>2, <1>3, <1>4, <1>5, <1>6, <1>7, <1>8, <1>9, <1>10 DEF Next, WalletNext

LEMMA InitKeys == Init => KeyInv
  BY DEF Init, KeyInv, ReceivedCoinUsable, NoOut

\* As long as no swap was resumed from the file, over any number of restarts
\* and swaps, the share o2 of the received coin is made from the key that msg3 is
\* made out to (transferReceiver and transferReceiverFinalize of transfer.ts).
THEOREM UsableUnlessResumed ==
  ASSUME Careful PROVE Spec => [](NoneResumed => ReceivedCoinUsable)
  <1>1. Init => KeyInv
    BY InitKeys
  <1>2. IInv /\ KeyInv /\ [Next]_vars => KeyInv'
    BY NextKeys
  <1>3. KeyInv => (NoneResumed => ReceivedCoinUsable)
    BY DEF KeyInv
  <1> QED
    BY <1>1, <1>2, <1>3, Invariance, PTL DEF Spec

\* Only a restart leaves a coin in phase 4 to a wallet that is loading.
FreshInv == restarts = 0 /\ NoneResumed /\ (boot # "ready" => coin.swap_status # "Phase4")

LEMMA NextFresh ==
  ASSUME IInv, Careful, MaxRestarts = 0, FreshInv, [Next]_vars PROVE FreshInv'
  <1>0. TypeOK /\ OneLoop /\ CoinInv(coin)
    BY DEF IInv, SwapInv
  <1>1. CASE ServerNext /\ UNCHANGED walletVars
    BY <1>1 DEF walletVars, FreshInv, NoneResumed
  <1>2. ASSUME NEW a \in Attempts, DoSwap(a) PROVE FreshInv'
    <2>1. coin.swap_status # "Phase4" /\ UNCHANGED <<coin, boot, restarts>>
      BY <1>0, <1>2 DEF DoSwap, CoinInv
    <2>2. resumed' = [resumed EXCEPT ![a] = FALSE]
      BY <1>2, <2>1 DEF DoSwap
    <2>3. NoneResumed'
      BY <1>0, <2>2 DEF TypeOK, FreshInv, NoneResumed
    <2> QED
      BY <2>1, <2>3 DEF FreshInv
  <1>3. ASSUME NEW a \in Attempts, LoopNext(a) PROVE FreshInv'
    <2>1. UNCHANGED <<resumed, boot, restarts>> /\ boot = "ready"
      BY <1>3, LoopPlace, OnlyLoop
    <2> QED
      BY <2>1 DEF FreshInv, NoneResumed
  <1>4. CASE Leave \/ Unload
    BY <1>4 DEF Leave, Unload, FreshInv, NoneResumed
  <1>5. CASE RemoveCoinFromSwapPool \/ DeRegisterSwaps
    BY <1>5 DEF RemoveCoinFromSwapPool, DeRegisterSwaps, FreshInv, NoneResumed, SwapDataNull
  <1>6. CASE Restart
    BY <1>6 DEF Restart, FreshInv
  <1>7. CASE UpdateSwapStatus
    BY <1>7 DEF UpdateSwapStatus, FreshInv, NoneResumed
  <1>8. CASE UNCHANGED vars
    BY <1>8 DEF vars, walletVars, FreshInv, NoneResumed
  <1> QED
    BY <1>1, <1>2, <1>3, <1>4, <1>5, <1>6, <1>7, <1>8 DEF Next, WalletNext

\* A wallet that is not restarted never resumes a swap, so the coin it receives
\* can be signed for.
THEOREM UsableWithoutRestart ==
  ASSUME Careful, MaxRestarts = 0 PROVE Spec => []ReceivedCoinUsable
  <1>1. Init => FreshInv
    BY DEF Init, FreshInv, NoneResumed, SwapDataNull
  <1>2. IInv /\ FreshInv /\ [Next]_vars => FreshInv'
    BY NextFresh
  <1>3. FreshInv => NoneResumed
    BY DEF FreshInv
  <1> QED
    BY <1>1, <1>2, <1>3, Invariance, UsableUnlessResumed, PTL DEF Spec

\* The wallet never shows its user, as spendable, a coin that is not the user's
\* on the state entity: every swap that keeps the promise of IdealSwap has this.
THEOREM ShownIsOwned == Ideal!Spec => [](Ideal!TypeOK /\ Ideal!HeldIsOwned)
  <1>1. Ideal!Init => Ideal!TypeOK /\ Ideal!HeldIsOwned
    BY DEF Ideal!Init, Ideal!TypeOK, Ideal!HeldIsOwned
  <1>2. Ideal!TypeOK /\ Ideal!HeldIsOwned /\ [Ideal!Next]_(Ideal!vars)
           => (Ideal!TypeOK /\ Ideal!HeldIsOwned)'
    <2> SUFFICES ASSUME Ideal!TypeOK, Ideal!HeldIsOwned, [Ideal!Next]_(Ideal!vars)
                 PROVE  (Ideal!TypeOK /\ Ideal!HeldIsOwned)'
      OBVIOUS
    <2> USE DEF Ideal!TypeOK, Ideal!HeldIsOwned
    <2>1. CASE Ideal!Enter
      BY <2>1 DEF Ideal!Enter
    <2>2. CASE Ideal!GiveUp
      BY <2>2 DEF Ideal!GiveUp
    <2>3. CASE Ideal!Transfer
      BY <2>3 DEF Ideal!Transfer
    <2>4. CASE Ideal!Settle
      BY <2>4 DEF Ideal!Settle
    <2>5. CASE UNCHANGED Ideal!vars
      BY <2>5 DEF Ideal!vars
    <2> QED
      BY <2>1, <2>2, <2>3, <2>4, <2>5 DEF Ideal!Next
  <1> QED
    BY <1>1, <1>2, PTL DEF Ideal!Spec
=============================================================================
