------------------------------ MODULE SwapServer ------------------------------
(***************************************************************************)
(* The swap conductor and the state entity, as one wallet sees them        *)
(* through src/wallet/swap/info_api.ts, src/wallet/mercury/info_api.ts and *)
(* the error messages that src/wallet/swap/swap.ts tells apart.  Neither   *)
(* server is part of this repository: every definition here is external.   *)
(*                                                                         *)
(* The server is seen from one statecoin.  The other participants of a     *)
(* swap are the conductor's own steps: they send their messages, complete  *)
(* the batch, or fail to.                                                  *)
(***************************************************************************)
EXTENDS Naturals

CONSTANTS
    Attempts,   \* attempts to swap the coin; each one has its own new proof key
    NoKey,      \* no proof key
    MaxSwaps    \* bound on the swaps the conductor puts the coin in

ASSUME NoKeyAssumption == NoKey \notin Attempts
ASSUME MaxSwapsAssumption == MaxSwaps \in Nat \ {0}

VARIABLES
    pool,       \* the coin is registered and waits for a group
    sid,        \* the running swap the coin is in, 0 when there is none
    lastSid,    \* the last swap id handed out
    phase,      \* conductor phase 1..4 of the running swap
    addr,       \* SCE address (proof key) received with the first message
    second,     \* the second message was received: the token is spent
    updated,    \* the coin's own transfer message was handed in
    incoming,   \* a peer handed in a transfer message for addr
    recvd,      \* transfer_receiver was posted for the incoming coin
    batch       \* outcome of the batch transfer of each swap

serverVars ==
    <<pool, sid, lastSid, phase, addr, second, updated, incoming, recvd, batch>>

SwapIds == 1 .. MaxSwaps
Keys == Attempts \cup {NoKey}
BatchStates == {"open", "finalized", "timeout"}

ServerTypeOK ==
    /\ pool \in BOOLEAN
    /\ sid \in 0 .. MaxSwaps
    /\ lastSid \in 0 .. MaxSwaps
    /\ phase \in 0 .. 4
    /\ addr \in Keys
    /\ second \in BOOLEAN
    /\ updated \in BOOLEAN
    /\ incoming \in BOOLEAN
    /\ recvd \in BOOLEAN
    /\ batch \in [SwapIds -> BatchStates]

ServerInit ==
    /\ pool = FALSE
    /\ sid = 0
    /\ lastSid = 0
    /\ phase = 0
    /\ addr = NoKey
    /\ second = FALSE
    /\ updated = FALSE
    /\ incoming = FALSE
    /\ recvd = FALSE
    /\ batch = [i \in SwapIds |-> "open"]

\* The input coin's statechain belongs to its next owner from here on.
Finalized == \E i \in SwapIds : batch[i] = "finalized"

Running(id) == id # 0 /\ id = sid

-------------------------------------------------------------------------------
(* Requests that only read.  Each is the set of answers the server may give. *)

PollUtxoReply ==
    {IF sid # 0 THEN "id" ELSE IF pool THEN "null" ELSE "gone"}

\* A swap that is over is answered with null or with a database error.
PollSwapReply(id) ==
    IF Running(id)
    THEN {CASE phase = 1 -> "Phase1" [] phase = 2 -> "Phase2"
            [] phase = 3 -> "Phase3" [] OTHER -> "Phase4"}
    ELSE {"null", "nodata"}

SwapInfoReply(id) == IF Running(id) THEN {"ok", "null"} ELSE {"null"}

BSSReply(id) == IF Running(id) /\ phase = 2 THEN {"ok"} ELSE {}

SenderReply(id) == IF Running(id) /\ phase = 4 THEN {"ok"} ELSE {}

Msg3Reply(key) == IF incoming /\ key = addr THEN {"one", "many"} ELSE {"none"}

\* pollSwap, then the batch status if the swap is over.
BatchReply(id) == {IF batch[id] = "timeout" THEN "timeout" ELSE "open"}

KeygenReply(id) == IF batch[id] = "finalized" THEN {"ok"} ELSE {}

-------------------------------------------------------------------------------
(* Requests that change the server. *)

RegisterUtxo ==
    /\ sid = 0
    /\ ~Finalized
    /\ pool' = TRUE
    /\ UNCHANGED <<sid, lastSid, phase, addr, second, updated, incoming, recvd, batch>>

DeregisterUtxo ==
    /\ sid = 0
    /\ pool' = FALSE
    /\ UNCHANGED <<sid, lastSid, phase, addr, second, updated, incoming, recvd, batch>>

FirstMessage(id, key) ==
    /\ Running(id) /\ phase = 1
    /\ addr' = key
    /\ UNCHANGED <<pool, sid, lastSid, phase, second, updated, incoming, recvd, batch>>

SecondMessage(id) ==
    /\ Running(id) /\ (phase = 2 \/ second)
    /\ second' = TRUE
    /\ UNCHANGED <<pool, sid, lastSid, phase, addr, updated, incoming, recvd, batch>>

UpdateMsg(id) ==
    /\ Running(id) /\ phase = 4
    /\ updated' = TRUE
    /\ UNCHANGED <<pool, sid, lastSid, phase, addr, second, incoming, recvd, batch>>

PostReceiver(id) ==
    /\ Running(id) /\ phase = 4 /\ incoming
    /\ recvd' = TRUE
    /\ UNCHANGED <<pool, sid, lastSid, phase, addr, second, updated, incoming, batch>>

-------------------------------------------------------------------------------
(* The conductor's own steps. *)

MatchSwap ==
    /\ pool /\ sid = 0 /\ lastSid < MaxSwaps
    /\ pool' = FALSE
    /\ sid' = lastSid + 1
    /\ lastSid' = lastSid + 1
    /\ phase' = 1
    /\ addr' = NoKey
    /\ second' = FALSE
    /\ updated' = FALSE
    /\ incoming' = FALSE
    /\ recvd' = FALSE
    /\ UNCHANGED batch

PoolTimeout ==
    /\ pool /\ sid = 0
    /\ pool' = FALSE
    /\ UNCHANGED <<sid, lastSid, phase, addr, second, updated, incoming, recvd, batch>>

AdvancePhase ==
    /\ sid # 0 /\ phase < 4
    /\ phase = 1 => addr # NoKey
    /\ phase = 2 => second
    /\ phase' = phase + 1
    /\ UNCHANGED <<pool, sid, lastSid, addr, second, updated, incoming, recvd, batch>>

\* The running swap is over; messages already handed in stay readable.
SwapEnds ==
    /\ sid' = 0
    /\ phase' = 0
    /\ second' = FALSE
    /\ updated' = FALSE
    /\ recvd' = FALSE
    /\ UNCHANGED <<pool, lastSid, addr, incoming>>

\* A participant is late in phases 1 to 3 and the conductor drops the swap.
SwapHalted ==
    /\ sid # 0 /\ phase < 4
    /\ SwapEnds
    /\ UNCHANGED batch

PeerSends ==
    /\ sid # 0 /\ phase = 4 /\ ~incoming
    /\ incoming' = TRUE
    /\ UNCHANGED <<pool, sid, lastSid, phase, addr, second, updated, recvd, batch>>

\* Every receiver of the batch posted, this wallet for the coin it receives
\* and the peer for the coin it gave: the whole batch changes hands at once.
BatchFinalize ==
    /\ sid # 0 /\ phase = 4 /\ updated /\ recvd
    /\ batch' = [batch EXCEPT ![sid] = "finalized"]
    /\ SwapEnds

BatchTimeout ==
    /\ sid # 0 /\ phase = 4
    /\ batch' = [batch EXCEPT ![sid] = "timeout"]
    /\ SwapEnds

BatchEnds == BatchFinalize \/ BatchTimeout

ServerNext ==
    \/ MatchSwap \/ PoolTimeout \/ AdvancePhase \/ SwapHalted \/ PeerSends
    \/ BatchEnds
===============================================================================
