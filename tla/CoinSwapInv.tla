----------------------------- MODULE CoinSwapInv ------------------------------
(***************************************************************************)
(* The inductive invariant of CoinSwap under a careful user.  The safety   *)
(* properties of CoinSwap follow from it (module CoinSwap_proofs); TLC     *)
(* checks it on the small instance first.                                  *)
(***************************************************************************)
EXTENDS CoinSwap

\* A wallet whose user waits for the loading and for an older loop to end, and
\* whose saves of msg4 and of the received coin do not fail.
Careful == ~Hasty /\ "msg4" \notin SaveFails /\ "out" \notin SaveFails

\* The server's side: one swap at a time, and none after the transfer.
ServerInv ==
    /\ sid # 0 => sid <= lastSid /\ batch[sid] = "open" /\ ~pool
    /\ \A i \in SwapIds : i > lastSid => batch[i] = "open"
    /\ Finalized => sid = 0 /\ ~pool

\* A coin object in phase 4, in memory or on disk, has what the last steps need.
CoinInv(c) ==
    /\ c.swap_status = "Phase4" =>
          /\ c.status = "IN_SWAP" /\ c.swap_id # 0
          /\ c.swap_info /\ c.batch_data /\ c.msg3 # NoKey
    /\ c.msg4 # NoKey => c.swap_status = "Phase4"

\* At most one loop runs on the coin, and none while the wallet is loading.
OneLoop ==
    /\ \A a, b \in Attempts : a \in Live /\ b \in Live => a = b
    /\ boot # "ready" => Live = {}
    /\ coin.status = "SWAPPED" => Live = {}

\* What coin c holds when its loop is about to start, r being the resume flag.
StartInv(r, c) ==
    IF r THEN c.swap_status = "Phase4"
    ELSE c.status = "AVAILABLE" /\ c.swap_status # "Phase4"

\* What coin c holds when its loop has come to step n.
StepInv(n, c) ==
    /\ n <= 12 => c.swap_status # "Phase4"
    /\ n >= 14 => c.swap_status = "Phase4"
    /\ n >= 3 => c.status = "IN_SWAP" /\ c.swap_id # 0
    /\ n >= 5 => c.swap_info
    /\ n >= 13 => c.msg3 # NoKey
    /\ n \in {15, 16} => c.finalized # NoKey

\* Where in step n the loop can be, and what that says of msg4.
PlaceInv(p, n, c) ==
    /\ p = "wait" => n \notin {0, 13, 14}
    /\ p \in {"msg4", "post", "posted"} => n = 14
    /\ p \in {"poll", "polled"} => n \in {14, 16}
    /\ p = "msg4" => c.msg4 = NoKey
    /\ p \in {"post", "posted"} => c.msg4 # NoKey

LoopInv(a) ==
    /\ pc[a] = "starting" => StartInv(resumed[a], coin)
    /\ pc[a] \notin {"new", "done", "starting"} =>
          StepInv(step[a], coin) /\ PlaceInv(pc[a], step[a], coin)

\* What an answer on its way to the wallet says is still so.
ReplyInv(a) ==
    /\ pc[a] = "wait" /\ step[a] \in {2, 3} /\ reply[a].kind = "id" => reply[a].id # 0
    /\ pc[a] = "wait" /\ step[a] = 16 /\ reply[a].kind = "ok"
          => batch[coin.swap_id] = "finalized"
    /\ pc[a] = "polled" /\ reply[a].kind = "timeout"
          => batch[coin.swap_id] = "timeout"

\* msg4 is on disk before anything depends on it, and so is the received coin.
DiskInv ==
    /\ coin.msg4 # NoKey => disk.coin.msg4 # NoKey /\ disk.coin.swap_id = coin.swap_id
    /\ coin.status = "SWAPPED" <=> disk.coin.status = "SWAPPED"
    /\ coin.status = "SWAPPED" <=> out # NoOut
    /\ disk.out = out
    /\ coin.status = "SWAPPED" => Finalized

\* From the post of msg4 on the coin is in phase 4 with its msg4.
CommitInv ==
    /\ sid # 0 /\ recvd => coin.msg4 # NoKey /\ coin.swap_id = sid
    /\ Finalized => \/ coin.status = "SWAPPED"
                    \/ coin.msg4 # NoKey /\ batch[coin.swap_id] = "finalized"

SwapInv ==
    /\ ServerInv /\ CoinInv(coin) /\ CoinInv(disk.coin) /\ OneLoop
    /\ \A a \in Attempts : LoopInv(a) /\ ReplyInv(a)
    /\ DiskInv /\ CommitInv

IInv == TypeOK /\ SwapInv
===============================================================================
