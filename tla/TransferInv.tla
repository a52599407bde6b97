---------------------------- MODULE TransferInv ----------------------------
(***************************************************************************)
(* The inductive invariant behind the safety properties of Transfer.       *)
(***************************************************************************)
EXTENDS Transfer

\* A message for the n-th owner was handed out.
HandedOut(k) == \E m \in given : m.key = k
Signed(w, k) == sending[w].at = "signed" /\ sending[w].key = k
Mine(w, k) == k =< Owned /\ Home[chain[k]] = w

\* What a wallet holds, receives or sends is a coin of its own.
MineInv ==
  \A w \in Wallet :
    /\ \A k \in Key : coin[w][k] # "none" => Mine(w, k)
    /\ receiving[w] # 0 => Mine(w, receiving[w])
    /\ sending[w].at # "idle" => coin[w][sending[w].key] # "none"

\* The state entity and the mailbox know the present transfer only.
MessageInv ==
  /\ \A m \in pending : m.key = Owned
  /\ mailbox \subseteq given
  /\ \A m \in given : m.key =< Owned
  /\ \A m \in mailbox : /\ \A g \in given \cup pending : g.key =< m.key
                        /\ \A w \in Wallet : sending[w].at \in {"posted", "signed"}
                                                => sending[w].key =< m.key

\* Memory and disk have the same coins, and a coin is marked only when it has
\* another owner.
CoinInv ==
  \A w \in Wallet, k \in Key :
    /\ coin[w][k] = "none" <=> disk[w][k] = "none"
    /\ coin[w][k] = "IN_TRANSFER" \/ disk[w][k] = "IN_TRANSFER" => k < Owned

\* A wallet that has not lost track of a send: coins that are AVAILABLE, in memory
\* or on disk, coins that are SENDING, and the coin it is receiving.
TrackInv ==
  \A w \in Wallet \ torn, k \in Key :
    /\ coin[w][k] = "AVAILABLE" => k \in timer[w] \/ (k = Owned /\ ~HandedOut(k) /\ ~Signed(w, k))
    /\ disk[w][k] = "AVAILABLE" => \/ coin[w][k] = "AVAILABLE" /\ k \in timer[w]
                                   \/ Signed(w, k)
                                   \/ k = Owned /\ ~HandedOut(k)
    /\ coin[w][k] = "SENDING" \/ disk[w][k] = "SENDING" => HandedOut(k) \/ Signed(w, k)
    /\ receiving[w] = k => /\ k = Owned /\ coin[w][k] = "none"
                           /\ \A m \in given \cup pending : m.key # k
    /\ k = Owned /\ coin[w][k] = "none" /\ Home[chain[k]] = w
         => \A m \in given \cup pending : m.key # k

IInv == TypeOK /\ MineInv /\ MessageInv /\ CoinInv /\ TrackInv
============================================================================
