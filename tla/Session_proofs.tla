--------------------------- MODULE Session_proofs ---------------------------
(***************************************************************************)
(* Proofs about Session, for any number of coins, wallet objects, loads,   *)
(* restarts and failing writes: the types, that no coin is lost from the   *)
(* wallet file, that a load gives back what was saved, and that a stop can *)
(* get its permits.                                                        *)
(***************************************************************************)
EXTENDS Session, FiniteSetTheorems, TLAPS

(* What a load makes of a file, coin by coin. *)
Loaded(f, c) == IF f.list[c] = "SWAPPED" THEN "NONE"
                ELSE IF f.list[c] # "NONE" THEN f.list[c] ELSE f.obj[c]

(* Coins whose first save reached the file are among its coins or among    *)
(* the ids of swapped ones, and a coin about to be saved is in the list.   *)
KeptInv ==
    /\ kept \subseteq In(file.obj) \union file.ids
    /\ \A s \in SessionId, c \in Coin : save[s][c] = "coin" => list[s][c] # "NONE"

(* What memory and file have to do with each other while one session alone *)
(* writes the file: a coin removed is not among the file's coins, and one  *)
(* that is not being saved, and whose heir is not, is loaded as it is.     *)
Agrees(f, s, c) ==
    \/ list[s][c] = "SWAPPED" /\ Loaded(f, c) = "NONE"
                              /\ c \in f.ids \union SwappedIn(f.list)
    \/ ResetStatus(Loaded(f, c)) = ResetStatus(list[s][c])

TidyInv ==
    \A s \in tidy, c \in Coin :
        /\ save[s][c] # "failed"
        /\ save[s][c] \in {"none", "list"} /\ list[s][c] = "NONE" => file.obj[c] = "NONE"
        /\ save[s][c] = "none" /\ save[s][heir[c]] = "none" => Agrees(file, s, c)

Inv == TypeOK /\ KeptInv /\ TidyInv

-----------------------------------------------------------------------------
(***************************************************************************)
(* The operators on the file.                                              *)
(***************************************************************************)
(* The write of one coin: a swapped one leaves only its id. *)
LEMMA StoreCoin ==
    ASSUME NEW f \in File, NEW c \in Coin, NEW v \in Status
    PROVE  LET g == StoreWalletStateCoin(f, c, v) IN
           /\ g \in File /\ g.list = f.list
           /\ v = "SWAPPED" => g.ids = f.ids \union {c} /\ g.obj[c] = "NONE"
           /\ v # "SWAPPED" => g.ids = f.ids /\ g.obj[c] = v
           /\ \A d \in Coin \ {c} : g.obj[d] = f.obj[d]
  BY DEF File, Coins, StoreWalletStateCoin, Status

(* The merge of a list into the file keeps coins the list does not have. *)
LEMMA StoreArray ==
    ASSUME NEW f \in File, NEW l \in Coins
    PROVE  LET g == StoreWalletStateCoinsArray(f, l) IN
           /\ g \in File /\ g.list = f.list
           /\ g.ids = f.ids \union SwappedIn(l)
           /\ \A c \in Coin : g.obj[c] = IF l[c] = "SWAPPED" THEN "NONE"
                                         ELSE IF l[c] # "NONE" THEN l[c] ELSE f.obj[c]
  BY DEF File, Coins, StoreWalletStateCoinsArray, SwappedIn, In, Status

(* The removal of a coin, and the write of the whole list. *)
LEMMA Deleted ==
    ASSUME NEW f \in File, NEW c \in Coin
    PROVE  LET g == DeleteWalletStateCoin(f, c) IN
           /\ g \in File /\ g.list = f.list /\ g.ids = f.ids
           /\ \A d \in Coin : g.obj[d] = IF d = c THEN "NONE" ELSE f.obj[d]
  BY DEF File, Coins, DeleteWalletStateCoin, Status

LEMMA KeySaved ==
    ASSUME NEW f \in File, NEW l \in Coins
    PROVE  LET g == SaveKey(f, l) IN
           g \in File /\ g.list = l /\ g.ids = f.ids /\ g.obj = f.obj
  BY DEF File, SaveKey

(* A load gives every coin the status Loaded names. *)
LEMMA Quick ==
    ASSUME NEW f \in File
    PROVE  LET g == LoadStatecoinsQuick(f) IN
           /\ g \in File /\ g.list = f.list
           /\ g.ids = f.ids \union SwappedIn(f.list)
           /\ \A c \in Coin : g.obj[c] = Loaded(f, c)
<1>1. CASE In(f.list) = {}
  <2>1. \A c \in Coin : f.list[c] = "NONE"
    BY <1>1 DEF In
  <2>2. SwappedIn(f.list) = {}
    BY <2>1 DEF SwappedIn
  <2> QED  BY <1>1, <2>1, <2>2 DEF LoadStatecoinsQuick, Loaded
<1>2. CASE In(f.list) # {}
  <2>1. f.list \in Coins
    BY DEF File
  <2> QED  BY <1>2, <2>1, StoreArray DEF LoadStatecoinsQuick, Loaded
<1> QED  BY <1>1, <1>2

-----------------------------------------------------------------------------
(***************************************************************************)
(* The types.                                                              *)
(***************************************************************************)
LEMMA InitInv == Init => Inv
<1> SUFFICES ASSUME Init PROVE Inv
  OBVIOUS
<1>1. file \in File /\ file.obj = NewDeposits /\ file.list = NewDeposits /\ file.ids = {}
  BY SessionAssumption DEF Init, File, Coins, NewDeposits, Status
<1>2. TypeOK
  BY <1>1, SessionAssumption DEF Init, TypeOK, Coins, NoCoins, Status
<1>3. KeptInv
  BY <1>1, SessionAssumption DEF Init, KeptInv, In, NewDeposits
<1>4. TidyInv
  BY DEF Init, TidyInv
<1> QED  BY <1>2, <1>3, <1>4 DEF Inv


(* A change of a coin with the save it starts. *)
LEMMA SaveCoinType ==
    ASSUME TypeOK, NEW s \in SessionId, NEW c \in Coin, NEW v \in Status, SaveCoin(s, c, v)
    PROVE  /\ list' \in [SessionId -> Coins]
           /\ save' \in [SessionId -> [Coin -> {"none", "coin", "list", "remove",
                                               "delete", "failed"}]]
  BY DEF TypeOK, SaveCoin, Coins

(* A loop that goes to a place goes to one of its places. *)
LEMMA GotoType ==
    ASSUME TypeOK, NEW s \in SessionId, NEW c \in Coin,
           NEW p \in {"none", "queue", "check", "step", "received", "again", "spent", "release"},
           Goto(s, c, p)
    PROVE  loop' \in [SessionId -> [Coin -> {"none", "queue", "check", "step",
                                            "received", "again", "spent", "release"}]]
  BY DEF TypeOK, Goto

(* The writes of a save keep the types ... *)
LEMMA SaveType ==
    ASSUME TypeOK, NEW s \in SessionId, NEW c \in Coin, SaveNext(s, c) \/ SaveThrows(s, c)
    PROVE  TypeOK'
<1>1. list[s] \in Coins /\ list[s][c] \in Status /\ file \in File
  BY DEF TypeOK, Coins
<1>2. CASE SaveStateCoin(s, c)
  <2>1. file' \in File
    BY <1>1, <1>2, StoreCoin DEF SaveStateCoin
  <2> QED  BY <1>2, <2>1 DEF SaveStateCoin, WriteBy, TypeOK
<1>3. CASE DeleteStateCoin(s, c)
  <2>1. file' \in File
    BY <1>1, <1>3, Deleted DEF DeleteStateCoin
  <2> QED  BY <1>3, <2>1 DEF DeleteStateCoin, WriteBy, TypeOK
<1>4. CASE SaveItem(s, c)
  <2>1. file' \in File
    BY <1>1, <1>4, KeySaved DEF SaveItem
  <2> QED  BY <1>4, <2>1 DEF SaveItem, WriteBy, TypeOK
<1>5. CASE SaveThrows(s, c)
  <2>1. failures' \in 0 .. MaxFailures
    BY <1>5, SessionAssumption DEF SaveThrows, TypeOK
  <2> QED  BY <1>5, <2>1 DEF SaveThrows, TypeOK
<1> QED  BY <1>2, <1>3, <1>4, <1>5 DEF SaveNext

(* ... and so do the steps of a swap loop ... *)
LEMMA LoopType ==
    ASSUME TypeOK, NEW s \in SessionId, NEW c \in Coin, LoopNext(s, c)
    PROVE  TypeOK'
<1>1. CASE ResumeSwap(s, c)
  <2>1. list' \in [SessionId -> Coins]
    BY <1>1 DEF ResumeSwap, TypeOK, Coins, Status
  <2>2. permits' \in Nat
    BY <1>1 DEF ResumeSwap, TypeOK
  <2>3. loop' \in [SessionId -> [Coin -> {"none", "queue", "check", "step",
                                         "received", "again", "spent", "release"}]]
    BY <1>1, GotoType DEF ResumeSwap
  <2> QED  BY <1>1, <2>1, <2>2, <2>3 DEF ResumeSwap, Stays, NoFile, TypeOK
<1>2. CASE CheckWalletStatus(s, c)
  BY <1>2, GotoType DEF CheckWalletStatus, Stays, NoFile, TypeOK
<1>3. CASE DoNext(s, c)
  BY <1>3, GotoType DEF DoNext, Stays, NoFile, TypeOK
<1>4. CASE MakeSwapCommitment(s, c)
  BY <1>4, GotoType, SaveCoinType DEF MakeSwapCommitment, SaveCoin, NoFile, TypeOK, Status
<1>5. CASE SaveRetried(s, c)
  BY <1>5 DEF SaveRetried, Stays, NoFile, TypeOK
<1>6. CASE TransferReceiverFinalize(s, c)
  <2>1. PICK d \in Coin :
           /\ heir' = [heir EXCEPT ![c] = d]
           /\ list' = [list EXCEPT ![s][c] = "SWAPPED", ![s][d] = "AVAILABLE"]
           /\ save' = [save EXCEPT ![s][d] = "coin"]
    BY <1>6 DEF TransferReceiverFinalize
  <2>2. list' \in [SessionId -> Coins]
        /\ save' \in [SessionId -> [Coin -> {"none", "coin", "list", "remove",
                                            "delete", "failed"}]]
        /\ heir' \in [Coin -> Coin]
    BY <2>1 DEF TypeOK, Coins, Status
  <2> QED  BY <1>6, <2>2, GotoType DEF TransferReceiverFinalize, Stays, NoFile, TypeOK
<1>7. CASE HandleSwapError(s, c)
  <2>1. list' \in [SessionId -> Coins]
        /\ save' \in [SessionId -> [Coin -> {"none", "coin", "list", "remove",
                                            "delete", "failed"}]]
        /\ UNCHANGED <<active, stop, taken, jammed>>
    BY <1>7, SaveCoinType DEF HandleSwapError, SaveCoin, TypeOK, Status
  <2> QED  BY <1>7, <2>1, GotoType DEF HandleSwapError, NoFile, TypeOK
<1>8. CASE SetStateCoinSpent(s, c)
  BY <1>8, GotoType, SaveCoinType DEF SetStateCoinSpent, SaveCoin, NoFile, TypeOK, Status
<1>9. CASE DoPostSwap(s, c)
  <2>1. permits' \in Nat
    BY <1>9 DEF DoPostSwap, TypeOK
  <2> QED  BY <1>9, <2>1, GotoType DEF DoPostSwap, Stays, NoFile, TypeOK
<1>10. CASE DoPostSwapThrows(s, c)
  BY <1>10, GotoType DEF DoPostSwapThrows, Stays, NoFile, TypeOK
<1>11. CASE ReceivedNotSaved(s, c)
  <2>1. list' \in [SessionId -> Coins]
        /\ save' \in [SessionId -> [Coin -> {"none", "coin", "list", "remove",
                                            "delete", "failed"}]]
    BY <1>11 DEF ReceivedNotSaved, TypeOK, Coins, Status
  <2> QED  BY <1>11, <2>1, GotoType DEF ReceivedNotSaved, Stays, NoFile, TypeOK
<1>12. CASE SaveNewStatecoin(s, c)
  <2>1. heir[c] \in Coin
    BY DEF TypeOK
  <2> QED  BY <1>12, <2>1, GotoType, SaveCoinType
           DEF SaveNewStatecoin, SaveCoin, NoFile, TypeOK, Status
<1> QED  BY <1>1, <1>2, <1>3, <1>4, <1>5, <1>6, <1>7, <1>8, <1>9, <1>10, <1>11, <1>12
         DEF LoopNext

(* ... the user's operations on a coin ... *)
LEMMA CoinType ==
    ASSUME TypeOK, NEW c \in Coin, DepositConfirmed(c) \/ RemoveStatecoin(c) \/ DoSwap(c)
    PROVE  TypeOK'
<1>1. wallet \in SessionId
  BY DEF TypeOK, DepositConfirmed, RemoveStatecoin, DoSwap
<1>2. CASE DepositConfirmed(c)
  BY <1>1, <1>2, SaveCoinType DEF DepositConfirmed, SaveCoin, NoFile, TypeOK, Status
<1>3. CASE RemoveStatecoin(c)
  <2>1. list' \in [SessionId -> Coins]
    BY <1>1, <1>3 DEF RemoveStatecoin, TypeOK, Coins, Status
  <2> QED  BY <1>1, <1>3, <2>1 DEF RemoveStatecoin, NoFile, TypeOK
<1>4. CASE DoSwap(c)
  BY <1>1, <1>4, GotoType DEF DoSwap, Stays, NoFile, TypeOK
<1> QED  BY <1>2, <1>3, <1>4

(* The smaller of two numbers. *)
LEMMA MinOfTwo ==
    ASSUME NEW a \in Nat, NEW b \in Nat
    PROVE  Min({a, b}) \in {a, b} /\ Min({a, b}) <= a /\ Min({a, b}) <= b
<1> SUFFICES \E x \in {a, b} : \A y \in {a, b} : x =< y
  BY DEF Min
<1>1. CASE a <= b
  BY <1>1
<1>2. CASE b <= a
  BY <1>2
<1> QED  BY <1>1, <1>2

(* ... those of a wallet object ... *)
LEMMA WalletType ==
    ASSUME TypeOK, NEW s \in SessionId,
           SaveWallet(s) \/ StopNext(s) \/ LoadWallet(s)
    PROVE  TypeOK'
<1>1. CASE SaveWallet(s)
  <2>1. list[s] \in Coins /\ file \in File
    BY DEF TypeOK
  <2>2. file' \in File
    BY <1>1, <2>1, StoreArray, KeySaved DEF SaveWallet, StoreWallet
  <2>3. kept' \in SUBSET Coin
    BY <1>1 DEF SaveWallet, TypeOK, In
  <2> QED  BY <1>1, <2>2, <2>3 DEF SaveWallet, WriteBy, memory, TypeOK
<1>2. CASE StopAcquires(s)
  <2>1. taken[s] \in 0 .. N /\ permits \in Nat /\ N \in Nat
    BY SessionAssumption DEF TypeOK
  <2> DEFINE n == Min({permits, N - taken[s]})
  <2>2. \A a, b \in Nat : Min({a, b}) \in {a, b} /\ Min({a, b}) <= a /\ Min({a, b}) <= b
    BY MinOfTwo
  <2>3. permits' \in Nat
    BY <1>2, <2>1, <2>2 DEF StopAcquires
  <2>4. taken[s] + n \in 0 .. N
    BY <1>2, <2>1, <2>2 DEF StopAcquires
  <2>5. taken' \in [SessionId -> 0 .. N]
    BY <1>2, <2>4 DEF StopAcquires, TypeOK
  <2> QED  BY <1>2, <2>3, <2>5 DEF StopAcquires, NoFile, TypeOK
<1>3. CASE StopReturns(s)
  BY <1>3 DEF StopReturns, NoFile, TypeOK
<1>4. CASE LoadWallet(s)
  <2> DEFINE f == LoadStatecoinsQuick(file)
  <2>1. f \in File /\ f.obj \in Coins
    BY Quick DEF TypeOK, File
  <2>2. [c \in Coin |-> ResetStatus(f.obj[c])] \in Coins
    BY <2>1 DEF Coins, ResetStatus, Status
  <2>3. list' \in [SessionId -> Coins]
    BY <1>4, <2>2 DEF LoadWallet, TypeOK
  <2>4. loads' \in 0 .. MaxLoads /\ permits' \in Nat /\ taken' \in [SessionId -> 0 .. N]
    BY <1>4, SessionAssumption DEF LoadWallet, TypeOK
  <2>5. save' \in [SessionId -> [Coin -> {"none", "coin", "list", "remove",
                                         "delete", "failed"}]]
    BY <1>4 DEF LoadWallet, TypeOK
  <2>6. file' \in File
    BY <1>4, <2>1 DEF LoadWallet
  <2>7. /\ wallet' \in SessionId \union {NoSession} /\ active' \in [SessionId -> BOOLEAN]
        /\ stop' \in [SessionId -> {"no", "taking", "done"}]
        /\ jammed' \in SUBSET SessionId /\ tidy' \in SUBSET SessionId
    BY <1>4 DEF LoadWallet, TypeOK
  <2> QED  BY <1>4, <2>3, <2>4, <2>5, <2>6, <2>7 DEF LoadWallet, TypeOK
<1> QED  BY <1>1, <1>2, <1>3, <1>4 DEF StopNext

(* ... and those of the application. *)
LEMMA AppType == ASSUME TypeOK, StopWallet \/ UnloadWallet \/ Crash PROVE TypeOK'
<1>1. CASE StopWallet
  BY <1>1 DEF StopWallet, NoFile, TypeOK
<1>2. CASE UnloadWallet
  BY <1>2 DEF UnloadWallet, memory, TypeOK
<1>3. CASE Crash
  <2>1. NoCoins \in Coins
    BY DEF NoCoins, Coins, Status
  <2> QED  BY <1>3, <2>1, SessionAssumption DEF Crash, TypeOK
<1> QED  BY <1>1, <1>2, <1>3

LEMMA TypeStep == ASSUME TypeOK, [Next]_vars PROVE TypeOK'
<1>1. CASE UNCHANGED vars
  BY <1>1 DEF vars, memory, TypeOK
<1>2. CASE Next
  BY <1>2, SaveType, LoopType, CoinType, WalletType, AppType DEF Next, WalletLoad, ReloadWallet
<1> QED  BY <1>1, <1>2

-----------------------------------------------------------------------------
(***************************************************************************)
(* What is kept, and what is loaded.                                       *)
(***************************************************************************)
(* Nothing to do with the coins or the file happens. *)
LEMMA Quiet ==
    ASSUME Inv, UNCHANGED <<list, save, file, heir, kept, tidy>>
    PROVE  KeptInv' /\ TidyInv'
  BY DEF Inv, KeptInv, TidyInv, Agrees, Loaded, In, SwappedIn

(* A coin changes, and its save begins. *)
LEMMA SaveBegins ==
    ASSUME Inv, NEW s \in SessionId, NEW c \in Coin, NEW v \in Status \ {"NONE"},
           SaveCoin(s, c, v), UNCHANGED <<file, heir, kept, tidy>>
    PROVE  KeptInv' /\ TidyInv'
<1>1. \A t \in SessionId, d \in Coin :
         /\ save'[t][d] = IF t = s /\ d = c THEN "coin" ELSE save[t][d]
         /\ list'[t][d] = IF t = s /\ d = c THEN v ELSE list[t][d]
  BY DEF Inv, TypeOK, SaveCoin, Coins
<1>2. KeptInv'
  BY <1>1 DEF Inv, KeptInv, In
<1>3. TidyInv'
  <2> SUFFICES ASSUME NEW t \in tidy, NEW d \in Coin
               PROVE  /\ save'[t][d] # "failed"
                      /\ save'[t][d] \in {"none", "list"} /\ list'[t][d] = "NONE"
                           => file.obj[d] = "NONE"
                      /\ save'[t][d] = "none" /\ save'[t][heir[d]] = "none"
                           => Agrees(file, t, d)'
    BY DEF TidyInv
  <2>1. t \in SessionId /\ heir[d] \in Coin
    BY DEF Inv, TypeOK
  <2>2. CASE t = s /\ d = c
    BY <1>1, <2>1, <2>2
  <2>3. CASE ~(t = s /\ d = c)
    <3>1. save'[t][d] = save[t][d] /\ list'[t][d] = list[t][d]
      BY <1>1, <2>1, <2>3
    <3>2. save'[t][heir[d]] = "none" => save[t][heir[d]] = "none"
      BY <1>1, <2>1
    <3>3. Agrees(file, t, d) => Agrees(file, t, d)'
      BY <3>1 DEF Agrees, Loaded, SwappedIn
    <3> QED  BY <3>1, <3>2, <3>3 DEF Inv, TidyInv
  <2> QED  BY <2>2, <2>3
<1> QED  BY <1>2, <1>3

(* The writes of a save. *)
LEMMA SaveInv ==
    ASSUME Inv, NEW s \in SessionId, NEW c \in Coin, SaveNext(s, c) \/ SaveThrows(s, c)
    PROVE  KeptInv' /\ TidyInv'
<1> USE DEF Inv
<1>1. list[s] \in Coins /\ list[s][c] \in Status /\ file \in File
  BY DEF TypeOK, Coins
<1>2. ASSUME NEW p \in {"none", "list", "delete", "failed"}, save' = [save EXCEPT ![s][c] = p]
      PROVE  \A t \in SessionId, d \in Coin :
                save'[t][d] = IF t = s /\ d = c THEN p ELSE save[t][d]
  BY <1>2 DEF TypeOK
<1>3. CASE SaveStateCoin(s, c)
  <2>1. \A t \in SessionId, d \in Coin :
           save'[t][d] = IF t = s /\ d = c THEN "list" ELSE save[t][d]
    BY <1>2, <1>3 DEF SaveStateCoin
  <2>2. list[s][c] # "NONE"
    BY <1>3 DEF SaveStateCoin, KeptInv
  <2>3. /\ file'.list = file.list
        /\ list[s][c] = "SWAPPED" => /\ file'.ids = file.ids \union {c}
                                     /\ file'.obj[c] = "NONE"
        /\ list[s][c] # "SWAPPED" => file'.ids = file.ids /\ file'.obj[c] = list[s][c]
        /\ \A d \in Coin \ {c} : file'.obj[d] = file.obj[d]
    BY <1>1, <1>3, StoreCoin DEF SaveStateCoin
  <2>4. KeptInv'
    BY <1>3, <2>1, <2>2, <2>3 DEF SaveStateCoin, KeptInv, In
  <2>5. TidyInv'
    <3>1. tidy' \subseteq tidy /\ tidy' \subseteq {s} /\ list' = list /\ heir' = heir
      BY <1>3 DEF SaveStateCoin, WriteBy
    <3>2. ASSUME NEW d \in Coin, d # c, s \in tidy
          PROVE  /\ file'.obj[d] = file.obj[d] /\ save'[s][d] = save[s][d]
                 /\ Agrees(file, s, d) => (Agrees(file, s, d))'
      BY <2>1, <2>3, <3>1, <3>2 DEF Agrees, Loaded, SwappedIn
    <3>3. \A d \in Coin : heir[d] \in Coin
      BY DEF TypeOK
    <3>4. \A d \in Coin : save'[s][heir[d]] = "none" => save[s][heir[d]] = "none"
      BY <2>1, <3>3
    <3> QED  BY <2>1, <2>2, <3>1, <3>2, <3>4 DEF TidyInv
  <2> QED  BY <2>4, <2>5
<1>4. CASE DeleteStateCoin(s, c)
  <2>1. \A t \in SessionId, d \in Coin :
           save'[t][d] = IF t = s /\ d = c THEN "list" ELSE save[t][d]
    BY <1>2, <1>4 DEF DeleteStateCoin
  <2>2. /\ file'.list = file.list /\ file'.ids = file.ids
        /\ \A d \in Coin : file'.obj[d] = IF d = c THEN "NONE" ELSE file.obj[d]
    BY <1>1, <1>4, Deleted DEF DeleteStateCoin
  <2>3. KeptInv'
    BY <1>4, <2>1, <2>2 DEF DeleteStateCoin, KeptInv, In
  <2>4. TidyInv'
    <3>1. tidy' \subseteq tidy /\ tidy' \subseteq {s} /\ list' = list /\ heir' = heir
      BY <1>4 DEF DeleteStateCoin, WriteBy
    <3>2. ASSUME NEW d \in Coin, d # c, s \in tidy
          PROVE  /\ file'.obj[d] = file.obj[d] /\ save'[s][d] = save[s][d]
                 /\ Agrees(file, s, d) => (Agrees(file, s, d))'
      BY <2>1, <2>2, <3>1, <3>2 DEF Agrees, Loaded, SwappedIn
    <3>3. \A d \in Coin : heir[d] \in Coin
      BY DEF TypeOK
    <3>4. \A d \in Coin : save'[s][heir[d]] = "none" => save[s][heir[d]] = "none"
      BY <2>1, <3>3
    <3> QED  BY <2>1, <2>2, <3>1, <3>2, <3>4 DEF TidyInv
  <2> QED  BY <2>3, <2>4
<1>5. CASE SaveItem(s, c)
  <2> DEFINE p == IF save[s][c] = "remove" THEN "delete" ELSE "none"
  <2>1. \A t \in SessionId, d \in Coin :
           save'[t][d] = IF t = s /\ d = c THEN p ELSE save[t][d]
    BY <1>5 DEF SaveItem, TypeOK
  <2>2. file'.list = list[s] /\ file'.ids = file.ids /\ file'.obj = file.obj
    BY <1>1, <1>5, KeySaved DEF SaveItem
  <2>3. KeptInv'
    BY <1>5, <2>1, <2>2 DEF SaveItem, KeptInv, In
  <2>4. ASSUME NEW t \in tidy', NEW d \in Coin
        PROVE  /\ save'[t][d] # "failed"
               /\ save'[t][d] \in {"none", "list"} /\ list'[t][d] = "NONE" => file'.obj[d] = "NONE"
               /\ save'[t][d] = "none" => (Agrees(file, t, d))'
    <3>1. t = s /\ t \in tidy /\ list' = list
      BY <1>5, <2>4 DEF SaveItem, WriteBy
    <3>2. save[s][d] # "failed"
          /\ (save[s][d] \in {"none", "list"} /\ list[s][d] = "NONE" => file.obj[d] = "NONE")
      BY <3>1 DEF TidyInv
    <3>3. save'[t][d] \in {"none", "list"} => save[s][d] \in {"none", "list"}
      BY <1>5, <2>1, <3>1 DEF SaveItem
    <3>4. save'[t][d] = "none" => (Agrees(file, t, d))'
      BY <2>2, <3>1, <3>2, <3>3 DEF Agrees, Loaded, SwappedIn
    <3> QED  BY <1>5, <2>1, <2>2, <3>1, <3>2, <3>3, <3>4 DEF SaveItem
  <2> QED  BY <2>3, <2>4 DEF TidyInv
<1>6. CASE SaveThrows(s, c)
  <2>1. \E p \in {"none", "failed"} : \A t \in SessionId, d \in Coin :
           save'[t][d] = IF t = s /\ d = c THEN p ELSE save[t][d]
    BY <1>2, <1>6 DEF SaveThrows
  <2>2. KeptInv'
    BY <1>6, <2>1 DEF SaveThrows, KeptInv, In
  <2>3. TidyInv'
    BY <1>6, <2>1 DEF SaveThrows, TypeOK, TidyInv, Agrees, Loaded, SwappedIn
  <2> QED  BY <2>2, <2>3
<1> QED  BY <1>3, <1>4, <1>5, <1>6 DEF SaveNext

(* The steps of a loop: they begin saves, forget failed ones, and put a    *)
(* coin AVAILABLE into a swap, which a load undoes.                        *)
LEMMA LoopInv ==
    ASSUME Inv, NEW s \in SessionId, NEW c \in Coin, LoopNext(s, c)
    PROVE  KeptInv' /\ TidyInv'
<1>1. CASE ResumeSwap(s, c)
  <2>1. \A t \in SessionId, d \in Coin :
           list'[t][d] = IF t = s /\ d = c /\ list[t][d] = "AVAILABLE" THEN "IN_SWAP"
                         ELSE list[t][d]
    BY <1>1 DEF ResumeSwap, Inv, TypeOK, Coins
  <2>2. UNCHANGED <<save, file, heir, kept, tidy>>
    BY <1>1 DEF ResumeSwap, Stays, NoFile
  <2>3. KeptInv'
    BY <2>1, <2>2 DEF Inv, KeptInv, In
  <2>4. ASSUME NEW t \in tidy, NEW d \in Coin PROVE Agrees(file, t, d) => (Agrees(file, t, d))'
    <3>1. t \in SessionId
      BY DEF Inv, TypeOK
    <3>2. /\ ResetStatus(list'[t][d]) = ResetStatus(list[t][d])
          /\ list[t][d] = "SWAPPED" => list'[t][d] = "SWAPPED"
      BY <2>1, <3>1 DEF ResetStatus
    <3> QED  BY <2>2, <3>2 DEF Agrees, Loaded, SwappedIn
  <2>5. \A t \in tidy, d \in Coin : t \in SessionId /\ (list'[t][d] = "NONE" => list[t][d] = "NONE")
    BY <2>1 DEF Inv, TypeOK
  <2>6. TidyInv'
    BY <2>2, <2>4, <2>5 DEF Inv, TidyInv
  <2> QED  BY <2>3, <2>6
<1>2. CASE CheckWalletStatus(s, c)
  BY <1>2, Quiet DEF CheckWalletStatus, Stays, NoFile
<1>3. CASE DoNext(s, c)
  BY <1>3, Quiet DEF DoNext, Stays, NoFile
<1>4. CASE MakeSwapCommitment(s, c)
  BY <1>4, SaveBegins DEF MakeSwapCommitment, NoFile, Status
<1>5. CASE SaveRetried(s, c) \/ DoPostSwap(s, c) \/ DoPostSwapThrows(s, c)
  <2>1. \A t \in SessionId, d \in Coin :
           save'[t][d] = save[t][d] \/ (save[t][d] = "failed" /\ save'[t][d] = "none")
    <3>1. CASE SaveRetried(s, c)
      BY <3>1 DEF SaveRetried, Inv, TypeOK
    <3>2. CASE DoPostSwap(s, c)
      BY <3>2 DEF DoPostSwap, Saved, Inv, TypeOK
    <3>3. CASE DoPostSwapThrows(s, c)
      BY <3>3 DEF DoPostSwapThrows, Inv, TypeOK
    <3> QED  BY <1>5, <3>1, <3>2, <3>3
  <2>2. UNCHANGED <<list, file, heir, kept, tidy>>
    BY <1>5 DEF SaveRetried, DoPostSwap, DoPostSwapThrows, Stays, NoFile
  <2>3. KeptInv'
    BY <2>1, <2>2 DEF Inv, KeptInv, In
  <2>4. \A t \in tidy, d \in Coin : save'[t][d] = save[t][d] /\ heir[d] \in Coin
    BY <2>1 DEF Inv, TypeOK, TidyInv
  <2>5. \A t \in tidy, d \in Coin : Agrees(file, t, d) => (Agrees(file, t, d))'
    BY <2>2 DEF Agrees, Loaded, SwappedIn
  <2>6. TidyInv'
    BY <2>2, <2>4, <2>5 DEF Inv, TidyInv
  <2> QED  BY <2>3, <2>6
<1>6. CASE TransferReceiverFinalize(s, c)
  <2>1. PICK d \in Coin :
           /\ d # c /\ heir[c] = c
           /\ heir' = [heir EXCEPT ![c] = d]
           /\ list' = [list EXCEPT ![s][c] = "SWAPPED", ![s][d] = "AVAILABLE"]
           /\ save' = [save EXCEPT ![s][d] = "coin"]
    BY <1>6 DEF TransferReceiverFinalize
  <2>2. \A t \in SessionId, b \in Coin :
           /\ save'[t][b] = IF t = s /\ b = d THEN "coin" ELSE save[t][b]
           /\ list'[t][b] = IF t = s /\ b = d THEN "AVAILABLE"
                            ELSE IF t = s /\ b = c THEN "SWAPPED" ELSE list[t][b]
           /\ heir'[b] = IF b = c THEN d ELSE heir[b]
    BY <2>1 DEF Inv, TypeOK, Coins
  <2>3. UNCHANGED <<file, kept, tidy>>
    BY <1>6 DEF TransferReceiverFinalize, Stays, NoFile
  <2>4. KeptInv'
    BY <2>2, <2>3 DEF Inv, KeptInv, In
  <2>5. ASSUME NEW t \in tidy, NEW b \in Coin
        PROVE  /\ save'[t][b] # "failed"
               /\ save'[t][b] \in {"none", "list"} /\ list'[t][b] = "NONE" => file'.obj[b] = "NONE"
               /\ save'[t][b] = "none" /\ save'[t][heir'[b]] = "none" => (Agrees(file, t, b))'
    <3>1. t \in SessionId /\ heir[b] \in Coin
      BY DEF Inv, TypeOK
    <3>2. save'[t][b] # "failed" /\
          (save'[t][b] \in {"none", "list"} /\ list'[t][b] = "NONE" => file'.obj[b] = "NONE")
      BY <2>2, <2>3, <3>1 DEF Inv, TidyInv
    <3>3. CASE t = s /\ b = c
      BY <2>2, <3>1, <3>2, <3>3
    <3>4. CASE t = s /\ b = d
      BY <2>2, <3>1, <3>2, <3>4
    <3>5. CASE t # s /\ b = c
      <4>1. save'[t][b] = save[t][b] /\ list'[t][b] = list[t][b]
        BY <2>2, <3>1, <3>5
      <4>2. heir[b] = b
        BY <2>1, <3>5
      <4>3. save[t][b] = "none" => Agrees(file, t, b)
        BY <4>2 DEF Inv, TidyInv
      <4>4. Agrees(file, t, b) => (Agrees(file, t, b))'
        BY <2>3, <4>1 DEF Agrees, Loaded, SwappedIn
      <4> QED  BY <3>2, <4>1, <4>3, <4>4
    <3>6. CASE b # c /\ (t # s \/ b # d)
      <4>1. save'[t][b] = save[t][b] /\ list'[t][b] = list[t][b] /\ heir'[b] = heir[b]
        BY <2>2, <3>1, <3>6
      <4>2. save'[t][heir[b]] = "none" => save[t][heir[b]] = "none"
        BY <2>2, <3>1
      <4> QED  BY <2>3, <3>1, <3>2, <4>1, <4>2 DEF Inv, TidyInv, Agrees, Loaded, SwappedIn
    <3> QED  BY <3>3, <3>4, <3>5, <3>6
  <2>6. TidyInv'
    BY <2>3, <2>5 DEF TidyInv
  <2> QED  BY <2>4, <2>6
<1>7. CASE HandleSwapError(s, c)
  <2>1. CASE SaveCoin(s, c, "AVAILABLE")
    BY <1>7, <2>1, SaveBegins DEF HandleSwapError, NoFile, Status
  <2>2. CASE UNCHANGED <<list, save>>
    BY <1>7, <2>2, Quiet DEF HandleSwapError, NoFile
  <2> QED  BY <1>7, <2>1, <2>2 DEF HandleSwapError
<1>8. CASE SetStateCoinSpent(s, c)
  BY <1>8, SaveBegins DEF SetStateCoinSpent, NoFile, Status
<1>9. CASE ReceivedNotSaved(s, c)
  <2>1. heir[c] \in Coin
    BY DEF Inv, TypeOK
  <2>2. \A t \in SessionId, b \in Coin :
           /\ save'[t][b] = IF t = s /\ b = c THEN "coin"
                            ELSE IF t = s /\ b = heir[c] THEN "none" ELSE save[t][b]
           /\ list'[t][b] = IF t = s /\ b = c THEN "AVAILABLE" ELSE list[t][b]
    BY <1>9, <2>1 DEF ReceivedNotSaved, Inv, TypeOK, Coins
  <2>3. UNCHANGED <<file, heir, kept, tidy>> /\ s \notin tidy
    BY <1>9, <2>1 DEF ReceivedNotSaved, Stays, NoFile, Inv, TidyInv
  <2>4. KeptInv'
    BY <2>2, <2>3 DEF Inv, KeptInv, In
  <2>5. \A t \in tidy, b \in Coin : t # s /\ t \in SessionId /\ heir[b] \in Coin
    BY <2>3 DEF Inv, TypeOK
  <2>6. TidyInv'
    BY <2>2, <2>3, <2>5 DEF Inv, TidyInv, Agrees, Loaded, SwappedIn
  <2> QED  BY <2>4, <2>6
<1>10. CASE SaveNewStatecoin(s, c)
  <2>1. heir[c] \in Coin
    BY DEF Inv, TypeOK
  <2> QED  BY <1>10, <2>1, SaveBegins DEF SaveNewStatecoin, NoFile, Status
<1> QED  BY <1>1, <1>2, <1>3, <1>4, <1>5, <1>6, <1>7, <1>8, <1>9, <1>10 DEF LoopNext

(* The user's operations on a coin: a removed one leaves the list before   *)
(* it leaves the file.                                                     *)
LEMMA CoinInv ==
    ASSUME Inv, NEW c \in Coin, DepositConfirmed(c) \/ RemoveStatecoin(c) \/ DoSwap(c)
    PROVE  KeptInv' /\ TidyInv'
<1>1. wallet \in SessionId
  BY DEF Inv, TypeOK, DepositConfirmed, RemoveStatecoin, DoSwap
<1>2. CASE DepositConfirmed(c)
  BY <1>1, <1>2, SaveBegins DEF DepositConfirmed, NoFile, Status
<1>3. CASE RemoveStatecoin(c)
  <2>1. \A t \in SessionId, d \in Coin :
           /\ save'[t][d] = IF t = wallet /\ d = c THEN "remove" ELSE save[t][d]
           /\ list'[t][d] = IF t = wallet /\ d = c THEN "NONE" ELSE list[t][d]
    BY <1>1, <1>3 DEF RemoveStatecoin, Inv, TypeOK, Coins
  <2>2. UNCHANGED <<file, heir, kept, tidy>>
    BY <1>3 DEF RemoveStatecoin, NoFile
  <2>3. KeptInv'
    BY <2>1, <2>2 DEF Inv, KeptInv, In
  <2>4. \A t \in tidy, d \in Coin : t \in SessionId /\ heir[d] \in Coin
    BY DEF Inv, TypeOK
  <2>5. \A t \in tidy, d \in Coin :
           save'[t][d] = "none" /\ Agrees(file, t, d) => (Agrees(file, t, d))'
    BY <2>1, <2>2, <2>4 DEF Agrees, Loaded, SwappedIn
  <2>6. \A t \in tidy, d \in Coin : save'[t][heir[d]] = "none" => save[t][heir[d]] = "none"
    BY <2>1, <2>4
  <2>7. TidyInv'
    BY <2>1, <2>2, <2>4, <2>5, <2>6 DEF Inv, TidyInv
  <2> QED  BY <2>3, <2>7
<1>4. CASE DoSwap(c)
  BY <1>4, Quiet DEF DoSwap, Stays, NoFile
<1> QED  BY <1>2, <1>3, <1>4

(* The write of the whole wallet merges the list into the file; a load     *)
(* starts from what it made of the file.                                   *)
LEMMA WalletInv ==
    ASSUME Inv, NEW s \in SessionId, SaveWallet(s) \/ StopNext(s) \/ LoadWallet(s)
    PROVE  KeptInv' /\ TidyInv'
<1>1. CASE SaveWallet(s)
  <2>1. list[s] \in Coins /\ file \in File /\ UNCHANGED <<list, save>>
    BY <1>1 DEF Inv, TypeOK, SaveWallet, memory
  <2>2. /\ file'.list = list[s] /\ file'.ids = file.ids \union SwappedIn(list[s])
        /\ \A c \in Coin : file'.obj[c] = IF list[s][c] = "SWAPPED" THEN "NONE"
                               ELSE IF list[s][c] # "NONE" THEN list[s][c] ELSE file.obj[c]
    BY <1>1, <2>1, StoreArray, KeySaved DEF SaveWallet, StoreWallet
  <2>3. KeptInv'
    BY <1>1, <2>1, <2>2 DEF SaveWallet, Inv, KeptInv, In, SwappedIn
  <2>4. tidy' \subseteq tidy /\ tidy' \subseteq {s}
    BY <1>1 DEF SaveWallet, WriteBy
  <2>5. \A c \in Coin : s \in tidy /\ save[s][c] = "none" => (Agrees(file, s, c))'
    <3> SUFFICES ASSUME NEW c \in Coin, s \in tidy, save[s][c] = "none"
                 PROVE  (Agrees(file, s, c))'
      OBVIOUS
    <3>1. CASE list[s][c] = "SWAPPED"
      BY <2>1, <2>2, <3>1 DEF Agrees, Loaded, SwappedIn
    <3>2. CASE list[s][c] # "SWAPPED"
      <4>1. (Loaded(file, c))' = IF list[s][c] # "NONE" THEN list[s][c] ELSE file'.obj[c]
        BY <2>2, <3>2 DEF Loaded
      <4>2. list[s][c] = "NONE" => file'.obj[c] = "NONE"
        BY <2>2 DEF Inv, TidyInv
      <4> QED  BY <2>1, <3>2, <4>1, <4>2 DEF Agrees
    <3> QED  BY <3>1, <3>2
  <2>6. TidyInv'
    BY <2>1, <2>2, <2>4, <2>5 DEF Inv, TidyInv
  <2> QED  BY <2>3, <2>6
<1>2. CASE StopNext(s)
  BY <1>2, Quiet DEF StopNext, StopAcquires, StopReturns, NoFile
<1>3. CASE LoadWallet(s)
  <2>1. file \in File /\ tidy' = {s} /\ kept' = kept
    BY <1>3 DEF Inv, TypeOK, LoadWallet
  <2>2. /\ file'.list = file.list /\ file'.ids = file.ids \union SwappedIn(file.list)
        /\ \A c \in Coin : file'.obj[c] = Loaded(file, c)
    BY <1>3, <2>1, Quick DEF LoadWallet
  <2>3. \A t \in SessionId, c \in Coin :
           /\ list'[t][c] = IF t = s THEN ResetStatus(file'.obj[c]) ELSE list[t][c]
           /\ save'[t][c] = IF t # s THEN save[t][c]
                            ELSE IF file'.obj[c] = "IN_SWAP" THEN "coin" ELSE "none"
    BY <1>3 DEF LoadWallet, Inv, TypeOK
  <2>4. KeptInv'
    BY <2>1, <2>2, <2>3 DEF Inv, KeptInv, In, Loaded, SwappedIn, ResetStatus
  <2>5. \A c \in Coin : (Agrees(file, s, c))'
    BY <2>2, <2>3 DEF Agrees, Loaded, ResetStatus
  <2>6. TidyInv'
    BY <2>1, <2>3, <2>5 DEF TidyInv, ResetStatus
  <2> QED  BY <2>4, <2>6
<1> QED  BY <1>1, <1>2, <1>3

(* A restart forgets memory and nothing of the file. *)
LEMMA AppInv ==
    ASSUME Inv, StopWallet \/ UnloadWallet \/ Crash
    PROVE  KeptInv' /\ TidyInv'
<1>1. CASE StopWallet
  BY <1>1, Quiet DEF StopWallet, NoFile
<1>2. CASE UnloadWallet
  BY <1>2, Quiet DEF UnloadWallet, memory
<1>3. CASE Crash
  BY <1>3 DEF Crash, Inv, KeptInv, TidyInv
<1> QED  BY <1>1, <1>2, <1>3

LEMMA StepInv == ASSUME Inv, [Next]_vars PROVE Inv'
<1>1. TypeOK'
  BY TypeStep DEF Inv
<1>2. CASE UNCHANGED vars
  BY <1>1, <1>2, Quiet DEF vars, memory, Inv
<1>3. CASE Next
  <2>1. KeptInv' /\ TidyInv'
    BY <1>3, SaveInv, LoopInv, CoinInv, WalletInv, AppInv DEF Next, WalletLoad, ReloadWallet
  <2> QED  BY <1>1, <2>1 DEF Inv
<1> QED  BY <1>2, <1>3

-----------------------------------------------------------------------------
(***************************************************************************)
(* The permits of a stop.  Lines are pairs of a session and a coin, or of  *)
(* a session and a number.  Held are the loops that hold a permit, Claims  *)
(* the permits the stops of the loaded wallets have still to take, Losses  *)
(* the permits that failed writes may still cost: those of the loops that  *)
(* cannot end any more, or will end without giving theirs back.            *)
(***************************************************************************)
Held == {l \in SessionId \X Coin : HoldsPermit(l[1], l[2])}

Claim(s, i) == active[s] \/ (stop[s] = "taking" /\ i > taken[s])
Claims == {l \in SessionId \X (1 .. N) : Claim(l[1], l[2])}

Loss(s, c) ==
    IF s \in jammed
    THEN loop[s][c] # "none" \/ list[s][c] # "SWAPPED"
    ELSE \/ loop[s][c] = "again" /\ save[s][heir[c]] = "failed"
         \/ loop[s][c] = "spent" /\ save[s][c] = "failed"
Losses == {l \in SessionId \X Deposited : Loss(l[1], l[2])}

(* A write that fails costs one permit for each coin at the most, g of them *)
(* are gone, and the rest cover what the stops claim.                       *)
Accounts(H, C, B, p, f) ==
    /\ IsFiniteSet(H) /\ IsFiniteSet(C) /\ IsFiniteSet(B)
    /\ \E g \in Nat : /\ N + Cardinality(C) <= p + Cardinality(H) + g
                      /\ g + Cardinality(B) <= f * Cardinality(Deposited)

(* Loops are those of deposits, and one that has its new coin has swapped   *)
(* the old one; only a stopped wallet takes permits.                        *)
PlaceInv ==
    /\ \A c \in Coin : heir[c] = c \/ heir[c] \notin Deposited
    /\ \A s \in SessionId, c \in Coin :
          /\ loop[s][c] # "none" => c \in Deposited
          /\ loop[s][c] \in {"received", "again", "spent"} =>
                 heir[c] \notin Deposited /\ list[s][c] = "SWAPPED"
    /\ \A s \in SessionId : active[s] => stop[s] = "no"

PermitInv ==
    /\ TypeOK
    /\ PlaceInv
    /\ Accounts(Held, Claims, Losses, permits, failures)

(* What a pair in one of the sets is. *)
LEMMA Pairs ==
    ASSUME TypeOK
    PROVE  /\ \A s \in SessionId, c \in Coin : <<s, c>> \in Held <=> HoldsPermit(s, c)
           /\ \A s \in SessionId, i \in 1 .. N : <<s, i>> \in Claims <=> Claim(s, i)
           /\ \A s \in SessionId, c \in Deposited : <<s, c>> \in Losses <=> Loss(s, c)
  BY DEF Held, Claims, Losses

(* The accounts stay true when claims and possible losses go away, *)
LEMMA LessClaimed ==
    ASSUME NEW H, NEW C, NEW B, NEW p \in Nat, NEW f \in Nat, Accounts(H, C, B, p, f),
           NEW C2 \in SUBSET C, NEW B2 \in SUBSET B, IsFiniteSet(Deposited)
    PROVE  Accounts(H, C2, B2, p, f)
<1>1. IsFiniteSet(H) /\ IsFiniteSet(C) /\ IsFiniteSet(B)
  BY DEF Accounts
<1>2. IsFiniteSet(C2) /\ IsFiniteSet(B2) /\ Cardinality(C2) <= Cardinality(C)
      /\ Cardinality(B2) <= Cardinality(B)
  BY <1>1, FS_Subset
<1>3. /\ Cardinality(C) \in Nat /\ Cardinality(B) \in Nat /\ Cardinality(H) \in Nat
      /\ Cardinality(C2) \in Nat /\ Cardinality(B2) \in Nat /\ Cardinality(Deposited) \in Nat
  BY <1>1, <1>2, FS_CardinalityType
<1>4. PICK g \in Nat : /\ N + Cardinality(C) <= p + Cardinality(H) + g
                       /\ g + Cardinality(B) <= f * Cardinality(Deposited)
  BY DEF Accounts
<1>5. f * Cardinality(Deposited) \in Nat
  BY <1>3
<1>6. /\ N + Cardinality(C2) <= p + Cardinality(H) + g
      /\ g + Cardinality(B2) <= f * Cardinality(Deposited)
  BY <1>2, <1>3, <1>4, <1>5, SessionAssumption
<1> QED  BY <1>1, <1>2, <1>6 DEF Accounts

(* when a write fails, in one session, *)
LEMMA Failed ==
    ASSUME NEW H, NEW C, NEW B, NEW p \in Nat, NEW f \in Nat, Accounts(H, C, B, p, f),
           NEW s, NEW B2 \in SUBSET (B \union ({s} \X Deposited)), IsFiniteSet(Deposited)
    PROVE  Accounts(H, C, B2, p, f + 1)
<1> DEFINE K == {s} \X Deposited
<1>1. IsFiniteSet(H) /\ IsFiniteSet(C) /\ IsFiniteSet(B)
  BY DEF Accounts
<1>2. IsFiniteSet(K) /\ Cardinality(K) = 1 * Cardinality(Deposited)
  <2>1. IsFiniteSet({s}) /\ Cardinality({s}) = 1
    BY FS_Singleton
  <2>2. IsFiniteSet(K) /\ Cardinality(K) = Cardinality({s}) * Cardinality(Deposited)
    BY <2>1, FS_Product
  <2> QED  BY <2>1, <2>2
<1> HIDE DEF K
<1>3. /\ IsFiniteSet(B \union K) /\ IsFiniteSet(B \intersect K)
      /\ Cardinality(B \union K)
           = Cardinality(B) + Cardinality(K) - Cardinality(B \intersect K)
  BY <1>1, <1>2, FS_Union, FS_Subset
<1>4. IsFiniteSet(B2) /\ Cardinality(B2) <= Cardinality(B \union K)
  BY <1>3, FS_Subset DEF K
<1>5. /\ Cardinality(B) \in Nat /\ Cardinality(B \intersect K) \in Nat
      /\ Cardinality(B2) \in Nat /\ Cardinality(Deposited) \in Nat
  BY <1>1, <1>3, <1>4, FS_CardinalityType
<1>6. PICK g \in Nat : /\ N + Cardinality(C) <= p + Cardinality(H) + g
                       /\ g + Cardinality(B) <= f * Cardinality(Deposited)
  BY DEF Accounts
<1>7. \A d \in Nat : (f + 1) * d = f * d + d /\ f * d \in Nat /\ 1 * d = d
  OBVIOUS
<1>8. Cardinality(B2) <= Cardinality(B) + Cardinality(Deposited)
  BY <1>2, <1>3, <1>4, <1>5, <1>7
<1>9. g + Cardinality(B2) <= (f + 1) * Cardinality(Deposited)
  BY <1>5, <1>6, <1>7, <1>8
<1> QED  BY <1>1, <1>4, <1>6, <1>9 DEF Accounts

(* when a loop ends without giving its permit back, as it was feared, *)
LEMMA Gone ==
    ASSUME NEW H, NEW C, NEW B, NEW p \in Nat, NEW f \in Nat, Accounts(H, C, B, p, f),
           NEW l, l \in H, l \in B, NEW B2 \in SUBSET (B \ {l}), IsFiniteSet(Deposited)
    PROVE  Accounts(H \ {l}, C, B2, p, f)
<1>1. IsFiniteSet(H) /\ IsFiniteSet(C) /\ IsFiniteSet(B)
  BY DEF Accounts
<1>2. /\ IsFiniteSet(H \ {l}) /\ Cardinality(H \ {l}) = Cardinality(H) - 1
      /\ IsFiniteSet(B \ {l}) /\ Cardinality(B \ {l}) = Cardinality(B) - 1
  BY <1>1, FS_RemoveElement
<1>3. IsFiniteSet(B2) /\ Cardinality(B2) <= Cardinality(B \ {l})
  BY <1>2, FS_Subset
<1>4. /\ Cardinality(B) \in Nat /\ Cardinality(B2) \in Nat /\ Cardinality(H) \in Nat
      /\ Cardinality(C) \in Nat /\ Cardinality(Deposited) \in Nat
  BY <1>1, <1>3, FS_CardinalityType
<1>5. PICK g \in Nat : /\ N + Cardinality(C) <= p + Cardinality(H) + g
                       /\ g + Cardinality(B) <= f * Cardinality(Deposited)
  BY DEF Accounts
<1>6. f * Cardinality(Deposited) \in Nat
  BY <1>4
<1>7. /\ g + 1 \in Nat
      /\ N + Cardinality(C) <= p + Cardinality(H \ {l}) + (g + 1)
      /\ (g + 1) + Cardinality(B2) <= f * Cardinality(Deposited)
  BY <1>2, <1>3, <1>4, <1>5, <1>6, SessionAssumption
<1> QED  BY <1>1, <1>2, <1>3, <1>7 DEF Accounts

(* when a loop takes a permit or gives it back, *)
LEMMA PermitTaken ==
    ASSUME NEW H, NEW C, NEW B, NEW p \in Nat, NEW f \in Nat, Accounts(H, C, B, p, f),
           NEW l, l \notin H, p > 0
    PROVE  Accounts(H \union {l}, C, B, p - 1, f)
<1>1. IsFiniteSet(H) /\ IsFiniteSet(C) /\ IsFiniteSet(B)
  BY DEF Accounts
<1>2. IsFiniteSet(H \union {l}) /\ Cardinality(H \union {l}) = Cardinality(H) + 1
  BY <1>1, FS_AddElement
<1>3. Cardinality(H) \in Nat /\ Cardinality(C) \in Nat
  BY <1>1, FS_CardinalityType
<1>4. PICK g \in Nat : /\ N + Cardinality(C) <= p + Cardinality(H) + g
                       /\ g + Cardinality(B) <= f * Cardinality(Deposited)
  BY DEF Accounts
<1>5. N + Cardinality(C) <= (p - 1) + Cardinality(H \union {l}) + g
  BY <1>2, <1>3, <1>4, SessionAssumption
<1> QED  BY <1>1, <1>2, <1>4, <1>5 DEF Accounts

LEMMA PermitBack ==
    ASSUME NEW H, NEW C, NEW B, NEW p \in Nat, NEW f \in Nat, Accounts(H, C, B, p, f),
           NEW l, l \in H
    PROVE  Accounts(H \ {l}, C, B, p + 1, f)
<1>1. IsFiniteSet(H) /\ IsFiniteSet(C) /\ IsFiniteSet(B)
  BY DEF Accounts
<1>2. IsFiniteSet(H \ {l}) /\ Cardinality(H \ {l}) = Cardinality(H) - 1
  BY <1>1, FS_RemoveElement
<1>3. Cardinality(H) \in Nat /\ Cardinality(C) \in Nat
  BY <1>1, FS_CardinalityType
<1>4. PICK g \in Nat : /\ N + Cardinality(C) <= p + Cardinality(H) + g
                       /\ g + Cardinality(B) <= f * Cardinality(Deposited)
  BY DEF Accounts
<1>5. N + Cardinality(C) <= (p + 1) + Cardinality(H \ {l}) + g
  BY <1>2, <1>3, <1>4, SessionAssumption
<1> QED  BY <1>1, <1>2, <1>4, <1>5 DEF Accounts

(* when a stop takes the permits numbered from a + 1 to b of those it       *)
(* claims, and when a load adds a wallet's.                                 *)
LEMMA Numbered ==
    ASSUME NEW s, NEW a \in Nat, NEW b \in Nat, a <= b
    PROVE  /\ IsFiniteSet({s} \X (a + 1 .. b))
           /\ Cardinality({s} \X (a + 1 .. b)) = b - a
<1>1. IsFiniteSet(a + 1 .. b) /\ Cardinality(a + 1 .. b) = b - a
  <2>1. a + 1 \in Int /\ b \in Int
    OBVIOUS
  <2>2. /\ IsFiniteSet(a + 1 .. b)
        /\ Cardinality(a + 1 .. b) = IF a + 1 > b THEN 0 ELSE b - (a + 1) + 1
    BY <2>1, FS_Interval
  <2> QED  BY <2>2
<1>2. IsFiniteSet({s}) /\ Cardinality({s}) = 1
  BY FS_Singleton
<1>3. /\ IsFiniteSet({s} \X (a + 1 .. b))
      /\ Cardinality({s} \X (a + 1 .. b)) = Cardinality({s}) * Cardinality(a + 1 .. b)
  BY <1>1, <1>2, FS_Product
<1> QED  BY <1>1, <1>2, <1>3

LEMMA StopTakes ==
    ASSUME NEW H, NEW C, NEW B, NEW p \in Nat, NEW f \in Nat, Accounts(H, C, B, p, f),
           NEW s, NEW a \in Nat, NEW b \in Nat, a <= b, b - a <= p,
           ({s} \X (a + 1 .. b)) \subseteq C
    PROVE  Accounts(H, C \ ({s} \X (a + 1 .. b)), B, p - (b - a), f)
<1> DEFINE K == {s} \X (a + 1 .. b)
           R == C \ K
<1>1. IsFiniteSet(H) /\ IsFiniteSet(C) /\ IsFiniteSet(B)
  BY DEF Accounts
<1>2. IsFiniteSet(K) /\ Cardinality(K) = b - a
  BY Numbered
<1>3. IsFiniteSet(R)
  BY <1>1, FS_Subset
<1>4. R \union K = C /\ R \intersect K = {}
  OBVIOUS
<1>5. Cardinality(C) = Cardinality(R) + (b - a)
  <2> HIDE DEF K, R
  <2>1. Cardinality(R \union K)
          = Cardinality(R) + Cardinality(K) - Cardinality(R \intersect K)
    BY <1>2, <1>3, FS_Union
  <2>4. Cardinality(C) = Cardinality(R) + Cardinality(K) - Cardinality(R \intersect K)
    BY <1>4, <2>1
  <2>2. Cardinality(R \intersect K) = 0
    BY <1>4, FS_EmptySet
  <2>3. Cardinality(R) \in Nat
    BY <1>3, FS_CardinalityType
  <2> QED  BY <1>2, <2>2, <2>3, <2>4
<1>6. PICK g \in Nat : /\ N + Cardinality(C) <= p + Cardinality(H) + g
                       /\ g + Cardinality(B) <= f * Cardinality(Deposited)
  BY DEF Accounts
<1> HIDE DEF R, K
<1>7. Cardinality(H) \in Nat /\ Cardinality(R) \in Nat
  BY <1>1, <1>3, FS_CardinalityType
<1>8. N + Cardinality(R) <= (p - (b - a)) + Cardinality(H) + g
  BY <1>5, <1>6, <1>7, SessionAssumption
<1>9. Accounts(H, R, B, p - (b - a), f)
  BY <1>1, <1>3, <1>6, <1>8 DEF Accounts
<1> QED  BY <1>9 DEF R, K

LEMMA LoadAdds ==
    ASSUME NEW H, NEW C, NEW B, NEW p \in Nat, NEW f \in Nat, Accounts(H, C, B, p, f), NEW s
    PROVE  Accounts(H, C \union ({s} \X (1 .. N)), B, p + N, f)
<1> DEFINE K == {s} \X (1 .. N)
<1>1. IsFiniteSet(H) /\ IsFiniteSet(C) /\ IsFiniteSet(B)
  BY DEF Accounts
<1>2. IsFiniteSet(K) /\ Cardinality(K) = N
  <2>1. 0 \in Nat /\ N \in Nat /\ 0 <= N /\ 0 + 1 = 1 /\ N - 0 = N
    BY SessionAssumption
  <2> QED  BY <2>1, Numbered
<1> HIDE DEF K
<1>3. /\ IsFiniteSet(C \union K) /\ IsFiniteSet(C \intersect K)
      /\ Cardinality(C \union K)
           = Cardinality(C) + Cardinality(K) - Cardinality(C \intersect K)
  BY <1>1, <1>2, FS_Union, FS_Subset
<1>4. Cardinality(C) \in Nat /\ Cardinality(C \intersect K) \in Nat /\ Cardinality(H) \in Nat
  BY <1>1, <1>3, FS_CardinalityType
<1>5. PICK g \in Nat : /\ N + Cardinality(C) <= p + Cardinality(H) + g
                       /\ g + Cardinality(B) <= f * Cardinality(Deposited)
  BY DEF Accounts
<1>6. N + Cardinality(C \union K) <= (p + N) + Cardinality(H) + g
  BY <1>2, <1>3, <1>4, <1>5, SessionAssumption
<1>7. Accounts(H, C \union K, B, p + N, f)
  BY <1>1, <1>3, <1>5, <1>6 DEF Accounts
<1> QED  BY <1>7 DEF K

(* The changes of a place, and of a coin with its save, place by place. *)
LEMMA GotoAt ==
    ASSUME TypeOK, NEW s \in SessionId, NEW c \in Coin, NEW p, Goto(s, c, p)
    PROVE  \A t \in SessionId, d \in Coin :
              loop'[t][d] = IF t = s /\ d = c THEN p ELSE loop[t][d]
  BY DEF TypeOK, Goto

LEMMA SaveCoinAt ==
    ASSUME TypeOK, NEW s \in SessionId, NEW c \in Coin, NEW v, SaveCoin(s, c, v)
    PROVE  /\ UNCHANGED <<active, stop, taken, jammed>>
           /\ \A t \in SessionId, d \in Coin :
                 /\ save'[t][d] = IF t = s /\ d = c THEN "coin" ELSE save[t][d]
                 /\ list'[t][d] = IF t = s /\ d = c THEN v ELSE list[t][d]
  BY DEF TypeOK, SaveCoin, Coins

LEMMA LoopStays ==
    ASSUME NEW s \in SessionId, NEW c \in Coin, LoopNext(s, c)
    PROVE  UNCHANGED <<active, stop, taken, jammed, failures>>
  BY DEF LoopNext, ResumeSwap, CheckWalletStatus, DoNext, MakeSwapCommitment, SaveRetried,
         TransferReceiverFinalize, HandleSwapError, ReceivedNotSaved, SaveNewStatecoin,
         SetStateCoinSpent, DoPostSwap, DoPostSwapThrows, Stays, NoFile, SaveCoin

(* What happens to the sets, from what happens to their members. *)
LEMMA SameHeld ==
    ASSUME \A t \in SessionId, d \in Coin : (HoldsPermit(t, d))' <=> HoldsPermit(t, d)
    PROVE  Held' = Held
  BY DEF Held

LEMMA FewerClaims ==
    ASSUME \A t \in SessionId, i \in 1 .. N : (Claim(t, i))' => Claim(t, i)
    PROVE  Claims' \in SUBSET Claims
  BY DEF Claims

LEMMA FewerLosses ==
    ASSUME \A t \in SessionId, d \in Deposited : (Loss(t, d))' => Loss(t, d)
    PROVE  Losses' \in SUBSET Losses
  BY DEF Losses

LEMMA Numbers == TypeOK => permits \in Nat /\ failures \in Nat
  BY SessionAssumption DEF TypeOK

(* A step that moves no permit and makes no loss possible. *)
LEMMA NoPermitMoves ==
    ASSUME PermitInv, IsFiniteSet(Deposited), permits' = permits, failures' = failures,
           \A t \in SessionId, d \in Coin : (HoldsPermit(t, d))' <=> HoldsPermit(t, d),
           \A t \in SessionId, i \in 1 .. N : (Claim(t, i))' => Claim(t, i),
           \A t \in SessionId, d \in Deposited : (Loss(t, d))' => Loss(t, d)
    PROVE  Accounts(Held, Claims, Losses, permits, failures)'
<1>1. Held' = Held /\ Claims' \in SUBSET Claims /\ Losses' \in SUBSET Losses
  BY SameHeld, FewerClaims, FewerLosses
<1>2. permits \in Nat /\ failures \in Nat /\ Accounts(Held, Claims, Losses, permits, failures)
  BY Numbers DEF PermitInv
<1>3. Accounts(Held, Claims', Losses', permits, failures)
  BY <1>1, <1>2, LessClaimed
<1> QED  BY <1>1, <1>3

-----------------------------------------------------------------------------
(* The steps of a loop keep the places right. *)
LEMMA LoopPlace ==
    ASSUME TypeOK, PlaceInv, NEW s \in SessionId, NEW c \in Coin, LoopNext(s, c)
    PROVE  PlaceInv'
<1>0. /\ UNCHANGED <<active, stop, taken, jammed, failures>>
      /\ c \in Deposited \/ loop[s][c] = "none"
  BY LoopStays DEF PlaceInv
<1>1. CASE ResumeSwap(s, c)
  <2>1. \A t \in SessionId, d \in Coin :
           list'[t][d] = IF t = s /\ d = c /\ list[t][d] = "AVAILABLE" THEN "IN_SWAP"
                         ELSE list[t][d]
    BY <1>1 DEF ResumeSwap, TypeOK, Coins
  <2> QED  BY <1>0, <1>1, <2>1, GotoAt DEF ResumeSwap, Stays, PlaceInv
<1>2. CASE CheckWalletStatus(s, c) \/ DoNext(s, c)
  <2>1. \A t \in SessionId, d \in Coin :
           loop'[t][d] = loop[t][d] \/ (t = s /\ d = c /\ loop'[t][d] \in {"check", "step"})
    BY <1>2, GotoAt DEF CheckWalletStatus, DoNext
  <2> QED  BY <1>0, <1>2, <2>1 DEF CheckWalletStatus, DoNext, Stays, PlaceInv
<1>3. CASE MakeSwapCommitment(s, c)
  BY <1>0, <1>3, GotoAt, SaveCoinAt DEF MakeSwapCommitment, PlaceInv
<1>4. CASE SaveRetried(s, c)
  BY <1>0, <1>4 DEF SaveRetried, PlaceInv
<1>5. CASE TransferReceiverFinalize(s, c)
  <2>1. PICK d \in Coin :
           /\ d # c /\ heir[c] = c /\ d \notin Deposited
           /\ heir' = [heir EXCEPT ![c] = d]
           /\ list' = [list EXCEPT ![s][c] = "SWAPPED", ![s][d] = "AVAILABLE"]
    BY <1>5 DEF TransferReceiverFinalize
  <2>2. \A t \in SessionId, b \in Coin :
           /\ list'[t][b] = IF t = s /\ b = d THEN "AVAILABLE"
                            ELSE IF t = s /\ b = c THEN "SWAPPED" ELSE list[t][b]
           /\ heir'[b] = IF b = c THEN d ELSE heir[b]
           /\ loop'[t][b] = IF t = s /\ b = c THEN "received" ELSE loop[t][b]
    BY <1>5, <2>1, GotoAt DEF TransferReceiverFinalize, TypeOK, Coins
  <2>3. c \in Deposited
    BY <1>0, <1>5 DEF TransferReceiverFinalize
  <2>4. \A b \in Coin : heir'[b] = b \/ heir'[b] \notin Deposited
    BY <2>1, <2>2 DEF PlaceInv
  <2>5. ASSUME NEW t \in SessionId, NEW b \in Coin
        PROVE  /\ loop'[t][b] # "none" => b \in Deposited
               /\ loop'[t][b] \in {"received", "again", "spent"} =>
                      heir'[b] \notin Deposited /\ list'[t][b] = "SWAPPED"
    <3>1. /\ loop[t][b] # "none" => b \in Deposited
          /\ loop[t][b] \in {"received", "again", "spent"} =>
                 heir[b] \notin Deposited /\ list[t][b] = "SWAPPED"
      BY DEF PlaceInv
    <3>2. /\ list'[t][b] = IF t = s /\ b = d THEN "AVAILABLE"
                           ELSE IF t = s /\ b = c THEN "SWAPPED" ELSE list[t][b]
          /\ heir'[b] = IF b = c THEN d ELSE heir[b]
          /\ loop'[t][b] = IF t = s /\ b = c THEN "received" ELSE loop[t][b]
      BY <2>2
    <3>3. CASE b = c /\ t = s
      BY <2>1, <2>3, <3>2, <3>3
    <3>4. CASE b = c /\ t # s
      BY <2>1, <2>3, <3>1, <3>2, <3>4
    <3>5. CASE b # c
      BY <2>1, <3>1, <3>2, <3>5
    <3> QED  BY <3>3, <3>4, <3>5
  <2> QED  BY <1>0, <2>4, <2>5 DEF PlaceInv
<1>6. CASE HandleSwapError(s, c)
  <2>1. \A t \in SessionId, d \in Coin : t # s \/ d # c => list'[t][d] = list[t][d]
    BY <1>6, SaveCoinAt DEF HandleSwapError
  <2>2. loop[s][c] # "none" /\ heir' = heir
    BY <1>6 DEF HandleSwapError
  <2>3. \A t \in SessionId, d \in Coin :
           loop'[t][d] = IF t = s /\ d = c THEN "release" ELSE loop[t][d]
    BY <1>6, GotoAt DEF HandleSwapError
  <2> QED  BY <1>0, <2>1, <2>2, <2>3 DEF PlaceInv
<1>7. CASE ReceivedNotSaved(s, c)
  <2>1. \A t \in SessionId, d \in Coin :
           list'[t][d] = IF t = s /\ d = c THEN "AVAILABLE" ELSE list[t][d]
    BY <1>7 DEF ReceivedNotSaved, TypeOK, Coins
  <2>2. loop[s][c] # "none" /\ heir' = heir
    BY <1>7 DEF ReceivedNotSaved
  <2>3. \A t \in SessionId, d \in Coin :
           loop'[t][d] = IF t = s /\ d = c THEN "release" ELSE loop[t][d]
    BY <1>7, GotoAt DEF ReceivedNotSaved
  <2> QED  BY <1>0, <2>1, <2>2, <2>3 DEF PlaceInv
<1>8. CASE SaveNewStatecoin(s, c)
  <2>1. heir[c] \in Coin /\ heir[c] \notin Deposited /\ loop[s][c] = "received"
        /\ list[s][c] = "SWAPPED" /\ heir' = heir /\ c \in Deposited
    BY <1>8 DEF SaveNewStatecoin, TypeOK, PlaceInv
  <2>2. \A t \in SessionId, d \in Coin :
           list'[t][d] = IF t = s /\ d = heir[c] THEN "AVAILABLE" ELSE list[t][d]
    BY <1>8, <2>1, SaveCoinAt DEF SaveNewStatecoin
  <2>3. \A t \in SessionId, d \in Coin :
           loop'[t][d] = IF t = s /\ d = c THEN "again" ELSE loop[t][d]
    BY <1>8, GotoAt DEF SaveNewStatecoin
  <2> QED  BY <1>0, <2>1, <2>2, <2>3 DEF PlaceInv
<1>9. CASE SetStateCoinSpent(s, c)
  <2>1. loop[s][c] = "again" /\ heir' = heir
    BY <1>9 DEF SetStateCoinSpent
  <2>2. \A t \in SessionId, d \in Coin :
           list'[t][d] = IF t = s /\ d = c THEN "SWAPPED" ELSE list[t][d]
    BY <1>9, SaveCoinAt DEF SetStateCoinSpent
  <2>3. \A t \in SessionId, d \in Coin :
           loop'[t][d] = IF t = s /\ d = c THEN "spent" ELSE loop[t][d]
    BY <1>9, GotoAt DEF SetStateCoinSpent
  <2> QED  BY <1>0, <2>1, <2>2, <2>3 DEF PlaceInv
<1>10. CASE DoPostSwap(s, c) \/ DoPostSwapThrows(s, c)
  <2>1. \A t \in SessionId, d \in Coin :
           loop'[t][d] = IF t = s /\ d = c THEN "none" ELSE loop[t][d]
    BY <1>10, GotoAt DEF DoPostSwap, DoPostSwapThrows
  <2> QED  BY <1>0, <1>10, <2>1 DEF DoPostSwap, DoPostSwapThrows, PlaceInv
<1> QED  BY <1>1, <1>2, <1>3, <1>4, <1>5, <1>6, <1>7, <1>8, <1>9, <1>10 DEF LoopNext

(* A step of a loop that moves no permit makes no loss possible. *)
LEMMA LoopLosses ==
    ASSUME TypeOK, PlaceInv, NEW s \in SessionId, NEW c \in Coin, LoopNext(s, c),
           NEW t \in SessionId, NEW d \in Deposited, (Loss(t, d))'
    PROVE  Loss(t, d)
<1>0. UNCHANGED <<active, stop, taken, jammed, failures>> /\ d \in Coin /\ heir[d] \in Coin
      /\ heir[c] \in Coin
  BY LoopStays, SessionAssumption DEF TypeOK
<1>p. /\ loop[t][d] \in {"received", "again", "spent"} => heir[d] \notin Deposited
      /\ loop[s][c] \in {"received", "again", "spent"} => heir[c] \notin Deposited
      /\ loop[s][c] # "none" => c \in Deposited
  BY <1>0 DEF PlaceInv
<1>1. CASE ResumeSwap(s, c)
  <2>1. /\ loop'[t][d] = IF t = s /\ d = c THEN "check" ELSE loop[t][d]
        /\ list'[t][d] = list[t][d] \/ list[t][d] = "AVAILABLE"
    BY <1>0, <1>1, GotoAt DEF ResumeSwap, TypeOK, Coins
  <2> QED  BY <1>0, <1>1, <2>1 DEF ResumeSwap, Stays, Loss
<1>2. CASE CheckWalletStatus(s, c) \/ DoNext(s, c)
  <2>1. loop'[t][d] = loop[t][d]
        \/ (t = s /\ d = c /\ loop'[t][d] \in {"check", "step"} /\ loop[t][d] # "none")
    BY <1>0, <1>2, GotoAt DEF CheckWalletStatus, DoNext
  <2> QED  BY <1>0, <1>2, <2>1 DEF CheckWalletStatus, DoNext, Stays, Loss
<1>3. CASE MakeSwapCommitment(s, c)
  <2>1. /\ loop'[t][d] = IF t = s /\ d = c THEN "check" ELSE loop[t][d]
        /\ list'[t][d] = IF t = s /\ d = c THEN "PHASE4" ELSE list[t][d]
        /\ save'[t][d] = IF t = s /\ d = c THEN "coin" ELSE save[t][d]
        /\ save'[t][heir[d]] = IF t = s /\ heir[d] = c THEN "coin" ELSE save[t][heir[d]]
        /\ loop[s][c] = "step" /\ heir' = heir
    BY <1>0, <1>3, GotoAt, SaveCoinAt DEF MakeSwapCommitment
  <2> QED  BY <1>0, <2>1 DEF Loss
<1>4. CASE SaveRetried(s, c)
  <2>1. \A b \in Coin : save'[t][b] = "failed" => save[t][b] = "failed"
    BY <1>4 DEF SaveRetried, TypeOK
  <2> QED  BY <1>0, <1>4, <2>1 DEF SaveRetried, Loss
<1>5. CASE TransferReceiverFinalize(s, c)
  <2>1. PICK e \in Coin :
           /\ e # c /\ heir[c] = c /\ e \notin Deposited /\ loop[s][c] = "step"
           /\ heir' = [heir EXCEPT ![c] = e]
           /\ list' = [list EXCEPT ![s][c] = "SWAPPED", ![s][e] = "AVAILABLE"]
           /\ save' = [save EXCEPT ![s][e] = "coin"]
    BY <1>5 DEF TransferReceiverFinalize
  <2>2. /\ loop'[t][d] = IF t = s /\ d = c THEN "received" ELSE loop[t][d]
        /\ list'[t][d] = IF t = s /\ d = c THEN "SWAPPED" ELSE list[t][d]
        /\ heir'[d] = IF d = c THEN e ELSE heir[d]
    BY <1>0, <1>5, <2>1, GotoAt DEF TransferReceiverFinalize, TypeOK, Coins
  <2>3. \A b \in Coin : save'[t][b] = "failed" => save[t][b] = "failed"
    BY <2>1 DEF TypeOK
  <2>4. CASE d = c
    BY <1>0, <1>p, <2>1, <2>2, <2>3, <2>4 DEF Loss
  <2>5. CASE d # c
    BY <1>0, <1>p, <2>1, <2>2, <2>3, <2>5 DEF Loss
  <2> QED  BY <2>4, <2>5
<1>6. CASE HandleSwapError(s, c)
  <2>1. /\ list'[t][d] = list[t][d] \/ (t = s /\ d = c)
        /\ loop'[t][d] = IF t = s /\ d = c THEN "release" ELSE loop[t][d]
        /\ \A b \in Coin : save'[t][b] = "failed" => save[t][b] = "failed"
        /\ loop[s][c] # "none" /\ heir' = heir
    BY <1>0, <1>6, GotoAt, SaveCoinAt DEF HandleSwapError
  <2> QED  BY <1>0, <2>1 DEF Loss
<1>7. CASE ReceivedNotSaved(s, c)
  <2>1. /\ list'[t][d] = list[t][d] \/ (t = s /\ d = c)
        /\ loop'[t][d] = IF t = s /\ d = c THEN "release" ELSE loop[t][d]
        /\ loop[s][c] # "none" /\ heir' = heir
    BY <1>0, <1>7, GotoAt DEF ReceivedNotSaved, TypeOK, Coins
  <2>2. \A b \in Coin : save'[t][b] = "failed" => save[t][b] = "failed"
    BY <1>0, <1>7 DEF ReceivedNotSaved, TypeOK
  <2> QED  BY <1>0, <2>1, <2>2 DEF Loss
<1>8. CASE SaveNewStatecoin(s, c)
  <2>1. /\ loop'[t][d] = IF t = s /\ d = c THEN "again" ELSE loop[t][d]
        /\ list'[t][d] = IF t = s /\ d = heir[c] THEN "AVAILABLE" ELSE list[t][d]
        /\ \A b \in Coin : save'[t][b] = IF t = s /\ b = heir[c] THEN "coin" ELSE save[t][b]
        /\ loop[s][c] = "received" /\ heir' = heir
    BY <1>0, <1>8, GotoAt, SaveCoinAt DEF SaveNewStatecoin
  <2> QED  BY <1>0, <1>p, <2>1 DEF Loss
<1>9. CASE SetStateCoinSpent(s, c)
  <2>1. /\ loop'[t][d] = IF t = s /\ d = c THEN "spent" ELSE loop[t][d]
        /\ list'[t][d] = IF t = s /\ d = c THEN "SWAPPED" ELSE list[t][d]
        /\ \A b \in Coin : save'[t][b] = IF t = s /\ b = c THEN "coin" ELSE save[t][b]
        /\ loop[s][c] = "again" /\ heir' = heir
    BY <1>0, <1>9, GotoAt, SaveCoinAt DEF SetStateCoinSpent
  <2> QED  BY <1>0, <1>p, <2>1 DEF Loss
<1>10. CASE DoPostSwap(s, c) \/ DoPostSwapThrows(s, c)
  <2>1. /\ loop'[t][d] = IF t = s /\ d = c THEN "none" ELSE loop[t][d]
        /\ list' = list /\ loop[s][c] # "none" /\ heir' = heir
    BY <1>0, <1>10, GotoAt DEF DoPostSwap, DoPostSwapThrows
  <2>2. \A b \in Coin : save'[t][b] = "failed" => save[t][b] = "failed"
    <3>1. CASE DoPostSwap(s, c)
      BY <3>1 DEF DoPostSwap, TypeOK
    <3>2. CASE DoPostSwapThrows(s, c)
      BY <3>2 DEF DoPostSwapThrows, TypeOK
    <3> QED  BY <1>10, <3>1, <3>2
  <2> QED  BY <1>0, <2>1, <2>2 DEF Loss
<1> QED  BY <1>1, <1>2, <1>3, <1>4, <1>5, <1>6, <1>7, <1>8, <1>9, <1>10 DEF LoopNext

(* The loops hold their permits until they end. *)
LEMMA LoopAccounts ==
    ASSUME PermitInv, IsFiniteSet(Deposited), NEW s \in SessionId, NEW c \in Coin,
           LoopNext(s, c)
    PROVE  Accounts(Held, Claims, Losses, permits, failures)'
<1> DEFINE l == <<s, c>>
<1>1. /\ UNCHANGED <<active, stop, taken, jammed, failures>> /\ TypeOK /\ PlaceInv
      /\ permits \in Nat /\ failures \in Nat
      /\ Accounts(Held, Claims, Losses, permits, failures)
  BY LoopStays, Numbers DEF PermitInv
<1>2. /\ \A t \in SessionId, i \in 1 .. N : (Claim(t, i))' => Claim(t, i)
      /\ Claims' = Claims
  BY <1>1 DEF Claim, Claims
<1>3. /\ \A t \in SessionId, d \in Deposited : (Loss(t, d))' => Loss(t, d)
      /\ Losses' \in SUBSET Losses
  BY <1>1, LoopLosses, FewerLosses
<1>4. CASE ResumeSwap(s, c)
  <2>1. /\ permits > 0 /\ permits' = permits - 1 /\ loop[s][c] = "queue"
        /\ \A t \in SessionId, d \in Coin :
              loop'[t][d] = IF t = s /\ d = c THEN "check" ELSE loop[t][d]
    BY <1>1, <1>4, GotoAt DEF ResumeSwap
  <2>2. Held' = Held \union {l} /\ l \notin Held
    BY <2>1 DEF Held, HoldsPermit
  <2>3. permits - 1 \in Nat
    BY <1>1, <2>1
  <2>4. Accounts(Held \union {l}, Claims, Losses, permits - 1, failures)
    BY <1>1, <2>1, <2>2, PermitTaken
  <2>5. Accounts(Held \union {l}, Claims, Losses', permits - 1, failures)
    BY <1>1, <1>3, <2>3, <2>4, LessClaimed
  <2> QED  BY <1>1, <1>2, <2>1, <2>2, <2>5
<1>5. CASE DoPostSwap(s, c)
  <2>1. /\ permits' = permits + 1 /\ loop[s][c] \in {"release", "spent"}
        /\ \A t \in SessionId, d \in Coin :
              loop'[t][d] = IF t = s /\ d = c THEN "none" ELSE loop[t][d]
    BY <1>1, <1>5, GotoAt DEF DoPostSwap
  <2>2. Held' = Held \ {l} /\ l \in Held
    BY <2>1 DEF Held, HoldsPermit
  <2>3. permits + 1 \in Nat
    BY <1>1
  <2>4. Accounts(Held \ {l}, Claims, Losses, permits + 1, failures)
    BY <1>1, <2>2, PermitBack
  <2>5. Accounts(Held \ {l}, Claims, Losses', permits + 1, failures)
    BY <1>1, <1>3, <2>3, <2>4, LessClaimed
  <2> QED  BY <1>1, <1>2, <2>1, <2>2, <2>5
<1>6. CASE DoPostSwapThrows(s, c)
  <2>1. /\ permits' = permits /\ list' = list
        /\ \/ loop[s][c] = "again" /\ save[s][heir[c]] = "failed"
           \/ loop[s][c] = "spent" /\ save[s][c] = "failed"
        /\ \A t \in SessionId, d \in Coin :
              loop'[t][d] = IF t = s /\ d = c THEN "none" ELSE loop[t][d]
    BY <1>1, <1>6, GotoAt DEF DoPostSwapThrows, Stays
  <2>2. Held' = Held \ {l} /\ l \in Held
    BY <2>1 DEF Held, HoldsPermit
  <2>3. c \in Deposited /\ list[s][c] = "SWAPPED"
    BY <1>1, <2>1 DEF PlaceInv
  <2>4. l \in Losses
    BY <2>1, <2>3 DEF Losses, Loss
  <2>5. ~(Loss(s, c))'
    BY <1>1, <2>1, <2>3 DEF Loss
  <2>6. l \notin Losses'
    BY <2>5 DEF Losses
  <2>7. Accounts(Held \ {l}, Claims, Losses', permits, failures)
    BY <1>1, <1>3, <2>2, <2>4, <2>6, Gone
  <2> QED  BY <1>1, <1>2, <2>1, <2>2, <2>7
<1>7. CASE ~(ResumeSwap(s, c) \/ DoPostSwap(s, c) \/ DoPostSwapThrows(s, c))
  <2>1. permits' = permits
        /\ \/ loop' = loop
           \/ \E p \in {"check", "step", "received", "again", "spent", "release"} :
                 loop[s][c] \notin {"none", "queue"} /\ Goto(s, c, p)
    BY <1>7 DEF LoopNext, CheckWalletStatus, DoNext, MakeSwapCommitment, SaveRetried,
                TransferReceiverFinalize, HandleSwapError, ReceivedNotSaved,
                SaveNewStatecoin, SetStateCoinSpent, Stays
  <2>2. \A t \in SessionId, d \in Coin : (HoldsPermit(t, d))' <=> HoldsPermit(t, d)
    <3>1. CASE loop' = loop
      BY <3>1 DEF HoldsPermit
    <3>2. ASSUME NEW p \in {"check", "step", "received", "again", "spent", "release"},
                 loop[s][c] \notin {"none", "queue"}, Goto(s, c, p)
          PROVE  \A t \in SessionId, d \in Coin : (HoldsPermit(t, d))' <=> HoldsPermit(t, d)
      BY <1>1, <3>2, GotoAt DEF HoldsPermit
    <3> QED  BY <2>1, <3>1, <3>2
  <2> QED  BY <1>1, <1>2, <1>3, <2>1, <2>2, NoPermitMoves
<1> QED  BY <1>4, <1>5, <1>6, <1>7

(* A write that succeeds forgets nothing a stop needs; one that fails may   *)
(* cost the permit of every loop of its session.                            *)
LEMMA SaveAccounts ==
    ASSUME PermitInv, IsFiniteSet(Deposited), NEW s \in SessionId, NEW c \in Coin,
           SaveNext(s, c) \/ SaveThrows(s, c)
    PROVE  PlaceInv' /\ Accounts(Held, Claims, Losses, permits, failures)'
<1>1. /\ UNCHANGED <<active, stop, taken, loop, list, heir, permits>> /\ TypeOK /\ PlaceInv
      /\ permits \in Nat /\ failures \in Nat
      /\ Accounts(Held, Claims, Losses, permits, failures)
  BY Numbers DEF PermitInv, SaveNext, SaveStateCoin, DeleteStateCoin, SaveItem, SaveThrows
<1>2. PlaceInv'
  BY <1>1 DEF PlaceInv
<1>3. /\ \A t \in SessionId, d \in Coin : (HoldsPermit(t, d))' <=> HoldsPermit(t, d)
      /\ \A t \in SessionId, i \in 1 .. N : (Claim(t, i))' => Claim(t, i)
      /\ Claims' = Claims /\ Held' = Held
  BY <1>1 DEF HoldsPermit, Claim, Claims, Held
<1>4. CASE SaveNext(s, c)
  <2>1. \A t \in SessionId, b \in Coin : save'[t][b] = "failed" => save[t][b] = "failed"
    <3>1. CASE SaveStateCoin(s, c)
      BY <1>1, <3>1 DEF SaveStateCoin, TypeOK
    <3>2. CASE DeleteStateCoin(s, c)
      BY <1>1, <3>2 DEF DeleteStateCoin, TypeOK
    <3>3. CASE SaveItem(s, c)
      BY <1>1, <3>3 DEF SaveItem, TypeOK
    <3> QED  BY <1>4, <3>1, <3>2, <3>3 DEF SaveNext
  <2>2. jammed' = jammed /\ failures' = failures
    BY <1>4 DEF SaveNext, SaveStateCoin, DeleteStateCoin, SaveItem
  <2>3. \A t \in SessionId, d \in Deposited : d \in Coin /\ heir[d] \in Coin
    BY <1>1, SessionAssumption DEF TypeOK
  <2>4. \A t \in SessionId, d \in Deposited : (Loss(t, d))' => Loss(t, d)
    BY <1>1, <2>1, <2>2, <2>3 DEF Loss
  <2> QED  BY <1>1, <1>2, <1>3, <2>2, <2>4, NoPermitMoves
<1>5. CASE SaveThrows(s, c)
  <2>1. /\ failures' = failures + 1 /\ (jammed' = jammed \/ jammed' = jammed \union {s})
        /\ \A t \in SessionId : t # s => save'[t] = save[t]
    BY <1>1, <1>5 DEF SaveThrows, TypeOK
  <2>2. \A t \in SessionId, d \in Deposited : t # s /\ (Loss(t, d))' => Loss(t, d)
    BY <1>1, <2>1 DEF Loss
  <2>3. Losses' \in SUBSET (Losses \union ({s} \X Deposited))
    BY <2>2 DEF Losses
  <2>4. Accounts(Held, Claims, Losses', permits, failures + 1)
    BY <1>1, <2>3, Failed
  <2> QED  BY <1>1, <1>2, <1>3, <2>1, <2>4
<1> QED  BY <1>4, <1>5

(* The user's operations on a coin concern no coin that was swapped. *)
LEMMA CoinAccounts ==
    ASSUME PermitInv, IsFiniteSet(Deposited), NEW c \in Coin,
           DepositConfirmed(c) \/ RemoveStatecoin(c) \/ DoSwap(c)
    PROVE  PlaceInv' /\ Accounts(Held, Claims, Losses, permits, failures)'
<1> DEFINE s == wallet
<1>1. /\ s \in SessionId /\ TypeOK /\ PlaceInv
      /\ UNCHANGED <<active, stop, taken, jammed, heir, permits, failures>>
  BY DEF PermitInv, TypeOK, DepositConfirmed, RemoveStatecoin, DoSwap, SaveCoin, Stays, NoFile
<1>2. list[s][c] \notin {"SWAPPED"}
  BY DEF DepositConfirmed, RemoveStatecoin, DoSwap
<1>3. \A t \in SessionId, d \in Coin :
         /\ list'[t][d] = list[t][d] \/ (t = s /\ d = c)
         /\ save'[t][d] = "failed" => save[t][d] = "failed"
         /\ \/ loop'[t][d] = loop[t][d]
            \/ t = s /\ d = c /\ c \in Deposited /\ loop[t][d] = "none" /\ loop'[t][d] = "queue"
  <2>1. CASE DepositConfirmed(c)
    BY <1>1, <2>1, SaveCoinAt DEF DepositConfirmed
  <2>2. CASE RemoveStatecoin(c)
    BY <1>1, <2>2 DEF RemoveStatecoin, TypeOK, Coins
  <2>3. CASE DoSwap(c)
    BY <1>1, <2>3, GotoAt DEF DoSwap
  <2> QED  BY <2>1, <2>2, <2>3
<1>4. PlaceInv'
  <2> SUFFICES ASSUME NEW t \in SessionId, NEW d \in Coin
               PROVE  /\ loop'[t][d] # "none" => d \in Deposited
                      /\ loop'[t][d] \in {"received", "again", "spent"} =>
                             heir[d] \notin Deposited /\ list'[t][d] = "SWAPPED"
    BY <1>1 DEF PlaceInv
  <2>1. /\ loop[t][d] # "none" => d \in Deposited
        /\ loop[t][d] \in {"received", "again", "spent"} =>
               heir[d] \notin Deposited /\ list[t][d] = "SWAPPED"
    BY <1>1 DEF PlaceInv
  <2> QED  BY <1>2, <1>3, <2>1
<1>5. \A t \in SessionId, d \in Coin : (HoldsPermit(t, d))' <=> HoldsPermit(t, d)
  BY <1>3 DEF HoldsPermit
<1>6. \A t \in SessionId, i \in 1 .. N : (Claim(t, i))' => Claim(t, i)
  BY <1>1 DEF Claim
<1>7. \A d \in Deposited : d \in Coin /\ heir[d] \in Coin
  BY <1>1, SessionAssumption DEF TypeOK
<1>8. \A t \in SessionId, d \in Deposited : (Loss(t, d))' => Loss(t, d)
  BY <1>1, <1>2, <1>3, <1>7 DEF Loss
<1> QED  BY <1>1, <1>4, <1>5, <1>6, <1>8, NoPermitMoves

(* A stop takes what it claims, and a load brings what its stop will claim. *)
LEMMA WalletAccounts ==
    ASSUME PermitInv, IsFiniteSet(Deposited), NEW s \in SessionId,
           SaveWallet(s) \/ StopNext(s) \/ LoadWallet(s)
    PROVE  PlaceInv' /\ Accounts(Held, Claims, Losses, permits, failures)'
<1>1. /\ TypeOK /\ PlaceInv /\ permits \in Nat /\ failures \in Nat
      /\ Accounts(Held, Claims, Losses, permits, failures)
      /\ loop' = loop /\ heir' = heir /\ failures' = failures
      /\ Held' = Held
      /\ \A t \in SessionId, d \in Coin : (HoldsPermit(t, d))' <=> HoldsPermit(t, d)
  BY Numbers DEF PermitInv, SaveWallet, memory, StopNext, StopAcquires, StopReturns, NoFile,
                 LoadWallet, Held, HoldsPermit
<1>2. CASE SaveWallet(s)
  BY <1>1, <1>2, NoPermitMoves DEF SaveWallet, memory, PlaceInv, Claim, Loss
<1>3. CASE StopAcquires(s)
  <2> DEFINE n == Min({permits, N - taken[s]})
             a == taken[s]
             K == {s} \X (a + 1 .. a + n)
  <2>1. a \in Nat /\ N \in Nat /\ a <= N /\ permits \in Nat
    BY <1>1, SessionAssumption DEF TypeOK
  <2>2. n \in Nat /\ n <= permits /\ n <= N - a
    BY <2>1, MinOfTwo
  <2>3. /\ permits' = permits - n /\ stop[s] = "taking" /\ ~active[s]
        /\ taken' = [taken EXCEPT ![s] = a + n]
        /\ UNCHANGED <<active, stop, list, save, jammed, loop, heir>>
    BY <1>1, <1>3 DEF StopAcquires, PlaceInv
  <2> HIDE DEF n
  <2>4. K \subseteq Claims
    BY <2>1, <2>2, <2>3 DEF Claims, Claim
  <2>5. Claims' \in SUBSET (Claims \ K)
    <3>1. \A t \in SessionId, i \in 1 .. N : (Claim(t, i))' => Claim(t, i)
      BY <1>1, <2>1, <2>2, <2>3 DEF Claim, TypeOK
    <3>2. \A i \in 1 .. N : (Claim(s, i))' => i > a + n
      BY <1>1, <2>1, <2>2, <2>3 DEF Claim, TypeOK
    <3>3. \A l \in Claims' : l \in Claims
      BY <3>1 DEF Claims
    <3>4. \A l \in Claims' : l \notin K
      BY <2>1, <2>2, <3>2 DEF Claims
    <3> QED  BY <3>3, <3>4
  <2>6. Losses' = Losses
    BY <2>3 DEF Losses, Loss
  <2>7. /\ a + n \in Nat /\ a <= a + n /\ (a + n) - a = n
        /\ (a + n) - a <= permits /\ permits - n \in Nat
    BY <2>1, <2>2
  <2>8. Accounts(Held, Claims \ K, Losses, permits - ((a + n) - a), failures)
    <3> DEFINE b == a + n
    <3>1. b \in Nat /\ a <= b /\ b - a <= permits
      BY <2>7
    <3>2. ({s} \X (a + 1 .. b)) \subseteq Claims
      BY <2>4
    <3> HIDE DEF b
    <3>3. Accounts(Held, Claims \ ({s} \X (a + 1 .. b)), Losses, permits - (b - a), failures)
      BY <1>1, <2>1, <3>1, <3>2, StopTakes
    <3> QED  BY <3>3 DEF b
  <2>9. Accounts(Held, Claims \ K, Losses, permits - n, failures)
    BY <2>7, <2>8
  <2> HIDE DEF K
  <2>10. Losses \in SUBSET Losses
    OBVIOUS
  <2>11. Accounts(Held, Claims', Losses, permits - n, failures)
    BY <1>1, <2>5, <2>7, <2>9, <2>10, LessClaimed
  <2> QED  BY <1>1, <2>3, <2>6, <2>11 DEF PlaceInv
<1>4. CASE StopReturns(s)
  <2>1. /\ UNCHANGED <<active, taken, list, save, jammed, loop, permits, heir>>
        /\ stop[s] = "taking"
        /\ \A t \in SessionId : stop'[t] = IF t = s THEN "done" ELSE stop[t]
    BY <1>1, <1>4 DEF StopReturns, TypeOK
  <2>2. \A t \in SessionId, i \in 1 .. N : (Claim(t, i))' => Claim(t, i)
    BY <2>1 DEF Claim
  <2>3. \A t \in SessionId, d \in Deposited : (Loss(t, d))' => Loss(t, d)
    BY <2>1 DEF Loss
  <2> QED  BY <1>1, <2>1, <2>2, <2>3, NoPermitMoves DEF PlaceInv
<1>5. CASE LoadWallet(s)
  <2>1. /\ permits' = permits + N /\ jammed' = jammed \ {s}
        /\ \A c \in Coin : loop[s][c] = "none"
        /\ \A t \in SessionId : t # s => /\ active'[t] = active[t] /\ stop'[t] = stop[t]
                                         /\ taken'[t] = taken[t] /\ list'[t] = list[t]
                                         /\ save'[t] = save[t]
        /\ stop'[s] = "no"
    BY <1>1, <1>5 DEF LoadWallet, Busy, TypeOK
  <2>2. PlaceInv'
    BY <1>1, <2>1 DEF PlaceInv
  <2>3. Claims' \in SUBSET (Claims \union ({s} \X (1 .. N)))
    <3>1. \A t \in SessionId, i \in 1 .. N : t # s /\ (Claim(t, i))' => Claim(t, i)
      BY <2>1 DEF Claim
    <3> QED  BY <3>1 DEF Claims
  <2>4. Losses' \in SUBSET Losses
    <3>1. \A d \in Deposited : d \in Coin
      BY SessionAssumption
    <3>2. \A t \in SessionId, d \in Deposited : (Loss(t, d))' => Loss(t, d)
      BY <1>1, <2>1, <3>1 DEF Loss
    <3> QED  BY <3>2, FewerLosses
  <2>5. Accounts(Held, Claims \union ({s} \X (1 .. N)), Losses, permits + N, failures)
    BY <1>1, LoadAdds
  <2>6. permits + N \in Nat
    BY <1>1, SessionAssumption
  <2>7. Accounts(Held, Claims', Losses', permits + N, failures)
    BY <1>1, <2>3, <2>4, <2>5, <2>6, LessClaimed
  <2> QED  BY <1>1, <2>1, <2>2, <2>7
<1> QED  BY <1>2, <1>3, <1>4, <1>5 DEF StopNext

(* A restart begins with N permits and nobody who claims them. *)
LEMMA FreshAccounts ==
    ASSUME IsFiniteSet(Deposited), NEW f \in Nat
    PROVE  Accounts({}, {}, {}, N, f)
<1>1. IsFiniteSet({}) /\ Cardinality({}) = 0
  BY FS_EmptySet
<1>2. Cardinality(Deposited) \in Nat
  BY FS_CardinalityType
<1>3. 0 + 0 <= f * Cardinality(Deposited) /\ N + 0 <= N + 0 + 0
  BY <1>2, SessionAssumption
<1> QED  BY <1>1, <1>3 DEF Accounts

LEMMA AppAccounts ==
    ASSUME PermitInv, IsFiniteSet(Deposited), StopWallet \/ UnloadWallet \/ Crash
    PROVE  PlaceInv' /\ Accounts(Held, Claims, Losses, permits, failures)'
<1>1. TypeOK /\ PlaceInv /\ failures \in Nat
  BY Numbers DEF PermitInv
<1>2. CASE StopWallet
  <2>1. /\ UNCHANGED <<list, save, jammed, loop, permits, heir, failures>>
        /\ wallet \in SessionId /\ active[wallet]
        /\ \A t \in SessionId :
              /\ active'[t] = IF t = wallet THEN FALSE ELSE active[t]
              /\ stop'[t] = IF t = wallet THEN "taking" ELSE stop[t]
        /\ taken' = taken
    BY <1>1, <1>2 DEF StopWallet, NoFile, TypeOK
  <2>2. \A t \in SessionId, i \in 1 .. N : (Claim(t, i))' => Claim(t, i)
    BY <2>1 DEF Claim
  <2>3. \A t \in SessionId, d \in Coin : (HoldsPermit(t, d))' <=> HoldsPermit(t, d)
    BY <2>1 DEF HoldsPermit
  <2>4. \A t \in SessionId, d \in Deposited : (Loss(t, d))' => Loss(t, d)
    BY <2>1 DEF Loss
  <2>5. PlaceInv'
    BY <1>1, <2>1 DEF PlaceInv
  <2> QED  BY <2>1, <2>2, <2>3, <2>4, <2>5, NoPermitMoves
<1>3. CASE UnloadWallet
  BY <1>1, <1>3, NoPermitMoves DEF UnloadWallet, memory, PlaceInv, HoldsPermit, Claim, Loss
<1>4. CASE Crash
  <2>1. \A t \in SessionId : /\ ~active'[t] /\ stop'[t] = "no"
                             /\ \A d \in Coin : loop'[t][d] = "none"
    BY <1>4 DEF Crash
  <2>2. jammed' = {} /\ heir' = heir /\ permits' = N /\ failures' = failures
    BY <1>4 DEF Crash
  <2>3. Held' = {} /\ Claims' = {}
    BY <2>1 DEF Held, HoldsPermit, Claims, Claim
  <2>4. Losses' = {}
    BY <2>1, <2>2, SessionAssumption DEF Losses, Loss
  <2>5. PlaceInv'
    BY <1>1, <2>1, <2>2 DEF PlaceInv
  <2> QED  BY <1>1, <2>2, <2>3, <2>4, <2>5, FreshAccounts
<1> QED  BY <1>2, <1>3, <1>4

LEMMA PermitInit == ASSUME IsFiniteSet(Deposited), Init PROVE PermitInv
<1>1. TypeOK
  BY InitInv DEF Inv
<1>2. PlaceInv
  BY SessionAssumption DEF Init, PlaceInv
<1>3. Held = {} /\ Claims = {} /\ Losses = {}
  BY SessionAssumption DEF Init, Held, HoldsPermit, Claims, Claim, Losses, Loss
<1>4. permits = N /\ failures = 0 /\ 0 \in Nat
  BY DEF Init
<1> QED  BY <1>1, <1>2, <1>3, <1>4, FreshAccounts DEF PermitInv

LEMMA PermitStep == ASSUME IsFiniteSet(Deposited), PermitInv, [Next]_vars PROVE PermitInv'
<1>1. TypeOK'
  BY TypeStep DEF PermitInv
<1>2. CASE UNCHANGED vars
  BY <1>1, <1>2, NoPermitMoves
     DEF vars, memory, PermitInv, PlaceInv, HoldsPermit, Claim, Loss
<1>3. CASE Next
  <2>1. TypeOK /\ PlaceInv
    BY DEF PermitInv
  <2>2. PlaceInv' /\ Accounts(Held, Claims, Losses, permits, failures)'
    BY <1>3, <2>1, SaveAccounts, LoopPlace, LoopAccounts, CoinAccounts, WalletAccounts,
       AppAccounts DEF Next, WalletLoad, ReloadWallet
  <2> QED  BY <1>1, <2>2 DEF PermitInv
<1> QED  BY <1>2, <1>3

(* What the accounts say of a stop: at least N permits are neither gone nor *)
(* held by loops that cannot end.                                           *)
LEMMA EnoughPermits ==
    ASSUME IsFiniteSet(Deposited), PermitInv, failures * Cardinality(Deposited) <= N
    PROVE  StopNotStarved
<1> SUFFICES ASSUME NEW s \in SessionId, stop[s] = "taking"
             PROVE  N <= permits + taken[s]
                      + Cardinality({l \in (SessionId \ jammed) \X Coin :
                                        HoldsPermit(l[1], l[2])})
  BY DEF StopNotStarved
<1> DEFINE E == {l \in (SessionId \ jammed) \X Coin : HoldsPermit(l[1], l[2])}
           K == {s} \X (taken[s] + 1 .. N)
<1>1. /\ TypeOK /\ PlaceInv /\ permits \in Nat /\ failures \in Nat
      /\ taken[s] \in Nat /\ N \in Nat /\ taken[s] <= N
  BY Numbers, SessionAssumption DEF PermitInv, TypeOK
<1>2. IsFiniteSet(Held) /\ IsFiniteSet(Claims) /\ IsFiniteSet(Losses)
  BY DEF PermitInv, Accounts
<1>3. PICK g \in Nat : /\ N + Cardinality(Claims) <= permits + Cardinality(Held) + g
                       /\ g + Cardinality(Losses) <= failures * Cardinality(Deposited)
  BY DEF PermitInv, Accounts
<1>4. K \subseteq Claims
  BY <1>1 DEF Claims, Claim
<1>5. Cardinality(K) = N - taken[s] /\ Cardinality(K) <= Cardinality(Claims)
  <2>1. Cardinality(K) = N - taken[s]
    BY <1>1, Numbered
  <2> HIDE DEF K
  <2>2. Cardinality(K) <= Cardinality(Claims)
    BY <1>2, <1>4, FS_Subset
  <2> QED  BY <2>1, <2>2
<1>6. E \subseteq Held
  BY DEF Held
<1>7. Held \subseteq E \union Losses
  BY <1>1 DEF Held, Losses, Loss, HoldsPermit, PlaceInv
<1> HIDE DEF E, K
<1>8. IsFiniteSet(E)
  BY <1>2, <1>6, FS_Subset
<1>9. /\ IsFiniteSet(E \union Losses) /\ IsFiniteSet(E \intersect Losses)
      /\ Cardinality(E \union Losses)
           = Cardinality(E) + Cardinality(Losses) - Cardinality(E \intersect Losses)
  BY <1>2, <1>8, FS_Union, FS_Subset
<1>10. Cardinality(Held) <= Cardinality(E \union Losses)
  BY <1>7, <1>9, FS_Subset
<1>11. /\ Cardinality(E) \in Nat /\ Cardinality(Losses) \in Nat /\ Cardinality(Held) \in Nat
       /\ Cardinality(E \intersect Losses) \in Nat /\ Cardinality(Claims) \in Nat
       /\ Cardinality(Deposited) \in Nat
  BY <1>2, <1>8, <1>9, FS_CardinalityType
<1>12. failures * Cardinality(Deposited) \in Nat
  BY <1>1, <1>11
<1>13. g + Cardinality(Losses) <= N
  BY <1>1, <1>3, <1>11, <1>12
<1>14. N <= permits + taken[s] + Cardinality(E)
  BY <1>1, <1>3, <1>5, <1>9, <1>10, <1>11, <1>13
<1> QED  BY <1>14 DEF E

(***************************************************************************)
(* The theorems.                                                           *)
(***************************************************************************)
THEOREM Invariance == Spec => []Inv
  BY InitInv, StepInv, PTL DEF Spec

(* The variables of a session and of the file keep their types. *)
THEOREM SessionTyping == Spec => []TypeOK
<1>1. Inv => TypeOK
  BY DEF Inv
<1> QED  BY <1>1, Invariance, PTL

(* No coin that was saved is lost, whatever sessions write over each other *)
(* and wherever writes fail or the application dies: a load finds it.      *)
THEOREM CoinsKept == Spec => []NothingLost
<1>1. Inv => NothingLost
  <2> SUFFICES ASSUME Inv PROVE NothingLost
    OBVIOUS
  <2>1. file \in File
    BY DEF Inv, TypeOK
  <2> QED  BY <2>1, Quick DEF Inv, KeptInv, NothingLost, In, Loaded, SwappedIn
<1> QED  BY <1>1, Invariance, PTL

(* While one session alone writes the file and no write fails, a load      *)
(* gives back every coin whose save is done.                               *)
THEOREM LoadGivesSaved == Spec => []SavedIsLoaded
<1>1. Inv => SavedIsLoaded
  <2> SUFFICES ASSUME Inv, NEW s \in tidy, NEW c \in Coin, Saved(s, c), Saved(s, heir[c])
               PROVE  LET f == LoadStatecoinsQuick(file) IN
                      \/ list[s][c] = "SWAPPED" /\ f.obj[c] = "NONE" /\ c \in f.ids
                      \/ ResetStatus(f.obj[c]) = ResetStatus(list[s][c])
    BY DEF SavedIsLoaded
  <2>1. file \in File /\ Agrees(file, s, c)
    BY DEF Inv, TypeOK, TidyInv, Saved
  <2> QED  BY <2>1, Quick DEF Agrees
<1> QED  BY <1>1, Invariance, PTL

(* While the writes that failed are too few to cost N permits, one for each *)
(* deposited coin, a wallet that is being stopped can get its permits,      *)
(* whatever old wallets' loops hold and wherever the application died.      *)
THEOREM StopGetsPermits ==
    ASSUME IsFiniteSet(Deposited)
    PROVE  Spec => [](failures * Cardinality(Deposited) <= N => StopNotStarved)
<1>1. Init => PermitInv
  BY PermitInit
<1>2. PermitInv /\ [Next]_vars => PermitInv'
  BY PermitStep
<1>3. PermitInv => (failures * Cardinality(Deposited) <= N => StopNotStarved)
  BY EnoughPermits
<1> QED  BY <1>1, <1>2, <1>3, PTL DEF Spec

(* So it can in every behaviour whose failing writes are that few. *)
THEOREM StopNeverStarved ==
    ASSUME IsFiniteSet(Deposited), MaxFailures * Cardinality(Deposited) <= N
    PROVE  Spec => []StopNotStarved
<1>1. TypeOK => failures * Cardinality(Deposited) <= N
  <2> SUFFICES ASSUME TypeOK PROVE failures * Cardinality(Deposited) <= N
    OBVIOUS
  <2>1. failures \in Nat /\ MaxFailures \in Nat /\ failures <= MaxFailures
    BY SessionAssumption DEF TypeOK
  <2>2. Cardinality(Deposited) \in Nat
    BY FS_CardinalityType
  <2>3. \A a, b, d \in Nat : a <= b => a * d <= b * d /\ a * d \in Nat /\ b * d \in Nat
    OBVIOUS
  <2>4. failures * Cardinality(Deposited) <= MaxFailures * Cardinality(Deposited)
    BY <2>1, <2>2, <2>3
  <2> QED  BY <2>1, <2>2, <2>3, <2>4, SessionAssumption
<1> QED  BY <1>1, SessionTyping, StopGetsPermits, PTL

=============================================================================
