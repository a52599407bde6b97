-------------------------- MODULE AutoSwap_proofs --------------------------
(***************************************************************************)
(* Proofs about AutoSwap, for any number of coins, values, clicks and      *)
(* faults: the types, that the coins that wait for the interval have their *)
(* auto swap on, and that single swap mode keeps the coins of one value    *)
(* apart.                                                                  *)
(***************************************************************************)
EXTENDS AutoSwap, SequenceTheorems, FiniteSetTheorems, WellFoundedInduction, TLAPS

CoinRec == [value : Value,
            status : {"AVAILABLE", "AWAITING_SWAP", "IN_SWAP", "SPENT", "ELSEWHERE"},
            phase4 : BOOLEAN, auto : BOOLEAN, given : BOOLEAN]
CallRec == [by : {"nobody", "hand", "auto", "load"},
            at : {"none", "starting", "loop", "over", "rejected"}, heir : Nat]
LeavingRec == [coin : Nat, by : {"toggle", "leave"}, at : {"asked", "saved"}]

(* The coins; only a coin in a swap is in phase 4. *)
CoinsInv ==
    /\ single \in BOOLEAN /\ active \in BOOLEAN /\ online \in BOOLEAN
    /\ coin \in Seq(CoinRec)
    /\ Len(coin) <= Len(InitValues[single]) + MaxReceived
    /\ \A c \in DOMAIN coin : coin[c].phase4 => coin[c].status = "IN_SWAP"

(* The calls of do_swap; one that is not under way is NoCall. *)
CallsInv ==
    /\ calls \in [Slot -> CallRec]
    /\ \A k \in Slot :
         /\ calls[k].heir # 0 => calls[k].heir \in DOMAIN coin
         /\ calls[k].at = "none" => calls[k] = NoCall
         /\ calls[k].at # "none" => calls[k].by # "nobody" /\ k[1] \in DOMAIN coin

(* The lists of the Redux store, and the coins that leave the pool. *)
ListsInv ==
    /\ pending \in Seq(DOMAIN coin) /\ IsInjective(pending)
    /\ inSwapValues \in SUBSET Value
    /\ leaving \in SUBSET LeavingRec /\ \A l \in leaving : l.coin \in DOMAIN coin

(* Until a swap that a load resumed is over, its coin is in phase 4 and in *)
(* no other loop: so such a swap never fails in registration, which would  *)
(* switch auto swap off without a handler to take the coin off the list.   *)
ResumedInv ==
    \A k \in Slot :
        calls[k].by = "load" =>
            /\ calls[k].at \in {"loop", "over"}
            /\ calls[k].at = "loop" =>
                 /\ coin[k[1]].phase4
                 /\ \A i \in {1, 2} : i # k[2] => calls[<<k[1], i>>].at # "loop"

(* A call whose handler will take the coin off the list. *)
Handled(k) == calls[k].at # "none" /\ calls[k].by \in {"hand", "auto"}

(* A coin of the list has its switch on, or was there when a wallet was    *)
(* loaded or put there by a call left over, or has a call whose handler is *)
(* still to run.                                                           *)
PendingInv ==
    \A c \in Range(pending) :
        coin[c].auto \/ c \in stale \/ \E i \in {1, 2} : Handled(<<c, i>>)

(* In single swap mode the value of a call that has a handler is in use    *)
(* until the handler has run, and no second call has that value.           *)
SingleInv ==
    single => \A k \in Slot :
        Handled(k) /\ coin[k[1]].value \notin freed =>
            /\ coin[k[1]].value \in inSwapValues
            /\ \A j \in Slot :
                 Handled(j) /\ coin[j[1]].value = coin[k[1]].value => j = k

IsLeftover(l) ==
    /\ l = [coin |-> l.coin, call |-> l.call, load |-> l.load, by |-> l.by, at |-> l.at,
            heir |-> l.heir, auto |-> l.auto, heirAuto |-> l.heirAuto]
    /\ l.by \in {"hand", "auto", "load"}
    /\ l.at \in {"starting", "loop", "over", "rejected"}
    /\ l.auto \in BOOLEAN /\ l.heirAuto \in BOOLEAN

(* The calls left over by unloaded wallets. *)
LeftInv ==
    \A l \in leftover :
        /\ IsLeftover(l)
        /\ l.coin \in DOMAIN coin
        /\ l.heir # 0 => l.heir \in DOMAIN coin

(* They too hold their values, against each other and the wallet's calls. *)
LeftSingleInv ==
    single => \A l \in leftover :
        l.by # "load" /\ coin[l.coin].value \notin freed =>
            /\ coin[l.coin].value \in inSwapValues
            /\ \A m \in leftover :
                 m.by # "load" /\ coin[m.coin].value = coin[l.coin].value => m = l
            /\ \A k \in Slot : Handled(k) => coin[k[1]].value # coin[l.coin].value

Inv == /\ CoinsInv /\ CallsInv /\ ListsInv /\ ResumedInv /\ PendingInv
       /\ SingleInv /\ LeftInv /\ LeftSingleInv

(* Induction over the natural numbers, for a set instead of an operator. *)
LEMMA SetInduction ==
    ASSUME NEW T \in SUBSET Nat, 0 \in T, \A n \in T : n + 1 \in T
    PROVE  T = Nat
<1> SUFFICES ASSUME Nat \ T # {} PROVE FALSE
  OBVIOUS
<1> DEFINE Ups == {1..n : n \in Nat \ T}
<1>1. Ups \subseteq FiniteSubsetsOf(Nat) /\ Ups # {}
  <2>1. \A n \in Nat : IsFiniteSet(1..n) /\ 1..n \subseteq Nat
    BY FS_Interval
  <2> QED BY <2>1 DEF FiniteSubsetsOf
<1>2. PICK u \in Ups : \A v \in Ups : ~(<<v, u>> \in StrictSubsetOrdering(Nat))
  <2> HIDE DEF Ups
  <2> QED BY <1>1, FS_StrictSubsetOrderingWellFounded, WFMin
<1>3. PICK n \in Nat \ T : u = 1..n
  BY DEF Ups
<1>4. n # 0 /\ n - 1 \in Nat /\ (n - 1) + 1 = n
  OBVIOUS
<1>5. 1..(n - 1) \in Ups
  BY <1>4
<1>6. 1..(n - 1) \subseteq 1..n /\ n \in 1..n /\ n \notin 1..(n - 1) /\ 1..n \subseteq Nat
  BY <1>4
<1>7. <<1..(n - 1), 1..n>> \in StrictSubsetOrdering(Nat)
  BY <1>6 DEF StrictSubsetOrdering
<1> QED BY <1>2, <1>3, <1>5, <1>7

-----------------------------------------------------------------------------
(***************************************************************************)
(* The operators on the lists, which run through a list.                   *)
(***************************************************************************)
(* What Append adds to the range. *)
LEMMA AppendRange ==
    ASSUME NEW S, NEW q \in Seq(S), NEW e \in S
    PROVE  Append(q, e) \in Seq(S) /\ Range(Append(q, e)) = Range(q) \union {e}
<1>1. /\ Append(q, e) \in Seq(S) /\ Len(Append(q, e)) = Len(q) + 1 /\ Len(q) \in Nat
      /\ \A i \in 1 .. Len(q) : Append(q, e)[i] = q[i]
      /\ Append(q, e)[Len(q) + 1] = e
  BY AppendProperties
<1>2. DOMAIN q = 1 .. Len(q) /\ DOMAIN Append(q, e) = 1 .. Len(q) + 1
  BY <1>1
<1>3. 1 .. Len(q) + 1 = (1 .. Len(q)) \union {Len(q) + 1}
  BY <1>1
<1> QED BY <1>1, <1>2, <1>3 DEF Range

(* A list with a coin taken off. *)
LEMMA Removed ==
    ASSUME NEW S, NEW p \in Seq(S), IsInjective(p), NEW c
    PROVE  LET q == RemoveSwapPendingCoin(p, c) IN
           q \in Seq(S) /\ IsInjective(q) /\ Range(q) = Range(p) \ {c}
<1> DEFINE n == Len(p)
           After(i, w) == IF i = 0 THEN <<>>
                          ELSE IF p[i] = c THEN w[i - 1] ELSE Append(w[i - 1], p[i])
           T == {m \in Nat : m =< n => \E w : w = [i \in 0..m |-> After(i, w)]}
<1>0. n \in Nat
  OBVIOUS
<1>1. 0 \in T
  <2> DEFINE w == [i \in 0..0 |-> <<>>]
  <2>1. w = [i \in 0..0 |-> After(i, w)]
    OBVIOUS
  <2> HIDE DEF w
  <2> QED BY <2>1
<1>2. ASSUME NEW m \in T PROVE m + 1 \in T
  <2> SUFFICES ASSUME m + 1 =< n
               PROVE  \E v : v = [i \in 0..(m + 1) |-> After(i, v)]
    <3> HIDE DEF After
    <3> QED BY <1>0
  <2>1. PICK w : w = [i \in 0..m |-> After(i, w)]
    BY <1>0
  <2> DEFINE x == IF p[m + 1] = c THEN w[m] ELSE Append(w[m], p[m + 1])
             v == [i \in 0..(m + 1) |-> IF i =< m THEN w[i] ELSE x]
  <2>2. ASSUME NEW i \in 0..(m + 1) PROVE v[i] = After(i, v)
    <3> HIDE DEF x
    <3>1. CASE i = 0
      BY <2>1, <3>1
    <3>2. CASE i \in 1..m
      <4>1. v[i] = w[i] /\ v[i - 1] = w[i - 1]
        BY <3>2
      <4>2. w[i] = After(i, w)
        <5>1. i \in 0..m /\ m \in Nat
          BY <3>2
        <5> HIDE DEF After, v, x
        <5> QED BY <2>1, <5>1
      <4> QED BY <3>2, <4>1, <4>2
    <3>3. CASE i = m + 1
      <4>1. v[i] = x /\ v[i - 1] = w[m] /\ i # 0
        BY <3>3
      <4> QED BY <3>3, <4>1 DEF x
    <3> QED BY <3>1, <3>2, <3>3
  <2>3. v = [i \in 0..(m + 1) |-> v[i]]
    OBVIOUS
  <2> HIDE DEF v, After
  <2>4. v = [i \in 0..(m + 1) |-> After(i, v)]
    BY <2>2, <2>3
  <2> QED BY <2>4
<1>3. \E w : w = [i \in 0..n |-> After(i, w)]
  <2>1. T = Nat
    <3> HIDE DEF T
    <3> QED BY <1>1, <1>2, SetInduction DEF T
  <2> QED BY <1>0, <2>1
<1> DEFINE w0 == CHOOSE w : w = [i \in 0..n |-> After(i, w)]
<1>4. w0 = [i \in 0..n |-> After(i, w0)]
  <2> HIDE DEF After, n
  <2> QED BY <1>3
<1>5. RemoveSwapPendingCoin(p, c) = w0[n]
  BY DEF RemoveSwapPendingCoin
<1> DEFINE Good(i, q) == /\ q \in Seq(S) /\ IsInjective(q)
                         /\ Range(q) = {p[j] : j \in 1..i} \ {c}
           G == {i \in Nat : i =< n => Good(i, w0[i])}
<1> HIDE DEF w0, T
<1>6. 0 \in G
  <2>1. w0[0] = <<>>
    BY <1>0, <1>4
  <2>2. Good(0, <<>>)
    BY DEF IsInjective, Range
  <2> QED BY <2>1, <2>2
<1>7. ASSUME NEW i \in G PROVE i + 1 \in G
  <2> SUFFICES ASSUME i + 1 =< n PROVE Good(i + 1, w0[i + 1])
    OBVIOUS
  <2>1. /\ i + 1 \in 0..n /\ i + 1 # 0 /\ (i + 1) - 1 = i /\ i + 1 \in 1..n
        /\ 1..(i + 1) = 1..i \union {i + 1} /\ i \in Nat
    BY <1>0
  <2>2. w0[i + 1] = After(i + 1, w0)
    <3> HIDE DEF After, n
    <3> QED BY <1>4, <2>1
  <2>3. w0[i + 1] = IF p[i + 1] = c THEN w0[i] ELSE Append(w0[i], p[i + 1])
    BY <2>1, <2>2
  <2>4. Good(i, w0[i])
    BY <1>0, <2>1
  <2>5. {p[j] : j \in 1..(i + 1)} = {p[j] : j \in 1..i} \union {p[i + 1]}
    BY <2>1
  <2>6. CASE p[i + 1] = c
    BY <2>3, <2>4, <2>5, <2>6
  <2>7. CASE p[i + 1] # c
    <3> DEFINE q == w0[i]
    <3>1. p[i + 1] \in S /\ q \in Seq(S) /\ w0[i + 1] = Append(q, p[i + 1])
      BY <2>1, <2>3, <2>4, <2>7
    <3>2. p[i + 1] \notin Range(q)
      <4>1. \A j \in 1..i : j \in DOMAIN p /\ i + 1 \in DOMAIN p /\ j # i + 1
        BY <1>0, <2>1
      <4>2. p[i + 1] \notin {p[j] : j \in 1..i}
        BY <4>1 DEF IsInjective
      <4> QED BY <2>4, <4>2
    <3> HIDE DEF q
    <3>3. /\ Append(q, p[i + 1]) \in Seq(S)
          /\ Range(Append(q, p[i + 1])) = Range(q) \union {p[i + 1]}
      BY <3>1, AppendRange
    <3>4. IsInjective(Append(q, p[i + 1]))
      <4>1. IsInjective(q)
        BY <2>4 DEF q
      <4> QED BY <3>1, <3>2, <4>1 DEF IsInjective, Range
    <3> QED BY <2>4, <2>5, <2>7, <3>1, <3>3, <3>4 DEF q
  <2> QED BY <2>6, <2>7
<1>8. G = Nat
  <2> HIDE DEF G
  <2> QED BY <1>6, <1>7, SetInduction DEF G
<1>9. Good(n, w0[n])
  <2> HIDE DEF Good
  <2>1. n \in G /\ n =< n
    BY <1>0, <1>8
  <2> QED BY <2>1
<1>10. Range(p) = {p[j] : j \in 1..n}
  BY DEF Range
<1> QED BY <1>5, <1>9, <1>10

(* A list with a coin put at its end, once. *)
LEMMA Added ==
    ASSUME NEW S, NEW p \in Seq(S), IsInjective(p), NEW c \in S
    PROVE  LET q == AddSwapPendingCoin(p, c) IN
           q \in Seq(S) /\ IsInjective(q) /\ Range(q) = Range(p) \union {c}
<1>1. CASE c \in Range(p)
  BY <1>1 DEF AddSwapPendingCoin
<1>2. CASE c \notin Range(p)
  BY <1>2 DEF AddSwapPendingCoin, IsInjective, Range
<1> QED BY <1>1, <1>2

(* The coins of a list that are started are AVAILABLE and have a call left; *)
(* in single swap mode their values are free, and each is taken once.       *)
Choice(picked) ==
    /\ picked.coins \in SUBSET DOMAIN coin
    /\ picked.values = inSwapValues \union {coin[c].value : c \in picked.coins}
    /\ \A c \in picked.coins :
         /\ coin[c].status = "AVAILABLE" /\ calls[<<c, 2>>] = NoCall
         /\ single => coin[c].value \notin inSwapValues
    /\ single => \A c, d \in picked.coins : coin[c].value = coin[d].value => c = d

(* One coin more is considered. *)
LEMMA PickKeepsChoice ==
    ASSUME NEW picked, Choice(picked), NEW c \in DOMAIN coin
    PROVE  Choice(Pick(picked, c))
<1>1. CASE CheckSwapAvailability(c, picked.values) /\ calls[<<c, 2>>] = NoCall
  <2>1. /\ Pick(picked, c).coins = picked.coins \union {c}
        /\ Pick(picked, c).values = picked.values \union {coin[c].value}
    BY <1>1 DEF Pick
  <2>2. /\ coin[c].status = "AVAILABLE"
        /\ single => coin[c].value \notin picked.values
    BY <1>1 DEF CheckSwapAvailability
  <2>3. ASSUME single PROVE /\ coin[c].value \notin inSwapValues
                            /\ \A d \in picked.coins : coin[d].value # coin[c].value
    <3>1. picked.values = inSwapValues \union {coin[d].value : d \in picked.coins}
      BY DEF Choice
    <3>2. coin[c].value \notin picked.values
      BY <2>2, <2>3
    <3> QED BY <3>1, <3>2
  <2> DEFINE new == Pick(picked, c)
  <2> HIDE DEF new
  <2>4. /\ new.coins \in SUBSET DOMAIN coin
        /\ new.values = inSwapValues \union {coin[d].value : d \in new.coins}
    BY <2>1 DEF Choice, new
  <2>5. \A d \in new.coins : /\ coin[d].status = "AVAILABLE" /\ calls[<<d, 2>>] = NoCall
                             /\ single => coin[d].value \notin inSwapValues
    <3>1. \A d \in picked.coins : /\ coin[d].status = "AVAILABLE" /\ calls[<<d, 2>>] = NoCall
                                  /\ single => coin[d].value \notin inSwapValues
      BY Zenon DEF Choice
    <3>2. /\ coin[c].status = "AVAILABLE" /\ calls[<<c, 2>>] = NoCall
          /\ single => coin[c].value \notin inSwapValues
      BY <1>1, <2>2, <2>3, Zenon
    <3>3. \A d \in new.coins : d \in picked.coins \/ d = c
      BY <2>1 DEF new
    <3> QED BY <3>1, <3>2, <3>3, Zenon
  <2>6. ASSUME single, NEW d \in new.coins, NEW e \in new.coins,
               coin[d].value = coin[e].value
        PROVE  d = e
    BY <2>1, <2>3, <2>6, Zenon DEF Choice, new
  <2> QED BY <2>4, <2>5, <2>6, Zenon DEF Choice, new
<1>2. CASE ~(CheckSwapAvailability(c, picked.values) /\ calls[<<c, 2>>] = NoCall)
  BY <1>2 DEF Pick
<1> QED BY <1>1, <1>2

(* All coins of a list are considered, by induction over the list. *)
LEMMA PickedWell ==
    ASSUME NEW list \in Seq(DOMAIN coin)
    PROVE  Choice(Picked(list))
<1> DEFINE n == Len(list)
           After(i, w) == IF i = 0 THEN [values |-> inSwapValues, coins |-> {}]
                          ELSE Pick(w[i - 1], list[i])
           T == {m \in Nat : m =< n => \E w : w = [i \in 0..m |-> After(i, w)]}
<1>0. n \in Nat
  OBVIOUS
<1>1. 0 \in T
  <2> DEFINE w == [i \in 0..0 |-> [values |-> inSwapValues, coins |-> {}]]
  <2>1. w = [i \in 0..0 |-> After(i, w)]
    OBVIOUS
  <2> HIDE DEF w
  <2> QED BY <2>1
<1>2. ASSUME NEW m \in T PROVE m + 1 \in T
  <2> SUFFICES ASSUME m + 1 =< n
               PROVE  \E v : v = [i \in 0..(m + 1) |-> After(i, v)]
    <3> HIDE DEF After
    <3> QED BY <1>0
  <2>1. PICK w : w = [i \in 0..m |-> After(i, w)]
    BY <1>0
  <2> DEFINE x == Pick(w[m], list[m + 1])
             v == [i \in 0..(m + 1) |-> IF i =< m THEN w[i] ELSE x]
  <2>2. ASSUME NEW i \in 0..(m + 1) PROVE v[i] = After(i, v)
    <3> HIDE DEF x
    <3>1. CASE i = 0
      BY <2>1, <3>1
    <3>2. CASE i \in 1..m
      <4>1. v[i] = w[i] /\ v[i - 1] = w[i - 1]
        BY <3>2
      <4>2. w[i] = After(i, w)
        <5>1. i \in 0..m /\ m \in Nat
          BY <3>2
        <5> HIDE DEF After, v, x
        <5> QED BY <2>1, <5>1
      <4> QED BY <3>2, <4>1, <4>2
    <3>3. CASE i = m + 1
      <4>1. v[i] = x /\ v[i - 1] = w[m] /\ i # 0
        BY <3>3
      <4> QED BY <3>3, <4>1 DEF x
    <3> QED BY <3>1, <3>2, <3>3
  <2>3. v = [i \in 0..(m + 1) |-> v[i]]
    OBVIOUS
  <2> HIDE DEF v, After
  <2>4. v = [i \in 0..(m + 1) |-> After(i, v)]
    BY <2>2, <2>3
  <2> QED BY <2>4
<1>3. \E w : w = [i \in 0..n |-> After(i, w)]
  <2>1. T = Nat
    <3>1. T \in SUBSET Nat
      OBVIOUS
    <3> HIDE DEF T
    <3> QED BY <1>1, <1>2, <3>1, SetInduction
  <2>2. n \in T /\ n =< n
    <3> HIDE DEF T, n
    <3> QED BY <1>0, <2>1
  <2> HIDE DEF After
  <2> QED BY <2>2
<1> DEFINE w0 == CHOOSE w : w = [i \in 0..n |-> After(i, w)]
<1>4. w0 = [i \in 0..n |-> After(i, w0)]
  <2> HIDE DEF After, n
  <2> QED BY <1>3
<1>5. Picked(list) = w0[n]
  BY DEF Picked
<1> DEFINE G == {i \in Nat : i =< n => Choice(w0[i])}
<1> HIDE DEF w0, T
<1>6. 0 \in G
  <2>1. w0[0] = [values |-> inSwapValues, coins |-> {}]
    BY <1>0, <1>4
  <2> QED BY <2>1 DEF Choice
<1>7. ASSUME NEW i \in G PROVE i + 1 \in G
  <2> SUFFICES ASSUME i + 1 =< n PROVE Choice(w0[i + 1])
    OBVIOUS
  <2>1. i + 1 \in 0..n /\ i + 1 # 0 /\ (i + 1) - 1 = i /\ i + 1 \in 1..n /\ i \in Nat
    BY <1>0
  <2>2. w0[i + 1] = After(i + 1, w0)
    <3> HIDE DEF After, n
    <3> QED BY <1>4, <2>1
  <2>3. w0[i + 1] = Pick(w0[i], list[i + 1])
    BY <2>1, <2>2
  <2>4. Choice(w0[i])
    BY <1>0, <2>1
  <2>5. list[i + 1] \in DOMAIN coin
    BY <2>1
  <2> QED BY <2>3, <2>4, <2>5, PickKeepsChoice
<1>8. G = Nat
  <2> HIDE DEF G
  <2> QED BY <1>6, <1>7, SetInduction DEF G
<1>9. Choice(w0[n])
  <2>1. n \in G /\ n =< n
    BY <1>0, <1>8
  <2> QED BY <2>1
<1> QED BY <1>5, <1>9

(* The orders in which coins may be selected are lists of coins. *)
LEMMA OrdersAreLists ==
    ASSUME coin \in Seq(CoinRec)
    PROVE  SetToAllKPermutations(DOMAIN coin) \subseteq Seq(DOMAIN coin)
<1> DEFINE D == DOMAIN coin
<1>1. IsFiniteSet(D)
  BY FS_Interval
<1>2. ASSUME NEW s \in SUBSET D PROVE SetToSeqs(s) \subseteq Seq(D)
  <2>1. IsFiniteSet(s)
    BY <1>1, FS_Subset
  <2>2. Cardinality(s) \in Nat
    BY <2>1, FS_CardinalityType
  <2> HIDE DEF D
  <2>3. \A f \in [1 .. Cardinality(s) -> s] : f \in Seq(D)
    BY <2>2
  <2> QED BY <2>3 DEF SetToSeqs
<1> QED BY <1>2 DEF SetToAllKPermutations

-----------------------------------------------------------------------------
(***************************************************************************)
(* Typing of the coins and of their calls.                                 *)
(***************************************************************************)
LEMMA CoinDomain ==
    ASSUME CoinsInv
    PROVE  /\ Len(coin) \in Nat /\ DOMAIN coin = 1 .. Len(coin)
           /\ DOMAIN coin \subseteq Coin
           /\ \A c \in DOMAIN coin : coin[c] \in CoinRec
<1>1. Len(coin) \in Nat /\ DOMAIN coin = 1 .. Len(coin) /\ single \in BOOLEAN
  BY DEF CoinsInv
<1>2. \A c \in DOMAIN coin : coin[c] \in CoinRec
  BY DEF CoinsInv
<1>3. /\ Len(InitValues[TRUE]) \in Nat /\ Len(InitValues[FALSE]) \in Nat
      /\ Len(InitValues[FALSE]) =< Len(InitValues[TRUE]) /\ MaxReceived \in Nat
  <2>1. \A S : \A q \in Seq(S) : Len(q) \in Nat
    OBVIOUS
  <2>2. Len(InitValues[TRUE]) \in Nat /\ Len(InitValues[FALSE]) \in Nat
    <3>1. /\ InitValues[TRUE] \in Seq(Range(InitValues[TRUE]))
          /\ InitValues[FALSE] \in Seq(Range(InitValues[FALSE]))
      BY BoundsAssumption
    <3> QED BY <2>1, <3>1
  <2>3. Len(InitValues[FALSE]) \in 1 .. Len(InitValues[TRUE]) /\ MaxReceived \in Nat
    BY BoundsAssumption
  <2> DEFINE a == Len(InitValues[TRUE])
             b == Len(InitValues[FALSE])
  <2>4. a \in Nat /\ b \in Nat /\ b \in 1 .. a
    BY <2>2, <2>3
  <2>5. b =< a
    <3> HIDE DEF a, b
    <3> QED BY <2>4
  <2> QED BY <2>2, <2>3, <2>5
<1>4. single = TRUE \/ single = FALSE
  BY <1>1
<1>5. Len(InitValues[single]) =< Len(InitValues[TRUE]) /\ Len(InitValues[single]) \in Nat
  <2>1. Len(InitValues[TRUE]) =< Len(InitValues[TRUE])
    BY <1>3
  <2> QED BY <1>3, <1>4, <2>1, Zenon
<1>6. Len(coin) =< Len(InitValues[single]) + MaxReceived
  BY DEF CoinsInv
<1>7. DOMAIN coin \subseteq Coin
  <2> DEFINE m == Len(InitValues[TRUE])
             l == Len(InitValues[single])
             n == Len(coin)
  <2>1. m \in Nat /\ l \in Nat /\ n \in Nat /\ l =< m /\ n =< l + MaxReceived
    BY <1>1, <1>3, <1>5, <1>6
  <2>2. Coin = 1 .. m + MaxReceived /\ DOMAIN coin = 1 .. n
    BY <1>1 DEF Coin
  <2> HIDE DEF m, l, n
  <2> QED BY <1>3, <2>1, <2>2
<1> QED BY <1>1, <1>2, <1>7

LEMMA SlotPairs ==
    /\ \A k \in Slot : k = <<k[1], k[2]>> /\ k[1] \in Coin /\ k[2] \in {1, 2}
    /\ \A c \in Coin, i \in {1, 2} :
         <<c, i>> \in Slot /\ <<c, i>>[1] = c /\ <<c, i>>[2] = i
<1> QED BY DEF Slot

(* A coin's record is replaced. *)
LEMMA CoinStep ==
    ASSUME CoinsInv, NEW c \in DOMAIN coin, NEW r \in CoinRec,
           coin' = [coin EXCEPT ![c] = r],
           r.phase4 => r.status = "IN_SWAP",
           UNCHANGED <<single, active, online>>
    PROVE  /\ CoinsInv' /\ DOMAIN coin' = DOMAIN coin /\ coin'[c] = r
           /\ \A d \in DOMAIN coin : d # c => coin'[d] = coin[d]
<1>1. coin \in Seq(CoinRec)
  BY DEF CoinsInv
<1>2. /\ coin' \in Seq(CoinRec) /\ Len(coin') = Len(coin) /\ DOMAIN coin' = DOMAIN coin
      /\ coin'[c] = r /\ \A d \in DOMAIN coin : d # c => coin'[d] = coin[d]
  BY <1>1
<1>3. Len(coin') <= Len(InitValues[single'])  + MaxReceived
  BY <1>2 DEF CoinsInv
<1>4. \A d \in DOMAIN coin' : coin'[d].phase4 => coin'[d].status = "IN_SWAP"
  BY <1>2 DEF CoinsInv
<1>5. single' \in BOOLEAN /\ active' \in BOOLEAN /\ online' \in BOOLEAN
  BY DEF CoinsInv
<1>6. CoinsInv'
  BY <1>2, <1>3, <1>4, <1>5 DEF CoinsInv
<1> QED BY <1>2, <1>6

LEMMA CoinsSame ==
    ASSUME CoinsInv, UNCHANGED <<single, active, online, coin>>
    PROVE  CoinsInv'
<1> QED BY DEF CoinsInv

LEMMA NullCoin ==
    ASSUME CoinsInv, NEW c \in DOMAIN coin
    PROVE  /\ SetSwapDataToNull(c) \in CoinRec
           /\ SetSwapDataToNull(c).value = coin[c].value
           /\ SetSwapDataToNull(c).auto = coin[c].auto
           /\ SetSwapDataToNull(c).phase4 = FALSE
           /\ SetSwapDataToNull(c).status = "AVAILABLE"
<1>1. coin[c] \in CoinRec
  BY CoinDomain
<1> QED BY <1>1 DEF SetSwapDataToNull, CoinRec

(* A call goes to its next point. *)
LEMMA CallStep ==
    ASSUME CallsInv, NEW k \in Slot,
           NEW at \in {"none", "starting", "loop", "over", "rejected"}, Goes(k, at)
    PROVE  /\ calls' \in [Slot -> CallRec] /\ calls'[k].by = calls[k].by
           /\ calls'[k].at = at /\ calls'[k].heir = calls[k].heir
           /\ \A j \in Slot : j # k => calls'[j] = calls[j]
<1>1. calls \in [Slot -> CallRec] /\ calls[k] \in CallRec
  BY DEF CallsInv
<1>2. calls'[k] = [calls[k] EXCEPT !.at = at] /\ \A j \in Slot : j # k => calls'[j] = calls[j]
  BY <1>1 DEF Goes
<1>3. calls'[k] \in CallRec /\ calls'[k].by = calls[k].by
      /\ calls'[k].at = at /\ calls'[k].heir = calls[k].heir
  BY <1>1, <1>2 DEF CallRec
<1>4. calls' \in [Slot -> CallRec]
  BY <1>1, <1>3 DEF Goes
<1> QED BY <1>2, <1>3, <1>4

-----------------------------------------------------------------------------
(* The calls left over stay, and no other call takes a value they hold. *)
LEMMA LeftStays ==
    ASSUME LeftInv, LeftSingleInv, UNCHANGED <<single, leftover>>,
           DOMAIN coin \subseteq DOMAIN coin',
           \A c \in DOMAIN coin : coin'[c].value = coin[c].value,
           single => \A l \in leftover :
               l.by # "load" /\ coin[l.coin].value \notin freed' =>
                   /\ coin[l.coin].value \notin freed
                   /\ coin[l.coin].value \in inSwapValues =>
                        coin[l.coin].value \in inSwapValues'
                   /\ \A k \in Slot :
                        Handled(k)' => \/ Handled(k) /\ k[1] \in DOMAIN coin
                                       \/ coin'[k[1]].value # coin[l.coin].value
    PROVE  LeftInv' /\ LeftSingleInv'
<1>1. LeftInv'
  BY DEF LeftInv
<1>2. LeftSingleInv'
  <2> SUFFICES ASSUME single, NEW l \in leftover, l.by # "load",
                      coin[l.coin].value \notin freed'
               PROVE  /\ coin[l.coin].value \in inSwapValues'
                      /\ \A m \in leftover :
                           m.by # "load" /\ coin[m.coin].value = coin[l.coin].value => m = l
                      /\ \A k \in Slot : Handled(k)' => coin'[k[1]].value # coin[l.coin].value
    <3>1. \A m \in leftover : coin'[m.coin].value = coin[m.coin].value
      BY DEF LeftInv
    <3> QED BY <3>1 DEF LeftSingleInv
  <2>1. coin[l.coin].value \notin freed
    OBVIOUS
  <2>2. /\ coin[l.coin].value \in inSwapValues
        /\ \A m \in leftover :
             m.by # "load" /\ coin[m.coin].value = coin[l.coin].value => m = l
        /\ \A k \in Slot : Handled(k) => coin[k[1]].value # coin[l.coin].value
    BY <2>1, Zenon DEF LeftSingleInv
  <2> QED BY <2>2
<1> QED BY <1>1, <1>2

(***************************************************************************)
(* A call of do_swap moves, and the lists stay: the coin keeps its value,  *)
(* and its switch unless the call's handler is to run.                     *)
(***************************************************************************)
LEMMA MoveKeeps ==
    ASSUME Inv, CoinsInv', NEW k \in Slot,
           calls[k].at # "none", calls'[k].at # "none",
           calls' \in [Slot -> CallRec], calls'[k].by = calls[k].by,
           calls'[k].heir # 0 => calls'[k].heir \in DOMAIN coin',
           \A j \in Slot : j # k => calls'[j] = calls[j],
           DOMAIN coin \subseteq DOMAIN coin',
           \A c \in DOMAIN coin :
              /\ coin'[c].value = coin[c].value
              /\ coin'[c].auto = coin[c].auto \/ (c = k[1] /\ Handled(k)),
           UNCHANGED <<single, active, leftover, ui, leaving, history>>
    PROVE  CallsInv' /\ ListsInv' /\ PendingInv' /\ SingleInv' /\ LeftInv' /\ LeftSingleInv'
<1>1. /\ CallsInv /\ ListsInv /\ PendingInv /\ SingleInv /\ CoinsInv
      /\ LeftInv /\ LeftSingleInv
  BY DEF Inv
<1>2. /\ pending' = pending /\ inSwapValues' = inSwapValues /\ leaving' = leaving
      /\ stale' = stale /\ freed' = freed /\ single' = single /\ active' = active
  BY DEF ui, history
<1>3. CallsInv'
  <2>1. ASSUME NEW j \in Slot
        PROVE  /\ calls'[j].heir # 0 => calls'[j].heir \in DOMAIN coin'
               /\ calls'[j].at = "none" => calls'[j] = NoCall
               /\ calls'[j].at # "none" => calls'[j].by # "nobody" /\ j[1] \in DOMAIN coin'
    <3>1. CASE j = k
      BY <1>1, <3>1 DEF CallsInv
    <3>2. CASE j # k
      BY <1>1, <3>2 DEF CallsInv
    <3> QED BY <3>1, <3>2
  <2> QED BY <2>1 DEF CallsInv
<1>4. ListsInv'
  <2>1. pending' \in Seq(DOMAIN coin')
    BY <1>1, <1>2 DEF ListsInv
  <2> QED BY <1>1, <1>2, <2>1 DEF ListsInv
<1>5. \A j \in Slot : Handled(j)' <=> Handled(j)
  BY DEF Handled
<1>6. \A j \in Slot : Handled(j) => j[1] \in DOMAIN coin
  BY <1>1 DEF Handled, CallsInv
<1>7. PendingInv'
  <2> SUFFICES ASSUME NEW c \in Range(pending)
               PROVE  coin'[c].auto \/ c \in stale \/ \E i \in {1, 2} : Handled(<<c, i>>)'
    BY <1>2 DEF PendingInv
  <2>1. c \in DOMAIN coin /\ c \in Coin
    BY <1>1, CoinDomain DEF ListsInv, Range
  <2>2. coin[c].auto \/ c \in stale \/ \E i \in {1, 2} : Handled(<<c, i>>)
    BY <1>1 DEF PendingInv
  <2>3. CASE coin'[c].auto = coin[c].auto
    BY <1>5, <2>1, <2>2, <2>3, SlotPairs
  <2>4. CASE c = k[1] /\ Handled(k)
    <3>1. k = <<c, k[2]>> /\ k[2] \in {1, 2}
      BY <2>4, SlotPairs
    <3> QED BY <1>5, <2>4, <3>1
  <2> QED BY <2>1, <2>3, <2>4
<1>8. SingleInv'
  <2>1. \A j \in Slot : Handled(j) => coin'[j[1]].value = coin[j[1]].value
    BY <1>6
  <2> QED BY <1>1, <1>2, <1>5, <2>1 DEF SingleInv
<1>9. LeftInv' /\ LeftSingleInv'
  <2>1. \A j \in Slot : Handled(j)' => Handled(j) /\ j[1] \in DOMAIN coin
    BY <1>5, <1>6
  <2> QED BY <1>1, <1>2, <2>1, LeftStays
<1> QED BY <1>3, <1>4, <1>7, <1>8, <1>9

(* A resumed swap stays the coin's only one in the loop, in phase 4. *)
LEMMA MoveKeepsResumed ==
    ASSUME CallsInv, ResumedInv, NEW k \in Slot, calls[k].at # "none",
           calls'[k].by = calls[k].by,
           \A j \in Slot : j # k => calls'[j] = calls[j],
           \A c \in DOMAIN coin : c # k[1] => coin'[c] = coin[c],
           calls[k].by = "load" =>
              /\ calls'[k].at \in {"loop", "over"}
              /\ calls'[k].at = "loop" => coin'[k[1]].phase4 /\ calls[k].at = "loop",
           coin[k[1]].phase4 /\ calls[k].at # "loop" =>
              coin'[k[1]].phase4 /\ calls'[k].at # "loop"
    PROVE  ResumedInv'
<1> SUFFICES ASSUME NEW j \in Slot, calls'[j].by = "load"
             PROVE  /\ calls'[j].at \in {"loop", "over"}
                    /\ calls'[j].at = "loop" =>
                         /\ coin'[j[1]].phase4
                         /\ \A i \in {1, 2} : i # j[2] => calls'[<<j[1], i>>].at # "loop"
  BY DEF ResumedInv
<1>0. j = <<j[1], j[2]>> /\ j[1] \in Coin /\ j[2] \in {1, 2} /\ k = <<k[1], k[2]>>
  BY SlotPairs
<1>1. \A i \in {1, 2} : <<j[1], i>> \in Slot /\ <<j[1], i>>[2] = i
  BY <1>0, SlotPairs
<1>2. CASE j = k
  <2>1. ASSUME calls'[k].at = "loop", NEW i \in {1, 2}, i # k[2]
        PROVE  calls'[<<k[1], i>>].at # "loop"
    <3>1. <<k[1], i>> \in Slot /\ <<k[1], i>> # k
      BY <1>1, <1>2, <2>1
    <3>2. calls[<<k[1], i>>].at # "loop"
      BY <1>2, <2>1 DEF ResumedInv
    <3> QED BY <3>1, <3>2
  <2> QED BY <1>2, <2>1
<1>3. CASE j # k
  <2>1. calls'[j] = calls[j] /\ calls[j].by = "load"
    BY <1>3
  <2>2. calls[j].at \in {"loop", "over"}
    BY <2>1 DEF ResumedInv
  <2>3. ASSUME calls[j].at = "loop" PROVE coin'[j[1]].phase4
    <3>1. coin[j[1]].phase4 /\ j[1] \in DOMAIN coin
      BY <2>1, <2>3 DEF ResumedInv, CallsInv
    <3>2. CASE j[1] = k[1]
      <4>1. k[2] # j[2] /\ k[2] \in {1, 2}
        BY <1>0, <1>3, <3>2, SlotPairs
      <4>2. calls[<<j[1], k[2]>>].at # "loop"
        BY <2>1, <2>3, <4>1 DEF ResumedInv
      <4>3. calls[k].at # "loop"
        BY <1>0, <3>2, <4>2
      <4> QED BY <3>1, <3>2, <4>3
    <3>3. CASE j[1] # k[1]
      BY <3>1, <3>3
    <3> QED BY <3>2, <3>3
  <2>4. ASSUME calls[j].at = "loop", NEW i \in {1, 2}, i # j[2]
        PROVE  calls'[<<j[1], i>>].at # "loop"
    <3>1. calls[<<j[1], i>>].at # "loop" /\ <<j[1], i>> \in Slot /\ coin[j[1]].phase4
      BY <1>1, <2>1, <2>4 DEF ResumedInv
    <3>2. CASE <<j[1], i>> = k
      <4>1. j[1] = k[1] /\ calls[k].at # "loop"
        BY <3>1, <3>2, <1>0
      <4> QED BY <3>1, <3>2, <4>1
    <3>3. CASE <<j[1], i>> # k
      BY <3>1, <3>3
    <3> QED BY <3>2, <3>3
  <2> QED BY <2>1, <2>2, <2>3, <2>4
<1> QED BY <1>2, <1>3

(* The same, for the steps that give the coin a record and the call a point. *)
LEMMA RecordMove ==
    ASSUME Inv, NEW k \in Slot, NEW r \in CoinRec,
           NEW at \in {"loop", "over", "rejected"},
           calls[k].at # "none", Goes(k, at),
           coin' = [coin EXCEPT ![k[1]] = r],
           r.phase4 => r.status = "IN_SWAP",
           r.value = coin[k[1]].value,
           r.auto = coin[k[1]].auto \/ Handled(k),
           calls[k].by = "load" => /\ at # "rejected"
                                   /\ at = "loop" => r.phase4 /\ calls[k].at = "loop",
           coin[k[1]].phase4 /\ calls[k].at # "loop" => r.phase4 /\ at # "loop",
           OnlyCoinAndCalls
    PROVE  Inv'
<1>1. CoinsInv /\ CallsInv /\ ListsInv /\ ResumedInv
  BY DEF Inv
<1>2. k[1] \in DOMAIN coin
  BY <1>1 DEF CallsInv
<1>3. /\ CoinsInv' /\ DOMAIN coin' = DOMAIN coin /\ coin'[k[1]] = r
      /\ \A d \in DOMAIN coin : d # k[1] => coin'[d] = coin[d]
  BY <1>1, <1>2, CoinStep DEF OnlyCoinAndCalls
<1>4. /\ calls' \in [Slot -> CallRec] /\ calls'[k].by = calls[k].by
      /\ calls'[k].at = at /\ calls'[k].heir = calls[k].heir
      /\ \A j \in Slot : j # k => calls'[j] = calls[j]
  BY <1>1, CallStep
<1>5. calls'[k].heir # 0 => calls'[k].heir \in DOMAIN coin'
  BY <1>1, <1>3, <1>4 DEF CallsInv
<1>6. ResumedInv'
  BY <1>1, <1>3, <1>4, MoveKeepsResumed
<1>7. CallsInv' /\ ListsInv' /\ PendingInv' /\ SingleInv' /\ LeftInv' /\ LeftSingleInv'
  <2>1. \A c \in DOMAIN coin :
           /\ coin'[c].value = coin[c].value
           /\ coin'[c].auto = coin[c].auto \/ (c = k[1] /\ Handled(k))
    BY <1>3
  <2>2. UNCHANGED <<single, active, leftover, ui, leaving, history>>
    BY DEF OnlyCoinAndCalls
  <2> QED BY <1>3, <1>4, <1>5, <2>1, <2>2, MoveKeeps
<1> QED BY <1>3, <1>6, <1>7 DEF Inv

LEMMA SameRecord ==
    ASSUME CoinsInv, NEW c \in DOMAIN coin
    PROVE  /\ coin = [coin EXCEPT ![c] = coin[c]] /\ coin[c] \in CoinRec
           /\ coin[c].phase4 => coin[c].status = "IN_SWAP"
<1> QED BY CoinDomain DEF CoinsInv

(* The records the steps of a call give its coin. *)
LEMMA CallCoin ==
    ASSUME Inv, NEW k \in Slot, calls[k].at # "none"
    PROVE  /\ CoinsInv /\ CallsInv /\ ResumedInv /\ k[1] \in DOMAIN coin
           /\ coin[k[1]] \in CoinRec /\ coin = [coin EXCEPT ![k[1]] = coin[k[1]]]
           /\ coin[k[1]].phase4 => coin[k[1]].status = "IN_SWAP"
           /\ calls[k].by = "load" => /\ calls[k].at \in {"loop", "over"}
                                      /\ calls[k].at = "loop" => coin[k[1]].phase4
           /\ calls[k].by # "load" => Handled(k)
<1>1. CoinsInv /\ CallsInv /\ ResumedInv
  BY DEF Inv
<1>2. k[1] \in DOMAIN coin /\ calls[k] \in CallRec /\ calls[k].by # "nobody"
  BY <1>1 DEF CallsInv
<1>3. calls[k].by # "load" => Handled(k)
  BY <1>2 DEF Handled, CallRec
<1> QED BY <1>1, <1>2, <1>3, SameRecord DEF ResumedInv

(* The call goes into its loop, or finds that another was first. *)
LEMMA PrepareStep ==
    ASSUME Inv, NEW k \in Slot, PrepareStatecoin(k)
    PROVE  Inv'
<1> DEFINE c == k[1]
<1>1. calls[k].at = "starting" /\ OnlyCoinAndCalls
  BY DEF PrepareStatecoin
<1>2. /\ CoinsInv /\ c \in DOMAIN coin /\ coin[c] \in CoinRec
      /\ coin = [coin EXCEPT ![c] = coin[c]]
      /\ coin[c].phase4 => coin[c].status = "IN_SWAP"
      /\ calls[k].by # "load"
  BY <1>1, CallCoin
<1>3. CASE coin[c].status = "AVAILABLE"
  <2> DEFINE r == [coin[c] EXCEPT !.status = "AWAITING_SWAP"]
  <2>1. coin' = [coin EXCEPT ![c] = r] /\ Goes(k, "loop")
    BY <1>2, <1>3 DEF PrepareStatecoin, CoinsInv
  <2>2. /\ r \in CoinRec /\ r.value = coin[c].value /\ r.auto = coin[c].auto
        /\ ~r.phase4 /\ ~coin[c].phase4
    BY <1>2, <1>3 DEF CoinRec
  <2> HIDE DEF r
  <2> QED BY <1>1, <1>2, <2>1, <2>2, RecordMove
<1>4. CASE coin[c].status # "AVAILABLE" /\ coin[c].phase4
  <2>1. coin' = [coin EXCEPT ![c] = coin[c]] /\ Goes(k, "over")
    BY <1>2, <1>4 DEF PrepareStatecoin
  <2> QED BY <1>1, <1>2, <1>4, <2>1, RecordMove
<1>5. CASE coin[c].status # "AVAILABLE" /\ ~coin[c].phase4
  <2>1. coin' = [coin EXCEPT ![c] = SetSwapDataToNull(c)] /\ Goes(k, "over")
    BY <1>5 DEF PrepareStatecoin
  <2> QED BY <1>1, <1>2, <1>5, <2>1, NullCoin, RecordMove
<1> QED BY <1>3, <1>4, <1>5

LEMMA RejectedStep ==
    ASSUME Inv, NEW k \in Slot, DoSwapRejected(k)
    PROVE  Inv'
<1>1. /\ calls[k].at = "starting" /\ OnlyCoinAndCalls /\ Goes(k, "rejected")
      /\ coin' = coin
  BY DEF DoSwapRejected
<1>2. /\ coin[k[1]] \in CoinRec /\ coin' = [coin EXCEPT ![k[1]] = coin[k[1]]]
      /\ coin[k[1]].phase4 => coin[k[1]].status = "IN_SWAP"
      /\ calls[k].by # "load"
  BY <1>1, CallCoin
<1> QED BY <1>1, <1>2, RecordMove

LEMMA SamePoint ==
    ASSUME CallsInv, NEW k \in Slot, UNCHANGED calls
    PROVE  Goes(k, calls[k].at)
<1> QED BY DEF CallsInv, CallRec, Goes

LEMMA PhaseSteps ==
    ASSUME Inv, NEW k \in Slot, UpdateStateCoinToPhase1(k) \/ EnterPhase4(k)
    PROVE  Inv'
<1> DEFINE c == k[1]
<1>1. calls[k].at = "loop" /\ OnlyCoinAndCalls /\ UNCHANGED calls
  BY DEF UpdateStateCoinToPhase1, EnterPhase4
<1>2. /\ CoinsInv /\ CallsInv /\ c \in DOMAIN coin /\ coin[c] \in CoinRec
      /\ coin[c].phase4 => coin[c].status = "IN_SWAP"
      /\ calls[k].by = "load" => coin[c].phase4
  BY <1>1, CallCoin
<1>3. Goes(k, "loop")
  BY <1>1, <1>2, SamePoint
<1>4. PICK r \in CoinRec :
        /\ coin' = [coin EXCEPT ![c] = r] /\ r.status = "IN_SWAP"
        /\ r.value = coin[c].value /\ r.auto = coin[c].auto /\ ~coin[c].phase4
  <2>1. CASE UpdateStateCoinToPhase1(k)
    <3> DEFINE r == [coin[c] EXCEPT !.status = "IN_SWAP"]
    <3>1. coin' = [coin EXCEPT ![c] = r] /\ ~coin[c].phase4
      BY <1>2, <2>1 DEF UpdateStateCoinToPhase1, CoinsInv
    <3>2. /\ r \in CoinRec /\ r.status = "IN_SWAP" /\ r.value = coin[c].value
          /\ r.auto = coin[c].auto
      BY <1>2 DEF CoinRec
    <3> HIDE DEF r
    <3> QED BY <3>1, <3>2
  <2>2. CASE EnterPhase4(k)
    <3> DEFINE r == [coin[c] EXCEPT !.phase4 = TRUE]
    <3>1. coin' = [coin EXCEPT ![c] = r] /\ ~coin[c].phase4 /\ coin[c].status = "IN_SWAP"
      BY <1>2, <2>2 DEF EnterPhase4, CoinsInv
    <3>2. /\ r \in CoinRec /\ r.status = coin[c].status /\ r.value = coin[c].value
          /\ r.auto = coin[c].auto
      BY <1>2 DEF CoinRec
    <3> HIDE DEF r
    <3> QED BY <3>1, <3>2
  <2> QED BY <2>1, <2>2
<1> QED BY <1>1, <1>2, <1>3, <1>4, RecordMove

(* The loop ends without a coin. *)
LEMMA LoopEndSteps ==
    ASSUME Inv, NEW k \in Slot,
           LoopFails(k) \/ BatchEnded(k) \/ RegistrationFails(k)
    PROVE  Inv'
<1> DEFINE c == k[1]
<1>1. calls[k].at = "loop" /\ OnlyCoinAndCalls /\ Goes(k, "over")
  BY DEF LoopFails, BatchEnded, RegistrationFails
<1>2. /\ CoinsInv /\ c \in DOMAIN coin /\ coin[c] \in CoinRec
      /\ coin = [coin EXCEPT ![c] = coin[c]]
      /\ coin[c].phase4 => coin[c].status = "IN_SWAP"
      /\ calls[k].by = "load" => coin[c].phase4
      /\ calls[k].by # "load" => Handled(k)
  BY <1>1, CallCoin
<1>3. PICK r \in CoinRec :
        /\ coin' = [coin EXCEPT ![c] = r] /\ r.value = coin[c].value
        /\ r.phase4 => r.status = "IN_SWAP"
        /\ r.auto = coin[c].auto \/ Handled(k)
  <2>1. CASE coin' = coin
    BY <1>2, <2>1
  <2>2. CASE coin' = [coin EXCEPT ![c] = SetSwapDataToNull(c)]
    BY <1>2, <2>2, NullCoin
  <2>3. CASE RegistrationFails(k)
    <3> DEFINE r == [SetSwapDataToNull(c) EXCEPT !.auto = FALSE]
    <3>1. coin' = [coin EXCEPT ![c] = r] /\ coin[c].status = "AWAITING_SWAP"
      BY <2>3 DEF RegistrationFails
    <3>2. r \in CoinRec /\ ~r.phase4 /\ r.value = coin[c].value
      BY <1>2, NullCoin DEF CoinRec
    <3>3. Handled(k)
      BY <1>2, <3>1
    <3> HIDE DEF r
    <3> QED BY <3>1, <3>2, <3>3
  <2>4. LoopFails(k) \/ BatchEnded(k) => coin' = coin \/ coin' = [coin EXCEPT ![c] = SetSwapDataToNull(c)]
    BY DEF LoopFails, BatchEnded
  <2> QED BY <2>1, <2>2, <2>3, <2>4
<1> QED BY <1>1, <1>2, <1>3, RecordMove

(* A coin is received: the list of coins grows. *)
LEMMA ReceivedStep ==
    ASSUME Inv, NEW k \in Slot, SetStatecoinOut(k)
    PROVE  Inv'
<1> DEFINE c == k[1]
           n == Len(coin)
           r == [coin[c] EXCEPT !.status = "SPENT", !.phase4 = FALSE, !.given = TRUE]
           q == [coin EXCEPT ![c] = r]
           new == NewCoin(coin[c].value, coin[c].auto)
<1>1. /\ calls[k].at = "loop" /\ OnlyCoinAndCalls
      /\ n < Len(InitValues[single]) + MaxReceived
  BY DEF SetStatecoinOut
<1>2. /\ CoinsInv /\ CallsInv /\ ResumedInv /\ c \in DOMAIN coin /\ coin[c] \in CoinRec
      /\ n \in Nat /\ DOMAIN coin = 1 .. n
  BY <1>1, CallCoin, CoinDomain
<1>3. coin' = Append(q, new)
  BY <1>2 DEF SetStatecoinOut, CoinsInv
<1>4. /\ r \in CoinRec /\ r.value = coin[c].value /\ r.auto = coin[c].auto /\ ~r.phase4
      /\ new \in CoinRec /\ ~new.phase4
  BY <1>2 DEF CoinRec, NewCoin
<1>5. /\ q \in Seq(CoinRec) /\ Len(q) = n /\ q[c] = r
      /\ \A d \in DOMAIN coin : d # c => q[d] = coin[d]
  <2> HIDE DEF r
  <2> QED BY <1>2, <1>4 DEF CoinsInv
<1> HIDE DEF r, q, new, n
<1>6. /\ coin' \in Seq(CoinRec) /\ Len(coin') = n + 1 /\ DOMAIN coin' = 1 .. n + 1
      /\ coin'[n + 1] = new /\ \A d \in 1 .. n : coin'[d] = q[d]
  BY <1>2, <1>3, <1>4, <1>5
<1>7. /\ DOMAIN coin \subseteq DOMAIN coin' /\ n + 1 \in DOMAIN coin' /\ coin'[c] = r
      /\ \A d \in DOMAIN coin : d # c => coin'[d] = coin[d]
  BY <1>2, <1>5, <1>6
<1>8. CoinsInv'
  <2>1. single' = single /\ active' = active /\ online' = online
    BY <1>1 DEF OnlyCoinAndCalls
  <2>2. Len(coin') <= Len(InitValues[single']) + MaxReceived
    <3> DEFINE l == Len(InitValues[single])
    <3>1. l \in Nat /\ MaxReceived \in Nat
      <4>1. \A S : \A s \in Seq(S) : Len(s) \in Nat
        OBVIOUS
      <4>2. InitValues[single] \in Seq(Range(InitValues[single]))
        BY <1>2, BoundsAssumption DEF CoinsInv
      <4> QED BY <4>1, <4>2, BoundsAssumption
    <3>2. n < l + MaxReceived
      BY <1>1 DEF n
    <3> HIDE DEF l
    <3>3. n + 1 <= l + MaxReceived
      BY <1>2, <3>1, <3>2
    <3> QED BY <1>6, <2>1, <3>3 DEF l
  <2>3. ASSUME NEW d \in DOMAIN coin', coin'[d].phase4 PROVE coin'[d].status = "IN_SWAP"
    <3>1. d \in DOMAIN coin /\ d # c
      BY <1>2, <1>4, <1>6, <1>7, <2>3
    <3> QED BY <1>2, <1>7, <2>3, <3>1 DEF CoinsInv
  <2> QED BY <1>2, <1>6, <2>1, <2>2, <2>3 DEF CoinsInv
<1>9. /\ calls' \in [Slot -> CallRec] /\ calls'[k].by = calls[k].by
      /\ calls'[k].at = "over" /\ calls'[k].heir = n + 1
      /\ \A j \in Slot : j # k => calls'[j] = calls[j]
  <2>1. /\ calls \in [Slot -> CallRec]
        /\ calls' = [calls EXCEPT ![k] = [calls[k] EXCEPT !.at = "over", !.heir = n + 1]]
    BY <1>2 DEF SetStatecoinOut, CallsInv, n
  <2> DEFINE x == [calls[k] EXCEPT !.at = "over", !.heir = n + 1]
  <2>2. x \in CallRec /\ x.by = calls[k].by /\ x.at = "over" /\ x.heir = n + 1
    <3>1. calls[k] \in CallRec /\ n + 1 \in Nat
      BY <1>2, <2>1
    <3> QED BY <3>1 DEF CallRec
  <2> HIDE DEF x
  <2> QED BY <2>1, <2>2 DEF x
<1>10. ResumedInv'
  <2>1. \A d \in DOMAIN coin : d # k[1] => coin'[d] = coin[d]
    BY <1>7
  <2> QED BY <1>1, <1>2, <1>9, <2>1, MoveKeepsResumed
<1>11. CallsInv' /\ ListsInv' /\ PendingInv' /\ SingleInv' /\ LeftInv' /\ LeftSingleInv'
  <2>1. \A d \in DOMAIN coin :
           /\ coin'[d].value = coin[d].value
           /\ coin'[d].auto = coin[d].auto \/ (d = k[1] /\ Handled(k))
    BY <1>4, <1>7
  <2>2. UNCHANGED <<single, active, leftover, ui, leaving, history>>
    BY <1>1 DEF OnlyCoinAndCalls
  <2> QED BY <1>1, <1>7, <1>8, <1>9, <2>1, <2>2, MoveKeeps
<1> QED BY <1>8, <1>10, <1>11 DEF Inv

-----------------------------------------------------------------------------
(***************************************************************************)
(* Calls start: by the Join Group button, the interval, or the switch.     *)
(***************************************************************************)
LEMMA StartKeeps ==
    ASSUME Inv, CoinsInv', active, NEW picked, Choice(picked), NEW by \in {"hand", "auto"},
           CallDoSwap(picked.coins, by), inSwapValues' = picked.values,
           DOMAIN coin' = DOMAIN coin,
           \A c \in DOMAIN coin :
              /\ coin'[c].value = coin[c].value /\ coin'[c].phase4 = coin[c].phase4
              /\ coin[c].auto => coin'[c].auto,
           UNCHANGED <<single, active, leftover, pending, leaving, stale, freed>>
    PROVE  Inv'
<1>1. /\ CoinsInv /\ CallsInv /\ ListsInv /\ ResumedInv /\ PendingInv /\ SingleInv
      /\ LeftInv /\ LeftSingleInv
  BY DEF Inv
<1> DEFINE New(k) == k[1] \in picked.coins /\ k[2] = FreeSlot(k[1])
<1>2. \A k \in Slot : calls'[k] = IF New(k) THEN NewCall(by) ELSE calls[k]
  BY DEF CallDoSwap
<1>3. /\ picked.coins \in SUBSET DOMAIN coin
      /\ picked.values = inSwapValues \union {coin[c].value : c \in picked.coins}
  BY DEF Choice
<1>4. \A c \in picked.coins : coin[c].status = "AVAILABLE" /\ calls[<<c, 2>>] = NoCall
  BY DEF Choice
<1>5. ASSUME NEW k \in Slot, New(k) PROVE calls[k] = NoCall
  <2>1. k = <<k[1], k[2]>> /\ calls[<<k[1], 2>>] = NoCall
    BY <1>4, <1>5, SlotPairs
  <2> QED BY <1>5, <2>1 DEF FreeSlot
<1>6. NewCall(by) \in CallRec /\ NewCall(by).at = "starting" /\ NewCall(by).by = by
      /\ NewCall(by).heir = 0
  BY DEF NewCall, CallRec
<1>7. calls' \in [Slot -> CallRec]
  BY <1>1, <1>2, <1>6 DEF CallDoSwap, CallsInv
<1> HIDE DEF New
<1>8. CallsInv'
  <2>1. ASSUME NEW k \in Slot
        PROVE  /\ calls'[k].heir # 0 => calls'[k].heir \in DOMAIN coin'
               /\ calls'[k].at = "none" => calls'[k] = NoCall
               /\ calls'[k].at # "none" => calls'[k].by # "nobody" /\ k[1] \in DOMAIN coin'
    <3>1. CASE New(k)
      BY <1>2, <1>3, <1>6, <3>1 DEF New
    <3>2. CASE ~New(k)
      BY <1>1, <1>2, <3>2 DEF CallsInv
    <3> QED BY <3>1, <3>2
  <2> QED BY <1>7, <2>1 DEF CallsInv
<1>9. ListsInv'
  <2>1. inSwapValues' \in SUBSET Value
    BY <1>1, <1>3, CoinDomain DEF ListsInv, CoinRec
  <2>2. /\ pending' \in Seq(DOMAIN coin') /\ IsInjective(pending')
        /\ leaving' \in SUBSET LeavingRec /\ \A l \in leaving' : l.coin \in DOMAIN coin'
    BY <1>1 DEF ListsInv
  <2> QED BY <2>1, <2>2 DEF ListsInv
<1>10. ResumedInv'
  <2> SUFFICES ASSUME NEW k \in Slot, calls'[k].by = "load"
               PROVE  /\ calls'[k].at \in {"loop", "over"}
                      /\ calls'[k].at = "loop" =>
                           /\ coin'[k[1]].phase4
                           /\ \A i \in {1, 2} : i # k[2] => calls'[<<k[1], i>>].at # "loop"
    BY DEF ResumedInv
  <2>1. calls'[k] = calls[k]
    BY <1>2, <1>6
  <2>2. /\ calls[k].at \in {"loop", "over"}
        /\ calls[k].at = "loop" =>
             /\ coin[k[1]].phase4
             /\ \A i \in {1, 2} : i # k[2] => calls[<<k[1], i>>].at # "loop"
    BY <1>1, <2>1 DEF ResumedInv
  <2>3. k[1] \in DOMAIN coin
    BY <1>1, <2>2 DEF CallsInv
  <2>4. ASSUME NEW i \in {1, 2}, calls[<<k[1], i>>].at # "loop"
        PROVE  calls'[<<k[1], i>>].at # "loop"
    <3>1. <<k[1], i>> \in Slot
      BY SlotPairs
    <3> QED BY <1>2, <1>6, <2>4, <3>1
  <2> QED BY <2>1, <2>2, <2>3, <2>4
<1>11. \A k \in Slot : Handled(k) => ~New(k) /\ Handled(k)' /\ k[1] \in DOMAIN coin
  <2> SUFFICES ASSUME NEW k \in Slot, Handled(k)
               PROVE  ~New(k) /\ Handled(k)' /\ k[1] \in DOMAIN coin
    OBVIOUS
  <2>1. ~New(k)
    BY <1>5 DEF Handled, NoCall
  <2> QED BY <1>1, <1>2, <2>1 DEF Handled, CallsInv
<1>12. PendingInv'
  <2> SUFFICES ASSUME NEW c \in Range(pending)
               PROVE  coin'[c].auto \/ c \in stale \/ \E i \in {1, 2} : Handled(<<c, i>>)'
    BY DEF PendingInv
  <2>1. c \in DOMAIN coin /\ c \in Coin
    BY <1>1, CoinDomain DEF ListsInv, Range
  <2>2. coin[c].auto \/ c \in stale \/ \E i \in {1, 2} : Handled(<<c, i>>)
    BY <1>1 DEF PendingInv
  <2> QED BY <1>11, <2>1, <2>2, SlotPairs
<1>13. SingleInv'
  <2> SUFFICES ASSUME single, NEW k \in Slot, Handled(k)', coin'[k[1]].value \notin freed
               PROVE  /\ coin'[k[1]].value \in inSwapValues'
                      /\ \A j \in Slot :
                           Handled(j)' /\ coin'[j[1]].value = coin'[k[1]].value => j = k
    BY DEF SingleInv
  <2>1. ASSUME NEW j \in Slot, Handled(j)'
        PROVE  /\ j[1] \in DOMAIN coin /\ coin'[j[1]].value = coin[j[1]].value
               /\ New(j) \/ Handled(j)
    <3>1. j[1] \in DOMAIN coin
      BY <1>8, <2>1 DEF CallsInv, Handled
    <3>2. New(j) \/ Handled(j)
      BY <1>2, <2>1 DEF Handled
    <3> QED BY <3>1, <3>2
  <2>2. /\ \A c \in picked.coins : coin[c].value \notin inSwapValues
        /\ \A c, d \in picked.coins : coin[c].value = coin[d].value => c = d
    BY Zenon DEF Choice
  <2>3. ASSUME NEW j \in Slot, Handled(j), coin[j[1]].value \notin freed
        PROVE  /\ coin[j[1]].value \in inSwapValues
               /\ \A i \in Slot : Handled(i) /\ coin[i[1]].value = coin[j[1]].value => i = j
    BY <1>1, <2>3, Zenon DEF SingleInv
  <2>4. ASSUME NEW j \in Slot, New(j)
        PROVE  j[1] \in picked.coins /\ j = <<j[1], FreeSlot(j[1])>>
    BY <2>4, SlotPairs DEF New
  <2>5. coin'[k[1]].value \in inSwapValues'
    BY <1>3, <2>1, <2>3, <2>4
  <2>6. ASSUME NEW j \in Slot, Handled(j)', coin'[j[1]].value = coin'[k[1]].value
        PROVE  j = k
    <3>1. CASE New(j) /\ New(k)
      BY <2>1, <2>2, <2>4, <2>6, <3>1
    <3>2. CASE New(j) /\ Handled(k)
      BY <2>1, <2>2, <2>3, <2>4, <2>6, <3>2
    <3>3. CASE Handled(j) /\ New(k)
      BY <2>1, <2>2, <2>3, <2>4, <2>6, <3>3
    <3>4. CASE Handled(j) /\ Handled(k)
      BY <2>1, <2>3, <2>6, <3>4
    <3> QED BY <2>1, <2>6, <3>1, <3>2, <3>3, <3>4
  <2> QED BY <2>5, <2>6
<1>14. LeftInv' /\ LeftSingleInv'
  <2>1. ASSUME single, NEW k \in Slot, Handled(k)'
        PROVE  \/ Handled(k) /\ k[1] \in DOMAIN coin
               \/ coin'[k[1]].value \notin inSwapValues
    <3>1. CASE New(k)
      <4>1. k[1] \in picked.coins
        BY <3>1 DEF New
      <4>2. coin[k[1]].value \notin inSwapValues
        BY <2>1, <4>1, Zenon DEF Choice
      <4> QED BY <1>3, <4>1, <4>2
    <3>2. CASE ~New(k)
      <4>1. Handled(k)
        BY <1>2, <2>1, <3>2 DEF Handled
      <4> QED BY <1>11, <4>1
    <3> QED BY <3>1, <3>2
  <2>2. single => \A l \in leftover :
           l.by # "load" /\ coin[l.coin].value \notin freed =>
               coin[l.coin].value \in inSwapValues
    BY <1>1, Zenon DEF LeftSingleInv
  <2>3. inSwapValues \subseteq inSwapValues'
    BY <1>3
  <2> QED BY <1>1, <2>1, <2>2, <2>3, LeftStays
<1> QED BY <1>8, <1>9, <1>10, <1>12, <1>13, <1>14 DEF Inv

(* The button and the interval. *)
LEMMA StartSteps ==
    ASSUME Inv, SwapButtonAction \/ AutoSwapLoop
    PROVE  Inv'
<1>1. CoinsInv /\ ListsInv
  BY DEF Inv
<1>2. coin \in Seq(CoinRec)
  BY <1>1 DEF CoinsInv
<1>3. PICK list \in Seq(DOMAIN coin), by \in {"hand", "auto"} :
        /\ CallDoSwap(Picked(list).coins, by) /\ inSwapValues' = Picked(list).values
        /\ active
        /\ UNCHANGED <<single, active, online, coin, leftover, pending, leaving, history>>
  <2>1. CASE AutoSwapLoop
    <3>1. pending \in Seq(DOMAIN coin)
      BY <1>1 DEF ListsInv
    <3> QED BY <2>1, <3>1 DEF AutoSwapLoop
  <2>2. CASE SwapButtonAction
    <3>1. PICK list \in SetToAllKPermutations(DOMAIN coin) :
             CallDoSwap(Picked(list).coins, "hand") /\ inSwapValues' = Picked(list).values
      BY <2>2 DEF SwapButtonAction
    <3>2. list \in Seq(DOMAIN coin)
      BY <1>2, OrdersAreLists
    <3>3. /\ active
          /\ UNCHANGED <<single, active, online, coin, leftover, pending, leaving, history>>
      BY <2>2 DEF SwapButtonAction
    <3> QED BY <3>1, <3>2, <3>3
  <2> QED BY <2>1, <2>2
<1>4. Choice(Picked(list))
  BY PickedWell
<1>5. CoinsInv'
  BY <1>1, <1>3, CoinsSame
<1>6. UNCHANGED <<single, active, leftover, pending, leaving, stale, freed>>
  BY <1>3 DEF history
<1> DEFINE picked == Picked(list)
<1>7. /\ Choice(picked) /\ CallDoSwap(picked.coins, by) /\ inSwapValues' = picked.values
      /\ active /\ coin' = coin
  BY <1>3, <1>4
<1> HIDE DEF picked
<1> QED BY <1>5, <1>6, <1>7, StartKeeps

-----------------------------------------------------------------------------
(***************************************************************************)
(* The lists change.  A call may end, of the wallet or left over: no other *)
(* call that holds a value then has one of the values "W" that it gives    *)
(* back.                                                                   *)
(***************************************************************************)
LEMMA ListsChange ==
    ASSUME Inv, CoinsInv', single' = single, NEW W,
           calls' \in [Slot -> CallRec],
           \A j \in Slot : calls'[j] = calls[j] \/ calls'[j] = NoCall,
           leftover' \subseteq leftover,
           DOMAIN coin \subseteq DOMAIN coin',
           \A c \in DOMAIN coin :
              coin'[c].value = coin[c].value /\ coin'[c].phase4 = coin[c].phase4,
           pending' \in Seq(DOMAIN coin'), IsInjective(pending'),
           \A c \in Range(pending') :
              \/ coin'[c].auto \/ c \in stale'
              \/ /\ c \in Range(pending)
                 /\ coin[c].auto => coin'[c].auto
                 /\ c \in stale => c \in stale'
                 /\ \A i \in {1, 2} : Handled(<<c, i>>) => Handled(<<c, i>>)',
           inSwapValues' \subseteq inSwapValues,
           \A v \in freed : v \in freed' \/ ~SwappingValue(v)',
           \A v \in inSwapValues : \/ v \in inSwapValues' \/ v \in freed'
                                   \/ ~SwappingValue(v)' \/ v \in W,
           single => \A v \in W \ freed :
              /\ \A j \in Slot : Handled(j)' => coin[j[1]].value # v
              /\ \A l \in leftover' : l.by # "load" => coin[l.coin].value # v,
           leaving' \in SUBSET LeavingRec, \A l \in leaving' : l.coin \in DOMAIN coin'
    PROVE  Inv'
<1>1. /\ CoinsInv /\ CallsInv /\ ListsInv /\ ResumedInv /\ PendingInv /\ SingleInv
      /\ LeftInv /\ LeftSingleInv
  BY DEF Inv
<1>2. NoCall.at = "none" /\ NoCall.heir = 0 /\ NoCall.by = "nobody"
  BY DEF NoCall
<1>3. CallsInv'
  <2>1. ASSUME NEW j \in Slot
        PROVE  /\ calls'[j].heir # 0 => calls'[j].heir \in DOMAIN coin'
               /\ calls'[j].at = "none" => calls'[j] = NoCall
               /\ calls'[j].at # "none" => calls'[j].by # "nobody" /\ j[1] \in DOMAIN coin'
    <3>1. CASE calls'[j] = NoCall
      BY <1>2, <3>1
    <3>2. CASE calls'[j] = calls[j]
      BY <1>1, <3>2 DEF CallsInv
    <3> QED BY <3>1, <3>2
  <2> QED BY <2>1 DEF CallsInv
<1>4. ListsInv'
  <2>1. inSwapValues' \in SUBSET Value
    BY <1>1 DEF ListsInv
  <2> QED BY <2>1 DEF ListsInv
<1>5. ResumedInv'
  <2> SUFFICES ASSUME NEW j \in Slot, calls'[j].by = "load"
               PROVE  /\ calls'[j].at \in {"loop", "over"}
                      /\ calls'[j].at = "loop" =>
                           /\ coin'[j[1]].phase4
                           /\ \A i \in {1, 2} : i # j[2] => calls'[<<j[1], i>>].at # "loop"
    BY DEF ResumedInv
  <2>1. calls'[j] = calls[j]
    BY <1>2
  <2>2. /\ calls[j].at \in {"loop", "over"}
        /\ calls[j].at = "loop" =>
             /\ coin[j[1]].phase4
             /\ \A i \in {1, 2} : i # j[2] => calls[<<j[1], i>>].at # "loop"
    BY <1>1, <2>1 DEF ResumedInv
  <2>3. j[1] \in DOMAIN coin
    BY <1>1, <2>2 DEF CallsInv
  <2>4. ASSUME NEW i \in {1, 2}, calls[<<j[1], i>>].at # "loop"
        PROVE  calls'[<<j[1], i>>].at # "loop"
    <3>1. <<j[1], i>> \in Slot
      BY SlotPairs
    <3> QED BY <1>2, <2>4, <3>1
  <2> QED BY <2>1, <2>2, <2>3, <2>4
<1>6. \A j \in Slot : Handled(j)' => Handled(j) /\ j[1] \in DOMAIN coin
  BY <1>1, <1>2 DEF Handled, CallsInv
<1>7. PendingInv'
  <2> SUFFICES ASSUME NEW c \in Range(pending')
               PROVE  coin'[c].auto \/ c \in stale' \/ \E i \in {1, 2} : Handled(<<c, i>>)'
    BY DEF PendingInv
  <2>1. CASE coin'[c].auto \/ c \in stale'
    BY <2>1
  <2>2. CASE /\ c \in Range(pending)
             /\ coin[c].auto => coin'[c].auto
             /\ c \in stale => c \in stale'
             /\ \A i \in {1, 2} : Handled(<<c, i>>) => Handled(<<c, i>>)'
    <3>1. coin[c].auto \/ c \in stale \/ \E i \in {1, 2} : Handled(<<c, i>>)
      BY <1>1, <2>2 DEF PendingInv
    <3> QED BY <2>2, <3>1
  <2> QED BY <2>1, <2>2
<1>8. SingleInv'
  <2> SUFFICES ASSUME single, NEW j \in Slot, Handled(j)', coin[j[1]].value \notin freed'
               PROVE  /\ coin[j[1]].value \in inSwapValues'
                      /\ \A i \in Slot :
                           Handled(i)' /\ coin[i[1]].value = coin[j[1]].value => i = j
    <3>1. \A i \in Slot : Handled(i)' => coin'[i[1]].value = coin[i[1]].value
      BY <1>6
    <3> QED BY <3>1 DEF SingleInv
  <2>1. Handled(j) /\ j[1] \in DOMAIN coin
    BY <1>6
  <2>2. PICK v : v = coin[j[1]].value
    OBVIOUS
  <2>3. SwappingValue(v)'
    <3>1. j = <<j[1], j[2]>> /\ j[2] \in {1, 2} /\ calls'[j].at # "none"
      BY SlotPairs DEF Handled
    <3>2. Swapping(j[1])'
      BY <3>1 DEF Swapping
    <3>3. j[1] \in DOMAIN coin' /\ coin'[j[1]].value = v
      BY <2>1, <2>2
    <3> QED BY <3>2, <3>3, Zenon DEF SwappingValue
  <2>4. v \notin freed
    BY <2>2, <2>3
  <2>5. /\ v \in inSwapValues
        /\ \A i \in Slot : Handled(i) /\ coin[i[1]].value = v => i = j
    BY <1>1, <2>1, <2>2, <2>4, Zenon DEF SingleInv
  <2>6. v \notin W
    BY <2>2, <2>4
  <2>7. v \in inSwapValues'
    BY <2>2, <2>3, <2>5, <2>6
  <2> QED BY <1>6, <2>2, <2>5, <2>7
<1>9. LeftInv'
  BY <1>1 DEF LeftInv
<1>10. LeftSingleInv'
  <2> SUFFICES ASSUME single, NEW l \in leftover', l.by # "load",
                      coin[l.coin].value \notin freed'
               PROVE  /\ coin[l.coin].value \in inSwapValues'
                      /\ \A m \in leftover' :
                           m.by # "load" /\ coin[m.coin].value = coin[l.coin].value => m = l
                      /\ \A k \in Slot : Handled(k)' => coin[k[1]].value # coin[l.coin].value
    <3>1. \A m \in leftover' : coin'[m.coin].value = coin[m.coin].value
      BY <1>1 DEF LeftInv
    <3>2. \A i \in Slot : Handled(i)' => coin'[i[1]].value = coin[i[1]].value
      BY <1>6
    <3> QED BY <3>1, <3>2 DEF LeftSingleInv
  <2>1. l \in leftover /\ l.coin \in DOMAIN coin
    BY <1>1 DEF LeftInv
  <2>2. PICK v : v = coin[l.coin].value
    OBVIOUS
  <2>3. SwappingValue(v)'
    <3>1. coin'[l.coin].value = v
      BY <2>1, <2>2
    <3> QED BY <3>1, Zenon DEF SwappingValue
  <2>4. v \notin freed
    BY <2>2, <2>3
  <2>5. /\ v \in inSwapValues
        /\ \A m \in leftover : m.by # "load" /\ coin[m.coin].value = v => m = l
        /\ \A k \in Slot : Handled(k) => coin[k[1]].value # v
    BY <1>1, <2>1, <2>2, <2>4, Zenon DEF LeftSingleInv
  <2>6. v \notin W
    BY <2>2, <2>4
  <2>7. v \in inSwapValues'
    BY <2>2, <2>3, <2>5, <2>6
  <2> QED BY <1>6, <2>2, <2>5, <2>7
<1> QED BY <1>3, <1>4, <1>5, <1>7, <1>8, <1>9, <1>10 DEF Inv

LEMMA EmptyList == \A S : <<>> \in Seq(S) /\ IsInjective(<<>>) /\ Range(<<>>) = {}
<1> QED BY DEF IsInjective, Range

(* The lists a handler leaves: without the call's coin, and with the one   *)
(* that goes on swapping.                                                  *)
LEMMA EndLists ==
    ASSUME NEW S, pending \in Seq(S), IsInjective(pending),
           NEW c \in S, NEW next \in S, NEW auto, NEW again,
           EndAutoSwap(c, auto, next, again) \/ EndSwap(c, next, again)
    PROVE  /\ pending' \in Seq(S) /\ IsInjective(pending')
           /\ \A d \in Range(pending') : \/ d \in Range(pending) /\ d # c
                                         \/ d = next /\ again
           /\ inSwapValues' \subseteq inSwapValues
<1> DEFINE list == RemoveSwapPendingCoin(pending, c)
           added == AddSwapPendingCoin(list, next)
<1>1. list \in Seq(S) /\ IsInjective(list) /\ Range(list) = Range(pending) \ {c}
  BY Removed
<1>2. added \in Seq(S) /\ IsInjective(added) /\ Range(added) = Range(list) \union {next}
  <2>1. \A q \in Seq(S) : IsInjective(q) =>
           LET r == AddSwapPendingCoin(q, next) IN
           r \in Seq(S) /\ IsInjective(r) /\ Range(r) = Range(q) \union {next}
    BY Added
  <2> HIDE DEF list
  <2> QED BY <1>1, <2>1
<1>3. ASSUME NEW a, EndAutoSwap(c, a, next, again)
      PROVE  /\ pending' = list \/ (pending' = added /\ again)
             /\ inSwapValues' \subseteq inSwapValues
  <2>1. inSwapValues' \subseteq inSwapValues
    BY <1>3 DEF EndAutoSwap
  <2>2. CASE a /\ again
    BY <1>3, <2>1, <2>2, Zenon DEF EndAutoSwap
  <2>3. CASE ~(a /\ again)
    BY <1>3, <2>1, <2>3, Zenon DEF EndAutoSwap
  <2> QED BY <2>2, <2>3
<1>4. \/ \E a : EndAutoSwap(c, a, next, again)
      \/ pending' = <<>> /\ inSwapValues' = {}
  <2>1. CASE EndAutoSwap(c, auto, next, again)
    BY <2>1
  <2>2. CASE EndSwap(c, next, again)
    BY <2>2, Zenon DEF EndSwap
  <2> QED BY <2>1, <2>2
<1> HIDE DEF list, added
<1>5. CASE pending' = list /\ inSwapValues' \subseteq inSwapValues
  BY <1>1, <1>5
<1>6. CASE pending' = added /\ again /\ inSwapValues' \subseteq inSwapValues
  BY <1>1, <1>2, <1>6
<1>7. CASE pending' = <<>> /\ inSwapValues' = {}
  BY <1>7, EmptyList
<1> QED BY <1>3, <1>4, <1>5, <1>6, <1>7

(* What a handler's history says of the lists. *)
LEMMA HistoryStep ==
    ASSUME NEW c, NEW next, NEW left, EndHistory(c, next, left)
    PROVE  /\ UNCHANGED <<single, active, online, leaving>>
           /\ stale' = left \intersect Range(pending')
           /\ \A v \in freed : v \in freed' \/ ~SwappingValue(v)'
           /\ \A v \in inSwapValues : \/ v \in inSwapValues' \/ v \in freed'
                                      \/ ~SwappingValue(v)' \/ v \in {coin[c].value}
<1>1. UNCHANGED <<single, active, online, leaving>> /\ stale' = left \intersect Range(pending')
  BY DEF EndHistory
<1>2. freed' = {v \in freed \union (inSwapValues \ (inSwapValues' \union {coin[c].value})) :
                 SwappingValue(v)'}
  BY DEF EndHistory
<1> QED BY <1>1, <1>2

LEMMA CallOverStep ==
    ASSUME CallsInv, NEW k \in Slot, calls[k].at # "none", CallOver(k)
    PROVE  /\ calls' \in [Slot -> CallRec] /\ ~Handled(k)'
           /\ \A j \in Slot : calls'[j] = calls[j] \/ calls'[j] = NoCall
           /\ \A j \in Slot : j # k => (Handled(j)' <=> Handled(j))
           /\ UNCHANGED <<coin, leftover>>
<1>1. /\ NoCall \in CallRec /\ NoCall.at = "none"
  BY DEF NoCall, CallRec
<1>2. /\ calls' \in [Slot -> CallRec] /\ calls'[k] = NoCall
      /\ \A j \in Slot : j # k => calls'[j] = calls[j]
  BY <1>1 DEF CallOver, CallsInv
<1>3. ~Handled(k)' /\ \A j \in Slot : j # k => (Handled(j)' <=> Handled(j))
  BY <1>1, <1>2 DEF Handled
<1> QED BY <1>2, <1>3 DEF CallOver

(* A handler of the wallet's calls runs. *)
LEMMA HandlerStep ==
    ASSUME Inv, NEW k \in Slot, HandleEndAutoSwap(k) \/ HandleEndSwap(k)
    PROVE  Inv'
<1> DEFINE c == k[1]
           next == Successor(c, calls[k].heir)
           w == coin[c].value
<1>1. /\ CoinsInv /\ CallsInv /\ ListsInv /\ SingleInv /\ LeftInv /\ LeftSingleInv
  BY DEF Inv
<1>2. /\ calls[k].at # "none" /\ Handled(k) /\ CallOver(k)
      /\ EndHistory(c, next, stale \ {c})
  BY DEF HandleEndAutoSwap, HandleEndSwap, Handled
<1>3. c \in DOMAIN coin /\ next \in DOMAIN coin
  BY <1>1, <1>2 DEF CallsInv, Successor
<1>4. PICK auto, again : /\ EndAutoSwap(c, auto, next, again) \/ EndSwap(c, next, again)
                         /\ again => coin[next].auto
  <2>1. CASE HandleEndAutoSwap(k)
    <3>1. EndAutoSwap(c, coin[c].auto, next, coin[next].auto)
      BY <2>1, Zenon DEF HandleEndAutoSwap
    <3> QED BY <3>1
  <2>2. CASE HandleEndSwap(k)
    <3>1. EndSwap(c, next, calls[k].at = "over" /\ coin[next].auto)
      BY <2>2, Zenon DEF HandleEndSwap
    <3> QED BY <3>1
  <2> QED BY <2>1, <2>2
<1> HIDE DEF next
<1>5. /\ calls' \in [Slot -> CallRec] /\ ~Handled(k)'
      /\ \A j \in Slot : calls'[j] = calls[j] \/ calls'[j] = NoCall
      /\ \A j \in Slot : j # k => (Handled(j)' <=> Handled(j))
      /\ coin' = coin /\ leftover' = leftover
  BY <1>1, <1>2, CallOverStep
<1>6. /\ pending' \in Seq(DOMAIN coin) /\ IsInjective(pending')
      /\ \A d \in Range(pending') : (d \in Range(pending) /\ d # c) \/ (d = next /\ again)
      /\ inSwapValues' \subseteq inSwapValues
  <2>1. pending \in Seq(DOMAIN coin) /\ IsInjective(pending)
    BY <1>1 DEF ListsInv
  <2> QED BY <1>3, <1>4, <2>1, EndLists
<1>7. /\ UNCHANGED <<single, active, online, leaving>>
      /\ stale' = (stale \ {c}) \intersect Range(pending')
      /\ \A v \in freed : v \in freed' \/ ~SwappingValue(v)'
      /\ \A v \in inSwapValues : \/ v \in inSwapValues' \/ v \in freed'
                                 \/ ~SwappingValue(v)' \/ v \in {w}
  BY <1>2, HistoryStep
<1>8. CoinsInv'
  BY <1>1, <1>5, <1>7, CoinsSame
<1>9. ASSUME NEW d \in Range(pending')
      PROVE  \/ coin'[d].auto \/ d \in stale'
             \/ /\ d \in Range(pending)
                /\ coin[d].auto => coin'[d].auto
                /\ d \in stale => d \in stale'
                /\ \A i \in {1, 2} : Handled(<<d, i>>) => Handled(<<d, i>>)'
  <2>1. CASE d = next /\ again
    BY <1>4, <1>5, <2>1
  <2>2. CASE d \in Range(pending) /\ d # c
    <3>1. \A i \in {1, 2} : <<d, i>> \in Slot /\ <<d, i>> # k
      <4>1. d \in Coin
        BY <1>1, <2>2, CoinDomain DEF ListsInv, Range
      <4> QED BY <2>2, <4>1, SlotPairs
    <3> QED BY <1>5, <1>7, <2>2, <3>1
  <2> QED BY <1>6, <2>1, <2>2
<1>10. single => \A v \in {w} \ freed :
          /\ \A j \in Slot : Handled(j)' => coin[j[1]].value # v
          /\ \A l \in leftover' : l.by # "load" => coin[l.coin].value # v
  <2> SUFFICES ASSUME single, w \notin freed
               PROVE  /\ \A j \in Slot : Handled(j)' => coin[j[1]].value # w
                      /\ \A l \in leftover : l.by # "load" => coin[l.coin].value # w
    BY <1>5
  <2>1. \A j \in Slot : Handled(j) /\ coin[j[1]].value = w => j = k
    BY <1>1, <1>2, Zenon DEF SingleInv
  <2>2. ASSUME NEW l \in leftover, l.by # "load", coin[l.coin].value = w PROVE FALSE
    BY <1>1, <1>2, <2>2, Zenon DEF LeftSingleInv
  <2> QED BY <1>5, <2>1, <2>2
<1>11. leaving' \in SUBSET LeavingRec /\ \A l \in leaving' : l.coin \in DOMAIN coin'
  BY <1>1, <1>5, <1>7 DEF ListsInv
<1> HIDE DEF w, c
<1> QED BY <1>5, <1>6, <1>7, <1>8, <1>9, <1>10, <1>11, ListsChange

LEMMA ResumedOverStep ==
    ASSUME Inv, NEW k \in Slot, ResumedOver(k)
    PROVE  Inv'
<1>1. CoinsInv /\ CallsInv /\ ListsInv
  BY DEF Inv
<1>2. /\ calls[k].at # "none" /\ ~Handled(k) /\ CallOver(k)
      /\ UNCHANGED <<single, active, online, leaving, stale>>
      /\ pending' = pending /\ inSwapValues' = inSwapValues
      /\ freed' = {v \in freed : SwappingValue(v)'}
  BY DEF ResumedOver, ui, Handled
<1>3. /\ calls' \in [Slot -> CallRec]
      /\ \A j \in Slot : calls'[j] = calls[j] \/ calls'[j] = NoCall
      /\ \A j \in Slot : j # k => (Handled(j)' <=> Handled(j))
      /\ coin' = coin /\ leftover' = leftover
  BY <1>1, <1>2, CallOverStep
<1>4. CoinsInv'
  BY <1>1, <1>2, <1>3, CoinsSame
<1>5. /\ pending' \in Seq(DOMAIN coin') /\ IsInjective(pending')
      /\ leaving' \in SUBSET LeavingRec /\ \A l \in leaving' : l.coin \in DOMAIN coin'
  BY <1>1, <1>2, <1>3 DEF ListsInv
<1>6. ASSUME NEW d \in Range(pending'), NEW i \in {1, 2}, Handled(<<d, i>>)
      PROVE  Handled(<<d, i>>)'
  <2>1. d \in Coin
    BY <1>1, <1>2, CoinDomain DEF ListsInv, Range
  <2>2. <<d, i>> \in Slot
    BY <2>1, SlotPairs
  <2> QED BY <1>2, <1>3, <1>6, <2>2
<1>7. \A v \in freed : v \in freed' \/ ~SwappingValue(v)'
  BY <1>2
<1> DEFINE W == {}
<1>8. single => \A v \in W \ freed :
          /\ \A j \in Slot : Handled(j)' => coin[j[1]].value # v
          /\ \A l \in leftover' : l.by # "load" => coin[l.coin].value # v
  OBVIOUS
<1> HIDE DEF W
<1> QED BY <1>2, <1>3, <1>4, <1>5, <1>6, <1>7, <1>8, ListsChange

(* A call left over ends, and its handler runs. *)
LEMMA LeftoverKeeps ==
    ASSUME Inv, CoinsInv', NEW l \in leftover, NEW m,
           m.coin = l.coin, m.by = l.by, LeftoverHandled(l, m),
           Successor(m.coin, m.heir) \in DOMAIN coin',
           DOMAIN coin \subseteq DOMAIN coin',
           \A c \in DOMAIN coin : /\ coin'[c].value = coin[c].value
                                 /\ coin'[c].phase4 = coin[c].phase4
                                 /\ coin'[c].auto = coin[c].auto
    PROVE  Inv'
<1> DEFINE c == m.coin
           next == Successor(c, m.heir)
           W == IF l.by = "load" THEN {} ELSE {coin[c].value}
<1>1. /\ CoinsInv /\ CallsInv /\ ListsInv /\ SingleInv /\ LeftInv /\ LeftSingleInv
  BY DEF Inv
<1>2. /\ leftover' = leftover \ {l} /\ calls' = calls
      /\ EndHistory(c, next, stale \union {next})
  BY DEF LeftoverHandled
<1>3. c \in DOMAIN coin /\ l.by \in {"hand", "auto", "load"}
  BY <1>1 DEF LeftInv, IsLeftover
<1>4. \/ l.by = "load" /\ UNCHANGED <<ui, stuck>>
      \/ l.by # "load" /\ \E auto, again :
            EndAutoSwap(c, auto, next, again) \/ EndSwap(c, next, again)
  <2>1. CASE l.by = "auto"
    BY <2>1 DEF LeftoverHandled
  <2>2. CASE l.by = "hand"
    BY <2>2 DEF LeftoverHandled
  <2>3. CASE l.by = "load"
    BY <2>3 DEF LeftoverHandled
  <2> QED BY <1>3, <2>1, <2>2, <2>3
<1>5. next \in DOMAIN coin'
  OBVIOUS
<1> HIDE DEF next
<1>6. /\ pending' \in Seq(DOMAIN coin') /\ IsInjective(pending')
      /\ \A d \in Range(pending') : d \in Range(pending) \/ d = next
      /\ inSwapValues' \subseteq inSwapValues
      /\ l.by = "load" => inSwapValues' = inSwapValues
  <2>1. pending \in Seq(DOMAIN coin') /\ IsInjective(pending)
    BY <1>1 DEF ListsInv
  <2>2. CASE l.by = "load" /\ UNCHANGED <<ui, stuck>>
    BY <2>1, <2>2 DEF ui
  <2>3. CASE l.by # "load" /\ \E auto, again :
                EndAutoSwap(c, auto, next, again) \/ EndSwap(c, next, again)
    <3>1. PICK auto, again : EndAutoSwap(c, auto, next, again) \/ EndSwap(c, next, again)
      BY <2>3
    <3>2. c \in DOMAIN coin'
      BY <1>3
    <3> HIDE DEF c
    <3> QED BY <1>5, <2>1, <2>3, <3>1, <3>2, EndLists
  <2> QED BY <1>4, <2>2, <2>3
<1>7. /\ UNCHANGED <<single, active, online, leaving>>
      /\ stale' = (stale \union {next}) \intersect Range(pending')
      /\ \A v \in freed : v \in freed' \/ ~SwappingValue(v)'
      /\ \A v \in inSwapValues : \/ v \in inSwapValues' \/ v \in freed'
                                 \/ ~SwappingValue(v)' \/ v \in {coin[c].value}
  BY <1>2, HistoryStep
<1>8. \A v \in inSwapValues : \/ v \in inSwapValues' \/ v \in freed'
                              \/ ~SwappingValue(v)' \/ v \in W
  BY <1>6, <1>7
<1>9. calls' \in [Slot -> CallRec]
  BY <1>1, <1>2 DEF CallsInv
<1>10. \A j \in Slot : Handled(j)' <=> Handled(j)
  BY <1>2 DEF Handled
<1>11. ASSUME NEW d \in Range(pending')
       PROVE  \/ coin'[d].auto \/ d \in stale'
              \/ /\ d \in Range(pending)
                 /\ coin[d].auto => coin'[d].auto
                 /\ d \in stale => d \in stale'
                 /\ \A i \in {1, 2} : Handled(<<d, i>>) => Handled(<<d, i>>)'
  <2>1. CASE d = next
    BY <1>7, <2>1
  <2>2. CASE d \in Range(pending)
    <3>1. d \in DOMAIN coin /\ d \in Coin
      BY <1>1, <2>2, CoinDomain DEF ListsInv, Range
    <3>2. \A i \in {1, 2} : <<d, i>> \in Slot
      BY <3>1, SlotPairs
    <3> QED BY <1>7, <1>10, <2>2, <3>1, <3>2
  <2> QED BY <1>6, <2>1, <2>2
<1>12. single => \A v \in W \ freed :
          /\ \A j \in Slot : Handled(j)' => coin[j[1]].value # v
          /\ \A n \in leftover' : n.by # "load" => coin[n.coin].value # v
  <2> SUFFICES ASSUME single, l.by # "load", coin[c].value \notin freed
               PROVE  /\ \A j \in Slot : Handled(j)' => coin[j[1]].value # coin[c].value
                      /\ \A n \in leftover' : n.by # "load" => coin[n.coin].value # coin[c].value
    BY Zenon
  <2>1. /\ \A n \in leftover :
             n.by # "load" /\ coin[n.coin].value = coin[l.coin].value => n = l
        /\ \A k \in Slot : Handled(k) => coin[k[1]].value # coin[l.coin].value
    BY <1>1, Zenon DEF LeftSingleInv
  <2> QED BY <1>2, <1>10, <2>1
<1>13. /\ leaving' \in SUBSET LeavingRec /\ \A n \in leaving' : n.coin \in DOMAIN coin'
       /\ leftover' \subseteq leftover /\ single' = single
       /\ \A j \in Slot : calls'[j] = calls[j] \/ calls'[j] = NoCall
  BY <1>1, <1>2, <1>7 DEF ListsInv
<1> HIDE DEF W
<1> QED BY <1>6, <1>7, <1>8, <1>9, <1>11, <1>12, <1>13, ListsChange

LEMMA LeftoverSteps ==
    ASSUME Inv, LeftoverNext
    PROVE  Inv'
<1>1. /\ CoinsInv /\ LeftInv /\ Len(coin) \in Nat /\ DOMAIN coin = 1 .. Len(coin)
      /\ \A c \in DOMAIN coin : coin[c] \in CoinRec
  BY CoinDomain DEF Inv
<1>2. PICK l \in leftover : LeftoverOver(l) \/ LeftoverEnds(l) \/ LeftoverReceives(l)
  BY DEF LeftoverNext
<1>3. IsLeftover(l) /\ l.coin \in DOMAIN coin /\ (l.heir # 0 => l.heir \in DOMAIN coin)
  BY <1>1 DEF LeftInv
<1>4. Successor(l.coin, l.heir) \in DOMAIN coin
  BY <1>3 DEF Successor
<1>5. CASE LeftoverOver(l)
  <2>1. coin' = coin /\ LeftoverHandled(l, l)
    BY <1>5 DEF LeftoverOver
  <2>2. UNCHANGED <<single, active, online>>
    BY <2>1 DEF LeftoverHandled, EndHistory
  <2>3. CoinsInv'
    BY <1>1, <2>1, <2>2, CoinsSame
  <2> QED BY <1>4, <2>1, <2>3, LeftoverKeeps
<1>6. CASE LeftoverEnds(l)
  <2>1. PICK at, auto : LeftoverHandled(l, [l EXCEPT !.at = at, !.auto = auto, !.heirAuto = auto])
    BY <1>6 DEF LeftoverEnds
  <2> DEFINE m == [l EXCEPT !.at = at, !.auto = auto, !.heirAuto = auto]
  <2>2. m.coin = l.coin /\ m.by = l.by /\ m.heir = l.heir
    BY <1>3 DEF IsLeftover
  <2>3. coin' = coin /\ LeftoverHandled(l, m)
    BY <1>6, <2>1 DEF LeftoverEnds
  <2>4. UNCHANGED <<single, active, online>>
    BY <2>3 DEF LeftoverHandled, EndHistory
  <2>5. CoinsInv'
    BY <1>1, <2>3, <2>4, CoinsSame
  <2> HIDE DEF m
  <2> QED BY <1>4, <2>2, <2>3, <2>5, LeftoverKeeps
<1>7. CASE LeftoverReceives(l)
  <2> DEFINE n == Len(coin)
             r == [coin[l.coin] EXCEPT !.given = TRUE]
             q == [coin EXCEPT ![l.coin] = r]
             new == [NewCoin(coin[l.coin].value, l.auto) EXCEPT !.status = "ELSEWHERE"]
             m == [l EXCEPT !.at = "over", !.heir = n + 1, !.heirAuto = l.auto]
  <2>1. /\ coin' = Append(q, new) /\ LeftoverHandled(l, m)
        /\ n < Len(InitValues[single]) + MaxReceived
    BY <1>1, <1>7 DEF LeftoverReceives, CoinsInv
  <2>2. UNCHANGED <<single, active, online>>
    BY <2>1 DEF LeftoverHandled, EndHistory
  <2>3. m.coin = l.coin /\ m.by = l.by /\ m.heir = n + 1
    BY <1>3 DEF IsLeftover
  <2>4. /\ r \in CoinRec /\ r.value = coin[l.coin].value /\ r.auto = coin[l.coin].auto
        /\ r.phase4 = coin[l.coin].phase4 /\ r.status = coin[l.coin].status
    BY <1>1, <1>3 DEF CoinRec
  <2>5. new \in CoinRec /\ ~new.phase4
    BY <1>1, <1>3 DEF CoinRec, NewCoin, IsLeftover
  <2>6. /\ q \in Seq(CoinRec) /\ Len(q) = n /\ q[l.coin] = r
        /\ \A d \in DOMAIN coin : d # l.coin => q[d] = coin[d]
    <3> HIDE DEF r
    <3> QED BY <1>1, <1>3, <2>4 DEF CoinsInv
  <2> HIDE DEF r, q, new, m, n
  <2>7. n \in Nat /\ DOMAIN coin = 1 .. n
    BY <1>1 DEF n
  <2>8. /\ coin' \in Seq(CoinRec) /\ Len(coin') = n + 1 /\ DOMAIN coin' = 1 .. n + 1
        /\ coin'[n + 1] = new /\ \A d \in 1 .. n : coin'[d] = q[d]
    BY <2>1, <2>5, <2>6, <2>7
  <2>9. /\ DOMAIN coin \subseteq DOMAIN coin' /\ n + 1 \in DOMAIN coin' /\ n + 1 # 0
        /\ coin'[l.coin] = r
        /\ \A d \in DOMAIN coin : d # l.coin => coin'[d] = coin[d]
    BY <1>3, <2>6, <2>7, <2>8
  <2>10. \A d \in DOMAIN coin : /\ coin'[d].value = coin[d].value
                                /\ coin'[d].phase4 = coin[d].phase4
                                /\ coin'[d].auto = coin[d].auto
                                /\ coin'[d].status = coin[d].status
    BY <2>4, <2>9
  <2>11. CoinsInv'
    <3>1. Len(coin') <= Len(InitValues[single']) + MaxReceived
      <4> DEFINE k == Len(InitValues[single])
      <4>1. k \in Nat /\ MaxReceived \in Nat
        <5>1. \A S : \A s \in Seq(S) : Len(s) \in Nat
          OBVIOUS
        <5>2. InitValues[single] \in Seq(Range(InitValues[single]))
          BY <1>1, BoundsAssumption DEF CoinsInv
        <5> QED BY <5>1, <5>2, BoundsAssumption
      <4>2. n < k + MaxReceived
        BY <2>1
      <4> HIDE DEF k
      <4>3. n + 1 <= k + MaxReceived
        BY <2>7, <4>1, <4>2
      <4> QED BY <2>2, <2>8, <4>3 DEF k
    <3>2. ASSUME NEW d \in DOMAIN coin', coin'[d].phase4 PROVE coin'[d].status = "IN_SWAP"
      <4>1. d \in DOMAIN coin
        BY <2>5, <2>7, <2>8, <3>2
      <4> QED BY <1>1, <2>10, <3>2, <4>1 DEF CoinsInv
    <3> QED BY <1>1, <2>2, <2>8, <3>1, <3>2 DEF CoinsInv
  <2>12. Successor(m.coin, m.heir) \in DOMAIN coin'
    BY <2>3, <2>9 DEF Successor
  <2> QED BY <2>1, <2>3, <2>9, <2>10, <2>11, <2>12, LeftoverKeeps
<1> QED BY <1>2, <1>5, <1>6, <1>7

-----------------------------------------------------------------------------
(***************************************************************************)
(* The switch, the pool, and the connection: no call moves.                *)
(***************************************************************************)
LEMMA CallsStay ==
    ASSUME Inv, CoinsInv', UNCHANGED <<single, calls, leftover>>,
           DOMAIN coin' = DOMAIN coin,
           \A c \in DOMAIN coin :
              coin'[c].value = coin[c].value /\ coin'[c].phase4 = coin[c].phase4,
           pending' \in Seq(DOMAIN coin), IsInjective(pending'),
           \A c \in Range(pending') :
              \/ coin'[c].auto
              \/ /\ c \in Range(pending)
                 /\ coin[c].auto => coin'[c].auto
                 /\ c \in stale => c \in stale',
           inSwapValues' \subseteq inSwapValues, freed \subseteq freed',
           \A v \in inSwapValues : v \in inSwapValues' \/ v \in freed' \/ ~SwappingValue(v),
           leaving' \in SUBSET LeavingRec, \A l \in leaving' : l.coin \in DOMAIN coin
    PROVE  Inv'
<1>1. CallsInv /\ LeftInv
  BY DEF Inv
<1>2. /\ calls' \in [Slot -> CallRec]
      /\ \A j \in Slot : calls'[j] = calls[j] \/ calls'[j] = NoCall
  BY <1>1 DEF CallsInv
<1>3. \A v : SwappingValue(v)' => SwappingValue(v)
  <2>1. \A c : Swapping(c)' <=> Swapping(c)
    BY DEF Swapping
  <2>2. \A l \in leftover : l.coin \in DOMAIN coin
    BY <1>1 DEF LeftInv
  <2> QED BY <2>1, <2>2 DEF SwappingValue
<1>4. ASSUME NEW c \in Range(pending')
      PROVE  \/ coin'[c].auto \/ c \in stale'
             \/ /\ c \in Range(pending)
                /\ coin[c].auto => coin'[c].auto
                /\ c \in stale => c \in stale'
                /\ \A i \in {1, 2} : Handled(<<c, i>>) => Handled(<<c, i>>)'
  <2>1. \A i \in {1, 2} : Handled(<<c, i>>)' <=> Handled(<<c, i>>)
    BY DEF Handled
  <2> QED BY <2>1
<1> DEFINE W == {}
<1>5. single => \A v \in W \ freed :
          /\ \A j \in Slot : Handled(j)' => coin[j[1]].value # v
          /\ \A l \in leftover' : l.by # "load" => coin[l.coin].value # v
  OBVIOUS
<1> HIDE DEF W
<1> QED BY <1>2, <1>3, <1>4, <1>5, ListsChange

LEMMA ToggleOffStep ==
    ASSUME Inv, NEW c \in DOMAIN coin, ToggleOff(c)
    PROVE  Inv'
<1>1. CoinsInv /\ ListsInv
  BY DEF Inv
<1> DEFINE r == [coin[c] EXCEPT !.auto = FALSE]
<1>2. /\ coin' = [coin EXCEPT ![c] = r]
      /\ UNCHANGED <<single, active, online, calls, leftover>>
  BY <1>1 DEF ToggleOff, CoinsInv
<1>3. /\ r \in CoinRec /\ r.value = coin[c].value /\ r.phase4 = coin[c].phase4
      /\ r.phase4 => r.status = "IN_SWAP"
  BY <1>1, SameRecord DEF CoinRec
<1> HIDE DEF r
<1>4. /\ CoinsInv' /\ DOMAIN coin' = DOMAIN coin /\ coin'[c] = r
      /\ \A d \in DOMAIN coin : d # c => coin'[d] = coin[d]
  BY <1>1, <1>2, <1>3, CoinStep
<1>5. /\ pending' \in Seq(DOMAIN coin) /\ IsInjective(pending')
      /\ Range(pending') = Range(pending) \ {c}
  <2>1. pending \in Seq(DOMAIN coin) /\ IsInjective(pending)
    BY <1>1 DEF ListsInv
  <2>2. pending' = RemoveSwapPendingCoin(pending, c)
    BY DEF ToggleOff
  <2> QED BY <2>1, <2>2, Removed
<1>6. stale' = stale \ {c}
  BY DEF ToggleOff
<1>7. \A d \in Range(pending') :
         /\ d \in Range(pending) /\ d \in DOMAIN coin
         /\ coin[d].auto => coin'[d].auto
         /\ d \in stale => d \in stale'
  <2>1. Range(pending') \subseteq DOMAIN coin
    BY <1>5 DEF Range
  <2>2. ASSUME NEW d \in Range(pending')
        PROVE  d \in DOMAIN coin /\ d # c /\ coin'[d] = coin[d]
    BY <1>4, <1>5, <2>1
  <2> QED BY <1>5, <1>6, <2>2
<1>8. /\ inSwapValues' \subseteq inSwapValues /\ freed \subseteq freed'
      /\ \A v \in inSwapValues : v \in inSwapValues' \/ v \in freed' \/ ~SwappingValue(v)
  BY DEF ToggleOff
<1>9. leaving' \in SUBSET LeavingRec /\ \A l \in leaving' : l.coin \in DOMAIN coin
  <2>1. c \in Nat
    BY <1>1, CoinDomain
  <2>2. leaving' = leaving \union {[coin |-> c, by |-> "toggle", at |-> "asked"]}
    BY DEF ToggleOff
  <2> QED BY <1>1, <2>1, <2>2 DEF ListsInv, LeavingRec
<1>10. \A d \in DOMAIN coin :
          coin'[d].value = coin[d].value /\ coin'[d].phase4 = coin[d].phase4
  BY <1>3, <1>4
<1> QED BY <1>2, <1>4, <1>5, <1>7, <1>8, <1>9, <1>10, CallsStay

LEMMA ToggleOnStep ==
    ASSUME Inv, NEW c \in DOMAIN coin, ToggleOn(c)
    PROVE  Inv'
<1>1. CoinsInv /\ ListsInv
  BY DEF Inv
<1> DEFINE r == [coin[c] EXCEPT !.auto = TRUE]
<1>2. /\ coin' = [coin EXCEPT ![c] = r] /\ active
      /\ UNCHANGED <<single, active, online, leftover, leaving, stale, freed>>
  BY <1>1 DEF ToggleOn, CoinsInv
<1>3. /\ r \in CoinRec /\ r.value = coin[c].value /\ r.phase4 = coin[c].phase4
      /\ r.auto
  BY <1>1, SameRecord DEF CoinRec
<1>4. r.phase4 => r.status = "IN_SWAP"
  BY <1>1, SameRecord DEF CoinRec
<1> HIDE DEF r
<1>5. /\ CoinsInv' /\ DOMAIN coin' = DOMAIN coin /\ coin'[c] = r
      /\ \A d \in DOMAIN coin : d # c => coin'[d] = coin[d]
  BY <1>1, <1>2, <1>3, <1>4, CoinStep
<1>6. coin'[c].auto
  BY <1>5 DEF r, CoinRec
<1>7. \A d \in DOMAIN coin :
         /\ coin'[d].value = coin[d].value /\ coin'[d].phase4 = coin[d].phase4
         /\ coin[d].auto => coin'[d].auto
  BY <1>3, <1>5, <1>6
<1>8. CASE CheckSwapAvailability(c, inSwapValues)
  <2>1. /\ calls[<<c, 2>>] = NoCall /\ CallDoSwap({c}, "hand")
        /\ inSwapValues' = inSwapValues \union {coin[c].value} /\ UNCHANGED pending
    BY <1>8, Zenon DEF ToggleOn
  <2>2. /\ coin[c].status = "AVAILABLE"
        /\ single => coin[c].value \notin inSwapValues
    BY <1>8, Zenon DEF CheckSwapAvailability
  <2> DEFINE picked == [coins |-> {c}, values |-> inSwapValues \union {coin[c].value}]
  <2>3. picked.coins = {c} /\ picked.values = inSwapValues \union {coin[c].value}
    OBVIOUS
  <2> HIDE DEF picked
  <2>4. Choice(picked)
    BY <2>1, <2>2, <2>3 DEF Choice
  <2>5. CallDoSwap(picked.coins, "hand") /\ inSwapValues' = picked.values
    BY <2>1, <2>3
  <2> QED BY <1>2, <1>5, <1>7, <2>1, <2>4, <2>5, StartKeeps
<1>9. CASE ~CheckSwapAvailability(c, inSwapValues)
  <2>1. /\ pending' = AddSwapPendingCoin(pending, c)
        /\ UNCHANGED <<calls, inSwapValues>>
    BY <1>9, Zenon DEF ToggleOn
  <2>2. /\ pending' \in Seq(DOMAIN coin) /\ IsInjective(pending')
        /\ Range(pending') = Range(pending) \union {c}
    <3>1. pending \in Seq(DOMAIN coin) /\ IsInjective(pending)
      BY <1>1 DEF ListsInv
    <3> QED BY <2>1, <3>1, Added
  <2>3. \A d \in Range(pending') :
           \/ coin'[d].auto
           \/ /\ d \in Range(pending)
              /\ coin[d].auto => coin'[d].auto
              /\ d \in stale => d \in stale'
    <3>1. Range(pending') \subseteq DOMAIN coin
      BY <2>2 DEF Range
    <3> QED BY <1>2, <1>6, <1>7, <2>2, <3>1
  <2>4. leaving' \in SUBSET LeavingRec /\ \A l \in leaving' : l.coin \in DOMAIN coin
    BY <1>1, <1>2 DEF ListsInv
  <2> QED BY <1>2, <1>5, <1>7, <2>1, <2>2, <2>3, <2>4, CallsStay
<1> QED BY <1>8, <1>9

(* Nothing but the calls of deRegisterSwapCoin, the pool, or the connection. *)
LEMMA ListsStay ==
    ASSUME Inv, CoinsInv', UNCHANGED <<single, calls, leftover, ui, history>>,
           DOMAIN coin' = DOMAIN coin,
           \A c \in DOMAIN coin : /\ coin'[c].value = coin[c].value
                                 /\ coin'[c].phase4 = coin[c].phase4
                                 /\ coin'[c].auto = coin[c].auto,
           leaving' \in SUBSET LeavingRec, \A l \in leaving' : l.coin \in DOMAIN coin
    PROVE  Inv'
<1>1. /\ pending' = pending /\ inSwapValues' = inSwapValues /\ stale' = stale
      /\ freed' = freed /\ UNCHANGED <<single, calls, leftover>>
  BY DEF ui, history
<1>2. /\ pending \in Seq(DOMAIN coin) /\ IsInjective(pending)
      /\ Range(pending) \subseteq DOMAIN coin
  BY DEF Inv, ListsInv, Range
<1> QED BY <1>1, <1>2, CallsStay

LEMMA QuietSteps ==
    ASSUME Inv,
           \/ \E c \in DOMAIN coin : LeavePoolButtonAction(c)
           \/ \E l \in leaving : DeRegisterFails(l)
           \/ Logout \/ SetOnline
    PROVE  Inv'
<1>1. CoinsInv /\ ListsInv
  BY DEF Inv
<1>2. UNCHANGED <<single, coin, calls, leftover, ui, history>>
  BY DEF LeavePoolButtonAction, DeRegisterFails, Logout, SetOnline
<1>3. /\ active' \in BOOLEAN /\ online' \in BOOLEAN
  <2>1. active \in BOOLEAN /\ online \in BOOLEAN
    BY <1>1 DEF CoinsInv
  <2>2. CASE active' = active /\ online' = online
    BY <2>1, <2>2
  <2>3. CASE Logout
    BY <2>1, <2>3 DEF Logout
  <2>4. CASE SetOnline
    BY <2>1, <2>4 DEF SetOnline
  <2> QED BY <2>2, <2>3, <2>4 DEF LeavePoolButtonAction, DeRegisterFails
<1>4. CoinsInv'
  BY <1>1, <1>2, <1>3 DEF CoinsInv
<1>5. leaving' \in SUBSET LeavingRec /\ \A l \in leaving' : l.coin \in DOMAIN coin
  <2>1. CASE leaving' = leaving
    BY <1>1, <2>1 DEF ListsInv
  <2>2. ASSUME NEW c \in DOMAIN coin, LeavePoolButtonAction(c)
        PROVE  leaving' \in SUBSET LeavingRec /\ \A l \in leaving' : l.coin \in DOMAIN coin
    <3>1. c \in Nat
      BY <1>1, CoinDomain
    <3>2. leaving' = leaving \union {[coin |-> c, by |-> "leave", at |-> "asked"]}
      BY <2>2 DEF LeavePoolButtonAction
    <3> QED BY <1>1, <3>1, <3>2 DEF ListsInv, LeavingRec
  <2>3. ASSUME NEW l \in leaving, DeRegisterFails(l)
        PROVE  leaving' \in SUBSET LeavingRec /\ \A m \in leaving' : m.coin \in DOMAIN coin
    BY <1>1, <2>3 DEF ListsInv, LeavingRec, DeRegisterFails
  <2>4. Logout \/ SetOnline => leaving' = leaving
    BY DEF Logout, SetOnline
  <2> QED BY <2>1, <2>2, <2>3, <2>4
<1> QED BY <1>2, <1>3, <1>4, <1>5, ListsStay

LEMMA DeRegisterStep ==
    ASSUME Inv, NEW l \in leaving, DeRegisterSwapCoin(l)
    PROVE  Inv'
<1>1. CoinsInv /\ ListsInv /\ l.coin \in DOMAIN coin
  BY DEF Inv, ListsInv
<1>2. UNCHANGED <<single, active, online, calls, leftover, ui, history>>
  BY DEF DeRegisterSwapCoin
<1>3. /\ CoinsInv' /\ DOMAIN coin' = DOMAIN coin
      /\ \A c \in DOMAIN coin : /\ coin'[c].value = coin[c].value
                                /\ coin'[c].phase4 = coin[c].phase4
                                /\ coin'[c].auto = coin[c].auto
  <2>1. CASE coin[l.coin].status = "AWAITING_SWAP"
    <3> DEFINE r == SetSwapDataToNull(l.coin)
    <3>1. coin' = [coin EXCEPT ![l.coin] = r]
      BY <2>1 DEF DeRegisterSwapCoin
    <3>2. /\ r \in CoinRec /\ r.value = coin[l.coin].value /\ r.auto = coin[l.coin].auto
          /\ r.phase4 = FALSE
      BY <1>1, NullCoin
    <3>3. coin[l.coin].phase4 = FALSE
      BY <1>1, <2>1, SameRecord DEF CoinRec
    <3> HIDE DEF r
    <3>4. /\ CoinsInv' /\ DOMAIN coin' = DOMAIN coin /\ coin'[l.coin] = r
          /\ \A d \in DOMAIN coin : d # l.coin => coin'[d] = coin[d]
      BY <1>1, <1>2, <3>1, <3>2, CoinStep
    <3> QED BY <3>2, <3>3, <3>4
  <2>2. CASE coin[l.coin].status # "AWAITING_SWAP"
    <3>1. coin' = coin
      BY <2>2 DEF DeRegisterSwapCoin
    <3> QED BY <1>1, <1>2, <3>1, CoinsSame
  <2> QED BY <2>1, <2>2
<1>4. leaving' \in SUBSET LeavingRec /\ \A m \in leaving' : m.coin \in DOMAIN coin
  BY <1>1 DEF ListsInv, LeavingRec, DeRegisterSwapCoin
<1> QED BY <1>2, <1>3, <1>4, ListsStay

LEMMA LeaveDoneStep ==
    ASSUME Inv, NEW l \in leaving, LeaveDone(l)
    PROVE  Inv'
<1>1. /\ CoinsInv /\ ListsInv /\ pending \in Seq(DOMAIN coin) /\ IsInjective(pending)
      /\ Range(pending) \subseteq DOMAIN coin
  BY DEF Inv, ListsInv, Range
<1>2. UNCHANGED <<single, active, online, coin, calls, leftover, inSwapValues, freed>>
  BY DEF LeaveDone
<1>3. CoinsInv'
  BY <1>1, <1>2, CoinsSame
<1>4. leaving' \in SUBSET LeavingRec /\ \A m \in leaving' : m.coin \in DOMAIN coin
  BY <1>1 DEF ListsInv, LeaveDone
<1>5. /\ pending' \in Seq(DOMAIN coin) /\ IsInjective(pending')
      /\ Range(pending') \subseteq Range(pending)
      /\ \A c \in Range(pending') : c \in stale => c \in stale'
  <2>1. CASE l.by = "leave"
    <3>1. pending' = RemoveSwapPendingCoin(pending, l.coin) /\ stale' = stale \ {l.coin}
      BY <2>1, Zenon DEF LeaveDone
    <3>2. /\ pending' \in Seq(DOMAIN coin) /\ IsInjective(pending')
          /\ Range(pending') = Range(pending) \ {l.coin}
      BY <1>1, <3>1, Removed
    <3> QED BY <3>1, <3>2
  <2>2. CASE l.by # "leave"
    <3>1. pending' = pending /\ stale' = stale
      BY <2>2, Zenon DEF LeaveDone
    <3> QED BY <1>1, <3>1
  <2> QED BY <2>1, <2>2
<1>6. /\ \A c \in DOMAIN coin :
            coin'[c].value = coin[c].value /\ coin'[c].phase4 = coin[c].phase4
      /\ \A c \in Range(pending') : /\ c \in Range(pending)
                                     /\ coin[c].auto => coin'[c].auto
  BY <1>2, <1>5
<1> QED BY <1>2, <1>3, <1>4, <1>5, <1>6, CallsStay

-----------------------------------------------------------------------------
(***************************************************************************)
(* A wallet is loaded: the swaps in phase 4 are resumed, and no others.    *)
(***************************************************************************)
LEMMA LoadStep ==
    ASSUME Inv, LoadWallet
    PROVE  Inv'
<1>1. /\ CoinsInv /\ CallsInv /\ ListsInv /\ SingleInv /\ LeftInv /\ LeftSingleInv
  BY DEF Inv
<1>2. /\ active' = TRUE /\ UNCHANGED <<single, online, ui, freed>>
      /\ stale' = Range(pending)
  BY DEF LoadWallet
<1>3. /\ pending' = pending /\ inSwapValues' = inSwapValues
      /\ single' = single /\ online' = online
  BY <1>2 DEF ui
<1>0. PICK found :
        coin' = [c \in DOMAIN coin |->
                   IF c \notin found /\ (~Listed(c) \/ coin[c].phase4)
                   THEN [coin[c] EXCEPT !.auto = FALSE]
                   ELSE [SetSwapDataToNull(c) EXCEPT !.auto = FALSE]]
             /\ \A c \in found : coin[c].status = "ELSEWHERE"
  BY DEF LoadWallet
<1> DEFINE Stays(c) == c \notin found /\ (~Listed(c) \/ coin[c].phase4)
           Loaded(c) == IF Stays(c) THEN [coin[c] EXCEPT !.auto = FALSE]
                        ELSE [SetSwapDataToNull(c) EXCEPT !.auto = FALSE]
<1>4. coin' = [c \in DOMAIN coin |-> Loaded(c)]
  BY <1>0
<1>5. ASSUME NEW c \in DOMAIN coin
      PROVE  /\ Loaded(c) \in CoinRec /\ Loaded(c).value = coin[c].value
             /\ Loaded(c).phase4 => Loaded(c).status = "IN_SWAP"
             /\ coin[c].phase4 => Loaded(c).phase4
  <2>1. /\ coin[c] \in CoinRec
        /\ coin[c].phase4 => coin[c].status = "IN_SWAP"
    BY <1>1, SameRecord
  <2>2. /\ SetSwapDataToNull(c) \in CoinRec /\ SetSwapDataToNull(c).phase4 = FALSE
        /\ SetSwapDataToNull(c).value = coin[c].value
    BY <1>1, NullCoin
  <2>3. coin[c].phase4 => Stays(c)
    BY <1>0, <2>1
  <2> HIDE DEF Stays
  <2>4. CASE Stays(c)
    <3> DEFINE r == [coin[c] EXCEPT !.auto = FALSE]
    <3>1. /\ r \in CoinRec /\ r.phase4 = coin[c].phase4 /\ r.status = coin[c].status
          /\ r.value = coin[c].value
      BY <2>1 DEF CoinRec
    <3>2. Loaded(c) = r
      BY <2>4, Zenon
    <3> HIDE DEF r, Loaded
    <3> QED BY <2>1, <3>1, <3>2
  <2>5. CASE ~Stays(c)
    <3> DEFINE r == [SetSwapDataToNull(c) EXCEPT !.auto = FALSE]
    <3>1. r \in CoinRec /\ r.phase4 = FALSE /\ r.value = coin[c].value
      BY <2>2 DEF CoinRec
    <3>2. Loaded(c) = r
      BY <2>5, Zenon
    <3> HIDE DEF r, Loaded
    <3> QED BY <2>3, <2>5, <3>1, <3>2
  <2> QED BY <2>4, <2>5
<1> HIDE DEF Loaded
<1>6. DOMAIN coin' = DOMAIN coin /\ \A c \in DOMAIN coin : coin'[c] = Loaded(c)
  BY <1>4
<1>7. CoinsInv'
  <2>1. Len(coin) \in Nat /\ DOMAIN coin = 1 .. Len(coin)
    BY <1>1, CoinDomain
  <2>2. coin' \in Seq(CoinRec) /\ Len(coin') = Len(coin)
    <3>1. coin' \in [1 .. Len(coin) -> CoinRec]
      BY <1>4, <1>5, <2>1
    <3> QED BY <2>1, <3>1
  <2>3. Len(coin') <= Len(InitValues[single']) + MaxReceived
    BY <1>1, <1>3, <2>2 DEF CoinsInv
  <2>4. \A c \in DOMAIN coin' : coin'[c].phase4 => coin'[c].status = "IN_SWAP"
    BY <1>5, <1>6
  <2>5. single' \in BOOLEAN /\ active' \in BOOLEAN /\ online' \in BOOLEAN
    BY <1>1, <1>2, <1>3 DEF CoinsInv
  <2> QED BY <2>2, <2>3, <2>4, <2>5 DEF CoinsInv
<1> DEFINE Resumed(k) == k[1] \in DOMAIN coin /\ k[2] = 1 /\ coin[k[1]].phase4
           resumed == [NewCall("load") EXCEPT !.at = "loop"]
<1>8. /\ resumed \in CallRec /\ resumed.at = "loop" /\ resumed.by = "load"
      /\ resumed.heir = 0
  BY DEF NewCall, CallRec
<1>9. /\ NoCall \in CallRec /\ NoCall.at = "none" /\ NoCall.heir = 0
      /\ NoCall.by = "nobody"
  BY DEF NoCall, CallRec
<1>10. calls' = [k \in Slot |-> IF Resumed(k) THEN resumed ELSE NoCall]
  BY DEF LoadWallet
<1> HIDE DEF resumed, Resumed
<1>11. \A k \in Slot : calls'[k] = IF Resumed(k) THEN resumed ELSE NoCall
  BY <1>10
<1>12. CallsInv'
  <2>1. calls' \in [Slot -> CallRec]
    BY <1>8, <1>9, <1>10
  <2>2. ASSUME NEW k \in Slot
        PROVE  /\ calls'[k].heir # 0 => calls'[k].heir \in DOMAIN coin'
               /\ calls'[k].at = "none" => calls'[k] = NoCall
               /\ calls'[k].at # "none" => calls'[k].by # "nobody" /\ k[1] \in DOMAIN coin'
    <3>1. CASE Resumed(k)
      BY <1>6, <1>8, <1>11, <3>1 DEF Resumed
    <3>2. CASE ~Resumed(k)
      BY <1>9, <1>11, <3>2
    <3> QED BY <3>1, <3>2
  <2> QED BY <2>1, <2>2 DEF CallsInv
<1>13. ListsInv'
  <2>1. leaving' = {[l EXCEPT !.at = "saved"] : l \in leaving}
    BY DEF LoadWallet
  <2>2. \A l \in leaving : /\ [l EXCEPT !.at = "saved"] \in LeavingRec
                           /\ [l EXCEPT !.at = "saved"].coin = l.coin
    BY <1>1 DEF ListsInv, LeavingRec
  <2>3. leaving' \in SUBSET LeavingRec /\ \A l \in leaving' : l.coin \in DOMAIN coin'
    BY <1>1, <1>6, <2>1, <2>2 DEF ListsInv
  <2> QED BY <1>1, <1>3, <1>6, <2>3 DEF ListsInv
<1>14. ResumedInv'
  <2> SUFFICES ASSUME NEW k \in Slot, calls'[k].by = "load"
               PROVE  /\ calls'[k].at = "loop" /\ coin'[k[1]].phase4
                      /\ \A i \in {1, 2} : i # k[2] => calls'[<<k[1], i>>].at # "loop"
    BY DEF ResumedInv
  <2>1. Resumed(k) /\ calls'[k].at = "loop"
    BY <1>8, <1>9, <1>11
  <2>2. coin'[k[1]].phase4
    BY <1>5, <1>6, <2>1 DEF Resumed
  <2>3. ASSUME NEW i \in {1, 2}, i # k[2] PROVE calls'[<<k[1], i>>].at # "loop"
    <3>1. <<k[1], i>> \in Slot /\ <<k[1], i>>[2] = i
      BY SlotPairs
    <3>2. ~Resumed(<<k[1], i>>)
      BY <2>1, <2>3, <3>1 DEF Resumed
    <3> QED BY <1>9, <1>11, <3>1, <3>2
  <2> QED BY <2>1, <2>2, <2>3
<1>15. \A k \in Slot : ~Handled(k)'
  <2>1. ASSUME NEW k \in Slot PROVE calls'[k].by \notin {"hand", "auto"}
    BY <1>8, <1>9, <1>11
  <2> QED BY <2>1 DEF Handled
<1>16. PendingInv'
  BY <1>2, <1>3 DEF PendingInv
<1>17. SingleInv'
  BY <1>15, Zenon DEF SingleInv
<1>18. \A l \in leftover' : \/ l \in leftover
                            \/ \E k \in Slot : calls[k].at # "none" /\ l = Leftover(k)
  <2>1. leftover' = leftover \union {Leftover(k) : k \in {j \in Slot : calls[j] # NoCall}}
    BY DEF LoadWallet
  <2>2. \A k \in Slot : calls[k] # NoCall => calls[k].at # "none"
    BY <1>1 DEF CallsInv
  <2> QED BY <2>1, <2>2
<1>19. ASSUME NEW k \in Slot, calls[k].at # "none"
       PROVE  /\ IsLeftover(Leftover(k)) /\ Leftover(k).coin = k[1]
              /\ Leftover(k).heir = calls[k].heir /\ k[1] \in DOMAIN coin
              /\ Leftover(k).heir # 0 => Leftover(k).heir \in DOMAIN coin
              /\ Leftover(k).by # "load" => Handled(k)
  <2>1. /\ calls[k] \in CallRec /\ calls[k].by # "nobody" /\ k[1] \in DOMAIN coin
        /\ calls[k].heir # 0 => calls[k].heir \in DOMAIN coin
    BY <1>1, <1>19 DEF CallsInv
  <2>2. Successor(k[1], calls[k].heir) \in DOMAIN coin
    BY <2>1 DEF Successor
  <2>3. coin[k[1]].auto \in BOOLEAN /\ coin[Successor(k[1], calls[k].heir)].auto \in BOOLEAN
    BY <1>1, <2>1, <2>2, CoinDomain DEF CoinRec
  <2>4. /\ calls[k].by \in {"hand", "auto", "load"}
        /\ calls[k].at \in {"starting", "loop", "over", "rejected"}
    BY <1>19, <2>1 DEF CallRec
  <2> QED BY <1>19, <2>1, <2>3, <2>4 DEF Leftover, IsLeftover, Handled
<1>20. LeftInv'
  <2> SUFFICES ASSUME NEW l \in leftover'
               PROVE  /\ IsLeftover(l) /\ l.coin \in DOMAIN coin
                      /\ l.heir # 0 => l.heir \in DOMAIN coin
    BY <1>6 DEF LeftInv
  <2>1. CASE l \in leftover
    BY <1>1, <2>1 DEF LeftInv
  <2>2. CASE \E k \in Slot : calls[k].at # "none" /\ l = Leftover(k)
    BY <1>19, <2>2
  <2> QED BY <1>18, <2>1, <2>2
<1>21. LeftSingleInv'
  <2>1. \A l \in leftover' : coin'[l.coin].value = coin[l.coin].value
    BY <1>5, <1>6, <1>20 DEF LeftInv
  <2> SUFFICES ASSUME single, NEW l \in leftover', l.by # "load",
                      coin[l.coin].value \notin freed
               PROVE  /\ coin[l.coin].value \in inSwapValues
                      /\ \A m \in leftover' :
                           m.by # "load" /\ coin[m.coin].value = coin[l.coin].value => m = l
    BY <1>2, <1>3, <1>15, <2>1 DEF LeftSingleInv
  <2>2. ASSUME NEW k \in Slot, Handled(k), coin[k[1]].value \notin freed
        PROVE  /\ coin[k[1]].value \in inSwapValues
               /\ \A j \in Slot : Handled(j) /\ coin[j[1]].value = coin[k[1]].value => j = k
    BY <1>1, <2>2, Zenon DEF SingleInv
  <2>3. ASSUME NEW n \in leftover, n.by # "load", coin[n.coin].value \notin freed
        PROVE  /\ coin[n.coin].value \in inSwapValues
               /\ \A m \in leftover :
                    m.by # "load" /\ coin[m.coin].value = coin[n.coin].value => m = n
               /\ \A k \in Slot : Handled(k) => coin[k[1]].value # coin[n.coin].value
    BY <1>1, <2>3, Zenon DEF LeftSingleInv
  <2>4. ASSUME NEW n \in leftover', n.by # "load", n \notin leftover
        PROVE  \E k \in Slot : Handled(k) /\ n = Leftover(k) /\ n.coin = k[1]
    BY <1>18, <1>19, <2>4
  <2>5. coin[l.coin].value \in inSwapValues
    BY <2>2, <2>3, <2>4
  <2>6. ASSUME NEW m \in leftover', m.by # "load", coin[m.coin].value = coin[l.coin].value
        PROVE  m = l
    <3>1. CASE l \in leftover /\ m \in leftover
      BY <2>3, <2>6, <3>1
    <3>2. CASE l \in leftover /\ m \notin leftover
      BY <2>3, <2>4, <2>6, <3>2
    <3>3. CASE l \notin leftover /\ m \in leftover
      BY <2>3, <2>4, <2>6, <3>3
    <3>4. CASE l \notin leftover /\ m \notin leftover
      BY <2>2, <2>4, <2>6, <3>4
    <3> QED BY <3>1, <3>2, <3>3, <3>4
  <2> QED BY <2>5, <2>6
<1> QED BY <1>7, <1>12, <1>13, <1>14, <1>16, <1>17, <1>20, <1>21 DEF Inv

(* The invariant holds at the start. *)
LEMMA InitInv == Init => Inv
<1> SUFFICES ASSUME Init PROVE Inv
  OBVIOUS
<1>1. /\ single \in BOOLEAN /\ active = TRUE /\ online = TRUE
      /\ coin = [i \in DOMAIN InitValues[single] |-> NewCoin(InitValues[single][i], FALSE)]
      /\ calls = [k \in Slot |-> NoCall] /\ pending = <<>>
      /\ inSwapValues = {} /\ leaving = {} /\ leftover = {}
  BY DEF Init
<1>2. /\ NoCall \in CallRec /\ NoCall.at = "none" /\ NoCall.heir = 0
      /\ NoCall.by = "nobody"
  BY DEF NoCall, CallRec
<1> DEFINE q == InitValues[single]
           l == Len(q)
<1>3. q \in Seq(Range(q)) /\ MaxReceived \in Nat
  BY <1>1, BoundsAssumption
<1>4. l \in Nat /\ DOMAIN q = 1 .. l
  <2>1. \A S : \A s \in Seq(S) : Len(s) \in Nat /\ DOMAIN s = 1 .. Len(s)
    OBVIOUS
  <2> QED BY <1>3, <2>1
<1>5. ASSUME NEW i \in DOMAIN q
      PROVE  NewCoin(q[i], FALSE) \in CoinRec /\ ~NewCoin(q[i], FALSE).phase4
  <2>1. q[i] \in Value
    <3>1. q[i] \in Range(q)
      BY DEF Range
    <3>2. q = InitValues[TRUE] \/ q = InitValues[FALSE]
      BY <1>1, Zenon
    <3> HIDE DEF q
    <3> QED BY <3>1, <3>2, Zenon DEF Value
  <2> HIDE DEF q
  <2> QED BY <2>1 DEF NewCoin, CoinRec
<1>6. coin = [i \in DOMAIN q |-> NewCoin(q[i], FALSE)]
  BY <1>1
<1>7. CoinsInv
  <2> HIDE DEF q, l
  <2>1. coin \in Seq(CoinRec) /\ Len(coin) = l
    <3>1. coin \in [1 .. l -> CoinRec]
      BY <1>4, <1>5, <1>6
    <3> QED BY <1>4, <3>1
  <2>2. l <= l + MaxReceived
    BY <1>3, <1>4
  <2>3. Len(coin) <= Len(InitValues[single]) + MaxReceived
    BY <2>1, <2>2 DEF l, q
  <2>4. \A c \in DOMAIN coin : ~coin[c].phase4
    BY <1>5, <1>6
  <2> QED BY <1>1, <2>1, <2>3, <2>4 DEF CoinsInv
<1>8. CallsInv
  BY <1>1, <1>2 DEF CallsInv
<1>9. ListsInv
  BY <1>1, EmptyList DEF ListsInv
<1>10. ResumedInv
  BY <1>1, <1>2 DEF ResumedInv
<1>11. PendingInv
  BY <1>1, EmptyList DEF PendingInv
<1>12. SingleInv
  <2>1. \A k \in Slot : ~Handled(k)
    BY <1>1, <1>2 DEF Handled
  <2> QED BY <2>1, Zenon DEF SingleInv
<1>13. LeftInv /\ LeftSingleInv
  BY <1>1 DEF LeftInv, LeftSingleInv
<1> QED BY <1>7, <1>8, <1>9, <1>10, <1>11, <1>12, <1>13 DEF Inv

(* Every step keeps the invariant, action by action. *)
LEMMA StepInv == Inv /\ [Next]_vars => Inv'
<1> SUFFICES ASSUME Inv, [Next]_vars PROVE Inv'
  OBVIOUS
<1>1. CASE UserNext
  <2>1. CASE SwapButtonAction
    BY <2>1, StartSteps
  <2>2. ASSUME NEW c \in DOMAIN coin, ToggleOff(c) PROVE Inv'
    BY <2>2, ToggleOffStep
  <2>3. ASSUME NEW c \in DOMAIN coin, ToggleOn(c) PROVE Inv'
    BY <2>3, ToggleOnStep
  <2>4. ASSUME NEW c \in DOMAIN coin, LeavePoolButtonAction(c) PROVE Inv'
    BY <2>4, QuietSteps
  <2>5. CASE Logout
    BY <2>5, QuietSteps
  <2>6. CASE LoadWallet
    BY <2>6, LoadStep
  <2> QED BY <1>1, <2>1, <2>2, <2>3, <2>4, <2>5, <2>6 DEF UserNext
<1>2. CASE AutoSwapLoop
  BY <1>2, StartSteps
<1>3. CASE LeavingNext
  <2>1. PICK l \in leaving : DeRegisterSwapCoin(l) \/ DeRegisterFails(l) \/ LeaveDone(l)
    BY <1>3 DEF LeavingNext
  <2> QED BY <2>1, DeRegisterStep, QuietSteps, LeaveDoneStep
<1>4. ASSUME NEW k \in Slot, CallNext(k) PROVE Inv'
  BY <1>4, PrepareStep, RejectedStep, PhaseSteps, LoopEndSteps, ReceivedStep,
     HandlerStep, ResumedOverStep DEF CallNext, Ends, Handles
<1>5. CASE SetOnline
  BY <1>5, QuietSteps
<1>6. CASE LeftoverNext
  BY <1>6, LeftoverSteps
<1>7. CASE UNCHANGED vars
  <2>1. UNCHANGED <<single, active, online, coin, calls, leftover, ui, leaving, history>>
    BY <1>7 DEF vars
  <2>2. CoinsInv /\ CoinsInv' /\ ListsInv
    BY <2>1, CoinsSame DEF Inv
  <2> QED BY <2>1, <2>2, ListsStay DEF ListsInv
<1> QED BY <1>1, <1>2, <1>3, <1>4, <1>5, <1>6, <1>7 DEF Next

-----------------------------------------------------------------------------
(* The inductive invariant holds in every state of the specification. *)
THEOREM Invariance == Spec => []Inv
<1> QED BY InitInv, StepInv, PTL DEF Spec

(* The variables have their types, the list of pending coins has no coin   *)
(* twice, and a coin in phase 4 is in a swap.                              *)
THEOREM Typing == Spec => []TypeOK
<1>1. Inv => TypeOK
  <2> SUFFICES ASSUME Inv PROVE TypeOK
    OBVIOUS
  <2>1. CoinsInv /\ CallsInv /\ ListsInv
    BY DEF Inv
  <2>2. single \in BOOLEAN /\ active \in BOOLEAN /\ online \in BOOLEAN
    BY <2>1 DEF CoinsInv
  <2>3. DOMAIN coin \subseteq Coin
    BY <2>1, CoinDomain
  <2>4. \A c \in DOMAIN coin :
           /\ coin[c].value \in Value /\ coin[c].auto \in BOOLEAN
           /\ coin[c].status \in {"AVAILABLE", "AWAITING_SWAP", "IN_SWAP", "SPENT",
                                 "ELSEWHERE"}
           /\ coin[c].phase4 => coin[c].status = "IN_SWAP"
    BY <2>1, SameRecord DEF CoinRec
  <2>5. \A k \in Slot :
           /\ calls[k].by \in {"nobody", "hand", "auto", "load"}
           /\ calls[k].at \in {"none", "starting", "loop", "over", "rejected"}
           /\ calls[k].heir # 0 => calls[k].heir \in DOMAIN coin
           /\ calls[k].at # "none" => k[1] \in DOMAIN coin
    BY <2>1 DEF CallsInv, CallRec
  <2>6. /\ IsInjective(pending) /\ Range(pending) \subseteq DOMAIN coin
        /\ inSwapValues \subseteq Value
        /\ \A l \in leaving : l.coin \in DOMAIN coin
    BY <2>1 DEF ListsInv, Range
  <2>7. \A l \in leftover :
           /\ l.coin \in DOMAIN coin
           /\ l.by \in {"hand", "auto", "load"}
           /\ l.at \in {"starting", "loop", "over", "rejected"}
           /\ l.heir # 0 => l.heir \in DOMAIN coin
           /\ l.auto \in BOOLEAN /\ l.heirAuto \in BOOLEAN
    BY DEF Inv, LeftInv, IsLeftover
  <2> QED BY <2>2, <2>3, <2>4, <2>5, <2>6, <2>7 DEF TypeOK
<1> QED BY <1>1, Invariance, PTL

(* A coin the interval would start has its auto swap on, or its swap is    *)
(* not over: a switch turned off stays off, but for the coins that an      *)
(* unloaded wallet left in the list and those its calls put back there.    *)
THEOREM PendingCoins == Spec => []PendingIsAuto
<1>1. Inv => PendingIsAuto
  <2> SUFFICES ASSUME Inv, NEW c \in Range(pending), NEW i \in {1, 2}, Handled(<<c, i>>)
               PROVE  Swapping(c)
    BY DEF Inv, PendingInv, PendingIsAuto
  <2> QED BY DEF Handled, Swapping
<1> QED BY <1>1, Invariance, PTL

(* In single swap mode no two swaps of one value run at once, those that   *)
(* an unloaded wallet left behind included, unless the value was freed     *)
(* under a swap by a switch or while no wallet was loaded.                 *)
THEOREM NotWithOneself == Spec => []SwapsWithOthers
<1>1. Inv => SwapsWithOthers
  <2> SUFFICES ASSUME Inv, single, NEW v \in Value \ freed
               PROVE  /\ \A j, k \in InPool(v) : j = k
                      /\ \A j, k \in LeftInPool(v) : j = k
                      /\ InPool(v) = {} \/ LeftInPool(v) = {}
    BY DEF SwapsWithOthers
  <2>1. CallsInv /\ SingleInv /\ LeftSingleInv
    BY DEF Inv
  <2>2. ASSUME NEW m \in InPool(v) PROVE m \in Slot /\ Handled(m) /\ coin[m[1]].value = v
    <3>1. /\ m \in Slot /\ calls[m].at \in {"starting", "loop"} /\ calls[m].by # "load"
          /\ coin[m[1]].value = v
      BY DEF InPool
    <3>2. calls[m].by \in {"nobody", "hand", "auto", "load"} /\ calls[m].by # "nobody"
      BY <2>1, <3>1 DEF CallsInv, CallRec
    <3> QED BY <3>1, <3>2 DEF Handled
  <2>3. ASSUME NEW l \in LeftInPool(v)
        PROVE  l \in leftover /\ l.by # "load" /\ coin[l.coin].value = v
    BY DEF LeftInPool
  <2>4. \A j, k \in InPool(v) : j = k
    BY <2>1, <2>2, Zenon DEF SingleInv
  <2>5. ASSUME NEW l \in LeftInPool(v)
        PROVE  (\A m \in LeftInPool(v) : m = l) /\ InPool(v) = {}
    <3>1. /\ \A m \in leftover : m.by # "load" /\ coin[m.coin].value = v => m = l
          /\ \A k \in Slot : Handled(k) => coin[k[1]].value # v
      BY <2>1, <2>3, Zenon DEF LeftSingleInv
    <3> QED BY <2>2, <2>3, <3>1
  <2> QED BY <2>4, <2>5
<1> QED BY <1>1, Invariance, PTL
=============================================================================
