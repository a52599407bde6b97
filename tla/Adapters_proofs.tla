-------------------------- MODULE Adapters_proofs --------------------------
(***************************************************************************)
(* Proofs about the two servers the wallet talks to on its own machine:    *)
(* TorAdapter, for any number of callers, loops, permits, endpoints and    *)
(* faults, and LightningPayments, for any number of channels, payments and *)
(* faults.  The two share no state.                                        *)
(***************************************************************************)
EXTENDS TorAdapter, LightningPayments, FiniteSetTheorems, TLAPS

-----------------------------------------------------------------------------
(***************************************************************************)
(* TorAdapter: the types, and that a second message is alone.              *)
(***************************************************************************)

(* The permits are free, with a request under way, or collected by the one *)
(* loop that holds newid_semaphore.                                        *)
Askers == {t \in Task : pc[t] \in Asking}
PermitsInv ==
    /\ IsFiniteSet(Askers)
    /\ \A l \in newid : permits + Cardinality(Askers) + count[l] = MaxSemaphore
    /\ newid = {} => permits + Cardinality(Askers) = MaxSemaphore

(* The queue holds the tasks that wait, once each. *)
QueueInv ==
    /\ \A i, j \in 1..Len(queue) : queue[i] = queue[j] => i = j
    /\ \A i \in 1..Len(queue) : pc[queue[i]] \in Waiting
    /\ \A t \in Task : pc[t] \in Waiting => \E i \in 1..Len(queue) : queue[i] = t

(* Only the loop in newid is past its start, and from the wait for the     *)
(* permit of new_tor_id on it has all permits but one.                     *)
Full == {"idwait", "id", "idok", "msgwait", "msg"}
LoopInv ==
    /\ \A l, m \in newid : l = m
    /\ \A c \in Caller : pc[c] \in {"idle", "wait", "sent"}
    /\ \A l \in Loop \ newid : pc[l] = "idle" /\ count[l] = 0
    /\ \A l \in newid :
         /\ pc[l] \in {"collect", "collectwait"} \union Full
         /\ pc[l] \in Full => count[l] = MaxSemaphore - 1
         /\ pc[l] = "collectwait" => count[l] < MaxSemaphore - 1

(* A request that was forwarded has its endpoint. *)
AtInv == \A t \in Task : pc[t] \in {"sent", "msg"} => at[t] \in Request

WalletInv == WalletType /\ PermitsInv /\ QueueInv /\ LoopInv /\ AtInv
TorInv == WalletInv /\ AdapterType /\ BoundsType

USE TorAdapterAssumption

----------------------------------------------------------------------------
(* permits and places *)

LEMMA GrantedValues ==
    /\ Granted("wait") = "sent" /\ Granted("collectwait") = "collect"
    /\ Granted("idwait") = "id" /\ Granted("msgwait") = "msg"
BY DEF Granted

LEMMA SmallerOf ==
    ASSUME NEW a \in Nat, NEW b \in Nat
    PROVE  /\ Min({a, b}) \in {a, b}
           /\ Min({a, b}) =< a /\ Min({a, b}) =< b
<1>1. \E x \in {a, b} : \A y \in {a, b} : x =< y
  BY SMT
<1>2. Min({a, b}) = CHOOSE x \in {a, b} : \A y \in {a, b} : x =< y
  BY DEF Min
<1> QED BY <1>1, <1>2

LEMMA IndexNumbers == 0 \in Index /\ Index \subseteq Nat
BY DEF Index

LEMMA ForwardsRequest ==
    ASSUME AdapterType, NEW i \in Index
    PROVE  Forwards(i) \in Request
BY DEF AdapterType, Forwards, Request

(* at most one loop is in newid *)
LEMMA AtMostOne ==
    ASSUME NEW S, \A l, m \in S : l = m
    PROVE  Cardinality(S) =< 1
<1>1. CASE S = {}
  BY <1>1, FS_EmptySet
<1>2. ASSUME NEW l \in S PROVE Cardinality(S) =< 1
  <2>1. S = {l}
    BY <1>2
  <2> QED BY <2>1, FS_Singleton
<1> QED BY <1>1, <1>2

LEMMA AskersFinite ==
    ASSUME PermitsInv
    PROVE  Cardinality(Askers) \in Nat /\ (Askers # {} => Cardinality(Askers) > 0)
BY FS_CardinalityType, FS_EmptySet DEF PermitsInv

----------------------------------------------------------------------------
(* a task asks for a permit *)

Asks(t, w) ==
    \/ t \in Caller /\ w = "wait" /\ pc[t] = "idle"
    \/ t \in newid /\ w = "collectwait" /\ pc[t] = "collect" /\ count[t] < MaxSemaphore - 1
    \/ t \in newid /\ w \in {"idwait", "msgwait"} /\ pc[t] \in {"collect", "idok"}
                   /\ count[t] = MaxSemaphore - 1

LEMMA AcquireInv ==
    ASSUME WalletInv, AdapterType, NEW t \in Task, NEW w, Asks(t, w), Acquire(t, w),
           newid' = newid
    PROVE  WalletInv'
<1> USE DEF WalletInv, WalletType
<1>1. /\ w \in Waiting /\ pc[t] \notin Waiting \union Asking /\ Forwards(i_hs) \in Request
      /\ Loop \subseteq Task /\ Caller \subseteq Task /\ newid \subseteq Loop
  BY ForwardsRequest DEF Asks, Waiting, Asking, AdapterType, Task
<1>2. CASE permits > 0
  <2>1. /\ permits' = permits - 1 /\ pc' = [pc EXCEPT ![t] = Granted(w)]
        /\ count' = IF w = "collectwait" THEN [count EXCEPT ![t] = @ + 1] ELSE count
        /\ at' = IF w \in {"wait", "msgwait"} THEN [at EXCEPT ![t] = Forwards(i_hs)] ELSE at
        /\ queue' = queue /\ queue = <<>>
    BY <1>2 DEF Acquire
  <2>2. Granted(w) \in {"sent", "collect", "id", "msg"}
        /\ (w = "collectwait" <=> Granted(w) = "collect")
        /\ (w = "wait" <=> Granted(w) = "sent")
    BY <1>1, GrantedValues DEF Waiting
  <2>3. /\ \A s \in Task \ {t} : pc'[s] = pc[s] /\ at'[s] = at[s]
        /\ pc'[t] = Granted(w)
        /\ \A l \in Loop \ {t} : count'[l] = count[l]
        /\ t \in Loop => count'[t] = IF w = "collectwait" THEN count[t] + 1 ELSE count[t]
    BY <2>1
  <2>4. WalletType'
    <3>1. count' \in [Loop -> 0 .. MaxSemaphore - 1]
      BY <1>1, <2>1 DEF Asks
    <3> QED BY <1>1, <1>2, <2>1, <2>2, <3>1 DEF Asking
  <2>5. PermitsInv'
    <3>1. Askers' = IF w = "collectwait" THEN Askers ELSE Askers \union {t}
      BY <2>2, <2>3, <1>1 DEF Askers, Asking
    <3>2. t \notin Askers
      BY <1>1 DEF Askers
    <3>3. /\ IsFiniteSet(Askers') /\ Cardinality(Askers) \in Nat
          /\ Cardinality(Askers') = IF w = "collectwait" THEN Cardinality(Askers)
                                    ELSE Cardinality(Askers) + 1
      BY <3>1, <3>2, FS_AddElement, AskersFinite DEF PermitsInv
    <3>4. CASE w = "collectwait"
      <4>1. t \in newid /\ \A l \in newid : l = t
        BY <3>4 DEF Asks, LoopInv
      <4>2. permits + Cardinality(Askers) + count[t] = MaxSemaphore /\ count[t] \in Nat
        BY <4>1 DEF PermitsInv
      <4> QED BY <1>1, <2>1, <2>3, <3>3, <3>4, <4>1, <4>2 DEF PermitsInv
    <3>5. CASE w # "collectwait"
      <4>1. count' = count
        BY <2>1, <3>5
      <4> QED BY <1>1, <2>1, <3>3, <3>5, <4>1 DEF PermitsInv
    <3> QED BY <3>4, <3>5
  <2>6. QueueInv'
    <3>1. \A s \in Task : pc[s] \notin Waiting
      BY <2>1 DEF QueueInv
    <3>2. \A s \in Task : pc'[s] \notin Waiting
      BY <2>2, <2>3, <3>1 DEF Waiting
    <3> QED BY <2>1, <3>2 DEF QueueInv
  <2>7. LoopInv'
    <3>1. \A c \in Caller : pc'[c] \in {"idle", "wait", "sent"}
      BY <1>1, <2>2, <2>3 DEF Asks, LoopInv
    <3>2. \A l \in Loop \ newid : pc'[l] = "idle" /\ count'[l] = 0
      BY <1>1, <2>3 DEF Asks, LoopInv
    <3>3. \A l \in newid :
            /\ pc'[l] \in {"collect", "collectwait"} \union Full
            /\ pc'[l] \in Full => count'[l] = MaxSemaphore - 1
            /\ pc'[l] = "collectwait" => count'[l] < MaxSemaphore - 1
      BY <1>1, <2>2, <2>3, GrantedValues DEF Asks, LoopInv, Full
    <3> QED BY <3>1, <3>2, <3>3 DEF LoopInv
  <2>8. AtInv'
    <3>1. Granted(w) \in {"sent", "msg"} => w \in {"wait", "msgwait"}
      BY <1>1, GrantedValues DEF Waiting
    <3> QED BY <1>1, <2>1, <2>3, <3>1 DEF AtInv
  <2> QED BY <2>4, <2>5, <2>6, <2>7, <2>8
<1>3. CASE ~(permits > 0)
  <2>1. /\ permits = 0 /\ permits' = permits /\ pc' = [pc EXCEPT ![t] = w]
        /\ queue' = Append(queue, t) /\ count' = count /\ at' = at
    BY <1>3 DEF Acquire
  <2>2. /\ \A s \in Task \ {t} : pc'[s] = pc[s]
        /\ pc'[t] = w
    BY <2>1
  <2>3. /\ queue' \in Seq(Task) /\ Len(queue') = Len(queue) + 1 /\ Len(queue) \in Nat
        /\ \A i \in 1..Len(queue) : queue'[i] = queue[i]
        /\ queue'[Len(queue) + 1] = t
    BY <2>1
  <2>4. WalletType'
    BY <1>1, <2>1, <2>3
  <2>5. PermitsInv'
    <3>1. Askers' = Askers
      BY <1>1, <2>2 DEF Askers, Waiting, Asking
    <3> QED BY <2>1, <3>1 DEF PermitsInv
  <2>6. QueueInv'
    <3>1. \A i \in 1..Len(queue) : queue[i] # t /\ queue[i] \in Task
      BY <1>1 DEF QueueInv
    <3>2. \A i, j \in 1..Len(queue') : queue'[i] = queue'[j] => i = j
      BY <2>3, <3>1 DEF QueueInv
    <3>3. ASSUME NEW i \in 1..Len(queue') PROVE pc'[queue'[i]] \in Waiting
      <4>1. CASE i = Len(queue) + 1
        BY <1>1, <2>2, <2>3, <4>1
      <4>2. CASE i \in 1..Len(queue)
        <5>1. pc[queue[i]] \in Waiting
          BY <4>2 DEF QueueInv
        <5> QED BY <2>2, <2>3, <3>1, <4>2, <5>1
      <4> QED BY <2>3, <4>1, <4>2
    <3>4. \A s \in Task : pc'[s] \in Waiting => \E i \in 1..Len(queue') : queue'[i] = s
      <4> SUFFICES ASSUME NEW s \in Task, pc'[s] \in Waiting
                   PROVE  \E i \in 1..Len(queue') : queue'[i] = s
        OBVIOUS
      <4>1. CASE s = t
        BY <2>3, <4>1
      <4>2. CASE s # t
        <5> PICK i \in 1..Len(queue) : queue[i] = s
          BY <2>2, <4>2 DEF QueueInv
        <5> QED BY <2>3
      <4> QED BY <4>1, <4>2
    <3> QED BY <3>2, <3>3, <3>4 DEF QueueInv
  <2>7. LoopInv'
    BY <1>1, <2>1, <2>2 DEF Asks, LoopInv, Full
  <2>8. AtInv'
    BY <1>1, <2>1, <2>2 DEF AtInv, Waiting
  <2> QED BY <2>4, <2>5, <2>6, <2>7, <2>8
<1> QED BY <1>2, <1>3

----------------------------------------------------------------------------
(* a task gives permits back *)

(* one permit, or all a loop has when its second message is over or failed *)
GivesOne(t, n, p) ==
    /\ n = 1 /\ newid' = newid
    /\ \/ t \in Caller /\ p = "idle"
       \/ t \in newid /\ p = "idok"
GivesAll(t, n, p) ==
    t \in newid /\ n = 1 + count[t] /\ p = "idle" /\ newid' = newid \ {t}

LEMMA PermitsRange ==
    ASSUME PermitsInv', permits' \in Nat, count' \in [Loop -> 0 .. MaxSemaphore - 1],
           newid' \subseteq Loop
    PROVE  permits' \in 0 .. MaxSemaphore
<1>1. Cardinality(Askers') \in Nat
  BY FS_CardinalityType DEF PermitsInv
<1>2. CASE newid' = {}
  BY <1>1, <1>2 DEF PermitsInv
<1>3. ASSUME NEW l \in newid' PROVE permits' \in 0 .. MaxSemaphore
  <2>1. count'[l] \in Nat /\ permits' + Cardinality(Askers') + count'[l] = MaxSemaphore
    BY DEF PermitsInv
  <2> QED BY <1>1, <2>1
<1> QED BY <1>2, <1>3

LEMMA ReleaseInv ==
    ASSUME WalletInv, AdapterType, NEW t \in Task, pc[t] \in Asking, NEW n, NEW p,
           NEW i \in Index,
           GivesOne(t, n, p) \/ GivesAll(t, n, p), Release(t, n, p, i)
    PROVE  WalletInv'
<1> DEFINE k == Min({n, Len(queue)})
           next == {queue[j] : j \in 1..k}
<1> USE DEF WalletInv, WalletType
<1>1. /\ Loop \subseteq Task /\ Caller \subseteq Task /\ newid \subseteq Loop
      /\ p \in {"idle", "idok"} /\ Caller \intersect Loop = {}
      /\ queue \in Seq(Task) /\ Len(queue) \in Nat
  BY DEF Task, GivesOne, GivesAll
<1>2. n \in Nat /\ n > 0
  <2>1. CASE GivesOne(t, n, p)
    BY <2>1 DEF GivesOne
  <2>2. CASE GivesAll(t, n, p)
    BY <1>1, <2>2 DEF GivesAll
  <2> QED BY <2>1, <2>2
<1>3. k \in Nat /\ k \in {n, Len(queue)} /\ k =< n /\ k =< Len(queue)
  BY <1>1, <1>2, SmallerOf
<1>4. /\ queue' = SubSeq(queue, k + 1, Len(queue)) /\ permits' = permits + n - k
      /\ pc' = [s \in Task |-> IF s = t THEN p
                               ELSE IF s \in next THEN Granted(pc[s]) ELSE pc[s]]
      /\ count' = [l \in Loop |->
                     IF l = t /\ n > 1 THEN 0
                     ELSE IF l \in next /\ pc[l] = "collectwait" THEN count[l] + 1
                     ELSE count[l]]
      /\ at' = [s \in Task |-> IF s = t THEN None
                               ELSE IF s \in next /\ pc[s] \in {"wait", "msgwait"} THEN Forwards(i)
                               ELSE at[s]]
  BY DEF Release
<1>5. IsFiniteSet(next) /\ Cardinality(next) = k
  <2> DEFINE f == [j \in 1..k |-> queue[j]]
  <2> HIDE DEF k
  <2>1. f \in Surjection(1..k, next)
    BY DEF Surjection
  <2>2. f \in Injection(1..k, next)
    BY <1>1, <1>3 DEF Injection, IsInjective, QueueInv
  <2>3. IsFiniteSet(1..k) /\ Cardinality(1..k) = k
    BY <1>3, FS_Interval
  <2> HIDE DEF f, next
  <2> QED BY <2>1, <2>2, <2>3, FS_Surjection
<1>6. /\ next \subseteq Task /\ t \notin next
      /\ \A s \in next : pc[s] \in Waiting
  <2>1. \A j \in 1..k : j \in 1..Len(queue)
    BY <1>1, <1>3
  <2>2. \A j \in 1..k : queue[j] \in Task /\ pc[queue[j]] \in Waiting
    BY <1>1, <2>1 DEF QueueInv
  <2> QED BY <2>2 DEF Waiting, Asking
<1> HIDE DEF k, next
<1>7. /\ pc'[t] = p
      /\ \A s \in next : pc'[s] = Granted(pc[s])
      /\ \A s \in Task \ (next \union {t}) : pc'[s] = pc[s]
  BY <1>4, <1>6
<1>8. /\ queue' \in Seq(Task) /\ Len(queue') = Len(queue) - k
      /\ \A j \in 1..Len(queue') : queue'[j] = queue[j + k] /\ j + k \in 1..Len(queue)
  BY <1>1, <1>3, <1>4
<1>9. QueueInv'
  <2>1. \A j, m \in 1..Len(queue') : queue'[j] = queue'[m] => j = m
    BY <1>3, <1>8 DEF QueueInv
  <2>2. ASSUME NEW j \in 1..Len(queue') PROVE pc'[queue'[j]] \in Waiting
    <3>1. queue'[j] = queue[j + k] /\ j + k \in 1..Len(queue) /\ pc[queue[j + k]] \in Waiting
      BY <1>8 DEF QueueInv
    <3>2. queue[j + k] \notin next
      BY <1>1, <1>3, <3>1 DEF QueueInv, next
    <3>3. queue[j + k] \in Task /\ queue[j + k] # t
      BY <1>1, <3>1 DEF Waiting, Asking
    <3> QED BY <1>7, <3>1, <3>2, <3>3
  <2>3. ASSUME NEW s \in Task, pc'[s] \in Waiting
        PROVE  \E j \in 1..Len(queue') : queue'[j] = s
    <3>1. s # t
      BY <1>1, <1>7, <2>3 DEF Waiting
    <3>2. s \notin next
      BY <1>6, <1>7, <2>3, GrantedValues DEF Waiting
    <3>3. PICK m \in 1..Len(queue) : queue[m] = s
      BY <1>7, <2>3, <3>1, <3>2 DEF QueueInv
    <3>4. m \notin 1..k
      BY <3>2, <3>3 DEF next
    <3>5. m - k \in 1..Len(queue')
      BY <1>1, <1>3, <1>8, <3>4
    <3>6. queue'[m - k] = s
      BY <1>3, <1>8, <3>3, <3>5
    <3> QED BY <3>5, <3>6
  <2> QED BY <2>1, <2>2, <2>3 DEF QueueInv
<1>10. queue' # <<>> => permits' = 0
  <2> SUFFICES ASSUME queue' # <<>> PROVE permits' = 0
    OBVIOUS
  <2>1. Len(queue') > 0
    BY <1>8
  <2>2. k = n /\ queue # <<>>
    BY <1>1, <1>3, <1>8, <2>1
  <2> QED BY <1>2, <1>4, <2>2
<1>11. at' \in [Task -> Request \union {None}] /\ AtInv'
  <2>1. at' \in [Task -> Request \union {None}]
    BY <1>4, ForwardsRequest
  <2>2. ASSUME NEW s \in Task, pc'[s] \in {"sent", "msg"} PROVE at'[s] \in Request
    <3>1. s # t
      BY <1>1, <1>7, <2>2
    <3>2. CASE s \in next
      BY <1>4, <1>6, <1>7, <2>2, <3>1, <3>2, GrantedValues, ForwardsRequest DEF Waiting
    <3>3. CASE s \notin next
      BY <1>4, <1>7, <2>2, <3>1, <3>3 DEF AtInv
    <3> QED BY <3>2, <3>3
  <2> QED BY <2>1, <2>2 DEF AtInv
<1>12. pc' \in [Task -> {"idle", "collect", "idok"} \union Waiting \union Asking]
  BY <1>1, <1>4, <1>6, GrantedValues DEF Waiting, Asking
<1>13. \A s \in next : \/ s \in Caller /\ pc[s] = "wait"
                       \/ s \in newid /\ pc[s] \in {"collectwait", "idwait", "msgwait"}
  <2> SUFFICES ASSUME NEW s \in next
               PROVE  \/ s \in Caller /\ pc[s] = "wait"
                      \/ s \in newid /\ pc[s] \in {"collectwait", "idwait", "msgwait"}
    OBVIOUS
  <2>1. s \in Caller \/ s \in Loop
    BY <1>6 DEF Task
  <2> QED BY <1>6, <2>1 DEF Waiting, LoopInv, Full
<1>14. /\ t \in Askers /\ IsFiniteSet(Askers) /\ Cardinality(Askers) \in Nat
       /\ Cardinality(Askers) > 0
       /\ IsFiniteSet(Askers \ {t}) /\ Cardinality(Askers \ {t}) = Cardinality(Askers) - 1
  BY AskersFinite, FS_RemoveElement DEF Askers, PermitsInv
<1>15. \A s \in Askers : s \notin next
  BY <1>6 DEF Askers, Waiting, Asking
<1>16. p \notin Asking
  BY <1>1 DEF Asking
<1>0. permits' \in Nat
  BY <1>1, <1>2, <1>3, <1>4
<1>17. CASE GivesOne(t, n, p)
  <2>1. /\ n = 1 /\ newid' = newid
        /\ (t \in Caller /\ p = "idle") \/ (t \in newid /\ p = "idok")
    BY <1>17 DEF GivesOne
  <2>2. /\ \A l \in Loop : count'[l] = IF l \in next /\ pc[l] = "collectwait"
                                       THEN count[l] + 1 ELSE count[l]
        /\ count' \in [Loop -> 0 .. MaxSemaphore - 1]
    <3>1. \A l \in Loop : l \in next /\ pc[l] = "collectwait" => count[l] < MaxSemaphore - 1
      BY <1>1, <1>13 DEF LoopInv
    <3> QED BY <1>4, <2>1, <3>1
  <2>3. LoopInv'
    <3>1. \A c \in Caller : pc'[c] \in {"idle", "wait", "sent"}
      <4> SUFFICES ASSUME NEW c \in Caller PROVE pc'[c] \in {"idle", "wait", "sent"}
        OBVIOUS
      <4>1. CASE c = t
        BY <1>1, <1>7, <2>1, <4>1
      <4>2. CASE c \in next
        BY <1>1, <1>7, <1>13, <4>2, GrantedValues
      <4>3. CASE c # t /\ c \notin next
        BY <1>1, <1>7, <4>3 DEF LoopInv
      <4> QED BY <4>1, <4>2, <4>3
    <3>2. \A l \in Loop \ newid : pc'[l] = "idle" /\ count'[l] = 0
      BY <1>1, <1>7, <1>13, <2>1, <2>2 DEF LoopInv
    <3>3. ASSUME NEW l \in newid
          PROVE  /\ pc'[l] \in {"collect", "collectwait"} \union Full
                 /\ pc'[l] \in Full => count'[l] = MaxSemaphore - 1
                 /\ pc'[l] = "collectwait" => count'[l] < MaxSemaphore - 1
      <4>0. l \in Loop /\ l \in Task
        BY <1>1
      <4>1. CASE l = t
        <5>1. pc[t] \in Full /\ count[t] = MaxSemaphore - 1
          BY <4>0, <4>1 DEF LoopInv, Asking, Full
        <5>2. pc'[l] = "idok" /\ count'[l] = count[l]
          BY <1>1, <1>6, <1>7, <2>1, <2>2, <4>0, <4>1
        <5> QED BY <4>1, <5>1, <5>2 DEF Full
      <4>2. CASE l \in next
        <5>1. pc[l] \in {"collectwait", "idwait", "msgwait"}
          BY <1>1, <1>13, <4>0, <4>2
        <5> QED BY <1>7, <2>2, <4>0, <4>2, <5>1, GrantedValues DEF LoopInv, Full
      <4>3. CASE l # t /\ l \notin next
        BY <1>7, <2>2, <4>0, <4>3 DEF LoopInv
      <4> QED BY <4>1, <4>2, <4>3
    <3> QED BY <2>1, <3>1, <3>2, <3>3 DEF LoopInv
  <2>4. PermitsInv'
    <3>1. CASE k = 0
      <4>1. next = {}
        BY <1>5, <3>1, FS_EmptySet
      <4>2. Askers' = Askers \ {t}
        BY <1>7, <1>16, <4>1 DEF Askers
      <4>3. permits' = permits + 1 /\ count' = count
        BY <1>4, <2>1, <2>2, <3>1, <4>1
      <4>4. /\ IsFiniteSet(Askers')
            /\ permits' + Cardinality(Askers') = permits + Cardinality(Askers)
        BY <1>14, <4>2, <4>3
      <4>5. \A l \in newid : count[l] \in Nat
        BY <1>1
      <4>6. Cardinality(Askers') \in Nat
        BY <4>4, FS_CardinalityType
      <4> QED BY <1>0, <1>14, <2>1, <4>3, <4>4, <4>5, <4>6 DEF PermitsInv
    <3>2. CASE k = 1
      <4>1. PICK s : next = {s}
        BY <1>5, <3>2, FS_Singleton
      <4>2. permits' = 0 /\ permits = 0
        BY <1>1, <1>3, <1>4, <2>1, <3>2
      <4>3. s \in Task /\ s # t /\ s \notin Askers
        BY <1>6, <1>14, <1>15, <4>1
      <4>4. CASE pc[s] = "collectwait"
        <5>1. s \in newid /\ \A l \in newid : l = s
          BY <1>13, <4>1, <4>4 DEF LoopInv
        <5>2. Askers' = Askers \ {t}
          BY <1>7, <1>16, <4>1, <4>3, <4>4, GrantedValues DEF Askers, Asking
        <5>3. count'[s] = count[s] + 1
          BY <1>1, <2>2, <4>1, <4>4, <5>1
        <5>4. permits + Cardinality(Askers) + count[s] = MaxSemaphore /\ count[s] \in Nat
          BY <1>1, <5>1 DEF PermitsInv
        <5>5. permits' + Cardinality(Askers') + count'[s] = MaxSemaphore
          BY <1>14, <4>2, <5>2, <5>3, <5>4
        <5> QED BY <1>14, <2>1, <5>1, <5>2, <5>5 DEF PermitsInv
      <4>5. CASE pc[s] # "collectwait"
        <5>1. Askers' = (Askers \ {t}) \union {s}
          <6>1. Granted(pc[s]) \in Asking
            BY <1>13, <4>1, <4>5, GrantedValues DEF Asking
          <6>2. pc'[s] \in Asking /\ pc'[t] \notin Asking
            BY <1>7, <1>16, <4>1, <6>1
          <6>3. \A r \in Task : r \notin {s, t} => pc'[r] = pc[r]
            BY <1>7, <4>1
          <6> QED BY <4>3, <6>2, <6>3 DEF Askers
        <5>2. IsFiniteSet(Askers') /\ Cardinality(Askers') = Cardinality(Askers)
          <6> DEFINE B == Askers \ {t}
          <6>1. IsFiniteSet(B) /\ Cardinality(B) = Cardinality(Askers) - 1 /\ s \notin B
            BY <1>14, <4>3
          <6>2. Askers' = B \union {s}
            BY <5>1
          <6> HIDE DEF B
          <6>3. IsFiniteSet(Askers') /\ Cardinality(Askers') = Cardinality(B) + 1
            BY <6>1, <6>2, FS_AddElement
          <6> QED BY <1>14, <6>1, <6>3
        <5>3. count' = count
          BY <2>2, <4>1, <4>5
        <5> QED BY <2>1, <4>2, <5>2, <5>3 DEF PermitsInv
      <4> QED BY <4>4, <4>5
    <3> QED BY <1>3, <2>1, <3>1, <3>2
  <2>6. permits' \in 0 .. MaxSemaphore
    BY <1>0, <1>1, <2>1, <2>2, <2>4, PermitsRange
  <2>5. newid' \in SUBSET Loop /\ Cardinality(newid') =< 1
    BY <2>1
  <2> QED BY <1>8, <1>9, <1>10, <1>11, <1>12, <2>2, <2>3, <2>4, <2>5, <2>6
<1>18. CASE GivesAll(t, n, p)
  <2>1. t \in newid /\ n = 1 + count[t] /\ p = "idle" /\ newid' = newid \ {t}
        /\ newid = {t}
    BY <1>18 DEF GivesAll, LoopInv
  <2>2. count[t] = MaxSemaphore - 1 /\ n = MaxSemaphore /\ n > 1
    <3>1. pc[t] \in Full
      BY <2>1 DEF LoopInv, Full, Asking
    <3> QED BY <2>1, <3>1 DEF LoopInv
  <2>3. permits = 0 /\ Cardinality(Askers) = 1 /\ Cardinality(Askers \ {t}) = 0
    BY <1>14, <2>1, <2>2 DEF PermitsInv
  <2>4. \A s \in next : s \in Caller /\ pc[s] = "wait" /\ pc'[s] = "sent"
    BY <1>6, <1>7, <1>13, <2>1, GrantedValues
  <2>5. Askers \ {t} = {}
    BY <1>14, <2>3, FS_EmptySet
  <2>6. Askers' = next
    BY <1>6, <1>7, <1>16, <2>4, <2>5 DEF Askers, Asking
  <2>7. permits' = MaxSemaphore - k /\ newid' = {}
    BY <1>3, <1>4, <2>1, <2>2, <2>3
  <2>8. PermitsInv' /\ permits' \in 0 .. MaxSemaphore
    BY <1>3, <1>5, <2>2, <2>6, <2>7 DEF PermitsInv
  <2>9. \A l \in Loop : count'[l] = IF l = t THEN 0 ELSE count[l]
    BY <1>1, <1>4, <2>2, <2>4
  <2>10. count' \in [Loop -> 0 .. MaxSemaphore - 1]
    BY <1>4, <2>2, <2>9
  <2>11. LoopInv'
    <3>1. \A c \in Caller : pc'[c] \in {"idle", "wait", "sent"}
      <4> SUFFICES ASSUME NEW c \in Caller PROVE pc'[c] \in {"idle", "wait", "sent"}
        OBVIOUS
      <4>1. c # t
        BY <1>1, <2>1
      <4> QED BY <1>1, <1>7, <2>4, <4>1 DEF LoopInv
    <3>2. \A l \in Loop : pc'[l] = "idle" /\ count'[l] = 0
      <4> SUFFICES ASSUME NEW l \in Loop PROVE pc'[l] = "idle" /\ count'[l] = 0
        OBVIOUS
      <4>1. l \notin next
        BY <1>1, <2>4
      <4> QED BY <1>1, <1>7, <2>1, <2>9, <4>1 DEF LoopInv
    <3> QED BY <2>7, <3>1, <3>2 DEF LoopInv
  <2>12. newid' \in SUBSET Loop /\ Cardinality(newid') =< 1
    BY <2>7, FS_EmptySet
  <2> QED BY <1>8, <1>9, <1>10, <1>11, <1>12, <2>8, <2>10, <2>11, <2>12
<1> QED BY <1>17, <1>18

(* a request that is over, for a caller or for a loop *)
LEMMA EndsInv ==
    ASSUME WalletInv, AdapterType, NEW t \in Task, Forwarded(t), NEW i \in Index, Ends(t, i)
    PROVE  WalletInv'
<1>1. pc[t] \in Asking
  BY DEF Forwarded, Asking
<1>2. CASE pc[t] = "sent"
  <2>1. t \in Caller
    BY <1>2 DEF WalletInv, LoopInv, Task, Full
  <2>2. GivesOne(t, 1, "idle") /\ Release(t, 1, "idle", i)
    BY <1>2, <2>1 DEF Ends, GivesOne
  <2> QED BY <1>1, <2>2, ReleaseInv
<1>3. CASE pc[t] = "msg"
  <2>1. t \in newid
    BY <1>3 DEF WalletInv, LoopInv, Task, Full
  <2>2. GivesAll(t, 1 + count[t], "idle") /\ Release(t, 1 + count[t], "idle", i)
    BY <1>3, <2>1 DEF Ends, GivesAll
  <2> QED BY <1>1, <2>2, ReleaseInv
<1> QED BY <1>2, <1>3 DEF Forwarded

LEMMA HandleErrorType ==
    ASSUME AdapterType, NEW r \in Request, HandleError(r)
    PROVE  i_hs' \in Index /\ starting' \in BOOLEAN
<1>1. i_hs \in Nat /\ r.of \in Nat /\ 1 =< r.of /\ r.of =< MaxLength
  BY DEF AdapterType, Index, Request
<1>2. (i_hs + 1) % r.of \in 0 .. r.of - 1
  BY <1>1
<1> QED BY <1>1, <1>2 DEF AdapterType, HandleError, Index

LEMMA WalletKept ==
    ASSUME WalletInv, UNCHANGED <<wallet, at>>
    PROVE  WalletInv'
BY DEF WalletInv, WalletType, PermitsInv, Askers, QueueInv, LoopInv, AtInv, wallet

(* the steps of the callers and the loops *)
LEMMA TaskSteps ==
    ASSUME TorInv,
           \/ \E c \in Caller : Call(c)
           \/ \E l \in Loop : DoSwapSecondMessage(l) \/ LoopStep(l) \/ NewTorIdFails(l)
    PROVE  TorInv'
<1> USE DEF TorInv
<1>1. ASSUME NEW c \in Caller, Call(c) PROVE TorInv'
  <2>1. Asks(c, "wait") /\ Acquire(c, "wait") /\ newid' = newid /\ c \in Task
    BY <1>1 DEF Asks, Call, Task
  <2>2. WalletInv'
    BY <2>1, AcquireInv
  <2> QED BY <1>1, <2>2 DEF Call, adapter, bounds, AdapterType, BoundsType
<1>2. ASSUME NEW l \in Loop, DoSwapSecondMessage(l) PROVE TorInv'
  <2> USE DEF WalletInv, WalletType
  <2>1. /\ pc[l] = "idle" /\ newid = {} /\ newid' = {l} /\ l \in Task
        /\ pc' = [pc EXCEPT ![l] = "collect"] /\ UNCHANGED <<count, at, permits, queue>>
    BY <1>2 DEF DoSwapSecondMessage, Task
  <2>2. /\ \A s \in Task \ {l} : pc'[s] = pc[s]
        /\ pc'[l] = "collect" /\ count[l] = 0
    BY <2>1 DEF LoopInv
  <2>3. Cardinality(newid') =< 1
    <3>1. \A a, b \in newid' : a = b
      BY <2>1
    <3> QED BY <3>1, AtMostOne
  <2>4. WalletType'
    BY <2>1, <2>3
  <2>5. PermitsInv'
    <3>1. Askers' = Askers
      BY <2>1, <2>2 DEF Askers, Asking
    <3>2. IsFiniteSet(Askers) /\ permits + Cardinality(Askers) = MaxSemaphore
      BY <2>1 DEF PermitsInv
    <3>3. permits' + Cardinality(Askers') + count'[l] = MaxSemaphore
      BY <2>1, <2>2, <3>1, <3>2, AskersFinite
    <3> QED BY <2>1, <3>1, <3>2, <3>3 DEF PermitsInv
  <2>6. QueueInv'
    <3>1. pc[l] \notin Waiting /\ "collect" \notin Waiting
      BY <2>1 DEF Waiting
    <3>2. \A s \in Task : pc'[s] \in Waiting <=> pc[s] \in Waiting
      BY <2>2, <3>1
    <3>3. \A i \in 1..Len(queue) : queue[i] \in Task
      OBVIOUS
    <3> QED BY <2>1, <3>2, <3>3 DEF QueueInv
  <2>7. LoopInv'
    BY <2>1, <2>2 DEF LoopInv, Task, Full
  <2>8. AtInv'
    BY <2>1, <2>2 DEF AtInv
  <2> QED BY <1>2, <2>4, <2>5, <2>6, <2>7, <2>8
          DEF DoSwapSecondMessage, adapter, bounds, AdapterType, BoundsType
<1>3. ASSUME NEW l \in Loop, Collect(l) PROVE TorInv'
  <2> DEFINE w == IF count[l] < MaxSemaphore - 1 THEN "collectwait" ELSE "idwait"
  <2>1. l \in newid /\ pc[l] = "collect" /\ Acquire(l, w) /\ newid' = newid /\ l \in Task
    BY <1>3 DEF Collect, WalletInv, LoopInv, Task
  <2>2. Asks(l, w)
    BY <2>1 DEF Asks, WalletInv, WalletType
  <2>3. WalletInv'
    BY <2>1, <2>2, AcquireInv
  <2> QED BY <1>3, <2>3 DEF Collect, adapter, bounds, AdapterType, BoundsType
<1>4. ASSUME NEW l \in Loop, NewTorId(l) PROVE TorInv'
  <2>1. /\ l \in newid /\ l \in Task /\ pc[l] \in Asking
        /\ Release(l, 1, "idok", i_hs) /\ newid' = newid
    BY <1>4 DEF NewTorId, WalletInv, LoopInv, Task, Asking
  <2>2. GivesOne(l, 1, "idok") /\ i_hs \in Index
    BY <2>1 DEF GivesOne, AdapterType
  <2>3. WalletInv'
    BY <2>1, <2>2, ReleaseInv
  <2> QED BY <1>4, <2>3 DEF NewTorId, adapter, bounds, AdapterType, BoundsType
<1>5. ASSUME NEW l \in Loop, SecondMessage(l) PROVE TorInv'
  <2>1. l \in newid /\ pc[l] = "idok" /\ Acquire(l, "msgwait") /\ newid' = newid
        /\ l \in Task
    BY <1>5 DEF SecondMessage, WalletInv, LoopInv, Task
  <2>2. Asks(l, "msgwait")
    BY <2>1 DEF Asks, WalletInv, LoopInv, Full
  <2>3. WalletInv'
    BY <2>1, <2>2, AcquireInv
  <2> QED BY <1>5, <2>3 DEF SecondMessage, adapter, bounds, AdapterType, BoundsType
<1>6. ASSUME NEW l \in Loop, NewTorIdFails(l) PROVE TorInv'
  <2>1. /\ l \in newid /\ l \in Task /\ pc[l] \in Asking
        /\ Release(l, 1 + count[l], "idle", i_hs) /\ newid' = newid \ {l}
    BY <1>6 DEF NewTorIdFails, WalletInv, LoopInv, Task, Asking
  <2>2. GivesAll(l, 1 + count[l], "idle") /\ i_hs \in Index
    BY <2>1 DEF GivesAll, AdapterType
  <2>3. WalletInv'
    BY <2>1, <2>2, ReleaseInv
  <2> QED BY <1>6, <2>3 DEF NewTorIdFails, adapter, AdapterType, BoundsType
<1> QED BY <1>1, <1>2, <1>3, <1>4, <1>5, <1>6 DEF LoopStep

(* the steps of the adapter, its node and the endpoints *)
LEMMA AdapterSteps ==
    ASSUME TorInv,
           \/ \E t \in Task : RequestEnds(t) \/ Timeout(t)
           \/ \E r \in stray : StrayEnds(r)
           \/ \E e \in Index : EndpointDown(e) \/ EndpointUp(e)
           \/ \E n \in 1 .. MaxLength : UpdateEndpoints(n)
           \/ NodeStarted \/ NodeCrash \/ UNCHANGED vars
    PROVE  TorInv'
<1> USE DEF TorInv, AdapterType, BoundsType
<1>1. ASSUME NEW t \in Task, Answer(t) PROVE TorInv'
  BY <1>1, EndsInv DEF Answer, adapter, bounds
<1>2. ASSUME NEW t \in Task, Fail(t) PROVE TorInv'
  <2>0. at[t] \in Request
    BY <1>2 DEF Fail, Forwarded, WalletInv, AtInv
  <2>1. i_hs' \in Index /\ starting' \in BOOLEAN
    BY <1>2, <2>0, HandleErrorType DEF Fail
  <2>2. WalletInv'
    BY <1>2, <2>1, EndsInv DEF Fail
  <2> QED BY <1>2, <2>1, <2>2 DEF Fail, bounds
<1>3. ASSUME NEW t \in Task, Timeout(t) PROVE TorInv'
  <2>1. WalletInv'
    BY <1>3, EndsInv DEF Timeout
  <2>2. at[t] \in Request
    BY <1>3 DEF Timeout, Forwarded, WalletInv, AtInv
  <2> QED BY <1>3, <2>1, <2>2 DEF Timeout
<1>4. ASSUME NEW r \in stray, StrayEnds(r) PROVE TorInv'
  <2>1. i_hs' \in Index /\ starting' \in BOOLEAN
    BY <1>4, HandleErrorType DEF StrayEnds
  <2>2. WalletInv'
    BY <1>4, WalletKept DEF StrayEnds
  <2> QED BY <1>4, <2>1, <2>2 DEF StrayEnds, bounds
<1>5. ASSUME NEW e \in Index, EndpointDown(e) \/ EndpointUp(e) PROVE TorInv'
  <2>1. WalletInv'
    BY <1>5, WalletKept DEF EndpointDown, EndpointUp
  <2> QED BY <1>5, <2>1 DEF EndpointDown, EndpointUp, bounds
<1>6. ASSUME NEW n \in 1 .. MaxLength, UpdateEndpoints(n) PROVE TorInv'
  <2>1. WalletInv'
    BY <1>6, WalletKept DEF UpdateEndpoints
  <2> QED BY <1>6, <2>1 DEF UpdateEndpoints
<1>7. CASE NodeStarted \/ NodeCrash \/ UNCHANGED vars
  <2>1. WalletInv'
    BY <1>7, WalletKept DEF NodeStarted, NodeCrash, vars
  <2>2. CASE NodeStarted
    BY <2>1, <2>2 DEF NodeStarted, bounds
  <2>3. CASE NodeCrash
    BY <2>1, <2>3 DEF NodeCrash
  <2>4. CASE UNCHANGED vars
    BY <2>1, <2>4 DEF vars, adapter, bounds
  <2> QED BY <1>7, <2>2, <2>3, <2>4
<1> QED BY <1>1, <1>2, <1>3, <1>4, <1>5, <1>6, <1>7 DEF RequestEnds

----------------------------------------------------------------------------
(***************************************************************************)
(* TorInv holds in every state: no permit is lost or made, whoever waits,     *)
(* fails or gives up.                                                      *)
(***************************************************************************)
THEOREM TorInvariance == Spec => []TorInv
<1>1. Init => TorInv
  <2> SUFFICES ASSUME Init PROVE TorInv
    OBVIOUS
  <2>1. Askers = {} /\ IsFiniteSet(Askers) /\ Cardinality(Askers) = 0
    BY FS_EmptySet DEF Init, Askers, Asking
  <2>2. WalletType
    BY FS_EmptySet DEF Init, WalletType
  <2>3. PermitsInv /\ QueueInv
    BY <2>1 DEF Init, PermitsInv, QueueInv, Waiting
  <2>4. LoopInv /\ AtInv
    BY DEF Init, LoopInv, AtInv, Task
  <2>5. AdapterType /\ BoundsType
    BY IndexNumbers DEF Init, AdapterType, BoundsType
  <2> QED BY <2>2, <2>3, <2>4, <2>5 DEF TorInv, WalletInv
<1>2. TorInv /\ [Next]_vars => TorInv'
  BY TaskSteps, AdapterSteps DEF Next
<1> QED BY <1>1, <1>2, PTL DEF Spec

(***************************************************************************)
(* The variables keep their types; the semaphore of http_client never      *)
(* holds more permits than it was made with, and no task waits while one   *)
(* is free.                                                                *)
(***************************************************************************)
THEOREM TorTyping == Spec => []TypeOK
<1>1. TorInv => TypeOK
  BY DEF TorInv, WalletInv, TypeOK
<1> QED BY <1>1, TorInvariance, PTL

(***************************************************************************)
(* With any number of callers, loops and permits, while a loop has the new *)
(* identity made or its second message under way no other request of the   *)
(* wallet is: doSwapSecondMessage then has every permit but its own.       *)
(***************************************************************************)
THEOREM Alone == Spec => []SecondMessageAlone
<1>1. TorInv => SecondMessageAlone
  <2> SUFFICES ASSUME TorInv, NEW l \in Loop, pc[l] \in {"id", "msg"},
                      NEW t \in Task, pc[t] \in Asking
               PROVE  t = l
    BY DEF SecondMessageAlone
  <2> USE DEF TorInv, WalletInv, WalletType
  <2>1. l \in newid /\ count[l] = MaxSemaphore - 1 /\ l \in Task
    BY DEF LoopInv, Full, Task
  <2>2. l \in Askers /\ t \in Askers
    BY <2>1 DEF Askers, Asking
  <2>3. permits + Cardinality(Askers) + count[l] = MaxSemaphore
        /\ Cardinality(Askers) \in Nat
    BY <2>1, AskersFinite DEF PermitsInv
  <2>4. Cardinality(Askers) = 1
    BY <2>1, <2>2, <2>3, AskersFinite
  <2>5. \E x : Askers = {x}
    BY <2>4, FS_Singleton DEF PermitsInv
  <2> QED BY <2>2, <2>5
<1> QED BY <1>1, TorInvariance, PTL

-----------------------------------------------------------------------------
(***************************************************************************)
(* LightningPayments: the types, and that no monitor's file is behind what *)
(* the channel manager's file knows of its channel.                        *)
(***************************************************************************)

(* A payment under way, and the payment of an event, has its channel. *)
PaymentInv ==
    /\ \A p \in Pay : pay[p] # "none" => via[p] \in Chan
    /\ \A i \in 1..Len(raised) :
         raised[i][1] \in {"forwardable", "claimable", "claimed", "path"}
           => raised[i][2] \in Pay /\ pay[raised[i][2]] # "none"

(* The file holds the last update of the channel it is of, because LDK     *)
(* waits for the file in the step that updates the monitor; all channels   *)
(* write to one file, and the others are never written.                    *)
FileInv ==
    /\ \A c \in Chan : manager[c] =< monitor[c]
    /\ \A c, d \in Chan : file[d].chan = c => file[d].at = monitor[c]
    /\ \A d \in Chan : d # FileOf(d) => file[d] = Nobody

LightningInv == PaymentsTypeOK /\ PaymentInv /\ FileInv

USE PaymentsAssumption

----------------------------------------------------------------------------
(* the events *)

LEMMA EventType ==
    /\ \A c \in Chan : /\ <<"pending", c>> \in Event /\ <<"ready", c>> \in Event
                       /\ <<"closed", c>> \in Event
    /\ \A p \in Pay : /\ <<"forwardable", p>> \in Event /\ <<"claimable", p>> \in Event
                      /\ <<"claimed", p>> \in Event /\ <<"path", p>> \in Event
    /\ \A e \in Event :
         /\ e[1] \in {"pending", "ready", "closed"} => e[2] \in Chan
         /\ e[1] \in {"forwardable", "claimable", "claimed", "path"} => e[2] \in Pay
BY DEF Event

(* one more event, or the first one handled *)
LEMMA Raised ==
    ASSUME NEW S, NEW q \in Seq(S), NEW e \in S
    PROVE  /\ Append(q, e) \in Seq(S)
           /\ Len(Append(q, e)) = Len(q) + 1
           /\ \A i \in 1..Len(q) : Append(q, e)[i] = q[i]
           /\ Append(q, e)[Len(q) + 1] = e
OBVIOUS

LEMMA Handled ==
    ASSUME NEW S, NEW q \in Seq(S), q # <<>>
    PROVE  /\ Head(q) \in S /\ Head(q) = q[1] /\ 1 \in 1..Len(q)
           /\ Tail(q) \in Seq(S)
           /\ \A i \in 1..Len(Tail(q)) : Tail(q)[i] = q[i + 1] /\ i + 1 \in 1..Len(q)
OBVIOUS

(* what one step may do to the raised *)
PaymentEvent(e) == e[1] \in {"forwardable", "claimable", "claimed", "path"}
NewEvent(e) == e \in Event /\ (PaymentEvent(e) => pay'[e[2]] # "none")
QueueStep ==
    \/ raised' = raised \/ raised' = <<>>
    \/ \E e : NewEvent(e) /\ raised' = Append(raised, e)
    \/ raised # <<>> /\ raised' = Tail(raised)
    \/ raised # <<>> /\ \E e : NewEvent(e) /\ raised' = Append(Tail(raised), e)

(* a payment under way stays one, with its channel *)
PaymentStep ==
    \A p \in Pay : \/ pay'[p] = pay[p] /\ via'[p] = via[p]
                   \/ pay'[p] # "none" /\ via'[p] \in Chan

LEMMA QueueKept ==
    ASSUME PaymentsTypeOK, PaymentInv, PaymentStep, QueueStep
    PROVE  raised' \in Seq(Event) /\ PaymentInv'
<1>1. raised \in Seq(Event)
  BY DEF PaymentsTypeOK
<1>2. \A p \in Pay : /\ pay[p] # "none" => pay'[p] # "none"
                     /\ pay'[p] # "none" => via'[p] \in Chan
  BY DEF PaymentInv, PaymentStep
<1>3. ASSUME NEW i \in 1..Len(raised), PaymentEvent(raised[i])
      PROVE  raised[i][2] \in Pay /\ pay'[raised[i][2]] # "none"
  BY <1>2, <1>3 DEF PaymentInv, PaymentEvent
<1>4. ASSUME NEW e, NewEvent(e), PaymentEvent(e)
      PROVE  e[2] \in Pay /\ pay'[e[2]] # "none"
  BY <1>4, EventType DEF NewEvent, PaymentEvent
<1>5. ASSUME NEW q, q = raised \/ (raised # <<>> /\ q = Tail(raised))
      PROVE  /\ q \in Seq(Event)
             /\ \A i \in 1..Len(q) : PaymentEvent(q[i]) =>
                  q[i][2] \in Pay /\ pay'[q[i][2]] # "none"
  <2>1. CASE q = raised
    BY <1>1, <1>3, <2>1
  <2>2. CASE raised # <<>> /\ q = Tail(raised)
    <3>1. /\ q \in Seq(Event)
          /\ \A i \in 1..Len(q) : q[i] = raised[i + 1] /\ i + 1 \in 1..Len(raised)
      BY <1>1, <2>2, Handled
    <3> QED BY <1>3, <3>1
  <2> QED BY <1>5, <2>1, <2>2
<1>6. raised' \in Seq(Event)
      /\ \A i \in 1..Len(raised') : PaymentEvent(raised'[i]) =>
           raised'[i][2] \in Pay /\ pay'[raised'[i][2]] # "none"
  <2>1. CASE raised' = <<>>
    BY <2>1
  <2>2. CASE raised' = raised \/ (raised # <<>> /\ raised' = Tail(raised))
    BY <1>5, <2>2
  <2>3. ASSUME NEW q, q = raised \/ (raised # <<>> /\ q = Tail(raised)),
               NEW e, NewEvent(e), raised' = Append(q, e)
        PROVE  /\ raised' \in Seq(Event)
               /\ \A i \in 1..Len(raised') : PaymentEvent(raised'[i]) =>
                    raised'[i][2] \in Pay /\ pay'[raised'[i][2]] # "none"
    <3>1. q \in Seq(Event) /\ e \in Event
      BY <1>5, <2>3 DEF NewEvent
    <3>2. /\ raised' \in Seq(Event) /\ Len(raised') = Len(q) + 1 /\ Len(q) \in Nat
          /\ \A i \in 1..Len(q) : raised'[i] = q[i]
          /\ raised'[Len(q) + 1] = e
      BY <2>3, <3>1, Raised
    <3>3. ASSUME NEW i \in 1..Len(raised'), PaymentEvent(raised'[i])
          PROVE  raised'[i][2] \in Pay /\ pay'[raised'[i][2]] # "none"
      <4>1. CASE i \in 1..Len(q)
        BY <1>5, <2>3, <3>2, <3>3, <4>1
      <4>2. CASE i = Len(q) + 1
        BY <1>4, <2>3, <3>2, <3>3, <4>2
      <4> QED BY <3>2, <4>1, <4>2
    <3> QED BY <3>2, <3>3
  <2> QED BY <2>1, <2>2, <2>3 DEF QueueStep
<1> QED BY <1>2, <1>6 DEF PaymentInv, PaymentEvent

----------------------------------------------------------------------------
(* the files *)

(* a monitor and its file are updated in one step *)
LEMMA PersistedInv ==
    ASSUME PaymentsTypeOK, FileInv, NEW c \in Chan, NEW lk \in SUBSET Chan, Written(c, lk)
    PROVE  /\ monitor' \in [Chan -> Nat]
           /\ file' \in [Chan -> [chan : Chan \union {0}, at : Nat]]
           /\ lookup' \subseteq Chan /\ manager' = manager
           /\ FileInv'
<1>1. monitor' = [monitor EXCEPT ![c] = @ + 1]
      /\ file' = [file EXCEPT ![1] = [chan |-> c, at |-> monitor[c] + 1]]
      /\ lookup' = lk /\ UNCHANGED manager
  BY DEF Written, Write, FileOf
<1>2. 1 \in Chan
  BY DEF Chan
<1>3. monitor' \in [Chan -> Nat] /\ monitor'[c] = monitor[c] + 1 /\ monitor[c] \in Nat
  BY <1>1 DEF PaymentsTypeOK
<1>4. [chan |-> c, at |-> monitor[c] + 1] \in [chan : Chan \union {0}, at : Nat]
  BY <1>3
<1>5. file' \in [Chan -> [chan : Chan \union {0}, at : Nat]]
  BY <1>1, <1>4 DEF PaymentsTypeOK
<1>6. \A d \in Chan : manager'[d] =< monitor'[d]
  BY <1>1, <1>3 DEF FileInv, PaymentsTypeOK
<1>7. ASSUME NEW d \in Chan, NEW e \in Chan, file'[e].chan = d
      PROVE  file'[e].at = monitor'[d]
  <2>1. CASE e = 1
    BY <1>1, <1>2, <1>3, <1>7, <2>1 DEF PaymentsTypeOK
  <2>2. CASE e # 1
    <3>1. file'[e].chan = 0 /\ 0 \notin Chan
      BY <1>1, <2>2 DEF PaymentsTypeOK, FileInv, FileOf, Nobody, Chan
    <3> QED BY <1>7, <3>1
  <2> QED BY <2>1, <2>2
<1>8. \A d \in Chan : d # FileOf(d) => file'[d] = Nobody
  BY <1>1 DEF PaymentsTypeOK, FileInv, FileOf
<1> QED BY <1>1, <1>3, <1>5, <1>6, <1>7, <1>8 DEF FileInv

----------------------------------------------------------------------------
(* the peers and the user *)

(* an update of a monitor, and what the channel does when it fails *)
LEMMA UpdateInv ==
    ASSUME LightningInv, NEW c \in Chan, NEW e, NewEvent(e),
           \/ /\ UpdatePersistedChannel(c) /\ PaymentStep
              /\ pay' \in [Pay -> {"none", "held", "offered", "claiming", "claimed",
                                   "sent", "resolved"}]
              /\ via' \in [Pay -> Chan \union {0}]
              /\ raised' \in {raised, Append(raised, e)} /\ UNCHANGED chan
           \/ PermanentFailure(c) /\ UNCHANGED payments,
           UNCHANGED <<client, database, screen>>
    PROVE  LightningInv'
<1> USE DEF LightningInv, payments, disk, database, screen
<1>1. CASE UpdatePersistedChannel(c) /\ UNCHANGED chan /\ raised' \in {raised, Append(raised, e)}
           /\ PaymentStep
           /\ pay' \in [Pay -> {"none", "held", "offered", "claiming", "claimed",
                                "sent", "resolved"}]
           /\ via' \in [Pay -> Chan \union {0}]
  <2>1. Persisted(c, lookup) /\ lookup \in SUBSET Chan
    BY <1>1 DEF UpdatePersistedChannel, PaymentsTypeOK
  <2>2. FileInv' /\ lookup' \subseteq Chan /\ monitor' \in [Chan -> Nat]
        /\ manager' = manager /\ faults' = faults
        /\ file' \in [Chan -> [chan : Chan \union {0}, at : Nat]]
    BY <2>1, PersistedInv DEF Persisted
  <2>3. raised' \in Seq(Event) /\ PaymentInv'
    BY <1>1, QueueKept DEF QueueStep
  <2>4. PaymentsTypeOK'
    BY <1>1, <2>2, <2>3 DEF PaymentsTypeOK
  <2> QED BY <2>2, <2>3, <2>4
<1>2. CASE PermanentFailure(c) /\ UNCHANGED payments
  <2>1. NewEvent(<<"closed", c>>)
    BY EventType DEF NewEvent, PaymentEvent
  <2>2. PaymentStep /\ QueueStep
    BY <1>2, <2>1 DEF PermanentFailure, PaymentStep, QueueStep, Raise
  <2>3. raised' \in Seq(Event) /\ PaymentInv'
    BY <2>2, QueueKept
  <2>4. chan' = [chan EXCEPT ![c] = "closed"] /\ faults' \in 0..MaxFaults
        /\ UNCHANGED <<client, lookup, file, manager, monitor, pay, via, rows, events, known, posts, shown>>
    BY <1>2 DEF PermanentFailure, Fault, PaymentsTypeOK
  <2>5. PaymentsTypeOK'
    BY <2>3, <2>4 DEF PaymentsTypeOK
  <2>6. FileInv'
    BY <2>4 DEF FileInv
  <2> QED BY <2>3, <2>5, <2>6
<1> QED BY <1>1, <1>2

(* a step that leaves the monitors and the files alone *)
LEMMA FilesLeft ==
    ASSUME LightningInv, PaymentStep, QueueStep, UNCHANGED <<monitor, disk>>,
           client' \in {"dead", "off", "up"},
           chan' \in [Chan -> {"none", "open", "ready", "closing", "closed", "lost"}],
           pay' \in [Pay -> {"none", "held", "offered", "claiming", "claimed",
                             "sent", "resolved"}],
           via' \in [Pay -> Chan \union {0}],
           rows' \in [Chan -> {"none", "null", "set"}],
           events' \in [Event -> {"none", "unseen", "seen"}],
           known' \subseteq Event, posts' \subseteq Event,
           shown' \in [Event -> BOOLEAN], faults' \in 0..MaxFaults
    PROVE  LightningInv'
<1>1. raised' \in Seq(Event) /\ PaymentInv'
  BY QueueKept DEF LightningInv
<1>2. UNCHANGED <<monitor, lookup, file, manager>>
  BY DEF disk
<1>3. PaymentsTypeOK'
  BY <1>1, <1>2 DEF LightningInv, PaymentsTypeOK
<1>4. FileInv'
  BY <1>2 DEF LightningInv, FileInv
<1> QED BY <1>1, <1>3, <1>4 DEF LightningInv

LEMMA PeerInv ==
    ASSUME LightningInv, Peer
    PROVE  LightningInv'
<1> USE DEF LightningInv, PaymentsTypeOK, payments, disk, database, screen, Raise
<1>1. ASSUME NEW c \in Chan, PersistNewChannel(c) PROVE LightningInv'
  <2>1. NewEvent(<<"pending", c>>)
    BY EventType DEF NewEvent, PaymentEvent
  <2>2. CASE PermanentFailure(c)
    BY <1>1, <2>1, <2>2, UpdateInv DEF PersistNewChannel
  <2>3. CASE Persisted(c, lookup \union {c}) /\ chan' = [chan EXCEPT ![c] = "open"]
             /\ Raise(<<"pending", c>>)
    <3>1. PaymentStep /\ QueueStep
      BY <1>1, <2>1, <2>3 DEF PersistNewChannel, PaymentStep, QueueStep
    <3>2. raised' \in Seq(Event) /\ PaymentInv'
      BY <3>1, QueueKept
    <3>3. lookup \union {c} \in SUBSET Chan
      OBVIOUS
    <3>4. FileInv' /\ lookup' \subseteq Chan /\ monitor' \in [Chan -> Nat]
          /\ manager' = manager /\ faults' = faults
          /\ file' \in [Chan -> [chan : Chan \union {0}, at : Nat]]
      BY <2>3, <3>3, PersistedInv DEF Persisted
    <3>5. PaymentsTypeOK'
      BY <1>1, <2>3, <3>2, <3>4 DEF PersistNewChannel
    <3> QED BY <3>2, <3>4, <3>5
  <2>4. CASE OnlyMonitorWritten(c)
    <3>1. NewEvent(<<"closed", c>>)
      BY EventType DEF NewEvent, PaymentEvent
    <3>2. PaymentStep /\ QueueStep
      BY <1>1, <2>4, <3>1
         DEF PersistNewChannel, OnlyMonitorWritten, PaymentStep, QueueStep
    <3>3. raised' \in Seq(Event) /\ PaymentInv'
      BY <3>2, QueueKept
    <3>4. FileInv' /\ lookup' \subseteq Chan /\ monitor' \in [Chan -> Nat]
          /\ manager' = manager
          /\ file' \in [Chan -> [chan : Chan \union {0}, at : Nat]]
      BY <2>4, PersistedInv DEF OnlyMonitorWritten
    <3>5. faults' \in 0..MaxFaults /\ chan' = [chan EXCEPT ![c] = "closed"]
      BY <2>4 DEF OnlyMonitorWritten, Fault
    <3>6. PaymentsTypeOK'
      BY <1>1, <3>3, <3>4, <3>5 DEF PersistNewChannel
    <3> QED BY <3>3, <3>4, <3>6
  <2> QED BY <1>1, <2>2, <2>3, <2>4 DEF PersistNewChannel
<1>2. ASSUME NEW c \in Chan, ChannelReady(c) \/ CloseAgreed(c) PROVE LightningInv'
  <2>1. NewEvent(<<"ready", c>>) /\ NewEvent(<<"closed", c>>)
    BY EventType DEF NewEvent, PaymentEvent
  <2>2. PaymentStep /\ QueueStep
    BY <1>2, <2>1 DEF ChannelReady, CloseAgreed, PaymentStep, QueueStep
  <2> QED BY <1>2, <2>2, FilesLeft DEF ChannelReady, CloseAgreed
<1>3. ASSUME NEW p \in Pay, PreimageTaken(p) PROVE LightningInv'
  <2>1. NewEvent(<<"claimed", p>>)
    BY <1>3, EventType DEF NewEvent, PaymentEvent, PreimageTaken
  <2>2. PaymentStep /\ QueueStep
    BY <1>3, <2>1 DEF PreimageTaken, PaymentStep, QueueStep, PaymentInv
  <2> QED BY <1>3, <2>2, FilesLeft DEF PreimageTaken
<1>4. ASSUME NEW p \in Pay, PaymentResolved(p) PROVE LightningInv'
  <2>1. via[p] \in Chan
    BY <1>4 DEF PaymentResolved, PaymentInv
  <2>2. CASE UpdatePersistedChannel(via[p]) /\ pay' = [pay EXCEPT ![p] = "resolved"]
             /\ UNCHANGED via /\ Raise(<<"path", p>>) /\ UNCHANGED chan
    <3>1. NewEvent(<<"path", p>>) /\ PaymentStep
      BY <2>1, <2>2, EventType DEF NewEvent, PaymentEvent, PaymentStep
    <3> QED BY <1>4, <2>1, <2>2, <3>1, UpdateInv DEF PaymentResolved
  <2>3. CASE PermanentFailure(via[p]) /\ UNCHANGED payments
    <3>1. NewEvent(<<"closed", via[p]>>)
      BY <2>1, EventType DEF NewEvent, PaymentEvent
    <3> QED BY <1>4, <2>1, <2>3, <3>1, UpdateInv DEF PaymentResolved
  <2> QED BY <1>4, <2>2, <2>3 DEF PaymentResolved, Update
<1>5. ASSUME NEW p \in Pay, NEW c \in Chan, PaymentArrives(p, c) PROVE LightningInv'
  <2>1. CASE UpdatePersistedChannel(c) /\ pay' = [pay EXCEPT ![p] = "held"]
             /\ via' = [via EXCEPT ![p] = c] /\ Raise(<<"forwardable", p>>) /\ UNCHANGED chan
    <3>1. NewEvent(<<"forwardable", p>>) /\ PaymentStep
      BY <2>1, EventType DEF NewEvent, PaymentEvent, PaymentStep
    <3> QED BY <1>5, <2>1, <3>1, UpdateInv DEF PaymentArrives
  <2>2. CASE PermanentFailure(c) /\ UNCHANGED payments
    <3>1. NewEvent(<<"closed", c>>)
      BY EventType DEF NewEvent, PaymentEvent
    <3> QED BY <1>5, <2>2, <3>1, UpdateInv DEF PaymentArrives
  <2> QED BY <1>5, <2>1, <2>2 DEF PaymentArrives, Update
<1> QED BY <1>1, <1>2, <1>3, <1>4, <1>5 DEF Peer

LEMMA UserInv ==
    ASSUME LightningInv, User
    PROVE  LightningInv'
<1> USE DEF LightningInv, PaymentsTypeOK, payments, disk, database, screen, Raise
<1>1. ASSUME NEW c \in Chan, SavePeerAndChannel(c) \/ MutualCloseChannel(c) PROVE LightningInv'
  <2>1. PaymentStep /\ QueueStep
    BY <1>1 DEF SavePeerAndChannel, MutualCloseChannel, PaymentStep, QueueStep, ldk
  <2>2. CASE SavePeerAndChannel(c)
    BY <2>1, <2>2, FilesLeft DEF SavePeerAndChannel, ldk
  <2>3. CASE MutualCloseChannel(c)
    BY <2>1, <2>3, FilesLeft DEF MutualCloseChannel, Fault
  <2> QED BY <1>1, <2>2, <2>3
<1>2. ASSUME NEW c \in Chan, ForceCloseChannel(c) PROVE LightningInv'
  <2>1. NewEvent(<<"closed", c>>)
    BY EventType DEF NewEvent, PaymentEvent
  <2>2. PaymentStep /\ QueueStep
    BY <1>2, <2>1 DEF ForceCloseChannel, PaymentStep, QueueStep
  <2>3. raised' \in Seq(Event) /\ PaymentInv'
    BY <2>2, QueueKept
  <2>4. FileInv' /\ lookup' \subseteq Chan /\ monitor' \in [Chan -> Nat]
        /\ manager' = manager /\ faults' = faults
        /\ file' \in [Chan -> [chan : Chan \union {0}, at : Nat]]
    BY <1>2, PersistedInv DEF ForceCloseChannel, UpdatePersistedChannel, Persisted
  <2>5. PaymentsTypeOK'
    BY <1>2, <2>3, <2>4 DEF ForceCloseChannel
  <2> QED BY <2>3, <2>4, <2>5
<1>3. ASSUME NEW p \in Pay, SendPayment(p) PROVE LightningInv'
  <2> PICK c \in Chan : /\ chan[c] = "ready" /\ UpdatePersistedChannel(c)
                        /\ pay' = [pay EXCEPT ![p] = "sent"] /\ via' = [via EXCEPT ![p] = c]
    BY <1>3 DEF SendPayment
  <2>1. NewEvent(<<"closed", c>>) /\ PaymentStep
    BY EventType DEF NewEvent, PaymentEvent, PaymentStep
  <2> QED BY <1>3, <2>1, UpdateInv DEF SendPayment
<1> QED BY <1>1, <1>2, <1>3 DEF User

----------------------------------------------------------------------------
(* LDK's events *)

(* the preimage is written before the payment counts as being claimed *)
LEMMA ClaimableInv ==
    ASSUME LightningInv, HandleEvent, NEW p \in Pay, Head(raised) = <<"claimable", p>>
    PROVE  LightningInv'
<1> USE DEF LightningInv, PaymentsTypeOK, payments, disk, database, screen
<1>1. /\ raised # <<>> /\ HandlePaymentClaimable(p)
      /\ SaveEventDataToDb(<<"claimable", p>>) /\ UNCHANGED <<client, screen>>
  <2> DEFINE e == Head(raised)
  <2>1. e = <<"claimable", p>> /\ e[1] = "claimable" /\ e[2] = p
    OBVIOUS
  <2>2. /\ raised # <<>> /\ SaveEventDataToDb(e) /\ UNCHANGED <<client, screen>>
        /\ e[1] = "claimable" => HandlePaymentClaimable(e[2])
    BY DEF HandleEvent
  <2> HIDE DEF e
  <2> QED BY <2>1, <2>2
<1>2. via[p] \in Chan /\ pay[p] # "none"
  <2>1. 1 \in 1..Len(raised) /\ raised[1] = <<"claimable", p>>
    BY <1>1, Handled
  <2>2. raised[1][1] = "claimable" /\ raised[1][2] = p
    BY <2>1
  <2>3. pay[p] # "none"
    BY <2>1, <2>2 DEF PaymentInv
  <2> QED BY <2>3 DEF PaymentInv
<1>3. events' \in [Event -> {"none", "unseen", "seen"}]
  BY <1>1 DEF SaveEventDataToDb
<1>4. NewEvent(<<"closed", via[p]>>)
  BY <1>2, EventType DEF NewEvent, PaymentEvent
<1>5. CASE /\ UpdatePersistedChannel(via[p]) /\ pay' = [pay EXCEPT ![p] = "claiming"]
           /\ raised' = Tail(raised) /\ UNCHANGED <<chan, via, rows>>
  <2>1. PaymentStep /\ QueueStep
    BY <1>1, <1>2, <1>5 DEF PaymentStep, QueueStep
  <2>2. raised' \in Seq(Event) /\ PaymentInv'
    BY <2>1, QueueKept
  <2>3. FileInv' /\ lookup' \subseteq Chan /\ monitor' \in [Chan -> Nat]
        /\ manager' = manager /\ faults' = faults
        /\ file' \in [Chan -> [chan : Chan \union {0}, at : Nat]]
    BY <1>2, <1>5, PersistedInv DEF UpdatePersistedChannel, Persisted
  <2>4. PaymentsTypeOK'
    BY <1>1, <1>3, <1>5, <2>2, <2>3
  <2> QED BY <2>2, <2>3, <2>4
<1>6. CASE /\ Fault /\ chan' = [chan EXCEPT ![via[p]] = "closed"]
           /\ raised' = Append(Tail(raised), <<"closed", via[p]>>)
           /\ UNCHANGED <<monitor, disk, pay, via, rows>>
  <2>1. PaymentStep
    BY <1>6 DEF PaymentStep
  <2>2. QueueStep
    BY <1>1, <1>4, <1>6 DEF QueueStep
  <2>3. faults' \in 0..MaxFaults
    BY <1>6 DEF Fault
  <2>4. chan' \in [Chan -> {"none", "open", "ready", "closing", "closed", "lost"}]
    BY <1>6
  <2> QED BY <1>1, <1>3, <1>6, <2>1, <2>2, <2>3, <2>4, FilesLeft
<1>7. CASE /\ raised' = Tail(raised)
           /\ UNCHANGED <<chan, monitor, disk, pay, via, rows, faults>>
  <2>1. PaymentStep /\ QueueStep
    BY <1>1, <1>7 DEF PaymentStep, QueueStep
  <2> QED BY <1>1, <1>3, <1>7, <2>1, FilesLeft
<1> QED BY <1>1, <1>5, <1>6, <1>7 DEF HandlePaymentClaimable

LEMMA EventInv ==
    ASSUME LightningInv, HandleEvent
    PROVE  LightningInv'
<1> DEFINE e == Head(raised)
<1> USE DEF LightningInv, PaymentsTypeOK, payments, disk, database, screen
<1>1. raised # <<>> /\ e \in Event /\ e = raised[1] /\ 1 \in 1..Len(raised)
  BY Handled DEF HandleEvent
<1>2. events' \in [Event -> {"none", "unseen", "seen"}] /\ UNCHANGED <<client, screen>>
  BY DEF HandleEvent, SaveEventDataToDb
<1>3. CASE e[1] = "pending"
  <2>1. HandleChannelPendingEvent(e[2]) /\ e[2] \in Chan
    BY <1>1, <1>3, EventType DEF HandleEvent
  <2>2. PaymentStep /\ QueueStep
    BY <1>1, <2>1 DEF HandleChannelPendingEvent, PaymentStep, QueueStep
  <2> QED BY <1>2, <2>1, <2>2, FilesLeft DEF HandleChannelPendingEvent
<1>4. CASE e[1] = "forwardable"
  <2>1. HandlePendingHTLCsForwardableEvent(e[2]) /\ e[2] \in Pay
    BY <1>1, <1>4, EventType DEF HandleEvent
  <2>2. pay[e[2]] # "none" /\ via[e[2]] \in Chan
    BY <1>1, <1>4, <2>1 DEF PaymentInv
  <2> DEFINE new == <<"claimable", e[2]>>
  <2>3. new \in Event /\ new[2] = e[2]
    BY <2>1, EventType
  <2>4. CASE pay' = [pay EXCEPT ![e[2]] = "offered"] /\ raised' = Append(Tail(raised), new)
    <3>1. NewEvent(new)
      BY <2>1, <2>3, <2>4 DEF NewEvent
    <3>2. PaymentStep
      BY <2>1, <2>2, <2>4 DEF PaymentStep, HandlePendingHTLCsForwardableEvent
    <3>3. QueueStep
      BY <1>1, <2>4, <3>1 DEF QueueStep
    <3> QED BY <1>2, <2>1, <2>4, <3>2, <3>3, FilesLeft
            DEF HandlePendingHTLCsForwardableEvent
  <2>5. CASE raised' = Tail(raised) /\ UNCHANGED pay
    <3>1. PaymentStep /\ QueueStep
      BY <1>1, <2>1, <2>5 DEF PaymentStep, QueueStep, HandlePendingHTLCsForwardableEvent
    <3> QED BY <1>2, <2>1, <2>5, <3>1, FilesLeft DEF HandlePendingHTLCsForwardableEvent
  <2> QED BY <2>1, <2>4, <2>5 DEF HandlePendingHTLCsForwardableEvent
<1>5. CASE e[1] = "claimable"
  <2>1. e[2] \in Pay /\ e = <<"claimable", e[2]>>
    BY <1>1, <1>5, EventType DEF Event
  <2> QED BY <2>1, ClaimableInv
<1>6. CASE e[1] \notin {"pending", "forwardable", "claimable"}
  <2>1. raised' = Tail(raised) /\ UNCHANGED <<chan, monitor, disk, payments, rows, faults>>
    BY <1>6 DEF HandleEvent
  <2>2. PaymentStep /\ QueueStep
    BY <1>1, <2>1 DEF PaymentStep, QueueStep
  <2> QED BY <1>2, <2>1, <2>2, FilesLeft
<1> QED BY <1>3, <1>4, <1>5, <1>6

----------------------------------------------------------------------------
(* the channel list, the file of the manager and the life of the adapter *)

LEMMA ListInv ==
    ASSUME LightningInv,
           \/ UpdateChannelEventsInfo \/ \E e \in Event : SetEventNotificationSeen(e)
           \/ Die \/ Restart \/ StartLDK \/ UNCHANGED paymentsVars
    PROVE  LightningInv'
<1> USE DEF LightningInv, PaymentsTypeOK, ldk, payments, disk, database, screen
<1>1. PaymentStep /\ QueueStep
  BY DEF UpdateChannelEventsInfo, SetEventNotificationSeen, Die, Restart, StartLDK, paymentsVars,
         PaymentStep, QueueStep
<1>2. CASE UpdateChannelEventsInfo
  <2> PICK answer \in {UnnotifiedEvents, {}} :
         /\ IF answer = UnnotifiedEvents \/ client = "dead" THEN UNCHANGED faults ELSE Fault
         /\ shown' = [e \in Event |-> shown[e] \/ e \in Notified(answer)]
         /\ posts' = posts \union Notified(answer)
         /\ known' = answer
    BY <1>2 DEF UpdateChannelEventsInfo
  <2>1. answer \subseteq Event /\ Notified(answer) \subseteq answer
    BY DEF UnnotifiedEvents, Notified
  <2>2. posts' \subseteq Event /\ known' \subseteq Event
    BY <2>1
  <2>3. shown' \in [Event -> BOOLEAN]
    OBVIOUS
  <2>4. faults' \in 0..MaxFaults
    BY DEF Fault
  <2> QED BY <1>1, <1>2, <2>2, <2>3, <2>4, FilesLeft DEF UpdateChannelEventsInfo
<1>3. CASE \E e \in Event : SetEventNotificationSeen(e)
  BY <1>1, <1>3, FilesLeft DEF SetEventNotificationSeen, Fault
<1>4. CASE Die
  BY <1>1, <1>4, FilesLeft DEF Die, Fault
<1>5. CASE Restart \/ StartLDK \/ UNCHANGED paymentsVars
  BY <1>1, <1>5, FilesLeft DEF Restart, StartLDK, paymentsVars
<1> QED BY <1>2, <1>3, <1>4, <1>5

(* the manager's file never knows more of a channel than its monitor *)
LEMMA ManagerInv ==
    ASSUME LightningInv, PersistManager
    PROVE  LightningInv'
<1> USE DEF LightningInv, PersistManager, ldk, payments, database, screen
<1>1. \A c \in Chan : Known[c] \in {0, monitor[c]} /\ monitor[c] \in Nat
  BY DEF Known, PaymentsTypeOK
<1>2. manager' \in [Chan -> Nat] /\ \A c \in Chan : manager'[c] =< monitor[c]
  BY <1>1 DEF Known
<1>3. PaymentInv'
  BY DEF PaymentInv
<1>4. FileInv'
  BY <1>2 DEF FileInv
<1>5. PaymentsTypeOK'
  BY <1>2 DEF PaymentsTypeOK
<1> QED BY <1>3, <1>4, <1>5

----------------------------------------------------------------------------
(* LightningInv holds in every state. *)
THEOREM LightningInvariance == PaymentsSpec => []LightningInv
<1>1. PaymentsInit => LightningInv
  <2> SUFFICES ASSUME PaymentsInit PROVE LightningInv
    OBVIOUS
  <2>1. PaymentsTypeOK
    BY DEF PaymentsInit, PaymentsTypeOK, Nobody
  <2>2. PaymentInv
    BY DEF PaymentsInit, PaymentInv
  <2>3. FileInv
    BY DEF PaymentsInit, FileInv, Nobody, Chan
  <2> QED BY <2>1, <2>2, <2>3 DEF LightningInv
<1>2. LightningInv /\ [PaymentsNext]_paymentsVars => LightningInv'
  BY PeerInv, UserInv, EventInv, ListInv, ManagerInv DEF PaymentsNext
<1> QED BY <1>1, <1>2, PTL DEF PaymentsSpec

(* the variables keep the values the adapter, its files and the list give them *)
THEOREM LightningTyping == PaymentsSpec => []PaymentsTypeOK
BY LightningInvariance, PTL DEF LightningInv

(***************************************************************************)
(* Whenever the adapter ends, with any number of channels and payments, no *)
(* monitor's file is behind what the file of the channel manager knows of  *)
(* its channel: LDK waits for the monitor's file in the update itself, and *)
(* the manager is written from the memory the monitors are ahead in.       *)
(***************************************************************************)
THEOREM MonitorNotBehind == PaymentsSpec => []ManagerNotAhead
<1>1. LightningInv => ManagerNotAhead
  BY DEF LightningInv, FileInv, ManagerNotAhead
<1> QED BY <1>1, LightningInvariance, PTL
=============================================================================
