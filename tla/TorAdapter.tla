---------------------------- MODULE TorAdapter ----------------------------
(***************************************************************************)
(* The requests of the wallet on their way out: the callers of HttpClient  *)
(* and ElectrsClient share MAX_SEMAPHORE_COUNT permits; a swap's second    *)
(* message first takes all permits but one, has the adapter make a new     *)
(* identity, sends its message with the permit that is left, and gives all *)
(* of them back; the adapter forwards each request to the endpoint its     *)
(* index points at, moves the index on when one fails, and starts the Tor  *)
(* node again when it refuses connections.  The list of endpoints stands   *)
(* for each of the adapter's three; the node is Tor's, its process here is *)
(* the one listening on the SOCKS port.                                    *)
(***************************************************************************)
EXTENDS Naturals, Sequences, FiniteSets, SequencesExt, FiniteSetsExt

CONSTANTS
    Caller,      \* tasks that make one request after the other
    Loop,        \* swap loops at their second message
    MaxSemaphore,\* MAX_SEMAPHORE_COUNT
    MaxLength,   \* bound: endpoints in a list
    MaxTimeouts, \* bound: requests given up before they are answered
    MaxCrashes,  \* bound: times the node dies
    MaxUpdates,  \* bound: times the list of endpoints is replaced
    MaxOutages   \* bound: times an endpoint goes down

ASSUME TorAdapterAssumption ==
    /\ Caller \intersect Loop = {}
    /\ MaxSemaphore \in Nat /\ MaxSemaphore > 1
    /\ MaxLength \in Nat \ {0}
    /\ MaxTimeouts \in Nat /\ MaxCrashes \in Nat
    /\ MaxUpdates \in Nat /\ MaxOutages \in Nat

Task == Caller \union Loop
Index == 0 .. MaxLength - 1

\* A request keeps the list it was made with: its endpoint's index in it, and
\* its length.
Request == [to : Index, of : 1 .. MaxLength]
None == [to |-> 0, of |-> 0]

VARIABLES
    pc,       \* where each task is
    count,    \* permits a loop has collected
    at,       \* the request the adapter forwards for a task, or None
    permits,  \* the permits of http_client's semaphore
    queue,    \* the tasks waiting for one, in order
    newid,    \* the loops that hold newid_semaphore, at most one
    i_hs,     \* the adapter's index of the endpoint in use
    length,   \* the length of its list of endpoints
    stray,    \* requests their caller has given up
    down,     \* endpoints that do not answer
    node,     \* whether a node listens
    starting, \* whether anon_client.startNode is on its way
    timeouts, crashes, updates, outages

wallet == <<pc, count, permits, queue, newid>>
adapter == <<i_hs, length, stray, down, node, starting>>
bounds == <<timeouts, crashes, updates, outages>>
vars == <<wallet, at, adapter, bounds>>

Waiting == {"wait", "collectwait", "idwait", "msgwait"}
Asking == {"sent", "id", "msg"}

(***************************************************************************)
(* semaphore-async-await: a permit goes to the first that waits.  g is the *)
(* pc a task has when it gets its permit.                                  *)
(***************************************************************************)
Granted(p) == CASE p = "wait" -> "sent" [] p = "collectwait" -> "collect"
                [] p = "idwait" -> "id" [] p = "msgwait" -> "msg"

Forwards(i) == [to |-> i, of |-> length]

(* task t asks for a permit, to be at p when it has it *)
Acquire(t, w) ==
    IF permits > 0
    THEN /\ permits' = permits - 1
         /\ pc' = [pc EXCEPT ![t] = Granted(w)]
         /\ count' = IF w = "collectwait" THEN [count EXCEPT ![t] = @ + 1] ELSE count
         /\ at' = IF w \in {"wait", "msgwait"} THEN [at EXCEPT ![t] = Forwards(i_hs)] ELSE at
         /\ UNCHANGED queue
    ELSE /\ pc' = [pc EXCEPT ![t] = w]
         /\ queue' = Append(queue, t)
         /\ UNCHANGED <<permits, count, at>>

(* task t gives n permits back and goes to p; the index is then i *)
Release(t, n, p, i) ==
    LET k == Min({n, Len(queue)})
        next == {queue[j] : j \in 1 .. k}
    IN /\ queue' = SubSeq(queue, k + 1, Len(queue))
       /\ permits' = permits + n - k
       /\ pc' = [s \in Task |-> IF s = t THEN p
                                ELSE IF s \in next THEN Granted(pc[s]) ELSE pc[s]]
       /\ count' = [l \in Loop |->
                      IF l = t /\ n > 1 THEN 0
                      ELSE IF l \in next /\ pc[l] = "collectwait" THEN count[l] + 1
                      ELSE count[l]]
       /\ at' = [s \in Task |-> IF s = t THEN None
                                ELSE IF s \in next /\ pc[s] \in {"wait", "msgwait"} THEN Forwards(i)
                                ELSE at[s]]

----------------------------------------------------------------------------
(***************************************************************************)
(* The callers.                                                            *)
(***************************************************************************)
(* HttpClient.get, .post and ElectrsClient's *)
Call(c) ==
    /\ pc[c] = "idle"
    /\ Acquire(c, "wait")
    /\ UNCHANGED <<newid, adapter, bounds>>

(* doSwapSecondMessage takes the new-id permit (a loop that waits for it is *)
(* idle here) ...                                                          *)
DoSwapSecondMessageNoNewId(l) ==
    /\ pc[l] = "idle"
    /\ newid' = {l}
    /\ pc' = [pc EXCEPT ![l] = "collect"]
    /\ UNCHANGED <<count, at, permits, queue, adapter, bounds>>

DoSwapSecondMessage(l) ==
    /\ pc[l] = "idle" /\ newid = {}
    /\ newid' = {l}
    /\ pc' = [pc EXCEPT ![l] = "collect"]
    /\ UNCHANGED <<count, at, permits, queue, adapter, bounds>>

(* ... and all request permits but one ... *)
CollectTwoShort(l) ==
    /\ pc[l] = "collect"
    /\ Acquire(l, IF count[l] < MaxSemaphore - 2 THEN "collectwait" ELSE "idwait")
    /\ UNCHANGED <<newid, adapter, bounds>>

Collect(l) ==
    /\ pc[l] = "collect"
    /\ Acquire(l, IF count[l] < MaxSemaphore - 1 THEN "collectwait" ELSE "idwait")
    /\ UNCHANGED <<newid, adapter, bounds>>

(* ... new_tor_id is answered, and its own permit free again ... *)
NewTorId(l) ==
    /\ pc[l] = "id"
    /\ Release(l, 1, "idok", i_hs)
    /\ UNCHANGED <<newid, adapter, bounds>>

(* ... or fails: everything is given back, and the step retried ... *)
NewTorIdFailsTwice(l) ==
    /\ pc[l] = "id" /\ timeouts < MaxTimeouts
    /\ timeouts' = timeouts + 1
    /\ Release(l, 2 + count[l], "idle", i_hs)
    /\ newid' = newid \ {l}
    /\ UNCHANGED <<adapter, crashes, updates, outages>>

NewTorIdFails(l) ==
    /\ pc[l] = "id" /\ timeouts < MaxTimeouts
    /\ timeouts' = timeouts + 1
    /\ Release(l, 1 + count[l], "idle", i_hs)
    /\ newid' = newid \ {l}
    /\ UNCHANGED <<adapter, crashes, updates, outages>>

(* ... second_message *)
SecondMessage(l) ==
    /\ pc[l] = "idok"
    /\ Acquire(l, "msgwait")
    /\ UNCHANGED <<newid, adapter, bounds>>

(* an answer, an error or a timeout ends a request; for a second message   *)
(* the finally block gives the collected permits back too                  *)
Ends(t, i) ==
    IF pc[t] = "sent"
    THEN Release(t, 1, "idle", i) /\ UNCHANGED newid
    ELSE Release(t, 1 + count[t], "idle", i) /\ newid' = newid \ {t}

----------------------------------------------------------------------------
(***************************************************************************)
(* The adapter.                                                            *)
(***************************************************************************)
Forwarded(t) == pc[t] \in {"sent", "msg"}
Reaches(r) == node = "up" /\ r.to < r.of /\ r.to \notin down

(* get_endpoint, post_endpoint and post_plain_endpoint: a request answered *)
Answer(t) ==
    /\ Forwarded(t) /\ Reaches(at[t])
    /\ Ends(t, i_hs)
    /\ UNCHANGED <<adapter, bounds>>

(* a failed one moves the index; handle_error starts a node that refuses *)
HandleErrorNoRestart(r) ==
    /\ i_hs' = (i_hs + 1) % r.of
    /\ UNCHANGED starting

HandleError(r) ==
    /\ i_hs' = (i_hs + 1) % r.of
    /\ starting' = (starting \/ node = "down")

Fail(t) ==
    /\ Forwarded(t) /\ ~Reaches(at[t])
    /\ HandleError(at[t])
    /\ Ends(t, i_hs')
    /\ UNCHANGED <<length, stray, down, node, bounds>>

(* axios gives up; the adapter's request goes on without a caller *)
Timeout(t) ==
    /\ Forwarded(t) /\ timeouts < MaxTimeouts
    /\ timeouts' = timeouts + 1
    /\ stray' = stray \union {at[t]}
    /\ Ends(t, i_hs)
    /\ UNCHANGED <<i_hs, length, down, node, starting, crashes, updates, outages>>

StrayEnds(r) ==
    /\ r \in stray /\ stray' = stray \ {r}
    /\ IF Reaches(r) THEN UNCHANGED <<i_hs, starting>> ELSE HandleError(r)
    /\ UNCHANGED <<wallet, at, length, down, node, bounds>>

(* tor_endpoints: another list, the index kept *)
UpdateEndpoints(n) ==
    /\ updates < MaxUpdates /\ updates' = updates + 1
    /\ length' = n
    /\ UNCHANGED <<wallet, at, i_hs, stray, down, node, starting, timeouts,
                   crashes, outages>>

(* the process startNode spawned listens, or finds the port in use *)
NodeStarted ==
    /\ starting
    /\ starting' = FALSE /\ node' = "up"
    /\ UNCHANGED <<wallet, at, i_hs, length, stray, down, bounds>>

NodeCrash ==
    /\ node = "up" /\ crashes < MaxCrashes
    /\ node' = "down" /\ crashes' = crashes + 1
    /\ UNCHANGED <<wallet, at, i_hs, length, stray, down, starting, timeouts,
                   updates, outages>>

EndpointDown(e) ==
    /\ outages < MaxOutages /\ e \notin down
    /\ outages' = outages + 1 /\ down' = down \union {e}
    /\ UNCHANGED <<wallet, at, i_hs, length, stray, node, starting, timeouts,
                   crashes, updates>>

EndpointUp(e) ==
    /\ e \in down /\ down' = down \ {e}
    /\ UNCHANGED <<wallet, at, i_hs, length, stray, node, starting, bounds>>

Init ==
    /\ pc = [t \in Task |-> "idle"]
    /\ count = [l \in Loop |-> 0]
    /\ at = [t \in Task |-> None]
    /\ permits = MaxSemaphore /\ queue = <<>> /\ newid = {}
    /\ i_hs = 0 /\ length = MaxLength
    /\ stray = {} /\ down = {}
    /\ node = "down" /\ starting = TRUE
    /\ timeouts = 0 /\ crashes = 0 /\ updates = 0 /\ outages = 0

LoopStep(l) == Collect(l) \/ NewTorId(l) \/ SecondMessage(l)
RequestEnds(t) == Answer(t) \/ Fail(t)

Next ==
    \/ \E c \in Caller : Call(c)
    \/ \E l \in Loop : DoSwapSecondMessage(l) \/ LoopStep(l) \/ NewTorIdFails(l)
    \/ \E t \in Task : RequestEnds(t) \/ Timeout(t)
    \/ \E r \in stray : StrayEnds(r)
    \/ \E e \in Index : EndpointDown(e) \/ EndpointUp(e)
    \/ \E n \in 1 .. MaxLength : UpdateEndpoints(n)
    \/ NodeStarted \/ NodeCrash

Spec == Init /\ [][Next]_vars

(***************************************************************************)
(* Fairness.  The wallet's intervals go on calling; a step of a loop that  *)
(* can run runs; a request is answered, fails or times out; a node that    *)
(* was started comes up, and an endpoint comes back.  Nothing makes a loop *)
(* begin a second message.                                                 *)
(***************************************************************************)
Fairness ==
    /\ \A c \in Caller : WF_vars(Call(c))
    /\ \A l \in Loop : WF_vars(LoopStep(l))
    /\ \A t \in Task : WF_vars(RequestEnds(t))
    /\ \A e \in Index : WF_vars(EndpointUp(e))
    /\ WF_vars(NodeStarted)

FairSpec == Spec /\ Fairness

----------------------------------------------------------------------------
WalletType ==
    /\ pc \in [Task -> {"idle", "collect", "idok"} \union Waiting \union Asking]
    /\ count \in [Loop -> 0 .. MaxSemaphore - 1]
    /\ at \in [Task -> Request \union {None}]
    /\ permits \in 0 .. MaxSemaphore
    /\ queue \in Seq(Task) /\ (queue # <<>> => permits = 0)
    /\ newid \in SUBSET Loop /\ Cardinality(newid) <= 1
AdapterType ==
    /\ i_hs \in Index /\ length \in 1 .. MaxLength
    /\ stray \in SUBSET Request /\ down \in SUBSET Index
    /\ node \in {"up", "down"} /\ starting \in BOOLEAN
BoundsType ==
    /\ timeouts \in 0 .. MaxTimeouts /\ crashes \in 0 .. MaxCrashes
    /\ updates \in 0 .. MaxUpdates /\ outages \in 0 .. MaxOutages

(* The variables keep their types; the semaphore never holds more permits  *)
(* than it was made with, and no task waits while one is free.             *)
TypeOK == WalletType /\ AdapterType /\ BoundsType

(* While a loop has the new identity made and while its second message is  *)
(* under way, no other request of the wallet is: that is what taking the   *)
(* permits of HttpClient is for.                                           *)
SecondMessageAlone ==
    \A l \in Loop : pc[l] \in {"id", "msg"} =>
        \A t \in Task : pc[t] \in Asking => t = l

(* A loop that begins its second message ends it, with an answer or to try *)
(* again: loops that collect permits do not wait for each other, nor the   *)
(* callers for them for ever.                                              *)
SecondMessageSettles == \A l \in Loop : pc[l] # "idle" ~> pc[l] = "idle"

(* A caller that goes on calling is answered again and again, once outages *)
(* are over: permits come back, a node that died is started, and an index  *)
(* past the end of a replaced list finds its way back.                     *)
Served == \A c \in Caller : []<><<Answer(c)>>_vars

============================================================================
