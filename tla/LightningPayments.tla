------------------------- MODULE LightningPayments -------------------------
(***************************************************************************)
(* Open channels: the payments through them, the files their monitors and  *)
(* the channel manager are kept in, the events of LDK with their rows in   *)
(* the database, and the notifications and the closing of channels in the  *)
(* wallet.  LDK is modelled by the calls it makes into the adapter.  The   *)
(* channels are those of one wallet, in the order of their rows.           *)
(***************************************************************************)
EXTENDS Naturals, Sequences

CONSTANTS
    MaxChan,     \* bound: rows of the wallet's channels
    MaxPay,      \* bound: payments the wallet sends or is sent
    MaxFaults    \* bound: ends of the adapter, channels closed, requests and writes
                 \* that fail

ASSUME PaymentsAssumption ==
    /\ MaxChan \in Nat \ {0} /\ MaxPay \in Nat /\ MaxFaults \in Nat

VARIABLES
    client,     \* the adapter is "dead", LDKClientFactory.client is "off" or "up"
    chan,       \* LDK's channels
    monitor,    \* the updates in the monitor of a channel, in memory
    lookup,     \* the channels in channel_lookup.json
    file,       \* whose monitor channelMonitor_<n>.dat is, and how recent
    manager,    \* channel_manager_data.bin: the updates its channels know of
    pay, via,   \* how far a payment is, and its channel
    raised,     \* LDK's events, first to last
    rows,       \* rows of channels: the channel_id is null or set
    events,     \* rows of events, unseen or seen
    known,      \* channelEvents of the channel list: what it loaded last
    posts,      \* setEventNotificationSeen requests under way
    shown,      \* events the user was shown
    faults

ldk == <<chan, monitor, raised>>
disk == <<lookup, file, manager>>
payments == <<pay, via>>
database == <<rows, events>>
screen == <<known, posts, shown>>
paymentsVars == <<client, ldk, disk, payments, database, screen, faults>>

Chan == 1..MaxChan
Pay == 1..MaxPay

(* events, with the channel or the payment they are about *)
Event == {"pending", "ready", "closed"} \X Chan
           \union {"forwardable", "claimable", "claimed", "path"} \X Pay
ChannelOf(e) == IF e[1] \in {"pending", "ready", "closed"} THEN e[2] ELSE via[e[2]]

Live(c) == chan[c] \in {"open", "ready", "closing"}
Fault == faults < MaxFaults /\ faults' = faults + 1
Nobody == [chan |-> 0, at |-> 0]
Raise(e) == raised' = Append(raised, e)

----------------------------------------------------------------------------
(***************************************************************************)
(* MercuryPersist.  LDK writes a monitor in the step that changes it.      *)
(***************************************************************************)
(* The number of a new file is one more than that of the names that start  *)
(* with channels/channelMonitor; but names start with the wallet's folder. *)
FileOf(c) == 1

Write(c, at) == file' = [file EXCEPT ![FileOf(c)] = [chan |-> c, at |-> at]]

Written(c, lk) ==
    /\ monitor' = [monitor EXCEPT ![c] = @ + 1]
    /\ Write(c, monitor[c] + 1)
    /\ lookup' = lk
    /\ UNCHANGED manager

Persisted(c, lk) == Written(c, lk) /\ UNCHANGED faults

(* the file cannot be written: LDK closes the channel *)
PermanentFailure(c) ==
    /\ Fault
    /\ chan' = [chan EXCEPT ![c] = "closed"]
    /\ Raise(<<"closed", c>>)
    /\ UNCHANGED <<monitor, disk>>

UpdatePersistedChannel(c) == c \in lookup /\ Persisted(c, lookup)

(* The monitor is written before its id and the lookup file: of these a    *)
(* write may fail too.                                                     *)
OnlyMonitorWritten(c) ==
    /\ Fault
    /\ Written(c, lookup)
    /\ chan' = [chan EXCEPT ![c] = "closed"]
    /\ Raise(<<"closed", c>>)

(* persist_new_channel, when the peer signed the funding *)
PersistNewChannel(c) ==
    /\ client = "up" /\ rows[c] = "null" /\ chan[c] = "none"
    /\ \/ /\ Persisted(c, lookup \union {c})
          /\ chan' = [chan EXCEPT ![c] = "open"]
          /\ Raise(<<"pending", c>>)
       \/ PermanentFailure(c) \/ OnlyMonitorWritten(c)
    /\ UNCHANGED <<client, payments, database, screen>>

(* LDK is done with the update of a file, or closes the channel *)
Update(c, event, step) ==
    \/ UpdatePersistedChannel(c) /\ step /\ Raise(event) /\ UNCHANGED chan
    \/ PermanentFailure(c) /\ UNCHANGED payments

----------------------------------------------------------------------------
(***************************************************************************)
(* The peers.                                                              *)
(***************************************************************************)
ChannelReady(c) ==
    /\ client = "up" /\ chan[c] = "open"
    /\ chan' = [chan EXCEPT ![c] = "ready"]
    /\ Raise(<<"ready", c>>)
    /\ UNCHANGED <<client, monitor, disk, payments, database, screen, faults>>

(* An invoice is paid, if its payer takes it: createInvoice is given its    *)
(* expiry and its description in each other's place.                       *)
PaymentArrives(p, c) ==
    /\ client = "up" /\ chan[c] = "ready" /\ pay[p] = "none"
    /\ Update(c, <<"forwardable", p>>,
              pay' = [pay EXCEPT ![p] = "held"] /\ via' = [via EXCEPT ![p] = c])
    /\ UNCHANGED <<client, database, screen>>

(* the peer has taken the preimage *)
PreimageTaken(p) ==
    /\ client = "up" /\ pay[p] = "claiming" /\ Live(via[p])
    /\ pay' = [pay EXCEPT ![p] = "claimed"]
    /\ Raise(<<"claimed", p>>)
    /\ UNCHANGED <<client, chan, monitor, disk, via, database, screen, faults>>

PaymentResolved(p) ==
    /\ client = "up" /\ pay[p] = "sent" /\ Live(via[p])
    /\ Update(via[p], <<"path", p>>,
              pay' = [pay EXCEPT ![p] = "resolved"] /\ UNCHANGED via)
    /\ UNCHANGED <<client, database, screen>>

CloseAgreed(c) ==
    /\ client = "up" /\ chan[c] = "closing"
    /\ \A p \in Pay : via[p] = c => pay[p] \notin {"sent", "held", "offered", "claiming"}
    /\ chan' = [chan EXCEPT ![c] = "closed"]
    /\ Raise(<<"closed", c>>)
    /\ UNCHANGED <<client, monitor, disk, payments, database, screen, faults>>

----------------------------------------------------------------------------
(***************************************************************************)
(* MercuryEventHandler: an interval hands it LDK's events in their order.  *)
(***************************************************************************)
(* saveEventDataToDb leaves out an event with neither a channel nor a path *)
(* whose channel is among LDK's                                            *)
SaveEventDataToDb(e) ==
    events' = IF \/ e[1] \in {"pending", "ready", "closed", "claimable"}
                 \/ e[1] = "path" /\ Live(ChannelOf(e))
              THEN [events EXCEPT ![e] = "unseen"]
              ELSE events

\* Mutant: the row gets the temporary id of the channel.
HandleChannelPendingEventTemporary(c) ==
    /\ rows' = [rows EXCEPT ![c] = "temporary"]
    /\ raised' = Tail(raised)
    /\ UNCHANGED <<chan, monitor, disk, payments, faults>>

(* saveChannelIdToDb *)
HandleChannelPendingEvent(c) ==
    /\ rows' = [rows EXCEPT ![c] = "set"]
    /\ raised' = Tail(raised)
    /\ UNCHANGED <<chan, monitor, disk, payments, faults>>

(* process_pending_htlc_forwards *)
HandlePendingHTLCsForwardableEvent(p) ==
    /\ IF Live(via[p])
       THEN /\ pay' = [pay EXCEPT ![p] = "offered"]
            /\ raised' = Append(Tail(raised), <<"claimable", p>>)
       ELSE raised' = Tail(raised) /\ UNCHANGED pay
    /\ UNCHANGED <<chan, monitor, disk, via, rows, faults>>

\* Mutants: the preimage is not written; the payment is not claimed.
ClaimedUnwritten(p) ==
    /\ monitor' = [monitor EXCEPT ![via[p]] = @ + 1]
    /\ pay' = [pay EXCEPT ![p] = "claiming"]
    /\ raised' = Tail(raised)
    /\ UNCHANGED <<chan, disk, via, rows, faults>>
NotClaimed(p) ==
    /\ raised' = Tail(raised)
    /\ UNCHANGED <<chan, monitor, disk, payments, rows, faults>>

(* claim_funds, which writes the preimage to the monitor *)
HandlePaymentClaimable(p) ==
    /\ \/ /\ Live(via[p]) /\ UpdatePersistedChannel(via[p])
          /\ pay' = [pay EXCEPT ![p] = "claiming"]
          /\ raised' = Tail(raised)
          /\ UNCHANGED chan
       \/ /\ Live(via[p]) /\ Fault
          /\ chan' = [chan EXCEPT ![via[p]] = "closed"]
          /\ raised' = Append(Tail(raised), <<"closed", via[p]>>)
          /\ UNCHANGED <<monitor, disk, pay>>
       \/ /\ ~Live(via[p])
          /\ raised' = Tail(raised)
          /\ UNCHANGED <<chan, monitor, disk, pay, faults>>
    /\ UNCHANGED <<via, rows>>

HandleEvent ==
    /\ client = "up" /\ raised # <<>>
    /\ LET e == Head(raised)
       IN /\ SaveEventDataToDb(e)
          /\ CASE e[1] = "pending" -> HandleChannelPendingEvent(e[2])
               [] e[1] = "forwardable" -> HandlePendingHTLCsForwardableEvent(e[2])
               [] e[1] = "claimable" -> HandlePaymentClaimable(e[2])
               [] OTHER -> /\ raised' = Tail(raised)
                           /\ UNCHANGED <<chan, monitor, disk, payments, rows, faults>>
    /\ UNCHANGED <<client, screen>>

----------------------------------------------------------------------------
(***************************************************************************)
(* The wallet's requests.                                                  *)
(***************************************************************************)
(* a row of a channel, saved before the channel is paid *)
SavePeerAndChannel(c) ==
    /\ client \in {"off", "up"}
    /\ rows[c] = "none" /\ \A d \in 1..(c - 1) : rows[d] # "none"
    /\ rows' = [rows EXCEPT ![c] = "null"]
    /\ UNCHANGED <<client, ldk, disk, payments, events, screen, faults>>

(* A request without a route fails; a payment LDK refuses is answered as   *)
(* one that was sent.                                                      *)
SendPayment(p) ==
    /\ client = "up" /\ pay[p] = "none"
    /\ \E c \in Chan :
          /\ chan[c] = "ready"
          /\ UpdatePersistedChannel(c)
          /\ pay' = [pay EXCEPT ![p] = "sent"] /\ via' = [via EXCEPT ![p] = c]
    /\ UNCHANGED <<client, chan, raised, database, screen>>

(* close_channel; after a success too the list is updated by a name that   *)
(* does not exist, which ends as an error does                             *)
MutualCloseChannel(c) ==
    /\ Fault
    /\ client = "up" /\ rows[c] = "set" /\ chan[c] \in {"open", "ready"}
    /\ chan' = [chan EXCEPT ![c] = "closing"]
    /\ UNCHANGED <<client, monitor, raised, disk, payments, database, screen>>

(* offered when the button is pressed again; the press closes it mutually  *)
(* first                                                                   *)
ForceCloseChannel(c) ==
    /\ client = "up" /\ chan[c] = "closing"
    /\ UpdatePersistedChannel(c)
    /\ chan' = [chan EXCEPT ![c] = "closed"]
    /\ Raise(<<"closed", c>>)
    /\ UNCHANGED <<client, payments, database, screen>>

----------------------------------------------------------------------------
(***************************************************************************)
(* The channel list of the wallet, which asks for unseen events every ten  *)
(* seconds.  One request at a time is modelled.                            *)
(***************************************************************************)
\* Mutant: the value of the last row.
LastChannel == {c \in Chan : rows[c] = "set" /\ \A d \in Chan : rows[d] # "none" => d =< c}

(* The sub-query of loadUnnotifiedEvents has the value of its first row *)
EventChannel == {c \in Chan : c = 1 /\ rows[c] = "set"}

UnnotifiedEvents ==
    {e \in Event : events[e] = "unseen" /\ ChannelOf(e) \in EventChannel}

(* the events of the types it has a message for *)
Notified(answer) == {e \in answer : e[1] \in {"ready", "claimable"}}

UpdateChannelEventsInfo ==
    \E answer \in {UnnotifiedEvents, {}} :
       /\ answer # known
       /\ client = "dead" => answer = {}
       /\ IF answer = UnnotifiedEvents \/ client = "dead" THEN UNCHANGED faults ELSE Fault
       /\ shown' = [e \in Event |-> shown[e] \/ e \in Notified(answer)]
       /\ posts' = posts \union Notified(answer)
       /\ known' = answer
    /\ UNCHANGED <<client, ldk, disk, payments, database>>

SetEventNotificationSeen(e) ==
    /\ e \in posts
    /\ \/ client # "dead" /\ events' = [events EXCEPT ![e] = "seen"] /\ UNCHANGED faults
       \/ client # "dead" /\ Fault /\ UNCHANGED events
       \/ client = "dead" /\ UNCHANGED <<events, faults>>
    /\ posts' = posts \ {e}
    /\ UNCHANGED <<client, ldk, disk, payments, rows, known, shown>>

----------------------------------------------------------------------------
(***************************************************************************)
(* The file of the manager, and the life of the adapter.                   *)
(***************************************************************************)
Known == [c \in Chan |-> IF Live(c) THEN monitor[c] ELSE 0]

(* written aside and renamed, ten times a second *)
PersistManager ==
    /\ client = "up" /\ manager # Known
    /\ manager' = Known
    /\ UNCHANGED <<client, ldk, lookup, file, payments, database, screen, faults>>

(* the adapter ends, with what it had in memory *)
Die ==
    /\ Fault /\ client # "dead"
    /\ client' = "dead"
    /\ chan' = [c \in Chan |-> IF Live(c) THEN "lost" ELSE chan[c]]
    /\ raised' = <<>>
    /\ UNCHANGED <<monitor, disk, payments, database, screen>>

(* the application starts again *)
Restart ==
    /\ client = "dead"
    /\ client' = "off"
    /\ known' = {} /\ posts' = {}
    /\ UNCHANGED <<ldk, disk, payments, database, shown, faults>>

(* startLDK; Step 7 of initializeLDK looks for the monitors in another     *)
(* folder, and without them a manager with channels cannot be read         *)
StartLDK ==
    /\ client = "off" /\ \A c \in Chan : manager[c] = 0
    /\ client' = "up"
    /\ UNCHANGED <<ldk, disk, payments, database, screen, faults>>

----------------------------------------------------------------------------
PaymentsInit ==
    /\ client = "off"
    /\ chan = [c \in Chan |-> "none"] /\ monitor = [c \in Chan |-> 0] /\ raised = <<>>
    /\ lookup = {} /\ file = [c \in Chan |-> Nobody] /\ manager = [c \in Chan |-> 0]
    /\ pay = [p \in Pay |-> "none"] /\ via = [p \in Pay |-> 0]
    /\ rows = [c \in Chan |-> "none"] /\ events = [e \in Event |-> "none"]
    /\ known = {} /\ posts = {}
    /\ shown = [e \in Event |-> FALSE]
    /\ faults = 0

Peer ==
    \/ \E c \in Chan : PersistNewChannel(c) \/ ChannelReady(c) \/ CloseAgreed(c)
    \/ \E p \in Pay : \/ PreimageTaken(p) \/ PaymentResolved(p)
                     \/ \E c \in Chan : PaymentArrives(p, c)

User ==
    \/ \E c \in Chan : SavePeerAndChannel(c) \/ MutualCloseChannel(c)
                       \/ ForceCloseChannel(c)
    \/ \E p \in Pay : SendPayment(p)

PaymentsNext ==
    \/ Peer \/ User \/ HandleEvent
    \/ UpdateChannelEventsInfo \/ \E e \in Event : SetEventNotificationSeen(e)
    \/ PersistManager \/ Die \/ Restart \/ StartLDK

PaymentsSpec == PaymentsInit /\ [][PaymentsNext]_paymentsVars

(***************************************************************************)
(* The intervals of the client hand on events every two seconds, that of   *)
(* the channel list, when it is on the screen, asks every ten; a peer that *)
(* answers takes the preimage it is given.                                 *)
(***************************************************************************)
PaymentsFairSpec ==
    /\ PaymentsSpec
    /\ WF_paymentsVars(HandleEvent) /\ WF_paymentsVars(UpdateChannelEventsInfo)
    /\ \A p \in Pay : WF_paymentsVars(PreimageTaken(p))

----------------------------------------------------------------------------
(* the values of the variables *)
PaymentsTypeOK ==
    /\ client \in {"dead", "off", "up"}
    /\ chan \in [Chan -> {"none", "open", "ready", "closing", "closed", "lost"}]
    /\ monitor \in [Chan -> Nat] /\ manager \in [Chan -> Nat]
    /\ raised \in Seq(Event) /\ lookup \subseteq Chan
    /\ file \in [Chan -> [chan : Chan \union {0}, at : Nat]]
    /\ pay \in [Pay -> {"none", "held", "offered", "claiming", "claimed",
                       "sent", "resolved"}]
    /\ via \in [Pay -> Chan \union {0}]
    /\ rows \in [Chan -> {"none", "null", "set"}]
    /\ events \in [Event -> {"none", "unseen", "seen"}]
    /\ known \subseteq Event /\ posts \subseteq Event
    /\ shown \in [Event -> BOOLEAN] /\ faults \in 0..MaxFaults

(***************************************************************************)
(* What the file of a monitor holds is never behind what the channel       *)
(* manager's file knows of the channel, whenever the adapter ends: LDK     *)
(* would take the manager for the newer one and broadcast a revoked state. *)
(***************************************************************************)
ManagerNotAhead ==
    \A c, d \in Chan : file[d].chan = c => manager[c] =< file[d].at

(***************************************************************************)
(* A payment that can be claimed is claimed, unless its channel closes or  *)
(* the adapter ends first.                                                 *)
(***************************************************************************)
PaymentClaimed ==
    \A p \in Pay : pay[p] = "offered" ~> pay[p] = "claimed" \/ \A c \in Chan : Live(c) => via[p] # c

(***************************************************************************)
(* The events of the wallet's first channel the list has a message for are *)
(* shown, unless the adapter ends.                                         *)
(***************************************************************************)
EventShown ==
    \A e \in {"ready"} \X {1} \union {"claimable"} \X Pay :
       events[e] = "unseen" /\ ChannelOf(e) = 1
          ~> shown[e] \/ client = "dead"
=============================================================================
