-------------------------- MODULE LightningAdapter --------------------------
(***************************************************************************)
(* The lightning adapter: a process of its own around LDK.  The wallet     *)
(* opens a channel when the coin paid to the channel's address is seen, by *)
(* three requests; the adapter keeps the peers and the channels in a       *)
(* database, answers LDK's events, saves LDK's channel manager and tells   *)
(* LDK what the chain does.  LDK, the peers and the chain are modelled by  *)
(* what the adapter sees of them.                                          *)
(***************************************************************************)
EXTENDS Naturals, FiniteSets

CONSTANTS
    MaxCalls,    \* bound: runs of the callback that opens a channel
    MaxAddr,     \* bound: payment addresses of channels; each is paid by one coin
    PeerOf,      \* the peer (host, port and key) of the channel of an address
    None,
    MaxBlocks,   \* bound: blocks found
    MaxFaults    \* bound: requests to the explorer that fail, connections that
                 \* break, channels and clients closed, and reorganisations

ASSUME LightningAssumption ==
    /\ None \notin Nat
    /\ MaxCalls \in Nat \ {0} /\ MaxAddr \in Nat \ {0}
    /\ DOMAIN PeerOf = 1..MaxAddr
    /\ MaxBlocks \in Nat \ {0} /\ MaxFaults \in Nat

VARIABLES
    client,     \* LDKClientFactory.client: "off", "starting" or "up"
    pc, of,     \* how far a call is, and its address
    quiet,      \* addresses the wallet no longer watches
    pid,        \* which of the rows for its peer a call found or inserted
    late,       \* calls whose setEventTxData, not awaited, still runs
    old,        \* calls that run on a client closed since
    key, input, \* MercuryEventHandler.privateKey and txid: static
    peers,      \* rows of the table peers for a peer
    rows,       \* rows of the table channels, named by the call
    rowChan,    \* channel_id of a row
    connected,  \* peers the handshake with is over
    chan,       \* LDK's channels, named by the call
    tx,         \* the coin a channel's funding transaction can spend
    saved,      \* the channels in channel_manager_data.bin
    writers,    \* what the intervals of closed clients go on saving
    blocks, chain, \* the latest block and the best chain
    sent, mined,   \* fundings broadcast, and the block of each
    sync,       \* the sync that runs: its place and its tip_hash
    last, pending, watched, queue, \* its SyncState and its FilterQueue
    telling,    \* confirmations found, not yet told
    conf, best, \* what LDK was told: block of a funding, best block
    faults,
    mixed       \* history: calls that overlapped one for another address

wallet == <<pc, of, quiet, pid, late, old, mixed>>
statics == <<key, input>>
database == <<peers, rows, rowChan>>
ldk == <<connected, chan, tx>>
files == <<saved, writers>>
network == <<blocks, chain, sent, mined>>
syncer == <<sync, last, pending, watched, queue, telling, conf, best>>
vars == <<client, wallet, statics, database, ldk, files, network, syncer, faults>>

Call == 1..MaxCalls    \* in the order they start
Addr == 1..MaxAddr     \* 1 is the first whose coin is seen
Peer == {PeerOf[a] : a \in Addr}
PeerOfCall(c) == PeerOf[of[c]]
Live(c) == chan[c] \in {"opened", "accepted", "funded", "pending"}
Opening(c) == pc[c] \notin {"idle", "end"} \/ c \in late
              \/ chan[c] \in {"opened", "accepted"}
Answered == late = {} /\ \A c \in Call : pc[c] \in {"idle", "end"}
InManager == {c \in Call : chan[c] = "pending"}
Fault == faults < MaxFaults /\ faults' = faults + 1
Fail == blocks < MaxBlocks /\ Fault

NewSync == [pc |-> "idle", tip |-> 0]

----------------------------------------------------------------------------
(***************************************************************************)
(* The wallet's callback, and the requests setTxData, connectToPeer and    *)
(* createChannel it makes one after the other.                             *)
(***************************************************************************)
To(c, place) == pc' = [pc EXCEPT ![c] = place]

(* the script hash of the address changes: its coin is in the mempool or a block *)
StatusChange(c, a) ==
    /\ pc[c] = "idle" /\ \A d \in 1..(c - 1) : pc[d] # "idle"
    /\ client = "up" /\ blocks = 1
    /\ sync.pc = "idle" /\ telling = {}
    /\ a \notin quiet /\ (a = 1 \/ \E d \in Call : of[d] = 1)
    /\ To(c, "setTx")
    /\ of' = [of EXCEPT ![c] = a]
    /\ LET others == {d \in Call : of[d] # a /\ Opening(d)}
       IN mixed' = IF others = {} THEN mixed ELSE mixed \union others \union {c}
    /\ UNCHANGED <<client, quiet, pid, late, old, statics, database, ldk, files,
                   network, syncer, faults>>

(* setEventTxData, awaited by its route *)
SetTxData(c) ==
    /\ pc[c] = "setTx"
    /\ \/ /\ input' = of[c]
          /\ To(c, IF client = "up" THEN "connect" ELSE "end")
          /\ UNCHANGED faults
       \/ Fail /\ To(c, "end") /\ UNCHANGED input
    /\ UNCHANGED <<client, of, quiet, pid, late, old, mixed, key, database, ldk, files,
                   network, syncer>>

ConnectPeer(c) ==
    /\ pc[c] = "connect"
    /\ \/ client = "up" /\ To(c, "dialled")
       \/ To(c, "end")
    /\ UNCHANGED <<client, of, quiet, pid, late, old, mixed, statics, database, ldk,
                   files, network, syncer, faults>>

(* the handshake with a peer dialled by a call, or by connectToPeers at the start *)
Handshake(p) ==
    /\ client = "up" /\ p \notin connected
    /\ \/ \E c \in Call : pc[c] = "dialled" /\ PeerOfCall(c) = p
       \/ \E c \in rows : PeerOfCall(c) = p
    /\ connected' = connected \union {p}
    /\ UNCHANGED <<client, wallet, statics, database, chan, tx, files, network,
                   syncer, faults>>

(* the timer of create_socket looks at the number of peers only *)
PeersReady == Cardinality(connected) = 1

(* a key that is set is kept *)
CreateChannelKeepsKey(c) ==
    /\ pc[c] = "dialled" /\ client = "up"
    /\ PeersReady
    /\ To(c, "exists")
    /\ quiet' = quiet \union {of[c]}
    /\ key' = IF key = None THEN of[c] ELSE key
    /\ late' = late \union {c}
    /\ UNCHANGED <<client, of, pid, old, mixed, input, database, ldk, files,
                   network, syncer, faults>>

(* the wallet unsubscribes and posts createChannel *)
CreateChannel(c) ==
    /\ pc[c] = "dialled" /\ client = "up"
    /\ PeersReady
    /\ To(c, "exists")
    /\ quiet' = quiet \union {of[c]}
    /\ key' = of[c]
    /\ late' = late \union {c}
    /\ UNCHANGED <<client, of, pid, old, mixed, input, database, ldk, files,
                   network, syncer, faults>>

LateTxData(c) ==
    /\ c \in late
    /\ input' = of[c]
    /\ late' = late \ {c}
    /\ UNCHANGED <<client, pc, of, quiet, pid, old, mixed, key, database, ldk, files,
                   network, syncer, faults>>

----------------------------------------------------------------------------
(***************************************************************************)
(* createChannel goes on: the database.  A query runs in one step, another *)
(* call's queries may come between two.                                    *)
(***************************************************************************)
SameRow(c, d) == PeerOfCall(d) = PeerOfCall(c) /\ pid[d] = pid[c]
Taken(c) == \E d \in rows : SameRow(c, d)

CheckIfChannelExists(c) ==
    /\ pc[c] = "exists"
    /\ To(c, IF \E d \in rows : /\ PeerOfCall(d) = PeerOfCall(c) /\ pid[d] = 1
                                /\ rowChan[d] # None
             THEN "end" ELSE "peer")
    /\ UNCHANGED <<client, of, quiet, pid, late, old, mixed, statics, database, ldk,
                   files, network, syncer, faults>>

(* saveNewPeerToDB: the select *)
FindPeer(c) ==
    /\ pc[c] = "peer"
    /\ IF peers[PeerOfCall(c)] > 0
       THEN To(c, "channel") /\ pid' = [pid EXCEPT ![c] = 1]
       ELSE To(c, "newPeer") /\ UNCHANGED pid
    /\ UNCHANGED <<client, of, quiet, late, old, mixed, statics, database, ldk, files,
                   network, syncer, faults>>

(* its insert; nothing makes the rows of peers unique *)
SaveNewPeerToDB(c) ==
    /\ pc[c] = "newPeer"
    /\ peers' = [peers EXCEPT ![PeerOfCall(c)] = @ + 1]
    /\ pid' = [pid EXCEPT ![c] = peers'[PeerOfCall(c)]]
    /\ To(c, "channel")
    /\ UNCHANGED <<client, of, quiet, late, old, mixed, statics, rows, rowChan, ldk,
                   files, network, syncer, faults>>

(* 409 is taken for a channel to be opened again *)
FindChannelReopens(c) ==
    /\ pc[c] = "channel"
    /\ To(c, IF Taken(c) THEN "open" ELSE "newChannel")
    /\ UNCHANGED <<client, of, quiet, pid, late, old, mixed, statics, database, ldk,
                   files, network, syncer, faults>>

(* saveNewChannelToDB: the select; 409 makes createChannel throw *)
FindChannel(c) ==
    /\ pc[c] = "channel"
    /\ To(c, IF Taken(c) THEN "end" ELSE "newChannel")
    /\ UNCHANGED <<client, of, quiet, pid, late, old, mixed, statics, database, ldk,
                   files, network, syncer, faults>>

(* its insert; peer_id is UNIQUE *)
SaveNewChannelToDB(c) ==
    /\ pc[c] = "newChannel"
    /\ IF Taken(c)
       THEN To(c, "end") /\ UNCHANGED rows
       ELSE To(c, "open") /\ rows' = rows \union {c}
    /\ UNCHANGED <<client, of, quiet, pid, late, old, mixed, statics, peers, rowChan,
                   ldk, files, network, syncer, faults>>

(* channelManager.create_channel; LDK wants the peer connected *)
OpenChannel(c) ==
    /\ pc[c] = "open"
    /\ To(c, "end")
    /\ chan' = IF c \notin old /\ client = "up" /\ PeerOfCall(c) \in connected
               THEN [chan EXCEPT ![c] = "opened"] ELSE chan
    /\ UNCHANGED <<client, of, quiet, pid, late, old, mixed, statics, database,
                   connected, tx, files, network, syncer, faults>>

----------------------------------------------------------------------------
(***************************************************************************)
(* LDK: the peer accepts, LDK asks for the funding transaction, the peer   *)
(* signs and LDK broadcasts it.  The events are handled every two seconds. *)
(***************************************************************************)
Accept(c) ==
    /\ client = "up"
    /\ chan[c] = "opened" /\ PeerOfCall(c) \in connected
    /\ chan' = [chan EXCEPT ![c] = "accepted"]
    /\ UNCHANGED <<client, wallet, statics, database, connected, tx, files,
                   network, syncer, faults>>

(* the static key and coin; LDK takes what comes, a wrong key makes it void *)
FundingGenerationReady(c) ==
    /\ client = "up"
    /\ chan[c] = "accepted" /\ PeerOfCall(c) \in connected
    /\ key # None
    /\ chan' = [chan EXCEPT ![c] = "funded"]
    /\ tx' = [tx EXCEPT ![c] = IF key = input THEN input ELSE None]
    /\ UNCHANGED <<client, wallet, statics, database, connected, files, network,
                   syncer, faults>>

(* the peer signs: ChannelPending; the row is found by the peer's key alone *)
ChannelPending(c) ==
    /\ client = "up"
    /\ chan[c] = "funded" /\ PeerOfCall(c) \in connected
    /\ chan' = [chan EXCEPT ![c] = "pending"]
    /\ rowChan' = [d \in Call |-> IF d \in rows /\ pid[d] = 1
                                     /\ PeerOfCall(d) = PeerOfCall(c)
                                  THEN c ELSE rowChan[d]]
    /\ queue' = queue \union {c}
    /\ sent' = sent \union {c}
    /\ UNCHANGED <<client, wallet, statics, peers, rows, connected, tx, files,
                   blocks, chain, mined, sync, last, pending, watched, telling, conf, best,
                   faults>>

(* a connection breaks: LDK forgets the channels not funded yet *)
Disconnect(p) ==
    /\ Fault /\ p \in connected
    /\ connected' = connected \ {p}
    /\ chan' = [c \in Call |-> IF Live(c) /\ PeerOfCall(c) = p /\ chan[c] # "pending"
                              THEN "none" ELSE chan[c]]
    /\ UNCHANGED <<client, wallet, statics, database, tx, files, network, syncer>>

(* forceCloseChannel and mutualCloseChannel; the row stays *)
CloseChannel(c) ==
    /\ Fault
    /\ client = "up" /\ chan[c] = "pending"
    /\ chan' = [chan EXCEPT ![c] = "closed"]
    /\ UNCHANGED <<client, wallet, statics, database, connected, tx, files,
                   network, syncer>>

----------------------------------------------------------------------------
(***************************************************************************)
(* The file of the channel manager, and the life of the client.            *)
(***************************************************************************)
PersistManager ==
    /\ client = "up" /\ saved # InManager
    /\ saved' = InManager
    /\ UNCHANGED <<client, wallet, statics, database, ldk, writers, network,
                   syncer, faults>>

(* stop does not clear the intervals processPendingEvents started *)
OldPersist(w) ==
    /\ w \in writers /\ saved # w
    /\ saved' = w
    /\ UNCHANGED <<client, wallet, statics, database, ldk, writers, network,
                   syncer, faults>>

(* the peers are not disconnected *)
ForgetClientKeepsPeers ==
    /\ client' = "off"
    /\ chan' = [c \in Call |-> "none"]
    /\ sync' = NewSync /\ last' = 0 /\ pending' = FALSE
    /\ watched' = {} /\ queue' = {} /\ telling' = {}
    /\ conf' = [c \in Call |-> 0] /\ best' = 0
    /\ UNCHANGED <<of, quiet, pid, mixed, database, connected, tx, network>>

ForgetClient ==
    /\ client' = "off"
    /\ connected' = {}
    /\ chan' = [c \in Call |-> "none"]
    /\ sync' = NewSync /\ last' = 0 /\ pending' = FALSE
    /\ watched' = {} /\ queue' = {} /\ telling' = {}
    /\ conf' = [c \in Call |-> 0] /\ best' = 0
    /\ UNCHANGED <<of, quiet, pid, mixed, database, tx, network>>

(* a promise nobody handles rejects: the process ends *)
Die ==
    /\ Fail
    /\ ForgetClient
    /\ key' = None /\ input' = None
    /\ late' = {} /\ old' = {} /\ writers' = {}
    /\ pc' = [c \in Call |-> IF pc[c] = "idle" THEN "idle" ELSE "end"]
    /\ UNCHANGED saved

(* closeLDK; what createChannel was doing goes on, with the old client *)
CloseLDK ==
    /\ Fault /\ client = "up"
    /\ ForgetClient
    /\ writers' = writers \union {InManager}
    /\ pc' = [c \in Call |-> IF pc[c] = "dialled" THEN "end" ELSE pc[c]]
    /\ old' = {c \in Call : pc'[c] \notin {"idle", "setTx", "connect", "end"}}
    /\ UNCHANGED <<statics, late, saved>>

(* startLDK; with channels in the file the manager cannot be read, because *)
(* Step 7 of initializeLDK never finds their monitors                      *)
StartLDK ==
    /\ client = "off"
    /\ saved = {}
    /\ client' = "starting"
    /\ UNCHANGED <<wallet, statics, database, ldk, files, network, syncer, faults>>

----------------------------------------------------------------------------
(***************************************************************************)
(* EsploraSyncClient.sync, every ten seconds and once in initializeLDK.    *)
(* One sync and the confirmations it tells are over before the next one    *)
(* starts; one that finds nothing to do changes nothing and is left out.   *)
(* A tip_hash of 0 is an answer that did not come, a last of 0 is null.    *)
(***************************************************************************)
SyncFrame == UNCHANGED <<wallet, statics, database, ldk, files, network>>

SyncStart ==
    /\ client # "off" /\ sync.pc = "idle" /\ telling = {}
    /\ \/ client = "starting"
       \/ Answered /\ (last # blocks \/ pending \/ queue # {})
    /\ \/ sync' = [pc |-> "head", tip |-> blocks] /\ UNCHANGED faults
       \/ Fail /\ sync' = [pc |-> "head", tip |-> 0]
    /\ UNCHANGED <<client, last, pending, watched, queue, telling, conf, best>>
    /\ SyncFrame

(* the head of the loop: processQueues, and is there anything to do *)
SyncHead ==
    /\ sync.pc = "head"
    /\ watched' = watched \union queue
    /\ queue' = {}
    /\ IF sync.tip # last \/ last = 0
       THEN sync' = [sync EXCEPT !.pc = "unconfirmed"] /\ UNCHANGED client
       ELSE IF pending \/ queue # {}
       THEN sync' = [sync EXCEPT !.pc = "confirmed"] /\ UNCHANGED client
       ELSE sync' = NewSync /\ client' = "up"
    /\ UNCHANGED <<last, pending, telling, conf, best, faults>>
    /\ SyncFrame

(* get_unconfirmed_transactions, the check of the tip, sync_unconfirmed_transactions *)
Stale == {c \in Call : chan[c] = "pending" /\ conf[c] # 0 /\ conf[c] \notin chain}

(* the transactions of blocks that left the chain are not taken back *)
SyncUnconfirmedNever ==
    /\ sync.pc = "unconfirmed"
    /\ sync' = IF sync.tip = blocks THEN [sync EXCEPT !.pc = "best"]
               ELSE [pc |-> "head", tip |-> blocks]
    /\ UNCHANGED <<client, last, pending, watched, queue, telling, conf, best, faults>>
    /\ SyncFrame

SyncUnconfirmed ==
    /\ sync.pc = "unconfirmed"
    /\ \/ /\ sync.tip # blocks
          /\ sync' = [pc |-> "head", tip |-> blocks]
          /\ UNCHANGED <<client, pending, watched, conf, faults>>
       \/ /\ sync.tip = blocks
          /\ conf' = [c \in Call |-> IF c \in Stale THEN 0 ELSE conf[c]]
          /\ watched' = watched \union Stale
          /\ sync' = [sync EXCEPT !.pc = "best"]
          /\ UNCHANGED <<client, pending, faults>>
       \/ /\ Fail
          /\ pending' = TRUE
          /\ sync' = NewSync
          /\ client' = "up"
          /\ UNCHANGED <<watched, conf>>
    /\ UNCHANGED <<last, queue, telling, best>>
    /\ SyncFrame

(* sync_best_block_updated; a block no longer in the best chain is only logged *)
SyncBestBlockUpdated ==
    /\ sync.pc = "best"
    /\ best' = IF sync.tip \in chain THEN sync.tip ELSE best
    /\ sync' = [sync EXCEPT !.pc = "confirmed"]
    /\ UNCHANGED <<client, last, pending, watched, queue, telling, conf, faults>>
    /\ SyncFrame

(* get_confirmed_transactions, the check of the tip; sync_confirmed_transactions *)
(* is not awaited.  A request that fails hides its transaction, or all of them.  *)
Found == {c \in watched : mined[c] # 0}

(* the tip is asked for again, and taken for the one that was synced *)
SyncConfirmedAtNewTip ==
    /\ sync.pc = "confirmed"
    /\ telling' = telling \union {<<c, mined[c]>> : c \in Found}
    /\ last' = blocks
    /\ pending' = FALSE
    /\ sync' = [pc |-> "head", tip |-> blocks]
    /\ UNCHANGED <<client, watched, queue, conf, best, faults>>
    /\ SyncFrame

SyncConfirmed ==
    /\ sync.pc = "confirmed"
    /\ IF sync.tip # blocks
       THEN /\ sync' = [pc |-> "head", tip |-> blocks]
            /\ UNCHANGED <<last, pending, telling, faults>>
       ELSE /\ \/ /\ telling' = telling \union {<<c, mined[c]>> : c \in Found}
                  /\ UNCHANGED faults
               \/ Fail /\ UNCHANGED telling
            /\ last' = sync.tip
            /\ pending' = FALSE
            /\ sync' = [sync EXCEPT !.pc = "head"]
    /\ UNCHANGED <<client, watched, queue, conf, best>>
    /\ SyncFrame

TransactionsConfirmed ==
    /\ \E t \in telling :
          /\ telling' = telling \ {t}
          /\ conf' = IF chan[t[1]] = "pending" THEN [conf EXCEPT ![t[1]] = t[2]]
                     ELSE conf
    /\ UNCHANGED <<client, sync, last, pending, watched, queue, best, faults>>
    /\ SyncFrame

(* a failed start leaves no client; later the rejected promise ends the process *)
SyncFails ==
    /\ \/ sync.pc = "best" \/ telling # {}
    /\ \/ client = "up" /\ Die
       \/ /\ client = "starting" /\ Fail /\ ForgetClient
          /\ UNCHANGED <<pc, late, old, statics, files>>

----------------------------------------------------------------------------
(***************************************************************************)
(* The chain.  A block has a funding transaction of each of some channels, *)
(* never two that spend one coin.  Requests take seconds and a block ten   *)
(* minutes: the blocks come when no call is under way, and only those      *)
(* after the first funding are counted.                                    *)
(***************************************************************************)
Spends(c) == tx[c] # None /\ \A d \in Call : mined[d] # 0 => tx[d] # tx[c]
Mempool == {c \in sent : mined[c] = 0 /\ Spends(c)}

Settled == /\ InManager # {} /\ Answered
           /\ \A c \in Call : chan[c] \in {"none", "pending", "closed"}
           /\ client = "up" => saved \in {InManager} \union writers

Mine ==
    /\ blocks < MaxBlocks /\ Settled
    /\ blocks' = blocks + 1
    /\ chain' = chain \union {blocks'}
    /\ \/ \E c \in Mempool : mined' = [mined EXCEPT ![c] = blocks']
       \/ UNCHANGED mined
    /\ UNCHANGED <<client, wallet, statics, database, ldk, files, sent, syncer, faults>>

(* the latest block is replaced by two, counted as the one that becomes the tip *)
Reorg ==
    /\ Fault /\ blocks < MaxBlocks /\ Settled
    /\ blocks' = blocks + 1
    /\ chain' = (chain \ {blocks}) \union {blocks'}
    /\ LET kept == [c \in Call |-> IF mined[c] = blocks THEN 0 ELSE mined[c]]
       IN \/ mined' = kept
          \/ \E c \in Call : mined[c] = blocks /\ mined' = [kept EXCEPT ![c] = blocks']
    /\ UNCHANGED <<client, wallet, statics, database, ldk, files, sent, syncer>>

----------------------------------------------------------------------------
Init ==
    /\ client = "off"
    /\ pc = [c \in Call |-> "idle"] /\ of = [c \in Call |-> None]
    /\ quiet = {} /\ pid = [c \in Call |-> 0]
    /\ late = {} /\ old = {} /\ mixed = {}
    /\ key = None /\ input = None
    /\ peers = [p \in Peer |-> 0] /\ rows = {} /\ rowChan = [c \in Call |-> None]
    /\ connected = {} /\ chan = [c \in Call |-> "none"]
    /\ tx = [c \in Call |-> None]
    /\ saved = {} /\ writers = {}
    /\ blocks = 1 /\ chain = {1} /\ sent = {} /\ mined = [c \in Call |-> 0]
    /\ sync = NewSync /\ last = 0 /\ pending = FALSE
    /\ watched = {} /\ queue = {} /\ telling = {}
    /\ conf = [c \in Call |-> 0] /\ best = 0
    /\ faults = 0

Sync == SyncStart \/ SyncHead \/ SyncUnconfirmed \/ SyncBestBlockUpdated
        \/ SyncConfirmed \/ TransactionsConfirmed

Open(c) ==
    \/ \E a \in Addr : StatusChange(c, a)
    \/ SetTxData(c) \/ ConnectPeer(c) \/ CreateChannel(c) \/ LateTxData(c)
    \/ CheckIfChannelExists(c) \/ FindPeer(c) \/ SaveNewPeerToDB(c)
    \/ FindChannel(c) \/ SaveNewChannelToDB(c) \/ OpenChannel(c)

Channel(c) == Accept(c) \/ FundingGenerationReady(c) \/ ChannelPending(c)
              \/ CloseChannel(c)

Next ==
    \/ \E c \in Call : Open(c) \/ Channel(c)
    \/ \E p \in Peer : Handshake(p) \/ Disconnect(p)
    \/ late # {} /\ Die
    \/ PersistManager \/ (\E w \in writers : OldPersist(w))
    \/ CloseLDK \/ StartLDK
    \/ Sync \/ SyncFails
    \/ Mine \/ Reorg

Spec == Init /\ [][Next]_vars

(***************************************************************************)
(* The interval of ten seconds goes on for as long as the client is up and *)
(* requests time out, so a sync ends and another begins; blocks are found. *)
(***************************************************************************)
FairSpec == Spec /\ WF_vars(Sync) /\ WF_vars(Mine)

----------------------------------------------------------------------------
(* the values of the variables *)
WalletType ==
    /\ pc \in [Call -> {"idle", "setTx", "connect", "dialled", "exists", "peer",
                        "newPeer", "channel", "newChannel", "open", "end"}]
    /\ of \in [Call -> Addr \union {None}]
    /\ \A c \in Call : of[c] = None => pc[c] = "idle"
    /\ quiet \subseteq Addr /\ pid \in [Call -> 0..Cardinality(Call)]
    /\ late \subseteq Call /\ old \subseteq Call /\ mixed \subseteq Call
StaticsType == key \in Addr \union {None} /\ input \in Addr \union {None}
DatabaseType ==
    /\ peers \in [Peer -> 0..Cardinality(Call)]
    /\ rows \subseteq Call /\ rowChan \in [Call -> Call \union {None}]
LdkType ==
    /\ client \in {"off", "starting", "up"} /\ connected \subseteq Peer
    /\ chan \in [Call -> {"none", "opened", "accepted", "funded", "pending", "closed"}]
    /\ tx \in [Call -> Addr \union {None}]
    /\ client # "up" => connected = {} /\ \A c \in Call : chan[c] = "none"
FilesType == saved \subseteq Call /\ writers \subseteq SUBSET Call
NetworkType ==
    /\ blocks \in 1..MaxBlocks /\ chain \subseteq 1..blocks /\ blocks \in chain
    /\ sent \subseteq Call /\ mined \in [Call -> chain \union {0}]
SyncerType ==
    /\ sync \in [pc : {"idle", "head", "unconfirmed", "best", "confirmed"},
                 tip : 0..blocks]
    /\ last \in 0..blocks /\ pending \in BOOLEAN
    /\ watched \subseteq Call /\ queue \subseteq Call
    /\ telling \subseteq Call \X (1..blocks)
    /\ conf \in [Call -> 0..blocks] /\ best \in 0..blocks

TypeOK ==
    /\ WalletType /\ StaticsType /\ DatabaseType /\ LdkType /\ FilesType
    /\ NetworkType /\ SyncerType
    /\ faults \in 0..MaxFaults

(***************************************************************************)
(* Two of LDK's channels never share a row of peers: however the queries   *)
(* of two calls interleave, and over drops and restarts, the select, the   *)
(* 409 and the UNIQUE peer_id keep a second channel from being opened.     *)
(***************************************************************************)
OneChannelPerRow ==
    \A c, d \in Call : Live(c) /\ Live(d) /\ c # d => ~SameRow(c, d)

(***************************************************************************)
(* The static key and coin are shared by all openings, but a channel whose *)
(* opening overlapped no opening for another address is funded by the coin *)
(* paid to its own address.                                                *)
(***************************************************************************)
OwnCoin ==
    \A c \in Call : chan[c] \in {"funded", "pending"} /\ c \notin mixed => tx[c] = of[c]

(***************************************************************************)
(* A funding in a block is told to LDK, and the block that confirms it is  *)
(* told as the best one, unless a reorganisation, a close or the end of    *)
(* the client comes before.                                                *)
(***************************************************************************)
Mined(c) == chan[c] = "pending" /\ mined[c] # 0
Told(c) == conf[c] = mined[c] /\ best >= mined[c]
FundingConfirmed == \A c \in Call : Mined(c) ~> (~Mined(c) \/ Told(c))

(***************************************************************************)
(* A confirmation LDK was told in a block that left the best chain, even   *)
(* one told after the reorganisation, is taken back.                       *)
(***************************************************************************)
Wrong(c) == conf[c] # 0 /\ conf[c] \notin chain
StaleTakenBack == \A c \in Call : Wrong(c) ~> ~Wrong(c)
=============================================================================
