----------------------- MODULE LightningAdapter_proofs -----------------------
(***************************************************************************)
(* Proofs about LightningAdapter, for any number of calls, addresses,      *)
(* peers, blocks and faults: the types, that two channels of LDK never     *)
(* share a row of peers, and that an opening that overlapped no other      *)
(* address is funded by its own coin.                                      *)
(***************************************************************************)
EXTENDS LightningAdapter, FiniteSetTheorems, TLAPS

Before == {"idle", "setTx", "connect", "dialled", "exists", "peer", "newPeer"}
Inside == {"exists", "peer", "newPeer", "channel", "newChannel", "open"}
Negotiated == {"opened", "accepted"}
Funded == {"funded", "pending"}

(* A call has its row of peers from the database on, and every row of      *)
(* peers was inserted by a call of its own.                                *)
Numbered == {c \in Call : pid[c] # 0}
PeersInv ==
    /\ \A c \in Call : pc[c] \in Before => pid[c] = 0
    /\ \A p \in Peer : peers[p] =< Cardinality(Numbered)

(* A channel of LDK, and a call about to open one, has a row of channels,  *)
(* and no two of these have the same peer_id.                              *)
RowsInv ==
    /\ \A c \in rows : pc[c] \in {"open", "end"}
    /\ \A c \in Call : pc[c] = "open" \/ chan[c] # "none" => c \in rows
    /\ \A c \in late : pc[c] # "idle"
    /\ \A c, d \in rows : c # d => ~SameRow(c, d)

(* Openings for two addresses at once are known as mixed; the others find  *)
(* their own key and coin in the statics.                                  *)
MixedInv ==
    /\ \A c, d \in Call : Opening(c) /\ Opening(d) /\ of[c] # of[d] => c \in mixed
    /\ \A c \in Call \ mixed :
         /\ pc[c] \in Inside \union {"connect", "dialled"} \/ chan[c] \in Negotiated
              => input = of[c]
         /\ pc[c] \in Inside \/ chan[c] \in Negotiated => key = of[c]

Inv == TypeOK /\ PeersInv /\ RowsInv /\ MixedInv /\ OwnCoin

USE LightningAssumption

----------------------------------------------------------------------------
(* the sets of calls, addresses and peers *)

LEMMA CallFinite == IsFiniteSet(Call) /\ Cardinality(Call) = MaxCalls
<1>1. IsFiniteSet(1..MaxCalls) /\ Cardinality(1..MaxCalls) = MaxCalls
  BY FS_Interval
<1> QED BY <1>1 DEF Call

LEMMA NumberedFinite ==
    ASSUME NEW S \in SUBSET Call
    PROVE  IsFiniteSet(S) /\ Cardinality(S) \in Nat /\ Cardinality(S) =< Cardinality(Call)
BY CallFinite, FS_Subset, FS_CardinalityType

LEMMA PeerType == WalletType => \A c \in Call : of[c] # None => PeerOfCall(c) \in Peer
BY DEF WalletType, PeerOfCall, Peer, Addr

----------------------------------------------------------------------------
(* the types *)

LEMMA NewSyncType ==
    ASSUME NEW n \in Nat
    PROVE  NewSync \in [pc : {"idle", "head", "unconfirmed", "best", "confirmed"},
                        tip : 0..n]
BY DEF NewSync

(* the sync and what LDK was told are forgotten with the client *)
LEMMA ForgetType ==
    ASSUME TypeOK, ForgetClient
    PROVE  LdkType' /\ NetworkType' /\ SyncerType'
<1>1. LdkType' /\ NetworkType'
  BY DEF ForgetClient, TypeOK, LdkType, NetworkType, network
<1>2. blocks' = blocks /\ sent' = sent /\ blocks \in Nat
  BY DEF ForgetClient, TypeOK, NetworkType, network
<1>3. sync' \in [pc : {"idle", "head", "unconfirmed", "best", "confirmed"},
                tip : 0..blocks']
  BY <1>2, NewSyncType DEF ForgetClient
<1>4. SyncerType'
  <2>1. telling' \subseteq Call \X (1..blocks')
    BY DEF ForgetClient
  <2>2. conf' \in [Call -> 0..blocks'] /\ last' \in 0..blocks' /\ best' \in 0..blocks'
    BY <1>2 DEF ForgetClient
  <2>3. watched' \subseteq Call /\ queue' \subseteq Call /\ pending' \in BOOLEAN
    BY DEF ForgetClient
  <2> QED BY <1>3, <2>1, <2>2, <2>3 DEF SyncerType
<1> QED BY <1>1, <1>4

LEMMA InitInv == Init => Inv
<1> SUFFICES ASSUME Init PROVE Inv
  OBVIOUS
<1>1. TypeOK
  <2>1. WalletType /\ StaticsType
    BY CallFinite DEF Init, WalletType, StaticsType
  <2>2. DatabaseType /\ LdkType /\ FilesType
    BY CallFinite DEF Init, DatabaseType, LdkType, FilesType
  <2>3. NetworkType /\ SyncerType /\ faults \in 0..MaxFaults
    <3>1. NetworkType /\ faults \in 0..MaxFaults
      BY DEF Init, NetworkType
    <3>2. SyncerType
      <4>1. sync \in [pc : {"idle", "head", "unconfirmed", "best", "confirmed"},
                      tip : 0..blocks]
        BY NewSyncType DEF Init
      <4>2. telling \subseteq Call \X (1..blocks) /\ conf \in [Call -> 0..blocks]
        BY DEF Init
      <4>3. last \in 0..blocks /\ best \in 0..blocks
        BY DEF Init
      <4>4. pending \in BOOLEAN
        BY DEF Init
      <4>5. watched \subseteq Call /\ queue \subseteq Call
        BY DEF Init
      <4> QED BY <4>1, <4>2, <4>3, <4>4, <4>5 DEF SyncerType
    <3> QED BY <3>1, <3>2
  <2> QED BY <2>1, <2>2, <2>3 DEF TypeOK
<1>2. PeersInv
  BY NumberedFinite DEF Init, PeersInv, Numbered
<1>3. RowsInv
  BY DEF Init, RowsInv
<1>4. MixedInv
  BY DEF Init, MixedInv, Opening, Inside, Negotiated
<1>5. OwnCoin
  BY DEF Init, OwnCoin
<1> QED BY <1>1, <1>2, <1>3, <1>4, <1>5 DEF Inv

LEMMA OpenType ==
    ASSUME TypeOK, NEW c \in Call,
           \/ \E a \in Addr : StatusChange(c, a)
           \/ SetTxData(c) \/ ConnectPeer(c) \/ CreateChannel(c) \/ LateTxData(c)
           \/ CheckIfChannelExists(c) \/ FindPeer(c) \/ FindChannel(c)
           \/ SaveNewChannelToDB(c) \/ OpenChannel(c)
    PROVE  TypeOK'
<1>1. CASE \E a \in Addr : StatusChange(c, a)
  <2>1. WalletType'
    <3> PICK a \in Addr : StatusChange(c, a)
      BY <1>1
    <3>1. mixed' \subseteq Call
      BY DEF StatusChange, TypeOK, WalletType
    <3>2. /\ pc' = [pc EXCEPT ![c] = "setTx"] /\ of' = [of EXCEPT ![c] = a]
          /\ UNCHANGED <<quiet, pid, late, old>>
      BY DEF StatusChange, To
    <3>3. a # None
      BY DEF Addr
    <3> QED BY <3>1, <3>2, <3>3 DEF TypeOK, WalletType
  <2>2. StaticsType' /\ DatabaseType' /\ LdkType' /\ FilesType' /\ NetworkType'
        /\ SyncerType' /\ (faults \in 0..MaxFaults)'
    BY <1>1 DEF StatusChange, To, TypeOK, StaticsType, DatabaseType, LdkType,
                FilesType, NetworkType, SyncerType, wallet, statics, database,
                ldk, files, network, syncer
  <2> QED BY <2>1, <2>2 DEF TypeOK
<1>2. CASE SetTxData(c)
  <2>1. WalletType'
    BY <1>2 DEF SetTxData, To, Fail, Fault, TypeOK, WalletType
  <2>2. StaticsType'
    BY <1>2 DEF SetTxData, To, Fail, Fault, TypeOK, StaticsType, WalletType
  <2>3. (faults \in 0..MaxFaults)'
    BY <1>2 DEF SetTxData, To, Fail, Fault, TypeOK
  <2>4. DatabaseType' /\ LdkType' /\ FilesType' /\ NetworkType' /\ SyncerType'
    BY <1>2 DEF SetTxData, To, Fail, Fault, TypeOK, DatabaseType, LdkType,
                FilesType, NetworkType, SyncerType, wallet, statics, database,
                ldk, files, network, syncer
  <2> QED BY <2>1, <2>2, <2>3, <2>4 DEF TypeOK
<1>3. CASE ConnectPeer(c)
  <2>1. WalletType'
    BY <1>3 DEF ConnectPeer, To, TypeOK, WalletType
  <2>2. StaticsType' /\ DatabaseType' /\ LdkType' /\ FilesType' /\ NetworkType'
        /\ SyncerType' /\ (faults \in 0..MaxFaults)'
    BY <1>3 DEF ConnectPeer, To, TypeOK, StaticsType, DatabaseType, LdkType,
                FilesType, NetworkType, SyncerType, wallet, statics, database,
                ldk, files, network, syncer
  <2> QED BY <2>1, <2>2 DEF TypeOK
<1>4. CASE CreateChannel(c)
  <2>1. WalletType'
    BY <1>4 DEF CreateChannel, To, TypeOK, WalletType
  <2>2. StaticsType'
    BY <1>4 DEF CreateChannel, To, TypeOK, StaticsType, WalletType
  <2>3. DatabaseType' /\ LdkType' /\ FilesType' /\ NetworkType' /\ SyncerType'
        /\ (faults \in 0..MaxFaults)'
    BY <1>4 DEF CreateChannel, To, TypeOK, DatabaseType, LdkType, FilesType,
                NetworkType, SyncerType, wallet, statics, database, ldk, files,
                network, syncer
  <2> QED BY <2>1, <2>2, <2>3 DEF TypeOK
<1>5. CASE LateTxData(c)
  <2>1. WalletType'
    BY <1>5 DEF LateTxData, TypeOK, WalletType
  <2>2. StaticsType'
    BY <1>5 DEF LateTxData, TypeOK, StaticsType, WalletType
  <2>3. DatabaseType' /\ LdkType' /\ FilesType' /\ NetworkType' /\ SyncerType'
        /\ (faults \in 0..MaxFaults)'
    BY <1>5 DEF LateTxData, TypeOK, DatabaseType, LdkType, FilesType,
                NetworkType, SyncerType, wallet, statics, database, ldk, files,
                network, syncer
  <2> QED BY <2>1, <2>2, <2>3 DEF TypeOK
<1>6. CASE CheckIfChannelExists(c)
  <2>1. WalletType'
    BY <1>6 DEF CheckIfChannelExists, To, TypeOK, WalletType
  <2>2. StaticsType' /\ DatabaseType' /\ LdkType' /\ FilesType' /\ NetworkType'
        /\ SyncerType' /\ (faults \in 0..MaxFaults)'
    BY <1>6 DEF CheckIfChannelExists, To, TypeOK, StaticsType, DatabaseType,
                LdkType, FilesType, NetworkType, SyncerType, wallet, statics,
                database, ldk, files, network, syncer
  <2> QED BY <2>1, <2>2 DEF TypeOK
<1>7. CASE FindPeer(c)
  <2>1. WalletType'
    BY <1>7, CallFinite DEF FindPeer, To, TypeOK, WalletType
  <2>2. StaticsType' /\ DatabaseType' /\ LdkType' /\ FilesType' /\ NetworkType'
        /\ SyncerType' /\ (faults \in 0..MaxFaults)'
    BY <1>7 DEF FindPeer, To, TypeOK, StaticsType, DatabaseType, LdkType,
                FilesType, NetworkType, SyncerType, wallet, statics, database,
                ldk, files, network, syncer
  <2> QED BY <2>1, <2>2 DEF TypeOK
<1>8. CASE FindChannel(c)
  <2>1. WalletType'
    BY <1>8 DEF FindChannel, To, TypeOK, WalletType
  <2>2. StaticsType' /\ DatabaseType' /\ LdkType' /\ FilesType' /\ NetworkType'
        /\ SyncerType' /\ (faults \in 0..MaxFaults)'
    BY <1>8 DEF FindChannel, To, TypeOK, StaticsType, DatabaseType, LdkType,
                FilesType, NetworkType, SyncerType, wallet, statics, database,
                ldk, files, network, syncer
  <2> QED BY <2>1, <2>2 DEF TypeOK
<1>9. CASE SaveNewChannelToDB(c)
  <2>1. WalletType'
    BY <1>9 DEF SaveNewChannelToDB, To, database, TypeOK, WalletType
  <2>2. DatabaseType'
    BY <1>9 DEF SaveNewChannelToDB, To, database, TypeOK, DatabaseType,
                WalletType
  <2>3. StaticsType' /\ LdkType' /\ FilesType' /\ NetworkType' /\ SyncerType' /\
        (faults \in 0..MaxFaults)'
    BY <1>9 DEF SaveNewChannelToDB, To, database, TypeOK, StaticsType, LdkType,
                FilesType, NetworkType, SyncerType, wallet, statics, ldk, files,
                network, syncer
  <2> QED BY <2>1, <2>2, <2>3 DEF TypeOK
<1>10. CASE OpenChannel(c)
  <2>1. WalletType'
    BY <1>10 DEF OpenChannel, To, TypeOK, WalletType
  <2>2. LdkType'
    BY <1>10 DEF OpenChannel, To, TypeOK, LdkType, WalletType, StaticsType
  <2>3. StaticsType' /\ DatabaseType' /\ FilesType' /\ NetworkType' /\
        SyncerType' /\ (faults \in 0..MaxFaults)'
    BY <1>10 DEF OpenChannel, To, TypeOK, StaticsType, DatabaseType, FilesType,
                 NetworkType, SyncerType, wallet, statics, database, ldk, files,
                 network, syncer
  <2> QED BY <2>1, <2>2, <2>3 DEF TypeOK
<1> QED BY <1>1, <1>2, <1>3, <1>4, <1>5, <1>6, <1>7, <1>8, <1>9, <1>10

LEMMA ChannelType ==
    ASSUME TypeOK, NEW c \in Call, Channel(c)
    PROVE  TypeOK'
<1>1. CASE Accept(c)
  <2>1. LdkType'
    BY <1>1 DEF Accept, TypeOK, LdkType, WalletType, StaticsType
  <2>2. WalletType' /\ StaticsType' /\ DatabaseType' /\ FilesType' /\
        NetworkType' /\ SyncerType' /\ (faults \in 0..MaxFaults)'
    BY <1>1 DEF Accept, TypeOK, WalletType, StaticsType, DatabaseType,
                FilesType, NetworkType, SyncerType, wallet, statics, database,
                ldk, files, network, syncer
  <2> QED BY <2>1, <2>2 DEF TypeOK
<1>2. CASE FundingGenerationReady(c)
  <2>1. LdkType'
    BY <1>2 DEF FundingGenerationReady, TypeOK, LdkType, WalletType, StaticsType
  <2>2. WalletType' /\ StaticsType' /\ DatabaseType' /\ FilesType' /\
        NetworkType' /\ SyncerType' /\ (faults \in 0..MaxFaults)'
    BY <1>2 DEF FundingGenerationReady, TypeOK, WalletType, StaticsType,
                DatabaseType, FilesType, NetworkType, SyncerType, wallet,
                statics, database, ldk, files, network, syncer
  <2> QED BY <2>1, <2>2 DEF TypeOK
<1>3. CASE ChannelPending(c)
  <2>1. LdkType'
    BY <1>3 DEF ChannelPending, TypeOK, LdkType, WalletType, StaticsType
  <2>2. DatabaseType'
    BY <1>3 DEF ChannelPending, TypeOK, DatabaseType, WalletType
  <2>3. NetworkType'
    BY <1>3 DEF ChannelPending, TypeOK, NetworkType
  <2>4. SyncerType'
    BY <1>3 DEF ChannelPending, TypeOK, SyncerType, NetworkType
  <2>5. WalletType' /\ StaticsType' /\ FilesType' /\ (faults \in 0..MaxFaults)'
    BY <1>3 DEF ChannelPending, TypeOK, WalletType, StaticsType, FilesType,
                wallet, statics, database, ldk, files, network, syncer
  <2> QED BY <2>1, <2>2, <2>3, <2>4, <2>5 DEF TypeOK
<1>4. CASE CloseChannel(c)
  <2>1. LdkType'
    BY <1>4 DEF CloseChannel, Fail, Fault, TypeOK, LdkType, WalletType,
                StaticsType
  <2>2. (faults \in 0..MaxFaults)'
    BY <1>4 DEF CloseChannel, Fail, Fault, TypeOK
  <2>3. WalletType' /\ StaticsType' /\ DatabaseType' /\ FilesType' /\
        NetworkType' /\ SyncerType'
    BY <1>4 DEF CloseChannel, Fail, Fault, TypeOK, WalletType, StaticsType,
                DatabaseType, FilesType, NetworkType, SyncerType, wallet,
                statics, database, ldk, files, network, syncer
  <2> QED BY <2>1, <2>2, <2>3 DEF TypeOK
<1> QED BY <1>1, <1>2, <1>3, <1>4 DEF Channel

LEMMA ClientType ==
    ASSUME TypeOK, \/ \E p \in Peer : Handshake(p) \/ Disconnect(p)
                   \/ PersistManager \/ (\E w \in writers : OldPersist(w))
                   \/ Die \/ CloseLDK \/ StartLDK
    PROVE  TypeOK'
<1>1. CASE \E p \in Peer : Handshake(p)
  <2>1. LdkType'
    BY <1>1 DEF Handshake, TypeOK, LdkType, WalletType, StaticsType
  <2>2. WalletType' /\ StaticsType' /\ DatabaseType' /\ FilesType' /\
        NetworkType' /\ SyncerType' /\ (faults \in 0..MaxFaults)'
    BY <1>1 DEF Handshake, TypeOK, WalletType, StaticsType, DatabaseType,
                FilesType, NetworkType, SyncerType, wallet, statics, database,
                ldk, files, network, syncer
  <2> QED BY <2>1, <2>2 DEF TypeOK
<1>2. CASE \E p \in Peer : Disconnect(p)
  <2>1. LdkType'
    BY <1>2 DEF Disconnect, Fail, Fault, TypeOK, LdkType, WalletType,
                StaticsType
  <2>2. (faults \in 0..MaxFaults)'
    BY <1>2 DEF Disconnect, Fail, Fault, TypeOK
  <2>3. WalletType' /\ StaticsType' /\ DatabaseType' /\ FilesType' /\
        NetworkType' /\ SyncerType'
    BY <1>2 DEF Disconnect, Fail, Fault, TypeOK, WalletType, StaticsType,
                DatabaseType, FilesType, NetworkType, SyncerType, wallet,
                statics, database, ldk, files, network, syncer
  <2> QED BY <2>1, <2>2, <2>3 DEF TypeOK
<1>3. CASE PersistManager
  <2>1. FilesType'
    BY <1>3 DEF PersistManager, InManager, TypeOK, FilesType, LdkType
  <2>2. WalletType' /\ StaticsType' /\ DatabaseType' /\ LdkType' /\ NetworkType'
        /\ SyncerType' /\ (faults \in 0..MaxFaults)'
    BY <1>3 DEF PersistManager, InManager, TypeOK, WalletType, StaticsType,
                DatabaseType, LdkType, NetworkType, SyncerType, wallet, statics,
                database, ldk, files, network, syncer
  <2> QED BY <2>1, <2>2 DEF TypeOK
<1>4. CASE \E w \in writers : OldPersist(w)
  <2>1. FilesType'
    BY <1>4 DEF OldPersist, TypeOK, FilesType, LdkType
  <2>2. WalletType' /\ StaticsType' /\ DatabaseType' /\ LdkType' /\ NetworkType'
        /\ SyncerType' /\ (faults \in 0..MaxFaults)'
    BY <1>4 DEF OldPersist, TypeOK, WalletType, StaticsType, DatabaseType,
                LdkType, NetworkType, SyncerType, wallet, statics, database,
                ldk, files, network, syncer
  <2> QED BY <2>1, <2>2 DEF TypeOK
<1>5. CASE Die
  <2>1. WalletType'
    BY <1>5 DEF Die, ForgetClient, NewSync, network, Fail, Fault, TypeOK,
                WalletType
  <2>2. StaticsType'
    BY <1>5 DEF Die, ForgetClient, NewSync, network, Fail, Fault, TypeOK,
                StaticsType, WalletType
  <2>3. LdkType'
    BY <1>5 DEF Die, ForgetClient, NewSync, network, Fail, Fault, TypeOK,
                LdkType, WalletType, StaticsType
  <2>4. FilesType'
    BY <1>5 DEF Die, ForgetClient, NewSync, network, Fail, Fault, TypeOK,
                FilesType, LdkType
  <2>5. SyncerType'
    BY <1>5, ForgetType DEF Die
  <2>6. (faults \in 0..MaxFaults)'
    BY <1>5 DEF Die, ForgetClient, NewSync, network, Fail, Fault, TypeOK
  <2>7. DatabaseType' /\ NetworkType'
    BY <1>5 DEF Die, ForgetClient, NewSync, network, Fail, Fault, TypeOK,
                DatabaseType, NetworkType, wallet, statics, database, ldk,
                files, syncer
  <2> QED BY <2>1, <2>2, <2>3, <2>4, <2>5, <2>6, <2>7 DEF TypeOK
<1>6. CASE CloseLDK
  <2>1. WalletType'
    BY <1>6 DEF CloseLDK, ForgetClient, NewSync, InManager, network, Fault,
                TypeOK, WalletType
  <2>2. LdkType'
    BY <1>6 DEF CloseLDK, ForgetClient, NewSync, InManager, network, Fault,
                TypeOK, LdkType, WalletType, StaticsType
  <2>3. FilesType'
    BY <1>6 DEF CloseLDK, ForgetClient, NewSync, InManager, network, Fault,
                TypeOK, FilesType, LdkType
  <2>4. SyncerType'
    BY <1>6, ForgetType DEF CloseLDK
  <2>5. (faults \in 0..MaxFaults)'
    BY <1>6 DEF CloseLDK, ForgetClient, NewSync, InManager, network, Fault,
                TypeOK
  <2>6. StaticsType' /\ DatabaseType' /\ NetworkType'
    BY <1>6 DEF CloseLDK, ForgetClient, NewSync, InManager, network, Fault,
                TypeOK, StaticsType, DatabaseType, NetworkType, wallet, statics,
                database, ldk, files, syncer
  <2> QED BY <2>1, <2>2, <2>3, <2>4, <2>5, <2>6 DEF TypeOK
<1>7. CASE StartLDK
  <2>1. LdkType'
    BY <1>7 DEF StartLDK, ldk, TypeOK, LdkType, WalletType, StaticsType
  <2>2. WalletType' /\ StaticsType' /\ DatabaseType' /\ FilesType' /\
        NetworkType' /\ SyncerType' /\ (faults \in 0..MaxFaults)'
    BY <1>7 DEF StartLDK, ldk, TypeOK, WalletType, StaticsType, DatabaseType,
                FilesType, NetworkType, SyncerType, wallet, statics, database,
                files, network, syncer
  <2> QED BY <2>1, <2>2 DEF TypeOK
<1> QED BY <1>1, <1>2, <1>3, <1>4, <1>5, <1>6, <1>7

LEMMA SyncType ==
    ASSUME TypeOK, Sync \/ SyncFails
    PROVE  TypeOK'
<1>1. CASE SyncStart
  <2>1. SyncerType'
    BY <1>1 DEF SyncStart, SyncFrame, network, Fail, Fault, TypeOK, SyncerType,
                NetworkType
  <2>2. (faults \in 0..MaxFaults)'
    BY <1>1 DEF SyncStart, SyncFrame, network, Fail, Fault, TypeOK
  <2>3. WalletType' /\ StaticsType' /\ DatabaseType' /\ LdkType' /\ FilesType'
        /\ NetworkType'
    BY <1>1 DEF SyncStart, SyncFrame, network, Fail, Fault, TypeOK, WalletType,
                StaticsType, DatabaseType, LdkType, FilesType, NetworkType,
                wallet, statics, database, ldk, files, syncer
  <2> QED BY <2>1, <2>2, <2>3 DEF TypeOK
<1>2. CASE SyncHead
  <2>1. SyncerType'
    BY <1>2 DEF SyncHead, NewSync, SyncFrame, network, ldk, TypeOK, SyncerType,
                NetworkType
  <2>2. LdkType'
    BY <1>2 DEF SyncHead, NewSync, SyncFrame, network, ldk, TypeOK, LdkType,
                WalletType, StaticsType
  <2>3. WalletType' /\ StaticsType' /\ DatabaseType' /\ FilesType' /\
        NetworkType' /\ (faults \in 0..MaxFaults)'
    BY <1>2 DEF SyncHead, NewSync, SyncFrame, network, ldk, TypeOK, WalletType,
                StaticsType, DatabaseType, FilesType, NetworkType, wallet,
                statics, database, files, syncer
  <2> QED BY <2>1, <2>2, <2>3 DEF TypeOK
<1>3. CASE SyncUnconfirmed
  <2>1. SyncerType'
    <3> USE <1>3 DEF SyncUnconfirmed, SyncFrame, network, TypeOK, SyncerType, NetworkType
    <3>1. sync' \in [pc : {"idle", "head", "unconfirmed", "best", "confirmed"},
                    tip : 0..blocks']
      BY DEF NewSync
    <3>2. watched' \subseteq Call /\ conf' \in [Call -> 0..blocks']
      <4>1. Stale \subseteq Call
        BY DEF Stale
      <4>2. \/ conf' = conf /\ watched' = watched
            \/ /\ conf' = [c \in Call |-> IF c \in Stale THEN 0 ELSE conf[c]]
               /\ watched' = watched \union Stale
        OBVIOUS
      <4>3. watched \subseteq Call /\ conf \in [Call -> 0..blocks] /\ blocks' = blocks
            /\ blocks \in Nat
        OBVIOUS
      <4> HIDE <1>3 DEF SyncUnconfirmed, SyncFrame, network, TypeOK, SyncerType, NetworkType
      <4> QED BY <4>1, <4>2, <4>3
    <3> QED BY <3>1, <3>2
  <2>2. LdkType'
    BY <1>3 DEF SyncUnconfirmed, Stale, NewSync, SyncFrame, network, ldk, Fail,
                Fault, TypeOK, LdkType, WalletType, StaticsType
  <2>3. (faults \in 0..MaxFaults)'
    BY <1>3 DEF SyncUnconfirmed, Stale, NewSync, SyncFrame, network, ldk, Fail,
                Fault, TypeOK
  <2>4. WalletType' /\ StaticsType' /\ DatabaseType' /\ FilesType' /\
        NetworkType'
    BY <1>3 DEF SyncUnconfirmed, Stale, NewSync, SyncFrame, network, ldk, Fail,
                Fault, TypeOK, WalletType, StaticsType, DatabaseType, FilesType,
                NetworkType, wallet, statics, database, files, syncer
  <2> QED BY <2>1, <2>2, <2>3, <2>4 DEF TypeOK
<1>4. CASE SyncBestBlockUpdated
  <2>1. SyncerType'
    BY <1>4 DEF SyncBestBlockUpdated, SyncFrame, network, TypeOK, SyncerType,
                NetworkType
  <2>2. WalletType' /\ StaticsType' /\ DatabaseType' /\ LdkType' /\ FilesType'
        /\ NetworkType' /\ (faults \in 0..MaxFaults)'
    BY <1>4 DEF SyncBestBlockUpdated, SyncFrame, network, TypeOK, WalletType,
                StaticsType, DatabaseType, LdkType, FilesType, NetworkType,
                wallet, statics, database, ldk, files, syncer
  <2> QED BY <2>1, <2>2 DEF TypeOK
<1>5. CASE SyncConfirmed
  <2>1. SyncerType'
    <3> USE <1>5 DEF SyncConfirmed, SyncFrame, network, TypeOK, SyncerType, NetworkType
    <3>1. sync' \in [pc : {"idle", "head", "unconfirmed", "best", "confirmed"},
                    tip : 0..blocks']
      OBVIOUS
    <3>2. telling' \subseteq Call \X (1..blocks')
      <4>1. \A c \in Found : c \in Call /\ mined[c] \in 1..blocks
        BY DEF Found
      <4>2. {<<c, mined[c]>> : c \in Found} \subseteq Call \X (1..blocks)
        BY <4>1
      <4> QED BY <4>2
    <3>3. last' \in 0..blocks' /\ pending' \in BOOLEAN
      OBVIOUS
    <3> QED BY <3>1, <3>2, <3>3
  <2>2. (faults \in 0..MaxFaults)'
    BY <1>5 DEF SyncConfirmed, Found, SyncFrame, network, Fail, Fault, TypeOK
  <2>3. WalletType' /\ StaticsType' /\ DatabaseType' /\ LdkType' /\ FilesType'
        /\ NetworkType'
    BY <1>5 DEF SyncConfirmed, Found, SyncFrame, network, Fail, Fault, TypeOK,
                WalletType, StaticsType, DatabaseType, LdkType, FilesType,
                NetworkType, wallet, statics, database, ldk, files, syncer
  <2> QED BY <2>1, <2>2, <2>3 DEF TypeOK
<1>6. CASE TransactionsConfirmed
  <2>1. SyncerType'
    BY <1>6 DEF TransactionsConfirmed, SyncFrame, network, TypeOK, SyncerType,
                NetworkType
  <2>2. WalletType' /\ StaticsType' /\ DatabaseType' /\ LdkType' /\ FilesType'
        /\ NetworkType' /\ (faults \in 0..MaxFaults)'
    BY <1>6 DEF TransactionsConfirmed, SyncFrame, network, TypeOK, WalletType,
                StaticsType, DatabaseType, LdkType, FilesType, NetworkType,
                wallet, statics, database, ldk, files, syncer
  <2> QED BY <2>1, <2>2 DEF TypeOK
<1>7. CASE SyncFails
  <2>1. CASE Die
    BY <2>1, ClientType
  <2>2. CASE /\ client = "starting" /\ Fail /\ ForgetClient
             /\ UNCHANGED <<pc, late, old, statics, files>>
    <3>1. LdkType' /\ SyncerType'
      BY <2>2, ForgetType
    <3>2. WalletType' /\ StaticsType' /\ DatabaseType' /\ FilesType' /\ NetworkType'
      BY <2>2 DEF ForgetClient, TypeOK, WalletType, StaticsType, DatabaseType,
                  FilesType, NetworkType, statics, database, files, network
    <3>3. (faults \in 0..MaxFaults)'
      BY <2>2 DEF Fail, Fault, TypeOK
    <3> QED BY <3>1, <3>2, <3>3 DEF TypeOK
  <2> QED BY <1>7, <2>1, <2>2 DEF SyncFails
<1> QED BY <1>1, <1>2, <1>3, <1>4, <1>5, <1>6, <1>7 DEF Sync

LEMMA ChainType ==
    ASSUME TypeOK, Mine \/ Reorg
    PROVE  TypeOK'
<1>1. CASE Mine
  <2>1. NetworkType'
    BY <1>1 DEF Mine, Mempool, syncer, TypeOK, NetworkType
  <2>2. SyncerType'
    BY <1>1 DEF Mine, Mempool, syncer, TypeOK, SyncerType, NetworkType
  <2>3. WalletType' /\ StaticsType' /\ DatabaseType' /\ LdkType' /\ FilesType'
        /\ (faults \in 0..MaxFaults)'
    BY <1>1 DEF Mine, Mempool, syncer, TypeOK, WalletType, StaticsType,
                DatabaseType, LdkType, FilesType, wallet, statics, database,
                ldk, files, network
  <2> QED BY <2>1, <2>2, <2>3 DEF TypeOK
<1>2. CASE Reorg
  <2>1. NetworkType'
    <3> USE <1>2 DEF Reorg, TypeOK, NetworkType
    <3>1. blocks' \in 1..MaxBlocks /\ chain' \subseteq 1..blocks' /\ blocks' \in chain'
      OBVIOUS
    <3>2. mined' \in [Call -> chain' \union {0}]
      <4> DEFINE kept == [c \in Call |-> IF mined[c] = blocks THEN 0 ELSE mined[c]]
      <4>1. kept \in [Call -> (chain \ {blocks}) \union {0}]
        OBVIOUS
      <4>2. kept \in [Call -> chain' \union {0}]
        BY <4>1
      <4>3. \/ mined' = kept
            \/ \E c \in Call : mined' = [kept EXCEPT ![c] = blocks']
        OBVIOUS
      <4> HIDE DEF kept
      <4> QED BY <3>1, <4>2, <4>3
    <3> QED BY <3>1, <3>2
  <2>2. SyncerType'
    BY <1>2 DEF Reorg, Fault, syncer, TypeOK, SyncerType, NetworkType
  <2>3. (faults \in 0..MaxFaults)'
    BY <1>2 DEF Reorg, Fault, syncer, TypeOK
  <2>4. WalletType' /\ StaticsType' /\ DatabaseType' /\ LdkType' /\ FilesType'
    BY <1>2 DEF Reorg, Fault, syncer, TypeOK, WalletType, StaticsType,
                DatabaseType, LdkType, FilesType, wallet, statics, database,
                ldk, files, network
  <2> QED BY <2>1, <2>2, <2>3, <2>4 DEF TypeOK
<1> QED BY <1>1, <1>2

----------------------------------------------------------------------------
(* the rows of peers *)

LEMMA SaveNewPeerInv ==
    ASSUME TypeOK, PeersInv, NEW c \in Call, SaveNewPeerToDB(c)
    PROVE  TypeOK' /\ PeersInv'
<1> DEFINE p == PeerOfCall(c)
<1> USE DEF SaveNewPeerToDB
<1>1. p \in Peer /\ pc[c] = "newPeer" /\ pid[c] = 0
  BY PeerType DEF TypeOK, WalletType, PeersInv, Before
<1>2. /\ peers' = [peers EXCEPT ![p] = @ + 1]
      /\ pid' = [pid EXCEPT ![c] = peers'[p]]
      /\ pc' = [pc EXCEPT ![c] = "channel"]
  BY DEF To
<1>3. peers[p] \in Nat /\ peers'[p] = peers[p] + 1 /\ pid'[c] = peers[p] + 1
  BY <1>1, <1>2, CallFinite DEF TypeOK, DatabaseType, WalletType
<1>4. Numbered' = Numbered \union {c} /\ c \notin Numbered
  BY <1>1, <1>2, <1>3 DEF Numbered, TypeOK, WalletType
<1>5. /\ Cardinality(Numbered') = Cardinality(Numbered) + 1
      /\ Cardinality(Numbered) \in Nat
      /\ Cardinality(Numbered') =< Cardinality(Call)
  <2>1. Numbered \in SUBSET Call /\ Numbered' \in SUBSET Call
    BY DEF Numbered
  <2> QED BY <1>4, <2>1, NumberedFinite, FS_AddElement
<1>6. \A q \in Peer : peers'[q] \in Nat /\ peers'[q] =< Cardinality(Numbered')
  BY <1>1, <1>2, <1>5, CallFinite DEF PeersInv, TypeOK, DatabaseType
<1>7. PeersInv'
  BY <1>1, <1>2, <1>6 DEF PeersInv, Before, TypeOK, WalletType
<1>8. WalletType'
  <2>1. pid' \in [Call -> 0..Cardinality(Call)]
    BY <1>1, <1>2, <1>3, <1>5, <1>6, CallFinite DEF TypeOK, WalletType
  <2> QED BY <1>1, <1>2, <2>1 DEF TypeOK, WalletType
<1>9. DatabaseType'
  <2>1. peers' \in [Peer -> 0..Cardinality(Call)]
    BY <1>1, <1>2, <1>5, <1>6, CallFinite DEF TypeOK, DatabaseType
  <2> QED BY <2>1 DEF TypeOK, DatabaseType
<1>10. /\ StaticsType' /\ LdkType' /\ FilesType' /\ NetworkType' /\ SyncerType'
       /\ (faults \in 0..MaxFaults)'
  BY DEF TypeOK, StaticsType, LdkType, FilesType, NetworkType, SyncerType,
         statics, ldk, files, network, syncer
<1> HIDE DEF p, SaveNewPeerToDB
<1> QED BY <1>7, <1>8, <1>9, <1>10 DEF TypeOK

(* every step keeps the types *)
LEMMA NextType ==
    ASSUME TypeOK, PeersInv, [Next]_vars
    PROVE  TypeOK'
<1>1. ASSUME NEW c \in Call, Open(c) PROVE TypeOK'
  BY <1>1, OpenType, SaveNewPeerInv DEF Open
<1>2. ASSUME NEW c \in Call, Channel(c) PROVE TypeOK'
  BY <1>2, ChannelType
<1>3. CASE \/ \E p \in Peer : Handshake(p) \/ Disconnect(p)
           \/ late # {} /\ Die
           \/ PersistManager \/ (\E w \in writers : OldPersist(w))
           \/ CloseLDK \/ StartLDK
  BY <1>3, ClientType
<1>4. CASE Sync \/ SyncFails
  BY <1>4, SyncType
<1>5. CASE Mine \/ Reorg
  BY <1>5, ChainType
<1>6. CASE UNCHANGED vars
  BY <1>6 DEF vars, wallet, statics, database, ldk, files, network, syncer, TypeOK,
              WalletType, StaticsType, DatabaseType, LdkType, FilesType,
              NetworkType, SyncerType
<1> QED BY <1>1, <1>2, <1>3, <1>4, <1>5, <1>6 DEF Next

(* what every step but the openings leaves of the calls, the database and the channels *)
LEMMA CallsKept ==
    ASSUME TypeOK,
           \/ \E c \in Call : Channel(c)
           \/ \E p \in Peer : Handshake(p) \/ Disconnect(p)
           \/ late # {} /\ Die
           \/ PersistManager \/ (\E w \in writers : OldPersist(w))
           \/ CloseLDK \/ StartLDK
           \/ Sync \/ SyncFails \/ Mine \/ Reorg \/ UNCHANGED vars
    PROVE  /\ UNCHANGED <<of, pid, mixed, peers, rows>>
           /\ \A c \in Call : pc'[c] = pc[c] \/ (pc[c] # "idle" /\ pc'[c] = "end")
           /\ late' \in {late, {}}
           /\ UNCHANGED <<key, input>>
                \/ (late' = {} /\ key' = None
                    /\ \A c \in Call : pc'[c] \in {"idle", "end"} /\ chan'[c] = "none")
           /\ \A c \in Call :
                /\ chan'[c] # "none" => chan[c] # "none"
                /\ chan'[c] \in Negotiated => chan[c] \in Negotiated
                /\ chan'[c] \in Funded =>
                     \/ chan[c] \in Funded /\ tx'[c] = tx[c]
                     \/ chan[c] = "accepted" /\ tx'[c] = IF key = input THEN input ELSE None
<1> USE DEF TypeOK, WalletType, LdkType, wallet, statics, database, ldk, files,
            network, syncer, Negotiated, Funded
<1>1. CASE \E c \in Call : Channel(c)
  BY <1>1 DEF Channel, Accept, FundingGenerationReady, ChannelPending, CloseChannel
<1>2. CASE \E p \in Peer : Handshake(p) \/ Disconnect(p)
  BY <1>2 DEF Handshake, Disconnect
<1>3. CASE Die
  BY <1>3 DEF Die, ForgetClient
<1>4. CASE PersistManager \/ (\E w \in writers : OldPersist(w)) \/ StartLDK
  BY <1>4 DEF PersistManager, OldPersist, StartLDK
<1>5. CASE CloseLDK
  BY <1>5 DEF CloseLDK, ForgetClient
<1>6. CASE Sync
  BY <1>6 DEF Sync, SyncStart, SyncHead, SyncUnconfirmed, SyncBestBlockUpdated,
              SyncConfirmed, TransactionsConfirmed, SyncFrame
<1>7. CASE SyncFails
  BY <1>3, <1>7 DEF SyncFails, ForgetClient
<1>8. CASE Mine \/ Reorg \/ UNCHANGED vars
  BY <1>8 DEF Mine, Reorg, vars
<1> QED BY <1>1, <1>2, <1>3, <1>4, <1>5, <1>6, <1>7, <1>8

(* a step that is no opening keeps PeersInv, RowsInv, MixedInv and OwnCoin *)
LEMMA KeptInv ==
    ASSUME Inv, TypeOK',
           \/ \E c \in Call : Channel(c)
           \/ \E p \in Peer : Handshake(p) \/ Disconnect(p)
           \/ late # {} /\ Die
           \/ PersistManager \/ (\E w \in writers : OldPersist(w))
           \/ CloseLDK \/ StartLDK
           \/ Sync \/ SyncFails \/ Mine \/ Reorg \/ UNCHANGED vars
    PROVE  PeersInv' /\ RowsInv' /\ MixedInv' /\ OwnCoin'
<1>1. /\ UNCHANGED <<of, pid, mixed, peers, rows>>
      /\ \A c \in Call : pc'[c] = pc[c] \/ (pc[c] # "idle" /\ pc'[c] = "end")
      /\ late' \in {late, {}}
  BY CallsKept DEF Inv
<1>2. \/ UNCHANGED <<key, input>>
      \/ \A c \in Call : pc'[c] \in {"idle", "end"} /\ chan'[c] = "none"
  BY CallsKept DEF Inv
<1>3. \A c \in Call :
        /\ chan'[c] # "none" => chan[c] # "none"
        /\ chan'[c] \in Negotiated => chan[c] \in Negotiated
  BY CallsKept DEF Inv
<1>4. \A c \in Call : chan'[c] \in Funded =>
        \/ chan[c] \in Funded /\ tx'[c] = tx[c]
        \/ chan[c] = "accepted" /\ tx'[c] = IF key = input THEN input ELSE None
  BY CallsKept DEF Inv
<1>5. PeersInv'
  <2>1. Numbered' = Numbered
    BY <1>1 DEF Numbered
  <2> QED BY <1>1, <2>1 DEF Inv, PeersInv, Before
<1>6. RowsInv'
  <2>1. \A c, d \in Call : SameRow(c, d)' <=> SameRow(c, d)
    BY <1>1 DEF SameRow, PeerOfCall
  <2>2. rows \subseteq Call /\ late \subseteq Call
    BY DEF Inv, TypeOK, DatabaseType, WalletType
  <2> QED BY <1>1, <1>3, <2>1, <2>2 DEF Inv, RowsInv
<1>7. MixedInv'
  <2>1. \A c \in Call : Opening(c)' => Opening(c)
    BY <1>1, <1>3 DEF Opening, Negotiated
  <2>2. \A c, d \in Call : Opening(c)' /\ Opening(d)' /\ of'[c] # of'[d] => c \in mixed'
    BY <1>1, <2>1 DEF Inv, MixedInv
  <2>3. ASSUME NEW c \in Call, c \notin mixed'
        PROVE  /\ pc'[c] \in Inside \union {"connect", "dialled"} \/ chan'[c] \in Negotiated
                    => input' = of'[c]
               /\ pc'[c] \in Inside \/ chan'[c] \in Negotiated => key' = of'[c]
    BY <1>1, <1>2, <1>3, <2>3 DEF Inv, MixedInv, Inside, Negotiated
  <2> QED BY <2>2, <2>3 DEF MixedInv
<1>8. OwnCoin'
  <2> SUFFICES ASSUME NEW c \in Call, chan'[c] \in Funded, c \notin mixed
               PROVE  tx'[c] = of[c]
    BY <1>1 DEF OwnCoin, Funded
  <2>1. CASE chan[c] \in Funded /\ tx'[c] = tx[c]
    BY <2>1 DEF Inv, OwnCoin, Funded
  <2>2. CASE chan[c] = "accepted" /\ tx'[c] = IF key = input THEN input ELSE None
    BY <2>2 DEF Inv, MixedInv, Negotiated
  <2> QED BY <1>4, <2>1, <2>2
<1> QED BY <1>5, <1>6, <1>7, <1>8

----------------------------------------------------------------------------
(* the steps of an opening *)

LEMMA OpenPeersInv ==
    ASSUME Inv, NEW c \in Call, Open(c), TypeOK'
    PROVE  PeersInv'
<1> USE DEF Inv, PeersInv, TypeOK, WalletType, To, Before, database
<1>1. CASE SaveNewPeerToDB(c)
  BY <1>1, SaveNewPeerInv
<1>2. CASE FindPeer(c)
  <2>1. Numbered \in SUBSET Numbered' /\ Numbered' \in SUBSET Call
    BY <1>2 DEF FindPeer, Numbered
  <2>2. /\ Cardinality(Numbered) \in Nat /\ Cardinality(Numbered') \in Nat
        /\ Cardinality(Numbered) =< Cardinality(Numbered')
    BY <2>1, NumberedFinite, FS_Subset
  <2>3. \A p \in Peer : peers'[p] = peers[p] /\ peers[p] \in Nat
    BY <1>2, CallFinite DEF FindPeer, DatabaseType
  <2>4. \A d \in Call : pc'[d] \in Before => pid'[d] = 0
    BY <1>2 DEF FindPeer
  <2>5. ASSUME NEW p \in Peer PROVE peers'[p] =< Cardinality(Numbered')
    <3>1. peers[p] =< Cardinality(Numbered)
      OBVIOUS
    <3> QED BY <2>2, <2>3, <3>1
  <2> QED BY <2>4, <2>5
<1>3. CASE pid' = pid /\ peers' = peers /\ \A d \in Call : pc'[d] \in Before => pc[d] \in Before
  <2>1. Numbered' = Numbered
    BY <1>3 DEF Numbered
  <2> QED BY <1>3, <2>1
<1>4. \A a \in Addr : StatusChange(c, a) =>
        pid' = pid /\ peers' = peers /\ \A d \in Call : pc'[d] \in Before => pc[d] \in Before
  BY DEF StatusChange
<1>5. SetTxData(c) \/ ConnectPeer(c) \/ CreateChannel(c) \/ LateTxData(c) =>
        pid' = pid /\ peers' = peers /\ \A d \in Call : pc'[d] \in Before => pc[d] \in Before
  BY DEF SetTxData, ConnectPeer, CreateChannel, LateTxData
<1>6. CheckIfChannelExists(c) \/ FindChannel(c) \/ SaveNewChannelToDB(c) \/ OpenChannel(c) =>
        pid' = pid /\ peers' = peers /\ \A d \in Call : pc'[d] \in Before => pc[d] \in Before
  BY DEF CheckIfChannelExists, FindChannel, SaveNewChannelToDB, OpenChannel
<1> QED BY <1>1, <1>2, <1>3, <1>4, <1>5, <1>6 DEF Open

(* of a call under way only a peer's row is chosen, before its channel's *)
LEMMA OpenRowsInv ==
    ASSUME Inv, NEW c \in Call, Open(c), TypeOK'
    PROVE  RowsInv'
<1>0. /\ rows \subseteq Call /\ late \subseteq Call
      /\ \A d, e \in rows : d # e => /\ ~SameRow(d, e)
                                  /\ ~(PeerOf[of[d]] = PeerOf[of[e]] /\ pid[d] = pid[e])
  BY DEF Inv, RowsInv, TypeOK, WalletType, DatabaseType, SameRow, PeerOfCall
<1>1. \A d \in Call : /\ d \in rows => pc[d] \in {"open", "end"}
                      /\ pc[d] = "open" \/ chan[d] # "none" => d \in rows
                      /\ d \in late => pc[d] # "idle"
  BY DEF Inv, RowsInv
(* a call without a row of channels goes on *)
<1>2. ASSUME c \notin rows, rows' = rows, late' \subseteq late \union {c},
             pc'[c] \notin {"idle", "open"}, chan' = chan,
             \A d \in Call \ {c} : pc'[d] = pc[d] /\ of'[d] = of[d] /\ pid'[d] = pid[d]
      PROVE  RowsInv'
  <2>1. \A d, e \in rows : SameRow(d, e)' <=> SameRow(d, e)
    BY <1>0, <1>2 DEF SameRow, PeerOfCall
  <2>2. \A d, e \in rows : d # e => ~SameRow(d, e)'
    BY <1>0, <2>1
  <2>3. \A d \in Call : /\ d \in rows => pc'[d] \in {"open", "end"}
                        /\ pc'[d] = "open" \/ chan[d] # "none" => d \in rows
                        /\ d \in late' => pc'[d] # "idle"
    BY <1>1, <1>2
  <2> QED BY <1>0, <1>2, <2>2, <2>3 DEF RowsInv
(* the rows of the others and its own are left, or another one of its own comes *)
<1>3. ASSUME UNCHANGED <<of, pid, late>>, pc[c] # "idle", pc'[c] # "idle",
             \A d \in Call \ {c} : pc'[d] = pc[d] /\ chan'[d] = chan[d],
             \/ rows' = rows
             \/ rows' = rows \union {c} /\ ~Taken(c),
             c \in rows' => pc'[c] \in {"open", "end"},
             pc'[c] = "open" \/ chan'[c] # "none" => c \in rows'
      PROVE  RowsInv'
  <2>1. \A d, e \in Call : SameRow(d, e)' <=> SameRow(d, e)
    BY <1>3 DEF SameRow, PeerOfCall
  <2>2. \A d, e \in rows' : d # e => ~SameRow(d, e)
    BY <1>0, <1>3 DEF Taken, SameRow
  <2>3. \A d \in Call : /\ d \in rows' => pc'[d] \in {"open", "end"}
                        /\ pc'[d] = "open" \/ chan'[d] # "none" => d \in rows'
                        /\ d \in late' => pc'[d] # "idle"
    BY <1>1, <1>3
  <2>4. rows' \subseteq Call /\ late' \subseteq Call
    BY <1>0, <1>3
  <2> QED BY <2>1, <2>2, <2>3, <2>4 DEF RowsInv
<1> USE DEF Inv, TypeOK, WalletType, DatabaseType, LdkType, To, database, ldk
<1>4. CASE \E a \in Addr : StatusChange(c, a)
  <2>1. pc[c] = "idle" /\ pc' = [pc EXCEPT ![c] = "setTx"] /\ late' = late
        /\ UNCHANGED <<pid, rows, chan>> /\ \A d \in Call \ {c} : of'[d] = of[d]
    BY <1>4 DEF StatusChange
  <2>2. DOMAIN pc = Call
    OBVIOUS
  <2> HIDE DEF Inv, TypeOK, WalletType, DatabaseType, LdkType
  <2>3. c \notin rows
    BY <1>1, <2>1
  <2>4. pc'[c] = "setTx" /\ \A d \in Call \ {c} : pc'[d] = pc[d]
    BY <2>1, <2>2
  <2> QED BY <1>2, <2>1, <2>3, <2>4
<1>5. CASE SetTxData(c) \/ ConnectPeer(c) \/ CreateChannel(c)
  <2>1. pc[c] \in {"setTx", "connect", "dialled"}
        /\ \E x \in {"connect", "dialled", "exists", "end"} : pc' = [pc EXCEPT ![c] = x]
        /\ UNCHANGED <<of, pid, rows, chan>> /\ late' \subseteq late \union {c}
    BY <1>5 DEF SetTxData, ConnectPeer, CreateChannel
  <2> QED BY <1>1, <1>2, <2>1
<1>6. CASE LateTxData(c)
  <2>1. UNCHANGED <<of, pid, pc, rows, chan>> /\ late' \subseteq late
    BY <1>6 DEF LateTxData
  <2>2. \A d, e \in Call : SameRow(d, e)' <=> SameRow(d, e)
    BY <2>1 DEF SameRow, PeerOfCall
  <2> QED BY <2>1, <2>2 DEF RowsInv
<1>7. CASE CheckIfChannelExists(c) \/ FindPeer(c) \/ SaveNewPeerToDB(c)
  <2>1. pc[c] \in {"exists", "peer", "newPeer"}
        /\ \E x \in {"peer", "newPeer", "channel", "end"} : pc' = [pc EXCEPT ![c] = x]
        /\ UNCHANGED <<of, rows, chan, late>> /\ \A d \in Call \ {c} : pid'[d] = pid[d]
    BY <1>7 DEF CheckIfChannelExists, FindPeer, SaveNewPeerToDB
  <2> QED BY <1>1, <1>2, <2>1
<1>8. CASE FindChannel(c)
  <2>1. pc[c] = "channel"
        /\ \E x \in {"newChannel", "end"} : pc' = [pc EXCEPT ![c] = x]
        /\ UNCHANGED <<of, pid, rows, chan, late>>
    BY <1>8 DEF FindChannel
  <2> QED BY <1>1, <1>2, <2>1
<1>9. CASE SaveNewChannelToDB(c)
  <2>1. pc[c] = "newChannel" /\ c \notin rows /\ chan' = chan /\ UNCHANGED <<of, pid, late>>
    BY <1>1, <1>9 DEF SaveNewChannelToDB
  <2>2. \/ pc' = [pc EXCEPT ![c] = "end"] /\ rows' = rows
        \/ pc' = [pc EXCEPT ![c] = "open"] /\ rows' = rows \union {c} /\ ~Taken(c)
    BY <1>9 DEF SaveNewChannelToDB
  <2> QED BY <1>1, <1>3, <2>1, <2>2
<1>10. CASE OpenChannel(c)
  BY <1>1, <1>3, <1>10 DEF OpenChannel
<1> QED BY <1>4, <1>5, <1>6, <1>7, <1>8, <1>9, <1>10 DEF Open

LEMMA OpenMixedInv ==
    ASSUME Inv, NEW c \in Call, Open(c), TypeOK'
    PROVE  MixedInv' /\ OwnCoin'
<1> USE DEF Inv, TypeOK, WalletType, LdkType, To, database, ldk, statics, Negotiated
<1>1. CASE \E a \in Addr : StatusChange(c, a)
  <2> PICK a \in Addr : StatusChange(c, a)
    BY <1>1
  <2> DEFINE others == {d \in Call : of[d] # a /\ Opening(d)}
  <2>1. /\ pc' = [pc EXCEPT ![c] = "setTx"] /\ of' = [of EXCEPT ![c] = a]
        /\ mixed' = IF others = {} THEN mixed ELSE mixed \union others \union {c}
        /\ UNCHANGED <<late, key, input, chan, tx>>
    BY DEF StatusChange
  <2>2. pc[c] = "idle" /\ c \notin late /\ chan[c] = "none"
    BY DEF StatusChange, RowsInv
  <2>3. \A d \in Call : d # c => (Opening(d)' <=> Opening(d)) /\ of'[d] = of[d]
    BY <2>1 DEF Opening
  <2>4. ~Opening(c) /\ of'[c] = a
    BY <2>1, <2>2 DEF Opening
  <2>5. \A d, e \in Call : Opening(d)' /\ Opening(e)' /\ of'[d] # of'[e] => d \in mixed'
    BY <2>1, <2>3, <2>4 DEF MixedInv
  <2>6. mixed \subseteq mixed' /\ "setTx" \notin Inside \union {"connect", "dialled"}
    BY <2>1 DEF Inside
  <2>7. \A d \in Call : pc'[d] \in Inside \union {"connect", "dialled"}
                         \/ chan'[d] \in Negotiated => d # c /\ pc'[d] = pc[d]
    BY <2>1, <2>2, <2>6
  <2>8. MixedInv'
    BY <2>1, <2>3, <2>5, <2>6, <2>7 DEF MixedInv
  <2>9. OwnCoin'
    BY <2>1, <2>2, <2>3, <2>6 DEF OwnCoin
  <2> QED BY <2>8, <2>9
<1>2. ASSUME pc[c] # "idle", UNCHANGED <<of, mixed, tx>>,
             \A d \in Call : Opening(d)' => Opening(d),
             \A d \in Call : chan'[d] \in Funded => chan[d] = chan'[d],
             \/ UNCHANGED <<key, input>>
             \/ Opening(c) /\ key' \in {key, of[c]} /\ input' \in {input, of[c]},
             \A d \in Call : d # c => pc'[d] = pc[d] /\ chan'[d] = chan[d],
             c \notin mixed =>
               /\ pc'[c] \in Inside \union {"connect", "dialled"} \/ chan'[c] \in Negotiated
                    => input' = of[c]
               /\ pc'[c] \in Inside \/ chan'[c] \in Negotiated => key' = of[c]
      PROVE  MixedInv' /\ OwnCoin'
  <2>1. \A d, e \in Call : Opening(d)' /\ Opening(e)' /\ of'[d] # of'[e] => d \in mixed'
    BY <1>2 DEF MixedInv
  <2>2. ASSUME NEW d \in Call, d \notin mixed
        PROVE  /\ pc'[d] \in Inside \union {"connect", "dialled"} \/ chan'[d] \in Negotiated
                    => input' = of[d]
               /\ pc'[d] \in Inside \/ chan'[d] \in Negotiated => key' = of[d]
    <3>1. CASE d = c
      BY <1>2, <2>2, <3>1
    <3>2. CASE d # c
      <4>1. pc[d] \in Inside \union {"connect", "dialled"} \/ chan[d] \in Negotiated
              => Opening(d)
        BY DEF Opening, Inside
      <4>2. Opening(d) /\ Opening(c) => of[d] = of[c]
        BY <2>2 DEF MixedInv
      <4> QED BY <1>2, <2>2, <3>2, <4>1, <4>2 DEF MixedInv
    <3> QED BY <3>1, <3>2
  <2>3. MixedInv'
    BY <1>2, <2>1, <2>2 DEF MixedInv
  <2>4. OwnCoin'
    BY <1>2 DEF OwnCoin, Funded
  <2> QED BY <2>3, <2>4
<1> USE DEF Opening, Inside, Funded, MixedInv
<1>3. CASE SetTxData(c) \/ ConnectPeer(c)
  BY <1>2, <1>3 DEF SetTxData, ConnectPeer
<1>4. CASE CreateChannel(c) \/ LateTxData(c)
  BY <1>2, <1>4 DEF CreateChannel, LateTxData, RowsInv
<1>5. CASE CheckIfChannelExists(c) \/ FindPeer(c) \/ SaveNewPeerToDB(c)
  BY <1>2, <1>5 DEF CheckIfChannelExists, FindPeer, SaveNewPeerToDB
<1>6. CASE FindChannel(c) \/ SaveNewChannelToDB(c)
  BY <1>2, <1>6 DEF FindChannel, SaveNewChannelToDB
<1>7. CASE OpenChannel(c)
  BY <1>2, <1>7 DEF OpenChannel
<1> QED BY <1>1, <1>3, <1>4, <1>5, <1>6, <1>7 DEF Open

----------------------------------------------------------------------------
(***************************************************************************)
(* Inv holds in every state: the adapter's queries, its statics and the    *)
(* channels of LDK stay related over every interleaving of calls, drops,   *)
(* closed clients and ends of the process.                                 *)
(***************************************************************************)
THEOREM Invariance == Spec => []Inv
<1>1. Init => Inv
  BY InitInv
<1>2. Inv /\ [Next]_vars => Inv'
  <2> SUFFICES ASSUME Inv, [Next]_vars PROVE Inv'
    OBVIOUS
  <2>1. TypeOK'
    BY NextType DEF Inv
  <2>2. ASSUME NEW c \in Call, Open(c) PROVE Inv'
    BY <2>1, <2>2, OpenPeersInv, OpenRowsInv, OpenMixedInv DEF Inv
  <2>3. CASE ~\E c \in Call : Open(c)
    BY <2>1, <2>3, KeptInv DEF Inv, Next
  <2> QED BY <2>2, <2>3
<1> QED BY <1>1, <1>2, PTL DEF Spec

(* the variables keep the values the adapter's tables, files and LDK give them *)
THEOREM Typing == Spec => []TypeOK
BY Invariance, PTL DEF Inv

(***************************************************************************)
(* However many calls, peers and faults there are, two channels of LDK     *)
(* never share a row of peers: the select, the 409 and the UNIQUE peer_id  *)
(* of saveNewChannelToDB keep a second channel from being opened.          *)
(***************************************************************************)
THEOREM OneChannel == Spec => []OneChannelPerRow
<1>1. Inv => OneChannelPerRow
  BY DEF Inv, RowsInv, OneChannelPerRow, Live
<1> QED BY <1>1, Invariance, PTL

(***************************************************************************)
(* A channel whose opening overlapped no opening for another address is    *)
(* funded by its own address's coin, although every opening writes the key *)
(* and the coin to the same two statics, once without being awaited.       *)
(***************************************************************************)
THEOREM FundedByOwnCoin == Spec => []OwnCoin
BY Invariance, PTL DEF Inv
=============================================================================
