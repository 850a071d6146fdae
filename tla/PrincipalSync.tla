--------------------------- MODULE PrincipalSync ----------------------------
(***************************************************************************)
(* The state synchronisation of one principal (or of the broadcast         *)
(* principal): the server's PrincipalTX, the DanWebSocketSession of every  *)
(* client and the replica each DanWebSocketClient keeps, joined by one     *)
(* FIFO channel in each direction per connection.                          *)
(*                                                                         *)
(* Server: set, clear, bindPrincipalTX (src/api/server.cpp),               *)
(*         _startSync, _handleFrame, handleKeyRequest (src/api/session.cpp)*)
(* Client: connect, handleOpen, handleClose, handleFrame                   *)
(*         (src/api/client.cpp)                                            *)
(*                                                                         *)
(* Authorization, a second connection of the same client while the first   *)
(* is still registered, and heartbeats are the subject of ServerSessions:  *)
(* here the server has seen a connection close before it sees the next one *)
(* of that client.  BulkQueue sends each frame as it is enqueued, so a     *)
(* frame enqueued is a frame on the channel.                               *)
(***************************************************************************)
EXTENDS PrincipalTX, Replica

CONSTANTS
    Clients,
    MaxConnects,   \* bound: connections a client opens
    MaxResyncs,    \* bound: ClientResyncReq frames a client sends
    MaxAppCalls    \* bound: set and clear calls of the server's application

ASSUME SyncAssumption ==
    MaxConnects \in Nat /\ MaxResyncs \in Nat /\ MaxAppCalls \in Nat

VARIABLES
    session,       \* state_ of the client's session, "None" if there is none
    down, up,      \* frames on their way to, and from, the client
    live,          \* the client's end of the connection is open
    clientState,   \* DanWebSocketClient::state_
    replica,       \* registry_, store_ and pendingValues_
    appCalls,      \* calls of the application so far
    connects,      \* connections opened so far
    resyncs,       \* resync requests sent so far
    gap            \* history: why the session's client may lack the key set

clientVars == <<clientState, replica, connects, resyncs>>
vars == <<txVars, appCalls, session, down, up, live, clientVars, gap>>

ClientStates == {"Disconnected", "Connecting", "Identifying", "Synchronizing",
                 "Ready", "Reconnecting"}
SessionStates == {"None", "Synchronizing", "Ready"}

DownFrames ==
    KeyFrameSet \cup {ServerReset}
    \cup [frameType : {"ServerValue"}, keyId : KeyIds,
          dataType : DataTypes, payload : Values]
    \cup {ServerKeyDelete(id) : id \in KeyIds}
UpFrames ==
    {Identify, ClientReady, ClientResyncReq} \cup {ClientKeyRequest(id) : id \in KeyIds}

(* The ways in which a session can miss part of the key set:               *)
(*   staleCache     it was started from key frames of an earlier key set   *)
(*   staleReplica   its client kept ids of an earlier connection that are  *)
(*                  no longer the server's                                 *)
(*   missedChange   the key set changed while it was Synchronizing         *)
(*   lateResync     a resync was requested when it was already Ready       *)
Gaps == {"staleCache", "staleReplica", "missedChange", "lateResync"}

(* Type invariant of the principal, its sessions, the channels and the     *)
(* clients.                                                                *)
SyncTypeOK ==
    /\ PrincipalTypeOK
    /\ appCalls \in 0 .. MaxAppCalls
    /\ session \in [Clients -> SessionStates]
    /\ down \in [Clients -> Seq(DownFrames)]
    /\ up \in [Clients -> Seq(UpFrames)]
    /\ live \in [Clients -> BOOLEAN]
    /\ clientState \in [Clients -> ClientStates]
    /\ replica \in [Clients -> Replicas(KeyIds, Keys, DataTypes, Values)]
    /\ connects \in [Clients -> 0 .. MaxConnects]
    /\ resyncs \in [Clients -> 0 .. MaxResyncs]
    /\ gap \in [Clients -> SUBSET Gaps]

SyncInit ==
    /\ PrincipalInit
    /\ appCalls = 0
    /\ session = [c \in Clients |-> "None"]
    /\ down = [c \in Clients |-> << >>]
    /\ up = [c \in Clients |-> << >>]
    /\ live = [c \in Clients |-> FALSE]
    /\ clientState = [c \in Clients |-> "Disconnected"]
    /\ replica = [c \in Clients |-> EmptyReplica]
    /\ connects = [c \in Clients |-> 0]
    /\ resyncs = [c \in Clients |-> 0]
    /\ gap = [c \in Clients |-> {}]

ServerView == [k \in DOMAIN flat.entries |-> Get(flat, k)]

-----------------------------------------------------------------------------
(* Sending.  A frame sent on a connection whose other end is gone is lost. *)

SendDown(d, c, frames) == [d EXCEPT ![c] = IF live[c] THEN @ \o frames ELSE @]

(* bindPrincipalTX, _onValue: only sessions in state Ready are sent to.    *)
Broadcast(frames) ==
    [c \in Clients |-> IF session[c] = "Ready" /\ live[c]
                       THEN down[c] \o frames ELSE down[c]]

(* Mutant: the resync sends the key frames but not the reset before them.  *)
MutResyncNoReset(frames) ==
    [c \in Clients |-> IF session[c] # "None" /\ live[c]
                       THEN down[c] \o frames ELSE down[c]]

(* bindPrincipalTX, _onResync: every connected session is sent to.         *)
Resync(frames) ==
    [c \in Clients |-> IF session[c] # "None" /\ live[c]
                       THEN down[c] \o << ServerReset >> \o frames ELSE down[c]]

AppCall == appCalls < MaxAppCalls /\ appCalls' = appCalls + 1

MissedBy(changed) ==
    [c \in Clients |-> IF changed /\ session[c] = "Synchronizing"
                       THEN gap[c] \cup {"missedChange"} ELSE gap[c]]

-----------------------------------------------------------------------------
(* The application on the server.                                          *)

AppSet(k, v) ==
    /\ AppCall
    /\ Set(k, v)
    /\ down' = Broadcast(SetFrames(flat, "", k, v, nextKeyId))
    /\ gap' = MissedBy(NeedsNewId(flat, k, v))
    /\ UNCHANGED <<session, up, live, clientVars>>

AppClearKey(k) ==
    /\ AppCall
    /\ ClearOne(k)
    /\ down' = Broadcast(ClearKeyFrames(flat, k))
    /\ gap' = MissedBy(TRUE)
    /\ UNCHANGED <<session, up, live, clientVars>>

(* A resync gives every session the current (empty) key set again.         *)
AppClear ==
    /\ AppCall
    /\ \/ /\ ClearAll
          /\ down' = Resync(cachedKeyFrames')
          /\ gap' = [c \in Clients |-> IF session[c] = "None" THEN gap[c] ELSE {}]
       \/ /\ ClearWhenEmpty
          /\ UNCHANGED <<down, gap>>
    /\ UNCHANGED <<session, up, live, clientVars>>

-----------------------------------------------------------------------------
(* The client's connection.                                                *)

(* connect(): by the application, or as a reconnection attempt.            *)
Connect(c) ==
    /\ clientState[c] \in {"Disconnected", "Reconnecting"}
    /\ connects[c] < MaxConnects
    /\ clientState' = [clientState EXCEPT ![c] = "Connecting"]
    /\ connects' = [connects EXCEPT ![c] = @ + 1]
    /\ UNCHANGED <<txVars, appCalls, session, down, up, live, replica, resyncs, gap>>

(* handleOpen(): registry_, store_ and pendingValues_ are left as they are.*)
HandleOpen(c) ==
    /\ clientState[c] = "Connecting"
    /\ session[c] = "None" /\ up[c] = << >>
    /\ clientState' = [clientState EXCEPT ![c] = "Identifying"]
    /\ live' = [live EXCEPT ![c] = TRUE]
    /\ up' = [up EXCEPT ![c] = << Identify >>]
    /\ UNCHANGED <<txVars, appCalls, session, down, replica, connects, resyncs, gap>>

(* handleClose(): the connection is lost with what is on its way down.     *)
HandleClose(c) ==
    /\ clientState[c] \in {"Connecting", "Identifying", "Synchronizing", "Ready"}
    /\ clientState' = [clientState EXCEPT ![c] = "Reconnecting"]
    /\ live' = [live EXCEPT ![c] = FALSE]
    /\ down' = [down EXCEPT ![c] = << >>]
    /\ UNCHANGED <<txVars, appCalls, session, up, replica, connects, resyncs, gap>>

(* handleSessionDisconnect(): the server sees the close.                   *)
SessionDisconnect(c) ==
    /\ ~live[c]
    /\ session[c] # "None" \/ up[c] # << >>
    /\ session' = [session EXCEPT ![c] = "None"]
    /\ up' = [up EXCEPT ![c] = << >>]
    /\ UNCHANGED <<txVars, appCalls, down, live, clientVars, gap>>

-----------------------------------------------------------------------------
(* The client's handleFrame.  Receives(c, type) is the frame taken off the *)
(* channel.                                                                *)

Receives(c, type) ==
    /\ down[c] # << >>
    /\ Head(down[c]).frameType = type
    /\ down' = [down EXCEPT ![c] = Tail(@)]
    /\ UNCHANGED <<txVars, appCalls, session, live, connects, resyncs>>

Started(s) == IF s = "Identifying" THEN "Synchronizing" ELSE s

OnKeyRegistration(c) ==
    /\ Receives(c, "ServerKeyRegistration")
    /\ clientState' = [clientState EXCEPT ![c] = Started(@)]
    /\ replica' = [replica EXCEPT ![c] = ReplicaRegister(@, Head(down[c]))]
    /\ UNCHANGED <<up, gap>>

(* Mutant: ClientReady is only sent when there is nothing to wait for.     *)
MutOnSync(c) ==
    /\ Receives(c, "ServerSync")
    /\ IF RegistrySize(replica[c].registry) = 0
       THEN /\ up' = [up EXCEPT ![c] = Append(@, ClientReady)]
            /\ clientState' = [clientState EXCEPT ![c] = "Ready"]
       ELSE /\ clientState' = [clientState EXCEPT ![c] = Started(@)]
            /\ UNCHANGED up
    /\ UNCHANGED <<replica, gap>>

OnSync(c) ==
    LET s == Started(clientState[c]) IN
    /\ Receives(c, "ServerSync")
    /\ up' = [up EXCEPT ![c] = IF s # "Ready" THEN Append(@, ClientReady) ELSE @]
    /\ clientState' = [clientState EXCEPT ![c] =
                         IF RegistrySize(replica[c].registry) = 0 THEN "Ready" ELSE s]
    /\ UNCHANGED <<replica, gap>>

OnValue(c) ==
    LET f == Head(down[c]) IN
    /\ Receives(c, "ServerValue")
    /\ replica' = [replica EXCEPT ![c] = ReplicaValue(@, f)]
    /\ \/ /\ ~HasKeyId(replica[c].registry, f.keyId)
          /\ up' = [up EXCEPT ![c] = Append(@, ClientKeyRequest(f.keyId))]
          /\ UNCHANGED clientState
       \/ /\ HasKeyId(replica[c].registry, f.keyId)
          /\ clientState' = [clientState EXCEPT ![c] =
                               IF @ = "Synchronizing" THEN "Ready" ELSE @]
          /\ UNCHANGED up
    /\ UNCHANGED gap

OnKeyDelete(c) ==
    /\ Receives(c, "ServerKeyDelete")
    /\ replica' = [replica EXCEPT ![c] = ReplicaDelete(@, Head(down[c]))]
    /\ UNCHANGED <<up, clientState, gap>>

OnReset(c) ==
    /\ Receives(c, "ServerReset")
    /\ replica' = [replica EXCEPT ![c] = EmptyReplica]
    /\ clientState' = [clientState EXCEPT ![c] = "Synchronizing"]
    /\ UNCHANGED <<up, gap>>

ClientStep(c) ==
    \/ OnKeyRegistration(c)
    \/ OnSync(c)
    \/ OnValue(c)
    \/ OnKeyDelete(c)
    \/ OnReset(c)

(* External: DanWebSocketClient never asks for a resync, but the protocol  *)
(* lets a client of another implementation do so.                          *)
RequestResync(c) ==
    /\ live[c] /\ clientState[c] \in {"Synchronizing", "Ready"}
    /\ resyncs[c] < MaxResyncs
    /\ resyncs' = [resyncs EXCEPT ![c] = @ + 1]
    /\ up' = [up EXCEPT ![c] = Append(@, ClientResyncReq)]
    /\ UNCHANGED <<txVars, appCalls, session, down, live, clientState, replica, connects, gap>>

-----------------------------------------------------------------------------
(* The server's handlers.                                                  *)

Accepts(c, type) ==
    /\ up[c] # << >>
    /\ Head(up[c]).frameType = type
    /\ up' = [up EXCEPT ![c] = Tail(@)]
    /\ UNCHANGED <<appCalls, live, clientVars>>

(* The key frames a new session is given are those of the current store.   *)
CacheCurrent ==
    keyFramesCached =>
        ToSet(cachedKeyFrames) =
            {ServerSync} \cup {ServerKeyRegistration(flat.entries[k].keyId,
                                 flat.entries[k].type, k) : k \in DOMAIN flat.entries}

(* What the client has kept from an earlier connection is still so.        *)
ReplicaCurrent(c) ==
    LET reg == replica[c].registry IN
    /\ \A id \in DOMAIN reg.byId :
          id \in DOMAIN flat.byKeyId /\ flat.byKeyId[id] = reg.byId[id].path
    /\ \A k \in DOMAIN reg.pathToId :
          HasKey(flat, k) /\ flat.entries[k].keyId = reg.pathToId[k]

(* handleIdentified for a new client without authorization, down to        *)
(* activateSession and _startSync.  _buildKeyFrames is never empty, so     *)
(* serverSyncSent_ is true from here on.                                   *)
HandleIdentify(c) ==
    /\ Accepts(c, "Identify")
    /\ BuildKeyFrames
    /\ session' = [session EXCEPT ![c] = "Synchronizing"]
    /\ down' = SendDown(down, c, cachedKeyFrames')
    /\ gap' = [gap EXCEPT ![c] = {g \in {"staleCache", "staleReplica"} :
                   \/ g = "staleCache" /\ ~CacheCurrent
                   \/ g = "staleReplica" /\ ~ReplicaCurrent(c)}]

(* Mutant: the session becomes Ready before its values are sent.           *)
MutClientReadyNoValues(c) ==
    /\ Accepts(c, "ClientReady")
    /\ session' = [session EXCEPT ![c] = "Ready"]
    /\ UNCHANGED <<txVars, down, gap>>

(* _handleFrame, ClientReady: ignored once the session is Ready.           *)
HandleClientReady(c) ==
    /\ Accepts(c, "ClientReady")
    /\ \/ /\ session[c] = "Ready"
          /\ UNCHANGED <<session, down>>
       \/ /\ session[c] = "Synchronizing"
          /\ \E order \in IterationOrders(flat) :
                down' = SendDown(down, c, ValueFrames(flat, order))
          /\ session' = [session EXCEPT ![c] = "Ready"]
    /\ UNCHANGED <<txVars, gap>>

(* Mutant: the request is answered with the value alone.                   *)
MutKeyRequestValueOnly(c) ==
    LET id == Head(up[c]).keyId IN
    /\ Accepts(c, "ClientKeyRequest")
    /\ id \in DOMAIN flat.byKeyId
    /\ LET e == flat.entries[flat.byKeyId[id]]
       IN  down' = SendDown(down, c, << ServerValue(id, e.type, e.value) >>)
    /\ UNCHANGED <<txVars, session, gap>>

(* _handleFrame, ClientKeyRequest: handleKeyRequest looks the id up in the *)
(* cached key frames, and stays silent if it is not there.                 *)
HandleKeyRequest(c) ==
    LET id    == Head(up[c]).keyId
        known == {f \in ToSet(cachedKeyFrames') :
                     f.frameType = "ServerKeyRegistration" /\ f.keyId = id}
        value == IF id \in DOMAIN flat.byKeyId
                 THEN LET e == flat.entries[flat.byKeyId[id]]
                      IN  << ServerValue(id, e.type, e.value) >>
                 ELSE << >>
    IN
    /\ Accepts(c, "ClientKeyRequest")
    /\ BuildKeyFrames
    /\ \/ \E f \in known : down' = SendDown(down, c, << f, ServerSync >> \o value)
       \/ /\ known = {}
          /\ UNCHANGED down
    /\ UNCHANGED <<session, gap>>

(* _handleFrame, ClientResyncReq: a session that is already Ready will     *)
(* ignore the ClientReady that answers the key frames, so the values are   *)
(* not sent again.                                                         *)
HandleResyncReq(c) ==
    /\ Accepts(c, "ClientResyncReq")
    /\ BuildKeyFrames
    /\ down' = SendDown(down, c, << ServerReset >> \o cachedKeyFrames')
    /\ gap' = [gap EXCEPT ![c] = IF session[c] = "Ready" THEN @ \cup {"lateResync"} ELSE @]
    /\ UNCHANGED session

SessionStep(c) ==
    \/ HandleIdentify(c)
    \/ HandleClientReady(c)
    \/ HandleKeyRequest(c)
    \/ HandleResyncReq(c)

-----------------------------------------------------------------------------
AppStep ==
    \/ \E k \in Keys, v \in Values : AppSet(k, v)
    \/ \E k \in Keys : AppClearKey(k)
    \/ AppClear

SyncNext ==
    \/ AppStep
    \/ \E c \in Clients :
          \/ Connect(c) \/ HandleOpen(c) \/ HandleClose(c) \/ SessionDisconnect(c)
          \/ ClientStep(c) \/ RequestResync(c) \/ SessionStep(c)

SyncSpec == SyncInit /\ [][SyncNext]_vars

(* Frames on an open connection are delivered and handled.                 *)
SyncFairness ==
    \A c \in Clients :
        /\ WF_vars(ClientStep(c))
        /\ WF_vars(SessionStep(c))

FairSyncSpec == SyncSpec /\ SyncFairness

-----------------------------------------------------------------------------
(* What the client will hold once it has handled all that is on its way.   *)
Drained(c) == Last(Replay(replica[c], down[c]))

(* The session's client is to follow the server: it is connected, has been *)
(* sent its values, and has missed nothing.                                *)
Following(c) ==
    session[c] = "Ready" /\ live[c] /\ gap[c] = {} /\ ~Drained(c).refused

(* A client that has missed nothing is never wrong: replaying the frames   *)
(* in flight on its replica yields exactly the server's state, at every    *)
(* point between set, clear, type changes, broadcasts, the frames of the   *)
(* initial sync and their handling.                                        *)
ReplicaFollows ==
    \A c \in Clients : Following(c) => ClientView(Drained(c)) = ServerView

(* ... and its registry is a one-to-one map between ids and paths, that    *)
(* holds no id which the server no longer uses.                            *)
ReplicaIdsNotCrossed ==
    \A c \in Clients : Following(c) =>
        /\ Bidirectional(Drained(c).registry)
        /\ DOMAIN Drained(c).registry.byId = DOMAIN flat.byKeyId

(* ... and no value is parked with it.  A value that an earlier connection *)
(* left in pendingValues_ is shown under the next key that is given its id.*)
Tracks(c) == Following(c) /\ Drained(c).pending = EmptyMap

(* What a client shows for each key, in the course of a replay.            *)
Shows(rs) == [k \in Keys |-> [i \in DOMAIN rs |-> ReplicaGet(rs[i], k)]]

NotFollowing == [k \in Keys |-> << >>]

(* The shared state that server and clients implement: the server's store, *)
(* the clients that follow it, and what each of these shows now and after  *)
(* each of the frames in flight.                                           *)
SharedStore == [k \in Keys |-> Get(flat, k)]
Followers   == {c \in Clients : Tracks(c)}
Ahead ==
    [c \in Clients |->
        IF Tracks(c) THEN The({Shows(rs) : rs \in {Replay(replica[c], down[c])}})
        ELSE NotFollowing]

Shared == INSTANCE SharedState WITH
    Absent    <- NoPayload,
    store     <- SharedStore,
    following <- Followers,
    ahead     <- Ahead

(* The frames, ids and caches of the server, its sessions and its clients  *)
(* implement the shared state: a client that follows sees every value of   *)
(* a key in the order in which the application set them, never one that is *)
(* not the server's or of another key, and never an earlier one again.     *)
ImplementsSharedState == Shared!SharedSpec

(* A client whose connection stays up, and whose session misses nothing,   *)
(* reports Ready, and does so again after every resync.                    *)
EventuallyReady ==
    \A c \in Clients :
        <>[](live[c] /\ gap[c] = {} /\ ~replica[c].refused)
            => []<>(clientState[c] = "Ready")

(* Client and server stop talking once the application does: key requests  *)
(* and their answers, ClientReady and the values it asks for do not feed   *)
(* each other for ever, unless the client's registry refuses a key.        *)
ExchangeSettles ==
    \A c \in Clients :
        <>[](live[c] /\ ~replica[c].refused)
            => <>[](up[c] = << >> /\ down[c] = << >>)

-----------------------------------------------------------------------------
(* The inductive invariant of ReplicaFollows and ReplicaIdsNotCrossed.      *)

(* Frames under way are of the connection that is open, or of none, and a  *)
(* session is preceded by its Identify frame.                              *)
ChannelOK(c) ==
    /\ ~live[c] \/ session[c] = "None" => down[c] = << >>
    /\ session[c] = "None" =>
          /\ up[c] \in {<< >>, << Identify >>}
          /\ live[c] => clientState[c] = "Identifying"
    /\ session[c] # "None" =>
          /\ \A i \in DOMAIN up[c] : up[c][i].frameType # "Identify"
          /\ keyFramesCached

(* After a clear() the cache has no key, and nothing will change that.     *)
CacheIsEmpty == keyFramesCached /\ cachedKeyFrames = << ServerSync >>

AsksForKeys(c) == \E i \in DOMAIN up[c] : up[c][i].frameType = "ClientKeyRequest"

(* The client knows the id of every value on its way, when that arrives.   *)
KnowsValues(c) ==
    \A i \in DOMAIN down[c] :
        down[c][i].frameType = "ServerValue" =>
            HasKeyId(Replay(replica[c], down[c])[i].registry, down[c][i].keyId)

(* A session that is still to be sent its values is sent none before, and  *)
(* was given the present keys.                                             *)
SynchronizingOK(c) ==
    session[c] = "Synchronizing" /\ live[c] /\ gap[c] = {} =>
        /\ CacheCurrent
        /\ \/ CacheIsEmpty
           \/ /\ ~AsksForKeys(c)
              /\ \A i \in DOMAIN down[c] : down[c][i].frameType # "ServerValue"

(* The ids of the replica r are the server's, and so are its values.       *)
SameIds(r) ==
    LET reg == r.registry IN
    /\ DOMAIN reg.byId = DOMAIN flat.byKeyId
    /\ \A id \in DOMAIN reg.byId : reg.byId[id].path = flat.byKeyId[id]
    /\ DOMAIN reg.pathToId = DOMAIN flat.entries
    /\ \A k \in DOMAIN reg.pathToId : reg.pathToId[k] = flat.entries[k].keyId

SameValues(r) ==
    \A k \in DOMAIN flat.entries :
        /\ flat.entries[k].keyId \in DOMAIN r.store
        /\ r.store[flat.entries[k].keyId] = flat.entries[k].value

FollowingOK(c) ==
    session[c] # "None" /\ live[c] /\ gap[c] = {} /\ ~Drained(c).refused =>
        /\ SameIds(Drained(c))
        /\ session[c] = "Ready" =>
              /\ SameValues(Drained(c))
              /\ CacheIsEmpty \/ (~AsksForKeys(c) /\ KnowsValues(c))

SyncInv ==
    /\ SyncTypeOK
    /\ PrincipalInv
    /\ \A c \in Clients : ChannelOK(c) /\ SynchronizingOK(c) /\ FollowingOK(c)

-----------------------------------------------------------------------------
(* What the documentation promises, without the exceptions.  The gap that  *)
(* is allowed is the only one, so the counterexample is due to it.         *)

Settled(c) == live[c] /\ session[c] = "Ready" /\ down[c] = << >> /\ up[c] = << >>

SeesTheState(c) == ClientView(replica[c]) = ServerView

(* A client that connects after others sees the same state as they do.     *)
LateJoinerSeesTheState ==
    \A c \in Clients : Settled(c) /\ gap[c] \subseteq {"staleCache"} => SeesTheState(c)
=============================================================================
