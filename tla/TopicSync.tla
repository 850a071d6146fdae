----------------------------- MODULE TopicSync ------------------------------
(***************************************************************************)
(* The topic modes: one DanWebSocketClient that subscribes to topics, and  *)
(* the DanWebSocketSession that serves it.                                 *)
(*                                                                         *)
(* Client: subscribe, unsubscribe, topic, authorize, handleOpen,           *)
(*         handleClose, handleFrame, sendTopicSync, getTopicInfo           *)
(*         (src/api/client.cpp), TopicClientHandle                         *)
(* Server: handleIdentified, authorize, activateSession,                   *)
(*         handleSessionDisconnect, handleClientTopicFrame and             *)
(*         processTopicSync (src/api/server.cpp), the session's flat state *)
(*         and topic handles (src/api/session.cpp, src/api/topic_handle.cpp)*)
(*                                                                         *)
(* The variable registry of RegistryPeer is the session's clientRegistry,  *)
(* and its peer the client.  A topic has at most one parameter.  A         *)
(* callback of the application is one of its calls, made at any time after *)
(* what it reports.  Callbacks of a task are serialized with the handlers. *)
(***************************************************************************)
EXTENDS FlatState, Replica, RegistryPeer, TopicTask, Integers, TLC

CONSTANTS
    TopicOrder,      \* the topics, in the order of their names
    NoParams,        \* a topic without parameters
    ParamsOf,        \* the parameters, or NoParams, each topic is subscribed with
    MaxKeyId,        \* bound: key ids of one session
    MaxCalls         \* bound: calls of the two applications and attempts to connect

(* The peer of the registry is the client: an id and a path for the name   *)
(* of every topic, and for its parameter.                                  *)
ASSUME TopicAssumption ==
    /\ TopicOrder \in Seq(ToSet(TopicOrder))
    /\ \A i, j \in DOMAIN TopicOrder : TopicOrder[i] = TopicOrder[j] => i = j
    /\ DOMAIN ParamsOf = ToSet(TopicOrder)
    /\ MaxKeyId \in Nat /\ MaxCalls \in Nat
    /\ 1 .. 2 * Len(TopicOrder) \subseteq PeerIds
    /\ {"name", "param"} \X (0 .. Len(TopicOrder) - 1) \subseteq PeerPaths
    /\ {"String", "VarInteger"} \subseteq PeerTypes

VARIABLES
    clientState,     \* DanWebSocketClient::state_
    live,            \* ws_->isOpen()
    subs,            \* subscriptions_
    indexMap,        \* topicIndexMap_ and, inverted, indexToTopic_
    handleIndex,     \* topicHandles_: the index_ of each handle
    topicDirty,      \* topicDirty_
    replica,         \* registry_, store_ and pendingValues_
    cache,           \* topicKeyCache_
    up, down,        \* the frames on their way to the server, and to the client
    authEnabled,     \* authEnabled_
    session,         \* the session's part in sessions_ and tmpSessions_
    clientValues,    \* clientValues
    handles,         \* the session's topicHandles_
    tasks,           \* the delayed task of each handle
    flat,            \* the session's flatState_
    nextKeyId,       \* the session's nextKeyId_
    calls,           \* calls and attempts to connect so far
    moved,           \* history: a subscribed topic has changed its position
    stale            \* history: the replica is of an earlier session

topicsVars  == <<subs, indexMap, handleIndex, topicDirty, moved>>
replicaVars == <<replica, cache, stale>>
serverVars  == <<session, registry, clientValues, handles, tasks, flat, nextKeyId>>
vars == <<clientState, live, topicsVars, replicaVars, up, down, authEnabled,
          serverVars, calls>>

Topics  == ToSet(TopicOrder)
Params  == {NoParams} \cup UNION {ParamsOf[t] : t \in Topics}
Indices == 0 .. Len(TopicOrder) - 1
KeyIds  == 1 .. MaxKeyId

ClientStates == {"Disconnected", "Connecting", "Identifying", "Authorizing",
                 "Synchronizing", "Ready", "Reconnecting"}
(* "Waiting" and, once onAuthorize_ was called, "Asked" in tmpSessions_;   *)
(* "Bound" while activateSession calls onConnection_, and then "Active".   *)
SessionStates == {"None", "Waiting", "Asked", "Bound", "Active"}

(* The wire prefix of a topic, and the topic a path belongs to: getTopicInfo *)
(* without its cache; << >> is std::nullopt.                               *)
TopicPrefix(i)  == "t." \o ToString(i) \o "."
TopicInfo(path) == IF path \in Keys THEN << >> ELSE path
WirePaths == Keys \cup {WirePath(TopicPrefix(i), k) : i \in Indices, k \in Keys}

(* Wire paths do not collide.  Of the keys this is the application's to    *)
(* see to: nothing keeps a session from setting a key named "t.0.x".       *)
ASSUME WireAssumption ==
    \A i \in Indices :
        /\ TopicPrefix(i) # ""
        /\ \A j \in Indices : TopicPrefix(i) = TopicPrefix(j) => i = j
        /\ \A k \in Keys : <<TopicPrefix(i), k>> \notin Keys

TopicFrames == {"ClientReset", "ClientKeyRegistration", "ClientValue", "ClientSync"}

(* What the client keeps, and the session.                                 *)
HandleMaps == Maps(Topics, Indices \cup {-1})
Reps       == Replicas(KeyIds, WirePaths, DataTypes, Values)
Caches     == Maps(KeyIds, {TopicInfo(p) : p \in WirePaths})
Stores     == FlatStates(Keys, KeyIds)
HandleSet  == [index : Indices, params : Params, flat : Stores]
ValueMaps  == Maps(PeerIds, Topics \cup Params)

(* Type invariant of the client, the session and its clientRegistry.       *)
TopicTypeOK ==
    /\ RegistryTypeOK
    /\ clientState \in ClientStates /\ live \in BOOLEAN
    /\ subs \in Maps(Topics, Params) /\ indexMap \in Maps(Topics, Indices)
    /\ handleIndex \in HandleMaps
    /\ replica \in Reps /\ cache \in Caches
    /\ session \in SessionStates
    /\ clientValues \in ValueMaps
    /\ DOMAIN handles \subseteq Topics
    /\ \A t \in DOMAIN handles : handles[t] \in HandleSet
    /\ tasks \in [Topics -> Tasks]
    /\ flat \in Stores
    /\ nextKeyId \in 1 .. MaxKeyId + 1
    /\ session \in {"None", "Waiting", "Asked"} => handles = EmptyMap
    /\ live => clientState \in ClientStates \ {"Disconnected", "Connecting", "Reconnecting"}

(* The client may have subscribed to topics before its first connection.   *)
TopicInit ==
    /\ clientState = "Disconnected" /\ live = FALSE
    /\ subs \in Maps(Topics, Params) /\ \A t \in DOMAIN subs : subs[t] \in ParamsOf[t]
    /\ topicDirty = (subs # EmptyMap)
    /\ indexMap = EmptyMap /\ handleIndex = EmptyMap
    /\ replica = EmptyReplica /\ cache = EmptyMap
    /\ up = << >> /\ down = << >>
    /\ authEnabled \in BOOLEAN
    /\ session = "None" /\ RegistryInit /\ clientValues = EmptyMap
    /\ handles = EmptyMap /\ tasks = [t \in Topics |-> NoTask]
    /\ flat = EmptyFlat /\ nextKeyId = 1
    /\ calls = 0
    /\ moved = FALSE /\ stale = FALSE

-----------------------------------------------------------------------------
(* The client's topics.                                                    *)

(* The members of S, in the order in which q has them.                     *)
Among(q, S) ==
    LET kept[i \in 0 .. Len(q)] ==
            IF i = 0 THEN << >>
            ELSE IF q[i] \in S THEN Append(kept[i - 1], q[i]) ELSE kept[i - 1]
    IN  kept[Len(q)]

(* Mutant: topics are counted from one.                                    *)
MutPositions(s) ==
    LET names == Among(TopicOrder, DOMAIN s)
    IN  [t \in DOMAIN s |-> CHOOSE i \in DOMAIN names : names[i] = t]

(* topicIndexMap_: a topic's position among the subscribed ones, by name   *)
Positions(s) ==
    LET names == Among(TopicOrder, DOMAIN s)
    IN  [t \in DOMAIN s |-> (CHOOSE i \in DOMAIN names : names[i] = t) - 1]

(* The entries of sendTopicSync: the name of each topic and its parameter. *)
TopicEntries(s) ==
    LET names == Among(TopicOrder, DOMAIN s)
        name(i)  == [path |-> <<"name", i - 1>>, type |-> "String", value |-> names[i]]
        param(i) == [path |-> <<"param", i - 1>>, type |-> "VarInteger", value |-> s[names[i]]]
    IN  FlattenSeq([i \in DOMAIN names |->
            IF s[names[i]] = NoParams THEN << name(i) >> ELSE << name(i), param(i) >>])

(* Mutant: a topic's name and parameter share an id.                       *)
MutIdPerTopic(s) ==
    LET e == TopicEntries(s) IN
    << ClientReset >>
    \o [i \in DOMAIN e |-> ClientKeyRegistration(e[i].path[2] + 1, e[i].type, e[i].path)]
    \o [i \in DOMAIN e |-> ClientValue(e[i].path[2] + 1, e[i].type, e[i].value)]
    \o << ClientSync >>

TopicSyncFrames(s) ==
    LET frames(e) ==
            << ClientReset >>
            \o [i \in DOMAIN e |-> ClientKeyRegistration(i, e[i].type, e[i].path)]
            \o [i \in DOMAIN e |-> ClientValue(i, e[i].type, e[i].value)]
            \o << ClientSync >>
    IN  The({frames(e) : e \in {TopicEntries(s)}})

(* sendTopicSync on an open connection, of the subscriptions s and with    *)
(* the handles h, after the frames sent: every topic is given a handle.    *)
SendTopicSync(s, h, sent) ==
    /\ indexMap' = Positions(s)
    /\ handleIndex' = [t \in DOMAIN h \cup DOMAIN s |->
                          IF t \in DOMAIN s THEN Positions(s)[t] ELSE h[t]]
    /\ up' = up \o sent \o TopicSyncFrames(s)
    /\ topicDirty' = FALSE

(* ... and on one that is not open.                                        *)
DeferTopicSync(h) ==
    /\ topicDirty' = TRUE
    /\ handleIndex' = h
    /\ UNCHANGED <<indexMap, up>>

Moves(old, new) ==
    \E t \in DOMAIN old \cap DOMAIN new : Positions(old)[t] # Positions(new)[t]

ClientCall ==
    /\ calls < MaxCalls /\ calls' = calls + 1
    /\ UNCHANGED <<live, replicaVars, down, authEnabled, serverVars>>

SubscriptionsChange(s, h) ==
    /\ ClientCall
    /\ subs' = s
    /\ \/ live /\ SendTopicSync(s, h, << >>)
       \/ ~live /\ DeferTopicSync(h)
    /\ moved' = (moved \/ (live /\ Moves(subs, s)))
    /\ UNCHANGED clientState

Subscribe(t, p) == SubscriptionsChange(Put(subs, t, p), handleIndex)

Unsubscribe(t) ==
    /\ t \in DOMAIN subs
    /\ SubscriptionsChange(Erase(subs, t), Erase(handleIndex, t))

(* topic(name), for a name that has no handle yet.                         *)
OpenHandle(t) ==
    /\ ClientCall
    /\ t \notin DOMAIN handleIndex
    /\ handleIndex' = Put(handleIndex, t, IF t \in DOMAIN indexMap THEN indexMap[t] ELSE -1)
    /\ UNCHANGED <<clientState, subs, indexMap, topicDirty, moved, up>>

(* authorize(token)                                                        *)
Authorize ==
    /\ ClientCall /\ live
    /\ up' = Append(up, AuthFrame)
    /\ clientState' = "Authorizing"
    /\ UNCHANGED topicsVars

-----------------------------------------------------------------------------
(* The client's connection.                                                *)

(* connect(): by the application, or as a reconnection attempt.            *)
Connect ==
    /\ clientState \in {"Disconnected", "Reconnecting"}
    /\ calls < MaxCalls /\ calls' = calls + 1
    /\ clientState' = "Connecting"
    /\ UNCHANGED <<live, topicsVars, replicaVars, up, down, authEnabled, serverVars>>

(* handleOpen(): topics that were not sent are sent with Identify; those   *)
(* of the last connection are not sent again.  The server has seen that    *)
(* connection close (see ServerSessions for one that has not).             *)
HandleOpen ==
    /\ clientState = "Connecting"
    /\ session = "None" /\ up = << >>
    /\ clientState' = "Identifying" /\ live' = TRUE
    /\ moved' = FALSE
    /\ \/ /\ topicDirty /\ subs # EmptyMap
          /\ SendTopicSync(subs, handleIndex, << Identify >>)
       \/ /\ ~(topicDirty /\ subs # EmptyMap)
          /\ up' = << Identify >>
          /\ UNCHANGED <<indexMap, handleIndex, topicDirty>>
    /\ UNCHANGED <<subs, replicaVars, down, authEnabled, serverVars, calls>>

(* handleClose(): the connection is lost with what is on its way down.     *)
HandleClose ==
    /\ clientState \notin {"Disconnected", "Reconnecting"}
    /\ clientState' = "Reconnecting"
    /\ live' = FALSE
    /\ down' = << >>
    /\ UNCHANGED <<topicsVars, replicaVars, up, authEnabled, serverVars, calls>>

(* _disposeAllTopicHandles                                                 *)
DisposeAll == [t \in Topics |-> Dispose(tasks[t])]

(* handleSessionDisconnect(): the server sees the close.  The session of   *)
(* the next connection is a new object.                                    *)
SessionDisconnect ==
    /\ ~live /\ session # "Bound"
    /\ session # "None" \/ up # << >>
    /\ session' = "None"
    /\ up' = << >>
    /\ tasks' = DisposeAll /\ handles' = EmptyMap
    /\ ClearRegistry /\ clientValues' = EmptyMap
    /\ flat' = EmptyFlat /\ nextKeyId' = 1
    /\ UNCHANGED <<clientState, live, topicsVars, replicaVars, down, authEnabled, calls>>

-----------------------------------------------------------------------------
(* The client's handleFrame.                                               *)

Receives(type) ==
    /\ down # << >> /\ Head(down).frameType = type
    /\ down' = Tail(down)
    /\ UNCHANGED <<live, subs, moved, authEnabled, serverVars, calls>>

KeepsTopics == UNCHANGED <<indexMap, handleIndex, topicDirty>>

(* The state becomes Ready, and the topics are sent again.                 *)
BecomesReady(sent) ==
    /\ clientState' = "Ready"
    /\ \/ subs # EmptyMap /\ SendTopicSync(subs, handleIndex, sent)
       \/ subs = EmptyMap /\ up' = up \o sent /\ KeepsTopics

Started(s) == IF s = "Identifying" THEN "Synchronizing" ELSE s

(* The cache after getTopicInfo(id, path): the first answer for an id is   *)
(* kept.                                                                   *)
Cached(id, path) == IF id \in DOMAIN cache THEN cache
                                           ELSE Put(cache, id, TopicInfo(path))

OnAuthOk ==
    /\ Receives("AuthOk")
    /\ clientState' = "Synchronizing"
    /\ KeepsTopics /\ UNCHANGED <<up, replicaVars>>

OnKeyRegistration ==
    LET f == Head(down) IN
    /\ Receives("ServerKeyRegistration")
    /\ clientState' = Started(clientState)
    /\ replica' = ReplicaRegister(replica, f)
    /\ cache' = IF f.keyId \in DOMAIN replica.pending
                   /\ ~RegisterThrows(replica.registry, f.payload)
                THEN Cached(f.keyId, f.payload) ELSE cache
    /\ KeepsTopics /\ UNCHANGED <<up, stale>>

(* Mutant: the topics are only sent when they have changed.                *)
MutOnSync ==
    LET s     == Started(clientState)
        ready == IF s # "Ready" THEN << ClientReady >> ELSE << >>
    IN
    /\ Receives("ServerSync")
    /\ up' = up \o ready
    /\ clientState' = IF RegistrySize(replica.registry) = 0 THEN "Ready" ELSE s
    /\ KeepsTopics /\ UNCHANGED replicaVars

OnSync ==
    LET s     == Started(clientState)
        ready == IF s # "Ready" THEN << ClientReady >> ELSE << >>
    IN
    /\ Receives("ServerSync")
    /\ \/ RegistrySize(replica.registry) = 0 /\ BecomesReady(ready)
       \/ /\ RegistrySize(replica.registry) # 0
          /\ clientState' = s
          /\ up' = up \o ready
          /\ KeepsTopics
    /\ UNCHANGED replicaVars

OnValue ==
    LET f     == Head(down)
        known == HasKeyId(replica.registry, f.keyId)
    IN
    /\ Receives("ServerValue")
    /\ replica' = ReplicaValue(replica, f)
    /\ cache' = IF known THEN Cached(f.keyId, replica.registry.byId[f.keyId].path) ELSE cache
    /\ \/ known /\ clientState = "Synchronizing" /\ BecomesReady(<< >>)
       \/ /\ ~known \/ clientState # "Synchronizing"
          /\ up' = IF known THEN up ELSE Append(up, ClientKeyRequest(f.keyId))
          /\ KeepsTopics /\ UNCHANGED clientState
    /\ UNCHANGED stale

OnKeyDelete ==
    LET f == Head(down) IN
    /\ Receives("ServerKeyDelete")
    /\ replica' = ReplicaDelete(replica, f)
    /\ cache' = Erase(cache, f.keyId)
    /\ KeepsTopics /\ UNCHANGED <<clientState, up, stale>>

(* Mutant: the cache of parsed paths survives the reset.                   *)
MutOnReset ==
    /\ Receives("ServerReset")
    /\ replica' = EmptyReplica /\ stale' = FALSE
    /\ clientState' = "Synchronizing"
    /\ KeepsTopics /\ UNCHANGED <<up, cache>>

OnReset ==
    /\ Receives("ServerReset")
    /\ replica' = EmptyReplica /\ cache' = EmptyMap /\ stale' = FALSE
    /\ clientState' = "Synchronizing"
    /\ KeepsTopics /\ UNCHANGED up

ClientStep ==
    OnAuthOk \/ OnKeyRegistration \/ OnSync \/ OnValue \/ OnKeyDelete \/ OnReset

-----------------------------------------------------------------------------
(* The server's handlers.  A frame sent to a connection that is gone is    *)
(* lost.                                                                   *)

SendDown(frames) == down' = IF live THEN down \o frames ELSE down

Accepts(type) ==
    /\ session # "Bound"
    /\ up # << >> /\ Head(up).frameType = type
    /\ up' = Tail(up)
    /\ UNCHANGED <<clientState, live, topicsVars, authEnabled, calls>>

(* activateSession down to the callbacks of onConnection_: _bindSessionTX  *)
(* gives the session a new flat state.                                     *)
Activate(sent) ==
    /\ session' = "Bound"
    /\ flat' = EmptyFlat
    /\ SendDown(sent)
    /\ stale' = (stale \/ replica # EmptyReplica \/ cache # EmptyMap)
    /\ UNCHANGED <<replica, cache>>

(* handleIdentified for a client without a session                         *)
HandleIdentify ==
    /\ Accepts("Identify")
    /\ \/ authEnabled /\ session' = "Waiting" /\ UNCHANGED <<flat, down, replicaVars>>
       \/ ~authEnabled /\ Activate(<< >>)
    /\ UNCHANGED <<registry, clientValues, handles, tasks, nextKeyId>>

(* Mutant: ServerSync is left to the first set().                          *)
MutFinishActivation ==
    /\ session = "Bound"
    /\ session' = "Active"
    /\ UNCHANGED <<clientState, live, topicsVars, replicaVars, up, down, authEnabled,
                   registry, clientValues, handles, tasks, flat, nextKeyId, calls>>

(* The rest of activateSession                                             *)
FinishActivation ==
    /\ session = "Bound"
    /\ session' = "Active"
    /\ SendDown(<< ServerSync >>)
    /\ UNCHANGED <<clientState, live, topicsVars, replicaVars, up, authEnabled, registry,
                   clientValues, handles, tasks, flat, nextKeyId, calls>>

(* The Auth frame: of use to a session that waits for it.                  *)
HandleAuth ==
    /\ Accepts("Auth")
    /\ session' = IF session = "Waiting" THEN "Asked" ELSE session
    /\ UNCHANGED <<down, replicaVars, registry, clientValues, handles, tasks, flat,
                   nextKeyId>>

(* server.authorize(uuid, token, principal), by the application            *)
AppAuthorize ==
    /\ session = "Asked"
    /\ Activate(<< AuthOk >>)
    /\ UNCHANGED <<clientState, live, topicsVars, up, authEnabled, registry, clientValues,
                   handles, tasks, nextKeyId, calls>>

(* Topic frames of a client that is not in sessions_ are dropped.          *)
DropTopicFrame ==
    /\ session # "Active"
    /\ \E type \in TopicFrames : Accepts(type)
    /\ UNCHANGED <<down, replicaVars, serverVars>>

(* Mutant: ClientReset leaves what the last topic sync has sent.           *)
MutHandleReset ==
    /\ session = "Active" /\ Accepts("ClientReset")
    /\ UNCHANGED <<down, replicaVars, serverVars>>

HandleReset ==
    /\ session = "Active" /\ Accepts("ClientReset")
    /\ ClearRegistry /\ clientValues' = EmptyMap
    /\ UNCHANGED <<down, replicaVars, session, handles, tasks, flat, nextKeyId>>

(* A registration that throws is swallowed by the stream parser.           *)
HandleKeyRegistration ==
    LET f == Head(up) IN
    /\ session = "Active" /\ Accepts("ClientKeyRegistration")
    /\ \/ Register(f.keyId, f.payload, f.dataType)
       \/ RegisterThrows(registry, f.payload) /\ UNCHANGED registry
    /\ UNCHANGED <<down, replicaVars, session, clientValues, handles, tasks, flat, nextKeyId>>

HandleValue ==
    /\ session = "Active" /\ Accepts("ClientValue")
    /\ clientValues' = Put(clientValues, Head(up).keyId, Head(up).payload)
    /\ UNCHANGED <<down, replicaVars, session, registry, handles, tasks, flat, nextKeyId>>

-----------------------------------------------------------------------------
(* triggerSessionResync.  Every flat state is walked in an order of its    *)
(* own; the topic handles are in the order of their names.                 *)

Orders == [Topics \cup {"session"} -> SetToSeqs(Keys)]
Walk(fs, order) == Among(order, DOMAIN fs.entries)

ResyncFrames(hs, fs, o) ==
    LET names == Among(TopicOrder, DOMAIN hs)
        keys(t)   == KeyFrames(hs[t].flat, TopicPrefix(hs[t].index), Walk(hs[t].flat, o[t]))
        values(t) == ValueFrames(hs[t].flat, Walk(hs[t].flat, o[t]))
    IN  << ServerReset >> \o KeyFrames(fs, "", Walk(fs, o["session"]))
        \o FlattenSeq([i \in DOMAIN names |-> keys(names[i])])
        \o << ServerSync >> \o ValueFrames(fs, Walk(fs, o["session"]))
        \o FlattenSeq([i \in DOMAIN names |-> values(names[i])])

-----------------------------------------------------------------------------
(* processTopicSync: the topics in the client's registry, against those    *)
(* the session has.                                                        *)

Sent(path) == Resolves(registry, path) /\ ResolvePath(registry, path) \in DOMAIN clientValues
SentValue(path) == clientValues[ResolvePath(registry, path)]

NewTopics == {SentValue(<<"name", i>>) : i \in {j \in Indices : Sent(<<"name", j>>)}}
ClientIndex(t) ==
    CHOOSE i \in Indices : Sent(<<"name", i>>) /\ SentValue(<<"name", i>>) = t

(* paths() is unordered: a parameter that is met before the name of its    *)
(* topic is lost.                                                          *)
ParamsMet(t, lost) ==
    LET path == <<"param", ClientIndex(t)>>
    IN  IF Sent(path) /\ t \notin lost THEN SentValue(path) ELSE NoParams

(* Mutant: the session numbers its topics itself.                          *)
MutNewHandle(t, lost) ==
    [index |-> Cardinality(DOMAIN handles), params |-> ParamsMet(t, lost),
     flat |-> EmptyFlat]

(* _createTopicHandle                                                      *)
NewHandle(t, lost) ==
    [index |-> ClientIndex(t), params |-> ParamsMet(t, lost), flat |-> EmptyFlat]

(* A topic that the session has keeps its handle, index and parameters.    *)
HandlesAfter(lost) ==
    [t \in NewTopics |-> IF t \in DOMAIN handles THEN handles[t] ELSE NewHandle(t, lost)]

(* Mutant: every topic sync ends with a resync.                            *)
MutRemovalFrames(o) ==
    ResyncFrames([t \in DOMAIN handles \cap NewTopics |-> handles[t]], flat, o)

(* _removeTopicHandle, one by one: each ends with a resync of what is left.*)
RemovalFrames(o) ==
    LET gone    == Among(TopicOrder, DOMAIN handles \ NewTopics)
        left(i) == [t \in DOMAIN handles \ {gone[j] : j \in 1 .. i} |-> handles[t]]
    IN  FlattenSeq([i \in DOMAIN gone |-> ResyncFrames(left(i), flat, o)])

HandleTopicSync ==
    /\ session = "Active" /\ Accepts("ClientSync")
    /\ \E lost \in SUBSET NewTopics, o \in Orders :
          /\ handles' = HandlesAfter(lost)
          /\ SendDown(RemovalFrames(o))
    /\ tasks' = [t \in Topics |-> IF t \in DOMAIN handles \ NewTopics
                                  THEN Dispose(tasks[t]) ELSE tasks[t]]
    /\ UNCHANGED <<replicaVars, session, registry, clientValues, flat, nextKeyId>>

(* _handleFrame, ClientReady: without providers and with serverSyncSent_   *)
(* false it does nothing; a session in tmpSessions_ is not asked.          *)
HandleClientReady ==
    /\ Accepts("ClientReady")
    /\ UNCHANGED <<down, replicaVars, serverVars>>

(* handleKeyRequest: the session's flat state, then the topics'.           *)
Answer(fs, prefix, id) ==
    LET e == fs.entries[fs.byKeyId[id]]
    IN  << ServerKeyRegistration(id, e.type, WirePath(prefix, fs.byKeyId[id])), ServerSync,
           ServerValue(id, e.type, e.value) >>

HandleKeyRequest ==
    LET id      == Head(up).keyId
        names   == Among(TopicOrder,
                         {t \in DOMAIN handles : id \in DOMAIN handles[t].flat.byKeyId})
        answers == (IF id \in DOMAIN flat.byKeyId THEN << Answer(flat, "", id) >> ELSE << >>)
                   \o [i \in DOMAIN names |-> LET h == handles[names[i]]
                          IN Answer(h.flat, TopicPrefix(h.index), id)]
    IN
    /\ Accepts("ClientKeyRequest")
    /\ SendDown(IF answers = << >> THEN << >> ELSE answers[1])
    /\ UNCHANGED <<replicaVars, serverVars>>

SessionStep ==
    \/ HandleIdentify \/ FinishActivation \/ HandleAuth \/ DropTopicFrame
    \/ HandleReset \/ HandleKeyRegistration \/ HandleValue \/ HandleTopicSync
    \/ HandleClientReady \/ HandleKeyRequest

-----------------------------------------------------------------------------
(* The application on the server: payload(), set() and clearKey() of the   *)
(* session, from the callbacks of onConnection_ on, and the delayed tasks. *)

AppCall ==
    /\ calls < MaxCalls /\ calls' = calls + 1
    /\ session \in {"Bound", "Active"}
    /\ UNCHANGED <<clientState, live, topicsVars, replicaVars, up, authEnabled, session,
                   registry, clientValues>>

(* allocateKeyId, shared by the session and its topics                     *)
Allocates(fs, k, v) ==
    /\ NeedsNewId(fs, k, v) => nextKeyId <= MaxKeyId
    /\ nextKeyId' = IF NeedsNewId(fs, k, v) THEN nextKeyId + 1 ELSE nextKeyId

(* set, clear(key) and clear() of a payload                                *)
PayloadSet(t, k, v) ==
    LET h == handles[t] IN
    /\ AppCall /\ t \in DOMAIN handles
    /\ Allocates(h.flat, k, v)
    /\ handles' = [handles EXCEPT ![t].flat = SetLeaf(@, k, v, nextKeyId)]
    /\ SendDown(SetFrames(h.flat, TopicPrefix(h.index), k, v, nextKeyId))
    /\ UNCHANGED <<tasks, flat>>

PayloadClearKey(t, k) ==
    /\ AppCall /\ t \in DOMAIN handles /\ HasKey(handles[t].flat, k)
    /\ handles' = [handles EXCEPT ![t].flat = ClearKey(@, k)]
    /\ SendDown(ClearKeyFrames(handles[t].flat, k))
    /\ UNCHANGED <<tasks, flat, nextKeyId>>

PayloadClear(t) ==
    /\ AppCall /\ t \in DOMAIN handles /\ handles[t].flat # EmptyFlat
    /\ handles' = [handles EXCEPT ![t].flat = EmptyFlat]
    /\ \E o \in Orders : SendDown(ResyncFrames(handles', flat, o))
    /\ UNCHANGED <<tasks, flat, nextKeyId>>

(* set, clearKey(key) and clearKey() of the session                        *)
SessionSet(k, v) ==
    /\ AppCall /\ Allocates(flat, k, v)
    /\ flat' = SetLeaf(flat, k, v, nextKeyId)
    /\ SendDown(SetFrames(flat, "", k, v, nextKeyId))
    /\ UNCHANGED <<tasks, handles>>

SessionClearKey(k) ==
    /\ AppCall /\ HasKey(flat, k)
    /\ flat' = ClearKey(flat, k)
    /\ SendDown(ClearKeyFrames(flat, k))
    /\ UNCHANGED <<tasks, handles, nextKeyId>>

SessionClear ==
    /\ AppCall /\ flat # EmptyFlat
    /\ flat' = EmptyFlat
    /\ \E o \in Orders : SendDown(ResyncFrames(handles, EmptyFlat, o))
    /\ UNCHANGED <<tasks, handles, nextKeyId>>

(* setDelayedTask and clearDelayedTask of a handle, by the application     *)
AppSetTask(t) ==
    /\ AppCall /\ t \in DOMAIN handles
    /\ ~SetTerminates(tasks[t])
    /\ tasks' = [tasks EXCEPT ![t] = SetDelayedTask(@)]
    /\ UNCHANGED <<handles, flat, down, nextKeyId>>

AppClearTask(t) ==
    /\ AppCall /\ t \in DOMAIN handles
    /\ tasks' = [tasks EXCEPT ![t] = ClearDelayedTask(@)]
    /\ UNCHANGED <<handles, flat, down, nextKeyId>>

(* ... and by the callback of the task itself                              *)
TaskCallsOff(t) ==
    /\ AppCall
    /\ tasks[t].thread = "looping" /\ ~tasks[t].stop
    /\ tasks' = [tasks EXCEPT ![t] = CallsOff(@)]
    /\ UNCHANGED <<handles, flat, down, nextKeyId>>

TaskEnds(t) ==
    /\ tasks[t].thread = "looping" /\ tasks[t].stop
    /\ tasks' = [tasks EXCEPT ![t] = LoopEnds(@)]
    /\ UNCHANGED <<clientState, live, topicsVars, replicaVars, up, down, authEnabled,
                   session, registry, clientValues, handles, flat, nextKeyId, calls>>

AppStep ==
    \/ AppAuthorize
    \/ \E k \in Keys, v \in Values : SessionSet(k, v)
    \/ \E k \in Keys : SessionClearKey(k)
    \/ SessionClear
    \/ \E t \in Topics :
          \/ \E k \in Keys, v \in Values : PayloadSet(t, k, v)
          \/ \E k \in Keys : PayloadClearKey(t, k)
          \/ PayloadClear(t)
          \/ AppSetTask(t) \/ AppClearTask(t) \/ TaskCallsOff(t) \/ TaskEnds(t)

TopicNext ==
    \/ \E t \in Topics :
          (\E p \in ParamsOf[t] : Subscribe(t, p)) \/ Unsubscribe(t) \/ OpenHandle(t)
    \/ Authorize \/ Connect \/ HandleOpen \/ HandleClose \/ SessionDisconnect
    \/ ClientStep \/ SessionStep \/ AppStep

TopicSpec == TopicInit /\ [][TopicNext]_vars

(* Frames on an open connection are delivered and handled.                 *)
FairTopicSpec == TopicSpec /\ WF_vars(ClientStep) /\ WF_vars(SessionStep)

-----------------------------------------------------------------------------
(* What the client will hold once it has handled all that is on its way,   *)
(* and whether that is of this session alone.                              *)
Drained == Last(Replay(replica, down))

Fresh == (~stale \/ ServerReset \in ToSet(down)) /\ ~Drained.refused

TopicsInFlight == \E i \in DOMAIN up : up[i].frameType \in TopicFrames

(* The handle of a subscribed topic is a view into the data of that topic, *)
(* on the client as on the server: through subscriptions, removals and     *)
(* their resyncs, type changes and a reconnection it shows the payload of  *)
(* its own topic, and the client's own keys those of its session, as long  *)
(* as no subscribed topic has changed its position.                        *)
TopicsScoped ==
    live /\ session = "Active" /\ ~moved /\ ~TopicsInFlight /\ Fresh =>
        /\ \A k \in Keys : ReplicaGet(Drained, k) = Get(flat, k)
        /\ \A t \in DOMAIN subs \cap DOMAIN handles :
              /\ handleIndex[t] = handles[t].index
              /\ \A k \in Keys :
                    ReplicaGet(Drained, WirePath(TopicPrefix(handleIndex[t]), k))
                        = Get(handles[t].flat, k)

(* The same without the exception: src/README.md and topic_client_handle.h *)
(* make none.                                                              *)
TopicsAlwaysScoped ==
    live /\ session = "Active" /\ ~TopicsInFlight /\ Fresh =>
        \A t \in DOMAIN subs \cap DOMAIN handles, k \in Keys :
            ReplicaGet(Drained, WirePath(TopicPrefix(handleIndex[t]), k))
                = Get(handles[t].flat, k)

(* The parameters of a topic are ones that this topic was subscribed with, *)
(* or none: processTopicSync never gives it those of another topic, or of  *)
(* an earlier topic sync at the same index.                                *)
ParamsNeverMixed ==
    \A t \in DOMAIN handles :
        handles[t].params \in ParamsOf[t] \cup {NoParams}

(* The topic that is told of a value is the one that can read it: what the *)
(* client remembers of an id is the path the id has now, and the handle at *)
(* that index looks there.                                                 *)
NotifiedTopicReads ==
    /\ ~stale =>
        \A id \in DOMAIN cache :
            HasKeyId(replica.registry, id)
            /\ cache[id] = TopicInfo(replica.registry.byId[id].path)
    /\ \A t \in DOMAIN indexMap \cap DOMAIN handleIndex : handleIndex[t] = indexMap[t]

(* A task runs only for a topic that the session has, and never two for    *)
(* one topic: a thread that is not joined is always one that the next      *)
(* clearDelayedTask will join.                                             *)
TasksHaveTopics ==
    \A t \in Topics :
        tasks[t].thread # "none" => tasks[t].running /\ t \in DOMAIN handles

(* A client whose session stays reports Ready, whatever it subscribes to   *)
(* and whatever the application sets, in onConnection_ or later; but not   *)
(* with keys of an earlier session, nor after an authorize() that the      *)
(* server has no answer to.                                                *)
TopicClientReady ==
    <>[](live /\ session = "Active" /\ ~stale /\ clientState # "Authorizing")
        => []<>(clientState = "Ready")

(* Once it is Ready, every subscription, made before or after it, and at   *)
(* whatever point of the connection, reaches the session, and every        *)
(* removal.                                                                *)
SubscriptionsArrive ==
    <>[](live /\ session = "Active" /\ ~stale /\ clientState = "Ready")
        => <>[](DOMAIN handles = DOMAIN subs)

(* Resyncs, the topic syncs that answer them, key requests and their       *)
(* answers do not feed each other for ever, unless the client's registry   *)
(* refuses a key.                                                          *)
TopicExchangeSettles ==
    <>[](live /\ session # "None" /\ ~replica.refused)
        => <>[](up = << >> /\ down = << >>)

-----------------------------------------------------------------------------
(* The inductive invariant behind TopicTypeOK, ParamsNeverMixed,           *)
(* NotifiedTopicReads, TasksHaveTopics and DisciplinedSpec.                *)

(* The frames on their way in the topic modes.                             *)
UpFrames ==
    {Identify, AuthFrame, ClientReady, ClientReset, ClientSync}
    \cup {ClientKeyRequest(id) : id \in KeyIds}
    \cup {ClientKeyRegistration(id, dt, p) : id \in PeerIds, dt \in PeerTypes, p \in PeerPaths}
    \cup {ClientValue(id, dt, v) : id \in PeerIds, dt \in PeerTypes, v \in Topics \cup Params}
DownFrames ==
    {AuthOk, ServerSync, ServerReset}
    \cup {ServerKeyRegistration(id, dt, p) : id \in KeyIds, dt \in DataTypes, p \in WirePaths}
    \cup {ServerValue(id, dt, v) : id \in KeyIds, dt \in DataTypes, v \in Values}
    \cup {ServerKeyDelete(id) : id \in KeyIds}

(* Frames are for the session the server has: none before it is bound,     *)
(* and Identify is only ever the first of a connection.                    *)
ChannelsOK ==
    /\ up \in Seq(UpFrames) /\ down \in Seq(DownFrames)
    /\ \A i \in DOMAIN up : up[i].frameType = "Identify" => i = 1 /\ session = "None"
    /\ ~live \/ session \notin {"Bound", "Active"} => down = << >>
    /\ session \notin {"Bound", "Active"} => flat = EmptyFlat
    /\ session # "Active" => registry = EmptyRegistry /\ clientValues = EmptyMap

Subscriptions == {s \in Maps(Topics, Params) : \A t \in DOMAIN s : s[t] \in ParamsOf[t]}

(* A frame of the topic sync of s, or none of a topic sync.                *)
Belongs(f, s) ==
    LET e == TopicEntries(s) IN
    /\ f.frameType = "ClientKeyRegistration" =>
          f.keyId \in DOMAIN e /\ f.payload = e[f.keyId].path
    /\ f.frameType = "ClientValue" =>
          f.keyId \in DOMAIN e /\ f.payload = e[f.keyId].value

(* Up to the next ClientReset, the frames of u after j are of s.           *)
Continues(u, j, s) ==
    \A i \in j + 1 .. Len(u) :
        (\A m \in j + 1 .. i : u[m].frameType # "ClientReset") => Belongs(u[i], s)

(* What the session has been told is part of the topic sync of s.          *)
Mirrors(reg, values, s) ==
    LET e == TopicEntries(s) IN
    /\ \A id \in DOMAIN reg.byId : id \in DOMAIN e /\ reg.byId[id].path = e[id].path
    /\ \A p \in DOMAIN reg.pathToId :
          reg.pathToId[p] \in DOMAIN e /\ p = e[reg.pathToId[p]].path
    /\ \A id \in DOMAIN values : id \in DOMAIN e /\ values[id] = e[id].value

(* The topic syncs arrive one after the other, not mixed.                  *)
SyncsInOrder ==
    /\ subs \in Subscriptions
    /\ \E s \in Subscriptions : Mirrors(registry, clientValues, s) /\ Continues(up, 0, s)
    /\ \A j \in DOMAIN up : up[j].frameType = "ClientReset" =>
          \E s \in Subscriptions : Continues(up, j, s)

(* Every id the store finds a key by is the id of that key.                *)
Indexed(fs) ==
    \A id \in DOMAIN fs.byKeyId :
        fs.byKeyId[id] \in DOMAIN fs.entries /\ fs.entries[fs.byKeyId[id]].keyId = id

(* The ids in a store, in frames and in the replica, with their paths.     *)
StoreNames(fs, prefix) ==
    {<<fs.entries[k].keyId, WirePath(prefix, k)>> : k \in DOMAIN fs.entries}
ServerNames(hs, fs) ==
    StoreNames(fs, "")
    \cup UNION {StoreNames(hs[t].flat, TopicPrefix(hs[t].index)) : t \in DOMAIN hs}
FrameNames(fs) ==
    {<<fs[i].keyId, fs[i].payload>> :
        i \in {j \in DOMAIN fs : fs[j].frameType = "ServerKeyRegistration"}}
ReplicaNames(r) == {<<id, r.registry.byId[id].path>> : id \in DOMAIN r.registry.byId}

OneToOne(names, next) ==
    \A m, n \in names : m[1] \in 1 .. next - 1 /\ (m[1] = n[1] => m[2] = n[2])

(* A session gives an id to one path for good, and its client knows it     *)
(* under no other.                                                         *)
IdsKeepPaths ==
    /\ Indexed(flat) /\ \A t \in DOMAIN handles : Indexed(handles[t].flat)
    /\ session \in {"Bound", "Active"} =>
          OneToOne(ServerNames(handles, flat) \cup FrameNames(down)
                      \cup (IF stale THEN {} ELSE ReplicaNames(replica)), nextKeyId)

TopicInv ==
    /\ TopicTypeOK /\ ChannelsOK /\ SyncsInOrder /\ IdsKeepPaths
    /\ ParamsNeverMixed /\ NotifiedTopicReads /\ TasksHaveTopics
=============================================================================
