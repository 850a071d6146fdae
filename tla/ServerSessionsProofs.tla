------------------------ MODULE ServerSessionsProofs ------------------------
(***************************************************************************)
(* Proofs about ServerSessions, for every number of clients, connections   *)
(* and principals, every limit on the connections, and both modes.         *)
(***************************************************************************)
EXTENDS ServerSessions, ProtocolProofs, FiniteSetTheorems, TLAPS

(* Dropping a session, adopting a connection, stopping a heartbeat.        *)
LEMMA DroppedType ==
    ASSUME NEW s \in InternalSessions
    PROVE  /\ Dropped(s) \in InternalSessions
           /\ Dropped(s).principal = s.principal /\ Dropped(s).uuid = s.uuid
           /\ s.heartbeat = "timedOut" => Dropped(s).heartbeat = "timedOut"
BY DEF Dropped, Stopped, InternalSessions

(* A session that adopts a new connection keeps its client and principal,  *)
(* and its heartbeat runs.                                                 *)
LEMMA ResumedType ==
    ASSUME NEW s \in InternalSessions, NEW c \in Conns
    PROVE  /\ Resumed(s, c) \in InternalSessions
           /\ Resumed(s, c).principal = s.principal /\ Resumed(s, c).uuid = s.uuid
           /\ Resumed(s, c).ws = c /\ Resumed(s, c).connected
           /\ Resumed(s, c).heartbeat = "running"
BY DEF Resumed, InternalSessions

(* _startSync changes the state of a session and nothing else.             *)
LEMMA SynchronizingType ==
    ASSUME NEW s \in InternalSessions
    PROVE  LET r == [s EXCEPT !.state = "Synchronizing"] IN
           /\ r \in InternalSessions
           /\ r.principal = s.principal /\ r.uuid = s.uuid /\ r.ws = s.ws
           /\ r.connected = s.connected /\ r.heartbeat = s.heartbeat
BY DEF InternalSessions

(* ws->close() leaves the id of every connection, and at most changes an   *)
(* open one to a closing one.                                              *)
LEMMA ClosingType ==
    ASSUME NEW cs \in [Conns -> Connections], NEW c \in Conns \cup {None}
    PROVE  /\ Closing(cs, c) \in [Conns -> Connections]
           /\ \A x \in Conns :
                 /\ Closing(cs, c)[x].uuid = cs[x].uuid
                 /\ \/ Closing(cs, c)[x].status = cs[x].status
                    \/ cs[x].status = "open" /\ Closing(cs, c)[x].status = "closing"
BY DEF Closing, Connections

(* Identification gives one connection its client's UUID and leaves the    *)
(* others alone.                                                           *)
LEMMA WithUuidType ==
    ASSUME conn \in [Conns -> Connections], NEW c \in Conns, NEW u \in Uuids
    PROVE  /\ WithUuid(c, u) \in [Conns -> Connections]
           /\ WithUuid(c, u)[c].uuid = u /\ WithUuid(c, u)[c].status = conn[c].status
           /\ \A x \in Conns : x # c => WithUuid(c, u)[x] = conn[x]
BY DEF WithUuid, Connections

(* A map of sessions by their ids stays one when sessions are added.       *)
LEMMA MapsGrow ==
    ASSUME NEW K, NEW V, NEW W, V \subseteq W, NEW m \in Maps(K, V)
    PROVE  m \in Maps(K, W)
BY DEF Maps

(* The keys of a map are of the kind of the map.                           *)
LEMMA MapDomain ==
    ASSUME NEW K, NEW V, NEW m \in Maps(K, V)
    PROVE  DOMAIN m \subseteq K
BY DEF Maps

(* The principal a session is served under is a principal, in the          *)
(* broadcast mode too.                                                     *)
LEMMA EffectiveType ==
    ASSUME NEW p \in Principals
    PROVE  Effective(p) \in Principals
BY SessionsAssumption DEF Effective

-----------------------------------------------------------------------------
(* The types.                                                              *)

(* handleSessionDisconnect keeps the types, and every session's principal, *)
(* id and, once it has timed out, its heartbeat.                           *)
LEMMA DisconnectType ==
    ASSUME SessionsInv, NEW u,
           NEW ses \in [DOMAIN internal -> InternalSessions],
           \A o \in DOMAIN internal : ses[o].principal = internal[o].principal,
           HandleSessionDisconnect(u, ses)
    PROVE  /\ internal' \in [DOMAIN internal -> InternalSessions]
           /\ sessions' \in Maps(Uuids, DOMAIN internal)
           /\ tmpSessions' \in Maps(Uuids, DOMAIN internal)
           /\ index' \in [Principals -> SUBSET DOMAIN internal]
           /\ counts' \in [Principals -> Nat]
           /\ \A o \in DOMAIN internal :
                 /\ internal'[o].principal = ses[o].principal
                 /\ internal'[o].uuid = ses[o].uuid
                 /\ ses[o].heartbeat = "timedOut" => internal'[o].heartbeat = "timedOut"
<1>0. /\ sessions \in Maps(Uuids, DOMAIN internal)
      /\ tmpSessions \in Maps(Uuids, DOMAIN internal)
      /\ index \in [Principals -> SUBSET DOMAIN internal]
      /\ counts \in [Principals -> Nat]
  BY DEF SessionsInv, SessionsTypeOK
<1>1. CASE /\ u \in DOMAIN sessions
           /\ ses[sessions[u]].connected
           /\ LET o == sessions[u]
                  p == Effective(ses[o].principal)
              IN  /\ internal' = [ses EXCEPT ![o] = Dropped(@)]
                  /\ index' = [index EXCEPT ![p] = @ \ {o}]
                  /\ counts' = [counts EXCEPT ![p] = IF @ > 0 THEN @ - 1 ELSE 0]
           /\ sessions' = Erase(sessions, u)
           /\ UNCHANGED tmpSessions
  <2> DEFINE o == sessions[u]
             p == Effective(ses[o].principal)
  <2>1. o \in DOMAIN internal
    BY <1>0, <1>1, MapApply
  <2>2. p \in Principals
    BY <1>1, <2>1, EffectiveType DEF SessionsInv
  <2>3. Dropped(ses[o]) \in InternalSessions
    BY <2>1, DroppedType
  <2>4. /\ internal' = [ses EXCEPT ![o] = Dropped(ses[o])]
        /\ index' = [index EXCEPT ![p] = index[p] \ {o}]
        /\ counts' = [counts EXCEPT ![p] = IF counts[p] > 0 THEN counts[p] - 1 ELSE 0]
    BY <1>1
  <2>5. sessions' \in Maps(Uuids, DOMAIN internal)
    BY <1>0, <1>1, EraseType
  <2> HIDE DEF o, p
  <2>6. index' \in [Principals -> SUBSET DOMAIN internal]
    BY <1>0, <2>2, <2>4
  <2>7. counts' \in [Principals -> Nat]
    BY <1>0, <2>2, <2>4
  <2>8. internal' \in [DOMAIN internal -> InternalSessions]
    BY <2>1, <2>3, <2>4
  <2>9. \A x \in DOMAIN internal :
                 /\ internal'[x].principal = ses[x].principal
                 /\ internal'[x].uuid = ses[x].uuid
                 /\ ses[x].heartbeat = "timedOut" => internal'[x].heartbeat = "timedOut"
    BY <2>1, <2>4, DroppedType
  <2> QED BY <1>0, <1>1, <2>5, <2>6, <2>7, <2>8, <2>9
<1>2. CASE /\ u \notin DOMAIN sessions /\ u \in DOMAIN tmpSessions
           /\ internal' = [ses EXCEPT ![tmpSessions[u]].heartbeat = Stopped(@)]
           /\ tmpSessions' = Erase(tmpSessions, u)
           /\ UNCHANGED <<sessions, index, counts>>
  <2> DEFINE o == tmpSessions[u]
  <2>1. o \in DOMAIN internal
    BY <1>0, <1>2, MapApply
  <2>2. tmpSessions' \in Maps(Uuids, DOMAIN internal)
    BY <1>0, <1>2, EraseType
  <2>3. internal' = [ses EXCEPT ![o] = [ses[o] EXCEPT !.heartbeat = Stopped(ses[o].heartbeat)]]
    BY <1>2, <2>1
  <2> HIDE DEF o
  <2>4. [ses[o] EXCEPT !.heartbeat = Stopped(ses[o].heartbeat)] \in InternalSessions
    BY <2>1 DEF InternalSessions, Stopped
  <2>5. internal' \in [DOMAIN internal -> InternalSessions]
    BY <2>1, <2>3, <2>4
  <2>6. \A x \in DOMAIN internal :
                 /\ internal'[x].principal = ses[x].principal
                 /\ internal'[x].uuid = ses[x].uuid
                 /\ ses[x].heartbeat = "timedOut" => internal'[x].heartbeat = "timedOut"
    BY <2>1, <2>3 DEF Stopped, InternalSessions
  <2> QED BY <1>0, <1>2, <2>2, <2>5, <2>6
<1>3. CASE u \notin Registered /\ internal' = ses /\ UNCHANGED maps
  BY <1>0, <1>3 DEF maps
<1> QED BY <1>1, <1>2, <1>3 DEF HandleSessionDisconnect

(* One step preserves the types.                                           *)
LEMMA SessionsTypeStep ==
    ASSUME SessionsInv, SessionsNext
    PROVE  SessionsTypeOK'
<1>0. /\ conn \in [Conns -> Connections]
      /\ DOMAIN internal \subseteq Conns
      /\ internal \in [DOMAIN internal -> InternalSessions]
      /\ sessions \in Maps(Uuids, DOMAIN internal)
      /\ tmpSessions \in Maps(Uuids, DOMAIN internal)
      /\ index \in [Principals -> SUBSET DOMAIN internal]
      /\ counts \in [Principals -> Nat]
      /\ asked \subseteq Uuids
      /\ \A c \in Conns : conn[c].uuid \in Uuids \cup {None}
      /\ \A o \in DOMAIN internal : internal[o].uuid \in Uuids
                                    /\ internal[o].ws \in Conns \cup {None}
  <2>1. SessionsTypeOK
    BY DEF SessionsInv
  <2> QED BY <2>1 DEF SessionsTypeOK, Connections, InternalSessions
<1>1. CASE EnableAuthorization
  <2>1. SessionsTypeOK
    BY DEF SessionsInv
  <2> QED BY <1>1, <2>1 DEF SessionsTypeOK, EnableAuthorization, maps
<1>2. SUFFICES ASSUME Serves, UNCHANGED config PROVE SessionsTypeOK'
  BY <1>1 DEF SessionsNext
<1>3. broadcast' \in BOOLEAN /\ authEnabled' \in BOOLEAN
  BY <1>2 DEF config, SessionsInv, SessionsTypeOK
<1>4. ASSUME conn' \in [Conns -> Connections],
             internal' \in [DOMAIN internal -> InternalSessions],
             sessions' \in Maps(Uuids, DOMAIN internal),
             tmpSessions' \in Maps(Uuids, DOMAIN internal),
             index' \in [Principals -> SUBSET DOMAIN internal],
             counts' \in [Principals -> Nat],
             asked' \subseteq Uuids
      PROVE  SessionsTypeOK'
  <2>1. DOMAIN internal' = DOMAIN internal
    BY <1>4
  <2> QED BY <1>0, <1>3, <1>4, <2>1 DEF SessionsTypeOK
<1>5. ASSUME NEW c \in Conns,
             Accept(c) \/ RefuseFirstFrame(c) \/ RateLimit(c)
                \/ \E u \in Uuids : IdentifyRefused(c, u)
      PROVE  SessionsTypeOK'
  <2>1. CASE Accept(c)
    <3>1. conn' \in [Conns -> Connections]
      BY <1>0, <2>1 DEF Accept, Connections
    <3> QED BY <1>0, <1>4, <2>1, <3>1 DEF Accept, maps
  <2>2. CASE RefuseFirstFrame(c)
    BY <1>0, <1>4, <2>2, ClosingType DEF RefuseFirstFrame, maps
  <2>3. CASE RateLimit(c)
    BY <1>0, <1>4, <2>3, ClosingType DEF RateLimit, maps
  <2>4. ASSUME NEW u \in Uuids, IdentifyRefused(c, u)
        PROVE  SessionsTypeOK'
    <3>1. conn' \in [Conns -> Connections]
      BY <1>0, <2>4, ClosingType, WithUuidType DEF IdentifyRefused
    <3> QED BY <1>0, <1>4, <2>4, <3>1 DEF IdentifyRefused, maps
  <2> QED BY <1>5, <2>1, <2>2, <2>3, <2>4
<1>6. ASSUME NEW c \in Conns, HandleReady(c) PROVE SessionsTypeOK'
  <2> DEFINE u == conn[c].uuid
             o == sessions[u]
  <2>1. o \in DOMAIN internal /\ internal' = [internal EXCEPT ![o].state = "Ready"]
    BY <1>0, <1>6, MapApply DEF HandleReady
  <2> HIDE DEF o
  <2>2. internal' \in [DOMAIN internal -> InternalSessions]
    BY <1>0, <2>1 DEF InternalSessions
  <2> QED BY <1>0, <1>4, <1>6, <2>2 DEF HandleReady, maps
<1>7. ASSUME NEW c \in Conns, OnClose(c) PROVE SessionsTypeOK'
  <2>1. conn' \in [Conns -> Connections]
    BY <1>0, <1>7 DEF OnClose, Connections
  <2>2. CASE UNCHANGED <<internal, maps>>
    BY <1>0, <1>4, <1>7, <2>1, <2>2 DEF OnClose, maps
  <2>3. CASE HandleSessionDisconnect(conn[c].uuid, internal)
    BY <1>0, <1>4, <1>7, <2>1, <2>3, DisconnectType DEF OnClose
  <2> QED BY <1>7, <2>2, <2>3 DEF OnClose
<1>8. ASSUME NEW o \in Conns, HeartbeatTimeout(o) PROVE SessionsTypeOK'
  <2> DEFINE ses == [internal EXCEPT ![o].heartbeat = "timedOut"]
  <2>1. /\ ses \in [DOMAIN internal -> InternalSessions]
        /\ \A x \in DOMAIN internal : ses[x].principal = internal[x].principal
    BY <1>0, <1>8 DEF HeartbeatTimeout, InternalSessions
  <2>2. HandleSessionDisconnect(internal[o].uuid, ses)
    BY <1>8 DEF HeartbeatTimeout
  <2> HIDE DEF ses
  <2> QED BY <1>0, <1>4, <1>8, <2>1, <2>2, DisconnectType DEF HeartbeatTimeout
<1>9. ASSUME NEW c \in Conns, HandleAuth(c) PROVE SessionsTypeOK'
  <2>1. asked' \subseteq Uuids
    BY <1>0, <1>9, MapApply DEF HandleAuth
  <2> QED BY <1>0, <1>4, <1>9, <2>1 DEF HandleAuth, maps
<1>10. ASSUME NEW c \in Conns, NEW u \in Uuids, IdentifyExisting(c, u)
       PROVE  SessionsTypeOK'
  <2> DEFINE o == sessions[u]
             p == Effective(internal[o].principal)
  <2>1. o \in DOMAIN internal /\ p \in Principals
    BY <1>0, <1>10, MapApply, EffectiveType DEF IdentifyExisting, SessionsInv
  <2>2. conn' \in [Conns -> Connections]
    BY <1>0, <1>10, <2>1, ClosingType, WithUuidType DEF IdentifyExisting
  <2>3. CASE /\ authEnabled
             /\ internal' = [internal EXCEPT ![o] = Resumed(@, c)]
             /\ tmpSessions' = Put(tmpSessions, u, o)
             /\ sessions' = Erase(sessions, u)
             /\ UNCHANGED <<index, counts>>
    <3>1. internal' \in [DOMAIN internal -> InternalSessions]
      <4> HIDE DEF o
      <4> QED BY <1>0, <2>1, <2>3, ResumedType
    <3> QED BY <1>0, <1>4, <1>10, <2>1, <2>2, <2>3, <3>1, PutType, EraseType
            DEF IdentifyExisting
  <2>4. CASE /\ ~authEnabled
             /\ internal' = [internal EXCEPT ![o] =
                               [Resumed(@, c) EXCEPT !.state = "Synchronizing"]]
             /\ Activate(o, internal[o].principal)
             /\ UNCHANGED <<sessions, tmpSessions>>
    <3>1. counts' = [counts EXCEPT ![p] = counts[p] + 1]
          /\ index' = [index EXCEPT ![p] = index[p] \cup {o}]
      BY <2>4 DEF Activate
    <3> HIDE DEF o, p
    <3>2. internal' \in [DOMAIN internal -> InternalSessions]
      BY <1>0, <2>1, <2>4, ResumedType, SynchronizingType
    <3>3. counts' \in [Principals -> Nat] /\ index' \in [Principals -> SUBSET DOMAIN internal]
      BY <1>0, <2>1, <3>1
    <3> QED BY <1>0, <1>4, <1>10, <2>2, <2>4, <3>2, <3>3 DEF IdentifyExisting
  <2> QED BY <1>10, <2>3, <2>4 DEF IdentifyExisting
<1>11. ASSUME NEW c \in Conns, NEW u \in Uuids, IdentifyNew(c, u)
       PROVE  SessionsTypeOK'
  <2> DEFINE fresh == [uuid |-> u, ws |-> c, connected |-> TRUE, heartbeat |-> "running",
                       state |-> "Pending", principal |-> None]
             started == [fresh EXCEPT !.state = "Synchronizing",
                                      !.principal = DefaultPrincipal]
             D == DOMAIN internal \cup {c}
  <2>1. conn' \in [Conns -> Connections]
    BY <1>0, <1>11, WithUuidType DEF IdentifyNew
  <2>2. fresh \in InternalSessions /\ started \in InternalSessions
    BY SessionsAssumption DEF InternalSessions
  <2>3. internal' = Put(internal, c, fresh) \/ internal' = Put(internal, c, started)
    BY <1>11 DEF IdentifyNew
  <2>4. internal' \in [D -> InternalSessions] /\ DOMAIN internal' = D
    <3> HIDE DEF fresh, started
    <3> QED BY <1>0, <2>2, <2>3 DEF Put
  <2>5. sessions' \in Maps(Uuids, D) /\ tmpSessions' \in Maps(Uuids, D)
    <3>1. sessions \in Maps(Uuids, D) /\ tmpSessions \in Maps(Uuids, D)
      BY <1>0, MapsGrow
    <3>2. (sessions' = sessions \/ sessions' = Put(sessions, u, c))
          /\ (tmpSessions' = tmpSessions \/ tmpSessions' = Put(tmpSessions, u, c))
      BY <1>11 DEF IdentifyNew
    <3>3. c \in D
      OBVIOUS
    <3> HIDE DEF D
    <3> QED BY <3>1, <3>2, <3>3, PutType
  <2>6. index' \in [Principals -> SUBSET D] /\ counts' \in [Principals -> Nat]
    <3>1. \/ UNCHANGED <<index, counts>>
          \/ /\ index' = [index EXCEPT ![DefaultPrincipal] = @ \cup {c}]
             /\ counts' = [counts EXCEPT ![DefaultPrincipal] = @ + 1]
      BY <1>11 DEF IdentifyNew
    <3> QED BY <1>0, <3>1, SessionsAssumption
  <2>7. D \subseteq Conns
    BY <1>0
  <2> HIDE DEF D
  <2> QED BY <1>0, <1>3, <1>11, <2>1, <2>4, <2>5, <2>6, <2>7 DEF SessionsTypeOK, IdentifyNew
<1>12. ASSUME NEW u \in Uuids, NEW p \in Principals, Authorize(u, p)
       PROVE  SessionsTypeOK'
  <2>1. asked' \subseteq Uuids /\ conn' = conn
    BY <1>0, <1>12 DEF Authorize
  <2>2. CASE u \in DOMAIN tmpSessions
    <3> DEFINE o == tmpSessions[u]
    <3>1. o \in DOMAIN internal /\ Effective(p) \in Principals
      BY <1>0, <2>2, MapApply, EffectiveType
    <3>2. /\ internal' = [internal EXCEPT ![o].principal = p,
                                          ![o].state = "Synchronizing"]
          /\ sessions' = Put(sessions, u, o)
          /\ tmpSessions' = Erase(tmpSessions, u)
          /\ counts' = [counts EXCEPT ![Effective(p)] = @ + 1]
          /\ index' = [index EXCEPT ![Effective(p)] = @ \cup {o}]
      BY <1>12, <2>2 DEF Authorize, Activate
    <3> HIDE DEF o
    <3>3. internal' \in [DOMAIN internal -> InternalSessions]
      BY <1>0, <3>1, <3>2 DEF InternalSessions
    <3>4. counts' \in [Principals -> Nat] /\ index' \in [Principals -> SUBSET DOMAIN internal]
      BY <1>0, <3>1, <3>2
    <3> QED BY <1>0, <1>4, <2>1, <3>1, <3>2, <3>3, <3>4, PutType, EraseType
  <2>3. CASE u \notin DOMAIN tmpSessions
    BY <1>0, <1>4, <1>12, <2>1, <2>3 DEF Authorize, maps
  <2> QED BY <2>2, <2>3
<1>13. ASSUME NEW u \in Uuids, Reject(u) PROVE SessionsTypeOK'
  <2>1. conn' \in [Conns -> Connections]
    BY <1>0, <1>13, MapApply, ClosingType DEF Reject
  <2> QED BY <1>0, <1>4, <1>13, <2>1, EraseType DEF Reject
<1>14. CASE ServerClose
  <2>1. conn' \in [Conns -> Connections]
    BY <1>0, <1>14 DEF ServerClose, Connections
  <2>2. internal' \in [DOMAIN internal -> InternalSessions]
    BY <1>0, <1>14, DroppedType DEF ServerClose
  <2>3. index' \in [Principals -> SUBSET DOMAIN internal]
    BY <1>14 DEF ServerClose
  <2> QED BY <1>0, <1>4, <1>14, <2>1, <2>2, <2>3, EmptyType DEF ServerClose
<1> QED BY <1>2, <1>5, <1>6, <1>7, <1>8, <1>9, <1>10, <1>11, <1>12, <1>13, <1>14 DEF Serves

-----------------------------------------------------------------------------
(* The registered sessions.                                                *)

(* o serves the client u: it was created for it, its heartbeat runs, and   *)
(* it has a connection of that client that is not closed yet.              *)
Watched(u, o) ==
    /\ internal[o].uuid = u /\ internal[o].connected /\ internal[o].heartbeat = "running"
    /\ internal[o].ws # None /\ conn[internal[o].ws].uuid = u
    /\ conn[internal[o].ws].status \in {"open", "closing"}

(* What SessionsInv says of the registered sessions, map by map.           *)
WatchedMaps ==
    /\ DOMAIN sessions \cap DOMAIN tmpSessions = {}
    /\ \A u \in DOMAIN sessions : Watched(u, sessions[u])
    /\ \A u \in DOMAIN tmpSessions : Watched(u, tmpSessions[u])
    /\ \A o \in DOMAIN internal : conn[o].uuid # None
    /\ \A u \in DOMAIN sessions : internal[sessions[u]].principal \in Principals
    /\ ~authEnabled => DOMAIN tmpSessions = {}

(* The invariant says of every registered session that it is watched.      *)
LEMMA WatchedParts == SessionsInv => WatchedMaps
BY DEF SessionsInv, OneSessionPerUuid, RegisteredIsWatched, Registered, SessionAt,
       WatchedMaps, Watched

(* handleSessionDisconnect for u leaves the sessions of the other clients  *)
(* as they are: none of them is the session of u.                          *)
LEMMA DisconnectWatched ==
    ASSUME SessionsInv, NEW u,
           NEW ses \in [DOMAIN internal -> InternalSessions],
           \A o \in DOMAIN internal :
              /\ ses[o].principal = internal[o].principal
              /\ internal[o].uuid # u => ses[o] = internal[o],
           conn' \in [Conns -> Connections],
           \A c \in Conns :
              /\ conn'[c].uuid = conn[c].uuid
              /\ conn[c].uuid # u => conn'[c] = conn[c],
           UNCHANGED config,
           HandleSessionDisconnect(u, ses)
    PROVE  WatchedMaps'
<1>0. /\ WatchedMaps
      /\ DOMAIN internal \subseteq Conns
      /\ internal \in [DOMAIN internal -> InternalSessions]
      /\ \A v \in DOMAIN sessions : v \in Uuids /\ sessions[v] \in DOMAIN internal
      /\ \A v \in DOMAIN tmpSessions : v \in Uuids /\ tmpSessions[v] \in DOMAIN internal
      /\ \A o \in DOMAIN internal : internal[o].ws \in Conns \cup {None}
  <2>1. SessionsTypeOK
    BY DEF SessionsInv
  <2>2. \A v \in DOMAIN sessions : v \in Uuids /\ sessions[v] \in DOMAIN internal
    BY <2>1, MapApply DEF SessionsTypeOK
  <2>3. \A v \in DOMAIN tmpSessions : v \in Uuids /\ tmpSessions[v] \in DOMAIN internal
    BY <2>1, MapApply DEF SessionsTypeOK
  <2> QED BY <2>1, <2>2, <2>3, WatchedParts DEF SessionsTypeOK, InternalSessions
<1>1. /\ internal' \in [DOMAIN internal -> InternalSessions]
      /\ \A o \in DOMAIN internal : internal'[o].principal = internal[o].principal
  BY DisconnectType
<1>2. /\ DOMAIN sessions' = DOMAIN sessions \ {u}
      /\ DOMAIN tmpSessions' = DOMAIN tmpSessions \ {u}
      /\ \A v \in DOMAIN sessions \ {u} : sessions'[v] = sessions[v]
      /\ \A v \in DOMAIN tmpSessions \ {u} : tmpSessions'[v] = tmpSessions[v]
      /\ \A o \in DOMAIN internal : internal[o].uuid # u => internal'[o] = internal[o]
  <2>1. CASE /\ u \in DOMAIN sessions
             /\ internal' = [ses EXCEPT ![sessions[u]] = Dropped(@)]
             /\ sessions' = Erase(sessions, u)
             /\ UNCHANGED tmpSessions
    <3>1. internal[sessions[u]].uuid = u /\ u \notin DOMAIN tmpSessions
      BY <1>0, <2>1 DEF WatchedMaps, Watched
    <3>2. \A o \in DOMAIN internal : internal[o].uuid # u => internal'[o] = internal[o]
      BY <1>0, <2>1, <3>1
    <3>3. /\ DOMAIN sessions' = DOMAIN sessions \ {u}
          /\ \A v \in DOMAIN sessions \ {u} : sessions'[v] = sessions[v]
      BY <2>1 DEF Erase
    <3>4. DOMAIN tmpSessions = DOMAIN tmpSessions \ {u}
      BY <3>1
    <3> QED BY <2>1, <3>2, <3>3, <3>4
  <2>2. CASE /\ u \notin DOMAIN sessions /\ u \in DOMAIN tmpSessions
             /\ internal' = [ses EXCEPT ![tmpSessions[u]].heartbeat = Stopped(@)]
             /\ tmpSessions' = Erase(tmpSessions, u)
             /\ UNCHANGED sessions
    <3>1. internal[tmpSessions[u]].uuid = u
      BY <1>0, <2>2 DEF WatchedMaps, Watched
    <3>2. \A o \in DOMAIN internal : internal[o].uuid # u => internal'[o] = internal[o]
      BY <1>0, <2>2, <3>1
    <3>3. /\ DOMAIN tmpSessions' = DOMAIN tmpSessions \ {u}
          /\ \A v \in DOMAIN tmpSessions \ {u} : tmpSessions'[v] = tmpSessions[v]
      BY <2>2 DEF Erase
    <3>4. DOMAIN sessions = DOMAIN sessions \ {u}
      BY <2>2
    <3> QED BY <2>2, <3>2, <3>3, <3>4
  <2>3. CASE u \notin Registered /\ internal' = ses /\ UNCHANGED maps
    BY <2>3 DEF Registered, maps
  <2> QED BY <2>1, <2>2, <2>3 DEF HandleSessionDisconnect
<1>3. ASSUME NEW v \in Uuids, v # u, NEW o \in DOMAIN internal, Watched(v, o)
      PROVE  Watched(v, o)'
  BY <1>0, <1>2, <1>3 DEF Watched
<1>4. \A v \in DOMAIN sessions' : Watched(v, sessions[v])'
  BY <1>0, <1>2, <1>3 DEF WatchedMaps
<1>5. \A v \in DOMAIN tmpSessions' : Watched(v, tmpSessions[v])'
  BY <1>0, <1>2, <1>3 DEF WatchedMaps
<1>6. \A o \in DOMAIN internal' : conn'[o].uuid # None
  BY <1>0, <1>1 DEF WatchedMaps
<1>7. \A v \in DOMAIN sessions' : internal'[sessions'[v]].principal \in Principals
  BY <1>0, <1>1, <1>2 DEF WatchedMaps
<1>8. authEnabled' = authEnabled
  BY DEF config
<1> QED BY <1>0, <1>2, <1>4, <1>5, <1>6, <1>7, <1>8 DEF WatchedMaps

(* One step keeps every registered session watched.                        *)
LEMMA WatchedStep ==
    ASSUME SessionsInv, SessionsNext, SessionsTypeOK'
    PROVE  WatchedMaps'
<1>0. /\ WatchedMaps
      /\ conn \in [Conns -> Connections] /\ conn' \in [Conns -> Connections]
      /\ DOMAIN internal \subseteq Conns /\ None \notin Conns /\ None \notin Uuids
      /\ internal \in [DOMAIN internal -> InternalSessions]
      /\ \A v \in DOMAIN sessions : v \in Uuids /\ sessions[v] \in DOMAIN internal
      /\ \A v \in DOMAIN tmpSessions : v \in Uuids /\ tmpSessions[v] \in DOMAIN internal
      /\ \A o \in DOMAIN internal : internal[o].ws \in Conns \cup {None}
  <2>1. SessionsTypeOK
    BY DEF SessionsInv
  <2>2. \A v \in DOMAIN sessions : v \in Uuids /\ sessions[v] \in DOMAIN internal
    BY <2>1, MapApply DEF SessionsTypeOK
  <2>3. \A v \in DOMAIN tmpSessions : v \in Uuids /\ tmpSessions[v] \in DOMAIN internal
    BY <2>1, MapApply DEF SessionsTypeOK
  <2> QED BY <2>1, <2>2, <2>3, WatchedParts, SessionsAssumption
          DEF SessionsTypeOK, InternalSessions
<1>1. CASE EnableAuthorization
  BY <1>0, <1>1 DEF EnableAuthorization, maps, WatchedMaps, Watched
<1>2. SUFFICES ASSUME Serves, UNCHANGED config PROVE WatchedMaps'
  BY <1>1 DEF SessionsNext
<1>3. authEnabled' = authEnabled
  BY <1>2 DEF config
(* The connections' ids are kept, and no watched connection is closed.     *)
<1>4. ASSUME \A x \in Conns :
                /\ conn[x].uuid # None => conn'[x].uuid = conn[x].uuid
                /\ conn[x].status \in {"open", "closing"}
                      => conn'[x].status \in {"open", "closing"},
             DOMAIN internal' = DOMAIN internal,
             \A o \in DOMAIN internal :
                /\ internal'[o].uuid = internal[o].uuid
                /\ internal'[o].connected = internal[o].connected
                /\ internal'[o].heartbeat = internal[o].heartbeat
                /\ internal'[o].ws = internal[o].ws
                /\ internal'[o].principal = internal[o].principal,
             sessions' = sessions,
             DOMAIN tmpSessions' \subseteq DOMAIN tmpSessions,
             \A v \in DOMAIN tmpSessions' : tmpSessions'[v] = tmpSessions[v]
      PROVE  WatchedMaps'
  <2>1. ASSUME NEW v \in Uuids, NEW o \in DOMAIN internal, Watched(v, o)
        PROVE  Watched(v, o)'
    BY <1>0, <1>4, <2>1 DEF Watched
  <2>2. \A v \in DOMAIN sessions' : Watched(v, sessions[v])'
    BY <1>0, <1>4, <2>1 DEF WatchedMaps
  <2>3. \A v \in DOMAIN tmpSessions' : Watched(v, tmpSessions[v])'
    BY <1>0, <1>4, <2>1 DEF WatchedMaps
  <2>4. \A o \in DOMAIN internal' : conn'[o].uuid # None
    BY <1>0, <1>4 DEF WatchedMaps
  <2>5. \A v \in DOMAIN sessions' : internal'[sessions'[v]].principal \in Principals
    BY <1>0, <1>4 DEF WatchedMaps
  <2> QED BY <1>0, <1>3, <1>4, <2>2, <2>3, <2>4, <2>5 DEF WatchedMaps
<1>5. ASSUME NEW c \in Conns,
             Accept(c) \/ RefuseFirstFrame(c) \/ RateLimit(c) \/ HandleAuth(c)
      PROVE  WatchedMaps'
  <2>1. /\ UNCHANGED <<internal, sessions, tmpSessions>>
    BY <1>5 DEF Accept, RefuseFirstFrame, RateLimit, HandleAuth, maps
  <2>2. \A x \in Conns :
                /\ conn'[x].uuid = conn[x].uuid
                /\ conn[x].status \in {"open", "closing"}
                      => conn'[x].status \in {"open", "closing"}
    <3>1. CASE Accept(c)
      BY <1>0, <3>1 DEF Accept, Connections
    <3>2. CASE RefuseFirstFrame(c) \/ RateLimit(c)
      BY <1>0, <3>2, ClosingType DEF RefuseFirstFrame, RateLimit
    <3>3. CASE HandleAuth(c)
      BY <3>3 DEF HandleAuth
    <3> QED BY <1>5, <3>1, <3>2, <3>3
  <2> QED BY <1>4, <2>1, <2>2
<1>6. ASSUME NEW c \in Conns, NEW u \in Uuids, IdentifyRefused(c, u)
      PROVE  WatchedMaps'
  <2>1. UNCHANGED <<internal, sessions, tmpSessions>> /\ conn[c].uuid = None
        /\ conn' = Closing(WithUuid(c, u), c)
    BY <1>6 DEF IdentifyRefused, NotIdentified, maps
  <2>2. /\ WithUuid(c, u) \in [Conns -> Connections]
        /\ \A x \in Conns :
                /\ conn[x].uuid # None => WithUuid(c, u)[x].uuid = conn[x].uuid
                /\ WithUuid(c, u)[x].status = conn[x].status
    BY <1>0, <2>1, WithUuidType
  <2>3. \A x \in Conns :
                /\ conn[x].uuid # None => conn'[x].uuid = conn[x].uuid
                /\ conn[x].status \in {"open", "closing"}
                      => conn'[x].status \in {"open", "closing"}
    <3> DEFINE cs == WithUuid(c, u)
    <3> HIDE DEF cs
    <3>1. \A x \in Conns :
                 /\ conn'[x].uuid = cs[x].uuid
                 /\ \/ conn'[x].status = cs[x].status
                    \/ cs[x].status = "open" /\ conn'[x].status = "closing"
      BY <2>1, <2>2, ClosingType DEF cs
    <3> QED BY <2>2, <3>1 DEF cs
  <2> QED BY <1>4, <2>1, <2>3
<1>7. ASSUME NEW c \in Conns, HandleReady(c) PROVE WatchedMaps'
  <2> DEFINE o == sessions[conn[c].uuid]
  <2>1. /\ internal' = [internal EXCEPT ![o].state = "Ready"]
        /\ UNCHANGED <<conn, sessions, tmpSessions>>
    BY <1>7 DEF HandleReady, maps
  <2> HIDE DEF o
  <2>2. \A x \in DOMAIN internal :
                /\ internal'[x].uuid = internal[x].uuid
                /\ internal'[x].connected = internal[x].connected
                /\ internal'[x].heartbeat = internal[x].heartbeat
                /\ internal'[x].ws = internal[x].ws
                /\ internal'[x].principal = internal[x].principal
    BY <1>0, <2>1 DEF InternalSessions
  <2>3. DOMAIN internal' = DOMAIN internal
    BY <1>0, <2>1
  <2> QED BY <1>4, <2>1, <2>2, <2>3
<1>8. ASSUME NEW u \in Uuids, Reject(u) PROVE WatchedMaps'
  <2>1. UNCHANGED <<internal, sessions>>
    BY <1>8 DEF Reject
  <2>2. /\ DOMAIN tmpSessions' \subseteq DOMAIN tmpSessions
        /\ \A v \in DOMAIN tmpSessions' : tmpSessions'[v] = tmpSessions[v]
    BY <1>8 DEF Reject, Erase
  <2>3. \A x \in Conns :
                /\ conn[x].uuid # None => conn'[x].uuid = conn[x].uuid
                /\ conn[x].status \in {"open", "closing"}
                      => conn'[x].status \in {"open", "closing"}
    <3>1. CASE UNCHANGED conn
      BY <3>1
    <3>2. CASE u \in DOMAIN tmpSessions /\ conn' = Closing(conn, internal[tmpSessions[u]].ws)
      <4>1. internal[tmpSessions[u]].ws \in Conns \cup {None}
        BY <1>0, <3>2
      <4> QED BY <1>0, <3>2, <4>1, ClosingType
    <3> QED BY <1>8, <3>1, <3>2 DEF Reject
  <2> QED BY <1>4, <2>1, <2>2, <2>3
<1>9. ASSUME NEW c \in Conns, OnClose(c) PROVE WatchedMaps'
  <2>1. \A x \in Conns : /\ conn'[x].uuid = conn[x].uuid
                         /\ x # c => conn'[x] = conn[x]
    BY <1>0, <1>9 DEF OnClose, Connections
  <2>2. CASE HandleSessionDisconnect(conn[c].uuid, internal)
    BY <1>0, <1>2, <2>1, <2>2, DisconnectWatched
  <2>3. CASE conn[c].uuid = None /\ UNCHANGED <<internal, maps>>
    <3>1. ASSUME NEW v \in Uuids, NEW o \in DOMAIN internal, Watched(v, o)
          PROVE  Watched(v, o)'
      BY <1>0, <2>1, <2>3, <3>1 DEF Watched
    <3> QED BY <1>0, <1>3, <2>1, <2>3, <3>1 DEF WatchedMaps, maps
  <2> QED BY <1>9, <2>2, <2>3 DEF OnClose
<1>10. ASSUME NEW o \in Conns, HeartbeatTimeout(o) PROVE WatchedMaps'
  <2> DEFINE ses == [internal EXCEPT ![o].heartbeat = "timedOut"]
             u == internal[o].uuid
  <2>1. /\ ses \in [DOMAIN internal -> InternalSessions]
        /\ \A x \in DOMAIN internal :
              /\ ses[x].principal = internal[x].principal
              /\ internal[x].uuid # u => ses[x] = internal[x]
    <3>1. o \in DOMAIN internal
      BY <1>10 DEF HeartbeatTimeout
    <3>2. \A x \in DOMAIN internal : internal[x].uuid # u => ses[x] = internal[x]
      BY <1>0
    <3>3. /\ ses \in [DOMAIN internal -> InternalSessions]
          /\ \A x \in DOMAIN internal : ses[x].principal = internal[x].principal
      BY <1>0, <3>1 DEF InternalSessions
    <3> QED BY <3>2, <3>3
  <2>2. HandleSessionDisconnect(u, ses) /\ UNCHANGED conn
    BY <1>10 DEF HeartbeatTimeout
  <2> HIDE DEF ses, u
  <2> QED BY <1>0, <1>2, <2>1, <2>2, DisconnectWatched
<1>11. ASSUME NEW c \in Conns, NEW u \in Uuids, IdentifyExisting(c, u)
       PROVE  WatchedMaps'
  <2>0. PICK o \in DOMAIN internal : o = sessions[u]
    BY <1>0, <1>11 DEF IdentifyExisting
  <2>1. /\ o \in DOMAIN internal /\ u \in DOMAIN sessions /\ u \notin DOMAIN tmpSessions
        /\ internal[o].uuid = u /\ internal[o].principal \in Principals
        /\ conn[c].uuid = None /\ conn[c].status = "open"
        /\ conn' = Closing(WithUuid(c, u), internal[o].ws)
    BY <1>0, <1>11, <2>0 DEF IdentifyExisting, NotIdentified, IsOpen, WatchedMaps, Watched
  <2>2. /\ WithUuid(c, u) \in [Conns -> Connections]
        /\ WithUuid(c, u)[c].uuid = u /\ WithUuid(c, u)[c].status = "open"
        /\ \A x \in Conns : x # c => WithUuid(c, u)[x] = conn[x]
    BY <1>0, <2>1, WithUuidType
  <2>3. /\ conn'[c].uuid = u /\ conn'[c].status \in {"open", "closing"}
        /\ \A x \in Conns : x # c =>
              /\ conn'[x].uuid = conn[x].uuid
              /\ conn[x].status \in {"open", "closing"}
                    => conn'[x].status \in {"open", "closing"}
    <3> DEFINE cs == WithUuid(c, u)
    <3> HIDE DEF cs
    <3>1. \A x \in Conns :
                 /\ conn'[x].uuid = cs[x].uuid
                 /\ \/ conn'[x].status = cs[x].status
                    \/ cs[x].status = "open" /\ conn'[x].status = "closing"
      <4>1. internal[o].ws \in Conns \cup {None}
        BY <1>0
      <4>2. cs \in [Conns -> Connections] /\ conn' = Closing(cs, internal[o].ws)
        BY <2>1, <2>2 DEF cs
      <4> QED BY <4>1, <4>2, ClosingType
    <3> QED BY <2>2, <3>1 DEF cs
  <2>4. /\ DOMAIN internal' = DOMAIN internal
        /\ \A x \in DOMAIN internal : x # o => internal'[x] = internal[x]
        /\ internal'[o].uuid = u /\ internal'[o].ws = c
        /\ internal'[o].connected /\ internal'[o].heartbeat = "running"
        /\ internal'[o].principal = internal[o].principal
    <3> DEFINE r == Resumed(internal[o], c)
    <3>1. internal' = [internal EXCEPT ![o] = r]
          \/ internal' = [internal EXCEPT ![o] = [r EXCEPT !.state = "Synchronizing"]]
      BY <1>11, <2>0 DEF IdentifyExisting
    <3>2. /\ r \in InternalSessions /\ r.uuid = u /\ r.ws = c
          /\ r.connected /\ r.heartbeat = "running" /\ r.principal = internal[o].principal
      BY <1>0, <2>1, ResumedType
    <3> HIDE DEF r
    <3>3. LET q == [r EXCEPT !.state = "Synchronizing"] IN
          /\ q.uuid = u /\ q.ws = c
          /\ q.connected /\ q.heartbeat = "running" /\ q.principal = internal[o].principal
      BY <3>2 DEF InternalSessions
    <3> QED BY <1>0, <2>1, <3>1, <3>2, <3>3
  <2>5. ASSUME NEW v \in Uuids, v # u, NEW x \in DOMAIN internal, Watched(v, x)
        PROVE  Watched(v, x)'
    <3>1. x # o /\ internal[x].ws # c
      BY <1>0, <2>1, <2>5 DEF Watched
    <3> QED BY <1>0, <2>3, <2>4, <2>5, <3>1 DEF Watched
  <2>6. Watched(u, o)'
    BY <1>0, <2>3, <2>4 DEF Watched
  <2>7. CASE /\ authEnabled /\ tmpSessions' = Put(tmpSessions, u, o)
             /\ sessions' = Erase(sessions, u)
    <3>1. /\ DOMAIN sessions' = DOMAIN sessions \ {u}
          /\ DOMAIN tmpSessions' = DOMAIN tmpSessions \cup {u}
          /\ \A v \in DOMAIN sessions' : v # u /\ sessions'[v] = sessions[v]
          /\ \A v \in DOMAIN tmpSessions : v # u => tmpSessions'[v] = tmpSessions[v]
          /\ tmpSessions'[u] = o
      BY <2>7 DEF Put, Erase
    <3>2. \A v \in DOMAIN sessions' : Watched(v, sessions[v])'
      BY <1>0, <2>5, <3>1 DEF WatchedMaps
    <3>3. Watched(u, tmpSessions[u])'
      BY <2>6, <3>1 DEF Watched
    <3>4. \A v \in DOMAIN tmpSessions' : Watched(v, tmpSessions[v])'
      BY <1>0, <2>5, <3>1, <3>3 DEF WatchedMaps
    <3>5. \A v \in DOMAIN sessions' : internal'[sessions'[v]].principal \in Principals
      BY <1>0, <2>1, <2>4, <3>1 DEF WatchedMaps
    <3>6. \A x \in DOMAIN internal' : conn'[x].uuid # None
      BY <1>0, <2>3, <2>4 DEF WatchedMaps
    <3>7. DOMAIN sessions' \cap DOMAIN tmpSessions' = {}
      BY <1>0, <3>1 DEF WatchedMaps
    <3> QED BY <1>3, <2>7, <3>2, <3>4, <3>5, <3>6, <3>7 DEF WatchedMaps
  <2>8. CASE ~authEnabled /\ UNCHANGED <<sessions, tmpSessions>>
    <3>1. Watched(u, sessions[u])'
      BY <2>0, <2>6, <2>8 DEF Watched
    <3>2. \A v \in DOMAIN sessions' : Watched(v, sessions[v])'
      BY <1>0, <2>5, <2>8, <3>1 DEF WatchedMaps
    <3>3. \A v \in DOMAIN tmpSessions' : Watched(v, tmpSessions[v])'
      BY <1>0, <2>8 DEF WatchedMaps
    <3>4. \A v \in DOMAIN sessions' : internal'[sessions'[v]].principal \in Principals
      BY <1>0, <2>1, <2>4, <2>8 DEF WatchedMaps
    <3>5. \A x \in DOMAIN internal' : conn'[x].uuid # None
      BY <1>0, <2>3, <2>4 DEF WatchedMaps
    <3> QED BY <1>0, <1>3, <2>8, <3>2, <3>3, <3>4, <3>5 DEF WatchedMaps
  <2> QED BY <1>11, <2>0, <2>7, <2>8 DEF IdentifyExisting
<1>12. ASSUME NEW c \in Conns, NEW u \in Uuids, IdentifyNew(c, u)
       PROVE  WatchedMaps'
  <2>1. /\ u \notin DOMAIN sessions /\ c \notin DOMAIN internal
        /\ conn[c].uuid = None /\ conn[c].status = "open"
        /\ conn' = WithUuid(c, u)
    BY <1>0, <1>12 DEF IdentifyNew, NotIdentified, IsOpen, WatchedMaps
  <2>2. /\ conn'[c].uuid = u /\ conn'[c].status = "open"
        /\ \A x \in Conns : x # c => conn'[x] = conn[x]
    BY <1>0, <2>1, WithUuidType
  <2>3. /\ DOMAIN internal' = DOMAIN internal \cup {c}
        /\ \A x \in DOMAIN internal : x # c /\ internal'[x] = internal[x]
        /\ internal'[c].uuid = u /\ internal'[c].ws = c
        /\ internal'[c].connected /\ internal'[c].heartbeat = "running"
        /\ ~authEnabled => internal'[c].principal = DefaultPrincipal
    <3> DEFINE fresh == [uuid |-> u, ws |-> c, connected |-> TRUE, heartbeat |-> "running",
                         state |-> "Pending", principal |-> None]
               started == [fresh EXCEPT !.state = "Synchronizing",
                                        !.principal = DefaultPrincipal]
    <3>1. PICK s : /\ internal' = Put(internal, c, s)
                   /\ s = IF authEnabled THEN fresh ELSE started
      BY <1>12 DEF IdentifyNew
    <3>2. /\ s.uuid = u /\ s.ws = c /\ s.connected /\ s.heartbeat = "running"
          /\ ~authEnabled => s.principal = DefaultPrincipal
      BY <3>1
    <3> HIDE DEF fresh, started
    <3>3. /\ DOMAIN internal' = DOMAIN internal \cup {c} /\ internal'[c] = s
          /\ \A x \in DOMAIN internal : x # c => internal'[x] = internal[x]
      BY <3>1 DEF Put
    <3> QED BY <2>1, <3>2, <3>3
  <2>4. ASSUME NEW v \in Uuids, NEW x \in DOMAIN internal, Watched(v, x)
        PROVE  Watched(v, x)'
    <3>1. internal[x].ws # c
      BY <1>0, <2>1, <2>4 DEF Watched
    <3> QED BY <1>0, <2>2, <2>3, <2>4, <3>1 DEF Watched
  <2>5. Watched(u, c)'
    BY <1>0, <2>2, <2>3 DEF Watched
  <2>6. \A x \in DOMAIN internal' : conn'[x].uuid # None
    BY <1>0, <2>2, <2>3 DEF WatchedMaps
  <2>7. CASE authEnabled /\ tmpSessions' = Put(tmpSessions, u, c) /\ UNCHANGED sessions
    <3>1. /\ DOMAIN tmpSessions' = DOMAIN tmpSessions \cup {u}
          /\ \A v \in DOMAIN tmpSessions : v # u => tmpSessions'[v] = tmpSessions[v]
          /\ tmpSessions'[u] = c
      BY <2>7 DEF Put
    <3>2. \A v \in DOMAIN sessions' : Watched(v, sessions[v])'
      BY <1>0, <2>4, <2>7 DEF WatchedMaps
    <3>3. Watched(u, tmpSessions[u])'
      BY <2>5, <3>1 DEF Watched
    <3>4. \A v \in DOMAIN tmpSessions' : Watched(v, tmpSessions[v])'
      BY <1>0, <2>4, <3>1, <3>3 DEF WatchedMaps
    <3>5. \A v \in DOMAIN sessions' : internal'[sessions'[v]].principal \in Principals
      BY <1>0, <2>3, <2>7 DEF WatchedMaps
    <3>6. DOMAIN sessions' \cap DOMAIN tmpSessions' = {}
      BY <1>0, <2>1, <2>7, <3>1 DEF WatchedMaps
    <3> QED BY <1>3, <2>6, <2>7, <3>2, <3>4, <3>5, <3>6 DEF WatchedMaps
  <2>8. CASE ~authEnabled /\ sessions' = Put(sessions, u, c) /\ UNCHANGED tmpSessions
    <3>1. /\ DOMAIN sessions' = DOMAIN sessions \cup {u}
          /\ \A v \in DOMAIN sessions : v # u => sessions'[v] = sessions[v]
          /\ sessions'[u] = c
      BY <2>8 DEF Put
    <3>2. Watched(u, sessions[u])'
      BY <2>5, <3>1 DEF Watched
    <3>3. \A v \in DOMAIN sessions' : Watched(v, sessions[v])'
      BY <1>0, <2>4, <3>1, <3>2 DEF WatchedMaps
    <3>4. DOMAIN tmpSessions' = {}
      BY <1>0, <2>8 DEF WatchedMaps
    <3>5. \A v \in DOMAIN sessions' : internal'[sessions'[v]].principal \in Principals
      BY <1>0, <2>3, <2>8, <3>1, SessionsAssumption DEF WatchedMaps
    <3> QED BY <2>6, <3>3, <3>4, <3>5 DEF WatchedMaps
  <2> QED BY <1>12, <2>7, <2>8 DEF IdentifyNew
<1>13. ASSUME NEW u \in Uuids, NEW p \in Principals, Authorize(u, p)
       PROVE  WatchedMaps'
  <2>1. CASE u \notin DOMAIN tmpSessions
    <3>1. UNCHANGED <<internal, conn, sessions, tmpSessions>>
      BY <1>13, <2>1 DEF Authorize, maps
    <3> QED BY <1>4, <3>1
  <2>2. CASE u \in DOMAIN tmpSessions
    <3> DEFINE o == tmpSessions[u]
    <3>1. /\ o \in DOMAIN internal /\ Watched(u, o) /\ u \notin DOMAIN sessions
          /\ authEnabled
      BY <1>0, <2>2 DEF WatchedMaps
    <3>2. /\ conn' = conn
          /\ internal' = [internal EXCEPT ![o].principal = p,
                                          ![o].state = "Synchronizing"]
          /\ sessions' = Put(sessions, u, o)
          /\ tmpSessions' = Erase(tmpSessions, u)
      BY <1>13, <2>2 DEF Authorize
    <3> HIDE DEF o
    <3>3. /\ DOMAIN internal' = DOMAIN internal
          /\ \A x \in DOMAIN internal :
                /\ internal'[x].uuid = internal[x].uuid
                /\ internal'[x].connected = internal[x].connected
                /\ internal'[x].heartbeat = internal[x].heartbeat
                /\ internal'[x].ws = internal[x].ws
                /\ internal'[x].principal = IF x = o THEN p ELSE internal[x].principal
      BY <1>0, <3>1, <3>2 DEF InternalSessions
    <3>4. ASSUME NEW v \in Uuids, NEW x \in DOMAIN internal, Watched(v, x)
          PROVE  Watched(v, x)'
      BY <3>2, <3>3, <3>4 DEF Watched
    <3>5. /\ DOMAIN sessions' = DOMAIN sessions \cup {u}
          /\ DOMAIN tmpSessions' = DOMAIN tmpSessions \ {u}
          /\ \A v \in DOMAIN sessions : v # u => sessions'[v] = sessions[v]
          /\ \A v \in DOMAIN tmpSessions' : tmpSessions'[v] = tmpSessions[v]
          /\ sessions'[u] = o
      BY <3>2 DEF Put, Erase
    <3>6. \A v \in DOMAIN sessions' : Watched(v, sessions'[v])
      BY <1>0, <3>1, <3>5 DEF WatchedMaps
    <3>7. \A v \in DOMAIN sessions' : v \in Uuids /\ sessions'[v] \in DOMAIN internal
      BY <1>0, <3>1, <3>5
    <3>8. \A v \in DOMAIN sessions' : Watched(v, sessions[v])'
      BY <3>2, <3>3, <3>6, <3>7 DEF Watched
    <3>9. \A v \in DOMAIN tmpSessions' : Watched(v, tmpSessions[v])'
      BY <1>0, <3>4, <3>5 DEF WatchedMaps
    <3>10. \A v \in DOMAIN sessions' : internal'[sessions'[v]].principal \in Principals
      BY <1>0, <3>3, <3>5, <3>7 DEF WatchedMaps
    <3>11. \A x \in DOMAIN internal' : conn'[x].uuid # None
      BY <1>0, <3>2, <3>3 DEF WatchedMaps
    <3>12. DOMAIN sessions' \cap DOMAIN tmpSessions' = {}
      BY <1>0, <3>5 DEF WatchedMaps
    <3> QED BY <1>3, <3>1, <3>8, <3>9, <3>10, <3>11, <3>12 DEF WatchedMaps
  <2> QED BY <2>1, <2>2
<1>14. CASE ServerClose
  <2>1. DOMAIN sessions' = {} /\ DOMAIN tmpSessions' = {}
    BY <1>14 DEF ServerClose, EmptyMap
  <2>2. \A x \in Conns : conn'[x].uuid = conn[x].uuid
    BY <1>0, <1>14 DEF ServerClose, Connections
  <2>3. DOMAIN internal' = DOMAIN internal
    BY <1>14 DEF ServerClose
  <2> QED BY <1>0, <2>1, <2>2, <2>3 DEF WatchedMaps
<1> QED BY <1>2, <1>5, <1>6, <1>7, <1>8, <1>9, <1>10, <1>11, <1>12, <1>13, <1>14 DEF Serves

-----------------------------------------------------------------------------
(* The index and the counts of the principals.                             *)

(* The clients that have a session of principal p.                         *)
Served(p) == {u \in DOMAIN sessions : Effective(internal[sessions[u]].principal) = p}

(* The sessions of a principal can be counted.                             *)
LEMMA ServedFinite ==
    ASSUME SessionsTypeOK
    PROVE  /\ IsFiniteSet(DOMAIN sessions) /\ IsFiniteSet(DOMAIN tmpSessions)
           /\ Cardinality(DOMAIN sessions) \in Nat /\ Cardinality(DOMAIN tmpSessions) \in Nat
           /\ \A p \in Principals : IsFiniteSet(Served(p)) /\ Cardinality(Served(p)) \in Nat
<1>1. DOMAIN sessions \subseteq Uuids /\ DOMAIN tmpSessions \subseteq Uuids
  BY MapDomain DEF SessionsTypeOK
<1>2. \A p \in Principals : Served(p) \subseteq Uuids
  BY <1>1 DEF Served
<1> QED BY <1>1, <1>2, SessionsAssumption, FS_Subset, FS_CardinalityType

(* Sessions that leave, or stay as they are, do not disturb the index and  *)
(* the counts as long as nothing is taken out for those that stay.         *)
LEMMA FewerServed ==
    ASSUME SessionsInv, SessionsTypeOK',
           UNCHANGED config,
           DOMAIN sessions' \subseteq DOMAIN sessions,
           \A u \in DOMAIN sessions' :
              /\ sessions'[u] = sessions[u]
              /\ internal'[sessions[u]].principal = internal[sessions[u]].principal,
           \A u \in DOMAIN sessions', p \in Principals :
              sessions[u] \in index[p] => sessions[u] \in index'[p],
           \A p \in Principals :
              counts'[p] \in Nat /\ counts'[p] >= counts[p]
    PROVE  (SessionsAreIndexed /\ NeverUndercounted)'
<1>0. /\ SessionsTypeOK /\ SessionsAreIndexed /\ NeverUndercounted
      /\ \A u \in DOMAIN sessions : internal[sessions[u]].principal \in Principals
      /\ counts \in [Principals -> Nat]
  BY DEF SessionsInv, SessionsTypeOK
<1>1. \A p : Effective(p)' = Effective(p)
  BY DEF config, Effective
<1>2. \A u \in DOMAIN sessions : Effective(internal[sessions[u]].principal) \in Principals
  BY <1>0, EffectiveType
<1>3. SessionsAreIndexed'
  <2> SUFFICES ASSUME NEW u \in DOMAIN sessions'
               PROVE  sessions'[u] \in index'[Effective(internal[sessions[u]].principal)']
    BY DEF SessionsAreIndexed
  <2> QED BY <1>0, <1>1, <1>2 DEF SessionsAreIndexed, Effective, config
<1>4. NeverUndercounted'
  <2> SUFFICES ASSUME NEW p \in Principals
               PROVE  counts'[p] >= Cardinality(Served(p)')
    BY DEF NeverUndercounted, Served
  <2>1. Served(p)' \subseteq Served(p)
    BY DEF Served, Effective, config
  <2>2. Cardinality(Served(p)') <= Cardinality(Served(p))
    BY <1>0, <2>1, ServedFinite, FS_Subset
  <2>3. Cardinality(Served(p)) \in Nat /\ Cardinality(Served(p)') \in Nat
    BY <1>0, <2>1, ServedFinite, FS_Subset, FS_CardinalityType
  <2>4. counts[p] >= Cardinality(Served(p))
    BY <1>0 DEF NeverUndercounted, Served
  <2>5. counts[p] \in Nat /\ counts'[p] \in Nat /\ counts'[p] >= counts[p]
    BY <1>0
  <2> QED BY <2>2, <2>3, <2>4, <2>5
<1> QED BY <1>3, <1>4

(* A session that is entered for principal p, and counted, keeps the index *)
(* and the counts right.                                                   *)
LEMMA OneMoreServed ==
    ASSUME SessionsInv, SessionsTypeOK', UNCHANGED config,
           NEW u, NEW o, NEW p \in Principals,
           sessions' = Put(sessions, u, o),
           u \notin DOMAIN sessions,
           internal'[o].principal = p,
           \A v \in DOMAIN sessions :
              internal'[sessions[v]].principal = internal[sessions[v]].principal,
           index' = [index EXCEPT ![Effective(p)] = @ \cup {o}],
           counts' = [counts EXCEPT ![Effective(p)] = @ + 1]
    PROVE  (SessionsAreIndexed /\ NeverUndercounted)'
<1>0. /\ SessionsTypeOK /\ SessionsAreIndexed /\ NeverUndercounted
      /\ \A v \in DOMAIN sessions : internal[sessions[v]].principal \in Principals
      /\ counts \in [Principals -> Nat]
      /\ index \in [Principals -> SUBSET DOMAIN internal]
  BY DEF SessionsInv, SessionsTypeOK
<1>1. broadcast' = broadcast
  BY DEF config
<1>2. \A v \in DOMAIN sessions : Effective(internal[sessions[v]].principal) \in Principals
  BY <1>0, EffectiveType
<1>3. /\ DOMAIN sessions' = DOMAIN sessions \cup {u}
      /\ \A v \in DOMAIN sessions : sessions'[v] = sessions[v]
      /\ sessions'[u] = o
  BY DEF Put
<1>4. Effective(p) \in Principals
  BY EffectiveType
<1>5. SessionsAreIndexed'
  <2> SUFFICES ASSUME NEW v \in DOMAIN sessions'
               PROVE  sessions'[v] \in index'[Effective(internal[sessions[v]].principal)']
    BY DEF SessionsAreIndexed
  <2>1. CASE v = u
    <3>1. o \in index'[Effective(p)]
      BY <1>0, <1>4
    <3>2. Effective(internal[sessions[v]].principal)' = Effective(p)
      BY <1>1, <1>3, <2>1 DEF Effective
    <3> QED BY <1>3, <2>1, <3>1, <3>2
  <2>2. CASE v # u
    <3>1. v \in DOMAIN sessions
      BY <1>3, <2>2
    <3>2. Effective(internal[sessions[v]].principal)' = Effective(internal[sessions[v]].principal)
      BY <1>1, <1>3, <3>1 DEF Effective
    <3> QED BY <1>0, <1>2, <1>3, <1>4, <3>1, <3>2 DEF SessionsAreIndexed
  <2> QED BY <2>1, <2>2
<1>6. NeverUndercounted'
  <2> SUFFICES ASSUME NEW q \in Principals
               PROVE  counts'[q] >= Cardinality(Served(q)')
    BY DEF NeverUndercounted, Served
  <2>0. counts[q] >= Cardinality(Served(q))
    BY <1>0 DEF NeverUndercounted, Served
  <2>1. IsFiniteSet(Served(q)) /\ Cardinality(Served(q)) \in Nat
        /\ counts[q] >= Cardinality(Served(q)) /\ counts[q] \in Nat
    BY <1>0, <2>0, ServedFinite
  <2>2. u \notin Served(q)
    BY DEF Served
  <2>3. CASE q = Effective(p)
    <3>1. Served(q)' = Served(q) \cup {u}
      BY <1>1, <1>3, <2>3 DEF Served, Effective
    <3>2. Cardinality(Served(q)') = Cardinality(Served(q)) + 1
      BY <2>1, <2>2, <3>1, FS_AddElement
    <3>3. counts'[q] = counts[q] + 1
      BY <1>0, <2>3
    <3> QED BY <2>1, <3>2, <3>3
  <2>4. CASE q # Effective(p)
    <3>1. Served(q)' = Served(q)
      BY <1>1, <1>3, <2>4 DEF Served, Effective
    <3> QED BY <1>0, <2>1, <2>4, <3>1
  <2> QED BY <2>3, <2>4
<1> QED BY <1>5, <1>6

(* handleSessionDisconnect takes out and counts down the session it ends.  *)
LEMMA DisconnectServed ==
    ASSUME SessionsInv, SessionsTypeOK', UNCHANGED config, NEW u,
           NEW ses \in [DOMAIN internal -> InternalSessions],
           \A o \in DOMAIN internal : ses[o].principal = internal[o].principal,
           HandleSessionDisconnect(u, ses)
    PROVE  (SessionsAreIndexed /\ NeverUndercounted)'
<1>0. /\ SessionsTypeOK /\ SessionsAreIndexed /\ NeverUndercounted /\ WatchedMaps
      /\ \A v \in DOMAIN sessions : internal[sessions[v]].principal \in Principals
      /\ \A v \in DOMAIN sessions : sessions[v] \in DOMAIN internal
      /\ counts \in [Principals -> Nat]
      /\ index \in [Principals -> SUBSET DOMAIN internal]
  BY WatchedParts, MapApply DEF SessionsInv, SessionsTypeOK
<1>1. broadcast' = broadcast
  BY DEF config
<1>2. \A o \in DOMAIN internal : internal'[o].principal = internal[o].principal
  BY DisconnectType
<1>3. CASE UNCHANGED <<sessions, index, counts>>
  <2>1. \A v \in DOMAIN sessions' :
           /\ sessions'[v] = sessions[v]
           /\ internal'[sessions[v]].principal = internal[sessions[v]].principal
    BY <1>0, <1>2, <1>3
  <2>2. \A p \in Principals : counts'[p] \in Nat /\ counts'[p] >= counts[p]
    BY <1>0, <1>3
  <2> QED BY <1>3, <2>1, <2>2, FewerServed
<1>4. CASE /\ u \in DOMAIN sessions
           /\ LET o == sessions[u]
                  p == Effective(ses[o].principal)
              IN  /\ index' = [index EXCEPT ![p] = @ \ {o}]
                  /\ counts' = [counts EXCEPT ![p] = IF @ > 0 THEN @ - 1 ELSE 0]
           /\ sessions' = Erase(sessions, u)
  <2>1. PICK o \in DOMAIN internal, p \in Principals :
            o = sessions[u] /\ p = Effective(internal[o].principal)
    BY <1>0, <1>4, EffectiveType
  <2>2. /\ index' = [index EXCEPT ![p] = index[p] \ {o}]
        /\ counts' = [counts EXCEPT ![p] = IF counts[p] > 0 THEN counts[p] - 1 ELSE 0]
    BY <1>4, <2>1
  <2>3. /\ DOMAIN sessions' = DOMAIN sessions \ {u}
        /\ \A v \in DOMAIN sessions' : sessions'[v] = sessions[v]
    BY <1>4 DEF Erase
  <2>4. \A v \in DOMAIN sessions' :
            /\ Effective(internal[sessions[v]].principal)' = Effective(internal[sessions[v]].principal)
            /\ Effective(internal[sessions[v]].principal) \in Principals
            /\ sessions[v] # o
    <3> TAKE v \in DOMAIN sessions'
    <3>1. v \in DOMAIN sessions /\ v # u
      BY <2>3
    <3>2. sessions[v] # o
      BY <1>0, <1>4, <2>1, <3>1 DEF WatchedMaps, Watched
    <3> QED BY <1>0, <1>1, <1>2, <2>3, <3>1, <3>2, EffectiveType DEF Effective
  <2>5. SessionsAreIndexed'
    BY <1>0, <2>2, <2>3, <2>4 DEF SessionsAreIndexed
  <2>6. NeverUndercounted'
    <3> SUFFICES ASSUME NEW q \in Principals
                 PROVE  counts'[q] >= Cardinality(Served(q)')
      BY DEF NeverUndercounted, Served
    <3>0. counts[q] >= Cardinality(Served(q))
      BY <1>0 DEF NeverUndercounted, Served
    <3>1. IsFiniteSet(Served(q)) /\ Cardinality(Served(q)) \in Nat
          /\ counts[q] >= Cardinality(Served(q)) /\ counts[q] \in Nat
      BY <1>0, <3>0, ServedFinite
    <3>2. CASE q = p
      <4>1. Served(q)' = Served(q) \ {u} /\ u \in Served(q)
        BY <1>4, <2>1, <2>3, <2>4, <3>2 DEF Served
      <4>2. Cardinality(Served(q)') = Cardinality(Served(q)) - 1
        BY <3>1, <4>1, FS_RemoveElement
      <4> QED BY <1>0, <2>2, <3>1, <3>2, <4>2
    <3>3. CASE q # p
      <4>1. Served(q)' = Served(q)
        BY <1>4, <2>1, <2>3, <2>4, <3>3 DEF Served
      <4> QED BY <1>0, <2>2, <3>1, <3>3, <4>1
    <3> QED BY <3>2, <3>3
  <2> QED BY <2>5, <2>6
<1> QED BY <1>3, <1>4 DEF HandleSessionDisconnect, maps

(* One step keeps the index and the counts right.                          *)
LEMMA ServedStep ==
    ASSUME SessionsInv, SessionsNext, SessionsTypeOK'
    PROVE  (SessionsAreIndexed /\ NeverUndercounted)'
<1>0. /\ SessionsTypeOK /\ WatchedMaps
      /\ internal \in [DOMAIN internal -> InternalSessions]
      /\ counts \in [Principals -> Nat]
      /\ index \in [Principals -> SUBSET DOMAIN internal]
      /\ \A v \in DOMAIN sessions : v \in Uuids /\ sessions[v] \in DOMAIN internal
      /\ \A v \in DOMAIN tmpSessions : v \in Uuids /\ tmpSessions[v] \in DOMAIN internal
  BY WatchedParts, MapApply DEF SessionsInv, SessionsTypeOK
<1>1. CASE EnableAuthorization
  <2>1. UNCHANGED <<broadcast, internal, maps>>
    BY <1>1 DEF EnableAuthorization
  <2> QED BY <2>1 DEF maps, SessionsInv, SessionsAreIndexed, NeverUndercounted, Effective
<1>2. SUFFICES ASSUME Serves, UNCHANGED config
               PROVE  (SessionsAreIndexed /\ NeverUndercounted)'
  BY <1>1 DEF SessionsNext
<1>3. ASSUME \A o \in DOMAIN internal : internal'[o].principal = internal[o].principal,
             \/ DOMAIN sessions' = {}
             \/ /\ DOMAIN sessions' \subseteq DOMAIN sessions
                /\ \A u \in DOMAIN sessions' : sessions'[u] = sessions[u]
                /\ \A p \in Principals : index[p] \subseteq index'[p],
             \A p \in Principals : counts'[p] \in Nat /\ counts'[p] >= counts[p]
      PROVE  (SessionsAreIndexed /\ NeverUndercounted)'
  <2>1. /\ DOMAIN sessions' \subseteq DOMAIN sessions
        /\ \A u \in DOMAIN sessions' : sessions'[u] = sessions[u]
        /\ \A u \in DOMAIN sessions', p \in Principals :
              sessions[u] \in index[p] => sessions[u] \in index'[p]
    BY <1>3
  <2>2. \A u \in DOMAIN sessions' :
           /\ sessions'[u] = sessions[u]
           /\ internal'[sessions[u]].principal = internal[sessions[u]].principal
    BY <1>0, <1>3, <2>1
  <2> QED BY <1>2, <1>3, <2>1, <2>2, FewerServed
<1>4. \A p \in Principals : counts[p] \in Nat /\ counts[p] >= counts[p]
  BY <1>0
<1>5. CASE UNCHANGED <<internal, maps>>
  BY <1>3, <1>4, <1>5 DEF maps
<1>6. ASSUME NEW c \in Conns, HandleReady(c)
      PROVE  (SessionsAreIndexed /\ NeverUndercounted)'
  <2> DEFINE o == sessions[conn[c].uuid]
  <2>1. internal' = [internal EXCEPT ![o].state = "Ready"] /\ UNCHANGED maps
    BY <1>6 DEF HandleReady
  <2> HIDE DEF o
  <2>2. \A x \in DOMAIN internal : internal'[x].principal = internal[x].principal
    BY <1>0, <2>1 DEF InternalSessions
  <2> QED BY <1>3, <1>4, <2>1, <2>2 DEF maps
<1>7. ASSUME NEW u \in Uuids, Reject(u)
      PROVE  (SessionsAreIndexed /\ NeverUndercounted)'
  BY <1>3, <1>4, <1>7 DEF Reject
<1>8. ASSUME NEW c \in Conns, OnClose(c)
      PROVE  (SessionsAreIndexed /\ NeverUndercounted)'
  <2>1. CASE HandleSessionDisconnect(conn[c].uuid, internal)
    BY <1>0, <1>2, <2>1, DisconnectServed
  <2> QED BY <1>5, <1>8, <2>1 DEF OnClose
<1>9. ASSUME NEW o \in Conns, HeartbeatTimeout(o)
      PROVE  (SessionsAreIndexed /\ NeverUndercounted)'
  <2> DEFINE ses == [internal EXCEPT ![o].heartbeat = "timedOut"]
  <2>1. /\ ses \in [DOMAIN internal -> InternalSessions]
        /\ \A x \in DOMAIN internal : ses[x].principal = internal[x].principal
    BY <1>0, <1>9 DEF HeartbeatTimeout, InternalSessions
  <2>2. HandleSessionDisconnect(internal[o].uuid, ses)
    BY <1>9 DEF HeartbeatTimeout
  <2> HIDE DEF ses
  <2> QED BY <1>2, <2>1, <2>2, DisconnectServed
<1>10. ASSUME NEW c \in Conns, NEW u \in Uuids, IdentifyExisting(c, u)
       PROVE  (SessionsAreIndexed /\ NeverUndercounted)'
  <2>1. PICK o \in DOMAIN internal, p \in Principals :
            o = sessions[u] /\ p = Effective(internal[o].principal)
    BY <1>0, <1>10, EffectiveType DEF IdentifyExisting, WatchedMaps
  <2>2. \A x \in DOMAIN internal : internal'[x].principal = internal[x].principal
    <3> DEFINE r == Resumed(internal[o], c)
    <3>1. internal' = [internal EXCEPT ![o] = r]
          \/ internal' = [internal EXCEPT ![o] = [r EXCEPT !.state = "Synchronizing"]]
      BY <1>10, <2>1 DEF IdentifyExisting
    <3>2. r \in InternalSessions /\ r.principal = internal[o].principal
      BY <1>0, ResumedType
    <3> HIDE DEF r
    <3>3. [r EXCEPT !.state = "Synchronizing"].principal = internal[o].principal
      BY <3>2 DEF InternalSessions
    <3> QED BY <1>0, <3>1, <3>2, <3>3
  <2>3. CASE sessions' = Erase(sessions, u) /\ UNCHANGED <<index, counts>>
    <3>1. /\ DOMAIN sessions' \subseteq DOMAIN sessions
          /\ \A v \in DOMAIN sessions' : sessions'[v] = sessions[v]
      BY <2>3 DEF Erase
    <3> QED BY <1>3, <1>4, <2>2, <2>3, <3>1
  <2>4. CASE Activate(o, internal[o].principal) /\ UNCHANGED sessions
    <3>1. /\ counts' = [counts EXCEPT ![p] = counts[p] + 1]
          /\ index' = [index EXCEPT ![p] = index[p] \cup {o}]
      BY <2>1, <2>4 DEF Activate
    <3>2. \A q \in Principals : counts'[q] \in Nat /\ counts'[q] >= counts[q]
      BY <1>0, <3>1
    <3>3. \A q \in Principals : index[q] \subseteq index'[q]
      BY <1>0, <3>1
    <3> QED BY <1>3, <2>2, <2>4, <3>2, <3>3
  <2> QED BY <1>10, <2>1, <2>3, <2>4 DEF IdentifyExisting
<1>11. ASSUME NEW c \in Conns, NEW u \in Uuids, IdentifyNew(c, u)
       PROVE  (SessionsAreIndexed /\ NeverUndercounted)'
  <2>1. c \notin DOMAIN internal /\ u \notin DOMAIN sessions
    BY <1>0, <1>11 DEF IdentifyNew, NotIdentified, WatchedMaps
  <2>2. /\ \A x \in DOMAIN internal : internal'[x] = internal[x]
        /\ ~authEnabled => internal'[c].principal = DefaultPrincipal
    <3> DEFINE fresh == [uuid |-> u, ws |-> c, connected |-> TRUE, heartbeat |-> "running",
                         state |-> "Pending", principal |-> None]
               started == [fresh EXCEPT !.state = "Synchronizing",
                                        !.principal = DefaultPrincipal]
    <3>1. PICK s : /\ internal' = Put(internal, c, s)
                   /\ s = IF authEnabled THEN fresh ELSE started
      BY <1>11 DEF IdentifyNew
    <3>2. ~authEnabled => s.principal = DefaultPrincipal
      BY <3>1
    <3> HIDE DEF fresh, started
    <3> QED BY <2>1, <3>1, <3>2 DEF Put
  <2>3. CASE UNCHANGED <<sessions, index, counts>>
    BY <1>3, <1>4, <2>2, <2>3
  <2>4. CASE /\ ~authEnabled
             /\ sessions' = Put(sessions, u, c)
             /\ index' = [index EXCEPT ![DefaultPrincipal] = @ \cup {c}]
             /\ counts' = [counts EXCEPT ![DefaultPrincipal] = @ + 1]
    <3>1. Effective(DefaultPrincipal) = DefaultPrincipal
      BY DEF Effective
    <3>2. \A v \in DOMAIN sessions :
             internal'[sessions[v]].principal = internal[sessions[v]].principal
      BY <1>0, <2>2
    <3> QED BY <1>2, <2>1, <2>2, <2>4, <3>1, <3>2, SessionsAssumption, OneMoreServed
  <2> QED BY <1>11, <2>3, <2>4 DEF IdentifyNew
<1>12. ASSUME NEW u \in Uuids, NEW p \in Principals, Authorize(u, p)
       PROVE  (SessionsAreIndexed /\ NeverUndercounted)'
  <2>1. CASE u \in DOMAIN tmpSessions
    <3>1. PICK o \in DOMAIN internal : o = tmpSessions[u]
      BY <1>0, <2>1
    <3>2. /\ internal' = [internal EXCEPT ![o].principal = p,
                                          ![o].state = "Synchronizing"]
          /\ sessions' = Put(sessions, u, o)
          /\ counts' = [counts EXCEPT ![Effective(p)] = @ + 1]
          /\ index' = [index EXCEPT ![Effective(p)] = @ \cup {o}]
      BY <1>12, <2>1, <3>1 DEF Authorize, Activate
    <3>3. \A x \in DOMAIN internal :
             internal'[x].principal = IF x = o THEN p ELSE internal[x].principal
      BY <1>0, <3>2 DEF InternalSessions
    <3>4. u \notin DOMAIN sessions /\ \A v \in DOMAIN sessions : sessions[v] # o
      BY <1>0, <2>1, <3>1 DEF WatchedMaps, Watched
    <3>5. \A v \in DOMAIN sessions :
             internal'[sessions[v]].principal = internal[sessions[v]].principal
      BY <1>0, <3>3, <3>4
    <3> QED BY <1>2, <3>2, <3>3, <3>4, <3>5, OneMoreServed
  <2>2. CASE u \notin DOMAIN tmpSessions
    BY <1>5, <1>12, <2>2 DEF Authorize
  <2> QED BY <2>1, <2>2
<1>13. CASE ServerClose
  <2>1. DOMAIN sessions' = {} /\ UNCHANGED counts
    BY <1>13 DEF ServerClose, EmptyMap
  <2>2. \A x \in DOMAIN internal : internal'[x].principal = internal[x].principal
    BY <1>0, <1>13, DroppedType DEF ServerClose
  <2> QED BY <1>3, <1>4, <2>1, <2>2
<1>14. ASSUME NEW c \in Conns,
              \/ Accept(c) \/ RefuseFirstFrame(c) \/ RateLimit(c) \/ HandleAuth(c)
              \/ \E u \in Uuids : IdentifyRefused(c, u)
       PROVE  (SessionsAreIndexed /\ NeverUndercounted)'
  BY <1>5, <1>14 DEF Accept, RefuseFirstFrame, RateLimit, HandleAuth, IdentifyRefused
<1> QED BY <1>2, <1>6, <1>7, <1>8, <1>9, <1>10, <1>11, <1>12, <1>13, <1>14 DEF Serves

-----------------------------------------------------------------------------
(* The limit on the connections.                                           *)

(* One step keeps the sessions within the limit: Full is asked before a    *)
(* session is created, and a session that changes maps is in one of them.  *)
LEMMA LimitStep ==
    ASSUME SessionsInv, SessionsNext, SessionsTypeOK'
    PROVE  WithinMaxConnections'
<1> DEFINE S == DOMAIN sessions
           T == DOMAIN tmpSessions
<1>0. /\ SessionsTypeOK /\ WatchedMaps /\ WithinMaxConnections
      /\ IsFiniteSet(S) /\ IsFiniteSet(T)
      /\ Cardinality(S) \in Nat /\ Cardinality(T) \in Nat /\ MaxConnections \in Nat
  BY WatchedParts, ServedFinite, SessionsAssumption DEF SessionsInv
<1>1. ASSUME S' \subseteq S, T' \subseteq T
      PROVE  WithinMaxConnections'
  <2>1. Cardinality(S') <= Cardinality(S) /\ Cardinality(T') <= Cardinality(T)
        /\ Cardinality(S') \in Nat /\ Cardinality(T') \in Nat
    <3> HIDE DEF S, T
    <3> QED BY <1>0, <1>1, FS_Subset, FS_CardinalityType
  <2> QED BY <1>0, <2>1 DEF WithinMaxConnections
<1>2. ASSUME NEW u, HandleSessionDisconnect(u, internal)
                    \/ \E ses : HandleSessionDisconnect(u, ses)
      PROVE  WithinMaxConnections'
  <2>1. S' \subseteq S /\ T' \subseteq T
    BY <1>2 DEF HandleSessionDisconnect, maps, Erase
  <2> QED BY <1>1, <2>1
<1>3. CASE EnableAuthorization
  BY <1>1, <1>3 DEF EnableAuthorization, maps
<1>4. ASSUME NEW c \in Conns,
             \/ Accept(c) \/ RefuseFirstFrame(c) \/ HandleReady(c) \/ RateLimit(c)
             \/ HandleAuth(c) \/ OnClose(c) \/ HeartbeatTimeout(c)
             \/ \E u \in Uuids : IdentifyRefused(c, u)
      PROVE  WithinMaxConnections'
  <2>1. CASE UNCHANGED maps
    BY <1>1, <2>1 DEF maps
  <2>2. CASE OnClose(c)
    BY <1>2, <2>1, <2>2 DEF OnClose
  <2>3. CASE HeartbeatTimeout(c)
    BY <1>2, <2>3 DEF HeartbeatTimeout
  <2> QED BY <1>4, <2>1, <2>2, <2>3
          DEF Accept, RefuseFirstFrame, HandleReady, RateLimit, HandleAuth, IdentifyRefused
<1>5. ASSUME NEW u \in Uuids, Reject(u) PROVE WithinMaxConnections'
  <2>1. S' \subseteq S /\ T' \subseteq T
    BY <1>5 DEF Reject, Erase
  <2> QED BY <1>1, <2>1
<1>6. CASE ServerClose
  <2>1. S' = {} /\ T' = {}
    BY <1>6 DEF ServerClose, EmptyMap
  <2> QED BY <1>1, <2>1
<1>7. ASSUME NEW c \in Conns, NEW u \in Uuids, IdentifyExisting(c, u)
      PROVE  WithinMaxConnections'
  <2>1. CASE UNCHANGED <<sessions, tmpSessions>>
    BY <1>1, <2>1
  <2>2. CASE /\ tmpSessions' = Put(tmpSessions, u, sessions[u])
             /\ sessions' = Erase(sessions, u)
    <3>1. S' = S \ {u} /\ T' = T \cup {u} /\ u \in S /\ u \notin T
      BY <1>0, <1>7, <2>2 DEF IdentifyExisting, Put, Erase, WatchedMaps
    <3>2. Cardinality(S') = Cardinality(S) - 1 /\ Cardinality(T') = Cardinality(T) + 1
      <4> HIDE DEF S, T
      <4> QED BY <1>0, <3>1, FS_AddElement, FS_RemoveElement
    <3> QED BY <1>0, <3>2 DEF WithinMaxConnections
  <2> QED BY <1>7, <2>1, <2>2 DEF IdentifyExisting
<1>8. ASSUME NEW c \in Conns, NEW u \in Uuids, IdentifyNew(c, u)
      PROVE  WithinMaxConnections'
  <2>0. MaxConnections > 0 => Cardinality(S) + Cardinality(T) < MaxConnections
    BY <1>0, <1>8 DEF IdentifyNew, Full
  <2>1. CASE S' = S \cup {u} /\ T' = T
    <3>1. Cardinality(S') <= Cardinality(S) + 1 /\ Cardinality(S') \in Nat
      <4> HIDE DEF S, T
      <4>1. Cardinality(S \cup {u}) = IF u \in S THEN Cardinality(S)
                                                   ELSE Cardinality(S) + 1
        BY <1>0, FS_AddElement
      <4> QED BY <1>0, <2>1, <4>1
    <3> QED BY <1>0, <2>0, <2>1, <3>1 DEF WithinMaxConnections
  <2>2. CASE S' = S /\ T' = T \cup {u}
    <3>1. Cardinality(T') <= Cardinality(T) + 1 /\ Cardinality(T') \in Nat
      <4> HIDE DEF S, T
      <4>1. Cardinality(T \cup {u}) = IF u \in T THEN Cardinality(T)
                                                   ELSE Cardinality(T) + 1
        BY <1>0, FS_AddElement
      <4> QED BY <1>0, <2>2, <4>1
    <3> QED BY <1>0, <2>0, <2>2, <3>1 DEF WithinMaxConnections
  <2> QED BY <1>8, <2>1, <2>2 DEF IdentifyNew, Put
<1>9. ASSUME NEW u \in Uuids, NEW p \in Principals, Authorize(u, p)
      PROVE  WithinMaxConnections'
  <2>1. CASE u \notin DOMAIN tmpSessions
    BY <1>1, <1>9, <2>1 DEF Authorize, maps
  <2>2. CASE u \in DOMAIN tmpSessions
    <3>1. S' = S \cup {u} /\ T' = T \ {u} /\ u \notin S /\ u \in T
      BY <1>0, <1>9, <2>2 DEF Authorize, Put, Erase, WatchedMaps
    <3>2. Cardinality(S') = Cardinality(S) + 1 /\ Cardinality(T') = Cardinality(T) - 1
      <4> HIDE DEF S, T
      <4> QED BY <1>0, <3>1, FS_AddElement, FS_RemoveElement
    <3> QED BY <1>0, <3>2 DEF WithinMaxConnections
  <2> QED BY <2>1, <2>2
<1> QED BY <1>3, <1>4, <1>5, <1>6, <1>7, <1>8, <1>9 DEF SessionsNext, Serves

-----------------------------------------------------------------------------
(* The invariant.                                                          *)

(* Every handler of the server preserves the invariant.                    *)
LEMMA SessionsInvStep ==
    ASSUME SessionsInv, [SessionsNext]_vars
    PROVE  SessionsInv'
<1>1. CASE SessionsNext
  <2>1. SessionsTypeOK'
    BY <1>1, SessionsTypeStep
  <2>2. WatchedMaps'
    BY <1>1, <2>1, WatchedStep
  <2>3. (OneSessionPerUuid /\ RegisteredIsWatched)'
    BY <2>2 DEF OneSessionPerUuid, RegisteredIsWatched, Registered, SessionAt,
                WatchedMaps, Watched
  <2>4. (SessionsAreIndexed /\ NeverUndercounted)'
    BY <1>1, <2>1, ServedStep
  <2>5. WithinMaxConnections'
    BY <1>1, <2>1, LimitStep
  <2> QED BY <2>1, <2>2, <2>3, <2>4, <2>5 DEF SessionsInv, WatchedMaps
<1>2. CASE UNCHANGED vars
  BY <1>2 DEF vars, config, maps, SessionsInv, SessionsTypeOK, OneSessionPerUuid,
      RegisteredIsWatched, SessionsAreIndexed, NeverUndercounted, WithinMaxConnections,
      Registered, SessionAt, Effective
<1> QED BY <1>1, <1>2

(* A new server satisfies the invariant.                                   *)
LEMMA SessionsInvInit == SessionsInit => SessionsInv
<1> HAVE SessionsInit
<1>0. DOMAIN EmptyMap = {}
  BY DEF EmptyMap
<1>1. /\ DOMAIN internal = {} /\ DOMAIN sessions = {} /\ DOMAIN tmpSessions = {}
  BY <1>0 DEF SessionsInit
<1>2. SessionsTypeOK
  <2>1. conn \in [Conns -> Connections]
    BY DEF SessionsInit, Connections
  <2>2. internal \in [DOMAIN internal -> InternalSessions]
    BY <1>1 DEF SessionsInit, EmptyMap
  <2>3. sessions \in Maps(Uuids, DOMAIN internal) /\ tmpSessions \in Maps(Uuids, DOMAIN internal)
    BY EmptyType DEF SessionsInit
  <2>4. index \in [Principals -> SUBSET DOMAIN internal] /\ counts \in [Principals -> Nat]
    BY DEF SessionsInit
  <2>5. broadcast \in BOOLEAN /\ authEnabled \in BOOLEAN /\ asked \subseteq Uuids
    BY DEF SessionsInit
  <2> QED BY <1>1, <2>1, <2>2, <2>3, <2>4, <2>5 DEF SessionsTypeOK
<1>3. WithinMaxConnections
  BY <1>1, FS_EmptySet, SessionsAssumption DEF WithinMaxConnections
<1>4. NeverUndercounted
  <2>1. \A p \in Principals : Served(p) = {} /\ counts[p] = 0
    BY <1>1 DEF Served, SessionsInit
  <2>2. \A p \in Principals : counts[p] >= Cardinality(Served(p))
    BY <2>1, FS_EmptySet
  <2> QED BY <2>2 DEF NeverUndercounted, Served
<1>5. Registered = {}
  BY <1>1 DEF Registered
<1>6. OneSessionPerUuid /\ RegisteredIsWatched /\ SessionsAreIndexed
  BY <1>1, <1>5 DEF OneSessionPerUuid, RegisteredIsWatched, SessionsAreIndexed
<1> QED BY <1>1, <1>2, <1>3, <1>4, <1>6 DEF SessionsInv

(* The invariant of the server's session bookkeeping, over reconnections,  *)
(* late onClose callbacks, heartbeat timeouts, and answers of the          *)
(* application in any order.                                               *)
THEOREM SessionsInvariant == SessionsSpec => []SessionsInv
<1>1. SessionsInv /\ [SessionsNext]_vars => SessionsInv'
  BY SessionsInvStep
<1> QED BY <1>1, SessionsInvInit, PTL DEF SessionsSpec

(* The members of the server keep their types.                             *)
THEOREM SessionsTypeCorrect == SessionsSpec => []SessionsTypeOK
<1>1. SessionsInv => SessionsTypeOK
  BY DEF SessionsInv
<1> QED BY <1>1, SessionsInvariant, PTL

(* A client id is registered once, and under it a session of its own.      *)
THEOREM SessionsAreUnique == SessionsSpec => []OneSessionPerUuid
<1>1. SessionsInv => OneSessionPerUuid
  BY DEF SessionsInv
<1> QED BY <1>1, SessionsInvariant, PTL

(* setMaxConnections is kept, whatever the limit.                          *)
THEOREM ConnectionsAreBounded == SessionsSpec => []WithinMaxConnections
<1>1. SessionsInv => WithinMaxConnections
  BY DEF SessionsInv
<1> QED BY <1>1, SessionsInvariant, PTL

(* A registered session has a running heartbeat and a connection whose     *)
(* onClose is still to come.                                               *)
THEOREM RegisteredAreWatched == SessionsSpec => []RegisteredIsWatched
<1>1. SessionsInv => RegisteredIsWatched
  BY DEF SessionsInv
<1> QED BY <1>1, SessionsInvariant, PTL

(* A session is in principalIndex_ under the principal it is authorized    *)
(* for.                                                                    *)
THEOREM AuthorizedAreIndexed == SessionsSpec => []SessionsAreIndexed
<1>1. SessionsInv => SessionsAreIndexed
  BY DEF SessionsInv
<1> QED BY <1>1, SessionsInvariant, PTL

(* sessionCounts_ never says fewer sessions than there are.                *)
THEOREM CountsCoverSessions == SessionsSpec => []NeverUndercounted
<1>1. SessionsInv => NeverUndercounted
  BY DEF SessionsInv
<1> QED BY <1>1, SessionsInvariant, PTL

-----------------------------------------------------------------------------
(* No step starts a heartbeat that has timed out: the only sessions that   *)
(* change connections are registered ones, and those still run.            *)
LEMMA TimedOutStep ==
    ASSUME SessionsInv, [SessionsNext]_vars, NEW o \in DOMAIN internal,
           internal[o].heartbeat = "timedOut"
    PROVE  internal'[o].heartbeat = "timedOut"
<1>0. /\ WatchedMaps
      /\ internal \in [DOMAIN internal -> InternalSessions]
      /\ \A v \in DOMAIN sessions : sessions[v] \in DOMAIN internal
      /\ \A v \in DOMAIN tmpSessions : tmpSessions[v] \in DOMAIN internal
      /\ \A v \in DOMAIN sessions : sessions[v] # o
      /\ \A v \in DOMAIN tmpSessions : tmpSessions[v] # o
  <2>1. SessionsTypeOK /\ WatchedMaps
    BY WatchedParts DEF SessionsInv
  <2>2. /\ \A v \in DOMAIN sessions : sessions[v] # o
        /\ \A v \in DOMAIN tmpSessions : tmpSessions[v] # o
    BY <2>1 DEF WatchedMaps, Watched
  <2> QED BY <2>1, <2>2, MapApply DEF SessionsTypeOK
<1>1. ASSUME NEW u, NEW ses \in [DOMAIN internal -> InternalSessions],
             \A x \in DOMAIN internal : ses[x].principal = internal[x].principal,
             HandleSessionDisconnect(u, ses),
             ses[o].heartbeat = "timedOut"
      PROVE  internal'[o].heartbeat = "timedOut"
  BY <1>1, DisconnectType
<1>2. ASSUME NEW c \in Conns, OnClose(c) PROVE internal'[o].heartbeat = "timedOut"
  BY <1>0, <1>1, <1>2 DEF OnClose
<1>3. ASSUME NEW c \in Conns, HeartbeatTimeout(c) PROVE internal'[o].heartbeat = "timedOut"
  <2> DEFINE ses == [internal EXCEPT ![c].heartbeat = "timedOut"]
  <2>1. /\ ses \in [DOMAIN internal -> InternalSessions]
        /\ ses[o].heartbeat = "timedOut"
        /\ \A x \in DOMAIN internal : ses[x].principal = internal[x].principal
    BY <1>0, <1>3 DEF HeartbeatTimeout, InternalSessions
  <2>2. HandleSessionDisconnect(internal[c].uuid, ses)
    BY <1>3 DEF HeartbeatTimeout
  <2> HIDE DEF ses
  <2> QED BY <1>1, <2>1, <2>2
<1>4. ASSUME NEW c \in Conns, HandleReady(c) PROVE internal'[o].heartbeat = "timedOut"
  <2> DEFINE x == sessions[conn[c].uuid]
  <2>1. x # o /\ internal' = [internal EXCEPT ![x].state = "Ready"]
    BY <1>0, <1>4 DEF HandleReady
  <2> QED BY <1>0, <2>1
<1>5. ASSUME NEW c \in Conns, NEW u \in Uuids, IdentifyExisting(c, u)
      PROVE  internal'[o].heartbeat = "timedOut"
  <2>1. PICK s : sessions[u] # o /\ internal' = [internal EXCEPT ![sessions[u]] = s]
    BY <1>0, <1>5 DEF IdentifyExisting
  <2> QED BY <1>0, <2>1
<1>6. ASSUME NEW c \in Conns, NEW u \in Uuids, IdentifyNew(c, u)
      PROVE  internal'[o].heartbeat = "timedOut"
  <2>1. c # o
    BY <1>0, <1>6 DEF IdentifyNew, NotIdentified, WatchedMaps
  <2>2. PICK s : internal' = Put(internal, c, s)
    BY <1>6 DEF IdentifyNew
  <2> QED BY <2>1, <2>2 DEF Put
<1>7. ASSUME NEW u \in Uuids, NEW p \in Principals, Authorize(u, p)
      PROVE  internal'[o].heartbeat = "timedOut"
  BY <1>0, <1>7 DEF Authorize
<1>8. CASE ServerClose
  <2>1. internal'[o] = internal[o] \/ internal'[o] = Dropped(internal[o])
    BY <1>8 DEF ServerClose
  <2> QED BY <1>0, <2>1, DroppedType
<1>9. CASE UNCHANGED internal
  BY <1>9
<1> QED BY <1>2, <1>3, <1>4, <1>5, <1>6, <1>7, <1>8, <1>9
        DEF SessionsNext, Serves, EnableAuthorization, Accept, RefuseFirstFrame, RateLimit,
            HandleAuth, IdentifyRefused, Reject, vars

(* A heartbeat that has timed out is never started again.                  *)
THEOREM TimedOutStaysFinal == SessionsSpec => TimedOutIsFinal
<1>1. SessionsInv /\ [SessionsNext]_vars =>
        [\A o \in DOMAIN internal :
           internal[o].heartbeat = "timedOut" => internal'[o].heartbeat = "timedOut"]_vars
  BY TimedOutStep
<1> QED BY <1>1, SessionsInvariant, PTL DEF SessionsSpec, TimedOutIsFinal
=============================================================================
