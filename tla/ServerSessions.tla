--------------------------- MODULE ServerSessions ---------------------------
(***************************************************************************)
(* The session bookkeeping of DanWebSocketServer (src/api/server.cpp) in   *)
(* its broadcast and principal modes: which connection serves which client *)
(* id, and which sessions a principal's updates go to.                     *)
(*                                                                         *)
(* Everything is found by the client's UUID, while connections and their   *)
(* onClose callbacks, and the heartbeat timer of an InternalSession, live  *)
(* on by themselves: a client that comes back has several of them.         *)
(*                                                                         *)
(* An InternalSession is named by the connection that created it.  Every   *)
(* connection is used once, so Conns bounds the connections of a run.      *)
(* Handlers are atomic.  ws->close() makes the connection closing; its     *)
(* onClose callback runs later (external: IWebSocketConnection).           *)
(***************************************************************************)
EXTENDS Protocol, FiniteSets

CONSTANTS
    Uuids,              \* client ids
    Principals,         \* principal names
    DefaultPrincipal,   \* "default", or BROADCAST_PRINCIPAL in broadcast mode
    MaxConnections,     \* maxConnections_, 0 for no limit
    Conns,              \* bound: the connections that are opened
    None                \* no connection, no id, no principal

ASSUME SessionsAssumption ==
    /\ DefaultPrincipal \in Principals
    /\ MaxConnections \in Nat
    /\ IsFiniteSet(Conns) /\ IsFiniteSet(Uuids)
    /\ None \notin Conns \cup Uuids \cup Principals

VARIABLES
    broadcast,     \* mode_ == ServerMode::Broadcast, else ServerMode::Principal
    authEnabled,   \* authEnabled_
    conn,          \* the connections: status, and the uuid that was identified
    internal,      \* the InternalSessions, by the connection that created them
    sessions,      \* sessions_
    tmpSessions,   \* tmpSessions_
    index,         \* principalIndex_
    counts,        \* sessionCounts_ of the PrincipalManager
    asked          \* onAuthorize_ calls the application has not answered yet

maps == <<sessions, tmpSessions, index, counts>>
config == <<broadcast, authEnabled>>
vars == <<config, conn, internal, maps, asked>>

InternalSessions ==
    [uuid : Uuids, ws : Conns \cup {None}, principal : Principals \cup {None},
     state : {"Pending", "Authorized", "Synchronizing", "Ready", "Disconnected"},
     connected : BOOLEAN, heartbeat : {"running", "stopped", "timedOut"}]

Connections == [status : {"unused", "open", "closing", "closed"},
                uuid : Uuids \cup {None}]

(* Type invariant of the server's members.                                 *)
SessionsTypeOK ==
    /\ broadcast \in BOOLEAN /\ authEnabled \in BOOLEAN
    /\ conn \in [Conns -> Connections]
    /\ DOMAIN internal \subseteq Conns
    /\ internal \in [DOMAIN internal -> InternalSessions]
    /\ sessions \in Maps(Uuids, DOMAIN internal)
    /\ tmpSessions \in Maps(Uuids, DOMAIN internal)
    /\ index \in [Principals -> SUBSET DOMAIN internal]
    /\ counts \in [Principals -> Nat]
    /\ asked \subseteq Uuids

SessionsInit ==
    /\ broadcast \in BOOLEAN /\ authEnabled = FALSE
    /\ conn = [c \in Conns |-> [status |-> "unused", uuid |-> None]]
    /\ internal = EmptyMap
    /\ sessions = EmptyMap
    /\ tmpSessions = EmptyMap
    /\ index = [p \in Principals |-> {}]
    /\ counts = [p \in Principals |-> 0]
    /\ asked = {}

Effective(p) == IF broadcast THEN DefaultPrincipal ELSE p

Registered == DOMAIN sessions \cup DOMAIN tmpSessions
SessionAt(u) == IF u \in DOMAIN sessions THEN sessions[u] ELSE tmpSessions[u]

IsOpen(c) == c # None /\ conn[c].status = "open"
Closing(cs, c) == IF c # None /\ cs[c].status = "open"
                  THEN [cs EXCEPT ![c].status = "closing"] ELSE cs

(* _handleDisconnect, heartbeat.stop() and ws = nullptr.  A heartbeat that *)
(* has timed out is no longer running_, so stop() leaves it alone.         *)
Stopped(hb) == IF hb = "running" THEN "stopped" ELSE hb
Dropped(s) == [s EXCEPT !.connected = FALSE, !.state = "Disconnected",
                        !.heartbeat = Stopped(@), !.ws = None]

-----------------------------------------------------------------------------
(* activateSession: o is counted and indexed, and its sync is started.     *)

(* Mutant: a session that was activated before is not entered again.       *)
MutActivateOnce(o, p) ==
    \/ internal[o].principal # None /\ UNCHANGED <<counts, index>>
    \/ /\ internal[o].principal = None
       /\ counts' = [counts EXCEPT ![Effective(p)] = @ + 1]
       /\ index' = [index EXCEPT ![Effective(p)] = @ \cup {o}]

Activate(o, p) ==
    /\ counts' = [counts EXCEPT ![Effective(p)] = @ + 1]
    /\ index' = [index EXCEPT ![Effective(p)] = @ \cup {o}]

(* Mutant: a disconnected session is kept for its client to come back to.  *)
MutSessionDisconnect(u, ses) ==
    /\ u \in Registered
    /\ internal' = [ses EXCEPT ![SessionAt(u)] = Dropped(@)]
    /\ UNCHANGED maps

(* Mutant: a pending session is destroyed, and not only forgotten, when it *)
(* is dropped from tmpSessions_.                                           *)
MutPendingDestroyed(u, ses) ==
    /\ u \notin DOMAIN sessions
    /\ \/ /\ u \in DOMAIN tmpSessions
          /\ internal' = Erase(ses, tmpSessions[u])
          /\ tmpSessions' = Erase(tmpSessions, u)
          /\ UNCHANGED <<sessions, index, counts>>
       \/ /\ u \notin DOMAIN tmpSessions
          /\ internal' = ses
          /\ UNCHANGED maps

(* handleSessionDisconnect(u), with ses the InternalSessions before it.    *)
(* Only the id is known: what is registered under it is what is ended.  It *)
(* returns early for a registered session that is not connected, which     *)
(* RegisteredIsWatched shows there is none of.                             *)
HandleSessionDisconnect(u, ses) ==
    \/ /\ u \in DOMAIN sessions
       /\ ses[sessions[u]].connected
       /\ LET o == sessions[u]
              p == Effective(ses[o].principal)
          IN  /\ internal' = [ses EXCEPT ![o] = Dropped(@)]
              /\ index' = [index EXCEPT ![p] = @ \ {o}]
              /\ counts' = [counts EXCEPT ![p] = IF @ > 0 THEN @ - 1 ELSE 0]
       /\ sessions' = Erase(sessions, u)
       /\ UNCHANGED tmpSessions
    \/ /\ u \notin DOMAIN sessions /\ u \in DOMAIN tmpSessions
       /\ internal' = [ses EXCEPT ![tmpSessions[u]].heartbeat = Stopped(@)]
       /\ tmpSessions' = Erase(tmpSessions, u)
       /\ UNCHANGED <<sessions, index, counts>>
    \/ /\ u \notin Registered
       /\ internal' = ses
       /\ UNCHANGED maps

-----------------------------------------------------------------------------
(* The application's setup: authorization is enabled before clients come.  *)
EnableAuthorization ==
    /\ \A c \in Conns : conn[c].status = "unused"
    /\ authEnabled' = TRUE
    /\ UNCHANGED <<broadcast, conn, internal, maps, asked>>

-----------------------------------------------------------------------------
(* Connections.                                                            *)

(* handleConnection                                                        *)
Accept(c) ==
    /\ conn[c].status = "unused"
    /\ conn' = [conn EXCEPT ![c].status = "open"]
    /\ UNCHANGED <<internal, maps, asked>>

(* *identified is still false.                                             *)
NotIdentified(c) == IsOpen(c) /\ conn[c].uuid = None

(* The first frame is not a well-formed Identify of protocol version 3.    *)
RefuseFirstFrame(c) ==
    /\ NotIdentified(c)
    /\ conn' = Closing(conn, c)
    /\ UNCHANGED <<internal, maps, asked>>

(* Mutant: the limit is checked with > instead of >=.                      *)
MutFull(u) ==
    /\ MaxConnections > 0 /\ u \notin DOMAIN sessions
    /\ Cardinality(DOMAIN sessions) + Cardinality(DOMAIN tmpSessions) > MaxConnections

Full(u) ==
    /\ MaxConnections > 0 /\ u \notin DOMAIN sessions
    /\ Cardinality(DOMAIN sessions) + Cardinality(DOMAIN tmpSessions) >= MaxConnections

WithUuid(c, u) == [conn EXCEPT ![c].uuid = u]

(* handleIdentified, refused for the limit on connections.                 *)
IdentifyRefused(c, u) ==
    /\ NotIdentified(c) /\ Full(u)
    /\ conn' = Closing(WithUuid(c, u), c)
    /\ UNCHANGED <<internal, maps, asked>>

(* Mutant: the new connection is adopted, but its heartbeat not restarted. *)
MutResumed(s, c) == [s EXCEPT !.ws = c, !.connected = TRUE, !.state = "Authorized",
                              !.heartbeat = "stopped"]

(* _handleReconnect and heartbeat.start() for connection c.                *)
Resumed(s, c) == [s EXCEPT !.ws = c, !.connected = TRUE, !.state = "Authorized",
                           !.heartbeat = "running"]

(* handleIdentified for a client that has a session: the session changes   *)
(* connections.  With authorization it goes back to tmpSessions_, but      *)
(* stays in principalIndex_ and in sessionCounts_; without, it is counted  *)
(* again.                                                                  *)
IdentifyExisting(c, u) ==
    /\ NotIdentified(c) /\ ~Full(u) /\ u \in DOMAIN sessions
    /\ LET o == sessions[u] IN
       /\ conn' = Closing(WithUuid(c, u), internal[o].ws)
       /\ \/ /\ authEnabled
             /\ internal' = [internal EXCEPT ![o] = Resumed(@, c)]
             /\ tmpSessions' = Put(tmpSessions, u, o)
             /\ sessions' = Erase(sessions, u)
             /\ UNCHANGED <<index, counts>>
          \/ /\ ~authEnabled
             /\ internal' = [internal EXCEPT ![o] =
                               [Resumed(@, c) EXCEPT !.state = "Synchronizing"]]
             /\ Activate(o, internal[o].principal)
             /\ UNCHANGED <<sessions, tmpSessions>>
    /\ UNCHANGED asked

(* handleIdentified for a client without a session.  One that waits for    *)
(* authorization already is replaced in tmpSessions_, and not stopped.     *)
IdentifyNew(c, u) ==
    LET fresh == [uuid |-> u, ws |-> c, connected |-> TRUE, heartbeat |-> "running",
                  state |-> "Pending", principal |-> None]
    IN
    /\ NotIdentified(c) /\ ~Full(u) /\ u \notin DOMAIN sessions
    /\ conn' = WithUuid(c, u)
    /\ \/ /\ authEnabled
          /\ internal' = Put(internal, c, fresh)
          /\ tmpSessions' = Put(tmpSessions, u, c)
          /\ UNCHANGED <<sessions, index, counts>>
       \/ /\ ~authEnabled
          /\ internal' = Put(internal, c, [fresh EXCEPT
                             !.state = "Synchronizing", !.principal = DefaultPrincipal])
          /\ sessions' = Put(sessions, u, c)
          /\ index' = [index EXCEPT ![DefaultPrincipal] = @ \cup {c}]
          /\ counts' = [counts EXCEPT ![DefaultPrincipal] = @ + 1]
          /\ UNCHANGED tmpSessions
    /\ UNCHANGED asked

(* The ClientReady of a connection goes to the session of its id.          *)
HandleReady(c) ==
    LET u == conn[c].uuid IN
    /\ IsOpen(c) /\ u \in DOMAIN sessions
    /\ internal[sessions[u]].state = "Synchronizing"
    /\ internal' = [internal EXCEPT ![sessions[u]].state = "Ready"]
    /\ UNCHANGED <<conn, maps, asked>>

(* More frames than maxFramesPerSec_ in the current window.                *)
RateLimit(c) ==
    /\ IsOpen(c) /\ conn[c].uuid \in Registered
    /\ conn' = Closing(conn, c)
    /\ UNCHANGED <<internal, maps, asked>>

(* onClose: by the peer, or after a close of the server's.                 *)
OnClose(c) ==
    /\ conn[c].status \in {"open", "closing"}
    /\ conn' = [conn EXCEPT ![c].status = "closed"]
    /\ \/ /\ conn[c].uuid = None
          /\ UNCHANGED <<internal, maps>>
       \/ /\ conn[c].uuid # None
          /\ HandleSessionDisconnect(conn[c].uuid, internal)
    /\ UNCHANGED asked

(* The heartbeat of o times out; its connection is not closed.             *)
HeartbeatTimeout(o) ==
    /\ o \in DOMAIN internal /\ internal[o].heartbeat = "running"
    /\ HandleSessionDisconnect(internal[o].uuid,
                               [internal EXCEPT ![o].heartbeat = "timedOut"])
    /\ UNCHANGED <<conn, asked>>

-----------------------------------------------------------------------------
(* Authorization.                                                          *)

(* An Auth frame calls onAuthorize_.                                       *)
HandleAuth(c) ==
    /\ IsOpen(c) /\ authEnabled /\ conn[c].uuid \in DOMAIN tmpSessions
    /\ asked' = asked \cup {conn[c].uuid}
    /\ UNCHANGED <<conn, internal, maps>>

(* Mutant: the session stays in tmpSessions_ when it is authorized.        *)
MutAuthorizeKeepsTmp(u, p) ==
    /\ u \in asked /\ u \in DOMAIN tmpSessions
    /\ asked' = asked \ {u}
    /\ internal' = [internal EXCEPT ![tmpSessions[u]].principal = p,
                                    ![tmpSessions[u]].state = "Synchronizing"]
    /\ sessions' = Put(sessions, u, tmpSessions[u])
    /\ Activate(tmpSessions[u], p)
    /\ UNCHANGED <<conn, tmpSessions>>

(* authorize(u, token, p): the application answers, at once or later.      *)
Authorize(u, p) ==
    /\ u \in asked /\ asked' = asked \ {u}
    /\ \/ /\ u \in DOMAIN tmpSessions
          /\ LET o == tmpSessions[u] IN
             /\ internal' = [internal EXCEPT ![o].principal = p,
                                             ![o].state = "Synchronizing"]
             /\ sessions' = Put(sessions, u, o)
             /\ tmpSessions' = Erase(tmpSessions, u)
             /\ Activate(o, p)
       \/ /\ u \notin DOMAIN tmpSessions
          /\ UNCHANGED <<internal, maps>>
    /\ UNCHANGED conn

(* reject(u): the heartbeat of the rejected session is left running.       *)
Reject(u) ==
    /\ u \in asked /\ asked' = asked \ {u}
    /\ \/ /\ u \in DOMAIN tmpSessions
          /\ conn' = Closing(conn, internal[tmpSessions[u]].ws)
          /\ tmpSessions' = Erase(tmpSessions, u)
       \/ /\ u \notin DOMAIN tmpSessions
          /\ UNCHANGED <<conn, tmpSessions>>
    /\ UNCHANGED <<internal, sessions, index, counts>>

(* close(): the registered sessions' connections are closed with their     *)
(* callbacks removed; the transport closes the others.  sessionCounts_ is  *)
(* left as it is.                                                          *)
ServerClose ==
    LET mine == {SessionAt(u) : u \in Registered}
        cut  == {internal[o].ws : o \in mine}
    IN
    /\ conn' = [c \in Conns |->
                  IF c \in cut THEN [conn[c] EXCEPT !.status = "closed"]
                  ELSE IF conn[c].status = "open"
                       THEN [conn[c] EXCEPT !.status = "closing"] ELSE conn[c]]
    /\ internal' = [o \in DOMAIN internal |->
                      IF o \in mine THEN Dropped(internal[o]) ELSE internal[o]]
    /\ sessions' = EmptyMap
    /\ tmpSessions' = EmptyMap
    /\ index' = [p \in Principals |-> {}]
    /\ UNCHANGED <<counts, asked>>

-----------------------------------------------------------------------------
Serves ==
    \/ \E c \in Conns :
          \/ Accept(c) \/ RefuseFirstFrame(c) \/ HandleReady(c) \/ RateLimit(c)
          \/ OnClose(c) \/ HeartbeatTimeout(c) \/ HandleAuth(c)
    \/ \E c \in Conns, u \in Uuids :
          IdentifyRefused(c, u) \/ IdentifyExisting(c, u) \/ IdentifyNew(c, u)
    \/ \E u \in Uuids, p \in Principals : Authorize(u, p)
    \/ \E u \in Uuids : Reject(u)
    \/ ServerClose

SessionsNext == EnableAuthorization \/ (Serves /\ UNCHANGED config)

SessionsSpec == SessionsInit /\ [][SessionsNext]_vars

-----------------------------------------------------------------------------
(* A client id is in one of the two maps at most, and under it a session   *)
(* created for that id.                                                    *)
OneSessionPerUuid ==
    /\ DOMAIN sessions \cap DOMAIN tmpSessions = {}
    /\ \A u \in Registered : internal[SessionAt(u)].uuid = u

(* setMaxConnections bounds the sessions, those that wait for              *)
(* authorization and those that come back included.                        *)
WithinMaxConnections ==
    MaxConnections > 0 =>
        Cardinality(DOMAIN sessions) + Cardinality(DOMAIN tmpSessions) <= MaxConnections

(* A registered session is watched and served: its heartbeat runs, and it  *)
(* has a connection of its own client whose onClose is still to come.  A   *)
(* session without either would stay registered for ever.                  *)
RegisteredIsWatched ==
    \A u \in Registered :
        LET s == internal[SessionAt(u)] IN
        /\ s.connected /\ s.heartbeat = "running"
        /\ s.ws # None /\ conn[s.ws].uuid = u /\ conn[s.ws].status \in {"open", "closing"}

(* Updates of a principal reach every session that is authorized for it,   *)
(* one that came back and was authorized for another principal included.   *)
SessionsAreIndexed ==
    \A u \in DOMAIN sessions :
        sessions[u] \in index[Effective(internal[sessions[u]].principal)]

(* sessionCounts_ never says fewer sessions than there are, so a principal *)
(* with a session is never taken for an unused one.                        *)
NeverUndercounted ==
    \A p \in Principals :
        counts[p] >= Cardinality({u \in DOMAIN sessions :
                                    Effective(internal[sessions[u]].principal) = p})

(* What makes them inductive: a connection is identified before it creates *)
(* a session, a session is authorized before it is in sessions_, and       *)
(* nothing waits for authorization unless that is enabled.                 *)
SessionsInv ==
    /\ SessionsTypeOK
    /\ OneSessionPerUuid
    /\ WithinMaxConnections
    /\ RegisteredIsWatched
    /\ SessionsAreIndexed
    /\ NeverUndercounted
    /\ \A o \in DOMAIN internal : conn[o].uuid # None
    /\ \A u \in DOMAIN sessions : internal[sessions[u]].principal \in Principals
    /\ ~authEnabled => DOMAIN tmpSessions = {}

(* A HeartbeatManager that has timed out is never started again: start()   *)
(* would overwrite a thread that was not joined, and end the process.      *)
TimedOutIsFinal ==
    [][\A o \in DOMAIN internal :
          internal[o].heartbeat = "timedOut" => internal'[o].heartbeat = "timedOut"]_vars

-----------------------------------------------------------------------------
(* What the documentation promises but the code does not keep.             *)

(* A principal's updates go only to the sessions authorized for it.        *)
PrincipalIsolated ==
    \A p \in Principals : \A o \in index[p] :
        internal[o].state = "Ready" /\ IsOpen(internal[o].ws)
            => p = Effective(internal[o].principal)
=============================================================================
