------------------------------ MODULE Presence ------------------------------
(***************************************************************************)
(* Online presence of the chat back end: the gateway's handleConnection    *)
(* and handleDisconnect, UsersService.setOnlineStatus and AuthService.login *)
(* of Nest_Websocket/backend.                                              *)
(*                                                                         *)
(* Both gateway handlers are async: Node runs each one without             *)
(* interruption up to its next await, and the handlers of different        *)
(* sockets interleave there.  A database write is issued by a handler,     *)
(* performed by PostgreSQL at some later moment (two writes in flight use  *)
(* different pooled connections, so they may be performed in either        *)
(* order), and only then does the handler resume.                          *)
(***************************************************************************)
EXTENDS FiniteSets

CONSTANTS
  User,    \* the registered users
  Socket,  \* socket.io connection slots: a slot is reused once its handlers ended
  Owner    \* Owner[s]: the user whose token socket s presents (payload.sub)

ASSUME OwnerAssumption == Owner \in [Socket -> User]

VARIABLES
  userSockets,  \* ChatGateway.userSockets; {} stands for an absent Map entry
  connected,    \* the sockets whose transport is open, as socket.io sees it
  conn,         \* where handleConnection of a socket is suspended
  disc,         \* where handleDisconnect of a socket is suspended
  loggingIn,    \* the users whose login has issued its update
  isOnline,     \* the users.isOnline column
  announced,    \* the last presence event broadcast: TRUE for user_online
  suspect       \* history: a user's flag may have been written out of order

vars == <<userSockets, connected, conn, disc, loggingIn, isOnline, announced, suspect>>

\* handleConnection: "writing" awaits setOnlineStatus(true), "written" is the
\* same await once PostgreSQL has performed it, "reading" awaits findMany.
ConnState == {"idle", "writing", "written", "reading", "joined"}
DiscState == {"idle", "writing", "written"}
InFlight  == {"writing", "written"}

TypeOK ==
  /\ userSockets \in [User -> SUBSET Socket]
  /\ connected \in SUBSET Socket
  /\ conn \in [Socket -> ConnState]
  /\ disc \in [Socket -> DiscState]
  /\ loggingIn \in SUBSET User
  /\ isOnline \in [User -> BOOLEAN]
  /\ announced \in [User -> BOOLEAN]
  /\ suspect \in [User -> BOOLEAN]

Init ==
  /\ userSockets = [u \in User |-> {}]
  /\ connected = {}
  /\ conn = [s \in Socket |-> "idle"]
  /\ disc = [s \in Socket |-> "idle"]
  /\ loggingIn = {}
  /\ isOnline = [u \in User |-> FALSE]
  /\ announced = [u \in User |-> FALSE]
  /\ suspect = [u \in User |-> FALSE]

----------------------------------------------------------------------------
\* A presence write of u is in flight, in a handler other than the
\* handleConnection of a socket in `ended`.
WritesInFlight(u, ended) ==
  \/ \E s \in Socket \ ended : Owner[s] = u /\ conn[s] \in InFlight
  \/ \E s \in Socket : Owner[s] = u /\ disc[s] \in InFlight
  \/ u \in loggingIn

\* handleConnection up to its first await, for a socket with a valid token.
Connect(s) ==
  LET u == Owner[s] IN
  /\ s \notin connected /\ conn[s] = "idle" /\ disc[s] = "idle"
  /\ connected' = connected \cup {s}
  /\ userSockets' = [userSockets EXCEPT ![u] = @ \cup {s}]
  /\ conn' = [conn EXCEPT ![s] = "writing"]
  \* a gateway write restores trust in the flag when it runs alone
  /\ suspect' = [suspect EXCEPT ![u] = WritesInFlight(u, {})]
  /\ UNCHANGED <<disc, loggingIn, isOnline, announced>>

\* PostgreSQL performs the update of setOnlineStatus(userId, true).
WriteOnline(s) ==
  /\ conn[s] = "writing"
  /\ isOnline' = [isOnline EXCEPT ![Owner[s]] = TRUE]
  /\ conn' = [conn EXCEPT ![s] = "written"]
  /\ UNCHANGED <<userSockets, connected, disc, loggingIn, announced, suspect>>

\* handleConnection resumes: broadcast, then await the conversations.
AnnounceOnline(s) ==
  /\ conn[s] = "written"
  /\ announced' = [announced EXCEPT ![Owner[s]] = TRUE]
  /\ conn' = [conn EXCEPT ![s] = "reading"]
  /\ UNCHANGED <<userSockets, connected, disc, loggingIn, isOnline, suspect>>

\* handleConnection ends; joining rooms means nothing on a closed socket.
JoinRooms(s) ==
  /\ conn[s] = "reading"
  /\ conn' = [conn EXCEPT ![s] = IF s \in connected THEN "joined" ELSE "idle"]
  /\ UNCHANGED <<userSockets, connected, disc, loggingIn, isOnline, announced, suspect>>

----------------------------------------------------------------------------
\* Variant: a closed tab leaves the Map only with the user's last one.
HandleDisconnectLastOnly(s, ended) ==
  LET u == Owner[s]
      rest == userSockets[u] \ {s}
  IN /\ connected' = connected \ {s}
     /\ userSockets' = [userSockets EXCEPT ![u] = IF rest = {} THEN {} ELSE @]
     /\ disc' = [disc EXCEPT ![s] = IF rest = {} THEN "writing" ELSE @]
     /\ UNCHANGED suspect

\* Variant: no test that the departing tab is the last one.
HandleDisconnectEveryTab(s, ended) ==
  /\ connected' = connected \ {s}
  /\ userSockets' = [userSockets EXCEPT ![Owner[s]] = @ \ {s}]
  /\ disc' = [disc EXCEPT ![s] = "writing"]
  /\ suspect' = [suspect EXCEPT ![Owner[s]] = WritesInFlight(Owner[s], ended)]

\* handleDisconnect up to its first await.  `ended` is {s} when the call comes
\* from the catch of s's own handleConnection, whose write may have been lost.
HandleDisconnect(s, ended) ==
  LET u == Owner[s]
      rest == userSockets[u] \ {s}
  IN /\ connected' = connected \ {s}
     /\ userSockets' = [userSockets EXCEPT ![u] = rest]
     /\ disc' = [disc EXCEPT ![s] = IF rest = {} THEN "writing" ELSE @]
     /\ suspect' = [suspect EXCEPT
          ![u] = IF rest = {} THEN WritesInFlight(u, ended) ELSE @ \/ ended # {}]

\* The tab closes or its network fails.  handleConnection may still run.
Close(s) ==
  /\ s \in connected
  /\ HandleDisconnect(s, {})
  /\ conn' = [conn EXCEPT ![s] = IF @ = "joined" THEN "idle" ELSE @]
  /\ UNCHANGED <<loggingIn, isOnline, announced>>

\* Variant: the catch logs and does not close the socket.
FailConnectionOpen(s) ==
  /\ conn[s] \in InFlight \cup {"reading"}
  /\ conn' = [conn EXCEPT ![s] = "idle"]
  /\ suspect' = [suspect EXCEPT ![Owner[s]] = TRUE]
  /\ UNCHANGED <<userSockets, connected, disc, loggingIn, isOnline, announced>>

\* A query of handleConnection fails: catch, and client.disconnect(), which
\* does nothing on a socket that is closed already.
FailConnection(s) ==
  /\ conn[s] \in InFlight \cup {"reading"}
  /\ conn' = [conn EXCEPT ![s] = "idle"]
  /\ IF s \in connected
       THEN HandleDisconnect(s, {s})
       ELSE /\ suspect' = [suspect EXCEPT ![Owner[s]] = TRUE]
            /\ UNCHANGED <<userSockets, connected, disc>>
  /\ UNCHANGED <<loggingIn, isOnline, announced>>

\* PostgreSQL performs the update of setOnlineStatus(userId, false).
WriteOffline(s) ==
  /\ disc[s] = "writing"
  /\ isOnline' = [isOnline EXCEPT ![Owner[s]] = FALSE]
  /\ disc' = [disc EXCEPT ![s] = "written"]
  /\ UNCHANGED <<userSockets, connected, conn, loggingIn, announced, suspect>>

\* Variant: the broadcast of a departure is forgotten.
AnnounceOfflineSilent(s) ==
  /\ disc[s] = "written"
  /\ disc' = [disc EXCEPT ![s] = "idle"]
  /\ UNCHANGED <<userSockets, connected, conn, loggingIn, isOnline, announced, suspect>>

\* handleDisconnect resumes and broadcasts, whoever connected meanwhile.
AnnounceOffline(s) ==
  /\ disc[s] = "written"
  /\ announced' = [announced EXCEPT ![Owner[s]] = FALSE]
  /\ disc' = [disc EXCEPT ![s] = "idle"]
  /\ UNCHANGED <<userSockets, connected, conn, loggingIn, isOnline, suspect>>

----------------------------------------------------------------------------
\* POST /auth/login: isOnline is set although no socket is open yet.
Login(u) ==
  /\ u \notin loggingIn
  /\ loggingIn' = loggingIn \cup {u}
  /\ suspect' = [suspect EXCEPT ![u] = TRUE]
  /\ UNCHANGED <<userSockets, connected, conn, disc, isOnline, announced>>

WriteLogin(u) ==
  /\ u \in loggingIn
  /\ loggingIn' = loggingIn \ {u}
  /\ isOnline' = [isOnline EXCEPT ![u] = TRUE]
  /\ UNCHANGED <<userSockets, connected, conn, disc, announced, suspect>>

\* The process ends and starts again: the Map and every handler are lost, the
\* column stays.  A rejected promise of handleDisconnect ends it too, for Nest
\* subscribes the handler without a catch.
Crash ==
  /\ userSockets' = [u \in User |-> {}]
  /\ connected' = {}
  /\ conn' = [s \in Socket |-> "idle"]
  /\ disc' = [s \in Socket |-> "idle"]
  /\ loggingIn' = {}
  /\ suspect' = [u \in User |-> TRUE]
  /\ UNCHANGED <<isOnline, announced>>

Handle(s) ==
  \/ WriteOnline(s) \/ AnnounceOnline(s) \/ JoinRooms(s)
  \/ WriteOffline(s) \/ AnnounceOffline(s)

Next ==
  \/ \E s \in Socket :
       \/ Connect(s) \/ WriteOnline(s) \/ AnnounceOnline(s) \/ JoinRooms(s)
       \/ Close(s) \/ FailConnection(s) \/ WriteOffline(s) \/ AnnounceOffline(s)
  \/ \E u \in User : Login(u) \/ WriteLogin(u)
  \/ Crash

\* Node's event loop resumes a handler whose query has been answered, and
\* PostgreSQL answers.  Nothing makes tabs open or close, or the process crash.
Fairness == \A s \in Socket : WF_vars(Handle(s))

Spec == Init /\ [][Next]_vars /\ Fairness
----------------------------------------------------------------------------
(* Properties *)

\* The gateway's Map holds exactly the open sockets of each user, whatever
\* handlers are suspended: no tab is forgotten and no closed tab lingers.
RegistryExact ==
  \A u \in User : userSockets[u] = {s \in connected : Owner[s] = u}

\* Once the handlers of a user are at rest, the users.isOnline column says
\* whether a tab is open, unless writes overlapped, failed, came from a login
\* or were cut short by a restart: then only a lone connection or departure
\* of the user's last tab makes it right again.
ColumnRightAtRest ==
  \A u \in User :
    ~WritesInFlight(u, {}) /\ ~suspect[u] => (isOnline[u] <=> userSockets[u] # {})

\* Under the same condition the last presence event broadcast agrees with the
\* column, so a client that listened and a client that reloads see the same.
BroadcastAgreesAtRest ==
  \A u \in User :
    ~WritesInFlight(u, {}) /\ ~suspect[u] => (announced[u] <=> isOnline[u])

\* user_offline is broadcast for a user who has an open tab only when that tab
\* was opened while the offline write was under way (or after a failure).
OfflineOnlyWhenRaced ==
  [][\A u \in User :
       announced[u] /\ ~announced'[u] /\ userSockets[u] # {} => suspect[u]]_vars

\* A registered socket does not stay half connected: it joins its rooms or, if
\* a query fails, is closed and taken out of the Map.
RegisteredGetsRooms ==
  \A s \in Socket :
    (s \in userSockets[Owner[s]]) ~>
      (conn[s] = "joined" \/ s \notin userSockets[Owner[s]])
=============================================================================
