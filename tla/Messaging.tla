------------------------------ MODULE Messaging ------------------------------
(***************************************************************************)
(* Conversations and messages of the chat back end: ChatService, the       *)
(* message handlers of ChatGateway and the socket.io rooms they use        *)
(* (Nest_Websocket/backend).                                               *)
(*                                                                         *)
(* Each HTTP request and each socket event runs as an async handler, one   *)
(* step from await to await; handlers interleave, those of one socket too. *)
(* The steps named Db... are PostgreSQL performing the awaited query.      *)
(* Time stamps are kept as what they tell apart: the messages of a         *)
(* conversation that are no newer than the stamp.                          *)
(***************************************************************************)
EXTENDS FiniteSets

CONSTANTS
  User,     \* the registered users
  Socket,   \* socket.io connections, each used once
  Owner,    \* Owner[s]: the user of socket s
  Conv,     \* conversation ids the database may hand out
  Msg,      \* message ids the database may hand out
  Request,  \* POST /conversations requests, each made once
  Mover,    \* the sockets that send join_chat and leave_chat
  Reader,   \* the sockets that send mark_read
  Poster    \* the users who also use POST /messages and PATCH /messages/:id/read

ASSUME OwnerAssumption == Owner \in [Socket -> User]
ASSUME DisjointAssumption == User \cap Socket = {}

VARIABLES
  link,      \* handleConnection of a socket: closed, reading, joining, ready
  known,     \* the conversations its findMany answered
  rooms,     \* the conversation rooms a socket is in
  parts,     \* participants of a conversation; {} when there is no such row
  ask,       \* the getOrCreateConversation requests
  pc,        \* where createMessage of a message is suspended
  via,       \* the socket (send_message) or user (POST /messages) it came from
  conv,      \* the conversation it is addressed to
  stored,    \* the messages in the database
  read,      \* the messages with isRead
  stamp,     \* the value of the updatedAt a createMessage writes
  updatedAt, \* Conversation.updatedAt
  mark,      \* where mark_read of a socket is suspended
  got,       \* the messages a socket was sent by message_received
  behind,    \* history: conversations a ready socket cannot know it is part of
  raced,     \* history: conversations whose sends overlapped or failed half-way
  twins      \* history: pairs of users for whom two creations overlapped

vars == <<link, known, rooms, parts, ask, pc, via, conv, stored, read, stamp,
          updatedAt, mark, got, behind, raced, twins>>
chatVars == <<pc, via, conv, stored, read, stamp, updatedAt, mark, got, raced>>
linkVars == <<link, known, rooms>>

None == "none"
LinkState == {"closed", "reading", "joining", "ready"}
SendState == {"unused", "asserting", "creating", "bumping", "emitting", "done", "failed"}
InFlight  == {"asserting", "creating", "bumping", "emitting"}

Author(m) == IF via[m] \in Socket THEN Owner[via[m]] ELSE via[m]

TypeOK ==
  /\ link \in [Socket -> LinkState]
  /\ known \in [Socket -> SUBSET Conv]
  /\ rooms \in [Socket -> SUBSET Conv]
  /\ parts \in [Conv -> SUBSET User]
  /\ ask \in [Request -> [pc : {"new", "finding", "creating", "done", "failed"},
                          by : User \cup {None}, peer : User \cup {None},
                          result : Conv \cup {None}]]
  /\ pc \in [Msg -> SendState]
  /\ via \in [Msg -> Socket \cup User \cup {None}]
  /\ conv \in [Msg -> Conv \cup {None}]
  /\ stored \subseteq Msg /\ read \subseteq stored
  /\ stamp \in [Msg -> SUBSET Msg]
  /\ updatedAt \in [Conv -> SUBSET Msg]
  /\ mark \in [Socket -> [pc : {"idle", "updating", "emitting"},
                          conv : Conv \cup {None}, seen : SUBSET Msg]]
  /\ got \in [Socket -> SUBSET Msg]
  /\ behind \in [Socket -> SUBSET Conv]
  /\ raced \subseteq Conv
  /\ twins \subseteq SUBSET User

NoMark == [pc |-> "idle", conv |-> None, seen |-> {}]

Init ==
  /\ link = [s \in Socket |-> "closed"]
  /\ known = [s \in Socket |-> {}]
  /\ rooms = [s \in Socket |-> {}]
  /\ parts = [c \in Conv |-> {}]
  /\ ask = [r \in Request |-> [pc |-> "new", by |-> None, peer |-> None, result |-> None]]
  /\ pc = [m \in Msg |-> "unused"]
  /\ via = [m \in Msg |-> None]
  /\ conv = [m \in Msg |-> None]
  /\ stored = {} /\ read = {}
  /\ stamp = [m \in Msg |-> {}]
  /\ updatedAt = [c \in Conv |-> {}]
  /\ mark = [s \in Socket |-> NoMark]
  /\ got = [s \in Socket |-> {}]
  /\ behind = [s \in Socket |-> {}]
  /\ raced = {}
  /\ twins = {}

----------------------------------------------------------------------------
(* Connections and rooms *)

\* handleConnection has announced the user and awaits its conversations.
Connect(s) ==
  /\ link[s] = "closed" /\ known[s] = {} /\ rooms[s] = {} /\ got[s] = {}
  /\ link' = [link EXCEPT ![s] = "reading"]
  /\ UNCHANGED <<known, rooms, parts, ask, behind, twins, chatVars>>

DbConversations(s) ==
  /\ link[s] = "reading"
  /\ link' = [link EXCEPT ![s] = "joining"]
  /\ known' = [known EXCEPT ![s] = {c \in Conv : Owner[s] \in parts[c]}]
  /\ UNCHANGED <<rooms, parts, ask, behind, twins, chatVars>>

\* Variant: the conversations are read and their rooms not joined.
JoinRoomsNone(s) ==
  /\ link[s] = "joining"
  /\ link' = [link EXCEPT ![s] = "ready"]
  /\ UNCHANGED <<known, rooms, parts, ask, behind, twins, chatVars>>

JoinRooms(s) ==
  /\ link[s] = "joining"
  /\ link' = [link EXCEPT ![s] = "ready"]
  /\ rooms' = [rooms EXCEPT ![s] = @ \cup known[s]]
  /\ UNCHANGED <<known, parts, ask, behind, twins, chatVars>>

\* The events join_chat and leave_chat of a connected client.  Bound: clients
\* name conversations of their user (the gateway does not look).
JoinChat(s, c) ==
  /\ s \in Mover /\ link[s] # "closed" /\ Owner[s] \in parts[c] /\ c \notin rooms[s]
  /\ rooms' = [rooms EXCEPT ![s] = @ \cup {c}]
  /\ behind' = [behind EXCEPT ![s] = @ \ {c}]
  /\ UNCHANGED <<link, known, parts, ask, twins, chatVars>>

LeaveChat(s, c) ==
  /\ s \in Mover /\ link[s] = "ready" /\ c \in rooms[s]
  /\ rooms' = [rooms EXCEPT ![s] = @ \ {c}]
  /\ behind' = [behind EXCEPT ![s] = @ \cup {c}]
  /\ UNCHANGED <<link, known, parts, ask, twins, chatVars>>

\* A closed socket is in no room; its handlers run on.
Close(s) ==
  /\ link[s] # "closed"
  /\ link' = [link EXCEPT ![s] = "closed"]
  /\ known' = [known EXCEPT ![s] = Conv]   \* the slot is not used again
  /\ rooms' = [rooms EXCEPT ![s] = {}]
  /\ UNCHANGED <<parts, ask, behind, twins, chatVars>>

----------------------------------------------------------------------------
(* POST /conversations: findFirst, then create, with nothing in between to  *)
(* keep another request out.                                                *)

Ask(r, u, p) ==
  /\ ask[r].pc = "new"
  /\ ask' = [ask EXCEPT ![r] = [@ EXCEPT !.pc = "finding", !.by = u, !.peer = p]]
  /\ UNCHANGED <<linkVars, parts, behind, twins, chatVars>>

Existing(u, p) == {c \in Conv : u \in parts[c] /\ p \in parts[c]}

\* Variant: a conversation is created without looking for one.
DbFindNothing(r) ==
  /\ ask[r].pc = "finding"
  /\ ask' = [ask EXCEPT ![r].pc = "creating"]
  /\ twins' = IF \E q \in Request \ {r} :
                   ask[q].pc = "creating" /\ {ask[q].by, ask[q].peer} = {ask[r].by, ask[r].peer}
                THEN twins \cup {{ask[r].by, ask[r].peer}} ELSE twins
  /\ UNCHANGED <<linkVars, parts, behind, chatVars>>

DbFindFirst(r) ==
  LET u == ask[r].by
      p == ask[r].peer
  IN /\ ask[r].pc = "finding"
     /\ IF Existing(u, p) # {}
          THEN \E c \in Existing(u, p) :
                 ask' = [ask EXCEPT ![r].pc = "done", ![r].result = c]
          ELSE ask' = [ask EXCEPT ![r].pc = "creating"]
     /\ twins' = IF Existing(u, p) = {} /\ \E q \in Request \ {r} :
                      ask[q].pc = "creating" /\ {ask[q].by, ask[q].peer} = {u, p}
                   THEN twins \cup {{u, p}} ELSE twins
     /\ UNCHANGED <<linkVars, parts, behind, chatVars>>

\* The nested create makes both participants or none: asking for oneself
\* breaks the unique key (conversationId, userId).
DbCreateConversation(r) ==
  LET pair == {ask[r].by, ask[r].peer} IN
  /\ ask[r].pc = "creating"
  /\ IF Cardinality(pair) = 2
       THEN \E c \in Conv :
              /\ parts[c] = {}
              /\ parts' = [parts EXCEPT ![c] = pair]
              /\ ask' = [ask EXCEPT ![r].pc = "done", ![r].result = c]
              /\ behind' = [s \in Socket |->
                   IF link[s] \in {"joining", "ready"} THEN behind[s] \cup {c} ELSE behind[s]]
       ELSE /\ ask' = [ask EXCEPT ![r].pc = "failed"]
            /\ UNCHANGED <<parts, behind>>
  /\ UNCHANGED <<linkVars, twins, chatVars>>

----------------------------------------------------------------------------
(* createMessage, from send_message or POST /messages *)

Overlapping(c) == \E m \in Msg : conv[m] = c /\ pc[m] \in InFlight

Start(m, v, c) ==
  /\ pc[m] = "unused" /\ parts[c] # {}
  /\ pc' = [pc EXCEPT ![m] = "asserting"]
  /\ via' = [via EXCEPT ![m] = v]
  /\ conv' = [conv EXCEPT ![m] = c]
  /\ raced' = IF Overlapping(c) THEN raced \cup {c} ELSE raced
  /\ UNCHANGED <<linkVars, parts, ask, stored, read, stamp, updatedAt, mark, got, behind, twins>>

SendMessage(m, s, c) == link[s] # "closed" /\ Start(m, s, c)
PostMessage(m, u, c) == u \in Poster /\ Start(m, u, c)

\* assertParticipant: ForbiddenException unless there is a participant row.
DbAssertParticipant(m) ==
  /\ pc[m] = "asserting"
  /\ pc' = [pc EXCEPT ![m] = IF Author(m) \in parts[conv[m]] THEN "creating" ELSE "failed"]
  /\ UNCHANGED <<linkVars, parts, ask, via, conv, stored, read, stamp, updatedAt, mark, got,
                 behind, raced, twins>>

\* Variant: the time is taken before the message is stored.
DbCreateMessageEarlyStamp(m) ==
  /\ pc[m] = "creating"
  /\ pc' = [pc EXCEPT ![m] = "bumping"]
  /\ stored' = stored \cup {m}
  /\ stamp' = [stamp EXCEPT ![m] = {n \in stored : conv[n] = conv[m]}]
  /\ UNCHANGED <<linkVars, parts, ask, via, conv, read, updatedAt, mark, got, behind, raced, twins>>

\* The row is stored; the handler resumes at once and issues the update of
\* updatedAt, with the time it is now.
DbCreateMessage(m) ==
  /\ pc[m] = "creating"
  /\ pc' = [pc EXCEPT ![m] = "bumping"]
  /\ stored' = stored \cup {m}
  /\ stamp' = [stamp EXCEPT ![m] = {n \in stored' : conv[n] = conv[m]}]
  /\ UNCHANGED <<linkVars, parts, ask, via, conv, read, updatedAt, mark, got, behind, raced, twins>>

DbBumpConversation(m) ==
  /\ pc[m] = "bumping"
  /\ updatedAt' = [updatedAt EXCEPT ![conv[m]] = stamp[m]]
  /\ pc' = [pc EXCEPT ![m] = IF via[m] \in Socket THEN "emitting" ELSE "done"]
  /\ UNCHANGED <<linkVars, parts, ask, via, conv, stored, read, stamp, mark, got, behind, raced, twins>>

\* handleSendMessage resumes: message_sent to the sender, message_received to
\* the other sockets of the room.
EmitMessage(m) ==
  /\ pc[m] = "emitting"
  /\ pc' = [pc EXCEPT ![m] = "done"]
  /\ got' = [s \in Socket |->
       IF s # via[m] /\ conv[m] \in rooms[s] THEN got[s] \cup {m} ELSE got[s]]
  /\ UNCHANGED <<linkVars, parts, ask, via, conv, stored, read, stamp, updatedAt, mark,
                 behind, raced, twins>>

\* A query of createMessage fails: the handler ends, what was stored stays.
FailSend(m) ==
  /\ pc[m] \in {"asserting", "creating", "bumping"}
  /\ pc' = [pc EXCEPT ![m] = "failed"]
  /\ raced' = raced \cup {conv[m]}
  /\ UNCHANGED <<linkVars, parts, ask, via, conv, stored, read, stamp, updatedAt, mark, got,
                 behind, twins>>

----------------------------------------------------------------------------
(* Read receipts.  Bound: users mark what their own conversations hold (the *)
(* code does not look).                                                     *)

MarkRead(s, c) ==
  /\ s \in Reader /\ link[s] # "closed" /\ mark[s].pc = "idle" /\ Owner[s] \in parts[c]
  /\ mark' = [mark EXCEPT ![s] = [pc |-> "updating", conv |-> c,
                                  seen |-> {m \in got[s] : conv[m] = c}]]
  /\ UNCHANGED <<linkVars, parts, ask, pc, via, conv, stored, read, stamp, updatedAt, got,
                 behind, raced, twins>>

\* Variant: the condition on the sender is the wrong way round.
UnreadOwn(c, u) == {m \in stored \ read : conv[m] = c /\ Author(m) = u}

Unread(c, u) == {m \in stored \ read : conv[m] = c /\ Author(m) # u}

DbMarkConversationAsRead(s) ==
  /\ mark[s].pc = "updating"
  /\ read' = read \cup Unread(mark[s].conv, Owner[s])
  /\ mark' = [mark EXCEPT ![s].pc = "emitting"]
  /\ UNCHANGED <<linkVars, parts, ask, pc, via, conv, stored, stamp, updatedAt, got,
                 behind, raced, twins>>

\* handleMarkRead resumes: message_read to the others of the room.
EmitRead(s) ==
  /\ mark[s].pc = "emitting"
  /\ mark' = [mark EXCEPT ![s] = NoMark]
  /\ UNCHANGED <<linkVars, parts, ask, pc, via, conv, stored, read, stamp, updatedAt, got,
                 behind, raced, twins>>

\* PATCH /messages/:id/read.  The message is found and then updated; nothing
\* deletes it or changes its sender in between.
MarkAsRead(u, m) ==
  /\ u \in Poster /\ m \in stored \ read /\ u \in parts[conv[m]] /\ Author(m) # u
  /\ read' = read \cup {m}
  /\ UNCHANGED <<linkVars, parts, ask, pc, via, conv, stored, stamp, updatedAt, mark, got,
                 behind, raced, twins>>

----------------------------------------------------------------------------
Next ==
  \/ \E s \in Socket :
       \/ Connect(s) \/ DbConversations(s) \/ JoinRooms(s) \/ Close(s)
       \/ DbMarkConversationAsRead(s) \/ EmitRead(s)
       \/ \E c \in Conv : JoinChat(s, c) \/ LeaveChat(s, c) \/ MarkRead(s, c)
  \/ \E r \in Request :
       \/ \E u, p \in User : Ask(r, u, p)
       \/ DbFindFirst(r) \/ DbCreateConversation(r)
  \/ \E m \in Msg :
       \/ \E s \in Socket, c \in Conv : SendMessage(m, s, c)
       \/ \E u \in User, c \in Conv : PostMessage(m, u, c)
       \/ \E u \in User : MarkAsRead(u, m)
       \/ DbAssertParticipant(m) \/ DbCreateMessage(m) \/ DbBumpConversation(m)
       \/ EmitMessage(m) \/ FailSend(m)

Spec == Init /\ [][Next]_vars
----------------------------------------------------------------------------
(* Properties *)

\* Live delivery: when a message is emitted, every other open tab of a
\* participant is sent it, unless the tab left the room or read its list of
\* conversations before this one existed.
DeliveredToOldRooms ==
  [][\A m \in Msg : pc[m] = "emitting" /\ pc'[m] = "done" =>
       \A s \in Socket :
         /\ link[s] = "ready" /\ s # via[m]
         /\ Owner[s] \in parts[conv[m]] /\ conv[m] \notin behind[s]
         => m \in got'[s]]_vars

\* A tab's read receipt covers every message of others the tab had been sent when
\* it asked (what its user wrote in another tab is for the others to mark).
ReceiptCoversSeen ==
  \A s \in Socket :
    mark[s].pc = "emitting" => \A m \in mark[s].seen : m \in read \/ Author(m) = Owner[s]

\* Two users share one conversation at most, unless two requests for the pair
\* both found none and both created one.
OneConversationPerPair ==
  \A c, d \in Conv :
    c # d /\ parts[c] # {} /\ parts[c] = parts[d] => parts[c] \in twins

\* Once the sends of a conversation have ended, its updatedAt (which orders
\* everyone's conversation list) is no older than its last message, unless
\* sends overlapped or failed half-way.
ListOrderAtRest ==
  \A c \in Conv \ raced :
    ~Overlapping(c) => {m \in stored : conv[m] = c} \subseteq updatedAt[c]
=============================================================================
