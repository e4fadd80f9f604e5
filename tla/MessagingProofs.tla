--------------------------- MODULE MessagingProofs ---------------------------
(***************************************************************************)
(* What conversations and messages guarantee for every set of users,       *)
(* sockets, conversations, messages and requests.                          *)
(*                                                                         *)
(* Each property speaks of the end of a handler.  The inductive invariant  *)
(* says, for every await a handler may be suspended at, what it has        *)
(* achieved so far and what it relies on until it resumes.                 *)
(***************************************************************************)
EXTENDS Messaging, TLAPS

----------------------------------------------------------------------------
(* Types *)

\* A handler that runs is about a conversation and for users.
Definite ==
  /\ \A m \in Msg : pc[m] # "unused" => conv[m] \in Conv
  /\ \A s \in Socket : mark[s].pc # "idle" => mark[s].conv \in Conv
  /\ \A r \in Request : ask[r].pc # "new" => ask[r].by \in User /\ ask[r].peer \in User

Typed == TypeOK /\ Definite

LEMMA InitTyped == Init => Typed
BY DEF Init, Typed, TypeOK, Definite, LinkState, SendState, NoMark

\* Connections, rooms and requests for conversations.
LEMMA RoomsTyped ==
  ASSUME Typed,
         \/ \E s \in Socket : Connect(s) \/ DbConversations(s) \/ JoinRooms(s) \/ Close(s)
         \/ \E s \in Socket, c \in Conv : JoinChat(s, c) \/ LeaveChat(s, c)
  PROVE  Typed'
<1>. USE DEF Typed, TypeOK, Definite, LinkState, chatVars
<1>1. ASSUME NEW s \in Socket, Connect(s) PROVE Typed'
  BY <1>1 DEF Connect
<1>2. ASSUME NEW s \in Socket, DbConversations(s) PROVE Typed'
  BY <1>2 DEF DbConversations
<1>3. ASSUME NEW s \in Socket, JoinRooms(s) PROVE Typed'
  BY <1>3 DEF JoinRooms
<1>4. ASSUME NEW s \in Socket, Close(s) PROVE Typed'
  BY <1>4 DEF Close
<1>5. ASSUME NEW s \in Socket, NEW c \in Conv, JoinChat(s, c) PROVE Typed'
  BY <1>5 DEF JoinChat
<1>6. ASSUME NEW s \in Socket, NEW c \in Conv, LeaveChat(s, c) PROVE Typed'
  BY <1>6 DEF LeaveChat
<1>. QED
  BY <1>1, <1>2, <1>3, <1>4, <1>5, <1>6

AskRow == [pc : {"new", "finding", "creating", "done", "failed"},
           by : User \cup {None}, peer : User \cup {None}, result : Conv \cup {None}]

\* A request goes on as q, and a conversation may be made.
LEMMA RequestTyped ==
  ASSUME Typed, NEW r \in Request, NEW q \in AskRow, ask' = [ask EXCEPT ![r] = q],
         q.by \in User /\ q.peer \in User,
         parts' \in [Conv -> SUBSET User], behind' \in [Socket -> SUBSET Conv],
         twins' \subseteq SUBSET User, UNCHANGED <<linkVars, chatVars>>
  PROVE  Typed'
<1>1. /\ TypeOK' /\ \A x \in Request : ask'[x].pc # "new" => ask'[x].by \in User /\ ask'[x].peer \in User
  BY DEF Typed, TypeOK, Definite, AskRow, linkVars, chatVars
<1>. QED
  BY <1>1 DEF Typed, Definite, linkVars, chatVars

LEMMA RequestsTyped ==
  ASSUME Typed, NEW r \in Request,
         (\E u, p \in User : Ask(r, u, p)) \/ DbFindFirst(r) \/ DbCreateConversation(r)
  PROVE  Typed'
<1>1. /\ ask \in [Request -> AskRow] /\ ask[r] \in AskRow
      /\ ask[r].pc # "new" => ask[r].by \in User /\ ask[r].peer \in User
  BY DEF Typed, TypeOK, Definite, AskRow
<1>2. /\ parts \in [Conv -> SUBSET User] /\ behind \in [Socket -> SUBSET Conv]
      /\ twins \subseteq SUBSET User
  BY DEF Typed, TypeOK
<1>3. ASSUME NEW u \in User, NEW p \in User, Ask(r, u, p) PROVE Typed'
  <2>. DEFINE q == [ask[r] EXCEPT !.pc = "finding", !.by = u, !.peer = p]
  <2>1. q \in AskRow /\ q.by \in User /\ q.peer \in User
    BY <1>1 DEF AskRow
  <2>. QED
    BY <1>2, <1>3, <2>1, RequestTyped DEF Ask
<1>4. CASE DbFindFirst(r)
  <2>1. ask[r].by \in User /\ ask[r].peer \in User
    BY <1>1, <1>4 DEF DbFindFirst
  <2>2. twins' \subseteq SUBSET User /\ UNCHANGED <<linkVars, parts, behind, chatVars>>
    BY <1>2, <1>4, <2>1 DEF DbFindFirst
  <2>3. \E q \in AskRow : ask' = [ask EXCEPT ![r] = q] /\ q.by = ask[r].by /\ q.peer = ask[r].peer
    <3>1. CASE ask' = [ask EXCEPT ![r].pc = "creating"]
      <4>. DEFINE q == [ask[r] EXCEPT !.pc = "creating"]
      <4>1. q \in AskRow /\ q.by = ask[r].by /\ q.peer = ask[r].peer
        BY <1>1 DEF AskRow
      <4>. QED
        BY <3>1, <4>1
    <3>2. ASSUME NEW c \in Conv, ask' = [ask EXCEPT ![r].pc = "done", ![r].result = c]
          PROVE  \E q \in AskRow : ask' = [ask EXCEPT ![r] = q] /\ q.by = ask[r].by /\ q.peer = ask[r].peer
      <4>. DEFINE q == [ask[r] EXCEPT !.pc = "done", !.result = c]
      <4>1. q \in AskRow /\ q.by = ask[r].by /\ q.peer = ask[r].peer
        BY <1>1, <3>2 DEF AskRow
      <4>2. ask' = [ask EXCEPT ![r] = q]
        BY <1>1, <3>2
      <4>. QED
        BY <4>1, <4>2
    <3>. QED
      BY <1>4, <3>1, <3>2 DEF DbFindFirst, Existing
  <2>. QED
    BY <1>2, <2>1, <2>2, <2>3, RequestTyped
<1>5. CASE DbCreateConversation(r)
  <2>1. ask[r].by \in User /\ ask[r].peer \in User
    BY <1>1, <1>5 DEF DbCreateConversation
  <2>2. CASE ask' = [ask EXCEPT ![r].pc = "failed"] /\ UNCHANGED <<parts, behind>>
    <3>. DEFINE q == [ask[r] EXCEPT !.pc = "failed"]
    <3>1. q \in AskRow /\ q.by = ask[r].by /\ q.peer = ask[r].peer
      BY <1>1 DEF AskRow
    <3>2. UNCHANGED <<linkVars, twins, chatVars>>
      BY <1>5 DEF DbCreateConversation
    <3>3. ask' = [ask EXCEPT ![r] = q]
      BY <2>2
    <3>. HIDE DEF q
    <3>. QED
      BY <1>2, <2>1, <2>2, <3>1, <3>2, <3>3, RequestTyped
  <2>3. ASSUME NEW c \in Conv, parts' = [parts EXCEPT ![c] = {ask[r].by, ask[r].peer}],
               ask' = [ask EXCEPT ![r].pc = "done", ![r].result = c],
               behind' = [s \in Socket |->
                 IF link[s] \in {"joining", "ready"} THEN behind[s] \cup {c} ELSE behind[s]]
        PROVE  Typed'
    <3>. DEFINE q == [ask[r] EXCEPT !.pc = "done", !.result = c]
    <3>1. q \in AskRow /\ q.by = ask[r].by /\ q.peer = ask[r].peer
      BY <1>1, <2>3 DEF AskRow
    <3>2. ask' = [ask EXCEPT ![r] = q]
      BY <1>1, <2>3
    <3>3. parts' \in [Conv -> SUBSET User] /\ behind' \in [Socket -> SUBSET Conv]
      BY <1>2, <2>1, <2>3
    <3>. QED
      BY <1>2, <1>5, <2>1, <3>1, <3>2, <3>3, RequestTyped DEF DbCreateConversation
  <2>. QED
    BY <1>5, <2>2, <2>3 DEF DbCreateConversation
<1>. QED
  BY <1>3, <1>4, <1>5

LEMMA SendsTyped ==
  ASSUME Typed, NEW m \in Msg,
         \/ \E s \in Socket, c \in Conv : SendMessage(m, s, c)
         \/ \E u \in User, c \in Conv : PostMessage(m, u, c)
         \/ DbAssertParticipant(m) \/ DbCreateMessage(m) \/ DbBumpConversation(m)
         \/ EmitMessage(m) \/ FailSend(m)
  PROVE  Typed'
<1>. USE DEF Typed, TypeOK, Definite, SendState, linkVars
<1>1. ASSUME NEW v \in Socket \cup User, NEW c \in Conv, Start(m, v, c) PROVE Typed'
  BY <1>1 DEF Start
<1>2. CASE DbAssertParticipant(m)
  BY <1>2 DEF DbAssertParticipant
<1>3. CASE DbCreateMessage(m)
  BY <1>3 DEF DbCreateMessage
<1>4. CASE DbBumpConversation(m)
  BY <1>4 DEF DbBumpConversation
<1>5. CASE EmitMessage(m)
  BY <1>5 DEF EmitMessage
<1>6. CASE FailSend(m)
  BY <1>6 DEF FailSend
<1>. QED
  BY <1>1, <1>2, <1>3, <1>4, <1>5, <1>6 DEF SendMessage, PostMessage

MarkRow == [pc : {"idle", "updating", "emitting"}, conv : Conv \cup {None}, seen : SUBSET Msg]

LEMMA MarksTyped ==
  ASSUME Typed,
         \/ \E s \in Socket : DbMarkConversationAsRead(s) \/ EmitRead(s)
         \/ \E s \in Socket, c \in Conv : MarkRead(s, c)
         \/ \E m \in Msg, u \in User : MarkAsRead(u, m)
  PROVE  Typed'
<1>. USE DEF Typed, TypeOK, Definite, linkVars
<1>1. ASSUME NEW s \in Socket, DbMarkConversationAsRead(s) PROVE Typed'
  <2>. DEFINE q == [mark[s] EXCEPT !.pc = "emitting"]
  <2>1. mark \in [Socket -> MarkRow] /\ mark[s] \in MarkRow
    BY DEF MarkRow
  <2>2. mark' = [mark EXCEPT ![s] = q] /\ mark[s].conv \in Conv
    BY <1>1 DEF DbMarkConversationAsRead
  <2>3. q \in MarkRow /\ q.conv \in Conv
    BY <2>1, <2>2 DEF MarkRow
  <2>. HIDE DEF q
  <2>4. mark' \in [Socket -> MarkRow] /\ \A x \in Socket : mark'[x].pc # "idle" => mark'[x].conv \in Conv
    BY <2>1, <2>2, <2>3
  <2>5. read' \subseteq stored
    BY <1>1 DEF DbMarkConversationAsRead, Unread
  <2>. QED
    BY <1>1, <2>4, <2>5 DEF DbMarkConversationAsRead, MarkRow
<1>2. ASSUME NEW s \in Socket, EmitRead(s) PROVE Typed'
  BY <1>2 DEF EmitRead, NoMark
<1>3. ASSUME NEW s \in Socket, NEW c \in Conv, MarkRead(s, c) PROVE Typed'
  <2>. DEFINE q == [pc |-> "updating", conv |-> c, seen |-> {m \in got[s] : conv[m] = c}]
  <2>1. mark' = [mark EXCEPT ![s] = q] /\ got[s] \subseteq Msg
    BY <1>3 DEF MarkRead
  <2>2. q \in MarkRow /\ q.conv \in Conv
    BY <1>3, <2>1 DEF MarkRow
  <2>3. mark \in [Socket -> MarkRow]
    BY DEF MarkRow
  <2>. HIDE DEF q
  <2>4. mark' \in [Socket -> MarkRow] /\ \A x \in Socket : mark'[x].pc # "idle" => mark'[x].conv \in Conv
    BY <2>1, <2>2, <2>3
  <2>. QED
    BY <1>3, <2>4 DEF MarkRead, MarkRow
<1>4. ASSUME NEW m \in Msg, NEW u \in User, MarkAsRead(u, m) PROVE Typed'
  BY <1>4 DEF MarkAsRead
<1>. QED
  BY <1>1, <1>2, <1>3, <1>4

LEMMA StepTyped == Typed /\ [Next]_vars => Typed'
<1>1. ASSUME Typed, UNCHANGED vars PROVE Typed'
  BY <1>1 DEF vars, Typed, TypeOK, Definite
<1>. QED
  BY <1>1, RoomsTyped, RequestsTyped, SendsTyped, MarksTyped DEF Next

\* Every variable keeps its type.
THEOREM MessagingTypes == Spec => []TypeOK
<1>1. Typed => TypeOK
  BY DEF Typed
<1>. QED
  BY <1>1, InitTyped, StepTyped, PTL DEF Spec

----------------------------------------------------------------------------
(* One conversation for a pair of users *)

Pair(r) == {ask[r].by, ask[r].peer}
Creating(r) == ask[r].pc = "creating"

\* Two requests of a pair that both found none make the pair twins, and a request
\* that found none still finds none, or its pair is twins.
PairsInv ==
  /\ OneConversationPerPair
  /\ \A r \in Request, c \in Conv : Creating(r) /\ parts[c] = Pair(r) => Pair(r) \in twins
  /\ \A q, r \in Request : q # r /\ Creating(q) /\ Creating(r) /\ Pair(q) = Pair(r) => Pair(r) \in twins

LEMMA PairsQuiet == PairsInv /\ UNCHANGED <<ask, parts, twins>> => PairsInv'
BY DEF PairsInv, OneConversationPerPair, Pair, Creating

LEMMA PairsStep ==
  ASSUME Typed, PairsInv, NEW r \in Request,
         (\E u, p \in User : Ask(r, u, p)) \/ DbFindFirst(r) \/ DbCreateConversation(r)
  PROVE  PairsInv'
<1>1. ask \in [Request -> AskRow] /\ ask[r] \in AskRow
  BY DEF Typed, TypeOK, AskRow
<1>2. ASSUME NEW u \in User, NEW p \in User, Ask(r, u, p) PROVE PairsInv'
  <2>1. ~Creating(r)' /\ \A x \in Request \ {r} : ask'[x] = ask[x]
    BY <1>1, <1>2 DEF Ask, Creating, AskRow
  <2>. QED
    <3>1. \A x \in Request \ {r} : Pair(x)' = Pair(x) /\ (Creating(x)' <=> Creating(x))
      BY <2>1 DEF Pair, Creating
    <3>2. UNCHANGED <<parts, twins>>
      BY <1>2 DEF Ask
    <3>. QED
      BY <2>1, <3>1, <3>2 DEF PairsInv, OneConversationPerPair
<1>3. CASE DbFindFirst(r)
  <2>1. \A x \in Request \ {r} : ask'[x] = ask[x]
    BY <1>1, <1>3 DEF DbFindFirst
  <2>2. ask'[r].by = ask[r].by /\ ask'[r].peer = ask[r].peer
    BY <1>1, <1>3 DEF DbFindFirst, AskRow
  <2>3. UNCHANGED parts /\ twins \subseteq twins'
    BY <1>3 DEF DbFindFirst
  <2>4. ASSUME Creating(r)'
        PROVE  /\ \A c \in Conv : parts[c] # Pair(r)
               /\ \A q \in Request \ {r} : Creating(q) /\ Pair(q) = Pair(r) => Pair(r) \in twins'
    <3>1. Existing(ask[r].by, ask[r].peer) = {}
      BY <1>1, <1>3, <2>4 DEF DbFindFirst, Creating, AskRow
    <3>. QED
      BY <1>3, <3>1 DEF DbFindFirst, Existing, Pair, Creating
  <2>5. \A x \in Request : Pair(x)' = Pair(x)
    BY <2>1, <2>2 DEF Pair
  <2>6. \A x \in Request \ {r} : Creating(x)' <=> Creating(x)
    BY <2>1 DEF Creating
  <2>. QED
    BY <2>3, <2>4, <2>5, <2>6 DEF PairsInv, OneConversationPerPair
<1>4. CASE DbCreateConversation(r)
  <2>1. Creating(r) /\ ~Creating(r)' /\ \A x \in Request \ {r} : ask'[x] = ask[x]
    BY <1>1, <1>4 DEF DbCreateConversation, Creating, AskRow
  <2>2. \A x \in Request \ {r} : Pair(x)' = Pair(x) /\ (Creating(x)' <=> Creating(x))
    BY <2>1 DEF Pair, Creating
  <2>3. UNCHANGED twins
    BY <1>4 DEF DbCreateConversation
  <2>4. CASE UNCHANGED parts
    BY <2>1, <2>2, <2>3, <2>4 DEF PairsInv, OneConversationPerPair
  <2>5. ASSUME NEW c \in Conv, parts' = [parts EXCEPT ![c] = Pair(r)] PROVE PairsInv'
    <3>1. \A d \in Conv : parts'[d] = IF d = c THEN Pair(r) ELSE parts[d]
      BY <2>5 DEF Typed, TypeOK
    <3>. QED
      BY <2>1, <2>2, <2>3, <3>1 DEF PairsInv, OneConversationPerPair
  <2>. QED
    <3>1. \/ UNCHANGED parts
          \/ \E c \in Conv : parts' = [parts EXCEPT ![c] = Pair(r)]
      BY <1>4 DEF DbCreateConversation, Pair
    <3>. QED
      BY <2>4, <2>5, <3>1
<1>. QED
  BY <1>2, <1>3, <1>4

LEMMA PairsNext == Typed /\ PairsInv /\ [Next]_vars => PairsInv'
<1>1. ASSUME Typed, PairsInv, Next, ~UNCHANGED <<ask, parts, twins>> PROVE PairsInv'
  <2>1. PICK r \in Request :
          (\E u, p \in User : Ask(r, u, p)) \/ DbFindFirst(r) \/ DbCreateConversation(r)
    BY <1>1 DEF Next, Connect, DbConversations, JoinRooms, Close, DbMarkConversationAsRead, EmitRead,
                JoinChat, LeaveChat, MarkRead, SendMessage, PostMessage, Start, MarkAsRead,
                DbAssertParticipant, DbCreateMessage, DbBumpConversation, EmitMessage, FailSend
  <2>. QED
    BY <1>1, <2>1, PairsStep
<1>. QED
  BY <1>1, PairsQuiet DEF vars

\* Two users share one conversation at most, unless two requests for them both
\* found none and both created one.
THEOREM PairsShareOne == Spec => []OneConversationPerPair
<1>1. Init => PairsInv
  BY DEF Init, PairsInv, OneConversationPerPair, Creating
<1>2. PairsInv => OneConversationPerPair
  BY DEF PairsInv
<1>. QED
  BY <1>1, <1>2, InitTyped, StepTyped, PairsNext, PTL DEF Spec

----------------------------------------------------------------------------
(* Live delivery *)

\* The rooms of a tab, those it is about to join included, are those of all
\* conversations it can know of.
Informed(s) ==
  link[s] \in {"joining", "ready"} =>
    \A c \in Conv :
      Owner[s] \in parts[c] /\ c \notin behind[s] =>
        c \in rooms[s] \/ (link[s] = "joining" /\ c \in known[s])

RoomsInv == \A s \in Socket : Informed(s)

LEMMA RoomsQuiet == RoomsInv /\ UNCHANGED <<linkVars, parts, behind>> => RoomsInv'
BY DEF RoomsInv, Informed, linkVars

LEMMA RoomsStep ==
  ASSUME Typed, RoomsInv,
         \/ \E s \in Socket : Connect(s) \/ DbConversations(s) \/ JoinRooms(s) \/ Close(s)
         \/ \E s \in Socket, c \in Conv : JoinChat(s, c) \/ LeaveChat(s, c)
         \/ \E r \in Request : DbCreateConversation(r)
  PROVE  RoomsInv'
<1>. USE DEF Typed, TypeOK, RoomsInv, Informed, LinkState
<1>1. ASSUME NEW s \in Socket, Connect(s) PROVE RoomsInv'
  BY <1>1 DEF Connect
<1>2. ASSUME NEW s \in Socket, DbConversations(s) PROVE RoomsInv'
  BY <1>2 DEF DbConversations
<1>3. ASSUME NEW s \in Socket, JoinRooms(s) PROVE RoomsInv'
  BY <1>3 DEF JoinRooms
<1>4. ASSUME NEW s \in Socket, Close(s) PROVE RoomsInv'
  BY <1>4 DEF Close
<1>5. ASSUME NEW s \in Socket, NEW c \in Conv, JoinChat(s, c) PROVE RoomsInv'
  BY <1>5 DEF JoinChat
<1>6. ASSUME NEW s \in Socket, NEW c \in Conv, LeaveChat(s, c) PROVE RoomsInv'
  BY <1>6 DEF LeaveChat
<1>7. ASSUME NEW r \in Request, DbCreateConversation(r) PROVE RoomsInv'
  <2>1. UNCHANGED linkVars
    BY <1>7 DEF DbCreateConversation
  <2>2. CASE UNCHANGED <<parts, behind>>
    BY <2>1, <2>2, RoomsQuiet
  <2>3. CASE \E c \in Conv :
               /\ \A d \in Conv \ {c} : parts'[d] = parts[d]
               /\ \A s \in Socket :
                    behind'[s] = IF link[s] \in {"joining", "ready"} THEN behind[s] \cup {c} ELSE behind[s]
    BY <2>1, <2>3 DEF linkVars
  <2>4. ASSUME NEW c \in Conv, parts' = [parts EXCEPT ![c] = {ask[r].by, ask[r].peer}],
               behind' = [s \in Socket |->
                 IF link[s] \in {"joining", "ready"} THEN behind[s] \cup {c} ELSE behind[s]]
        PROVE  RoomsInv'
    <3>1. \A d \in Conv \ {c} : parts'[d] = parts[d]
      BY <2>4
    <3>2. \A s \in Socket :
            behind'[s] = IF link[s] \in {"joining", "ready"} THEN behind[s] \cup {c} ELSE behind[s]
      BY <2>4
    <3>. QED
      BY <2>3, <2>4, <3>1, <3>2
  <2>5. \/ UNCHANGED <<parts, behind>>
        \/ \E c \in Conv :
              /\ parts' = [parts EXCEPT ![c] = {ask[r].by, ask[r].peer}]
              /\ behind' = [s \in Socket |->
                   IF link[s] \in {"joining", "ready"} THEN behind[s] \cup {c} ELSE behind[s]]
    BY <1>7 DEF DbCreateConversation
  <2>. QED
    BY <2>2, <2>4, <2>5
<1>. QED
  BY <1>1, <1>2, <1>3, <1>4, <1>5, <1>6, <1>7

LEMMA RoomsNext == Typed /\ RoomsInv /\ [Next]_vars => RoomsInv'
<1>1. ASSUME Typed, RoomsInv, Next, ~UNCHANGED <<linkVars, parts, behind>> PROVE RoomsInv'
  <2>1. \/ \E s \in Socket : Connect(s) \/ DbConversations(s) \/ JoinRooms(s) \/ Close(s)
        \/ \E s \in Socket, c \in Conv : JoinChat(s, c) \/ LeaveChat(s, c)
        \/ \E r \in Request : DbCreateConversation(r)
    BY <1>1 DEF Next, DbMarkConversationAsRead, EmitRead, MarkRead, SendMessage, PostMessage, Start,
                MarkAsRead, DbAssertParticipant, DbCreateMessage, DbBumpConversation, EmitMessage,
                FailSend, Ask, DbFindFirst
  <2>. QED
    BY <1>1, <2>1, RoomsStep
<1>. QED
  BY <1>1, RoomsQuiet DEF vars, linkVars

\* A message is emitted by EmitMessage only.
LEMMA EmitOnly ==
  ASSUME Typed, [Next]_vars, NEW m \in Msg, pc[m] = "emitting", pc'[m] = "done"
  PROVE  EmitMessage(m)
<1>1. Next /\ pc' # pc
  BY DEF vars
<1>2. PICK n \in Msg :
        \/ \E v \in Socket \cup User, c \in Conv : Start(n, v, c)
        \/ DbAssertParticipant(n) \/ DbCreateMessage(n) \/ DbBumpConversation(n)
        \/ EmitMessage(n) \/ FailSend(n)
  BY <1>1 DEF Next, chatVars, Connect, DbConversations, JoinRooms, Close, DbMarkConversationAsRead,
              EmitRead, JoinChat, LeaveChat, MarkRead, Ask, DbFindFirst, DbCreateConversation,
              SendMessage, PostMessage, MarkAsRead
<1>. USE DEF Typed, TypeOK
<1>3. n = m
  BY <1>2 DEF Start, DbAssertParticipant, DbCreateMessage, DbBumpConversation, EmitMessage, FailSend
<1>. QED
  BY <1>2, <1>3 DEF Start, DbAssertParticipant, DbCreateMessage, DbBumpConversation, EmitMessage, FailSend

\* An emitted message reaches every other open tab of a participant that can know
\* of the conversation.
THEOREM DeliveredLive == Spec => DeliveredToOldRooms
<1>. DEFINE Step == \A m \in Msg : pc[m] = "emitting" /\ pc'[m] = "done" =>
                      \A s \in Socket :
                        /\ link[s] = "ready" /\ s # via[m]
                        /\ Owner[s] \in parts[conv[m]] /\ conv[m] \notin behind[s]
                        => m \in got'[s]
<1>1. Typed /\ RoomsInv /\ [Next]_vars => [Step]_vars
  <2>1. ASSUME Typed, RoomsInv, [Next]_vars, NEW m \in Msg, pc[m] = "emitting", pc'[m] = "done",
               NEW s \in Socket, link[s] = "ready", s # via[m],
               Owner[s] \in parts[conv[m]], conv[m] \notin behind[s]
        PROVE  m \in got'[s]
    <3>1. EmitMessage(m)
      BY <2>1, EmitOnly
    <3>2. conv[m] \in Conv
      BY <2>1 DEF Typed, Definite
    <3>. QED
      BY <2>1, <3>1, <3>2 DEF EmitMessage, RoomsInv, Informed
  <2>. QED
    BY <2>1
<1>2. Init => RoomsInv
  BY DEF Init, RoomsInv, Informed
<1>. QED
  BY <1>1, <1>2, InitTyped, StepTyped, RoomsNext, PTL DEF Spec, DeliveredToOldRooms

----------------------------------------------------------------------------
(* Messages: what is stored stays where it is *)

Before == {"unused", "asserting", "creating"}

\* A message is stored by its createMessage and by nothing else.
StoredInv ==
  /\ \A m \in stored : pc[m] \notin Before
  /\ \A m \in Msg : pc[m] \in {"bumping", "emitting"} => m \in stored
  /\ \A s \in Socket : got[s] \subseteq stored

\* A receipt under way is about messages of its conversation; once the update is
\* performed, those of others among them are read.
Covers(s) ==
  /\ mark[s].pc # "idle" => mark[s].seen \subseteq {m \in stored : conv[m] = mark[s].conv}
  /\ mark[s].pc = "emitting" => \A m \in mark[s].seen : m \in read \/ Author(m) = Owner[s]

ReceiptsInv == StoredInv /\ \A s \in Socket : Covers(s)

\* What a createMessage does not do to the messages that are stored.
Settled ==
  /\ \A m \in stored : conv'[m] = conv[m] /\ via'[m] = via[m]
  /\ stored \subseteq stored' /\ read \subseteq read'

LEMMA SettledCovers ==
  ASSUME Settled, NEW s \in Socket, Covers(s), UNCHANGED mark
  PROVE  Covers(s)'
<1>1. \A m \in stored : Author(m)' = Author(m)
  BY DEF Settled, Author
<1>. QED
  BY <1>1 DEF Settled, Covers

Sending(m) ==
  \/ \E v \in Socket \cup User, c \in Conv : Start(m, v, c)
  \/ DbAssertParticipant(m) \/ DbCreateMessage(m) \/ DbBumpConversation(m)
  \/ EmitMessage(m) \/ FailSend(m)

LEMMA SendsStore ==
  ASSUME Typed, StoredInv, NEW m \in Msg, Sending(m)
  PROVE  StoredInv' /\ Settled
<1>. USE DEF Typed, TypeOK, StoredInv, Settled, Before
<1>1. ASSUME NEW v \in Socket \cup User, NEW c \in Conv, Start(m, v, c) PROVE StoredInv' /\ Settled
  BY <1>1 DEF Start
<1>2. CASE DbAssertParticipant(m)
  BY <1>2 DEF DbAssertParticipant
<1>3. CASE DbCreateMessage(m)
  BY <1>3 DEF DbCreateMessage
<1>4. CASE DbBumpConversation(m)
  BY <1>4 DEF DbBumpConversation
<1>5. CASE EmitMessage(m)
  BY <1>5 DEF EmitMessage
<1>6. CASE FailSend(m)
  BY <1>6 DEF FailSend
<1>. QED
  BY <1>1, <1>2, <1>3, <1>4, <1>5, <1>6 DEF Sending

LEMMA SendsCover ==
  ASSUME Typed, ReceiptsInv, NEW m \in Msg, Sending(m)
  PROVE  ReceiptsInv'
<1>1. UNCHANGED mark
  BY DEF Sending, Start, DbAssertParticipant, DbCreateMessage, DbBumpConversation, EmitMessage, FailSend
<1>. QED
  BY <1>1, SendsStore, SettledCovers DEF ReceiptsInv

LEMMA MarksCover ==
  ASSUME Typed, ReceiptsInv,
         \/ \E s \in Socket : DbMarkConversationAsRead(s) \/ EmitRead(s)
         \/ \E s \in Socket, c \in Conv : MarkRead(s, c)
         \/ \E m \in Msg, u \in User : MarkAsRead(u, m)
  PROVE  ReceiptsInv'
<1>1. UNCHANGED <<pc, via, conv, stored, got>>
  BY DEF DbMarkConversationAsRead, EmitRead, MarkRead, MarkAsRead
<1>2. StoredInv'
  BY <1>1 DEF ReceiptsInv, StoredInv
<1>3. \A m : Author(m)' = Author(m)
  BY <1>1 DEF Author
<1>4. mark \in [Socket -> MarkRow]
  BY DEF Typed, TypeOK, MarkRow
<1>5. ASSUME NEW s \in Socket, NEW q \in MarkRow, mark' = [mark EXCEPT ![s] = q], read \subseteq read',
             Covers(s)'
      PROVE  ReceiptsInv'
  <2>1. ASSUME NEW x \in Socket \ {s} PROVE Covers(x)'
    BY <1>1, <1>3, <1>4, <1>5, <2>1 DEF ReceiptsInv, Covers
  <2>. QED
    BY <1>2, <1>5, <2>1 DEF ReceiptsInv
<1>6. ASSUME NEW s \in Socket, DbMarkConversationAsRead(s) PROVE ReceiptsInv'
  <2>. DEFINE q == [mark[s] EXCEPT !.pc = "emitting"]
  <2>1. /\ mark[s].pc = "updating" /\ mark' = [mark EXCEPT ![s] = q]
        /\ read' = read \cup {m \in stored \ read : conv[m] = mark[s].conv /\ Author(m) # Owner[s]}
    BY <1>6 DEF DbMarkConversationAsRead, Unread
  <2>2. mark[s].seen \subseteq {m \in stored : conv[m] = mark[s].conv}
    BY <2>1 DEF ReceiptsInv, Covers
  <2>3. q \in MarkRow /\ q.conv = mark[s].conv /\ q.seen = mark[s].seen
    BY <1>4 DEF MarkRow
  <2>4. mark'[s] = q
    BY <1>4, <2>1
  <2>. HIDE DEF q
  <2>5. Covers(s)'
    BY <1>1, <1>3, <2>1, <2>2, <2>3, <2>4 DEF Covers
  <2>. QED
    BY <1>5, <2>1, <2>3, <2>5
<1>7. ASSUME NEW s \in Socket, EmitRead(s) PROVE ReceiptsInv'
  <2>1. Covers(s)'
    BY <1>4, <1>7 DEF EmitRead, Covers, NoMark
  <2>. QED
    BY <1>5, <1>7, <2>1 DEF EmitRead, NoMark, MarkRow
<1>8. ASSUME NEW s \in Socket, NEW c \in Conv, MarkRead(s, c) PROVE ReceiptsInv'
  <2>. DEFINE q == [pc |-> "updating", conv |-> c, seen |-> {m \in got[s] : conv[m] = c}]
  <2>1. mark' = [mark EXCEPT ![s] = q] /\ got[s] \subseteq stored /\ stored \subseteq Msg /\ read' = read
    BY <1>8 DEF MarkRead, ReceiptsInv, StoredInv, Typed, TypeOK
  <2>2. q \in MarkRow /\ q.pc = "updating" /\ q.conv = c /\ q.seen = {m \in got[s] : conv[m] = c}
    BY <2>1 DEF MarkRow
  <2>. HIDE DEF q
  <2>3. Covers(s)'
    BY <1>1, <1>4, <2>1, <2>2 DEF Covers
  <2>. QED
    BY <1>5, <2>1, <2>2, <2>3
<1>9. ASSUME NEW m \in Msg, NEW u \in User, MarkAsRead(u, m) PROVE ReceiptsInv'
  <2>1. Settled /\ UNCHANGED mark
    BY <1>9 DEF MarkAsRead, Settled
  <2>. QED
    BY <1>2, <2>1, SettledCovers DEF ReceiptsInv
<1>. QED
  BY <1>6, <1>7, <1>8, <1>9

\* Which steps are about messages.
LEMMA MessageSteps ==
  ASSUME Next
  PROVE  \/ \E m \in Msg : Sending(m)
         \/ \E s \in Socket : DbMarkConversationAsRead(s) \/ EmitRead(s)
         \/ \E s \in Socket, c \in Conv : MarkRead(s, c)
         \/ \E m \in Msg, u \in User : MarkAsRead(u, m)
         \/ UNCHANGED chatVars
BY DEF Next, Sending, SendMessage, PostMessage, Connect, DbConversations, JoinRooms, Close,
       JoinChat, LeaveChat, Ask, DbFindFirst, DbCreateConversation

LEMMA ReceiptsNext == Typed /\ ReceiptsInv /\ [Next]_vars => ReceiptsInv'
<1>1. ReceiptsInv /\ UNCHANGED chatVars => ReceiptsInv'
  BY DEF ReceiptsInv, StoredInv, Covers, Author, chatVars
<1>2. UNCHANGED vars => UNCHANGED chatVars
  BY DEF vars, chatVars
<1>. QED
  BY <1>1, <1>2, MessageSteps, SendsCover, MarksCover

LEMMA InitReceipts == Init => ReceiptsInv
BY DEF Init, ReceiptsInv, StoredInv, Covers, NoMark

\* A tab's receipt covers every message of others it had been sent.
THEOREM ReceiptsCover == Spec => []ReceiptCoversSeen
<1>1. ReceiptsInv => ReceiptCoversSeen
  BY DEF ReceiptsInv, Covers, ReceiptCoversSeen
<1>. QED
  BY <1>1, InitTyped, StepTyped, InitReceipts, ReceiptsNext, PTL DEF Spec

----------------------------------------------------------------------------
(* The order of the conversation lists *)

Running(m, c) == conv[m] = c /\ pc[m] \in InFlight
Bumping(m, c) == conv[m] = c /\ pc[m] = "bumping"
MessagesOf(c) == {m \in stored : conv[m] = c}

\* In a conversation whose sends neither overlapped nor failed, one send runs at
\* most; updatedAt is as new as the last message, or the one send is about to make
\* it so.
InOrder(c) ==
  /\ \A m, n \in Msg : Running(m, c) /\ Running(n, c) => m = n
  /\ \A m \in Msg : Bumping(m, c) => MessagesOf(c) \subseteq stamp[m]
  /\ (\A m \in Msg : ~Bumping(m, c)) => MessagesOf(c) \subseteq updatedAt[c]

OrderInv == \A c \in Conv \ raced : InOrder(c)

LEMMA OrderStep ==
  ASSUME Typed, StoredInv, OrderInv, NEW m \in Msg, Sending(m)
  PROVE  OrderInv'
<1>. USE DEF InFlight
<1>1. raced \subseteq raced'
  BY DEF Sending, Start, DbAssertParticipant, DbCreateMessage, DbBumpConversation, EmitMessage, FailSend
<1>2. SUFFICES ASSUME NEW c \in Conv, c \notin raced, c \notin raced', InOrder(c)
               PROVE  InOrder(c)'
  BY <1>1 DEF OrderInv
<1>3. /\ pc \in [Msg -> SendState] /\ conv \in [Msg -> Conv \cup {None}] /\ stamp \in [Msg -> SUBSET Msg]
      /\ updatedAt \in [Conv -> SUBSET Msg] /\ stored \subseteq Msg
      /\ pc[m] # "unused" => conv[m] \in Conv
  BY DEF Typed, TypeOK, Definite
<1>4. ASSUME NEW v \in Socket \cup User, NEW d \in Conv, Start(m, v, d) PROVE InOrder(c)'
  <2>1. /\ m \notin stored /\ ~Running(m, c) /\ ~Bumping(m, c) /\ ~Bumping(m, c)'
    BY <1>3, <1>4 DEF Start, StoredInv, Before, Running, Bumping
  <2>2. /\ MessagesOf(c)' = MessagesOf(c) /\ UNCHANGED <<stamp, updatedAt>>
        /\ \A n \in Msg \ {m} : /\ Running(n, c)' <=> Running(n, c)
                                /\ Bumping(n, c)' <=> Bumping(n, c)
    BY <1>3, <1>4, <2>1 DEF Start, MessagesOf, Running, Bumping
  <2>3. Running(m, c)' => \A n \in Msg : ~Running(n, c)
    BY <1>2, <1>3, <1>4 DEF Start, Running, Overlapping
  <2>. QED
    BY <1>2, <2>1, <2>2, <2>3 DEF InOrder
<1>5. CASE DbAssertParticipant(m) \/ EmitMessage(m) \/ FailSend(m)
  <2>1. /\ MessagesOf(c)' = MessagesOf(c) /\ UNCHANGED <<stamp, updatedAt>>
    BY <1>5 DEF DbAssertParticipant, EmitMessage, FailSend, MessagesOf
  <2>2. \A n \in Msg : Running(n, c)' => Running(n, c)
    BY <1>3, <1>5 DEF DbAssertParticipant, EmitMessage, FailSend, Running
  <2>3. \A n \in Msg : Bumping(n, c)' <=> Bumping(n, c)
    BY <1>2, <1>3, <1>5 DEF DbAssertParticipant, EmitMessage, FailSend, Bumping
  <2>. QED
    BY <1>2, <2>1, <2>2, <2>3 DEF InOrder
<1>6. CASE DbCreateMessage(m)
  <2>1. /\ \A n \in Msg : Running(n, c)' <=> Running(n, c)
        /\ \A n \in Msg \ {m} : (Bumping(n, c)' <=> Bumping(n, c)) /\ stamp'[n] = stamp[n]
        /\ UNCHANGED updatedAt
    BY <1>3, <1>6 DEF DbCreateMessage, Running, Bumping
  <2>2. CASE conv[m] = c
    <3>1. Running(m, c) /\ Bumping(m, c)' /\ stamp'[m] = MessagesOf(c)'
      BY <1>3, <1>6, <2>2 DEF DbCreateMessage, Running, Bumping, MessagesOf
    <3>2. \A n \in Msg : Bumping(n, c)' => n = m
      BY <1>2, <2>1, <3>1 DEF InOrder, Running, Bumping
    <3>. QED
      BY <1>2, <2>1, <3>1, <3>2 DEF InOrder
  <2>3. CASE conv[m] # c
    <3>1. MessagesOf(c)' = MessagesOf(c) /\ ~Bumping(m, c) /\ ~Bumping(m, c)'
      BY <1>6, <2>3 DEF DbCreateMessage, MessagesOf, Bumping
    <3>. QED
      BY <1>2, <2>1, <3>1 DEF InOrder
  <2>. QED
    BY <2>2, <2>3
<1>7. CASE DbBumpConversation(m)
  <2>1. MessagesOf(c)' = MessagesOf(c) /\ UNCHANGED stamp
    BY <1>7 DEF DbBumpConversation, MessagesOf
  <2>2. \A n \in Msg : Running(n, c)' => Running(n, c)
    BY <1>3, <1>7 DEF DbBumpConversation, Running
  <2>3. \A n \in Msg \ {m} : Bumping(n, c)' <=> Bumping(n, c)
    BY <1>3, <1>7 DEF DbBumpConversation, Bumping
  <2>4. ~Bumping(m, c)'
    BY <1>3, <1>7 DEF DbBumpConversation, Bumping
  <2>5. CASE conv[m] = c
    <3>1. Bumping(m, c) /\ updatedAt'[c] = stamp[m]
      BY <1>3, <1>7, <2>5 DEF DbBumpConversation, Bumping
    <3>. QED
      BY <1>2, <2>1, <2>2, <2>3, <2>4, <3>1 DEF InOrder
  <2>6. CASE conv[m] # c
    <3>1. ~Bumping(m, c) /\ updatedAt'[c] = updatedAt[c]
      BY <1>3, <1>7, <2>6 DEF DbBumpConversation, Bumping
    <3>. QED
      BY <1>2, <2>1, <2>2, <2>3, <2>4, <3>1 DEF InOrder
  <2>. QED
    BY <2>5, <2>6
<1>. QED
  BY <1>4, <1>5, <1>6, <1>7 DEF Sending

LEMMA OrderNext == Typed /\ StoredInv /\ OrderInv /\ [Next]_vars => OrderInv'
<1>1. OrderInv /\ UNCHANGED <<pc, conv, stored, stamp, updatedAt, raced>> => OrderInv'
  BY DEF OrderInv, InOrder, Running, Bumping, MessagesOf
<1>2. ASSUME Next
      PROVE  (\E m \in Msg : Sending(m)) \/ UNCHANGED <<pc, conv, stored, stamp, updatedAt, raced>>
  BY <1>2, MessageSteps DEF chatVars, DbMarkConversationAsRead, EmitRead, MarkRead, MarkAsRead
<1>3. UNCHANGED vars => UNCHANGED <<pc, conv, stored, stamp, updatedAt, raced>>
  BY DEF vars
<1>. QED
  BY <1>1, <1>2, <1>3, OrderStep

\* At rest, updatedAt of a conversation is as new as its last message, unless sends
\* overlapped or failed half-way.
THEOREM ListsInOrder == Spec => []ListOrderAtRest
<1>1. Init => OrderInv
  BY DEF Init, OrderInv, InOrder, Running, Bumping, MessagesOf, InFlight
<1>2. OrderInv => ListOrderAtRest
  BY DEF OrderInv, InOrder, ListOrderAtRest, Overlapping, MessagesOf, Bumping, InFlight
<1>3. ReceiptsInv => StoredInv
  BY DEF ReceiptsInv
<1>. QED
  BY <1>1, <1>2, <1>3, InitTyped, StepTyped, InitReceipts, ReceiptsNext, OrderNext, PTL DEF Spec
=============================================================================
