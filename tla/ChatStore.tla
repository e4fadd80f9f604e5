------------------------------ MODULE ChatStore ------------------------------
(***************************************************************************)
(* The browser side of one conversation of the chat (Nest_Websocket/       *)
(* frontend): what the zustand store of a tab holds when socket events and *)
(* answers of the REST API arrive in every order, with the back-end        *)
(* handlers that produce both.                                             *)
(*                                                                         *)
(* The store keeps conversations apart by their id, and a tab learns of    *)
(* others only what the server tells: the model follows one conversation   *)
(* in one tab, Me, among tabs that send and read whenever they like.  A    *)
(* socket delivers events in the order they were emitted; an HTTP answer   *)
(* overtakes them or is overtaken.  What was emitted while the socket was  *)
(* down is not sent again.  The history is asked for as one page, the      *)
(* newest messages (getMessages: skip 0, take 50), which replaces what the *)
(* tab shows; no page before it is ever asked for.                         *)
(***************************************************************************)
EXTENDS Naturals, Sequences, FiniteSets, SequencesExt

CONSTANTS
  User,     \* the two participants
  Tab,      \* browser tabs with the chat open
  Owner,    \* Owner[t]: the user signed in in tab t
  Me,       \* the tab whose store is followed
  Message,  \* the messages sent, each once
  From,     \* From[m]: the tab message m is sent from
  Take      \* take of getMessages: the messages of a page

ASSUME TabAssumption == Owner \in [Tab -> User] /\ From \in [Message -> Tab] /\ Me \in Tab

ASSUME TakeAssumption == Take \in Nat \ {0}

\* A conversation has two participants.
ASSUME PeerAssumption == \A u, v \in User \ {Owner[Me]} : u = v

VARIABLES
  send,     \* where createMessage and its emission of a message stand
  history,  \* the rows of the conversation, in the order of createdAt
  read,     \* the messages with isRead
  mark,     \* where mark_read of a tab stands
  sameLink, \* the socket of Me is the one its mark_read came on
  linked,   \* the socket of Me is connected and in the room
  inbox,    \* the events on their way to Me
  list,     \* the store: messages[conversationId]
  listed,   \* the store: conversations has the conversation
  badge,    \* the store: unreadCount of that entry
  open,     \* the store: activeConversationId is the conversation
  pull,     \* the query ['messages', conversationId] of Me
  index,    \* the query ['conversations'] of Me
  lost,     \* history: messages no event will bring to Me
  cut,      \* history: messages older than the page last put into the list
  skewed,   \* history: the badge was counted past what the server counts
  swapped   \* history: pairs of messages emitted in the other order

server == <<send, history, read, mark, sameLink, swapped>>
entry == <<listed, badge>>
fetches == <<pull, index>>
vars == <<server, linked, inbox, list, entry, open, fetches, lost, cut, skewed>>

None == "none"
Mine == Owner[Me]
Author(m) == Owner[From[m]]
Arrival(m) == [kind |-> "message", msg |-> m, by |-> None]
Receipt(u) == [kind |-> "read", msg |-> None, by |-> u]
Event == {Arrival(m) : m \in Message} \cup {Receipt(u) : u \in User}

\* got: the page; rows: how many messages there were when it was read.
NoAnswer == [at |-> "idle", got |-> <<>>, rows |-> 0]
NoCount  == [at |-> "idle", got |-> 0]

TypeOK ==
  /\ send \in [Message -> {"unsent", "creating", "emitting", "done", "failed"}]
  /\ history \in Seq(Message) /\ read \subseteq Range(history)
  /\ mark \in [Tab -> {"idle", "marking", "telling"}] /\ sameLink \in BOOLEAN
  /\ {linked, listed, open, skewed} \subseteq BOOLEAN
  /\ inbox \in Seq(Event) /\ list \in Seq(Message) /\ badge \in Nat
  /\ pull \in [at : {"idle", "asked", "answered"}, got : Seq(Message), rows : Nat]
  /\ index \in [at : {"idle", "answered"}, got : Nat]
  /\ lost \subseteq Message /\ cut \subseteq Message /\ swapped \subseteq Message \X Message

Init ==
  /\ send = [m \in Message |-> "unsent"]
  /\ history = <<>> /\ read = {} /\ swapped = {}
  /\ mark = [t \in Tab |-> "idle"] /\ sameLink = TRUE
  /\ linked = TRUE /\ inbox = <<>>
  /\ list = <<>> /\ listed = FALSE /\ badge = 0 /\ open = FALSE
  /\ pull = NoAnswer /\ index = NoCount
  /\ lost = {} /\ cut = {} /\ skewed = FALSE

----------------------------------------------------------------------------
(* What the server counts, and what is still on its way *)

Unread(u) == {m \in Range(history) \ read : Author(m) # u}
OnItsWay == {m \in Range(history) : send[m] = "emitting" \/ Arrival(m) \in Range(inbox)}
Settled == Unread(Mine) \ OnItsWay

----------------------------------------------------------------------------
(* The gateway *)

\* handleSend: the open conversation emits send_message.
Send(m) ==
  /\ send[m] = "unsent" /\ From[m] = Me /\ open /\ linked
  /\ send' = [send EXCEPT ![m] = "creating"]
  /\ UNCHANGED <<history, read, mark, sameLink, swapped, linked, inbox, list, entry, open,
                 fetches, lost, cut, skewed>>

\* createMessage inserts the row: of Me, or of a tab that sends when it likes.
DbCreateMessage(m) ==
  /\ send[m] = IF From[m] = Me THEN "creating" ELSE "unsent"
  /\ send' = [send EXCEPT ![m] = "emitting"]
  /\ history' = Append(history, m)
  /\ UNCHANGED <<read, mark, sameLink, swapped, linked, inbox, list, entry, open, fetches,
                 lost, cut, skewed>>

Overtaken(m) == {n \in Range(history) : send[n] = "done" /\
                   \E i, j \in DOMAIN history : i < j /\ history[i] = m /\ history[j] = n}

\* message_sent to the sender and message_received to the rest of the room, which
\* a tab handles alike.
EmitMessage(m) ==
  /\ send[m] = "emitting"
  /\ send' = [send EXCEPT ![m] = "done"]
  /\ inbox' = IF linked THEN Append(inbox, Arrival(m)) ELSE inbox
  /\ lost' = IF linked \/ m \in Range(list) THEN lost ELSE lost \cup {m}
  /\ skewed' = (skewed \/ ~linked)
  /\ swapped' = swapped \cup (Overtaken(m) \X {m})
  /\ UNCHANGED <<history, read, mark, sameLink, linked, list, entry, open, fetches, cut>>

\* The second query of createMessage fails: the row stands and nobody is told.
FailSend(m) ==
  /\ send[m] = "emitting"
  /\ send' = [send EXCEPT ![m] = "failed"]
  /\ lost' = IF m \in Range(list) THEN lost ELSE lost \cup {m}
  /\ skewed' = TRUE
  /\ UNCHANGED <<history, read, mark, sameLink, swapped, linked, inbox, list, entry, open,
                 fetches, cut>>

\* markConversationAsRead.  The badge of Me fell when it sent mark_read; what came
\* since is still counted there.  Bound: one receipt of a user on its way.
DbMarkRead(t) ==
  /\ Receipt(Owner[t]) \notin Range(inbox)
  /\ \A s \in Tab : Owner[s] = Owner[t] => mark[s] # "telling"
  /\ mark[t] = IF t = Me THEN "marking" ELSE "idle"
  /\ mark' = [mark EXCEPT ![t] = "telling"]
  /\ read' = read \cup Unread(Owner[t])
  /\ skewed' = IF t = Me THEN badge # 0 ELSE skewed
  /\ UNCHANGED <<send, history, sameLink, swapped, linked, inbox, list, entry, open,
                 fetches, lost, cut>>

\* message_read to the room except the socket mark_read came on.
EmitRead(t) ==
  /\ mark[t] = "telling"
  /\ mark' = [mark EXCEPT ![t] = "idle"]
  /\ LET told == linked /\ (t # Me \/ ~sameLink) IN
       /\ inbox' = IF told THEN Append(inbox, Receipt(Owner[t])) ELSE inbox
       /\ skewed' = (skewed \/ (t # Me /\ Owner[t] = Mine /\ ~told))
  /\ sameLink' = (sameLink \/ t = Me)
  /\ UNCHANGED <<send, history, read, swapped, linked, list, entry, open, fetches, lost,
                 cut>>

\* mark_read of Me is lost or fails.
FailMark ==
  /\ mark[Me] = "marking"
  /\ mark' = [mark EXCEPT ![Me] = "idle"] /\ sameLink' = TRUE
  /\ skewed' = TRUE
  /\ UNCHANGED <<send, history, read, swapped, linked, inbox, list, entry, open, fetches,
                 lost, cut>>

----------------------------------------------------------------------------
(* The queries: asked for, read by the database, applied *)

\* The list is asked for when the page opens and, once stale, when it is focused.
DbConversations ==
  /\ index.at = "idle"
  /\ index' = [at |-> "answered", got |-> Cardinality(Unread(Mine))]
  /\ UNCHANGED <<server, linked, inbox, list, entry, open, pull, lost, cut, skewed>>

\* setConversations.  The count is the server's unless something is on its way.
SetConversations ==
  /\ index.at = "answered"
  /\ listed' = TRUE /\ badge' = index.got
  /\ index' = NoCount
  /\ skewed' = (OnItsWay # {} \/ index.got # Cardinality(Unread(Mine)))
  /\ UNCHANGED <<server, linked, inbox, list, open, pull, lost, cut>>

\* The window of ChatWindow is focused: staleTime is 0.
AskMessages ==
  /\ open /\ pull.at = "idle"
  /\ pull' = [pull EXCEPT !.at = "asked"]
  /\ UNCHANGED <<server, linked, inbox, list, entry, open, index, lost, cut, skewed>>

\* Variant: the first messages of the conversation.
Oldest == SubSeq(history, 1, IF Len(history) < Take THEN Len(history) ELSE Take)

\* The newest messages, turned round so that the last is the newest.
Newest == SubSeq(history, IF Len(history) < Take THEN 1 ELSE Len(history) - Take + 1, Len(history))

DbMessages ==
  /\ pull.at = "asked"
  /\ pull' = [at |-> "answered", got |-> Newest, rows |-> Len(history)]
  /\ UNCHANGED <<server, linked, inbox, list, entry, open, index, lost, cut, skewed>>

\* Variant: the answer is put after what the tab shows.
ReplacedAppended == list \o pull.got
Replaced == pull.got

\* setMessages: the page replaces the list.  What the tab showed of older messages
\* and of messages stored since the page was read is gone from the screen.
SetMessages ==
  /\ pull.at = "answered"
  /\ list' = Replaced
  /\ lost' = {m \in lost \cup Range(list) : \E i \in DOMAIN history : i > pull.rows /\ history[i] = m}
  /\ cut' = {history[i] : i \in {j \in DOMAIN history : j + Take <= pull.rows}}
  /\ pull' = NoAnswer
  /\ UNCHANGED <<server, linked, inbox, entry, open, index, skewed>>

FailQuery ==
  /\ \/ pull.at # "idle" /\ pull' = NoAnswer /\ UNCHANGED index
     \/ index.at # "idle" /\ index' = NoCount /\ UNCHANGED pull
  /\ UNCHANGED <<server, linked, inbox, list, entry, open, lost, cut, skewed>>

----------------------------------------------------------------------------
(* The tab *)

\* ChatWindow mounts: the history is asked for, mark_read sent, the badge cleared.
\* Bound: one mark_read of the tab in flight.
Mount ==
  /\ ~open /\ open' = TRUE
  /\ mark[Me] = "idle" /\ mark' = [mark EXCEPT ![Me] = "marking"]
  /\ badge' = 0
  /\ pull' = IF pull.at = "idle" THEN [pull EXCEPT !.at = "asked"] ELSE pull
  /\ UNCHANGED <<send, history, read, sameLink, swapped, linked, inbox, list, index, lost,
                 cut, skewed>>

\* handleSelectConversation.
Select == listed /\ linked /\ Mount /\ UNCHANGED listed

\* handleStartChat: the entry of the conversation is added or replaced, and opened.
StartChat == linked /\ Mount /\ listed' = TRUE

\* handleBack, or another conversation is selected.
Back ==
  /\ open /\ open' = FALSE
  /\ UNCHANGED <<server, linked, inbox, list, entry, fetches, lost, cut, skewed>>

\* Variant: a message is shown again when its event follows its row.
KnownNever(m) == FALSE
Known(m) == m \in Range(list)

\* Variant: the open conversation is counted too.
CountedAlways == TRUE
Counted == ~open

\* addMessage.
AddMessage(m) ==
  LET due == m \notin read /\ Author(m) # Mine IN
  /\ list' = IF Known(m) THEN list ELSE Append(list, m)
  /\ badge' = IF ~Known(m) /\ Counted /\ listed THEN badge + 1 ELSE badge
  /\ lost' = lost \ {m}
  /\ skewed' = (skewed \/ (m \notin Range(list) /\ ~open) # due)

\* markConversationRead: App calls it whoever read the conversation.
MarkConversationRead(u) ==
  /\ badge' = 0
  /\ skewed' = (Settled # {} \/ (u # Mine /\ skewed))
  /\ UNCHANGED <<list, lost>>

Deliver ==
  /\ inbox # <<>>
  /\ inbox' = Tail(inbox)
  /\ LET e == Head(inbox) IN
       \/ e.kind = "message" /\ AddMessage(e.msg)
       \/ e.kind = "read" /\ MarkConversationRead(e.by)
  /\ UNCHANGED <<server, linked, listed, open, fetches, cut>>

\* The socket drops with the events in flight; socket.io reconnects and
\* handleConnection joins the room again.  The page is not told and asks nothing.
Drop ==
  /\ linked /\ linked' = FALSE
  /\ inbox' = <<>>
  /\ lost' = lost \cup {m \in Message \ Range(list) : Arrival(m) \in Range(inbox)}
  /\ sameLink' = (mark[Me] = "idle")
  /\ skewed' = (skewed \/ inbox # <<>>)
  /\ UNCHANGED <<send, history, read, mark, swapped, list, entry, open, fetches, cut>>

Reconnect ==
  /\ ~linked /\ linked' = TRUE
  /\ UNCHANGED <<server, inbox, list, entry, open, fetches, lost, cut, skewed>>

----------------------------------------------------------------------------

Gateway ==
  \/ \E m \in Message : DbCreateMessage(m) \/ EmitMessage(m) \/ FailSend(m)
  \/ \E t \in Tab : DbMarkRead(t) \/ EmitRead(t)
  \/ DbConversations \/ DbMessages

Browser ==
  \/ SetConversations \/ AskMessages \/ SetMessages \/ FailQuery
  \/ Select \/ StartChat \/ Back \/ Deliver
  \/ \E m \in Message : Send(m)

Network == FailMark \/ Drop \/ Reconnect

Next == Gateway \/ Browser \/ Network

Spec == Init /\ [][Next]_vars

----------------------------------------------------------------------------
(* Properties *)

Quiet == inbox = <<>> /\ \A m \in Message : send[m] # "emitting"

\* addMessage drops an event whose message is on the screen: no order of events
\* and answers shows a message twice.
ShownOnce == IsInjective(list)

\* With nothing on its way, a tab shows the newest messages of the conversation, as
\* many as a page has, and all since the page it was last given, except those
\* emitted while its socket was down, those whose sender failed before the emission,
\* and those an older answer of the history query wiped out; and in the order of the
\* database, except a pair that was emitted in the other order, and a message whose
\* event came after a page that was too short for it.
ShowsAllAtRest ==
  Quiet =>
    /\ Range(list) \subseteq Range(history) \ lost
    /\ \A i \in DOMAIN history :
         \/ history[i] \in Range(list) \cup lost
         \/ history[i] \in cut /\ i + Take <= Len(history)
    /\ \A i, j \in DOMAIN list : i < j =>
         \/ <<list[i], list[j]>> \in swapped
         \/ list[j] \in cut
         \/ \E k, l \in DOMAIN history : k < l /\ history[k] = list[i] /\ history[l] = list[j]

\* With nothing on its way, the unread badge is the server's count, unless a message
\* came while the conversation was open (the server is not told that it was read),
\* the peer read the conversation, the user wrote from another tab, or an answer, a
\* receipt or an event crossed another.
BadgeAgreesAtRest ==
  Quiet /\ listed /\ ~skewed /\ (\A t \in Tab : Owner[t] = Mine => mark[t] = "idle")
    => badge = Cardinality(Unread(Mine))
=============================================================================
