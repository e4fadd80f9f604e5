-------------------------------- MODULE Typing --------------------------------
(***************************************************************************)
(* The "typing..." indicator of the chat (Nest_Websocket): MessageInput of *)
(* the tab a user writes in, the relay of the gateway, and typingUsers in  *)
(* the store of the reader of each conversation.                           *)
(*                                                                         *)
(* MessageInput keeps two refs, whether it announced that its user types   *)
(* and a timer.  They survive a change of conversation, for the component  *)
(* has no key, and are lost when it is unmounted, while the timer runs on. *)
(***************************************************************************)
EXTENDS Naturals, Sequences, SequencesExt

CONSTANTS
  Conv,     \* the conversations of the writer, each with a reader of its own
  Closed,   \* no conversation is open
  MaxWire   \* bound: events on the wire when the user types or sends

ASSUME ConvAssumption == Closed \notin Conv

VARIABLES
  shows,    \* the conversation MessageInput is mounted for, or Closed
  typing,   \* isTypingRef
  timer,    \* the conversation the pending timer will stop, or Closed
  orphans,  \* conversations for which a timer outlived its component
  up,       \* the writer's socket is connected
  wire,     \* events from the writer to the gateway
  present,  \* the conversations whose reader is in the room
  news,     \* news[c]: events from the gateway to the reader of c
  typist,   \* the conversations whose reader has the writer in typingUsers
  began,    \* history: the conversation typing was announced to
  stuck     \* history: conversations whose stop event went elsewhere or was lost

typingVars == <<shows, typing, timer, orphans, up, wire, present, news, typist, began, stuck>>
local == <<shows, typing, timer, orphans>>
net == <<up, present, news, typist>>

Start(c) == [conv |-> c, on |-> TRUE]
Stop(c)  == [conv |-> c, on |-> FALSE]
Stops(s) == {e.conv : e \in {x \in Range(s) : ~x.on}}

TypingTypeOK ==
  /\ shows \in Conv \cup {Closed} /\ timer \in Conv \cup {Closed}
  /\ began \in Conv \cup {Closed}
  /\ typing \in BOOLEAN /\ up \in BOOLEAN
  /\ orphans \subseteq Conv /\ present \subseteq Conv /\ typist \subseteq Conv
  /\ stuck \subseteq Conv
  /\ wire \in Seq([conv : Conv, on : BOOLEAN])
  /\ news \in [Conv -> Seq([conv : Conv, on : BOOLEAN])]

TypingInit ==
  /\ shows = Closed /\ typing = FALSE /\ timer = Closed /\ orphans = {}
  /\ up = TRUE /\ wire = <<>>
  /\ present = Conv /\ news = [c \in Conv |-> <<>>]
  /\ typist = {} /\ began = Closed /\ stuck = {}

----------------------------------------------------------------------------
(* The writer *)

\* handleSelectConversation: from the list, or straight from another conversation.
OpenChat(c) ==
  /\ shows # c /\ shows' = c
  /\ UNCHANGED <<typing, timer, orphans, net, wire, began, stuck>>

\* Variant: the timer goes with the component.
OrphansNone == orphans
Orphans == IF timer = Closed THEN orphans ELSE orphans \cup {timer}

\* handleBack unmounts ChatWindow.
CloseChat ==
  /\ shows # Closed /\ shows' = Closed
  /\ typing' = FALSE /\ timer' = Closed /\ orphans' = Orphans
  /\ UNCHANGED <<net, wire, began, stuck>>

\* What is announced to a conversation and not taken back where it was announced.
Misdirected == IF typing /\ began # shows THEN {began} ELSE {}

\* handleTyping: announced once, and the timer starts again for this conversation.
Type ==
  /\ shows # Closed /\ Len(wire) < MaxWire
  /\ typing' = TRUE /\ timer' = shows
  /\ wire' = IF typing THEN wire ELSE Append(wire, Start(shows))
  /\ began' = IF typing THEN began ELSE shows
  /\ stuck' = stuck \cup Misdirected
  /\ UNCHANGED <<shows, orphans, net>>

\* handleSend: the timer is cleared, and the stop sent if a start was.
SendText ==
  /\ shows # Closed /\ Len(wire) < MaxWire
  /\ typing' = FALSE /\ timer' = Closed
  /\ wire' = IF typing THEN Append(wire, Stop(shows)) ELSE wire
  /\ stuck' = stuck \cup Misdirected
  /\ UNCHANGED <<shows, orphans, net, began>>

\* 1500 ms after the last key, for the conversation the key was typed in.
Expire ==
  /\ timer # Closed
  /\ typing' = FALSE /\ timer' = Closed
  /\ wire' = Append(wire, Stop(timer))
  /\ UNCHANGED <<shows, orphans, net, began, stuck>>

\* The same, for a component that is gone: its refs are nobody's.
ExpireOrphan(c) ==
  /\ c \in orphans
  /\ orphans' = orphans \ {c}
  /\ wire' = Append(wire, Stop(c))
  /\ UNCHANGED <<shows, typing, timer, net, began, stuck>>

----------------------------------------------------------------------------
(* The gateway and the readers *)

\* handleTypingStart, handleTypingStop: no await, so a relay keeps the order.
\* Bound: one event on the way to a reader.
Relay ==
  /\ up /\ wire # <<>> /\ wire' = Tail(wire)
  /\ news[Head(wire).conv] = <<>>
  /\ LET e == Head(wire) IN
       /\ news' = IF e.conv \in present THEN [news EXCEPT ![e.conv] = Append(@, e)] ELSE news
       /\ stuck' = IF e.conv \notin present /\ ~e.on THEN stuck \cup {e.conv} ELSE stuck
  /\ UNCHANGED <<local, up, present, typist, began>>

\* More is on its way to the reader of c (whose one event is being applied).
Told(c) == c \in {e.conv : e \in Range(wire)}

\* setTyping.
SetTyping(c) ==
  /\ news[c] # <<>> /\ news' = [news EXCEPT ![c] = Tail(@)]
  /\ LET e == Head(news[c]) IN
       /\ typist' = IF e.on THEN typist \cup {c} ELSE typist \ {c}
       /\ stuck' = IF e.on \/ Told(c) THEN stuck ELSE stuck \ {c}
  /\ UNCHANGED <<local, up, wire, present, began>>

\* The writer's socket drops: what was sent is lost, what is emitted meanwhile is
\* kept by socket.io until the connection is back.  handleDisconnect of the gateway
\* says nothing about typing.
WriterDrops ==
  /\ up /\ up' = FALSE
  /\ wire' = <<>> /\ stuck' = stuck \cup Stops(wire)
  /\ UNCHANGED <<local, present, news, typist, began>>

WriterReturns == ~up /\ up' = TRUE /\ UNCHANGED <<local, wire, present, news, typist, began, stuck>>

ReaderDrops(c) ==
  /\ c \in present /\ present' = present \ {c}
  /\ news' = [news EXCEPT ![c] = <<>>]
  /\ stuck' = stuck \cup Stops(news[c])
  /\ UNCHANGED <<local, up, wire, typist, began>>

ReaderReturns(c) ==
  /\ c \notin present /\ present' = present \cup {c}
  /\ UNCHANGED <<local, up, wire, news, typist, began, stuck>>

----------------------------------------------------------------------------

TypingNext ==
  \/ \E c \in Conv : \/ OpenChat(c) \/ ExpireOrphan(c) \/ SetTyping(c)
                     \/ ReaderDrops(c) \/ ReaderReturns(c)
  \/ CloseChat \/ Type \/ SendText \/ Expire
  \/ Relay \/ WriterDrops \/ WriterReturns

\* Timers fire, socket.io reconnects and delivers.  A timer that typing restarts
\* need not fire, so Expire has no fairness.
TypingFairness ==
  /\ WF_typingVars(Relay) /\ WF_typingVars(WriterReturns)
  /\ \A c \in Conv : WF_typingVars(ExpireOrphan(c)) /\ WF_typingVars(SetTyping(c))

TypingSpec == TypingInit /\ [][TypingNext]_typingVars /\ TypingFairness

\* A reader is not left with "typing..." by a writer who keeps pausing, unless the
\* writer went on typing or sent in another conversation before the pause (the stop
\* goes there), or the stop was lost with a socket.
TypingEnds ==
  ([]<>~typing) => \A c \in Conv : c \in typist ~> (c \notin typist \/ c \in stuck)
=============================================================================
