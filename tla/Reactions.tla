------------------------------ MODULE Reactions ------------------------------
(***************************************************************************)
(* Reactions to one message of the chat (Nest_Websocket): the rows of      *)
(* message_reactions, the handlers of add_reaction and remove_reaction,    *)
(* and the reactions a tab shows, which the click on a pill or on a quick  *)
(* reaction toggles.  The message is one of the page the tab asks for.     *)
(*                                                                         *)
(* A handler awaits its query and then tells the room: two handlers may be *)
(* answered in another order than their queries were performed.            *)
(***************************************************************************)
EXTENDS Naturals, Sequences, SequencesExt

CONSTANTS
  Reactor,  \* users who react to the message
  Self,     \* the user signed in in the tab that is followed
  Emoji,
  Handler   \* slots for the handlers in flight, each used again

ASSUME SelfAssumption == Self \in Reactor
ASSUME EmojiAssumption == Emoji # {}

VARIABLES
  row,      \* the rows: pairs of a user and an emoji
  handler,  \* the handlers in flight
  attached, \* the socket of the tab is in the room
  feed,     \* the events on their way to the tab
  pills,    \* the reactions of the message in the store
  answer,   \* a history query of the tab: whether it was read, and the rows it had
  torn      \* history: pairs the tab may show otherwise than they are

reactionVars == <<row, handler, attached, feed, pills, answer, torn>>

Pair == Reactor \X Emoji
Idle == [pc |-> "idle", adds |-> FALSE, pair |-> CHOOSE p \in Pair : TRUE]
NoRows == [read |-> FALSE, rows |-> {}]
Busy(p) == {h \in Handler : handler[h].pc # "idle" /\ handler[h].pair = p}

ReactionsTypeOK ==
  /\ row \subseteq Pair /\ pills \subseteq Pair /\ torn \subseteq Pair
  /\ handler \in [Handler -> [pc : {"idle", "writing", "telling"}, adds : BOOLEAN, pair : Pair]]
  /\ attached \in BOOLEAN
  /\ feed \in Seq([adds : BOOLEAN, pair : Pair])
  /\ answer \in [read : BOOLEAN, rows : SUBSET Pair]

ReactionsInit ==
  /\ row = {} /\ pills = {} /\ torn = {} /\ feed = <<>>
  /\ handler = [h \in Handler |-> Idle]
  /\ attached = TRUE /\ answer = NoRows

----------------------------------------------------------------------------
(* Requests *)

\* An event reaches its handler, which issues its query.  A pair two handlers work
\* on at once is torn until one of them ends alone.
Request(h, adds, p) ==
  /\ handler[h].pc = "idle"
  /\ handler' = [handler EXCEPT ![h] = [pc |-> "writing", adds |-> adds, pair |-> p]]
  /\ torn' = IF Busy(p) = {} THEN torn ELSE torn \cup {p}
  /\ UNCHANGED <<row, attached, feed, pills, answer>>

\* groupReactions: the pills below the message, and who is counted in each.
Grouped(e) == {u \in Reactor : <<u, e>> \in pills}

\* handleQuickReactionClick, handleReactionPillClick: what the tab shows decides.
Click(h, e) == attached /\ Request(h, Self \notin Grouped(e), <<Self, e>>)

\* The popover offers every emoji, a pill only the emoji it shows.
QuickClick(h, e) == Click(h, e)
PillClick(h, e) == Grouped(e) # {} /\ Click(h, e)

\* Another tab, of the same user or the other, shows what it shows.
Elsewhere(h, adds, p) == Request(h, adds, p)

\* addReaction (an upsert) or removeReaction (deleteMany).
DbReact(h) ==
  /\ handler[h].pc = "writing"
  /\ row' = IF handler[h].adds THEN row \cup {handler[h].pair} ELSE row \ {handler[h].pair}
  /\ handler' = [handler EXCEPT ![h].pc = "telling"]
  /\ UNCHANGED <<attached, feed, pills, answer, torn>>

\* The query fails: nothing is changed and nobody is told.
FailReact(h) ==
  /\ handler[h].pc = "writing"
  /\ handler' = [handler EXCEPT ![h] = Idle]
  /\ UNCHANGED <<row, attached, feed, pills, answer, torn>>

\* Variant: the sender's room is left out, as for messages.
HeardByOthers(h) == attached /\ handler[h].pair[1] # Self
Heard(h) == attached

\* reaction_added or reaction_removed to the whole room.
EmitReaction(h) ==
  /\ handler[h].pc = "telling"
  /\ handler' = [handler EXCEPT ![h] = Idle]
  /\ LET p == handler[h].pair IN
       /\ feed' = IF Heard(h) THEN Append(feed, [adds |-> handler[h].adds, pair |-> p]) ELSE feed
       /\ torn' = IF ~attached THEN torn \cup {p}
                  ELSE IF Busy(p) = {h} /\ (p \in row) = handler[h].adds THEN torn \ {p}
                  ELSE torn
  /\ UNCHANGED <<row, attached, pills, answer>>

----------------------------------------------------------------------------
(* The tab *)

\* The store's addReaction keeps one reaction per user and emoji, removeReaction
\* drops it.
ApplyReaction ==
  /\ feed # <<>> /\ feed' = Tail(feed)
  /\ LET e == Head(feed) IN
       pills' = IF e.adds THEN pills \cup {e.pair} ELSE pills \ {e.pair}
  /\ UNCHANGED <<row, handler, attached, answer, torn>>

\* The history of the conversation is read, with the reactions of its messages.
DbHistory ==
  /\ ~answer.read /\ answer' = [read |-> TRUE, rows |-> row]
  /\ UNCHANGED <<row, handler, attached, feed, pills, torn>>

\* setMessages replaces the message.  A pair that differs from its row, with no
\* event to come, is torn; one that agrees is right unless something is under way.
SetHistory ==
  LET coming(p) == \E i \in DOMAIN feed : feed[i].pair = p
      telling(p) == \E h \in Busy(p) : handler[h].pc = "telling"
      agrees(p) == (p \in row) = (p \in answer.rows)
  IN  /\ answer.read /\ answer' = NoRows
      /\ pills' = answer.rows
      /\ torn' = {p \in Pair : IF agrees(p) THEN p \in torn /\ (coming(p) \/ Busy(p) # {})
                               ELSE p \in torn \/ ~(coming(p) \/ telling(p))}
      /\ UNCHANGED <<row, handler, attached, feed>>

\* The socket drops with the events in flight, and comes back.
Detach ==
  /\ attached /\ attached' = FALSE
  /\ torn' = torn \cup {feed[i].pair : i \in DOMAIN feed} /\ feed' = <<>>
  /\ UNCHANGED <<row, handler, pills, answer>>

Attach == ~attached /\ attached' = TRUE /\ UNCHANGED <<row, handler, feed, pills, answer, torn>>

----------------------------------------------------------------------------

\* Bound: requests are made while at most one event is on its way to the tab.
ReactionsNext ==
  \/ \E h \in Handler : \/ DbReact(h) \/ FailReact(h) \/ EmitReaction(h)
                        \/ /\ Len(feed) < 2
                           /\ \/ \E e \in Emoji : QuickClick(h, e) \/ PillClick(h, e)
                              \/ \E p \in Pair, adds \in BOOLEAN : Elsewhere(h, adds, p)
  \/ ApplyReaction \/ DbHistory \/ SetHistory \/ Detach \/ Attach

ReactionsSpec == ReactionsInit /\ [][ReactionsNext]_reactionVars

\* When no handler works on a reaction and no event is on its way, the tab shows
\* it exactly if its row is there, unless two handlers of it overlapped, its event was
\* emitted while the socket was down, or an older answer of the history query
\* replaced it; and the next change made alone puts it right.
PillsAgreeAtRest ==
  feed = <<>> => \A p \in Pair : Busy(p) = {} /\ p \notin torn => (p \in pills <=> p \in row)
=============================================================================
