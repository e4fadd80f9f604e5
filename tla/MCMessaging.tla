---------------------------- MODULE MCMessaging ----------------------------
(* Messaging in two parts; a behaviour belongs to one.  Messages: two      *)
(* users, one with two tabs, one conversation, two messages and receipts.  *)
(* Pairs: three users, two of whom have a tab, two requests for a          *)
(* conversation, rooms joined and left, one message by event or by POST.   *)
EXTENDS Messaging, Naturals, TLC

CONSTANTS ann, bob, carl, a1, a2, b1, c1, c2, m1, m2, r1, r2

VARIABLE part  \* what this behaviour exercises

MCSocket == {a1, a2, b1}
MCOwner == [s \in MCSocket |-> IF s = b1 THEN bob ELSE ann]
MCMover == {a1, b1}
MCReader == {a1}
MCPoster == {bob}

Used == {m \in Msg : pc[m] # "unused"}
Asked == {r \in Request : ask[r].pc # "new"}

\* The bounds of the two parts.  In that of the messages nobody joins or leaves a room
\* by hand or marks one message; that of the pairs has both.
OfMessages ==
  /\ Cardinality(Asked) <= 1 /\ \A r \in Asked : ask[r].by = ann /\ ask[r].peer = bob
  /\ \A m \in Msg : via[m] \notin User
OfPairs == link[a2] = "closed" /\ Cardinality(Used) <= 1 /\ \A s \in Socket : mark[s] = NoMark

\* Tabs that stay open once they are.  Only a1 is closed, in the part of the pairs.
Stays(tabs) == \A s \in tabs : link[s] # "closed" => link'[s] # "closed"

MCInit == Init /\ part \in {"messages", "pairs"}
MCNext ==
  /\ part' = part /\ Next
  /\ \/ part = "messages" /\ OfMessages' /\ Stays(Socket)
          /\ (link' = link => rooms' = rooms) /\ (read' = read \/ mark' # mark)
     \/ part = "pairs" /\ OfPairs' /\ Stays({b1})
MCSpec == MCInit /\ [][MCNext]_<<part, vars>>

\* Conversation, message and request ids only name rows.
Symmetry ==
  Permutations({c1, c2}) \cup Permutations({r1, r2}) \cup Permutations({m1, m2})
=============================================================================
