---------------------------- MODULE MCChatSignals ----------------------------
(* What the chat signals besides messages, typing and reactions, and who a  *)
(* browser is signed in as.  They share no state, so interleaving them adds *)
(* nothing: a behaviour of this instance exercises one of them and leaves   *)
(* the others where they began.                                             *)
EXTENDS Typing, Reactions, WebSession

CONSTANTS ann, bob, c1, c2, h1, h2, thumb, t1, t2

VARIABLE used   \* the feature this behaviour exercises

MCConv == {c1, c2}
MCReactor == {ann, bob}
MCHandler == {h1, h2}
MCEmoji == {thumb}
MCMember == {ann, bob}
MCBrowserTab == {t1, t2}
MCOneTab == {t1}

Init ==
  /\ TypingInit /\ ReactionsInit /\ WebSessionInit
  /\ used \in {"typing", "reactions", "session"}
Next ==
  /\ used' = used
  /\ \/ used = "typing" /\ TypingNext /\ UNCHANGED <<reactionVars, webSessionVars>>
     \/ used = "reactions" /\ ReactionsNext /\ UNCHANGED <<typingVars, webSessionVars>>
     \/ used = "session" /\ WebSessionNext /\ UNCHANGED <<typingVars, reactionVars>>

vars == <<typingVars, reactionVars, webSessionVars, used>>
Spec == Init /\ [][Next]_vars /\ TypingFairness

\* The sessions alone, with their own fairness.
SessionSpec == Init /\ used = "session" /\ [][Next]_vars /\ WebSessionFairness
=============================================================================
