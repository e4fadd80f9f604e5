----------------------------- MODULE MCChatStore -----------------------------
(* The chat page in a tab of a user who has another tab, and of the peer. *)
EXTENDS ChatStore

CONSTANTS ann, bob, a1, a2, b1, m1, m2

MCUser == {ann, bob}
MCTab == {a1, a2, b1}
MCOwner == [t \in MCTab |-> IF t = b1 THEN bob ELSE ann]
MCMessage == {m1, m2}
MCFrom == [m \in MCMessage |-> IF m = m1 THEN a1 ELSE b1]
=============================================================================
