----------------------------- MODULE MCPresence -----------------------------
(* Presence with two tabs of one user and one tab of another. *)
EXTENDS Presence

CONSTANTS ann, bob, a1, a2, b1

MCUser == {ann, bob}
MCSocket == {a1, a2, b1}
MCOwner == [s \in MCSocket |-> IF s = b1 THEN bob ELSE ann]
=============================================================================
