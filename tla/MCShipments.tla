---------------------------- MODULE MCShipments ----------------------------
(* Shipments: two creations, and one shipment that two tracking requests,   *)
(* an edit and a cached read meet.                                          *)
EXTENDS Shipments, TLC

CONSTANTS s1, s2, t1, t2, e1, g1

MCShip == {s1, s2}
MCBusy == {s1}
MCTracker == {t1, t2}
MCEditor == {e1}
MCReader == {g1}
MCReported == {"PICKED_UP", "EXCEPTION", "CANCELLED"}

Symmetry == Permutations(MCTracker)
=============================================================================
