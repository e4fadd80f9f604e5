----------------------------- MODULE MCCheckout -----------------------------
(* Checkout with the prices and the decline limit of the shop: a customer   *)
(* who adds twice and checks out twice.                                      *)
EXTENDS Checkout, TLC

CONSTANTS ann, keyboard, monitor, x1, x2, k1, k2

MCUser == {ann}
MCProduct == {keyboard, monitor}
MCPrice == keyboard :> 9900 @@ monitor :> 32000
MCStock == keyboard :> 25 @@ monitor :> 10
MCRequest == {x1, x2, k1, k2}
MCBy == [r \in MCRequest |-> ann]
MCKind == x1 :> "add" @@ x2 :> "add" @@ k1 :> "checkout" @@ k2 :> "checkout"
\* 10 monitors and 25 keyboards come to more than the limit, 15 monitors to less.
MCWanted == [r \in MCRequest |->
  IF r = x1 THEN {[product |-> monitor, qty |-> 10]}
  ELSE {[product |-> monitor, qty |-> 5], [product |-> keyboard, qty |-> 25]}]
MCLimit == 500000

Symmetry == Permutations({k1, k2})
=============================================================================
