------------------------------ MODULE Pricing ------------------------------
(***************************************************************************)
(* PricingService.priceCart of the shop (Fundamentals of Nest) with the    *)
(* two rules the registry discovers.  Both rules are evaluated on the cart *)
(* lines, never on the running total, so their order does not matter.      *)
(* Money is in whole cents.                                                *)
(***************************************************************************)
EXTENDS Integers, FiniteSets, FiniteSetsExt

\* A cart line carries its quantity and the price of its product.
Subtotal(lines) == MapThenSumSet(LAMBDA l : l.qty * l.price, lines)

\* BulkRule: $5 off each line with 5 or more units.
BulkDiscount(lines) == 500 * Cardinality({l \in lines : l.qty >= 5})

\* PercentageOffRule: 10% off above $200, Math.round taking halves upwards.
PercentageOff(lines) ==
  IF Subtotal(lines) > 20000 THEN (Subtotal(lines) + 5) \div 10 ELSE 0

PriceCart(lines) ==
  Max({0, Subtotal(lines) - BulkDiscount(lines) - PercentageOff(lines)})
=============================================================================
