-------------------------- MODULE CheckoutProofs --------------------------
(***************************************************************************)
(* Theorems about Checkout, for any users, catalog, requests, and decline  *)
(* limit.  The quantities of a cart and the units of the orders are sums   *)
(* over sets (Sum, the fold of the community modules); the first section   *)
(* proves, from the well-founded order of the finite subsets of a set,     *)
(* that such a fold exists and does not depend on the order of the         *)
(* elements, and what becomes of it when one is added or changed.          *)
(***************************************************************************)
EXTENDS Checkout, FiniteSetTheorems, TLAPS

----------------------------------------------------------------------------
\* Sums over finite sets

\* The fold behind Sum(f, S): a function g on the subsets of S that takes one
\* element after the other.
Pick(s) == CHOOSE x \in s : TRUE
Unfolds(f, g, s) == g[s] = IF s = {} THEN 0 ELSE f[Pick(s)] + g[s \ {Pick(s)}]
Fold(f, S, g) ==
  g = [s \in SUBSET S |-> IF s = {} THEN 0 ELSE f[Pick(s)] + g[s \ {Pick(s)}]]

Ints(f, S) == \A x \in S : f[x] \in Int
Peels(f, g, s) == g[s] \in Int /\ \A x \in s : g[s] = f[x] + g[s \ {x}]
HasMinimal(Z) == \E T \in Z : \A U \in Z : U \subseteq T => U = T

\* Every set of subsets of a finite set has an element that is minimal.
LEMMA Minimal ==
  \A S, Z : IsFiniteSet(S) /\ Z \in SUBSET SUBSET S => Z = {} \/ HasMinimal(Z)
<1> SUFFICES ASSUME NEW S, IsFiniteSet(S), NEW Z \in SUBSET SUBSET S, Z # {}
             PROVE  HasMinimal(Z)
  OBVIOUS
<1>1. IsWellFoundedOn(StrictSubsetOrdering(S), FiniteSubsetsOf(S))
  BY FS_StrictSubsetOrderingWellFounded
<1>2. \A T \in SUBSET S : IsFiniteSet(T)
  BY FS_Subset
<1>3. Z \subseteq FiniteSubsetsOf(S)
  BY <1>2 DEF FiniteSubsetsOf
<1>4. PICK T \in Z : \A U \in Z : ~(<<U, T>> \in StrictSubsetOrdering(S))
  BY <1>1, <1>3, WFMin
<1> QED BY <1>4 DEF StrictSubsetOrdering, HasMinimal

\* A set of natural numbers has a least one.
LEMMA Least ==
  ASSUME NEW Z, Z \subseteq Nat, Z # {}
  PROVE  \E n \in Z : \A m \in Z : n <= m
<1>1. PICK k \in Z : TRUE
  OBVIOUS
<1> DEFINE I == {1..m : m \in {n \in Z : n <= k}}
<1>2. IsFiniteSet(1..k)
  BY FS_Interval
<1>3. I \in SUBSET SUBSET (1..k) /\ I # {}
  <2>1. \A n \in Z : n <= k => 1..n \subseteq 1..k
    OBVIOUS
  <2>2. 1..k \in I
    OBVIOUS
  <2> QED BY <2>1, <2>2
<1>4. HasMinimal(I)
  <2> HIDE DEF I
  <2> QED BY <1>2, <1>3, Minimal
<1>5. PICK T \in I : \A U \in I : U \subseteq T => U = T
  BY <1>4 DEF HasMinimal
<1>6. PICK n \in Z : n <= k /\ T = 1..n
  OBVIOUS
<1>7. ASSUME NEW m \in Z, m < n PROVE FALSE
  <2>1. 1..m \in I /\ 1..m \subseteq 1..n
    BY <1>6, <1>7
  <2>2. 1..m = 1..n
    BY <2>1, <1>5, <1>6
  <2> QED BY <2>2, <1>7
<1> QED BY <1>7

\* The recursion of the fold has a solution: one that is right up to n elements gives
\* one that is right up to n + 1.
LEMMA FoldExists ==
  ASSUME NEW f, NEW S, IsFiniteSet(S)
  PROVE  \E g : Fold(f, S, g)
<1> DEFINE Upto(g, n) == \A s \in SUBSET S : Cardinality(s) <= n => Unfolds(f, g, s)
           Bad == {n \in Nat : ~\E g : Upto(g, n)}
<1>1. \A s \in SUBSET S : /\ IsFiniteSet(s) /\ Cardinality(s) \in Nat
                          /\ Cardinality(s) <= Cardinality(S)
  BY FS_Subset, FS_CardinalityType
<1>2. Cardinality(S) \in Nat
  BY FS_CardinalityType
<1>3. \A s \in SUBSET S : s # {} =>
         /\ Pick(s) \in s
         /\ s \ {Pick(s)} \in SUBSET S
         /\ Cardinality(s \ {Pick(s)}) = Cardinality(s) - 1
  BY <1>1, FS_RemoveElement DEF Pick
<1>4. \A s \in SUBSET S : Cardinality(s) = 0 <=> s = {}
  BY <1>1, FS_EmptySet
<1>5. Bad = {}
  <2>1. SUFFICES ASSUME NEW n \in Bad, \A m \in Bad : n <= m PROVE FALSE
    BY Least
  <2>2. CASE n = 0
    <3> DEFINE g == [s \in SUBSET S |-> 0]
    <3>1. ASSUME NEW s \in SUBSET S, Cardinality(s) <= 0 PROVE Unfolds(f, g, s)
      BY <1>1, <1>4, <3>1 DEF Unfolds
    <3> QED BY <3>1, <2>2
  <2>3. CASE n # 0
    <3>1. n - 1 \in Nat /\ n - 1 \notin Bad
      BY <2>1, <2>3
    <3>2. PICK g : Upto(g, n - 1)
      BY <3>1
    <3> DEFINE h == [s \in SUBSET S |->
                       IF s = {} THEN 0 ELSE f[Pick(s)] + g[s \ {Pick(s)}]]
    <3>3. ASSUME NEW s \in SUBSET S, Cardinality(s) <= n - 1 PROVE h[s] = g[s]
      BY <3>2, <3>3 DEF Unfolds
    <3>4. ASSUME NEW s \in SUBSET S, Cardinality(s) <= n, s # {}
          PROVE  h[s \ {Pick(s)}] = g[s \ {Pick(s)}]
      <4>1. s \ {Pick(s)} \in SUBSET S /\ Cardinality(s \ {Pick(s)}) <= n - 1
        BY <1>1, <1>3, <3>4
      <4> HIDE DEF h
      <4> QED BY <4>1, <3>3
    <3>5. Upto(h, n)
      <4>1. SUFFICES ASSUME NEW s \in SUBSET S, Cardinality(s) <= n
                     PROVE  Unfolds(f, h, s)
        OBVIOUS
      <4>2. h[s] = IF s = {} THEN 0 ELSE f[Pick(s)] + g[s \ {Pick(s)}]
        OBVIOUS
      <4> HIDE DEF h
      <4> QED BY <4>1, <4>2, <3>4 DEF Unfolds
    <3> QED BY <3>5
  <2> QED BY <2>2, <2>3
<1>6. PICK g : Upto(g, Cardinality(S))
  BY <1>2, <1>5
<1> DEFINE h == [s \in SUBSET S |-> g[s]]
<1>7. Fold(f, S, h)
  <2>1. ASSUME NEW s \in SUBSET S
        PROVE  g[s] = IF s = {} THEN 0 ELSE f[Pick(s)] + h[s \ {Pick(s)}]
    BY <1>1, <1>3, <1>6 DEF Unfolds
  <2> QED BY <2>1 DEF Fold
<1> QED BY <1>7

\* Sum is such a fold.
LEMMA SumFold ==
  ASSUME NEW f, NEW S, IsFiniteSet(S)
  PROVE  \E g : Fold(f, S, g) /\ Sum(f, S) = g[S]
<1> DEFINE G == CHOOSE g : Fold(f, S, g)
<1>1. Fold(f, S, G)
  BY FoldExists
<1>2. Sum(f, S) = G[S]
  BY DEF Sum, MapThenSumSet, MapThenFoldSet, Fold, Pick
<1> QED BY <1>1, <1>2

\* The sum over no element.
LEMMA SumEmpty == ASSUME NEW f PROVE Sum(f, {}) = 0
<1>1. PICK g : Fold(f, {}, g) /\ Sum(f, {}) = g[{}]
  BY SumFold, FS_EmptySet
<1> QED BY <1>1 DEF Fold

\* The fold over a larger set agrees with the fold over a smaller one.
LEMMA FoldsAgree ==
  ASSUME NEW f, NEW S, IsFiniteSet(S), NEW T \in SUBSET S,
         NEW g, NEW h, Fold(f, S, g), Fold(f, T, h)
  PROVE  h[T] = g[T]
<1> DEFINE Bad == {s \in SUBSET T : h[s] # g[s]}
<1>1. IsFiniteSet(T)
  BY FS_Subset
<1>2. Bad = {} \/ HasMinimal(Bad)
  <2>1. Bad \in SUBSET SUBSET T
    OBVIOUS
  <2> HIDE DEF Bad
  <2> QED BY <1>1, <2>1, Minimal
<1>3. ASSUME NEW s \in Bad, \A t \in Bad : t \subseteq s => t = s PROVE FALSE
  <2>2. /\ h[s] = IF s = {} THEN 0 ELSE f[Pick(s)] + h[s \ {Pick(s)}]
        /\ g[s] = IF s = {} THEN 0 ELSE f[Pick(s)] + g[s \ {Pick(s)}]
    BY DEF Fold
  <2>3. s # {}
    BY <2>2
  <2>4. Pick(s) \in s
    BY <2>3 DEF Pick
  <2>5. s \ {Pick(s)} \notin Bad
    BY <1>3, <2>4
  <2> QED BY <2>2, <2>3, <2>5
<1>4. Bad = {}
  BY <1>2, <1>3 DEF HasMinimal
<1> QED BY <1>4

\* The order in which the elements are picked does not matter.
LEMMA FoldSteps ==
  ASSUME NEW S, IsFiniteSet(S), NEW f, Ints(f, S), NEW g, Fold(f, S, g)
  PROVE  \A s \in SUBSET S : Peels(f, g, s)
<1> USE DEF Ints, Peels
<1> DEFINE Bad == {s \in SUBSET S : ~Peels(f, g, s)}
<1>1. SUFFICES ASSUME NEW s \in Bad, \A t \in Bad : t \subseteq s => t = s PROVE FALSE
  <2>1. Bad \in SUBSET SUBSET S
    OBVIOUS
  <2>2. Bad = {} \/ HasMinimal(Bad)
    <3> HIDE DEF Bad
    <3> QED BY <2>1, Minimal
  <2> QED BY <2>2 DEF HasMinimal
<1>2. \A t \in SUBSET S : g[t] = IF t = {} THEN 0 ELSE f[Pick(t)] + g[t \ {Pick(t)}]
  BY DEF Fold
<1>3. s # {}
  BY <1>2
<1> DEFINE c == Pick(s)
<1>4. c \in s
  BY <1>3 DEF Pick
<1>5. \A t \in SUBSET s : t # s => Peels(f, g, t)
  BY <1>1
<1> HIDE DEF c
<1>6. g[s] = f[c] + g[s \ {c}]
  BY <1>2, <1>3 DEF c
<1>7. g[s] \in Int
  BY <1>4, <1>5, <1>6
<1>8. ASSUME NEW x \in s, x # c PROVE g[s] = f[x] + g[s \ {x}]
  <2>1. g[s \ {c}] = f[x] + g[(s \ {c}) \ {x}]
    BY <1>4, <1>5, <1>8
  <2>2. g[s \ {x}] = f[c] + g[(s \ {x}) \ {c}]
    BY <1>4, <1>5, <1>8
  <2>3. (s \ {c}) \ {x} = (s \ {x}) \ {c}
    OBVIOUS
  <2>4. g[(s \ {x}) \ {c}] \in Int
    BY <1>4, <1>5, <1>8
  <2>5. f[x] \in Int /\ f[c] \in Int
    BY <1>4
  <2> DEFINE rest == g[(s \ {x}) \ {c}]
  <2>6. g[s] = f[c] + (f[x] + rest) /\ g[s \ {x}] = f[c] + rest
    BY <1>6, <2>1, <2>2, <2>3
  <2>7. rest \in Int
    BY <2>4
  <2> HIDE DEF rest
  <2> QED BY <2>5, <2>6, <2>7
<1> QED BY <1>6, <1>7, <1>8

\* A sum of integers is an integer, and any element can be taken out of it.
LEMMA SumStep ==
  ASSUME NEW S, IsFiniteSet(S), NEW f, Ints(f, S)
  PROVE  /\ Sum(f, S) \in Int
         /\ \A x \in S : Sum(f, S) = f[x] + Sum(f, S \ {x})
<1>1. PICK g : Fold(f, S, g) /\ Sum(f, S) = g[S]
  BY SumFold
<1>2. g[S] \in Int /\ \A x \in S : g[S] = f[x] + g[S \ {x}]
  <2>1. S \in SUBSET S
    OBVIOUS
  <2>2. \A s \in SUBSET S : Peels(f, g, s)
    BY <1>1, FoldSteps
  <2> QED BY <2>1, <2>2 DEF Peels
<1>3. ASSUME NEW x \in S PROVE Sum(f, S \ {x}) = g[S \ {x}]
  <2>1. S \ {x} \in SUBSET S /\ IsFiniteSet(S \ {x})
    BY FS_Subset
  <2>2. PICK h : Fold(f, S \ {x}, h) /\ Sum(f, S \ {x}) = h[S \ {x}]
    BY <2>1, SumFold
  <2> QED BY <1>1, <2>1, <2>2, FoldsAgree
<1> QED BY <1>1, <1>2, <1>3

\* Functions that agree on S have the same sum over S.
LEMMA SumSame ==
  ASSUME NEW S, IsFiniteSet(S), NEW f, NEW h, Ints(f, S), \A x \in S : h[x] = f[x]
  PROVE  Sum(h, S) = Sum(f, S)
<1> DEFINE Bad == {s \in SUBSET S : Sum(h, s) # Sum(f, s)}
<1>1. SUFFICES ASSUME NEW s \in Bad, \A t \in Bad : t \subseteq s => t = s PROVE FALSE
  <2>1. Bad \in SUBSET SUBSET S
    OBVIOUS
  <2>2. Bad = {} \/ HasMinimal(Bad)
    <3> HIDE DEF Bad
    <3> QED BY <2>1, Minimal
  <2> QED BY <2>2 DEF HasMinimal
<1>2. IsFiniteSet(s) /\ Ints(f, s) /\ Ints(h, s)
  BY FS_Subset DEF Ints
<1>3. PICK x \in s : TRUE
  BY SumEmpty
<1>4. /\ Sum(f, s) = f[x] + Sum(f, s \ {x})
      /\ Sum(h, s) = h[x] + Sum(h, s \ {x})
  BY <1>2, SumStep
<1>5. s \ {x} \notin Bad
  BY <1>1, <1>3
<1> QED BY <1>4, <1>5

\* Changing the function at one element of S.
LEMMA SumChange ==
  ASSUME NEW S, IsFiniteSet(S), NEW f, NEW h, NEW x \in S,
         Ints(f, S), Ints(h, S), \A y \in S : y # x => h[y] = f[y]
  PROVE  Sum(h, S) = Sum(f, S) - f[x] + h[x]
<1>1. IsFiniteSet(S \ {x}) /\ Ints(f, S \ {x})
  BY FS_Subset DEF Ints
<1>2. Sum(h, S \ {x}) = Sum(f, S \ {x})
  BY <1>1, SumSame
<1>3. Sum(f, S \ {x}) \in Int
  BY <1>1, SumStep
<1>4. Sum(f, S) = f[x] + Sum(f, S \ {x}) /\ Sum(h, S) = h[x] + Sum(h, S \ {x})
  BY SumStep
<1>5. f[x] \in Int /\ h[x] \in Int
  BY DEF Ints
<1> QED BY <1>2, <1>3, <1>4, <1>5

\* Adding an element to the set.
LEMMA SumAdd ==
  ASSUME NEW S, IsFiniteSet(S), NEW f, NEW x, x \notin S,
         Ints(f, S \cup {x})
  PROVE  Sum(f, S \cup {x}) = f[x] + Sum(f, S)
<1>1. IsFiniteSet(S \cup {x}) /\ (S \cup {x}) \ {x} = S
  BY FS_AddElement
<1> QED BY <1>1, SumStep
----------------------------------------------------------------------------
\* The invariants

\* Rows of the tables.
CartRow == [user : User \cup {None}, status : {None, "open", "checked_out"}]
ItemRow == [cart : Cart \cup {NoId}, product : Product \cup {None}, qty : Int]
OrderRow == [status : Status \cup {None}, total : Int, lines : SUBSET Line,
             cart : Cart \cup {NoId}]

\* Stages of a checkout from its order to its end.
Ordered == {"charging", "recording", "updating"}
Selling == {"selling", "closing"}
Added == {"viewing", "opening", "done"}

\* Where a request of each kind may be, with what it has found by then.
Shape(r) ==
  /\ Kind[r] = "add" => pc[r] \in {"new", "finding", "creating", "looking", "writing",
                                   "failed"} \cup Added
  /\ Kind[r] = "view" => at[r] = NoId /\ pc[r] \in {"new"} \cup Added
  /\ Kind[r] = "checkout" => pc[r] \notin {"looking", "writing", "viewing", "opening"}
  /\ pc[r] \in {"new", "finding", "creating"} => at[r] = NoId
  /\ (pc[r] \in Holding \cup {"refused"} \/ (pc[r] \in Added /\ Kind[r] # "view")) => at[r] \in Cart
  /\ at[r] \in Cart => cart[at[r]].status # None
  /\ Kind[r] = "add" /\ pc[r] # "new" => want[r].product \in Product
  /\ item[r].cart # NoId => /\ Kind[r] = "add" /\ pc[r] \in Added
                            /\ item[r].cart = at[r] /\ item[r].product = want[r].product
  /\ IsFiniteSet(lines[r]) /\ IsFiniteSet(order[r].lines)

ShapeInv == TypeOK /\ \A r \in Request : Shape(r)

\* One request at a time works on a cart that is not mixed, and the cart is open.
HeldInv ==
  \A c \in Cart \ mixed : \A r \in Request : at[r] = c /\ pc[r] \in Holding =>
    /\ cart[c].status = "open"
    /\ \A o \in Request : at[o] = c /\ pc[o] \in Holding => o = r

\* The row addToCart found is of its cart and product, and up to date if nobody
\* else works on the cart.
Found(r) ==
  /\ pc[r] \in {"new", "finding", "creating", "looking"} => found[r] = NotFound
  /\ found[r].row # None => /\ at[r] \in Cart /\ found[r].row \in Rows(at[r])
                            /\ item[found[r].row].product = want[r].product
  /\ pc[r] = "writing" /\ at[r] \notin mixed =>
       IF found[r].row = None THEN \A i \in Rows(at[r]) : item[i].product # want[r].product
                              ELSE found[r].qty = item[found[r].row].qty
FoundInv == \A r \in Request : Found(r)

\* What a checkout has written at each of its stages.
Sale(r) ==
  /\ pc[r] \notin Ordered \cup Selling \cup {"done", "failed"} => order[r].status = None
  /\ pc[r] \in Ordered => order[r].status = "pending"
  /\ pc[r] \in Selling => order[r].status = "paid"
  /\ order[r].status # None => order[r].cart = at[r] /\ at[r] \in Cart
  /\ pc[r] \in Ordered => order[r].lines = lines[r]
  /\ order[r].status = "paid" => /\ pc[r] \in Selling \cup {"done", "failed"}
                                 /\ lines[r] \subseteq order[r].lines
                                 /\ pc[r] \in {"closing", "done"} => lines[r] = {}
  /\ pc[r] \in {"recording", "updating"} => (charged[r] # 0 => Approves(order[r].total))
  /\ pc[r] = "updating" => (payment[r] = "succeeded" <=> Approves(order[r].total))
  /\ charged[r] # 0 => /\ Kind[r] = "checkout" /\ at[r] \in Cart
                       /\ \/ pc[r] \in Answered \/ at[r] \in mixed
                          \/ pc[r] = "done" /\ cart[at[r]].status = "checked_out"

\* The lines read and ordered are those of the cart as it is; it has at most one
\* paid order, and has one once it is checked out.
CartSale(c) ==
  /\ \A r \in Request : at[r] = c /\ pc[r] \in Ordered \cup {"ordering"} => lines[r] = LinesOf(c)
  /\ \A r \in Paid : order[r].cart = c =>
       /\ order[r].lines = LinesOf(c)
       /\ pc[r] \in Selling \/ (pc[r] = "done" /\ cart[c].status = "checked_out")
       /\ \A o \in Paid : order[o].cart = c => o = r
  /\ cart[c].status = "checked_out" => \E r \in Paid : order[r].cart = c

SaleInv == (\A r \in Request : Sale(r)) /\ (\A c \in Cart \ mixed : CartSale(c))

\* The units of product p in the lines L; what is gone from the stock is what the
\* checkouts of paid orders have taken.
Units(L, p) == Sum([l \in L |-> l.qty], {l \in L : l.product = p})
StockInv ==
  \A p \in Product :
    Stock[p] - stock[p] =
      Sum([r \in Request |-> Units(order[r].lines \ lines[r], p)], Paid)
----------------------------------------------------------------------------
\* Types

\* The price of a cart is an integer, whatever integers its lines carry.
LEMMA PriceType ==
  ASSUME NEW L, IsFiniteSet(L), L \subseteq Line
  PROVE  PriceCart(L) \in Int
<1> DEFINE f == [l \in L |-> l.qty * l.price]
           G == CHOOSE g : g = [s \in SUBSET L |->
                  IF s = {} THEN 0 ELSE Pick(s).qty * Pick(s).price + g[s \ {Pick(s)}]]
<1>1. ASSUME NEW g
      PROVE  Fold(f, L, g) <=> g = [s \in SUBSET L |->
               IF s = {} THEN 0 ELSE Pick(s).qty * Pick(s).price + g[s \ {Pick(s)}]]
  <2>1. \A s \in SUBSET L : s # {} => f[Pick(s)] = Pick(s).qty * Pick(s).price
    BY DEF Pick
  <2> HIDE DEF f
  <2> QED BY <2>1 DEF Fold
<1>2. \E g : Fold(f, L, g)
  <2> HIDE DEF f
  <2> QED BY FoldExists
<1>3. Fold(f, L, G)
  BY <1>1, <1>2
<1>4. Subtotal(L) = G[L]
  BY DEF Subtotal, MapThenSumSet, MapThenFoldSet, Pick
<1>5. Ints(f, L)
  BY DEF Ints, Line
<1>6. Peels(f, G, L)
  <2> HIDE DEF f, G
  <2>1. L \in SUBSET L
    OBVIOUS
  <2> QED BY <1>3, <1>5, <2>1, FoldSteps
<1>7. Subtotal(L) \in Int
  BY <1>4, <1>6 DEF Peels
<1>8. BulkDiscount(L) \in Int
  <2>1. Cardinality({l \in L : l.qty >= 5}) \in Nat
    BY FS_Subset, FS_CardinalityType
  <2> QED BY <2>1 DEF BulkDiscount
<1>9. PercentageOff(L) \in Int
  BY <1>7 DEF PercentageOff
<1>10. \A n \in Int : Max({0, n}) \in Int
  BY DEF Max
<1> QED BY <1>7, <1>8, <1>9, <1>10 DEF PriceCart

LEMMA CartIds == Cart \subseteq Nat /\ NoId \notin Cart
  BY CatalogAssumption DEF Cart, NoId

\* What a cart holds is a finite set of lines of the catalog.
LEMMA LinesType ==
  ASSUME ShapeInv, NEW c \in Cart
  PROVE  LinesOf(c) \subseteq Line /\ IsFiniteSet(LinesOf(c))
<1>1. \A i \in Rows(c) : item[i].product \in Product /\ item[i].qty \in Int
  BY CartIds DEF ShapeInv, Shape, TypeOK, Rows, Added
<1>2. LinesOf(c) \subseteq Line
  BY <1>1, CatalogAssumption DEF LinesOf, Line, Rows
<1> DEFINE f == [i \in Rows(c) |-> [row |-> i, product |-> item[i].product,
                                    qty |-> item[i].qty, price |-> Price[item[i].product]]]
<1>3. f \in Surjection(Rows(c), LinesOf(c))
  BY DEF Surjection, LinesOf
<1>4. IsFiniteSet(Rows(c))
  BY RequestAssumption, FS_Subset DEF Rows
<1> HIDE DEF f
<1> QED BY <1>2, <1>3, <1>4, FS_Surjection

LEMMA ShapeInit == Init => ShapeInv
<1> SUFFICES ASSUME Init PROVE ShapeInv
  OBVIOUS
<1> USE RequestAssumption, CatalogAssumption
<1>1. TypeOK
  BY DEF Init, TypeOK, NoCart, NoItem, NotFound, NoOrder, State, Cart, NoId, None
<1>2. ASSUME NEW r \in Request PROVE Shape(r)
  BY FS_EmptySet, CartIds DEF Init, Shape, NoItem, NoOrder, Added, Holding
<1> QED BY <1>1, <1>2 DEF ShapeInv

\* What follows the open cart, once its row is there.
LEMMA TakeKeepsShape ==
  ASSUME ShapeInv, NEW r \in Request, NEW c \in Cart, Take(r, c),
         pc[r] \in {"finding", "viewing", "creating", "opening"},
         cart' \in [Cart -> CartRow],
         \A d \in Cart : cart[d].status # None => cart'[d].status # None,
         cart'[c].status # None,
         UNCHANGED <<item, order, payment, stock, charged, want, found, lines>>
  PROVE  ShapeInv'
<1> USE RequestAssumption DEF Holding, Added, CartRow
<1>1. TypeOK /\ \A k \in Request : Shape(k)
  BY DEF ShapeInv
<1>2. CASE pc[r] \in {"viewing", "opening"}
  <2>1. pc' = [pc EXCEPT ![r] = "done"] /\ UNCHANGED <<at, mixed>>
    BY <1>2 DEF Take
  <2>2. TypeOK'
    BY <1>1, <2>1 DEF TypeOK, State
  <2>3. ASSUME NEW k \in Request PROVE Shape(k)'
    BY <1>1, <1>2, <2>1, CartIds DEF TypeOK, Shape
  <2> QED BY <2>2, <2>3 DEF ShapeInv
<1>3. CASE pc[r] \in {"finding", "creating"}
  <2>1. /\ pc' = [pc EXCEPT ![r] = IF Kind[r] = "add" THEN "looking" ELSE "reading"]
        /\ at' = [at EXCEPT ![r] = c]
        /\ mixed' \in {mixed, mixed \cup {c}}
    BY <1>3 DEF Take
  <2>2. TypeOK'
    BY <1>1, <2>1 DEF TypeOK, State
  <2>3. ASSUME NEW k \in Request PROVE Shape(k)'
    BY <1>1, <1>3, <2>1, CartIds DEF TypeOK, Shape
  <2> QED BY <2>2, <2>3 DEF ShapeInv
<1> QED BY <1>2, <1>3

LEMMA ShapeStep == ShapeInv /\ [Next]_vars => ShapeInv'
<1> SUFFICES ASSUME ShapeInv, [Next]_vars PROVE ShapeInv'
  OBVIOUS
<1> USE RequestAssumption, CatalogAssumption
<1> USE DEF State, Holding, Added, CartRow, ItemRow, OrderRow
<1>1. CASE UNCHANGED vars
  BY <1>1 DEF ShapeInv, TypeOK, Shape, vars
<1>2. CASE Next
  <2>1. PICK r \in Request : Begin(r) \/ Serve(r) \/ Fail(r)
    BY <1>2 DEF Next
  <2>2. TypeOK /\ \A k \in Request : Shape(k)
    BY DEF ShapeInv
  <2>3. Cart \subseteq Nat /\ NoId \notin Cart
    BY CartIds
  <2>4. CASE Begin(r)
    <3>1. TypeOK'
      <4>1. want' \in [Request -> [product : Product \cup {None}, qty : Int]]
        <5>1. \A w \in Wanted[r] : w \in [product : Product \cup {None}, qty : Int]
          OBVIOUS
        <5> QED BY <2>2, <2>4, <5>1 DEF Begin, TypeOK
      <4>2. pc' \in [Request -> State]
        BY <2>2, <2>4 DEF Begin, TypeOK
      <4> QED BY <2>2, <2>4, <4>1, <4>2 DEF Begin, TypeOK
    <3>2. ASSUME NEW k \in Request PROVE Shape(k)'
      BY <2>2, <2>4 DEF Begin, TypeOK, Shape
    <3> QED BY <3>1, <3>2 DEF ShapeInv
  <2>5. CASE DbFindCart(r)
    <3>1. /\ pc[r] \in {"finding", "viewing"}
          /\ UNCHANGED <<cart, item, order, payment, stock, charged, want, found, lines>>
      BY <2>5 DEF DbFindCart
    <3>2. CASE OpenCarts(By[r]) = {} /\ UNCHANGED <<at, mixed>>
               /\ pc' = [pc EXCEPT ![r] = IF pc[r] = "finding" THEN "creating" ELSE "opening"]
      <4>1. TypeOK'
        BY <2>2, <3>1, <3>2 DEF TypeOK
      <4>2. ASSUME NEW k \in Request PROVE Shape(k)'
        BY <2>2, <2>3, <3>1, <3>2 DEF TypeOK, Shape
      <4> QED BY <4>1, <4>2 DEF ShapeInv
    <3>3. ASSUME NEW c \in OpenCarts(By[r]), Take(r, c) PROVE ShapeInv'
      <4>1. c \in Cart /\ cart'[c].status # None
        BY <3>1, <3>3 DEF OpenCarts, None
      <4>2. cart' \in [Cart -> CartRow]
        BY <2>2, <3>1 DEF TypeOK
      <4> QED BY <2>2, <3>1, <3>3, <4>1, <4>2, TakeKeepsShape
    <3> QED BY <2>5, <3>2, <3>3 DEF DbFindCart
  <2>6. CASE DbCreateCart(r)
    <3>1. /\ pc[r] \in Opening
          /\ UNCHANGED <<item, order, payment, stock, charged, want, found, lines>>
      BY <2>6 DEF DbCreateCart
    <3>2. PICK c \in Cart : /\ cart' = [cart EXCEPT ![c] = [user |-> By[r], status |-> "open"]]
                            /\ Take(r, c)
      BY <2>6 DEF DbCreateCart
    <3>3. cart' \in [Cart -> CartRow]
      BY <2>2, <3>2 DEF TypeOK
    <3>4. \A d \in Cart : cart[d].status # None => cart'[d].status # None
      BY <2>2, <3>2 DEF TypeOK, None
    <3>5. cart'[c].status # None
      BY <2>2, <3>2 DEF TypeOK, None
    <3> QED BY <2>2, <3>1, <3>2, <3>3, <3>4, <3>5, TakeKeepsShape DEF Opening
  <2>7. CASE DbFindItem(r)
    <3>1. TypeOK'
      <4>1. \A i \in Request : [row |-> i, qty |-> item[i].qty]
                                 \in [row : Request \cup {None}, qty : Int]
        BY <2>2 DEF TypeOK
      <4>2. CASE UNCHANGED found
        BY <2>2, <2>7, <4>2 DEF DbFindItem, TypeOK
      <4>3. ASSUME NEW i \in Request,
                   found' = [found EXCEPT ![r] = [row |-> i, qty |-> item[i].qty]]
            PROVE  TypeOK'
        BY <2>2, <2>7, <4>1, <4>3 DEF DbFindItem, TypeOK
      <4> QED BY <2>7, <4>2, <4>3 DEF DbFindItem, Rows
    <3>2. ASSUME NEW k \in Request PROVE Shape(k)'
      BY <2>2, <2>7 DEF DbFindItem, TypeOK, Shape
    <3> QED BY <3>1, <3>2 DEF ShapeInv
  <2>8. CASE DbWriteItem(r)
    <3>1. TypeOK'
      <4>1. CASE found[r].row # None
        <5>1. found[r].row \in Request /\ found[r].qty + want[r].qty \in Int
          BY <2>2, <4>1 DEF TypeOK
        <5>2. item' = [item EXCEPT ![found[r].row].qty = found[r].qty + want[r].qty]
          BY <2>8, <4>1 DEF DbWriteItem
        <5>3. item' \in [Request -> ItemRow]
          <6>1. \A i \in Request : item[i] \in ItemRow
            BY <2>2 DEF TypeOK
          <6>2. \A i \in Request, n \in Int :
                  [item[i] EXCEPT !.qty = n] \in ItemRow
            BY <6>1
          <6> QED BY <2>2, <5>1, <5>2, <6>1, <6>2 DEF TypeOK
        <5> QED BY <2>2, <2>8, <5>3 DEF DbWriteItem, TypeOK
      <4>2. CASE found[r].row = None
        <5>1. item' = [item EXCEPT ![r] = [cart |-> at[r], product |-> want[r].product,
                                           qty |-> want[r].qty]]
          BY <2>8, <4>2 DEF DbWriteItem
        <5>2. item' \in [Request -> ItemRow]
          BY <2>2, <5>1 DEF TypeOK
        <5> QED BY <2>2, <2>8, <5>2 DEF DbWriteItem, TypeOK
      <4> QED BY <4>1, <4>2
    <3>2. ASSUME NEW k \in Request PROVE Shape(k)'
      BY <2>2, <2>3, <2>8 DEF DbWriteItem, TypeOK, Shape
    <3> QED BY <3>1, <3>2 DEF ShapeInv
  <2>9. CASE DbReadLines(r)
    <3>1. LinesOf(at[r]) \subseteq Line /\ IsFiniteSet(LinesOf(at[r]))
      BY <2>2, <2>9, LinesType DEF DbReadLines, Shape
    <3>2. TypeOK'
      BY <2>2, <2>9, <3>1 DEF DbReadLines, TypeOK
    <3>3. ASSUME NEW k \in Request PROVE Shape(k)'
      BY <2>2, <2>9, <3>1 DEF DbReadLines, TypeOK, Shape
    <3> QED BY <3>2, <3>3 DEF ShapeInv
  <2>10. CASE DbCreateOrder(r)
    <3>1. PriceCart(lines[r]) \in Int
      BY <2>2, PriceType DEF TypeOK, Shape
    <3>2. TypeOK'
      BY <2>2, <2>10, <3>1 DEF DbCreateOrder, TypeOK, Status
    <3>3. ASSUME NEW k \in Request PROVE Shape(k)'
      BY <2>2, <2>10 DEF DbCreateOrder, TypeOK, Shape
    <3> QED BY <3>2, <3>3 DEF ShapeInv
  <2>11. CASE GatewayCharge(r)
    <3>1. TypeOK'
      BY <2>2, <2>11 DEF GatewayCharge, TypeOK
    <3>2. ASSUME NEW k \in Request PROVE Shape(k)'
      BY <2>2, <2>11 DEF GatewayCharge, TypeOK, Shape
    <3> QED BY <3>1, <3>2 DEF ShapeInv
  <2>12. CASE DbCreatePayment(r)
    <3>1. TypeOK'
      BY <2>2, <2>12 DEF DbCreatePayment, TypeOK
    <3>2. ASSUME NEW k \in Request PROVE Shape(k)'
      BY <2>2, <2>12 DEF DbCreatePayment, TypeOK, Shape
    <3> QED BY <3>1, <3>2 DEF ShapeInv
  <2>13. CASE DbUpdateOrder(r)
    <3>1. TypeOK'
      <4>1. PICK s \in {"paid", "failed"} : order' = [order EXCEPT ![r].status = s]
        BY <2>13 DEF DbUpdateOrder
      <4>2. order' \in [Request -> OrderRow]
        <5>1. \A o \in OrderRow :
                [o EXCEPT !.status = s] \in OrderRow
          BY DEF Status
        <5> QED BY <2>2, <4>1, <5>1 DEF TypeOK
      <4> QED BY <2>2, <2>13, <4>2 DEF DbUpdateOrder, TypeOK
    <3>2. ASSUME NEW k \in Request PROVE Shape(k)'
      BY <2>2, <2>13 DEF DbUpdateOrder, TypeOK, Shape
    <3> QED BY <3>1, <3>2 DEF ShapeInv
  <2>14. CASE DbDecrementStock(r)
    <3>1. PICK l \in lines[r] :
            /\ stock' = [stock EXCEPT ![l.product] = @ - l.qty]
            /\ lines' = [lines EXCEPT ![r] = lines[r] \ {l}]
            /\ pc' = [pc EXCEPT ![r] = IF lines[r] \ {l} = {} THEN "closing" ELSE @]
      BY <2>14 DEF DbDecrementStock
    <3>2. l \in Line /\ IsFiniteSet(lines[r] \ {l})
      BY <2>2, FS_RemoveElement DEF TypeOK, Shape
    <3>3. TypeOK'
      BY <2>2, <2>14, <3>1, <3>2 DEF DbDecrementStock, TypeOK, Line
    <3>4. ASSUME NEW k \in Request PROVE Shape(k)'
      BY <2>2, <2>14, <3>1, <3>2 DEF DbDecrementStock, TypeOK, Shape
    <3> QED BY <3>3, <3>4 DEF ShapeInv
  <2>15. CASE DbMarkCheckedOut(r)
    <3>1. at[r] \in Cart /\ cart' = [cart EXCEPT ![at[r]].status = "checked_out"]
      BY <2>2, <2>15 DEF DbMarkCheckedOut, Shape
    <3>2. cart' \in [Cart -> CartRow]
      <4>1. \A row \in CartRow :
              [row EXCEPT !.status = "checked_out"]
                \in CartRow
        OBVIOUS
      <4> QED BY <2>2, <3>1, <4>1 DEF TypeOK
    <3>3. TypeOK'
      BY <2>2, <2>15, <3>2 DEF DbMarkCheckedOut, TypeOK
    <3>4. \A d \in Cart : cart[d].status # None => cart'[d].status # None
      BY <2>2, <3>1 DEF TypeOK, None
    <3>5. ASSUME NEW k \in Request PROVE Shape(k)'
      BY <2>2, <2>15, <3>4 DEF DbMarkCheckedOut, TypeOK, Shape
    <3> QED BY <3>3, <3>5 DEF ShapeInv
  <2>16. CASE Fail(r)
    <3>1. TypeOK'
      BY <2>2, <2>16 DEF Fail, TypeOK, Answered, Shape
    <3>2. ASSUME NEW k \in Request PROVE Shape(k)'
      BY <2>2, <2>16 DEF Fail, TypeOK, Shape
    <3> QED BY <3>1, <3>2 DEF ShapeInv
  <2> QED BY <2>1, <2>4, <2>5, <2>6, <2>7, <2>8, <2>9, <2>10, <2>11, <2>12, <2>13,
             <2>14, <2>15, <2>16 DEF Serve
<1> QED BY <1>1, <1>2 DEF Next

\* Every variable of the shop keeps its type: the amounts stay whole numbers of cents,
\* and the rows of orders and carts are of the catalog.
THEOREM ShopTypes == Spec => []TypeOK
<1>1. Spec => []ShapeInv
  BY ShapeInit, ShapeStep, PTL DEF Spec
<1>2. ShapeInv => TypeOK
  BY DEF ShapeInv
<1> QED BY <1>1, <1>2, PTL
----------------------------------------------------------------------------
\* Who works on a cart

\* A step after which nobody has begun to work on a cart.
LEMMA HeldKept ==
  ASSUME HeldInv, UNCHANGED <<at, cart>>, mixed \subseteq mixed',
         \A k \in Request : pc'[k] \in Holding => pc[k] \in Holding
  PROVE  HeldInv'
  BY DEF HeldInv

\* A request takes the open cart c.
LEMMA TakeKeepsHeld ==
  ASSUME ShapeInv, HeldInv, NEW r \in Request, NEW c \in Cart, Take(r, c),
         cart'[c].status = "open",
         \A d \in Cart \ {c} : cart'[d] = cart[d],
         pc[r] \in {"finding", "viewing", "creating", "opening"}
  PROVE  HeldInv'
<1> USE DEF Holding
<1>1. TypeOK /\ \A k \in Request : Shape(k)
  BY DEF ShapeInv
<1>2. CASE pc[r] \in {"viewing", "opening"}
  <2>1. pc' = [pc EXCEPT ![r] = "done"] /\ UNCHANGED <<at, mixed>>
    BY <1>2 DEF Take
  <2>2. \A k \in Request : pc'[k] \in Holding => pc[k] \in Holding
    BY <1>1, <2>1 DEF TypeOK
  <2> QED BY <2>1, <2>2 DEF HeldInv
<1>3. CASE pc[r] \in {"finding", "creating"}
  <2> DEFINE held == \E o \in Request \ {r} : at[o] = c /\ pc[o] \in Holding
  <2>1. /\ pc' = [pc EXCEPT ![r] = IF Kind[r] = "add" THEN "looking" ELSE "reading"]
        /\ at' = [at EXCEPT ![r] = c]
        /\ mixed' = IF held THEN mixed \cup {c} ELSE mixed
    BY <1>3 DEF Take
  <2>2. \A k \in Request \ {r} : pc'[k] = pc[k] /\ at'[k] = at[k]
    BY <1>1, <2>1 DEF TypeOK
  <2>3. at'[r] = c
    BY <1>1, <2>1 DEF TypeOK
  <2>4. SUFFICES ASSUME NEW d \in Cart \ mixed', NEW k \in Request,
                        at'[k] = d, pc'[k] \in Holding
                 PROVE  /\ cart'[d].status = "open"
                        /\ \A o \in Request : at'[o] = d /\ pc'[o] \in Holding => o = k
    BY DEF HeldInv
  <2>5. CASE d = c
    <3>1. ~held
      BY <2>1, <2>4, <2>5
    <3> QED BY <2>2, <2>3, <2>4, <2>5, <3>1
  <2>6. CASE d # c
    <3>1. d \in Cart \ mixed /\ k # r /\ cart'[d] = cart[d]
      BY <2>1, <2>3, <2>4, <2>6
    <3>2. \A o \in Request : at'[o] = d => o # r
      BY <2>3, <2>6
    <3> QED BY <2>2, <2>4, <3>1, <3>2 DEF HeldInv
  <2> QED BY <2>5, <2>6
<1> QED BY <1>2, <1>3

LEMMA HeldStep == ShapeInv /\ HeldInv /\ [Next]_vars => HeldInv'
<1> SUFFICES ASSUME ShapeInv, HeldInv, [Next]_vars PROVE HeldInv'
  OBVIOUS
<1>1. CASE UNCHANGED vars
  BY <1>1 DEF HeldInv, vars
<1>2. CASE Next
  <2>1. PICK r \in Request : Begin(r) \/ Serve(r) \/ Fail(r)
    BY <1>2 DEF Next
  <2>2. TypeOK /\ \A k \in Request : Shape(k)
    BY DEF ShapeInv
  <2>3. CASE Begin(r) \/ DbFindItem(r) \/ DbWriteItem(r) \/ DbReadLines(r) \/ DbCreateOrder(r)
             \/ GatewayCharge(r) \/ DbCreatePayment(r) \/ DbUpdateOrder(r)
             \/ DbDecrementStock(r) \/ Fail(r)
    <3>1. UNCHANGED <<at, cart>> /\ mixed \subseteq mixed'
      BY <2>3 DEF Begin, DbFindItem, DbWriteItem, DbReadLines, DbCreateOrder, GatewayCharge,
                  DbCreatePayment, DbUpdateOrder, DbDecrementStock, Fail
    <3>2. \A k \in Request : pc'[k] \in Holding => pc[k] \in Holding
      <4>1. PICK s \in State : pc' = [pc EXCEPT ![r] = s]
                               /\ (s \in Holding => pc[r] \in Holding)
        BY <2>2, <2>3 DEF Begin, DbFindItem, DbWriteItem, DbReadLines, DbCreateOrder,
             GatewayCharge, DbCreatePayment, DbUpdateOrder, DbDecrementStock, Fail,
             Holding, State, TypeOK
      <4> QED BY <2>2, <4>1 DEF TypeOK
    <3> QED BY <3>1, <3>2, HeldKept
  <2>4. CASE DbFindCart(r)
    <3>1. pc[r] \in {"finding", "viewing"} /\ UNCHANGED cart
      BY <2>4 DEF DbFindCart
    <3>2. CASE UNCHANGED <<at, mixed>> /\ OpenCarts(By[r]) = {}
               /\ pc' = [pc EXCEPT ![r] = IF pc[r] = "finding" THEN "creating" ELSE "opening"]
      BY <2>2, <3>1, <3>2, HeldKept DEF TypeOK, Holding
    <3>3. ASSUME NEW c \in OpenCarts(By[r]), Take(r, c) PROVE HeldInv'
      BY <3>1, <3>3, TakeKeepsHeld DEF OpenCarts
    <3> QED BY <2>4, <3>2, <3>3 DEF DbFindCart
  <2>5. CASE DbCreateCart(r)
    <3>1. PICK c \in Cart : cart' = [cart EXCEPT ![c] = [user |-> By[r], status |-> "open"]]
                            /\ Take(r, c)
      BY <2>5 DEF DbCreateCart
    <3>2. cart'[c].status = "open" /\ \A d \in Cart \ {c} : cart'[d] = cart[d]
      BY <2>2, <3>1 DEF TypeOK
    <3> QED BY <2>5, <3>1, <3>2, TakeKeepsHeld DEF DbCreateCart, Opening
  <2>6. CASE DbMarkCheckedOut(r)
    <3>1. pc[r] = "closing" /\ at[r] \in Cart
      BY <2>2, <2>6 DEF DbMarkCheckedOut, Shape, Holding
    <3>2. /\ pc' = [pc EXCEPT ![r] = "done"] /\ UNCHANGED <<at, mixed>>
          /\ cart' = [cart EXCEPT ![at[r]].status = "checked_out"]
      BY <2>6 DEF DbMarkCheckedOut
    <3>3. SUFFICES ASSUME NEW d \in Cart \ mixed, NEW k \in Request,
                          at[k] = d, pc'[k] \in Holding
                   PROVE  /\ cart'[d].status = "open"
                          /\ \A o \in Request : at[o] = d /\ pc'[o] \in Holding => o = k
      BY <3>2 DEF HeldInv
    <3>4. k # r /\ pc[k] \in Holding /\ \A o \in Request : pc'[o] \in Holding => pc[o] \in Holding
      BY <2>2, <3>2, <3>3 DEF TypeOK, Holding
    <3>5. d # at[r]
      BY <3>1, <3>3, <3>4 DEF HeldInv, Holding
    <3>6. cart'[d] = cart[d]
      BY <2>2, <3>1, <3>2, <3>5 DEF TypeOK
    <3> QED BY <3>3, <3>4, <3>6 DEF HeldInv
  <2> QED BY <2>1, <2>3, <2>4, <2>5, <2>6 DEF Serve
<1> QED BY <1>1, <1>2 DEF Next
----------------------------------------------------------------------------
\* What addToCart found

\* A step that neither looks for a row nor writes one.
LEMMA FoundKept ==
  ASSUME FoundInv, UNCHANGED <<item, found, want, at>>, mixed \subseteq mixed',
         \A k \in Request : pc'[k] = "writing" => pc[k] = "writing",
         \A k \in Request : pc'[k] \in {"new", "finding", "creating", "looking"} =>
                              pc[k] \in {"new", "finding", "creating", "looking"}
  PROVE  FoundInv'
<1>1. ASSUME NEW k \in Request PROVE Found(k)'
  <2>1. Found(k)
    BY DEF FoundInv
  <2> QED BY <2>1 DEF Found, Rows
<1> QED BY <1>1 DEF FoundInv

\* Begin and the taking of a cart change only a request that has found nothing.
LEMMA FoundFresh ==
  ASSUME FoundInv, NEW r \in Request, UNCHANGED <<item, found>>, mixed \subseteq mixed',
         found[r] = NotFound, pc'[r] # "writing",
         \A k \in Request \ {r} : want'[k] = want[k] /\ at'[k] = at[k] /\ pc'[k] = pc[k]
  PROVE  FoundInv'
<1>1. ASSUME NEW k \in Request \ {r} PROVE Found(k)'
  BY <1>1 DEF FoundInv, Found, Rows
<1>2. Found(r)'
  BY DEF Found, NotFound
<1> QED BY <1>1, <1>2 DEF FoundInv

\* A row that addToCart writes keeps its cart and its product, and the rows of
\* another cart are left alone.
LEMMA RowsKept ==
  ASSUME ShapeInv, FoundInv, NEW r \in Request, DbWriteItem(r)
  PROVE  /\ at[r] \in Cart
         /\ \A i \in Request : item[i].cart # NoId =>
              item'[i].cart = item[i].cart /\ item'[i].product = item[i].product
         /\ \A i \in Request : item'[i] # item[i] => item'[i].cart = at[r]
         /\ \A i \in Request : item'[i] # item[i] => item[i].cart \in {NoId, at[r]}
         /\ \A i \in Request : item'[i] # item[i] => item'[i].product = want[r].product
<1>1. TypeOK /\ Shape(r) /\ Found(r) /\ pc[r] = "writing"
  BY DEF ShapeInv, FoundInv, DbWriteItem
<1>2. at[r] \in Cart /\ item[r].cart = NoId
  BY <1>1 DEF Shape, Holding, Added
<1>3. CASE found[r].row # None
  <2>1. /\ found[r].row \in Request /\ item[found[r].row].cart = at[r]
        /\ item[found[r].row].product = want[r].product
    BY <1>1, <1>3 DEF Found, Rows
  <2>2. item' = [item EXCEPT ![found[r].row].qty = found[r].qty + want[r].qty]
    BY <1>3 DEF DbWriteItem
  <2>3. \A i \in Request : item'[i].cart = item[i].cart /\ item'[i].product = item[i].product
    BY <1>1, <2>1, <2>2 DEF TypeOK
  <2>4. \A i \in Request : item'[i] # item[i] => i = found[r].row
    BY <1>1, <2>1, <2>2 DEF TypeOK
  <2> QED BY <1>2, <2>1, <2>3, <2>4
<1>4. CASE found[r].row = None
  <2>1. item' = [item EXCEPT ![r] = [cart |-> at[r], product |-> want[r].product,
                                     qty |-> want[r].qty]]
    BY <1>4 DEF DbWriteItem
  <2> QED BY <1>1, <1>2, <2>1 DEF TypeOK
<1> QED BY <1>3, <1>4

LEMMA FoundStep == ShapeInv /\ HeldInv /\ FoundInv /\ [Next]_vars => FoundInv'
<1> SUFFICES ASSUME ShapeInv, HeldInv, FoundInv, [Next]_vars PROVE FoundInv'
  OBVIOUS
<1>1. CASE UNCHANGED vars
  BY <1>1, FoundKept DEF vars
<1>2. CASE Next
  <2>1. PICK r \in Request : Begin(r) \/ Serve(r) \/ Fail(r)
    BY <1>2 DEF Next
  <2>2. TypeOK /\ \A k \in Request : Shape(k) /\ Found(k)
    BY DEF ShapeInv, FoundInv
  <2>3. CASE DbReadLines(r) \/ DbCreateOrder(r) \/ GatewayCharge(r) \/ DbCreatePayment(r)
             \/ DbUpdateOrder(r) \/ DbDecrementStock(r) \/ DbMarkCheckedOut(r) \/ Fail(r)
    <3>1. UNCHANGED <<item, found, want, at>> /\ mixed \subseteq mixed'
      BY <2>3 DEF DbReadLines, DbCreateOrder, GatewayCharge, DbCreatePayment, DbUpdateOrder,
                  DbDecrementStock, DbMarkCheckedOut, Fail
    <3>2. PICK s \in State \ {"new", "finding", "creating", "looking", "writing"} :
            pc' = [pc EXCEPT ![r] = s]  \/ pc' = pc
      BY <2>2, <2>3 DEF DbReadLines, DbCreateOrder, GatewayCharge, DbCreatePayment, DbUpdateOrder,
                  DbDecrementStock, DbMarkCheckedOut, Fail, TypeOK, State
    <3> QED BY <2>2, <3>1, <3>2, FoundKept DEF TypeOK
  <2>4. CASE Begin(r) \/ DbFindCart(r) \/ DbCreateCart(r)
    <3>1. UNCHANGED <<item, found>> /\ mixed \subseteq mixed'
      BY <2>4 DEF Begin, DbFindCart, DbCreateCart, Take
    <3>2. CASE pc[r] \in {"new", "finding", "creating"}
      <4>1. found[r] = NotFound
        BY <2>2, <3>2 DEF Found
      <4>2. /\ pc'[r] # "writing"
            /\ \A k \in Request \ {r} : want'[k] = want[k] /\ at'[k] = at[k] /\ pc'[k] = pc[k]
        BY <2>2, <2>4 DEF Begin, DbFindCart, DbCreateCart, Take, TypeOK
      <4> QED BY <3>1, <4>1, <4>2, FoundFresh
    <3>3. CASE pc[r] \in {"viewing", "opening"}
      <4>1. UNCHANGED <<want, at>>
        BY <2>4, <3>3 DEF Begin, DbFindCart, DbCreateCart, Take
      <4>2. pc' = [pc EXCEPT ![r] = "done"] \/ pc' = [pc EXCEPT ![r] = "opening"]
        BY <2>4, <3>3 DEF Begin, DbFindCart, DbCreateCart, Take
      <4> QED BY <2>2, <3>1, <4>1, <4>2, FoundKept DEF TypeOK
    <3> QED BY <2>4, <3>2, <3>3 DEF Begin, DbFindCart, DbCreateCart, Opening
  <2>5. CASE DbFindItem(r)
    <3>1. /\ pc[r] = "looking" /\ pc' = [pc EXCEPT ![r] = "writing"]
          /\ UNCHANGED <<item, want, at, mixed>> /\ found[r] = NotFound /\ at[r] \in Cart
      BY <2>2, <2>5 DEF DbFindItem, Found, Shape, Holding
    <3>2. \A k \in Request \ {r} : found'[k] = found[k] /\ pc'[k] = pc[k]
      BY <2>2, <2>5 DEF DbFindItem, TypeOK
    <3>3. ASSUME NEW k \in Request \ {r} PROVE Found(k)'
      <4>1. Found(k)
        BY <2>2
      <4> QED BY <3>1, <3>2, <4>1 DEF Found, Rows
    <3>4. Found(r)'
      <4>1. CASE found' = found /\ \A i \in Rows(at[r]) : item[i].product # want[r].product
        BY <2>2, <3>1, <4>1 DEF Found, Rows, NotFound, TypeOK
      <4>2. ASSUME NEW i \in Rows(at[r]), item[i].product = want[r].product,
                   found' = [found EXCEPT ![r] = [row |-> i, qty |-> item[i].qty]]
            PROVE  Found(r)'
        <5>1. found'[r] = [row |-> i, qty |-> item[i].qty] /\ pc'[r] = "writing"
          BY <2>2, <3>1, <4>2 DEF TypeOK
        <5>2. i \in Request /\ i # None
          BY RequestAssumption DEF Rows
        <5> QED BY <3>1, <4>2, <5>1, <5>2 DEF Found, Rows
      <4> QED BY <2>5, <4>1, <4>2 DEF DbFindItem
    <3> QED BY <3>3, <3>4 DEF FoundInv
  <2>6. CASE DbWriteItem(r)
    <3>1. /\ at[r] \in Cart
          /\ \A i \in Request : item[i].cart # NoId =>
               item'[i].cart = item[i].cart /\ item'[i].product = item[i].product
          /\ \A i \in Request : item'[i] # item[i] =>
               item'[i].cart = at[r] /\ item[i].cart \in {NoId, at[r]}
      BY <2>6, RowsKept
    <3>2. /\ pc[r] = "writing" /\ pc' = [pc EXCEPT ![r] = "viewing"]
          /\ UNCHANGED <<want, at, found, mixed>>
      BY <2>6 DEF DbWriteItem
    <3>3. ASSUME NEW k \in Request PROVE Found(k)'
      <4>1. Found(k)
        BY <2>2
      <4>2. pc'[k] = pc[k] \/ pc'[k] = "viewing"
        BY <2>2, <3>2 DEF TypeOK
      <4>3. found[k].row # None =>
              found[k].row \in Rows(at[k])' /\ item'[found[k].row].product = want[k].product
        BY <3>1, <3>2, <4>1, CartIds DEF Found, Rows
      <4>4. CASE pc'[k] = "writing" /\ at[k] \notin mixed
        <5>1. k # r /\ pc[k] = "writing"
          BY <2>2, <3>2, <4>4 DEF TypeOK
        <5>2. at[k] \in Cart /\ at[k] # at[r]
          BY <2>2, <3>1, <3>2, <4>4, <5>1 DEF HeldInv, Holding, Shape
        <5>3. Rows(at[k])' = Rows(at[k]) /\ \A i \in Rows(at[k]) : item'[i] = item[i]
          BY <3>1, <3>2, <5>2, CartIds DEF Rows
        <5> QED BY <3>2, <4>1, <4>3, <4>4, <5>1, <5>2, <5>3 DEF Found
      <4> QED BY <3>2, <4>1, <4>2, <4>3, <4>4 DEF Found
    <3> QED BY <3>3 DEF FoundInv
  <2> QED BY <2>1, <2>3, <2>4, <2>5, <2>6 DEF Serve
<1> QED BY <1>1, <1>2 DEF Next
----------------------------------------------------------------------------
\* The quantities of a cart

\* The rows of product p in cart c, and the additions of p to c that are through.
RowsOf(c, p) == {i \in Rows(c) : item[i].product = p}
Asked(c, p) == {r \in Request : Kind[r] = "add" /\ at[r] = c /\ want[r].product = p
                                /\ pc[r] \in Added}
Held == [i \in Request |-> item[i].qty]
Wish == [r \in Request |-> want[r].qty]

AddsUp(c, p) ==
  /\ Cardinality(RowsOf(c, p)) <= 1
  /\ Sum(Held, RowsOf(c, p)) = Sum(Wish, Asked(c, p))

LEMMA AddsUpEverywhere ==
  QuantitiesAddUp <=> \A c \in Cart \ mixed, p \in Product : AddsUp(c, p)
  BY DEF QuantitiesAddUp, AddsUp, RowsOf, Asked, Held, Wish, Added

\* A step that writes no row and completes no addition.
LEMMA AddsUpKept ==
  ASSUME ShapeInv, QuantitiesAddUp, UNCHANGED item, mixed \subseteq mixed',
         \A c \in Cart, p \in Product : Asked(c, p)' = Asked(c, p),
         \A k \in Request : Kind[k] = "add" /\ pc[k] \in Added => want'[k] = want[k]
  PROVE  QuantitiesAddUp'
<1>1. ASSUME NEW c \in Cart \ mixed', NEW p \in Product PROVE AddsUp(c, p)'
  <2>1. AddsUp(c, p)
    BY AddsUpEverywhere
  <2>2. RowsOf(c, p)' = RowsOf(c, p) /\ Held' = Held
    BY DEF RowsOf, Rows, Held
  <2>3. IsFiniteSet(Asked(c, p)) /\ Ints(Wish, Asked(c, p))
    BY RequestAssumption, FS_Subset DEF Asked, Ints, Wish, ShapeInv, TypeOK
  <2>4. \A k \in Asked(c, p) : Wish'[k] = Wish[k]
    BY DEF Asked, Wish
  <2>5. Sum(Wish', Asked(c, p)) = Sum(Wish, Asked(c, p))
    <3> HIDE DEF Wish
    <3> QED BY <2>3, <2>4, SumSame
  <2> QED BY <2>1, <2>2, <2>5 DEF AddsUp
<1>2. (\A c \in Cart \ mixed, p \in Product : AddsUp(c, p))'
  BY <1>1 DEF Cart
<1> QED BY <1>2, AddsUpEverywhere, PTL

\* The addition completes: its quantity is asked for, and is in the one row.
LEMMA AddsUpWritten ==
  ASSUME ShapeInv, FoundInv, QuantitiesAddUp, NEW r \in Request, DbWriteItem(r),
         NEW c \in Cart \ mixed, NEW p \in Product
  PROVE  AddsUp(c, p)'
<1>1. TypeOK /\ Shape(r) /\ Found(r) /\ pc[r] = "writing" /\ AddsUp(c, p)
  BY AddsUpEverywhere DEF ShapeInv, FoundInv, DbWriteItem
<1>2. /\ at[r] \in Cart
      /\ \A i \in Request : item[i].cart # NoId =>
           item'[i].cart = item[i].cart /\ item'[i].product = item[i].product
      /\ \A i \in Request : item'[i] # item[i] =>
           /\ item'[i].cart = at[r] /\ item[i].cart \in {NoId, at[r]}
           /\ item'[i].product = want[r].product
  BY RowsKept
<1>3. UNCHANGED <<want, at, mixed>> /\ pc' = [pc EXCEPT ![r] = "viewing"] /\ Wish' = Wish
  BY DEF DbWriteItem, Wish
<1>4. Kind[r] = "add" /\ item[r].cart = NoId /\ r \notin Asked(c, p)
  BY <1>1, RequestAssumption DEF Shape, Asked, Added
<1>5. /\ IsFiniteSet(RowsOf(c, p)) /\ IsFiniteSet(Asked(c, p))
      /\ \A S \in SUBSET Request : Ints(Held, S) /\ Ints(Held', S) /\ Ints(Wish, S)
  <2>1. TypeOK'
    BY ShapeStep DEF ShapeInv, Next, Serve
  <2> QED BY <1>1, <2>1, RequestAssumption, FS_Subset DEF RowsOf, Rows, Asked, Ints, Held, Wish, TypeOK
<1>6. CASE at[r] # c \/ want[r].product # p
  <2>1. RowsOf(c, p)' = RowsOf(c, p) /\ \A i \in RowsOf(c, p) : item'[i] = item[i]
    BY <1>2, <1>6, CartIds DEF RowsOf, Rows
  <2>2. Asked(c, p)' = Asked(c, p)
    BY <1>1, <1>3, <1>4, <1>6 DEF Asked, TypeOK, Added
  <2>3. \A i \in RowsOf(c, p) : Held'[i] = Held[i]
    BY <2>1 DEF Held, RowsOf, Rows
  <2>4. RowsOf(c, p) \subseteq Request
    BY DEF RowsOf, Rows
  <2>5. Sum(Held', RowsOf(c, p)) = Sum(Held, RowsOf(c, p))
    <3> HIDE DEF Held
    <3> QED BY <1>5, <2>3, <2>4, SumSame
  <2> QED BY <1>1, <1>3, <2>1, <2>2, <2>5 DEF AddsUp
<1>7. CASE at[r] = c /\ want[r].product = p
  <2>1. Asked(c, p)' = Asked(c, p) \cup {r}
    BY <1>1, <1>3, <1>4, <1>7 DEF Asked, TypeOK, Added
  <2>2. Sum(Wish, Asked(c, p) \cup {r}) = want[r].qty + Sum(Wish, Asked(c, p))
    <3>1. Asked(c, p) \cup {r} \subseteq Request /\ Wish[r] = want[r].qty
      BY DEF Asked, Wish
    <3> HIDE DEF Wish
    <3> QED BY <1>4, <1>5, <3>1, SumAdd
  <2>3. want[r].qty \in Int /\ Sum(Held, RowsOf(c, p)) \in Int
    <3>1. RowsOf(c, p) \subseteq Request
      BY DEF RowsOf, Rows
    <3> HIDE DEF Held
    <3> QED BY <1>1, <1>5, <3>1, SumStep DEF TypeOK
  <2>4. CASE found[r].row # None
    <3> DEFINE i == found[r].row
    <3>1. i \in RowsOf(c, p) /\ i \in Request /\ found[r].qty = item[i].qty
      BY <1>1, <1>7, <2>4 DEF Found, RowsOf, Rows
    <3>2. item' = [item EXCEPT ![i].qty = found[r].qty + want[r].qty]
      BY <2>4 DEF DbWriteItem
    <3> HIDE DEF i
    <3>3. RowsOf(c, p)' = RowsOf(c, p)
      BY <1>1, <3>1, <3>2 DEF RowsOf, Rows, TypeOK
    <3>4. /\ Held[i] = item[i].qty /\ Held'[i] = item[i].qty + want[r].qty
          /\ \A k \in RowsOf(c, p) : k # i => Held'[k] = Held[k]
      BY <1>1, <3>1, <3>2 DEF Held, RowsOf, Rows, TypeOK
    <3>5. Sum(Held', RowsOf(c, p)) = Sum(Held, RowsOf(c, p)) - Held[i] + Held'[i]
      <4>1. RowsOf(c, p) \subseteq Request
        BY DEF RowsOf, Rows
      <4> HIDE DEF Held
      <4> QED BY <1>5, <3>1, <3>4, <4>1, SumChange
    <3>6. item[i].qty \in Int
      BY <1>1, <3>1 DEF TypeOK
    <3>7. Sum(Held', RowsOf(c, p)) = Sum(Held, RowsOf(c, p)) + want[r].qty
      BY <2>3, <3>4, <3>5, <3>6
    <3> QED BY <1>1, <1>3, <2>1, <2>2, <2>3, <3>3, <3>7 DEF AddsUp
  <2>5. CASE found[r].row = None
    <3>1. RowsOf(c, p) = {}
      BY <1>1, <1>7, <2>5 DEF Found, RowsOf
    <3>2. item' = [item EXCEPT ![r] = [cart |-> at[r], product |-> want[r].product,
                                       qty |-> want[r].qty]]
      BY <2>5 DEF DbWriteItem
    <3>3. RowsOf(c, p)' = {r}
      BY <1>1, <1>7, <3>1, <3>2 DEF RowsOf, Rows, TypeOK
    <3>4. Held'[r] = want[r].qty
      BY <1>1, <3>2 DEF Held, TypeOK
    <3>5. Sum(Held', {r}) = Held'[r] + Sum(Held', {})
      <4>1. IsFiniteSet({r}) /\ {r} \ {r} = {} /\ {r} \subseteq Request
        BY FS_Singleton
      <4> HIDE DEF Held
      <4> QED BY <1>5, <4>1, SumStep
    <3>6. Cardinality({r}) = 1
      BY FS_Singleton
    <3>7. Sum(Held, {}) = 0 /\ Sum(Held', {}) = 0
      BY SumEmpty
    <3> QED BY <1>1, <1>3, <2>1, <2>2, <2>3, <3>1, <3>3, <3>4, <3>5, <3>6, <3>7 DEF AddsUp
  <2> QED BY <2>4, <2>5
<1> QED BY <1>6, <1>7

LEMMA QuantitiesStep ==
  ShapeInv /\ FoundInv /\ QuantitiesAddUp /\ [Next]_vars => QuantitiesAddUp'
<1> SUFFICES ASSUME ShapeInv, FoundInv, QuantitiesAddUp, [Next]_vars PROVE QuantitiesAddUp'
  OBVIOUS
<1>1. CASE UNCHANGED vars
  BY <1>1, AddsUpKept DEF vars, Asked
<1>2. CASE Next
  <2>1. PICK r \in Request : Begin(r) \/ Serve(r) \/ Fail(r)
    BY <1>2 DEF Next
  <2>2. TypeOK /\ Shape(r)
    BY DEF ShapeInv
  <2>3. CASE DbWriteItem(r)
    <3>1. mixed' = mixed
      BY <2>3 DEF DbWriteItem
    <3>2. (\A c \in Cart \ mixed, p \in Product : AddsUp(c, p))'
      BY <2>3, <3>1, AddsUpWritten DEF Cart
    <3> QED BY <3>2, AddsUpEverywhere, PTL
  <2>4. CASE ~DbWriteItem(r)
    <3>1. UNCHANGED item /\ mixed \subseteq mixed'
      BY <2>1, <2>4 DEF Begin, Serve, DbFindCart, DbCreateCart, Take, DbFindItem, DbReadLines,
           DbCreateOrder, GatewayCharge, DbCreatePayment, DbUpdateOrder, DbDecrementStock,
           DbMarkCheckedOut, Fail
    <3>2. \A k \in Request \ {r} : want'[k] = want[k] /\ at'[k] = at[k] /\ pc'[k] = pc[k]
      BY <2>1, <2>2, <2>4 DEF Begin, Serve, DbFindCart, DbCreateCart, Take, DbFindItem,
           DbReadLines, DbCreateOrder, GatewayCharge, DbCreatePayment, DbUpdateOrder,
           DbDecrementStock, DbMarkCheckedOut, Fail, TypeOK
    <3>3. Kind[r] = "add" =>
            \/ pc[r] \in Added /\ pc'[r] \in Added /\ want'[r] = want[r] /\ at'[r] = at[r]
            \/ pc[r] \notin Added /\ pc'[r] \notin Added
      <4> USE <2>2 DEF Shape, TypeOK, Added
      <4>1. CASE Begin(r)
        BY <4>1 DEF Begin
      <4>2. CASE DbFindCart(r) \/ DbCreateCart(r)
        BY <4>2 DEF DbFindCart, DbCreateCart, Take, Opening
      <4>3. CASE DbFindItem(r)
        BY <4>3 DEF DbFindItem
      <4>4. CASE Fail(r)
        BY <4>4 DEF Fail
      <4>5. CASE DbReadLines(r) \/ DbCreateOrder(r) \/ GatewayCharge(r) \/ DbCreatePayment(r)
                 \/ DbUpdateOrder(r) \/ DbDecrementStock(r) \/ DbMarkCheckedOut(r)
        BY <4>5 DEF DbReadLines, DbCreateOrder, GatewayCharge, DbCreatePayment, DbUpdateOrder,
             DbDecrementStock, DbMarkCheckedOut
      <4> QED BY <2>1, <2>4, <4>1, <4>2, <4>3, <4>4, <4>5 DEF Serve
    <3>4. \A c \in Cart, p \in Product : Asked(c, p)' = Asked(c, p)
      BY <3>2, <3>3 DEF Asked
    <3>5. \A k \in Request : Kind[k] = "add" /\ pc[k] \in Added => want'[k] = want[k]
      BY <3>2, <3>3
    <3> QED BY <3>1, <3>4, <3>5, AddsUpKept
  <2> QED BY <2>3, <2>4
<1> QED BY <1>1, <1>2 DEF Next

LEMMA HistoryInit == Init => HeldInv /\ FoundInv /\ QuantitiesAddUp
<1> SUFFICES ASSUME Init PROVE HeldInv /\ FoundInv /\ QuantitiesAddUp
  OBVIOUS
<1>1. HeldInv /\ FoundInv
  BY CartIds DEF Init, HeldInv, FoundInv, Found, Holding, NotFound
<1>2. ASSUME NEW c \in Cart, NEW p \in Product PROVE AddsUp(c, p)
  <2>1. RowsOf(c, p) = {} /\ Asked(c, p) = {}
    BY CartIds DEF Init, RowsOf, Rows, Asked, NoItem, Added
  <2> QED BY <2>1, SumEmpty, FS_EmptySet DEF AddsUp
<1> QED BY <1>1, <1>2, AddsUpEverywhere

\* The invariant of the carts, inductive as a whole.
CartInv == ShapeInv /\ HeldInv /\ FoundInv /\ QuantitiesAddUp

LEMMA CartsInvariant == Spec => []CartInv
<1>1. Init => CartInv
  BY ShapeInit, HistoryInit DEF CartInv
<1>2. CartInv /\ [Next]_vars => CartInv'
  BY ShapeStep, HeldStep, FoundStep, QuantitiesStep DEF CartInv
<1> QED BY <1>1, <1>2, PTL DEF Spec

\* addToCart loses no quantity: the rows of a cart that no two requests used at once
\* hold, in one row for each product, what was asked for.
THEOREM CartsAddUp == Spec => []QuantitiesAddUp
<1>1. CartInv => QuantitiesAddUp
  BY DEF CartInv
<1> QED BY <1>1, CartsInvariant, PTL
----------------------------------------------------------------------------
\* Orders, and the sale of a cart

\* What a step of another request leaves of a checkout.
LEMMA SaleKept ==
  ASSUME ShapeInv, NEW k \in Request, Sale(k), mixed \subseteq mixed',
         order'[k] = order[k], payment'[k] = payment[k], charged'[k] = charged[k],
         pc'[k] = pc[k], at'[k] = at[k], lines'[k] = lines[k],
         \A c \in Cart : cart[c].status = "checked_out" => cart'[c].status = "checked_out"
  PROVE  Sale(k)'
  BY DEF Sale, Approves

LEMMA SaleStep ==
  ASSUME ShapeInv, \A k \in Request : Sale(k), NEW r \in Request,
         Begin(r) \/ Serve(r) \/ Fail(r), NEW k \in Request
  PROVE  Sale(k)'
<1>1. TypeOK /\ Shape(r) /\ Sale(r) /\ Sale(k)
  BY DEF ShapeInv
<1>2. \A c \in Cart : cart[c].status = "checked_out" => cart'[c].status = "checked_out"
  <2>1. CASE DbMarkCheckedOut(r)
    BY <1>1, <2>1 DEF DbMarkCheckedOut, TypeOK
  <2>2. CASE DbCreateCart(r)
    <3>1. PICK d \in Cart : cart[d] = NoCart /\ cart' = [cart EXCEPT ![d] =
                             [user |-> By[r], status |-> "open"]]
      BY <2>2 DEF DbCreateCart
    <3> QED BY <1>1, <3>1 DEF TypeOK, NoCart, None
  <2>3. CASE ~DbMarkCheckedOut(r) /\ ~DbCreateCart(r)
    BY <2>3 DEF Begin, Serve, DbFindCart, DbFindItem, DbWriteItem, DbReadLines, DbCreateOrder,
         GatewayCharge, DbCreatePayment, DbUpdateOrder, DbDecrementStock, Fail
  <2> QED BY <2>1, <2>2, <2>3
<1>3. mixed \subseteq mixed'
  BY DEF Begin, Serve, DbFindCart, DbCreateCart, Take, DbFindItem, DbWriteItem, DbReadLines,
       DbCreateOrder, GatewayCharge, DbCreatePayment, DbUpdateOrder, DbDecrementStock,
       DbMarkCheckedOut, Fail
<1>4. CASE k # r
  <2>1. /\ order'[k] = order[k] /\ payment'[k] = payment[k] /\ charged'[k] = charged[k]
        /\ pc'[k] = pc[k] /\ at'[k] = at[k] /\ lines'[k] = lines[k]
    BY <1>1, <1>4 DEF Begin, Serve, DbFindCart, DbCreateCart, Take, DbFindItem, DbWriteItem,
         DbReadLines, DbCreateOrder, GatewayCharge, DbCreatePayment, DbUpdateOrder,
         DbDecrementStock, DbMarkCheckedOut, Fail, TypeOK
  <2> QED BY <1>1, <1>2, <1>3, <2>1, SaleKept
<1>5. CASE k = r
  <2> USE <1>1, <1>5 DEF Sale, TypeOK, Ordered, Selling
  <2>1. CASE Begin(r)
    BY <2>1, CartIds DEF Begin, Shape, None
  <2>2. CASE DbFindCart(r) \/ DbCreateCart(r)
    <3>1. pc[r] \in {"finding", "viewing", "creating", "opening"} /\ order[r].status = None
      BY <2>2 DEF DbFindCart, DbCreateCart, Opening
    <3>2. pc'[r] \in {"creating", "opening", "looking", "reading", "done"}
      BY <2>2 DEF DbFindCart, DbCreateCart, Take
    <3>3. charged[r] = 0
      <4>1. CASE pc[r] \in {"finding", "creating"}
        BY <4>1, CartIds DEF Shape
      <4>2. CASE pc[r] \in {"viewing", "opening"}
        BY <4>2 DEF Shape
      <4> QED BY <3>1, <4>1, <4>2
    <3>4. UNCHANGED <<order, payment, charged, lines>>
      BY <2>2 DEF DbFindCart, DbCreateCart
    <3> QED BY <3>1, <3>2, <3>3, <3>4 DEF None
  <2>3. CASE DbFindItem(r) \/ DbWriteItem(r)
    BY <2>3, <1>3 DEF DbFindItem, DbWriteItem, Answered, None
  <2>4. CASE DbReadLines(r)
    BY <2>4, <1>3 DEF DbReadLines, Answered, None
  <2>5. CASE DbCreateOrder(r)
    BY <2>5, <1>3 DEF DbCreateOrder, Answered, None, Shape, Holding
  <2>6. CASE GatewayCharge(r)
    <3>1. /\ pc[r] = "charging" /\ pc'[r] = "recording"
          /\ UNCHANGED <<order, payment, at, lines, cart, mixed>>
          /\ charged'[r] = IF Approves(order[r].total) THEN order[r].total ELSE 0
      BY <2>6 DEF GatewayCharge
    <3>2. Kind[r] = "checkout" /\ at[r] \in Cart
      <4>1. at[r] \in Cart
        BY <3>1 DEF Shape, Holding
      <4>2. Kind[r] \notin {"add", "view"}
        BY <3>1 DEF Shape, Added
      <4> QED BY <4>1, <4>2, RequestAssumption
    <3>3. order[r].status = "pending" /\ order[r].lines = lines[r] /\ order[r].cart = at[r]
      BY <3>1 DEF None
    <3>4. charged'[r] # 0 => Approves(order[r].total)
      BY <3>1
    <3> QED BY <3>1, <3>2, <3>3, <3>4 DEF Answered, None, Approves
  <2>7. CASE DbCreatePayment(r)
    BY <2>7, <1>3 DEF DbCreatePayment, Answered, None, Approves
  <2>8. CASE DbUpdateOrder(r)
    BY <2>8, <1>3 DEF DbUpdateOrder, Answered, None, Approves
  <2>9. CASE DbDecrementStock(r)
    BY <2>9, <1>3 DEF DbDecrementStock, Answered, None
  <2>10. CASE DbMarkCheckedOut(r)
    BY <2>10, <1>3 DEF DbMarkCheckedOut, Answered, None, Shape, Holding
  <2>11. CASE Fail(r)
    BY <2>11, <1>3 DEF Fail, Answered, None, Shape, Holding
  <2> QED BY <2>1, <2>2, <2>3, <2>4, <2>5, <2>6, <2>7, <2>8, <2>9, <2>10, <2>11 DEF Serve
<1> QED BY <1>4, <1>5

\* A step that leaves the rows of cart c, its status and its paid orders alone.
LEMMA CartSaleKept ==
  ASSUME NEW c \in Cart, CartSale(c), LinesOf(c)' = LinesOf(c),
         cart'[c].status = "checked_out" <=> cart[c].status = "checked_out",
         \A k \in Request : at'[k] = c /\ pc'[k] \in Ordered \cup {"ordering"} =>
           at[k] = c /\ pc[k] \in Ordered \cup {"ordering"} /\ lines'[k] = lines[k],
         \A k \in Request : k \in Paid' /\ order'[k].cart = c <=>
                             k \in Paid /\ order[k].cart = c,
         \A k \in Paid : order[k].cart = c =>
           /\ order'[k].lines = order[k].lines
           /\ pc[k] \in Selling => pc'[k] \in Selling
           /\ pc[k] = "done" => pc'[k] = "done"
  PROVE  CartSale(c)'
<1>1. ASSUME NEW k \in Request, at'[k] = c, pc'[k] \in Ordered \cup {"ordering"}
      PROVE  lines'[k] = LinesOf(c)'
  BY <1>1 DEF CartSale
<1>2. ASSUME NEW k \in Paid', order'[k].cart = c
      PROVE  /\ order'[k].lines = LinesOf(c)'
             /\ pc'[k] \in Selling \/ (pc'[k] = "done" /\ cart'[c].status = "checked_out")
             /\ \A o \in Paid' : order'[o].cart = c => o = k
  BY <1>2 DEF CartSale, Paid
<1>3. ASSUME cart'[c].status = "checked_out" PROVE \E k \in Paid' : order'[k].cart = c
  BY <1>3 DEF CartSale, Paid
<1> QED BY <1>1, <1>2, <1>3 DEF CartSale

LEMMA CartSaleStep ==
  ASSUME ShapeInv, HeldInv, FoundInv, SaleInv, NEW r \in Request,
         Begin(r) \/ Serve(r) \/ Fail(r), NEW c \in Cart \ mixed'
  PROVE  CartSale(c)'
<1>1. TypeOK /\ \A k \in Request : Shape(k) /\ Sale(k)
  BY DEF ShapeInv, SaleInv
<1>2. c \in Cart \ mixed
  BY DEF Begin, Serve, DbFindCart, DbCreateCart, Take, DbFindItem, DbWriteItem, DbReadLines,
       DbCreateOrder, GatewayCharge, DbCreatePayment, DbUpdateOrder, DbDecrementStock,
       DbMarkCheckedOut, Fail
<1>3. CartSale(c)
  BY <1>2 DEF SaleInv
<1>4. ASSUME UNCHANGED item PROVE LinesOf(c)' = LinesOf(c)
  BY <1>4 DEF LinesOf, Rows
<1>5. CASE Begin(r) \/ DbFindItem(r) \/ GatewayCharge(r) \/ DbCreatePayment(r) \/ DbDecrementStock(r)
  <2>1. UNCHANGED <<item, cart, order, at>>
    BY <1>5 DEF Begin, DbFindItem, GatewayCharge, DbCreatePayment, DbDecrementStock
  <2>2. /\ \A k \in Request \ {r} : pc'[k] = pc[k] /\ lines'[k] = lines[k]
        /\ \/ pc[r] \in Ordered /\ pc'[r] \in Ordered /\ lines'[r] = lines[r]
           \/ pc[r] \in Selling /\ pc'[r] \in Selling
           \/ pc[r] \in {"new", "looking"} /\ pc'[r] \in {"viewing", "finding", "writing"}
    BY <1>1, <1>5 DEF Begin, DbFindItem, GatewayCharge, DbCreatePayment, DbDecrementStock,
         TypeOK, Ordered, Selling
  <2> QED BY <1>3, <1>4, <2>1, <2>2, CartSaleKept DEF Ordered, Selling, Paid
<1>6. CASE DbFindCart(r) \/ DbCreateCart(r)
  <2>1. UNCHANGED <<item, order, lines>>
    BY <1>6 DEF DbFindCart, DbCreateCart
  <2>2. /\ pc[r] \in {"finding", "viewing", "creating", "opening"}
        /\ pc'[r] \in {"creating", "opening", "looking", "reading", "done"}
        /\ \A k \in Request \ {r} : pc'[k] = pc[k] /\ at'[k] = at[k]
    BY <1>1, <1>6 DEF DbFindCart, DbCreateCart, Take, Opening, TypeOK
  <2>3. cart'[c].status = "checked_out" <=> cart[c].status = "checked_out"
    <3>1. CASE UNCHANGED cart
      BY <3>1
    <3>2. CASE DbCreateCart(r)
      <4>1. PICK d \in Cart : cart[d] = NoCart /\ cart' = [cart EXCEPT ![d] =
                               [user |-> By[r], status |-> "open"]]
        BY <3>2 DEF DbCreateCart
      <4> QED BY <1>1, <4>1 DEF TypeOK, NoCart, None
    <3> QED BY <1>6, <3>1, <3>2 DEF DbFindCart
  <2>4. r \notin Paid
    BY <1>1, <2>2 DEF Paid, Sale, Ordered, Selling, None
  <2> QED BY <1>3, <1>4, <2>1, <2>2, <2>3, <2>4, CartSaleKept DEF Ordered, Selling, Paid
<1>7. CASE DbWriteItem(r)
  <2>1. /\ at[r] \in Cart /\ pc[r] = "writing"
        /\ \A i \in Request : item'[i] # item[i] =>
             item'[i].cart = at[r] /\ item[i].cart \in {NoId, at[r]}
    BY <1>7, RowsKept DEF DbWriteItem
  <2>2. UNCHANGED <<cart, order, lines, at>> /\ pc' = [pc EXCEPT ![r] = "viewing"]
    BY <1>7 DEF DbWriteItem
  <2>3. \A k \in Request : pc'[k] = pc[k] \/ (k = r /\ pc'[k] = "viewing")
    BY <1>1, <2>2 DEF TypeOK
  <2>4. CASE at[r] # c
    <3>1. Rows(c)' = Rows(c) /\ \A i \in Rows(c) : item'[i] = item[i]
      BY <2>1, <2>4, CartIds DEF Rows
    <3>2. LinesOf(c)' = LinesOf(c)
      BY <3>1 DEF LinesOf
    <3>3. r \notin Paid
      BY <1>1, <2>1 DEF Paid, Sale, Ordered, Selling, None
    <3> QED BY <1>3, <2>2, <2>3, <3>2, <3>3, CartSaleKept DEF Ordered, Selling, Paid
  <2>5. CASE at[r] = c
    <3>1. /\ cart[c].status = "open"
          /\ \A k \in Request : at[k] = c /\ pc[k] \in Holding => k = r
      BY <1>2, <2>1, <2>5 DEF HeldInv, Holding
    <3>2. \A k \in Request : at[k] = c => pc[k] \notin Ordered \cup {"ordering"}
      BY <2>1, <3>1 DEF Holding, Ordered
    <3>3. \A k \in Paid : order[k].cart # c
      <4>1. SUFFICES ASSUME NEW k \in Paid, order[k].cart = c PROVE FALSE
        OBVIOUS
      <4>2. pc[k] \in Selling /\ at[k] = c
        BY <1>1, <1>3, <3>1, <4>1 DEF CartSale, Sale, Paid, None
      <4> QED BY <2>1, <3>1, <4>2 DEF Holding, Selling, Paid
    <3> QED BY <2>2, <2>3, <3>1, <3>2, <3>3 DEF CartSale, Paid, Ordered
  <2> QED BY <2>4, <2>5
<1>8. CASE DbReadLines(r)
  <2>1. /\ UNCHANGED <<item, cart, order, at>> /\ pc[r] = "reading"
        /\ lines' = [lines EXCEPT ![r] = LinesOf(at[r])]
        /\ pc' = [pc EXCEPT ![r] = IF LinesOf(at[r]) = {} THEN "refused" ELSE "ordering"]
    BY <1>8 DEF DbReadLines
  <2>2. /\ lines'[r] = LinesOf(at[r]) /\ pc'[r] \in {"refused", "ordering"}
        /\ \A k \in Request \ {r} : lines'[k] = lines[k] /\ pc'[k] = pc[k]
    BY <1>1, <2>1 DEF TypeOK
  <2>3. r \notin Paid
    BY <1>1, <2>1 DEF Paid, Sale, Ordered, Selling, None
  <2> QED BY <1>3, <1>4, <2>1, <2>2, <2>3 DEF CartSale, Paid
<1>9. CASE DbCreateOrder(r)
  <2>1. /\ UNCHANGED <<item, cart, at, lines>> /\ pc[r] = "ordering"
        /\ pc'[r] = "charging" /\ order'[r].status = "pending"
        /\ \A k \in Request \ {r} : pc'[k] = pc[k] /\ order'[k] = order[k]
    BY <1>1, <1>9 DEF DbCreateOrder, TypeOK
  <2>2. r \notin Paid
    BY <1>1, <2>1 DEF Paid, Sale, Ordered, Selling, None
  <2>3. r \notin Paid'
    BY <2>1 DEF Paid
  <2> QED BY <1>3, <1>4, <2>1, <2>2, <2>3, CartSaleKept DEF Ordered, Selling, Paid
<1>10. CASE DbUpdateOrder(r)
  <2>1. /\ UNCHANGED <<item, cart, at, lines>> /\ pc[r] = "updating"
        /\ order'[r].cart = order[r].cart /\ order'[r].lines = order[r].lines
        /\ \/ pc'[r] = "selling" /\ order'[r].status = "paid"
           \/ pc'[r] = "done" /\ order'[r].status = "failed"
        /\ \A k \in Request \ {r} : pc'[k] = pc[k] /\ order'[k] = order[k]
    BY <1>1, <1>10 DEF DbUpdateOrder, TypeOK
  <2>2. order[r].status = "pending" /\ order[r].lines = lines[r] /\ order[r].cart = at[r]
    BY <1>1, <2>1 DEF Sale, Ordered, None
  <2>3. CASE at[r] # c \/ pc'[r] = "done"
    <3>1. \A k \in Request : k \in Paid' /\ order'[k].cart = c <=> k \in Paid /\ order[k].cart = c
      BY <2>1, <2>2, <2>3 DEF Paid
    <3>2. \A k \in Paid : k # r
      BY <2>2 DEF Paid
    <3> QED BY <1>3, <1>4, <2>1, <3>1, <3>2, CartSaleKept DEF Ordered, Selling, Paid
  <2>4. CASE at[r] = c /\ pc'[r] = "selling"
    <3>1. /\ cart[c].status = "open"
          /\ \A k \in Request : at[k] = c /\ pc[k] \in Holding => k = r
      BY <1>2, <2>1, <2>4 DEF HeldInv, Holding
    <3>2. \A k \in Paid : order[k].cart # c
      <4>1. SUFFICES ASSUME NEW k \in Paid, order[k].cart = c PROVE FALSE
        OBVIOUS
      <4>2. pc[k] \in Selling /\ at[k] = c
        BY <1>1, <1>3, <3>1, <4>1 DEF CartSale, Sale, Paid, None
      <4> QED BY <2>1, <3>1, <4>2 DEF Holding, Selling, Paid
    <3>3. lines[r] = LinesOf(c)
      BY <1>3, <2>1, <2>4 DEF CartSale, Ordered
    <3>4. \A k \in Paid' : order'[k].cart = c => k = r
      BY <2>1, <3>2 DEF Paid
    <3>5. \A k \in Request : pc'[k] \notin Ordered \cup {"ordering"} \/ at[k] # c
      BY <2>1, <2>4, <3>1 DEF Ordered, Holding
    <3> QED BY <1>4, <2>1, <2>2, <2>4, <3>1, <3>3, <3>4, <3>5 DEF CartSale, Selling, Paid
  <2> QED BY <2>1, <2>3, <2>4
<1>11. CASE DbMarkCheckedOut(r)
  <2>1. /\ UNCHANGED <<item, order, at, lines>> /\ pc[r] = "closing" /\ pc'[r] = "done"
        /\ \A k \in Request \ {r} : pc'[k] = pc[k]
        /\ cart' = [cart EXCEPT ![at[r]].status = "checked_out"]
    BY <1>1, <1>11 DEF DbMarkCheckedOut, TypeOK
  <2>2. r \in Paid /\ order[r].cart = at[r] /\ at[r] \in Cart
    BY <1>1, <2>1 DEF Sale, Selling, Paid, None
  <2>3. CASE at[r] # c
    <3>1. cart'[c] = cart[c]
      BY <1>1, <2>1, <2>3 DEF TypeOK
    <3>2. \A k \in Paid : order[k].cart = c => k # r
      BY <2>2, <2>3
    <3> QED BY <1>3, <1>4, <2>1, <2>3, <3>1, <3>2, CartSaleKept DEF Ordered, Selling, Paid
  <2>4. CASE at[r] = c
    <3>1. cart'[c].status = "checked_out"
      BY <1>1, <2>1, <2>2, <2>4 DEF TypeOK
    <3>2. \A k \in Paid : order[k].cart = c => k = r
      BY <1>3, <2>2, <2>4 DEF CartSale
    <3>3. order[r].lines = LinesOf(c)
      BY <1>3, <2>2, <2>4 DEF CartSale
    <3> QED BY <1>3, <1>4, <2>1, <2>2, <2>4, <3>1, <3>2, <3>3 DEF CartSale, Ordered, Paid
  <2> QED BY <2>3, <2>4
<1>12. CASE Fail(r)
  <2>1. /\ UNCHANGED <<item, cart, order, at, lines>> /\ pc[r] \notin {"new", "done"}
        /\ pc'[r] \in {"done", "failed"} /\ (pc[r] \in Answered => at[r] \in mixed')
        /\ \A k \in Request \ {r} : pc'[k] = pc[k]
    BY <1>1, <1>12 DEF Fail, TypeOK
  <2>2. \A k \in Paid : order[k].cart = c => k # r
    <3>1. SUFFICES ASSUME r \in Paid, order[r].cart = c PROVE FALSE
      OBVIOUS
    <3>2. pc[r] \in Selling /\ at[r] = c
      BY <1>1, <1>3, <2>1, <3>1 DEF CartSale, Sale, Paid, None
    <3> QED BY <2>1, <3>2 DEF Selling, Answered
  <2> QED BY <1>3, <1>4, <2>1, <2>2, CartSaleKept DEF Ordered, Selling, Paid
<1> QED BY <1>5, <1>6, <1>7, <1>8, <1>9, <1>10, <1>11, <1>12 DEF Serve

LEMMA SaleInvariant == Spec => [](CartInv /\ SaleInv)
<1>1. Init => SaleInv
  <2> SUFFICES ASSUME Init PROVE SaleInv
    OBVIOUS
  <2>1. ASSUME NEW r \in Request PROVE Sale(r)
    BY DEF Init, Sale, NoOrder, Ordered, Selling, Answered, None
  <2>2. ASSUME NEW c \in Cart PROVE CartSale(c)
    BY DEF Init, CartSale, NoOrder, NoCart, Paid, Ordered, None
  <2> QED BY <2>1, <2>2 DEF SaleInv
<1>2. CartInv /\ SaleInv /\ [Next]_vars => SaleInv'
  <2> SUFFICES ASSUME CartInv, SaleInv, [Next]_vars PROVE SaleInv'
    OBVIOUS
  <2>1. CASE UNCHANGED vars
    <3>1. ASSUME NEW r \in Request PROVE Sale(r)'
      BY <2>1 DEF SaleInv, Sale, Approves, vars
    <3>2. ASSUME NEW c \in Cart \ mixed' PROVE CartSale(c)'
      <4>1. CartSale(c) /\ LinesOf(c)' = LinesOf(c)
        BY <2>1 DEF SaleInv, LinesOf, Rows, vars
      <4> QED BY <2>1, <4>1, CartSaleKept DEF vars, Paid
    <3> QED BY <3>1, <3>2 DEF SaleInv, Cart
  <2>2. CASE Next
    <3>1. PICK r \in Request : Begin(r) \/ Serve(r) \/ Fail(r)
      BY <2>2 DEF Next
    <3>2. ASSUME NEW k \in Request PROVE Sale(k)'
      BY <3>1, SaleStep DEF CartInv, SaleInv
    <3>3. ASSUME NEW c \in Cart \ mixed' PROVE CartSale(c)'
      BY <3>1, CartSaleStep DEF CartInv
    <3> QED BY <3>2, <3>3 DEF SaleInv, Cart
  <2> QED BY <2>1, <2>2
<1>3. Spec => []CartInv /\ []SaleInv
  BY <1>1, <1>2, CartsInvariant, PTL DEF Spec
<1> QED BY <1>3, PTL

\* What the invariant of the orders says of a sold and of an open cart.
LEMMA SoldFromSale == CartInv /\ SaleInv => SoldOnceInFull
<1> SUFFICES ASSUME CartInv, SaleInv, NEW c \in Cart \ mixed
             PROVE  LET sold == {r \in Paid : order[r].cart = c} IN
                    /\ cart[c].status = "checked_out" =>
                         \E r \in sold : /\ sold = {r}
                                         /\ {l.row : l \in order[r].lines} = Rows(c)
                                         /\ \A l \in order[r].lines : l.qty = item[l.row].qty
                    /\ (cart[c].status = "open"
                          /\ \A r \in Request : at[r] = c => pc[r] \notin Answered) =>
                         \A r \in Request : at[r] = c => charged[r] = 0
  BY DEF SoldOnceInFull
<1> DEFINE sold == {r \in Paid : order[r].cart = c}
<1>1. CartSale(c) /\ \A r \in Request : Sale(r)
  BY DEF SaleInv
<1>2. ASSUME cart[c].status = "checked_out"
      PROVE  \E r \in sold : /\ sold = {r}
                             /\ {l.row : l \in order[r].lines} = Rows(c)
                             /\ \A l \in order[r].lines : l.qty = item[l.row].qty
  <2>1. PICK r \in sold : TRUE
    BY <1>1, <1>2 DEF CartSale
  <2>2. sold = {r} /\ order[r].lines = LinesOf(c)
    BY <1>1, <2>1 DEF CartSale
  <2>3. {l.row : l \in LinesOf(c)} = Rows(c) /\ \A l \in LinesOf(c) : l.qty = item[l.row].qty
    <3> DEFINE line(i) == [row |-> i, product |-> item[i].product, qty |-> item[i].qty,
                           price |-> Price[item[i].product]]
    <3>1. LinesOf(c) = {line(i) : i \in Rows(c)}
      BY DEF LinesOf
    <3>2. \A i : line(i).row = i /\ line(i).qty = item[i].qty
      OBVIOUS
    <3> HIDE DEF line
    <3> QED BY <3>1, <3>2
  <2> QED BY <2>1, <2>2, <2>3
<1>3. ASSUME cart[c].status = "open", \A r \in Request : at[r] = c => pc[r] \notin Answered,
             NEW r \in Request, at[r] = c
      PROVE  charged[r] = 0
  BY <1>1, <1>3 DEF Sale
<1> QED BY <1>2, <1>3

\* A checked-out cart that no two requests used at once was sold in one paid order,
\* line for line, and an open one has not been charged for.
THEOREM CartsSoldOnce == Spec => []SoldOnceInFull
  BY SaleInvariant, SoldFromSale, PTL

----------------------------------------------------------------------------
\* The stock

\* The units of p in a finite set of lines.
LEMMA UnitsType ==
  ASSUME NEW L, IsFiniteSet(L), L \subseteq Line, NEW p
  PROVE  Units(L, p) \in Int
<1> DEFINE f == [l \in L |-> l.qty]
           S == {l \in L : l.product = p}
<1>1. IsFiniteSet(S) /\ Ints(f, S)
  BY FS_Subset DEF Ints, Line
<1>2. Sum(f, S) \in Int
  <2> HIDE DEF f, S
  <2> QED BY <1>1, SumStep
<1> QED BY <1>2 DEF Units

\* One more line.
LEMMA UnitsAdd ==
  ASSUME NEW L, IsFiniteSet(L), L \subseteq Line, NEW l \in Line, l \notin L, NEW p
  PROVE  Units(L \cup {l}, p) = Units(L, p) + IF l.product = p THEN l.qty ELSE 0
<1> DEFINE f == [k \in L |-> k.qty]
           g == [k \in L \cup {l} |-> k.qty]
           S == {k \in L : k.product = p}
           T == {k \in L \cup {l} : k.product = p}
<1>1. IsFiniteSet(S) /\ Ints(f, S) /\ \A k \in S : g[k] = f[k]
  BY FS_Subset DEF Ints, Line
<1>2. Ints(g, S \cup {l}) /\ g[l] = l.qty /\ l \notin S /\ l.qty \in Int
  BY DEF Ints, Line
<1>3. T = IF l.product = p THEN S \cup {l} ELSE S
  OBVIOUS
<1>4. Units(L, p) = Sum(f, S) /\ Units(L \cup {l}, p) = Sum(g, T)
  BY DEF Units
<1> HIDE DEF f, g, S, T
<1>5. Sum(g, S) = Sum(f, S) /\ Sum(f, S) \in Int
  BY <1>1, SumSame, SumStep
<1>6. Sum(g, S \cup {l}) = l.qty + Sum(g, S)
  BY <1>1, <1>2, SumAdd
<1> QED BY <1>2, <1>3, <1>4, <1>5, <1>6

LEMMA UnitsNone == ASSUME NEW p PROVE Units({}, p) = 0
<1> DEFINE f == [l \in {} |-> l.qty]
<1>1. Sum(f, {}) = 0
  <2> HIDE DEF f
  <2> QED BY SumEmpty
<1>2. {l \in {} : l.product = p} = {}
  OBVIOUS
<1> QED BY <1>1, <1>2 DEF Units

\* What the checkout of an order has taken of p.
Taken(p) == [r \in Request |-> Units(order[r].lines \ lines[r], p)]
Balanced(p) == Stock[p] - stock[p] = Sum(Taken(p), Paid)

LEMMA TakenType ==
  ASSUME ShapeInv, NEW p
  PROVE  /\ IsFiniteSet(Paid) /\ Paid \subseteq Request
         /\ \A S \in SUBSET Request : Ints(Taken(p), S)
         /\ \A r \in Request : /\ order[r].lines \ lines[r] \subseteq Line
                               /\ IsFiniteSet(order[r].lines \ lines[r])
<1>1. IsFiniteSet(Paid) /\ Paid \subseteq Request
  BY RequestAssumption, FS_Subset DEF Paid
<1>2. ASSUME NEW r \in Request
      PROVE  order[r].lines \ lines[r] \subseteq Line /\ IsFiniteSet(order[r].lines \ lines[r])
  BY FS_Difference DEF ShapeInv, TypeOK, Shape
<1>3. \A r \in Request : Taken(p)[r] \in Int
  BY <1>2, UnitsType DEF Taken
<1> QED BY <1>1, <1>2, <1>3 DEF Ints

\* A step that takes nothing from the stock and pays no order.
LEMMA BalancedKept ==
  ASSUME ShapeInv, NEW p, Balanced(p), stock'[p] = stock[p], Paid' = Paid,
         \A r \in Paid : order'[r].lines = order[r].lines /\ lines'[r] = lines[r]
  PROVE  Balanced(p)'
<1>1. \A r \in Paid : Taken(p)'[r] = Taken(p)[r]
  BY DEF Taken, Paid
<1>2. Sum(Taken(p)', Paid) = Sum(Taken(p), Paid)
  <2> HIDE DEF Taken
  <2> QED BY <1>1, TakenType, SumSame
<1> QED BY <1>2 DEF Balanced

LEMMA BalancedStep ==
  ASSUME ShapeInv, ShapeInv', SaleInv, NEW p \in Product, Balanced(p), NEW r \in Request,
         Begin(r) \/ Serve(r) \/ Fail(r)
  PROVE  Balanced(p)'
<1>1. TypeOK /\ Shape(r) /\ Sale(r)
  BY DEF ShapeInv, SaleInv
<1>2. /\ IsFiniteSet(Paid) /\ Paid \subseteq Request
      /\ \A S \in SUBSET Request : Ints(Taken(p), S) /\ Ints(Taken(p)', S)
  <2>1. IsFiniteSet(Paid) /\ Paid \subseteq Request /\ \A S \in SUBSET Request : Ints(Taken(p), S)
    BY TakenType
  <2>2. \A k \in Request : /\ order'[k].lines \ lines'[k] \subseteq Line
                            /\ IsFiniteSet(order'[k].lines \ lines'[k])
    BY FS_Difference DEF ShapeInv, TypeOK, Shape
  <2>3. \A k \in Request : Taken(p)'[k] \in Int
    BY <2>2, UnitsType DEF Taken
  <2> QED BY <2>1, <2>3 DEF Ints
<1>3. CASE ~DbReadLines(r) /\ ~DbCreateOrder(r) /\ ~DbUpdateOrder(r) /\ ~DbDecrementStock(r)
  <2>1. UNCHANGED <<order, lines, stock>>
    BY <1>3 DEF Begin, Serve, DbFindCart, DbCreateCart, DbFindItem, DbWriteItem, GatewayCharge,
         DbCreatePayment, DbMarkCheckedOut, Fail
  <2> QED BY <2>1, BalancedKept DEF Paid
<1>4. CASE DbReadLines(r) \/ DbCreateOrder(r)
  <2>1. /\ pc[r] \in {"reading", "ordering"} /\ UNCHANGED stock
        /\ order'[r].status \in {order[r].status, "pending"}
        /\ \A k \in Request \ {r} : order'[k] = order[k] /\ lines'[k] = lines[k]
    BY <1>1, <1>4 DEF DbReadLines, DbCreateOrder, TypeOK
  <2>2. order[r].status = None
    BY <1>1, <2>1 DEF Sale, Ordered, Selling
  <2>3. Paid' = Paid /\ r \notin Paid
    BY <2>1, <2>2 DEF Paid, None
  <2>4. \A k \in Paid : order'[k].lines = order[k].lines /\ lines'[k] = lines[k]
    BY <1>2, <2>1, <2>3
  <2> QED BY <2>1, <2>3, <2>4, BalancedKept
<1>5. CASE DbUpdateOrder(r)
  <2>1. /\ pc[r] = "updating" /\ UNCHANGED <<stock, lines>>
        /\ order'[r].status \in {"paid", "failed"} /\ order'[r].lines = order[r].lines
        /\ \A k \in Request \ {r} : order'[k] = order[k]
    BY <1>1, <1>5 DEF DbUpdateOrder, TypeOK
  <2>2. order[r].status = "pending" /\ order[r].lines = lines[r]
    BY <1>1, <2>1 DEF Sale, Ordered
  <2>3. r \notin Paid
    BY <2>2 DEF Paid
  <2>4. \A k \in Paid : order'[k].lines = order[k].lines /\ lines'[k] = lines[k]
    BY <1>2, <2>1, <2>3
  <2>5. CASE order'[r].status = "failed"
    <3>1. Paid' = Paid
      BY <2>1, <2>2, <2>5 DEF Paid
    <3> QED BY <2>1, <2>4, <3>1, BalancedKept
  <2>6. CASE order'[r].status = "paid"
    <3>1. Paid' = Paid \cup {r}
      BY <2>1, <2>6 DEF Paid
    <3>2. Taken(p)'[r] = 0
      <4>1. order'[r].lines \ lines'[r] = {}
        BY <2>1, <2>2
      <4> QED BY <4>1, UnitsNone DEF Taken
    <3>3. \A k \in Paid : Taken(p)'[k] = Taken(p)[k]
      BY <1>2, <2>4 DEF Taken
    <3>4. Sum(Taken(p)', Paid) = Sum(Taken(p), Paid) /\ Sum(Taken(p), Paid) \in Int
      <4> HIDE DEF Taken
      <4> QED BY <1>2, <3>3, SumSame, SumStep
    <3>5. Sum(Taken(p)', Paid \cup {r}) = Taken(p)'[r] + Sum(Taken(p)', Paid)
      <4>1. Ints(Taken(p)', Paid \cup {r})
        BY <1>2
      <4> HIDE DEF Taken
      <4> QED BY <1>2, <2>3, <4>1, SumAdd
    <3> QED BY <2>1, <3>1, <3>2, <3>4, <3>5 DEF Balanced
  <2> QED BY <2>1, <2>5, <2>6
<1>6. CASE DbDecrementStock(r)
  <2>1. PICK l \in lines[r] : /\ stock' = [stock EXCEPT ![l.product] = @ - l.qty]
                             /\ lines' = [lines EXCEPT ![r] = lines[r] \ {l}]
    BY <1>6 DEF DbDecrementStock
  <2>2. /\ pc[r] = "selling" /\ UNCHANGED order /\ l \in Line
        /\ lines'[r] = lines[r] \ {l} /\ \A k \in Request \ {r} : lines'[k] = lines[k]
    BY <1>1, <1>6, <2>1 DEF DbDecrementStock, TypeOK
  <2>3. r \in Paid /\ lines[r] \subseteq order[r].lines /\ Paid' = Paid
    BY <1>1, <2>2 DEF Sale, Selling, Paid
  <2> DEFINE L == order[r].lines \ lines[r]
             units == IF l.product = p THEN l.qty ELSE 0
  <2>4. order'[r].lines \ lines'[r] = L \cup {l} /\ l \notin L
    BY <2>2, <2>3
  <2>5. IsFiniteSet(L) /\ L \subseteq Line
    BY TakenType
  <2>6. Units(L \cup {l}, p) = Units(L, p) + units
    <3> HIDE DEF L
    <3> QED BY <2>2, <2>4, <2>5, UnitsAdd
  <2>7. Taken(p)'[r] = Taken(p)[r] + units
    BY <2>4, <2>6 DEF Taken
  <2>8. \A k \in Paid : k # r => Taken(p)'[k] = Taken(p)[k]
    BY <1>2, <2>2 DEF Taken
  <2>9. Sum(Taken(p)', Paid) = Sum(Taken(p), Paid) - Taken(p)[r] + Taken(p)'[r]
    <3>1. Ints(Taken(p), Paid) /\ Ints(Taken(p)', Paid)
      BY <1>2
    <3> HIDE DEF Taken
    <3> QED BY <1>2, <2>3, <2>8, <3>1, SumChange
  <2>10. stock'[p] = stock[p] - units
    BY <1>1, <2>1, <2>2 DEF TypeOK, Line
  <2>11. /\ stock[p] \in Int /\ Stock[p] \in Int /\ units \in Int
         /\ Taken(p)[r] \in Int /\ Sum(Taken(p), Paid) \in Int
    <3>1. Ints(Taken(p), Paid)
      BY <1>2
    <3>2. Sum(Taken(p), Paid) \in Int
      <4> HIDE DEF Taken
      <4> QED BY <1>2, <3>1, SumStep
    <3>3. Taken(p)[r] \in Int
      BY <2>3, <3>1 DEF Ints
    <3> QED BY <1>1, <2>2, <3>2, <3>3, CatalogAssumption DEF TypeOK, Line
  <2> HIDE DEF units
  <2> QED BY <2>3, <2>7, <2>9, <2>10, <2>11 DEF Balanced
<1> QED BY <1>3, <1>4, <1>5, <1>6

LEMMA StockInvariant == Spec => []StockInv
<1> DEFINE Inv == CartInv /\ SaleInv
<1>1. Init => StockInv
  <2> SUFFICES ASSUME Init, NEW p \in Product PROVE Balanced(p)
    BY DEF StockInv, Balanced, Taken
  <2>1. Paid = {}
    BY DEF Init, Paid, NoOrder, None
  <2>2. Sum(Taken(p), {}) = 0
    BY SumEmpty
  <2> QED BY <2>1, <2>2, CatalogAssumption DEF Init, Balanced
<1>2. Inv /\ Inv' /\ StockInv /\ [Next]_vars => StockInv'
  <2> SUFFICES ASSUME Inv, Inv', StockInv, [Next]_vars, NEW p \in Product PROVE Balanced(p)'
    BY DEF StockInv, Balanced, Taken
  <2>1. ShapeInv /\ ShapeInv' /\ SaleInv /\ Balanced(p)
    BY DEF CartInv, StockInv, Balanced, Taken
  <2>2. CASE UNCHANGED vars
    BY <2>1, <2>2, BalancedKept DEF vars, Paid
  <2>3. CASE Next
    BY <2>1, <2>3, BalancedStep DEF Next
  <2> QED BY <2>2, <2>3
<1>3. Spec => []Inv
  BY SaleInvariant
<1> QED BY <1>1, <1>2, <1>3, PTL DEF Spec

LEMMA BalanceFromStock == CartInv /\ SaleInv /\ StockInv => StockBalances
<1> SUFFICES ASSUME CartInv, SaleInv, StockInv, \A r \in Paid : pc[r] = "done",
                    NEW p \in Product
             PROVE  Stock[p] - stock[p] =
                      Sum([r \in Request |-> Units(order[r].lines, p)], Paid)
  BY DEF StockBalances, Units
<1> DEFINE f == [r \in Request |-> Units(order[r].lines, p)]
<1>1. Stock[p] - stock[p] = Sum(Taken(p), Paid)
  BY DEF StockInv, Taken
<1>2. \A r \in Paid : order[r].lines \ lines[r] = order[r].lines
  BY DEF SaleInv, Sale, Paid
<1>3. \A r \in Paid : f[r] = Taken(p)[r]
  BY <1>2 DEF Taken, Paid
<1>4. Sum(f, Paid) = Sum(Taken(p), Paid)
  <2>1. IsFiniteSet(Paid) /\ Ints(Taken(p), Paid)
    BY TakenType DEF CartInv
  <2> HIDE DEF f, Taken
  <2> QED BY <1>3, <2>1, SumSame
<1> QED BY <1>1, <1>4

\* What is missing from the stock is what the paid orders list, also for carts that
\* several requests used at once.
THEOREM StockAddsUp == Spec => []StockBalances
  BY SaleInvariant, StockInvariant, BalanceFromStock, PTL
=============================================================================
