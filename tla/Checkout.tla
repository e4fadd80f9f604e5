------------------------------ MODULE Checkout ------------------------------
(***************************************************************************)
(* Carts, checkout, payments and stock of the shop (Fundamentals of Nest): *)
(* CartService, OrdersService.checkout, PaymentsService.charge and         *)
(* ProductsService.decrementStock.                                         *)
(*                                                                         *)
(* A request is an async resolver: it is suspended at each query, requests *)
(* interleave there, and no two queries share a transaction.  A step named *)
(* Db... is SQLite performing the query the request awaits.                *)
(***************************************************************************)
EXTENDS Pricing

CONSTANTS
  User,     \* the customers (the x-user-id header)
  Product,  \* the catalog
  Price,    \* Price[p], in cents
  Stock,    \* Stock[p], the stock the catalog starts with
  MaxCart,  \* bound: the carts the database may come to hold
  Request,  \* GraphQL requests, each made once
  By,       \* By[r]: who makes request r
  Kind,     \* Kind[r]: addToCart, the cart query, or checkout
  Wanted,   \* Wanted[r]: the product and quantity pairs an addToCart may name
  Limit     \* the amount above which the gateway declines

None == "none"

ASSUME RequestAssumption ==
  /\ IsFiniteSet(Request) /\ None \notin Request
  /\ By \in [Request -> User]
  /\ Kind \in [Request -> {"add", "view", "checkout"}]
  /\ \A r \in Request : Wanted[r] \subseteq [product : Product, qty : Int]
ASSUME CatalogAssumption ==
  /\ Price \in [Product -> Nat]
  /\ Stock \in [Product -> Int]
  /\ Limit \in Nat
  /\ MaxCart \in Nat

VARIABLES
  cart,     \* the Cart table: owner and status
  item,     \* the CartItem table: a row has the name of the request that made it
  order,    \* the Order table: at most one row for each checkout request
  payment,  \* the Payment table: the status of an order's payment
  stock,    \* Product.stock
  charged,  \* what the payment provider took from the customer, per request
  pc,       \* where a request is suspended
  want,     \* the product and quantity of an addToCart
  at,       \* the cart a request works on
  found,    \* the CartItem row addToCart found, and the quantity it read there
  lines,    \* the lines checkout read and has not taken from the stock
  mixed     \* history: carts used by two requests at once, or by a checkout that
            \* failed after the charge

vars == <<cart, item, order, payment, stock, charged, pc, want, at, found,
          lines, mixed>>

Cart == 1..MaxCart   \* ids, handed out in order
NoId == 0
State == {"new", "finding", "creating", "looking", "writing", "viewing", "opening",
          "reading", "ordering", "charging", "recording", "updating", "selling",
          "closing", "done", "refused", "failed"}
Status == {"pending", "paid", "failed"}
Opening == {"creating", "opening"}
\* addToCart and checkout work on the cart they found; the cart query reads it.
Holding == {"looking", "writing", "reading", "ordering", "charging", "recording",
            "updating", "selling", "closing"}
\* The provider has answered and the checkout is not complete.
Answered == {"recording", "updating", "selling", "closing"}

Line == [row : Request, product : Product, qty : Int, price : Nat]
NoOrder == [status |-> None, total |-> 0, lines |-> {}, cart |-> NoId]

TypeOK ==
  /\ cart \in [Cart -> [user : User \cup {None}, status : {None, "open", "checked_out"}]]
  /\ item \in [Request -> [cart : Cart \cup {NoId}, product : Product \cup {None}, qty : Int]]
  /\ order \in [Request -> [status : Status \cup {None}, total : Int,
                            lines : SUBSET Line, cart : Cart \cup {NoId}]]
  /\ payment \in [Request -> {None, "succeeded", "failed"}]
  /\ stock \in [Product -> Int]
  /\ charged \in [Request -> Int]
  /\ pc \in [Request -> State]
  /\ want \in [Request -> [product : Product \cup {None}, qty : Int]]
  /\ at \in [Request -> Cart \cup {NoId}]
  /\ found \in [Request -> [row : Request \cup {None}, qty : Int]]
  /\ lines \in [Request -> SUBSET Line]
  /\ mixed \subseteq Cart

NoCart == [user |-> None, status |-> None]
NoItem == [cart |-> NoId, product |-> None, qty |-> 0]
NotFound == [row |-> None, qty |-> 0]

Init ==
  /\ cart = [c \in Cart |-> NoCart]
  /\ item = [r \in Request |-> NoItem]
  /\ order = [r \in Request |-> NoOrder]
  /\ payment = [r \in Request |-> None]
  /\ stock = Stock
  /\ charged = [r \in Request |-> 0]
  /\ pc = [r \in Request |-> "new"]
  /\ want = [r \in Request |-> [product |-> None, qty |-> 0]]
  /\ at = [r \in Request |-> NoId]
  /\ found = [r \in Request |-> NotFound]
  /\ lines = [r \in Request |-> {}]
  /\ mixed = {}

----------------------------------------------------------------------------
(* The open cart *)

Begin(r) ==
  /\ pc[r] = "new"
  /\ IF Kind[r] = "add" THEN \E w \in Wanted[r] : want' = [want EXCEPT ![r] = w]
                        ELSE UNCHANGED want
  /\ pc' = [pc EXCEPT ![r] = IF Kind[r] = "view" THEN "viewing" ELSE "finding"]
  /\ UNCHANGED <<cart, item, order, payment, stock, charged, at, found, lines, mixed>>

OpenCarts(u) == {c \in Cart : cart[c] = [user |-> u, status |-> "open"]}

\* What follows getOrCreateOpenCart, with cart c, in addItem, checkout and view.
Take(r, c) ==
  LET held == \E o \in Request \ {r} : at[o] = c /\ pc[o] \in Holding IN
  IF pc[r] \in {"viewing", "opening"}
    THEN /\ pc' = [pc EXCEPT ![r] = "done"]
         /\ UNCHANGED <<at, mixed>>
    ELSE /\ pc' = [pc EXCEPT ![r] = IF Kind[r] = "add" THEN "looking" ELSE "reading"]
         /\ at' = [at EXCEPT ![r] = c]
         /\ mixed' = IF held THEN mixed \cup {c} ELSE mixed

\* getOrCreateOpenCart: cart.findFirst takes any of the user's open carts.
DbFindCart(r) ==
  /\ pc[r] \in {"finding", "viewing"}
  /\ \/ \E c \in OpenCarts(By[r]) : Take(r, c)
     \/ /\ OpenCarts(By[r]) = {}
        /\ pc' = [pc EXCEPT ![r] = IF pc[r] = "finding" THEN "creating" ELSE "opening"]
        /\ UNCHANGED <<at, mixed>>
  /\ UNCHANGED <<cart, item, order, payment, stock, charged, want, found, lines>>

\* getOrCreateOpenCart: cart.create.
DbCreateCart(r) ==
  /\ pc[r] \in Opening
  /\ \E c \in Cart :
       /\ cart[c] = NoCart /\ \A d \in 1..(c - 1) : cart[d] # NoCart
       /\ cart' = [cart EXCEPT ![c] = [user |-> By[r], status |-> "open"]]
       /\ Take(r, c)
  /\ UNCHANGED <<item, order, payment, stock, charged, want, found, lines>>

----------------------------------------------------------------------------
(* addToCart *)

Rows(c) == {i \in Request : item[i].cart = c}

\* addItem: cartItem.findFirst.
DbFindItem(r) ==
  LET same == {i \in Rows(at[r]) : item[i].product = want[r].product} IN
  /\ pc[r] = "looking"
  /\ pc' = [pc EXCEPT ![r] = "writing"]
  /\ \/ \E i \in same : found' = [found EXCEPT ![r] = [row |-> i, qty |-> item[i].qty]]
     \/ same = {} /\ UNCHANGED found
  /\ UNCHANGED <<cart, item, order, payment, stock, charged, want, at, lines, mixed>>

\* Variant: the quantity asked for replaces the one in the row.
DbWriteItemOver(r) ==
  /\ pc[r] = "writing"
  /\ pc' = [pc EXCEPT ![r] = "viewing"]
  /\ item' = IF found[r].row # None
               THEN [item EXCEPT ![found[r].row].qty = want[r].qty]
               ELSE [item EXCEPT ![r] = [cart |-> at[r], product |-> want[r].product,
                                         qty |-> want[r].qty]]
  /\ UNCHANGED <<cart, order, payment, stock, charged, want, at, found, lines, mixed>>

\* addItem: cartItem.update with the sum computed from the quantity read
\* before, or cartItem.create; then the view, which needs an open cart again.
DbWriteItem(r) ==
  /\ pc[r] = "writing"
  /\ pc' = [pc EXCEPT ![r] = "viewing"]
  /\ item' = IF found[r].row # None
               THEN [item EXCEPT ![found[r].row].qty = found[r].qty + want[r].qty]
               ELSE [item EXCEPT ![r] = [cart |-> at[r], product |-> want[r].product,
                                         qty |-> want[r].qty]]
  /\ UNCHANGED <<cart, order, payment, stock, charged, want, at, found, lines, mixed>>

----------------------------------------------------------------------------
(* checkout *)

\* The rows of a cart with the products they name.
LinesOf(c) == {[row |-> i, product |-> item[i].product, qty |-> item[i].qty,
                price |-> Price[item[i].product]] : i \in Rows(c)}

\* lineItems: cartItem.findMany with the products; an empty cart is refused.
DbReadLines(r) ==
  /\ pc[r] = "reading"
  /\ lines' = [lines EXCEPT ![r] = LinesOf(at[r])]
  /\ pc' = [pc EXCEPT ![r] = IF LinesOf(at[r]) = {} THEN "refused" ELSE "ordering"]
  /\ UNCHANGED <<cart, item, order, payment, stock, charged, want, at, found, mixed>>

\* order.create, with the total of the discounted lines.
DbCreateOrder(r) ==
  /\ pc[r] = "ordering"
  /\ pc' = [pc EXCEPT ![r] = "charging"]
  /\ order' = [order EXCEPT ![r] = [status |-> "pending", total |-> PriceCart(lines[r]),
                                    lines |-> lines[r], cart |-> at[r]]]
  /\ UNCHANGED <<cart, item, payment, stock, charged, want, at, found, lines, mixed>>

Approves(amount) == amount <= Limit

\* gateway.charge: the provider takes the money or declines.
GatewayCharge(r) ==
  /\ pc[r] = "charging"
  /\ pc' = [pc EXCEPT ![r] = "recording"]
  /\ charged' = [charged EXCEPT ![r] = IF Approves(order[r].total) THEN order[r].total ELSE 0]
  /\ UNCHANGED <<cart, item, order, payment, stock, want, at, found, lines, mixed>>

\* payment.create with the gateway's answer.
DbCreatePayment(r) ==
  /\ pc[r] = "recording"
  /\ pc' = [pc EXCEPT ![r] = "updating"]
  /\ payment' = [payment EXCEPT
       ![r] = IF Approves(order[r].total) THEN "succeeded" ELSE "failed"]
  /\ UNCHANGED <<cart, item, order, stock, charged, want, at, found, lines, mixed>>

\* order.update; a declined order leaves the cart open for another attempt.
DbUpdateOrder(r) ==
  LET paid == payment[r] = "succeeded" IN
  /\ pc[r] = "updating"
  /\ order' = [order EXCEPT ![r].status = IF paid THEN "paid" ELSE "failed"]
  /\ pc' = [pc EXCEPT ![r] = IF paid THEN "selling" ELSE "done"]
  /\ UNCHANGED <<cart, item, payment, stock, charged, want, at, found, lines, mixed>>

\* Variant: stock is taken once for each product of the order.
DbDecrementStockByProduct(r) ==
  /\ pc[r] = "selling"
  /\ \E l \in lines[r] :
       LET rest == {k \in lines[r] : k.product # l.product} IN
       /\ stock' = [stock EXCEPT ![l.product] = @ - l.qty]
       /\ lines' = [lines EXCEPT ![r] = rest]
       /\ pc' = [pc EXCEPT ![r] = IF rest = {} THEN "closing" ELSE @]
  /\ UNCHANGED <<cart, item, order, payment, charged, want, at, found, mixed>>

\* decrementStock of one line: an atomic decrement, with no lower bound.
DbDecrementStock(r) ==
  /\ pc[r] = "selling"
  /\ \E l \in lines[r] :
       LET rest == lines[r] \ {l} IN
       /\ stock' = [stock EXCEPT ![l.product] = @ - l.qty]
       /\ lines' = [lines EXCEPT ![r] = rest]
       /\ pc' = [pc EXCEPT ![r] = IF rest = {} THEN "closing" ELSE @]
  /\ UNCHANGED <<cart, item, order, payment, charged, want, at, found, mixed>>

\* Variant: the cart stays open after the sale.
DbMarkCheckedOutNot(r) ==
  /\ pc[r] = "closing"
  /\ pc' = [pc EXCEPT ![r] = "done"]
  /\ UNCHANGED <<cart, item, order, payment, stock, charged, want, at, found, lines, mixed>>

\* markCheckedOut.
DbMarkCheckedOut(r) ==
  /\ pc[r] = "closing"
  /\ cart' = [cart EXCEPT ![at[r]].status = "checked_out"]
  /\ pc' = [pc EXCEPT ![r] = "done"]
  /\ UNCHANGED <<item, order, payment, stock, charged, want, at, found, lines, mixed>>

\* A query is refused, its answer lost, or the process restarts: the request
\* ends where it is and what it has written stays.  After addToCart has written
\* its row only the answer is missing.
Fail(r) ==
  /\ pc[r] \notin {"new", "done", "refused", "failed"}
  /\ pc' = [pc EXCEPT ![r] = IF @ \in {"viewing", "opening"} THEN "done" ELSE "failed"]
  /\ mixed' = IF pc[r] \in Answered THEN mixed \cup {at[r]} ELSE mixed
  /\ UNCHANGED <<cart, item, order, payment, stock, charged, want, at, found, lines>>

Serve(r) ==
  \/ DbFindCart(r) \/ DbCreateCart(r) \/ DbFindItem(r) \/ DbWriteItem(r)
  \/ DbReadLines(r) \/ DbCreateOrder(r) \/ GatewayCharge(r) \/ DbCreatePayment(r)
  \/ DbUpdateOrder(r) \/ DbDecrementStock(r) \/ DbMarkCheckedOut(r)

Next == \E r \in Request : Begin(r) \/ Serve(r) \/ Fail(r)

\* Queries are answered; nothing makes a customer send a request or one fail.
Fairness == \A r \in Request : WF_vars(Serve(r))

Spec == Init /\ [][Next]_vars /\ Fairness
----------------------------------------------------------------------------
(* Properties *)

Sum(f, S) == MapThenSumSet(LAMBDA r : f[r], S)
Paid == {r \in Request : order[r].status = "paid"}

\* addToCart: the rows of a cart that no two requests used at once hold, for
\* each product, what was asked for, in one row.
QuantitiesAddUp ==
  \A c \in Cart \ mixed, p \in Product :
    LET rows == {i \in Rows(c) : item[i].product = p}
        asked == {r \in Request : Kind[r] = "add" /\ at[r] = c /\ want[r].product = p
                                  /\ pc[r] \in {"viewing", "opening", "done"}}
    IN /\ Cardinality(rows) <= 1
       /\ Sum([i \in Request |-> item[i].qty], rows)
            = Sum([r \in Request |-> want[r].qty], asked)

\* A cart no two requests used at once: once checked out it was sold in one
\* paid order, line for line; while it is open and no checkout is at work on
\* it the customer has not been charged for it.
SoldOnceInFull ==
  \A c \in Cart \ mixed :
    LET sold == {r \in Paid : order[r].cart = c} IN
    /\ cart[c].status = "checked_out" =>
         \E r \in sold : /\ sold = {r}
                         /\ {l.row : l \in order[r].lines} = Rows(c)
                         /\ \A l \in order[r].lines : l.qty = item[l.row].qty
    /\ (cart[c].status = "open" /\ \A r \in Request : at[r] = c => pc[r] \notin Answered) =>
         \A r \in Request : at[r] = c => charged[r] = 0

\* When every paid order's checkout has run to its end, the units missing from
\* the stock are the units the paid orders list, even for a cart that two
\* additions gave two rows of one product.
StockBalances ==
  (\A r \in Paid : pc[r] = "done") =>
    \A p \in Product :
      Stock[p] - stock[p] =
        Sum([r \in Request |-> Sum([l \in order[r].lines |-> l.qty],
                                   {l \in order[r].lines : l.product = p})], Paid)

\* A customer who was charged gets the order paid, its stock taken and the cart
\* closed, unless the request fails on the way.
ChargedGetsSold ==
  \A r \in {k \in Request : Kind[k] = "checkout"} :
    charged[r] # 0 ~>
      \/ pc[r] = "failed"
      \/ order[r].status = "paid" /\ lines[r] = {} /\ cart[at[r]].status = "checked_out"
=============================================================================
