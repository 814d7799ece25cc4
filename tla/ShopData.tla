------------------------------ MODULE ShopData ------------------------------
(***************************************************************************)
(* The tables that ordering reads and writes (users, categories, products, *)
(* cart_items, orders, order_items, order_status_history and               *)
(* email_notifications), and the functions of rows that both the abstract  *)
(* specification OrderBook and the transactions of OrderTx are built from. *)
(*                                                                         *)
(* Product and category ids are numbers because checkout sorts them to     *)
(* lock them; every other id is only a name.  A set of cart or order lines *)
(* is a function from products to quantities, 0 standing for "no line".    *)
(***************************************************************************)
EXTENDS Naturals, Sequences, FiniteSets

CONSTANTS
  Users,           \* customers
  Admins,          \* administrators
  Products,        \* product ids
  Categories,      \* category ids
  OrderIds,        \* bound: the ids orders may be given
  Keys,            \* values of the Idempotency-Key header
  Hashes,          \* hashes of a checkout body
  Prices,          \* unit prices in VND
  MaxQuantity,     \* largest quantity of a line
  MaxCartLines,    \* MAX_CART_LINES_PER_USER
  Null,            \* an absent row, or a value not read yet
  Omitted,         \* a field that a PATCH body leaves out
  ProductPatches,  \* the PATCH bodies administrators may send
  InitialProducts, \* the products table before the first request
  InitialCarts     \* the customers' carts before the first request

-----------------------------------------------------------------------------
Lines == [Products -> 0..MaxQuantity]

EmptyCart == [p \in Products |-> 0]

Bought(lines) == {p \in Products : lines[p] > 0}

(* A row of products, cut down to the columns ordering depends on.         *)
ProductRow ==
  [stock : Nat, priceVnd : Prices, isActive : BOOLEAN, categoryId : Categories]

(* The body of PATCH /admin/products/:id, cut down to the same columns.    *)
ProductPatch ==
  [stock      : Nat \cup {Omitted},
   priceVnd   : Prices \cup {Omitted},
   isActive   : BOOLEAN \cup {Omitted},
   categoryId : Categories \cup {Omitted}]

Status == {"PENDING", "CONFIRMED", "COMPLETED", "CANCELLED", "REJECTED"}

(* An order with its order_items: the quantities and the unit prices that  *)
(* were charged.  An order is unique per (userId, idempotencyKey).         *)
Order ==
  [userId : Users, idempotencyKey : Keys, requestHash : Hashes,
   items : Lines, unitPriceVnd : [Products -> Prices \cup {0}], status : Status]

HistoryRow ==
  [fromStatus : Status \cup {"NULL"}, toStatus : Status,
   actorUserId : Users \cup Admins]

EventType == {"ORDER_PLACED", "ORDER_CONFIRMED", "ORDER_REJECTED"}

ASSUME ShopAssumption ==
  /\ Products \subseteq Nat /\ Categories \subseteq Nat
  /\ OrderIds \subseteq Nat /\ IsFiniteSet(OrderIds)
  /\ Prices \subseteq Nat
  /\ MaxQuantity \in Nat /\ MaxCartLines \in Nat
  /\ Users \cap Admins = {}
  /\ Null \notin Order \cup ProductRow \cup BOOLEAN \cup Status
  /\ ProductPatches \subseteq ProductPatch
  /\ InitialProducts \in [Products -> ProductRow]
  /\ InitialCarts \in [Users -> Lines]

-----------------------------------------------------------------------------
(* The moves an administrator may make, and with the customer's own        *)
(* cancellation all moves of an order.                                     *)
AdminTransitions ==
  {<<"PENDING", "CONFIRMED">>, <<"PENDING", "REJECTED">>,
   <<"CONFIRMED", "COMPLETED">>}

Transitions == AdminTransitions \cup {<<"PENDING", "CANCELLED">>}

(* The orders whose items are out of stock: no other order gives any back. *)
HoldsStock(o) == o.status \in {"PENDING", "CONFIRMED", "COMPLETED"}

(* The e-mail events that entering a status records.                       *)
EventsOf(status) ==
  CASE status = "PENDING"   -> {"ORDER_PLACED"}
    [] status = "CONFIRMED" -> {"ORDER_CONFIRMED"}
    [] status = "REJECTED"  -> {"ORDER_REJECTED"}
    [] OTHER                -> {}

(* The product of row is on sale: it and its category are active.          *)
Sellable(row, active) == row.isActive /\ active[row.categoryId]

(* Some order of table was placed by user u under this idempotency key.    *)
KeyUsed(table, u, key) ==
  \E o \in OrderIds :
    /\ table[o] # Null
    /\ table[o].userId = u /\ table[o].idempotencyKey = key

LessStock(table, lines) ==
  [p \in Products |-> [table[p] EXCEPT !.stock = @ - lines[p]]]

MoreStock(table, lines) ==
  [p \in Products |-> [table[p] EXCEPT !.stock = @ + lines[p]]]

Given(new, old) == IF new = Omitted THEN old ELSE new

Patched(row, changes) ==
  [stock      |-> Given(changes.stock, row.stock),
   priceVnd   |-> Given(changes.priceVnd, row.priceVnd),
   isActive   |-> Given(changes.isActive, row.isActive),
   categoryId |-> Given(changes.categoryId, row.categoryId)]

(* The order row that a checkout of lines at the prices of table inserts.  *)
NewOrder(u, key, hash, lines, table) ==
  [userId         |-> u,
   idempotencyKey |-> key,
   requestHash    |-> hash,
   items          |-> lines,
   unitPriceVnd   |-> [p \in Products |->
                         IF lines[p] > 0 THEN table[p].priceVnd ELSE 0],
   status         |-> "PENDING"]

HistoryEntry(from, to, actor) ==
  [fromStatus |-> from, toStatus |-> to, actorUserId |-> actor]
=============================================================================
