----------------------------- MODULE OrderBook ------------------------------
(***************************************************************************)
(* What ordering promises, as if every request took effect at one instant  *)
(* on a single copy of the tables.  OrderTx, whose requests are            *)
(* transactions of many statements that overlap, fail and deadlock, is     *)
(* shown to implement this specification.                                  *)
(***************************************************************************)
EXTENDS ShopData

VARIABLES
  product,         \* products, by id
  categoryActive,  \* categories.is_active, by id
  cart,            \* cart_items, by user: the lines of the user's cart
  orders,          \* orders, by id; Null when no such order exists
  history,         \* order_status_history, by order
  outbox           \* email_notifications: pairs of an order and an event

tables == <<product, categoryActive, cart, orders, history, outbox>>

-----------------------------------------------------------------------------
(* The customer's whole cart becomes one order, at today's prices, out of  *)
(* stock that is there, from products that are on sale.                    *)
Checkout(u, key, hash, o) ==
  /\ orders[o] = Null
  /\ ~KeyUsed(orders, u, key)
  /\ Bought(cart[u]) # {}
  /\ \A p \in Bought(cart[u]) : Sellable(product[p], categoryActive) /\ product[p].stock >= cart[u][p]
  /\ orders' = [orders EXCEPT ![o] = NewOrder(u, key, hash, cart[u], product)]
  /\ history' = [history EXCEPT ![o] = <<HistoryEntry("NULL", "PENDING", u)>>]
  /\ outbox' = outbox \cup {<<o, e>> : e \in EventsOf("PENDING")}
  /\ product' = LessStock(product, cart[u])
  /\ cart' = [cart EXCEPT ![u] = EmptyCart]
  /\ UNCHANGED categoryActive

(* An order moves along one legal edge; stock comes back exactly when the  *)
(* order stops holding it; the move is recorded with who made it.          *)
Move(o, to, actor) ==
  /\ orders[o] # Null
  /\ <<orders[o].status, to>> \in Transitions
  /\ to = "CANCELLED" => actor = orders[o].userId
  /\ to # "CANCELLED" => actor \in Admins
  /\ orders' = [orders EXCEPT ![o].status = to]
  /\ history' = [history EXCEPT ![o] =
                   Append(@, HistoryEntry(orders[o].status, to, actor))]
  /\ outbox' = outbox \cup {<<o, e>> : e \in EventsOf(to)}
  /\ product' = IF to \in {"CANCELLED", "REJECTED"}
                THEN MoreStock(product, orders[o].items)
                ELSE product
  /\ UNCHANGED <<categoryActive, cart>>

(* A cart line is set, or removed (quantity 0); a new line needs room.     *)
SetLine(u, p, quantity) ==
  /\ quantity > 0 /\ cart[u][p] = 0 => Cardinality(Bought(cart[u])) < MaxCartLines
  /\ cart' = [cart EXCEPT ![u][p] = quantity]
  /\ UNCHANGED <<product, categoryActive, orders, history, outbox>>

EditProduct(p, changes) ==
  /\ product' = [product EXCEPT ![p] = Patched(@, changes)]
  /\ UNCHANGED <<categoryActive, cart, orders, history, outbox>>

EditCategory(k, active) ==
  /\ categoryActive' = [categoryActive EXCEPT ![k] = active]
  /\ UNCHANGED <<product, cart, orders, history, outbox>>

-----------------------------------------------------------------------------
Init ==
  /\ product = InitialProducts
  /\ categoryActive = [k \in Categories |-> TRUE]
  /\ cart = InitialCarts
  /\ orders = [o \in OrderIds |-> Null]
  /\ history = [o \in OrderIds |-> <<>>]
  /\ outbox = {}

Next ==
  \/ \E u \in Users, key \in Keys, hash \in Hashes, o \in OrderIds :
       Checkout(u, key, hash, o)
  \/ \E o \in OrderIds, to \in Status, actor \in Users \cup Admins :
       Move(o, to, actor)
  \/ \E u \in Users, p \in Products, q \in 0..MaxQuantity : SetLine(u, p, q)
  \/ \E p \in Products, changes \in ProductPatches : EditProduct(p, changes)
  \/ \E k \in Categories, active \in BOOLEAN : EditCategory(k, active)

Spec == Init /\ [][Next]_tables
=============================================================================
