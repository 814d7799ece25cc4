------------------------------ MODULE OrderTx -------------------------------
(***************************************************************************)
(* Checkout, cart, order-status and product requests as the PostgreSQL     *)
(* transactions the services run: OrdersService, CartService and the       *)
(* product and category writers of ProductsService and CategoriesService.  *)
(*                                                                         *)
(* A request runs on a database connection.  Each SELECT ... FOR UPDATE or *)
(* FOR SHARE is a step of its own, one row at a time where the statement   *)
(* locks several; so is every read whose value a later step relies on.     *)
(* The writes of a transaction are seen by nobody before it commits and    *)
(* ask for no lock it does not hold, except where a foreign key is         *)
(* checked, so they are one step with the commit.  A transaction may roll  *)
(* back before that step, at any time.                                     *)
(***************************************************************************)
EXTENDS ShopData, RowLocks, FiniteSetsExt

CONSTANTS
  Conns,             \* database connections: requests running at a time
  Requests,          \* the requests clients may send
  CategoryPatches,   \* the <<id, isActive>> administrators may send
  MaxRequests        \* bound: requests sent in a behaviour

VARIABLES
  product, categoryActive, cart, orders, history, outbox,   \* the tables
  locks,      \* granted row locks [conn, row, mode]
  tx,         \* what each connection is doing
  acked,      \* <<user, key, hash, order>> of checkouts answered 200 or 201
  begun       \* requests sent so far

tables == <<product, categoryActive, cart, orders, history, outbox>>
vars == <<tables, locks, tx, acked, begun>>

Book == INSTANCE OrderBook

-----------------------------------------------------------------------------
CheckoutRequest ==
  [op : {"checkout"}, userId : Users, key : Keys, hash : Hashes]
CancelRequest == [op : {"cancel"}, userId : Users, orderId : OrderIds]
StatusRequest ==
  [op : {"updateStatusByAdmin"}, adminId : Admins, orderId : OrderIds,
   status : {"CONFIRMED", "REJECTED", "COMPLETED"}]
SetLineRequest ==
  [op : {"setCartItem"}, userId : Users, productId : Products,
   quantity : 1..MaxQuantity]
RemoveLineRequest ==
  [op : {"removeCartItem"}, userId : Users, productId : Products]
(* archiveProduct is the patch that only clears isActive.                  *)
PatchRequest ==
  [op : {"patchProduct"}, productId : Products, changes : ProductPatches]

Request ==
  CheckoutRequest \cup CancelRequest \cup StatusRequest \cup SetLineRequest
    \cup RemoveLineRequest \cup PatchRequest

ASSUME TxAssumption ==
  /\ Requests \subseteq Request
  /\ CategoryPatches \subseteq Categories \X BOOLEAN
  /\ IsFiniteSet(Conns) /\ MaxRequests \in Nat

(* The statement a connection is about to execute.                         *)
Step ==
  {"idle", "lockUser", "findReplay", "readCart", "lockProducts",
   "lockCategories", "placeOrder", "lockOrder", "moveOrder", "readLine",
   "writeLine", "readCategory", "patchProduct"}

(* A transaction: its request, and what it has read and still relies on.   *)
(*   lines       the cart it is ordering, or the items it gives back       *)
(*   seen        the product rows it has read and locked                   *)
(*   seenActive  the category rows it has read and locked                  *)
(*   status      the status of the order it has locked                     *)
Transaction ==
  [step       : Step,
   req        : Request \cup {Null},
   lines      : Lines,
   seen       : [Products -> ProductRow \cup {Null}],
   seenActive : [Categories -> BOOLEAN \cup {Null}],
   status     : Status \cup {Null}]

IdleTx ==
  [step |-> "idle", req |-> Null, lines |-> EmptyCart,
   seen |-> [p \in Products |-> Null],
   seenActive |-> [k \in Categories |-> Null],
   status |-> Null]

(* The modes the services' SELECTs ask for: pessimistic_write on users,    *)
(* orders and products, pessimistic_read on categories.                    *)
(* Mutant of each: the SELECT loses its lock clause.                       *)
NoLockClause == "KEY SHARE"

UserLock == "UPDATE"
OrderLock == "UPDATE"
ProductLock == "UPDATE"
CategoryLock == "SHARE"

UserRowOf(u) == <<"users", u>>
OrderRowOf(o) == <<"orders", o>>
ProductRowOf(p) == <<"products", p>>
CategoryRowOf(k) == <<"categories", k>>

Row ==
  {UserRowOf(u) : u \in Users \cup Admins} \cup {OrderRowOf(o) : o \in OrderIds}
    \cup {ProductRowOf(p) : p \in Products}
    \cup {CategoryRowOf(k) : k \in Categories}

-----------------------------------------------------------------------------
Op(c) == tx[c].req.op
Customer(c) == tx[c].req.userId

(* Mutant of Smallest: ids are locked in the order they come.              *)
InAnyOrder(S) == S

Smallest(S) == {x \in S : \A y \in S : x <= y}

(* Product ids a transaction locks: one for a patch, those of its lines    *)
(* otherwise; and the next of them, in ascending order.                    *)
ProductsNamed(c) ==
  IF Op(c) = "patchProduct" THEN {tx[c].req.productId} ELSE Bought(tx[c].lines)

ProductsToLock(c) == {p \in ProductsNamed(c) : tx[c].seen[p] = Null}

CategoriesNamed(c) == {tx[c].seen[p].categoryId : p \in Bought(tx[c].lines)}

CategoriesToLock(c) == {k \in CategoriesNamed(c) : tx[c].seenActive[k] = Null}

(* Where a move takes its order, who makes it, and whether it gives the    *)
(* order's items back to stock.                                            *)
Target(c) == IF Op(c) = "cancel" THEN "CANCELLED" ELSE tx[c].req.status
Actor(c) == IF Op(c) = "cancel" THEN tx[c].req.userId ELSE tx[c].req.adminId
GivesBack(c) == Target(c) \in {"CANCELLED", "REJECTED"}

(* The lock [row, mode] the next statement of c asks for, if it asks for   *)
(* one.  The last two come from foreign keys: a history row refers to its  *)
(* actor, a new cart line to its product.                                  *)
Wants(c) ==
  CASE tx[c].step = "lockUser" ->
         {[row |-> UserRowOf(Customer(c)), mode |-> UserLock]}
    [] tx[c].step = "lockOrder" ->
         {[row |-> OrderRowOf(tx[c].req.orderId), mode |-> OrderLock]}
    [] tx[c].step = "lockProducts" ->
         {[row |-> ProductRowOf(p), mode |-> ProductLock] :
            p \in Smallest(ProductsToLock(c))}
    [] tx[c].step = "lockCategories" ->
         {[row |-> CategoryRowOf(k), mode |-> CategoryLock] :
            k \in Smallest(CategoriesToLock(c))}
    [] tx[c].step = "moveOrder" ->
         {[row |-> UserRowOf(Actor(c)), mode |-> "KEY SHARE"]}
    [] tx[c].step = "writeLine" /\ Op(c) = "setCartItem" ->
         {[row |-> ProductRowOf(p), mode |-> "KEY SHARE"] :
            p \in {tx[c].req.productId} \ Bought(cart[Customer(c)])}
    [] OTHER -> {}

Acquire(c, row, mode) ==
  /\ Grantable(locks, c, row, mode)
  /\ locks' = locks \cup {[conn |-> c, row |-> row, mode |-> mode]}

ReleaseAll(c) == locks' = {l \in locks : l.conn # c}

(* Commit or roll back: the connection is free and its locks are gone.     *)
Finish(c) == tx' = [tx EXCEPT ![c] = IdleTx] /\ ReleaseAll(c)

(* Mutant of Refuse: a handler that throws leaves its transaction open.    *)
RefuseWithoutRollback(c) ==
  /\ tx' = [tx EXCEPT ![c] = IdleTx]
  /\ UNCHANGED <<tables, locks, acked, begun>>

(* The handler throws (404, 409): the transaction rolls back.              *)
Refuse(c) == Finish(c) /\ UNCHANGED <<tables, acked, begun>>

Goto(c, step) == tx' = [tx EXCEPT ![c].step = step]

-----------------------------------------------------------------------------
(* A request arrives at a free connection and opens its transaction.       *)
FirstStep(op) ==
  CASE op \in {"checkout", "setCartItem", "removeCartItem"} -> "lockUser"
    [] op \in {"cancel", "updateStatusByAdmin"}             -> "lockOrder"
    [] op = "patchProduct"                                  -> "lockProducts"

Begin(c, r) ==
  /\ tx[c].step = "idle"
  /\ begun < MaxRequests
  /\ begun' = begun + 1
  /\ tx' = [tx EXCEPT ![c].step = FirstStep(r.op), ![c].req = r]
  /\ UNCHANGED <<tables, locks, acked>>

(* lockUserRow, of the orders and of the cart service.                     *)
LockUser(c) ==
  /\ tx[c].step = "lockUser"
  /\ Acquire(c, UserRowOf(Customer(c)), UserLock)
  /\ Goto(c, CASE Op(c) = "checkout"       -> "findReplay"
               [] Op(c) = "setCartItem"    -> "readLine"
               [] Op(c) = "removeCartItem" -> "writeLine")
  /\ UNCHANGED <<tables, acked, begun>>

-----------------------------------------------------------------------------
(* Checkout.  findReplay: the order already placed under this user and key *)
(* is the answer when the body is the same, and a conflict when it is not. *)
(* Mutant of SameKey: the search forgets whose key it is.                  *)
AnyonesKey(c, o) == orders[o] # Null /\ orders[o].idempotencyKey = tx[c].req.key

SameKey(c, o) ==
  /\ orders[o] # Null
  /\ orders[o].userId = Customer(c)
  /\ orders[o].idempotencyKey = tx[c].req.key

FindReplay(c) ==
  /\ tx[c].step = "findReplay"
  /\ ~\E o \in OrderIds : SameKey(c, o)
  /\ Goto(c, "readCart")
  /\ UNCHANGED <<tables, locks, acked, begun>>

AnswerReplay(c) ==
  /\ tx[c].step = "findReplay"
  /\ \E o \in OrderIds :
       /\ SameKey(c, o)
       /\ orders[o].requestHash = tx[c].req.hash
       /\ acked' = acked \cup {<<Customer(c), tx[c].req.key, tx[c].req.hash, o>>}
  /\ Finish(c)
  /\ UNCHANGED <<tables, begun>>

RefuseReplay(c) ==
  /\ tx[c].step = "findReplay"
  /\ \E o \in OrderIds :
       SameKey(c, o) /\ orders[o].requestHash # tx[c].req.hash
  /\ Refuse(c)

ReadCart(c) ==
  /\ tx[c].step = "readCart"
  /\ Bought(cart[Customer(c)]) # {}
  /\ tx' = [tx EXCEPT ![c].lines = cart[Customer(c)], ![c].step = "lockProducts"]
  /\ UNCHANGED <<tables, locks, acked, begun>>

RefuseEmptyCart(c) ==
  /\ tx[c].step = "readCart"
  /\ Bought(cart[Customer(c)]) = {}
  /\ Refuse(c)

(* lockProducts, one row: the value read is the one the lock protects.     *)
(* Restoring stock and patching a product lock their rows the same way.    *)
AfterProducts(op) ==
  CASE op = "checkout"                         -> "lockCategories"
    [] op \in {"cancel", "updateStatusByAdmin"} -> "moveOrder"
    [] op = "patchProduct"                     -> "readCategory"

LockProduct(c) ==
  /\ tx[c].step = "lockProducts"
  /\ \E p \in Smallest(ProductsToLock(c)) :
       /\ Acquire(c, ProductRowOf(p), ProductLock)
       /\ tx' = [tx EXCEPT ![c].seen[p] = product[p],
                           ![c].step = IF ProductsToLock(c) = {p}
                                       THEN AfterProducts(Op(c)) ELSE @]
  /\ UNCHANGED <<tables, acked, begun>>

(* lockActiveCategoryIds, one row.                                         *)
LockCategory(c) ==
  /\ tx[c].step = "lockCategories"
  /\ \E k \in Smallest(CategoriesToLock(c)) :
       /\ Acquire(c, CategoryRowOf(k), CategoryLock)
       /\ tx' = [tx EXCEPT ![c].seenActive[k] = categoryActive[k],
                           ![c].step = IF CategoriesToLock(c) = {k}
                                       THEN "placeOrder" ELSE @]
  /\ UNCHANGED <<tables, acked, begun>>

(* Mutant of Accepted: nobody compares the stock with the quantity.        *)
AcceptedBeyondStock(c) ==
  /\ \A p \in Bought(tx[c].lines) : Sellable(tx[c].seen[p], tx[c].seenActive)
  /\ ~KeyUsed(orders, Customer(c), tx[c].req.key)

(* Every line passes toCheckoutOrderItem, on the rows read under lock; the *)
(* stock update matches every product; the unique (user, key) holds.       *)
Accepted(c) ==
  LET lines == tx[c].lines
      seen  == tx[c].seen
  IN /\ \A p \in Bought(lines) :
          /\ Sellable(seen[p], tx[c].seenActive)
          /\ seen[p].stock >= lines[p]
          /\ product[p].stock >= lines[p]
     /\ ~KeyUsed(orders, Customer(c), tx[c].req.key)

(* Insert order, items, history and notification, take the stock, empty    *)
(* the cart, commit.  Ids are only names: the lowest free one is taken.    *)
PlaceOrder(c) ==
  LET u == Customer(c)
      r == tx[c].req
  IN /\ tx[c].step = "placeOrder"
     /\ Accepted(c)
     /\ \E o \in Smallest({i \in OrderIds : orders[i] = Null}) :
          /\ orders' = [orders EXCEPT ![o] =
                          NewOrder(u, r.key, r.hash, tx[c].lines, tx[c].seen)]
          /\ history' = [history EXCEPT ![o] =
                           <<HistoryEntry("NULL", "PENDING", u)>>]
          /\ outbox' = outbox \cup {<<o, e>> : e \in EventsOf("PENDING")}
          /\ acked' = acked \cup {<<u, r.key, r.hash, o>>}
     /\ product' = LessStock(product, tx[c].lines)
     /\ cart' = [cart EXCEPT ![u] = EmptyCart]
     /\ Finish(c)
     /\ UNCHANGED <<categoryActive, begun>>

RefuseOrder(c) ==
  /\ tx[c].step = "placeOrder"
  /\ ~Accepted(c)
  /\ Refuse(c)

-----------------------------------------------------------------------------
(* Cancel and updateStatusByAdmin: the order row is locked and its status  *)
(* read under the lock.  A missing order, one of another customer, and an  *)
(* edge the caller may not take are refused.                               *)
Found(c, o) == o # Null /\ (Op(c) = "cancel" => o.userId = Customer(c))

MayMove(c, o) ==
  IF Op(c) = "cancel" THEN o.status = "PENDING"
  ELSE <<o.status, tx[c].req.status>> \in AdminTransitions

LockOrder(c) ==
  LET o == orders[tx[c].req.orderId]
  IN /\ tx[c].step = "lockOrder"
     /\ Found(c, o)
     /\ Acquire(c, OrderRowOf(tx[c].req.orderId), OrderLock)
     /\ MayMove(c, o)
     /\ tx' = [tx EXCEPT ![c].status = o.status,
                         ![c].lines = IF GivesBack(c) THEN o.items ELSE @,
                         ![c].step = IF GivesBack(c) THEN "lockProducts"
                                     ELSE "moveOrder"]
     /\ UNCHANGED <<tables, acked, begun>>

RefuseMove(c) ==
  LET o == orders[tx[c].req.orderId]
  IN /\ tx[c].step = "lockOrder"
     /\ Found(c, o) => /\ Grantable(locks, c, OrderRowOf(tx[c].req.orderId), OrderLock)
                       /\ ~MayMove(c, o)
     /\ Refuse(c)

(* Give the stock back, set the status, append the history row (its actor  *)
(* is a foreign key on users), record the e-mail, commit.                  *)
MoveOrder(c) ==
  LET o == tx[c].req.orderId
  IN /\ tx[c].step = "moveOrder"
     /\ Grantable(locks, c, UserRowOf(Actor(c)), "KEY SHARE")
     /\ product' = MoreStock(product, tx[c].lines)
     /\ orders' = [orders EXCEPT ![o].status = Target(c)]
     /\ history' = [history EXCEPT ![o] =
                      Append(@, HistoryEntry(tx[c].status, Target(c), Actor(c)))]
     /\ outbox' = outbox \cup {<<o, e>> : e \in EventsOf(Target(c))}
     /\ Finish(c)
     /\ UNCHANGED <<categoryActive, cart, acked, begun>>

-----------------------------------------------------------------------------
(* setCartItem: the product is read without a lock; a product off sale, a  *)
(* quantity above the stock, and one line too many are refused.            *)
LineAllowed(c) ==
  LET r    == tx[c].req
      mine == Bought(cart[r.userId])
  IN /\ Sellable(product[r.productId], categoryActive)
     /\ r.quantity <= product[r.productId].stock
     /\ r.productId \in mine \/ Cardinality(mine) < MaxCartLines

ReadLine(c) ==
  /\ tx[c].step = "readLine"
  /\ LineAllowed(c)
  /\ Goto(c, "writeLine")
  /\ UNCHANGED <<tables, locks, acked, begun>>

RefuseLine(c) ==
  /\ tx[c].step = "readLine"
  /\ ~LineAllowed(c)
  /\ Refuse(c)

(* Update or insert the line and commit; inserting checks the foreign key  *)
(* on products.  removeCartItem deletes the line, if there is one.         *)
WriteLine(c) ==
  LET r == tx[c].req
  IN /\ tx[c].step = "writeLine"
     /\ \A w \in Wants(c) : Grantable(locks, c, w.row, w.mode)
     /\ cart' = [cart EXCEPT ![r.userId][r.productId] =
                   IF r.op = "setCartItem" THEN r.quantity ELSE 0]
     /\ Finish(c)
     /\ UNCHANGED <<product, categoryActive, orders, history, outbox, acked, begun>>

-----------------------------------------------------------------------------
(* patchProduct under the product lock: a new category must be active when *)
(* loadUsableCategory reads it, which it does without a lock.              *)
PatchAllowed(c) ==
  LET k == tx[c].req.changes.categoryId
  IN k # Omitted => categoryActive[k]

ReadCategory(c) ==
  /\ tx[c].step = "readCategory"
  /\ PatchAllowed(c)
  /\ Goto(c, "patchProduct")
  /\ UNCHANGED <<tables, locks, acked, begun>>

RefusePatch(c) ==
  /\ tx[c].step = "readCategory"
  /\ ~PatchAllowed(c)
  /\ Refuse(c)

PatchProduct(c) ==
  LET r == tx[c].req
  IN /\ tx[c].step = "patchProduct"
     /\ product' = [product EXCEPT ![r.productId] = Patched(@, r.changes)]
     /\ Finish(c)
     /\ UNCHANGED <<categoryActive, cart, orders, history, outbox, acked, begun>>

(* patchCategory is one UPDATE statement in a transaction of its own.      *)
PatchCategory(k, active) ==
  /\ begun < MaxRequests
  /\ begun' = begun + 1
  /\ \A l \in locks : l.row = CategoryRowOf(k) => ~Conflicts(l.mode, "NO KEY UPDATE")
  /\ categoryActive' = [categoryActive EXCEPT ![k] = active]
  /\ UNCHANGED <<product, cart, orders, history, outbox, locks, tx, acked>>

-----------------------------------------------------------------------------
(* c waits for d: d holds a lock that conflicts with the one c asks for.   *)
WaitsFor(c, d) ==
  \E w \in Wants(c), l \in locks :
    l.conn = d /\ d # c /\ l.row = w.row /\ Conflicts(l.mode, w.mode)

(* Connections that wait for one another, none of them in vain.            *)
Deadlocked(S) == S # {} /\ \A c \in S : \E d \in S : WaitsFor(c, d)

Cycle(S) == Deadlocked(S) /\ \A R \in SUBSET S : Deadlocked(R) => R = S

(* The database breaks a deadlock by rolling back one of its transactions. *)
DeadlockVictim(c) ==
  /\ \E S \in SUBSET Conns : c \in S /\ Cycle(S)
  /\ Refuse(c)

(* The process or the connection dies: the transaction rolls back.         *)
Crash(c) ==
  /\ tx[c].step # "idle"
  /\ Refuse(c)

-----------------------------------------------------------------------------
Init ==
  /\ Book!Init
  /\ locks = {}
  /\ tx = [c \in Conns |-> IdleTx]
  /\ acked = {}
  /\ begun = 0

(* The next statement of the request that c is running.                    *)
Work(c) ==
  \/ LockUser(c)
  \/ FindReplay(c) \/ AnswerReplay(c) \/ RefuseReplay(c)
  \/ ReadCart(c) \/ RefuseEmptyCart(c)
  \/ LockProduct(c) \/ LockCategory(c)
  \/ PlaceOrder(c) \/ RefuseOrder(c)
  \/ LockOrder(c) \/ RefuseMove(c) \/ MoveOrder(c)
  \/ ReadLine(c) \/ RefuseLine(c) \/ WriteLine(c)
  \/ ReadCategory(c) \/ RefusePatch(c) \/ PatchProduct(c)

(* The bound is reached and every request has ended.                       *)
Done ==
  /\ begun = MaxRequests
  /\ \A c \in Conns : tx[c].step = "idle"
  /\ UNCHANGED vars

Next ==
  \/ \E c \in Conns :
       \/ \E r \in Requests : Begin(c, r)
       \/ Work(c)
       \/ DeadlockVictim(c)
       \/ Crash(c)
  \/ \E patch \in CategoryPatches : PatchCategory(patch[1], patch[2])
  \/ Done

(* A connection executes the statements of its request, and PostgreSQL     *)
(* looks for deadlocks; nobody is obliged to send a request or to crash.   *)
Fairness ==
  \A c \in Conns : WF_vars(Work(c)) /\ WF_vars(DeadlockVictim(c))

Spec == Init /\ [][Next]_vars
FairSpec == Spec /\ Fairness

-----------------------------------------------------------------------------
TypeOK ==
  /\ product \in [Products -> ProductRow]
  /\ categoryActive \in [Categories -> BOOLEAN]
  /\ cart \in [Users -> Lines]
  /\ orders \in [OrderIds -> Order \cup {Null}]
  /\ history \in [OrderIds -> Seq(HistoryRow)]
  /\ outbox \subseteq OrderIds \X EventType
  /\ locks \subseteq [conn : Conns, row : Row, mode : LockMode]
  /\ tx \in [Conns -> Transaction]
  /\ acked \subseteq Users \X Keys \X Hashes \X OrderIds
  /\ begun \in 0..MaxRequests

(* A checkout that has read its cart.                                      *)
HasCart(t) ==
  t.step \in {"lockProducts", "lockCategories", "placeOrder"}
    /\ t.req \in CheckoutRequest

(* What a checkout has read under its locks is still so when it writes: no *)
(* other request has changed the cart it is ordering, the product and      *)
(* category rows it validated and prices the order from, or has placed an  *)
(* order under its key since it looked for one (orders.service.ts          *)
(* checkout: user, product and category locks held to the commit).         *)
ReadsTrue(c) ==
  /\ \A p \in Products : tx[c].seen[p] \in {Null, product[p]}
  /\ \A k \in Categories : tx[c].seenActive[k] \in {Null, categoryActive[k]}
  /\ HasCart(tx[c]) => tx[c].lines = cart[Customer(c)]
  /\ tx[c].step = "readCart" \/ HasCart(tx[c])
       => ~KeyUsed(orders, Customer(c), tx[c].req.key)

ReadsStillTrue == \A c \in Conns : ReadsTrue(c)

(* The history of an order tells how it came to its status: one chain of   *)
(* legal edges from its creation, customers cancelling only their own      *)
(* orders; and its e-mails are those of the statuses it went through.      *)
(* Confirm, reject and cancel that race on one order cannot both win.      *)
HistoryOf(o) ==
  LET h == history[o]
      n == Len(h)
  IN IF orders[o] = Null
     THEN h = <<>> /\ \A e \in EventType : <<o, e>> \notin outbox
     ELSE /\ n > 0
          /\ h[1] = HistoryEntry("NULL", "PENDING", orders[o].userId)
          /\ h[n].toStatus = orders[o].status
          /\ \A i \in 2..n :
               /\ h[i].fromStatus = h[i-1].toStatus
               /\ <<h[i].fromStatus, h[i].toStatus>> \in Transitions
               /\ h[i].toStatus = "CANCELLED" => h[i].actorUserId = orders[o].userId
               /\ h[i].toStatus # "CANCELLED" => h[i].actorUserId \in Admins
          /\ \A e \in EventType :
               <<o, e>> \in outbox <=> \E i \in 1..n : e \in EventsOf(h[i].toStatus)

HistoryTellsStatus == \A o \in OrderIds : HistoryOf(o)

(* A checkout answered with an order is answered truthfully and for good:  *)
(* the order exists, is the caller's, was placed with that key and body,   *)
(* and no retry of the key is ever answered with another order             *)
(* (findReplay).                                                           *)
AnswersAgree ==
  \A a \in acked :
    /\ orders[a[4]] # Null
    /\ orders[a[4]].userId = a[1]
    /\ orders[a[4]].idempotencyKey = a[2]
    /\ orders[a[4]].requestHash = a[3]
    /\ \A b \in acked : b[1] = a[1] /\ b[2] = a[2] => b = a

(* Units of p that orders hold: placed and neither cancelled nor rejected. *)
HeldBy(p) ==
  [o \in OrderIds |-> IF orders[o] # Null /\ HoldsStock(orders[o])
                      THEN orders[o].items[p] ELSE 0]
Held(p) == MapThenSumSet(LAMBDA o : HeldBy(p)[o], OrderIds)

(* Stock is neither lost nor made up: a step leaves the sum of what is on  *)
(* the shelf and what orders hold as it was, for every product, unless it  *)
(* is an administrator's patch that sets that product's stock.  Giving an  *)
(* order back twice, or taking stock for no order, breaks it               *)
(* (decrementProductStock, restoreOrderStock).                             *)
SetsStock(p) ==
  \E c \in Conns :
    /\ tx[c].step = "patchProduct" /\ tx'[c].step = "idle"
    /\ tx[c].req.productId = p
    /\ tx[c].req.changes.stock # Omitted
    /\ product'[p].stock = tx[c].req.changes.stock

StockConserved ==
  [][\A p \in Products :
       \/ product'[p].stock + Held(p)' = product[p].stock + Held(p)
       \/ SetsStock(p)]_vars

(* Every request is a single atomic operation on the tables it finds at    *)
(* the instant it commits, or has no effect.                               *)
AtomicBook == Book!Spec

(* The claim that product locks in ascending order keep checkouts and      *)
(* administrators' edits from deadlocking (lockProducts) holds of every    *)
(* deadlock but one kind: whenever transactions wait in a circle, one of   *)
(* them is a cancellation that waits for its own customer's row.           *)
OnlyCancelDeadlocks ==
  \A S \in SUBSET Conns :
    Deadlocked(S) =>
      \E c, d \in S :
        /\ tx[c].step = "moveOrder" /\ Op(c) = "cancel"
        /\ WaitsFor(c, d)
        /\ Op(d) \in {"checkout", "setCartItem"} /\ Customer(d) = Customer(c)

(* What database.md section 7 says of the moves of an order: they never    *)
(* form a circle of waits with a checkout.                                 *)
NoWaitCycleWithCheckout ==
  \A S \in SUBSET Conns : Cycle(S) => \A c \in S : Op(c) # "checkout"

(* A request that has begun ends: it commits, is refused or rolls back,    *)
(* and leaves its connection and its locks free.                           *)
RequestsEnd ==
  \A c \in Conns : tx[c].step # "idle" ~> tx[c].step = "idle"

-----------------------------------------------------------------------------
(* The inductive invariant of OrderTxProofs.                               *)

MoveRequest == CancelRequest \cup StatusRequest
LineRequest == SetLineRequest \cup RemoveLineRequest

(* A transaction is at a step its request goes through, with what the      *)
(* steps before it have read.                                              *)
Fits(t) ==
  /\ t.step = "idle" => t = IdleTx
  /\ t.step = "lockUser" => t.req \in CheckoutRequest \cup LineRequest
  /\ t.step \in {"findReplay", "readCart", "lockCategories", "placeOrder"} =>
       t.req \in CheckoutRequest
  /\ t.step = "lockProducts" =>
       t.req \in CheckoutRequest \cup MoveRequest \cup PatchRequest
  /\ t.step \in {"lockOrder", "moveOrder"} => t.req \in MoveRequest
  /\ t.step = "readLine" => t.req \in SetLineRequest
  /\ t.step = "writeLine" => t.req \in LineRequest
  /\ t.step \in {"readCategory", "patchProduct"} =>
       t.req \in PatchRequest /\ t.seen[t.req.productId] # Null
  /\ t.step = "lockOrder" => t.lines = EmptyCart
  /\ t.step \in {"lockCategories", "placeOrder", "moveOrder"} =>
       \A p \in Bought(t.lines) : t.seen[p] # Null
  /\ t.step = "placeOrder" =>
       \A p \in Bought(t.lines) : t.seenActive[t.seen[p].categoryId] # Null

StepsFit == \A c \in Conns : Fits(tx[c])

Holds(c, row, mode) == [conn |-> c, row |-> row, mode |-> mode] \in locks

HasUser(t) ==
  HasCart(t) \/ t.step \in {"findReplay", "readCart", "readLine", "writeLine"}

HasOrder(t) ==
  t.step \in {"lockProducts", "moveOrder"} /\ t.req \in MoveRequest

(* A transaction holds the lock of every row it has read under lock, and   *)
(* the lock manager keeps conflicting locks apart.                         *)
LocksOf(c) ==
  /\ HasUser(tx[c]) => Holds(c, UserRowOf(Customer(c)), "UPDATE")
  /\ HasOrder(tx[c]) => Holds(c, OrderRowOf(tx[c].req.orderId), "UPDATE")
  /\ \A p \in Products :
       tx[c].seen[p] # Null => Holds(c, ProductRowOf(p), "UPDATE")
  /\ \A k \in Categories :
       tx[c].seenActive[k] # Null => Holds(c, CategoryRowOf(k), "SHARE")

LocksFit == Compatible(locks) /\ \A c \in Conns : LocksOf(c)

(* A move that has locked its order still may make it, and gives back      *)
(* exactly the order's items; a cart that is being ordered is not empty;   *)
(* a line that is being written has room.                                  *)
MayWrite(c) ==
  LET r == tx[c].req
  IN /\ HasOrder(tx[c]) =>
          LET o == orders[r.orderId]
          IN /\ o # Null
             /\ o.status = tx[c].status
             /\ <<o.status, Target(c)>> \in Transitions
             /\ r \in CancelRequest => o.userId = r.userId
             /\ tx[c].lines = IF GivesBack(c) THEN o.items ELSE EmptyCart
     /\ HasCart(tx[c]) => Bought(tx[c].lines) # {}
     /\ tx[c].step = "writeLine" /\ r \in SetLineRequest
          /\ cart[r.userId][r.productId] = 0
          => Cardinality(Bought(cart[r.userId])) < MaxCartLines

WritesStillLegal == \A c \in Conns : MayWrite(c)

(* The unique (user, key) of orders, on which no insert ever fails.        *)
OneOrderPerKey ==
  \A i, j \in OrderIds :
    /\ orders[i] # Null /\ orders[j] # Null
    /\ orders[i].userId = orders[j].userId
    /\ orders[i].idempotencyKey = orders[j].idempotencyKey
    => i = j

Inv ==
  /\ TypeOK /\ StepsFit /\ LocksFit /\ ReadsStillTrue /\ WritesStillLegal
  /\ HistoryTellsStatus /\ AnswersAgree /\ OneOrderPerKey
=============================================================================
