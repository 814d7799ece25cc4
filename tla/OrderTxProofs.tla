--------------------------- MODULE OrderTxProofs ----------------------------
(***************************************************************************)
(* Inv is an inductive invariant of OrderTx, OrderTx implements OrderBook, *)
(* stock is conserved, and only cancellations close a circle of waits, for *)
(* every set of customers, products, connections and requests.             *)
(*                                                                         *)
(* The argument: a step changes rows only in the transaction that ends     *)
(* with it, and every row it changes is one that transaction has locked    *)
(* FOR UPDATE.  A row another transaction has read under a lock of its own *)
(* is therefore not among them, since the two locks would conflict.        *)
(***************************************************************************)
EXTENDS OrderTx, SumTheorems

-----------------------------------------------------------------------------
(* Types: every step keeps the variables in their types and transactions   *)
(* at the steps of their requests; one lemma per action.                   *)

LEMMA IdleTyped == IdleTx \in Transaction /\ Fits(IdleTx)
  BY ShopAssumption DEF IdleTx, Transaction, Step, Lines, EmptyCart, Fits, Bought

LEMMA LockModes ==
  {UserLock, OrderLock, ProductLock, CategoryLock} \subseteq LockMode
  BY DEF UserLock, OrderLock, ProductLock, CategoryLock, LockMode

(* Only the transaction of c changes, to one that is typed and fits.       *)
LEMMA FitStep ==
  ASSUME tx \in [Conns -> Transaction], StepsFit,
         NEW c \in Conns, NEW t \in Transaction, Fits(t),
         tx' = [tx EXCEPT ![c] = t]
  PROVE  tx' \in [Conns -> Transaction] /\ StepsFit'
  BY DEF StepsFit

LEMMA AcquireTyped ==
  ASSUME TypeOK, NEW c \in Conns, NEW row \in Row, NEW mode \in LockMode,
         Acquire(c, row, mode)
  PROVE  locks' \subseteq [conn : Conns, row : Row, mode : LockMode]
  BY DEF TypeOK, Acquire

LEMMA FinishTyped ==
  ASSUME TypeOK, StepsFit, NEW c \in Conns, Finish(c)
  PROVE  /\ tx' \in [Conns -> Transaction] /\ StepsFit'
         /\ locks' \subseteq [conn : Conns, row : Row, mode : LockMode]
  BY IdleTyped, FitStep DEF TypeOK, Finish, ReleaseAll

LEMMA RefuseTyped ==
  ASSUME TypeOK, StepsFit, NEW c \in Conns, Refuse(c)
  PROVE  TypeOK' /\ StepsFit'
  BY FinishTyped DEF TypeOK, Refuse, tables

LEMMA RequestOps ==
  \A r \in Request :
    /\ r.op = "checkout" => r \in CheckoutRequest
    /\ r.op = "cancel" => r \in CancelRequest
    /\ r.op = "updateStatusByAdmin" => r \in StatusRequest
    /\ r.op = "setCartItem" => r \in SetLineRequest
    /\ r.op = "removeCartItem" => r \in RemoveLineRequest
    /\ r.op = "patchProduct" => r \in PatchRequest
    /\ r.op \in {"checkout", "cancel", "updateStatusByAdmin", "setCartItem",
                 "removeCartItem", "patchProduct"}
  BY DEF Request, CheckoutRequest, CancelRequest, StatusRequest, SetLineRequest,
         RemoveLineRequest, PatchRequest

LEMMA TypeInit == Init => TypeOK /\ StepsFit
  BY ShopAssumption, TxAssumption, IdleTyped
  DEF Init, Book!Init, TypeOK, StepsFit

LEMMA TypeBegin ==
  ASSUME TypeOK, StepsFit, NEW c \in Conns, NEW r \in Requests, Begin(c, r)
  PROVE  TypeOK' /\ StepsFit'
  <1> DEFINE t == [tx[c] EXCEPT !.step = FirstStep(r.op), !.req = r]
  <1>1. r \in Request
    BY TxAssumption
  <1>2. tx[c] = IdleTx
    BY DEF Begin, StepsFit, Fits
  <1>3. FirstStep(r.op) \in {"lockUser", "lockOrder", "lockProducts"}
    BY <1>1, RequestOps DEF FirstStep
  <1>4. t \in Transaction
    BY <1>1, <1>2, <1>3, IdleTyped DEF Transaction, Step
  <1>5. Fits(t)
    BY <1>1, <1>2, <1>3, RequestOps
    DEF Fits, FirstStep, IdleTx, MoveRequest, LineRequest
  <1>6. tx' = [tx EXCEPT ![c] = t]
    BY DEF Begin, TypeOK
  <1> HIDE DEF t
  <1>7. begun' \in 0..MaxRequests
    BY TxAssumption DEF TypeOK, Begin
  <1> QED
    BY <1>4, <1>5, <1>6, <1>7, FitStep DEF TypeOK, Begin, tables

LEMMA TypeLockUser ==
  ASSUME TypeOK, StepsFit, NEW c \in Conns, LockUser(c)
  PROVE  TypeOK' /\ StepsFit'
  <1> DEFINE t == [tx[c] EXCEPT !.step =
                     CASE Op(c) = "checkout"       -> "findReplay"
                       [] Op(c) = "setCartItem"    -> "readLine"
                       [] Op(c) = "removeCartItem" -> "writeLine"]
  <1>1. tx[c].req \in CheckoutRequest \cup LineRequest /\ tx[c] \in Transaction
    BY DEF LockUser, StepsFit, Fits, TypeOK
  <1>2. t \in Transaction /\ Fits(t)
    BY <1>1 DEF Transaction, Fits, Op, Step, LineRequest, SetLineRequest,
                RemoveLineRequest, CheckoutRequest
  <1>3. tx' = [tx EXCEPT ![c] = t]
    BY DEF LockUser, Goto, TypeOK
  <1>4. UserRowOf(Customer(c)) \in Row
    BY <1>1 DEF Customer, Row, LineRequest, SetLineRequest, RemoveLineRequest,
                CheckoutRequest
  <1> HIDE DEF t
  <1> QED
    BY <1>2, <1>3, <1>4, LockModes, AcquireTyped, FitStep
    DEF TypeOK, LockUser, tables

(* The steps that only move on to another step.                            *)
LEMMA TypeGoto ==
  ASSUME TypeOK, StepsFit, NEW c \in Conns,
         FindReplay(c) \/ ReadLine(c) \/ ReadCategory(c)
  PROVE  TypeOK' /\ StepsFit'
  <1> DEFINE t == [tx[c] EXCEPT !.step = CASE tx[c].step = "findReplay" -> "readCart"
                                           [] tx[c].step = "readLine"   -> "writeLine"
                                           [] OTHER                     -> "patchProduct"]
  <1>1. t \in Transaction /\ Fits(t)
    BY DEF FindReplay, ReadLine, ReadCategory, StepsFit, Fits, TypeOK, Transaction,
           Step, LineRequest
  <1>2. tx' = [tx EXCEPT ![c] = t]
    BY DEF FindReplay, ReadLine, ReadCategory, Goto, TypeOK
  <1> HIDE DEF t
  <1> QED
    BY <1>1, <1>2, FitStep DEF TypeOK, FindReplay, ReadLine, ReadCategory, tables

LEMMA TypeAnswerReplay ==
  ASSUME TypeOK, StepsFit, NEW c \in Conns, AnswerReplay(c)
  PROVE  TypeOK' /\ StepsFit'
  <1>1. tx[c].req \in CheckoutRequest
    BY DEF AnswerReplay, StepsFit, Fits
  <1>2. acked' \subseteq Users \X Keys \X Hashes \X OrderIds
    BY <1>1 DEF AnswerReplay, TypeOK, Customer, CheckoutRequest
  <1> QED
    BY <1>2, FinishTyped DEF TypeOK, AnswerReplay, tables

LEMMA TypeReadCart ==
  ASSUME TypeOK, StepsFit, NEW c \in Conns, ReadCart(c)
  PROVE  TypeOK' /\ StepsFit'
  <1> DEFINE t == [tx[c] EXCEPT !.lines = cart[Customer(c)], !.step = "lockProducts"]
  <1>1. tx[c].req \in CheckoutRequest
    BY DEF ReadCart, StepsFit, Fits
  <1>2. t \in Transaction /\ Fits(t)
    BY <1>1 DEF ReadCart, Fits, TypeOK, Transaction, Step, Customer, CheckoutRequest
  <1>3. tx' = [tx EXCEPT ![c] = t]
    BY DEF ReadCart, TypeOK
  <1> HIDE DEF t
  <1> QED
    BY <1>2, <1>3, FitStep DEF TypeOK, ReadCart, tables

LEMMA NamedProducts ==
  ASSUME TypeOK, StepsFit, NEW c \in Conns, tx[c].step = "lockProducts"
  PROVE  /\ ProductsNamed(c) \subseteq Products
         /\ \A p \in Smallest(ProductsToLock(c)) :
              p \in Products /\ p \in ProductsNamed(c) /\ tx[c].seen[p] = Null
  BY RequestOps
  DEF ProductsNamed, ProductsToLock, Smallest, StepsFit, Fits, Op, Bought,
      PatchRequest, CheckoutRequest, MoveRequest, CancelRequest, StatusRequest

LEMMA TypeLockProduct ==
  ASSUME TypeOK, StepsFit, NEW c \in Conns, LockProduct(c)
  PROVE  TypeOK' /\ StepsFit'
  <1>1. PICK p \in Smallest(ProductsToLock(c)) :
          /\ Acquire(c, ProductRowOf(p), ProductLock)
          /\ tx' = [tx EXCEPT ![c].seen[p] = product[p],
                              ![c].step = IF ProductsToLock(c) = {p}
                                          THEN AfterProducts(Op(c)) ELSE @]
    BY DEF LockProduct
  <1> DEFINE t == [tx[c] EXCEPT !.seen[p] = product[p],
                                !.step = IF ProductsToLock(c) = {p}
                                         THEN AfterProducts(Op(c)) ELSE @]
  <1>2. /\ p \in Products /\ tx[c].seen[p] = Null
        /\ tx[c].step = "lockProducts" /\ tx[c] \in Transaction
        /\ tx[c].req \in CheckoutRequest \cup MoveRequest \cup PatchRequest
    BY NamedProducts DEF LockProduct, TypeOK, StepsFit, Fits
  <1>3. /\ AfterProducts(Op(c)) \in Step
        /\ AfterProducts(Op(c)) = "lockCategories" => tx[c].req \in CheckoutRequest
        /\ AfterProducts(Op(c)) = "moveOrder" => tx[c].req \in MoveRequest
        /\ AfterProducts(Op(c)) = "readCategory" =>
              tx[c].req \in PatchRequest /\ ProductsNamed(c) = {tx[c].req.productId}
        /\ AfterProducts(Op(c)) # "readCategory" =>
              ProductsNamed(c) = Bought(tx[c].lines)
        /\ AfterProducts(Op(c)) \in {"lockCategories", "moveOrder", "readCategory"}
    BY <1>2 DEF AfterProducts, Op, ProductsNamed, Step, MoveRequest, CheckoutRequest,
                CancelRequest, StatusRequest, PatchRequest
  <1>4. t \in Transaction
    BY <1>2, <1>3 DEF Transaction, TypeOK, Step
  <1>5. Fits(t)
    <2>1. CASE ProductsToLock(c) # {p}
      <3>1. t.step = "lockProducts" /\ t.req = tx[c].req
        BY <1>2, <2>1 DEF Transaction
      <3> QED
        BY <3>1, <1>2 DEF Fits
    <2>2. CASE ProductsToLock(c) = {p}
      <3>1. /\ t.step = AfterProducts(Op(c)) /\ t.req = tx[c].req
            /\ t.lines = tx[c].lines
            /\ t.seen = [tx[c].seen EXCEPT ![p] = product[p]]
        BY <2>2, <1>2 DEF Transaction
      <3>2. product[p] # Null
        BY <1>2, ShopAssumption DEF TypeOK
      <3>3. \A q \in ProductsNamed(c) : t.seen[q] # Null
        BY <3>1, <3>2, <2>2, <1>2 DEF ProductsToLock, Transaction
      <3> QED
        BY <3>1, <3>3, <1>3 DEF Fits
    <2> QED
      BY <2>1, <2>2
  <1>6. tx' = [tx EXCEPT ![c] = t]
    BY <1>1 DEF TypeOK
  <1>7. ProductRowOf(p) \in Row
    BY <1>2 DEF Row
  <1> HIDE DEF t
  <1> QED
    BY <1>1, <1>4, <1>5, <1>6, <1>7, LockModes, AcquireTyped, FitStep
    DEF TypeOK, LockProduct, tables

LEMMA TypeLockCategory ==
  ASSUME TypeOK, StepsFit, NEW c \in Conns, LockCategory(c)
  PROVE  TypeOK' /\ StepsFit'
  <1>1. PICK k \in Smallest(CategoriesToLock(c)) :
          /\ Acquire(c, CategoryRowOf(k), CategoryLock)
          /\ tx' = [tx EXCEPT ![c].seenActive[k] = categoryActive[k],
                              ![c].step = IF CategoriesToLock(c) = {k}
                                          THEN "placeOrder" ELSE @]
    BY DEF LockCategory
  <1> DEFINE t == [tx[c] EXCEPT !.seenActive[k] = categoryActive[k],
                                !.step = IF CategoriesToLock(c) = {k}
                                         THEN "placeOrder" ELSE @]
  <1>2. /\ tx[c].step = "lockCategories" /\ tx[c] \in Transaction
        /\ tx[c].req \in CheckoutRequest
        /\ \A p \in Bought(tx[c].lines) : tx[c].seen[p] # Null
    BY DEF LockCategory, TypeOK, StepsFit, Fits
  <1>3. CategoriesNamed(c) \subseteq Categories
    BY <1>2 DEF CategoriesNamed, Transaction, ProductRow, Bought
  <1>4. k \in Categories
    BY <1>3 DEF Smallest, CategoriesToLock
  <1>5. t \in Transaction
    BY <1>2, <1>4 DEF Transaction, TypeOK, Step
  <1>6. categoryActive[k] # Null
    BY <1>4, ShopAssumption DEF TypeOK
  <1>7. /\ t.req = tx[c].req /\ t.lines = tx[c].lines /\ t.seen = tx[c].seen
        /\ t.seenActive = [tx[c].seenActive EXCEPT ![k] = categoryActive[k]]
        /\ t.step \in {"lockCategories", "placeOrder"}
        /\ t.step = "placeOrder" => CategoriesToLock(c) = {k}
    BY <1>2 DEF Transaction
  <1>8. Fits(t)
    <2>1. t.step = "placeOrder" =>
            \A p \in Bought(t.lines) : t.seenActive[t.seen[p].categoryId] # Null
      BY <1>2, <1>3, <1>4, <1>6, <1>7
      DEF CategoriesNamed, CategoriesToLock, Transaction
    <2> QED
      BY <2>1, <1>2, <1>7 DEF Fits
  <1>9. tx' = [tx EXCEPT ![c] = t]
    BY <1>1 DEF TypeOK
  <1>10. CategoryRowOf(k) \in Row
    BY <1>4 DEF Row
  <1> HIDE DEF t
  <1> QED
    BY <1>1, <1>5, <1>8, <1>9, <1>10, LockModes, AcquireTyped, FitStep
    DEF TypeOK, LockCategory, tables

(* The order a checkout inserts.                                           *)
LEMMA NewOrderTyped ==
  ASSUME TypeOK, StepsFit, NEW c \in Conns, tx[c].step = "placeOrder"
  PROVE  /\ tx[c].req \in CheckoutRequest /\ tx[c] \in Transaction
         /\ Customer(c) \in Users /\ tx[c].req.key \in Keys
         /\ tx[c].req.hash \in Hashes
         /\ NewOrder(Customer(c), tx[c].req.key, tx[c].req.hash,
                     tx[c].lines, tx[c].seen) \in Order
  <1>1. /\ tx[c].req \in CheckoutRequest /\ tx[c] \in Transaction
        /\ Customer(c) \in Users /\ tx[c].req.key \in Keys
        /\ tx[c].req.hash \in Hashes
        /\ \A p \in Bought(tx[c].lines) : tx[c].seen[p] \in ProductRow
    BY DEF StepsFit, Fits, TypeOK, CheckoutRequest, Customer, Transaction, Bought
  <1> QED
    BY <1>1 DEF NewOrder, Order, Bought, Transaction, Lines, Status, ProductRow

LEMMA TypePlaceOrder ==
  ASSUME TypeOK, StepsFit, NEW c \in Conns, PlaceOrder(c)
  PROVE  TypeOK' /\ StepsFit'
  <1> DEFINE u == Customer(c)
             r == tx[c].req
  <1>1. PICK o \in Smallest({i \in OrderIds : orders[i] = Null}) :
          /\ orders' = [orders EXCEPT ![o] =
                          NewOrder(u, r.key, r.hash, tx[c].lines, tx[c].seen)]
          /\ history' = [history EXCEPT ![o] =
                           <<HistoryEntry("NULL", "PENDING", u)>>]
          /\ outbox' = outbox \cup {<<o, e>> : e \in EventsOf("PENDING")}
          /\ acked' = acked \cup {<<u, r.key, r.hash, o>>}
    BY DEF PlaceOrder
  <1>2. /\ o \in OrderIds /\ r \in CheckoutRequest /\ tx[c] \in Transaction
        /\ u \in Users /\ r.key \in Keys /\ r.hash \in Hashes
    BY NewOrderTyped DEF PlaceOrder, Smallest
  <1>3. NewOrder(u, r.key, r.hash, tx[c].lines, tx[c].seen) \in Order
    BY NewOrderTyped DEF PlaceOrder
  <1>4. orders' \in [OrderIds -> Order \cup {Null}]
    BY <1>1, <1>2, <1>3 DEF TypeOK
  <1>5. HistoryEntry("NULL", "PENDING", u) \in HistoryRow
    BY <1>2 DEF HistoryEntry, HistoryRow, Status
  <1>6. history' \in [OrderIds -> Seq(HistoryRow)]
    BY <1>1, <1>2, <1>5 DEF TypeOK
  <1>7. outbox' \subseteq OrderIds \X EventType
    BY <1>1, <1>2 DEF TypeOK, EventsOf, EventType
  <1>8. acked' \subseteq Users \X Keys \X Hashes \X OrderIds
    BY <1>1, <1>2 DEF TypeOK
  <1>9. product' \in [Products -> ProductRow]
    <2>1. \A p \in Products :
            /\ product[p].stock - tx[c].lines[p] \in Nat
            /\ product[p] \in ProductRow
      <3> TAKE p \in Products
      <3>1. product[p] \in ProductRow /\ product[p].stock \in Nat
        BY DEF TypeOK, ProductRow
      <3>2. tx[c].lines[p] \in Nat
        BY <1>2, ShopAssumption DEF Transaction, Lines
      <3>3. tx[c].lines[p] > 0 => product[p].stock >= tx[c].lines[p]
        BY DEF PlaceOrder, Accepted, Bought
      <3> QED
        BY <3>1, <3>2, <3>3
    <2>2. product' = LessStock(product, tx[c].lines)
      BY DEF PlaceOrder
    <2>3. \A p \in Products :
            [product[p] EXCEPT !.stock = @ - tx[c].lines[p]] \in ProductRow
      BY <2>1 DEF ProductRow
    <2> QED
      BY <2>2, <2>3 DEF LessStock
  <1>10. cart' \in [Users -> Lines]
    BY <1>2, ShopAssumption DEF TypeOK, PlaceOrder, EmptyCart, Lines
  <1>11. Finish(c) /\ UNCHANGED <<categoryActive, begun>>
    BY DEF PlaceOrder
  <1> QED
    BY <1>4, <1>6, <1>7, <1>8, <1>9, <1>10, <1>11, FinishTyped DEF TypeOK

LEMMA TypeLockOrder ==
  ASSUME TypeOK, StepsFit, NEW c \in Conns, LockOrder(c)
  PROVE  TypeOK' /\ StepsFit'
  <1> DEFINE o == orders[tx[c].req.orderId]
             t == [tx[c] EXCEPT !.status = o.status,
                                !.lines = IF GivesBack(c) THEN o.items ELSE @,
                                !.step = IF GivesBack(c) THEN "lockProducts"
                                         ELSE "moveOrder"]
  <1>1. /\ tx[c].req \in MoveRequest /\ tx[c] \in Transaction
        /\ tx[c].lines = EmptyCart
    BY DEF LockOrder, StepsFit, Fits, TypeOK
  <1>2. tx[c].req.orderId \in OrderIds /\ o \in Order
    BY <1>1 DEF LockOrder, Found, MoveRequest, CancelRequest, StatusRequest, TypeOK
  <1>3. t \in Transaction
    BY <1>1, <1>2 DEF Transaction, Order, Step
  <1>4. Fits(t)
    BY <1>1 DEF Fits, Transaction, Bought, EmptyCart
  <1>5. tx' = [tx EXCEPT ![c] = t]
    BY DEF LockOrder, TypeOK
  <1>6. OrderRowOf(tx[c].req.orderId) \in Row
    BY <1>2 DEF Row
  <1>7. Acquire(c, OrderRowOf(tx[c].req.orderId), OrderLock)
    BY DEF LockOrder
  <1>8. UNCHANGED <<tables, acked, begun>>
    BY DEF LockOrder
  <1> HIDE DEF t
  <1> QED
    BY <1>3, <1>4, <1>5, <1>6, <1>7, <1>8, LockModes, AcquireTyped, FitStep
    DEF TypeOK, tables

(* Who moves the order, and where to.                                      *)
LEMMA MoveTyped ==
  ASSUME NEW c, tx[c].req \in MoveRequest
  PROVE  /\ tx[c].req.orderId \in OrderIds
         /\ Target(c) \in Status /\ Target(c) # "PENDING"
         /\ Actor(c) \in Users \cup Admins
         /\ Target(c) = "CANCELLED" =>
              tx[c].req \in CancelRequest /\ Actor(c) = tx[c].req.userId
         /\ Target(c) # "CANCELLED" => Actor(c) \in Admins
         /\ GivesBack(c) <=> Target(c) \in {"CANCELLED", "REJECTED"}
  BY DEF Target, Actor, GivesBack, Op, MoveRequest, CancelRequest, StatusRequest, Status

LEMMA TypeMoveOrder ==
  ASSUME TypeOK, StepsFit, WritesStillLegal, NEW c \in Conns, MoveOrder(c)
  PROVE  TypeOK' /\ StepsFit'
  <1> DEFINE o == tx[c].req.orderId
  <1>1. /\ tx[c].req \in MoveRequest /\ tx[c] \in Transaction
    BY DEF MoveOrder, StepsFit, Fits, TypeOK
  <1>2. o \in OrderIds /\ orders[o] \in Order /\ tx[c].status \in Status
    BY <1>1, MoveTyped DEF MoveOrder, WritesStillLegal, MayWrite, HasOrder, TypeOK, Order
  <1>3. orders' \in [OrderIds -> Order \cup {Null}]
    <2>1. [orders[o] EXCEPT !.status = Target(c)] \in Order
      BY <1>1, <1>2, MoveTyped DEF Order
    <2>2. orders' = [orders EXCEPT ![o] = [orders[o] EXCEPT !.status = Target(c)]]
      BY <1>2 DEF MoveOrder, TypeOK
    <2> QED
      BY <2>1, <2>2, <1>2 DEF TypeOK
  <1>4. history' \in [OrderIds -> Seq(HistoryRow)]
    <2>1. HistoryEntry(tx[c].status, Target(c), Actor(c)) \in HistoryRow
      BY <1>1, <1>2, MoveTyped DEF HistoryEntry, HistoryRow
    <2>2. history' = [history EXCEPT ![o] =
                        Append(history[o], HistoryEntry(tx[c].status, Target(c), Actor(c)))]
      BY <1>2 DEF MoveOrder, TypeOK
    <2>3. history[o] \in Seq(HistoryRow)
      BY <1>2 DEF TypeOK
    <2>4. Append(history[o], HistoryEntry(tx[c].status, Target(c), Actor(c)))
            \in Seq(HistoryRow)
      BY <2>1, <2>3
    <2> QED
      BY <2>2, <2>4 DEF TypeOK
  <1>5. outbox' \subseteq OrderIds \X EventType
    <2>1. EventsOf(Target(c)) \subseteq EventType
      BY DEF EventsOf, EventType
    <2>2. outbox' = outbox \cup {<<o, e>> : e \in EventsOf(Target(c))}
      BY DEF MoveOrder
    <2> QED
      BY <2>1, <2>2, <1>2 DEF TypeOK
  <1>6. product' \in [Products -> ProductRow]
    <2>1. \A p \in Products :
            product[p] \in ProductRow /\ product[p].stock + tx[c].lines[p] \in Nat
      BY <1>1, ShopAssumption DEF TypeOK, Transaction, Lines, ProductRow
    <2>2. product' = MoreStock(product, tx[c].lines)
      BY DEF MoveOrder
    <2>3. \A p \in Products :
            [product[p] EXCEPT !.stock = @ + tx[c].lines[p]] \in ProductRow
      BY <2>1 DEF ProductRow
    <2> QED
      BY <2>2, <2>3 DEF MoreStock
  <1>7. Finish(c) /\ UNCHANGED <<categoryActive, cart, acked, begun>>
    BY DEF MoveOrder
  <1> QED
    BY <1>3, <1>4, <1>5, <1>6, <1>7, FinishTyped DEF TypeOK

LEMMA TypeWriteLine ==
  ASSUME TypeOK, StepsFit, NEW c \in Conns, WriteLine(c)
  PROVE  TypeOK' /\ StepsFit'
  <1> DEFINE r == tx[c].req
             q == IF r.op = "setCartItem" THEN r.quantity ELSE 0
  <1>1. r \in LineRequest
    BY DEF WriteLine, StepsFit, Fits
  <1>2. r.userId \in Users /\ r.productId \in Products /\ q \in 0..MaxQuantity
    BY <1>1, ShopAssumption DEF LineRequest, SetLineRequest, RemoveLineRequest
  <1>3. cart' = [cart EXCEPT ![r.userId] = [cart[r.userId] EXCEPT ![r.productId] = q]]
    BY <1>2 DEF WriteLine, TypeOK
  <1> HIDE DEF q
  <1>4. cart' \in [Users -> Lines]
    BY <1>2, <1>3 DEF TypeOK, Lines
  <1>5. Finish(c) /\ UNCHANGED <<product, categoryActive, orders, history, outbox, acked, begun>>
    BY DEF WriteLine
  <1> QED
    BY <1>4, <1>5, FinishTyped DEF TypeOK

LEMMA TypePatchProduct ==
  ASSUME TypeOK, StepsFit, NEW c \in Conns, PatchProduct(c)
  PROVE  TypeOK' /\ StepsFit'
  <1> DEFINE r == tx[c].req
  <1>1. r.productId \in Products /\ r.changes \in ProductPatch
    BY ShopAssumption DEF PatchProduct, StepsFit, Fits, PatchRequest
  <1>2. Patched(product[r.productId], r.changes) \in ProductRow
    BY <1>1 DEF Patched, Given, ProductRow, ProductPatch, TypeOK
  <1>3. product' \in [Products -> ProductRow]
    BY <1>1, <1>2 DEF PatchProduct, TypeOK
  <1>4. Finish(c) /\ UNCHANGED <<categoryActive, cart, orders, history, outbox, acked, begun>>
    BY DEF PatchProduct
  <1> QED
    BY <1>3, <1>4, FinishTyped DEF TypeOK

LEMMA TypePatchCategory ==
  ASSUME TypeOK, StepsFit, NEW patch \in CategoryPatches,
         PatchCategory(patch[1], patch[2])
  PROVE  TypeOK' /\ StepsFit'
  <1>1. patch \in Categories \X BOOLEAN
    BY TxAssumption
  <1>2. begun' \in 0..MaxRequests
    <2>1. begun < MaxRequests /\ begun' = begun + 1
      BY DEF PatchCategory
    <2>2. begun \in 0..MaxRequests
      BY DEF TypeOK
    <2> QED
      BY <2>1, <2>2, TxAssumption
  <1>3. categoryActive' \in [Categories -> BOOLEAN]
    BY <1>1 DEF TypeOK, PatchCategory
  <1> QED
    BY <1>2, <1>3 DEF TypeOK, PatchCategory, StepsFit

(* Every way a transaction can fail is a rollback.                         *)
LEMMA Refusals ==
  ASSUME NEW c,
         \/ RefuseReplay(c) \/ RefuseEmptyCart(c) \/ RefuseOrder(c)
         \/ RefuseMove(c) \/ RefuseLine(c) \/ RefusePatch(c)
         \/ DeadlockVictim(c) \/ Crash(c)
  PROVE  Refuse(c)
  BY DEF RefuseReplay, RefuseEmptyCart, RefuseOrder, RefuseMove, RefuseLine,
         RefusePatch, DeadlockVictim, Crash

LEMMA TypeNext ==
  ASSUME TypeOK, StepsFit, WritesStillLegal, [Next]_vars
  PROVE  TypeOK' /\ StepsFit'
  <1>1. CASE UNCHANGED vars
    BY <1>1 DEF vars, tables, TypeOK, StepsFit
  <1>2. ASSUME NEW c \in Conns, NEW r \in Requests, Begin(c, r)
        PROVE  TypeOK' /\ StepsFit'
    BY <1>2, TypeBegin
  <1>3. ASSUME NEW c \in Conns, Work(c)
        PROVE  TypeOK' /\ StepsFit'
    BY <1>3, TypeLockUser, TypeGoto, TypeAnswerReplay, TypeReadCart,
       TypeLockProduct, TypeLockCategory, TypePlaceOrder, TypeLockOrder,
       TypeMoveOrder, TypeWriteLine, TypePatchProduct, Refusals, RefuseTyped
    DEF Work
  <1>4. ASSUME NEW c \in Conns, DeadlockVictim(c) \/ Crash(c)
        PROVE  TypeOK' /\ StepsFit'
    BY <1>4, Refusals, RefuseTyped
  <1>5. ASSUME NEW patch \in CategoryPatches, PatchCategory(patch[1], patch[2])
        PROVE  TypeOK' /\ StepsFit'
    BY <1>5, TypePatchCategory
  <1>6. CASE Done
    BY <1>1, <1>6 DEF Done
  <1> QED
    BY <1>1, <1>2, <1>3, <1>4, <1>5, <1>6 DEF Next

-----------------------------------------------------------------------------
(* Locks                                                                   *)

LEMMA ConflictsSymmetric == \A a, b : Conflicts(a, b) <=> Conflicts(b, a)
  BY DEF Conflicts

(* Two connections never hold conflicting locks on one row.                *)
LEMMA OneHolder ==
  ASSUME LocksFit, NEW c, NEW d, c # d, NEW row, NEW a, NEW b,
         Holds(c, row, a), Holds(d, row, b)
  PROVE  ~Conflicts(a, b)
  BY DEF LocksFit, Compatible, Holds

LEMMA Exclusive ==
  ASSUME LocksFit, NEW c, NEW d, c # d, NEW row, Holds(c, row, "UPDATE")
  PROVE  ~Holds(d, row, "UPDATE") /\ ~Holds(d, row, "SHARE")
  BY OneHolder DEF Conflicts

LEMMA RowNames ==
  /\ \A u, v : UserRowOf(u) = UserRowOf(v) <=> u = v
  /\ \A u, v : OrderRowOf(u) = OrderRowOf(v) <=> u = v
  /\ \A u, v : ProductRowOf(u) = ProductRowOf(v) <=> u = v
  /\ \A u, v : CategoryRowOf(u) = CategoryRowOf(v) <=> u = v
  BY DEF UserRowOf, OrderRowOf, ProductRowOf, CategoryRowOf

LEMMA AcquireCompatible ==
  ASSUME LocksFit, NEW c, NEW row, NEW mode, Acquire(c, row, mode)
  PROVE  Compatible(locks') /\ locks \subseteq locks' /\ Holds(c, row, mode)'
  <1>1. locks' = locks \cup {[conn |-> c, row |-> row, mode |-> mode]}
    BY DEF Acquire
  <1>2. SUFFICES ASSUME NEW l \in locks', NEW m \in locks',
                        l.conn # m.conn, l.row = m.row
                 PROVE  ~Conflicts(l.mode, m.mode)
    BY <1>1 DEF Compatible, Holds
  <1>3. CASE l \in locks /\ m \in locks
    BY <1>2, <1>3 DEF LocksFit, Compatible
  <1>4. CASE l \in locks /\ m = [conn |-> c, row |-> row, mode |-> mode]
    BY <1>2, <1>4 DEF Acquire, Grantable
  <1>5. CASE m \in locks /\ l = [conn |-> c, row |-> row, mode |-> mode]
    BY <1>2, <1>5, ConflictsSymmetric DEF Acquire, Grantable
  <1> QED
    BY <1>1, <1>2, <1>3, <1>4, <1>5

(* The idle transaction has read nothing and owns nothing.                 *)
LEMMA IdleOwnsNothing ==
  /\ ~HasCart(IdleTx) /\ ~HasUser(IdleTx) /\ ~HasOrder(IdleTx)
  /\ \A p \in Products : IdleTx.seen[p] = Null
  /\ \A k \in Categories : IdleTx.seenActive[k] = Null
  /\ IdleTx.step = "idle"
  BY DEF IdleTx, HasCart, HasUser, HasOrder

(* c has ended: it relies on nothing, and the others keep their locks.     *)
LEMMA FinishLocks ==
  ASSUME TypeOK, LocksFit, NEW c \in Conns, Finish(c)
  PROVE  /\ LocksFit'
         /\ ReadsTrue(c)' /\ MayWrite(c)'
         /\ \A d \in Conns \ {c} : tx'[d] = tx[d]
  <1>1. tx'[c] = IdleTx /\ \A d \in Conns \ {c} : tx'[d] = tx[d]
    BY DEF Finish, TypeOK
  <1>2. locks' = {l \in locks : l.conn # c}
    BY DEF Finish, ReleaseAll
  <1>3. Compatible(locks')
    BY <1>2 DEF LocksFit, Compatible
  <1>4. LocksOf(c)'
    BY <1>1, IdleOwnsNothing DEF LocksOf
  <1>5. ASSUME NEW d \in Conns \ {c} PROVE LocksOf(d)'
    <2>1. \A row, mode : Holds(d, row, mode) => Holds(d, row, mode)'
      BY <1>2 DEF Holds
    <2> QED
      BY <1>1, <2>1 DEF LocksFit, LocksOf, Customer
  <1>6. ReadsTrue(c)' /\ MayWrite(c)'
    BY <1>1, IdleOwnsNothing DEF ReadsTrue, MayWrite
  <1> QED
    BY <1>1, <1>3, <1>4, <1>5, <1>6 DEF LocksFit

-----------------------------------------------------------------------------
(* The part of Inv that is not about types.                                *)
Agreement ==
  /\ LocksFit /\ ReadsStillTrue /\ WritesStillLegal
  /\ HistoryTellsStatus /\ AnswersAgree /\ OneOrderPerKey

(* What is said of the orders holds while they, their history and their    *)
(* e-mails do not change.                                                  *)
LEMMA OrdersKept ==
  ASSUME HistoryTellsStatus, OneOrderPerKey, UNCHANGED <<orders, history, outbox>>
  PROVE  HistoryTellsStatus' /\ OneOrderPerKey'
  <1>1. \A o \in OrderIds : HistoryOf(o)' <=> HistoryOf(o)
    BY DEF HistoryOf
  <1>2. OneOrderPerKey'
    BY DEF OneOrderPerKey
  <1> QED
    BY <1>1, <1>2 DEF HistoryTellsStatus

LEMMA BookKept ==
  ASSUME HistoryTellsStatus, AnswersAgree, OneOrderPerKey,
         UNCHANGED <<orders, history, outbox, acked>>
  PROVE  HistoryTellsStatus' /\ AnswersAgree' /\ OneOrderPerKey'
  <1>1. AnswersAgree'
    BY DEF AnswersAgree
  <1> QED
    BY <1>1, OrdersKept

LEMMA HistoryKept ==
  ASSUME NEW i \in OrderIds, HistoryOf(i),
         orders'[i] = orders[i], history'[i] = history[i],
         \A e \in EventType : <<i, e>> \in outbox' <=> <<i, e>> \in outbox
  PROVE  HistoryOf(i)'
  BY DEF HistoryOf

(* A transaction that c does not touch keeps what it relies on when the    *)
(* tables do not change.                                                   *)
LEMMA OtherKept ==
  ASSUME UNCHANGED tables, NEW d \in Conns, tx'[d] = tx[d],
         ReadsTrue(d), MayWrite(d)
  PROVE  ReadsTrue(d)' /\ MayWrite(d)'
  <1>1. UNCHANGED <<product, categoryActive, cart, orders>>
    BY DEF tables
  <1>2. ReadsTrue(d)'
    BY <1>1 DEF ReadsTrue, Customer, KeyUsed
  <1>3. MayWrite(d)'
    BY <1>1 DEF MayWrite, Target, GivesBack, Op
  <1> QED
    BY <1>2, <1>3

(* c moves on, keeping its locks and perhaps acquiring one.                *)
LEMMA Advance ==
  ASSUME TypeOK, Agreement, NEW c \in Conns, UNCHANGED <<tables, acked>>,
         NEW t, tx' = [tx EXCEPT ![c] = t],
         Compatible(locks'), locks \subseteq locks',
         LocksOf(c)', ReadsTrue(c)', MayWrite(c)'
  PROVE  Agreement'
  <1>1. \A d \in Conns \ {c} : tx'[d] = tx[d]
    BY DEF TypeOK
  <1>2. ASSUME NEW d \in Conns \ {c}
        PROVE  LocksOf(d)' /\ ReadsTrue(d)' /\ MayWrite(d)'
    <2>1. \A row, mode : Holds(d, row, mode) => Holds(d, row, mode)'
      BY DEF Holds
    <2>2. LocksOf(d)'
      BY <1>1, <2>1 DEF Agreement, LocksFit, LocksOf, Customer
    <2> QED
      BY <1>1, <2>2, OtherKept DEF Agreement, ReadsStillTrue, WritesStillLegal
  <1> QED
    BY <1>2, BookKept
    DEF Agreement, LocksFit, ReadsStillTrue, WritesStillLegal, tables

LEMMA AgreeRefuse ==
  ASSUME TypeOK, Agreement, NEW c \in Conns, Refuse(c)
  PROVE  Agreement'
  <1>1. /\ LocksFit' /\ ReadsTrue(c)' /\ MayWrite(c)'
        /\ \A d \in Conns \ {c} : tx'[d] = tx[d]
    BY FinishLocks DEF Refuse, Agreement
  <1>2. ASSUME NEW d \in Conns \ {c}
        PROVE  ReadsTrue(d)' /\ MayWrite(d)'
    BY <1>1, OtherKept DEF Agreement, ReadsStillTrue, WritesStillLegal, Refuse
  <1> QED
    BY <1>1, <1>2, BookKept
    DEF Agreement, ReadsStillTrue, WritesStillLegal, Refuse, tables

LEMMA AgreeBegin ==
  ASSUME TypeOK, StepsFit, Agreement, NEW c \in Conns, NEW r \in Requests,
         Begin(c, r)
  PROVE  Agreement'
  <1> DEFINE t == [tx[c] EXCEPT !.step = FirstStep(r.op), !.req = r]
  <1>1. r \in Request
    BY TxAssumption
  <1>2. tx[c] = IdleTx
    BY DEF Begin, StepsFit, Fits
  <1>3. tx' = [tx EXCEPT ![c] = t] /\ tx'[c] = t
    BY DEF Begin, TypeOK
  <1>4. /\ t.step \in {"lockUser", "lockOrder", "lockProducts"}
        /\ t.step = "lockProducts" => t.req \in PatchRequest
        /\ t.seen = IdleTx.seen /\ t.seenActive = IdleTx.seenActive
    BY <1>1, <1>2, RequestOps DEF FirstStep, IdleTx
  <1>5. ~HasCart(t) /\ ~HasUser(t) /\ ~HasOrder(t) /\ t.step # "readCart"
    BY <1>4 DEF HasCart, HasUser, HasOrder, PatchRequest, CheckoutRequest,
                MoveRequest, CancelRequest, StatusRequest
  <1> HIDE DEF t
  <1>6. LocksOf(c)' /\ ReadsTrue(c)' /\ MayWrite(c)'
    BY <1>3, <1>4, <1>5, IdleOwnsNothing DEF LocksOf, ReadsTrue, MayWrite
  <1>7. UNCHANGED <<tables, acked>> /\ UNCHANGED locks
    BY DEF Begin
  <1> QED
    BY <1>3, <1>6, <1>7, Advance DEF Agreement, LocksFit

LEMMA AgreeLockUser ==
  ASSUME TypeOK, StepsFit, Agreement, NEW c \in Conns, LockUser(c)
  PROVE  Agreement'
  <1> DEFINE s == CASE Op(c) = "checkout"       -> "findReplay"
                    [] Op(c) = "setCartItem"    -> "readLine"
                    [] Op(c) = "removeCartItem" -> "writeLine"
             t == [tx[c] EXCEPT !.step = s]
  <1>1. tx[c].req \in CheckoutRequest \cup LineRequest /\ tx[c] \in Transaction
    BY DEF LockUser, StepsFit, Fits, TypeOK
  <1>2. /\ s \in {"findReplay", "readLine", "writeLine"}
        /\ s = "writeLine" => tx[c].req \notin SetLineRequest
    BY <1>1 DEF Op, LineRequest, SetLineRequest, RemoveLineRequest, CheckoutRequest
  <1>3. tx' = [tx EXCEPT ![c] = t] /\ tx'[c] = t
    BY DEF LockUser, Goto, TypeOK
  <1>4. /\ t.step = s /\ t.req = tx[c].req
        /\ t.seen = tx[c].seen /\ t.seenActive = tx[c].seenActive
    BY <1>1 DEF Transaction
  <1> HIDE DEF s, t
  <1>5. /\ Compatible(locks') /\ locks \subseteq locks'
        /\ Holds(c, UserRowOf(Customer(c)), "UPDATE")'
    BY <1>3, <1>4, AcquireCompatible
    DEF LockUser, UserLock, Agreement, Customer, Holds
  <1>6. ~HasCart(t) /\ ~HasOrder(t) /\ t.step # "readCart"
    BY <1>2, <1>4 DEF HasCart, HasOrder
  <1>7. UNCHANGED <<tables, acked>>
    BY DEF LockUser
  <1>8. LocksOf(c)'
    BY <1>3, <1>4, <1>5, <1>6 DEF LocksOf, Agreement, LocksFit, Holds
  <1>9. ReadsTrue(c)'
    BY <1>3, <1>4, <1>6, <1>7
    DEF ReadsTrue, Agreement, ReadsStillTrue, tables
  <1>10. MayWrite(c)'
    BY <1>2, <1>3, <1>4, <1>6 DEF MayWrite
  <1> QED
    BY <1>3, <1>5, <1>7, <1>8, <1>9, <1>10, Advance

LEMMA AgreeFindReplay ==
  ASSUME TypeOK, StepsFit, Agreement, NEW c \in Conns, FindReplay(c)
  PROVE  Agreement'
  <1> DEFINE t == [tx[c] EXCEPT !.step = "readCart"]
  <1>1. tx[c].req \in CheckoutRequest /\ tx[c] \in Transaction
    BY DEF FindReplay, StepsFit, Fits, TypeOK
  <1>2. tx' = [tx EXCEPT ![c] = t] /\ tx'[c] = t
    BY DEF FindReplay, Goto, TypeOK
  <1>3. /\ t.step = "readCart" /\ t.req = tx[c].req
        /\ t.seen = tx[c].seen /\ t.seenActive = tx[c].seenActive
    BY <1>1 DEF Transaction
  <1> HIDE DEF t
  <1>4. ~HasCart(t) /\ ~HasOrder(t) /\ HasUser(tx[c])
    BY <1>3 DEF HasCart, HasOrder, HasUser, FindReplay
  <1>5. UNCHANGED <<tables, acked>> /\ UNCHANGED locks
    BY DEF FindReplay
  <1>6. LocksOf(c)'
    BY <1>2, <1>3, <1>4, <1>5
    DEF LocksOf, Agreement, LocksFit, Holds, Customer
  <1>7. ~KeyUsed(orders, Customer(c), tx[c].req.key)
    BY DEF FindReplay, KeyUsed, SameKey
  <1>8. ReadsTrue(c)' /\ MayWrite(c)'
    BY <1>2, <1>3, <1>4, <1>5, <1>7
    DEF ReadsTrue, MayWrite, Agreement, ReadsStillTrue, tables, Customer, KeyUsed
  <1> QED
    BY <1>2, <1>5, <1>6, <1>8, Advance DEF Agreement, LocksFit

LEMMA AgreeReadLine ==
  ASSUME TypeOK, StepsFit, Agreement, NEW c \in Conns, ReadLine(c)
  PROVE  Agreement'
  <1> DEFINE t == [tx[c] EXCEPT !.step = "writeLine"]
  <1>1. tx[c].req \in SetLineRequest /\ tx[c] \in Transaction
    BY DEF ReadLine, StepsFit, Fits, TypeOK
  <1>2. tx' = [tx EXCEPT ![c] = t] /\ tx'[c] = t
    BY DEF ReadLine, Goto, TypeOK
  <1>3. /\ t.step = "writeLine" /\ t.req = tx[c].req
        /\ t.seen = tx[c].seen /\ t.seenActive = tx[c].seenActive
    BY <1>1 DEF Transaction
  <1> HIDE DEF t
  <1>4. ~HasCart(t) /\ ~HasOrder(t) /\ HasUser(tx[c])
    BY <1>3 DEF HasCart, HasOrder, HasUser, ReadLine
  <1>5. UNCHANGED <<tables, acked>> /\ UNCHANGED locks
    BY DEF ReadLine
  <1>6. LocksOf(c)'
    BY <1>2, <1>3, <1>4, <1>5
    DEF LocksOf, Agreement, LocksFit, Holds, Customer
  <1>7. ReadsTrue(c)'
    BY <1>2, <1>3, <1>4, <1>5
    DEF ReadsTrue, Agreement, ReadsStillTrue, tables
  <1>8. cart[tx[c].req.userId][tx[c].req.productId] = 0
          => Cardinality(Bought(cart[tx[c].req.userId])) < MaxCartLines
    BY <1>1 DEF ReadLine, LineAllowed, Bought, SetLineRequest
  <1>9. MayWrite(c)'
    BY <1>2, <1>3, <1>4, <1>5, <1>8 DEF MayWrite, tables
  <1> QED
    BY <1>2, <1>5, <1>6, <1>7, <1>9, Advance DEF Agreement, LocksFit


LEMMA AgreeReadCategory ==
  ASSUME TypeOK, StepsFit, Agreement, NEW c \in Conns, ReadCategory(c)
  PROVE  Agreement'
  <1> DEFINE t == [tx[c] EXCEPT !.step = "patchProduct"]
  <1>1. tx[c] \in Transaction
    BY DEF TypeOK
  <1>2. tx' = [tx EXCEPT ![c] = t] /\ tx'[c] = t
    BY DEF ReadCategory, Goto, TypeOK
  <1>3. /\ t.step = "patchProduct" /\ t.req = tx[c].req
        /\ t.seen = tx[c].seen /\ t.seenActive = tx[c].seenActive
    BY <1>1 DEF Transaction
  <1> HIDE DEF t
  <1>4. ~HasCart(t) /\ ~HasOrder(t) /\ ~HasUser(t)
    BY <1>3 DEF HasCart, HasOrder, HasUser
  <1>5. UNCHANGED <<tables, acked>> /\ UNCHANGED locks
    BY DEF ReadCategory
  <1>6. LocksOf(c)'
    BY <1>2, <1>3, <1>4, <1>5 DEF LocksOf, Agreement, LocksFit, Holds
  <1>7. ReadsTrue(c)' /\ MayWrite(c)'
    BY <1>2, <1>3, <1>4, <1>5
    DEF ReadsTrue, MayWrite, Agreement, ReadsStillTrue, tables
  <1> QED
    BY <1>2, <1>5, <1>6, <1>7, Advance DEF Agreement, LocksFit

LEMMA AgreeReadCart ==
  ASSUME TypeOK, StepsFit, Agreement, NEW c \in Conns, ReadCart(c)
  PROVE  Agreement'
  <1> DEFINE t == [tx[c] EXCEPT !.lines = cart[Customer(c)], !.step = "lockProducts"]
  <1>1. tx[c].req \in CheckoutRequest /\ tx[c] \in Transaction
    BY DEF ReadCart, StepsFit, Fits, TypeOK
  <1>2. tx' = [tx EXCEPT ![c] = t] /\ tx'[c] = t
    BY DEF ReadCart, TypeOK
  <1>3. /\ t.step = "lockProducts" /\ t.req = tx[c].req
        /\ t.lines = cart[Customer(c)]
        /\ t.seen = tx[c].seen /\ t.seenActive = tx[c].seenActive
    BY <1>1 DEF Transaction
  <1> HIDE DEF t
  <1>4. ~HasOrder(t) /\ HasUser(tx[c]) /\ tx[c].step = "readCart"
    BY <1>1, <1>3 DEF HasOrder, HasUser, ReadCart, CheckoutRequest, MoveRequest,
                      CancelRequest, StatusRequest
  <1>5. UNCHANGED <<tables, acked>> /\ UNCHANGED locks
    BY DEF ReadCart
  <1>6. LocksOf(c)'
    BY <1>2, <1>3, <1>4, <1>5
    DEF LocksOf, Agreement, LocksFit, Holds, Customer
  <1>7. ReadsTrue(c)'
    BY <1>2, <1>3, <1>4, <1>5
    DEF ReadsTrue, Agreement, ReadsStillTrue, tables, Customer, KeyUsed
  <1>8. MayWrite(c)'
    BY <1>2, <1>3, <1>4, <1>5 DEF MayWrite, ReadCart
  <1> QED
    BY <1>2, <1>5, <1>6, <1>7, <1>8, Advance DEF Agreement, LocksFit

LEMMA AgreeLockProduct ==
  ASSUME TypeOK, StepsFit, Agreement, NEW c \in Conns, LockProduct(c)
  PROVE  Agreement'
  <1>1. PICK p \in Smallest(ProductsToLock(c)) :
          /\ Acquire(c, ProductRowOf(p), ProductLock)
          /\ tx' = [tx EXCEPT ![c].seen[p] = product[p],
                              ![c].step = IF ProductsToLock(c) = {p}
                                          THEN AfterProducts(Op(c)) ELSE @]
    BY DEF LockProduct
  <1> DEFINE s == IF ProductsToLock(c) = {p} THEN AfterProducts(Op(c))
                  ELSE tx[c].step
             t == [tx[c] EXCEPT !.seen[p] = product[p], !.step = s]
  <1>2. /\ p \in Products /\ tx[c].step = "lockProducts" /\ tx[c] \in Transaction
        /\ tx[c].req \in CheckoutRequest \cup MoveRequest \cup PatchRequest
    BY NamedProducts DEF LockProduct, TypeOK, StepsFit, Fits
  <1>3. /\ s \in {"lockProducts", "lockCategories", "moveOrder", "readCategory"}
        /\ s = "lockCategories" => tx[c].req \in CheckoutRequest
        /\ s = "moveOrder" => tx[c].req \in MoveRequest
        /\ s = "readCategory" => tx[c].req \in PatchRequest
    BY <1>2 DEF AfterProducts, Op, MoveRequest, CheckoutRequest,
                CancelRequest, StatusRequest, PatchRequest
  <1>4. tx' = [tx EXCEPT ![c] = t] /\ tx'[c] = t
    BY <1>1 DEF TypeOK
  <1>5. /\ t.step = s /\ t.req = tx[c].req /\ t.lines = tx[c].lines
        /\ t.status = tx[c].status /\ t.seenActive = tx[c].seenActive
        /\ t.seen = [tx[c].seen EXCEPT ![p] = product[p]]
    BY <1>2 DEF Transaction
  <1> HIDE DEF s, t
  <1>6. /\ HasCart(t) => HasCart(tx[c])
        /\ HasUser(t) => HasUser(tx[c])
        /\ HasOrder(t) => HasOrder(tx[c])
        /\ t.step # "readCart" /\ t.step # "writeLine"
    BY <1>2, <1>3, <1>5 DEF HasCart, HasUser, HasOrder
  <1>7. /\ Compatible(locks') /\ locks \subseteq locks'
        /\ Holds(c, ProductRowOf(p), "UPDATE")'
    BY <1>1, AcquireCompatible DEF ProductLock, Agreement
  <1>8. UNCHANGED <<tables, acked>>
    BY DEF LockProduct
  <1>9. LocksOf(c)'
    <2>1. \A row, mode : Holds(c, row, mode) => Holds(c, row, mode)'
      BY <1>7 DEF Holds
    <2>2. \A q \in Products : t.seen[q] # Null => Holds(c, ProductRowOf(q), "UPDATE")'
      BY <1>2, <1>5, <1>7, <2>1 DEF Transaction, Agreement, LocksFit, LocksOf
    <2> QED
      BY <1>4, <1>5, <1>6, <2>1, <2>2 DEF LocksOf, Agreement, LocksFit, Customer
  <1>10. ReadsTrue(c)'
    <2>1. \A q \in Products : t.seen[q] \in {Null, product[q]}
      <3>1. ReadsTrue(c)
        BY DEF Agreement, ReadsStillTrue
      <3>2. /\ t.seen[p] = product[p]
            /\ \A q \in Products : q # p => t.seen[q] = tx[c].seen[q]
        BY <1>2, <1>5 DEF Transaction
      <3> QED
        BY <3>1, <3>2 DEF ReadsTrue
    <2>2. HasCart(t) => /\ t.lines = cart[t.req.userId]
                        /\ ~KeyUsed(orders, t.req.userId, t.req.key)
      BY <1>5, <1>6 DEF ReadsTrue, Agreement, ReadsStillTrue, Customer
    <2>3. ReadsTrue(c) /\ UNCHANGED <<product, categoryActive, cart, orders>>
      BY <1>8 DEF Agreement, ReadsStillTrue, tables
    <2> QED
      BY <1>4, <1>5, <1>6, <2>1, <2>2, <2>3 DEF ReadsTrue, Customer, KeyUsed
  <1>11. MayWrite(c)'
    BY <1>4, <1>5, <1>6, <1>8
    DEF MayWrite, Agreement, WritesStillLegal, tables, Target, GivesBack, Op
  <1> QED
    BY <1>4, <1>7, <1>8, <1>9, <1>10, <1>11, Advance

LEMMA AgreeLockCategory ==
  ASSUME TypeOK, StepsFit, Agreement, NEW c \in Conns, LockCategory(c)
  PROVE  Agreement'
  <1>1. PICK k \in Smallest(CategoriesToLock(c)) :
          /\ Acquire(c, CategoryRowOf(k), CategoryLock)
          /\ tx' = [tx EXCEPT ![c].seenActive[k] = categoryActive[k],
                              ![c].step = IF CategoriesToLock(c) = {k}
                                          THEN "placeOrder" ELSE @]
    BY DEF LockCategory
  <1> DEFINE s == IF CategoriesToLock(c) = {k} THEN "placeOrder" ELSE tx[c].step
             t == [tx[c] EXCEPT !.seenActive[k] = categoryActive[k], !.step = s]
  <1>2. /\ tx[c].step = "lockCategories" /\ tx[c] \in Transaction
        /\ tx[c].req \in CheckoutRequest
        /\ \A p \in Bought(tx[c].lines) : tx[c].seen[p] # Null
    BY DEF LockCategory, TypeOK, StepsFit, Fits
  <1>3. k \in Categories
    BY <1>2 DEF Smallest, CategoriesToLock, CategoriesNamed, Transaction,
                ProductRow, Bought
  <1>4. tx' = [tx EXCEPT ![c] = t] /\ tx'[c] = t
    BY <1>1 DEF TypeOK
  <1>5. /\ t.step = s /\ t.req = tx[c].req /\ t.lines = tx[c].lines
        /\ t.status = tx[c].status /\ t.seen = tx[c].seen
        /\ t.seenActive = [tx[c].seenActive EXCEPT ![k] = categoryActive[k]]
        /\ s \in {"lockCategories", "placeOrder"}
    BY <1>2 DEF Transaction
  <1> HIDE DEF s, t
  <1>6. /\ HasCart(tx[c]) /\ HasUser(tx[c]) /\ ~HasOrder(t)
        /\ t.step # "readCart" /\ t.step # "writeLine"
    BY <1>2, <1>5 DEF HasCart, HasUser, HasOrder
  <1>7. /\ Compatible(locks') /\ locks \subseteq locks'
        /\ Holds(c, CategoryRowOf(k), "SHARE")'
    BY <1>1, AcquireCompatible DEF CategoryLock, Agreement
  <1>8. UNCHANGED <<tables, acked>>
    BY DEF LockCategory
  <1>9. LocksOf(c)'
    <2>1. \A row, mode : Holds(c, row, mode) => Holds(c, row, mode)'
      BY <1>7 DEF Holds
    <2>2. \A q \in Categories :
            t.seenActive[q] # Null => Holds(c, CategoryRowOf(q), "SHARE")'
      BY <1>2, <1>3, <1>5, <1>7, <2>1 DEF Transaction, Agreement, LocksFit, LocksOf
    <2> QED
      BY <1>4, <1>5, <1>6, <2>1, <2>2 DEF LocksOf, Agreement, LocksFit, Customer
  <1>10. ReadsTrue(c)'
    <2>1. \A q \in Categories : t.seenActive[q] \in {Null, categoryActive[q]}
      <3>1. ReadsTrue(c)
        BY DEF Agreement, ReadsStillTrue
      <3>2. /\ t.seenActive[k] = categoryActive[k]
            /\ \A q \in Categories : q # k => t.seenActive[q] = tx[c].seenActive[q]
        BY <1>2, <1>3, <1>5 DEF Transaction
      <3> QED
        BY <3>1, <3>2 DEF ReadsTrue
    <2>2. HasCart(t) => /\ t.lines = cart[t.req.userId]
                        /\ ~KeyUsed(orders, t.req.userId, t.req.key)
      BY <1>5, <1>6 DEF ReadsTrue, Agreement, ReadsStillTrue, Customer
    <2>3. ReadsTrue(c) /\ UNCHANGED <<product, categoryActive, cart, orders>>
      BY <1>8 DEF Agreement, ReadsStillTrue, tables
    <2> QED
      BY <1>4, <1>5, <1>6, <2>1, <2>2, <2>3 DEF ReadsTrue, Customer, KeyUsed
  <1>11. MayWrite(c)'
    BY <1>4, <1>5, <1>6, <1>8 DEF MayWrite, Agreement, WritesStillLegal
  <1> QED
    BY <1>4, <1>7, <1>8, <1>9, <1>10, <1>11, Advance

LEMMA AgreeLockOrder ==
  ASSUME TypeOK, StepsFit, Agreement, NEW c \in Conns, LockOrder(c)
  PROVE  Agreement'
  <1> DEFINE i == tx[c].req.orderId
             o == orders[i]
             back == GivesBack(c)
             t == [tx[c] EXCEPT !.status = o.status,
                                !.lines = IF back THEN o.items ELSE @,
                                !.step = IF back THEN "lockProducts" ELSE "moveOrder"]
  <1>1. /\ tx[c].req \in MoveRequest /\ tx[c] \in Transaction
        /\ tx[c].lines = EmptyCart /\ tx[c].step = "lockOrder"
    BY DEF LockOrder, StepsFit, Fits, TypeOK
  <1>2. tx' = [tx EXCEPT ![c] = t] /\ tx'[c] = t
    BY DEF LockOrder, TypeOK
  <1>3. /\ t.step \in {"lockProducts", "moveOrder"} /\ t.req = tx[c].req
        /\ t.status = o.status /\ t.seen = tx[c].seen
        /\ t.seenActive = tx[c].seenActive
        /\ t.lines = IF back THEN o.items ELSE EmptyCart
    BY <1>1 DEF Transaction
  <1> HIDE DEF t, back
  <1>4. /\ ~HasCart(t) /\ ~HasUser(t)
        /\ t.step # "readCart" /\ t.step # "writeLine"
    BY <1>1, <1>3 DEF HasCart, HasUser, CheckoutRequest, MoveRequest,
                      CancelRequest, StatusRequest
  <1>5. /\ Compatible(locks') /\ locks \subseteq locks'
        /\ Holds(c, OrderRowOf(i), "UPDATE")'
    BY <1>2, <1>3, AcquireCompatible DEF LockOrder, OrderLock, Agreement, Holds
  <1>6. UNCHANGED <<tables, acked>>
    BY DEF LockOrder
  <1>7. LocksOf(c)'
    BY <1>2, <1>3, <1>4, <1>5 DEF LocksOf, Agreement, LocksFit, Holds
  <1>8. ReadsTrue(c)'
    BY <1>2, <1>3, <1>4, <1>6
    DEF ReadsTrue, Agreement, ReadsStillTrue, tables
  <1>9. MayWrite(c)'
    <2>1. o # Null /\ (tx[c].req \in CancelRequest => o.userId = tx[c].req.userId)
      BY DEF LockOrder, Found, Op, Customer, CancelRequest
    <2>2. <<o.status, Target(c)>> \in Transitions
      BY DEF LockOrder, MayMove, Target, Transitions
    <2>3. Target(c)' = Target(c) /\ GivesBack(c)' = back
      BY <1>2, <1>3 DEF Target, GivesBack, Op, back
    <2>4. orders' = orders
      BY <1>6 DEF tables
    <2> QED
      BY <1>2, <1>3, <1>4, <2>1, <2>2, <2>3, <2>4 DEF MayWrite
  <1> QED
    BY <1>2, <1>5, <1>6, <1>7, <1>8, <1>9, Advance

-----------------------------------------------------------------------------
(* The steps that write.  What another transaction d has locked is not     *)
(* what c, holding its own locks FOR UPDATE, is allowed to change.         *)

LEMMA AgreeAnswerReplay ==
  ASSUME TypeOK, StepsFit, Agreement, NEW c \in Conns, AnswerReplay(c)
  PROVE  Agreement'
  <1>1. PICK o \in OrderIds :
          /\ SameKey(c, o)
          /\ orders[o].requestHash = tx[c].req.hash
          /\ acked' = acked \cup {<<Customer(c), tx[c].req.key, tx[c].req.hash, o>>}
    BY DEF AnswerReplay
  <1>2. Finish(c) /\ UNCHANGED tables
    BY DEF AnswerReplay
  <1>3. /\ LocksFit' /\ ReadsTrue(c)' /\ MayWrite(c)'
        /\ \A d \in Conns \ {c} : tx'[d] = tx[d]
    BY <1>2, FinishLocks DEF Agreement
  <1>4. ASSUME NEW d \in Conns \ {c}
        PROVE  ReadsTrue(d)' /\ MayWrite(d)'
    BY <1>2, <1>3, OtherKept DEF Agreement, ReadsStillTrue, WritesStillLegal
  <1>5. HistoryTellsStatus' /\ OneOrderPerKey'
    BY <1>2, OrdersKept DEF Agreement, tables
  <1>6. AnswersAgree'
    <2> DEFINE new == <<Customer(c), tx[c].req.key, tx[c].req.hash, o>>
    <2>1. /\ orders[o] # Null /\ orders[o].userId = Customer(c)
          /\ orders[o].idempotencyKey = tx[c].req.key
          /\ orders[o].requestHash = tx[c].req.hash
      BY <1>1 DEF SameKey
    <2>2. ASSUME NEW a \in acked, a[1] = Customer(c), a[2] = tx[c].req.key
          PROVE  a = new
      <3>1. a \in Users \X Keys \X Hashes \X OrderIds
        BY DEF TypeOK
      <3>2. /\ orders[a[4]] # Null /\ orders[a[4]].userId = a[1]
            /\ orders[a[4]].idempotencyKey = a[2]
            /\ orders[a[4]].requestHash = a[3]
        BY DEF Agreement, AnswersAgree
      <3>3. a[4] = o
        BY <2>1, <2>2, <3>1, <3>2 DEF Agreement, OneOrderPerKey
      <3> QED
        BY <2>1, <2>2, <3>1, <3>2, <3>3
    <2>3. orders' = orders
      BY <1>2 DEF tables
    <2> QED
      BY <1>1, <2>1, <2>2, <2>3 DEF Agreement, AnswersAgree
  <1> QED
    BY <1>3, <1>4, <1>5, <1>6 DEF Agreement, ReadsStillTrue, WritesStillLegal

LEMMA AgreeWriteLine ==
  ASSUME TypeOK, StepsFit, Agreement, NEW c \in Conns, WriteLine(c)
  PROVE  Agreement'
  <1> DEFINE u == tx[c].req.userId
  <1>1. /\ Finish(c)
        /\ UNCHANGED <<product, categoryActive, orders, history, outbox, acked>>
        /\ tx[c].step = "writeLine"
    BY DEF WriteLine
  <1>2. /\ LocksFit' /\ ReadsTrue(c)' /\ MayWrite(c)'
        /\ \A d \in Conns \ {c} : tx'[d] = tx[d]
    BY <1>1, FinishLocks DEF Agreement
  <1>3. u \in Users /\ \A v \in Users \ {u} : cart'[v] = cart[v]
    BY DEF WriteLine, StepsFit, Fits, LineRequest, SetLineRequest,
           RemoveLineRequest, TypeOK
  <1>4. Holds(c, UserRowOf(u), "UPDATE")
    BY <1>1 DEF HasUser, Agreement, LocksFit, LocksOf, Customer
  <1>5. ASSUME NEW d \in Conns \ {c}, HasUser(tx[d])
        PROVE  Customer(d) # u
    BY <1>4, <1>5, Exclusive DEF Agreement, LocksFit, LocksOf
  <1>6. ASSUME NEW d \in Conns \ {c}
        PROVE  ReadsTrue(d)' /\ MayWrite(d)'
    <2>1. ReadsTrue(d) /\ MayWrite(d) /\ tx'[d] = tx[d]
      BY <1>2 DEF Agreement, ReadsStillTrue, WritesStillLegal
    <2>2. HasCart(tx[d]) => Customer(d) \in Users
      BY DEF HasCart, CheckoutRequest, Customer
    <2>3. HasCart(tx[d]) => cart'[Customer(d)] = cart[Customer(d)]
      BY <1>3, <1>5, <2>2 DEF HasUser
    <2>4. tx[d].step = "writeLine" /\ tx[d].req \in SetLineRequest
            => cart'[tx[d].req.userId] = cart[tx[d].req.userId]
      BY <1>3, <1>5 DEF HasUser, SetLineRequest, Customer
    <2>5. ReadsTrue(d)'
      BY <1>1, <2>1, <2>3 DEF ReadsTrue, Customer, KeyUsed
    <2>6. MayWrite(d)'
      BY <1>1, <2>1, <2>4 DEF MayWrite, Target, GivesBack, Op
    <2> QED
      BY <2>5, <2>6
  <1>7. HistoryTellsStatus' /\ AnswersAgree' /\ OneOrderPerKey'
    BY <1>1, BookKept DEF Agreement
  <1> QED
    BY <1>2, <1>6, <1>7 DEF Agreement, ReadsStillTrue, WritesStillLegal

(* Two transactions have not both read and locked one product.             *)
LEMMA OneReader ==
  ASSUME LocksFit, NEW c \in Conns, NEW d \in Conns \ {c}, NEW p \in Products,
         tx[c].seen[p] # Null
  PROVE  tx[d].seen[p] = Null
  BY Exclusive DEF LocksFit, LocksOf

LEMMA AgreePatchProduct ==
  ASSUME TypeOK, StepsFit, Agreement, NEW c \in Conns, PatchProduct(c)
  PROVE  Agreement'
  <1> DEFINE q == tx[c].req.productId
  <1>1. /\ Finish(c)
        /\ UNCHANGED <<categoryActive, cart, orders, history, outbox, acked>>
    BY DEF PatchProduct
  <1>2. /\ LocksFit' /\ ReadsTrue(c)' /\ MayWrite(c)'
        /\ \A d \in Conns \ {c} : tx'[d] = tx[d]
    BY <1>1, FinishLocks DEF Agreement
  <1>3. /\ q \in Products /\ tx[c].seen[q] # Null
        /\ \A p \in Products \ {q} : product'[p] = product[p]
    BY DEF PatchProduct, StepsFit, Fits, PatchRequest, TypeOK
  <1>4. ASSUME NEW d \in Conns \ {c}
        PROVE  ReadsTrue(d)' /\ MayWrite(d)'
    <2>1. ReadsTrue(d) /\ MayWrite(d) /\ tx'[d] = tx[d]
      BY <1>2 DEF Agreement, ReadsStillTrue, WritesStillLegal
    <2>2. tx[d].seen[q] = Null
      BY <1>3, OneReader DEF Agreement
    <2>3. ReadsTrue(d)'
      BY <1>1, <1>3, <2>1, <2>2 DEF ReadsTrue, Customer, KeyUsed
    <2>4. MayWrite(d)'
      BY <1>1, <2>1 DEF MayWrite, Target, GivesBack, Op
    <2> QED
      BY <2>3, <2>4
  <1>5. HistoryTellsStatus' /\ AnswersAgree' /\ OneOrderPerKey'
    BY <1>1, BookKept DEF Agreement
  <1> QED
    BY <1>2, <1>4, <1>5 DEF Agreement, ReadsStillTrue, WritesStillLegal

LEMMA AgreePatchCategory ==
  ASSUME TypeOK, StepsFit, Agreement, NEW k \in Categories, NEW active,
         PatchCategory(k, active)
  PROVE  Agreement'
  <1>1. UNCHANGED <<product, cart, orders, history, outbox, locks, tx, acked>>
    BY DEF PatchCategory
  <1>2. \A j \in Categories \ {k} : categoryActive'[j] = categoryActive[j]
    BY DEF PatchCategory, TypeOK
  <1>3. ASSUME NEW d \in Conns
        PROVE  ReadsTrue(d)' /\ MayWrite(d)'
    <2>1. ReadsTrue(d) /\ MayWrite(d) /\ LocksOf(d)
      BY DEF Agreement, ReadsStillTrue, WritesStillLegal, LocksFit
    <2>2. tx[d].seenActive[k] = Null
      BY <2>1 DEF LocksOf, Holds, PatchCategory, Conflicts
    <2>3. ReadsTrue(d)'
      BY <1>1, <1>2, <2>1, <2>2 DEF ReadsTrue, Customer, KeyUsed
    <2>4. MayWrite(d)'
      BY <1>1, <2>1 DEF MayWrite, Target, GivesBack, Op
    <2> QED
      BY <2>3, <2>4
  <1>4. HistoryTellsStatus' /\ AnswersAgree' /\ OneOrderPerKey'
    BY <1>1, BookKept DEF Agreement
  <1>5. LocksFit'
    BY <1>1 DEF Agreement, LocksFit, Compatible, LocksOf, Holds, Customer
  <1> QED
    BY <1>3, <1>4, <1>5 DEF Agreement, ReadsStillTrue, WritesStillLegal

(* Rows whose product is on no line of a change of stock are as before.    *)
LEMMA StockElsewhere ==
  ASSUME TypeOK, NEW lines \in Lines, NEW p \in Products \ Bought(lines)
  PROVE  /\ LessStock(product, lines)[p] = product[p]
         /\ MoreStock(product, lines)[p] = product[p]
  <1>1. lines[p] = 0
    BY ShopAssumption DEF Lines, Bought
  <1>2. product[p] \in ProductRow
    BY DEF TypeOK
  <1>3. product[p].stock - 0 = product[p].stock /\ product[p].stock + 0 = product[p].stock
    BY <1>2 DEF ProductRow
  <1>4. [product[p] EXCEPT !.stock = product[p].stock] = product[p]
    BY <1>2 DEF ProductRow
  <1> QED
    BY <1>1, <1>3, <1>4 DEF LessStock, MoreStock

LEMMA AgreePlaceOrder ==
  ASSUME TypeOK, StepsFit, Agreement, NEW c \in Conns, PlaceOrder(c)
  PROVE  Agreement'
  <1> DEFINE u == Customer(c)
             key == tx[c].req.key
             hash == tx[c].req.hash
             row == NewOrder(u, key, hash, tx[c].lines, tx[c].seen)
             entry == HistoryEntry("NULL", "PENDING", u)
  <1>1. PICK o \in Smallest({i \in OrderIds : orders[i] = Null}) :
          /\ orders' = [orders EXCEPT ![o] = row]
          /\ history' = [history EXCEPT ![o] = <<entry>>]
          /\ outbox' = outbox \cup {<<o, e>> : e \in EventsOf("PENDING")}
          /\ acked' = acked \cup {<<u, key, hash, o>>}
    BY DEF PlaceOrder
  <1>2. /\ o \in OrderIds /\ orders[o] = Null
        /\ tx[c].req \in CheckoutRequest /\ u \in Users /\ tx[c] \in Transaction
        /\ row \in Order
        /\ \A p \in Bought(tx[c].lines) : tx[c].seen[p] # Null
        /\ HasCart(tx[c]) /\ HasUser(tx[c])
    BY NewOrderTyped DEF PlaceOrder, Smallest, StepsFit, Fits, HasCart, HasUser
  <1>3. /\ Finish(c) /\ UNCHANGED categoryActive
        /\ product' = LessStock(product, tx[c].lines)
        /\ cart' = [cart EXCEPT ![u] = EmptyCart]
        /\ ~KeyUsed(orders, u, key)
    BY DEF PlaceOrder, Accepted
  <1>4. /\ LocksFit' /\ ReadsTrue(c)' /\ MayWrite(c)'
        /\ \A d \in Conns \ {c} : tx'[d] = tx[d]
    BY <1>3, FinishLocks DEF Agreement
  <1>5. /\ row # Null /\ row.userId = u /\ row.idempotencyKey = key
        /\ row.requestHash = hash /\ row.status = "PENDING"
    BY <1>2, ShopAssumption DEF NewOrder
  <1> HIDE DEF row
  <1>6. /\ orders'[o] = row
        /\ \A i \in OrderIds \ {o} : orders'[i] = orders[i] /\ history'[i] = history[i]
        /\ history'[o] = <<entry>>
        /\ \A v \in Users \ {u} : cart'[v] = cart[v]
    BY <1>1, <1>2, <1>3 DEF TypeOK
  <1>7. ASSUME NEW d \in Conns \ {c}
        PROVE  ReadsTrue(d)' /\ MayWrite(d)'
    <2>1. ReadsTrue(d) /\ MayWrite(d) /\ tx'[d] = tx[d]
      BY <1>4 DEF Agreement, ReadsStillTrue, WritesStillLegal
    <2>2. \A p \in Products : tx[d].seen[p] # Null => product'[p] = product[p]
      BY <1>2, <1>3, OneReader, StockElsewhere DEF Agreement, Transaction, Bought
    <2>3. HasUser(tx[d]) => Customer(d) # u
      BY <1>2, Exclusive DEF Agreement, LocksFit, LocksOf
    <2>4. tx[d].step = "readCart" \/ HasCart(tx[d]) =>
            /\ Customer(d) \in Users /\ HasUser(tx[d])
            /\ ~KeyUsed(orders', Customer(d), tx[d].req.key)
      BY <2>1, <2>3, <1>5, <1>6
      DEF ReadsTrue, KeyUsed, HasUser, HasCart, CheckoutRequest, Customer, StepsFit, Fits
    <2>5. ReadsTrue(d)'
      BY <1>3, <1>6, <2>1, <2>2, <2>3, <2>4 DEF ReadsTrue, Customer
    <2>6. HasOrder(tx[d]) =>
            tx[d].req.orderId # o /\ orders'[tx[d].req.orderId] = orders[tx[d].req.orderId]
      BY <1>2, <1>6, <2>1
      DEF MayWrite, HasOrder, MoveRequest, CancelRequest, StatusRequest
    <2>7. tx[d].step = "writeLine" /\ tx[d].req \in SetLineRequest
            => cart'[tx[d].req.userId] = cart[tx[d].req.userId]
      BY <1>6, <2>3 DEF HasUser, SetLineRequest, Customer
    <2>8. MayWrite(d)'
      BY <2>1, <2>6, <2>7 DEF MayWrite, Target, GivesBack, Op
    <2> QED
      BY <2>5, <2>8
  <1>8. HistoryTellsStatus'
    <2>1. HistoryOf(o)'
      <3>1. Len(<<entry>>) = 1 /\ <<entry>>[1] = entry /\ entry.toStatus = "PENDING"
        BY DEF HistoryEntry
      <3>2. \A e \in EventType : <<o, e>> \in outbox' <=> e \in EventsOf("PENDING")
        BY <1>1, <1>2 DEF Agreement, HistoryTellsStatus, HistoryOf
      <3> HIDE DEF entry
      <3>3. \A e \in EventType :
              <<o, e>> \in outbox' <=> \E i \in 1..1 : e \in EventsOf(<<entry>>[i].toStatus)
        BY <3>1, <3>2
      <3> QED
        BY <3>1, <3>3, <1>5, <1>6 DEF HistoryOf, entry
    <2>2. ASSUME NEW i \in OrderIds \ {o}
          PROVE  HistoryOf(i)'
      <3>1. \A e \in EventType : <<i, e>> \in outbox' <=> <<i, e>> \in outbox
        BY <1>1
      <3> QED
        BY <3>1, <1>6, HistoryKept DEF Agreement, HistoryTellsStatus
    <2> QED
      BY <2>1, <2>2 DEF HistoryTellsStatus
  <1>9. OneOrderPerKey'
    <2>1. \A i \in OrderIds \ {o} :
            orders'[i] # Null => ~(orders'[i].userId = u /\ orders'[i].idempotencyKey = key)
      BY <1>3, <1>6 DEF KeyUsed
    <2> QED
      BY <1>2, <1>5, <1>6, <2>1 DEF Agreement, OneOrderPerKey
  <1>10. AnswersAgree'
    <2>1. \A a \in acked : a \in Users \X Keys \X Hashes \X OrderIds
      BY DEF TypeOK
    <2>2. \A a \in acked : /\ a[4] \in OrderIds \ {o}
                           /\ ~(a[1] = u /\ a[2] = key)
      BY <1>2, <1>3, <2>1 DEF Agreement, AnswersAgree, KeyUsed
    <2> QED
      BY <1>1, <1>5, <1>6, <2>2 DEF Agreement, AnswersAgree
  <1> QED
    BY <1>4, <1>7, <1>8, <1>9, <1>10
    DEF Agreement, ReadsStillTrue, WritesStillLegal

(* What the transaction that is about to move an order knows.              *)
LEMMA MoveKnows ==
  ASSUME TypeOK, StepsFit, Agreement, NEW c \in Conns, tx[c].step = "moveOrder"
  PROVE  LET o == tx[c].req.orderId
         IN /\ tx[c].req \in MoveRequest /\ tx[c] \in Transaction
            /\ o \in OrderIds /\ orders[o] \in Order
            /\ orders[o].status = tx[c].status
            /\ <<orders[o].status, Target(c)>> \in Transitions
            /\ Target(c) = "CANCELLED" => Actor(c) = orders[o].userId
            /\ tx[c].lines = IF GivesBack(c) THEN orders[o].items ELSE EmptyCart
            /\ HasOrder(tx[c]) /\ Holds(c, OrderRowOf(o), "UPDATE")
            /\ \A p \in Bought(tx[c].lines) : tx[c].seen[p] # Null
  <1>1. /\ tx[c].req \in MoveRequest /\ tx[c] \in Transaction /\ HasOrder(tx[c])
        /\ \A p \in Bought(tx[c].lines) : tx[c].seen[p] # Null
    BY DEF StepsFit, Fits, TypeOK, HasOrder
  <1>2. MayWrite(c) /\ LocksOf(c)
    BY DEF Agreement, WritesStillLegal, LocksFit
  <1> QED
    BY <1>1, <1>2, MoveTyped DEF MayWrite, LocksOf, TypeOK

LEMMA AgreeMoveOrder ==
  ASSUME TypeOK, StepsFit, Agreement, NEW c \in Conns, MoveOrder(c)
  PROVE  Agreement'
  <1>0. PICK o \in OrderIds : o = tx[c].req.orderId
    BY MoveKnows DEF MoveOrder
  <1> DEFINE target == Target(c)
             entry == HistoryEntry(tx[c].status, target, Actor(c))
  <1>1. /\ Finish(c) /\ UNCHANGED <<categoryActive, cart, acked>>
        /\ product' = MoreStock(product, tx[c].lines)
        /\ orders' = [orders EXCEPT ![o].status = target]
        /\ history' = [history EXCEPT ![o] = Append(@, entry)]
        /\ outbox' = outbox \cup {<<o, e>> : e \in EventsOf(target)}
        /\ tx[c].step = "moveOrder"
    BY <1>0 DEF MoveOrder
  <1>2. /\ tx[c].req \in MoveRequest /\ tx[c] \in Transaction
        /\ orders[o] \in Order
        /\ orders[o].status = tx[c].status
        /\ <<orders[o].status, target>> \in Transitions
        /\ target = "CANCELLED" => Actor(c) = orders[o].userId
        /\ target # "CANCELLED" => Actor(c) \in Admins
        /\ HasOrder(tx[c]) /\ Holds(c, OrderRowOf(o), "UPDATE")
        /\ \A p \in Bought(tx[c].lines) : tx[c].seen[p] # Null
    BY <1>0, <1>1, MoveKnows, MoveTyped
  <1>3. /\ LocksFit' /\ ReadsTrue(c)' /\ MayWrite(c)'
        /\ \A d \in Conns \ {c} : tx'[d] = tx[d]
    BY <1>1, FinishLocks DEF Agreement
  <1>4. /\ orders'[o] = [orders[o] EXCEPT !.status = target]
        /\ history'[o] = Append(history[o], entry)
        /\ \A i \in OrderIds \ {o} : orders'[i] = orders[i] /\ history'[i] = history[i]
    BY <1>1, <1>2 DEF TypeOK
  <1>5. /\ orders[o] # Null /\ orders'[o] # Null /\ orders'[o].status = target
        /\ orders'[o].userId = orders[o].userId
        /\ orders'[o].idempotencyKey = orders[o].idempotencyKey
        /\ orders'[o].requestHash = orders[o].requestHash
    <2>1. target \in Status
      BY <1>2, MoveTyped
    <2>2. orders'[o] \in Order
      BY <2>1, <1>2, <1>4 DEF Order
    <2> QED
      BY <2>2, <1>2, <1>4, ShopAssumption DEF Order
  <1> HIDE DEF target, entry
  <1>6. \A i \in OrderIds :
          /\ orders'[i] = Null <=> orders[i] = Null
          /\ orders[i] # Null => /\ orders'[i].userId = orders[i].userId
                                 /\ orders'[i].idempotencyKey = orders[i].idempotencyKey
                                 /\ orders'[i].requestHash = orders[i].requestHash
    BY <1>4, <1>5
  <1>7. ASSUME NEW d \in Conns \ {c}
        PROVE  ReadsTrue(d)' /\ MayWrite(d)'
    <2>1. ReadsTrue(d) /\ MayWrite(d) /\ tx'[d] = tx[d]
      BY <1>3 DEF Agreement, ReadsStillTrue, WritesStillLegal
    <2>2. \A p \in Products : tx[d].seen[p] # Null => product'[p] = product[p]
      BY <1>1, <1>2, OneReader, StockElsewhere DEF Agreement, Transaction, Bought
    <2>3. \A u, key : KeyUsed(orders', u, key) <=> KeyUsed(orders, u, key)
      BY <1>6 DEF KeyUsed
    <2>4. ReadsTrue(d)'
      BY <1>1, <2>1, <2>2, <2>3 DEF ReadsTrue, Customer
    <2>5. HasOrder(tx[d]) => orders'[tx[d].req.orderId] = orders[tx[d].req.orderId]
      <3>1. HasOrder(tx[d]) => tx[d].req.orderId # o
        BY <1>0, <1>2, Exclusive DEF Agreement, LocksFit, LocksOf
      <3> QED
        BY <3>1, <1>4 DEF HasOrder, MoveRequest, CancelRequest, StatusRequest
    <2>6. MayWrite(d)'
      BY <1>1, <2>1, <2>5 DEF MayWrite, Target, GivesBack, Op
    <2> QED
      BY <2>4, <2>6
  <1>8. OneOrderPerKey' /\ AnswersAgree'
    <2>1. OneOrderPerKey'
      BY <1>6 DEF Agreement, OneOrderPerKey
    <2>2. \A a \in acked : a[4] \in OrderIds
      BY DEF TypeOK
    <2> QED
      BY <1>1, <1>6, <2>1, <2>2 DEF Agreement, AnswersAgree
  <1>9. HistoryOf(o)'
    <2> DEFINE h == history[o]
               n == Len(h)
    <2>1. /\ h \in Seq(HistoryRow) /\ n \in Nat /\ n > 0
          /\ h[1] = HistoryEntry("NULL", "PENDING", orders[o].userId)
          /\ h[n].toStatus = orders[o].status
          /\ \A i \in 2..n :
               /\ h[i].fromStatus = h[i-1].toStatus
               /\ <<h[i].fromStatus, h[i].toStatus>> \in Transitions
               /\ h[i].toStatus = "CANCELLED" => h[i].actorUserId = orders[o].userId
               /\ h[i].toStatus # "CANCELLED" => h[i].actorUserId \in Admins
          /\ \A e \in EventType :
               <<o, e>> \in outbox <=> \E i \in 1..n : e \in EventsOf(h[i].toStatus)
      <3>1. HistoryOf(o) /\ h \in Seq(HistoryRow)
        BY DEF Agreement, HistoryTellsStatus, TypeOK
      <3> QED
        BY <3>1, <1>5 DEF HistoryOf
    <2>2. /\ entry.fromStatus = orders[o].status /\ entry.toStatus = target
          /\ entry.actorUserId = Actor(c)
      BY <1>2 DEF entry, HistoryEntry
    <2>3. /\ Len(history'[o]) = n + 1 /\ history'[o][n + 1] = entry
          /\ \A i \in 1..n : history'[o][i] = h[i]
      <3>1. entry \in HistoryRow
        BY <1>2, MoveTyped DEF entry, target, HistoryEntry, HistoryRow, Order
      <3> QED
        BY <3>1, <1>4, <2>1
    <2> DEFINE g == history'[o]
    <2> HIDE DEF h, n, g
    <2>4. g[1] = HistoryEntry("NULL", "PENDING", orders'[o].userId)
      BY <2>1, <2>3, <1>5 DEF g
    <2>5. g[n + 1].toStatus = orders'[o].status
      BY <2>2, <2>3, <1>5 DEF g
    <2>6. ASSUME NEW i \in 2..(n + 1)
          PROVE  /\ g[i].fromStatus = g[i-1].toStatus
                 /\ <<g[i].fromStatus, g[i].toStatus>> \in Transitions
                 /\ g[i].toStatus = "CANCELLED" => g[i].actorUserId = orders'[o].userId
                 /\ g[i].toStatus # "CANCELLED" => g[i].actorUserId \in Admins
      <3>1. CASE i = n + 1
        <4>1. g[i] = entry /\ i - 1 = n /\ g[n] = h[n]
          BY <3>1, <2>1, <2>3 DEF g
        <4> QED
          BY <4>1, <2>1, <2>2, <1>2, <1>5
      <3>2. CASE i # n + 1
        <4>1. i \in 2..n /\ i - 1 \in 1..n /\ i \in 1..n
          BY <3>2, <2>1
        <4>2. g[i] = h[i] /\ g[i-1] = h[i-1]
          BY <4>1, <2>3 DEF g
        <4> QED
          BY <4>1, <4>2, <2>1, <1>5
      <3> QED
        BY <3>1, <3>2
    <2>7. \A e \in EventType :
            <<o, e>> \in outbox' <=> \E i \in 1..(n + 1) : e \in EventsOf(g[i].toStatus)
      <3> TAKE e \in EventType
      <3>1. <<o, e>> \in outbox' <=> <<o, e>> \in outbox \/ e \in EventsOf(target)
        BY <1>1
      <3>2. (\E i \in 1..(n + 1) : e \in EventsOf(g[i].toStatus))
              <=> \/ \E i \in 1..n : e \in EventsOf(g[i].toStatus)
                  \/ e \in EventsOf(g[n + 1].toStatus)
        BY <2>1
      <3> QED
        BY <3>1, <3>2, <2>1, <2>2, <2>3 DEF g
    <2> QED
      BY <1>5, <2>1, <2>3, <2>4, <2>5, <2>6, <2>7 DEF HistoryOf, g
  <1>10. HistoryTellsStatus'
    <2>1. ASSUME NEW i \in OrderIds \ {o}
          PROVE  HistoryOf(i)'
      <3>1. \A e \in EventType : <<i, e>> \in outbox' <=> <<i, e>> \in outbox
        BY <1>1
      <3> QED
        BY <3>1, <1>4, HistoryKept DEF Agreement, HistoryTellsStatus
    <2> QED
      BY <2>1, <1>9 DEF HistoryTellsStatus
  <1> QED
    BY <1>3, <1>7, <1>8, <1>10 DEF Agreement, ReadsStillTrue, WritesStillLegal

-----------------------------------------------------------------------------
(* Init satisfies Inv and every step preserves it.                         *)

LEMMA InvInit == Init => Inv
  <1> SUFFICES ASSUME Init PROVE Inv
    OBVIOUS
  <1>1. TypeOK /\ StepsFit
    BY TypeInit
  <1>2. \A c \in Conns : tx[c] = IdleTx
    BY DEF Init
  <1>3. LocksFit
    BY <1>2, IdleOwnsNothing DEF Init, LocksFit, LocksOf, Compatible
  <1>4. ReadsStillTrue
    BY <1>2, IdleOwnsNothing DEF ReadsStillTrue, ReadsTrue
  <1>5. WritesStillLegal
    BY <1>2, IdleOwnsNothing DEF WritesStillLegal, MayWrite
  <1>6. HistoryTellsStatus /\ AnswersAgree /\ OneOrderPerKey
    <2>1. /\ \A o \in OrderIds : orders[o] = Null /\ history[o] = <<>>
          /\ outbox = {} /\ acked = {}
      BY DEF Init, Book!Init
    <2> QED
      BY <2>1 DEF HistoryTellsStatus, HistoryOf, AnswersAgree, OneOrderPerKey
  <1> QED
    BY <1>1, <1>3, <1>4, <1>5, <1>6 DEF Inv

LEMMA InvNext == Inv /\ [Next]_vars => Inv'
  <1> SUFFICES ASSUME Inv, [Next]_vars PROVE Inv'
    OBVIOUS
  <1>1. TypeOK /\ StepsFit /\ Agreement
    BY DEF Inv, Agreement
  <1>2. TypeOK' /\ StepsFit'
    BY TypeNext DEF Inv
  <1>3. ASSUME UNCHANGED vars PROVE Agreement'
    <2>1. UNCHANGED <<tables, acked>> /\ UNCHANGED <<locks, tx>>
      BY <1>3 DEF vars
    <2>2. LocksFit'
      BY <1>1, <2>1 DEF Agreement, LocksFit, LocksOf, Compatible, Holds, Customer
    <2>3. ReadsStillTrue' /\ WritesStillLegal'
      BY <1>1, <2>1, OtherKept DEF Agreement, ReadsStillTrue, WritesStillLegal
    <2> QED
      BY <1>1, <2>1, <2>2, <2>3, BookKept DEF Agreement, tables
  <1>4. ASSUME NEW c \in Conns, NEW r \in Requests, Begin(c, r)
        PROVE  Agreement'
    BY <1>1, <1>4, AgreeBegin
  <1>5. ASSUME NEW c \in Conns, Work(c)
        PROVE  Agreement'
    BY <1>1, <1>5, AgreeLockUser, AgreeFindReplay, AgreeAnswerReplay, AgreeReadCart,
       AgreeLockProduct, AgreeLockCategory, AgreePlaceOrder, AgreeLockOrder,
       AgreeMoveOrder, AgreeReadLine, AgreeWriteLine, AgreeReadCategory, AgreePatchProduct,
       Refusals, AgreeRefuse
    DEF Work
  <1>6. ASSUME NEW c \in Conns, DeadlockVictim(c) \/ Crash(c)
        PROVE  Agreement'
    BY <1>1, <1>6, Refusals, AgreeRefuse
  <1>7. ASSUME NEW patch \in CategoryPatches, PatchCategory(patch[1], patch[2])
        PROVE  Agreement'
    <2>1. patch[1] \in Categories
      BY TxAssumption
    <2> QED
      BY <1>1, <1>7, <2>1, AgreePatchCategory
  <1>8. ASSUME Done PROVE Agreement'
    BY <1>3, <1>8 DEF Done
  <1>9. Agreement'
    BY <1>3, <1>4, <1>5, <1>6, <1>7, <1>8 DEF Next
  <1> QED
    BY <1>2, <1>9 DEF Inv, Agreement

-----------------------------------------------------------------------------
(* In every reachable state the tables and the transactions in progress    *)
(* agree as Inv says.                                                      *)
THEOREM Invariance == Spec => []Inv
  BY InvInit, InvNext, PTL DEF Spec

(* Stock never becomes negative, and every row of every table and every    *)
(* transaction has its type (the CHECK constraint on products.stock and    *)
(* decrementProductStock never disagree).                                  *)
THEOREM TypesCorrect == Spec => []TypeOK
  <1>1. Inv => TypeOK
    BY DEF Inv
  <1> QED
    BY <1>1, Invariance, PTL

(* What a checkout has read and validated is still so when it writes.      *)
THEOREM ReadsStayTrue == Spec => []ReadsStillTrue
  <1>1. Inv => ReadsStillTrue
    BY DEF Inv
  <1> QED
    BY <1>1, Invariance, PTL

(* Every order's history is a legal chain that ends in its status, and its *)
(* e-mails are those of that chain.                                        *)
THEOREM HistoryCorrect == Spec => []HistoryTellsStatus
  <1>1. Inv => HistoryTellsStatus
    BY DEF Inv
  <1> QED
    BY <1>1, Invariance, PTL

(* Every answer to a checkout names the caller's own order, and every      *)
(* answer to one key names the same order.                                 *)
THEOREM CheckoutIdempotent == Spec => []AnswersAgree
  <1>1. Inv => AnswersAgree
    BY DEF Inv
  <1> QED
    BY <1>1, Invariance, PTL

-----------------------------------------------------------------------------
(* OrderTx implements OrderBook: every step of a transaction but its last  *)
(* leaves the tables alone, and the last one does, to the tables as they   *)
(* are then, what OrderBook's atomic operation does.  That what was read   *)
(* earlier still holds is Inv.                                             *)

(* OrderBook and OrderTx build rows with the same operators.               *)
LEMMA SameOperators ==
  /\ Book!Transitions = Transitions /\ Book!EmptyCart = EmptyCart
  /\ Book!Status = Status
  /\ \A lines : Book!Bought(lines) = Bought(lines)
  /\ \A table, u, key : Book!KeyUsed(table, u, key) <=> KeyUsed(table, u, key)
  /\ \A row, active : Book!Sellable(row, active) <=> Sellable(row, active)
  /\ \A u, key, hash, lines, table :
       Book!NewOrder(u, key, hash, lines, table) = NewOrder(u, key, hash, lines, table)
  /\ \A from, to, actor : Book!HistoryEntry(from, to, actor) = HistoryEntry(from, to, actor)
  /\ \A status : Book!EventsOf(status) = EventsOf(status)
  /\ \A table, lines : /\ Book!LessStock(table, lines) = LessStock(table, lines)
                       /\ Book!MoreStock(table, lines) = MoreStock(table, lines)
  /\ \A row, changes : Book!Patched(row, changes) = Patched(row, changes)
  BY DEF Transitions, Book!Transitions, AdminTransitions, Book!AdminTransitions,
         EmptyCart, Book!EmptyCart, Status, Book!Status, Bought, Book!Bought,
         KeyUsed, Book!KeyUsed, Sellable, Book!Sellable, NewOrder, Book!NewOrder,
         HistoryEntry, Book!HistoryEntry, EventsOf, Book!EventsOf,
         LessStock, Book!LessStock, MoreStock, Book!MoreStock,
         Patched, Book!Patched, Given, Book!Given

LEMMA SameCardinality == \A S : Book!Cardinality(S) = Cardinality(S)
  BY DEF Cardinality, Book!Cardinality

(* Steps that leave the tables alone.                                      *)
LEMMA QuietSteps ==
  ASSUME NEW c,
         \/ LockUser(c)
         \/ FindReplay(c) \/ AnswerReplay(c) \/ ReadCart(c)
         \/ LockProduct(c) \/ LockCategory(c) \/ LockOrder(c) \/ ReadLine(c)
         \/ ReadCategory(c) \/ Refuse(c) \/ \E r \in Requests : Begin(c, r)
  PROVE  UNCHANGED tables
  BY DEF LockUser, FindReplay, AnswerReplay, ReadCart, LockProduct, LockCategory,
         LockOrder, ReadLine, ReadCategory, Refuse, Begin

LEMMA PlaceOrderIsCheckout ==
  ASSUME Inv, NEW c \in Conns, PlaceOrder(c)
  PROVE  Book!Next
  <1> DEFINE u == Customer(c)
             key == tx[c].req.key
             hash == tx[c].req.hash
  <1>1. /\ u \in Users /\ key \in Keys /\ hash \in Hashes
        /\ tx[c] \in Transaction /\ HasCart(tx[c])
    BY NewOrderTyped DEF Inv, PlaceOrder, HasCart
  <1>2. /\ tx[c].lines = cart[u] /\ ~KeyUsed(orders, u, key)
        /\ Bought(tx[c].lines) # {}
    BY <1>1 DEF Inv, ReadsStillTrue, ReadsTrue, WritesStillLegal, MayWrite
  <1>3. \A p \in Bought(cart[u]) :
          /\ tx[c].seen[p] = product[p]
          /\ Sellable(product[p], categoryActive)
          /\ product[p].stock >= cart[u][p]
    <2> TAKE p \in Bought(cart[u])
    <2>1. /\ p \in Products /\ tx[c].seen[p] # Null
          /\ tx[c].seenActive[tx[c].seen[p].categoryId] # Null
          /\ Sellable(tx[c].seen[p], tx[c].seenActive)
          /\ product[p].stock >= cart[u][p]
      BY <1>2 DEF Inv, StepsFit, Fits, PlaceOrder, Accepted, Bought
    <2>2. tx[c].seen[p] = product[p] /\ product[p].categoryId \in Categories
      BY <2>1 DEF Inv, ReadsStillTrue, ReadsTrue, TypeOK, ProductRow
    <2>3. tx[c].seenActive[product[p].categoryId] = categoryActive[product[p].categoryId]
      BY <2>1, <2>2 DEF Inv, ReadsStillTrue, ReadsTrue
    <2> QED
      BY <2>1, <2>2, <2>3 DEF Sellable
  <1>4. NewOrder(u, key, hash, tx[c].lines, tx[c].seen)
          = NewOrder(u, key, hash, cart[u], product)
    <2>1. \A p \in Products :
            (IF cart[u][p] > 0 THEN tx[c].seen[p].priceVnd ELSE 0)
              = (IF cart[u][p] > 0 THEN product[p].priceVnd ELSE 0)
      BY <1>3 DEF Bought
    <2> QED
      BY <1>2, <2>1 DEF NewOrder
  <1>5. PICK o \in Smallest({i \in OrderIds : orders[i] = Null}) :
          /\ orders' = [orders EXCEPT ![o] =
                          NewOrder(u, key, hash, tx[c].lines, tx[c].seen)]
          /\ history' = [history EXCEPT ![o] =
                           <<HistoryEntry("NULL", "PENDING", u)>>]
          /\ outbox' = outbox \cup {<<o, e>> : e \in EventsOf("PENDING")}
    BY DEF PlaceOrder
  <1>6. o \in OrderIds /\ orders[o] = Null
    BY DEF Smallest
  <1>7. /\ product' = LessStock(product, tx[c].lines)
        /\ cart' = [cart EXCEPT ![u] = EmptyCart]
        /\ UNCHANGED categoryActive
    BY DEF PlaceOrder
  <1> HIDE DEF u, key, hash
  <1>8. Book!Checkout(u, key, hash, o)
    BY <1>2, <1>3, <1>4, <1>5, <1>6, <1>7, SameOperators DEF Book!Checkout
  <1> QED
    BY <1>1, <1>6, <1>8 DEF Book!Next

LEMMA MoveOrderIsMove ==
  ASSUME Inv, NEW c \in Conns, MoveOrder(c)
  PROVE  Book!Next
  <1>1. TypeOK /\ StepsFit /\ Agreement /\ tx[c].step = "moveOrder"
    BY DEF Inv, Agreement, MoveOrder
  <1>2. PICK o \in OrderIds : o = tx[c].req.orderId
    BY <1>1, MoveKnows
  <1> DEFINE target == Target(c)
             actor == Actor(c)
  <1>3. /\ orders[o] \in Order /\ orders[o].status = tx[c].status
        /\ <<orders[o].status, target>> \in Transitions
        /\ target = "CANCELLED" => actor = orders[o].userId
        /\ tx[c].lines = IF GivesBack(c) THEN orders[o].items ELSE EmptyCart
        /\ tx[c].req \in MoveRequest
    BY <1>1, <1>2, MoveKnows
  <1>4. /\ target \in Status /\ actor \in Users \cup Admins
        /\ target # "CANCELLED" => actor \in Admins
        /\ GivesBack(c) <=> target \in {"CANCELLED", "REJECTED"}
    BY <1>3, MoveTyped
  <1>5. product' = IF target \in {"CANCELLED", "REJECTED"}
                   THEN MoreStock(product, orders[o].items) ELSE product
    <2>1. product' = MoreStock(product, tx[c].lines)
      BY DEF MoveOrder
    <2>2. MoreStock(product, EmptyCart) = product
      <3>1. EmptyCart \in Lines /\ Bought(EmptyCart) = {}
        BY ShopAssumption DEF EmptyCart, Lines, Bought
      <3>2. \A p \in Products : MoreStock(product, EmptyCart)[p] = product[p]
        BY <1>1, <3>1, StockElsewhere
      <3> QED
        BY <1>1, <3>2 DEF MoreStock, TypeOK
    <2> QED
      BY <1>3, <1>4, <2>1, <2>2
  <1>6. /\ orders' = [orders EXCEPT ![o].status = target]
        /\ history' = [history EXCEPT ![o] =
                         Append(@, HistoryEntry(orders[o].status, target, actor))]
        /\ outbox' = outbox \cup {<<o, e>> : e \in EventsOf(target)}
        /\ UNCHANGED <<categoryActive, cart>>
    BY <1>2, <1>3 DEF MoveOrder
  <1> HIDE DEF target, actor
  <1>7. orders[o] # Null
    BY <1>3, ShopAssumption
  <1>8. Book!Move(o, target, actor)
    BY <1>3, <1>4, <1>5, <1>6, <1>7, SameOperators DEF Book!Move
  <1> QED
    BY <1>4, <1>8, SameOperators DEF Book!Next

LEMMA WriteLineIsSetLine ==
  ASSUME Inv, NEW c \in Conns, WriteLine(c)
  PROVE  Book!Next
  <1> DEFINE r == tx[c].req
             q == IF r.op = "setCartItem" THEN r.quantity ELSE 0
  <1>1. /\ r \in LineRequest /\ MayWrite(c) /\ tx[c].step = "writeLine"
    BY DEF Inv, WriteLine, StepsFit, Fits, WritesStillLegal
  <1>2. /\ r.userId \in Users /\ r.productId \in Products /\ q \in 0..MaxQuantity
        /\ q > 0 => r \in SetLineRequest
    BY <1>1, ShopAssumption DEF LineRequest, SetLineRequest, RemoveLineRequest
  <1>3. /\ cart' = [cart EXCEPT ![r.userId][r.productId] = q]
        /\ UNCHANGED <<product, categoryActive, orders, history, outbox>>
    BY DEF WriteLine
  <1>4. q > 0 /\ cart[r.userId][r.productId] = 0
          => Cardinality(Bought(cart[r.userId])) < MaxCartLines
    BY <1>1, <1>2 DEF MayWrite
  <1> HIDE DEF q
  <1>5. Book!SetLine(r.userId, r.productId, q)
    BY <1>3, <1>4, SameOperators, SameCardinality DEF Book!SetLine
  <1> QED
    BY <1>2, <1>5 DEF Book!Next

LEMMA PatchProductIsEdit ==
  ASSUME Inv, NEW c \in Conns, PatchProduct(c)
  PROVE  Book!Next
  <1> DEFINE r == tx[c].req
  <1>1. r.productId \in Products /\ r.changes \in ProductPatches
    BY DEF Inv, PatchProduct, StepsFit, Fits, PatchRequest
  <1>2. Book!EditProduct(r.productId, r.changes)
    BY SameOperators DEF PatchProduct, Book!EditProduct
  <1> QED
    BY <1>1, <1>2 DEF Book!Next

LEMMA PatchCategoryIsEdit ==
  ASSUME NEW patch \in CategoryPatches, PatchCategory(patch[1], patch[2])
  PROVE  Book!Next
  <1>1. patch[1] \in Categories /\ patch[2] \in BOOLEAN
    BY TxAssumption
  <1>2. Book!EditCategory(patch[1], patch[2])
    BY DEF PatchCategory, Book!EditCategory
  <1> QED
    BY <1>1, <1>2 DEF Book!Next

LEMMA StepIsAtomic ==
  Inv /\ [Next]_vars => [Book!Next]_(Book!tables)
  <1> SUFFICES ASSUME Inv, [Next]_vars
               PROVE  Book!Next \/ UNCHANGED tables
    BY DEF Book!tables, tables
  <1>1. ASSUME UNCHANGED vars PROVE UNCHANGED tables
    BY <1>1 DEF vars
  <1>2. ASSUME NEW c \in Conns, Work(c)
        PROVE  Book!Next \/ UNCHANGED tables
    BY <1>2, QuietSteps, Refusals, PlaceOrderIsCheckout, MoveOrderIsMove,
       WriteLineIsSetLine, PatchProductIsEdit
    DEF Work
  <1>3. ASSUME NEW c \in Conns,
               DeadlockVictim(c) \/ Crash(c) \/ \E r \in Requests : Begin(c, r)
        PROVE  UNCHANGED tables
    BY <1>3, QuietSteps, Refusals
  <1>4. ASSUME NEW patch \in CategoryPatches, PatchCategory(patch[1], patch[2])
        PROVE  Book!Next
    BY <1>4, PatchCategoryIsEdit
  <1>5. ASSUME Done PROVE UNCHANGED tables
    BY <1>1, <1>5 DEF Done
  <1> QED
    BY <1>1, <1>2, <1>3, <1>4, <1>5 DEF Next

(* Whatever requests overlap, roll back or deadlock, the tables change as  *)
(* if each request ran alone, at one instant, or not at all.               *)
THEOREM Implements == Spec => AtomicBook
  <1>1. Init => Book!Init
    BY DEF Init
  <1> QED
    BY <1>1, Invariance, StepIsAtomic, PTL DEF Spec, AtomicBook, Book!Spec

-----------------------------------------------------------------------------
(* Stock.                                                                  *)
StockKept(p) == product'[p].stock + Held(p)' = product[p].stock + Held(p)

LEMMA HeldIsSum ==
  ASSUME NEW p
  PROVE  /\ Held(p) = SumOver(HeldBy(p), OrderIds)
         /\ Held(p)' = SumOver(HeldBy(p)', OrderIds)
  BY DEF Held, SumOver, MapThenSumSet, MapThenFoldSet

LEMMA HeldTyped ==
  ASSUME TypeOK, TypeOK', NEW p \in Products
  PROVE  /\ HeldBy(p) \in [OrderIds -> Nat] /\ HeldBy(p)' \in [OrderIds -> Nat]
         /\ Held(p) \in Nat /\ Held(p)' \in Nat
  <1>1. \A o \in OrderIds : orders[o] # Null => orders[o].items[p] \in Nat
    BY ShopAssumption DEF TypeOK, Order, Lines
  <1>2. \A o \in OrderIds : orders'[o] # Null => orders'[o].items[p] \in Nat
    BY ShopAssumption DEF TypeOK, Order, Lines
  <1>3. HeldBy(p) \in [OrderIds -> Nat] /\ HeldBy(p)' \in [OrderIds -> Nat]
    BY <1>1, <1>2 DEF HeldBy
  <1>4. \A f \in [OrderIds -> Nat] : SumOver(f, OrderIds) \in Nat
    BY SumType, ShopAssumption
  <1> QED
    BY <1>3, <1>4, HeldIsSum

(* What the orders hold changes by what the one order does that changes.   *)
LEMMA HeldChange ==
  ASSUME TypeOK, TypeOK', NEW p \in Products, NEW o \in OrderIds,
         \A i \in OrderIds \ {o} : orders'[i] = orders[i]
  PROVE  Held(p)' + HeldBy(p)[o] = Held(p) + HeldBy(p)'[o]
  <1>1. \A i \in OrderIds \ {o} : HeldBy(p)[i] = HeldBy(p)'[i]
    BY DEF HeldBy
  <1>2. ASSUME NEW f \in [OrderIds -> Nat], NEW e \in [OrderIds -> Nat],
               \A i \in OrderIds \ {o} : f[i] = e[i]
        PROVE  SumOver(e, OrderIds) + f[o] = SumOver(f, OrderIds) + e[o]
    <2>1. IsFiniteSet(OrderIds)
      BY ShopAssumption
    <2> QED
      BY ONLY <1>2, <2>1, SumChange, o \in OrderIds
  <1>7. /\ Held(p) = SumOver(HeldBy(p), OrderIds)
        /\ Held(p)' = SumOver(HeldBy(p)', OrderIds)
    BY HeldIsSum
  <1> DEFINE g == HeldBy(p)
             h == HeldBy(p)'
  <1>3. g \in [OrderIds -> Nat] /\ h \in [OrderIds -> Nat]
    BY HeldTyped
  <1>4. Held(p) = SumOver(g, OrderIds) /\ Held(p)' = SumOver(h, OrderIds)
    BY <1>7
  <1>5. \A i \in OrderIds \ {o} : g[i] = h[i]
    BY <1>1
  <1> HIDE DEF g, h
  <1>6. SumOver(h, OrderIds) + g[o] = SumOver(g, OrderIds) + h[o]
    BY <1>2, <1>3, <1>5
  <1> QED
    BY <1>4, <1>6 DEF g, h

LEMMA StockUntouched ==
  ASSUME UNCHANGED <<product, orders>>
  PROVE  \A p \in Products : StockKept(p)
  <1> SUFFICES ASSUME NEW p \in Products PROVE StockKept(p)
    OBVIOUS
  <1>1. HeldBy(p)' = HeldBy(p)
    BY DEF HeldBy
  <1>2. Held(p)' = Held(p)
    BY <1>1, HeldIsSum
  <1> QED
    BY <1>2 DEF StockKept

(* What leaves the shelf is what the new order holds.                      *)
LEMMA PlaceOrderKeepsStock ==
  ASSUME Inv, TypeOK', NEW c \in Conns, PlaceOrder(c), NEW p \in Products
  PROVE  StockKept(p)
  <1> DEFINE row == NewOrder(Customer(c), tx[c].req.key, tx[c].req.hash,
                             tx[c].lines, tx[c].seen)
  <1>1. PICK o \in OrderIds : orders[o] = Null /\ orders' = [orders EXCEPT ![o] = row]
    BY DEF PlaceOrder, Smallest
  <1>2. row \in Order /\ row # Null /\ tx[c].lines[p] \in Nat
    BY NewOrderTyped, ShopAssumption DEF PlaceOrder, Inv, Transaction, Lines
  <1>3. row.items = tx[c].lines /\ HoldsStock(row)
    BY DEF NewOrder, HoldsStock
  <1> HIDE DEF row
  <1>4. orders'[o] = row /\ \A i \in OrderIds \ {o} : orders'[i] = orders[i]
    BY <1>1 DEF Inv, TypeOK
  <1>5. HeldBy(p)[o] = 0 /\ HeldBy(p)'[o] = tx[c].lines[p]
    BY <1>1, <1>2, <1>3, <1>4 DEF HeldBy
  <1>6. Held(p)' + 0 = Held(p) + tx[c].lines[p]
    BY <1>4, <1>5, HeldChange DEF Inv
  <1>7. product'[p].stock = product[p].stock - tx[c].lines[p]
    <2>1. product[p] \in ProductRow /\ product' = LessStock(product, tx[c].lines)
      BY DEF PlaceOrder, Inv, TypeOK
    <2> QED
      BY <2>1 DEF LessStock, ProductRow
  <1>8. Held(p) \in Nat /\ Held(p)' \in Nat
    BY HeldTyped DEF Inv
  <1>9. product[p].stock \in Nat
    BY DEF Inv, TypeOK, ProductRow
  <1> QED
    BY <1>2, <1>6, <1>7, <1>8, <1>9 DEF StockKept

(* A move gives back what its order held, if the order stops holding it.   *)
LEMMA MoveOrderKeepsStock ==
  ASSUME Inv, TypeOK', NEW c \in Conns, MoveOrder(c), NEW p \in Products
  PROVE  StockKept(p)
  <1>0. PICK o \in OrderIds : o = tx[c].req.orderId
    BY MoveKnows DEF MoveOrder, Inv, Agreement
  <1>1. /\ tx[c] \in Transaction /\ orders[o] \in Order
        /\ <<orders[o].status, Target(c)>> \in Transitions
        /\ tx[c].lines = IF GivesBack(c) THEN orders[o].items ELSE EmptyCart
        /\ Target(c) \in Status
        /\ GivesBack(c) <=> Target(c) \in {"CANCELLED", "REJECTED"}
    BY <1>0, MoveKnows, MoveTyped DEF MoveOrder, Inv, Agreement
  <1>2. /\ orders'[o] = [orders[o] EXCEPT !.status = Target(c)]
        /\ \A i \in OrderIds \ {o} : orders'[i] = orders[i]
    BY <1>0, <1>1 DEF MoveOrder, Inv, TypeOK
  <1>3. /\ orders[o] # Null /\ orders'[o] # Null
        /\ orders'[o].items = orders[o].items /\ orders'[o].status = Target(c)
        /\ orders[o].items[p] \in Nat
    <2>1. orders'[o] \in Order
      BY <1>1, <1>2 DEF Order
    <2> QED
      BY <2>1, <1>1, <1>2, ShopAssumption DEF Order, Lines
  <1>4. HeldBy(p)[o] = HeldBy(p)'[o] + tx[c].lines[p]
    <2>1. HoldsStock(orders[o])
      BY <1>1 DEF HoldsStock, Transitions, AdminTransitions
    <2>2. HoldsStock(orders'[o]) <=> ~GivesBack(c)
      BY <1>1, <1>3 DEF HoldsStock, Status
    <2>3. tx[c].lines[p] = IF GivesBack(c) THEN orders[o].items[p] ELSE 0
      BY <1>1 DEF EmptyCart
    <2> QED
      BY <1>3, <2>1, <2>2, <2>3 DEF HeldBy
  <1>5. Held(p)' + HeldBy(p)[o] = Held(p) + HeldBy(p)'[o]
    BY <1>2, HeldChange DEF Inv
  <1>6. product'[p].stock = product[p].stock + tx[c].lines[p]
    <2>1. product[p] \in ProductRow /\ product' = MoreStock(product, tx[c].lines)
      BY DEF MoveOrder, Inv, TypeOK
    <2> QED
      BY <2>1 DEF MoreStock, ProductRow
  <1>7. /\ Held(p) \in Nat /\ Held(p)' \in Nat /\ product[p].stock \in Nat
        /\ tx[c].lines[p] \in Nat /\ HeldBy(p)'[o] \in Nat
    <2>1. /\ HeldBy(p)' \in [OrderIds -> Nat]
          /\ Held(p) \in Nat /\ Held(p)' \in Nat
      BY HeldTyped DEF Inv
    <2>2. HeldBy(p)'[o] \in Nat
      BY <2>1
    <2>3. tx[c].lines[p] \in Nat
      BY <1>1, ShopAssumption DEF Transaction, Lines
    <2>4. product[p].stock \in Nat
      BY DEF Inv, TypeOK, ProductRow
    <2> QED
      BY <2>1, <2>2, <2>3, <2>4
  <1> QED
    BY <1>4, <1>5, <1>6, <1>7 DEF StockKept

(* A patch changes stock only if it sets it.                               *)
LEMMA PatchKeepsStock ==
  ASSUME Inv, NEW c \in Conns, PatchProduct(c), NEW p \in Products
  PROVE  StockKept(p) \/ SetsStock(p)
  <1> DEFINE r == tx[c].req
  <1>1. /\ r \in PatchRequest /\ tx'[c].step = "idle" /\ tx[c].step = "patchProduct"
        /\ orders' = orders
        /\ product' = [product EXCEPT ![r.productId] =
                         Patched(product[r.productId], r.changes)]
    BY DEF PatchProduct, Inv, StepsFit, Fits, Finish, IdleTx, TypeOK, PatchRequest
  <1>2. HeldBy(p)' = HeldBy(p)
    BY <1>1 DEF HeldBy
  <1>3. Held(p)' = Held(p)
    BY <1>2, HeldIsSum
  <1>4. CASE p # r.productId
    <2>1. product'[p] = product[p]
      BY <1>1, <1>4 DEF Inv, TypeOK
    <2> QED
      BY <1>3, <2>1 DEF StockKept
  <1>5. CASE p = r.productId
    <2>1. product'[p].stock = Given(r.changes.stock, product[p].stock)
      BY <1>1, <1>5 DEF Inv, TypeOK, Patched
    <2>2. CASE r.changes.stock = Omitted
      BY <1>3, <2>1, <2>2 DEF StockKept, Given
    <2>3. CASE r.changes.stock # Omitted
      BY <1>1, <1>5, <2>1, <2>3 DEF SetsStock, Given
    <2> QED
      BY <2>2, <2>3
  <1> QED
    BY <1>4, <1>5

LEMMA StockNext ==
  ASSUME Inv, Inv', [Next]_vars, NEW p \in Products
  PROVE  StockKept(p) \/ SetsStock(p)
  <1>1. CASE UNCHANGED <<product, orders>>
    BY <1>1, StockUntouched
  <1>2. ASSUME NEW c \in Conns, PlaceOrder(c) \/ MoveOrder(c) \/ PatchProduct(c)
        PROVE  StockKept(p) \/ SetsStock(p)
    BY <1>2, PlaceOrderKeepsStock, MoveOrderKeepsStock, PatchKeepsStock DEF Inv
  <1>3. ASSUME NEW c \in Conns, Work(c)
        PROVE  StockKept(p) \/ SetsStock(p)
    <2>1. CASE WriteLine(c)
      BY <2>1, <1>1 DEF WriteLine
    <2> QED
      BY <1>1, <1>2, <1>3, <2>1, QuietSteps, Refusals DEF Work, tables
  <1>4. ASSUME NEW c \in Conns, NEW r \in Requests, Begin(c, r)
        PROVE  UNCHANGED <<product, orders>>
    BY <1>4 DEF Begin, tables
  <1>5. ASSUME NEW c \in Conns, DeadlockVictim(c) \/ Crash(c)
        PROVE  UNCHANGED <<product, orders>>
    BY <1>5, Refusals, QuietSteps DEF tables
  <1>6. ASSUME NEW patch \in CategoryPatches, PatchCategory(patch[1], patch[2])
        PROVE  UNCHANGED <<product, orders>>
    BY <1>6 DEF PatchCategory
  <1>7. UNCHANGED vars => UNCHANGED <<product, orders>>
    BY DEF vars, tables
  <1> QED
    BY <1>1, <1>3, <1>4, <1>5, <1>6, <1>7 DEF Next, Done

(* Stock is neither lost nor made up, unless an administrator sets it:     *)
(* what a checkout takes is what its order holds, and a cancelled or       *)
(* rejected order gives back what it held, once (decrementProductStock,    *)
(* restoreOrderStock).                                                     *)
THEOREM NoStockLost == Spec => StockConserved
  <1>1. Inv /\ Inv' /\ [Next]_vars =>
          [\A p \in Products :
             \/ product'[p].stock + Held(p)' = product[p].stock + Held(p)
             \/ SetsStock(p)]_vars
    BY StockNext DEF StockKept
  <1> QED
    BY <1>1, Invariance, PTL DEF Spec, StockConserved

-----------------------------------------------------------------------------
(* Deadlocks.  Rows are locked in an order: that of the user or the order, *)
(* then those of products, ascending, then those of categories, which are  *)
(* only shared.  A cancellation that waits for its customer is the one     *)
(* statement that goes back.                                               *)

(* A lock is on a row its transaction has read, unless it is shared.       *)
LockTrue(l) ==
  LET c == l.conn
  IN \/ HasUser(tx[c]) /\ l.row = UserRowOf(Customer(c))
     \/ HasOrder(tx[c]) /\ l.row = OrderRowOf(tx[c].req.orderId)
     \/ \E p \in Products : tx[c].seen[p] # Null /\ l.row = ProductRowOf(p)
     \/ \E k \in Categories : l.row = CategoryRowOf(k) /\ l.mode = "SHARE"

(* Product rows are locked in ascending order, after users and orders.     *)
Ascending(c) ==
  /\ tx[c].step \in {"lockUser", "findReplay", "readCart", "readLine",
                     "writeLine", "lockOrder"} =>
       \A p \in Products : tx[c].seen[p] = Null
  /\ tx[c].step = "lockProducts" =>
       \A p \in Products : tx[c].seen[p] # Null =>
         \A q \in ProductsToLock(c) : p < q

LockOrderInv == (\A l \in locks : LockTrue(l)) /\ (\A c \in Conns : Ascending(c))

LEMMA LockOrderStep ==
  ASSUME TypeOK, LockOrderInv, NEW c \in Conns, NEW t,
         tx' = [tx EXCEPT ![c] = t],
         \A l \in locks' : l.conn # c => l \in locks,
         \A l \in locks' : l.conn = c => LockTrue(l)',
         Ascending(c)'
  PROVE  LockOrderInv'
  <1>1. \A d \in Conns \ {c} : tx'[d] = tx[d]
    BY DEF TypeOK
  <1>2. ASSUME NEW l \in locks', l.conn # c PROVE LockTrue(l)'
    <2>1. l \in locks /\ l.conn \in Conns \ {c}
      BY <1>2 DEF TypeOK
    <2> QED
      BY <1>1, <2>1 DEF LockOrderInv, LockTrue, Customer
  <1>3. ASSUME NEW d \in Conns \ {c} PROVE Ascending(d)'
    BY <1>1 DEF LockOrderInv, Ascending, ProductsToLock, ProductsNamed, Op
  <1> QED
    BY <1>2, <1>3 DEF LockOrderInv

LEMMA LockOrderFinish ==
  ASSUME TypeOK, LockOrderInv, NEW c \in Conns, Finish(c)
  PROVE  LockOrderInv'
  <1>1. tx' = [tx EXCEPT ![c] = IdleTx] /\ tx'[c] = IdleTx
    BY DEF Finish, TypeOK
  <1>2. \A l \in locks' : l \in locks /\ l.conn # c
    BY DEF Finish, ReleaseAll
  <1>3. Ascending(c)'
    BY <1>1, IdleOwnsNothing DEF Ascending
  <1> QED
    BY <1>1, <1>2, <1>3, LockOrderStep

LEMMA LockOrderBegin ==
  ASSUME TypeOK, StepsFit, LockOrderInv, NEW c \in Conns, NEW r \in Requests,
         Begin(c, r)
  PROVE  LockOrderInv'
  <1> DEFINE t == [tx[c] EXCEPT !.step = FirstStep(r.op), !.req = r]
  <1>1. tx[c] = IdleTx
    BY DEF Begin, StepsFit, Fits
  <1>2. tx' = [tx EXCEPT ![c] = t] /\ tx'[c] = t
    BY DEF Begin, TypeOK
  <1>3. t.seen = IdleTx.seen
    BY <1>1 DEF IdleTx
  <1> HIDE DEF t
  <1>4. UNCHANGED locks
    BY DEF Begin
  <1>5. \A l \in locks' : l.conn = c => LockTrue(l)'
    BY <1>1, <1>4, IdleOwnsNothing DEF LockOrderInv, LockTrue
  <1>6. Ascending(c)'
    BY <1>2, <1>3, IdleOwnsNothing DEF Ascending
  <1> QED
    BY <1>2, <1>4, <1>5, <1>6, LockOrderStep

(* Steps that ask for no lock, or for the customer's row, which comes      *)
(* first.                                                                  *)
LEMMA LockOrderUser ==
  ASSUME TypeOK, StepsFit, LockOrderInv, NEW c \in Conns,
         LockUser(c) \/ FindReplay(c) \/ ReadCart(c) \/ ReadLine(c)
  PROVE  LockOrderInv'
  <1>1. /\ tx[c] \in Transaction
        /\ tx[c].step \in {"lockUser", "findReplay", "readCart", "readLine"}
        /\ tx[c].req \in CheckoutRequest \cup LineRequest
        /\ ReadCart(c) => tx[c].req \in CheckoutRequest
    BY DEF StepsFit, Fits, TypeOK, LockUser, FindReplay, ReadCart, ReadLine, LineRequest
  <1>2. PICK t : /\ tx' = [tx EXCEPT ![c] = t] /\ tx'[c] = t
                 /\ t.req = tx[c].req /\ t.seen = tx[c].seen /\ HasUser(t)
                 /\ t.step # "lockOrder"
    <2>1. CASE LockUser(c)
      <3> DEFINE s1 == CASE Op(c) = "checkout"       -> "findReplay"
                         [] Op(c) = "setCartItem"    -> "readLine"
                         [] Op(c) = "removeCartItem" -> "writeLine"
                 t1 == [tx[c] EXCEPT !.step = s1]
      <3>1. s1 \in {"findReplay", "readLine", "writeLine"}
        BY <1>1 DEF Op, LineRequest, SetLineRequest, RemoveLineRequest, CheckoutRequest
      <3>2. tx' = [tx EXCEPT ![c] = t1] /\ tx'[c] = t1
        BY <2>1 DEF LockUser, Goto, TypeOK
      <3>3. t1.step = s1 /\ t1.req = tx[c].req /\ t1.seen = tx[c].seen
        BY <1>1 DEF Transaction
      <3> QED
        BY <3>1, <3>2, <3>3 DEF HasUser
    <2>2. CASE FindReplay(c)
      <3> DEFINE t1 == [tx[c] EXCEPT !.step = "readCart"]
      <3>1. tx' = [tx EXCEPT ![c] = t1] /\ tx'[c] = t1
        BY <2>2 DEF FindReplay, Goto, TypeOK
      <3>2. t1.step = "readCart" /\ t1.req = tx[c].req /\ t1.seen = tx[c].seen
        BY <1>1 DEF Transaction
      <3> QED
        BY <3>1, <3>2 DEF HasUser
    <2>3. CASE ReadCart(c)
      <3> DEFINE t1 == [tx[c] EXCEPT !.lines = cart[Customer(c)], !.step = "lockProducts"]
      <3>1. tx' = [tx EXCEPT ![c] = t1] /\ tx'[c] = t1
        BY <2>3 DEF ReadCart, TypeOK
      <3>2. t1.step = "lockProducts" /\ t1.req = tx[c].req /\ t1.seen = tx[c].seen
        BY <1>1 DEF Transaction
      <3> QED
        BY <1>1, <2>3, <3>1, <3>2 DEF HasUser, HasCart
    <2>4. CASE ReadLine(c)
      <3> DEFINE t1 == [tx[c] EXCEPT !.step = "writeLine"]
      <3>1. tx' = [tx EXCEPT ![c] = t1] /\ tx'[c] = t1
        BY <2>4 DEF ReadLine, Goto, TypeOK
      <3>2. t1.step = "writeLine" /\ t1.req = tx[c].req /\ t1.seen = tx[c].seen
        BY <1>1 DEF Transaction
      <3> QED
        BY <3>1, <3>2 DEF HasUser
    <2> QED
      BY <2>1, <2>2, <2>3, <2>4
  <1>3. \A p \in Products : tx[c].seen[p] = Null
    BY <1>1 DEF LockOrderInv, Ascending
  <1>4. Ascending(c)'
    BY <1>2, <1>3 DEF Ascending
  <1>5. \A l \in locks' : l \in locks \/ (l.conn = c /\ l.row = UserRowOf(Customer(c)))
    BY DEF LockUser, Acquire, FindReplay, ReadCart, ReadLine
  <1>6. ASSUME NEW l \in locks', l.conn = c PROVE LockTrue(l)'
    <2>1. CASE l.row = UserRowOf(Customer(c))
      BY <1>2, <1>6, <2>1 DEF LockTrue, Customer
    <2>2. CASE l \in locks /\ l.row # UserRowOf(Customer(c))
      <3>1. ~HasOrder(tx[c])
        BY <1>1 DEF HasOrder
      <3>2. LockTrue(l)
        BY <2>2 DEF LockOrderInv
      <3> QED
        BY <1>2, <1>3, <1>6, <2>2, <3>1, <3>2 DEF LockTrue
    <2> QED
      BY <1>5, <1>6, <2>1, <2>2
  <1> QED
    BY <1>2, <1>4, <1>5, <1>6, LockOrderStep

LEMMA LockOrderOrder ==
  ASSUME TypeOK, StepsFit, LockOrderInv, NEW c \in Conns, LockOrder(c)
  PROVE  LockOrderInv'
  <1> DEFINE i == tx[c].req.orderId
             o == orders[i]
             back == GivesBack(c)
             t == [tx[c] EXCEPT !.status = o.status,
                                !.lines = IF back THEN o.items ELSE @,
                                !.step = IF back THEN "lockProducts" ELSE "moveOrder"]
  <1>1. /\ tx[c].req \in MoveRequest /\ tx[c] \in Transaction
        /\ tx[c].step = "lockOrder"
    BY DEF LockOrder, StepsFit, Fits, TypeOK
  <1>2. tx' = [tx EXCEPT ![c] = t] /\ tx'[c] = t
    BY DEF LockOrder, TypeOK
  <1>3. /\ t.step \in {"lockProducts", "moveOrder"} /\ t.req = tx[c].req
        /\ t.seen = tx[c].seen
    BY <1>1 DEF Transaction
  <1> HIDE DEF t
  <1>4. HasOrder(t) /\ ~HasUser(tx[c]) /\ ~HasOrder(tx[c])
    BY <1>1, <1>3 DEF HasOrder, HasUser, HasCart
  <1>5. \A p \in Products : tx[c].seen[p] = Null
    BY <1>1 DEF LockOrderInv, Ascending
  <1>6. Ascending(c)'
    BY <1>2, <1>3, <1>5 DEF Ascending
  <1>7. \A l \in locks' : l \in locks \/ (l.conn = c /\ l.row = OrderRowOf(i))
    BY DEF LockOrder, Acquire
  <1>8. ASSUME NEW l \in locks', l.conn = c PROVE LockTrue(l)'
    <2>1. CASE l.row = OrderRowOf(i)
      BY <1>2, <1>3, <1>4, <1>8, <2>1 DEF LockTrue
    <2>2. CASE l \in locks
      <3>1. LockTrue(l)
        BY <2>2 DEF LockOrderInv
      <3> QED
        BY <1>4, <1>5, <1>8, <3>1 DEF LockTrue
    <2> QED
      BY <1>7, <1>8, <2>1, <2>2
  <1> QED
    BY <1>2, <1>6, <1>7, <1>8, LockOrderStep

(* The next product is the smallest that is not locked yet.                *)
LEMMA LockOrderProduct ==
  ASSUME TypeOK, StepsFit, LockOrderInv, NEW c \in Conns, LockProduct(c)
  PROVE  LockOrderInv'
  <1>1. PICK p \in Smallest(ProductsToLock(c)) :
          /\ Acquire(c, ProductRowOf(p), ProductLock)
          /\ tx' = [tx EXCEPT ![c].seen[p] = product[p],
                              ![c].step = IF ProductsToLock(c) = {p}
                                          THEN AfterProducts(Op(c)) ELSE @]
    BY DEF LockProduct
  <1> DEFINE s == IF ProductsToLock(c) = {p} THEN AfterProducts(Op(c))
                  ELSE tx[c].step
             t == [tx[c] EXCEPT !.seen[p] = product[p], !.step = s]
  <1>2. /\ p \in Products /\ tx[c].step = "lockProducts" /\ tx[c] \in Transaction
        /\ tx[c].req \in CheckoutRequest \cup MoveRequest \cup PatchRequest
        /\ product[p] # Null
    BY NamedProducts, ShopAssumption DEF LockProduct, TypeOK, StepsFit, Fits
  <1>3. /\ s \in {"lockProducts", "lockCategories", "moveOrder", "readCategory"}
        /\ tx[c].req \in CheckoutRequest => s \in {"lockProducts", "lockCategories"}
        /\ tx[c].req \in MoveRequest => s \in {"lockProducts", "moveOrder"}
    BY <1>2 DEF AfterProducts, Op, MoveRequest, CheckoutRequest,
                CancelRequest, StatusRequest, PatchRequest
  <1>4. tx' = [tx EXCEPT ![c] = t] /\ tx'[c] = t
    BY <1>1 DEF TypeOK
  <1>5. /\ t.step = s /\ t.req = tx[c].req /\ t.lines = tx[c].lines
        /\ t.seen = [tx[c].seen EXCEPT ![p] = product[p]]
    BY <1>2 DEF Transaction
  <1>6. s = "lockProducts" => ProductsToLock(c) # {p}
    BY <1>2 DEF AfterProducts, Op, MoveRequest, CheckoutRequest,
                CancelRequest, StatusRequest, PatchRequest
  <1> HIDE DEF s, t
  <1>7. /\ HasUser(tx[c]) => HasUser(t)
        /\ HasOrder(tx[c]) => HasOrder(t)
    BY <1>2, <1>3, <1>5 DEF HasCart, HasUser, HasOrder
  <1>8. /\ t.seen[p] = product[p]
        /\ \A q \in Products \ {p} : t.seen[q] = tx[c].seen[q]
    BY <1>2, <1>5 DEF Transaction
  <1>9. Ascending(c)'
    <2>1. ProductsToLock(c)' = ProductsToLock(c) \ {p}
      <3>1. ProductsNamed(c)' = ProductsNamed(c) /\ ProductsNamed(c) \subseteq Products
        BY <1>2, <1>4, <1>5, NamedProducts DEF ProductsNamed, Op, Bought
      <3> QED
        BY <1>2, <1>4, <1>8, <3>1 DEF ProductsToLock
    <2>2. \A q \in Products : tx[c].seen[q] # Null =>
            \A r \in ProductsToLock(c) : q < r
      BY <1>2 DEF LockOrderInv, Ascending
    <2>3. \A r \in ProductsToLock(c) \ {p} : p < r
      <3>1. \A r \in ProductsToLock(c) : p <= r
        BY <1>1 DEF Smallest
      <3>2. ProductsToLock(c) \subseteq Nat /\ p \in Nat
        BY <1>2, NamedProducts, ShopAssumption DEF ProductsToLock
      <3> QED
        BY <3>1, <3>2
    <2> QED
      BY <1>3, <1>4, <1>5, <1>8, <2>1, <2>2, <2>3 DEF Ascending
  <1>10. \A l \in locks' : l \in locks \/ (l.conn = c /\ l.row = ProductRowOf(p))
    BY <1>1 DEF Acquire
  <1>11. ASSUME NEW l \in locks', l.conn = c PROVE LockTrue(l)'
    <2>1. CASE l.row = ProductRowOf(p)
      BY <1>2, <1>4, <1>8, <1>11, <2>1 DEF LockTrue
    <2>2. CASE l \in locks
      <3>1. LockTrue(l)
        BY <2>2 DEF LockOrderInv
      <3>2. \A q \in Products : tx[c].seen[q] # Null => t.seen[q] # Null
        BY <1>2, <1>8
      <3> QED
        BY <1>4, <1>5, <1>7, <1>11, <3>1, <3>2 DEF LockTrue, Customer
    <2> QED
      BY <1>10, <1>11, <2>1, <2>2
  <1> QED
    BY <1>4, <1>9, <1>10, <1>11, LockOrderStep

LEMMA LockOrderCategory ==
  ASSUME TypeOK, StepsFit, LockOrderInv, NEW c \in Conns, LockCategory(c)
  PROVE  LockOrderInv'
  <1>1. PICK k \in Smallest(CategoriesToLock(c)) :
          /\ Acquire(c, CategoryRowOf(k), CategoryLock)
          /\ tx' = [tx EXCEPT ![c].seenActive[k] = categoryActive[k],
                              ![c].step = IF CategoriesToLock(c) = {k}
                                          THEN "placeOrder" ELSE @]
    BY DEF LockCategory
  <1> DEFINE s == IF CategoriesToLock(c) = {k} THEN "placeOrder" ELSE tx[c].step
             t == [tx[c] EXCEPT !.seenActive[k] = categoryActive[k], !.step = s]
  <1>2. /\ tx[c].step = "lockCategories" /\ tx[c] \in Transaction
        /\ tx[c].req \in CheckoutRequest
        /\ \A p \in Bought(tx[c].lines) : tx[c].seen[p] # Null
    BY DEF LockCategory, TypeOK, StepsFit, Fits
  <1>3. k \in Categories
    BY <1>2 DEF Smallest, CategoriesToLock, CategoriesNamed, Transaction,
                ProductRow, Bought
  <1>4. tx' = [tx EXCEPT ![c] = t] /\ tx'[c] = t
    BY <1>1 DEF TypeOK
  <1>5. /\ t.step = s /\ t.req = tx[c].req /\ t.seen = tx[c].seen
        /\ s \in {"lockCategories", "placeOrder"}
    BY <1>2 DEF Transaction
  <1> HIDE DEF s, t
  <1>6. HasUser(t) /\ ~HasOrder(tx[c])
    BY <1>2, <1>5 DEF HasCart, HasUser, HasOrder
  <1>7. Ascending(c)'
    BY <1>4, <1>5 DEF Ascending
  <1>8. \A l \in locks' :
          l \in locks \/ (l.conn = c /\ l.row = CategoryRowOf(k) /\ l.mode = "SHARE")
    BY <1>1 DEF Acquire, CategoryLock
  <1>9. ASSUME NEW l \in locks', l.conn = c PROVE LockTrue(l)'
    <2>1. CASE l.row = CategoryRowOf(k) /\ l.mode = "SHARE"
      BY <1>3, <1>9, <2>1 DEF LockTrue
    <2>2. CASE l \in locks
      <3>1. LockTrue(l)
        BY <2>2 DEF LockOrderInv
      <3> QED
        BY <1>4, <1>5, <1>6, <1>9, <3>1 DEF LockTrue, Customer
    <2> QED
      BY <1>8, <1>9, <2>1, <2>2
  <1> QED
    BY <1>4, <1>7, <1>8, <1>9, LockOrderStep

LEMMA LockOrderRead ==
  ASSUME TypeOK, StepsFit, LockOrderInv, NEW c \in Conns, ReadCategory(c)
  PROVE  LockOrderInv'
  <1> DEFINE t == [tx[c] EXCEPT !.step = "patchProduct"]
  <1>1. tx[c] \in Transaction /\ tx[c].step = "readCategory"
    BY DEF TypeOK, ReadCategory
  <1>2. tx' = [tx EXCEPT ![c] = t] /\ tx'[c] = t
    BY DEF ReadCategory, Goto, TypeOK
  <1>3. /\ t.step = "patchProduct" /\ t.req = tx[c].req /\ t.seen = tx[c].seen
    BY <1>1 DEF Transaction
  <1> HIDE DEF t
  <1>4. ~HasUser(tx[c]) /\ ~HasOrder(tx[c]) /\ UNCHANGED locks
    BY <1>1 DEF HasUser, HasCart, HasOrder, ReadCategory
  <1>5. \A l \in locks' : l.conn = c => LockTrue(l)'
    BY <1>2, <1>3, <1>4 DEF LockOrderInv, LockTrue
  <1>6. Ascending(c)'
    BY <1>2, <1>3 DEF Ascending
  <1> QED
    BY <1>2, <1>4, <1>5, <1>6, LockOrderStep

LEMMA LockOrderNext ==
  ASSUME Inv, LockOrderInv, [Next]_vars
  PROVE  LockOrderInv'
  <1> TypeOK /\ StepsFit
    BY DEF Inv
  <1>1. CASE UNCHANGED <<locks, tx>>
    BY <1>1 DEF LockOrderInv, LockTrue, Ascending, Customer,
                ProductsToLock, ProductsNamed, Op
  <1>2. ASSUME NEW c \in Conns, NEW r \in Requests, Begin(c, r)
        PROVE  LockOrderInv'
    BY <1>2, LockOrderBegin
  <1>3. ASSUME NEW c \in Conns, Finish(c)
        PROVE  LockOrderInv'
    BY <1>3, LockOrderFinish
  <1>4. ASSUME NEW c \in Conns, Work(c)
        PROVE  LockOrderInv'
    <2>1. CASE AnswerReplay(c) \/ PlaceOrder(c) \/ MoveOrder(c) \/ WriteLine(c)
               \/ PatchProduct(c)
      BY <1>3, <2>1 DEF AnswerReplay, PlaceOrder, MoveOrder, WriteLine, PatchProduct
    <2>2. CASE Refuse(c)
      BY <1>3, <2>2 DEF Refuse
    <2> QED
      BY <1>4, <2>1, <2>2, Refusals, LockOrderUser, LockOrderOrder, LockOrderProduct,
         LockOrderCategory, LockOrderRead
      DEF Work
  <1>5. ASSUME NEW c \in Conns, DeadlockVictim(c) \/ Crash(c)
        PROVE  LockOrderInv'
    BY <1>3, <1>5, Refusals DEF Refuse
  <1>6. ASSUME NEW patch \in CategoryPatches, PatchCategory(patch[1], patch[2])
        PROVE  LockOrderInv'
    BY <1>1, <1>6 DEF PatchCategory
  <1>7. CASE UNCHANGED vars
    BY <1>1, <1>7 DEF vars
  <1> QED
    BY <1>2, <1>4, <1>5, <1>6, <1>7 DEF Next, Done

LEMMA LockOrderInit == Init => LockOrderInv
  BY IdleOwnsNothing DEF Init, LockOrderInv, Ascending

LEMMA LockOrderInvariance == Spec => []LockOrderInv
  BY Invariance, LockOrderInit, LockOrderNext, PTL DEF Spec

LEMMA RowKinds ==
  \A u, v : /\ UserRowOf(u) # OrderRowOf(v) /\ UserRowOf(u) # ProductRowOf(v)
            /\ UserRowOf(u) # CategoryRowOf(v) /\ OrderRowOf(u) # ProductRowOf(v)
            /\ OrderRowOf(u) # CategoryRowOf(v) /\ ProductRowOf(u) # CategoryRowOf(v)
  BY DEF UserRowOf, OrderRowOf, ProductRowOf, CategoryRowOf

LEMMA SharedTogether == ~Conflicts("SHARE", "SHARE")
  <1>1. "UPDATE" \notin {"SHARE"} /\ "NO KEY UPDATE" \notin {"SHARE"}
    OBVIOUS
  <1> QED
    BY <1>1 DEF Conflicts

(* The last two locks a transaction asks for.                              *)
LEMMA WantsLate ==
  ASSUME NEW c \in Conns, NEW w \in Wants(c)
  PROVE  /\ tx[c].step = "moveOrder" => w.row = UserRowOf(Actor(c))
         /\ tx[c].step = "writeLine" =>
              Op(c) = "setCartItem" /\ w.row = ProductRowOf(tx[c].req.productId)
  <1>1. CASE tx[c].step = "moveOrder"
    <2>1. w = [row |-> UserRowOf(Actor(c)), mode |-> "KEY SHARE"]
      BY <1>1 DEF Wants
    <2>2. w.row = UserRowOf(Actor(c))
      BY <2>1
    <2> QED
      BY <1>1, <2>2
  <1>2. CASE tx[c].step = "writeLine" /\ Op(c) = "setCartItem"
    <2>1. w = [row |-> ProductRowOf(tx[c].req.productId), mode |-> "KEY SHARE"]
      BY <1>2 DEF Wants
    <2>2. w.row = ProductRowOf(tx[c].req.productId)
      BY <2>1
    <2> QED
      BY <1>2, <2>2
  <1>3. CASE tx[c].step = "writeLine" /\ Op(c) # "setCartItem"
    BY <1>3 DEF Wants
  <1> QED
    BY <1>1, <1>2, <1>3

(* Who waits for whom.                                                     *)
LEMMA WaitsOn ==
  ASSUME TypeOK, StepsFit, LockOrderInv, NEW c \in Conns, NEW d \in Conns,
         WaitsFor(c, d)
  PROVE  \/ tx[c].step = "lockUser" /\ HasUser(tx[d])
         \/ tx[c].step = "lockOrder" /\ HasOrder(tx[d])
         \/ /\ tx[c].step = "lockProducts"
            /\ \E p \in Smallest(ProductsToLock(c)) : tx[d].seen[p] # Null
         \/ /\ tx[c].step = "writeLine"
            /\ \E p \in Products : tx[d].seen[p] # Null
         \/ /\ tx[c].step = "moveOrder" /\ Op(c) = "cancel"
            /\ HasUser(tx[d]) /\ Customer(d) = Customer(c)
  <1>1. PICK w \in Wants(c), l \in locks :
          l.conn = d /\ l.row = w.row /\ Conflicts(l.mode, w.mode)
    BY DEF WaitsFor
  <1>2. LockTrue(l)
    BY DEF LockOrderInv
  <1>3. Fits(tx[c]) /\ Fits(tx[d])
    BY DEF StepsFit
  <1>4. CASE tx[c].step = "lockUser"
    <2>1. w.row = UserRowOf(Customer(c))
      BY <1>4 DEF Wants
    <2> QED
      BY <1>1, <1>2, <1>4, <2>1, RowNames, RowKinds DEF LockTrue
  <1>5. CASE tx[c].step = "lockOrder"
    <2>1. w.row = OrderRowOf(tx[c].req.orderId)
      BY <1>5 DEF Wants
    <2> QED
      BY <1>1, <1>2, <1>5, <2>1, RowNames, RowKinds DEF LockTrue
  <1>6. CASE tx[c].step = "lockProducts"
    <2>1. PICK p \in Smallest(ProductsToLock(c)) : w.row = ProductRowOf(p)
      BY <1>6 DEF Wants
    <2> QED
      BY <1>1, <1>2, <1>6, <2>1, RowNames, RowKinds DEF LockTrue
  <1>7. CASE tx[c].step = "lockCategories"
    <2>1. PICK k : w.row = CategoryRowOf(k) /\ w.mode = "SHARE"
      BY <1>7 DEF Wants, CategoryLock
    <2>2. l.mode = "SHARE"
      BY <1>1, <1>2, <2>1, RowNames, RowKinds DEF LockTrue
    <2> QED
      BY <1>1, <2>1, <2>2, SharedTogether
  <1>8. CASE tx[c].step = "moveOrder"
    <2>1. w.row = UserRowOf(Actor(c))
      BY <1>8, WantsLate
    <2>2. HasUser(tx[d]) /\ Actor(c) = Customer(d)
      BY <1>1, <1>2, <2>1, RowNames, RowKinds DEF LockTrue
    <2>3. Customer(d) \in Users
      BY <1>3, <2>2
      DEF Fits, HasUser, HasCart, Customer, CheckoutRequest, LineRequest,
          SetLineRequest, RemoveLineRequest
    <2>4. Op(c) = "cancel" /\ Actor(c) = Customer(c)
      BY <1>3, <1>8, <2>2, <2>3, ShopAssumption
      DEF Fits, MoveRequest, CancelRequest, StatusRequest, Op, Actor, Customer
    <2> QED
      BY <1>8, <2>2, <2>4
  <1>9. CASE tx[c].step = "writeLine"
    <2>1. PICK p : w.row = ProductRowOf(p)
      BY <1>9, WantsLate
    <2> QED
      BY <1>1, <1>2, <1>9, <2>1, RowNames, RowKinds DEF LockTrue
  <1> QED
    BY <1>4, <1>5, <1>6, <1>7, <1>8, <1>9 DEF Wants

(* Without such a cancellation, whoever waits for a transaction that waits *)
(* is led to a product: to one that waits for a higher product than its    *)
(* own, if it waits for a product itself.                                  *)
LEMMA WaitsHigher ==
  ASSUME TypeOK, StepsFit, LockOrderInv,
         NEW c \in Conns, NEW d \in Conns, NEW e \in Conns,
         WaitsFor(c, d), WaitsFor(d, e),
         tx[d].step # "moveOrder"
  PROVE  /\ tx[c].step = "moveOrder" =>
               Op(c) = "cancel" /\ Op(d) \in {"checkout", "setCartItem"}
                 /\ Customer(d) = Customer(c)
         /\ tx[c].step = "lockUser" => tx[d].step \in {"lockProducts", "writeLine"}
         /\ tx[c].step \in {"lockOrder", "writeLine", "lockProducts"} =>
              tx[d].step = "lockProducts"
         /\ tx[c].step = "lockProducts" =>
              \E p \in Smallest(ProductsToLock(c)) :
                \A q \in ProductsToLock(d) : p < q
  <1>1. /\ Fits(tx[c]) /\ Fits(tx[d]) /\ Ascending(d)
    BY DEF StepsFit, LockOrderInv
  <1>2. tx[d].step \in {"lockUser", "lockOrder", "lockProducts", "writeLine"}
    BY WaitsOn
  <1>3. HasUser(tx[d]) =>
          /\ tx[d].step \in {"lockProducts", "writeLine"}
          /\ Op(d) \in {"checkout", "setCartItem"}
    <2>1. tx[d].step = "writeLine" => Op(d) = "setCartItem"
      BY WantsLate DEF WaitsFor
    <2> QED
      BY <1>2, <2>1 DEF HasUser, HasCart, CheckoutRequest, Op
  <1>4. HasOrder(tx[d]) => tx[d].step = "lockProducts"
    BY <1>2 DEF HasOrder
  <1>5. ASSUME NEW p \in Products, tx[d].seen[p] # Null
        PROVE  tx[d].step = "lockProducts" /\ \A q \in ProductsToLock(d) : p < q
    BY <1>1, <1>2, <1>5 DEF Ascending
  <1>6. tx[c].step = "lockProducts" => Smallest(ProductsToLock(c)) \subseteq Products
    BY NamedProducts
  <1> QED
    BY <1>3, <1>4, <1>5, <1>6, WaitsOn

LEMMA NoOtherDeadlock == TypeOK /\ StepsFit /\ LockOrderInv => OnlyCancelDeadlocks
  <1> SUFFICES ASSUME TypeOK, StepsFit, LockOrderInv,
                      NEW S \in SUBSET Conns, Deadlocked(S),
                      ~\E c, d \in S :
                         /\ tx[c].step = "moveOrder" /\ Op(c) = "cancel"
                         /\ WaitsFor(c, d)
                         /\ Op(d) \in {"checkout", "setCartItem"}
                         /\ Customer(d) = Customer(c)
               PROVE  FALSE
    BY DEF OnlyCancelDeadlocks
  <1>1. S # {} /\ \A c \in S : \E d \in S : WaitsFor(c, d)
    BY DEF Deadlocked
  <1>2. \A c \in S : tx[c].step # "moveOrder"
    <2> SUFFICES ASSUME NEW c \in S, tx[c].step = "moveOrder" PROVE FALSE
      OBVIOUS
    <2>1. PICK d \in S : WaitsFor(c, d)
      BY <1>1
    <2>2. PICK e \in S : WaitsFor(d, e)
      BY <1>1
    <2>3. HasUser(tx[d])
      BY <2>1, WaitsOn
    <2>4. tx[d].step # "moveOrder"
      BY <2>3 DEF HasUser, HasCart
    <2> QED
      BY <2>1, <2>2, <2>4, WaitsHigher
  <1> DEFINE R == {c \in S : tx[c].step = "lockProducts"}
  <1>3. ASSUME NEW c \in S
        PROVE  \E d \in S : /\ WaitsFor(c, d)
                            /\ \E e \in S : WaitsFor(d, e)
                            /\ tx[d].step # "moveOrder"
    BY <1>1, <1>2
  <1>4. R # {}
    <2>1. PICK c \in S : TRUE
      BY <1>1
    <2>2. PICK d \in S : WaitsFor(c, d)
      BY <1>1
    <2>3. PICK e \in S : WaitsFor(d, e)
      BY <1>1
    <2>4. PICK f \in S : WaitsFor(e, f)
      BY <1>1
    <2>5. tx[c].step \in {"lockUser", "lockOrder", "writeLine", "lockProducts"}
      BY <1>2, <2>2, WaitsOn
    <2>6. tx[d].step = "lockProducts" \/ tx[d].step = "writeLine"
      BY <1>2, <2>2, <2>3, <2>5, WaitsHigher
    <2>7. tx[d].step = "writeLine" => tx[e].step = "lockProducts"
      BY <1>2, <2>3, <2>4, WaitsHigher
    <2> QED
      BY <2>6, <2>7
  <1> DEFINE w == [c \in R |-> CHOOSE p : p \in Smallest(ProductsToLock(c))]
  <1>5. ASSUME NEW c \in R
        PROVE  /\ w[c] \in Nat /\ w[c] \in ProductsToLock(c)
               /\ \A p \in Smallest(ProductsToLock(c)) : p = w[c]
    <2>1. \E p : p \in Smallest(ProductsToLock(c))
      BY <1>3, WaitsOn
    <2>2. w[c] \in Smallest(ProductsToLock(c))
      BY <2>1
    <2>3. Smallest(ProductsToLock(c)) \subseteq Nat
      BY NamedProducts, ShopAssumption
    <2> HIDE DEF w
    <2>4. \A p \in Smallest(ProductsToLock(c)) : p <= w[c] /\ w[c] <= p
      BY <2>2 DEF Smallest
    <2> QED
      BY <2>2, <2>3, <2>4 DEF Smallest
  <1>6. ASSUME NEW c \in R PROVE \E d \in R : w[c] < w[d]
    <2>1. PICK d \in S, e \in S : WaitsFor(c, d) /\ WaitsFor(d, e)
      BY <1>1
    <2>2. /\ tx[d].step = "lockProducts"
          /\ \E p \in Smallest(ProductsToLock(c)) :
               \A q \in ProductsToLock(d) : p < q
      BY <1>2, <2>1, WaitsHigher
    <2> HIDE DEF w
    <2> QED
      BY <1>5, <2>2
  <1> HIDE DEF w
  <1>7. R \subseteq Conns /\ IsFiniteSet(Conns)
    BY TxAssumption
  <1> QED
    BY <1>4, <1>5, <1>6, <1>7, Highest

(* Transactions wait in a circle only when one of them is a cancellation   *)
(* that waits for its own customer's row, held by a checkout or a cart     *)
(* change: whatever the number of connections, products and lines, the     *)
(* ascending product locks and the shared category locks of checkouts,     *)
(* administrators' moves and product edits never close one                 *)
(* (orders.service.ts lockProducts, lockActiveCategoryIds).                *)
THEOREM OnlyCancellationsDeadlock == Spec => []OnlyCancelDeadlocks
  <1>1. Inv => TypeOK /\ StepsFit
    BY DEF Inv
  <1> QED
    BY <1>1, Invariance, LockOrderInvariance, NoOtherDeadlock, PTL
=============================================================================
