----------------------------- MODULE MCOrderTx ------------------------------
(***************************************************************************)
(* Small instances of OrderTx.  Each set of requests below is the cast of  *)
(* one run.                                                                *)
(***************************************************************************)
EXTENDS OrderTx, TLC

CONSTANTS ann, bob, root, k1, k2, h1, h2

MCInitialProducts ==
  [p \in Products |-> [stock |-> 2, priceVnd |-> 1, isActive |-> TRUE,
                       categoryId |-> IF p = 1 THEN 1 ELSE 2]]

(* As many lines as a cart may have.                                       *)
FullCarts == [u \in Users |-> [p \in Products |-> IF p < 3 THEN 1 ELSE 0]]

NoChange ==
  [stock |-> Omitted, priceVnd |-> Omitted, isActive |-> Omitted,
   categoryId |-> Omitted]

MCProductPatches ==
  {[NoChange EXCEPT !.stock = 1], [NoChange EXCEPT !.priceVnd = 2],
   [NoChange EXCEPT !.isActive = FALSE], [NoChange EXCEPT !.categoryId = 2]}

checkout(u, k, h) == [op |-> "checkout", userId |-> u, key |-> k, hash |-> h]
cancel(u, o) == [op |-> "cancel", userId |-> u, orderId |-> o]
move(o, s) ==
  [op |-> "updateStatusByAdmin", adminId |-> root, orderId |-> o, status |-> s]
setLine(u, p, q) ==
  [op |-> "setCartItem", userId |-> u, productId |-> p, quantity |-> q]
removeLine(u, p) == [op |-> "removeCartItem", userId |-> u, productId |-> p]
patch(p, ch) == [op |-> "patchProduct", productId |-> p, changes |-> ch]

(* Checkouts of two customers, retries included, against everything that   *)
(* could change what they read.                                            *)
SellingRequests ==
  {checkout(ann, k1, h1), checkout(ann, k1, h2), checkout(bob, k1, h1),
   setLine(ann, 1, 2), setLine(ann, 2, 1), setLine(ann, 3, 1), removeLine(ann, 2)}
    \cup {patch(1, ch) : ch \in ProductPatches}

MCCategoryPatches == {<<2, FALSE>>}

(* The life of orders: cancel, confirm, reject and complete race while     *)
(* the same customer shops again, an administrator sets the stock and      *)
(* another switches a category off.                                        *)
MovingRequests ==
  {checkout(ann, k1, h1), checkout(ann, k2, h1), checkout(bob, k1, h1),
   setLine(ann, 1, 1), patch(1, [NoChange EXCEPT !.stock = 1]),
   cancel(ann, 1), cancel(bob, 1)}
    \cup {move(1, s) : s \in {"CONFIRMED", "REJECTED", "COMPLETED"}}

None == {}

(* Connections are interchangeable.                                        *)
ConnSymmetry == Permutations(Conns)
=============================================================================
