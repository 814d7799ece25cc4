------------------------------ MODULE Feedback ------------------------------
(***************************************************************************)
(* What customers say: ReviewsService and ProductSuggestionsService,       *)
(* beside the requests of Catalogue, whose categories and products they    *)
(* read and whose row locks they wait for.                                 *)
(***************************************************************************)
EXTENDS Catalogue

CONSTANTS
  Titles,            \* trimmed names of suggested products
  Purchases,         \* orders that may be completed: <<customer, product>>
  FirstSuggestions

VARIABLES
  bought,      \* <<customer, product>> of order items of COMPLETED orders
  reviews,     \* [id, user, product, by]
  suggestions  \* [id, customer, name, status, by]: by is reviewed_by

NewReview ==
  [op : {"createReview"}, user : Emails, product : ProductIdsKnown]
ReviewPatch == [op : {"updateReview"}, user : Emails, id : Processes]
ReviewRequest ==
  NewReview \cup ReviewPatch
    \cup [op : {"deleteReview"}, user : Emails, id : Processes]

NewSuggestion == [op : {"suggest"}, user : Emails, name : Titles]
Verdict ==  \* never back to PENDING
  [op : {"reviewSuggestion"}, id : Processes \cup IdsOf(FirstSuggestions),
   status : {"APPROVED", "REJECTED"}]
SuggestionRequest == NewSuggestion \cup Verdict

(* The rows of product_suggestions, pending until somebody reviews them.   *)
SuggestionRow ==
  {s \in [id : Processes \cup IdsOf(FirstSuggestions), customer : Emails,
         name : Titles, status : {"PENDING", "APPROVED", "REJECTED"},
         by : Processes \cup {None}] :
     s.status = "PENDING" <=> s.by = None}

ASSUME FeedbackAssumption ==
  /\ Purchases \subseteq Emails \X IdsOf(FirstProducts)
  /\ FirstSuggestions \subseteq SuggestionRow
  /\ \A s, q \in FirstSuggestions : s # q => s.id # q.id
  /\ IdsOf(FirstSuggestions) \cap Processes = {}
  /\ Casts \subseteq [Processes ->
       CategoryRequest \cup ProductRequest \cup Registration
         \cup ProfileUpdate \cup SeedRequest \cup ReviewRequest
         \cup SuggestionRequest \cup [op : {"none"}]]

feedback == <<bought, reviews, suggestions>>
vars == <<catalogue, feedback>>
others == <<tables, batch>>

-----------------------------------------------------------------------------
(* OrdersService.updateStatusByAdmin: COMPLETED is final.                  *)
CompleteOrder ==
  /\ \E order \in Purchases \ bought : bought' = bought \cup {order}
  /\ UNCHANGED <<catalogue, reviews, suggestions>>

-----------------------------------------------------------------------------
(* ReviewsService                                                          *)

(* assertProductVisible                                                    *)
Visible(id) ==
  \E p \in products, k \in categories :
    p.id = id /\ p.active /\ k.id = p.category /\ k.active

CheckVisible(c) ==
  /\ Asks(c, "createReview", "begin")
  /\ Goto(c, IF Visible(ask[c].product) THEN "purchase" ELSE "notFound")
  /\ UNCHANGED <<others, feedback>>

CheckPurchase(c) ==
  /\ Asks(c, "createReview", "purchase")
  /\ Goto(c, IF <<ask[c].user, ask[c].product>> \in bought
             THEN "insert" ELSE "conflict")
  /\ UNCHANGED <<others, feedback>>

(* uq_reviews_user_product; the foreign key waits for a product that is    *)
(* locked.                                                                 *)
InsertReview(c) ==
  LET r == ask[c] IN
  /\ Asks(c, "createReview", "insert") /\ ~ProductHeld(r.product)
  /\ IF \E v \in reviews : v.user = r.user /\ v.product = r.product
     THEN Goto(c, "conflict") /\ UNCHANGED reviews
     ELSE /\ reviews' = reviews \cup
               {[id |-> c, user |-> r.user, product |-> r.product, by |-> c]}
          /\ Goto(c, "reload")
  /\ UNCHANGED <<others, bought, suggestions>>

(* Mutant: the owner is compared after the update.                         *)
AnyOwner(v, r) == v.id = r.id

(* WHERE id = ... AND user_id = ...                                        *)
Own(v, r) == v.id = r.id /\ v.user = r.user

UpdateOwnReview(c) ==
  /\ Asks(c, "updateReview", "begin")
  /\ reviews' = {IF Own(v, ask[c]) THEN [v EXCEPT !.by = c] ELSE v :
                 v \in reviews}
  /\ Goto(c, IF \E v \in reviews : v.id = ask[c].id /\ v.user = ask[c].user
             THEN "reload" ELSE "notFound")
  /\ UNCHANGED <<others, bought, suggestions>>

(* loadReviewResponse                                                      *)
ReloadReview(c) ==
  LET id == IF ask[c].op = "createReview" THEN c ELSE ask[c].id IN
  /\ ask[c].op \in {"createReview", "updateReview"} /\ at[c] = "reload"
  /\ Goto(c, IF id \in IdsOf(reviews) THEN "ok" ELSE "notFound")
  /\ UNCHANGED <<others, feedback>>

DeleteOwnReview(c) ==
  /\ Asks(c, "deleteReview", "begin")
  /\ reviews' = {v \in reviews : ~Own(v, ask[c])}
  /\ Goto(c, IF reviews' # reviews THEN "ok" ELSE "notFound")
  /\ UNCHANGED <<others, bought, suggestions>>

-----------------------------------------------------------------------------
(* ProductSuggestionsService                                               *)

(* Mutant: what was approved is looked for, not what waits.                *)
DuplicateApproved(r) ==
  \E s \in suggestions :
    s.customer = r.user /\ s.name = r.name /\ s.status = "APPROVED"

DuplicatePending(r) ==
  \E s \in suggestions :
    s.customer = r.user /\ s.name = r.name /\ s.status = "PENDING"

CheckDuplicate(c) ==
  /\ Asks(c, "suggest", "begin")
  /\ Goto(c, IF DuplicatePending(ask[c]) THEN "conflict" ELSE "insert")
  /\ UNCHANGED <<others, feedback>>

InsertSuggestion(c) ==
  LET r == ask[c] IN
  /\ Asks(c, "suggest", "insert")
  /\ suggestions' = suggestions \cup
       {[id |-> c, customer |-> r.user, name |-> r.name, status |-> "PENDING",
         by |-> None]}
  /\ Goto(c, "ok")
  /\ UNCHANGED <<others, bought, reviews>>

(* Mutant: the suggestion is read without a lock.                          *)
NeverHeld(id) == FALSE

SuggestionHeld(id) ==
  \E c \in Processes : Asks(c, "reviewSuggestion", "update") /\ ask[c].id = id

LockSuggestion(c) ==
  LET id == ask[c].id IN
  /\ Asks(c, "reviewSuggestion", "begin") /\ ~SuggestionHeld(id)
  /\ Goto(c, IF id \notin IdsOf(suggestions) THEN "notFound"
             ELSE IF \E s \in suggestions : s.id = id /\ s.status = "PENDING"
             THEN "update" ELSE "conflict")
  /\ UNCHANGED <<others, feedback>>

ReviewSuggestion(c) ==
  LET r == ask[c] IN
  /\ Asks(c, "reviewSuggestion", "update")
  /\ suggestions' =
       {IF s.id = r.id THEN [s EXCEPT !.status = r.status, !.by = c] ELSE s :
        s \in suggestions}
  /\ Goto(c, "ok")
  /\ UNCHANGED <<others, bought, reviews>>

-----------------------------------------------------------------------------
Init ==
  /\ CatalogueInit
  /\ bought = {} /\ reviews = {}
  /\ suggestions = FirstSuggestions

ReviewStep(c) ==
  \/ CheckVisible(c) \/ CheckPurchase(c) \/ InsertReview(c)
  \/ UpdateOwnReview(c) \/ ReloadReview(c) \/ DeleteOwnReview(c)

SuggestionStep(c) ==
  \/ CheckDuplicate(c) \/ InsertSuggestion(c)
  \/ LockSuggestion(c) \/ ReviewSuggestion(c)

Quiet(c) == Answered(c) \/ at[c] = "crashed" \/ ask[c].op = "none"

(* A customer changes a review when it is there.                           *)
Sees(c) ==
  ask[c].op \in {"updateReview", "deleteReview"} /\ at[c] = "begin" =>
    Quiet(ask[c].id) \/ at[ask[c].id] = "reload"

Step(c) ==
  /\ Sees(c)
  /\ \/ CatalogueStep(c) /\ UNCHANGED feedback
     \/ ReviewStep(c) \/ SuggestionStep(c)
  /\ Watch(c)

Finished == (\A c \in Processes : Quiet(c)) /\ UNCHANGED vars

Next == (\E c \in Processes : Step(c)) \/ CompleteOrder \/ Finished

Spec == Init /\ [][Next]_vars

-----------------------------------------------------------------------------
(* Every variable has its type, reviews are of bought products and one per *)
(* customer and product, and what refers to a row refers to one that is.   *)
TypeOK ==
  /\ CatalogueTypeOK
  /\ bought \subseteq Purchases
  /\ reviews \subseteq
       [id : Processes, user : Emails, product : IdsOf(products),
        by : Processes]
  /\ \A v \in reviews : <<v.user, v.product>> \in bought
  /\ \A v, w \in reviews :
       v # w => v.id # w.id /\ <<v.user, v.product>> # <<w.user, w.product>>
  /\ suggestions \subseteq SuggestionRow

(* A suggestion has one verdict: an admin who was told ok finds his own on *)
(* it whatever other admins sent meanwhile.                                *)
OneVerdict ==
  \A c \in Processes : Asks(c, "reviewSuggestion", "ok") =>
    \E s \in suggestions :
      s.id = ask[c].id /\ s.status = ask[c].status /\ s.by = c

(* A request that is refused leaves nothing it wrote, also when it is      *)
(* refused by a statement after the one that wrote.  A seed that fails     *)
(* does.                                                                   *)
RefusedLeavesNothing ==
  \A row \in categories \cup products \cup reviews : row.by # None =>
    \/ at[row.by] \in {"ok", "reload"}
    \/ ask[row.by].op = "seed"

(* Hidden from before process c began: its last writer had been answered.  *)
HiddenBefore(row, c) == ~row.active /\ row.by \in before[c] \cup {None}

(* Once the deactivation of a category or of a product has been answered   *)
(* no later request puts a product into that category, or a review under   *)
(* that product or a product of that category.  Requests that overlap it   *)
(* still may: none of these checks locks what it reads.                    *)
HiddenTakesNothing ==
  \A p \in products, k \in categories : p.category = k.id =>
    /\ p.by # None /\ ask[p.by].op \in {"createProduct", "patchProduct"}
         /\ ask[p.by].category = k.id
       => ~HiddenBefore(k, p.by)
    /\ \A v \in reviews : v.product = p.id =>
         /\ ~HiddenBefore(p, v.id)
         /\ HiddenBefore(k, v.id) => p.by \notin before[v.id] \cup {None}

(* Row x was there, or its writer had been answered, when y was asked for. *)
Precedes(x, y) == y \in Processes /\ (x \in before[y] \/ x \notin Processes)

(* Two suggestions of one customer and name wait for review only if the    *)
(* requests that made them overlapped.                                     *)
DuplicatesOverlap ==
  \A s, q \in suggestions :
    /\ s # q /\ s.customer = q.customer /\ s.name = q.name
    /\ s.status = "PENDING" /\ q.status = "PENDING"
    => ~Precedes(s.id, q.id) /\ ~Precedes(q.id, s.id)

-----------------------------------------------------------------------------
(* The inductive invariant of FeedbackProofs.                              *)

(* A category was usable when c looked at it, a product visible.           *)
Looked(c) ==
  \/ ask[c].op = "createProduct" /\ at[c] \in {"insert", "ok"}
  \/ ask[c].op = "patchProduct" /\ at[c] \in {"update", "ok"}

LooksTrue ==
  \A c \in Processes :
    /\ Looked(c) => \A k \in categories :
         k.id = ask[c].category => ~HiddenBefore(k, c)
    /\ ask[c].op = "createReview"
         /\ at[c] \in {"purchase", "insert", "reload", "ok"} =>
         /\ ask[c].product \in IdsOf(products)
         /\ \A p \in products : p.id = ask[c].product =>
              /\ ~HiddenBefore(p, c)
              /\ \A k \in categories : k.id = p.category /\ HiddenBefore(k, c)
                   => p.by \notin before[c] \cup {None}

(* A review has the id of the request that made it, which asked for it;    *)
(* its last writer did too.                                                *)
ReviewsTrue ==
  /\ \A c \in Processes : Asks(c, "createReview", "insert") =>
       <<ask[c].user, ask[c].product>> \in bought
  /\ \A v \in reviews :
       /\ ask[v.id].op = "createReview" /\ at[v.id] \in {"reload", "ok"}
       /\ v.product = ask[v.id].product
       /\ \/ v.by = v.id
          \/ /\ ask[v.by].op = "updateReview" /\ at[v.by] \in {"reload", "ok"}
             /\ ask[v.by].id = v.id

(* The admin who is about to write his verdict holds the lock of a         *)
(* suggestion that is still pending.                                       *)
VerdictsTrue ==
  /\ \A s, q \in suggestions : s # q => s.id # q.id
  /\ \A c \in Processes : Asks(c, "reviewSuggestion", "update") =>
       /\ \E s \in suggestions : s.id = ask[c].id /\ s.status = "PENDING"
       /\ \A d \in Processes :
            Asks(d, "reviewSuggestion", "update") /\ ask[d].id = ask[c].id
              => d = c

(* Who has found no duplicate had no pending one before.                   *)
SuggestionsTrue ==
  /\ \A s \in suggestions : s.id \in Processes =>
       /\ Asks(s.id, "suggest", "ok")
       /\ s.customer = ask[s.id].user /\ s.name = ask[s.id].name
  /\ \A c \in Processes :
       ask[c].op = "suggest" /\ at[c] \in {"insert", "ok"} =>
         \A s \in suggestions :
           /\ s.status = "PENDING" /\ s.id # c
           /\ s.customer = ask[c].user /\ s.name = ask[c].name
           => ~Precedes(s.id, c)

Inv ==
  /\ CatalogueInv /\ TypeOK /\ LooksTrue /\ ReviewsTrue
  /\ VerdictsTrue /\ OneVerdict /\ SuggestionsTrue
=============================================================================
