--------------------------- MODULE FeedbackProofs ---------------------------
(***************************************************************************)
(* Proofs about Catalogue and Feedback: types and references of the        *)
(* tables, what a seed, an admin's verdict, a check of visibility and a    *)
(* check for duplicates guarantee; for any number of processes, rows and   *)
(* casts.                                                                  *)
(*                                                                         *)
(* The argument they share: a row that changes carries the name of the     *)
(* process that changed it, and that process has not been answered.  What  *)
(* was answered before a process began is therefore not what it finds      *)
(* changed.                                                                *)
(***************************************************************************)
EXTENDS Feedback, TLAPS

-----------------------------------------------------------------------------
(* Requests are told apart by op.                                          *)
LEMMA CatalogueRequests ==
  ASSUME ask \in Casts, NEW c \in Processes
  PROVE  /\ ask[c].op = "createCategory" => ask[c] \in NewCategory
         /\ ask[c].op = "patchCategory" => ask[c] \in CategoryPatch
         /\ ask[c].op = "createProduct" => ask[c] \in NewProduct
         /\ ask[c].op = "patchProduct" => ask[c] \in ProductPatch
         /\ ask[c].op = "register" => ask[c] \in Registration
         /\ ask[c].op = "updateProfile" => ask[c] \in ProfileUpdate
<1>1. ask[c] \in CategoryRequest \cup ProductRequest \cup Registration
         \cup ProfileUpdate \cup SeedRequest \cup ReviewRequest
         \cup SuggestionRequest \cup [op : {"none"}]
  BY FeedbackAssumption
<1>. QED
  BY <1>1
  DEF CategoryRequest, NewCategory, CategoryPatch, ProductRequest, NewProduct,
      ProductPatch, Registration, ProfileUpdate, SeedRequest, ReviewRequest,
      NewReview, ReviewPatch, SuggestionRequest, NewSuggestion, Verdict

LEMMA FeedbackRequests ==
  ASSUME ask \in Casts, NEW c \in Processes
  PROVE  /\ ask[c].op = "createReview" => ask[c] \in NewReview
         /\ ask[c].op = "suggest" => ask[c] \in NewSuggestion
         /\ ask[c].op = "reviewSuggestion" => ask[c] \in Verdict
<1>1. ask[c] \in CategoryRequest \cup ProductRequest \cup Registration
         \cup ProfileUpdate \cup SeedRequest \cup ReviewRequest
         \cup SuggestionRequest \cup [op : {"none"}]
  BY FeedbackAssumption
<1>. QED
  BY <1>1
  DEF CategoryRequest, NewCategory, CategoryPatch, ProductRequest, NewProduct,
      ProductPatch, Registration, ProfileUpdate, SeedRequest, ReviewRequest,
      NewReview, ReviewPatch, SuggestionRequest, NewSuggestion, Verdict

-----------------------------------------------------------------------------
(* Keys: inserting and patching rows.                                      *)
LEMMA KeyedAdd ==
  ASSUME NEW table, NEW row, Keyed(table), row.id \notin IdsOf(table),
         ~KeyTaken(table, row.key)
  PROVE  Keyed(table \cup {row})
BY DEF Keyed, IdsOf, KeyTaken

LEMMA KeyedPatch ==
  ASSUME NEW table, NEW new, Keyed(table),
         \A r \in table : new[r].id = r.id,
         \A r, q \in table : r # q => new[r].key # new[q].key
  PROVE  /\ Keyed({new[r] : r \in table})
         /\ IdsOf({new[r] : r \in table}) = IdsOf(table)
BY DEF Keyed, IdsOf

LEMMA KeyedPart ==
  ASSUME NEW table, NEW part, part \subseteq table, Keyed(table)
  PROVE  Keyed(part)
BY DEF Keyed

(* The only row with its id.                                               *)
LEMMA OneRow ==
  ASSUME NEW table, Keyed(table), NEW r \in table, NEW q \in table, r.id = q.id
  PROVE  r = q
BY DEF Keyed

-----------------------------------------------------------------------------
(* What a step of process c leaves alone: the requests, and the place and  *)
(* batch of all others.  Who has been answered or has crashed takes none.  *)
Moves(c) ==
  /\ at[c] \notin Answers \cup {"crashed"} /\ at'[c] # "begin"
  /\ at' \in [Processes -> Places]
  /\ \A d \in Processes : d # c => at'[d] = at[d]

LEMMA GotoMoves ==
  ASSUME CatalogueTypeOK, NEW c \in Processes, NEW step \in Places \ {"begin"},
         Goto(c, step), at[c] \notin Answers \cup {"crashed"}
  PROVE  Moves(c)
BY DEF Goto, Moves, CatalogueTypeOK

LEMMA StaysMoves ==
  ASSUME CatalogueTypeOK, NEW c \in Processes, at' = at,
         at[c] \notin Answers \cup {"begin", "crashed"}
  PROVE  Moves(c)
BY DEF Moves, CatalogueTypeOK

LEMMA CategoryMoves ==
  ASSUME CatalogueTypeOK, NEW c \in Processes, CategoryStep(c)
  PROVE  Moves(c) /\ batch' = batch
<1>1. CASE CreateCategory(c)
  BY <1>1, GotoMoves DEF CreateCategory, Asks, Refuse, Places, Answers
<1>2. CASE UpdateCategory(c)
  BY <1>2, GotoMoves DEF UpdateCategory, Asks, Refuse, Places, Answers
<1>3. CASE ReloadCategory(c)
  BY <1>3, GotoMoves DEF ReloadCategory, Asks, Refuse, Places, Answers
<1>4. CASE FindCategoryToDelete(c)
  BY <1>4, GotoMoves DEF FindCategoryToDelete, Asks, Refuse, Places, Answers
<1>5. CASE CheckCategoryEmpty(c)
  BY <1>5, GotoMoves DEF CheckCategoryEmpty, Asks, Refuse, Places, Answers
<1>6. CASE DeleteCategory(c)
  BY <1>6, GotoMoves DEF DeleteCategory, Asks, Refuse, Places, Answers
<1>. QED
  BY <1>1, <1>2, <1>3, <1>4, <1>5, <1>6 DEF CategoryStep

LEMMA ProductMoves ==
  ASSUME CatalogueTypeOK, NEW c \in Processes, ProductStep(c)
  PROVE  Moves(c) /\ batch' = batch
<1>1. CASE LoadCategory(c)
  BY <1>1, GotoMoves DEF LoadCategory, Usable, Asks, Refuse, Places, Answers
<1>2. CASE InsertProduct(c)
  BY <1>2, GotoMoves DEF InsertProduct, Asks, Refuse, Places, Answers
<1>3. CASE LockProduct(c)
  BY <1>3, GotoMoves DEF LockProduct, Asks, Refuse, Places, Answers
<1>4. CASE LoadNewCategory(c)
  BY <1>4, GotoMoves DEF LoadNewCategory, Usable, Asks, Refuse, Places, Answers
<1>5. CASE UpdateProduct(c)
  BY <1>5, GotoMoves DEF UpdateProduct, Asks, Refuse, Places, Answers
<1>6. CASE ArchiveProduct(c)
  BY <1>6, GotoMoves DEF ArchiveProduct, Asks, Refuse, Places, Answers
<1>. QED
  BY <1>1, <1>2, <1>3, <1>4, <1>5, <1>6 DEF ProductStep

LEMMA UserMoves ==
  ASSUME CatalogueTypeOK, NEW c \in Processes, CreateUser(c) \/ UpdateProfile(c)
  PROVE  Moves(c) /\ batch' = batch
BY GotoMoves DEF CreateUser, UpdateProfile, Asks, Refuse, Places, Answers

LEMMA SeedMoves ==
  ASSUME CatalogueTypeOK, NEW c \in Processes, SeedStep(c)
  PROVE  /\ Moves(c)
         /\ \A d \in Processes : d # c => batch'[d] = batch[d]
<1>0. batch \in [Processes -> BatchRecord]
  BY DEF CatalogueTypeOK
<1>1. CASE BeginSeed(c)
  BY <1>0, <1>1, GotoMoves DEF BeginSeed, Asks, Refuse, Places, Answers
<1>2. CASE CheckRecord(c)
  BY <1>0, <1>2, StaysMoves DEF CheckRecord, Seeding, Answers
<1>3. CASE InsertRecord(c)
  BY <1>0, <1>3, GotoMoves, StaysMoves
  DEF InsertRecord, Seeding, Refuse, Places, Answers
<1>4. CASE EndBatch(c)
  BY <1>0, <1>4, GotoMoves, StaysMoves
  DEF EndBatch, Asks, Seeding, Places, Answers, Stages
<1>5. CASE EndSeed(c)
  BY <1>0, <1>5, GotoMoves DEF EndSeed, Seeding, Refuse, Places, Answers
<1>. QED
  BY <1>1, <1>2, <1>3, <1>4, <1>5 DEF SeedStep

LEMMA FeedbackMoves ==
  ASSUME CatalogueTypeOK, NEW c \in Processes, ReviewStep(c) \/ SuggestionStep(c)
  PROVE  Moves(c) /\ UNCHANGED others
<1>1. CASE CheckVisible(c) \/ CheckPurchase(c) \/ InsertReview(c)
  BY <1>1, GotoMoves
  DEF CheckVisible, CheckPurchase, InsertReview, Asks, Places, Answers, others
<1>2. CASE UpdateOwnReview(c) \/ ReloadReview(c) \/ DeleteOwnReview(c)
  BY <1>2, GotoMoves
  DEF UpdateOwnReview, ReloadReview, DeleteOwnReview, Asks, Places, Answers,
      others
<1>3. CASE SuggestionStep(c)
  BY <1>3, GotoMoves
  DEF SuggestionStep, CheckDuplicate, InsertSuggestion, LockSuggestion,
      ReviewSuggestion, Asks, Places, Answers, others
<1>. QED
  BY <1>1, <1>2, <1>3 DEF ReviewStep

(* What begins finds who has been answered, what has begun keeps what it   *)
(* found.                                                                  *)
LEMMA StepFrame ==
  ASSUME CatalogueTypeOK, NEW c \in Processes, Step(c)
  PROVE  /\ Moves(c) /\ ask' = ask
         /\ \A d \in Processes : d # c =>
              batch'[d] = batch[d] /\ before'[d] = before[d]
         /\ before'[c] = IF at[c] = "begin" THEN {d \in Processes : Answered(d)}
                         ELSE before[c]
         /\ before' \in [Processes -> SUBSET Processes]
         /\ raced \subseteq raced' /\ raced' \subseteq Processes
<1>1. Moves(c) /\ \A d \in Processes : d # c => batch'[d] = batch[d]
  BY CategoryMoves, ProductMoves, UserMoves, SeedMoves, FeedbackMoves
  DEF Step, CatalogueStep, others
<1>2. before \in [Processes -> SUBSET Processes] /\ raced \subseteq Processes
  BY DEF CatalogueTypeOK
<1>. QED
  BY <1>1, <1>2 DEF Step, Watch

-----------------------------------------------------------------------------
(* What a step of process c does to the categories: they keep their types  *)
(* and keys, what it writes has its name, what it adds an id of its own,   *)
(* and no category of a product goes.                                      *)
CategoriesKept(c) ==
  /\ categories' \subseteq CategoryRow /\ Keyed(categories')
  /\ \A k \in categories' : k \in categories \/ k.by = c
  /\ \A k \in categories' :
       k.id \in IdsOf(categories) \/ \E key \in Slugs : k.id = <<c, key>>
  /\ \A p \in products : p.category \in IdsOf(categories')

LEMMA SameCategories ==
  ASSUME CatalogueTypeOK, NEW c, categories' = categories
  PROVE  CategoriesKept(c)
BY DEF CatalogueTypeOK, CategoriesKept, IdsOf, ProductRow

LEMMA NewCategoryRow ==
  ASSUME CatalogueTypeOK, NEW c \in Processes, NEW key \in Slugs,
         NEW active \in BOOLEAN, ~KeyTaken(categories, key),
         <<c, key>> \notin IdsOf(categories),
         categories' = categories \cup
           {[id |-> <<c, key>>, key |-> key, active |-> active, by |-> c]}
  PROVE  CategoriesKept(c)
<1>. DEFINE row == [id |-> <<c, key>>, key |-> key, active |-> active, by |-> c]
<1>1. row \in CategoryRow
  BY DEF CategoryRow, CategoryIdsKnown
<1>2. row.id = <<c, key>> /\ row.key = key /\ row.by = c
  OBVIOUS
<1>3. categories' = categories \cup {row}
  OBVIOUS
<1>4. /\ categories \subseteq CategoryRow /\ Keyed(categories)
      /\ \A p \in products : p.category \in IdsOf(categories)
  BY DEF CatalogueTypeOK, ProductRow
<1>. HIDE DEF row
<1>5. Keyed(categories')
  <2>1. row.id \notin IdsOf(categories) /\ ~KeyTaken(categories, row.key)
    BY <1>2
  <2>2. Keyed(categories \cup {row})
    BY <1>4, <2>1, KeyedAdd
  <2>. QED
    BY <1>3, <2>2
<1>6. \A k \in categories : k.id \in IdsOf(categories) /\ k.id \in IdsOf(categories')
  BY <1>3 DEF IdsOf
<1>7. \A p \in products : p.category \in IdsOf(categories')
  BY <1>3, <1>4 DEF IdsOf
<1>. QED
  BY <1>1, <1>2, <1>3, <1>4, <1>5, <1>6, <1>7 DEF CategoriesKept

LEMMA PatchedCategoryRow ==
  ASSUME NEW k \in CategoryRow, NEW r \in CategoryPatch, NEW c \in Processes
  PROVE  /\ PatchedCategory(k, r, c) \in CategoryRow
         /\ PatchedCategory(k, r, c).id = k.id
         /\ PatchedCategory(k, r, c).key = Given(r.key, k.key)
         /\ PatchedCategory(k, r, c).by = c
<1>1. /\ Given(r.key, k.key) \in Slugs /\ Given(r.active, k.active) \in BOOLEAN
      /\ k.id \in CategoryIdsKnown
  BY DEF CategoryRow, CategoryPatch, Given
<1>. QED
  BY <1>1 DEF PatchedCategory, CategoryRow

LEMMA UpdateCategoryKeeps ==
  ASSUME CatalogueTypeOK, ask \in Casts, NEW c \in Processes, UpdateCategory(c)
  PROVE  /\ CategoriesKept(c)
         /\ \A k \in categories' : k \in categories \/ k.id = ask[c].id
<1>. DEFINE r == ask[c]
            new == [k \in categories |->
                      IF k.id = r.id THEN PatchedCategory(k, r, c) ELSE k]
<1>1. categories' = categories \/ categories' = {new[k] : k \in categories}
  <2>1. \A k \in categories :
          new[k] = IF k.id = r.id THEN PatchedCategory(k, r, c) ELSE k
    OBVIOUS
  <2>2. \/ categories' = categories
        \/ categories' =
             {IF k.id = r.id THEN PatchedCategory(k, r, c) ELSE k :
              k \in categories}
    BY DEF UpdateCategory, Refuse, tables
  <2>. HIDE DEF new
  <2>. QED
    BY <2>1, <2>2
<1>2. r \in CategoryPatch
  BY CatalogueRequests DEF UpdateCategory, Asks
<1>3. categories \subseteq CategoryRow /\ Keyed(categories)
  BY DEF CatalogueTypeOK
<1>4. CASE categories' = categories
  BY <1>4, SameCategories
<1>5. CASE categories' # categories
  <2>1. \A k \in categories : k.id = r.id =>
          ~KeyTakenByOther(categories, r.key, r.id)
    BY <1>5 DEF UpdateCategory, Refuse, tables, IdsOf
  <2>3. ASSUME NEW k \in categories
        PROVE  /\ PatchedCategory(k, r, c) \in CategoryRow
               /\ PatchedCategory(k, r, c).by = c
               /\ PatchedCategory(k, r, c).id = k.id
               /\ PatchedCategory(k, r, c).key = Given(r.key, k.key)
    BY <1>2, <1>3, PatchedCategoryRow
  <2>4. ASSUME NEW k \in categories
        PROVE  /\ new[k].id = k.id /\ new[k] \in CategoryRow
               /\ new[k] = k \/ (new[k].by = c /\ k.id = r.id)
    BY <2>3, <1>3
  <2>5. ASSUME NEW k \in categories, NEW q \in categories, k # q
        PROVE  new[k].key # new[q].key
    <3>1. k.id # q.id /\ k.key # q.key
      BY <1>3, <2>5 DEF Keyed
    <3>2. CASE k.id = r.id
      BY <2>1, <2>3, <3>1, <3>2 DEF Given, KeyTakenByOther
    <3>3. CASE q.id = r.id
      BY <2>1, <2>3, <3>1, <3>3 DEF Given, KeyTakenByOther
    <3>. QED
      BY <3>1, <3>2, <3>3
  <2>6. categories' = {new[k] : k \in categories}
    BY <1>1, <1>5
  <2>. HIDE DEF new
  <2>7. Keyed(categories') /\ IdsOf(categories') = IdsOf(categories)
    BY <1>3, <2>4, <2>5, <2>6, KeyedPatch
  <2>8. \A k \in categories' : k.id \in IdsOf(categories)
    BY <2>7 DEF IdsOf
  <2>9. \A p \in products : p.category \in IdsOf(categories')
    BY <2>7 DEF CatalogueTypeOK, ProductRow
  <2>. QED
    BY <2>4, <2>6, <2>7, <2>8, <2>9 DEF CategoriesKept
<1>. QED
  BY <1>4, <1>5

LEMMA CategoryStepKeeps ==
  ASSUME CatalogueTypeOK, ask \in Casts, IdsFree, NEW c \in Processes,
         CategoryStep(c)
  PROVE  CategoriesKept(c) /\ UNCHANGED <<products, users>>
<1>1. CASE CreateCategory(c)
  <2>1. ask[c] \in NewCategory
    BY <1>1, CatalogueRequests DEF CreateCategory, Asks
  <2>2. ask[c].key \in Slugs /\ ask[c].active \in BOOLEAN
    BY <2>1 DEF NewCategory
  <2>3. <<c, ask[c].key>> \notin IdsOf(categories)
    BY <1>1, <2>2 DEF CreateCategory, IdsFree, CategoriesToCome
  <2>. QED
    BY <1>1, <2>2, <2>3, NewCategoryRow, SameCategories
    DEF CreateCategory, Refuse, tables
<1>2. CASE UpdateCategory(c)
  BY <1>2, UpdateCategoryKeeps DEF UpdateCategory, Refuse, tables
<1>3. CASE ReloadCategory(c) \/ FindCategoryToDelete(c) \/ CheckCategoryEmpty(c)
  BY <1>3, SameCategories
  DEF ReloadCategory, FindCategoryToDelete, CheckCategoryEmpty, Refuse, tables
<1>4. CASE DeleteCategory(c)
  <2>1. CASE categories' = categories
    BY <1>4, <2>1, SameCategories DEF DeleteCategory, Refuse, tables
  <2>2. CASE categories' # categories
    <3>1. /\ InCategory(ask[c].id) = {}
          /\ categories' = {k \in categories : k.id # ask[c].id}
      BY <1>4, <2>2 DEF DeleteCategory, Refuse, tables
    <3>2. Keyed(categories') /\ categories' \subseteq CategoryRow
      BY <3>1, KeyedPart DEF CatalogueTypeOK
    <3>3. \A p \in products :
            p.category # ask[c].id /\ p.category \in IdsOf(categories)
      BY <3>1 DEF InCategory, CatalogueTypeOK, ProductRow
    <3>4. \A p \in products : p.category \in IdsOf(categories')
      BY <3>1, <3>3 DEF IdsOf
    <3>5. \A k \in categories' : k \in categories /\ k.id \in IdsOf(categories)
      BY <3>1 DEF IdsOf
    <3>. QED
      BY <1>4, <2>2, <3>2, <3>4, <3>5
      DEF CategoriesKept, DeleteCategory, Refuse, tables
  <2>. QED
    BY <2>1, <2>2
<1>. QED
  BY <1>1, <1>2, <1>3, <1>4 DEF CategoryStep

-----------------------------------------------------------------------------
(* What it does to the products: the like, and none goes.                  *)
ProductsKept(c) ==
  /\ products' \subseteq ProductRow(IdsOf(categories)) /\ Keyed(products')
  /\ IdsOf(products) \subseteq IdsOf(products')
  /\ \A p \in products' : p \in products \/ p.by = c
  /\ \A p \in products' :
       p.id \in IdsOf(products) \/ \E key \in Skus : p.id = <<c, key>>

LEMMA SameProducts ==
  ASSUME CatalogueTypeOK, NEW c, products' = products
  PROVE  ProductsKept(c)
BY DEF CatalogueTypeOK, ProductsKept, IdsOf

LEMMA NewProductRow ==
  ASSUME CatalogueTypeOK, NEW c \in Processes, NEW key \in Skus,
         NEW category \in IdsOf(categories), NEW active \in BOOLEAN,
         ~KeyTaken(products, key), <<c, key>> \notin IdsOf(products),
         products' = products \cup
           {[id |-> <<c, key>>, key |-> key, category |-> category,
             active |-> active, by |-> c]}
  PROVE  ProductsKept(c)
<1>. DEFINE row == [id |-> <<c, key>>, key |-> key, category |-> category,
                    active |-> active, by |-> c]
<1>1. row \in ProductRow(IdsOf(categories))
  BY DEF ProductRow, ProductIdsKnown
<1>2. row.id = <<c, key>> /\ row.key = key /\ row.by = c
  OBVIOUS
<1>3. products' = products \cup {row}
  OBVIOUS
<1>4. products \subseteq ProductRow(IdsOf(categories)) /\ Keyed(products)
  BY DEF CatalogueTypeOK
<1>. HIDE DEF row
<1>5. Keyed(products')
  <2>1. row.id \notin IdsOf(products) /\ ~KeyTaken(products, row.key)
    BY <1>2
  <2>2. Keyed(products \cup {row})
    BY <1>4, <2>1, KeyedAdd
  <2>. QED
    BY <1>3, <2>2
<1>6. \A p \in products : p.id \in IdsOf(products) /\ p.id \in IdsOf(products')
  BY <1>3 DEF IdsOf
<1>7. IdsOf(products) \subseteq IdsOf(products')
  BY <1>3 DEF IdsOf
<1>. QED
  BY <1>1, <1>2, <1>3, <1>4, <1>5, <1>6, <1>7 DEF ProductsKept

(* A patch of the row with one id, by a function that keeps the types.     *)
LEMMA ProductsPatch ==
  ASSUME CatalogueTypeOK, NEW c, NEW new,
         \A p \in products :
           /\ new[p] \in ProductRow(IdsOf(categories)) /\ new[p].id = p.id
           /\ new[p] = p \/ new[p].by = c,
         \A p, q \in products : p # q => new[p].key # new[q].key,
         products' = {new[p] : p \in products}
  PROVE  ProductsKept(c)
<1>1. Keyed(products)
  BY DEF CatalogueTypeOK
<1>2. /\ Keyed({new[p] : p \in products})
      /\ IdsOf({new[p] : p \in products}) = IdsOf(products)
  <2>1. \A p \in products : new[p].id = p.id
    OBVIOUS
  <2>. QED
    BY ONLY <1>1, <2>1, KeyedPatch,
       \A p, q \in products : p # q => new[p].key # new[q].key
<1>3. Keyed(products') /\ IdsOf(products') = IdsOf(products)
  BY <1>2
<1>4. \A p \in products' : p.id \in IdsOf(products)
  BY <1>3 DEF IdsOf
<1>5. \A p \in products' : /\ p \in ProductRow(IdsOf(categories))
                           /\ p \in products \/ p.by = c
  OBVIOUS
<1>. QED
  BY <1>3, <1>4, <1>5 DEF ProductsKept

LEMMA PatchedProductRow ==
  ASSUME NEW ids, NEW p \in ProductRow(ids), NEW r \in ProductPatch,
         NEW c \in Processes, Given(r.category, p.category) \in ids
  PROVE  /\ PatchedProduct(p, r, c) \in ProductRow(ids)
         /\ PatchedProduct(p, r, c).id = p.id
         /\ PatchedProduct(p, r, c).key = Given(r.key, p.key)
         /\ PatchedProduct(p, r, c).by = c
         /\ PatchedProduct(p, r, c).category = Given(r.category, p.category)
<1>1. /\ Given(r.key, p.key) \in Skus /\ Given(r.active, p.active) \in BOOLEAN
      /\ p.id \in ProductIdsKnown
  BY DEF ProductRow, ProductPatch, Given
<1>. QED
  BY <1>1 DEF PatchedProduct, ProductRow

LEMMA UpdateProductKeeps ==
  ASSUME CatalogueTypeOK, ask \in Casts, NEW c \in Processes, UpdateProduct(c)
  PROVE  /\ ProductsKept(c)
         /\ \A p \in products' : p \in products \/ p.id = ask[c].id
<1>. DEFINE r == ask[c]
            new == [p \in products |->
                      IF p.id = r.id THEN PatchedProduct(p, r, c) ELSE p]
<1>1. products' = products \/ products' = {new[p] : p \in products}
  <2>1. \A p \in products :
          new[p] = IF p.id = r.id THEN PatchedProduct(p, r, c) ELSE p
    OBVIOUS
  <2>2. \/ products' = products
        \/ products' =
             {IF p.id = r.id THEN PatchedProduct(p, r, c) ELSE p :
              p \in products}
    BY DEF UpdateProduct, Refuse, tables
  <2>. HIDE DEF new
  <2>. QED
    BY <2>1, <2>2
<1>2. r \in ProductPatch
  BY CatalogueRequests DEF UpdateProduct, Asks
<1>3. products \subseteq ProductRow(IdsOf(categories)) /\ Keyed(products)
  BY DEF CatalogueTypeOK
<1>4. CASE products' = products
  BY <1>4, SameProducts
<1>5. CASE products' # products
  <2>1. ~KeyTakenByOther(products, r.key, r.id)
    BY <1>5 DEF UpdateProduct, Refuse, tables
  <2>2. ASSUME NEW p \in products, p.id = r.id
        PROVE  Given(r.category, p.category) \in IdsOf(categories)
    <3>1. \/ CategoryThere(r.category)
          \/ \E q \in products :
               q.id = r.id /\ Given(r.category, q.category) = q.category
      BY <1>5 DEF UpdateProduct, Refuse, tables
    <3>2. p.category \in IdsOf(categories)
      BY <1>3 DEF ProductRow
    <3>3. \A q \in products : q.id = r.id => q = p
      BY <1>3, <2>2, OneRow
    <3>. QED
      BY <3>1, <3>2, <3>3 DEF CategoryThere, Given
  <2>3. ASSUME NEW p \in products, p.id = r.id
        PROVE  /\ PatchedProduct(p, r, c) \in ProductRow(IdsOf(categories))
               /\ PatchedProduct(p, r, c).by = c
               /\ PatchedProduct(p, r, c).id = p.id
               /\ PatchedProduct(p, r, c).key = Given(r.key, p.key)
    BY <1>2, <1>3, <2>2, <2>3, PatchedProductRow
  <2>4. ASSUME NEW p \in products
        PROVE  /\ new[p].id = p.id /\ new[p] \in ProductRow(IdsOf(categories))
               /\ new[p] = p \/ (new[p].by = c /\ p.id = r.id)
    BY <2>3, <1>3
  <2>5. ASSUME NEW p \in products, NEW q \in products, p # q
        PROVE  new[p].key # new[q].key
    <3>1. p.id # q.id /\ p.key # q.key
      BY <1>3, <2>5 DEF Keyed
    <3>2. CASE p.id = r.id
      BY <2>1, <2>3, <3>1, <3>2 DEF Given, KeyTakenByOther
    <3>3. CASE q.id = r.id
      BY <2>1, <2>3, <3>1, <3>3 DEF Given, KeyTakenByOther
    <3>. QED
      BY <3>1, <3>2, <3>3
  <2>6. products' = {new[p] : p \in products}
    BY <1>1, <1>5
  <2>. HIDE DEF new
  <2>7. ProductsKept(c)
    BY <2>4, <2>5, <2>6, ProductsPatch
  <2>. QED
    BY <2>4, <2>6, <2>7
<1>. QED
  BY <1>4, <1>5

LEMMA ArchiveProductKeeps ==
  ASSUME CatalogueTypeOK, NEW c \in Processes, ArchiveProduct(c)
  PROVE  ProductsKept(c)
<1>. DEFINE id == ask[c].id
            Archived(p) == [p EXCEPT !.active = FALSE, !.by = c]
            new == [p \in products |-> IF p.id = id THEN Archived(p) ELSE p]
<1>1. products' = products \/ products' = {new[p] : p \in products}
  <2>1. \A p \in products : new[p] = IF p.id = id THEN Archived(p) ELSE p
    OBVIOUS
  <2>2. \/ products' = products
        \/ products' =
             {IF p.id = id THEN Archived(p) ELSE p : p \in products}
    BY DEF ArchiveProduct, Refuse, tables
  <2>. HIDE DEF new, Archived
  <2>. QED
    BY <2>1, <2>2
<1>2. products \subseteq ProductRow(IdsOf(categories)) /\ Keyed(products)
  BY DEF CatalogueTypeOK
<1>3. ASSUME NEW p \in ProductRow(IdsOf(categories))
      PROVE  /\ Archived(p) \in ProductRow(IdsOf(categories))
             /\ Archived(p).id = p.id /\ Archived(p).key = p.key
             /\ Archived(p).by = c
  BY DEF ProductRow
<1>. HIDE DEF Archived
<1>4. ASSUME NEW p \in products
      PROVE  /\ new[p].id = p.id /\ new[p].key = p.key
             /\ new[p] \in ProductRow(IdsOf(categories))
             /\ new[p] = p \/ new[p].by = c
  BY <1>2, <1>3
<1>. HIDE DEF new
<1>5. \A p, q \in products : p # q => new[p].key # new[q].key
  BY <1>2, <1>4 DEF Keyed
<1>. QED
  BY <1>1, <1>4, <1>5, ProductsPatch, SameProducts

LEMMA ProductStepKeeps ==
  ASSUME CatalogueTypeOK, ask \in Casts, IdsFree, NEW c \in Processes,
         ProductStep(c)
  PROVE  ProductsKept(c) /\ UNCHANGED <<categories, users>>
<1>1. CASE LoadCategory(c) \/ LockProduct(c) \/ LoadNewCategory(c)
  BY <1>1, SameProducts
  DEF LoadCategory, LockProduct, LoadNewCategory, Refuse, tables
<1>2. CASE InsertProduct(c)
  <2>1. ask[c] \in NewProduct
    BY <1>2, CatalogueRequests DEF InsertProduct, Asks
  <2>2. ask[c].key \in Skus /\ ask[c].active \in BOOLEAN
    BY <2>1 DEF NewProduct
  <2>3. <<c, ask[c].key>> \notin IdsOf(products)
    BY <1>2, <2>2 DEF InsertProduct, Asks, IdsFree, ProductsToCome
  <2>. QED
    BY <1>2, <2>2, <2>3, NewProductRow, SameProducts
    DEF InsertProduct, CategoryThere, Refuse, tables
<1>3. CASE UpdateProduct(c)
  BY <1>3, UpdateProductKeeps DEF UpdateProduct, Refuse, tables
<1>4. CASE ArchiveProduct(c)
  BY <1>4, ArchiveProductKeeps DEF ArchiveProduct, Refuse, tables
<1>. QED
  BY <1>1, <1>2, <1>3, <1>4 DEF ProductStep

-----------------------------------------------------------------------------
(* Users, and the seed.                                                    *)
LEMMA UserStepKeeps ==
  ASSUME CatalogueTypeOK, ask \in Casts, NEW c \in Processes,
         CreateUser(c) \/ UpdateProfile(c)
  PROVE  /\ users' \subseteq UserRow /\ Keyed(users')
         /\ UNCHANGED <<categories, products>>
<1>0. users \subseteq UserRow /\ Keyed(users)
  BY DEF CatalogueTypeOK
<1>1. CASE CreateUser(c)
  <2>1. ask[c].id \in Emails /\ ask[c].key \in Names
    BY <1>1, CatalogueRequests DEF CreateUser, Asks, Registration
  <2>. DEFINE row == [id |-> ask[c].id, key |-> ask[c].key]
  <2>2. row \in UserRow /\ row.id = ask[c].id /\ row.key = ask[c].key
    BY <2>1 DEF UserRow
  <2>3. \/ users' = users
        \/ /\ users' = users \cup {row}
           /\ row.id \notin IdsOf(users) /\ ~KeyTaken(users, row.key)
    BY <1>1, <2>2 DEF CreateUser, Refuse, tables
  <2>. HIDE DEF row
  <2>4. row.id \notin IdsOf(users) /\ ~KeyTaken(users, row.key)
          => Keyed(users \cup {row})
    BY <1>0, KeyedAdd
  <2>. QED
    BY <1>0, <1>1, <2>2, <2>3, <2>4 DEF CreateUser, Refuse, tables
<1>2. CASE UpdateProfile(c)
  <2>. DEFINE r == ask[c]
              Renamed(u) == [u EXCEPT !.key = r.key]
              new == [u \in users |-> IF u.id = r.id THEN Renamed(u) ELSE u]
  <2>1. r.key \in Names
    BY <1>2, CatalogueRequests DEF UpdateProfile, Asks, ProfileUpdate
  <2>2. ASSUME NEW u \in users
        PROVE  /\ new[u] \in UserRow /\ new[u].id = u.id
               /\ new[u].key = IF u.id = r.id THEN r.key ELSE u.key
    <3>1. /\ Renamed(u) \in UserRow /\ Renamed(u).id = u.id
          /\ Renamed(u).key = r.key
      BY <1>0, <2>1 DEF UserRow
    <3>. HIDE DEF Renamed
    <3>. QED
      BY <1>0, <3>1
  <2>3. \/ users' = users
        \/ users' = {new[u] : u \in users} /\ ~KeyTakenByOther(users, r.key, r.id)
    <3>1. \A u \in users :
            new[u] = IF u.id = r.id THEN Renamed(u) ELSE u
      OBVIOUS
    <3>2. \/ users' = users
          \/ /\ users' = {IF u.id = r.id THEN Renamed(u) ELSE u :
                          u \in users}
             /\ ~KeyTakenByOther(users, r.key, r.id)
      BY <1>2 DEF UpdateProfile, Refuse, tables
    <3>. HIDE DEF new, Renamed
    <3>. QED
      BY <3>1, <3>2
  <2>. HIDE DEF new
  <2>4. ASSUME ~KeyTakenByOther(users, r.key, r.id), NEW u \in users,
               NEW w \in users, u # w
        PROVE  new[u].key # new[w].key
    BY <1>0, <2>2, <2>4 DEF Keyed, KeyTakenByOther
  <2>5. ~KeyTakenByOther(users, r.key, r.id) => Keyed({new[u] : u \in users})
    BY ONLY <1>0, <2>2, <2>4, KeyedPatch
  <2>. QED
    BY <1>0, <1>2, <2>2, <2>3, <2>5 DEF UpdateProfile, Refuse, tables
<1>. QED
  BY <1>1, <1>2

LEMMA Batches ==
  /\ Batch("categories") = {[key |-> slug] : slug \in DemoCategories}
  /\ Batch("users") = DemoUsers /\ Batch("products") = DemoProducts
BY DEF Batch

(* A record of a batch of categories or products is known by its key.      *)
LEMMA RecordKeys ==
  /\ \A r \in Batch("categories") : r.key \in Slugs /\ r = [key |-> r.key]
  /\ \A r \in Batch("categories") : r.key \in DemoCategories
  /\ \A r, q \in Batch("categories") : r.key = q.key => r = q
  /\ \A r \in Batch("products") :
       r.key \in Skus /\ r.active \in BOOLEAN /\ r.slug \in DemoCategories
  /\ \A r, q \in Batch("products") : r.key = q.key => r = q
BY Batches, CatalogueAssumption

LEMMA SeedBatch ==
  ASSUME CatalogueTypeOK, BatchesTrue, NEW c \in Processes, Seeding(c)
  PROVE  /\ batch[c].stage \in Stages
         /\ batch[c].todo \subseteq Batch(batch[c].stage)
         /\ batch[c].absent \subseteq Batch(batch[c].stage)
         /\ batch[c].ids \subseteq CategoryRow /\ Keyed(batch[c].ids)
         /\ batch[c].todo \cap batch[c].absent = {}
BY DEF CatalogueTypeOK, BatchesTrue, BatchRecord

LEMMA InsertRecordKeeps ==
  ASSUME CatalogueTypeOK, BatchesTrue, IdsFree, NEW c \in Processes,
         InsertRecord(c)
  PROVE  \/ CategoriesKept(c) /\ UNCHANGED <<products, users>>
         \/ ProductsKept(c) /\ UNCHANGED <<categories, users>>
         \/ /\ users' \subseteq UserRow /\ Keyed(users')
            /\ UNCHANGED <<categories, products>>
<1>1. PICK r \in batch[c].absent : InsertRecord(c)!(r)
  BY DEF InsertRecord
<1>2. Seeding(c)
  BY <1>1
<1>3. r \in Batch(batch[c].stage)
  BY <1>2, SeedBatch
<1>4. CASE ~Insertable(c, r)
  BY <1>1, <1>4, SameCategories DEF Refuse, tables
<1>5. CASE Insertable(c, r) /\ batch[c].stage = "categories"
  <2>1. r.key \in Slugs
    BY <1>3, <1>5, RecordKeys
  <2>2. <<c, r.key>> \notin IdsOf(categories)
    BY <1>2, <1>5, <2>1 DEF IdsFree, CategoriesToCome
  <2>. QED
    BY <1>1, <1>5, <2>1, <2>2, NewCategoryRow DEF Insertable
<1>6. CASE Insertable(c, r) /\ batch[c].stage = "users"
  <2>1. users \subseteq UserRow /\ Keyed(users)
    BY DEF CatalogueTypeOK
  <2>2. r \in UserRow
    BY <1>3, <1>6, Batches, CatalogueAssumption
  <2>3. Keyed(users \cup {r})
    BY <1>6, <2>1, KeyedAdd DEF Insertable
  <2>. QED
    BY <1>1, <1>6, <2>1, <2>2, <2>3
<1>7. CASE Insertable(c, r) /\ batch[c].stage = "products"
  <2>1. r.key \in Skus /\ r.active \in BOOLEAN
    BY <1>3, <1>7, RecordKeys
  <2>2. <<c, r.key>> \notin IdsOf(products)
    BY <1>2, <1>7, <2>1 DEF IdsFree, ProductsToCome
  <2>3. PICK id \in CategoryIds(c, r) : CategoryThere(id)
    BY <1>7 DEF Insertable
  <2>4. \A other \in CategoryIds(c, r) : other = id
    BY <1>2, SeedBatch DEF CategoryIds, Keyed
  <2>5. products' = products \cup
          {[id |-> <<c, r.key>>, key |-> r.key, active |-> r.active,
            category |-> k, by |-> c] : k \in CategoryIds(c, r)}
    BY <1>1, <1>7
  <2>6. products' = products \cup
          {[id |-> <<c, r.key>>, key |-> r.key, category |-> id,
            active |-> r.active, by |-> c]}
    BY <2>3, <2>4, <2>5
  <2>7. ~KeyTaken(products, r.key) /\ id \in IdsOf(categories)
    BY <1>7, <2>3 DEF Insertable, CategoryThere
  <2>8. ProductsKept(c)
    BY <2>1, <2>2, <2>6, <2>7, NewProductRow
  <2>. QED
    BY <1>1, <1>7, <2>8
<1>. QED
  BY <1>1, <1>4, <1>5, <1>6, <1>7

-----------------------------------------------------------------------------
(* What any step of process c does to the tables of Catalogue.             *)
TablesKept(c) ==
  /\ categories' \subseteq CategoryRow
  /\ products' \subseteq ProductRow(IdsOf(categories'))
  /\ users' \subseteq UserRow
  /\ Keyed(categories') /\ Keyed(products') /\ Keyed(users')
  /\ IdsOf(products) \subseteq IdsOf(products')
  /\ \A k \in categories' : k \in categories \/ k.by = c
  /\ \A p \in products' : p \in products \/ p.by = c
  /\ \A k \in categories' :
       k.id \in IdsOf(categories) \/ \E key \in Slugs : k.id = <<c, key>>
  /\ \A p \in products' :
       p.id \in IdsOf(products) \/ \E key \in Skus : p.id = <<c, key>>

LEMMA KeptByCategories ==
  ASSUME CatalogueTypeOK, NEW c, CategoriesKept(c), UNCHANGED <<products, users>>
  PROVE  TablesKept(c)
<1>1. products' \subseteq ProductRow(IdsOf(categories'))
  BY DEF CatalogueTypeOK, CategoriesKept, ProductRow
<1>2. \A p \in products : p.id \in IdsOf(products)
  BY DEF IdsOf
<1>3. users \subseteq UserRow /\ Keyed(users) /\ Keyed(products)
  BY DEF CatalogueTypeOK
<1>. QED
  BY <1>1, <1>2, <1>3 DEF CategoriesKept, TablesKept

LEMMA KeptByProducts ==
  ASSUME CatalogueTypeOK, NEW c, ProductsKept(c), UNCHANGED <<categories, users>>
  PROVE  TablesKept(c)
<1>1. \A k \in categories : k.id \in IdsOf(categories)
  BY DEF IdsOf
<1>2. /\ users \subseteq UserRow /\ categories \subseteq CategoryRow
      /\ Keyed(users) /\ Keyed(categories)
  BY DEF CatalogueTypeOK
<1>. QED
  BY <1>1, <1>2 DEF ProductsKept, TablesKept

LEMMA KeptByUsers ==
  ASSUME CatalogueTypeOK, NEW c, users' \subseteq UserRow, Keyed(users'),
         UNCHANGED <<categories, products>>
  PROVE  TablesKept(c)
<1>1. \A k \in categories : k.id \in IdsOf(categories)
  BY DEF IdsOf
<1>2. \A p \in products : p.id \in IdsOf(products)
  BY DEF IdsOf
<1>. QED
  BY <1>1, <1>2 DEF CatalogueTypeOK, TablesKept

LEMMA TablesStep ==
  ASSUME CatalogueTypeOK, BatchesTrue, IdsFree, ask \in Casts,
         NEW c \in Processes, Step(c)
  PROVE  TablesKept(c)
<1>0. UNCHANGED tables => TablesKept(c)
  BY KeptByUsers DEF CatalogueTypeOK, tables
<1>1. CASE CategoryStep(c)
  BY <1>1, CategoryStepKeeps, KeptByCategories
<1>2. CASE ProductStep(c)
  BY <1>2, ProductStepKeeps, KeptByProducts
<1>3. CASE CreateUser(c) \/ UpdateProfile(c)
  BY <1>3, UserStepKeeps, KeptByUsers
<1>4. CASE InsertRecord(c)
  BY <1>4, InsertRecordKeeps, KeptByCategories, KeptByProducts, KeptByUsers
<1>5. CASE BeginSeed(c) \/ CheckRecord(c) \/ EndBatch(c) \/ EndSeed(c)
  BY <1>0, <1>5 DEF BeginSeed, CheckRecord, EndBatch, EndSeed, Refuse
<1>6. CASE ReviewStep(c) \/ SuggestionStep(c)
  BY <1>0, <1>6, FeedbackMoves DEF others
<1>. QED
  BY <1>1, <1>2, <1>3, <1>4, <1>5, <1>6
  DEF Step, CatalogueStep, SeedStep

-----------------------------------------------------------------------------
(* Batches.                                                                *)
BatchOK(b) ==
  /\ b \in BatchRecord
  /\ b.stage = "none" \/ b.todo \cup b.absent \subseteq Batch(b.stage)
  /\ b.todo \cap b.absent = {} /\ Keyed(b.ids)

LEMMA EmptyBatch == BatchOK(NoBatch) /\ NoBatch.stage = "none"
BY DEF BatchOK, NoBatch, BatchRecord, Keyed

LEMMA BatchIsRecords ==
  ASSUME NEW stage \in Stages
  PROVE  Batch(stage) \subseteq AnyRecord
BY DEF AnyRecord

LEMMA FullBatch ==
  ASSUME NEW stage \in Stages, NEW ids \in SUBSET CategoryRow, Keyed(ids)
  PROVE  /\ BatchOK([NewBatch(stage) EXCEPT !.ids = ids])
         /\ BatchOK(NewBatch(stage))
         /\ NewBatch(stage).stage = stage
         /\ [NewBatch(stage) EXCEPT !.ids = ids].stage = stage
         /\ NewBatch(stage).todo = Batch(stage)
         /\ NewBatch(stage).absent = {}
<1>1. Keyed({})
  BY DEF Keyed
<1>2. [NewBatch(stage) EXCEPT !.ids = ids] =
        [stage |-> stage, todo |-> Batch(stage), absent |-> {}, ids |-> ids]
  BY DEF NewBatch
<1>. QED
  BY <1>1, <1>2, BatchIsRecords DEF BatchOK, NewBatch, BatchRecord

LEMMA CheckedRecord ==
  ASSUME NEW b, BatchOK(b), NEW r \in b.todo
  PROVE  /\ BatchOK(LookedUp(b, r))
         /\ LookedUp(b, r).stage = b.stage /\ LookedUp(b, r).ids = b.ids
         /\ LookedUp(b, r).todo = b.todo \ {r}
         /\ LookedUp(b, r).absent = IF Exists(b.stage, r) THEN b.absent
                                    ELSE b.absent \cup {r}
         /\ LookedUp(b, r).absent \in {b.absent, b.absent \cup {r}}
<1>1. /\ LookedUp(b, r).stage = b.stage /\ LookedUp(b, r).ids = b.ids
      /\ LookedUp(b, r).todo = b.todo \ {r}
      /\ LookedUp(b, r).absent = IF Exists(b.stage, r) THEN b.absent
                                 ELSE b.absent \cup {r}
  BY DEF LookedUp
<1>2. LookedUp(b, r).absent \in {b.absent, b.absent \cup {r}}
  BY <1>1
<1>3. /\ b.stage \in Stages \cup {"none"} /\ b.ids \in SUBSET CategoryRow
      /\ b.todo \in SUBSET AnyRecord /\ b.absent \in SUBSET AnyRecord
  BY DEF BatchOK, BatchRecord
<1>4. LookedUp(b, r) \in BatchRecord
  BY <1>3 DEF LookedUp, BatchRecord
<1>5. LookedUp(b, r).todo \cap LookedUp(b, r).absent = {}
  BY <1>1, <1>2 DEF BatchOK
<1>6. b.stage = "none" \/
        LookedUp(b, r).todo \cup LookedUp(b, r).absent \subseteq Batch(b.stage)
  BY <1>1, <1>2 DEF BatchOK
<1>. QED
  BY <1>1, <1>2, <1>4, <1>5, <1>6 DEF BatchOK

LEMMA InsertedRecord ==
  ASSUME NEW b, BatchOK(b), NEW r \in b.absent
  PROVE  LET new == [b EXCEPT !.absent = b.absent \ {r}]
         IN  /\ BatchOK(new)
             /\ new.stage = b.stage /\ new.ids = b.ids /\ new.todo = b.todo
             /\ new.absent = b.absent \ {r}
BY DEF BatchOK, BatchRecord

LEMMA BatchesOK ==
  ASSUME CatalogueTypeOK, BatchesTrue, NEW c \in Processes
  PROVE  BatchOK(batch[c])
BY DEF CatalogueTypeOK, BatchesTrue, BatchOK

(* A seed stays in a stage as long as it runs.                             *)
LEMMA SeedStepBatch ==
  ASSUME CatalogueTypeOK, BatchesTrue, NEW c \in Processes, SeedStep(c)
  PROVE  /\ batch' \in [Processes -> BatchRecord] /\ BatchOK(batch'[c])
         /\ at'[c] \in {"batch", "failing"} => batch'[c].stage # "none"
<1>0. batch \in [Processes -> BatchRecord] /\ at \in [Processes -> Places]
  BY DEF CatalogueTypeOK
<1>1. CASE BeginSeed(c)
  <2>1. batch' = [batch EXCEPT ![c] = NewBatch("categories")]
    BY <1>1 DEF BeginSeed
  <2>2. BatchOK(NewBatch("categories")) /\ NewBatch("categories").stage = "categories"
    BY FullBatch, "categories" \in Stages, {} \in SUBSET CategoryRow
    DEF Stages, Keyed
  <2>. QED
    BY <1>0, <2>1, <2>2 DEF BatchOK
<1>2. CASE CheckRecord(c)
  <2>1. PICK r \in batch[c].todo :
          /\ Seeding(c) /\ at' = at
          /\ batch' = [batch EXCEPT ![c] = LookedUp(batch[c], r)]
    BY <1>2 DEF CheckRecord
  <2>2. BatchOK(LookedUp(batch[c], r)) /\ LookedUp(batch[c], r).stage = batch[c].stage
    BY BatchesOK, CheckedRecord
  <2>. QED
    BY <1>0, <2>1, <2>2 DEF BatchOK, BatchesTrue
<1>3. CASE InsertRecord(c)
  <2>1. PICK r \in batch[c].absent :
          /\ Seeding(c)
          /\ batch' = [batch EXCEPT ![c].absent = @ \ {r}]
    BY <1>3 DEF InsertRecord
  <2>. DEFINE new == [batch[c] EXCEPT !.absent = batch[c].absent \ {r}]
  <2>2. batch' = [batch EXCEPT ![c] = new]
    BY <1>0, <2>1
  <2>3. BatchOK(new) /\ new.stage = batch[c].stage
    BY BatchesOK, InsertedRecord
  <2>. HIDE DEF new
  <2>. QED
    BY <1>0, <2>1, <2>2, <2>3 DEF BatchOK, BatchesTrue
<1>4. CASE EndBatch(c)
  <2>1. categories \in SUBSET CategoryRow /\ Keyed(categories)
    BY DEF CatalogueTypeOK
  <2>. DEFINE last == [NewBatch("products") EXCEPT !.ids = categories]
  <2>2. /\ BatchOK(NewBatch("users")) /\ BatchOK(last) /\ BatchOK(NoBatch)
        /\ NewBatch("users").stage = "users" /\ last.stage = "products"
    BY <2>1, FullBatch, EmptyBatch DEF Stages
  <2>3. \/ batch' = [batch EXCEPT ![c] = NewBatch("users")]
        \/ batch' = [batch EXCEPT ![c] = last]
        \/ batch' = [batch EXCEPT ![c] = NoBatch] /\ at' = [at EXCEPT ![c] = "ok"]
    BY <1>4 DEF EndBatch, Goto
  <2>. HIDE DEF last
  <2>. QED
    BY <1>0, <2>2, <2>3 DEF BatchOK
<1>5. CASE EndSeed(c)
  <2>1. /\ batch' = [batch EXCEPT ![c] = NoBatch]
        /\ \E step \in {"error", "crashed"} : at' = [at EXCEPT ![c] = step]
    BY <1>5 DEF EndSeed, Refuse, Goto
  <2>. QED
    BY <1>0, <2>1, EmptyBatch DEF BatchOK
<1>. QED
  BY <1>1, <1>2, <1>3, <1>4, <1>5 DEF SeedStep

LEMMA OnlySeeds ==
  ASSUME NEW c \in Processes, ask[c].op = "seed", Step(c)
  PROVE  SeedStep(c)
<1>1. ~CategoryStep(c)
  BY DEF CategoryStep, CreateCategory, UpdateCategory, ReloadCategory,
         FindCategoryToDelete, CheckCategoryEmpty, DeleteCategory, Asks
<1>2. ~ProductStep(c)
  BY DEF ProductStep, LoadCategory, InsertProduct, LockProduct,
         LoadNewCategory, UpdateProduct, ArchiveProduct, Asks
<1>3. ~CreateUser(c) /\ ~UpdateProfile(c)
  BY DEF CreateUser, UpdateProfile, Asks
<1>4. ~ReviewStep(c)
  BY DEF ReviewStep, CheckVisible, CheckPurchase, InsertReview,
         UpdateOwnReview, ReloadReview, DeleteOwnReview, Asks
<1>5. ~SuggestionStep(c)
  BY DEF SuggestionStep, CheckDuplicate, InsertSuggestion, LockSuggestion,
         ReviewSuggestion, Asks
<1>. QED
  BY <1>1, <1>2, <1>3, <1>4, <1>5 DEF Step, CatalogueStep

(* What a request of one kind may do next.                                 *)
LEMMA CatalogueStepOf ==
  ASSUME NEW c \in Processes, Step(c)
  PROVE  /\ ask[c].op = "patchCategory" => UpdateCategory(c) \/ ReloadCategory(c)
         /\ ask[c].op = "createProduct" => LoadCategory(c) \/ InsertProduct(c)
         /\ ask[c].op = "patchProduct" =>
              LockProduct(c) \/ LoadNewCategory(c) \/ UpdateProduct(c)
BY DEF Step, CatalogueStep, CategoryStep, CreateCategory, UpdateCategory,
       ReloadCategory, FindCategoryToDelete, CheckCategoryEmpty,
       DeleteCategory, ProductStep, LoadCategory, InsertProduct, LockProduct,
       LoadNewCategory, UpdateProduct, ArchiveProduct, CreateUser,
       UpdateProfile, SeedStep, BeginSeed, CheckRecord, InsertRecord, EndBatch,
       EndSeed, Seeding, ReviewStep, CheckVisible, CheckPurchase, InsertReview,
       UpdateOwnReview, ReloadReview, DeleteOwnReview, SuggestionStep,
       CheckDuplicate, InsertSuggestion, LockSuggestion, ReviewSuggestion, Asks

LEMMA FeedbackStepOf ==
  ASSUME NEW c \in Processes, Step(c)
  PROVE  /\ ask[c].op = "createReview" =>
              CheckVisible(c) \/ CheckPurchase(c) \/ InsertReview(c) \/ ReloadReview(c)
         /\ ask[c].op = "updateReview" => UpdateOwnReview(c) \/ ReloadReview(c)
         /\ ask[c].op = "deleteReview" => DeleteOwnReview(c)
         /\ ask[c].op = "suggest" => CheckDuplicate(c) \/ InsertSuggestion(c)
         /\ ask[c].op = "reviewSuggestion" => LockSuggestion(c) \/ ReviewSuggestion(c)
         /\ \/ ask[c].op \in {"createReview", "updateReview", "deleteReview",
                              "suggest", "reviewSuggestion"} /\ UNCHANGED others
            \/ CatalogueStep(c) /\ UNCHANGED feedback
BY DEF Step, CatalogueStep, CategoryStep, CreateCategory, UpdateCategory,
       ReloadCategory, FindCategoryToDelete, CheckCategoryEmpty,
       DeleteCategory, ProductStep, LoadCategory, InsertProduct, LockProduct,
       LoadNewCategory, UpdateProduct, ArchiveProduct, CreateUser,
       UpdateProfile, SeedStep, BeginSeed, CheckRecord, InsertRecord, EndBatch,
       EndSeed, Seeding, ReviewStep, CheckVisible, CheckPurchase, InsertReview,
       UpdateOwnReview, ReloadReview, DeleteOwnReview, SuggestionStep,
       CheckDuplicate, InsertSuggestion, LockSuggestion, ReviewSuggestion, Asks

LEMMA OnlySeedsBatch ==
  ASSUME CatalogueTypeOK, NEW c \in Processes, Step(c)
  PROVE  SeedStep(c) \/ (batch' = batch /\ ask[c].op # "seed")
BY OnlySeeds, CategoryMoves, ProductMoves, UserMoves, FeedbackMoves
DEF Step, CatalogueStep, others

LEMMA BatchesStep ==
  ASSUME CatalogueTypeOK, BatchesTrue, NEW c \in Processes, Step(c)
  PROVE  /\ BatchesTrue' /\ batch' \in [Processes -> BatchRecord]
         /\ \A d \in Processes : BatchOK(batch'[d])
<1>0. batch \in [Processes -> BatchRecord]
  BY DEF CatalogueTypeOK
<1>1. /\ Moves(c) /\ ask' = ask
      /\ \A d \in Processes : d # c => batch'[d] = batch[d]
  BY StepFrame
<1>2. /\ batch' \in [Processes -> BatchRecord] /\ BatchOK(batch'[c])
      /\ Seeding(c)' => batch'[c].stage # "none"
  <2>1. CASE SeedStep(c)
    BY <1>1, <2>1, SeedStepBatch DEF Seeding
  <2>2. CASE batch' = batch /\ ask[c].op # "seed"
    BY <1>0, <1>1, <2>2, BatchesOK DEF Seeding
  <2>. QED
    BY <2>1, <2>2, OnlySeedsBatch
<1>3. ASSUME NEW d \in Processes
      PROVE  BatchOK(batch'[d]) /\ (Seeding(d)' => batch'[d].stage # "none")
  BY <1>1, <1>2, BatchesOK DEF Seeding, Moves, BatchesTrue
<1>. QED
  BY <1>2, <1>3 DEF BatchesTrue, BatchOK

LEMMA CatalogueTypesStep ==
  ASSUME CatalogueTypeOK, BatchesTrue, IdsFree, ask \in Casts,
         NEW c \in Processes, Step(c)
  PROVE  CatalogueTypeOK'
<1>1. TablesKept(c)
  BY TablesStep
<1>2. /\ Moves(c) /\ before' \in [Processes -> SUBSET Processes]
      /\ raced' \subseteq Processes
  BY StepFrame
<1>3. /\ batch' \in [Processes -> BatchRecord]
      /\ \A d \in Processes : BatchOK(batch'[d])
  BY BatchesStep
<1>. QED
  BY <1>1, <1>2, <1>3 DEF CatalogueTypeOK, TablesKept, Moves, BatchOK

LEMMA BeforeStep ==
  ASSUME CatalogueTypeOK, BatchesTrue, BeforeTrue, NEW c \in Processes, Step(c)
  PROVE  BeforeTrue'
<1>1. /\ Moves(c)
      /\ \A d \in Processes : d # c => before'[d] = before[d]
      /\ before'[c] = IF at[c] = "begin" THEN {d \in Processes : Answered(d)}
                      ELSE before[c]
  BY StepFrame
<1>2. ASSUME NEW d \in Processes, Answered(d)
      PROVE  Answered(d)'
  BY <1>1, <1>2 DEF Moves, Answered
<1>3. ASSUME NEW d \in Processes, NEW e \in before'[d]
      PROVE  e \in Processes /\ Answered(e)
  BY <1>1 DEF BeforeTrue, CatalogueTypeOK
<1>. QED
  BY <1>2, <1>3 DEF BeforeTrue

-----------------------------------------------------------------------------
(* Ids that process c may still give are new.                              *)
LEMMA IdsFreeOthers ==
  ASSUME CatalogueTypeOK, BatchesTrue, IdsFree, ask \in Casts,
         NEW c \in Processes, Step(c), NEW d \in Processes, d # c
  PROVE  /\ \A key \in CategoriesToCome(d)' : <<d, key>> \notin IdsOf(categories')
         /\ \A key \in ProductsToCome(d)' : <<d, key>> \notin IdsOf(products')
<1>1. CategoriesToCome(d)' = CategoriesToCome(d) /\ ProductsToCome(d)' = ProductsToCome(d)
  <2>1. at'[d] = at[d] /\ batch'[d] = batch[d] /\ ask' = ask
    BY StepFrame DEF Moves
  <2>. QED
    BY <2>1 DEF CategoriesToCome, ProductsToCome, Asks, Seeding
<1>2. TablesKept(c)
  BY TablesStep
<1>3. ASSUME NEW key \in CategoriesToCome(d), NEW k \in categories', k.id = <<d, key>>
      PROVE  FALSE
  <2>1. k.id \notin IdsOf(categories)
    BY <1>3 DEF IdsFree
  <2>2. PICK other \in Slugs : k.id = <<c, other>>
    BY <1>2, <2>1 DEF TablesKept
  <2>. QED
    BY <1>3, <2>2
<1>4. ASSUME NEW key \in ProductsToCome(d), NEW p \in products', p.id = <<d, key>>
      PROVE  FALSE
  <2>1. p.id \notin IdsOf(products)
    BY <1>4 DEF IdsFree
  <2>2. PICK other \in Skus : p.id = <<c, other>>
    BY <1>2, <2>1 DEF TablesKept
  <2>. QED
    BY <1>4, <2>2
<1>. QED
  BY <1>1, <1>3, <1>4 DEF IdsOf

LEMMA IdsFreeRequest ==
  ASSUME CatalogueTypeOK, BatchesTrue, IdsFree, ask \in Casts,
         NEW c \in Processes, Step(c), ask[c].op # "seed"
  PROVE  /\ CategoriesToCome(c)' = {}
         /\ \A key \in ProductsToCome(c)' : <<c, key>> \notin IdsOf(products')
<1>1. Moves(c) /\ ask' = ask
  BY StepFrame
<1>2. CategoriesToCome(c)' = {}
  BY <1>1 DEF CategoriesToCome, Asks, Seeding, Moves
<1>3. CASE ask[c].op # "createProduct"
  BY <1>1, <1>2, <1>3 DEF ProductsToCome, Asks, Seeding
<1>4. CASE ask[c].op = "createProduct"
  <2>1. LoadCategory(c) \/ InsertProduct(c)
    BY <1>4, CatalogueStepOf
  <2>2. CASE LoadCategory(c)
    <3>1. /\ products' = products /\ at[c] = "begin"
          /\ ProductsToCome(c)' \subseteq ProductsToCome(c)
      BY <1>1, <1>4, <2>2
      DEF LoadCategory, Refuse, tables, ProductsToCome, Asks, Seeding
    <3>. QED
      BY <1>2, <3>1 DEF IdsFree
  <2>3. CASE InsertProduct(c)
    <3>1. at'[c] \in {"ok", "conflict", "error"}
      BY <2>3 DEF InsertProduct, Refuse, Goto, CatalogueTypeOK
    <3>2. ProductsToCome(c)' = {}
      BY <1>1, <1>4, <3>1 DEF ProductsToCome, Asks, Seeding
    <3>. QED
      BY <1>2, <3>2
  <2>. QED
    BY <2>1, <2>2, <2>3
<1>. QED
  BY <1>2, <1>3, <1>4

LEMMA IdsFreeSeed ==
  ASSUME CatalogueTypeOK, BatchesTrue, IdsFree, NEW c \in Processes,
         ask[c].op = "seed", SeedStep(c), ask' = ask
  PROVE  /\ \A key \in CategoriesToCome(c)' : <<c, key>> \notin IdsOf(categories')
         /\ \A key \in ProductsToCome(c)' : <<c, key>> \notin IdsOf(products')
<1>0. /\ batch \in [Processes -> BatchRecord] /\ at \in [Processes -> Places]
      /\ \A key \in CategoriesToCome(c) : <<c, key>> \notin IdsOf(categories)
      /\ \A key \in ProductsToCome(c) : <<c, key>> \notin IdsOf(products)
  BY DEF CatalogueTypeOK, IdsFree
<1>. DEFINE Shrink == /\ CategoriesToCome(c)' \subseteq CategoriesToCome(c)
                      /\ ProductsToCome(c)' \subseteq ProductsToCome(c)
<1>1. CASE BeginSeed(c)
  <2>1. Shrink
    BY <1>1 DEF BeginSeed, CategoriesToCome, ProductsToCome, Asks, Seeding
  <2>. QED
    BY <1>0, <1>1, <2>1 DEF BeginSeed, Refuse, tables
<1>2. CASE CheckRecord(c)
  <2>1. PICK r \in batch[c].todo :
          /\ Seeding(c) /\ UNCHANGED <<tables, at>>
          /\ batch' = [batch EXCEPT ![c] = LookedUp(batch[c], r)]
    BY <1>2 DEF CheckRecord
  <2>2. batch'[c] = LookedUp(batch[c], r)
    BY <1>0, <2>1
  <2>3. /\ batch'[c].stage = batch[c].stage
        /\ batch'[c].todo \cup batch'[c].absent
             \subseteq batch[c].todo \cup batch[c].absent
    <3>1. /\ batch'[c].stage = batch[c].stage
          /\ batch'[c].todo = batch[c].todo \ {r}
          /\ batch'[c].absent \in {batch[c].absent, batch[c].absent \cup {r}}
      BY <2>2 DEF LookedUp
    <3>. QED
      BY ONLY <3>1, r \in batch[c].todo
  <2>4. Shrink
    BY <2>1, <2>3 DEF CategoriesToCome, ProductsToCome, Asks, Seeding
  <2>. QED
    BY <1>0, <2>1, <2>4 DEF tables
<1>3. CASE InsertRecord(c)
  <2>1. PICK r \in batch[c].absent : InsertRecord(c)!(r)
    BY <1>3 DEF InsertRecord
  <2>. DEFINE new == [batch[c] EXCEPT !.absent = batch[c].absent \ {r}]
  <2>2. Seeding(c) /\ batch'[c] = new
    BY <1>0, <2>1
  <2>3. /\ new.stage = batch[c].stage /\ new.todo = batch[c].todo
        /\ new.absent = batch[c].absent \ {r}
    BY InsertedRecord, BatchesOK
  <2>. HIDE DEF new
  <2>4. /\ batch'[c].stage = batch[c].stage
        /\ batch'[c].todo \cup batch'[c].absent
             = (batch[c].todo \cup batch[c].absent) \ {r}
    BY <2>2, <2>3, SeedBatch
  <2>5. at[c] \in {"batch", "failing"} /\ at'[c] \in {"batch", "failing"}
    BY <1>0, <2>1, <2>2 DEF Seeding, Refuse, Goto
  <2>6. Shrink
    BY <2>2, <2>4, <2>5 DEF CategoriesToCome, ProductsToCome, Asks, Seeding
  <2>7. CASE UNCHANGED tables
    BY <1>0, <2>6, <2>7 DEF tables
  <2>8. CASE batch[c].stage = "categories" /\ ~UNCHANGED tables
    <3>1. /\ products' = products
          /\ \A k \in categories' : k \in categories \/ k.id = <<c, r.key>>
      BY <2>1, <2>8 DEF Refuse
    <3>2. r.key \notin CategoriesToCome(c)'
      BY <2>4, <2>5, <2>8, RecordKeys, SeedBatch, <2>2
      DEF CategoriesToCome, Asks, Seeding
    <3>. QED
      BY <1>0, <2>6, <3>1, <3>2 DEF IdsOf
  <2>9. CASE batch[c].stage = "users" /\ ~UNCHANGED tables
    BY <1>0, <2>1, <2>6, <2>9 DEF Refuse
  <2>10. CASE batch[c].stage = "products" /\ ~UNCHANGED tables
    <3>1. /\ categories' = categories
          /\ \A p \in products' : p \in products \/ p.id = <<c, r.key>>
      BY <2>1, <2>10 DEF Refuse
    <3>2. r.key \notin ProductsToCome(c)'
      BY <2>4, <2>5, <2>10, RecordKeys, SeedBatch, <2>2
      DEF ProductsToCome, Asks, Seeding
    <3>. QED
      BY <1>0, <2>6, <3>1, <3>2 DEF IdsOf
  <2>. QED
    BY <2>2, <2>7, <2>8, <2>9, <2>10, SeedBatch DEF Stages
<1>4. CASE EndBatch(c)
  <2>1. \/ /\ batch[c].stage = "categories" /\ at' = at
           /\ batch'[c] = NewBatch("users")
        \/ /\ batch[c].stage = "users" /\ at' = at
           /\ batch'[c] = [NewBatch("products") EXCEPT !.ids = categories]
        \/ at'[c] = "ok"
    BY <1>0, <1>4 DEF EndBatch, Goto
  <2>2. [NewBatch("products") EXCEPT !.ids = categories].stage = "products"
    BY DEF NewBatch
  <2>3. NewBatch("users").stage = "users"
    BY DEF NewBatch
  <2>4. Asks(c, "seed", "batch") /\ UNCHANGED tables
    BY <1>4 DEF EndBatch
  <2>5. Shrink
    BY <2>1, <2>2, <2>3, <2>4
    DEF CategoriesToCome, ProductsToCome, Asks, Seeding
  <2>. QED
    BY <1>0, <2>4, <2>5 DEF tables
<1>5. CASE EndSeed(c)
  <2>1. at'[c] \in {"error", "crashed"}
    BY <1>0, <1>5 DEF EndSeed, Refuse, Goto
  <2>. QED
    BY <2>1 DEF CategoriesToCome, ProductsToCome, Asks, Seeding
<1>. QED
  BY <1>1, <1>2, <1>3, <1>4, <1>5 DEF SeedStep

LEMMA IdsFreeStep ==
  ASSUME CatalogueTypeOK, BatchesTrue, IdsFree, ask \in Casts,
         NEW c \in Processes, Step(c)
  PROVE  IdsFree'
<1>1. ask' = ask
  BY StepFrame
<1>2. /\ \A key \in CategoriesToCome(c)' : <<c, key>> \notin IdsOf(categories')
      /\ \A key \in ProductsToCome(c)' : <<c, key>> \notin IdsOf(products')
  BY <1>1, IdsFreeRequest, IdsFreeSeed, OnlySeeds
<1>. QED
  BY <1>2, IdsFreeOthers DEF IdsFree

-----------------------------------------------------------------------------
(* The last writer of a row asked for that.                                *)
LEMMA CategoryWriter ==
  ASSUME CatalogueTypeOK, BatchesTrue, IdsFree, RowsTrue, ask \in Casts,
         NEW c \in Processes, Step(c), NEW k \in categories', k.by = c
  PROVE  \/ ask[c].op = "seed"
         \/ ask[c].op = "createCategory" /\ at'[c] = "ok"
         \/ /\ ask[c].op = "patchCategory" /\ at'[c] \in {"reload", "ok"}
            /\ k.id = ask[c].id
<1>0. at \in [Processes -> Places] /\ at[c] \notin Answers /\ c # None
  BY StepFrame, CatalogueAssumption DEF CatalogueTypeOK, Moves
<1>1. CASE k \in categories
  <2>1. ask[c].op = "seed" \/ (/\ ask[c].op = "patchCategory" /\ at[c] = "reload"
                               /\ k.id = ask[c].id)
    BY <1>0, <1>1 DEF RowsTrue, Asks, Answers
  <2>2. ASSUME ask[c].op = "patchCategory", at[c] = "reload"
        PROVE  ReloadCategory(c)
    BY <2>2, CatalogueStepOf DEF UpdateCategory, Asks
  <2>3. k.id \in IdsOf(categories)
    BY <1>1 DEF IdsOf
  <2>. QED
    BY <1>0, <2>1, <2>2, <2>3 DEF ReloadCategory, Refuse, Goto
<1>2. CASE k \notin categories
  <2>1. CASE SeedStep(c)
    BY <2>1
    DEF SeedStep, BeginSeed, CheckRecord, InsertRecord, EndBatch, EndSeed,
        Seeding, Asks
  <2>2. CASE CategoryStep(c)
    <3>1. CASE CreateCategory(c)
      BY <1>0, <1>2, <3>1 DEF CreateCategory, Asks, Refuse, tables, Goto
    <3>2. CASE UpdateCategory(c)
      <4>1. k.id = ask[c].id
        BY <1>2, <3>2, UpdateCategoryKeeps
      <4>2. at'[c] = "reload" /\ ask[c].op = "patchCategory"
        BY <1>0, <1>2, <3>2 DEF UpdateCategory, Refuse, tables, Goto, Asks
      <4>. QED
        BY <4>1, <4>2
    <3>3. CASE \/ ReloadCategory(c) \/ FindCategoryToDelete(c)
               \/ CheckCategoryEmpty(c) \/ DeleteCategory(c)
      BY <1>2, <3>3
      DEF ReloadCategory, FindCategoryToDelete, CheckCategoryEmpty,
          DeleteCategory, Refuse, tables
    <3>. QED
      BY <2>2, <3>1, <3>2, <3>3 DEF CategoryStep
  <2>3. CASE ProductStep(c) \/ CreateUser(c) \/ UpdateProfile(c)
    BY <1>2, <2>3, ProductStepKeeps, UserStepKeeps
  <2>4. CASE ReviewStep(c) \/ SuggestionStep(c)
    BY <1>2, <2>4, FeedbackMoves DEF others, tables
  <2>. QED
    BY <2>1, <2>2, <2>3, <2>4 DEF Step, CatalogueStep
<1>. QED
  BY <1>1, <1>2

LEMMA ProductWriter ==
  ASSUME CatalogueTypeOK, BatchesTrue, IdsFree, RowsTrue, ask \in Casts,
         NEW c \in Processes, Step(c), NEW p \in products', p.by = c
  PROVE  \/ ask[c].op = "seed"
         \/ /\ ask[c].op \in {"createProduct", "patchProduct", "archiveProduct"}
            /\ at'[c] = "ok"
<1>0. at \in [Processes -> Places] /\ at[c] \notin Answers /\ c # None
  BY StepFrame, CatalogueAssumption DEF CatalogueTypeOK, Moves
<1>1. CASE p \in products
  BY <1>0, <1>1 DEF RowsTrue, Answers
<1>2. CASE p \notin products
  <2>1. CASE SeedStep(c)
    BY <2>1
    DEF SeedStep, BeginSeed, CheckRecord, InsertRecord, EndBatch, EndSeed,
        Seeding, Asks
  <2>2. CASE ProductStep(c)
    <3>1. CASE InsertProduct(c)
      BY <1>0, <1>2, <3>1 DEF InsertProduct, Asks, Refuse, tables, Goto
    <3>2. CASE UpdateProduct(c)
      BY <1>0, <1>2, <3>2 DEF UpdateProduct, Asks, Refuse, tables, Goto
    <3>3. CASE ArchiveProduct(c)
      BY <1>0, <1>2, <3>3 DEF ArchiveProduct, Asks, Refuse, tables, Goto
    <3>4. CASE LoadCategory(c) \/ LockProduct(c) \/ LoadNewCategory(c)
      BY <1>2, <3>4
      DEF LoadCategory, LockProduct, LoadNewCategory, Refuse, tables
    <3>. QED
      BY <2>2, <3>1, <3>2, <3>3, <3>4 DEF ProductStep
  <2>3. CASE CategoryStep(c) \/ CreateUser(c) \/ UpdateProfile(c)
    BY <1>2, <2>3, CategoryStepKeeps, UserStepKeeps
  <2>4. CASE ReviewStep(c) \/ SuggestionStep(c)
    BY <1>2, <2>4, FeedbackMoves DEF others, tables
  <2>. QED
    BY <2>1, <2>2, <2>3, <2>4 DEF Step, CatalogueStep
<1>. QED
  BY <1>1, <1>2

LEMMA RowsStep ==
  ASSUME CatalogueTypeOK, BatchesTrue, IdsFree, RowsTrue, ask \in Casts,
         NEW c \in Processes, Step(c)
  PROVE  RowsTrue'
<1>0. TablesKept(c) /\ Moves(c) /\ ask' = ask
  BY TablesStep, StepFrame
<1>1. /\ \A k \in categories : k.by \in Processes \cup {None}
      /\ \A p \in products : p.by \in Processes \cup {None}
  BY DEF CatalogueTypeOK, CategoryRow, ProductRow
<1>2. ASSUME NEW k \in categories', k.by # None
      PROVE  \/ ask[k.by].op = "seed"
             \/ ask[k.by].op = "createCategory" /\ at'[k.by] = "ok"
             \/ /\ ask[k.by].op = "patchCategory" /\ at'[k.by] \in {"reload", "ok"}
                /\ k.id = ask[k.by].id
  <2>1. CASE k.by = c
    BY <1>2, <2>1, CategoryWriter
  <2>2. CASE k.by # c
    <3>1. k \in categories
      BY <1>0, <1>2, <2>2 DEF TablesKept
    <3>2. at'[k.by] = at[k.by]
      BY <1>0, <1>1, <1>2, <2>2, <3>1 DEF Moves
    <3>. QED
      BY <1>2, <3>1, <3>2 DEF RowsTrue, Asks
  <2>. QED
    BY <2>1, <2>2
<1>3. ASSUME NEW p \in products', p.by # None
      PROVE  \/ ask[p.by].op = "seed"
             \/ /\ ask[p.by].op \in {"createProduct", "patchProduct", "archiveProduct"}
                /\ at'[p.by] = "ok"
  <2>1. CASE p.by = c
    BY <1>3, <2>1, ProductWriter
  <2>2. CASE p.by # c
    <3>1. p \in products
      BY <1>0, <1>3, <2>2 DEF TablesKept
    <3>2. at'[p.by] = at[p.by]
      BY <1>0, <1>1, <1>3, <2>2, <3>1 DEF Moves
    <3>. QED
      BY <1>3, <3>1, <3>2 DEF RowsTrue
  <2>. QED
    BY <2>1, <2>2
<1>. QED
  BY <1>0, <1>2, <1>3 DEF RowsTrue, Asks

-----------------------------------------------------------------------------
(* A seed that nobody disturbs finds what it has looked up as it was.      *)
LEMMA SeedOthers ==
  ASSUME CatalogueTypeOK, SeedsTrue, NEW c \in Processes, Step(c),
         NEW d \in Processes \ raced', d # c, ask[d].op = "seed"
  PROVE  SeedTrue(d)'
<1>1. /\ at'[d] = at[d] /\ batch'[d] = batch[d] /\ raced \subseteq raced'
      /\ ask' = ask
  BY StepFrame DEF Moves
<1>2. SeedTrue(d)
  BY <1>1 DEF SeedsTrue
<1>3. CASE Seeding(d)
  <2>1. UNCHANGED tables
    BY <1>3 DEF Step, Watch
  <2>. QED
    BY <1>1, <1>2, <2>1 DEF SeedTrue, tables, DemoNameTaken, KeyTaken,
       KeyTakenByOther, IdsOf
<1>4. CASE ~Seeding(d)
  BY <1>1, <1>2, <1>4 DEF SeedTrue, Seeding
<1>. QED
  BY <1>3, <1>4

LEMMA SeedBegins ==
  ASSUME CatalogueTypeOK, NEW c \in Processes \ raced', BeginSeed(c), Watch(c)
  PROVE  SeedTrue(c)'
<1>1. /\ UNCHANGED tables /\ at'[c] = "batch" /\ ~DemoNameTaken
      /\ batch'[c] = NewBatch("categories")
  BY DEF BeginSeed, Refuse, Goto, Watch, CatalogueTypeOK
<1>2. /\ batch'[c].stage = "categories" /\ batch'[c].absent = {}
      /\ batch'[c].todo = Batch("categories")
  BY <1>1 DEF NewBatch
<1>3. ~DemoNameTaken'
  BY <1>1 DEF tables, DemoNameTaken, KeyTakenByOther
<1>4. \A slug \in DemoCategories : [key |-> slug] \in batch'[c].todo \cup batch'[c].absent
  BY <1>2, Batches
<1>. QED
  BY <1>1, <1>2, <1>3, <1>4 DEF SeedTrue

LEMMA SeedLooksUp ==
  ASSUME CatalogueTypeOK, BatchesTrue, NEW c \in Processes, SeedTrue(c),
         CheckRecord(c)
  PROVE  SeedTrue(c)'
<1>. DEFINE b == batch[c]
<1>1. PICK r \in b.todo :
        /\ Seeding(c) /\ UNCHANGED <<tables, at>>
        /\ batch' = [batch EXCEPT ![c] = LookedUp(b, r)]
  BY DEF CheckRecord
<1>2. batch'[c] = LookedUp(b, r)
  BY <1>1 DEF CatalogueTypeOK
<1>3. /\ batch'[c].stage = b.stage /\ batch'[c].todo = b.todo \ {r}
      /\ batch'[c].ids = b.ids
      /\ \/ Exists(b.stage, r) /\ batch'[c].absent = b.absent
         \/ ~Exists(b.stage, r) /\ batch'[c].absent = b.absent \cup {r}
  BY <1>2 DEF LookedUp
<1>4. at[c] = "batch" /\ at'[c] = "batch" /\ UNCHANGED <<categories, products, users>>
  BY <1>1 DEF SeedTrue, Seeding, tables
<1>5. ~DemoNameTaken'
  BY <1>4 DEF SeedTrue, DemoNameTaken, KeyTakenByOther
<1>6. r \in Batch(b.stage)
  BY <1>1, SeedBatch
<1>7. ASSUME NEW slug \in DemoCategories
      PROVE  \/ KeyTaken(categories, slug)
             \/ /\ b.stage = "categories"
                /\ [key |-> slug] \in batch'[c].todo \cup batch'[c].absent
  <2>1. CASE KeyTaken(categories, slug)
    BY <2>1
  <2>2. CASE b.stage = "categories" /\ [key |-> slug] \in b.todo \cup b.absent
    <3>1. CASE [key |-> slug] = r
      <4>1. r.key = slug
        BY <3>1
      <4>. QED
        BY <1>3, <2>2, <3>1, <4>1 DEF Exists
    <3>2. CASE [key |-> slug] # r
      BY <1>3, <2>2, <3>2
    <3>. QED
      BY <3>1, <3>2
  <2>. QED
    BY <1>4, <2>1, <2>2 DEF SeedTrue
<1>8. /\ b.stage = "categories" =>
           \A q \in batch'[c].absent : ~KeyTaken(categories, q.key)
      /\ b.stage = "users" => \A q \in batch'[c].absent : q.id \notin IdsOf(users)
      /\ b.stage = "products" =>
           /\ b.ids = categories
           /\ \A q \in batch'[c].absent : ~KeyTaken(products, q.key)
  BY <1>3, <1>4 DEF SeedTrue, Exists
<1>. HIDE DEF b
<1>. QED
  BY <1>3, <1>4, <1>5, <1>7, <1>8 DEF SeedTrue, KeyTaken, IdsOf

LEMMA SeedInsertable ==
  ASSUME CatalogueTypeOK, BatchesTrue, NEW c \in Processes, SeedTrue(c),
         Seeding(c), NEW r \in batch[c].absent
  PROVE  Insertable(c, r)
<1>1. at[c] = "batch"
  BY DEF SeedTrue, Seeding
<1>2. batch[c].stage \in Stages /\ r \in Batch(batch[c].stage)
  BY SeedBatch
<1>3. CASE batch[c].stage = "categories"
  BY <1>1, <1>3 DEF SeedTrue, Insertable
<1>4. CASE batch[c].stage = "users"
  <2>1. r \in DemoUsers /\ ~DemoNameTaken /\ r.id \notin IdsOf(users)
    BY <1>1, <1>2, <1>4, Batches DEF SeedTrue
  <2>2. ~KeyTaken(users, r.key)
    BY <2>1 DEF DemoNameTaken, KeyTakenByOther, KeyTaken, IdsOf
  <2>. QED
    BY <1>4, <2>1, <2>2 DEF Insertable
<1>5. CASE batch[c].stage = "products"
  <2>1. /\ batch[c].ids = categories /\ ~KeyTaken(products, r.key)
        /\ \A slug \in DemoCategories : KeyTaken(categories, slug)
    BY <1>1, <1>5 DEF SeedTrue
  <2>2. r.slug \in DemoCategories
    BY <1>2, <1>5, RecordKeys
  <2>3. PICK k \in categories : k.key = r.slug
    BY <2>1, <2>2 DEF KeyTaken
  <2>4. k.id \in CategoryIds(c, r) /\ CategoryThere(k.id)
    BY <2>1, <2>3 DEF CategoryIds, CategoryThere, IdsOf
  <2>. QED
    BY <1>5, <2>1, <2>4 DEF Insertable
<1>. QED
  BY <1>2, <1>3, <1>4, <1>5 DEF Stages

LEMMA SeedInserts ==
  ASSUME CatalogueTypeOK, BatchesTrue, NEW c \in Processes, SeedTrue(c),
         InsertRecord(c)
  PROVE  SeedTrue(c)'
<1>1. PICK r \in batch[c].absent : InsertRecord(c)!(r)
  BY DEF InsertRecord
<1>2. Seeding(c) /\ Insertable(c, r)
  BY <1>1, SeedInsertable
<1>. DEFINE new == [batch[c] EXCEPT !.absent = batch[c].absent \ {r}]
<1>3. batch'[c] = new
  BY <1>1 DEF CatalogueTypeOK
<1>4. /\ new.stage = batch[c].stage /\ new.todo = batch[c].todo
      /\ new.ids = batch[c].ids /\ new.absent = batch[c].absent \ {r}
  BY InsertedRecord, BatchesOK
<1>. HIDE DEF new
<1>5. /\ batch'[c].stage = batch[c].stage /\ batch'[c].todo = batch[c].todo
      /\ batch'[c].ids = batch[c].ids
      /\ batch'[c].absent = batch[c].absent \ {r}
  BY <1>3, <1>4
<1>6. at[c] = "batch"
  BY <1>2 DEF SeedTrue, Seeding
<1>7. /\ batch[c].stage \in Stages /\ r \in Batch(batch[c].stage)
      /\ batch[c].absent \subseteq Batch(batch[c].stage)
  BY <1>2, SeedBatch
<1>8. CASE batch[c].stage = "categories"
  <2>1. /\ UNCHANGED <<products, users, at>>
        /\ categories' = categories \cup
             {[id |-> <<c, r.key>>, key |-> r.key, active |-> TRUE, by |-> c]}
    BY <1>1, <1>2, <1>8
  <2>2. \A key : KeyTaken(categories', key) <=> KeyTaken(categories, key) \/ key = r.key
    <3>. DEFINE row == [id |-> <<c, r.key>>, key |-> r.key, active |-> TRUE, by |-> c]
    <3>1. categories' = categories \cup {row} /\ row.key = r.key
      BY <2>1
    <3>. HIDE DEF row
    <3>. QED
      BY <3>1 DEF KeyTaken
  <2>3. ~DemoNameTaken'
    BY <1>6, <2>1 DEF SeedTrue, DemoNameTaken, KeyTakenByOther
  <2>4. \A slug \in DemoCategories :
          \/ KeyTaken(categories', slug)
          \/ [key |-> slug] \in batch'[c].todo \cup batch'[c].absent
    <3>. TAKE slug \in DemoCategories
    <3>1. CASE [key |-> slug] = r
      <4>1. r.key = slug
        BY <3>1
      <4>. QED
        BY <2>2, <4>1
    <3>2. CASE [key |-> slug] # r
      BY <1>5, <1>6, <1>8, <2>2, <3>2 DEF SeedTrue
    <3>. QED
      BY <3>1, <3>2
  <2>5. \A q \in batch'[c].absent : ~KeyTaken(categories', q.key)
    BY <1>5, <1>6, <1>7, <1>8, <2>2, RecordKeys DEF SeedTrue
  <2>. QED
    BY <1>5, <1>6, <1>8, <2>1, <2>3, <2>4, <2>5 DEF SeedTrue
<1>9. CASE batch[c].stage = "users"
  <2>1. UNCHANGED <<categories, products, at>> /\ users' = users \cup {r}
    BY <1>1, <1>2, <1>9
  <2>2. /\ r \in DemoUsers /\ batch[c].absent \subseteq DemoUsers
        /\ Keyed(DemoUsers) /\ ~DemoNameTaken
    BY <1>6, <1>7, <1>9, Batches, CatalogueAssumption DEF SeedTrue
  <2>3. ~DemoNameTaken'
    BY <2>1, <2>2 DEF DemoNameTaken, KeyTakenByOther, Keyed
  <2>4. \A q \in batch'[c].absent : q.id \notin IdsOf(users')
    BY <1>5, <1>6, <1>9, <2>1, <2>2 DEF SeedTrue, IdsOf, Keyed
  <2>5. \A slug \in DemoCategories : KeyTaken(categories', slug)
    BY <1>6, <1>9, <2>1 DEF SeedTrue, KeyTaken
  <2>. QED
    BY <1>5, <1>6, <1>9, <2>1, <2>3, <2>4, <2>5 DEF SeedTrue
<1>10. CASE batch[c].stage = "products"
  <2>1. /\ UNCHANGED <<categories, users, at>>
        /\ \A p \in products' : p \in products \/ p.key = r.key
    BY <1>1, <1>2, <1>10
  <2>2. \A q \in batch'[c].absent : ~KeyTaken(products', q.key)
    BY <1>5, <1>6, <1>7, <1>10, <2>1, RecordKeys DEF SeedTrue, KeyTaken
  <2>3. ~DemoNameTaken'
    BY <1>6, <2>1 DEF SeedTrue, DemoNameTaken, KeyTakenByOther
  <2>4. \A slug \in DemoCategories : KeyTaken(categories', slug)
    BY <1>6, <1>10, <2>1 DEF SeedTrue, KeyTaken
  <2>. QED
    BY <1>5, <1>6, <1>10, <2>1, <2>2, <2>3, <2>4 DEF SeedTrue
<1>. QED
  BY <1>7, <1>8, <1>9, <1>10 DEF Stages

LEMMA SeedEndsBatch ==
  ASSUME CatalogueTypeOK, BatchesTrue, NEW c \in Processes, SeedTrue(c),
         EndBatch(c)
  PROVE  SeedTrue(c)'
<1>1. /\ at[c] = "batch" /\ batch[c].todo = {} /\ batch[c].absent = {}
      /\ UNCHANGED <<categories, products, users>>
  BY DEF EndBatch, Asks, tables
<1>2. /\ ~DemoNameTaken'
      /\ \A slug \in DemoCategories : KeyTaken(categories', slug)
  BY <1>1 DEF SeedTrue, DemoNameTaken, KeyTakenByOther, KeyTaken
<1>. DEFINE last == [NewBatch("products") EXCEPT !.ids = categories]
<1>3. /\ last.stage = "products" /\ last.absent = {} /\ last.ids = categories
      /\ NewBatch("users").stage = "users" /\ NewBatch("users").absent = {}
  BY DEF NewBatch
<1>4. \/ at'[c] = "ok"
      \/ at' = at /\ batch'[c] \in {NewBatch("users"), last}
  BY DEF EndBatch, Goto, CatalogueTypeOK
<1>. HIDE DEF last
<1>. QED
  BY <1>1, <1>2, <1>3, <1>4 DEF SeedTrue

LEMMA SeedsStep ==
  ASSUME CatalogueTypeOK, BatchesTrue, SeedsTrue, NEW c \in Processes, Step(c)
  PROVE  SeedsTrue'
<1>1. ask' = ask /\ raced \subseteq raced'
  BY StepFrame
<1>2. ASSUME NEW d \in Processes \ raced', ask[d].op = "seed", d # c
      PROVE  SeedTrue(d)'
  BY <1>2, SeedOthers
<1>3. ASSUME c \notin raced', ask[c].op = "seed"
      PROVE  SeedTrue(c)'
  <2>1. SeedTrue(c) /\ SeedStep(c) /\ Watch(c)
    BY <1>1, <1>3, OnlySeeds DEF SeedsTrue, Step
  <2>2. CASE EndSeed(c)
    <3>1. at'[c] = "crashed"
      BY <2>1, <2>2 DEF EndSeed, Refuse, Goto, SeedTrue, CatalogueTypeOK
    <3>. QED
      BY <3>1 DEF SeedTrue
  <2>. QED
    BY <1>3, <2>1, <2>2, SeedBegins, SeedLooksUp, SeedInserts, SeedEndsBatch
    DEF SeedStep
<1>. QED
  BY <1>1, <1>2, <1>3 DEF SeedsTrue

-----------------------------------------------------------------------------
(* Reviews.                                                                *)
ReviewsOK(table, ids, orders) ==
  /\ table \subseteq [id : Processes, user : Emails, product : ids, by : Processes]
  /\ \A v \in table : <<v.user, v.product>> \in orders
  /\ \A v, w \in table :
       v # w => v.id # w.id /\ <<v.user, v.product>> # <<w.user, w.product>>

LEMMA ReviewsGrow ==
  ASSUME NEW table, NEW ids, NEW orders, NEW c \in Processes,
         NEW user \in Emails, NEW product \in ids,
         ReviewsOK(table, ids, orders), <<user, product>> \in orders,
         \A v \in table : v.id # c /\ ~(v.user = user /\ v.product = product)
  PROVE  ReviewsOK(table \cup {[id |-> c, user |-> user, product |-> product,
                                by |-> c]}, ids, orders)
<1>. DEFINE row == [id |-> c, user |-> user, product |-> product, by |-> c]
<1>1. /\ row \in [id : Processes, user : Emails, product : ids, by : Processes]
      /\ row.id = c /\ row.user = user /\ row.product = product
  OBVIOUS
<1>. HIDE DEF row
<1>2. ReviewsOK(table \cup {row}, ids, orders)
  BY <1>1 DEF ReviewsOK
<1>. QED
  BY <1>2 DEF row

LEMMA ReviewsPatched ==
  ASSUME NEW table, NEW ids, NEW orders, ReviewsOK(table, ids, orders),
         NEW new,
         \A v \in table :
           /\ new[v] \in [id : Processes, user : Emails, product : ids,
                          by : Processes]
           /\ new[v].id = v.id /\ new[v].user = v.user
           /\ new[v].product = v.product
  PROVE  ReviewsOK({new[v] : v \in table}, ids, orders)
BY DEF ReviewsOK

LEMMA ReviewsLess ==
  ASSUME NEW table, NEW ids, NEW orders, ReviewsOK(table, ids, orders),
         NEW part \in SUBSET table, NEW moreIds, ids \subseteq moreIds,
         NEW more, orders \subseteq more
  PROVE  ReviewsOK(part, moreIds, more)
BY DEF ReviewsOK

LEMMA PatchedReview ==
  ASSUME NEW ids, NEW c \in Processes,
         NEW v \in [id : Processes, user : Emails, product : ids, by : Processes]
  PROVE  LET new == [v EXCEPT !.by = c]
         IN  /\ new \in [id : Processes, user : Emails, product : ids,
                         by : Processes]
             /\ new.id = v.id /\ new.user = v.user /\ new.product = v.product
             /\ new.by = c
OBVIOUS

LEMMA ReviewsTyped ==
  ASSUME TypeOK
  PROVE  ReviewsOK(reviews, IdsOf(products), bought)
BY DEF TypeOK, ReviewsOK

LEMMA InsertReviewTypes ==
  ASSUME TypeOK, ReviewsTrue, LooksTrue, ask \in Casts, NEW c \in Processes,
         InsertReview(c)
  PROVE  ReviewsOK(reviews', IdsOf(products), bought)
<1>. DEFINE r == ask[c]
<1>1. r \in NewReview /\ at[c] = "insert"
  BY FeedbackRequests DEF InsertReview, Asks
<1>2. /\ r.user \in Emails /\ r.product \in IdsOf(products)
      /\ <<r.user, r.product>> \in bought
  BY <1>1 DEF LooksTrue, ReviewsTrue, InsertReview, Asks, NewReview
<1>3. \A v \in reviews : v.id # c
  BY <1>1 DEF ReviewsTrue
<1>4. \/ reviews' = reviews
      \/ /\ \A v \in reviews : ~(v.user = r.user /\ v.product = r.product)
         /\ reviews' = reviews \cup
              {[id |-> c, user |-> r.user, product |-> r.product, by |-> c]}
  BY DEF InsertReview
<1>. HIDE DEF r
<1>. QED
  BY <1>2, <1>3, <1>4, ReviewsTyped, ReviewsGrow

LEMMA UpdateReviewKeeps ==
  ASSUME TypeOK, NEW c \in Processes, UpdateOwnReview(c)
  PROVE  /\ ReviewsOK(reviews', IdsOf(products), bought)
         /\ \A w \in reviews' :
              \/ w \in reviews
              \/ \E v \in reviews : /\ Own(v, ask[c]) /\ w.by = c
                                    /\ w.id = v.id /\ w.product = v.product
<1>. DEFINE Updated(v) == [v EXCEPT !.by = c]
            new == [v \in reviews |-> IF Own(v, ask[c]) THEN Updated(v) ELSE v]
<1>1. ReviewsOK(reviews, IdsOf(products), bought)
  BY ReviewsTyped
<1>2. ASSUME NEW v \in reviews
      PROVE  /\ Updated(v) \in [id : Processes, user : Emails,
                                product : IdsOf(products), by : Processes]
             /\ Updated(v).id = v.id /\ Updated(v).user = v.user
             /\ Updated(v).product = v.product /\ Updated(v).by = c
  BY <1>1, PatchedReview DEF ReviewsOK
<1>3. reviews' = {IF Own(v, ask[c]) THEN Updated(v) ELSE v : v \in reviews}
  BY DEF UpdateOwnReview
<1>. HIDE DEF Updated
<1>4. reviews' = {new[v] : v \in reviews}
  BY <1>3
<1>5. ASSUME NEW v \in reviews
      PROVE  /\ new[v] \in [id : Processes, user : Emails,
                            product : IdsOf(products), by : Processes]
             /\ new[v].id = v.id /\ new[v].user = v.user
             /\ new[v].product = v.product
             /\ new[v] = v \/ (Own(v, ask[c]) /\ new[v].by = c)
  BY <1>1, <1>2 DEF ReviewsOK
<1>. HIDE DEF new
<1>6. ReviewsOK({new[v] : v \in reviews}, IdsOf(products), bought)
  BY ONLY <1>1, <1>5, ReviewsPatched
<1>. QED
  BY <1>4, <1>5, <1>6

LEMMA ReviewsStepTypes ==
  ASSUME Inv, NEW c \in Processes, Step(c)
  PROVE  ReviewsOK(reviews', IdsOf(products'), bought')
<1>1. /\ CatalogueTypeOK /\ BatchesTrue /\ IdsFree /\ ask \in Casts /\ TypeOK
      /\ ReviewsTrue /\ LooksTrue
  BY DEF Inv, CatalogueInv
<1>2. ReviewsOK(reviews, IdsOf(products), bought)
  BY <1>1, ReviewsTyped
<1>3. CASE reviews' \subseteq reviews
  <2>1. IdsOf(products) \subseteq IdsOf(products')
    BY <1>1, TablesStep DEF TablesKept
  <2>2. bought' = bought
    BY DEF Step, ReviewStep, SuggestionStep, CheckVisible, CheckPurchase,
           InsertReview, UpdateOwnReview, ReloadReview, DeleteOwnReview,
           CheckDuplicate, InsertSuggestion, LockSuggestion, ReviewSuggestion,
           feedback
  <2>. QED
    BY <1>2, <1>3, <2>1, <2>2, ReviewsLess
<1>4. CASE ~(reviews' \subseteq reviews)
  <2>1. InsertReview(c) \/ UpdateOwnReview(c)
    BY <1>4
    DEF Step, ReviewStep, SuggestionStep, CheckVisible, CheckPurchase,
        ReloadReview, DeleteOwnReview, CheckDuplicate, InsertSuggestion,
        LockSuggestion, ReviewSuggestion, feedback
  <2>2. products' = products /\ bought' = bought
    BY <2>1 DEF InsertReview, UpdateOwnReview, others, tables
  <2>3. ReviewsOK(reviews', IdsOf(products), bought)
    BY <1>1, <2>1, InsertReviewTypes, UpdateReviewKeeps
  <2>. QED
    BY <2>2, <2>3
<1>. QED
  BY <1>3, <1>4

LEMMA ReviewsStep ==
  ASSUME Inv, NEW c \in Processes, Step(c)
  PROVE  ReviewsTrue'
<1>1. /\ CatalogueTypeOK /\ TypeOK /\ ReviewsTrue /\ ask \in Casts
      /\ at \in [Processes -> Places]
  BY DEF Inv, CatalogueInv, CatalogueTypeOK
<1>2. Moves(c) /\ ask' = ask
  BY <1>1, StepFrame
<1>3. \A v \in reviews : v.id \in Processes /\ v.by \in Processes
  BY <1>1 DEF TypeOK
<1>4. ASSUME NEW d \in Processes, ask[d].op = "createReview", at'[d] = "insert"
      PROVE  <<ask[d].user, ask[d].product>> \in bought'
  <2>1. bought' = bought
    BY DEF Step, ReviewStep, SuggestionStep, CheckVisible, CheckPurchase,
           InsertReview, UpdateOwnReview, ReloadReview, DeleteOwnReview,
           CheckDuplicate, InsertSuggestion, LockSuggestion, ReviewSuggestion,
           feedback
  <2>2. CASE d # c
    BY <1>1, <1>2, <1>4, <2>1, <2>2 DEF ReviewsTrue, Moves, Asks
  <2>3. CASE d = c
    <3>1. CheckPurchase(c)
      BY <1>1, <1>4, <2>3, FeedbackStepOf
      DEF CheckVisible, InsertReview, ReloadReview, Goto
    <3>. QED
      BY <1>1, <1>4, <2>1, <2>3, <3>1 DEF CheckPurchase, Goto
  <2>. QED
    BY <2>2, <2>3
<1>5. ASSUME NEW d \in Processes, at[d] \in {"reload", "ok"},
             ask[d].op \in {"createReview", "updateReview"},
             NEW v \in reviews,
             v.id = IF ask[d].op = "createReview" THEN d ELSE ask[d].id
      PROVE  at'[d] \in {"reload", "ok"}
  <2>1. CASE d # c
    BY <1>2, <1>5, <2>1 DEF Moves
  <2>2. CASE d = c
    <3>1. at[c] = "reload"
      BY <1>2, <1>5, <2>2 DEF Moves, Answers
    <3>2. ReloadReview(c)
      BY <1>5, <2>2, <3>1, FeedbackStepOf
      DEF CheckVisible, CheckPurchase, InsertReview, UpdateOwnReview, Asks
    <3>3. v.id \in IdsOf(reviews)
      BY DEF IdsOf
    <3>. QED
      BY <1>1, <1>5, <2>2, <3>2, <3>3 DEF ReloadReview, Goto
  <2>. QED
    BY <2>1, <2>2
<1>6. ASSUME NEW v \in reviews
      PROVE  /\ ask[v.id].op = "createReview" /\ at'[v.id] \in {"reload", "ok"}
             /\ v.product = ask[v.id].product
             /\ \/ v.by = v.id
                \/ /\ ask[v.by].op = "updateReview"
                   /\ at'[v.by] \in {"reload", "ok"} /\ ask[v.by].id = v.id
  BY <1>1, <1>3, <1>5 DEF ReviewsTrue
<1>7. ASSUME NEW w \in reviews'
      PROVE  /\ ask[w.id].op = "createReview" /\ at'[w.id] \in {"reload", "ok"}
             /\ w.product = ask[w.id].product
             /\ \/ w.by = w.id
                \/ /\ ask[w.by].op = "updateReview"
                   /\ at'[w.by] \in {"reload", "ok"} /\ ask[w.by].id = w.id
  <2>1. CASE w \in reviews
    BY <1>6, <2>1
  <2>2. CASE w \notin reviews
    <3>1. InsertReview(c) \/ UpdateOwnReview(c)
      BY <1>7, <2>2
      DEF Step, ReviewStep, SuggestionStep, CheckVisible, CheckPurchase,
          ReloadReview, DeleteOwnReview, CheckDuplicate, InsertSuggestion,
          LockSuggestion, ReviewSuggestion, feedback
    <3>2. CASE InsertReview(c)
      <4>1. /\ ask[c].op = "createReview" /\ at'[c] = "reload"
            /\ w = [id |-> c, user |-> ask[c].user, product |-> ask[c].product,
                    by |-> c]
        BY <1>1, <1>7, <2>2, <3>2 DEF InsertReview, Asks, Goto
      <4>. QED
        BY <4>1
    <3>3. CASE UpdateOwnReview(c)
      <4>1. PICK v \in reviews : /\ Own(v, ask[c]) /\ w.by = c
                                 /\ w.id = v.id /\ w.product = v.product
        BY <1>1, <1>7, <2>2, <3>3, UpdateReviewKeeps
      <4>2. ask[c].op = "updateReview" /\ at'[c] = "reload" /\ ask[c].id = v.id
        BY <1>1, <3>3, <4>1 DEF UpdateOwnReview, Own, Asks, Goto
      <4>. QED
        BY <1>6, <4>1, <4>2
    <3>. QED
      BY <3>1, <3>2, <3>3
  <2>. QED
    BY <2>1, <2>2
<1>. QED
  BY <1>2, <1>4, <1>7 DEF ReviewsTrue, Asks

-----------------------------------------------------------------------------
(* What was visible when process d looked was not hidden before d began.   *)
UsableBefore(d) ==
  \A k \in categories : k.id = ask[d].category => ~HiddenBefore(k, d)

VisibleBefore(d) ==
  /\ ask[d].product \in IdsOf(products)
  /\ \A p \in products : p.id = ask[d].product =>
       /\ ~HiddenBefore(p, d)
       /\ \A k \in categories : k.id = p.category /\ HiddenBefore(k, d)
            => p.by \notin before[d] \cup {None}

LEMMA NotBefore ==
  ASSUME CatalogueTypeOK, BeforeTrue, NEW c \in Processes, Step(c),
         NEW d \in Processes
  PROVE  c \notin before'[d] \cup {None}
BY StepFrame, CatalogueAssumption DEF BeforeTrue, Moves, Answered

LEMMA LooksKept ==
  ASSUME CatalogueInv, NEW c \in Processes, Step(c),
         NEW d \in Processes, before'[d] = before[d]
  PROVE  /\ UsableBefore(d) => UsableBefore(d)'
         /\ VisibleBefore(d) => VisibleBefore(d)'
<1>1. /\ CatalogueTypeOK /\ BatchesTrue /\ IdsFree /\ ask \in Casts
      /\ BeforeTrue
  BY DEF CatalogueInv
<1>2. /\ \A k \in categories' : k \in categories \/ k.by = c
      /\ \A p \in products' : p \in products \/ p.by = c
      /\ IdsOf(products) \subseteq IdsOf(products')
  BY <1>1, TablesStep DEF TablesKept
<1>3. c \notin before[d] \cup {None} /\ ask' = ask
  BY <1>1, NotBefore, StepFrame
<1>4. UsableBefore(d) => UsableBefore(d)'
  BY <1>2, <1>3 DEF UsableBefore, HiddenBefore
<1>5. VisibleBefore(d) => VisibleBefore(d)'
  BY <1>2, <1>3 DEF VisibleBefore, HiddenBefore
<1>. QED
  BY <1>4, <1>5

(* What loadUsableCategory lets pass.                                      *)
LEMMA LooksUsable ==
  ASSUME CatalogueTypeOK, NEW c \in Processes, ask' = ask,
         categories' = categories, NEW step,
         Usable(ask[c].category, step) = step,
         step \notin {"notFound", "conflict"}
  PROVE  UsableBefore(c)'
<1>1. PICK k \in categories : k.id = ask[c].category /\ k.active
  BY DEF Usable
<1>2. \A q \in categories : q.id = ask[c].category => q = k
  BY <1>1, OneRow DEF CatalogueTypeOK
<1>. QED
  BY <1>1, <1>2 DEF UsableBefore, HiddenBefore

LEMMA CheckVisibleLooks ==
  ASSUME CatalogueTypeOK, NEW c \in Processes, ask' = ask,
         UNCHANGED tables, Visible(ask[c].product)
  PROVE  VisibleBefore(c)'
<1>1. PICK p \in products, k \in categories :
        p.id = ask[c].product /\ p.active /\ k.id = p.category /\ k.active
  BY DEF Visible
<1>2. \A q \in products : q.id = ask[c].product => q = p
  BY <1>1, OneRow DEF CatalogueTypeOK
<1>3. \A q \in categories : q.id = p.category => q = k
  BY <1>1, OneRow DEF CatalogueTypeOK
<1>. QED
  BY <1>1, <1>2, <1>3 DEF VisibleBefore, HiddenBefore, tables, IdsOf

LEMMA LooksStep ==
  ASSUME Inv, NEW c \in Processes, Step(c)
  PROVE  LooksTrue'
<1>1. /\ CatalogueTypeOK /\ CatalogueInv /\ ask \in Casts
      /\ at \in [Processes -> Places] /\ LooksTrue
  BY DEF Inv, CatalogueInv, CatalogueTypeOK
<1>2. /\ Moves(c) /\ ask' = ask
      /\ \A d \in Processes : d # c => before'[d] = before[d]
      /\ at[c] # "begin" => before'[c] = before[c]
  BY <1>1, StepFrame
<1>3. ASSUME NEW d \in Processes, Looked(d)'
      PROVE  UsableBefore(d)'
  <2>1. CASE Looked(d) /\ (d # c \/ at[c] # "begin")
    <3>1. UsableBefore(d)
      BY <1>1, <2>1 DEF LooksTrue, UsableBefore
    <3>. QED
      BY <1>1, <1>2, <2>1, <3>1, LooksKept
  <2>2. CASE d # c
    BY <1>2, <1>3, <2>1, <2>2 DEF Looked, Moves
  <2>3. CASE d = c /\ ask[c].op = "createProduct"
    <3>1. at'[c] \in {"insert", "ok"}
      BY <1>2, <1>3, <2>3 DEF Looked
    <3>2. CASE LoadCategory(c)
      <4>1. /\ at'[c] = Usable(ask[c].category, "insert")
            /\ categories' = categories
        BY <1>1, <3>2 DEF LoadCategory, Refuse, Goto, tables
      <4>2. Usable(ask[c].category, "insert") = "insert"
        BY <3>1, <4>1 DEF Usable
      <4>. QED
        BY <1>1, <1>2, <2>3, <4>1, <4>2, LooksUsable
    <3>3. CASE InsertProduct(c)
      BY <2>1, <2>3, <3>3 DEF InsertProduct, Asks, Looked
    <3>. QED
      BY <2>3, <3>2, <3>3, CatalogueStepOf
  <2>4. CASE d = c /\ ask[c].op = "patchProduct"
    <3>1. at'[c] \in {"update", "ok"}
      BY <1>2, <1>3, <2>4 DEF Looked
    <3>2. CASE LoadNewCategory(c) /\ ask[c].category # None
      <4>1. /\ at'[c] = Usable(ask[c].category, "update")
            /\ categories' = categories
        BY <1>1, <3>2 DEF LoadNewCategory, Refuse, Goto, tables
      <4>2. Usable(ask[c].category, "update") = "update"
        BY <3>1, <4>1 DEF Usable
      <4>. QED
        BY <1>1, <1>2, <2>4, <4>1, <4>2, LooksUsable
    <3>3. CASE LoadNewCategory(c) /\ ask[c].category = None
      <4>1. categories' = categories
        BY <3>3 DEF LoadNewCategory, Refuse, tables
      <4>2. \A k \in categories : k.id # None
        BY <1>1, CatalogueAssumption DEF CatalogueTypeOK, CategoryRow
      <4>. QED
        BY <1>2, <2>4, <3>3, <4>1, <4>2 DEF UsableBefore
    <3>4. CASE UpdateProduct(c)
      BY <2>1, <2>4, <3>4 DEF UpdateProduct, Asks, Looked
    <3>5. ~LockProduct(c)
      BY <1>1, <3>1 DEF LockProduct, Refuse, Goto
    <3>. QED
      BY <2>4, <3>2, <3>3, <3>4, <3>5, CatalogueStepOf
  <2>. QED
    BY <1>2, <1>3, <2>2, <2>3, <2>4 DEF Looked
<1>4. ASSUME NEW d \in Processes, ask[d].op = "createReview",
             at'[d] \in {"purchase", "insert", "reload", "ok"}
      PROVE  VisibleBefore(d)'
  <2>1. CASE /\ at[d] \in {"purchase", "insert", "reload", "ok"}
             /\ d # c \/ at[c] # "begin"
    <3>1. VisibleBefore(d)
      BY <1>1, <1>4, <2>1 DEF LooksTrue, VisibleBefore
    <3>. QED
      BY <1>1, <1>2, <2>1, <3>1, LooksKept
  <2>2. CASE d # c
    BY <1>2, <1>4, <2>1, <2>2 DEF Moves
  <2>3. CASE d = c
    <3>1. CASE CheckVisible(c)
      <4>1. Visible(ask[c].product) /\ UNCHANGED tables
        BY <1>1, <1>4, <2>3, <3>1 DEF CheckVisible, Goto, others
      <4>. QED
        BY <1>1, <1>2, <2>3, <4>1, CheckVisibleLooks
    <3>2. CASE CheckPurchase(c) \/ InsertReview(c) \/ ReloadReview(c)
      BY <2>1, <2>3, <3>2 DEF CheckPurchase, InsertReview, ReloadReview, Asks
    <3>. QED
      BY <1>4, <2>3, <3>1, <3>2, FeedbackStepOf
  <2>. QED
    BY <2>2, <2>3
<1>. QED
  BY <1>2, <1>3, <1>4 DEF LooksTrue, UsableBefore, VisibleBefore

-----------------------------------------------------------------------------
(* Suggestions and verdicts.                                               *)
ReviewedBy(s, status, c) == [s EXCEPT !.status = status, !.by = c]

LEMMA ReviewedRow ==
  ASSUME NEW s \in SuggestionRow, NEW c \in Processes,
         NEW status \in {"APPROVED", "REJECTED"}
  PROVE  /\ ReviewedBy(s, status, c) \in SuggestionRow
         /\ ReviewedBy(s, status, c).id = s.id
         /\ ReviewedBy(s, status, c).customer = s.customer
         /\ ReviewedBy(s, status, c).name = s.name
         /\ ReviewedBy(s, status, c).status = status
         /\ ReviewedBy(s, status, c).by = c
<1>1. c # None
  BY CatalogueAssumption
<1>. QED
  BY <1>1 DEF SuggestionRow, ReviewedBy

LEMMA InsertSuggestionAdds ==
  ASSUME ask \in Casts, SuggestionsTrue, NEW c \in Processes,
         InsertSuggestion(c)
  PROVE  \E row \in SuggestionRow :
           /\ row.id = c /\ row.customer = ask[c].user
           /\ row.name = ask[c].name /\ row.status = "PENDING"
           /\ suggestions' = suggestions \cup {row}
           /\ \A s \in suggestions : s.id # c
<1>1. ask[c].user \in Emails /\ ask[c].name \in Titles
  BY FeedbackRequests DEF InsertSuggestion, Asks, NewSuggestion
<1>. DEFINE row == [id |-> c, customer |-> ask[c].user, name |-> ask[c].name,
                    status |-> "PENDING", by |-> None]
<1>2. /\ row \in SuggestionRow
      /\ row.id = c /\ row.customer = ask[c].user
      /\ row.name = ask[c].name /\ row.status = "PENDING"
  BY <1>1 DEF SuggestionRow
<1>3. suggestions' = suggestions \cup {row}
  BY DEF InsertSuggestion
<1>4. \A s \in suggestions : s.id # c
  BY DEF SuggestionsTrue, InsertSuggestion, Asks
<1>. HIDE DEF row
<1>. QED
  BY <1>2, <1>3, <1>4

LEMMA ReviewSuggestionWrites ==
  ASSUME TypeOK, VerdictsTrue, ask \in Casts, NEW c \in Processes,
         ReviewSuggestion(c)
  PROVE  /\ suggestions' \subseteq SuggestionRow
         /\ \A s, q \in suggestions' : s # q => s.id # q.id
         /\ \A s \in suggestions : s.id # ask[c].id => s \in suggestions'
         /\ \A w \in suggestions' :
              \/ w \in suggestions /\ w.id # ask[c].id
              \/ /\ w.status = ask[c].status /\ w.status # "PENDING"
                 /\ w.by = c /\ w.id = ask[c].id
                 /\ \E s \in suggestions :
                      /\ w.id = s.id /\ w.customer = s.customer
                      /\ w.name = s.name
         /\ \E w \in suggestions' :
              w.id = ask[c].id /\ w.status = ask[c].status /\ w.by = c
<1>. DEFINE r == ask[c]
            Reviewed(s) == ReviewedBy(s, r.status, c)
            new == [s \in suggestions |-> IF s.id = r.id THEN Reviewed(s) ELSE s]
<1>1. r.status \in {"APPROVED", "REJECTED"}
  BY FeedbackRequests DEF ReviewSuggestion, Asks, Verdict
<1>2. suggestions \subseteq SuggestionRow
  BY DEF TypeOK
<1>3. ASSUME NEW s \in suggestions
      PROVE  /\ Reviewed(s) \in SuggestionRow /\ Reviewed(s).id = s.id
             /\ Reviewed(s).customer = s.customer
             /\ Reviewed(s).name = s.name
             /\ Reviewed(s).status = r.status /\ Reviewed(s).by = c
  BY <1>1, <1>2, ReviewedRow
<1>4. suggestions' = {IF s.id = r.id THEN Reviewed(s) ELSE s : s \in suggestions}
  BY DEF ReviewSuggestion, ReviewedBy
<1>. HIDE DEF Reviewed
<1>5. suggestions' = {new[s] : s \in suggestions}
  BY <1>4
<1>6. ASSUME NEW s \in suggestions
      PROVE  /\ new[s] \in SuggestionRow /\ new[s].id = s.id
             /\ new[s].customer = s.customer /\ new[s].name = s.name
             /\ s.id # r.id => new[s] = s
             /\ s.id = r.id => new[s].status = r.status /\ new[s].by = c
  BY <1>2, <1>3
<1>7. PICK s \in suggestions : s.id = r.id
  BY DEF VerdictsTrue, ReviewSuggestion
<1>8. \A p, q \in suggestions : p # q => p.id # q.id
  BY DEF VerdictsTrue
<1>. HIDE DEF new, r
<1>9. \A p, q \in suggestions' : p # q => p.id # q.id
  BY <1>5, <1>6, <1>8
<1>10. \E w \in suggestions' : w.id = r.id /\ w.status = r.status /\ w.by = c
  BY <1>5, <1>6, <1>7
<1>11. ASSUME NEW w \in suggestions'
       PROVE  \/ w \in suggestions /\ w.id # r.id
              \/ /\ w.status = r.status /\ w.status # "PENDING"
                 /\ w.by = c /\ w.id = r.id
                 /\ \E p \in suggestions :
                      /\ w.id = p.id /\ w.customer = p.customer
                      /\ w.name = p.name
  BY <1>1, <1>5, <1>6
<1>12. suggestions' \subseteq SuggestionRow
  BY <1>5, <1>6
<1>13. \A p \in suggestions : p.id # r.id => p \in suggestions'
  BY <1>5, <1>6
<1>. QED
  BY <1>9, <1>10, <1>11, <1>12, <1>13 DEF r

LEMMA SuggestionWriters ==
  ASSUME NEW c \in Processes, Step(c)
  PROVE  \/ suggestions' = suggestions
         \/ InsertSuggestion(c)
         \/ ReviewSuggestion(c)
BY DEF Step, ReviewStep, SuggestionStep, CheckVisible, CheckPurchase,
       InsertReview, UpdateOwnReview, ReloadReview, DeleteOwnReview,
       CheckDuplicate, LockSuggestion, feedback

LEMMA SuggestionsTyped ==
  ASSUME Inv, NEW c \in Processes, Step(c)
  PROVE  /\ suggestions' \subseteq SuggestionRow
         /\ \A s, q \in suggestions' : s # q => s.id # q.id
<1>1. /\ TypeOK /\ VerdictsTrue /\ SuggestionsTrue /\ ask \in Casts
      /\ suggestions \subseteq SuggestionRow
      /\ \A s, q \in suggestions : s # q => s.id # q.id
  BY DEF Inv, CatalogueInv, TypeOK, VerdictsTrue
<1>2. CASE InsertSuggestion(c)
  <2>1. PICK row \in SuggestionRow :
          /\ row.id = c /\ suggestions' = suggestions \cup {row}
          /\ \A s \in suggestions : s.id # c
    BY <1>1, <1>2, InsertSuggestionAdds
  <2>. QED
    BY <1>1, <2>1
<1>. QED
  BY <1>1, <1>2, ReviewSuggestionWrites, SuggestionWriters

LEMMA VerdictsStep ==
  ASSUME Inv, NEW c \in Processes, Step(c)
  PROVE  VerdictsTrue' /\ OneVerdict'
<1>1. /\ TypeOK /\ VerdictsTrue /\ OneVerdict /\ SuggestionsTrue
      /\ ask \in Casts /\ at \in [Processes -> Places]
      /\ suggestions \subseteq SuggestionRow /\ CatalogueTypeOK
  BY DEF Inv, CatalogueInv, CatalogueTypeOK, TypeOK
<1>2. Moves(c) /\ ask' = ask
  BY <1>1, StepFrame
<1>3. \A s, q \in suggestions' : s # q => s.id # q.id
  BY SuggestionsTyped
<1>. DEFINE Holds(d) == Asks(d, "reviewSuggestion", "update")
<1>4. Holds(c)' => /\ LockSuggestion(c) /\ ~SuggestionHeld(ask[c].id)
                   /\ suggestions' = suggestions
                   /\ \E s \in suggestions : s.id = ask[c].id /\ s.status = "PENDING"
  <2>1. SUFFICES ASSUME Holds(c)'
                 PROVE  /\ LockSuggestion(c) /\ ~SuggestionHeld(ask[c].id)
                        /\ suggestions' = suggestions
                        /\ \E s \in suggestions :
                             s.id = ask[c].id /\ s.status = "PENDING"
    OBVIOUS
  <2>2. ask[c].op = "reviewSuggestion" /\ at'[c] = "update"
    BY <1>2, <2>1 DEF Asks
  <2>3. ~ReviewSuggestion(c)
    BY <1>1, <2>2 DEF ReviewSuggestion, Goto
  <2>4. LockSuggestion(c)
    BY <2>2, <2>3, FeedbackStepOf
  <2>. QED
    BY <1>1, <2>2, <2>4 DEF LockSuggestion, Goto, feedback
<1>5. \A d \in Processes : d # c => (Holds(d)' <=> Holds(d))
  BY <1>2 DEF Asks, Moves
<1>6. ASSUME NEW d \in Processes, NEW e \in Processes, Holds(d)', Holds(e)',
             ask[e].id = ask[d].id
      PROVE  e = d
  BY <1>1, <1>4, <1>5, <1>6 DEF VerdictsTrue, SuggestionHeld
<1>7. ASSUME NEW d \in Processes, Holds(d)'
      PROVE  \E s \in suggestions' : s.id = ask[d].id /\ s.status = "PENDING"
  <2>1. CASE d = c
    BY <1>4, <1>7, <2>1
  <2>2. CASE d # c
    <3>1. PICK s \in suggestions : s.id = ask[d].id /\ s.status = "PENDING"
      BY <1>1, <1>5, <1>7, <2>2 DEF VerdictsTrue
    <3>2. CASE ReviewSuggestion(c)
      <4>1. s.id # ask[c].id
        BY <1>1, <1>5, <1>7, <2>2, <3>1, <3>2 DEF VerdictsTrue, ReviewSuggestion
      <4>. QED
        BY <1>1, <3>1, <3>2, <4>1, ReviewSuggestionWrites
    <3>3. CASE InsertSuggestion(c)
      BY <3>1, <3>3 DEF InsertSuggestion
    <3>. QED
      BY <3>1, <3>2, <3>3, SuggestionWriters
  <2>. QED
    BY <2>1, <2>2
<1>8. ASSUME NEW d \in Processes, ask[d].op = "reviewSuggestion", at'[d] = "ok"
      PROVE  \E s \in suggestions' :
               s.id = ask[d].id /\ s.status = ask[d].status /\ s.by = d
  <2>1. CASE d = c
    <3>1. ~LockSuggestion(c)
      BY <1>1, <1>8, <2>1 DEF LockSuggestion, Goto
    <3>2. ReviewSuggestion(c)
      BY <1>8, <2>1, <3>1, FeedbackStepOf
    <3>. QED
      BY <1>1, <2>1, <3>2, ReviewSuggestionWrites
  <2>2. CASE d # c
    <3>1. PICK s \in suggestions :
            s.id = ask[d].id /\ s.status = ask[d].status /\ s.by = d
      BY <1>1, <1>2, <1>8, <2>2 DEF OneVerdict, Asks, Moves
    <3>2. s.status # "PENDING"
      BY <1>1, <3>1, CatalogueAssumption DEF SuggestionRow
    <3>3. CASE ReviewSuggestion(c)
      <4>1. Holds(c)
        BY <3>3 DEF ReviewSuggestion
      <4>2. PICK q \in suggestions : q.id = ask[c].id /\ q.status = "PENDING"
        BY <1>1, <4>1 DEF VerdictsTrue
      <4>3. s.id # ask[c].id
        BY <1>1, <3>2, <4>2 DEF VerdictsTrue
      <4>. QED
        BY <1>1, <3>1, <3>3, <4>3, ReviewSuggestionWrites
    <3>4. CASE InsertSuggestion(c)
      BY <3>1, <3>4 DEF InsertSuggestion
    <3>. QED
      BY <3>1, <3>3, <3>4, SuggestionWriters
  <2>. QED
    BY <2>1, <2>2
<1>. QED
  BY <1>2, <1>3, <1>6, <1>7, <1>8 DEF VerdictsTrue, OneVerdict, Asks

LEMMA SuggestionsStep ==
  ASSUME Inv, NEW c \in Processes, Step(c)
  PROVE  SuggestionsTrue'
<1>1. /\ TypeOK /\ CatalogueTypeOK /\ VerdictsTrue /\ SuggestionsTrue
      /\ ask \in Casts /\ at \in [Processes -> Places] /\ BeforeTrue
  BY DEF Inv, CatalogueInv, CatalogueTypeOK
<1>2. /\ Moves(c) /\ ask' = ask
      /\ \A d \in Processes : d # c => before'[d] = before[d]
      /\ at[c] # "begin" => before'[c] = before[c]
  BY <1>1, StepFrame
<1>3. ASSUME NEW w \in suggestions'
      PROVE  \/ w.id = c /\ InsertSuggestion(c)
                /\ w.customer = ask[c].user /\ w.name = ask[c].name
             \/ w \in suggestions
             \/ /\ w.status # "PENDING"
                /\ \E s \in suggestions :
                     /\ w.id = s.id /\ w.customer = s.customer
                     /\ w.name = s.name
  BY <1>1, SuggestionWriters, InsertSuggestionAdds, ReviewSuggestionWrites
<1>4. ASSUME NEW w \in suggestions', w.id \in Processes
      PROVE  /\ ask[w.id].op = "suggest" /\ at'[w.id] = "ok"
             /\ w.customer = ask[w.id].user /\ w.name = ask[w.id].name
  <2>1. CASE /\ w.id = c /\ InsertSuggestion(c)
             /\ w.customer = ask[c].user /\ w.name = ask[c].name
    BY <1>1, <2>1 DEF InsertSuggestion, Asks, Goto
  <2>2. CASE \E s \in suggestions : /\ w.id = s.id /\ w.customer = s.customer
                                    /\ w.name = s.name
    <3>1. /\ ask[w.id].op = "suggest" /\ at[w.id] = "ok"
          /\ w.customer = ask[w.id].user /\ w.name = ask[w.id].name
      BY <1>1, <1>4, <2>2 DEF SuggestionsTrue, Asks
    <3>2. at'[w.id] = "ok"
      BY <1>2, <1>4, <3>1 DEF Moves, Answers
    <3>. QED
      BY <3>1, <3>2
  <2>. QED
    BY <1>3, <2>1, <2>2
<1>5. ASSUME NEW d \in Processes, ask[d].op = "suggest",
             at'[d] \in {"insert", "ok"}, NEW w \in suggestions',
             w.status = "PENDING", w.id # d,
             w.customer = ask[d].user, w.name = ask[d].name
      PROVE  w.id \in Processes /\ w.id \notin before'[d]
  <2>1. CASE w.id = c
    BY <1>1, <2>1, NotBefore
  <2>2. CASE w.id # c
    <3>1. w \in suggestions
      BY <1>3, <1>5, <2>2
    <3>2. CASE at[d] \in {"insert", "ok"} /\ before'[d] = before[d]
      BY <1>1, <1>5, <3>1, <3>2 DEF SuggestionsTrue, Precedes
    <3>3. CASE d # c
      BY <1>2, <1>5, <3>2, <3>3 DEF Moves
    <3>4. CASE d = c
      <4>1. CASE CheckDuplicate(c)
        <5>1. at'[c] = IF DuplicatePending(ask[c]) THEN "conflict" ELSE "insert"
          BY <1>1, <4>1 DEF CheckDuplicate, Goto
        <5>. QED
          BY <1>5, <3>1, <3>4, <5>1 DEF DuplicatePending
      <4>2. CASE InsertSuggestion(c)
        BY <1>2, <3>2, <3>4, <4>2 DEF InsertSuggestion, Asks
      <4>. QED
        BY <1>5, <3>4, <4>1, <4>2, FeedbackStepOf
    <3>. QED
      BY <3>3, <3>4
  <2>. QED
    BY <2>1, <2>2
<1>. QED
  BY <1>2, <1>4, <1>5 DEF SuggestionsTrue, Asks, Precedes

-----------------------------------------------------------------------------
(* The invariant.                                                          *)
LEMMA InitCatalogue ==
  ASSUME CatalogueInit
  PROVE  CatalogueInv
<1>1. /\ categories = FirstCategories /\ products = FirstProducts
      /\ users = FirstUsers /\ ask \in Casts
      /\ at = [c \in Processes |-> "begin"]
      /\ batch = [c \in Processes |-> NoBatch]
      /\ before = [c \in Processes |-> {}] /\ raced = {}
  BY DEF CatalogueInit
<1>2. /\ NoBatch.stage = "none" /\ NoBatch.todo = {} /\ NoBatch.absent = {}
      /\ NoBatch.ids = {} /\ BatchOK(NoBatch)
  BY EmptyBatch DEF NoBatch
<1>3. CatalogueTypeOK
  BY <1>1, <1>2, CatalogueAssumption DEF CatalogueTypeOK, Places, BatchOK
<1>4. BeforeTrue /\ BatchesTrue
  BY <1>1, <1>2 DEF BeforeTrue, BatchesTrue, Seeding, Keyed
<1>5. IdsFree
  <2>1. ASSUME NEW c \in Processes
        PROVE  /\ \A key \in Slugs : <<c, key>> \notin IdsOf(categories)
               /\ \A key \in Skus : <<c, key>> \notin IdsOf(products)
    BY <1>1, CatalogueAssumption
  <2>. QED
    BY <2>1 DEF IdsFree, CategoriesToCome, ProductsToCome
<1>6. RowsTrue /\ SeedsTrue
  BY <1>1, CatalogueAssumption DEF RowsTrue, SeedsTrue, SeedTrue
<1>. QED
  BY <1>1, <1>3, <1>4, <1>5, <1>6 DEF CatalogueInv

LEMMA InitInv ==
  ASSUME Init
  PROVE  Inv
<1>1. /\ CatalogueInv /\ CatalogueTypeOK /\ at = [c \in Processes |-> "begin"]
      /\ bought = {} /\ reviews = {} /\ suggestions = FirstSuggestions
  BY InitCatalogue DEF Init, CatalogueInit, CatalogueInv
<1>2. TypeOK
  BY <1>1, FeedbackAssumption DEF TypeOK
<1>3. LooksTrue /\ ReviewsTrue
  BY <1>1 DEF LooksTrue, Looked, ReviewsTrue, Asks
<1>4. VerdictsTrue /\ OneVerdict
  BY <1>1, FeedbackAssumption DEF VerdictsTrue, OneVerdict, Asks
<1>5. SuggestionsTrue
  BY <1>1, FeedbackAssumption DEF SuggestionsTrue, IdsOf
<1>. QED
  BY <1>1, <1>2, <1>3, <1>4, <1>5 DEF Inv

LEMMA StepInv ==
  ASSUME Inv, NEW c \in Processes, Step(c)
  PROVE  Inv'
<1>1. /\ CatalogueTypeOK /\ BatchesTrue /\ IdsFree /\ ask \in Casts
      /\ BeforeTrue /\ RowsTrue /\ SeedsTrue
  BY DEF Inv, CatalogueInv
<1>2. CatalogueTypeOK' /\ ask' = ask
  BY <1>1, CatalogueTypesStep, StepFrame
<1>3. CatalogueInv'
  BY <1>1, <1>2, BeforeStep, BatchesStep, IdsFreeStep, RowsStep, SeedsStep
  DEF CatalogueInv
<1>4. TypeOK'
  <2>1. ReviewsOK(reviews', IdsOf(products'), bought')
    BY ReviewsStepTypes
  <2>2. suggestions' \subseteq SuggestionRow
    BY SuggestionsTyped
  <2>3. bought' = bought /\ bought \subseteq Purchases
    BY DEF Inv, TypeOK, Step, ReviewStep, SuggestionStep, CheckVisible,
           CheckPurchase, InsertReview, UpdateOwnReview, ReloadReview,
           DeleteOwnReview, CheckDuplicate, InsertSuggestion, LockSuggestion,
           ReviewSuggestion, feedback
  <2>. QED
    BY <1>2, <2>1, <2>2, <2>3 DEF TypeOK, ReviewsOK
<1>. QED
  BY <1>3, <1>4, LooksStep, ReviewsStep, VerdictsStep, SuggestionsStep DEF Inv

LEMMA SameCatalogue ==
  ASSUME CatalogueInv, UNCHANGED catalogue
  PROVE  CatalogueInv'
<1>1. UNCHANGED <<categories, products, users, ask, at, batch, before, raced>>
  BY DEF catalogue
<1>2. CatalogueTypeOK'
  BY <1>1 DEF CatalogueInv, CatalogueTypeOK
<1>3. BeforeTrue' /\ BatchesTrue'
  BY <1>1 DEF CatalogueInv, BeforeTrue, BatchesTrue, Answered, Seeding
<1>4. IdsFree'
  <2>1. ASSUME NEW c \in Processes
        PROVE  /\ CategoriesToCome(c)' = CategoriesToCome(c)
               /\ ProductsToCome(c)' = ProductsToCome(c)
    BY <1>1 DEF CategoriesToCome, ProductsToCome, Asks, Seeding
  <2>. QED
    BY <1>1, <2>1 DEF CatalogueInv, IdsFree
<1>5. RowsTrue'
  BY <1>1 DEF CatalogueInv, RowsTrue, Asks
<1>6. SeedsTrue'
  <2>1. ASSUME NEW c \in Processes, SeedTrue(c)
        PROVE  SeedTrue(c)'
    BY <1>1, <2>1 DEF SeedTrue, DemoNameTaken, KeyTaken, KeyTakenByOther
  <2>. QED
    BY <1>1, <2>1 DEF CatalogueInv, SeedsTrue
<1>. QED
  BY <1>1, <1>2, <1>3, <1>4, <1>5, <1>6 DEF CatalogueInv

(* Orders are completed, or nothing happens.                               *)
LEMMA CompleteInv ==
  ASSUME Inv, UNCHANGED <<catalogue, reviews, suggestions>>,
         bought \subseteq bought', bought' \subseteq Purchases
  PROVE  Inv'
<1>1. UNCHANGED <<categories, products, users, ask, at, batch, before, raced,
                  reviews, suggestions>>
  BY DEF catalogue
<1>2. CatalogueInv'
  BY SameCatalogue DEF Inv
<1>3. TypeOK'
  BY <1>1, <1>2 DEF Inv, TypeOK, CatalogueInv
<1>4. LooksTrue'
  BY <1>1 DEF Inv, LooksTrue, Looked, HiddenBefore
<1>5. ReviewsTrue'
  BY <1>1 DEF Inv, ReviewsTrue, Asks
<1>6. VerdictsTrue' /\ OneVerdict'
  BY <1>1 DEF Inv, VerdictsTrue, OneVerdict, Asks
<1>7. SuggestionsTrue'
  BY <1>1 DEF Inv, SuggestionsTrue, Asks, Precedes
<1>. QED
  BY <1>2, <1>3, <1>4, <1>5, <1>6, <1>7 DEF Inv

LEMMA Invariance == Spec => []Inv
<1>1. Init => Inv
  BY InitInv
<1>2. Inv /\ [Next]_vars => Inv'
  <2>. SUFFICES ASSUME Inv, [Next]_vars
                PROVE  Inv'
    OBVIOUS
  <2>1. bought \subseteq Purchases
    BY DEF Inv, TypeOK
  <2>2. ASSUME NEW c \in Processes, Step(c)
        PROVE  Inv'
    BY <2>2, StepInv
  <2>3. CASE CompleteOrder
    BY <2>1, <2>3, CompleteInv DEF CompleteOrder
  <2>4. CASE UNCHANGED vars
    BY <2>1, <2>4, CompleteInv DEF vars, feedback
  <2>. QED
    BY <2>2, <2>3, <2>4 DEF Next, Finished
<1>. QED
  BY <1>1, <1>2, PTL DEF Spec

-----------------------------------------------------------------------------
(* Every variable has its type, in particular every product has a category *)
(* and every review is the only one of its author for a bought product.    *)
THEOREM FeedbackTyped == Spec => []TypeOK
<1>1. Inv => TypeOK
  BY DEF Inv
<1>. QED
  BY <1>1, Invariance, PTL

(* Two admins never both decide one suggestion: the row lock of            *)
(* ProductSuggestionsService.reviewByAdmin, and its look at the status.    *)
THEOREM VerdictsStand == Spec => []OneVerdict
<1>1. Inv => OneVerdict
  BY DEF Inv
<1>. QED
  BY <1>1, Invariance, PTL

(* Requests about categories, products and reviews that are refused have   *)
(* not changed a row that is there, though some are refused after their    *)
(* UPDATE, when they read the row again.                                   *)
THEOREM RefusalsLeaveNothing == Spec => []RefusedLeavesNothing
<1>1. ASSUME Inv
      PROVE  RefusedLeavesNothing
  <2>1. RowsTrue /\ ReviewsTrue
    BY <1>1 DEF Inv, CatalogueInv
  <2>2. ASSUME NEW k \in categories, k.by # None
        PROVE  at[k.by] \in {"ok", "reload"} \/ ask[k.by].op = "seed"
    BY <2>1, <2>2 DEF RowsTrue, Asks
  <2>3. ASSUME NEW p \in products, p.by # None
        PROVE  at[p.by] \in {"ok", "reload"} \/ ask[p.by].op = "seed"
    BY <2>1, <2>3 DEF RowsTrue
  <2>4. ASSUME NEW v \in reviews
        PROVE  at[v.by] \in {"ok", "reload"}
    BY <2>1 DEF ReviewsTrue
  <2>. QED
    BY <2>2, <2>3, <2>4 DEF RefusedLeavesNothing
<1>. QED
  BY <1>1, Invariance, PTL

(* What was deactivated before a request began takes no product and no     *)
(* review from it: loadUsableCategory and assertProductVisible lock        *)
(* nothing, but what they let pass was written by somebody who had not     *)
(* been answered.                                                          *)
THEOREM HiddenStaysEmpty == Spec => []HiddenTakesNothing
<1>1. ASSUME Inv
      PROVE  HiddenTakesNothing
  <2>1. RowsTrue /\ ReviewsTrue /\ LooksTrue /\ TypeOK /\ CatalogueTypeOK
    BY <1>1 DEF Inv, CatalogueInv
  <2>2. SUFFICES ASSUME NEW p \in products, NEW k \in categories,
                        p.category = k.id
        PROVE  /\ p.by # None /\ ask[p.by].op \in {"createProduct", "patchProduct"}
                    /\ ask[p.by].category = k.id
                  => ~HiddenBefore(k, p.by)
               /\ \A v \in reviews : v.product = p.id =>
                    /\ ~HiddenBefore(p, v.id)
                    /\ HiddenBefore(k, v.id) => p.by \notin before[v.id] \cup {None}
    BY DEF HiddenTakesNothing
  <2>3. p.by \in Processes \cup {None}
    BY <2>1 DEF CatalogueTypeOK, ProductRow
  <2>4. ASSUME p.by # None, ask[p.by].op \in {"createProduct", "patchProduct"},
               ask[p.by].category = k.id
        PROVE  ~HiddenBefore(k, p.by)
    <3>1. at[p.by] = "ok"
      BY <2>1, <2>4 DEF RowsTrue
    <3>2. Looked(p.by) /\ p.by \in Processes
      BY <2>3, <2>4, <3>1 DEF Looked
    <3>. QED
      BY <2>1, <2>4, <3>2 DEF LooksTrue
  <2>5. ASSUME NEW v \in reviews, v.product = p.id
        PROVE  /\ ~HiddenBefore(p, v.id)
               /\ HiddenBefore(k, v.id) => p.by \notin before[v.id] \cup {None}
    <3>1. /\ v.id \in Processes /\ ask[v.id].op = "createReview"
          /\ at[v.id] \in {"reload", "ok"} /\ ask[v.id].product = p.id
      BY <2>1, <2>5 DEF ReviewsTrue, TypeOK
    <3>. QED
      BY <2>1, <2>2, <3>1 DEF LooksTrue
  <2>. QED
    BY <2>4, <2>5
<1>. QED
  BY <1>1, Invariance, PTL

(* A customer has the same name pending twice only if he asked twice at    *)
(* once: the check for duplicates and the insert are two statements.       *)
THEOREM OnlyOverlapsDuplicate == Spec => []DuplicatesOverlap
<1>1. ASSUME Inv
      PROVE  DuplicatesOverlap
  <2>1. SuggestionsTrue /\ VerdictsTrue
    BY <1>1 DEF Inv
  <2>2. ASSUME NEW s \in suggestions, NEW q \in suggestions, s # q,
               s.customer = q.customer, s.name = q.name,
               s.status = "PENDING"
        PROVE  ~Precedes(s.id, q.id)
    <3>1. s.id # q.id
      BY <2>1, <2>2 DEF VerdictsTrue
    <3>2. CASE q.id \notin Processes
      BY <3>2 DEF Precedes
    <3>3. CASE q.id \in Processes
      BY <2>1, <2>2, <3>1, <3>3 DEF SuggestionsTrue, Asks
    <3>. QED
      BY <3>2, <3>3
  <2>. QED
    BY <2>2 DEF DuplicatesOverlap
<1>. QED
  BY <1>1, Invariance, PTL

(* The seed can be run again after any failure: only somebody who writes   *)
(* while it runs, or a demo user name taken by another address, makes it   *)
(* fail.                                                                   *)
THEOREM SeedsComplete == Spec => []SeedFailsOnlyInRace
<1>1. ASSUME Inv
      PROVE  SeedFailsOnlyInRace
  BY <1>1 DEF Inv, CatalogueInv, SeedsTrue, SeedTrue, SeedFailsOnlyInRace
<1>. QED
  BY <1>1, Invariance, PTL
=============================================================================
