----------------------------- MODULE Catalogue ------------------------------
(***************************************************************************)
(* Categories, products and names of users: CategoriesService,             *)
(* ProductsService (images apart, see ProductImages), the profile part of  *)
(* UsersService, and the command that seeds the demo data.                 *)
(*                                                                         *)
(* A process serves one HTTP request or runs the seed command once.  Its   *)
(* steps are statements that commit at once, but for patchProduct, which   *)
(* holds the lock of the product between its steps.  What has one value    *)
(* per table is called alike in all: "id" and "key", the unique column.    *)
(***************************************************************************)
EXTENDS Naturals, FiniteSets

CONSTANTS
  Processes,
  Casts,           \* who asks for what: functions from processes to requests
  Slugs, Skus, Names, Emails,
  FirstCategories, FirstProducts, FirstUsers,  \* the tables at the start
  DemoCategories,  \* CATEGORY_SEEDS, slugs
  DemoUsers,       \* USER_SEEDS, [id, key]: e-mail and user name
  DemoProducts,    \* PRODUCT_SEEDS, [key, slug, active]
  None

VARIABLES
  categories,  \* [id, key, active, by]: key is the slug
  products,    \* [id, key, category, active, by]: key is the sku
  users,       \* [id, key]: id is the e-mail and key the user name
  ask,         \* the request of each process
  at,          \* the statement it executes next, or its answer
  batch,       \* of a seed: [stage, todo, absent, ids]
  before,      \* ghost: who had been answered when a process began
  raced        \* ghost: seeds that others wrote beside, or could not succeed

tables == <<categories, products, users>>
catalogue == <<categories, products, users, ask, at, batch, before, raced>>

-----------------------------------------------------------------------------
Answers == {"ok", "notFound", "conflict", "error"}
Places ==
  Answers \cup
    {"begin", "reload", "check", "delete", "insert", "category", "update",
     "batch", "failing", "crashed", "purchase"}
Answered(c) == at[c] \in Answers

Asks(c, op, step) == ask[c].op = op /\ at[c] = step
Goto(c, step) == at' = [at EXCEPT ![c] = step]
Refuse(c, answer) == Goto(c, answer) /\ UNCHANGED tables

IdsOf(table) == {row.id : row \in table}
KeyTaken(table, key) == \E row \in table : row.key = key
KeyTakenByOther(table, key, id) ==
  \E row \in table : row.key = key /\ row.id # id

CategoryIdsKnown ==
  IdsOf(FirstCategories) \cup (Processes \X Slugs)
ProductIdsKnown ==
  IdsOf(FirstProducts) \cup (Processes \X Skus)

-----------------------------------------------------------------------------
(* What may be asked for; a column that a PATCH leaves out is None.        *)
NewCategory == [op : {"createCategory"}, key : Slugs, active : BOOLEAN]
CategoryPatch ==
  [op : {"patchCategory"}, id : CategoryIdsKnown, key : Slugs \cup {None},
   active : BOOLEAN \cup {None}]
CategoryRequest ==
  NewCategory \cup CategoryPatch
    \cup [op : {"deleteCategory"}, id : CategoryIdsKnown]

NewProduct ==
  [op : {"createProduct"}, key : Skus, category : CategoryIdsKnown,
   active : BOOLEAN]
ProductPatch ==
  [op : {"patchProduct"}, id : ProductIdsKnown, key : Skus \cup {None},
   category : CategoryIdsKnown \cup {None}, active : BOOLEAN \cup {None}]
ProductRequest ==
  NewProduct \cup ProductPatch
    \cup [op : {"archiveProduct"}, id : ProductIdsKnown]

Registration == [op : {"register"}, id : Emails, key : Names]
ProfileUpdate == [op : {"updateProfile"}, id : IdsOf(FirstUsers), key : Names]
SeedRequest == [op : {"seed"}]

Given(new, old) == IF new = None THEN old ELSE new

-----------------------------------------------------------------------------
(* The rows of the tables.                                                 *)
CategoryRow ==
  [id : CategoryIdsKnown, key : Slugs, active : BOOLEAN,
   by : Processes \cup {None}]
ProductRow(categoryIds) ==
  [id : ProductIdsKnown, key : Skus, category : categoryIds, active : BOOLEAN,
   by : Processes \cup {None}]
UserRow == [id : Emails, key : Names]

(* A primary key and a unique column.                                      *)
Keyed(table) ==
  \A r, q \in table : r # q => r.id # q.id /\ r.key # q.key

ASSUME CatalogueAssumption ==
  /\ None \notin Processes \cup CategoryIdsKnown
  /\ FirstCategories \subseteq CategoryRow /\ Keyed(FirstCategories)
  /\ FirstProducts \subseteq ProductRow(IdsOf(FirstCategories))
  /\ Keyed(FirstProducts)
  /\ FirstUsers \subseteq UserRow /\ Keyed(FirstUsers)
  /\ \A row \in FirstCategories \cup FirstProducts : row.by = None
  /\ IdsOf(FirstCategories) \cap (Processes \X Slugs) = {}
  /\ IdsOf(FirstProducts) \cap (Processes \X Skus) = {}
  /\ DemoCategories \subseteq Slugs
  /\ DemoUsers \subseteq UserRow /\ Keyed(DemoUsers)
  /\ DemoProducts \subseteq
       [key : Skus, slug : DemoCategories, active : BOOLEAN]
  /\ \A r, q \in DemoProducts : r.key = q.key => r = q

-----------------------------------------------------------------------------
(* CategoriesService                                                       *)
CreateCategory(c) ==
  LET r == ask[c] IN
  /\ Asks(c, "createCategory", "begin")
  /\ IF KeyTaken(categories, r.key)
     THEN Refuse(c, "conflict")
     ELSE /\ categories' = categories \cup
               {[id |-> <<c, r.key>>, key |-> r.key, active |-> r.active,
                 by |-> c]}
          /\ Goto(c, "ok")
          /\ UNCHANGED <<products, users>>
  /\ UNCHANGED batch

PatchedCategory(k, r, c) ==
  [id |-> k.id, key |-> Given(r.key, k.key),
   active |-> Given(r.active, k.active), by |-> c]

UpdateCategory(c) ==
  LET r == ask[c] IN
  /\ Asks(c, "patchCategory", "begin")
  /\ IF r.id \in IdsOf(categories) /\ KeyTakenByOther(categories, r.key, r.id)
     THEN Refuse(c, "conflict")
     ELSE /\ categories' =
               {IF k.id = r.id THEN PatchedCategory(k, r, c) ELSE k :
                k \in categories}
          /\ Goto(c, "reload")
          /\ UNCHANGED <<products, users>>
  /\ UNCHANGED batch

ReloadCategory(c) ==
  /\ Asks(c, "patchCategory", "reload")
  /\ Refuse(c, IF ask[c].id \in IdsOf(categories) THEN "ok" ELSE "notFound")
  /\ UNCHANGED batch

InCategory(id) == {p \in products : p.category = id}

FindCategoryToDelete(c) ==
  /\ Asks(c, "deleteCategory", "begin")
  /\ Refuse(c, IF ask[c].id \in IdsOf(categories) THEN "check" ELSE "notFound")
  /\ UNCHANGED batch

CheckCategoryEmpty(c) ==
  /\ Asks(c, "deleteCategory", "check")
  /\ Refuse(c, IF InCategory(ask[c].id) = {} THEN "delete" ELSE "conflict")
  /\ UNCHANGED batch

ProductHeld(id) ==
  \E c \in Processes : /\ ask[c].op = "patchProduct" /\ ask[c].id = id
                       /\ at[c] \in {"category", "update"}

(* ON DELETE RESTRICT looks at the products again and waits for one that   *)
(* is locked.                                                              *)
DeleteCategory(c) ==
  LET id == ask[c].id IN
  /\ Asks(c, "deleteCategory", "delete")
  /\ \A p \in InCategory(id) : ~ProductHeld(p.id)
  /\ IF InCategory(id) = {}
     THEN /\ categories' = {k \in categories : k.id # id}
          /\ Goto(c, "ok")
          /\ UNCHANGED <<products, users>>
     ELSE Refuse(c, "conflict")
  /\ UNCHANGED batch

-----------------------------------------------------------------------------
(* ProductsService                                                         *)

(* Mutant: an inactive category takes products.                            *)
UsableIfThere(id, step) ==
  IF id \in IdsOf(categories) THEN step ELSE "notFound"

(* loadUsableCategory                                                      *)
Usable(id, step) ==
  IF id \notin IdsOf(categories) THEN "notFound"
  ELSE IF \E k \in categories : k.id = id /\ k.active THEN step ELSE "conflict"

(* Mutant: products.category_id has no foreign key.                        *)
NoForeignKey(id) == TRUE

(* The foreign key of products.category_id; toConflictOrRethrow does not   *)
(* translate its error.                                                    *)
CategoryThere(id) == id \in IdsOf(categories)

LoadCategory(c) ==
  /\ Asks(c, "createProduct", "begin")
  /\ Refuse(c, Usable(ask[c].category, "insert"))
  /\ UNCHANGED batch

InsertProduct(c) ==
  LET r == ask[c] IN
  /\ Asks(c, "createProduct", "insert")
  /\ IF KeyTaken(products, r.key) THEN Refuse(c, "conflict")
     ELSE IF ~CategoryThere(r.category) THEN Refuse(c, "error")
     ELSE /\ products' = products \cup
               {[id |-> <<c, r.key>>, key |-> r.key, category |-> r.category,
                 active |-> r.active, by |-> c]}
          /\ Goto(c, "ok")
          /\ UNCHANGED <<categories, users>>
  /\ UNCHANGED batch

LockProduct(c) ==
  LET id == ask[c].id IN
  /\ Asks(c, "patchProduct", "begin") /\ ~ProductHeld(id)
  /\ Refuse(c, IF id \in IdsOf(products) THEN "category" ELSE "notFound")
  /\ UNCHANGED batch

LoadNewCategory(c) ==
  LET id == ask[c].category IN
  /\ Asks(c, "patchProduct", "category")
  /\ Refuse(c, IF id = None THEN "update" ELSE Usable(id, "update"))
  /\ UNCHANGED batch

PatchedProduct(p, r, c) ==
  [id |-> p.id, key |-> Given(r.key, p.key),
   category |-> Given(r.category, p.category),
   active |-> Given(r.active, p.active), by |-> c]

(* UPDATE and COMMIT.  A category that does not change is not looked up.   *)
UpdateProduct(c) ==
  LET r == ask[c]
      Unmoved == \E p \in products :
                   p.id = r.id /\ Given(r.category, p.category) = p.category
  IN
  /\ Asks(c, "patchProduct", "update")
  /\ IF KeyTakenByOther(products, r.key, r.id) THEN Refuse(c, "conflict")
     ELSE IF ~Unmoved /\ ~CategoryThere(r.category) THEN Refuse(c, "error")
     ELSE /\ products' =
               {IF p.id = r.id THEN PatchedProduct(p, r, c) ELSE p :
                p \in products}
          /\ Goto(c, "ok")
          /\ UNCHANGED <<categories, users>>
  /\ UNCHANGED batch

ArchiveProduct(c) ==
  LET id == ask[c].id IN
  /\ Asks(c, "archiveProduct", "begin") /\ ~ProductHeld(id)
  /\ IF id \in IdsOf(products)
     THEN /\ products' = {IF p.id = id
                          THEN [p EXCEPT !.active = FALSE, !.by = c] ELSE p :
                          p \in products}
          /\ Goto(c, "ok")
          /\ UNCHANGED <<categories, users>>
     ELSE Refuse(c, "notFound")
  /\ UNCHANGED batch

-----------------------------------------------------------------------------
(* UsersService: create, for a registration, and updateProfile             *)
CreateUser(c) ==
  LET r == ask[c] IN
  /\ Asks(c, "register", "begin")
  /\ IF r.id \in IdsOf(users) \/ KeyTaken(users, r.key)
     THEN Refuse(c, "conflict")
     ELSE /\ users' = users \cup {[id |-> r.id, key |-> r.key]}
          /\ Goto(c, "ok")
          /\ UNCHANGED <<categories, products>>
  /\ UNCHANGED batch

UpdateProfile(c) ==
  LET r == ask[c] IN
  /\ Asks(c, "updateProfile", "begin")
  /\ IF KeyTakenByOther(users, r.key, r.id)
     THEN Refuse(c, "conflict")
     ELSE /\ users' = {IF u.id = r.id THEN [u EXCEPT !.key = r.key] ELSE u :
                       u \in users}
          /\ Goto(c, "ok")
          /\ UNCHANGED <<categories, products>>
  /\ UNCHANGED batch

-----------------------------------------------------------------------------
(* seedDemoData: three batches, the records of a batch side by side.       *)
Batch(stage) ==
  CASE stage = "categories" -> {[key |-> slug] : slug \in DemoCategories}
    [] stage = "users" -> DemoUsers
    [] stage = "products" -> DemoProducts

NewBatch(stage) ==
  [stage |-> stage, todo |-> Batch(stage), absent |-> {}, ids |-> {}]
NoBatch == [stage |-> "none", todo |-> {}, absent |-> {}, ids |-> {}]

Stages == {"categories", "users", "products"}
AnyRecord == UNION {Batch(stage) : stage \in Stages}
BatchRecord ==
  [stage : Stages \cup {"none"}, todo : SUBSET AnyRecord,
   absent : SUBSET AnyRecord, ids : SUBSET CategoryRow]

Seeding(c) == ask[c].op = "seed" /\ at[c] \in {"batch", "failing"}

BeginSeed(c) ==
  /\ Asks(c, "seed", "begin")
  /\ batch' = [batch EXCEPT ![c] = NewBatch("categories")]
  /\ Refuse(c, "batch")

(* Mutant: users are not looked up before they are inserted.               *)
UsersNotLookedUp(stage, r) ==
  \/ stage = "categories" /\ KeyTaken(categories, r.key)
  \/ stage = "products" /\ KeyTaken(products, r.key)

(* repository.exists by slug, e-mail or sku                                *)
Exists(stage, r) ==
  \/ stage = "categories" /\ KeyTaken(categories, r.key)
  \/ stage = "users" /\ r.id \in IdsOf(users)
  \/ stage = "products" /\ KeyTaken(products, r.key)

LookedUp(b, r) ==
  [stage |-> b.stage, todo |-> b.todo \ {r},
   absent |-> IF Exists(b.stage, r) THEN b.absent ELSE b.absent \cup {r},
   ids |-> b.ids]

CheckRecord(c) ==
  \E r \in batch[c].todo :
    /\ Seeding(c)
    /\ batch' = [batch EXCEPT ![c] = LookedUp(@, r)]
    /\ UNCHANGED <<tables, at>>

(* categoryIdBySlug as it was read before the batch of the products        *)
CategoryIds(c, r) == {k.id : k \in {k \in batch[c].ids : k.key = r.slug}}

Insertable(c, r) ==
  \/ batch[c].stage = "categories" /\ ~KeyTaken(categories, r.key)
  \/ /\ batch[c].stage = "users"
     /\ r.id \notin IdsOf(users) /\ ~KeyTaken(users, r.key)
  \/ /\ batch[c].stage = "products" /\ ~KeyTaken(products, r.key)
     /\ \E id \in CategoryIds(c, r) : CategoryThere(id)

InsertRecord(c) ==
  \E r \in batch[c].absent :
    /\ Seeding(c)
    /\ batch' = [batch EXCEPT ![c].absent = @ \ {r}]
    /\ \/ ~Insertable(c, r) /\ Refuse(c, "failing")
       \/ /\ Insertable(c, r) /\ batch[c].stage = "categories"
          /\ categories' = categories \cup
               {[id |-> <<c, r.key>>, key |-> r.key, active |-> TRUE,
                 by |-> c]}
          /\ UNCHANGED <<products, users, at>>
       \/ /\ Insertable(c, r) /\ batch[c].stage = "users"
          /\ users' = users \cup {r}
          /\ UNCHANGED <<categories, products, at>>
       \/ /\ Insertable(c, r) /\ batch[c].stage = "products"
          /\ products' = products \cup
               {[id |-> <<c, r.key>>, key |-> r.key, active |-> r.active,
                 category |-> id, by |-> c] : id \in CategoryIds(c, r)}
          /\ UNCHANGED <<categories, users, at>>

(* await Promise.all; the categories are read before the products.         *)
EndBatch(c) ==
  /\ Asks(c, "seed", "batch")
  /\ batch[c].todo = {} /\ batch[c].absent = {}
  /\ \/ /\ batch[c].stage = "categories"
        /\ batch' = [batch EXCEPT ![c] = NewBatch("users")]
        /\ UNCHANGED at
     \/ /\ batch[c].stage = "users"
        /\ batch' = [batch EXCEPT
             ![c] = [NewBatch("products") EXCEPT !.ids = categories]]
        /\ UNCHANGED at
     \/ /\ batch[c].stage = "products"
        /\ batch' = [batch EXCEPT ![c] = NoBatch] /\ Goto(c, "ok")
  /\ UNCHANGED tables

(* The first failure ends the command, whatever the other records of the   *)
(* batch have come to; so does a crash.                                    *)
EndSeed(c) ==
  /\ Seeding(c)
  /\ batch' = [batch EXCEPT ![c] = NoBatch]
  /\ Refuse(c, IF at[c] = "failing" THEN "error" ELSE "crashed")

-----------------------------------------------------------------------------
CatalogueInit ==
  /\ categories = FirstCategories /\ products = FirstProducts
  /\ users = FirstUsers
  /\ ask \in Casts
  /\ at = [c \in Processes |-> "begin"]
  /\ batch = [c \in Processes |-> NoBatch]
  /\ before = [c \in Processes |-> {}]
  /\ raced = {}

CategoryStep(c) ==
  \/ CreateCategory(c) \/ UpdateCategory(c) \/ ReloadCategory(c)
  \/ FindCategoryToDelete(c) \/ CheckCategoryEmpty(c) \/ DeleteCategory(c)

ProductStep(c) ==
  \/ LoadCategory(c) \/ InsertProduct(c)
  \/ LockProduct(c) \/ LoadNewCategory(c) \/ UpdateProduct(c)
  \/ ArchiveProduct(c)

SeedStep(c) ==
  \/ BeginSeed(c) \/ CheckRecord(c) \/ InsertRecord(c) \/ EndBatch(c)
  \/ EndSeed(c)

CatalogueStep(c) ==
  CategoryStep(c) \/ ProductStep(c) \/ CreateUser(c) \/ UpdateProfile(c)
    \/ SeedStep(c)

(* A demo user name that somebody with another address has.                *)
DemoNameTaken ==
  \E d \in DemoUsers : KeyTakenByOther(users, d.key, d.id)

(* What process c does besides its step: the ghosts.                       *)
Watch(c) ==
  /\ before' = IF at[c] = "begin"
               THEN [before EXCEPT ![c] = {d \in Processes : Answered(d)}]
               ELSE before
  /\ raced' = raced
       \cup {s \in Processes \ {c} : Seeding(s) /\ tables' # tables}
       \cup (IF Asks(c, "seed", "begin") /\ DemoNameTaken THEN {c} ELSE {})
  /\ UNCHANGED ask

-----------------------------------------------------------------------------
(* Every variable has its type; ids and unique columns identify rows, and  *)
(* a product's category exists, as loadCategoryDisplayFields relies on.    *)
CatalogueTypeOK ==
  /\ categories \subseteq CategoryRow
  /\ products \subseteq ProductRow(IdsOf(categories))
  /\ users \subseteq UserRow
  /\ \A table \in {categories, products, users} : Keyed(table)
  /\ at \in [Processes -> Places]
  /\ batch \in [Processes -> BatchRecord]
  /\ \A c \in Processes :
       \/ batch[c].stage = "none"
       \/ batch[c].todo \cup batch[c].absent \subseteq Batch(batch[c].stage)
  /\ before \in [Processes -> SUBSET Processes]
  /\ raced \subseteq Processes

(* A seed command fails only when somebody else writes while it runs, or a *)
(* demo user name was taken from the start: whatever an earlier run left   *)
(* behind that failed, crashed or was repeated, the next one completes it. *)
SeedFailsOnlyInRace ==
  \A c \in Processes :
    ask[c].op = "seed" /\ at[c] \in {"failing", "error"} => c \in raced

-----------------------------------------------------------------------------
(* Parts of the inductive invariant of FeedbackProofs.                     *)

(* Who had been answered when c began still is.                            *)
BeforeTrue == \A c \in Processes : \A d \in before[c] : Answered(d)

(* A seed is in one of its batches, inserts what it has looked up, and has *)
(* read the categories once.                                               *)
BatchesTrue ==
  \A c \in Processes :
    /\ Seeding(c) => batch[c].stage # "none"
    /\ batch[c].todo \cap batch[c].absent = {}
    /\ Keyed(batch[c].ids)

(* The slugs and skus of rows that process c may still insert.             *)
CategoriesToCome(c) ==
  {key \in Slugs :
     \/ Asks(c, "createCategory", "begin") /\ key = ask[c].key
     \/ Asks(c, "seed", "begin")
     \/ /\ Seeding(c) /\ batch[c].stage = "categories"
        /\ \E r \in batch[c].todo \cup batch[c].absent : r.key = key}

ProductsToCome(c) ==
  {key \in Skus :
     \/ /\ ask[c].op = "createProduct" /\ at[c] \in {"begin", "insert"}
        /\ key = ask[c].key
     \/ Asks(c, "seed", "begin")
     \/ Seeding(c) /\ batch[c].stage \in {"categories", "users"}
     \/ /\ Seeding(c) /\ batch[c].stage = "products"
        /\ \E r \in batch[c].todo \cup batch[c].absent : r.key = key}

(* Their ids are new, also where the row has another slug by then.         *)
IdsFree ==
  \A c \in Processes :
    /\ \A key \in CategoriesToCome(c) : <<c, key>> \notin IdsOf(categories)
    /\ \A key \in ProductsToCome(c) : <<c, key>> \notin IdsOf(products)

(* The last writer of a row asked for that and was not refused so far.     *)
RowsTrue ==
  /\ \A k \in categories : k.by # None =>
       \/ ask[k.by].op = "seed"
       \/ Asks(k.by, "createCategory", "ok")
       \/ /\ ask[k.by].op = "patchCategory" /\ at[k.by] \in {"reload", "ok"}
          /\ k.id = ask[k.by].id
  /\ \A p \in products : p.by # None =>
       \/ ask[p.by].op = "seed"
       \/ /\ ask[p.by].op \in {"createProduct", "patchProduct", "archiveProduct"}
          /\ at[p.by] = "ok"

(* What a seed that is not disturbed finds.                                *)
SeedTrue(c) ==
  LET b == batch[c] IN
  /\ at[c] \notin {"failing", "error"}
  /\ at[c] = "batch" =>
       /\ ~DemoNameTaken
       /\ \A slug \in DemoCategories :
            \/ KeyTaken(categories, slug)
            \/ b.stage = "categories" /\ [key |-> slug] \in b.todo \cup b.absent
       /\ b.stage = "categories" =>
            \A r \in b.absent : ~KeyTaken(categories, r.key)
       /\ b.stage = "users" => \A r \in b.absent : r.id \notin IdsOf(users)
       /\ b.stage = "products" =>
            /\ b.ids = categories
            /\ \A r \in b.absent : ~KeyTaken(products, r.key)

SeedsTrue == \A c \in Processes \ raced : ask[c].op = "seed" => SeedTrue(c)

CatalogueInv ==
  /\ CatalogueTypeOK /\ ask \in Casts
  /\ BeforeTrue /\ BatchesTrue /\ IdsFree /\ RowsTrue /\ SeedsTrue
=============================================================================
