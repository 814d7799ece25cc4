----------------------------- MODULE MCFeedback -----------------------------
(***************************************************************************)
(* An instance of Feedback: two categories, one of them empty, a product,  *)
(* a user, a suggestion; and casts of up to three processes.               *)
(***************************************************************************)
EXTENDS Feedback, TLC

CONSTANTS c1, c2, c3, k1, k2, p1, s0

MCCategories ==
  {[id |-> k1, key |-> "a", active |-> TRUE, by |-> None],
   [id |-> k2, key |-> "b", active |-> TRUE, by |-> None]}
MCProducts ==
  {[id |-> p1, key |-> "x", category |-> k1, active |-> TRUE, by |-> None]}
MCUsers == {[id |-> "u1", key |-> "ann"]}
MCSuggestions ==
  {[id |-> s0, customer |-> "u2", name |-> "n", status |-> "PENDING",
    by |-> None]}

MCDemoUsers == {[id |-> "demo@", key |-> "demo"]}
MCDemoProducts ==
  {[key |-> "demo", slug |-> "demo", active |-> FALSE],
   [key |-> "y", slug |-> "b", active |-> TRUE]}
MCPurchases == {<<"u1", p1>>}

None3 == {[op |-> "none"]}

CategoryRequests ==
  {[op |-> "createCategory", key |-> "demo", active |-> TRUE],
   [op |-> "patchCategory", id |-> k1, key |-> None, active |-> FALSE],
   [op |-> "patchCategory", id |-> k2, key |-> "demo", active |-> None],
   [op |-> "patchCategory", id |-> k2, key |-> None, active |-> FALSE],
   [op |-> "deleteCategory", id |-> k2],
   [op |-> "deleteCategory", id |-> k1]}

ProductRequests ==
  {[op |-> "createProduct", key |-> "y", category |-> k2, active |-> TRUE],
   [op |-> "patchProduct", id |-> p1, key |-> None, category |-> k2,
    active |-> None],
   [op |-> "patchProduct", id |-> p1, key |-> "y", category |-> None,
    active |-> FALSE],
   [op |-> "archiveProduct", id |-> p1]}

UserRequests ==
  {[op |-> "updateProfile", id |-> "u1", key |-> "demo"],
   [op |-> "register", id |-> "u2", key |-> "demo"],
   [op |-> "register", id |-> "demo@", key |-> "bob"]}

ReviewRequests ==
  {[op |-> "createReview", user |-> "u1", product |-> p1],
   [op |-> "updateReview", user |-> "u1", id |-> c1],
   [op |-> "updateReview", user |-> "u2", id |-> c1],
   [op |-> "deleteReview", user |-> "u1", id |-> c1]}

SuggestionRequests ==
  {[op |-> "suggest", user |-> "u1", name |-> "n"],
   [op |-> "suggest", user |-> "u2", name |-> "n"],
   [op |-> "reviewSuggestion", id |-> s0, status |-> "APPROVED"],
   [op |-> "reviewSuggestion", id |-> s0, status |-> "REJECTED"]}

CatalogueRequests == CategoryRequests \cup ProductRequests
Seed == {[op |-> "seed"]}

Cast(first, second, third) ==
  {(c1 :> q) @@ (c2 :> r) @@ (c3 :> t) : q \in first, r \in second, t \in third}

(* Admins at the catalogue; seeds and whoever disturbs them; reviews of a  *)
(* product that moves and hides; suggestions.                              *)
MCCasts ==
  Cast(CatalogueRequests, CatalogueRequests, CatalogueRequests)
    \cup Cast(Seed, Seed, None3 \cup CatalogueRequests \cup UserRequests)
    \cup Cast(Seed, CatalogueRequests, UserRequests)
    \cup Cast({[op |-> "createReview", user |-> "u1", product |-> p1]},
              ReviewRequests, ReviewRequests \cup CatalogueRequests)
    \cup Cast({[op |-> "createReview", user |-> "u1", product |-> p1]},
              CatalogueRequests, CatalogueRequests)
    \cup Cast(SuggestionRequests, SuggestionRequests, SuggestionRequests)
=============================================================================
