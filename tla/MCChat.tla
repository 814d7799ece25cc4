------------------------------- MODULE MCChat -------------------------------
(***************************************************************************)
(* A small instance of Chat.                                               *)
(***************************************************************************)
EXTENDS Chat, TLC

CONSTANTS ann, bob, root, phone, desk

MCOwner == [a \in Apps |-> IF a = phone THEN ann ELSE root]

Interchangeable == Permutations(Conversations) \cup Permutations(Clients)
Senders ==
  Interchangeable \cup Permutations(Customers) \cup Permutations(Bodies)
=============================================================================
