----------------------------- MODULE MCAccounts -----------------------------
(***************************************************************************)
(* Small instances of Accounts.                                            *)
(***************************************************************************)
EXTENDS Accounts, TLC

(* Everything but the users is interchangeable.                            *)
Interchangeable ==
  Permutations(Clients) \cup Permutations(Tokens) \cup Permutations(Sessions)
    \cup Permutations(Passwords)
=============================================================================
