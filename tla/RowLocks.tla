------------------------------ MODULE RowLocks ------------------------------
(***************************************************************************)
(* The row locks of PostgreSQL, as the shop's transactions use them.  The  *)
(* database is not part of the repository: the modes below are the ones    *)
(* its statements ask for.                                                 *)
(*                                                                         *)
(*   "UPDATE"         SELECT ... FOR UPDATE (TypeORM pessimistic_write)    *)
(*   "NO KEY UPDATE"  a plain UPDATE of columns no foreign key refers to   *)
(*   "SHARE"          SELECT ... FOR SHARE (TypeORM pessimistic_read)      *)
(*   "KEY SHARE"      the check of a foreign key on the row it refers to   *)
(*                                                                         *)
(* A lock lives until its transaction commits or rolls back.               *)
(***************************************************************************)

LockMode == {"UPDATE", "NO KEY UPDATE", "SHARE", "KEY SHARE"}

(* The pairs of modes two transactions cannot hold on one row together.    *)
Conflicts(a, b) ==
  \/ "UPDATE" \in {a, b}
  \/ {a, b} = {"SHARE", "NO KEY UPDATE"}
  \/ {a, b} = {"NO KEY UPDATE"}

(* held is a set of locks [conn, row, mode].  Connection c is granted mode *)
(* on row when no other connection holds a conflicting lock on it.         *)
Grantable(held, c, row, mode) ==
  \A l \in held : l.conn # c /\ l.row = row => ~Conflicts(l.mode, mode)

(* What PostgreSQL's lock manager guarantees of the locks it has granted.  *)
Compatible(held) ==
  \A l, m \in held : l.conn # m.conn /\ l.row = m.row => ~Conflicts(l.mode, m.mode)
=============================================================================
