---------------------------- MODULE MCMailOutbox ----------------------------
(***************************************************************************)
(* Small instances of MailOutbox.                                          *)
(***************************************************************************)
EXTENDS MailOutbox, TLC

(* Instances are interchangeable.                                         *)
InstanceSymmetry == Permutations(Instances)
=============================================================================
