-------------------------- MODULE MCProductImages ---------------------------
(***************************************************************************)
(* A small instance of ProductImages.                                      *)
(***************************************************************************)
EXTENDS ProductImages
=============================================================================
