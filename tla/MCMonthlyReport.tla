--------------------------- MODULE MCMonthlyReport --------------------------
(***************************************************************************)
(* Instances of MonthlyReport in which a month is 4 units of time.  They   *)
(* begin in the last days of December of year 1; the tick of January is at *)
(* 97 and that of February at 101.                                         *)
(***************************************************************************)
EXTENDS MonthlyReport, TLC

EqualAmounts == [o \in Orders |-> 1]

(* The members of each set are interchangeable.                            *)
Symmetry ==
  Permutations(Instances) \cup Permutations(Admins) \cup Permutations(Orders)
=============================================================================
