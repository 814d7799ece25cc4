--------------------------- MODULE RevenueLedger ----------------------------
(***************************************************************************)
(* What the monthly revenue report promises: a report quotes what the      *)
(* books of a month showed at one moment after the month had ended, and an *)
(* admin is sent one report per month.  The books of a month are never     *)
(* closed: a transaction may commit long after it has taken the time.      *)
(***************************************************************************)
EXTENDS Integers

CONSTANTS
  Admins,
  Senders,
  Months,   \* the months the books are kept for, integers
  Amounts   \* what one order brings in

VARIABLES
  month,    \* the current month in Asia/Bangkok
  revenue,  \* of each month, in VND
  quotes,   \* what senders have found in the books: [by, period, total]
  reports   \* [to, period, total, by]

ledger == <<month, revenue, quotes, reports>>

Init ==
  /\ month \in Months
  /\ revenue = [m \in Months |-> 0]
  /\ quotes = {} /\ reports = {}

Book(m, amount) ==
  /\ m <= month
  /\ revenue' = [revenue EXCEPT ![m] = @ + amount]
  /\ UNCHANGED <<month, quotes, reports>>

Turn ==
  /\ month' = month + 1
  /\ UNCHANGED <<revenue, quotes, reports>>

Quote(by, m) ==
  /\ m < month
  /\ quotes' = quotes \cup {[by |-> by, period |-> m, total |-> revenue[m]]}
  /\ UNCHANGED <<month, revenue, reports>>

Send(q, to) ==
  /\ \A r \in reports : r.period = q.period => r.to \notin to
  /\ reports' = reports \cup
       {[to |-> a, period |-> q.period, total |-> q.total, by |-> q.by] : a \in to}
  /\ quotes' = quotes \ {q}
  /\ UNCHANGED <<month, revenue>>

(* A sender fails before it has sent.                                      *)
Forget(q) ==
  /\ quotes' = quotes \ {q}
  /\ UNCHANGED <<month, revenue, reports>>

Next ==
  \/ \E m \in Months, amount \in Amounts : Book(m, amount)
  \/ Turn
  \/ \E by \in Senders, m \in Months : Quote(by, m)
  \/ \E q \in quotes : Forget(q) \/ \E to \in SUBSET Admins : Send(q, to)

Spec == Init /\ [][Next]_ledger
=============================================================================
