--------------------------- MODULE MonthlyReport ----------------------------
(***************************************************************************)
(* SYS-04, MonthlyReportService: on the first of a month every instance of *)
(* the application sums the orders completed in the month before and       *)
(* creates one row of email_notifications per active admin; MailOutbox     *)
(* takes over from there.                                                  *)
(*                                                                         *)
(* Clocks count a unit of time that divides a month; months are equally    *)
(* long.  Month 12 * y + i is the one with getUTCMonth() = i in year y.    *)
(***************************************************************************)
EXTENDS Integers, FiniteSets, FiniteSetsExt

CONSTANTS
  Admins, Instances, Orders,
  Amount,         \* orders.total_vnd of each order
  MonthLength,
  BangkokOffset,  \* BANGKOK_UTC_OFFSET_MS
  ServerOffset,   \* the time zone of the server, in which cron counts
  TickOffset,     \* 00:10 of the first of the month
  Start, End,     \* bounds: the time a behaviour takes, in UTC
  MaxFaults       \* bound: failed statements and crashes

ASSUME ReportAssumption ==
  /\ Amount \in [Orders -> Nat] /\ IsFiniteSet(Orders)
  /\ MonthLength \in Nat \ {0} /\ BangkokOffset \in Nat
  /\ ServerOffset \in Int /\ TickOffset \in Nat
  /\ Start \in Nat /\ End \in Nat /\ Start <= End /\ MaxFaults \in Nat

VARIABLES
  now,        \* UTC
  order,      \* [status, completedAt] of each order
  active,     \* admins whose status is ACTIVE
  reports,    \* rows of event type MONTHLY_REVENUE: [to, period, total, by],
              \* and as a ghost the orders that were open at the sum
  run,        \* runMonthlyReport of each instance
  isRunning,  \* instances whose flag is set
  due,        \* instances whose cron job is to be called at this moment
  owed,       \* ghost: <<admin, month>> pairs an instance has to report to
  faults

vars == <<now, order, active, reports, run, isRunning, due, owed, faults>>
mail == <<reports, run, isRunning, due, owed>>

-----------------------------------------------------------------------------
(* getPreviousMonthBangkokRange                                            *)
BangkokMonth(t) == (t + BangkokOffset) \div MonthLength

(* Mutant: the range is taken in UTC.                                      *)
UtcMonthStart(year, monthIndex) == (12 * year + monthIndex) * MonthLength

BangkokMonthStartUtc(year, monthIndex) ==
  (12 * year + monthIndex) * MonthLength - BangkokOffset

(* Mutant: January is not wrapped.                                         *)
NotWrapped(t) ==
  LET year == BangkokMonth(t) \div 12
      monthIndex == BangkokMonth(t) % 12
  IN  [from |-> BangkokMonthStartUtc(year, monthIndex - 1),
       to |-> BangkokMonthStartUtc(year, monthIndex),
       period |-> <<year, monthIndex - 1>>]

PreviousMonthRange(t) ==
  LET year == BangkokMonth(t) \div 12
      monthIndex == BangkokMonth(t) % 12
      previousIndex == IF monthIndex = 0 THEN 11 ELSE monthIndex - 1
      previousYear == IF monthIndex = 0 THEN year - 1 ELSE year
  IN  [from |-> BangkokMonthStartUtc(previousYear, previousIndex),
       to |-> BangkokMonthStartUtc(year, monthIndex),
       period |-> <<previousYear, previousIndex>>]

(* '0 10 0 1 * *' in the time zone of the server.                          *)
IsTick(t) == (t + ServerOffset) % MonthLength = TickOffset

(* Mutant: the range includes its end.                                     *)
CompletedUpTo(from, to) ==
  {o \in Orders : /\ order[o].status = "COMPLETED"
                  /\ order[o].completedAt \in from..to}

Completed(from, to) ==
  {o \in Orders : /\ order[o].status = "COMPLETED"
                  /\ order[o].completedAt \in from..(to - 1)}
Total(S) == MapThenSumSet(LAMBDA o : Amount[o], S)
SumCompletedRevenue(from, to) == Total(Completed(from, to))

-----------------------------------------------------------------------------
(* OrdersService.updateStatusByAdmin takes the application's time while it *)
(* holds the order, and commits or fails at any time after that.           *)
Stamp(o) ==
  /\ order[o].status = "CONFIRMED"
  /\ order' = [order EXCEPT ![o] = [status |-> "stamped", completedAt |-> now]]
  /\ UNCHANGED <<now, active, mail, faults>>

Settle(o) ==
  /\ order[o].status = "stamped"
  /\ \/ order' = [order EXCEPT ![o].status = "COMPLETED"]
     \/ order' = [order EXCEPT ![o] =
                    [status |-> "CONFIRMED", completedAt |-> 0]]
  /\ UNCHANGED <<now, active, mail, faults>>

(* An admin is activated or deactivated.                                   *)
SetStatus(a) ==
  /\ active' = (active \ {a}) \cup ({a} \ active)
  /\ UNCHANGED <<now, order, mail, faults>>

-----------------------------------------------------------------------------
Idle == [at |-> "idle", now |-> 0, admins |-> {}, total |-> 0, open |-> {}]
Down == [Idle EXCEPT !.at = "down"]

At(i, step) == run[i].at = step
Working(i) == run[i].at \in {"find", "sum", "insert"}

(* Mutant: isRunning is not reset.                                         *)
ReturnRunning(i) == run' = [run EXCEPT ![i] = Idle] /\ UNCHANGED isRunning

(* finally                                                                 *)
Return(i) ==
  /\ run' = [run EXCEPT ![i] = Idle]
  /\ isRunning' = isRunning \ {i}

HandleCron(i) ==
  /\ i \in due
  /\ due' = due \ {i}
  /\ IF i \in isRunning
     THEN UNCHANGED <<run, isRunning>>
     ELSE /\ isRunning' = isRunning \cup {i}
          /\ run' = [run EXCEPT ![i] = [Idle EXCEPT !.at = "find", !.now = now]]
  /\ UNCHANGED <<now, order, active, reports, owed, faults>>

FindAdmins(i) ==
  /\ At(i, "find")
  /\ owed' = [owed EXCEPT ![i] = active \X {BangkokMonth(run[i].now) - 1}]
  /\ IF active = {}
     THEN Return(i)
     ELSE /\ run' = [run EXCEPT ![i].at = "sum", ![i].admins = active]
          /\ UNCHANGED isRunning
  /\ UNCHANGED <<now, order, active, reports, due, faults>>

(* The orders that are being completed and will be of month m.             *)
Open(m) ==
  {o \in Orders : /\ order[o].status = "stamped"
                  /\ BangkokMonth(order[o].completedAt) = m}

SumRevenue(i) ==
  LET range == PreviousMonthRange(run[i].now) IN
  /\ At(i, "sum")
  /\ run' = [run EXCEPT ![i].at = "insert",
               ![i].total = SumCompletedRevenue(range.from, range.to),
               ![i].open = Open(BangkokMonth(run[i].now) - 1)]
  /\ UNCHANGED <<now, order, active, reports, isRunning, due, owed, faults>>

(* Mutant: the index compares the payload too.                             *)
InsertedAll(rows) == rows

(* Mutant: one conflict takes back the whole insert.                       *)
AllOrNone(rows) ==
  {r \in rows : \A s \in reports, q \in rows :
                   <<s.to, s.period>> # <<q.to, q.period>>}

(* ON CONFLICT DO NOTHING, on (recipient_email, event_type, report_period) *)
Inserted(rows) ==
  {r \in rows : \A s \in reports : <<s.to, s.period>> # <<r.to, r.period>>}

InsertReports(i) ==
  /\ At(i, "insert")
  /\ reports' = reports \cup
       Inserted({[to |-> a, total |-> run[i].total, by |-> i, open |-> run[i].open,
                  period |-> PreviousMonthRange(run[i].now).period] :
                 a \in run[i].admins})
  /\ Return(i)
  /\ UNCHANGED <<now, order, active, due, owed, faults>>

Fault == faults < MaxFaults /\ faults' = faults + 1

(* A statement fails: the run is logged and given up.                      *)
Fail(i) ==
  /\ Working(i) /\ Fault
  /\ owed' = [owed EXCEPT ![i] = {}]
  /\ Return(i)
  /\ UNCHANGED <<now, order, active, reports, due>>

Crash(i) ==
  /\ ~At(i, "down") /\ Fault
  /\ run' = [run EXCEPT ![i] = Down]
  /\ isRunning' = isRunning \ {i}
  /\ due' = due \ {i}
  /\ owed' = [owed EXCEPT ![i] = {}]
  /\ UNCHANGED <<now, order, active, reports>>

Restart(i) ==
  /\ At(i, "down")
  /\ run' = [run EXCEPT ![i] = Idle]
  /\ UNCHANGED <<now, order, active, reports, isRunning, due, owed, faults>>

(* Time does not pass over a job that is due.  Bound: a run takes less     *)
(* than a month.                                                           *)
Clock ==
  /\ now < End /\ due = {}
  /\ now' = now + 1
  /\ IF IsTick(now + 1)
     THEN /\ \A i \in Instances : ~Working(i)
          /\ due' = {i \in Instances : ~At(i, "down")}
          /\ owed' = [i \in Instances |->
               IF At(i, "down") THEN {}
               ELSE active \X {BangkokMonth(now + 1) - 1}]
     ELSE UNCHANGED <<due, owed>>
  /\ UNCHANGED <<order, active, reports, run, isRunning, faults>>

-----------------------------------------------------------------------------
Init ==
  /\ now = Start
  /\ order = [o \in Orders |-> [status |-> "CONFIRMED", completedAt |-> 0]]
  /\ active \in SUBSET Admins
  /\ reports = {}
  /\ run = [i \in Instances |-> Idle]
  /\ isRunning = {} /\ due = {}
  /\ owed = [i \in Instances |-> {}]
  /\ faults = 0

Work(i) == HandleCron(i) \/ FindAdmins(i) \/ SumRevenue(i) \/ InsertReports(i)

Next ==
  \/ \E o \in Orders : Stamp(o) \/ Settle(o)
  \/ \E a \in Admins : SetStatus(a)
  \/ \E i \in Instances : Work(i) \/ Fail(i) \/ Crash(i) \/ Restart(i)
  \/ Clock

Spec == Init /\ [][Next]_vars

-----------------------------------------------------------------------------
MonthsKept == (BangkokMonth(Start) - 1)..BangkokMonth(End)
Month(period) == 12 * period[1] + period[2]

(* Every variable has its type; a period has a month from 0 to 11.         *)
TypeOK ==
  /\ now \in Start..End
  /\ order \in [Orders -> [status : {"CONFIRMED", "stamped", "COMPLETED"},
                           completedAt : 0..End]]
  /\ active \subseteq Admins
  /\ reports \subseteq [to : Admins, period : Int \X (0..11), total : Nat,
                        by : Instances, open : SUBSET Orders]
  /\ run \in [Instances -> [at : {"idle", "find", "sum", "insert", "down"},
                            now : 0..End, admins : SUBSET Admins, total : Nat,
                            open : SUBSET Orders]]
  /\ isRunning \subseteq Instances /\ due \subseteq Instances
  /\ owed \in [Instances -> SUBSET (Admins \X MonthsKept)]
  /\ faults \in 0..MaxFaults

(* The books of RevenueLedger are the committed orders, by the month of    *)
(* Bangkok in which completedAt falls; its quotes are the totals of runs   *)
(* that have not inserted yet, and its reports are the rows.               *)
CompletedIn(m) ==
  {o \in Orders : /\ order[o].status = "COMPLETED"
                  /\ BangkokMonth(order[o].completedAt) = m}
Books == [m \in MonthsKept |-> Total(CompletedIn(m))]

QuoteOf(i) ==
  [by |-> i, period |-> BangkokMonth(run[i].now) - 1, total |-> run[i].total]
Quotes == {QuoteOf(i) : i \in {j \in Instances : At(j, "insert")}}

Sent ==
  {[to |-> r.to, period |-> Month(r.period), total |-> r.total, by |-> r.by] :
   r \in reports}

Ledger == INSTANCE RevenueLedger WITH
  Months <- MonthsKept, Senders <- Instances,
  Amounts <- {Amount[o] : o \in Orders},
  month <- BangkokMonth(now), revenue <- Books, quotes <- Quotes,
  reports <- Sent

(* runMonthlyReport implements the ledger: whatever instances report at    *)
(* once, fail or die, and whatever orders are completed around midnight or *)
(* the turn of the year, there is one report per admin and month, and it   *)
(* says what the books of that month showed at some moment after it ended. *)
LedgerKept == Ledger!Spec

(* How far a report may be from the books, at any later time: it lacks     *)
(* orders whose completion had taken its time in that month but had not    *)
(* committed when the report was summed, and no others; and it has no      *)
(* order too many, none of another month and none twice (updateStatusBy-   *)
(* Admin stamps completedAt before it commits; sumCompletedRevenue).       *)
LacksOnlyOpen ==
  \A r \in reports : r.total = Total(CompletedIn(Month(r.period)) \ r.open)

(* An instance that was up when its job was due and that neither crashed   *)
(* nor had a statement fail leaves no admin it had to report to without    *)
(* the report of the month that ended, whatever happened to other          *)
(* instances or in other months.                                           *)
NobodyForgotten ==
  \A i \in Instances \ due : At(i, "idle") =>
    \A debt \in owed[i] : \E r \in reports :
      <<r.to, Month(r.period)>> = debt

-----------------------------------------------------------------------------
(* The inductive invariant of MonthlyReportProofs.                         *)

(* A completion has taken its time from the clock.                         *)
OrdersTrue ==
  \A o \in Orders :
    order[o].status # "CONFIRMED" => order[o].completedAt \in Start..now

(* A total is explained for good by the orders that were open when it was  *)
(* summed: no other order can enter the month any more.                    *)
Explained(m, open, total) ==
  /\ Open(m) \subseteq open
  /\ total = Total(CompletedIn(m) \ open)

(* A run has the admins it owes a report and a total that is explained.    *)
RunTrue(i) ==
  LET ended == BangkokMonth(run[i].now) - 1
  IN /\ i \in isRunning <=> Working(i)
     /\ i \in due => At(i, "idle")
     /\ Working(i) => run[i].now \in Start..now
     /\ run[i].at \in {"sum", "insert"} => owed[i] = run[i].admins \X {ended}
     /\ At(i, "insert") => Explained(ended, run[i].open, run[i].total)
     /\ At(i, "down") => owed[i] = {}

RunsTrue == \A i \in Instances : RunTrue(i)

(* A report is of a month that is over, and its total is explained.        *)
ReportsTrue ==
  \A r \in reports :
    /\ Month(r.period) < BangkokMonth(now)
    /\ Explained(Month(r.period), r.open, r.total)

Inv == TypeOK /\ OrdersTrue /\ RunsTrue /\ ReportsTrue /\ NobodyForgotten
=============================================================================
