------------------------ MODULE MonthlyReportProofs ------------------------
(***************************************************************************)
(* Proofs about MonthlyReport: its types, that nobody is forgotten, what a *)
(* report lacks of the books, and that it implements RevenueLedger; for    *)
(* any number of instances, admins and orders, any length of a month, any  *)
(* hour of the cron job in any time zone, and completions that commit at   *)
(* any time.                                                               *)
(***************************************************************************)
EXTENDS MonthlyReport, SumTheorems

-----------------------------------------------------------------------------
(* The total of a set of orders.                                           *)
LEMMA OrdersFinite == IsFiniteSet(Orders) /\ Amount \in [Orders -> Nat]
BY ReportAssumption

LEMMA TotalSum == \A S : Total(S) = SumOver(Amount, S)
BY DEF Total, SumOver

LEMMA TotalEmpty == Total({}) = 0
BY TotalSum, SumEmpty

LEMMA TotalType == \A S \in SUBSET Orders : Total(S) \in Nat
BY OrdersFinite, TotalSum, SumType

LEMMA TotalRemove ==
  ASSUME NEW S \in SUBSET Orders, NEW o \in S
  PROVE  Total(S) = Total(S \ {o}) + Amount[o]
BY OrdersFinite, TotalSum, SumRemove

-----------------------------------------------------------------------------
(* Months.                                                                 *)
LEMMA Bounds ==
  /\ MonthLength \in Nat /\ MonthLength > 0 /\ BangkokOffset \in Nat
  /\ ServerOffset \in Int /\ TickOffset \in Nat
  /\ Start \in Nat /\ End \in Nat /\ Start <= End /\ MaxFaults \in Nat
BY ReportAssumption

LEMMA MonthBounds ==
  ASSUME NEW t \in Int
  PROVE  /\ BangkokMonth(t) \in Int
         /\ BangkokMonth(t) * MonthLength <= t + BangkokOffset
         /\ t + BangkokOffset < (BangkokMonth(t) + 1) * MonthLength
BY Bounds DEF BangkokMonth

LEMMA Multiples ==
  ASSUME NEW p \in Int, NEW q \in Int, p <= q
  PROVE  p * MonthLength <= q * MonthLength
<1>1. q - p \in Nat /\ (q - p) * MonthLength >= 0
  BY Bounds
<1>2. q * MonthLength = p * MonthLength + (q - p) * MonthLength
  BY Bounds
<1>3. /\ p * MonthLength \in Int /\ q * MonthLength \in Int
      /\ (q - p) * MonthLength \in Int
  BY Bounds
<1>. QED
  BY <1>1, <1>2, <1>3

LEMMA MonthIs ==
  ASSUME NEW t \in Int, NEW m \in Int
  PROVE  BangkokMonth(t) = m <=>
           m * MonthLength <= t + BangkokOffset /\ t + BangkokOffset < (m + 1) * MonthLength
<1>1. CASE BangkokMonth(t) = m
  BY <1>1, MonthBounds
<1>2. CASE BangkokMonth(t) < m
  <2>1. (BangkokMonth(t) + 1) * MonthLength <= m * MonthLength
    BY <1>2, MonthBounds, Multiples
  <2>. QED
    BY <1>2, <2>1, MonthBounds, Bounds
<1>3. CASE m < BangkokMonth(t)
  <2>1. (m + 1) * MonthLength <= BangkokMonth(t) * MonthLength
    BY <1>3, MonthBounds, Multiples
  <2>. QED
    BY <1>3, <2>1, MonthBounds, Bounds
<1>. QED
  BY <1>1, <1>2, <1>3, MonthBounds

LEMMA MonthsGrow ==
  ASSUME NEW t \in Int, NEW u \in Int, t <= u
  PROVE  BangkokMonth(t) <= BangkokMonth(u)
<1>. SUFFICES ASSUME BangkokMonth(u) < BangkokMonth(t) PROVE FALSE
  BY MonthBounds
<1>1. (BangkokMonth(u) + 1) * MonthLength <= BangkokMonth(t) * MonthLength
  BY MonthBounds, Multiples
<1>. QED
  BY <1>1, MonthBounds, Bounds

LEMMA MonthTurns ==
  ASSUME NEW t \in Int
  PROVE  BangkokMonth(t + 1) \in {BangkokMonth(t), BangkokMonth(t) + 1}
<1>1. BangkokMonth(t) <= BangkokMonth(t + 1)
  BY MonthsGrow
<1>. SUFFICES ASSUME BangkokMonth(t) + 2 <= BangkokMonth(t + 1) PROVE FALSE
  BY <1>1, MonthBounds
<1>2. (BangkokMonth(t) + 2) * MonthLength <= BangkokMonth(t + 1) * MonthLength
  BY MonthBounds, Multiples
<1>3. (BangkokMonth(t) + 2) * MonthLength = (BangkokMonth(t) + 1) * MonthLength + MonthLength
  BY MonthBounds, Bounds
<1>. QED
  BY <1>2, <1>3, MonthBounds, Bounds

LEMMA Twelve ==
  \A b \in Int : /\ (b \div 12) \in Int /\ (b % 12) \in 0..11
                 /\ b = 12 * (b \div 12) + (b % 12)
OBVIOUS

(* The period is the month before, from its first moment to its last.      *)
LEMMA RangeIsMonth ==
  ASSUME NEW t \in Int
  PROVE  LET range == PreviousMonthRange(t)
             ended == BangkokMonth(t) - 1
         IN  /\ range.period \in Int \X (0..11)
             /\ Month(range.period) = ended
             /\ range.from = ended * MonthLength - BangkokOffset
             /\ range.to = (ended + 1) * MonthLength - BangkokOffset
<1>. DEFINE b == BangkokMonth(t)
<1>1. b \in Int /\ b = 12 * (b \div 12) + (b % 12) /\ (b % 12) \in 0..11
      /\ (b \div 12) \in Int
  <2>1. b \in Int
    BY MonthBounds
  <2>. QED
    BY <2>1, Twelve
<1>. HIDE DEF b
<1>2. CASE b % 12 = 0
  <2>1. PreviousMonthRange(t) =
          [from |-> BangkokMonthStartUtc(b \div 12 - 1, 11),
           to |-> BangkokMonthStartUtc(b \div 12, 0),
           period |-> <<b \div 12 - 1, 11>>]
    BY <1>2 DEF PreviousMonthRange, b
  <2>2. 12 * (b \div 12 - 1) + 11 = b - 1 /\ 12 * (b \div 12) + 0 = (b - 1) + 1
    BY <1>1, <1>2
  <2>. QED
    BY <1>1, <2>1, <2>2 DEF BangkokMonthStartUtc, Month, b
<1>3. CASE b % 12 # 0
  <2>1. PreviousMonthRange(t) =
          [from |-> BangkokMonthStartUtc(b \div 12, (b % 12) - 1),
           to |-> BangkokMonthStartUtc(b \div 12, b % 12),
           period |-> <<b \div 12, (b % 12) - 1>>]
    BY <1>3 DEF PreviousMonthRange, b
  <2>2. /\ 12 * (b \div 12) + ((b % 12) - 1) = b - 1
        /\ 12 * (b \div 12) + (b % 12) = (b - 1) + 1
        /\ (b % 12) - 1 \in 0..11
    BY <1>1, <1>3
  <2>. QED
    BY <1>1, <2>1, <2>2 DEF BangkokMonthStartUtc, Month, b
<1>. QED
  BY <1>2, <1>3

LEMMA OnePeriod ==
  ASSUME NEW p \in Int \X (0..11), NEW q \in Int \X (0..11), Month(p) = Month(q)
  PROVE  p = q
<1>1. PICK y \in Int, i \in 0..11 : p = <<y, i>>
  OBVIOUS
<1>2. PICK z \in Int, j \in 0..11 : q = <<z, j>>
  OBVIOUS
<1>3. 12 * y + i = 12 * z + j
  BY <1>1, <1>2 DEF Month
<1>4. y = z /\ i = j
  BY <1>3
<1>. QED
  BY <1>1, <1>2, <1>4

-----------------------------------------------------------------------------
(* Once a month has ended, only the orders that are open can still enter   *)
(* its books.                                                              *)
LEMMA MonthsInBooks ==
  ASSUME NEW t \in Start..End
  PROVE  BangkokMonth(t) \in MonthsKept /\ BangkokMonth(t) - 1 \in MonthsKept
<1>1. /\ BangkokMonth(Start) <= BangkokMonth(t)
      /\ BangkokMonth(t) <= BangkokMonth(End)
  BY MonthsGrow, Bounds
<1>2. /\ BangkokMonth(Start) \in Int /\ BangkokMonth(t) \in Int
      /\ BangkokMonth(End) \in Int
  BY MonthBounds, Bounds
<1>. QED
  BY <1>1, <1>2 DEF MonthsKept

LEMMA ExplainedKept ==
  ASSUME TypeOK, OrdersTrue, [Next]_vars, NEW m \in Int, m < BangkokMonth(now),
         NEW open, NEW total, Explained(m, open, total)
  PROVE  Explained(m, open, total)'
<1>1. now \in Int /\ BangkokMonth(now) \in Int
  <2>1. now \in Int
    BY Bounds DEF TypeOK
  <2>. QED
    BY <2>1, MonthBounds
<1>2. ASSUME NEW o \in Orders, Stamp(o)
      PROVE  Open(m)' \subseteq open /\ (CompletedIn(m) \ open)' = CompletedIn(m) \ open
  <2>1. /\ order[o].status = "CONFIRMED" /\ order'[o].status = "stamped"
        /\ order'[o].completedAt = now
        /\ \A q \in Orders \ {o} : order'[q] = order[q]
    BY <1>2 DEF Stamp, TypeOK
  <2>2. BangkokMonth(order'[o].completedAt) # m
    BY <1>1, <2>1
  <2>3. Open(m)' = Open(m) /\ CompletedIn(m)' = CompletedIn(m)
    BY <2>1, <2>2 DEF Open, CompletedIn, BangkokMonth
  <2>. QED
    BY <2>3 DEF Explained
<1>3. ASSUME NEW o \in Orders, Settle(o)
      PROVE  Open(m)' \subseteq open /\ (CompletedIn(m) \ open)' = CompletedIn(m) \ open
  <2>1. /\ order[o].status = "stamped" /\ order'[o].status # "stamped"
        /\ order'[o].status = "COMPLETED" => order'[o].completedAt = order[o].completedAt
        /\ \A q \in Orders \ {o} : order'[q] = order[q]
    BY <1>3 DEF Settle, TypeOK
  <2>2. o \in CompletedIn(m)' => o \in open
    BY <2>1 DEF CompletedIn, Explained, Open, BangkokMonth
  <2>3. o \notin CompletedIn(m) /\ o \notin Open(m)'
    BY <2>1 DEF CompletedIn, Open
  <2>4. \A q \in Orders \ {o} : /\ q \in CompletedIn(m)' <=> q \in CompletedIn(m)
                                /\ q \in Open(m)' <=> q \in Open(m)
    BY <2>1 DEF CompletedIn, Open, BangkokMonth
  <2>5. /\ CompletedIn(m) \subseteq Orders /\ CompletedIn(m)' \subseteq Orders
        /\ Open(m)' \subseteq Orders
    BY DEF CompletedIn, Open
  <2>6. Open(m) \subseteq open
    BY DEF Explained
  <2>. QED
    BY <2>2, <2>3, <2>4, <2>5, <2>6
<1>4. ASSUME UNCHANGED order
      PROVE  Open(m)' \subseteq open /\ (CompletedIn(m) \ open)' = CompletedIn(m) \ open
  BY <1>4 DEF CompletedIn, Open, Explained, BangkokMonth
<1>5. Open(m)' \subseteq open /\ (CompletedIn(m) \ open)' = CompletedIn(m) \ open
  BY <1>2, <1>3, <1>4
  DEF Next, vars, SetStatus, Work, HandleCron, FindAdmins, SumRevenue,
      InsertReports, Fail, Crash, Restart, Clock
<1>6. total = Total(CompletedIn(m) \ open)
  BY DEF Explained
<1>. QED
  BY <1>5, <1>6 DEF Explained

(* SumRevenue finds what the books show.                                   *)
LEMMA SumIsRevenue ==
  ASSUME TypeOK, NEW t \in Nat
  PROVE  LET range == PreviousMonthRange(t)
         IN  SumCompletedRevenue(range.from, range.to)
               = Total(CompletedIn(BangkokMonth(t) - 1))
<1>. DEFINE range == PreviousMonthRange(t)
            ended == BangkokMonth(t) - 1
<1>1. /\ ended \in Int
      /\ range.from = ended * MonthLength - BangkokOffset
      /\ range.to = (ended + 1) * MonthLength - BangkokOffset
  BY RangeIsMonth, MonthBounds
<1>. HIDE DEF range, ended
<1>2. ASSUME NEW c \in Int
      PROVE  c \in range.from..(range.to - 1) <=> BangkokMonth(c) = ended
  <2>1. ended * MonthLength \in Int /\ (ended + 1) * MonthLength \in Int
    BY <1>1, Bounds
  <2>2. BangkokMonth(c) = ended <=>
          ended * MonthLength <= c + BangkokOffset /\ c + BangkokOffset < (ended + 1) * MonthLength
    BY <1>1, MonthIs
  <2>. QED
    BY <1>1, <2>1, <2>2, Bounds
<1>3. \A o \in Orders : order[o].completedAt \in Int
  BY Bounds DEF TypeOK
<1>4. Completed(range.from, range.to) = CompletedIn(ended)
  BY <1>2, <1>3 DEF Completed, CompletedIn
<1>. QED
  BY <1>4 DEF SumCompletedRevenue, range, ended

LEMMA RevenueType == \A m : Total(CompletedIn(m)) \in Nat
BY TotalType DEF CompletedIn

-----------------------------------------------------------------------------
(* The invariant.  What stays true of an instance that a step leaves       *)
(* alone, and of the reports there are.                                    *)
Reported(i) ==
  i \notin due /\ At(i, "idle") =>
    \A debt \in owed[i] : \E r \in reports : <<r.to, Month(r.period)>> = debt

LEMMA ReportedAll ==
  /\ NobodyForgotten <=> \A i \in Instances : Reported(i)
  /\ NobodyForgotten' <=> \A i \in Instances : Reported(i)'
BY DEF NobodyForgotten, Reported, At

LEMMA PeriodMonths == TypeOK => \A r \in reports : Month(r.period) \in Int
<1>. SUFFICES ASSUME TypeOK, NEW r \in reports PROVE Month(r.period) \in Int
  OBVIOUS
<1>1. r.period \in Int \X (0..11)
  BY DEF TypeOK
<1>. QED
  BY <1>1 DEF Month

LEMMA RunEnded ==
  ASSUME TypeOK, NEW i \in Instances, RunTrue(i), Working(i)
  PROVE  /\ run[i].now \in Nat /\ BangkokMonth(run[i].now) - 1 \in Int
         /\ BangkokMonth(run[i].now) - 1 < BangkokMonth(now)
<1>1. run[i].now \in Start..now /\ now \in Nat
  BY Bounds DEF TypeOK, RunTrue
<1>2. run[i].now \in Nat /\ run[i].now <= now
  BY <1>1, Bounds
<1>3. BangkokMonth(run[i].now) <= BangkokMonth(now)
  BY <1>1, <1>2, MonthsGrow
<1>4. BangkokMonth(run[i].now) \in Int /\ BangkokMonth(now) \in Int
  BY <1>1, <1>2, MonthBounds
<1>. QED
  BY <1>2, <1>3, <1>4

LEMMA RunKept ==
  ASSUME TypeOK, TypeOK', OrdersTrue, [Next]_vars, NEW i \in Instances, RunTrue(i),
         run'[i] = run[i], owed'[i] = owed[i], now <= now',
         i \in isRunning' <=> i \in isRunning,
         i \in due' => i \in due /\ now' = now
  PROVE  RunTrue(i)'
<1>. DEFINE ended == BangkokMonth(run[i].now) - 1
<1>1. At(i, "insert") => Explained(ended, run[i].open, run[i].total)'
  <2>1. SUFFICES ASSUME At(i, "insert")
                 PROVE  Explained(ended, run[i].open, run[i].total)'
    OBVIOUS
  <2>2. /\ ended \in Int /\ ended < BangkokMonth(now)
        /\ Explained(ended, run[i].open, run[i].total)
    BY <2>1, RunEnded DEF RunTrue, Working, At
  <2>3. PICK m, open, total :
          m = ended /\ open = run[i].open /\ total = run[i].total
    OBVIOUS
  <2>4. Explained(m, open, total)'
    BY <2>2, <2>3, ExplainedKept
  <2>5. m = ended' /\ open = run'[i].open /\ total = run'[i].total
    BY <2>3 DEF BangkokMonth
  <2>. QED
    BY <2>4, <2>5 DEF Explained, Open, CompletedIn
<1>2. now \in Int /\ now' \in Int
  BY Bounds DEF TypeOK
<1>3. Working(i) => run[i].now \in Start..now'
  BY <1>2, Bounds DEF RunTrue
<1>4. run'[i].now = run[i].now /\ ended' = ended
  BY DEF BangkokMonth
<1>. HIDE DEF ended
<1>5. /\ i \in isRunning' <=> Working(i)'
      /\ i \in due' => At(i, "idle")'
      /\ Working(i)' => run'[i].now \in Start..now'
      /\ run'[i].at \in {"sum", "insert"} => owed'[i] = run'[i].admins \X {ended}
      /\ At(i, "down")' => owed'[i] = {}
  BY <1>3 DEF RunTrue, Working, At, ended
<1>. QED
  BY <1>1, <1>4, <1>5 DEF RunTrue, At, ended

LEMMA ReportsKept ==
  ASSUME TypeOK, TypeOK', OrdersTrue, ReportsTrue, [Next]_vars, now <= now',
         NEW r \in reports
  PROVE  /\ Month(r.period) < BangkokMonth(now)'
         /\ Explained(Month(r.period), r.open, r.total)'
<1>1. Month(r.period) \in Int
  BY PeriodMonths
<1>2. /\ Month(r.period) < BangkokMonth(now)
      /\ Explained(Month(r.period), r.open, r.total)
  BY DEF ReportsTrue
<1>3. PICK m \in Int : m = Month(r.period)
  BY <1>1
<1>4. Explained(m, r.open, r.total)'
  BY <1>2, <1>3, ExplainedKept
<1>5. m = Month(r.period)'
  BY <1>3 DEF Month
<1>6. now \in Int /\ now' \in Int
  BY Bounds DEF TypeOK
<1>7. /\ BangkokMonth(now) \in Int /\ BangkokMonth(now') \in Int
      /\ BangkokMonth(now) <= BangkokMonth(now')
  BY <1>6, MonthBounds, MonthsGrow
<1>8. BangkokMonth(now)' = BangkokMonth(now')
  BY DEF BangkokMonth
<1>. QED
  BY <1>2, <1>3, <1>4, <1>5, <1>7, <1>8 DEF Explained, Open, CompletedIn

(* A step of one instance.                                                 *)
LEMMA InstanceStep ==
  ASSUME Inv, NEW i \in Instances, [Next]_vars, UNCHANGED <<now, order>>, TypeOK',
         \A j \in Instances \ {i} :
           /\ run'[j] = run[j] /\ owed'[j] = owed[j]
           /\ j \in isRunning' <=> j \in isRunning
           /\ j \in due' <=> j \in due,
         RunTrue(i)', Reported(i)', reports \subseteq reports',
         \A r \in reports' \ reports :
           /\ Month(r.period) < BangkokMonth(now)
           /\ Explained(Month(r.period), r.open, r.total)
  PROVE  Inv'
<1>. TypeOK /\ OrdersTrue /\ RunsTrue /\ ReportsTrue /\ NobodyForgotten
  BY DEF Inv
<1>0. now \in Int
  BY Bounds DEF TypeOK
<1>1. OrdersTrue'
  BY DEF OrdersTrue
<1>2. ASSUME NEW j \in Instances
      PROVE  RunTrue(j)'
  <2>1. CASE j = i
    BY <2>1
  <2>2. CASE j # i
    <3>. RunTrue(j)
      BY DEF RunsTrue
    <3>. QED
      BY <1>0, <2>2, RunKept
  <2>. QED
    BY <2>1, <2>2
<1>3. ReportsTrue'
  <2>1. ASSUME NEW r \in reports
        PROVE  /\ Month(r.period) < BangkokMonth(now)'
               /\ Explained(Month(r.period), r.open, r.total)'
    BY <1>0, ReportsKept
  <2>2. ASSUME NEW r \in reports' \ reports
        PROVE  /\ Month(r.period) < BangkokMonth(now)'
               /\ Explained(Month(r.period), r.open, r.total)'
    <3>1. /\ Month(r.period) < BangkokMonth(now)
          /\ Explained(Month(r.period), r.open, r.total)
      OBVIOUS
    <3>. QED
      BY <3>1 DEF Month, BangkokMonth, Explained, Open, CompletedIn
  <2>. QED
    BY <2>1, <2>2 DEF ReportsTrue
<1>4. ASSUME NEW j \in Instances
      PROVE  Reported(j)'
  <2>1. CASE j = i
    BY <2>1
  <2>2. CASE j # i
    <3>. Reported(j)
      BY ReportedAll
    <3>. QED
      BY <2>2 DEF Reported, At
  <2>. QED
    BY <2>1, <2>2
<1>. QED
  BY <1>1, <1>2, <1>3, <1>4, ReportedAll DEF Inv, RunsTrue

-----------------------------------------------------------------------------
(* The steps of an instance.                                               *)
Run ==
  [at : {"idle", "find", "sum", "insert", "down"}, now : 0..End,
   admins : SUBSET Admins, total : Nat, open : SUBSET Orders]

LEMMA Idles == Idle \in Run /\ Down \in Run
BY Bounds DEF Idle, Down, Run

LEMMA ReturnStep ==
  ASSUME TypeOK, NEW i \in Instances, Return(i)
  PROVE  /\ run' \in [Instances -> Run] /\ run'[i] = Idle
         /\ isRunning' \subseteq Instances /\ i \notin isRunning'
         /\ \A j \in Instances \ {i} : /\ run'[j] = run[j]
                                       /\ j \in isRunning' <=> j \in isRunning
BY Idles DEF Return, TypeOK, Run

LEMMA StepFacts ==
  ASSUME Inv, NEW i \in Instances
  PROVE  /\ TypeOK /\ RunTrue(i) /\ Reported(i)
         /\ run \in [Instances -> Run] /\ run[i] \in Run
         /\ now \in Nat /\ now \in 0..End
         /\ Working(i) => run[i].now \in Start..End
<1>1. TypeOK /\ RunTrue(i) /\ Reported(i)
  BY ReportedAll DEF Inv, RunsTrue
<1>2. run \in [Instances -> Run] /\ now \in Start..End
  BY <1>1 DEF TypeOK, Run
<1>. QED
  BY <1>1, <1>2, Bounds DEF RunTrue

LEMMA HandleCronInv ==
  ASSUME Inv, NEW i \in Instances, HandleCron(i)
  PROVE  Inv'
<1>1. /\ TypeOK /\ RunTrue(i) /\ Reported(i)
      /\ run \in [Instances -> Run] /\ now \in 0..End
      /\ now \in Start..now
  BY StepFacts, Bounds DEF TypeOK
<1>2. /\ i \in due /\ At(i, "idle") /\ i \notin isRunning
      /\ due' = due \ {i} /\ UNCHANGED <<now, order, active, reports, owed, faults>>
  BY <1>1 DEF HandleCron, RunTrue, Working, At
<1>3. /\ isRunning' = isRunning \cup {i}
      /\ run' = [run EXCEPT ![i] = [Idle EXCEPT !.at = "find", !.now = now]]
  BY <1>2 DEF HandleCron
<1>4. [Idle EXCEPT !.at = "find", !.now = now] \in Run
  BY <1>1 DEF Idle, Run
<1>5. /\ run' \in [Instances -> Run]
      /\ run'[i].at = "find" /\ run'[i].now = now
      /\ \A j \in Instances \ {i} : run'[j] = run[j]
  BY <1>1, <1>3, <1>4 DEF Idle
<1>6. TypeOK'
  BY <1>1, <1>2, <1>3, <1>5 DEF TypeOK, Run
<1>7. RunTrue(i)'
  BY <1>1, <1>2, <1>3, <1>5 DEF RunTrue, Working, At
<1>8. Reported(i)'
  BY <1>5 DEF Reported, At
<1>9. [Next]_vars
  BY DEF Next, Work
<1>. QED
  BY <1>2, <1>3, <1>5, <1>6, <1>7, <1>8, <1>9, InstanceStep

LEMMA FindAdminsInv ==
  ASSUME Inv, NEW i \in Instances, FindAdmins(i)
  PROVE  Inv'
<1>. DEFINE ended == BangkokMonth(run[i].now) - 1
<1>1. /\ TypeOK /\ RunTrue(i) /\ Reported(i) /\ run[i] \in Run
      /\ run \in [Instances -> Run] /\ Working(i) /\ run[i].now \in Start..End
  BY StepFacts DEF FindAdmins, At, Working
<1>2. ended \in MonthsKept
  BY <1>1, MonthsInBooks
<1>3. /\ At(i, "find") /\ UNCHANGED <<now, order, active, reports, due, faults>>
      /\ owed' = [owed EXCEPT ![i] = active \X {ended}]
  BY DEF FindAdmins
<1>4. /\ owed' \in [Instances -> SUBSET (Admins \X MonthsKept)]
      /\ owed'[i] = active \X {ended}
      /\ \A j \in Instances \ {i} : owed'[j] = owed[j]
  BY <1>1, <1>2, <1>3 DEF TypeOK
<1>5. i \notin due
  BY <1>1, <1>3 DEF RunTrue, At
<1>6. [Next]_vars
  BY DEF Next, Work
<1>7. CASE active = {}
  <2>1. Return(i)
    BY <1>7 DEF FindAdmins
  <2>2. /\ run' \in [Instances -> Run] /\ run'[i] = Idle
        /\ isRunning' \subseteq Instances /\ i \notin isRunning'
        /\ \A j \in Instances \ {i} : /\ run'[j] = run[j]
                                      /\ j \in isRunning' <=> j \in isRunning
    BY <1>1, <2>1, ReturnStep
  <2>3. TypeOK'
    BY <1>1, <1>3, <1>4, <2>2 DEF TypeOK, Run
  <2>4. RunTrue(i)' /\ Reported(i)'
    BY <1>3, <1>4, <1>5, <1>7, <2>2 DEF RunTrue, Reported, Working, At, Idle
  <2>. QED
    BY <1>3, <1>4, <1>6, <2>2, <2>3, <2>4, InstanceStep
<1>8. CASE active # {}
  <2>1. /\ run' = [run EXCEPT ![i].at = "sum", ![i].admins = active]
        /\ isRunning' = isRunning
    BY <1>8 DEF FindAdmins
  <2>2. ASSUME NEW q \in Run
        PROVE  [q EXCEPT !.at = "sum", !.admins = active] \in Run
    BY <1>1 DEF Run, TypeOK
  <2>3. run' = [run EXCEPT ![i] = [run[i] EXCEPT !.at = "sum", !.admins = active]]
    BY <1>1, <2>1
  <2>4. /\ run' \in [Instances -> Run]
        /\ \A j \in Instances \ {i} : run'[j] = run[j]
    BY <1>1, <2>2, <2>3
  <2>5. run'[i].at = "sum" /\ run'[i].admins = active /\ run'[i].now = run[i].now
    BY <1>1, <2>3 DEF Run
  <2>6. TypeOK'
    BY <1>1, <1>3, <1>4, <2>1, <2>4 DEF TypeOK, Run
  <2>7. RunTrue(i)'
    BY <1>1, <1>3, <1>4, <1>5, <2>1, <2>5
    DEF RunTrue, Working, At, BangkokMonth
  <2>8. Reported(i)'
    BY <2>5 DEF Reported, At
  <2>. QED
    BY <1>3, <1>4, <1>6, <2>1, <2>4, <2>6, <2>7, <2>8, InstanceStep
<1>. QED
  BY <1>7, <1>8

LEMMA SumRevenueInv ==
  ASSUME Inv, NEW i \in Instances, SumRevenue(i)
  PROVE  Inv'
<1>. DEFINE ended == BangkokMonth(run[i].now) - 1
            range == PreviousMonthRange(run[i].now)
            total == SumCompletedRevenue(range.from, range.to)
            open == Open(ended)
<1>1. /\ TypeOK /\ RunTrue(i) /\ Reported(i) /\ run[i] \in Run
      /\ run \in [Instances -> Run] /\ Working(i) /\ run[i].now \in Start..End
  BY StepFacts DEF SumRevenue, At, Working
<1>2. Explained(ended, open, total) /\ total \in Nat /\ open \in SUBSET Orders
  <2>1. run[i].now \in Nat
    BY <1>1, Bounds
  <2>2. total = Total(CompletedIn(ended)) /\ total \in Nat
    BY <1>1, <2>1, SumIsRevenue, RevenueType
  <2>3. CompletedIn(ended) \ open = CompletedIn(ended) /\ open \subseteq Orders
    BY DEF CompletedIn, Open
  <2>. QED
    BY <2>2, <2>3 DEF Explained
<1>3. /\ At(i, "sum")
      /\ UNCHANGED <<now, order, active, reports, isRunning, due, owed, faults>>
      /\ run' = [run EXCEPT ![i].at = "insert", ![i].total = total, ![i].open = open]
  BY DEF SumRevenue
<1>. HIDE DEF total, range, open
<1>4. ASSUME NEW q \in Run
      PROVE  [q EXCEPT !.at = "insert", !.total = total, !.open = open] \in Run
  BY <1>2 DEF Run
<1>5. run' = [run EXCEPT ![i] =
                [run[i] EXCEPT !.at = "insert", !.total = total, !.open = open]]
  BY <1>1, <1>3
<1>6. /\ run' \in [Instances -> Run]
      /\ \A j \in Instances \ {i} : run'[j] = run[j]
  BY <1>1, <1>4, <1>5
<1>7. /\ run'[i].at = "insert" /\ run'[i].total = total /\ run'[i].open = open
      /\ run'[i].now = run[i].now /\ run'[i].admins = run[i].admins
  BY <1>1, <1>5 DEF Run
<1>8. TypeOK'
  BY <1>1, <1>3, <1>6 DEF TypeOK, Run
<1>9. Explained(ended, run[i].open, run[i].total)'
  BY <1>2, <1>3, <1>7 DEF Explained, Open, CompletedIn, BangkokMonth
<1>10. RunTrue(i)'
  BY <1>1, <1>3, <1>7, <1>9 DEF RunTrue, Working, At, BangkokMonth
<1>11. Reported(i)'
  BY <1>7 DEF Reported, At
<1>12. [Next]_vars
  BY DEF Next, Work
<1>. QED
  BY <1>3, <1>6, <1>8, <1>10, <1>11, <1>12, InstanceStep

(* The rows that are inserted carry the period and the total of the run;   *)
(* every admin of the run has a row of the period afterwards.              *)
LEMMA InsertFacts ==
  ASSUME Inv, NEW i \in Instances, InsertReports(i)
  PROVE  LET period == PreviousMonthRange(run[i].now).period
             ended == BangkokMonth(run[i].now) - 1
         IN  /\ Month(period) = ended /\ period \in Int \X (0..11)
             /\ ended \in MonthsKept /\ ended < BangkokMonth(now)
             /\ Explained(ended, run[i].open, run[i].total)
             /\ run[i].total \in Nat /\ run[i].open \subseteq Orders
             /\ run[i].admins \subseteq Admins
             /\ owed[i] = run[i].admins \X {ended}
             /\ reports' = reports \cup
                  {[to |-> a, total |-> run[i].total, by |-> i,
                    open |-> run[i].open, period |-> period] :
                   a \in {a \in run[i].admins :
                            \A s \in reports : <<s.to, s.period>> # <<a, period>>}}
<1>. DEFINE period == PreviousMonthRange(run[i].now).period
            ended == BangkokMonth(run[i].now) - 1
            Row(a) == [to |-> a, total |-> run[i].total, by |-> i,
                       open |-> run[i].open, period |-> period]
<1>1. /\ TypeOK /\ RunTrue(i) /\ run[i] \in Run /\ Working(i) /\ At(i, "insert")
      /\ run[i].now \in Start..End
  BY StepFacts DEF InsertReports, At, Working
<1>2. Month(period) = ended /\ period \in Int \X (0..11)
  <2>1. run[i].now \in Int
    BY <1>1, Bounds
  <2>. QED
    BY <2>1, RangeIsMonth
<1>3. ended \in MonthsKept /\ ended < BangkokMonth(now)
  BY <1>1, MonthsInBooks, RunEnded
<1>4. /\ Explained(ended, run[i].open, run[i].total)
      /\ run[i].total \in Nat /\ run[i].open \subseteq Orders
      /\ run[i].admins \subseteq Admins /\ owed[i] = run[i].admins \X {ended}
  BY <1>1 DEF RunTrue, Run, At
<1>5. reports' = reports \cup Inserted({Row(a) : a \in run[i].admins})
  BY DEF InsertReports
<1>. HIDE DEF period
<1>6. Inserted({Row(a) : a \in run[i].admins}) =
        {Row(a) : a \in {a \in run[i].admins :
                           \A s \in reports : <<s.to, s.period>> # <<a, period>>}}
  BY DEF Inserted
<1>. QED
  BY <1>2, <1>3, <1>4, <1>5, <1>6 DEF period

LEMMA InsertReportsInv ==
  ASSUME Inv, NEW i \in Instances, InsertReports(i)
  PROVE  Inv'
<1>. DEFINE period == PreviousMonthRange(run[i].now).period
            ended == BangkokMonth(run[i].now) - 1
            Row(a) == [to |-> a, total |-> run[i].total, by |-> i,
                       open |-> run[i].open, period |-> period]
            to == {a \in run[i].admins :
                     \A s \in reports : <<s.to, s.period>> # <<a, period>>}
<1>1. /\ Month(period) = ended /\ period \in Int \X (0..11)
      /\ ended \in MonthsKept /\ ended < BangkokMonth(now)
      /\ Explained(ended, run[i].open, run[i].total)
      /\ run[i].total \in Nat /\ run[i].open \subseteq Orders
      /\ run[i].admins \subseteq Admins /\ owed[i] = run[i].admins \X {ended}
      /\ reports' = reports \cup {Row(a) : a \in to}
  BY InsertFacts
<1>. HIDE DEF period, ended
<1>2. TypeOK /\ RunTrue(i) /\ At(i, "insert") /\ Return(i)
  BY StepFacts DEF InsertReports
<1>3. UNCHANGED <<now, order, active, due, owed, faults>>
  BY DEF InsertReports
<1>4. /\ run' \in [Instances -> Run] /\ run'[i] = Idle
      /\ isRunning' \subseteq Instances /\ i \notin isRunning'
      /\ \A j \in Instances \ {i} : /\ run'[j] = run[j]
                                    /\ j \in isRunning' <=> j \in isRunning
  BY <1>2, ReturnStep
<1>5. TypeOK'
  <2>1. \A a \in to : Row(a) \in [to : Admins, period : Int \X (0..11), total : Nat,
                                  by : Instances, open : SUBSET Orders]
    BY <1>1
  <2>2. reports' \subseteq [to : Admins, period : Int \X (0..11), total : Nat,
                            by : Instances, open : SUBSET Orders]
    BY <1>1, <1>2, <2>1 DEF TypeOK
  <2>. QED
    BY <1>2, <1>3, <1>4, <2>2 DEF TypeOK, Run
<1>6. RunTrue(i)'
  BY <1>2, <1>3, <1>4 DEF RunTrue, Working, At, Idle
<1>7. ASSUME NEW a \in run[i].admins
      PROVE  \E r \in reports' : r.to = a /\ r.period = period
  <2>1. CASE a \in to
    <3>1. Row(a) \in reports' /\ Row(a).to = a /\ Row(a).period = period
      BY <1>1, <2>1
    <3>. HIDE DEF Row
    <3>. QED
      BY <3>1
  <2>2. CASE a \notin to
    BY <1>1, <2>2
  <2>. QED
    BY <2>1, <2>2
<1>8. Reported(i)'
  <2>1. ASSUME NEW debt \in owed[i]
        PROVE  \E r \in reports' : <<r.to, Month(r.period)>> = debt
    <3>1. PICK a \in run[i].admins : debt = <<a, ended>>
      BY <1>1
    <3>. QED
      BY <1>1, <1>7, <3>1
  <2>. QED
    BY <1>3, <2>1 DEF Reported, Month
<1>9. [Next]_vars
  BY DEF Next, Work
<1>10. ASSUME NEW r \in reports' \ reports
       PROVE  /\ Month(r.period) < BangkokMonth(now)
              /\ Explained(Month(r.period), r.open, r.total)
  <2>1. PICK a \in to : r = Row(a)
    BY <1>1
  <2>2. r.period = period /\ r.total = run[i].total /\ r.open = run[i].open
    BY <2>1
  <2>. QED
    BY <1>1, <2>2
<1>. QED
  BY <1>1, <1>3, <1>4, <1>5, <1>6, <1>8, <1>9, <1>10, InstanceStep

LEMMA FaultInv ==
  ASSUME Inv, NEW i \in Instances, Fail(i) \/ Crash(i) \/ Restart(i)
  PROVE  Inv'
<1>1. /\ TypeOK /\ RunTrue(i) /\ Reported(i) /\ run \in [Instances -> Run]
  BY StepFacts
<1>2. UNCHANGED <<now, order, active, reports>> /\ faults' \in 0..MaxFaults
  BY <1>1, Bounds DEF Fail, Crash, Restart, Fault, TypeOK
<1>3. [Next]_vars
  BY DEF Next
<1>4. CASE Fail(i)
  <2>1. Working(i) /\ Return(i) /\ due' = due /\ owed' = [owed EXCEPT ![i] = {}]
    BY <1>4 DEF Fail
  <2>2. /\ run' \in [Instances -> Run] /\ run'[i] = Idle
        /\ isRunning' \subseteq Instances /\ i \notin isRunning'
        /\ \A j \in Instances \ {i} : /\ run'[j] = run[j]
                                      /\ j \in isRunning' <=> j \in isRunning
    BY <1>1, <2>1, ReturnStep
  <2>3. /\ owed' \in [Instances -> SUBSET (Admins \X MonthsKept)] /\ owed'[i] = {}
        /\ \A j \in Instances \ {i} : owed'[j] = owed[j]
    BY <1>1, <2>1 DEF TypeOK
  <2>4. TypeOK'
    BY <1>1, <1>2, <2>1, <2>2, <2>3 DEF TypeOK, Run
  <2>5. i \notin due
    BY <1>1, <2>1 DEF RunTrue, Working, At
  <2>6. RunTrue(i)' /\ Reported(i)'
    BY <2>1, <2>2, <2>3, <2>5 DEF RunTrue, Reported, Working, At, Idle
  <2>. QED
    BY <1>2, <1>3, <2>1, <2>2, <2>3, <2>4, <2>6, InstanceStep
<1>5. CASE Crash(i)
  <2>1. /\ run' = [run EXCEPT ![i] = Down] /\ isRunning' = isRunning \ {i}
        /\ due' = due \ {i} /\ owed' = [owed EXCEPT ![i] = {}]
    BY <1>5 DEF Crash
  <2>2. /\ run' \in [Instances -> Run] /\ run'[i] = Down
        /\ \A j \in Instances \ {i} : run'[j] = run[j]
    BY <1>1, <2>1, Idles
  <2>3. /\ owed' \in [Instances -> SUBSET (Admins \X MonthsKept)] /\ owed'[i] = {}
        /\ \A j \in Instances \ {i} : owed'[j] = owed[j]
    BY <1>1, <2>1 DEF TypeOK
  <2>4. TypeOK'
    BY <1>1, <1>2, <2>1, <2>2, <2>3 DEF TypeOK, Run
  <2>5. RunTrue(i)' /\ Reported(i)'
    BY <2>1, <2>2, <2>3 DEF RunTrue, Reported, Working, At, Down, Idle
  <2>. QED
    BY <1>2, <1>3, <2>1, <2>2, <2>3, <2>4, <2>5, InstanceStep
<1>6. CASE Restart(i)
  <2>1. /\ At(i, "down") /\ run' = [run EXCEPT ![i] = Idle]
        /\ UNCHANGED <<isRunning, due, owed, faults>>
    BY <1>6 DEF Restart
  <2>2. /\ run' \in [Instances -> Run] /\ run'[i] = Idle
        /\ \A j \in Instances \ {i} : run'[j] = run[j]
    BY <1>1, <2>1, Idles
  <2>3. TypeOK'
    BY <1>1, <1>2, <2>1, <2>2 DEF TypeOK, Run
  <2>4. RunTrue(i)' /\ Reported(i)'
    BY <1>1, <2>1, <2>2 DEF RunTrue, Reported, Working, At, Idle
  <2>. QED
    BY <1>2, <1>3, <2>1, <2>2, <2>3, <2>4, InstanceStep
<1>. QED
  BY <1>4, <1>5, <1>6

-----------------------------------------------------------------------------
(* The steps of the shop and of time.                                      *)
Frame == UNCHANGED <<now, mail, faults>>

LEMMA ShopStep ==
  ASSUME Inv, [Next]_vars, Frame, TypeOK', OrdersTrue'
  PROVE  Inv'
<1>. TypeOK /\ OrdersTrue /\ RunsTrue /\ ReportsTrue /\ NobodyForgotten
  BY DEF Inv
<1>1. now \in Int
  BY Bounds DEF TypeOK
<1>2. UNCHANGED <<now, reports, run, isRunning, due, owed, faults>>
  BY DEF Frame, mail
<1>3. RunsTrue'
  BY <1>1, <1>2, RunKept DEF RunsTrue
<1>4. ASSUME NEW r \in reports
      PROVE  /\ Month(r.period) < BangkokMonth(now)'
             /\ Explained(Month(r.period), r.open, r.total)'
  BY <1>1, <1>2, ReportsKept
<1>5. ReportsTrue'
  BY <1>2, <1>4 DEF ReportsTrue
<1>6. NobodyForgotten'
  BY <1>2 DEF NobodyForgotten, At, Month
<1>. QED
  BY <1>3, <1>5, <1>6 DEF Inv

LEMMA OrderInv ==
  ASSUME Inv, NEW o \in Orders, Stamp(o) \/ Settle(o)
  PROVE  Inv'
<1>. DEFINE Row == [status : {"CONFIRMED", "stamped", "COMPLETED"}, completedAt : 0..End]
<1>1. /\ TypeOK /\ OrdersTrue /\ order \in [Orders -> Row] /\ order[o] \in Row
      /\ now \in 0..End /\ now \in Nat /\ now \in Start..now
  BY Bounds DEF Inv, TypeOK
<1>2. [Next]_vars /\ Frame /\ active' = active
  BY DEF Next, Stamp, Settle, Frame
<1>3. PICK row \in Row :
        /\ order' = [order EXCEPT ![o] = row]
        /\ row.status # "CONFIRMED" => row.completedAt \in Start..now
  <2>1. CASE Stamp(o)
    <3>. DEFINE row == [status |-> "stamped", completedAt |-> now]
    <3>1. row \in Row
      BY <1>1, Bounds
    <3>. QED
      BY <1>1, <2>1, <3>1 DEF Stamp
  <2>2. CASE order' = [order EXCEPT ![o].status = "COMPLETED"] /\ Settle(o)
    <3>. DEFINE row == [order[o] EXCEPT !.status = "COMPLETED"]
    <3>1. /\ row \in Row /\ row.completedAt = order[o].completedAt
          /\ row.status = "COMPLETED"
      BY <1>1
    <3>2. order[o].completedAt \in Start..now
      BY <1>1, <2>2 DEF Settle, OrdersTrue
    <3>3. order' = [order EXCEPT ![o] = row]
      BY <1>1, <2>2
    <3>. HIDE DEF row
    <3>. QED
      BY <3>1, <3>2, <3>3
  <2>3. CASE order' = [order EXCEPT ![o] = [status |-> "CONFIRMED", completedAt |-> 0]]
    <3>1. [status |-> "CONFIRMED", completedAt |-> 0] \in Row
      BY Bounds
    <3>. QED
      BY <2>3, <3>1
  <2>. QED
    BY <2>1, <2>2, <2>3 DEF Settle
<1>. HIDE DEF Row
<1>4. /\ order' \in [Orders -> Row] /\ order'[o] = row
      /\ \A q \in Orders \ {o} : order'[q] = order[q]
  BY <1>1, <1>3
<1>5. TypeOK'
  BY <1>1, <1>2, <1>4 DEF TypeOK, Frame, mail, Row
<1>6. OrdersTrue'
  BY <1>1, <1>2, <1>3, <1>4 DEF OrdersTrue, Frame, mail
<1>. QED
  BY <1>2, <1>5, <1>6, ShopStep

LEMMA SetStatusInv ==
  ASSUME Inv, NEW a \in Admins, SetStatus(a)
  PROVE  Inv'
<1>1. [Next]_vars /\ Frame /\ order' = order
  BY DEF Next, SetStatus, Frame
<1>2. TypeOK'
  BY <1>1 DEF Inv, TypeOK, SetStatus, Frame, mail
<1>3. OrdersTrue'
  BY <1>1 DEF Inv, OrdersTrue, Frame, mail
<1>. QED
  BY <1>1, <1>2, <1>3, ShopStep

LEMMA ClockInv ==
  ASSUME Inv, Clock
  PROVE  Inv'
<1>. TypeOK /\ OrdersTrue /\ RunsTrue /\ ReportsTrue /\ NobodyForgotten
  BY DEF Inv
<1>1. /\ now \in Start..End /\ now < End /\ now' = now + 1 /\ due = {}
      /\ now' \in Start..End /\ now \in Nat
      /\ UNCHANGED <<order, active, reports, run, isRunning, faults>>
  BY Bounds DEF Clock, TypeOK
<1>2. \A i \in Instances :
        IF IsTick(now')
        THEN /\ ~Working(i)
             /\ i \in due' <=> ~At(i, "down")
             /\ owed'[i] = IF At(i, "down") THEN {}
                           ELSE active \X {BangkokMonth(now') - 1}
        ELSE i \notin due' /\ owed'[i] = owed[i]
  BY <1>1 DEF Clock
<1>3. TypeOK'
  <2>1. BangkokMonth(now') - 1 \in MonthsKept
    BY <1>1, MonthsInBooks
  <2>2. active \subseteq Admins /\ active \X {BangkokMonth(now') - 1} \subseteq Admins \X MonthsKept
    BY <2>1 DEF TypeOK
  <2>3. due' \subseteq Instances /\ owed' \in [Instances -> SUBSET (Admins \X MonthsKept)]
    <3>1. CASE IsTick(now + 1)
      BY <1>1, <2>2, <3>1 DEF Clock
    <3>2. CASE ~IsTick(now + 1)
      BY <3>2 DEF Clock, TypeOK
    <3>. QED
      BY <3>1, <3>2
  <2>. QED
    BY <1>1, <2>3 DEF TypeOK
<1>4. OrdersTrue'
  <2>1. ASSUME NEW o \in Orders, order[o].status # "CONFIRMED"
        PROVE  order[o].completedAt \in Start..(now + 1)
    <3>1. order[o].completedAt \in Start..now
      BY <2>1 DEF OrdersTrue
    <3>. QED
      BY <1>1, <3>1, Bounds
  <2>. QED
    BY <1>1, <2>1 DEF OrdersTrue
<1>5. [Next]_vars /\ now <= now'
  BY <1>1 DEF Next
<1>6. ASSUME NEW i \in Instances
      PROVE  RunTrue(i)'
  <2>. RunTrue(i)
    BY DEF RunsTrue
  <2>1. CASE IsTick(now')
    <3>1. run[i].at \in {"idle", "find", "sum", "insert", "down"}
      BY DEF TypeOK
    <3>. QED
      BY <1>1, <1>2, <2>1, <3>1 DEF RunTrue, Working, At
  <2>2. CASE ~IsTick(now')
    <3>1. /\ run'[i] = run[i] /\ owed'[i] = owed[i]
          /\ i \in isRunning' <=> i \in isRunning
          /\ i \notin due'
      BY <1>1, <1>2, <2>2
    <3>. QED
      BY <1>3, <1>5, <3>1, RunKept
  <2>. QED
    BY <2>1, <2>2
<1>7. ReportsTrue'
  <2>1. ASSUME NEW r \in reports
        PROVE  /\ Month(r.period) < BangkokMonth(now)'
               /\ Explained(Month(r.period), r.open, r.total)'
    BY <1>3, <1>5, ReportsKept
  <2>. QED
    BY <1>1, <2>1 DEF ReportsTrue
<1>8. ASSUME NEW i \in Instances
      PROVE  Reported(i)'
  <2>. Reported(i)
    BY ReportedAll
  <2>1. CASE IsTick(now')
    BY <1>1, <1>2, <2>1 DEF Reported, At
  <2>2. CASE ~IsTick(now')
    BY <1>1, <1>2, <2>2 DEF Reported, At, Month
  <2>. QED
    BY <2>1, <2>2
<1>. QED
  BY <1>3, <1>4, <1>6, <1>7, <1>8, ReportedAll DEF Inv, RunsTrue

LEMMA InvInit == Init => Inv
<1>. SUFFICES ASSUME Init PROVE Inv
  OBVIOUS
<1>1. TypeOK
  BY Bounds, Idles DEF Init, TypeOK, Run
<1>2. OrdersTrue /\ ReportsTrue
  BY DEF Init, OrdersTrue, ReportsTrue
<1>3. RunsTrue
  BY DEF Init, RunsTrue, RunTrue, Working, At, Idle
<1>4. NobodyForgotten
  BY DEF Init, NobodyForgotten
<1>. QED
  BY <1>1, <1>2, <1>3, <1>4 DEF Inv

LEMMA InvNext == Inv /\ [Next]_vars => Inv'
<1>. SUFFICES ASSUME Inv, [Next]_vars PROVE Inv'
  OBVIOUS
<1>1. ASSUME UNCHANGED vars
      PROVE  Inv'
  <2>1. TypeOK' /\ OrdersTrue' /\ Frame
    BY <1>1 DEF vars, mail, Frame, Inv, TypeOK, OrdersTrue
  <2>. QED
    BY <2>1, ShopStep
<1>. QED
  BY <1>1, OrderInv, SetStatusInv, ClockInv, HandleCronInv, FindAdminsInv,
     SumRevenueInv, InsertReportsInv, FaultInv
  DEF Next, Work

(* Inv holds in every reachable state.                                     *)
THEOREM Invariance == Spec => []Inv
BY InvInit, InvNext, PTL DEF Spec

(* Clocks, rows, runs and sums have their types, and a report is of a      *)
(* month from 0 to 11 (getPreviousMonthBangkokRange).                      *)
THEOREM ReportsTyped == Spec => []TypeOK
<1>1. Inv => TypeOK
  BY DEF Inv
<1>. QED
  BY <1>1, Invariance, PTL

(* An instance that was up at the tick, and that did not crash and had no  *)
(* statement fail, leaves none of the admins it found without the report   *)
(* of the month that ended (runMonthlyReport).                             *)
THEOREM EveryoneReported == Spec => []NobodyForgotten
<1>1. Inv => NobodyForgotten
  BY DEF Inv
<1>. QED
  BY <1>1, Invariance, PTL

(* Whatever instances report at once and whenever completions commit: what *)
(* a report lacks of the books of its month is what was being completed    *)
(* when it was summed (runMonthlyReport, updateStatusByAdmin).             *)
THEOREM ReportsExplained == Spec => []LacksOnlyOpen
<1>1. Inv => LacksOnlyOpen
  BY DEF Inv, ReportsTrue, Explained, LacksOnlyOpen
<1>. QED
  BY <1>1, Invariance, PTL

-----------------------------------------------------------------------------
(* MonthlyReport implements RevenueLedger.                                 *)
Note(r) == [to |-> r.to, period |-> Month(r.period), total |-> r.total, by |-> r.by]

LEMMA SentNotes ==
  /\ Sent = {Note(r) : r \in reports}
  /\ Sent' = {Note(r) : r \in reports'}
BY DEF Sent, Note, Month

LEMMA BooksSame ==
  ASSUME UNCHANGED order
  PROVE  Books' = Books
<1>1. \A m \in MonthsKept : CompletedIn(m)' = CompletedIn(m)
  BY DEF CompletedIn, BangkokMonth
<1>. QED
  BY <1>1 DEF Books, MonthsKept, BangkokMonth

LEMMA QuotePrimed ==
  \A i : QuoteOf(i)' = [by |-> i, period |-> BangkokMonth(run'[i].now) - 1,
                        total |-> run'[i].total]
BY DEF QuoteOf, BangkokMonth

(* The quotes of runs that a step leaves alone.                            *)
Others(i) == {QuoteOf(j) : j \in {k \in Instances \ {i} : At(k, "insert")}}

LEMMA OthersKept ==
  ASSUME NEW i, \A j \in Instances \ {i} : run'[j] = run[j]
  PROVE  Others(i)' = Others(i)
<1>1. \A j \in Instances \ {i} : QuoteOf(j)' = QuoteOf(j) /\ At(j, "insert")' = At(j, "insert")
  BY QuotePrimed DEF QuoteOf, At
<1>. QED
  BY <1>1 DEF Others

LEMMA QuotesAre ==
  ASSUME NEW i \in Instances
  PROVE  /\ Quotes = IF At(i, "insert") THEN Others(i) \cup {QuoteOf(i)} ELSE Others(i)
         /\ Quotes' = IF At(i, "insert")' THEN Others(i)' \cup {QuoteOf(i)'} ELSE Others(i)'
         /\ QuoteOf(i) \notin Others(i)
<1>1. \A j : QuoteOf(j).by = j
  BY DEF QuoteOf
<1>. QED
  BY <1>1 DEF Quotes, Others

(* A run that has summed ends: its quote goes, and no other.               *)
LEMMA QuoteDropped ==
  ASSUME NEW i \in Instances, \A j \in Instances \ {i} : run'[j] = run[j],
         ~At(i, "insert")'
  PROVE  /\ At(i, "insert") => QuoteOf(i) \in Quotes /\ Quotes' = Quotes \ {QuoteOf(i)}
         /\ ~At(i, "insert") => Quotes' = Quotes
BY OthersKept, QuotesAre

LEMMA LedgerInit == Init => Ledger!Init
<1>. SUFFICES ASSUME Init PROVE Ledger!Init
  OBVIOUS
<1>1. BangkokMonth(now) \in MonthsKept
  <2>1. now \in Start..End
    BY Bounds DEF Init
  <2>. QED
    BY <2>1, MonthsInBooks
<1>2. \A m : CompletedIn(m) = {}
  BY DEF Init, CompletedIn
<1>3. Books = [m \in MonthsKept |-> 0]
  BY <1>2, TotalEmpty DEF Books
<1>4. Sent = {}
  BY DEF Init, Sent
<1>5. Quotes = {}
  BY DEF Init, Quotes, At, Idle
<1>. QED
  BY <1>1, <1>3, <1>4, <1>5 DEF Ledger!Init

(* The books change only when an order enters them, at whatever time, in   *)
(* the month it was stamped in.                                            *)
LEMMA OrderStep ==
  ASSUME Inv, NEW o \in Orders, Stamp(o) \/ Settle(o)
  PROVE  \/ Books' = Books
         \/ \E m \in MonthsKept :
              m <= BangkokMonth(now) /\ Books' = [Books EXCEPT ![m] = @ + Amount[o]]
<1>. TypeOK /\ OrdersTrue
  BY DEF Inv
<1>1. /\ order[o].status # "COMPLETED"
      /\ \A q \in Orders \ {o} : order'[q] = order[q]
  BY DEF Stamp, Settle, TypeOK
<1>2. Books' = [k \in MonthsKept |-> Total(CompletedIn(k))']
  BY DEF Books, MonthsKept, BangkokMonth
<1>3. CASE order'[o].status # "COMPLETED"
  <2>1. \A m \in MonthsKept : CompletedIn(m)' = CompletedIn(m)
    BY <1>1, <1>3 DEF CompletedIn, BangkokMonth
  <2>. QED
    BY <1>2, <2>1 DEF Books
<1>4. CASE order'[o].status = "COMPLETED"
  <2>. DEFINE m == BangkokMonth(order[o].completedAt)
  <2>1. /\ order[o].status = "stamped"
        /\ order'[o].completedAt = order[o].completedAt
    BY <1>4 DEF Stamp, Settle, TypeOK
  <2>2. order[o].completedAt \in Start..now /\ now \in Start..End
    BY <2>1 DEF OrdersTrue, TypeOK
  <2>3. m \in MonthsKept /\ m \in Int /\ m <= BangkokMonth(now)
    <3>1. /\ order[o].completedAt \in Start..End /\ order[o].completedAt \in Int
          /\ now \in Int /\ order[o].completedAt <= now
      BY <2>2, Bounds
    <3>. QED
      BY <3>1, MonthsInBooks, MonthsGrow, MonthBounds
  <2>4. ASSUME NEW k \in MonthsKept
        PROVE  Total(CompletedIn(k))' =
                 IF k = m THEN Total(CompletedIn(k)) + Amount[o] ELSE Total(CompletedIn(k))
    <3>1. CompletedIn(k)' = IF k = m THEN CompletedIn(k) \cup {o} ELSE CompletedIn(k)
      BY <1>1, <1>4, <2>1 DEF CompletedIn, BangkokMonth
    <3>2. o \notin CompletedIn(k) /\ CompletedIn(k) \cup {o} \in SUBSET Orders
      BY <1>1 DEF CompletedIn
    <3>3. (CompletedIn(k) \cup {o}) \ {o} = CompletedIn(k)
      BY <3>2
    <3>4. Total(CompletedIn(k) \cup {o}) = Total(CompletedIn(k)) + Amount[o]
      BY <3>2, <3>3, TotalRemove
    <3>. HIDE DEF m
    <3>. QED
      BY <3>1, <3>4
  <2>. HIDE DEF m
  <2>5. Books' = [Books EXCEPT ![m] = @ + Amount[o]]
    BY <1>2, <2>3, <2>4 DEF Books
  <2>. QED
    BY <2>3, <2>5
<1>. QED
  BY <1>3, <1>4

LEMMA OrderIsBook ==
  ASSUME Inv, NEW o \in Orders, Stamp(o) \/ Settle(o)
  PROVE  \/ UNCHANGED Ledger!ledger
         \/ \E m \in MonthsKept : Ledger!Book(m, Amount[o])
<1>1. UNCHANGED <<now, reports, run>>
  BY DEF Stamp, Settle, mail
<1>2. UNCHANGED <<BangkokMonth(now), Quotes, Sent>>
  BY <1>1 DEF BangkokMonth, Quotes, QuoteOf, At, Sent, Month
<1>. QED
  BY <1>2, OrderStep DEF Ledger!Book, Ledger!ledger

LEMMA SumIsQuote ==
  ASSUME Inv, NEW i \in Instances, SumRevenue(i)
  PROVE  \E m \in MonthsKept : Ledger!Quote(i, m)
<1>. DEFINE ended == BangkokMonth(run[i].now) - 1
            range == PreviousMonthRange(run[i].now)
<1>1. /\ TypeOK /\ RunTrue(i) /\ Working(i) /\ run \in [Instances -> Run]
      /\ run[i].now \in Start..End
  BY StepFacts DEF SumRevenue, At, Working
<1>2. run[i].now \in Nat /\ ended \in MonthsKept /\ ended < BangkokMonth(now)
  BY <1>1, RunEnded, MonthsInBooks
<1>3. SumCompletedRevenue(range.from, range.to) = Books[ended]
  BY <1>1, <1>2, SumIsRevenue DEF Books
<1>4. /\ At(i, "sum") /\ UNCHANGED <<now, order, reports>>
      /\ run' = [run EXCEPT ![i].at = "insert",
                   ![i].total = SumCompletedRevenue(range.from, range.to),
                   ![i].open = Open(ended)]
  BY DEF SumRevenue
<1>. HIDE DEF range
<1>5. /\ run'[i].at = "insert" /\ run'[i].total = Books[ended]
      /\ run'[i].now = run[i].now
      /\ \A j \in Instances \ {i} : run'[j] = run[j]
  BY <1>1, <1>3, <1>4 DEF Run
<1>6. QuoteOf(i)' = [by |-> i, period |-> ended, total |-> Books[ended]]
  BY <1>5, QuotePrimed
<1>7. At(i, "insert")' /\ ~At(i, "insert")
  BY <1>4, <1>5 DEF At
<1>8. Quotes' = Quotes \cup {[by |-> i, period |-> ended, total |-> Books[ended]]}
  BY <1>5, <1>6, <1>7, OthersKept, QuotesAre
<1>9. UNCHANGED <<BangkokMonth(now), Books, Sent>>
  BY <1>4, BooksSame DEF BangkokMonth, Sent, Month
<1>. HIDE DEF ended
<1>. QED
  BY <1>2, <1>8, <1>9 DEF Ledger!Quote

LEMMA InsertIsSend ==
  ASSUME Inv, NEW i \in Instances, InsertReports(i)
  PROVE  \E q \in Quotes, to \in SUBSET Admins : Ledger!Send(q, to)
<1>. DEFINE period == PreviousMonthRange(run[i].now).period
            ended == BangkokMonth(run[i].now) - 1
            Row(a) == [to |-> a, total |-> run[i].total, by |-> i,
                       open |-> run[i].open, period |-> period]
            to == {a \in run[i].admins :
                     \A s \in reports : <<s.to, s.period>> # <<a, period>>}
            q == QuoteOf(i)
<1>. TypeOK
  BY DEF Inv
<1>1. /\ Month(period) = ended /\ period \in Int \X (0..11)
      /\ run[i].admins \subseteq Admins
      /\ reports' = reports \cup {Row(a) : a \in to}
  BY InsertFacts
<1>2. q.period = ended /\ q.total = run[i].total /\ q.by = i
  BY DEF QuoteOf
<1>. HIDE DEF period, ended
<1>3. q \in Quotes /\ Quotes' = Quotes \ {q}
  <2>1. /\ run' = [run EXCEPT ![i] = Idle] /\ run \in [Instances -> Run]
        /\ At(i, "insert")
    BY StepFacts DEF InsertReports, Return
  <2>2. ~At(i, "insert")' /\ \A j \in Instances \ {i} : run'[j] = run[j]
    BY <2>1 DEF At, Idle
  <2>. HIDE DEF q
  <2>3. QuoteOf(i) \in Quotes /\ Quotes' = Quotes \ {QuoteOf(i)}
    BY <2>1, <2>2, QuoteDropped
  <2>. QED
    BY <2>3 DEF q
<1>4. UNCHANGED <<BangkokMonth(now), Books>>
  BY BooksSame DEF InsertReports, BangkokMonth
<1>5. \A r \in Sent : r.period = ended => r.to \notin to
  <2>1. ASSUME NEW s \in reports, Month(s.period) = ended
        PROVE  s.to \notin to
    <3>1. s.period \in Int \X (0..11)
      BY DEF TypeOK
    <3>2. s.period = period
      BY <1>1, <2>1, <3>1, OnePeriod
    <3>. QED
      BY <3>2
  <2>. QED
    BY <2>1, SentNotes DEF Note
<1>6. Sent' = Sent \cup
        {[to |-> a, period |-> q.period, total |-> q.total, by |-> q.by] : a \in to}
  <2>1. ASSUME NEW a \in to
        PROVE  Note(Row(a)) =
                 [to |-> a, period |-> q.period, total |-> q.total, by |-> q.by]
    BY <1>1, <1>2 DEF Note
  <2>. HIDE DEF Row, to, q
  <2>. QED
    BY <1>1, <2>1, SentNotes
<1>7. to \in SUBSET Admins
  BY <1>1
<1>. HIDE DEF to, q
<1>8. Ledger!Send(q, to)
  BY <1>2, <1>3, <1>4, <1>5, <1>6 DEF Ledger!Send
<1>. QED
  BY <1>3, <1>7, <1>8

(* A run that starts, ends without rows, fails or dies.                    *)
LEMMA RunIsForget ==
  ASSUME Inv, NEW i \in Instances, UNCHANGED <<now, order, reports>>,
         \A j \in Instances \ {i} : run'[j] = run[j], ~At(i, "insert")'
  PROVE  UNCHANGED Ledger!ledger \/ \E q \in Quotes : Ledger!Forget(q)
<1>1. UNCHANGED <<BangkokMonth(now), Books, Sent>>
  BY BooksSame DEF BangkokMonth, Sent, Month
<1>2. Quotes' = Quotes \/ \E q \in Quotes : Quotes' = Quotes \ {q}
  BY QuoteDropped
<1>. QED
  BY <1>1, <1>2 DEF Ledger!Forget, Ledger!ledger

LEMMA RunStep ==
  ASSUME Inv, NEW i \in Instances,
         HandleCron(i) \/ FindAdmins(i) \/ Fail(i) \/ Crash(i) \/ Restart(i)
  PROVE  /\ UNCHANGED <<now, order, reports>>
         /\ \A j \in Instances \ {i} : run'[j] = run[j]
         /\ ~At(i, "insert")'
<1>1. TypeOK /\ RunTrue(i) /\ run \in [Instances -> Run] /\ run[i] \in Run
  BY StepFacts
<1>2. CASE HandleCron(i)
  <2>1. At(i, "idle") /\ i \notin isRunning
    BY <1>1, <1>2 DEF HandleCron, RunTrue, Working, At
  <2>2. run' = [run EXCEPT ![i] = [Idle EXCEPT !.at = "find", !.now = now]]
    BY <1>2, <2>1 DEF HandleCron
  <2>. QED
    BY <1>1, <1>2, <2>2 DEF HandleCron, At, Idle
<1>3. CASE FindAdmins(i)
  BY <1>1, <1>3 DEF FindAdmins, Return, At, Idle, Run
<1>4. CASE Fail(i)
  BY <1>1, <1>4 DEF Fail, Return, At, Idle
<1>5. CASE Crash(i)
  BY <1>1, <1>5 DEF Crash, Down, At, Idle
<1>6. CASE Restart(i)
  BY <1>1, <1>6 DEF Restart, At, Idle
<1>. QED
  BY <1>2, <1>3, <1>4, <1>5, <1>6

LEMMA ClockIsTurn ==
  ASSUME TypeOK, Clock
  PROVE  Ledger!Turn \/ UNCHANGED Ledger!ledger
<1>1. now' = now + 1 /\ now \in Int /\ UNCHANGED <<order, reports, run>>
  BY Bounds DEF Clock, TypeOK
<1>2. UNCHANGED <<Books, Quotes, Sent>>
  BY <1>1, BooksSame DEF BangkokMonth, Quotes, QuoteOf, At, Sent, Month
<1>3. BangkokMonth(now)' \in {BangkokMonth(now), BangkokMonth(now) + 1}
  <2>1. BangkokMonth(now)' = BangkokMonth(now + 1)
    BY <1>1 DEF BangkokMonth
  <2>. QED
    BY <1>1, <2>1, MonthTurns
<1>. QED
  BY <1>2, <1>3 DEF Ledger!Turn, Ledger!ledger

LEMMA StepIsLedger ==
  ASSUME Inv, [Next]_vars
  PROVE  [Ledger!Next]_(Ledger!ledger)
<1>1. ASSUME NEW o \in Orders, Stamp(o) \/ Settle(o)
      PROVE  [Ledger!Next]_(Ledger!ledger)
  BY <1>1, OrderIsBook DEF Ledger!Next
<1>2. ASSUME NEW i \in Instances, SumRevenue(i)
      PROVE  [Ledger!Next]_(Ledger!ledger)
  BY <1>2, SumIsQuote DEF Ledger!Next
<1>3. ASSUME NEW i \in Instances, InsertReports(i)
      PROVE  [Ledger!Next]_(Ledger!ledger)
  BY <1>3, InsertIsSend DEF Ledger!Next
<1>4. ASSUME NEW i \in Instances,
             HandleCron(i) \/ FindAdmins(i) \/ Fail(i) \/ Crash(i) \/ Restart(i)
      PROVE  [Ledger!Next]_(Ledger!ledger)
  <2>1. UNCHANGED Ledger!ledger \/ \E q \in Quotes : Ledger!Forget(q)
    BY <1>4, RunStep, RunIsForget
  <2>. QED
    BY <2>1 DEF Ledger!Next
<1>5. ASSUME Clock
      PROVE  [Ledger!Next]_(Ledger!ledger)
  BY <1>5, ClockIsTurn DEF Ledger!Next, Inv
<1>6. ASSUME UNCHANGED <<now, order, reports, run>>
      PROVE  UNCHANGED Ledger!ledger
  BY <1>6, BooksSame
  DEF BangkokMonth, Quotes, QuoteOf, At, Sent, Month, Ledger!ledger
<1>. QED
  BY <1>1, <1>2, <1>3, <1>4, <1>5, <1>6 DEF Next, vars, mail, Work, SetStatus

(* runMonthlyReport implements the ledger, with several instances at once, *)
(* failed statements, crashes, completions that commit long after they     *)
(* took the time, and the turn of the year: one report per admin and       *)
(* month, of what the books of that month showed after it had ended.       *)
THEOREM ImplementsLedger == Spec => LedgerKept
<1>1. Init => Ledger!Init
  BY LedgerInit
<1>2. Inv /\ [Next]_vars => [Ledger!Next]_(Ledger!ledger)
  BY StepIsLedger
<1>. QED
  BY <1>1, <1>2, Invariance, PTL DEF Spec, LedgerKept, Ledger!Spec
=============================================================================
