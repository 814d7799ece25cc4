-------------------------- MODULE MailOutboxProofs --------------------------
(***************************************************************************)
(* Proofs about MailOutbox: types, the budget of attempts, the truth and   *)
(* finality of outcomes, and, without faults, delivery at most once; for   *)
(* any number of notifications and instances.                              *)
(***************************************************************************)
EXTENDS MailOutbox, FiniteSetTheorems, SequenceTheorems, TLAPS

USE OutboxAssumption

-----------------------------------------------------------------------------
(* Types.  Touch moves an id to the end of byUpdate and keeps it a         *)
(* sequence of ids.                                                        *)
LEMMA TouchType ==
  ASSUME TypeOK, NEW n \in Notifications, Touch(n)
  PROVE  byUpdate' \in Seq(Notifications)
<1>1. PICK k \in 1..Len(byUpdate) : byUpdate' = Append(RemoveAt(byUpdate, k), n)
  BY DEF Touch
<1>2. /\ byUpdate \in Seq(Notifications)
      /\ \A j \in 1..Len(byUpdate) : byUpdate[j] \in Notifications
      /\ Len(byUpdate) \in Nat
  BY DEF TypeOK
<1>3. SubSeq(byUpdate, 1, k - 1) \in Seq(Notifications)
  <2>. \A j \in 1..k-1 : byUpdate[j] \in Notifications
    BY <1>2
  <2>. QED
    BY SubSeqProperties
<1>4. SubSeq(byUpdate, k + 1, Len(byUpdate)) \in Seq(Notifications)
  <2>. \A j \in k+1..Len(byUpdate) : byUpdate[j] \in Notifications
    BY <1>2
  <2>. QED
    BY <1>2, SubSeqProperties
<1>5. RemoveAt(byUpdate, k) \in Seq(Notifications)
  BY <1>3, <1>4, ConcatProperties DEF RemoveAt
<1>. QED
  BY <1>1, <1>5, AppendProperties

(* A settled row keeps the types of the table.                             *)
LEMMA SettleType ==
  ASSUME TypeOK, NEW n \in Notifications, NEW s \in RowStatus, Settle(n, s)
  PROVE  /\ status' \in [Notifications -> RowStatus]
         /\ attempts' \in [Notifications -> 0..MaxAttempts]
         /\ byUpdate' \in Seq(Notifications)
<1>1. CASE status[n] = "PENDING"
  <2>1. status' = [status EXCEPT ![n] = s] /\ Touch(n) /\ attempts' = attempts
    BY <1>1 DEF Settle
  <2>2. byUpdate' \in Seq(Notifications)
    BY <2>1, TouchType
  <2>. QED
    BY <2>1, <2>2 DEF TypeOK
<1>2. CASE status[n] # "PENDING"
  BY <1>2 DEF Settle, TypeOK, rows
<1>. QED
  BY <1>1, <1>2

(* A worker goes to another step, or ends its job.                         *)
LEMMA GotoType ==
  ASSUME TypeOK, NEW i \in Instances, NEW step \in WorkerStep, Goto(i, step)
  PROVE  worker' \in [Instances -> [at : WorkerStep, id : Notifications \cup {NoJob}]]
BY DEF Goto, TypeOK

LEMMA EndJobType ==
  ASSUME TypeOK, NEW i \in Instances, EndJob(i), worker[i].id \in Notifications
  PROVE  /\ jobs' \in [Notifications -> Instances \cup {NoJob, Waiting}]
         /\ worker' \in [Instances -> [at : WorkerStep, id : Notifications \cup {NoJob}]]
<1>1. IdleWorker \in [at : WorkerStep, id : Notifications \cup {NoJob}]
  BY DEF IdleWorker, WorkerStep
<1>. QED
  BY <1>1 DEF EndJob, TypeOK

(* The rest of a batch is a batch.                                         *)
LEMMA NextRowType ==
  ASSUME TypeOK, NEW i \in Instances, tick[i].batch # <<>>, NextRow(i)
  PROVE  tick' \in [Instances -> [at : TickStep, batch : Seq(BatchRow)]]
<1>1. tick[i].batch \in Seq(BatchRow)
  BY DEF TypeOK
<1>2. Tail(tick[i].batch) \in Seq(BatchRow)
  BY <1>1, HeadTailProperties
<1>3. IdleTick \in [at : TickStep, batch : Seq(BatchRow)]
  BY DEF IdleTick, TickStep
<1>. QED
  BY <1>2, <1>3 DEF NextRow, TypeOK, TickStep

(* The row being dispatched is a row of the table.                         *)
LEMMA RowType ==
  ASSUME TypeOK, NEW i \in Instances, tick[i].batch # <<>>
  PROVE  Row(i) \in BatchRow
<1>1. tick[i].batch \in Seq(BatchRow)
  BY DEF TypeOK
<1>. QED
  BY <1>1, HeadTailProperties DEF Row

(* Every action of a dispatcher keeps the types.                           *)
LEMMA DispatcherTypes ==
  ASSUME TypeOK, NEW i \in Instances, Dispatcher(i) \/ DispatchError(i),
         tick[i].at # "idle" => tick[i].batch # <<>>
  PROVE  TypeOK'
<1>1. CASE FindPendingBatch(i)
  <2>0. PICK size \in 1..BatchSize : \E ids \in [1..size -> Notifications] :
          tick' = [tick EXCEPT ![i] =
            [at    |-> "getJob",
             batch |-> [k \in 1..size |->
                          [id |-> ids[k], attempts |-> attempts[ids[k]]]]]]
    BY <1>1 DEF FindPendingBatch
  <2>1. PICK ids \in [1..size -> Notifications] :
          tick' = [tick EXCEPT ![i] =
            [at    |-> "getJob",
             batch |-> [k \in 1..size |->
                          [id |-> ids[k], attempts |-> attempts[ids[k]]]]]]
    BY <2>0
  <2>2. [k \in 1..size |-> [id |-> ids[k], attempts |-> attempts[ids[k]]]]
          \in Seq(BatchRow)
    BY DEF TypeOK, BatchRow
  <2>3. tick' \in [Instances -> [at : TickStep, batch : Seq(BatchRow)]]
    BY <2>1, <2>2 DEF TypeOK, TickStep
  <2>. QED
    BY <1>1, <2>3 DEF FindPendingBatch, TypeOK, rows, mail
<1>2. CASE GetJob(i)
  <2>1. tick' \in [Instances -> [at : TickStep, batch : Seq(BatchRow)]]
    <3>1. PICK step \in {"enqueue", "getState"} : tick' = [tick EXCEPT ![i].at = step]
      BY <1>2 DEF GetJob
    <3>2. step \in TickStep
      BY DEF TickStep
    <3>. QED
      BY <3>1, <3>2 DEF TypeOK
  <2>. QED
    BY <1>2, <2>1 DEF GetJob, TypeOK, rows, mail
<1>3. CASE GetState(i)
  <2>1. tick' \in [Instances -> [at : TickStep, batch : Seq(BatchRow)]]
    <3>1. CASE NextRow(i)
      BY <1>3, <3>1, NextRowType DEF GetState
    <3>2. CASE tick' = [tick EXCEPT ![i].at = "remove"]
      BY <3>2 DEF TypeOK, TickStep
    <3>. QED
      BY <1>3, <3>1, <3>2 DEF GetState
  <2>. QED
    BY <1>3, <2>1 DEF GetState, TypeOK, rows, mail
<1>6. CASE RemoveJob(i)
  <2>1. tick' \in [Instances -> [at : TickStep, batch : Seq(BatchRow)]]
    <3>1. CASE NextRow(i)
      BY <1>6, <3>1, NextRowType DEF RemoveJob
    <3>2. CASE tick' = [tick EXCEPT ![i].at = "enqueue"]
      BY <3>2 DEF TypeOK, TickStep
    <3>. QED
      BY <1>6, <3>1, <3>2 DEF RemoveJob
  <2>2. jobs' \in [Notifications -> Instances \cup {NoJob, Waiting}]
    BY <1>6 DEF RemoveJob, TypeOK
  <2>. QED
    BY <1>6, <2>1, <2>2 DEF RemoveJob, TypeOK, rows, mail
<1>4. CASE EnqueueOrFail(i)
  <2>1. Row(i) \in BatchRow /\ Row(i).id \in Notifications
    BY <1>4, RowType DEF EnqueueOrFail, BatchRow
  <2>2. tick' \in [Instances -> [at : TickStep, batch : Seq(BatchRow)]]
    BY <1>4, NextRowType DEF EnqueueOrFail
  <2>3. CASE Settle(Row(i).id, "FAILED") /\ UNCHANGED jobs
    BY <1>4, <2>1, <2>2, <2>3, SettleType DEF EnqueueOrFail, TypeOK, mail, RowStatus
  <2>4. CASE /\ jobs' = [jobs EXCEPT ![Row(i).id] = IF @ = NoJob THEN Waiting ELSE @]
             /\ UNCHANGED rows
    BY <1>4, <2>1, <2>2, <2>4 DEF EnqueueOrFail, TypeOK, mail, rows
  <2>. QED
    BY <1>4, <2>3, <2>4 DEF EnqueueOrFail
<1>5. CASE DispatchError(i)
  <2>1. tick' \in [Instances -> [at : TickStep, batch : Seq(BatchRow)]]
    BY <1>5, NextRowType DEF DispatchError
  <2>2. faults' \in 0..MaxFaults
    BY <1>5 DEF DispatchError, TypeOK
  <2>. QED
    BY <1>5, <2>1, <2>2 DEF DispatchError, TypeOK, rows, mail
<1>. QED
  BY <1>1, <1>2, <1>3, <1>4, <1>5, <1>6 DEF Dispatcher

(* So does every action of a worker.                                       *)
LEMMA WorkerTypes ==
  ASSUME TypeOK, NEW i \in Instances, Worker(i) \/ StatementError(i) \/ Crash(i),
         ~At(i, "idle") => worker[i].id \in Notifications
  PROVE  TypeOK'
<1>1. CASE TakeJob(i)
  BY <1>1 DEF TakeJob, TypeOK, rows, mail, WorkerStep
<1>. DEFINE Busy == /\ jobs' \in [Notifications -> Instances \cup {NoJob, Waiting}]
                   /\ worker' \in [Instances -> [at : WorkerStep,
                                                 id : Notifications \cup {NoJob}]]
<1>0. ASSUME NEW step \in WorkerStep, worker[i].id \in Notifications,
             EndJob(i) \/ (Goto(i, step) /\ UNCHANGED jobs)
      PROVE  Busy
  BY <1>0, EndJobType, GotoType DEF TypeOK
<1>2. CASE Load(i)
  <2>0. /\ worker[i].id \in Notifications
        /\ EndJob(i) \/ (Goto(i, "reserve") /\ UNCHANGED jobs)
    BY <1>2 DEF Load, At
  <2>1. Busy
    BY <1>0, <2>0 DEF WorkerStep
  <2>. QED
    BY <1>2, <2>1 DEF Load, TypeOK, rows, mail
<1>3. CASE ReserveAttempt(i)
  <2>1. worker[i].id \in Notifications
    BY <1>3 DEF ReserveAttempt, At
  <2>2. worker' \in [Instances -> [at : WorkerStep, id : Notifications \cup {NoJob}]]
    BY <1>3, GotoType DEF ReserveAttempt, WorkerStep
  <2>3. CASE Reservable(worker[i].id)
    <3>1. /\ attempts' = [attempts EXCEPT ![worker[i].id] = @ + 1]
          /\ Touch(worker[i].id)
          /\ UNCHANGED status
          /\ UNCHANGED <<jobs, tick, mail, faults>>
      BY <1>3, <2>3 DEF ReserveAttempt
    <3>2. byUpdate' \in Seq(Notifications)
      BY <2>1, <3>1, TouchType
    <3>3. attempts' \in [Notifications -> 0..MaxAttempts]
      BY <2>1, <2>3, <3>1 DEF Reservable, TypeOK
    <3>. QED
      BY <2>2, <3>1, <3>2, <3>3 DEF TypeOK, mail
  <2>4. CASE ~Reservable(worker[i].id)
    BY <1>3, <2>2, <2>4 DEF ReserveAttempt, TypeOK, rows, mail
  <2>. QED
    BY <2>3, <2>4
<1>4. CASE FailIfExhausted(i)
  <2>0. /\ worker[i].id \in Notifications
        /\ EndJob(i) \/ (Goto(i, "giveUp") /\ UNCHANGED jobs)
    BY <1>4 DEF FailIfExhausted, At
  <2>1. Busy
    BY <1>0, <2>0 DEF WorkerStep
  <2>. QED
    BY <1>4, <2>1 DEF FailIfExhausted, TypeOK, rows, mail
<1>5. CASE SendMail(i)
  <2>1. worker[i].id \in Notifications
    BY <1>5 DEF SendMail, At
  <2>2. worker' \in [Instances -> [at : WorkerStep, id : Notifications \cup {NoJob}]]
    BY <1>5, GotoType DEF SendMail, WorkerStep
  <2>3. /\ sends' \in [Notifications -> Nat]
        /\ delivered' \in [Notifications -> Nat]
        /\ faults' \in 0..MaxFaults
    <3>1. sends' = [sends EXCEPT ![worker[i].id] = @ + 1]
      BY <1>5 DEF SendMail, Called
    <3>2. \/ delivered' = delivered
          \/ delivered' = [delivered EXCEPT ![worker[i].id] = @ + 1]
      <4>1. Accepted(worker[i].id) \/ UNCHANGED <<delivered, faults>>
        BY <1>5 DEF SendMail
      <4>. QED
        BY <4>1 DEF Accepted
    <3>3. faults' = faults \/ (faults < MaxFaults /\ faults' = faults + 1)
      BY <1>5 DEF SendMail
    <3>4. sends' \in [Notifications -> Nat]
      BY <2>1, <3>1 DEF TypeOK
    <3>5. delivered' \in [Notifications -> Nat]
      <4>1. CASE delivered' = delivered
        BY <4>1 DEF TypeOK
      <4>2. CASE delivered' = [delivered EXCEPT ![worker[i].id] = @ + 1]
        BY <2>1, <4>2 DEF TypeOK
      <4>. QED
        BY <3>2, <4>1, <4>2
    <3>6. faults' \in 0..MaxFaults
      BY <3>3 DEF TypeOK
    <3>. QED
      BY <3>4, <3>5, <3>6
  <2>. QED
    BY <1>5, <2>2, <2>3 DEF SendMail, TypeOK, rows
<1>6. CASE HandleSendFailure(i)
  <2>0. /\ worker[i].id \in Notifications
        /\ EndJob(i) \/ (Goto(i, "giveUp") /\ UNCHANGED jobs)
    BY <1>6 DEF HandleSendFailure, At
  <2>1. Busy
    BY <1>0, <2>0 DEF WorkerStep
  <2>. QED
    BY <1>6, <2>1 DEF HandleSendFailure, TypeOK, rows, mail
<1>7. ASSUME NEW s \in {"SENT", "FAILED"}, ~At(i, "idle"),
             Settle(worker[i].id, s), EndJob(i), UNCHANGED <<tick, mail, faults>>
      PROVE  TypeOK'
  <2>1. worker[i].id \in Notifications /\ s \in RowStatus
    BY <1>7 DEF RowStatus
  <2>2. Busy
    BY <1>7, <2>1, EndJobType
  <2>. QED
    BY <1>7, <2>1, <2>2, SettleType DEF TypeOK, mail
<1>8. CASE MarkFailed(i)
  BY <1>7, <1>8 DEF MarkFailed, At
<1>9. CASE MarkSent(i)
  BY <1>7, <1>9 DEF MarkSent, At
<1>10. CASE StatementError(i)
  <2>1. worker[i].id \in Notifications
    BY <1>10 DEF StatementError, At
  <2>. QED
    <3>1. faults' \in 0..MaxFaults
      BY <1>10, <2>1 DEF StatementError, TypeOK
    <3>2. Busy
      BY <1>10, <2>1, EndJobType DEF StatementError
    <3>3. UNCHANGED <<rows, tick, mail>>
      BY <1>10 DEF StatementError
    <3>. QED
      BY <3>1, <3>2, <3>3 DEF TypeOK, rows, mail
<1>11. CASE Crash(i)
  BY <1>11 DEF Crash, IdleTick, IdleWorker, TypeOK, rows, mail, WorkerStep, TickStep
<1>. QED
  BY <1>1, <1>2, <1>3, <1>4, <1>5, <1>6, <1>8, <1>9, <1>10, <1>11 DEF Worker

(* And so does what happens to the queue and the table from outside.       *)
LEMMA OutsideTypes ==
  ASSUME TypeOK,
         \/ \E n \in Notifications : Record(n) \/ Stalled(n) \/ LoseLock(n)
         \/ RedisRestart
         \/ UNCHANGED vars
  PROVE  TypeOK'
<1>1. ASSUME NEW n \in Notifications, Record(n) PROVE TypeOK'
  <2>1. byUpdate' \in Seq(Notifications)
    BY <1>1, AppendProperties DEF Record, TypeOK
  <2>. QED
    BY <1>1, <2>1 DEF Record, TypeOK, mail, RowStatus
<1>2. ASSUME NEW n \in Notifications, Stalled(n) PROVE TypeOK'
  BY <1>2 DEF Stalled, TypeOK, rows, mail
<1>3. ASSUME NEW n \in Notifications, LoseLock(n) PROVE TypeOK'
  BY <1>3 DEF LoseLock, TypeOK, rows, mail
<1>4. CASE RedisRestart
  BY <1>4 DEF RedisRestart, TypeOK, rows, mail
<1>5. CASE UNCHANGED vars
  BY <1>5 DEF vars, TypeOK, rows, mail
<1>. QED
  BY <1>1, <1>2, <1>3, <1>4, <1>5

(* Every step keeps the types.                                             *)
LEMMA TypeNext ==
  ASSUME Inv, [Next]_vars
  PROVE  TypeOK'
<1>. TypeOK
  BY DEF Inv
<1>1. \A i \in Instances :
        /\ tick[i].at # "idle" => tick[i].batch # <<>>
        /\ ~At(i, "idle") => worker[i].id \in Notifications
  BY DEF Inv, WorkTrue, WorkerTrue, BatchTrue, TypeOK
<1>2. ASSUME NEW i \in Instances, Dispatcher(i) \/ DispatchError(i)
      PROVE  TypeOK'
  BY <1>1, <1>2, DispatcherTypes
<1>3. ASSUME NEW i \in Instances, Worker(i) \/ StatementError(i) \/ Crash(i)
      PROVE  TypeOK'
  BY <1>1, <1>3, WorkerTypes
<1>4. CASE \/ \E n \in Notifications : Record(n) \/ Stalled(n) \/ LoseLock(n)
           \/ RedisRestart
           \/ UNCHANGED vars
  BY <1>4, OutsideTypes
<1>. QED
  BY <1>2, <1>3, <1>4 DEF Next

-----------------------------------------------------------------------------
(* Attempts and deliveries only grow.                                      *)
Grows ==
  \A n \in Notifications : attempts'[n] >= attempts[n] /\ delivered'[n] >= delivered[n]

LEMMA GrowsIfKept ==
  ASSUME TypeOK, UNCHANGED <<attempts, delivered>>
  PROVE  Grows
BY DEF Grows, TypeOK

(* What a worker or a dispatcher knows stays true while the others work.   *)
LEMMA WorkerKept ==
  ASSUME TypeOK, TypeOK', Grows, NEW j \in Instances, WorkerTrue(j),
         worker'[j] = worker[j]
  PROVE  WorkerTrue(j)'
<1>1. worker[j].id \in Notifications \/ worker[j].id = NoJob
  BY DEF TypeOK
<1>2. (At(j, "markSent") \/ At(j, "giveUp")) => worker[j].id \in Notifications
  BY <1>1 DEF WorkerTrue, At
<1>3. \A n \in Notifications :
        /\ delivered[n] > 0 => delivered'[n] > 0
        /\ attempts[n] = MaxAttempts => attempts'[n] = MaxAttempts
  BY DEF Grows, TypeOK
<1>. QED
  BY <1>2, <1>3 DEF WorkerTrue, At

LEMMA BatchKept ==
  ASSUME TypeOK, TypeOK', Grows, NEW j \in Instances, BatchTrue(j),
         tick'[j] = tick[j]
  PROVE  BatchTrue(j)'
<1>1. \A k \in 1..Len(tick[j].batch) : tick[j].batch[k] \in BatchRow
  BY DEF TypeOK
<1>2. SUFFICES ASSUME NEW k \in 1..Len(tick[j].batch)
               PROVE  tick[j].batch[k].attempts <= attempts'[tick[j].batch[k].id]
  BY DEF BatchTrue
<1>3. /\ tick[j].batch[k].id \in Notifications
      /\ tick[j].batch[k].attempts \in Nat
  BY <1>1 DEF BatchRow
<1>4. tick[j].batch[k].attempts <= attempts[tick[j].batch[k].id]
  BY DEF BatchTrue
<1>5. ASSUME NEW n \in Notifications, NEW a \in Nat, a <= attempts[n]
      PROVE  a <= attempts'[n]
  <2>1. attempts[n] \in Nat /\ attempts'[n] \in Nat
    BY DEF TypeOK
  <2>. QED
    BY <1>5, <2>1 DEF Grows
<1>. QED
  BY <1>3, <1>4, <1>5

LEMMA TailFacts ==
  ASSUME NEW S, NEW s \in Seq(S), s # <<>>, Len(s) # 1
  PROVE  \E t \in Seq(S) :
           /\ t = Tail(s) /\ t # <<>>
           /\ \A k \in 1..Len(t) : k + 1 \in 1..Len(s) /\ t[k] = s[k + 1]
<1>1. PICK t \in Seq(S) :
        /\ t = Tail(s) /\ Len(t) = Len(s) - 1
        /\ \A k \in 1..Len(t) : t[k] = s[k + 1]
  <2>1. /\ Tail(s) \in Seq(S)
        /\ Len(Tail(s)) = Len(s) - 1
        /\ \A k \in 1..Len(Tail(s)) : Tail(s)[k] = s[k + 1]
    BY HeadTailProperties
  <2>. QED
    BY <2>1, Zenon
<1>2. Len(t) \in Nat /\ Len(s) \in Nat
  OBVIOUS
<1>3. Len(t) # 0
  BY <1>1, <1>2
<1>4. t # <<>>
  BY <1>3
<1>5. \A k \in 1..Len(t) : k + 1 \in 1..Len(s)
  BY <1>1, <1>2
<1>6. \A k \in 1..Len(t) : k + 1 \in 1..Len(s) /\ t[k] = s[k + 1]
  BY <1>1, <1>5
<1>. QED
  BY <1>1, <1>4, <1>6, Zenon

(* So is the batch of a dispatcher that goes on to the next row.           *)
LEMMA BatchNextRow ==
  ASSUME TypeOK, TypeOK', Grows, NEW i \in Instances, BatchTrue(i),
         tick[i].at # "idle", NextRow(i)
  PROVE  \A j \in Instances : WorkTrue => BatchTrue(j)'
<1>0. tick[i].batch \in Seq(BatchRow) /\ tick[i].batch # <<>>
  BY DEF TypeOK, BatchTrue
<1>2. CASE Len(tick[i].batch) = 1
  <2>1. tick'[i] = IdleTick /\ \A j \in Instances \ {i} : tick'[j] = tick[j]
    BY <1>2 DEF NextRow, TypeOK
  <2>2. BatchTrue(i)'
    BY <2>1 DEF BatchTrue, IdleTick
  <2>. QED
    BY <2>1, <2>2, BatchKept DEF WorkTrue
<1>3. CASE Len(tick[i].batch) # 1
  <2>1. PICK rest \in Seq(BatchRow) :
          /\ rest = Tail(tick[i].batch) /\ rest # <<>>
          /\ \A k \in 1..Len(rest) :
               k + 1 \in 1..Len(tick[i].batch) /\ rest[k] = tick[i].batch[k + 1]
    BY <1>0, <1>3, TailFacts
  <2>2. /\ tick'[i] = [at |-> "getJob", batch |-> rest]
        /\ \A j \in Instances \ {i} : tick'[j] = tick[j]
    BY <1>3, <2>1 DEF NextRow, TypeOK
  <2>3. \A k \in 1..Len(rest) : rest[k].attempts <= attempts'[rest[k].id]
    <3>1. SUFFICES ASSUME NEW k \in 1..Len(rest)
                   PROVE  rest[k].attempts <= attempts'[rest[k].id]
      OBVIOUS
    <3>2. /\ rest[k].id \in Notifications
          /\ rest[k].attempts \in Nat
      <4>1. rest[k] \in BatchRow
        BY <2>1
      <4>. QED
        BY <4>1 DEF BatchRow
    <3>3. rest[k].attempts <= attempts[rest[k].id]
      BY <2>1 DEF BatchTrue
    <3>4. /\ attempts[rest[k].id] \in Nat /\ attempts'[rest[k].id] \in Nat
          /\ attempts'[rest[k].id] >= attempts[rest[k].id]
      BY <3>2 DEF Grows, TypeOK
    <3>. QED
      BY <3>2, <3>3, <3>4
  <2>4. tick'[i].batch = rest
    BY <2>2
  <2>5. BatchTrue(i)'
    BY <2>1, <2>3, <2>4, Zenon DEF BatchTrue
  <2>. QED
    BY <2>2, <2>5, BatchKept DEF WorkTrue
<1>. QED
  BY <1>2, <1>3

-----------------------------------------------------------------------------
(* The budget.  A step that calls no sendMail and starts no send keeps it. *)
LEMMA SendingFinite ==
  ASSUME NEW n \in Notifications
  PROVE  IsFiniteSet(Sending(n)) /\ Cardinality(Sending(n)) \in Nat
<1>1. Sending(n) \subseteq Instances /\ IsFiniteSet(Instances)
  BY DEF Sending
<1>. QED
  BY <1>1, FS_Subset, FS_CardinalityType

LEMMA BudgetKept ==
  ASSUME Inv, TypeOK', Grows, UNCHANGED sends,
         \A j \in Instances :
           At(j, "send")' => At(j, "send") /\ worker'[j].id = worker[j].id
  PROVE  WithinBudget'
<1>. SUFFICES ASSUME NEW n \in Notifications
              PROVE  (sends[n] + Cardinality(Sending(n)) <= attempts[n])'
  BY DEF WithinBudget
<1>. DEFINE After == {j \in Instances : worker'[j].at = "send" /\ worker'[j].id = n}
<1>1. After \subseteq Sending(n) /\ Sending(n)' = After
  BY DEF Sending, At
<1>2. Cardinality(After) <= Cardinality(Sending(n)) /\ Cardinality(After) \in Nat
  BY <1>1, SendingFinite, FS_Subset, FS_CardinalityType
<1>3. sends[n] + Cardinality(Sending(n)) <= attempts[n]
  BY DEF Inv, WithinBudget
<1>4. /\ sends[n] \in Nat /\ attempts[n] \in Nat /\ attempts'[n] \in Nat
      /\ attempts'[n] >= attempts[n]
  BY DEF Inv, TypeOK, Grows
<1>5. sends[n] + Cardinality(After) <= attempts'[n]
  BY <1>2, <1>3, <1>4, SendingFinite
<1>. QED
  BY <1>1, <1>5

(* Outcomes.  A step that settles no row keeps them true, and a row is     *)
(* settled only for a reason.                                              *)
LEMMA OutcomeKept ==
  ASSUME Inv, TypeOK', Grows, UNCHANGED status
  PROVE  OutcomeTrue'
BY DEF Inv, OutcomeTrue, Grows, TypeOK

LEMMA OutcomeSettled ==
  ASSUME Inv, TypeOK', Grows, NEW n \in Notifications,
         NEW s \in {"SENT", "FAILED"}, Settle(n, s),
         s = "SENT" => delivered[n] > 0,
         s = "FAILED" => attempts[n] = MaxAttempts
  PROVE  OutcomeTrue'
<1>1. status' = status \/ status' = [status EXCEPT ![n] = s]
  BY DEF Settle, rows
<1>2. CASE status' = [status EXCEPT ![n] = s]
  <2>1. \A m \in Notifications : status'[m] = IF m = n THEN s ELSE status[m]
    BY <1>2 DEF Inv, TypeOK
  <2>2. ASSUME NEW m \in Notifications, status'[m] = "SENT"
        PROVE  delivered'[m] > 0
    <3>1. delivered[m] > 0
      BY <2>1, <2>2 DEF Inv, OutcomeTrue
    <3>. QED
      BY <3>1 DEF Grows, Inv, TypeOK
  <2>3. ASSUME NEW m \in Notifications, status'[m] = "FAILED"
        PROVE  attempts'[m] = MaxAttempts
    <3>1. attempts[m] = MaxAttempts
      BY <2>1, <2>3 DEF Inv, OutcomeTrue
    <3>. QED
      BY <3>1 DEF Grows, Inv, TypeOK
  <2>. QED
    BY <2>2, <2>3 DEF OutcomeTrue
<1>. QED
  BY <1>1, <1>2, OutcomeKept

LEMMA SettleKeepsAttempts ==
  ASSUME NEW n, NEW s, Settle(n, s)
  PROVE  UNCHANGED attempts
BY DEF Settle, rows

-----------------------------------------------------------------------------
(* The dispatcher keeps the invariant.  It gives a row up only when the    *)
(* attempts of its batch, and so those of the table, are used up.          *)
LEMMA DispatcherInv ==
  ASSUME Inv, TypeOK', NEW i \in Instances, Dispatcher(i) \/ DispatchError(i)
  PROVE  Inv'
<1>. TypeOK /\ WorkTrue /\ OutcomeTrue /\ BatchTrue(i)
  BY DEF Inv, WorkTrue
<1>1. UNCHANGED <<worker, sends, delivered>>
  BY DEF Dispatcher, FindPendingBatch, GetJob, GetState, RemoveJob, EnqueueOrFail,
         DispatchError, mail
<1>2. UNCHANGED attempts
  BY SettleKeepsAttempts
  DEF Dispatcher, FindPendingBatch, GetJob, GetState, RemoveJob, EnqueueOrFail,
      DispatchError, rows
<1>3. Grows
  BY <1>1, <1>2, GrowsIfKept
<1>4. WithinBudget'
  BY <1>1, <1>3, BudgetKept DEF At
<1>5. \A j \in Instances : WorkerTrue(j)'
  BY <1>1, <1>3, WorkerKept DEF WorkTrue
<1>6. ASSUME NextRow(i), tick[i].at # "idle"
      PROVE  \A j \in Instances : BatchTrue(j)'
  BY <1>3, <1>6, BatchNextRow
<1>7. ASSUME NEW step \in TickStep, tick[i].at # "idle",
             tick' = [tick EXCEPT ![i].at = step]
      PROVE  \A j \in Instances : BatchTrue(j)'
  <2>1. /\ tick'[i].batch = tick[i].batch
        /\ \A j \in Instances \ {i} : tick'[j] = tick[j]
    BY <1>7 DEF TypeOK
  <2>2. BatchTrue(i)'
    BY <1>2, <1>7, <2>1 DEF BatchTrue
  <2>. QED
    BY <1>3, <2>1, <2>2, BatchKept DEF WorkTrue
<1>8. CASE FindPendingBatch(i)
  <2>0. PICK size \in 1..BatchSize : \E ids \in [1..size -> Notifications] :
          tick' = [tick EXCEPT ![i] =
            [at    |-> "getJob",
             batch |-> [k \in 1..size |->
                          [id |-> ids[k], attempts |-> attempts[ids[k]]]]]]
    BY <1>8 DEF FindPendingBatch
  <2>1. PICK ids \in [1..size -> Notifications] :
          tick' = [tick EXCEPT ![i] =
            [at    |-> "getJob",
             batch |-> [k \in 1..size |->
                          [id |-> ids[k], attempts |-> attempts[ids[k]]]]]]
    BY <2>0
  <2>. DEFINE batch == [k \in 1..size |->
                          [id |-> ids[k], attempts |-> attempts[ids[k]]]]
  <2>2. /\ tick'[i].batch = batch /\ batch \in Seq(BatchRow)
        /\ \A j \in Instances \ {i} : tick'[j] = tick[j]
    BY <2>1 DEF TypeOK, BatchRow
  <2>3. /\ Len(batch) = size /\ size > 0
        /\ \A k \in 1..size : batch[k].attempts = attempts[batch[k].id]
                                /\ batch[k].attempts \in Nat
    <3>1. size \in Nat /\ size > 0
      OBVIOUS
    <3>2. Len(batch) = size
      BY <3>1
    <3>3. ASSUME NEW k \in 1..size
          PROVE  batch[k].attempts = attempts[batch[k].id]
                   /\ batch[k].attempts \in Nat
      <4>1. ids[k] \in Notifications
        OBVIOUS
      <4>2. attempts[ids[k]] \in Nat
        BY <4>1 DEF TypeOK
      <4>. QED
        BY <4>2
    <3>. QED
      BY <3>1, <3>2, <3>3
  <2>4. batch # <<>>
    BY <2>3
  <2>. HIDE DEF batch
  <2>5. BatchTrue(i)'
    BY <1>2, <2>2, <2>3, <2>4 DEF BatchTrue
  <2>6. \A j \in Instances : BatchTrue(j)'
    BY <1>3, <2>2, <2>5, BatchKept DEF WorkTrue
  <2>. QED
    BY <1>3, <1>4, <1>5, <1>8, <2>6, OutcomeKept
    DEF FindPendingBatch, Inv, WorkTrue, rows
<1>9. CASE GetJob(i)
  <2>1. PICK step \in {"enqueue", "getState"} : tick' = [tick EXCEPT ![i].at = step]
    BY <1>9 DEF GetJob
  <2>2. \A j \in Instances : BatchTrue(j)'
    BY <1>7, <1>9, <2>1 DEF GetJob, TickStep
  <2>. QED
    BY <1>3, <1>4, <1>5, <1>9, <2>2, OutcomeKept DEF GetJob, Inv, WorkTrue, rows
<1>10. CASE GetState(i)
  <2>1. NextRow(i) \/ tick' = [tick EXCEPT ![i].at = "remove"]
    BY <1>10 DEF GetState
  <2>2. \A j \in Instances : BatchTrue(j)'
    BY <1>6, <1>7, <1>10, <2>1 DEF GetState, TickStep
  <2>. QED
    BY <1>3, <1>4, <1>5, <1>10, <2>2, OutcomeKept DEF GetState, Inv, WorkTrue, rows
<1>13. CASE RemoveJob(i)
  <2>1. NextRow(i) \/ tick' = [tick EXCEPT ![i].at = "enqueue"]
    BY <1>13 DEF RemoveJob
  <2>2. \A j \in Instances : BatchTrue(j)'
    BY <1>6, <1>7, <1>13, <2>1 DEF RemoveJob, TickStep
  <2>. QED
    BY <1>3, <1>4, <1>5, <1>13, <2>2, OutcomeKept DEF RemoveJob, Inv, WorkTrue, rows
<1>11. CASE EnqueueOrFail(i)
  <2>1. tick[i].at # "idle" /\ NextRow(i)
    BY <1>11 DEF EnqueueOrFail
  <2>2. \A j \in Instances : BatchTrue(j)'
    BY <1>6, <2>1
  <2>3. OutcomeTrue'
    <3>1. CASE OutOfBudget(i) /\ Settle(Row(i).id, "FAILED")
      <4>1. tick[i].batch \in Seq(BatchRow) /\ tick[i].batch # <<>>
        BY <2>1 DEF TypeOK, BatchTrue
      <4>2. 1 \in 1..Len(tick[i].batch) /\ Row(i) = tick[i].batch[1]
        BY <4>1 DEF Row
      <4>3. Row(i) \in BatchRow
        BY <4>1, RowType
      <4>4. Row(i).attempts <= attempts[Row(i).id]
        BY <4>2 DEF BatchTrue
      <4>5. Row(i).id \in Notifications /\ attempts[Row(i).id] = MaxAttempts
        BY <3>1, <4>3, <4>4 DEF OutOfBudget, BatchRow, TypeOK
      <4>. QED
        BY <1>3, <3>1, <4>5, OutcomeSettled
    <3>2. CASE UNCHANGED rows
      BY <1>3, <3>2, OutcomeKept DEF rows
    <3>. QED
      BY <1>11, <3>1, <3>2 DEF EnqueueOrFail
  <2>. QED
    BY <1>4, <1>5, <2>2, <2>3 DEF Inv, WorkTrue
<1>12. CASE DispatchError(i)
  <2>1. \A j \in Instances : BatchTrue(j)'
    BY <1>6, <1>12 DEF DispatchError
  <2>. QED
    BY <1>3, <1>4, <1>5, <1>12, <2>1, OutcomeKept DEF DispatchError, Inv, WorkTrue, rows
<1>. QED
  BY <1>8, <1>9, <1>10, <1>11, <1>12, <1>13 DEF Dispatcher

(* The worker keeps the invariant: it reserves an attempt before it sends, *)
(* marks a row SENT only behind an accepted mail, and FAILED only when the *)
(* budget is used up.                                                      *)
LEMMA WorkerInv ==
  ASSUME Inv, TypeOK', NEW i \in Instances, Worker(i) \/ StatementError(i)
  PROVE  Inv'
<1>. TypeOK /\ WorkTrue /\ OutcomeTrue /\ WithinBudget /\ WorkerTrue(i)
  BY DEF Inv, WorkTrue
<1>0. UNCHANGED tick
  BY DEF Worker, TakeJob, Load, ReserveAttempt, FailIfExhausted, SendMail,
         HandleSendFailure, MarkFailed, MarkSent, StatementError
<1>1. ASSUME Grows PROVE \A j \in Instances : BatchTrue(j)'
  BY <1>0, <1>1, BatchKept DEF WorkTrue
<1>2. ASSUME Grows, WorkerTrue(i)', WithinBudget', OutcomeTrue',
             \A j \in Instances \ {i} : worker'[j] = worker[j]
      PROVE  Inv'
  BY <1>1, <1>2, WorkerKept DEF Inv, WorkTrue
<1>3. ASSUME NEW step \in WorkerStep, Goto(i, step) \/ EndJob(i)
      PROVE  /\ \A j \in Instances \ {i} : worker'[j] = worker[j]
             /\ worker'[i] = IdleWorker \/ worker'[i] = [worker[i] EXCEPT !.at = step]
  BY <1>3 DEF Goto, EndJob, TypeOK
<1>4. ASSUME worker'[i] = IdleWorker PROVE WorkerTrue(i)'
  BY <1>4 DEF WorkerTrue, IdleWorker, At
(* A step that touches nothing but the worker and its job.                 *)
<1>5. ASSUME NEW step \in WorkerStep \ {"idle", "send", "markSent"}, ~At(i, "idle"),
             Goto(i, step) \/ EndJob(i), UNCHANGED <<rows, mail>>,
             step = "giveUp" => attempts[worker[i].id] = MaxAttempts
      PROVE  Inv'
  <2>1. Grows
    BY <1>5, GrowsIfKept DEF rows, mail
  <2>2. /\ \A j \in Instances \ {i} : worker'[j] = worker[j]
        /\ worker'[i] = IdleWorker \/ worker'[i] = [worker[i] EXCEPT !.at = step]
    BY <1>3, <1>5
  <2>3. WorkerTrue(i)'
    <3>1. CASE worker'[i] = [worker[i] EXCEPT !.at = step]
      <4>1. worker'[i].at = step /\ worker'[i].id = worker[i].id
        BY <3>1 DEF TypeOK
      <4>. QED
        BY <1>5, <4>1 DEF WorkerTrue, At, rows
    <3>. QED
      BY <1>4, <2>2, <3>1
  <2>4. ~At(i, "send")'
    BY <1>5, <2>2 DEF At, IdleWorker, TypeOK
  <2>5. WithinBudget'
    BY <1>5, <2>1, <2>2, <2>4, BudgetKept DEF At, mail
  <2>. QED
    BY <1>2, <1>5, <2>1, <2>2, <2>3, <2>5, OutcomeKept DEF rows
(* A worker settles its row and is done.                                   *)
<1>6. ASSUME NEW s \in {"SENT", "FAILED"}, ~At(i, "idle"),
             Settle(worker[i].id, s), EndJob(i), UNCHANGED mail,
             s = "SENT" => delivered[worker[i].id] > 0,
             s = "FAILED" => attempts[worker[i].id] = MaxAttempts
      PROVE  Inv'
  <2>1. worker[i].id \in Notifications
    BY <1>6 DEF WorkerTrue, TypeOK
  <2>2. Grows
    BY <1>6, GrowsIfKept, SettleKeepsAttempts DEF mail
  <2>3. /\ \A j \in Instances \ {i} : worker'[j] = worker[j]
        /\ worker'[i] = IdleWorker
    BY <1>6 DEF EndJob, TypeOK
  <2>4. WithinBudget'
    BY <1>6, <2>2, <2>3, BudgetKept DEF At, IdleWorker, mail
  <2>. QED
    BY <1>2, <1>4, <1>6, <2>1, <2>2, <2>3, <2>4, OutcomeSettled
<1>7. CASE TakeJob(i)
  <2>1. PICK n \in Notifications :
          /\ worker' = [worker EXCEPT ![i] = [at |-> "load", id |-> n]]
          /\ UNCHANGED <<rows, mail>>
    BY <1>7 DEF TakeJob
  <2>2. /\ worker'[i] = [at |-> "load", id |-> n]
        /\ \A j \in Instances \ {i} : worker'[j] = worker[j]
    BY <2>1 DEF TypeOK
  <2>3. Grows
    BY <2>1, GrowsIfKept DEF rows, mail
  <2>4. WorkerTrue(i)'
    BY <2>2 DEF WorkerTrue, At
  <2>5. WithinBudget'
    BY <2>1, <2>2, <2>3, BudgetKept DEF At, mail
  <2>. QED
    BY <1>2, <2>1, <2>2, <2>3, <2>4, <2>5, OutcomeKept DEF rows
<1>8. CASE Load(i)
  <2>1. /\ ~At(i, "idle") /\ UNCHANGED <<rows, mail>>
        /\ Goto(i, "reserve") \/ EndJob(i)
    BY <1>8 DEF Load, At
  <2>. QED
    BY <1>5, <2>1 DEF WorkerStep
<1>9. CASE FailIfExhausted(i)
  <2>1. /\ ~At(i, "idle") /\ UNCHANGED <<rows, mail>>
        /\ (Goto(i, "giveUp") /\ Exhausted(worker[i].id)) \/ EndJob(i)
    BY <1>9 DEF FailIfExhausted, At
  <2>2. Exhausted(worker[i].id) => attempts[worker[i].id] = MaxAttempts
    BY <2>1 DEF Exhausted, WorkerTrue, TypeOK
  <2>3. CASE Goto(i, "giveUp") /\ Exhausted(worker[i].id)
    BY <1>5, <2>1, <2>2, <2>3 DEF WorkerStep
  <2>4. CASE EndJob(i)
    BY <1>5, <2>1, <2>4 DEF WorkerStep
  <2>. QED
    BY <2>1, <2>3, <2>4
<1>10. CASE HandleSendFailure(i)
  <2>1. /\ ~At(i, "idle") /\ UNCHANGED <<rows, mail>>
        /\ (Goto(i, "giveUp") /\ Exhausted(worker[i].id)) \/ EndJob(i)
    BY <1>10 DEF HandleSendFailure, At
  <2>2. Exhausted(worker[i].id) => attempts[worker[i].id] = MaxAttempts
    BY <2>1 DEF Exhausted, WorkerTrue, TypeOK
  <2>3. CASE Goto(i, "giveUp") /\ Exhausted(worker[i].id)
    BY <1>5, <2>1, <2>2, <2>3 DEF WorkerStep
  <2>4. CASE EndJob(i)
    BY <1>5, <2>1, <2>4 DEF WorkerStep
  <2>. QED
    BY <2>1, <2>3, <2>4
<1>11. CASE MarkFailed(i)
  <2>1. attempts[worker[i].id] = MaxAttempts /\ ~At(i, "idle")
    BY <1>11 DEF MarkFailed, WorkerTrue, At
  <2>. QED
    BY <1>6, <1>11, <2>1 DEF MarkFailed
<1>12. CASE MarkSent(i)
  <2>1. delivered[worker[i].id] > 0 /\ ~At(i, "idle")
    BY <1>12 DEF MarkSent, WorkerTrue, At
  <2>. QED
    BY <1>6, <1>12, <2>1 DEF MarkSent
<1>13. CASE StatementError(i)
  <2>1. ~At(i, "idle") /\ EndJob(i) /\ UNCHANGED <<rows, mail>>
    BY <1>13 DEF StatementError, At
  <2>. QED
    BY <1>5, <2>1 DEF WorkerStep
<1>14. CASE ReserveAttempt(i)
  <2>. DEFINE n == worker[i].id
  <2>1. ~At(i, "idle") /\ n \in Notifications /\ ~At(i, "send") /\ UNCHANGED mail
    BY <1>14 DEF ReserveAttempt, At, WorkerTrue, TypeOK
  <2>2. CASE ~Reservable(n)
    BY <1>5, <1>14, <2>1, <2>2 DEF ReserveAttempt, WorkerStep
  <2>3. CASE Reservable(n)
    <3>1. /\ attempts' = [attempts EXCEPT ![n] = @ + 1]
          /\ worker' = [worker EXCEPT ![i].at = "send"]
          /\ UNCHANGED <<status, sends, delivered>>
      BY <1>14, <2>3 DEF ReserveAttempt, Goto, mail
    <3>2. Grows
      <4>1. ASSUME NEW m \in Notifications
            PROVE  attempts'[m] >= attempts[m] /\ delivered'[m] >= delivered[m]
        <5>1. attempts[m] \in Nat /\ delivered[m] \in Nat
          BY DEF TypeOK
        <5>2. attempts'[m] = attempts[m] \/ attempts'[m] = attempts[m] + 1
          BY <2>1, <3>1 DEF TypeOK
        <5>. QED
          BY <3>1, <5>1, <5>2
      <4>. QED
        BY <4>1 DEF Grows
    <3>3. /\ worker'[i].at = "send" /\ worker'[i].id = n
          /\ \A j \in Instances \ {i} : worker'[j] = worker[j]
      BY <3>1 DEF TypeOK
    <3>4. WorkerTrue(i)'
      BY <2>1, <3>3 DEF WorkerTrue, At
    <3>. HIDE DEF n
    <3>5. ASSUME NEW m \in Notifications
          PROVE  sends'[m] + Cardinality(Sending(m)') <= attempts'[m]
      <4>1. /\ sends[m] + Cardinality(Sending(m)) <= attempts[m]
            /\ sends[m] \in Nat /\ attempts[m] \in Nat
            /\ sends'[m] = sends[m]
        BY <3>1 DEF WithinBudget, TypeOK
      <4>2. CASE m = n
        <5>1. Sending(m)' = Sending(m) \cup {i} /\ i \notin Sending(m)
          BY <2>1, <3>3, <4>2 DEF Sending, At
        <5>2. Cardinality(Sending(m)') = Cardinality(Sending(m)) + 1
          BY <5>1, SendingFinite, FS_AddElement
        <5>3. attempts'[m] = attempts[m] + 1
          BY <2>1, <3>1, <4>2 DEF TypeOK
        <5>. QED
          BY <4>1, <5>2, <5>3, SendingFinite
      <4>3. CASE m # n
        <5>1. Sending(m)' = Sending(m)
          BY <2>1, <3>3, <4>3 DEF Sending, At
        <5>2. attempts'[m] = attempts[m]
          BY <2>1, <3>1, <4>3 DEF TypeOK
        <5>. QED
          BY <4>1, <5>1, <5>2
      <4>. QED
        BY <4>2, <4>3
    <3>6. WithinBudget'
      BY <3>5 DEF WithinBudget
    <3>. QED
      BY <1>2, <3>1, <3>2, <3>3, <3>4, <3>6, OutcomeKept
  <2>. QED
    BY <2>2, <2>3
<1>15. CASE SendMail(i)
  <2>. DEFINE n == worker[i].id
  <2>1. n \in Notifications /\ At(i, "send")
    BY <1>15 DEF SendMail, At, WorkerTrue, TypeOK
  <2>2. PICK step \in {"markSent", "handleSendFailure"} :
          /\ Goto(i, step)
          /\ Accepted(n) \/ (step = "handleSendFailure" /\ UNCHANGED delivered)
    BY <1>15 DEF SendMail
  <2>3. sends' = [sends EXCEPT ![n] = @ + 1] /\ UNCHANGED <<rows, jobs, tick>>
    BY <1>15 DEF SendMail, Called
  <2>4. /\ delivered'[n] >= delivered[n]
        /\ step = "markSent" => delivered'[n] > 0
        /\ \A m \in Notifications \ {n} : delivered'[m] = delivered[m]
    <3>1. CASE Accepted(n)
      BY <2>1, <3>1 DEF Accepted, TypeOK
    <3>2. CASE step = "handleSendFailure" /\ UNCHANGED delivered
      BY <2>1, <3>2 DEF TypeOK
    <3>. QED
      BY <2>2, <3>1, <3>2
  <2>5. Grows
    <3>1. ASSUME NEW m \in Notifications
          PROVE  attempts'[m] >= attempts[m] /\ delivered'[m] >= delivered[m]
      <4>1. attempts[m] \in Nat /\ delivered[m] \in Nat /\ attempts' = attempts
        BY <2>3 DEF TypeOK, rows
      <4>2. delivered'[m] >= delivered[m]
        BY <2>4, <4>1
      <4>. QED
        BY <4>1, <4>2
    <3>. QED
      BY <3>1 DEF Grows
  <2>6. /\ worker'[i].at = step /\ worker'[i].id = n
        /\ \A j \in Instances \ {i} : worker'[j] = worker[j]
    BY <2>2 DEF Goto, TypeOK
  <2>7. WorkerTrue(i)'
    BY <2>1, <2>4, <2>6 DEF WorkerTrue, At
  <2>. HIDE DEF n
  <2>8. ASSUME NEW m \in Notifications
        PROVE  sends'[m] + Cardinality(Sending(m)') <= attempts'[m]
    <3>1. /\ sends[m] + Cardinality(Sending(m)) <= attempts[m]
          /\ sends[m] \in Nat /\ attempts[m] \in Nat
          /\ attempts'[m] = attempts[m]
      BY <2>3 DEF WithinBudget, TypeOK, rows
    <3>2. CASE m = n
      <4>1. Sending(m)' = Sending(m) \ {i} /\ i \in Sending(m)
        BY <2>1, <2>6, <3>2 DEF Sending, At, n
      <4>2. Cardinality(Sending(m)') = Cardinality(Sending(m)) - 1
        BY <4>1, SendingFinite, FS_RemoveElement
      <4>3. sends'[m] = sends[m] + 1
        BY <2>1, <2>3, <3>2 DEF TypeOK
      <4>. QED
        BY <3>1, <4>2, <4>3, SendingFinite
    <3>3. CASE m # n
      <4>1. Sending(m)' = Sending(m)
        BY <2>1, <2>6, <3>3 DEF Sending, At, n
      <4>2. sends'[m] = sends[m]
        BY <2>1, <2>3, <3>3 DEF TypeOK
      <4>. QED
        BY <3>1, <4>1, <4>2
    <3>. QED
      BY <3>2, <3>3
  <2>9. WithinBudget'
    BY <2>8 DEF WithinBudget
  <2>. QED
    BY <1>2, <2>3, <2>5, <2>6, <2>7, <2>9, OutcomeKept DEF rows
<1>. QED
  BY <1>7, <1>8, <1>9, <1>10, <1>11, <1>12, <1>13, <1>14, <1>15 DEF Worker

(* So do faults, the recording of a row and the queue's own steps.         *)
LEMMA OutsideInv ==
  ASSUME Inv, TypeOK',
         \/ \E i \in Instances : Crash(i)
         \/ \E n \in Notifications : Record(n) \/ Stalled(n) \/ LoseLock(n)
         \/ RedisRestart
         \/ UNCHANGED vars
  PROVE  Inv'
<1>. TypeOK /\ WorkTrue
  BY DEF Inv
<1>1. CASE \E i \in Instances : Crash(i)
  <2>1. PICK i \in Instances : Crash(i)
    BY <1>1
  <2>2. /\ UNCHANGED <<rows, mail>>
        /\ tick'[i] = IdleTick /\ worker'[i] = IdleWorker
        /\ \A j \in Instances \ {i} : worker'[j] = worker[j] /\ tick'[j] = tick[j]
    BY <2>1 DEF Crash, TypeOK
  <2>3. Grows
    BY <2>2, GrowsIfKept DEF rows, mail
  <2>4. WorkerTrue(i)' /\ BatchTrue(i)'
    BY <2>2 DEF WorkerTrue, BatchTrue, IdleTick, IdleWorker, At
  <2>5. \A j \in Instances : WorkerTrue(j)' /\ BatchTrue(j)'
    BY <2>2, <2>3, <2>4, WorkerKept, BatchKept DEF WorkTrue
  <2>6. WithinBudget'
    BY <2>2, <2>3, BudgetKept DEF At, IdleWorker, mail
  <2>. QED
    BY <2>2, <2>3, <2>5, <2>6, OutcomeKept DEF Inv, WorkTrue, rows
<1>2. ASSUME UNCHANGED <<tick, worker, attempts, mail>>, OutcomeTrue'
      PROVE  Inv'
  <2>1. Grows
    BY <1>2, GrowsIfKept DEF mail
  <2>2. WithinBudget'
    BY <1>2, <2>1, BudgetKept DEF At, mail
  <2>3. \A j \in Instances : WorkerTrue(j)' /\ BatchTrue(j)'
    BY <1>2, <2>1, WorkerKept, BatchKept DEF WorkTrue
  <2>. QED
    BY <1>2, <2>2, <2>3 DEF Inv, WorkTrue
<1>3. ASSUME UNCHANGED <<tick, worker, rows, mail>>
      PROVE  Inv'
  BY <1>2, <1>3, GrowsIfKept, OutcomeKept DEF rows, mail
<1>4. CASE \E n \in Notifications : Record(n)
  <2>1. PICK n \in Notifications : Record(n)
    BY <1>4
  <2>2. /\ status[n] = "ABSENT" /\ status' = [status EXCEPT ![n] = "PENDING"]
        /\ UNCHANGED <<tick, worker, attempts, mail>>
    BY <2>1 DEF Record
  <2>3. OutcomeTrue'
    BY <2>2 DEF Inv, OutcomeTrue, TypeOK, mail
  <2>. QED
    BY <1>2, <2>2, <2>3
<1>5. CASE \E n \in Notifications : Stalled(n) \/ LoseLock(n)
  BY <1>3, <1>5 DEF Stalled, LoseLock
<1>6. CASE RedisRestart
  BY <1>3, <1>6 DEF RedisRestart
<1>7. CASE UNCHANGED vars
  BY <1>3, <1>7 DEF vars
<1>. QED
  BY <1>1, <1>4, <1>5, <1>6, <1>7

LEMMA InvInit == Init => Inv
<1>. SUFFICES ASSUME Init PROVE Inv
  OBVIOUS
<1>1. TypeOK
  BY DEF Init, TypeOK, RowStatus, IdleTick, TickStep, IdleWorker, WorkerStep
<1>2. \A n \in Notifications : Sending(n) = {}
  BY DEF Init, Sending, At, IdleWorker
<1>3. WithinBudget
  <2>1. \A n \in Notifications : sends[n] = 0 /\ attempts[n] = 0
    BY DEF Init
  <2>2. \A n \in Notifications : Cardinality(Sending(n)) = 0
    BY <1>2, FS_EmptySet
  <2>. QED
    BY <2>1, <2>2, OutboxAssumption DEF WithinBudget
<1>4. OutcomeTrue
  BY DEF Init, OutcomeTrue
<1>5. WorkTrue
  BY DEF Init, WorkTrue, WorkerTrue, BatchTrue, IdleTick, IdleWorker, At
<1>. QED
  BY <1>1, <1>3, <1>4, <1>5 DEF Inv

LEMMA InvNext == Inv /\ [Next]_vars => Inv'
<1>. SUFFICES ASSUME Inv, [Next]_vars PROVE Inv'
  OBVIOUS
<1>1. TypeOK'
  BY TypeNext
<1>2. ASSUME NEW i \in Instances, Dispatcher(i) \/ DispatchError(i) PROVE Inv'
  BY <1>1, <1>2, DispatcherInv
<1>3. ASSUME NEW i \in Instances, Worker(i) \/ StatementError(i) PROVE Inv'
  BY <1>1, <1>3, WorkerInv
<1>4. CASE \/ \E i \in Instances : Crash(i)
           \/ \E n \in Notifications : Record(n) \/ Stalled(n) \/ LoseLock(n)
           \/ RedisRestart
           \/ UNCHANGED vars
  BY <1>1, <1>4, OutsideInv
<1>. QED
  BY <1>2, <1>3, <1>4 DEF Next

-----------------------------------------------------------------------------
(* Inv holds in every reachable state, for any number of instances,        *)
(* notifications and faults.                                               *)
THEOREM OutboxInvariance == Spec => []Inv
<1>. QED
  BY InvInit, InvNext, PTL DEF Spec

(* The batch of a tick is one of rows and the attempts column stays within *)
(* its limit (notification_deliveries).                                    *)
THEOREM OutboxTyped == Spec => []TypeOK
<1>1. Inv => TypeOK
  BY DEF Inv
<1>. QED
  BY <1>1, OutboxInvariance, PTL

(* Whatever dies, is lost or is retried, no mail is sent more often than   *)
(* attempts were reserved for it (reserveAttempt).                         *)
THEOREM BudgetHolds == Spec => []WithinBudget
<1>1. Inv => WithinBudget
  BY DEF Inv
<1>. QED
  BY <1>1, OutboxInvariance, PTL

(* SENT means accepted by the SMTP server, FAILED means that all attempts  *)
(* were used (markSent, markFailed, enqueueOrFail).                        *)
THEOREM OutcomesTrue == Spec => []OutcomeTrue
<1>1. Inv => OutcomeTrue
  BY DEF Inv
<1>. QED
  BY <1>1, OutboxInvariance, PTL

-----------------------------------------------------------------------------
(* An outcome is final, and as long as there are no faults a mail is      *)
(* delivered at most once, and not at all if its row is FAILED.            *)

(* A step changes the status and the attempts of PENDING rows only, except *)
(* that a row is written.                                                  *)
LEMMA SettleFinal ==
  ASSUME TypeOK, NEW m, NEW s, Settle(m, s), NEW n \in Notifications,
         status[n] \in {"SENT", "FAILED"}
  PROVE  status'[n] = status[n] /\ attempts'[n] = attempts[n]
BY DEF Settle, TypeOK, rows

LEMMA FinalStep ==
  ASSUME TypeOK, [Next]_vars, NEW n \in Notifications,
         status[n] \in {"SENT", "FAILED"}
  PROVE  status'[n] = status[n] /\ attempts'[n] = attempts[n]
<1>1. ASSUME NEW i \in Instances, Dispatcher(i) \/ DispatchError(i)
      PROVE  status'[n] = status[n] /\ attempts'[n] = attempts[n]
  BY <1>1, SettleFinal
  DEF Dispatcher, FindPendingBatch, GetJob, GetState, RemoveJob, EnqueueOrFail,
      DispatchError, rows
<1>2. ASSUME NEW i \in Instances, ReserveAttempt(i)
      PROVE  status'[n] = status[n] /\ attempts'[n] = attempts[n]
  <2>1. CASE Reservable(worker[i].id)
    BY <1>2, <2>1 DEF ReserveAttempt, Reservable, TypeOK
  <2>2. CASE ~Reservable(worker[i].id)
    BY <1>2, <2>2 DEF ReserveAttempt, rows
  <2>. QED
    BY <2>1, <2>2
<1>3. ASSUME NEW i \in Instances, MarkFailed(i) \/ MarkSent(i)
      PROVE  status'[n] = status[n] /\ attempts'[n] = attempts[n]
  BY <1>3, SettleFinal DEF MarkFailed, MarkSent
<1>4. ASSUME NEW m \in Notifications, Record(m)
      PROVE  status'[n] = status[n] /\ attempts'[n] = attempts[n]
  BY <1>4 DEF Record, TypeOK
<1>. QED
  BY <1>1, <1>2, <1>3, <1>4
  DEF Next, vars, Worker, TakeJob, Load, FailIfExhausted, SendMail,
      HandleSendFailure, StatementError, Crash, Stalled, LoseLock,
      RedisRestart, rows

(* No late worker and no stale dispatcher changes a settled row, for any   *)
(* number of instances (the WHERE clauses of NotificationsService).        *)
THEOREM OutcomesFinal == Spec => OutcomeFinal
<1>1. Inv /\ [Next]_vars =>
        [\A n \in Notifications :
           status[n] \in {"SENT", "FAILED"} =>
             status'[n] = status[n] /\ attempts'[n] = attempts[n]]_vars
  BY FinalStep DEF Inv
<1>. QED
  BY <1>1, OutboxInvariance, PTL DEF Spec, OutcomeFinal

-----------------------------------------------------------------------------
(* Without faults.  Only one worker is at work on a notification.          *)
LEMMA OnlyWorker ==
  ASSUME TypeOK, OneWorker, NEW i \in Instances, NEW j \in Instances,
         worker[i].id \in Notifications, worker[j].id = worker[i].id
  PROVE  i = j
BY DEF OneWorker

(* A worker that goes on with its job, or ends it.                         *)
LEMMA OneWorkerKept ==
  ASSUME TypeOK, OneWorker, NEW i \in Instances,
         worker[i].id \in Notifications,
         \/ EndJob(i)
         \/ /\ \E step \in WorkerStep : Goto(i, step)
            /\ UNCHANGED jobs
  PROVE  OneWorker'
<1>1. CASE EndJob(i)
  <2>. DEFINE n == worker[i].id
  <2>1. jobs[n] = i
    BY DEF OneWorker
  <2>2. \A m \in Notifications : jobs'[m] = IF m = n THEN NoJob ELSE jobs[m]
    BY <1>1, <2>1 DEF EndJob, TypeOK
  <2>3. \A j \in Instances :
          worker'[j].id = IF j = i THEN NoJob ELSE worker[j].id
    BY <1>1 DEF EndJob, TypeOK, IdleWorker
  <2>4. NoJob \notin Instances /\ NoJob \notin Notifications
    OBVIOUS
  <2>5. ASSUME NEW j \in Instances, NEW m \in Notifications
        PROVE  jobs'[m] = j <=> worker'[j].id = m
    <3>1. jobs[m] = j <=> worker[j].id = m
      BY DEF OneWorker
    <3>2. CASE m = n
      BY <2>1, <2>2, <2>3, <2>4, <3>1, <3>2
    <3>3. CASE m # n
      BY <2>2, <2>3, <2>4, <3>1, <3>3
    <3>. QED
      BY <3>2, <3>3
  <2>. QED
    BY <2>5 DEF OneWorker
<1>2. CASE (\E step \in WorkerStep : Goto(i, step)) /\ UNCHANGED jobs
  <2>1. \A j \in Instances : worker'[j].id = worker[j].id
    BY <1>2 DEF Goto, TypeOK
  <2>. QED
    BY <1>2, <2>1 DEF OneWorker
<1>. QED
  BY <1>1, <1>2

(* The dispatcher, without faults: it gives a row up only when its job is  *)
(* gone, and adds a job only when nobody has it.                           *)
LEMMA DispatcherOnce ==
  ASSUME Inv, TypeOK', NEW i \in Instances, Dispatcher(i), NoFaultYet
  PROVE  NoFaultYet'
<1>. /\ TypeOK /\ OneWorker /\ SentOnce /\ StillUnsent /\ BehindLastSend
     /\ BatchTrue(i)
  BY DEF Inv, NoFaultYet, WorkTrue
<1>1. UNCHANGED <<worker, delivered>>
  BY DEF Dispatcher, FindPendingBatch, GetJob, GetState, RemoveJob, EnqueueOrFail, mail
<1>2. UNCHANGED attempts
  BY SettleKeepsAttempts
  DEF Dispatcher, FindPendingBatch, GetJob, GetState, RemoveJob, EnqueueOrFail, rows
<1>3. \A j \in Instances \ {i} : tick'[j] = tick[j]
  BY DEF Dispatcher, FindPendingBatch, GetJob, GetState, RemoveJob, EnqueueOrFail,
         NextRow, TypeOK
(* Until it is about to enqueue, nothing has to be known about its row.    *)
<1>4. ASSUME \/ tick'[i].at # "enqueue"
             \/ /\ Row(i)' = Row(i)
                /\ \A j \in Instances : worker[j].id # Row(i).id
      PROVE  BehindLastSend'
  <2>1. ASSUME NEW k \in Instances, NEW j \in Instances,
               tick'[k].at = "enqueue", OutOfBudget(k)',
               worker'[j].at \in {"send", "markSent"}
        PROVE  worker'[j].id # Row(k)'.id
    <3>1. CASE k = i
      BY <1>1, <1>4, <2>1, <3>1
    <3>2. CASE k # i
      <4>1. tick'[k] = tick[k]
        BY <1>3, <3>2
      <4>2. Row(k)' = Row(k) /\ OutOfBudget(k)
        BY <2>1, <4>1 DEF Row, OutOfBudget
      <4>. QED
        BY <1>1, <2>1, <4>1, <4>2 DEF BehindLastSend
    <3>. QED
      BY <3>1, <3>2
  <2>. QED
    BY <2>1 DEF BehindLastSend
<1>5. ASSUME UNCHANGED <<status, jobs>>, BehindLastSend'
      PROVE  NoFaultYet'
  <2>1. OneWorker'
    BY <1>1, <1>5 DEF OneWorker
  <2>2. SentOnce'
    BY <1>1, <1>5 DEF SentOnce, Marking, At
  <2>3. StillUnsent'
    BY <1>1, <1>5 DEF StillUnsent
  <2>. QED
    BY <1>5, <2>1, <2>2, <2>3 DEF NoFaultYet
<1>6. ASSUME NextRow(i) PROVE tick'[i].at # "enqueue"
  BY <1>6 DEF NextRow, IdleTick, TypeOK
<1>7. CASE FindPendingBatch(i)
  <2>1. tick'[i].at = "getJob"
    <3>1. PICK rest : tick' = [tick EXCEPT ![i] = [at |-> "getJob", batch |-> rest]]
      BY <1>7, Zenon DEF FindPendingBatch
    <3>. QED
      BY <3>1 DEF TypeOK
  <2>. QED
    BY <1>4, <1>5, <1>7, <2>1 DEF FindPendingBatch, rows
<1>8. ASSUME jobs[Row(i).id] = NoJob, tick' = [tick EXCEPT ![i].at = "enqueue"],
             tick[i].at # "idle"
      PROVE  BehindLastSend'
  <2>1. Row(i) \in BatchRow
    BY <1>8, RowType DEF BatchTrue
  <2>2. \A j \in Instances : worker[j].id # Row(i).id
    BY <1>8, <2>1 DEF OneWorker, BatchRow
  <2>3. Row(i)' = Row(i)
    BY <1>8 DEF Row, TypeOK
  <2>. QED
    BY <1>4, <2>2, <2>3
<1>9. CASE GetJob(i)
  <2>1. CASE jobs[Row(i).id] = NoJob
    BY <1>5, <1>8, <1>9, <2>1 DEF GetJob, rows
  <2>2. CASE jobs[Row(i).id] # NoJob
    <3>1. tick'[i].at = "getState"
      BY <1>9, <2>2 DEF GetJob, TypeOK
    <3>. QED
      BY <1>4, <1>5, <1>9, <3>1 DEF GetJob, rows
  <2>. QED
    BY <2>1, <2>2
<1>10. CASE GetState(i)
  <2>1. tick'[i].at # "enqueue"
    BY <1>6, <1>10 DEF GetState, TypeOK
  <2>. QED
    BY <1>4, <1>5, <1>10, <2>1 DEF GetState, rows
(* A job that can be removed is in no worker's hands.                      *)
<1>12. CASE RemoveJob(i)
  <2>. DEFINE n == Row(i).id
  <2>1. n \in Notifications /\ ~Abandoned(n)
    BY <1>12, RowType DEF RemoveJob, BatchTrue, BatchRow, Abandoned, OneWorker
  <2>2. CASE jobs[n] \in Instances
    <3>1. NextRow(i) /\ UNCHANGED jobs
      BY <1>12, <2>1, <2>2 DEF RemoveJob
    <3>. QED
      BY <1>4, <1>5, <1>6, <1>12, <3>1 DEF RemoveJob, rows
  <2>3. CASE jobs[n] \notin Instances
    <3>1. /\ jobs' = [jobs EXCEPT ![n] = NoJob]
          /\ tick' = [tick EXCEPT ![i].at = "enqueue"]
      BY <1>12, <2>3 DEF RemoveJob, Abandoned
    <3>2. \A j \in Instances : worker[j].id # n
      BY <2>1, <2>3 DEF OneWorker
    <3>3. Row(i)' = Row(i)
      BY <3>1 DEF Row, TypeOK
    <3>4. BehindLastSend'
      BY <1>4, <3>2, <3>3
    <3>5. OneWorker'
      <4>1. \A m \in Notifications :
              jobs'[m] = IF m = n THEN NoJob ELSE jobs[m]
        BY <3>1 DEF TypeOK
      <4>2. NoJob \notin Instances
        OBVIOUS
      <4>3. \A j \in Instances, m \in Notifications : jobs'[m] = j <=> jobs[m] = j
        BY <2>3, <4>1, <4>2
      <4>. QED
        BY <1>1, <4>3 DEF OneWorker
    <3>6. SentOnce' /\ StillUnsent'
      BY <1>1, <1>12 DEF RemoveJob, SentOnce, StillUnsent, Marking, At, rows
    <3>. QED
      BY <3>4, <3>5, <3>6 DEF NoFaultYet
  <2>. QED
    BY <2>2, <2>3
<1>11. CASE EnqueueOrFail(i)
  <2>. DEFINE n == Row(i).id
  <2>1. n \in Notifications
    BY <1>11, RowType DEF EnqueueOrFail, BatchTrue, BatchRow
  <2>2. BehindLastSend'
    BY <1>4, <1>6, <1>11 DEF EnqueueOrFail
  <2>3. CASE OutOfBudget(i) /\ Settle(n, "FAILED") /\ UNCHANGED jobs
    <3>1. \A j \in Instances :
            worker[j].at \in {"send", "markSent"} => worker[j].id # n
      BY <1>11, <2>3 DEF BehindLastSend, EnqueueOrFail
    <3>2. \/ UNCHANGED status
          \/ status[n] = "PENDING" /\ status' = [status EXCEPT ![n] = "FAILED"]
      BY <2>3 DEF Settle, rows
    <3>3. CASE UNCHANGED status
      BY <1>5, <2>2, <2>3, <3>3
    <3>4. CASE status[n] = "PENDING" /\ status' = [status EXCEPT ![n] = "FAILED"]
      <4>1. delivered[n] = 0
        <5>1. ~Marking(n)
          BY <3>1 DEF Marking, At
        <5>2. ~(delivered[n] > 0) /\ delivered[n] \in Nat
          BY <2>1, <3>4, <5>1 DEF SentOnce, TypeOK
        <5>. QED
          BY <5>2
      <4>2. \A m \in Notifications :
              status'[m] = IF m = n THEN "FAILED" ELSE status[m]
        BY <3>4 DEF TypeOK
      <4>3. SentOnce'
        BY <1>1, <2>1, <4>1, <4>2 DEF SentOnce, Marking, At
      <4>4. StillUnsent'
        <5>1. ASSUME NEW j \in Instances, worker[j].at \in {"send", "markSent"}
              PROVE  status'[worker[j].id] = "PENDING"
          <6>1. worker[j].id \in Notifications
            BY <5>1 DEF Inv, WorkTrue, WorkerTrue, At, TypeOK
          <6>. QED
            BY <3>1, <4>2, <5>1, <6>1 DEF StillUnsent
        <5>. QED
          BY <1>1, <5>1 DEF StillUnsent
      <4>5. OneWorker'
        BY <1>1, <2>3 DEF OneWorker
      <4>. QED
        BY <2>2, <4>3, <4>4, <4>5 DEF NoFaultYet
    <3>. QED
      BY <3>2, <3>3, <3>4
  <2>4. CASE /\ jobs' = [jobs EXCEPT ![n] = IF @ = NoJob THEN Waiting ELSE @]
             /\ UNCHANGED rows
    <3>1. ASSUME NEW m \in Notifications, NEW j \in Instances
          PROVE  jobs'[m] = j <=> jobs[m] = j
      <4>1. NoJob # j /\ Waiting # j
        OBVIOUS
      <4>2. CASE m = n /\ jobs[n] = NoJob
        BY <2>1, <2>4, <4>1, <4>2 DEF TypeOK
      <4>3. CASE ~(m = n /\ jobs[n] = NoJob)
        BY <2>1, <2>4, <4>3 DEF TypeOK
      <4>. QED
        BY <4>2, <4>3
    <3>2. OneWorker'
      BY <1>1, <3>1 DEF OneWorker
    <3>3. SentOnce' /\ StillUnsent'
      BY <1>1, <2>4 DEF SentOnce, StillUnsent, Marking, At, rows
    <3>. QED
      BY <2>2, <3>2, <3>3 DEF NoFaultYet
  <2>. QED
    BY <1>11, <2>3, <2>4 DEF EnqueueOrFail
<1>. QED
  BY <1>7, <1>9, <1>10, <1>11, <1>12 DEF Dispatcher

(* The row in hand is not ahead of the table.                              *)
LEMMA RowTrue ==
  ASSUME TypeOK, NEW k \in Instances, tick[k].at # "idle", BatchTrue(k)
  PROVE  Row(k).attempts <= attempts[Row(k).id] /\ Row(k).attempts \in Nat
<1>1. /\ tick[k].batch \in Seq(BatchRow) /\ tick[k].batch # <<>>
  BY DEF TypeOK, BatchTrue
<1>2. 1 \in 1..Len(tick[k].batch) /\ Row(k) = tick[k].batch[1]
  BY <1>1 DEF Row
<1>3. Row(k) \in BatchRow
  BY <1>1, RowType
<1>. QED
  BY <1>2, <1>3 DEF BatchTrue, BatchRow

-----------------------------------------------------------------------------
(* The mail of the row a worker is at work on is out only if its row says  *)
(* so or the worker is about to.                                           *)
LEMMA OutOnlyIfMarked ==
  ASSUME TypeOK, NoFaultYet, NEW i \in Instances, worker[i].id \in Notifications,
         delivered[worker[i].id] > 0
  PROVE  status[worker[i].id] = "SENT" \/ worker[i].at = "markSent"
<1>1. CASE Marking(worker[i].id)
  BY <1>1, OnlyWorker DEF Marking, At, NoFaultYet
<1>2. CASE ~Marking(worker[i].id)
  BY <1>2 DEF NoFaultYet, SentOnce
<1>. QED
  BY <1>1, <1>2

(* A worker at work on n, and what its step has to see to.                 *)
LEMMA WorkerStepOnce ==
  ASSUME Inv, TypeOK', NoFaultYet, NEW i \in Instances, NEW n \in Notifications,
         worker[i].id = n,
         UNCHANGED tick,
         \/ EndJob(i)
         \/ /\ \E step \in WorkerStep : Goto(i, step)
            /\ UNCHANGED jobs,
         \A m \in Notifications \ {n} :
           status'[m] = status[m] /\ delivered'[m] = delivered[m],
         worker'[i].at \notin {"idle", "load", "markSent"} => delivered'[n] = 0,
         worker'[i].at \in {"send", "markSent"} =>
           /\ status'[n] = "PENDING"
           /\ worker[i].at \in {"send", "markSent"} \/ attempts[n] < MaxAttempts,
         /\ delivered'[n] <= 1
         /\ delivered'[n] > 0 => status'[n] = "SENT" \/ worker'[i].at = "markSent"
         /\ status'[n] = "FAILED" => delivered'[n] = 0
  PROVE  NoFaultYet'
<1>. TypeOK /\ OneWorker /\ SentOnce /\ StillUnsent /\ BehindLastSend
  BY DEF Inv, NoFaultYet
<1>1. OneWorker'
  BY OneWorkerKept
<1>2. \A j \in Instances \ {i} : worker'[j] = worker[j]
  BY DEF EndJob, Goto, TypeOK
<1>3. \/ worker'[i].id = n
      \/ worker'[i] = IdleWorker
  BY DEF EndJob, Goto, TypeOK
<1>4. ASSUME NEW j \in Instances \ {i}, worker[j].at # "idle"
      PROVE  worker[j].id \in Notifications \ {n}
  <2>1. worker[j].id \in Notifications
    BY <1>4 DEF Inv, WorkTrue, WorkerTrue, At, TypeOK
  <2>. QED
    BY <1>4, <2>1, OnlyWorker
<1>5. SentOnce'
  <2>1. ASSUME NEW m \in Notifications
        PROVE  /\ delivered'[m] <= 1
               /\ delivered'[m] > 0 => status'[m] = "SENT" \/ Marking(m)'
               /\ status'[m] = "FAILED" => delivered'[m] = 0
    <3>1. CASE m = n
      <4>1. worker'[i].at = "markSent" => Marking(n)'
        BY <1>3 DEF Marking, At, IdleWorker
      <4>. QED
        BY <3>1, <4>1
    <3>2. CASE m # n
      <4>1. Marking(m) => Marking(m)'
        BY <1>2, <3>2 DEF Marking, At
      <4>. QED
        BY <3>2, <4>1 DEF SentOnce
    <3>. QED
      BY <3>1, <3>2
  <2>. QED
    BY <2>1 DEF SentOnce
<1>6. StillUnsent'
  <2>1. ASSUME NEW j \in Instances \ {i}
        PROVE  /\ worker'[j].at \notin {"idle", "load", "markSent"} =>
                    delivered'[worker'[j].id] = 0
               /\ worker'[j].at \in {"send", "markSent"} =>
                    status'[worker'[j].id] = "PENDING"
    BY <1>2, <1>4 DEF StillUnsent
  <2>2. /\ worker'[i].at \notin {"idle", "load", "markSent"} =>
             delivered'[worker'[i].id] = 0
        /\ worker'[i].at \in {"send", "markSent"} =>
             status'[worker'[i].id] = "PENDING"
    BY <1>3 DEF IdleWorker
  <2>. QED
    BY <2>1, <2>2 DEF StillUnsent
<1>7. BehindLastSend'
  <2>1. ASSUME NEW k \in Instances, NEW j \in Instances,
               tick'[k].at = "enqueue", OutOfBudget(k)',
               worker'[j].at \in {"send", "markSent"},
               worker'[j].id = Row(k)'.id
        PROVE  FALSE
    <3>1. tick[k].at = "enqueue" /\ OutOfBudget(k) /\ Row(k)' = Row(k)
      BY <2>1 DEF OutOfBudget, Row
    <3>2. CASE j # i
      BY <1>2, <2>1, <3>1, <3>2 DEF BehindLastSend
    <3>3. CASE j = i
      <4>1. worker[i].id = Row(k).id
        BY <1>3, <2>1, <3>1, <3>3 DEF IdleWorker
      <4>2. attempts[n] < MaxAttempts
        BY <2>1, <3>1, <3>3, <4>1 DEF BehindLastSend
      <4>3. Row(k).attempts <= attempts[n] /\ Row(k).attempts \in Nat
        BY <3>1, <4>1, RowTrue DEF Inv, WorkTrue
      <4>4. attempts[n] \in Nat
        BY DEF TypeOK
      <4>. QED
        BY <3>1, <4>2, <4>3, <4>4 DEF OutOfBudget
    <3>. QED
      BY <3>2, <3>3
  <2>. QED
    BY <2>1 DEF BehindLastSend
<1>. QED
  BY <1>1, <1>5, <1>6, <1>7 DEF NoFaultYet

(* The worker, without faults.                                             *)
LEMMA WorkerOnce ==
  ASSUME Inv, TypeOK', NEW i \in Instances, Worker(i), NoFaultYet, faults' = faults
  PROVE  NoFaultYet'
<1>. /\ TypeOK /\ OneWorker /\ SentOnce /\ StillUnsent /\ BehindLastSend
  BY DEF Inv, NoFaultYet
<1>. DEFINE n == worker[i].id
<1>1. CASE TakeJob(i)
  <2>1. PICK m \in Notifications :
          /\ worker[i].at = "idle" /\ jobs[m] = Waiting
          /\ jobs' = [jobs EXCEPT ![m] = i]
          /\ worker' = [worker EXCEPT ![i] = [at |-> "load", id |-> m]]
          /\ UNCHANGED <<rows, tick, mail>>
    BY <1>1 DEF TakeJob
  <2>2. \A j \in Instances :
          worker'[j] = IF j = i THEN [at |-> "load", id |-> m] ELSE worker[j]
    BY <2>1 DEF TypeOK
  <2>3. worker[i].id = NoJob
    BY <2>1 DEF Inv, WorkTrue, WorkerTrue, At
  <2>4. OneWorker'
    <3>1. ASSUME NEW j \in Instances, NEW k \in Notifications
          PROVE  jobs'[k] = j <=> worker'[j].id = k
      <4>1. jobs[k] = j <=> worker[j].id = k
        BY DEF OneWorker
      <4>2. jobs'[k] = IF k = m THEN i ELSE jobs[k]
        BY <2>1 DEF TypeOK
      <4>. QED
        BY <2>1, <2>2, <2>3, <4>1, <4>2
    <3>. QED
      BY <3>1 DEF OneWorker
  <2>5. SentOnce'
    <3>1. \A k \in Notifications : Marking(k) => Marking(k)'
      BY <2>1, <2>2 DEF Marking, At
    <3>. QED
      BY <2>1, <3>1 DEF SentOnce, rows, mail
  <2>6. StillUnsent'
    BY <2>1, <2>2 DEF StillUnsent, rows, mail
  <2>7. BehindLastSend'
    BY <2>1, <2>2 DEF BehindLastSend, Row, OutOfBudget
  <2>. QED
    BY <2>4, <2>5, <2>6, <2>7 DEF NoFaultYet
<1>2. ASSUME worker[i].at # "idle"
      PROVE  n \in Notifications
  BY <1>2 DEF Inv, WorkTrue, WorkerTrue, At, TypeOK
<1>3. ASSUME n \in Notifications
      PROVE  /\ status[n] \in RowStatus /\ delivered[n] \in Nat
             /\ delivered[n] <= 1
             /\ status[n] = "FAILED" => delivered[n] = 0
             /\ delivered[n] > 0 => status[n] = "SENT" \/ worker[i].at = "markSent"
             /\ worker[i].at \notin {"idle", "load", "markSent"} => delivered[n] = 0
             /\ worker[i].at \in {"send", "markSent"} => status[n] = "PENDING"
  BY <1>3, OutOnlyIfMarked DEF SentOnce, StillUnsent, TypeOK, NoFaultYet
(* A step of process that sends no mail and writes no status.              *)
<1>4. ASSUME n \in Notifications, UNCHANGED <<status, delivered, tick>>,
             worker[i].at # "markSent",
             \/ EndJob(i)
             \/ /\ \E step \in {"failIfExhausted", "giveUp"} : Goto(i, step)
                /\ UNCHANGED jobs
                /\ delivered[n] = 0
      PROVE  NoFaultYet'
  <2>1. worker'[i].at \in {"idle", "failIfExhausted", "giveUp"}
    BY <1>4 DEF EndJob, Goto, IdleWorker, TypeOK
  <2>2. \/ EndJob(i)
        \/ (\E step \in WorkerStep : Goto(i, step)) /\ UNCHANGED jobs
    BY <1>4 DEF WorkerStep
  <2>3. worker'[i].at # "idle" => delivered'[n] = 0
    BY <1>4 DEF EndJob, IdleWorker, TypeOK
  <2>. QED
    BY <1>3, <1>4, <2>1, <2>2, <2>3, WorkerStepOnce
<1>5. CASE Load(i)
  <2>1. n \in Notifications /\ worker[i].at = "load"
    BY <1>2, <1>5 DEF Load, At
  <2>2. CASE status[n] = "PENDING"
    <3>1. Goto(i, "reserve") /\ UNCHANGED <<status, delivered, tick, jobs>>
      BY <1>5, <2>2 DEF Load, rows, mail
    <3>2. delivered[n] = 0
      BY <1>3, <2>1, <2>2
    <3>3. worker'[i].at = "reserve"
      BY <3>1 DEF Goto, TypeOK
    <3>4. (\E step \in WorkerStep : Goto(i, step)) /\ UNCHANGED jobs
      BY <3>1 DEF WorkerStep
    <3>. QED
      BY <1>3, <2>1, <3>1, <3>2, <3>3, <3>4, WorkerStepOnce
  <2>3. CASE status[n] # "PENDING"
    BY <1>4, <1>5, <2>1, <2>3 DEF Load, rows, mail
  <2>. QED
    BY <2>2, <2>3
<1>6. CASE ReserveAttempt(i)
  <2>1. n \in Notifications /\ worker[i].at = "reserve"
    BY <1>2, <1>6 DEF ReserveAttempt, At
  <2>2. delivered[n] = 0
    BY <1>3, <2>1
  <2>3. CASE Reservable(n)
    <3>1. /\ Goto(i, "send") /\ UNCHANGED <<status, delivered, tick, jobs>>
          /\ status[n] = "PENDING" /\ attempts[n] < MaxAttempts
      BY <1>6, <2>3 DEF ReserveAttempt, Reservable, mail
    <3>2. worker'[i].at = "send"
      BY <3>1 DEF Goto, TypeOK
    <3>3. (\E step \in WorkerStep : Goto(i, step)) /\ UNCHANGED jobs
      BY <3>1 DEF WorkerStep
    <3>. QED
      BY <1>3, <2>1, <2>2, <3>1, <3>2, <3>3, WorkerStepOnce
  <2>4. CASE ~Reservable(n)
    BY <1>4, <1>6, <2>1, <2>2, <2>4 DEF ReserveAttempt, rows, mail
  <2>. QED
    BY <2>3, <2>4
<1>7. CASE FailIfExhausted(i) \/ HandleSendFailure(i)
  <2>1. /\ n \in Notifications
        /\ worker[i].at \in {"failIfExhausted", "handleSendFailure"}
    BY <1>2, <1>7 DEF FailIfExhausted, HandleSendFailure, At
  <2>2. delivered[n] = 0
    BY <1>3, <2>1
  <2>. QED
    BY <1>4, <1>7, <2>1, <2>2
    DEF FailIfExhausted, HandleSendFailure, rows, mail
<1>8. CASE SendMail(i)
  <2>1. n \in Notifications /\ worker[i].at = "send"
    BY <1>2, <1>8 DEF SendMail, At
  <2>2. delivered[n] = 0 /\ status[n] = "PENDING"
    BY <1>3, <2>1
  <2>3. UNCHANGED <<status, attempts, jobs, tick>>
    BY <1>8 DEF SendMail, rows
  <2>4. CASE Accepted(n) /\ Goto(i, "markSent")
    <3>1. \A m \in Notifications : delivered'[m] = IF m = n THEN 1 ELSE delivered[m]
      BY <2>1, <2>2, <2>4 DEF Accepted, TypeOK
    <3>2. worker'[i].at = "markSent"
      BY <2>4 DEF Goto, TypeOK
    <3>3. (\E step \in WorkerStep : Goto(i, step)) /\ UNCHANGED jobs
      BY <2>3, <2>4 DEF WorkerStep
    <3>. QED
      BY <2>1, <2>2, <2>3, <3>1, <3>2, <3>3, WorkerStepOnce
  <2>5. CASE Goto(i, "handleSendFailure") /\ UNCHANGED delivered
    <3>1. worker'[i].at = "handleSendFailure"
      BY <2>5 DEF Goto, TypeOK
    <3>2. (\E step \in WorkerStep : Goto(i, step)) /\ UNCHANGED jobs
      BY <2>3, <2>5 DEF WorkerStep
    <3>. QED
      BY <2>1, <2>2, <2>3, <2>5, <3>1, <3>2, WorkerStepOnce
  <2>6. faults' # faults + 1
    BY DEF TypeOK
  <2>. QED
    BY <1>8, <2>4, <2>5, <2>6 DEF SendMail
<1>9. CASE MarkFailed(i)
  <2>1. n \in Notifications /\ worker[i].at = "giveUp"
    BY <1>2, <1>9 DEF MarkFailed, At
  <2>2. delivered[n] = 0
    BY <1>3, <2>1
  <2>3. \A m \in Notifications \ {n} : status'[m] = status[m]
    BY <1>9 DEF MarkFailed, Settle, TypeOK, rows
  <2>4. EndJob(i) /\ UNCHANGED <<delivered, tick>>
    BY <1>9 DEF MarkFailed, mail
  <2>5. worker'[i].at = "idle"
    BY <2>4 DEF EndJob, IdleWorker, TypeOK
  <2>. QED
    BY <2>1, <2>2, <2>3, <2>4, <2>5, WorkerStepOnce
<1>10. CASE MarkSent(i)
  <2>1. n \in Notifications /\ worker[i].at = "markSent"
    BY <1>2, <1>10 DEF MarkSent, At
  <2>2. status[n] = "PENDING" /\ delivered[n] <= 1
    BY <1>3, <2>1
  <2>3. \A m \in Notifications : status'[m] = IF m = n THEN "SENT" ELSE status[m]
    BY <1>10, <2>1, <2>2 DEF MarkSent, Settle, TypeOK
  <2>4. EndJob(i) /\ UNCHANGED <<delivered, tick>>
    BY <1>10 DEF MarkSent, mail
  <2>5. worker'[i].at = "idle"
    BY <2>4 DEF EndJob, IdleWorker, TypeOK
  <2>. QED
    BY <2>1, <2>2, <2>3, <2>4, <2>5, WorkerStepOnce
<1>. QED
  BY <1>1, <1>5, <1>6, <1>7, <1>8, <1>9, <1>10 DEF Worker

(* A new row is one no job and no worker knows.                            *)
LEMMA RecordOnce ==
  ASSUME Inv, TypeOK', NEW n \in Notifications, Record(n), NoFaultYet
  PROVE  NoFaultYet'
<1>. /\ TypeOK /\ OneWorker /\ SentOnce /\ StillUnsent /\ BehindLastSend
  BY DEF Inv, NoFaultYet
<1>1. /\ \A m \in Notifications : status'[m] = IF m = n THEN "PENDING" ELSE status[m]
      /\ status[n] = "ABSENT"
      /\ UNCHANGED <<jobs, tick, worker, delivered>>
  BY DEF Record, TypeOK, mail
<1>2. OneWorker'
  BY <1>1 DEF OneWorker
<1>3. SentOnce'
  <2>1. \A m \in Notifications : Marking(m)' = Marking(m)
    BY <1>1 DEF Marking, At
  <2>. QED
    BY <1>1, <2>1 DEF SentOnce
<1>4. StillUnsent'
  <2>1. ASSUME NEW j \in Instances, worker[j].at \in {"send", "markSent"}
        PROVE  status'[worker[j].id] = "PENDING"
    <3>1. worker[j].id \in Notifications
      BY <2>1 DEF Inv, WorkTrue, WorkerTrue, At, TypeOK
    <3>. QED
      BY <1>1, <2>1, <3>1 DEF StillUnsent
  <2>. QED
    BY <1>1, <2>1 DEF StillUnsent
<1>5. BehindLastSend'
  BY <1>1 DEF BehindLastSend, Row, OutOfBudget
<1>. QED
  BY <1>2, <1>3, <1>4, <1>5 DEF NoFaultYet

-----------------------------------------------------------------------------
LEMMA FaultInvInit == Init => FaultInv
<1>. SUFFICES ASSUME Init PROVE NoFaultYet
  BY InvInit DEF FaultInv
<1>1. /\ \A n \in Notifications :
           status[n] = "ABSENT" /\ jobs[n] = NoJob /\ delivered[n] = 0
      /\ \A i \in Instances :
           worker[i].at = "idle" /\ worker[i].id = NoJob /\ tick[i].at = "idle"
  BY DEF Init, IdleTick, IdleWorker
<1>2. OneWorker
  BY <1>1 DEF OneWorker
<1>3. SentOnce /\ StillUnsent /\ BehindLastSend
  BY <1>1 DEF SentOnce, StillUnsent, BehindLastSend
<1>. QED
  BY <1>2, <1>3 DEF NoFaultYet

LEMMA FaultInvNext == FaultInv /\ [Next]_vars => FaultInv'
<1>. SUFFICES ASSUME FaultInv, [Next]_vars, faults' = 0 PROVE NoFaultYet'
  BY InvNext DEF FaultInv
<1>1. /\ Inv /\ Inv'
      /\ TypeOK /\ TypeOK' /\ faults \in Nat
  <2>1. Inv /\ Inv'
    BY InvNext DEF FaultInv
  <2>2. TypeOK /\ TypeOK'
    BY <2>1 DEF Inv
  <2>3. faults \in Nat
    BY <2>2 DEF TypeOK
  <2>. QED
    BY <2>1, <2>2, <2>3
(* There is no way back from a fault.                                      *)
<1>2. faults = 0
  <2>1. faults' = faults \/ faults' = faults + 1
    BY DEF Next, vars, Dispatcher, FindPendingBatch, GetJob, GetState,
           RemoveJob, EnqueueOrFail, DispatchError, Worker, TakeJob, Load, ReserveAttempt,
           FailIfExhausted, SendMail, HandleSendFailure, MarkFailed, MarkSent,
           StatementError, Crash, Record, Stalled, LoseLock, RedisRestart
  <2>. QED
    BY <1>1, <2>1
<1>3. NoFaultYet /\ faults' = faults /\ faults' # faults + 1
  BY <1>2 DEF FaultInv
<1>4. ASSUME NEW i \in Instances, Dispatcher(i) PROVE NoFaultYet'
  BY <1>1, <1>3, <1>4, DispatcherOnce
<1>5. ASSUME NEW i \in Instances, Worker(i) PROVE NoFaultYet'
  BY <1>1, <1>3, <1>5, WorkerOnce
<1>6. ASSUME NEW n \in Notifications, Record(n) PROVE NoFaultYet'
  BY <1>1, <1>3, <1>6, RecordOnce
<1>7. ASSUME NEW n \in Notifications, Stalled(n) PROVE FALSE
  BY <1>3, <1>7 DEF Stalled, Abandoned, NoFaultYet, OneWorker
<1>8. ASSUME UNCHANGED vars PROVE NoFaultYet'
  BY <1>3, <1>8
  DEF vars, rows, mail, NoFaultYet, OneWorker, SentOnce, StillUnsent,
      BehindLastSend, Marking, At, Row, OutOfBudget
<1>9. ASSUME \/ \E i \in Instances :
                  DispatchError(i) \/ StatementError(i) \/ Crash(i)
             \/ \E n \in Notifications : LoseLock(n)
             \/ RedisRestart
      PROVE  FALSE
  BY <1>3, <1>9 DEF DispatchError, StatementError, Crash, LoseLock, RedisRestart
<1>. QED
  BY <1>4, <1>5, <1>6, <1>7, <1>8, <1>9 DEF Next

(* Without faults a mail is delivered at most once, and never after its    *)
(* row was given up, for any number of instances, notifications and        *)
(* attempts (NotificationDispatcherService and MailProcessor together).    *)
THEOREM DeliveredOnce == Spec => []OnceUnlessFaults
<1>1. FaultInv => OnceUnlessFaults
  BY DEF FaultInv, NoFaultYet, SentOnce, OnceUnlessFaults
<1>. QED
  BY <1>1, FaultInvInit, FaultInvNext, PTL DEF Spec
=============================================================================
