----------------------------- MODULE MailOutbox -----------------------------
(***************************************************************************)
(* The mail outbox: email_notifications rows written by the transactions   *)
(* of the shop, the cron tick that turns PENDING rows into jobs of a       *)
(* BullMQ queue (NotificationDispatcherService), and the worker that sends *)
(* them (MailProcessor).  Every instance of the application runs one       *)
(* dispatcher and one worker.                                              *)
(*                                                                         *)
(* The database keeps the truth; the queue is only a way to run the work.  *)
(* Each database statement, each Redis call and the SMTP exchange is a     *)
(* step of its own.  What goes wrong outside the program (a process that   *)
(* dies, a Redis that restarts, a call that fails) is a fault; faults are  *)
(* bounded by MaxFaults, refusals of the SMTP server are not.              *)
(***************************************************************************)
EXTENDS Naturals, Sequences, FiniteSets, SequencesExt

CONSTANTS
  Notifications,   \* ids of email_notifications rows
  Instances,       \* running copies of the application
  MaxAttempts,     \* MAX_EMAIL_NOTIFICATION_ATTEMPTS
  BatchSize,       \* NOTIFICATION_DISPATCH_BATCH_SIZE
  MaxFaults,       \* bound: faults in a behaviour
  NoJob, Waiting   \* a job id that the queue does not know; a waiting job

ASSUME OutboxAssumption ==
  /\ MaxAttempts \in Nat \ {0} /\ BatchSize \in Nat \ {0} /\ MaxFaults \in Nat
  /\ IsFiniteSet(Instances)
  /\ NoJob \notin Instances /\ Waiting \notin Instances /\ NoJob # Waiting
  /\ NoJob \notin Notifications

VARIABLES
  status,     \* status column of each row; "ABSENT" before it is written
  attempts,   \* attempts column
  byUpdate,   \* the ids of the rows in the order of updated_at
  jobs,       \* the queue: NoJob, Waiting, or the instance the job is active in
  tick,       \* the dispatcher of each instance
  worker,     \* the worker of each instance
  sends,      \* calls of sendMail so far, per notification
  delivered,  \* mails the SMTP server accepted, per notification
  faults      \* faults so far

rows == <<status, attempts, byUpdate>>
mail == <<sends, delivered>>
vars == <<rows, jobs, tick, worker, mail, faults>>

-----------------------------------------------------------------------------
RowStatus == {"ABSENT", "PENDING", "SENT", "FAILED"}

(* What the dispatcher keeps of a row, from the batch it has read.         *)
BatchRow == [id : Notifications, attempts : 0..MaxAttempts]

TickStep == {"idle", "getJob", "getState", "remove", "enqueue"}

WorkerStep ==
  {"idle", "load", "reserve", "failIfExhausted", "send", "handleSendFailure",
   "giveUp", "markSent"}

IdleTick == [at |-> "idle", batch |-> <<>>]
IdleWorker == [at |-> "idle", id |-> NoJob]

-----------------------------------------------------------------------------
(* A transaction of the shop commits with a new PENDING row.               *)
Record(n) ==
  /\ status[n] = "ABSENT"
  /\ status' = [status EXCEPT ![n] = "PENDING"]
  /\ byUpdate' = Append(byUpdate, n)
  /\ UNCHANGED <<attempts, jobs, tick, worker, mail, faults>>

(* Every UPDATE of a row sets its updated_at.                              *)
Touch(n) ==
  \E k \in 1..Len(byUpdate) :
    byUpdate[k] = n /\ byUpdate' = Append(RemoveAt(byUpdate, k), n)

(* UPDATE ... SET status WHERE id = n AND status = 'PENDING'.              *)
(* Mutant: the WHERE names the id only.                                    *)
SettleAny(n, s) ==
  /\ status' = [status EXCEPT ![n] = s]
  /\ Touch(n)
  /\ UNCHANGED attempts

Settle(n, s) ==
  IF status[n] = "PENDING"
  THEN /\ status' = [status EXCEPT ![n] = s]
       /\ Touch(n)
       /\ UNCHANGED attempts
  ELSE UNCHANGED rows

-----------------------------------------------------------------------------
(* The ids of a batch: the PENDING rows, the one that has not changed for  *)
(* the longest time first, cut off after BatchSize.                        *)
Older(m, n) ==
  \E j, k \in 1..Len(byUpdate) : j < k /\ byUpdate[j] = m /\ byUpdate[k] = n

OldestPending(ids) ==
  /\ \A j, k \in 1..Len(ids) : j < k => Older(ids[j], ids[k])
  /\ \A k \in 1..Len(ids) : status[ids[k]] = "PENDING"
  /\ \A n \in Notifications :
       status[n] = "PENDING" /\ (\A k \in 1..Len(ids) : ids[k] # n) =>
         /\ Len(ids) = BatchSize
         /\ \A k \in 1..Len(ids) : Older(ids[k], n)

(* The dispatcher of instance i.  A tick that finds the previous one       *)
(* running does nothing, and neither does one that finds no row.           *)
FindPendingBatch(i) ==
  \E size \in 1..BatchSize : \E ids \in [1..size -> Notifications] :
    /\ tick[i].at = "idle"
    /\ OldestPending(ids)
    /\ tick' = [tick EXCEPT ![i] =
         [at    |-> "getJob",
          batch |-> [k \in 1..size |->
                       [id |-> ids[k], attempts |-> attempts[ids[k]]]]]]
    /\ UNCHANGED <<rows, jobs, worker, mail, faults>>

(* The row that instance i is dispatching, and its step to the next one.   *)
Row(i) == Head(tick[i].batch)

NextRow(i) ==
  tick' = [tick EXCEPT ![i] =
    IF Len(@.batch) = 1 THEN IdleTick
    ELSE [at |-> "getJob", batch |-> Tail(@.batch)]]

(* mailQueue.getJob.                                                       *)
(* Mutant: jobs in flight are not looked for.                              *)
GetNoJob(i) ==
  /\ tick[i].at = "getJob"
  /\ tick' = [tick EXCEPT ![i].at = "enqueue"]
  /\ UNCHANGED <<rows, jobs, worker, mail, faults>>

GetJob(i) ==
  /\ tick[i].at = "getJob"
  /\ tick' = [tick EXCEPT ![i].at =
                IF jobs[Row(i).id] = NoJob THEN "enqueue" ELSE "getState"]
  /\ UNCHANGED <<rows, jobs, worker, mail, faults>>

(* job.getState: a job that is waiting or active is left alone.  One that  *)
(* has ended since getJob is to be removed and replaced by a new one.      *)
GetState(i) ==
  /\ tick[i].at = "getState"
  /\ IF jobs[Row(i).id] = NoJob
     THEN tick' = [tick EXCEPT ![i].at = "remove"]
     ELSE NextRow(i)
  /\ UNCHANGED <<rows, jobs, worker, mail, faults>>

(* An active job whose process is gone; its lock expires after a while.    *)
Abandoned(n) == \E i \in Instances : jobs[n] = i /\ worker[i].id # n

(* job.remove is a call of its own and goes by the id: it removes whatever *)
(* job has that id by now, one that another dispatcher has just added      *)
(* included.  A job that is locked by its worker cannot be removed: the    *)
(* call throws, and dispatchOne goes on with the next row.                 *)
RemoveJob(i) ==
  LET n == Row(i).id
  IN /\ tick[i].at = "remove"
     /\ \/ /\ jobs[n] \in {NoJob, Waiting} \/ Abandoned(n)
           /\ jobs' = [jobs EXCEPT ![n] = NoJob]
           /\ tick' = [tick EXCEPT ![i].at = "enqueue"]
        \/ /\ jobs[n] \in Instances
           /\ NextRow(i)
           /\ UNCHANGED jobs
     /\ UNCHANGED <<rows, worker, mail, faults>>

(* enqueueOrFail decides from the attempts it read with the batch.  Adding *)
(* a job whose id the queue knows changes nothing.                         *)
OutOfBudget(i) == Row(i).attempts >= MaxAttempts

EnqueueOrFail(i) ==
  LET n == Row(i).id
  IN /\ tick[i].at = "enqueue"
     /\ \/ /\ OutOfBudget(i)
           /\ Settle(n, "FAILED")
           /\ UNCHANGED jobs
        \/ /\ ~OutOfBudget(i)
           /\ jobs' = [jobs EXCEPT ![n] = IF @ = NoJob THEN Waiting ELSE @]
           /\ UNCHANGED rows
     /\ NextRow(i)
     /\ UNCHANGED <<worker, mail, faults>>

(* A statement or a Redis call of the dispatcher fails: dispatchOne logs   *)
(* it and goes on with the next row.                                       *)
(* Mutant: the error ends the tick, and isRunning stays set for good.      *)
DispatchErrorEscapes(i) ==
  /\ tick[i].at # "idle"
  /\ faults < MaxFaults
  /\ faults' = faults + 1
  /\ tick' = [tick EXCEPT ![i].at = "running"]
  /\ UNCHANGED <<rows, jobs, worker, mail>>

DispatchError(i) ==
  /\ tick[i].at # "idle"
  /\ faults < MaxFaults
  /\ faults' = faults + 1
  /\ NextRow(i)
  /\ UNCHANGED <<rows, jobs, worker, mail>>

-----------------------------------------------------------------------------
(* The worker of instance i, one job at a time.                            *)
TakeJob(i) ==
  \E n \in Notifications :
    /\ worker[i].at = "idle"
    /\ jobs[n] = Waiting
    /\ jobs' = [jobs EXCEPT ![n] = i]
    /\ worker' = [worker EXCEPT ![i] = [at |-> "load", id |-> n]]
    /\ UNCHANGED <<rows, tick, mail, faults>>

At(i, step) == worker[i].at = step
Goto(i, step) == worker' = [worker EXCEPT ![i].at = step]

(* process returns or throws: a job runs once and is removed either way,   *)
(* unless its lock was lost in the meantime.                               *)
EndJob(i) ==
  LET n == worker[i].id
  IN /\ jobs' = [jobs EXCEPT ![n] = IF @ = i THEN NoJob ELSE @]
     /\ worker' = [worker EXCEPT ![i] = IdleWorker]

(* findByIdForSending: anything but a PENDING row is not sent.             *)
Load(i) ==
  /\ At(i, "load")
  /\ IF status[worker[i].id] = "PENDING"
     THEN Goto(i, "reserve") /\ UNCHANGED jobs
     ELSE EndJob(i)
  /\ UNCHANGED <<rows, tick, mail, faults>>

(* The WHERE of reserveAttempt.                                            *)
(* Mutant: it forgets the limit.                                           *)
AnyPending(n) == status[n] = "PENDING"

Reservable(n) == status[n] = "PENDING" /\ attempts[n] < MaxAttempts

ReserveAttempt(i) ==
  LET n == worker[i].id
  IN /\ At(i, "reserve")
     /\ \/ /\ Reservable(n)
           /\ attempts' = [attempts EXCEPT ![n] = @ + 1]
           /\ Touch(n)
           /\ Goto(i, "send")
           /\ UNCHANGED status
        \/ /\ ~Reservable(n)
           /\ Goto(i, "failIfExhausted")
           /\ UNCHANGED rows
     /\ UNCHANGED <<jobs, tick, mail, faults>>

(* failIfExhausted and handleSendFailure: findById, then markFailed when   *)
(* the budget is used up; otherwise the job just ends.                     *)
(* Mutant of Exhausted: any failed attempt is the last.                    *)
AlwaysExhausted(n) == TRUE

Exhausted(n) == attempts[n] >= MaxAttempts

FailIfExhausted(i) ==
  LET n == worker[i].id
  IN /\ At(i, "failIfExhausted")
     /\ IF status[n] = "PENDING" /\ Exhausted(n)
        THEN Goto(i, "giveUp") /\ UNCHANGED jobs
        ELSE EndJob(i)
     /\ UNCHANGED <<rows, tick, mail, faults>>

(* Mutant of HandleSendFailure: a loop of its own around sendMail.         *)
SendAgain(i) ==
  /\ At(i, "handleSendFailure")
  /\ IF Exhausted(worker[i].id) THEN Goto(i, "giveUp") ELSE Goto(i, "send")
  /\ UNCHANGED <<rows, jobs, tick, mail, faults>>

HandleSendFailure(i) ==
  /\ At(i, "handleSendFailure")
  /\ IF Exhausted(worker[i].id)
     THEN Goto(i, "giveUp") /\ UNCHANGED jobs
     ELSE EndJob(i)
  /\ UNCHANGED <<rows, tick, mail, faults>>

MarkFailed(i) ==
  /\ At(i, "giveUp")
  /\ Settle(worker[i].id, "FAILED")
  /\ EndJob(i)
  /\ UNCHANGED <<tick, mail, faults>>

(* The SMTP exchange: the mail is accepted and sendMail returns, or it     *)
(* cannot be built or is refused; as a fault, it is accepted but sendMail  *)
(* times out.                                                              *)
Called(n) == sends' = [sends EXCEPT ![n] = @ + 1]
Accepted(n) == delivered' = [delivered EXCEPT ![n] = @ + 1]

SendMail(i) ==
  LET n == worker[i].id
  IN /\ At(i, "send")
     /\ Called(n)
     /\ \/ Accepted(n) /\ Goto(i, "markSent") /\ UNCHANGED faults
        \/ Goto(i, "handleSendFailure") /\ UNCHANGED <<delivered, faults>>
        \/ /\ faults < MaxFaults
           /\ faults' = faults + 1
           /\ Accepted(n)
           /\ Goto(i, "handleSendFailure")
     /\ UNCHANGED <<rows, jobs, tick>>

MarkSent(i) ==
  /\ At(i, "markSent")
  /\ Settle(worker[i].id, "SENT")
  /\ EndJob(i)
  /\ UNCHANGED <<tick, mail, faults>>

(* A statement of process fails.  The error of markSent is swallowed, any  *)
(* other fails the job: in every case the job ends.                        *)
StatementError(i) ==
  /\ worker[i].at \notin {"idle", "send"}
  /\ faults < MaxFaults
  /\ faults' = faults + 1
  /\ EndJob(i)
  /\ UNCHANGED <<rows, tick, mail>>

-----------------------------------------------------------------------------
(* The process dies and is started again.  The queue still holds its job   *)
(* as active.                                                              *)
Crash(i) ==
  /\ tick[i].at # "idle" \/ worker[i].at # "idle"
  /\ faults < MaxFaults
  /\ faults' = faults + 1
  /\ tick' = [tick EXCEPT ![i] = IdleTick]
  /\ worker' = [worker EXCEPT ![i] = IdleWorker]
  /\ UNCHANGED <<rows, jobs, mail>>

(* BullMQ finds an active job whose lock has expired, its worker being     *)
(* gone: the job waits again, or after too many stalls is removed.         *)
Stalled(n) ==
  /\ Abandoned(n)
  /\ \E state \in {Waiting, NoJob} : jobs' = [jobs EXCEPT ![n] = state]
  /\ UNCHANGED <<rows, tick, worker, mail, faults>>

(* A live worker cannot renew the lock of its job, which is taken from it. *)
LoseLock(n) ==
  /\ jobs[n] \in Instances
  /\ faults < MaxFaults
  /\ faults' = faults + 1
  /\ jobs' = [jobs EXCEPT ![n] = Waiting]
  /\ UNCHANGED <<rows, tick, worker, mail>>

(* Redis restarts and has forgotten every job.                             *)
RedisRestart ==
  /\ \E n \in Notifications : jobs[n] # NoJob
  /\ faults < MaxFaults
  /\ faults' = faults + 1
  /\ jobs' = [n \in Notifications |-> NoJob]
  /\ UNCHANGED <<rows, tick, worker, mail>>

-----------------------------------------------------------------------------
Init ==
  /\ status = [n \in Notifications |-> "ABSENT"]
  /\ attempts = [n \in Notifications |-> 0]
  /\ byUpdate = <<>>
  /\ jobs = [n \in Notifications |-> NoJob]
  /\ tick = [i \in Instances |-> IdleTick]
  /\ worker = [i \in Instances |-> IdleWorker]
  /\ sends = [n \in Notifications |-> 0]
  /\ delivered = [n \in Notifications |-> 0]
  /\ faults = 0

Dispatcher(i) ==
  \/ FindPendingBatch(i) \/ GetJob(i) \/ GetState(i) \/ RemoveJob(i)
  \/ EnqueueOrFail(i)

Worker(i) ==
  \/ TakeJob(i) \/ Load(i) \/ ReserveAttempt(i) \/ FailIfExhausted(i)
  \/ SendMail(i) \/ HandleSendFailure(i) \/ MarkFailed(i) \/ MarkSent(i)

(* Every notification is settled and nobody is working.                    *)
Quiet ==
  /\ \A n \in Notifications : status[n] \in {"SENT", "FAILED"} /\ jobs[n] = NoJob
  /\ \A i \in Instances : tick[i].at = "idle" /\ At(i, "idle")

Next ==
  \/ \E i \in Instances :
       \/ Dispatcher(i) \/ DispatchError(i)
       \/ Worker(i) \/ StatementError(i)
       \/ Crash(i)
  \/ \E n \in Notifications : Record(n) \/ Stalled(n) \/ LoseLock(n)
  \/ RedisRestart
  \/ Quiet /\ UNCHANGED vars

(* The cron goes on ticking, a worker with a job goes on (a send ends by   *)
(* its timeout), and BullMQ goes on looking for stalled jobs.              *)
Fairness ==
  /\ \A i \in Instances : WF_vars(Dispatcher(i)) /\ WF_vars(Worker(i))
  /\ \A n \in Notifications : WF_vars(Stalled(n))

Spec == Init /\ [][Next]_vars
FairSpec == Spec /\ Fairness

-----------------------------------------------------------------------------
TypeOK ==
  /\ status \in [Notifications -> RowStatus]
  /\ attempts \in [Notifications -> 0..MaxAttempts]
  /\ byUpdate \in Seq(Notifications)
  /\ jobs \in [Notifications -> Instances \cup {NoJob, Waiting}]
  /\ tick \in [Instances -> [at : TickStep, batch : Seq(BatchRow)]]
  /\ worker \in [Instances -> [at : WorkerStep, id : Notifications \cup {NoJob}]]
  /\ sends \in [Notifications -> Nat]
  /\ delivered \in [Notifications -> Nat]
  /\ faults \in 0..MaxFaults

(* A mail is sent at most MaxAttempts times, whatever dies or is lost and  *)
(* however many workers get hold of its job: every call of sendMail is     *)
(* paid for by an attempt reserved in the database before it.              *)
Sending(n) == {i \in Instances : At(i, "send") /\ worker[i].id = n}

WithinBudget ==
  \A n \in Notifications : sends[n] + Cardinality(Sending(n)) <= attempts[n]

(* What the outbox says is true, even after crashes and lost jobs: a row   *)
(* that is SENT was accepted by the SMTP server at least once, and one     *)
(* that is FAILED has used up its attempts (markSent, markFailed).         *)
OutcomeTrue ==
  \A n \in Notifications :
    /\ status[n] = "SENT" => delivered[n] > 0
    /\ status[n] = "FAILED" => attempts[n] = MaxAttempts

(* An outcome is final: no late worker and no stale dispatcher changes a   *)
(* row that has been settled, its attempts included.                       *)
OutcomeFinal ==
  [][\A n \in Notifications :
       status[n] \in {"SENT", "FAILED"} =>
         status'[n] = status[n] /\ attempts'[n] = attempts[n]]_vars

(* As long as nothing outside the program fails, a mail is delivered at    *)
(* most once and never after it was given up, however many instances run,  *)
(* and although getJob, getState, remove and add are four calls between    *)
(* which other dispatchers and workers act on the same id: a job is only   *)
(* removed while no worker holds it, and the conditional updates do the    *)
(* rest (handleExistingJob, findByIdForSending, reserveAttempt).           *)
OnceUnlessFaults ==
  faults = 0 =>
    \A n \in Notifications :
      /\ delivered[n] <= 1
      /\ status[n] = "FAILED" => delivered[n] = 0

(* Every notification is settled in the end: refused mails use up the      *)
(* budget, and a job that is lost with its process or with Redis is made   *)
(* again by a later tick.                                                  *)
EverySettled ==
  \A n \in Notifications :
    status[n] = "PENDING" ~> status[n] \in {"SENT", "FAILED"}

-----------------------------------------------------------------------------
(* The inductive invariants of MailOutboxProofs.                           *)

(* A worker has a job unless it is idle, and knows why it marks or gives   *)
(* up a row; a dispatcher's batch is never ahead of the table.             *)
WorkerTrue(i) ==
  LET n == worker[i].id
  IN /\ At(i, "idle") <=> n = NoJob
     /\ At(i, "markSent") => delivered[n] > 0
     /\ At(i, "giveUp") => attempts[n] = MaxAttempts

BatchTrue(i) ==
  /\ tick[i].at # "idle" => tick[i].batch # <<>>
  /\ \A k \in 1..Len(tick[i].batch) :
       tick[i].batch[k].attempts <= attempts[tick[i].batch[k].id]

WorkTrue == \A i \in Instances : WorkerTrue(i) /\ BatchTrue(i)

Inv == TypeOK /\ WithinBudget /\ OutcomeTrue /\ WorkTrue

(* Without faults the job of a notification and the worker at work on it   *)
(* are one; a mail is out only when its row says so or is about to; and a  *)
(* dispatcher that is about to give a row up does so behind the last send. *)
OneWorker ==
  \A i \in Instances, n \in Notifications : jobs[n] = i <=> worker[i].id = n

Marking(n) == \E i \in Instances : At(i, "markSent") /\ worker[i].id = n

SentOnce ==
  \A n \in Notifications :
    /\ delivered[n] <= 1
    /\ delivered[n] > 0 => status[n] = "SENT" \/ Marking(n)
    /\ status[n] = "FAILED" => delivered[n] = 0

StillUnsent ==
  \A i \in Instances :
    /\ worker[i].at \notin {"idle", "load", "markSent"} => delivered[worker[i].id] = 0
    /\ worker[i].at \in {"send", "markSent"} => status[worker[i].id] = "PENDING"

BehindLastSend ==
  \A i, j \in Instances :
    /\ tick[i].at = "enqueue" /\ OutOfBudget(i)
    /\ worker[j].at \in {"send", "markSent"}
    => worker[j].id # Row(i).id

NoFaultYet == OneWorker /\ SentOnce /\ StillUnsent /\ BehindLastSend

FaultInv == Inv /\ (faults = 0 => NoFaultYet)
=============================================================================
