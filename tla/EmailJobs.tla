------------------------------ MODULE EmailJobs ------------------------------
(***************************************************************************)
(* The e-mail delivery queue: the BackgroundJob rows of type               *)
(* EMAIL_DELIVERY, the polling worker of jobs/email-delivery.service.ts,   *)
(* the producers of rows (auth, public-bookings, admin) and the operator's *)
(* retry of admin/admin.service.ts.                                        *)
(*                                                                         *)
(* A member of Polls is one execution of processQueuedEmailJobs.  The      *)
(* timer of onModuleInit starts an execution without awaiting the previous *)
(* one and several server processes share the table, so executions         *)
(* overlap; every database call and the SMTP call is a step of its own.    *)
(* Time is abstracted to "runAt has passed" (due).                         *)
(***************************************************************************)
EXTENDS Integers, Sequences, FiniteSets, Functions

CONSTANTS
  Jobs,         \* rows that may be created
  Polls,        \* overlapping executions of processQueuedEmailJobs
  Limit,        \* "take: limit" of the query
  MaxAttempts,  \* the rows' maxAttempts column
  MaxResets,    \* bound: operator retries per job
  MaxRestarts   \* bound: crashes, deploys and thrown database errors

ASSUME EmailJobsAssumption ==
  /\ IsFiniteSet(Jobs) /\ IsFiniteSet(Polls)
  /\ Limit \in Nat \ {0} /\ MaxAttempts \in Nat \ {0}
  /\ MaxResets \in Nat /\ MaxRestarts \in Nat

VARIABLES
  status,    \* BackgroundJob.status; "ABSENT" before the row exists
  attempts,  \* BackgroundJob.attempts
  due,       \* runAt <= now
  ready,     \* payload.ready, fixed when the row is created
  mail,      \* the mailer environment variables: "none", "provider" or "smtp"
  pc,        \* per poll: "free" or the stage of the job it has locked
  batch,     \* per poll: the rows read by findMany and not yet processed
  working,   \* per poll: the snapshot of the row it has locked
  sent,      \* history: how often the SMTP server accepted the job's mail
  doubts,    \* history: acceptances the worker could not record
  resets,    \* history: operator retries of the job
  restarts   \* history: crashes, deploys, thrown database errors

rowVars  == <<status, attempts, due, ready>>
pollVars == <<pc, batch, working>>
history  == <<sent, doubts, resets>>
vars     == <<rowVars, mail, pollVars, history, restarts>>

Status     == {"ABSENT", "QUEUED", "RUNNING", "SUCCEEDED", "FAILED"}
Stage      == {"free", "sending", "accepted", "refused"}
MailConfig == {"none", "provider", "smtp"}
Snapshot   == [job : Jobs, attempts : Nat]
NoSnapshot == [job |-> "none", attempts |-> 0]

\* The job a poll has locked and not settled.
Holds(p, j) == pc[p] # "free" /\ working[p].job = j

\* A row left RUNNING with no execution working on it; no code revives it.
Stranded(j) == status[j] = "RUNNING" /\ \A p \in Polls : ~Holds(p, j)

-----------------------------------------------------------------------------
Init ==
  /\ status   = [j \in Jobs |-> "ABSENT"]
  /\ attempts = [j \in Jobs |-> 0]
  /\ due      = [j \in Jobs |-> FALSE]
  /\ ready    = [j \in Jobs |-> FALSE]
  /\ mail \in MailConfig
  /\ pc       = [p \in Polls |-> "free"]
  /\ batch    = [p \in Polls |-> <<>>]
  /\ working  = [p \in Polls |-> NoSnapshot]
  /\ sent     = [j \in Jobs |-> 0]
  /\ doubts   = [j \in Jobs |-> 0]
  /\ resets   = [j \in Jobs |-> 0]
  /\ restarts = 0

\* EMAIL_FROM together with SMTP_HOST or MAIL_PROVIDER.
EmailDeliveryConfigured == mail # "none"

\* The worker insists on SMTP_HOST.
SmtpConfigured == mail = "smtp"

Insert(j, isReady, isDue) ==
  /\ status[j] = "ABSENT"
  /\ status' = [status EXCEPT ![j] = "QUEUED"]
  /\ due'    = [due EXCEPT ![j] = isDue]
  /\ ready'  = [ready EXCEPT ![j] = isReady]
  /\ UNCHANGED <<attempts, mail, pollVars, history, restarts>>

\* An invitation or a public booking writes its mail with its own transaction.
EnqueueMail(j) == Insert(j, EmailDeliveryConfigured, TRUE)

\* The payload of an operator's job is {requestedBy, value}: it has no "ready".
CreateBackgroundJob(j) == \E later \in BOOLEAN : Insert(j, FALSE, ~later)

\* Unconditional on the status: a RUNNING or SUCCEEDED row is queued again.
RetryBackgroundJob(j) ==
  /\ status[j] # "ABSENT"
  /\ resets[j] < MaxResets
  /\ status'   = [status EXCEPT ![j] = "QUEUED"]
  /\ attempts' = [attempts EXCEPT ![j] = 0]
  /\ due'      = [due EXCEPT ![j] = TRUE]
  /\ resets'   = [resets EXCEPT ![j] = @ + 1]
  /\ UNCHANGED <<ready, mail, pollVars, sent, doubts, restarts>>

\* The clock passes the runAt of a waiting row.
BecomeDue(j) ==
  /\ status[j] = "QUEUED" /\ ~due[j]
  /\ due' = [due EXCEPT ![j] = TRUE]
  /\ UNCHANGED <<status, attempts, ready, mail, pollVars, history, restarts>>

-----------------------------------------------------------------------------
\* Mutant of Eligible: the query forgets "payload.ready = true".
EligibleNotReady == {j \in Jobs : status[j] = "QUEUED" /\ due[j]}

\* Rows the worker's query returns.
Eligible == {j \in Jobs : status[j] = "QUEUED" /\ due[j] /\ ready[j]}

\* The snapshots of n eligible rows, in any order.
Snapshots(n) ==
  {[i \in 1..n |-> [job |-> rows[i], attempts |-> attempts[rows[i]]]] :
     rows \in {f \in [1..n -> Eligible] : IsInjective(f)}}

\* Mutant of Batches: off by one when the limit is reached.
BatchesShort ==
  LET count == Cardinality(Eligible)
  IN  Snapshots(IF count < Limit THEN count ELSE Limit - 1)

\* At most Limit rows.  Their order is by runAt, which is abstracted, so every
\* order is allowed.
Batches ==
  LET count == Cardinality(Eligible)
  IN  Snapshots(IF count <= Limit THEN count ELSE Limit)

\* A tick of the timer: read the batch.
ProcessQueuedEmailJobs(p) ==
  /\ pc[p] = "free" /\ batch[p] = <<>>
  /\ SmtpConfigured
  /\ Eligible # {}
  /\ \E snapshots \in Batches : batch' = [batch EXCEPT ![p] = snapshots]
  /\ UNCHANGED <<rowVars, mail, pc, working, history, restarts>>

\* Mutant of Lockable: whatever became of the row since the batch was read.
LockableAnyway(j) == status[j] # "ABSENT"

\* The where clause of the locking updateMany: it does not repeat "due".
Lockable(j) == status[j] = "QUEUED"

\* One turn of the loop: lock the next row of the batch, or skip it.
LockJob(p) ==
  LET row == Head(batch[p]) IN
  /\ pc[p] = "free" /\ batch[p] # <<>>
  /\ batch' = [batch EXCEPT ![p] = Tail(@)]
  /\ \/ /\ Lockable(row.job)
        /\ status'   = [status EXCEPT ![row.job] = "RUNNING"]
        /\ attempts' = [attempts EXCEPT ![row.job] = @ + 1]
        /\ pc'       = [pc EXCEPT ![p] = "sending"]
        /\ working'  = [working EXCEPT ![p] = row]
     \/ /\ ~Lockable(row.job)
        /\ UNCHANGED <<status, attempts, pc, working>>
  /\ UNCHANGED <<due, ready, mail, history, restarts>>

\* The SMTP exchange: accepted, refused, or accepted with the reply lost.
SendEmail(p) ==
  LET j == working[p].job IN
  /\ pc[p] = "sending"
  /\ \/ /\ pc'   = [pc EXCEPT ![p] = "accepted"]
        /\ sent' = [sent EXCEPT ![j] = @ + 1]
        /\ UNCHANGED doubts
     \/ /\ pc' = [pc EXCEPT ![p] = "refused"]
        /\ UNCHANGED <<sent, doubts>>
     \/ /\ pc'     = [pc EXCEPT ![p] = "refused"]
        /\ sent'   = [sent EXCEPT ![j] = @ + 1]
        /\ doubts' = [doubts EXCEPT ![j] = @ + 1]
  /\ UNCHANGED <<rowVars, mail, batch, working, resets, restarts>>

Release(p) ==
  /\ pc'      = [pc EXCEPT ![p] = "free"]
  /\ working' = [working EXCEPT ![p] = NoSnapshot]

\* Mark the row SUCCEEDED; when that update throws, the catch block runs.
RecordSuccess(p) ==
  LET j == working[p].job IN
  /\ pc[p] = "accepted"
  /\ \/ /\ status' = [status EXCEPT ![j] = "SUCCEEDED"]
        /\ Release(p)
        /\ UNCHANGED doubts
     \/ /\ pc'     = [pc EXCEPT ![p] = "refused"]
        /\ doubts' = [doubts EXCEPT ![j] = @ + 1]
        /\ UNCHANGED <<status, working>>
  /\ UNCHANGED <<attempts, due, ready, mail, batch, sent, resets, restarts>>

\* Mutant of Exhausted: the count before this attempt is compared.
ExhaustedLate(p) == working[p].attempts >= MaxAttempts

\* Decided from the snapshot read with the batch, not from the row.
Exhausted(p) == working[p].attempts + 1 >= MaxAttempts

\* The catch block; nextRetryAt lies at least a minute ahead.
RecordFailure(p) ==
  LET j == working[p].job IN
  /\ pc[p] = "refused"
  /\ status' = [status EXCEPT ![j] = IF Exhausted(p) THEN "FAILED" ELSE "QUEUED"]
  /\ due'    = [due EXCEPT ![j] = Exhausted(p)]
  /\ Release(p)
  /\ UNCHANGED <<attempts, ready, mail, batch, history, restarts>>

\* The process dies, or a database error escapes from processJob: the rest of
\* the batch is dropped and a locked row stays RUNNING.
Abandon(p) ==
  /\ restarts < MaxRestarts
  /\ pc[p] # "free" \/ batch[p] # <<>>
  /\ batch'    = [batch EXCEPT ![p] = <<>>]
  /\ restarts' = restarts + 1
  /\ Release(p)
  /\ UNCHANGED <<rowVars, mail, history>>

\* A deployment with other mailer variables restarts every process.
Deploy ==
  /\ restarts < MaxRestarts
  /\ \E m \in MailConfig \ {mail} : mail' = m
  /\ pc'       = [p \in Polls |-> "free"]
  /\ batch'    = [p \in Polls |-> <<>>]
  /\ working'  = [p \in Polls |-> NoSnapshot]
  /\ restarts' = restarts + 1
  /\ UNCHANGED <<rowVars, history>>

Work(p) ==
  ProcessQueuedEmailJobs(p) \/ LockJob(p) \/ SendEmail(p)
    \/ RecordSuccess(p) \/ RecordFailure(p)

Next ==
  \/ \E j \in Jobs : EnqueueMail(j) \/ CreateBackgroundJob(j)
                       \/ RetryBackgroundJob(j) \/ BecomeDue(j)
  \/ \E p \in Polls : Work(p) \/ Abandon(p)
  \/ Deploy

Spec == Init /\ [][Next]_vars

\* The timer keeps firing, an execution proceeds (nodemailer's socket timeouts
\* end every SMTP exchange) and the clock advances.  Nothing obliges an
\* operator, a deployment or a crash to happen.
Fairness ==
  /\ \A p \in Polls : WF_vars(Work(p))
  /\ \A j \in Jobs : WF_vars(BecomeDue(j))

FairSpec == Spec /\ Fairness

-----------------------------------------------------------------------------
TypeOK ==
  /\ status \in [Jobs -> Status]
  /\ attempts \in [Jobs -> Nat]
  /\ due \in [Jobs -> BOOLEAN]
  /\ ready \in [Jobs -> BOOLEAN]
  /\ mail \in MailConfig
  /\ pc \in [Polls -> Stage]
  /\ batch \in [Polls -> Seq(Snapshot)]
  /\ working \in [Polls -> Snapshot \cup {NoSnapshot}]
  /\ \A p \in Polls : pc[p] # "free" => working[p] \in Snapshot
  /\ sent \in [Jobs -> Nat]
  /\ doubts \in [Jobs -> Nat]
  /\ resets \in [Jobs -> Nat]
  /\ restarts \in Nat

\* As long as no operator retried the job, at most one of the overlapping
\* executions works on it, and then the row says RUNNING: the conditional
\* updateMany is a lock, however stale the batches are.
LockExclusive ==
  \A j \in Jobs : resets[j] = 0 =>
    /\ \A p, q \in Polls : Holds(p, j) /\ Holds(q, j) => p = q
    /\ \A p \in Polls : Holds(p, j) => status[j] = "RUNNING"

\* Each operator retry lets in one more concurrent sender, no more.
HoldersBoundedByRetries ==
  \A j \in Jobs : Cardinality({p \in Polls : Holds(p, j)}) <= 1 + resets[j]

\* The exhaustion test uses a stale count, so a job can be tried more often
\* than maxAttempts; the overshoot is at most one per other execution.
AttemptsBounded ==
  \A j \in Jobs : resets[j] = 0 =>
    attempts[j] <= MaxAttempts + Cardinality(Polls) - 1

\* A job is mailed twice only after an acceptance that could not be recorded
\* or an operator's retry; crashes alone never duplicate a mail.
DuplicatesExplained ==
  \A j \in Jobs : sent[j] <= 1 + doubts[j] + resets[j]

\* SUCCEEDED is never recorded for a mail no server accepted, and a job stored
\* while no mailer was configured is never mailed, whatever is deployed later.
SuccessMeansSent ==
  \A j \in Jobs : /\ status[j] = "SUCCEEDED" => sent[j] > 0
                  /\ sent[j] > 0 => ready[j]

\* Without an operator's retry a verdict is final: no late worker overwrites it.
VerdictFinal ==
  [][\A j \in Jobs :
       status[j] \in {"SUCCEEDED", "FAILED"} /\ resets'[j] = 0
         => status'[j] = status[j]]_vars

\* While the worker's mailer stays configured, a queued ready mail is settled
\* or has been orphaned in RUNNING by a crash.
QueuedMailSettles ==
  \A j \in Jobs :
    status[j] = "QUEUED" /\ ready[j]
      ~> \/ status[j] \in {"SUCCEEDED", "FAILED"}
         \/ Stranded(j)
         \/ ~SmtpConfigured

-----------------------------------------------------------------------------
\* The queue as its producers see it.
OutcomeOf(s) ==
  CASE s = "ABSENT"    -> "absent"
    [] s = "SUCCEEDED" -> "delivered"
    [] s = "FAILED"    -> "failed"
    [] OTHER           -> "pending"

Outcome  == [j \in Jobs |-> OutcomeOf(status[j])]
Reopened == {j \in Jobs : resets[j] > 0}

Outbox == INSTANCE MailOutbox WITH
  outcome <- Outcome, copies <- sent, reopened <- Reopened

\* The table, the overlapping executions and the operator together implement
\* the outbox: locking, retrying and crashing are invisible to a producer.
ImplementsOutbox == Outbox!Spec
=============================================================================
