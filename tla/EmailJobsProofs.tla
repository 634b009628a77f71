--------------------------- MODULE EmailJobsProofs --------------------------
(***************************************************************************)
(* Theorems about EmailJobs for every number of rows, executions, attempts *)
(* and retries, checked by TLAPS.                                          *)
(***************************************************************************)
EXTENDS EmailJobs, FiniteSetTheorems, TLAPS

\* Counting one more occurrence keeps a table of counters typed.
LEMMA CountTyped ==
  ASSUME NEW f \in [Jobs -> Nat], NEW j \in Jobs
  PROVE  [f EXCEPT ![j] = @ + 1] \in [Jobs -> Nat]
  OBVIOUS

\* A batch is a sequence of snapshots of eligible rows.
LEMMA BatchesTyped ==
  ASSUME TypeOK, NEW s \in Batches
  PROVE  /\ s \in Seq(Snapshot)
         /\ \A i \in 1..Len(s) : s[i].job \in Eligible
<1>1. Eligible \subseteq Jobs
  BY DEF Eligible
<1>2. Cardinality(Eligible) \in Nat
  BY <1>1, EmailJobsAssumption, FS_Subset, FS_CardinalityType
<1>3. PICK n \in Nat : s \in Snapshots(n)
  <2>1. CASE Cardinality(Eligible) <= Limit
    BY <1>2, <2>1 DEF Batches
  <2>2. CASE ~(Cardinality(Eligible) <= Limit)
    BY <2>2, EmailJobsAssumption DEF Batches
  <2>3. QED
    BY <2>1, <2>2
<1>4. PICK rows \in [1..n -> Eligible] :
        s = [i \in 1..n |-> [job |-> rows[i], attempts |-> attempts[rows[i]]]]
  BY <1>3 DEF Snapshots
<1>5. \A i \in 1..n : s[i] \in Snapshot /\ s[i].job \in Eligible
  BY <1>1, <1>4 DEF TypeOK, Snapshot
<1>6. s \in [1..n -> Snapshot]
  BY <1>4, <1>5
<1>7. QED
  BY <1>5, <1>6

\* The head of a non-empty batch is a snapshot, and so is what remains.
LEMMA BatchHeadTyped ==
  ASSUME NEW s \in Seq(Snapshot), s # <<>>
  PROVE  /\ Head(s) \in Snapshot
         /\ Head(s).job \in Jobs
         /\ Tail(s) \in Seq(Snapshot)
<1>1. Head(s) \in Snapshot /\ Tail(s) \in Seq(Snapshot)
  OBVIOUS
<1>2. QED
  BY <1>1 DEF Snapshot

\* The steps of the rows' producers, the operator and the clock keep the types.
LEMMA RowStepTyped ==
  ASSUME TypeOK, NEW j \in Jobs,
         EnqueueMail(j) \/ CreateBackgroundJob(j) \/ RetryBackgroundJob(j) \/ BecomeDue(j)
  PROVE  TypeOK'
<1>1. CASE EnqueueMail(j)
  BY <1>1 DEF EnqueueMail, Insert, EmailDeliveryConfigured, TypeOK, Status,
              pollVars, history
<1>2. CASE CreateBackgroundJob(j)
  BY <1>2 DEF CreateBackgroundJob, Insert, TypeOK, Status, pollVars, history
<1>3. CASE RetryBackgroundJob(j)
  BY <1>3 DEF RetryBackgroundJob, TypeOK, Status, pollVars
<1>4. CASE BecomeDue(j)
  BY <1>4 DEF BecomeDue, TypeOK, pollVars, history
<1>5. QED
  BY <1>1, <1>2, <1>3, <1>4

\* The steps of an execution of the worker keep the types.
LEMMA WorkTyped ==
  ASSUME TypeOK, NEW p \in Polls, Work(p)
  PROVE  TypeOK'
<1>0. pc[p] # "free" => working[p] \in Snapshot /\ working[p].job \in Jobs
  BY DEF TypeOK, Snapshot
<1>1. CASE ProcessQueuedEmailJobs(p)
  <2>1. PICK s \in Batches : batch' = [batch EXCEPT ![p] = s]
    BY <1>1 DEF ProcessQueuedEmailJobs
  <2>2. s \in Seq(Snapshot)
    BY <2>1, BatchesTyped
  <2>3. QED
    BY <1>1, <2>1, <2>2 DEF ProcessQueuedEmailJobs, TypeOK, rowVars, history
<1>2. CASE LockJob(p)
  <2>1. batch[p] \in Seq(Snapshot) /\ batch[p] # <<>>
    BY <1>2 DEF LockJob, TypeOK
  <2>2. /\ Head(batch[p]) \in Snapshot
        /\ Head(batch[p]).job \in Jobs
        /\ Tail(batch[p]) \in Seq(Snapshot)
    BY <2>1, BatchHeadTyped
  <2>3. CASE Lockable(Head(batch[p]).job)
    <3> DEFINE row == Head(batch[p])
    <3>1. /\ status' = [status EXCEPT ![row.job] = "RUNNING"]
          /\ attempts' = [attempts EXCEPT ![row.job] = @ + 1]
          /\ pc' = [pc EXCEPT ![p] = "sending"]
          /\ working' = [working EXCEPT ![p] = row]
          /\ batch' = [batch EXCEPT ![p] = Tail(@)]
          /\ UNCHANGED <<due, ready, mail, sent, doubts, resets, restarts>>
      BY <1>2, <2>3 DEF LockJob, history
    <3>2. row \in Snapshot /\ row.job \in Jobs /\ Tail(batch[p]) \in Seq(Snapshot)
      BY <2>2
    <3> HIDE DEF row
    <3>3. status' \in [Jobs -> Status] /\ pc' \in [Polls -> Stage]
      BY <3>1 DEF TypeOK, Status, Stage
    <3>4. attempts' \in [Jobs -> Nat]
      BY <3>1, <3>2 DEF TypeOK
    <3>5. batch' \in [Polls -> Seq(Snapshot)]
      BY <3>1, <3>2 DEF TypeOK
    <3>6. /\ working' \in [Polls -> Snapshot \cup {NoSnapshot}]
          /\ \A q \in Polls : pc'[q] # "free" => working'[q] \in Snapshot
      BY <3>1, <3>2 DEF TypeOK
    <3>7. QED
      BY <3>1, <3>3, <3>4, <3>5, <3>6 DEF TypeOK
  <2>4. CASE ~Lockable(Head(batch[p]).job)
    BY <1>2, <2>2, <2>4 DEF LockJob, TypeOK, history
  <2>5. QED
    BY <2>3, <2>4
<1>3. CASE SendEmail(p)
  <2> DEFINE j == working[p].job
  <2>1. /\ pc' = [pc EXCEPT ![p] = "accepted"] \/ pc' = [pc EXCEPT ![p] = "refused"]
        /\ sent' = [sent EXCEPT ![j] = @ + 1] \/ sent' = sent
        /\ doubts' = [doubts EXCEPT ![j] = @ + 1] \/ doubts' = doubts
        /\ pc[p] = "sending"
        /\ UNCHANGED <<status, attempts, due, ready, mail, batch, working, resets, restarts>>
    BY <1>3 DEF SendEmail, rowVars
  <2>2. j \in Jobs /\ working[p] \in Snapshot
    BY <1>0, <2>1
  <2> HIDE DEF j
  <2>3. sent' \in [Jobs -> Nat]
    BY <2>1, <2>2, CountTyped DEF TypeOK
  <2>4. doubts' \in [Jobs -> Nat]
    BY <2>1, <2>2, CountTyped DEF TypeOK
  <2>5. /\ pc' \in [Polls -> Stage]
        /\ \A q \in Polls : pc'[q] # "free" => working[q] \in Snapshot
    BY <2>1, <2>2 DEF TypeOK, Stage
  <2>6. QED
    BY <2>1, <2>3, <2>4, <2>5 DEF TypeOK
<1>4. CASE RecordSuccess(p)
  <2> DEFINE j == working[p].job
  <2>1. pc[p] = "accepted" /\ UNCHANGED <<attempts, due, ready, mail, batch, sent, resets, restarts>>
    BY <1>4 DEF RecordSuccess
  <2>2. j \in Jobs /\ working[p] \in Snapshot
    BY <1>0, <2>1
  <2>3. CASE status' = [status EXCEPT ![j] = "SUCCEEDED"] /\ Release(p) /\ UNCHANGED doubts
    BY <2>1, <2>2, <2>3 DEF Release, TypeOK, Status, Stage
  <2>4. CASE /\ doubts' = [doubts EXCEPT ![j] = @ + 1]
             /\ pc' = [pc EXCEPT ![p] = "refused"]
             /\ UNCHANGED <<status, working>>
    <3> HIDE DEF j
    <3>1. doubts' \in [Jobs -> Nat]
      BY <2>2, <2>4 DEF TypeOK
    <3>2. /\ pc' \in [Polls -> Stage]
          /\ \A q \in Polls : pc'[q] # "free" => working[q] \in Snapshot
      BY <2>1, <2>2, <2>4 DEF TypeOK, Stage
    <3>3. QED
      BY <2>1, <2>4, <3>1, <3>2 DEF TypeOK
  <2>5. QED
    BY <1>4, <2>3, <2>4 DEF RecordSuccess
<1>5. CASE RecordFailure(p)
  <2> DEFINE j == working[p].job
  <2>1. /\ status' = [status EXCEPT ![j] = IF Exhausted(p) THEN "FAILED" ELSE "QUEUED"]
        /\ due' = [due EXCEPT ![j] = Exhausted(p)]
        /\ Release(p)
        /\ UNCHANGED <<attempts, ready, mail, batch, sent, doubts, resets, restarts>>
    BY <1>5 DEF RecordFailure, history
  <2>2. Exhausted(p) \in BOOLEAN
    BY DEF Exhausted
  <2> HIDE DEF j
  <2>3. status' \in [Jobs -> Status]
    BY <2>1 DEF TypeOK, Status
  <2>4. due' \in [Jobs -> BOOLEAN]
    BY <2>1, <2>2 DEF TypeOK
  <2>5. /\ pc' \in [Polls -> Stage]
        /\ working' \in [Polls -> Snapshot \cup {NoSnapshot}]
        /\ \A q \in Polls : pc'[q] # "free" => working'[q] \in Snapshot
    BY <2>1 DEF TypeOK, Stage, Release
  <2>6. QED
    BY <2>1, <2>3, <2>4, <2>5 DEF TypeOK
<1>6. QED
  BY <1>1, <1>2, <1>3, <1>4, <1>5 DEF Work

\* Every variable of the queue keeps its type, whatever the constants.
THEOREM TypeCorrect == Spec => []TypeOK
<1>1. Init => TypeOK
  BY DEF Init, TypeOK, Status, Stage, MailConfig, Snapshot, NoSnapshot
<1>2. TypeOK /\ [Next]_vars => TypeOK'
  <2> SUFFICES ASSUME TypeOK, [Next]_vars
               PROVE  TypeOK'
    OBVIOUS
  <2>1. ASSUME NEW j \in Jobs,
               EnqueueMail(j) \/ CreateBackgroundJob(j) \/ RetryBackgroundJob(j) \/ BecomeDue(j)
        PROVE  TypeOK'
    BY <2>1, RowStepTyped
  <2>2. ASSUME NEW p \in Polls, Work(p)
        PROVE  TypeOK'
    BY <2>2, WorkTyped
  <2>3. ASSUME NEW p \in Polls, Abandon(p)
        PROVE  TypeOK'
    BY <2>3 DEF Abandon, Release, TypeOK, Stage, rowVars, history
  <2>4. CASE Deploy
    BY <2>4 DEF Deploy, TypeOK, Stage, MailConfig, rowVars, history
  <2>5. CASE UNCHANGED vars
    BY <2>5 DEF vars, rowVars, pollVars, history, TypeOK
  <2>6. QED
    BY <2>1, <2>2, <2>3, <2>4, <2>5 DEF Next
<1>3. QED
  BY <1>1, <1>2, PTL DEF Spec

-----------------------------------------------------------------------------
\* A locked row differs from every row whose status is not RUNNING.
LEMMA ExclusiveStep ==
  ASSUME TypeOK, LockExclusive, [Next]_vars
  PROVE  LockExclusive'
<1> USE DEF Holds
<1>1. ASSUME NEW j \in Jobs, EnqueueMail(j) \/ CreateBackgroundJob(j)
      PROVE  LockExclusive'
  BY <1>1 DEF EnqueueMail, CreateBackgroundJob, Insert, LockExclusive, TypeOK,
              pollVars, history
<1>2. ASSUME NEW j \in Jobs, RetryBackgroundJob(j)
      PROVE  LockExclusive'
  <2>1. resets' = [resets EXCEPT ![j] = @ + 1] /\ resets[j] \in Nat
    BY <1>2 DEF RetryBackgroundJob, TypeOK
  <2>2. resets'[j] # 0
    BY <2>1 DEF TypeOK
  <2>3. ASSUME NEW k \in Jobs, k # j
        PROVE  resets'[k] = resets[k] /\ status'[k] = status[k]
    BY <1>2, <2>3 DEF RetryBackgroundJob, TypeOK
  <2>4. UNCHANGED <<pc, working>>
    BY <1>2 DEF RetryBackgroundJob, pollVars
  <2>5. QED
    BY <2>2, <2>3, <2>4 DEF LockExclusive
<1>3. ASSUME NEW j \in Jobs, BecomeDue(j)
      PROVE  LockExclusive'
  BY <1>3 DEF BecomeDue, LockExclusive, pollVars, history
<1>4. ASSUME NEW p \in Polls, ProcessQueuedEmailJobs(p)
      PROVE  LockExclusive'
  BY <1>4 DEF ProcessQueuedEmailJobs, LockExclusive, rowVars, history
<1>5. ASSUME NEW p \in Polls, LockJob(p)
      PROVE  LockExclusive'
  <2> DEFINE row == Head(batch[p])
  <2>1. row \in Snapshot /\ row.job \in Jobs
    BY <1>5, BatchHeadTyped DEF LockJob, TypeOK
  <2>2. pc[p] = "free" /\ UNCHANGED resets
    BY <1>5 DEF LockJob, history
  <2>3. CASE Lockable(row.job)
    <3>1. /\ status' = [status EXCEPT ![row.job] = "RUNNING"]
          /\ pc' = [pc EXCEPT ![p] = "sending"]
          /\ working' = [working EXCEPT ![p] = row]
      BY <1>5, <2>3 DEF LockJob
    <3>2. status[row.job] = "QUEUED"
      BY <2>3 DEF Lockable
    <3> HIDE DEF row
    <3>3. ASSUME NEW j \in Jobs, resets'[j] = 0, NEW q \in Polls, Holds(q, j)'
          PROVE  /\ status'[j] = "RUNNING"
                 /\ q # p => Holds(q, j) /\ j # row.job
                 /\ q = p => j = row.job
      BY <2>1, <2>2, <3>1, <3>2, <3>3 DEF LockExclusive, TypeOK
    <3>4. QED
      BY <2>2, <3>3 DEF LockExclusive
  <2>4. CASE ~Lockable(row.job)
    BY <1>5, <2>4 DEF LockJob, LockExclusive, history
  <2>5. QED
    BY <2>3, <2>4
<1>6. ASSUME NEW p \in Polls, SendEmail(p)
      PROVE  LockExclusive'
  <2>1. /\ pc[p] # "free"
        /\ \E stage \in Stage : pc' = [pc EXCEPT ![p] = stage]
        /\ UNCHANGED <<working, status, resets>>
    BY <1>6 DEF SendEmail, Stage, rowVars
  <2>2. \A q \in Polls, j \in Jobs : Holds(q, j)' => Holds(q, j)
    BY <2>1 DEF TypeOK
  <2>3. QED
    BY <2>1, <2>2 DEF LockExclusive
<1>7. ASSUME NEW p \in Polls, RecordSuccess(p) \/ RecordFailure(p)
      PROVE  LockExclusive'
  <2> DEFINE j == working[p].job
  <2>1. j \in Jobs /\ Holds(p, j)
    BY <1>7 DEF RecordSuccess, RecordFailure, TypeOK, Snapshot
  <2>2. UNCHANGED resets
    BY <1>7 DEF RecordSuccess, RecordFailure, history
  <2>3. CASE /\ pc' = [pc EXCEPT ![p] = "refused"]
             /\ UNCHANGED <<status, working>>
    <3>1. \A q \in Polls, k \in Jobs : Holds(q, k)' => Holds(q, k)
      BY <2>1, <2>3 DEF TypeOK
    <3>2. QED
      BY <2>2, <2>3, <3>1 DEF LockExclusive
  <2>4. CASE /\ Release(p)
             /\ \E s \in Status : status' = [status EXCEPT ![j] = s]
    <3>1. \A q \in Polls, k \in Jobs : Holds(q, k)' => Holds(q, k) /\ q # p
      BY <2>4 DEF Release, TypeOK
    <3>2. \A k \in Jobs : k # j => status'[k] = status[k]
      BY <2>4 DEF TypeOK
    <3>3. \A q \in Polls : resets[j] = 0 /\ Holds(q, j) => q = p
      BY <2>1 DEF LockExclusive
    <3> HIDE DEF j
    <3>4. QED
      BY <2>2, <3>1, <3>2, <3>3 DEF LockExclusive
  <2>5. QED
    BY <1>7, <2>3, <2>4 DEF RecordSuccess, RecordFailure, Status
<1>8. ASSUME NEW p \in Polls, Abandon(p)
      PROVE  LockExclusive'
  <2>1. \A q \in Polls, k \in Jobs : Holds(q, k)' => Holds(q, k)
    BY <1>8 DEF Abandon, Release, TypeOK
  <2>2. UNCHANGED <<status, resets>>
    BY <1>8 DEF Abandon, rowVars, history
  <2>3. QED
    BY <2>1, <2>2 DEF LockExclusive
<1>9. CASE Deploy
  BY <1>9 DEF Deploy, LockExclusive, rowVars, history
<1>10. CASE UNCHANGED vars
  BY <1>10 DEF vars, rowVars, pollVars, history, LockExclusive
<1>11. QED
  BY <1>1, <1>2, <1>3, <1>4, <1>5, <1>6, <1>7, <1>8, <1>9, <1>10 DEF Next, Work

\* The conditional updateMany is a mutual exclusion lock for every number of
\* overlapping executions, as long as no operator retried the job.
THEOREM LockIsExclusive == Spec => []LockExclusive
<1>1. Init => LockExclusive
  BY DEF Init, LockExclusive, Holds
<1>2. QED
  BY <1>1, TypeCorrect, ExclusiveStep, PTL DEF Spec

-----------------------------------------------------------------------------
\* One step of VerdictFinal, from the lock.
LEMMA VerdictStep ==
  ASSUME TypeOK, LockExclusive, [Next]_vars, NEW j \in Jobs,
         status[j] \in {"SUCCEEDED", "FAILED"}, resets'[j] = 0
  PROVE  status'[j] = status[j]
<1>1. ASSUME NEW k \in Jobs, EnqueueMail(k) \/ CreateBackgroundJob(k)
      PROVE  status'[j] = status[j]
  BY <1>1 DEF EnqueueMail, CreateBackgroundJob, Insert, TypeOK
<1>2. ASSUME NEW k \in Jobs, RetryBackgroundJob(k)
      PROVE  status'[j] = status[j]
  <2>1. k # j
    <3> SUFFICES ASSUME k = j PROVE FALSE
      OBVIOUS
    <3>1. resets'[j] = resets[j] + 1 /\ resets[j] \in Nat
      BY <1>2 DEF RetryBackgroundJob, TypeOK
    <3>2. QED
      BY <3>1
  <2>2. QED
    BY <1>2, <2>1 DEF RetryBackgroundJob, TypeOK
<1>3. ASSUME NEW k \in Jobs, BecomeDue(k)
      PROVE  status'[j] = status[j]
  BY <1>3 DEF BecomeDue
<1>4. ASSUME NEW p \in Polls,
             ProcessQueuedEmailJobs(p) \/ SendEmail(p) \/ Abandon(p) \/ Deploy
      PROVE  status'[j] = status[j]
  BY <1>4 DEF ProcessQueuedEmailJobs, SendEmail, Abandon, Deploy, rowVars
<1>5. ASSUME NEW p \in Polls, LockJob(p)
      PROVE  status'[j] = status[j]
  <2>1. Head(batch[p]).job \in Jobs
    BY <1>5, BatchHeadTyped DEF LockJob, TypeOK
  <2>2. QED
    BY <1>5, <2>1 DEF LockJob, Lockable, TypeOK
<1>6. ASSUME NEW p \in Polls, RecordSuccess(p) \/ RecordFailure(p)
      PROVE  status'[j] = status[j]
  <2>1. resets[j] = 0
    BY <1>6 DEF RecordSuccess, RecordFailure, history
  <2>2. ~Holds(p, j)
    BY <2>1 DEF LockExclusive
  <2>3. working[p].job # j
    BY <1>6, <2>2 DEF Holds, RecordSuccess, RecordFailure
  <2>4. QED
    BY <1>6, <2>3 DEF RecordSuccess, RecordFailure, TypeOK
<1>7. CASE Deploy \/ UNCHANGED vars
  BY <1>7 DEF Deploy, vars, rowVars
<1>8. QED
  BY <1>1, <1>2, <1>3, <1>4, <1>5, <1>6, <1>7 DEF Next, Work

\* No late execution overwrites a verdict, as long as no operator intervened.
THEOREM VerdictIsFinal == Spec => VerdictFinal
<1>1. TypeOK /\ LockExclusive /\ [Next]_vars
        => [\A j \in Jobs :
              status[j] \in {"SUCCEEDED", "FAILED"} /\ resets'[j] = 0
                => status'[j] = status[j]]_vars
  BY VerdictStep
<1>2. QED
  BY <1>1, TypeCorrect, LockIsExclusive, PTL DEF Spec, VerdictFinal

-----------------------------------------------------------------------------
\* What makes SuccessMeansSent inductive: readiness is decided when the row is
\* created and every batch, and every lock, is of ready rows.
SentInv ==
  /\ SuccessMeansSent
  /\ \A j \in Jobs : ready[j] => status[j] # "ABSENT"
  /\ \A p \in Polls : \A i \in 1..Len(batch[p]) : ready[batch[p][i].job]
  /\ \A p \in Polls :
       pc[p] # "free" => /\ ready[working[p].job]
                         /\ pc[p] = "accepted" => sent[working[p].job] > 0

LEMMA SentStep ==
  ASSUME TypeOK, SentInv, [Next]_vars
  PROVE  SentInv'
<1>0. \A p \in Polls : /\ pc[p] # "free" => working[p].job \in Jobs
                       /\ batch[p] \in Seq(Snapshot)
                       /\ \A i \in 1..Len(batch[p]) : batch[p][i].job \in Jobs
  <2> TAKE p \in Polls
  <2>1. batch[p] \in Seq(Snapshot)
    BY DEF TypeOK
  <2>2. \A i \in 1..Len(batch[p]) : batch[p][i] \in Snapshot
    BY <2>1
  <2>3. pc[p] # "free" => working[p] \in Snapshot
    BY DEF TypeOK
  <2>4. QED
    BY <2>1, <2>2, <2>3 DEF Snapshot
<1>1. ASSUME NEW j \in Jobs, NEW isReady \in BOOLEAN, NEW isDue, Insert(j, isReady, isDue)
      PROVE  SentInv'
  <2>1. /\ ready' = [ready EXCEPT ![j] = isReady]
        /\ status' = [status EXCEPT ![j] = "QUEUED"]
        /\ ~ready[j]
        /\ UNCHANGED <<sent, pc, working, batch>>
    BY <1>1 DEF Insert, SentInv, pollVars, history
  <2>2. /\ \A k \in Jobs : ready[k] => ready'[k]
        /\ \A k \in Jobs : ready'[k] => status'[k] # "ABSENT"
    BY <2>1 DEF SentInv, TypeOK
  <2>3. SuccessMeansSent'
    BY <2>1 DEF SentInv, SuccessMeansSent, TypeOK
  <2>4. QED
    BY <1>0, <2>1, <2>2, <2>3 DEF SentInv
<1>2. ASSUME NEW j \in Jobs, RetryBackgroundJob(j) \/ BecomeDue(j)
      PROVE  SentInv'
  BY <1>2 DEF RetryBackgroundJob, BecomeDue, SentInv, SuccessMeansSent, TypeOK,
              pollVars, history
<1>3. ASSUME NEW p \in Polls, ProcessQueuedEmailJobs(p)
      PROVE  SentInv'
  <2>1. PICK s \in Batches : batch' = [batch EXCEPT ![p] = s]
    BY <1>3 DEF ProcessQueuedEmailJobs
  <2>2. \A i \in 1..Len(s) : ready[s[i].job]
    BY <2>1, BatchesTyped DEF Eligible
  <2>3. QED
    BY <1>3, <2>1, <2>2
    DEF ProcessQueuedEmailJobs, SentInv, SuccessMeansSent, TypeOK, rowVars, history
<1>4. ASSUME NEW p \in Polls, LockJob(p)
      PROVE  SentInv'
  <2> DEFINE row == Head(batch[p])
  <2>1. /\ row \in Snapshot /\ row.job \in Jobs /\ ready[row.job]
        /\ \A i \in 1..Len(Tail(batch[p])) : ready[Tail(batch[p])[i].job]
    <3>1. batch[p] \in Seq(Snapshot) /\ batch[p] # <<>> /\ 1 \in 1..Len(batch[p])
      BY <1>4 DEF LockJob, TypeOK
    <3>2. row = batch[p][1]
      BY <3>1
    <3>3. \A i \in 1..Len(Tail(batch[p])) :
             i + 1 \in 1..Len(batch[p]) /\ Tail(batch[p])[i] = batch[p][i + 1]
      BY <3>1
    <3>4. QED
      BY <1>0, <3>1, <3>2, <3>3 DEF SentInv
  <2>2. /\ batch' = [batch EXCEPT ![p] = Tail(@)]
        /\ UNCHANGED <<ready, sent>>
    BY <1>4 DEF LockJob, history
  <2>3. \A q \in Polls : \A i \in 1..Len(batch'[q]) : ready[batch'[q][i].job]
    BY <2>1, <2>2 DEF SentInv, TypeOK
  <2>4. CASE Lockable(row.job)
    <3>1. /\ status' = [status EXCEPT ![row.job] = "RUNNING"]
          /\ pc' = [pc EXCEPT ![p] = "sending"]
          /\ working' = [working EXCEPT ![p] = row]
      BY <1>4, <2>4 DEF LockJob
    <3> HIDE DEF row
    <3>2. SuccessMeansSent' /\ \A j \in Jobs : ready[j] => status'[j] # "ABSENT"
      BY <2>1, <2>2, <3>1 DEF SentInv, SuccessMeansSent, TypeOK
    <3>3. \A q \in Polls :
            pc'[q] # "free" => /\ ready[working'[q].job]
                               /\ pc'[q] = "accepted" => sent[working'[q].job] > 0
      BY <2>1, <3>1 DEF SentInv, TypeOK
    <3>4. QED
      BY <2>2, <2>3, <3>2, <3>3 DEF SentInv
  <2>5. CASE ~Lockable(row.job)
    <3>1. UNCHANGED <<status, pc, working>>
      BY <1>4, <2>5 DEF LockJob
    <3>2. QED
      BY <2>2, <2>3, <3>1 DEF SentInv, SuccessMeansSent
  <2>6. QED
    BY <2>4, <2>5
<1>5. ASSUME NEW p \in Polls, SendEmail(p)
      PROVE  SentInv'
  <2> DEFINE j == working[p].job
  <2>1. /\ j \in Jobs /\ ready[j]
        /\ UNCHANGED <<status, ready, batch, working>>
    BY <1>0, <1>5 DEF SendEmail, SentInv, rowVars
  <2>2. \/ sent' = [sent EXCEPT ![j] = @ + 1] /\ \E s \in Stage : pc' = [pc EXCEPT ![p] = s]
        \/ sent' = sent /\ pc' = [pc EXCEPT ![p] = "refused"]
    BY <1>5 DEF SendEmail, Stage
  <2>3. \A k \in Jobs : /\ sent[k] > 0 => sent'[k] > 0
                        /\ k # j => sent'[k] = sent[k]
    BY <2>1, <2>2 DEF TypeOK
  <2>4. pc'[p] = "accepted" => sent'[j] > 0
    BY <2>1, <2>2 DEF TypeOK
  <2>5. \A q \in Polls : q # p => pc'[q] = pc[q]
    BY <2>2 DEF TypeOK
  <2>6. SuccessMeansSent'
    BY <2>1, <2>3 DEF SentInv, SuccessMeansSent, TypeOK
  <2>7. pc[p] # "free"
    BY <1>5 DEF SendEmail
  <2>8. ASSUME NEW q \in Polls, pc'[q] # "free"
        PROVE  /\ ready[working[q].job]
               /\ pc'[q] = "accepted" => sent'[working[q].job] > 0
    <3>1. CASE q = p
      BY <2>1, <2>4, <3>1
    <3>2. CASE q # p
      BY <1>0, <2>3, <2>5, <2>8, <3>2 DEF SentInv, TypeOK
    <3>3. QED
      BY <3>1, <3>2
  <2>9. QED
    BY <2>1, <2>6, <2>8 DEF SentInv
<1>6. ASSUME NEW p \in Polls, RecordSuccess(p) \/ RecordFailure(p)
      PROVE  SentInv'
  <2> DEFINE j == working[p].job
  <2>1. /\ j \in Jobs /\ ready[j] /\ pc[p] # "free"
        /\ pc[p] = "accepted" => sent[j] > 0
    BY <1>0, <1>6 DEF RecordSuccess, RecordFailure, SentInv
  <2>2. UNCHANGED <<ready, sent, batch>>
    BY <1>6 DEF RecordSuccess, RecordFailure, history
  <2>3. \/ status' = status
        \/ status' = [status EXCEPT ![j] = "SUCCEEDED"] /\ pc[p] = "accepted"
        \/ \E s \in {"FAILED", "QUEUED"} : status' = [status EXCEPT ![j] = s]
    BY <1>6 DEF RecordSuccess, RecordFailure
  <2>4. \/ Release(p)
        \/ pc' = [pc EXCEPT ![p] = "refused"] /\ UNCHANGED working
    BY <1>6 DEF RecordSuccess, RecordFailure
  <2> HIDE DEF j
  <2>5. SuccessMeansSent' /\ \A k \in Jobs : ready[k] => status'[k] # "ABSENT"
    BY <2>1, <2>2, <2>3 DEF SentInv, SuccessMeansSent, TypeOK
  <2>6. \A q \in Polls : pc'[q] # "free" =>
           /\ working'[q] = working[q] /\ pc[q] # "free"
           /\ pc'[q] = "accepted" => pc[q] = "accepted"
    BY <2>1, <2>4 DEF Release, TypeOK
  <2>7. QED
    BY <2>2, <2>5, <2>6 DEF SentInv
<1>7. ASSUME NEW p \in Polls, Abandon(p)
      PROVE  SentInv'
  BY <1>7 DEF Abandon, Release, SentInv, SuccessMeansSent, TypeOK, rowVars, history
<1>8. CASE Deploy
  BY <1>8 DEF Deploy, SentInv, SuccessMeansSent, rowVars, history
<1>9. CASE UNCHANGED vars
  BY <1>9 DEF vars, rowVars, pollVars, history, SentInv, SuccessMeansSent
<1>10. QED
  BY <1>1, <1>2, <1>3, <1>4, <1>5, <1>6, <1>7, <1>8, <1>9
  DEF Next, Work, EnqueueMail, CreateBackgroundJob, EmailDeliveryConfigured

\* SUCCEEDED is recorded only for mails a server accepted, and a row stored
\* while no mailer was configured is never mailed.
THEOREM SuccessIsSent == Spec => []SuccessMeansSent
<1>1. Init => SentInv
  BY DEF Init, SentInv, SuccessMeansSent
<1>2. SentInv => SuccessMeansSent
  BY DEF SentInv
<1>3. QED
  BY <1>1, <1>2, TypeCorrect, SentStep, PTL DEF Spec

-----------------------------------------------------------------------------
\* Setting one row's status sets that mail's outcome and no other.
LEMMA OutcomeSet ==
  ASSUME TypeOK, NEW j \in Jobs, NEW s \in Status, status' = [status EXCEPT ![j] = s]
  PROVE  Outcome' = [Outcome EXCEPT ![j] = OutcomeOf(s)]
<1>1. \A k \in Jobs : status'[k] = IF k = j THEN s ELSE status[k]
  BY DEF TypeOK
<1>2. Outcome' = [k \in Jobs |-> OutcomeOf(status'[k])]
  BY DEF Outcome, OutcomeOf
<1>3. \A k \in Jobs :
        OutcomeOf(status'[k]) = IF k = j THEN OutcomeOf(s) ELSE OutcomeOf(status[k])
  BY <1>1
<1>4. QED
  BY <1>2, <1>3 DEF Outcome

\* The outcome does not show the difference between QUEUED and RUNNING.
LEMMA OutcomeKept ==
  ASSUME \A j \in Jobs : OutcomeOf(status'[j]) = OutcomeOf(status[j])
  PROVE  UNCHANGED Outcome
BY DEF Outcome

\* A row that is held is open to its producers.
LEMMA HeldIsOpen ==
  ASSUME TypeOK, LockExclusive, SentInv, NEW p \in Polls, pc[p] # "free"
  PROVE  LET j == working[p].job IN
         /\ j \in Jobs
         /\ Outbox!Open(j)
         /\ pc[p] = "accepted" => sent[j] > 0
<1> DEFINE j == working[p].job
<1>1. j \in Jobs
  BY DEF TypeOK, Snapshot
<1>2. status[j] # "ABSENT" /\ (pc[p] = "accepted" => sent[j] > 0)
  BY <1>1 DEF SentInv
<1>3. resets[j] > 0 \/ status[j] = "RUNNING"
  BY <1>1 DEF LockExclusive, Holds, TypeOK
<1> HIDE DEF j
<1>4. Outcome[j] = OutcomeOf(status[j]) /\ (j \in Reopened <=> resets[j] > 0)
  BY <1>1 DEF Outcome, Reopened
<1>5. Outbox!Open(j)
  <2>1. OutcomeOf("RUNNING") = "pending"
    BY DEF OutcomeOf
  <2>2. OutcomeOf(status[j]) # "absent"
    BY <1>2 DEF OutcomeOf
  <2>3. QED
    BY <1>3, <1>4, <2>1, <2>2 DEF Outbox!Open
<1>6. QED
  BY <1>1, <1>2, <1>5 DEF j

LEMMA OutboxStep ==
  ASSUME TypeOK, LockExclusive, SentInv, [Next]_vars
  PROVE  [Outbox!Next]_(Outbox!vars)
<1> USE DEF Outbox!Next, Outbox!vars
<1>1. ASSUME NEW j \in Jobs, NEW isReady, NEW isDue, Insert(j, isReady, isDue)
      PROVE  Outbox!Submit(j)
  <2>1. status' = [status EXCEPT ![j] = "QUEUED"] /\ UNCHANGED <<sent, resets>>
    BY <1>1 DEF Insert, history
  <2>2. Outcome' = [Outcome EXCEPT ![j] = "pending"]
    BY <2>1, OutcomeSet DEF Status, OutcomeOf
  <2>3. Outcome[j] = "absent"
    BY <1>1 DEF Insert, Outcome, OutcomeOf
  <2>4. UNCHANGED Reopened
    BY <2>1 DEF Reopened
  <2>5. QED
    BY <2>1, <2>2, <2>3, <2>4 DEF Outbox!Submit, Outbox!Decide
<1>2. ASSUME NEW j \in Jobs, RetryBackgroundJob(j)
      PROVE  Outbox!Reopen(j)
  <2>1. /\ status' = [status EXCEPT ![j] = "QUEUED"]
        /\ resets' = [resets EXCEPT ![j] = @ + 1]
        /\ sent' = sent
        /\ status[j] # "ABSENT"
    BY <1>2 DEF RetryBackgroundJob
  <2>2. Outcome' = [Outcome EXCEPT ![j] = "pending"]
    BY <2>1, OutcomeSet DEF Status, OutcomeOf
  <2>3. Outcome[j] # "absent"
    BY <2>1 DEF Outcome, OutcomeOf
  <2>4. Reopened' = Reopened \cup {j}
    <3>1. \A k \in Jobs : resets'[k] > 0 <=> k = j \/ resets[k] > 0
      BY <2>1 DEF TypeOK
    <3>2. QED
      BY <3>1 DEF Reopened
  <2>5. QED
    BY <2>1, <2>2, <2>3, <2>4 DEF Outbox!Reopen
<1>3. ASSUME NEW j \in Jobs, BecomeDue(j)
      PROVE  UNCHANGED (Outbox!vars)
  BY <1>3, OutcomeKept DEF BecomeDue, history, Reopened
<1>4. ASSUME NEW p \in Polls, ProcessQueuedEmailJobs(p) \/ Abandon(p) \/ Deploy
      PROVE  UNCHANGED (Outbox!vars)
  BY <1>4, OutcomeKept
  DEF ProcessQueuedEmailJobs, Abandon, Deploy, rowVars, history, Reopened
<1>5. ASSUME NEW p \in Polls, LockJob(p)
      PROVE  UNCHANGED (Outbox!vars)
  <2>1. Head(batch[p]).job \in Jobs
    BY <1>5, BatchHeadTyped DEF LockJob, TypeOK
  <2>2. \A j \in Jobs : \/ status'[j] = status[j]
                        \/ status[j] = "QUEUED" /\ status'[j] = "RUNNING"
    BY <1>5, <2>1 DEF LockJob, Lockable, TypeOK
  <2>3. \A j \in Jobs : OutcomeOf(status'[j]) = OutcomeOf(status[j])
    BY <2>2 DEF OutcomeOf
  <2>4. QED
    BY <1>5, <2>3, OutcomeKept DEF LockJob, history, Reopened
<1>6. ASSUME NEW p \in Polls, SendEmail(p)
      PROVE  Outbox!Emit(working[p].job) \/ UNCHANGED (Outbox!vars)
  <2>1. UNCHANGED <<status, resets>> /\ pc[p] # "free"
    BY <1>6 DEF SendEmail, rowVars
  <2>2. UNCHANGED <<Outcome, Reopened>>
    BY <2>1, OutcomeKept DEF Reopened
  <2>3. Outbox!Open(working[p].job)
    BY <2>1, HeldIsOpen
  <2>4. sent' = [sent EXCEPT ![working[p].job] = @ + 1] \/ sent' = sent
    BY <1>6 DEF SendEmail
  <2>5. QED
    BY <2>2, <2>3, <2>4 DEF Outbox!Emit
<1>7. ASSUME NEW p \in Polls, RecordSuccess(p)
      PROVE  Outbox!Confirm(working[p].job) \/ UNCHANGED (Outbox!vars)
  <2>1. UNCHANGED <<sent, resets>> /\ pc[p] = "accepted"
    BY <1>7 DEF RecordSuccess
  <2>2. /\ working[p].job \in Jobs
        /\ Outbox!Open(working[p].job)
        /\ sent[working[p].job] > 0
    BY <2>1, HeldIsOpen
  <2>3. UNCHANGED Reopened
    BY <2>1 DEF Reopened
  <2>4. CASE status' = [status EXCEPT ![working[p].job] = "SUCCEEDED"]
    <3>1. Outcome' = [Outcome EXCEPT ![working[p].job] = "delivered"]
      BY <2>2, <2>4, OutcomeSet DEF Status, OutcomeOf
    <3>2. QED
      BY <2>1, <2>2, <2>3, <3>1 DEF Outbox!Confirm, Outbox!Decide
  <2>5. CASE status' = status
    BY <2>1, <2>3, <2>5, OutcomeKept
  <2>6. QED
    BY <1>7, <2>4, <2>5 DEF RecordSuccess
<1>8. ASSUME NEW p \in Polls, RecordFailure(p)
      PROVE  \/ Outbox!GiveUp(working[p].job)
             \/ Outbox!PutBack(working[p].job)
             \/ UNCHANGED (Outbox!vars)
  <2> DEFINE j == working[p].job
  <2>1. UNCHANGED <<sent, resets>> /\ pc[p] # "free"
    BY <1>8 DEF RecordFailure, history
  <2>2. j \in Jobs /\ Outbox!Open(j)
    BY <2>1, HeldIsOpen
  <2>3. UNCHANGED Reopened
    BY <2>1 DEF Reopened
  <2>4. CASE Exhausted(p)
    <3>1. status' = [status EXCEPT ![j] = "FAILED"]
      BY <1>8, <2>4 DEF RecordFailure
    <3>2. Outcome' = [Outcome EXCEPT ![j] = "failed"]
      BY <2>2, <3>1, OutcomeSet DEF Status, OutcomeOf
    <3>3. QED
      BY <2>1, <2>2, <2>3, <3>2 DEF Outbox!GiveUp, Outbox!Decide
  <2>5. CASE ~Exhausted(p)
    <3>1. status' = [status EXCEPT ![j] = "QUEUED"]
      BY <1>8, <2>5 DEF RecordFailure
    <3> HIDE DEF j
    <3>2. Outcome' = [Outcome EXCEPT ![j] = "pending"]
      BY <2>2, <3>1, OutcomeSet DEF Status, OutcomeOf
    <3>3. CASE j \in Reopened
      BY <2>1, <2>2, <2>3, <3>2, <3>3 DEF Outbox!PutBack, Outbox!Decide, j
    <3>4. CASE j \notin Reopened
      <4>1. Outcome[j] = "pending"
        BY <2>2, <3>4 DEF Outbox!Open
      <4>2. Outcome' = Outcome
        BY <2>2, <3>2, <4>1 DEF Outcome
      <4>3. QED
        BY <2>1, <2>3, <4>2
    <3>5. QED
      BY <3>3, <3>4
  <2>6. QED
    BY <2>4, <2>5
<1>9. ASSUME NEW p \in Polls, Work(p)
      PROVE  [Outbox!Next]_(Outbox!vars)
  <2>1. pc[p] # "free" => working[p].job \in Jobs
    BY HeldIsOpen
  <2>2. CASE ProcessQueuedEmailJobs(p) \/ LockJob(p)
    BY <1>4, <1>5, <2>2
  <2>3. CASE SendEmail(p)
    BY <1>6, <2>1, <2>3 DEF SendEmail
  <2>4. CASE RecordSuccess(p)
    BY <1>7, <2>1, <2>4 DEF RecordSuccess
  <2>5. CASE RecordFailure(p)
    BY <1>8, <2>1, <2>5 DEF RecordFailure
  <2>6. QED
    BY <1>9, <2>2, <2>3, <2>4, <2>5 DEF Work
<1>10. CASE UNCHANGED vars \/ Deploy
  BY <1>10, OutcomeKept DEF vars, Deploy, rowVars, history, Reopened
<1>11. QED
  BY <1>1, <1>2, <1>3, <1>4, <1>9, <1>10 DEF Next, EnqueueMail, CreateBackgroundJob

\* The e-mail queue implements the outbox it promises to its producers.
THEOREM QueueImplementsOutbox == Spec => ImplementsOutbox
<1>1. Init => Outbox!Init
  <2> SUFFICES ASSUME Init PROVE Outbox!Init
    OBVIOUS
  <2>1. Outcome = [j \in Jobs |-> "absent"]
    BY DEF Init, Outcome, OutcomeOf
  <2>2. Reopened = {}
    BY DEF Init, Reopened
  <2>3. QED
    BY <2>1, <2>2 DEF Init, Outbox!Init
<1>2. Init => SentInv
  BY DEF Init, SentInv, SuccessMeansSent
<1>3. QED
  BY <1>1, <1>2, TypeCorrect, LockIsExclusive, SentStep, OutboxStep, PTL
  DEF Spec, ImplementsOutbox, Outbox!Spec

-----------------------------------------------------------------------------
\* What is left of a finite set is finite and counts no more.
LEMMA CountSubset ==
  ASSUME NEW S, IsFiniteSet(S), NEW T, T \subseteq S
  PROVE  /\ IsFiniteSet(T) /\ Cardinality(T) \in Nat /\ Cardinality(S) \in Nat
         /\ Cardinality(T) <= Cardinality(S)
  BY FS_Subset, FS_CardinalityType

\* Without one of its members a finite set counts at least one less.
LEMMA CountLoses ==
  ASSUME NEW S, IsFiniteSet(S), NEW x \in S, NEW T, T \subseteq S \ {x}
  PROVE  /\ Cardinality(T) \in Nat /\ Cardinality(S) \in Nat
         /\ Cardinality(T) + 1 <= Cardinality(S)
<1>1. IsFiniteSet(S \ {x}) /\ Cardinality(S \ {x}) = Cardinality(S) - 1
  BY FS_RemoveElement
<1>2. Cardinality(T) \in Nat /\ Cardinality(T) <= Cardinality(S \ {x})
  BY <1>1, CountSubset
<1>3. QED
  BY <1>1, <1>2, FS_CardinalityType

\* With one more member a finite set counts at most one more.
LEMMA CountGains ==
  ASSUME NEW S, IsFiniteSet(S), NEW x, NEW T, T \subseteq S \cup {x}
  PROVE  /\ Cardinality(T) \in Nat /\ Cardinality(S) \in Nat
         /\ Cardinality(T) <= Cardinality(S) + 1
<1>1. IsFiniteSet(S \cup {x}) /\ Cardinality(S) \in Nat /\ Cardinality(S \cup {x}) <= Cardinality(S) + 1
  <2>1. /\ IsFiniteSet(S \cup {x})
        /\ Cardinality(S \cup {x}) = IF x \in S THEN Cardinality(S) ELSE Cardinality(S) + 1
    BY FS_AddElement
  <2>2. Cardinality(S) \in Nat
    BY FS_CardinalityType
  <2>3. QED
    BY <2>1, <2>2
<1>2. Cardinality(T) \in Nat /\ Cardinality(T) <= Cardinality(S \cup {x})
  BY <1>1, CountSubset
<1>3. Cardinality(S \cup {x}) \in Nat
  BY <1>1, FS_CardinalityType
<1>4. QED
  BY <1>1, <1>2, <1>3

HoldersOf(j) == {p \in Polls : Holds(p, j)}

\* The executions that may still have job j mailed once more: by sending it,
\* or by putting it back for another attempt.
Unsettled(j) == {p \in HoldersOf(j) : pc[p] \in {"sending", "refused"}}

\* A row that is not locked (or not there yet) lets one execution in.
Vacancy(j) == IF status[j] \in {"ABSENT", "QUEUED"} THEN 1 ELSE 0

\* What makes HoldersBoundedByRetries and DuplicatesExplained inductive: a
\* vacant row counts as the execution it will let in, and an execution that
\* has not settled its job as the mail it may still cause.
AccountOf(j) ==
  /\ Cardinality(HoldersOf(j)) + Vacancy(j) <= 1 + resets[j]
  /\ sent[j] + Cardinality(Unsettled(j)) + Vacancy(j) <= 1 + doubts[j] + resets[j]

CountInv == \A j \in Jobs : AccountOf(j)

\* Both sets are finite, whatever the state.
LEMMA CountsTyped ==
  ASSUME TypeOK, NEW j \in Jobs
  PROVE  /\ IsFiniteSet(HoldersOf(j)) /\ IsFiniteSet(Unsettled(j))
         /\ Cardinality(HoldersOf(j)) \in Nat /\ Cardinality(Unsettled(j)) \in Nat
         /\ Vacancy(j) \in {0, 1}
         /\ sent[j] \in Nat /\ doubts[j] \in Nat /\ resets[j] \in Nat
<1>1. HoldersOf(j) \subseteq Polls /\ Unsettled(j) \subseteq Polls
  BY DEF HoldersOf, Unsettled
<1>2. QED
  BY <1>1, EmailJobsAssumption, FS_Subset, FS_CardinalityType DEF TypeOK, Vacancy

\* A step that lets nobody new in, sends nothing and opens no row keeps the
\* account of a job.
LEMMA QuietStep ==
  ASSUME TypeOK, NEW j \in Jobs, AccountOf(j),
         \A p \in Polls : Holds(p, j)' => Holds(p, j) /\ pc'[p] = pc[p],
         status'[j] \in {"ABSENT", "QUEUED"} => status[j] \in {"ABSENT", "QUEUED"},
         sent'[j] = sent[j], doubts'[j] = doubts[j], resets'[j] = resets[j]
  PROVE  AccountOf(j)'
<1>1. HoldersOf(j)' \subseteq HoldersOf(j) /\ Unsettled(j)' \subseteq Unsettled(j)
  BY DEF HoldersOf, Unsettled
<1>2. /\ Cardinality(HoldersOf(j)') \in Nat
      /\ Cardinality(HoldersOf(j)') <= Cardinality(HoldersOf(j))
      /\ Cardinality(Unsettled(j)') \in Nat
      /\ Cardinality(Unsettled(j)') <= Cardinality(Unsettled(j))
  BY <1>1, CountsTyped, CountSubset
<1>3. Vacancy(j)' \in {0, 1} /\ Vacancy(j)' <= Vacancy(j)
  BY DEF Vacancy
<1>4. QED
  BY <1>2, <1>3, CountsTyped DEF AccountOf

\* The steps of an execution keep the account of every job.
LEMMA CountWork ==
  ASSUME TypeOK, CountInv, NEW p \in Polls, Work(p), NEW j \in Jobs
  PROVE  AccountOf(j)'
<1>0. AccountOf(j)
  BY DEF CountInv
<1>1. CASE ProcessQueuedEmailJobs(p)
  BY <1>0, <1>1, QuietStep DEF ProcessQueuedEmailJobs, rowVars, history, Holds
<1>2. CASE LockJob(p)
  <2> DEFINE row == Head(batch[p])
  <2>1. /\ row.job \in Jobs /\ pc[p] = "free"
        /\ UNCHANGED <<sent, doubts, resets>>
    BY <1>2, BatchHeadTyped DEF LockJob, TypeOK, history
  <2>2. CASE Lockable(row.job)
    <3>1. /\ status' = [status EXCEPT ![row.job] = "RUNNING"]
          /\ pc' = [pc EXCEPT ![p] = "sending"]
          /\ working' = [working EXCEPT ![p] = row]
      BY <1>2, <2>2 DEF LockJob
    <3>2. status[row.job] = "QUEUED"
      BY <2>2 DEF Lockable
    <3> HIDE DEF row
    <3>3. CASE j # row.job
      <4>1. \A q \in Polls : Holds(q, j)' => Holds(q, j) /\ pc'[q] = pc[q]
        BY <2>1, <3>1, <3>3 DEF TypeOK, Holds
      <4>2. status'[j] = status[j]
        BY <3>1, <3>3 DEF TypeOK
      <4>3. QED
        BY <1>0, <2>1, <4>1, <4>2, QuietStep
    <3>4. CASE j = row.job
      <4>1. /\ HoldersOf(j)' \subseteq HoldersOf(j) \cup {p}
            /\ Unsettled(j)' \subseteq Unsettled(j) \cup {p}
        BY <3>1 DEF HoldersOf, Unsettled, Holds, TypeOK
      <4>2. Vacancy(j) = 1 /\ Vacancy(j)' = 0
        BY <3>1, <3>2, <3>4 DEF Vacancy, TypeOK
      <4>3. /\ Cardinality(HoldersOf(j)') \in Nat
            /\ Cardinality(HoldersOf(j)') <= Cardinality(HoldersOf(j)) + 1
            /\ Cardinality(Unsettled(j)') \in Nat
            /\ Cardinality(Unsettled(j)') <= Cardinality(Unsettled(j)) + 1
        BY <4>1, CountsTyped, CountGains
      <4>4. QED
        BY <1>0, <2>1, <4>2, <4>3, CountsTyped DEF AccountOf
    <3>5. QED
      BY <3>3, <3>4
  <2>3. CASE ~Lockable(row.job)
    BY <1>0, <1>2, <2>1, <2>3, QuietStep DEF LockJob, Holds
  <2>4. QED
    BY <2>2, <2>3
<1>3. CASE SendEmail(p)
  <2>1. pc[p] = "sending" /\ working[p].job \in Jobs /\ UNCHANGED <<status, resets, working>>
    BY <1>3 DEF SendEmail, rowVars, TypeOK, Snapshot
  <2>2. PICK stage \in {"accepted", "refused"} : pc' = [pc EXCEPT ![p] = stage]
    BY <1>3 DEF SendEmail
  <2>3. CASE j # working[p].job
    <3>1. \A q \in Polls : Holds(q, j)' => Holds(q, j) /\ pc'[q] = pc[q]
      BY <2>1, <2>2, <2>3 DEF TypeOK, Holds
    <3>2. sent'[j] = sent[j] /\ doubts'[j] = doubts[j]
      BY <1>3, <2>3 DEF SendEmail, TypeOK
    <3>3. QED
      BY <1>0, <2>1, <3>1, <3>2, QuietStep
  <2>4. CASE j = working[p].job
    <3>1. HoldersOf(j)' \subseteq HoldersOf(j) /\ p \in Unsettled(j)
      BY <2>1, <2>2, <2>4 DEF HoldersOf, Unsettled, Holds, TypeOK
    <3>2. /\ Cardinality(HoldersOf(j)') \in Nat
          /\ Cardinality(HoldersOf(j)') <= Cardinality(HoldersOf(j))
      BY <3>1, CountsTyped, CountSubset
    <3>3. Vacancy(j)' = Vacancy(j)
      BY <2>1 DEF Vacancy
    <3>4. CASE stage = "accepted" /\ sent' = [sent EXCEPT ![j] = @ + 1] /\ UNCHANGED doubts
      <4>1. Unsettled(j)' \subseteq Unsettled(j) \ {p}
        BY <2>1, <2>2, <3>4 DEF HoldersOf, Unsettled, Holds, TypeOK
      <4>2. Cardinality(Unsettled(j)') \in Nat /\ Cardinality(Unsettled(j)') + 1 <= Cardinality(Unsettled(j))
        BY <3>1, <4>1, CountsTyped, CountLoses
      <4>3. sent'[j] = sent[j] + 1
        BY <3>4 DEF TypeOK
      <4>4. QED
        BY <1>0, <2>1, <3>2, <3>3, <3>4, <4>2, <4>3, CountsTyped DEF AccountOf
    <3>5. CASE \/ UNCHANGED <<sent, doubts>>
               \/ sent' = [sent EXCEPT ![j] = @ + 1] /\ doubts' = [doubts EXCEPT ![j] = @ + 1]
      <4>1. Unsettled(j)' \subseteq Unsettled(j)
        BY <2>1, <2>2, <3>1 DEF HoldersOf, Unsettled, Holds, TypeOK
      <4>2. Cardinality(Unsettled(j)') \in Nat /\ Cardinality(Unsettled(j)') <= Cardinality(Unsettled(j))
        BY <4>1, CountsTyped, CountSubset
      <4>3. \/ sent'[j] = sent[j] /\ doubts'[j] = doubts[j]
            \/ sent'[j] = sent[j] + 1 /\ doubts'[j] = doubts[j] + 1
        BY <3>5 DEF TypeOK
      <4>4. QED
        BY <1>0, <2>1, <3>2, <3>3, <4>2, <4>3, CountsTyped DEF AccountOf
    <3>6. stage = "accepted" \/ stage = "refused"
      BY <2>2
    <3>7. pc'[p] = stage
      BY <2>2 DEF TypeOK
    <3>8. \/ pc'[p] = "accepted" /\ sent' = [sent EXCEPT ![j] = @ + 1] /\ UNCHANGED doubts
          \/ UNCHANGED <<sent, doubts>>
          \/ sent' = [sent EXCEPT ![j] = @ + 1] /\ doubts' = [doubts EXCEPT ![j] = @ + 1]
      BY <1>3, <2>4 DEF SendEmail, TypeOK
    <3>9. QED
      BY <3>4, <3>5, <3>7, <3>8
  <2>5. QED
    BY <2>3, <2>4
<1>4. CASE RecordSuccess(p)
  <2>1. /\ pc[p] = "accepted" /\ working[p].job \in Jobs /\ UNCHANGED <<sent, resets>>
    BY <1>4 DEF RecordSuccess, TypeOK, Snapshot
  <2>2. CASE Release(p) /\ status' = [status EXCEPT ![working[p].job] = "SUCCEEDED"] /\ UNCHANGED doubts
    <3>1. \A q \in Polls : Holds(q, j)' => Holds(q, j) /\ pc'[q] = pc[q]
      BY <2>2 DEF Release, Holds, TypeOK
    <3>2. status'[j] \in {"ABSENT", "QUEUED"} => status[j] \in {"ABSENT", "QUEUED"}
      BY <2>2 DEF TypeOK
    <3>3. QED
      BY <1>0, <2>1, <2>2, <3>1, <3>2, QuietStep
  <2>3. CASE /\ pc' = [pc EXCEPT ![p] = "refused"]
             /\ doubts' = [doubts EXCEPT ![working[p].job] = @ + 1]
             /\ UNCHANGED <<status, working>>
    <3>1. CASE j # working[p].job
      <4>1. \A q \in Polls : Holds(q, j)' => Holds(q, j) /\ pc'[q] = pc[q]
        BY <2>3, <3>1 DEF Holds, TypeOK
      <4>2. doubts'[j] = doubts[j]
        BY <2>3, <3>1 DEF TypeOK
      <4>3. QED
        BY <1>0, <2>1, <2>3, <4>1, <4>2, QuietStep
    <3>2. CASE j = working[p].job
      <4>1. HoldersOf(j)' \subseteq HoldersOf(j) /\ Unsettled(j)' \subseteq Unsettled(j) \cup {p}
        BY <2>1, <2>3 DEF HoldersOf, Unsettled, Holds, TypeOK
      <4>2. /\ Cardinality(HoldersOf(j)') \in Nat
            /\ Cardinality(HoldersOf(j)') <= Cardinality(HoldersOf(j))
        BY <4>1, CountsTyped, CountSubset
      <4>3. /\ Cardinality(Unsettled(j)') \in Nat
            /\ Cardinality(Unsettled(j)') <= Cardinality(Unsettled(j)) + 1
        BY <4>1, CountsTyped, CountGains
      <4>4. Vacancy(j)' = Vacancy(j) /\ doubts'[j] = doubts[j] + 1
        BY <2>3, <3>2 DEF Vacancy, TypeOK
      <4>5. QED
        BY <1>0, <2>1, <4>2, <4>3, <4>4, CountsTyped DEF AccountOf
    <3>3. QED
      BY <3>1, <3>2
  <2>4. QED
    BY <1>4, <2>2, <2>3 DEF RecordSuccess
<1>5. CASE RecordFailure(p)
  <2>1. /\ pc[p] = "refused" /\ working[p].job \in Jobs /\ Release(p)
        /\ UNCHANGED <<sent, doubts, resets>>
    BY <1>5 DEF RecordFailure, history, TypeOK, Snapshot
  <2>2. CASE j # working[p].job
    <3>1. \A q \in Polls : Holds(q, j)' => Holds(q, j) /\ pc'[q] = pc[q]
      BY <2>1 DEF Release, Holds, TypeOK
    <3>2. status'[j] = status[j]
      BY <1>5, <2>2 DEF RecordFailure, TypeOK
    <3>3. QED
      BY <1>0, <2>1, <3>1, <3>2, QuietStep
  <2>3. CASE j = working[p].job
    <3>1. /\ p \in HoldersOf(j) /\ p \in Unsettled(j)
          /\ HoldersOf(j)' \subseteq HoldersOf(j) \ {p}
          /\ Unsettled(j)' \subseteq Unsettled(j) \ {p}
      BY <2>1, <2>3 DEF Release, HoldersOf, Unsettled, Holds, TypeOK
    <3>2. /\ Cardinality(HoldersOf(j)') \in Nat
          /\ Cardinality(HoldersOf(j)') + 1 <= Cardinality(HoldersOf(j))
          /\ Cardinality(Unsettled(j)') \in Nat
          /\ Cardinality(Unsettled(j)') + 1 <= Cardinality(Unsettled(j))
      BY <3>1, CountsTyped, CountLoses
    <3>3. Vacancy(j)' \in {0, 1}
      BY DEF Vacancy
    <3>4. QED
      BY <1>0, <2>1, <3>2, <3>3, CountsTyped DEF AccountOf
  <2>4. QED
    BY <2>2, <2>3
<1>6. QED
  BY <1>1, <1>2, <1>3, <1>4, <1>5 DEF Work

\* So does every other step: a retry pays for the row it opens.
LEMMA CountStep ==
  ASSUME TypeOK, CountInv, [Next]_vars
  PROVE  CountInv'
<1> SUFFICES ASSUME NEW j \in Jobs PROVE AccountOf(j)'
  BY DEF CountInv
<1>0. AccountOf(j)
  BY DEF CountInv
<1>1. ASSUME NEW k \in Jobs, EnqueueMail(k) \/ CreateBackgroundJob(k)
      PROVE  AccountOf(j)'
  <2>1. /\ status[k] = "ABSENT" /\ status' = [status EXCEPT ![k] = "QUEUED"]
        /\ UNCHANGED <<pc, working, sent, doubts, resets>>
    BY <1>1 DEF EnqueueMail, CreateBackgroundJob, Insert, pollVars, history
  <2>2. status'[j] \in {"ABSENT", "QUEUED"} => status[j] \in {"ABSENT", "QUEUED"}
    BY <2>1 DEF TypeOK
  <2>3. QED
    BY <1>0, <2>1, <2>2, QuietStep DEF Holds
<1>2. ASSUME NEW k \in Jobs, RetryBackgroundJob(k)
      PROVE  AccountOf(j)'
  <2>1. /\ resets' = [resets EXCEPT ![k] = @ + 1]
        /\ status' = [status EXCEPT ![k] = "QUEUED"]
        /\ UNCHANGED <<pc, working, sent, doubts>>
    BY <1>2 DEF RetryBackgroundJob, pollVars
  <2>2. CASE j # k
    BY <1>0, <2>1, <2>2, QuietStep DEF Holds, TypeOK
  <2>3. CASE j = k
    <3>1. resets'[j] = resets[j] + 1 /\ Vacancy(j)' = 1
      BY <2>1, <2>3 DEF TypeOK, Vacancy
    <3>2. HoldersOf(j)' = HoldersOf(j) /\ Unsettled(j)' = Unsettled(j)
      BY <2>1 DEF HoldersOf, Unsettled, Holds
    <3>3. QED
      BY <1>0, <2>1, <3>1, <3>2, CountsTyped DEF AccountOf
  <2>4. QED
    BY <2>2, <2>3
<1>3. ASSUME NEW k \in Jobs, BecomeDue(k)
      PROVE  AccountOf(j)'
  BY <1>0, <1>3, QuietStep DEF BecomeDue, pollVars, history, Holds
<1>4. ASSUME NEW p \in Polls, Work(p)
      PROVE  AccountOf(j)'
  BY <1>4, CountWork
<1>5. ASSUME NEW p \in Polls, Abandon(p)
      PROVE  AccountOf(j)'
  <2>1. \A q \in Polls : Holds(q, j)' => Holds(q, j) /\ pc'[q] = pc[q]
    BY <1>5 DEF Abandon, Release, Holds, TypeOK
  <2>2. QED
    BY <1>0, <1>5, <2>1, QuietStep DEF Abandon, rowVars, history
<1>6. CASE Deploy
  BY <1>0, <1>6, QuietStep DEF Deploy, rowVars, history, Holds
<1>7. CASE UNCHANGED vars
  BY <1>0, <1>7, QuietStep DEF vars, rowVars, pollVars, history, Holds
<1>8. QED
  BY <1>1, <1>2, <1>3, <1>4, <1>5, <1>6, <1>7 DEF Next

\* The account is kept for ever.
LEMMA CountHolds == Spec => []CountInv
<1>1. Init => CountInv
  <2> SUFFICES ASSUME Init, NEW j \in Jobs PROVE AccountOf(j)
    BY DEF CountInv
  <2>1. HoldersOf(j) = {} /\ Unsettled(j) = {} /\ Vacancy(j) = 1
    BY DEF Init, HoldersOf, Unsettled, Holds, Vacancy
  <2>2. QED
    BY <2>1, FS_EmptySet DEF Init, AccountOf
<1>2. TypeOK /\ CountInv /\ [Next]_vars => CountInv'
  BY CountStep
<1>3. QED
  BY <1>1, <1>2, TypeCorrect, PTL DEF Spec

\* For every number of executions, jobs and retries: the executions at work on
\* one job never outnumber the operator's retries by more than one.
THEOREM SendersCounted == Spec => []HoldersBoundedByRetries
<1>1. TypeOK /\ CountInv => HoldersBoundedByRetries
  BY CountsTyped DEF CountInv, AccountOf, HoldersBoundedByRetries, HoldersOf
<1>2. QED
  BY <1>1, CountHolds, TypeCorrect, PTL

\* A job is mailed once, and once more for each acceptance that could not be
\* recorded and each retry; a crash never adds a copy.
THEOREM CopiesExplained == Spec => []DuplicatesExplained
<1>1. TypeOK /\ CountInv => DuplicatesExplained
  BY CountsTyped DEF CountInv, AccountOf, DuplicatesExplained
<1>2. QED
  BY <1>1, CountHolds, TypeCorrect, PTL

-----------------------------------------------------------------------------
\* A batch names a row once, with the attempts the row has.
LEMMA BatchesFresh ==
  ASSUME TypeOK, NEW s \in Batches
  PROVE  /\ \A i, k \in 1..Len(s) : s[i].job = s[k].job => i = k
         /\ \A i \in 1..Len(s) : s[i].attempts = attempts[s[i].job]
<1>1. Cardinality(Eligible) \in Nat
  BY EmailJobsAssumption, FS_Subset, FS_CardinalityType DEF Eligible
<1>2. PICK n \in Nat : s \in Snapshots(n)
  <2>1. CASE Cardinality(Eligible) <= Limit
    BY <1>1, <2>1 DEF Batches
  <2>2. CASE ~(Cardinality(Eligible) <= Limit)
    BY <2>2, EmailJobsAssumption DEF Batches
  <2>3. QED
    BY <2>1, <2>2
<1>3. PICK rows \in {f \in [1..n -> Eligible] : IsInjective(f)} :
        s = [i \in 1..n |-> [job |-> rows[i], attempts |-> attempts[rows[i]]]]
  BY <1>2 DEF Snapshots
<1>4. \A i, k \in 1..n : rows[i] = rows[k] => i = k
  BY <1>3 DEF IsInjective
<1>5. s \in Seq(Snapshot) /\ Len(s) \in Nat
  BY BatchesTyped
<1>6. Len(s) = n
  BY <1>2, <1>3, <1>5
<1>7. QED
  BY <1>3, <1>4, <1>6

\* The tail of a sequence of snapshots that names every row once does not name
\* the row of its head.
LEMMA TailDistinct ==
  ASSUME NEW s \in Seq(Snapshot), s # <<>>,
         \A i, k \in 1..Len(s) : s[i].job = s[k].job => i = k
  PROVE  /\ Len(Tail(s)) = Len(s) - 1
         /\ \A i \in 1..Len(Tail(s)) : i + 1 \in 1..Len(s) /\ Tail(s)[i] = s[i + 1]
         /\ \A i \in 1..Len(Tail(s)) : Tail(s)[i].job # Head(s).job
         /\ \A i, k \in 1..Len(Tail(s)) : Tail(s)[i].job = Tail(s)[k].job => i = k
<1>1. Len(s) \in Nat /\ Len(s) # 0 /\ Head(s) = s[1] /\ Len(Tail(s)) = Len(s) - 1
  OBVIOUS
<1>2. \A i \in 1..Len(Tail(s)) : i + 1 \in 1..Len(s) /\ Tail(s)[i] = s[i + 1]
  BY <1>1
<1>3. QED
  BY <1>1, <1>2

\* A snapshot of job j with which a failed attempt puts the job back.
Promising(row, j) == row.job = j /\ row.attempts + 1 < MaxAttempts

\* The executions that have yet to lock j with such a snapshot.
Waiting(j) == {p \in Polls : \E i \in 1..Len(batch[p]) : Promising(batch[p][i], j)}

\* Whether j is vacant or may become so.
MayReturn(j) ==
  \/ status[j] \in {"ABSENT", "QUEUED"}
  \/ \E p \in Polls : pc[p] # "free" /\ Promising(working[p], j)

Turn(j) == IF MayReturn(j) THEN 1 ELSE 0

\* What makes AttemptsBounded inductive: once a fresh snapshot would exhaust
\* the job, only the stale snapshots that wait can prolong it, each once, and
\* the attempt that is due or under way.
BudgetOf(j) ==
  resets[j] = 0 /\ attempts[j] >= 1 /\ attempts[j] >= MaxAttempts - 1 =>
    attempts[j] + Cardinality(Waiting(j)) + Turn(j) <= MaxAttempts + Cardinality(Polls) - 1

\* No batch names a row twice.
Distinct == \A p \in Polls : \A i, k \in 1..Len(batch[p]) : batch[p][i].job = batch[p][k].job => i = k

AttemptsInv == Distinct /\ \A j \in Jobs : BudgetOf(j)

\* What a budget counts is finite.
LEMMA WaitingTyped ==
  ASSUME TypeOK, NEW j \in Jobs
  PROVE  /\ IsFiniteSet(Waiting(j)) /\ Cardinality(Waiting(j)) \in Nat
         /\ Cardinality(Polls) \in Nat /\ Turn(j) \in {0, 1}
         /\ attempts[j] \in Nat /\ MaxAttempts \in Nat \ {0}
         /\ Cardinality(Waiting(j)) <= Cardinality(Polls)
<1>1. Waiting(j) \subseteq Polls
  BY DEF Waiting
<1>2. QED
  BY <1>1, EmailJobsAssumption, CountSubset DEF TypeOK, Turn

\* A step that neither tries j, nor reads it in time, nor opens it.
LEMMA IdleStep ==
  ASSUME TypeOK, NEW j \in Jobs, BudgetOf(j),
         attempts'[j] = attempts[j], resets'[j] = resets[j],
         attempts[j] >= MaxAttempts - 1 => Waiting(j)' \subseteq Waiting(j),
         MayReturn(j)' => MayReturn(j)
  PROVE  BudgetOf(j)'
<1> SUFFICES ASSUME resets[j] = 0, attempts[j] >= 1, attempts[j] >= MaxAttempts - 1
             PROVE  attempts[j] + Cardinality(Waiting(j)') + Turn(j)' <= MaxAttempts + Cardinality(Polls) - 1
  BY DEF BudgetOf
<1>1. Cardinality(Waiting(j)') \in Nat /\ Cardinality(Waiting(j)') <= Cardinality(Waiting(j))
  BY WaitingTyped, CountSubset
<1>2. Turn(j)' \in {0, 1} /\ Turn(j)' <= Turn(j)
  BY DEF Turn
<1>3. QED
  BY <1>1, <1>2, WaitingTyped DEF BudgetOf

\* The steps of an execution keep the budget of every job.
LEMMA AttemptsWork ==
  ASSUME TypeOK, LockExclusive, AttemptsInv, NEW p \in Polls, Work(p)
  PROVE  AttemptsInv'
<1>0. \A j \in Jobs : BudgetOf(j)
  BY DEF AttemptsInv
<1>1. CASE ProcessQueuedEmailJobs(p)
  <2>1. PICK s \in Batches : batch' = [batch EXCEPT ![p] = s]
    BY <1>1 DEF ProcessQueuedEmailJobs
  <2>2. UNCHANGED <<status, attempts, resets, pc, working>>
    BY <1>1 DEF ProcessQueuedEmailJobs, rowVars, history
  <2>3. Distinct'
    BY <2>1, BatchesFresh DEF Distinct, AttemptsInv, TypeOK
  <2>4. ASSUME NEW j \in Jobs PROVE BudgetOf(j)'
    <3>1. ASSUME attempts[j] >= MaxAttempts - 1 PROVE Waiting(j)' \subseteq Waiting(j)
      <4>1. \A i \in 1..Len(s) : ~Promising(s[i], j)
        BY <3>1, BatchesFresh, WaitingTyped DEF Promising
      <4>2. QED
        BY <2>1, <4>1 DEF Waiting, TypeOK
    <3>2. MayReturn(j)' => MayReturn(j)
      BY <2>2 DEF MayReturn
    <3>3. QED
      BY <1>0, <2>2, <3>1, <3>2, IdleStep
  <2>5. QED
    BY <2>3, <2>4 DEF AttemptsInv
<1>2. CASE LockJob(p)
  <2> DEFINE row == Head(batch[p])
  <2>1. /\ row \in Snapshot /\ row.job \in Jobs /\ pc[p] = "free" /\ UNCHANGED resets
        /\ batch[p] \in Seq(Snapshot) /\ batch[p] # <<>>
        /\ batch' = [batch EXCEPT ![p] = Tail(@)]
    BY <1>2, BatchHeadTyped DEF LockJob, TypeOK, history
  <2>2. /\ Len(Tail(batch[p])) = Len(batch[p]) - 1 /\ Len(batch[p]) \in Nat
        /\ \A i \in 1..Len(Tail(batch[p])) : i + 1 \in 1..Len(batch[p]) /\ Tail(batch[p])[i] = batch[p][i + 1]
        /\ \A i \in 1..Len(Tail(batch[p])) : Tail(batch[p])[i].job # row.job
        /\ \A i, k \in 1..Len(Tail(batch[p])) : Tail(batch[p])[i].job = Tail(batch[p])[k].job => i = k
    <3>1. \A i, k \in 1..Len(batch[p]) : batch[p][i].job = batch[p][k].job => i = k
      BY DEF AttemptsInv, Distinct
    <3>2. QED
      BY ONLY <2>1, <3>1, TailDistinct
  <2>3. Distinct'
    BY <2>1, <2>2 DEF Distinct, AttemptsInv, TypeOK
  <2>4. batch'[p] = Tail(batch[p]) /\ \A q \in Polls : q # p => batch'[q] = batch[q]
    BY <2>1 DEF TypeOK
  <2>5. ASSUME NEW j \in Jobs PROVE Waiting(j)' \subseteq Waiting(j)
    <3>1. \A i \in 1..Len(batch'[p]) : i + 1 \in 1..Len(batch[p]) /\ batch'[p][i] = batch[p][i + 1]
      BY <2>2, <2>4
    <3>2. QED
      BY <2>4, <3>1 DEF Waiting
  <2>6. ASSUME NEW j \in Jobs, j = row.job PROVE p \notin Waiting(j)'
    BY <2>6, <2>2, <2>4 DEF Waiting, Promising
  <2>7. row = batch[p][1] /\ 1 \in 1..Len(batch[p])
    BY <2>1
  <2>8. CASE Lockable(row.job)
    <3>1. /\ status' = [status EXCEPT ![row.job] = "RUNNING"]
          /\ attempts' = [attempts EXCEPT ![row.job] = @ + 1]
          /\ pc' = [pc EXCEPT ![p] = "sending"]
          /\ working' = [working EXCEPT ![p] = row]
      BY <1>2, <2>8 DEF LockJob
    <3>2. status[row.job] = "QUEUED"
      BY <2>8 DEF Lockable
    <3> HIDE DEF row
    <3>3. ASSUME NEW j \in Jobs PROVE BudgetOf(j)'
      <4>1. CASE j # row.job
        <5>1. attempts'[j] = attempts[j] /\ status'[j] = status[j]
          BY <3>1, <4>1 DEF TypeOK
        <5>2. MayReturn(j)' => MayReturn(j)
          BY <2>1, <3>1, <4>1, <5>1 DEF MayReturn, TypeOK, Promising
        <5>3. QED
          BY <1>0, <2>1, <2>5, <5>1, <5>2, IdleStep
      <4>2. CASE j = row.job
        <5> SUFFICES ASSUME resets[j] = 0, attempts'[j] >= MaxAttempts - 1
                     PROVE  attempts'[j] + Cardinality(Waiting(j)') + Turn(j)'
                              <= MaxAttempts + Cardinality(Polls) - 1
          BY <2>1 DEF BudgetOf
        <5>1. attempts'[j] = attempts[j] + 1 /\ attempts[j] \in Nat
          BY <3>1, <4>2 DEF TypeOK
        <5>2. Turn(j) = 1 /\ Turn(j)' \in {0, 1}
          BY <3>2, <4>2 DEF Turn, MayReturn
        <5>3. ASSUME ~Promising(row, j) PROVE Turn(j)' = 0
          <6>1. status'[j] = "RUNNING"
            BY <3>1, <4>2 DEF TypeOK
          <6>2. \A q \in Polls : pc[q] # "free" => working[q].job # j
            BY <3>2, <4>2 DEF LockExclusive, Holds
          <6>3. \A q \in Polls : pc'[q] # "free" => ~Promising(working'[q], j)
            BY <3>1, <5>3, <6>2 DEF TypeOK, Promising
          <6>4. QED
            BY <6>1, <6>3 DEF Turn, MayReturn
        <5>4. ASSUME Promising(row, j) PROVE p \in Waiting(j)
          BY <2>7, <5>4 DEF Waiting
        <5>5. /\ Cardinality(Waiting(j)') \in Nat
              /\ Cardinality(Waiting(j)') <= Cardinality(Waiting(j))
              /\ Cardinality(Waiting(j)') + 1 <= Cardinality(Polls)
              /\ Promising(row, j) => Cardinality(Waiting(j)') + 1 <= Cardinality(Waiting(j))
          <6>1. IsFiniteSet(Waiting(j)) /\ Waiting(j)' \subseteq Waiting(j) /\ Waiting(j) \subseteq Polls
            BY <2>5, WaitingTyped DEF Waiting
          <6>2. Waiting(j)' \subseteq Polls \ {p}
            BY <2>6, <4>2, <6>1
          <6>3. Promising(row, j) => p \in Waiting(j) /\ Waiting(j)' \subseteq Waiting(j) \ {p}
            BY <5>4, <6>1, <6>2
          <6>4. QED
            BY <6>1, <6>2, <6>3, CountSubset, CountLoses, EmailJobsAssumption
        <5>6. CASE attempts[j] >= 1 /\ attempts[j] >= MaxAttempts - 1
          <6>1. attempts[j] + Cardinality(Waiting(j)) + 1 <= MaxAttempts + Cardinality(Polls) - 1
            BY <1>0, <5>2, <5>6 DEF BudgetOf
          <6>2. QED
            BY <5>1, <5>2, <5>3, <5>5, <6>1, WaitingTyped
        <5>7. CASE ~(attempts[j] >= 1 /\ attempts[j] >= MaxAttempts - 1)
          <6>1. CASE MaxAttempts = 1
            <7>1. ~Promising(row, j) /\ Waiting(j) = {}
              <8>1. \A q \in Polls : \A i \in 1..Len(batch[q]) : batch[q][i].attempts \in Nat
                <9> TAKE q \in Polls
                <9>1. batch[q] \in Seq(Snapshot)
                  BY DEF TypeOK
                <9>2. \A i \in 1..Len(batch[q]) : batch[q][i] \in Snapshot
                  BY <9>1
                <9>3. QED
                  BY <9>2 DEF Snapshot
              <8>2. QED
                BY <2>1, <6>1, <8>1 DEF Promising, Waiting, Snapshot
            <7>2. Waiting(j)' = {}
              BY <2>5, <7>1
            <7>3. QED
              BY <5>1, <5>3, <5>5, <5>7, <6>1, <7>1, <7>2, WaitingTyped, FS_EmptySet
          <6>2. CASE MaxAttempts # 1
            <7>1. attempts'[j] <= MaxAttempts - 1
              BY <5>1, <5>7, <6>2, WaitingTyped
            <7>2. QED
              BY <5>1, <5>2, <5>5, <7>1, WaitingTyped
          <6>3. QED
            BY <6>1, <6>2
        <5>8. QED
          BY <5>6, <5>7
      <4>3. QED
        BY <4>1, <4>2
    <3>4. QED
      BY <2>3, <3>3 DEF AttemptsInv
  <2>9. CASE ~Lockable(row.job)
    <3>1. UNCHANGED <<status, attempts, pc, working>>
      BY <1>2, <2>9 DEF LockJob
    <3>2. \A j \in Jobs : MayReturn(j)' => MayReturn(j)
      BY <3>1 DEF MayReturn
    <3>3. QED
      BY <1>0, <2>1, <2>3, <2>5, <3>1, <3>2, IdleStep DEF AttemptsInv
  <2>10. QED
    BY <2>8, <2>9
<1>3. CASE SendEmail(p) \/ RecordSuccess(p) \/ RecordFailure(p)
  <2>1. UNCHANGED <<batch, attempts, resets>> /\ pc[p] # "free" /\ working[p].job \in Jobs
    BY <1>3 DEF SendEmail, RecordSuccess, RecordFailure, rowVars, history, TypeOK, Snapshot
  <2>2. ASSUME NEW j \in Jobs PROVE MayReturn(j)' => MayReturn(j)
    <3>1. \A q \in Polls : pc'[q] # "free" => pc[q] # "free" /\ working'[q] = working[q]
      BY <1>3, <2>1 DEF SendEmail, RecordSuccess, RecordFailure, Release, TypeOK
    <3>2. status'[j] = "QUEUED" => status[j] = "QUEUED" \/ Promising(working[p], j)
      <4>1. working[p].attempts \in Nat /\ status \in [Jobs -> Status]
        BY <2>1 DEF TypeOK, Snapshot
      <4>2. CASE SendEmail(p)
        BY <4>2 DEF SendEmail, rowVars
      <4>3. CASE RecordSuccess(p)
        BY <2>1, <4>1, <4>3 DEF RecordSuccess
      <4>4. CASE RecordFailure(p)
        <5>1. ~Exhausted(p) => working[p].attempts + 1 < MaxAttempts
          BY <4>1, EmailJobsAssumption DEF Exhausted
        <5>2. QED
          BY <2>1, <4>1, <4>4, <5>1 DEF RecordFailure, Promising
      <4>5. QED
        BY <1>3, <4>2, <4>3, <4>4
    <3>3. status'[j] = "ABSENT" => status[j] = "ABSENT"
      BY <1>3, <2>1 DEF SendEmail, RecordSuccess, RecordFailure, rowVars, TypeOK
    <3>4. QED
      BY <2>1, <3>1, <3>2, <3>3 DEF MayReturn
  <2>3. \A j \in Jobs : Waiting(j)' = Waiting(j)
    BY <2>1 DEF Waiting
  <2>4. QED
    BY <1>0, <2>1, <2>2, <2>3, IdleStep DEF AttemptsInv, Distinct
<1>4. QED
  BY <1>1, <1>2, <1>3 DEF Work

\* So does every other step; a retry starts a new budget.
LEMMA AttemptsStep ==
  ASSUME TypeOK, LockExclusive, AttemptsInv, [Next]_vars
  PROVE  AttemptsInv'
<1>0. Distinct /\ \A j \in Jobs : BudgetOf(j)
  BY DEF AttemptsInv
<1>1. ASSUME NEW k \in Jobs, EnqueueMail(k) \/ CreateBackgroundJob(k) \/ BecomeDue(k)
      PROVE  AttemptsInv'
  <2>1. /\ UNCHANGED <<pc, working, batch, attempts, resets>>
        /\ \A j \in Jobs : status'[j] \in {"ABSENT", "QUEUED"} => status[j] \in {"ABSENT", "QUEUED"}
    BY <1>1 DEF EnqueueMail, CreateBackgroundJob, Insert, BecomeDue, pollVars, history, TypeOK
  <2>2. \A j \in Jobs : Waiting(j)' = Waiting(j) /\ (MayReturn(j)' => MayReturn(j))
    BY <2>1 DEF Waiting, MayReturn
  <2>3. QED
    BY <1>0, <2>1, <2>2, IdleStep DEF AttemptsInv, Distinct
<1>2. ASSUME NEW k \in Jobs, RetryBackgroundJob(k)
      PROVE  AttemptsInv'
  <2>1. /\ resets' = [resets EXCEPT ![k] = @ + 1]
        /\ attempts' = [attempts EXCEPT ![k] = 0]
        /\ status' = [status EXCEPT ![k] = "QUEUED"]
        /\ UNCHANGED <<pc, working, batch>>
    BY <1>2 DEF RetryBackgroundJob, pollVars
  <2>2. BudgetOf(k)'
    BY <2>1 DEF BudgetOf, TypeOK
  <2>3. ASSUME NEW j \in Jobs, j # k PROVE BudgetOf(j)'
    <3>1. attempts'[j] = attempts[j] /\ resets'[j] = resets[j] /\ status'[j] = status[j]
      BY <2>1, <2>3 DEF TypeOK
    <3>2. Waiting(j)' = Waiting(j) /\ (MayReturn(j)' => MayReturn(j))
      BY <2>1, <3>1 DEF Waiting, MayReturn
    <3>3. QED
      BY <1>0, <3>1, <3>2, IdleStep
  <2>4. QED
    BY <1>0, <2>1, <2>2, <2>3 DEF AttemptsInv, Distinct
<1>3. ASSUME NEW p \in Polls, Work(p)
      PROVE  AttemptsInv'
  BY <1>3, AttemptsWork
<1>4. CASE Deploy \/ \E p \in Polls : Abandon(p)
  <2>1. /\ UNCHANGED <<status, attempts, resets>>
        /\ \A q \in Polls : pc'[q] # "free" => pc[q] # "free" /\ working'[q] = working[q]
        /\ \A q \in Polls : batch'[q] = batch[q] \/ batch'[q] = <<>>
    BY <1>4 DEF Deploy, Abandon, Release, rowVars, history, TypeOK
  <2>2. \A j \in Jobs : Waiting(j)' \subseteq Waiting(j) /\ (MayReturn(j)' => MayReturn(j))
    BY <2>1 DEF Waiting, MayReturn
  <2>3. Distinct'
    BY <1>0, <2>1 DEF Distinct
  <2>4. QED
    BY <1>0, <2>1, <2>2, <2>3, IdleStep DEF AttemptsInv
<1>5. CASE UNCHANGED vars
  <2>1. UNCHANGED <<status, attempts, resets, pc, working, batch>>
    BY <1>5 DEF vars, rowVars, pollVars, history
  <2>2. \A j \in Jobs : Waiting(j)' = Waiting(j) /\ (MayReturn(j)' => MayReturn(j))
    BY <2>1 DEF Waiting, MayReturn
  <2>3. QED
    BY <1>0, <2>1, <2>2, IdleStep DEF AttemptsInv, Distinct
<1>6. QED
  BY <1>1, <1>2, <1>3, <1>4, <1>5 DEF Next

\* The stale count lets a job be tried more often than maxAttempts, but at most
\* once more per other execution, however many there are.
THEOREM AttemptsAreBounded == Spec => []AttemptsBounded
<1>1. Init => AttemptsInv
  BY DEF Init, AttemptsInv, Distinct, BudgetOf
<1>2. TypeOK /\ LockExclusive /\ AttemptsInv /\ [Next]_vars => AttemptsInv'
  BY AttemptsStep
<1>3. TypeOK /\ AttemptsInv => AttemptsBounded
  <2> SUFFICES ASSUME TypeOK, AttemptsInv, NEW j \in Jobs, resets[j] = 0
               PROVE  attempts[j] <= MaxAttempts + Cardinality(Polls) - 1
    BY DEF AttemptsBounded
  <2>1. QED
    BY WaitingTyped DEF AttemptsInv, BudgetOf
<1>4. QED
  BY <1>1, <1>2, <1>3, TypeCorrect, LockIsExclusive, PTL DEF Spec
=============================================================================
