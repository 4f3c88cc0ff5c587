----------------------- MODULE DeliveryPromiseProofs -----------------------
(***************************************************************************)
(* What the exclusive claims of DeliveryQueueProofs buy: outcomes that     *)
(* stay, retries that end, bounded repetition, order per inbox, and the    *)
(* promises of modules Outbox and Channel; and that a run has an end.  All *)
(* but the last is for runs shorter than a claim.                          *)
(***************************************************************************)
EXTENDS DeliveryQueueProofs, FiniteSetTheorems

\* TypeInv and HeldInv together, the invariant the rest is proved from.
QueueInv == TypeInv /\ HeldInv

LEMMA QueueInvInit == Init => QueueInv
BY TypeInit, HeldInit DEF QueueInv

LEMMA QueueInvStep ==
    ASSUME QueueInv, Patience < ClaimTTL, [Next]_vars
    PROVE  QueueInv'
BY TypeStep, HeldStep DEF QueueInv

\* What is held is a queued row or one that was discarded.
LEMMA HeldRow ==
    ASSUME QueueInv, NEW w \in Worker, NEW j \in jobs[w]
    PROVE  /\ j \in Job /\ j.key \in Delivery
           /\ row[j.key] \in Row
           /\ Active(j.key) \/ row[j.key].status = "discarded"
BY DEF QueueInv, TypeInv, TypeOK, HeldInv, Postponed, Job

\* A worker about to record has a current job and a result for it.
LEMMA RecordingJob ==
    ASSUME QueueInv, NEW w \in Worker, Record(w)
    PROVE  job[w] \in jobs[w] /\ outcome[w] \in Outcome
BY DEF QueueInv, TypeInv, WorkerConsistent, Record

-----------------------------------------------------------------------------
(* How a step changes a row.                                               *)

Inserted(d, p) == /\ CommitEnqueue(p) /\ d \in NewRows(draft[p])
                  /\ row'[d] = [status |-> "pending", attempts |-> 0,
                                due |-> draft[p].created, created |-> draft[p].created,
                                serial |-> nextSerial]

Claimed(d, w) == /\ d \in Due(runNow[w])
                 /\ row'[d] = [row[d] EXCEPT !.due = ClaimedUntil(runNow[w])]

Recorded(d, w) == /\ Record(w) /\ d = job[w].key
                  /\ row'[d] = [status |-> outcome[w].status,
                                attempts |-> outcome[w].attempts, due |-> outcome[w].due,
                                created |-> row[d].created, serial |-> row[d].serial]

Cancelled(d) == /\ row[d].status \in {"pending", "retrying", "dead"}
                /\ row'[d] = [row[d] EXCEPT !.status = "discarded"]
                /\ d \in overridden'

Requeued(d) == /\ row[d].status = "dead"
               /\ row'[d] = [status |-> "pending", attempts |-> 0, due |-> clock,
                             created |-> clock, serial |-> row[d].serial]
               /\ d \in overridden'

\* The row of a delivery is inserted, claimed, settled by a worker, cancelled
\* or requeued: nothing else changes it.
LEMMA RowStep ==
    ASSUME QueueInv, [Next]_vars, NEW d \in Delivery
    PROVE  \/ row'[d] = row[d]
           \/ Cancelled(d) \/ Requeued(d)
           \/ \E p \in Publisher : Inserted(d, p)
           \/ \E w \in Worker : pc[w] = "started" /\ Claimed(d, w)
           \/ \E w \in Worker : Recorded(d, w)
<1> USE DEF QueueInv, TypeInv, TypeOK
<1>1. CASE UNCHANGED vars \/ Tick
  BY <1>1 DEF vars, Tick, queueVars
<1>2. ASSUME NEW p \in Publisher, BeginEnqueue(p) \/ CommitEnqueue(p)
      PROVE  row'[d] = row[d] \/ Inserted(d, p)
  <2>1. CASE BeginEnqueue(p)
    BY <2>1 DEF BeginEnqueue, queueVars
  <2>2. CASE CommitEnqueue(p) /\ d \in NewRows(draft[p])
    <3>1. NewRows(draft[p]) # {} /\ d \in NewRows(draft[p])
      BY <2>2
    <3>2. CASE HasRoom(NewRows(draft[p]))
      BY <2>2, <3>1, <3>2 DEF CommitEnqueue, Inserted
    <3>3. CASE ~HasRoom(NewRows(draft[p]))
      BY <2>2, <3>3 DEF CommitEnqueue
    <3>4. QED
      BY <3>2, <3>3
  <2>3. CASE CommitEnqueue(p) /\ d \notin NewRows(draft[p])
    BY <2>3 DEF CommitEnqueue
  <2>4. QED
    BY <1>2, <2>1, <2>2, <2>3
<1>3. ASSUME NEW i \in Inbox, CancelActive(i)
      PROVE  row'[d] = row[d] \/ Cancelled(d)
  BY <1>3 DEF CancelActive, ActiveTo, Active, ActiveStatus, Cancelled
<1>4. ASSUME NEW e \in Delivery, Discard(e)
      PROVE  row'[d] = row[d] \/ Cancelled(d)
  BY <1>4 DEF Discard, Cancelled
<1>5. ASSUME NEW e \in Delivery, RetryDead(e)
      PROVE  row'[d] = row[d] \/ Requeued(d)
  BY <1>5 DEF RetryDead, Requeueable, Requeued
<1>6. CASE Owner
  BY <1>3, <1>4, <1>5, <1>6 DEF Owner, Pause, Resume, Block, UnblockActor, UnblockDomain
<1>7. ASSUME NEW w \in Worker, Claim(w)
      PROVE  row'[d] = row[d] \/ (pc[w] = "started" /\ Claimed(d, w))
  BY <1>7 DEF Claim, Claimed
<1>8. ASSUME NEW w \in Worker, Record(w)
      PROVE  row'[d] = row[d] \/ Recorded(d, w)
  BY <1>8 DEF Record, Recorded
<1>9. ASSUME NEW w \in Worker, WorkerStep(w) \/ Abort(w), ~Claim(w), ~Record(w)
      PROVE  row'[d] = row[d]
  BY <1>9 DEF WorkerStep, BeginRun, CheckPolicy, SkipJob, BeginSend, Accepted, Failed,
              Release, Abort, queueVars
<1>10. QED
  BY <1>1, <1>2, <1>6, <1>7, <1>8, <1>9 DEF Next, Publish

-----------------------------------------------------------------------------
(* Outcomes.                                                               *)

LEMMA OutcomeStep ==
    ASSUME QueueInv, [Next]_vars, NEW d \in Delivery
    PROVE  KeepsOutcome(d)
<1> SUFFICES ASSUME row[d].status \in {"delivered", "dead"}, row'[d] # row[d]
             PROVE  /\ row[d].status = "dead"
                    /\ row'[d].status \in {"pending", "discarded"}
                    /\ d \in overridden'
  BY DEF KeepsOutcome
<1>1. ASSUME NEW w \in Worker PROVE ~Recorded(d, w)
  BY <1>1, RecordingJob, HeldRow DEF Recorded, Active, ActiveStatus
<1>2. ASSUME NEW w \in Worker PROVE ~Claimed(d, w)
  BY DEF Claimed, Due, Active, ActiveStatus
<1>3. Cancelled(d) \/ Requeued(d)
  BY <1>1, <1>2, RowStep DEF Inserted, NewRows
<1>4. row[d] \in Row
  BY DEF QueueInv, TypeInv, TypeOK
<1>5. QED
  BY <1>3, <1>4 DEF Cancelled, Requeued, Row

\* A recorded result is final: a late result never overwrites it.
THEOREM FinalOutcomes ==
    ASSUME Patience < ClaimTTL
    PROVE  Spec => OutcomesStay
<1>1. QueueInv /\ [Next]_vars => [\A d \in Delivery : KeepsOutcome(d)]_vars
  BY OutcomeStep
<1>2. QueueInv /\ [Next]_vars => QueueInv'
  BY QueueInvStep
<1>3. QED
  BY <1>1, <1>2, QueueInvInit, PTL DEF Spec, OutcomesStay

-----------------------------------------------------------------------------
(* Retries end.                                                            *)

\* A worker's copy of a delivery keeps the creation instant and the place of
\* the row, and a result that asks for a retry asks for one in its lifetime.
CopyInv ==
    \A w \in Worker :
        /\ \A j \in jobs[w] : /\ j.created = row[j.key].created
                              /\ j.serial = row[j.key].serial
        /\ pc[w] \in {"answered", "recording"} /\ outcome[w].status = "retrying"
           => outcome[w].due <= Deadline(job[w].created)

LEMMA CopyInit == Init => CopyInv
BY DEF Init, CopyInv

\* Only a claim puts jobs into a batch, and it copies their rows.
LEMMA JobStep ==
    ASSUME QueueInv, [Next]_vars, NEW w \in Worker, NEW j \in jobs'[w]
    PROVE  \/ j \in jobs[w]
           \/ /\ pc[w] = "started" /\ Claim(w)
              /\ j.key \in Due(runNow[w]) /\ j = JobOf(j.key)
<1> USE DEF QueueInv, TypeInv, TypeOK
<1>1. ASSUME NEW v \in Worker, WorkerStep(v) \/ Abort(v)
      PROVE  \/ j \in jobs[w]
             \/ pc[w] = "started" /\ Claim(w) /\ j.key \in Due(runNow[w]) /\ j = JobOf(j.key)
  <2>1. CASE Claim(v)
    <3>1. PICK S \in SUBSET Due(runNow[v]) : jobs' = [jobs EXCEPT ![v] = {JobOf(d) : d \in S}]
      BY <2>1 DEF Claim
    <3>2. CASE v = w
      <4>1. PICK d \in S : j = JobOf(d)
        BY <3>1, <3>2
      <4>2. j.key = d /\ pc[w] = "started"
        BY <2>1, <3>2, <4>1 DEF JobOf, Claim
      <4>3. QED
        BY <2>1, <3>2, <4>1, <4>2
    <3>3. CASE v # w
      BY <3>1, <3>3
    <3>4. QED
      BY <3>2, <3>3
  <2>2. CASE ~Claim(v)
    BY <1>1, <2>2 DEF WorkerStep, BeginRun, CheckPolicy, SkipJob, BeginSend, Accepted,
                      Failed, Release, Record, Abort, NextJob
  <2>3. QED
    BY <2>1, <2>2
<1>2. CASE UNCHANGED workerVars
  BY <1>2 DEF workerVars
<1>3. CASE UNCHANGED vars \/ Tick \/ Publish \/ Owner
  BY <1>2, <1>3 DEF vars, Tick, Publish, BeginEnqueue, CommitEnqueue, Owner, OwnerUnchanged,
         Pause, Resume, Discard, RetryDead, Block, UnblockActor, UnblockDomain
<1>4. QED
  BY <1>1, <1>3 DEF Next

\* While it is held, a delivery keeps its creation instant and its place.
LEMMA HeldRowStep ==
    ASSUME QueueInv, [Next]_vars, NEW w \in Worker, NEW j \in jobs[w]
    PROVE  /\ row'[j.key].created = row[j.key].created
           /\ row'[j.key].serial = row[j.key].serial
<1>1. row[j.key] \in Row /\ j.key \in Delivery /\ row[j.key].status \notin {"absent", "dead"}
  BY HeldRow DEF Active, ActiveStatus
<1>2. CASE row'[j.key] = row[j.key]
  BY <1>2
<1>3. \A p \in Publisher : ~Inserted(j.key, p)
  BY <1>1 DEF Inserted, NewRows
<1>4. CASE Cancelled(j.key)
  BY <1>1, <1>4 DEF Cancelled, Row
<1>5. ~Requeued(j.key)
  BY <1>1 DEF Requeued
<1>6. ASSUME NEW v \in Worker, Claimed(j.key, v) \/ Recorded(j.key, v)
      PROVE  /\ row'[j.key].created = row[j.key].created
             /\ row'[j.key].serial = row[j.key].serial
  BY <1>1, <1>6 DEF Claimed, Recorded, Row
<1>7. QED
  BY <1>1, <1>2, <1>3, <1>4, <1>5, <1>6, RowStep

LEMMA CopyStep ==
    ASSUME QueueInv, CopyInv, [Next]_vars
    PROVE  CopyInv'
<1> USE DEF QueueInv, TypeInv, TypeOK
<1>1. ASSUME NEW w \in Worker, NEW j \in jobs'[w]
      PROVE  j.created = row'[j.key].created /\ j.serial = row'[j.key].serial
  <2>1. CASE j \in jobs[w]
    BY <2>1, HeldRowStep DEF CopyInv
  <2>2. CASE /\ pc[w] = "started" /\ Claim(w)
             /\ j.key \in Due(runNow[w]) /\ j = JobOf(j.key)
    <3>1. j.key \in Delivery /\ j.created = row[j.key].created /\ j.serial = row[j.key].serial
      BY <2>2 DEF Due, JobOf
    <3>2. \/ row'[j.key] = row[j.key]
          \/ row'[j.key] = [row[j.key] EXCEPT !.due = ClaimedUntil(runNow[w])]
      BY <2>2, <3>1 DEF Claim
    <3>3. QED
      BY <3>1, <3>2 DEF Row
  <2>3. QED
    BY <2>1, <2>2, <1>1, JobStep
<1>2. ASSUME NEW w \in Worker, pc'[w] \in {"answered", "recording"},
             outcome'[w].status = "retrying"
      PROVE  outcome'[w].due <= Deadline(job'[w].created)
  <2>1. CASE UNCHANGED <<pc[w], outcome[w], job[w]>>
    BY <1>2, <2>1 DEF CopyInv
  <2>2. CASE UNCHANGED vars \/ Tick \/ Publish \/ Owner
    BY <2>1, <2>2 DEF vars, workerVars, Tick, Publish, BeginEnqueue, CommitEnqueue, Owner,
        OwnerUnchanged, Pause, Resume, Discard, RetryDead, Block, UnblockActor, UnblockDomain
  <2>3. ASSUME NEW v \in Worker, v # w, WorkerStep(v) \/ Abort(v)
        PROVE  UNCHANGED <<pc[w], outcome[w], job[w]>>
    BY <2>3 DEF WorkerStep, BeginRun, Claim, CheckPolicy, SkipJob, BeginSend, Accepted,
                Failed, Release, Record, Abort, NextJob, Continue
  <2>4. CASE CheckPolicy(w)
    BY <1>2, <2>4 DEF CheckPolicy, Blocked
  <2>5. CASE Accepted(w)
    BY <1>2, <2>5 DEF Accepted, Success
  <2>6. CASE Failed(w)
    <3>1. job[w] \in Job /\ runNow[w] \in Nat /\ job'[w] = job[w]
      BY <2>6 DEF Failed, WorkerConsistent
    <3>2. PICK retryable \in BOOLEAN, asked \in RetryAfters :
            outcome' = [outcome EXCEPT ![w] = Failure(runNow[w], job[w].created,
                                                      job[w].attempts, retryable, asked)]
      BY <2>6 DEF Failed
    <3>3. outcome'[w] = Failure(runNow[w], job[w].created, job[w].attempts, retryable, asked)
      BY <3>2
    <3>4. asked \in Nat /\ job[w].created \in Nat /\ job[w].attempts \in Nat
      BY <3>1, QueueAssumption DEF Job
    <3> DEFINE o == Failure(runNow[w], job[w].created, job[w].attempts, retryable, asked)
    <3>5. o.status = "retrying" => o.due <= Deadline(job[w].created)
      BY <3>1, <3>4, FailureOutcome
    <3> HIDE DEF o
    <3>6. outcome'[w] = o
      BY <3>3 DEF o
    <3>7. QED
      BY <1>2, <3>1, <3>5, <3>6
  <2>7. CASE Release(w)
    BY <1>2, <2>7 DEF Release, CopyInv
  <2>8. CASE BeginRun(w) \/ Claim(w) \/ SkipJob(w) \/ BeginSend(w) \/ Record(w) \/ Abort(w)
    BY <1>2, <2>8 DEF BeginRun, Claim, SkipJob, BeginSend, Record, Abort, NextJob, Continue
  <2>9. QED
    BY <2>1, <2>2, <2>3, <2>4, <2>5, <2>6, <2>7, <2>8 DEF Next, WorkerStep
<1>3. QED
  BY <1>1, <1>2 DEF CopyInv

\* The clock does not go back.
LEMMA ClockStep ==
    ASSUME QueueInv, [Next]_vars
    PROVE  clock \in Nat /\ clock' \in Nat /\ clock <= clock'
<1>1. clock \in Nat
  BY DEF QueueInv, TypeInv, TypeOK
<1>2. CASE Tick
  BY <1>1, <1>2 DEF Tick
<1>3. CASE UNCHANGED vars \/ Publish \/ Owner
  BY <1>1, <1>3 DEF vars, Publish, BeginEnqueue, CommitEnqueue, Owner, OwnerUnchanged,
        Pause, Resume, Discard, RetryDead, Block, UnblockActor, UnblockDomain
<1>4. ASSUME NEW w \in Worker, WorkerStep(w) \/ Abort(w)
      PROVE  clock' = clock
  BY <1>4 DEF WorkerStep, BeginRun, Claim, CheckPolicy, SkipJob, BeginSend, Accepted, Failed,
              Release, Record, Abort
<1>5. QED
  BY <1>1, <1>2, <1>3, <1>4 DEF Next

LEMMA RetriesStep ==
    ASSUME QueueInv, CopyInv, RetriesEnd, [Next]_vars
    PROVE  RetriesEnd'
<1> USE DEF QueueInv, TypeInv, TypeOK
<1> SUFFICES ASSUME NEW d \in Delivery, Active(d)'
             PROVE  \/ row'[d].due <= Deadline(row'[d].created)
                    \/ row'[d].due <= clock' + ClaimTTL
  BY DEF RetriesEnd
<1>1. row[d] \in Row /\ row'[d].status \in ActiveStatus
  BY DEF Active
<1>2. clock \in Nat /\ clock' \in Nat /\ clock <= clock'
  BY ClockStep
<1>3. CASE row'[d] = row[d]
  <2>1. \/ row[d].due <= Deadline(row[d].created)
        \/ row[d].due <= clock + ClaimTTL
    BY <1>1, <1>3 DEF RetriesEnd, Active
  <2>2. row[d].due \in Nat
    BY <1>1 DEF Row
  <2>3. QED
    BY <1>2, <1>3, <2>1, <2>2, QueueAssumption
<1>4. CASE Cancelled(d)
  BY <1>1, <1>4 DEF Cancelled, Row, ActiveStatus
<1>5. CASE Requeued(d)
  BY <1>5, <1>2, ScheduleAssumption DEF Requeued, Deadline
<1>6. ASSUME NEW p \in Publisher, Inserted(d, p)
      PROVE  row'[d].due <= Deadline(row'[d].created)
  <2>1. draft[p].created \in Nat
    BY <1>6 DEF Inserted, CommitEnqueue, Draft
  <2>2. QED
    BY <1>6, <2>1, ScheduleAssumption DEF Inserted, Deadline
<1>7. ASSUME NEW w \in Worker, pc[w] = "started", Claimed(d, w)
      PROVE  row'[d].due <= clock' + ClaimTTL
  <2>1. runNow[w] <= clock /\ runNow[w] \in Nat
    BY <1>7 DEF HeldInv, RunInv
  <2>2. row'[d].due = runNow[w] + ClaimTTL
    BY <1>1, <1>7 DEF Claimed, ClaimedUntil, Row
  <2>3. QED
    BY <1>2, <2>1, <2>2, QueueAssumption
<1>8. ASSUME NEW w \in Worker, Recorded(d, w)
      PROVE  row'[d].due <= Deadline(row'[d].created)
  <2>1. job[w] \in jobs[w] /\ outcome[w] \in Outcome /\ pc[w] = "recording"
    BY <1>8, RecordingJob DEF Recorded, Record
  <2>2. outcome[w].status = "retrying"
    BY <1>1, <1>8, <2>1 DEF Recorded, Outcome, ActiveStatus
  <2>3. outcome[w].due <= Deadline(job[w].created) /\ job[w].created = row[d].created
    BY <1>8, <2>1, <2>2 DEF CopyInv, Recorded
  <2>4. QED
    BY <1>8, <2>3 DEF Recorded
<1>9. QED
  BY <1>3, <1>4, <1>5, <1>6, <1>7, <1>8, RowStep

\* No sequence of failures, interruptions, cancellations and requeues puts the
\* next attempt of a queued delivery after the end of its life, save for a
\* claim of the last ClaimTTL that runs out.
THEOREM RetriesBounded ==
    ASSUME Patience < ClaimTTL
    PROVE  Spec => []RetriesEnd
<1>1. Init => RetriesEnd
  BY DEF Init, RetriesEnd, Active, ActiveStatus
<1>2. QueueInv /\ [Next]_vars => QueueInv'
  BY QueueInvStep
<1>3. QED
  BY <1>1, <1>2, QueueInvInit, CopyInit, CopyStep, RetriesStep, PTL DEF Spec

-----------------------------------------------------------------------------
(* Repetition.                                                             *)

\* The 2xx answer to d is recorded, or a worker is about to record it.
Settled(d) ==
    \/ row[d].status = "delivered"
    \/ \E w \in Worker : /\ pc[w] \in {"answered", "recording"}
                         /\ job[w].key = d /\ outcome[w].status = "delivered"

\* A first acceptance that no interruption excuses is settled.
AcceptInv ==
    \A d \in Delivery : \/ accepted[d] <= aborts
                        \/ accepted[d] = 1 + aborts /\ Settled(d)

LEMMA SettledStep ==
    ASSUME QueueInv, [Next]_vars, NEW d \in Delivery, Settled(d), aborts' = aborts
    PROVE  Settled(d)'
<1> USE DEF QueueInv, TypeInv, TypeOK
<1>1. CASE row[d].status = "delivered"
  BY <1>1, OutcomeStep DEF KeepsOutcome, Settled
<1>2. ASSUME NEW w \in Worker, pc[w] \in {"answered", "recording"},
             job[w].key = d, outcome[w].status = "delivered"
      PROVE  Settled(d)'
  <2>1. CASE UNCHANGED <<pc[w], outcome[w], job[w]>>
    BY <1>2, <2>1 DEF Settled
  <2>2. CASE UNCHANGED vars \/ Tick \/ Publish \/ Owner
    BY <2>1, <2>2 DEF vars, workerVars, Tick, Publish, BeginEnqueue, CommitEnqueue, Owner,
        OwnerUnchanged, Pause, Resume, Discard, RetryDead, Block, UnblockActor, UnblockDomain
  <2>3. ASSUME NEW v \in Worker, v # w, WorkerStep(v)
        PROVE  UNCHANGED <<pc[w], outcome[w], job[w]>>
    BY <2>3 DEF WorkerStep, BeginRun, Claim, CheckPolicy, SkipJob, BeginSend, Accepted,
                Failed, Release, Record, NextJob, Continue
  <2>4. CASE Release(w)
    BY <1>2, <2>4 DEF Release, Settled
  <2>5. CASE Record(w)
    BY <1>2, <2>5 DEF Record, Settled
  <2>6. ~(BeginRun(w) \/ Claim(w) \/ CheckPolicy(w) \/ SkipJob(w) \/ BeginSend(w)
          \/ Accepted(w) \/ Failed(w))
    BY <1>2 DEF BeginRun, Claim, CheckPolicy, SkipJob, BeginSend, Accepted, Failed
  <2>7. ASSUME NEW v \in Worker, Abort(v) PROVE FALSE
    <3>1. aborts' = aborts + 1
      BY <2>7 DEF Abort
    <3>2. aborts \in Nat /\ aborts' = aborts
      OBVIOUS
    <3>3. QED
      BY <3>1, <3>2
  <2>8. QED
    BY <2>1, <2>2, <2>3, <2>4, <2>5, <2>6, <2>7 DEF Next, WorkerStep
<1>3. QED
  BY <1>1, <1>2 DEF Settled

\* A delivery that is being sent is not settled: nothing else holds it.
LEMMA SendingUnsettled ==
    ASSUME QueueInv, NEW w \in Worker, pc[w] = "sending"
    PROVE  ~Settled(job[w].key)
<1>1. job[w] \in jobs[w]
  BY DEF QueueInv, TypeInv, WorkerConsistent
<1>2. row[job[w].key].status # "delivered"
  BY <1>1, HeldRow DEF Active, ActiveStatus
<1>3. ASSUME NEW v \in Worker, pc[v] \in {"answered", "recording"}
      PROVE  job[v].key # job[w].key
  BY <1>1, <1>3 DEF QueueInv, TypeInv, WorkerConsistent, HeldInv, Exclusive
<1>4. QED
  BY <1>2, <1>3 DEF Settled

LEMMA AcceptStep ==
    ASSUME QueueInv, AcceptInv, [Next]_vars
    PROVE  AcceptInv'
<1> USE DEF QueueInv, TypeInv, TypeOK
<1>1. ASSUME NEW w \in Worker, Abort(w)
      PROVE  AcceptInv'
  BY <1>1 DEF Abort, AcceptInv
<1>2. ASSUME NEW w \in Worker, Accepted(w)
      PROVE  AcceptInv'
  <2>0. job[w].key \in Delivery
    BY <1>2 DEF Accepted, WorkerConsistent, Job
  <2> PICK k \in Delivery : k = job[w].key
    BY <2>0
  <2>1. aborts' = aborts /\ job' = job
    BY <1>2 DEF Accepted
  <2>2. accepted[k] <= aborts
    BY <1>2, <2>1, SendingUnsettled DEF Accepted, AcceptInv
  <2>3. Settled(k)'
    BY <1>2 DEF Accepted, Success, Settled
  <2>4. \A d \in Delivery : d # k => accepted'[d] = accepted[d]
    BY <1>2 DEF Accepted
  <2>5. accepted'[k] = accepted[k] + 1
    BY <1>2, <2>1 DEF Accepted
  <2>6. [Next]_vars
    OBVIOUS
  <2>7. \A d \in Delivery : Settled(d) => Settled(d)'
    BY <2>1, <2>6, SettledStep
  <2>8. aborts \in Nat /\ \A d \in Delivery : accepted[d] \in Nat
    OBVIOUS
  <2>9. ASSUME NEW d \in Delivery
        PROVE  \/ accepted'[d] <= aborts'
               \/ accepted'[d] = 1 + aborts' /\ Settled(d)'
    <3>1. CASE d = k
      BY <2>1, <2>2, <2>3, <2>5, <2>8, <3>1
    <3>2. CASE d # k
      BY <2>1, <2>4, <2>7, <3>2 DEF AcceptInv
    <3>3. QED
      BY <3>1, <3>2
  <2>10. QED
    BY <2>9 DEF AcceptInv
<1>3. CASE UNCHANGED <<accepted, aborts>>
  BY <1>3, SettledStep DEF AcceptInv
<1>4. CASE UNCHANGED vars \/ Tick \/ Publish \/ Owner
  BY <1>3, <1>4 DEF vars, Tick, Publish, BeginEnqueue, CommitEnqueue, Owner,
        OwnerUnchanged, Pause, Resume, Discard, RetryDead, Block, UnblockActor, UnblockDomain
<1>5. ASSUME NEW w \in Worker, WorkerStep(w), ~Accepted(w)
      PROVE  UNCHANGED <<accepted, aborts>>
  BY <1>5 DEF WorkerStep, BeginRun, Claim, CheckPolicy, SkipJob, BeginSend, Failed,
              Release, Record
<1>6. QED
  BY <1>1, <1>2, <1>3, <1>4, <1>5 DEF Next

\* A peer accepts a delivery once, plus at most once per interrupted run.
THEOREM BoundedRepetition ==
    ASSUME Patience < ClaimTTL
    PROVE  Spec => []AcceptedOnce
<1>1. Init => AcceptInv
  BY DEF Init, AcceptInv
<1>2. QueueInv /\ AcceptInv => AcceptedOnce
  BY DEF QueueInv, TypeInv, TypeOK, AcceptInv, AcceptedOnce
<1>3. QueueInv /\ [Next]_vars => QueueInv'
  BY QueueInvStep
<1>4. QED
  BY <1>1, <1>2, <1>3, QueueInvInit, AcceptStep, PTL DEF Spec

-----------------------------------------------------------------------------
(* Order.                                                                  *)

\* Rows are numbered in the order of insertion, and deliveries to one inbox
\* differ in their numbers.
SerialInv ==
    /\ \A d \in Delivery : row[d].status # "absent" => row[d].serial < nextSerial
    /\ \A d, e \in Delivery :
          /\ InboxOf(d) = InboxOf(e) /\ d # e
          /\ row[d].status # "absent" /\ row[e].status # "absent"
          => row[d].serial # row[e].serial

\* Only the owner discards, and nothing queued precedes a claimed delivery.
OrderInv ==
    /\ \A d \in Delivery : row[d].status = "discarded" => d \in overridden
    /\ \A w \in Worker : \A j \in jobs[w] : \A d \in Delivery :
          /\ InboxOf(d) = InboxOf(j.key)
          /\ Before(row[d], j) /\ row[d].serial < j.serial
          /\ Active(d)
          => d \in overridden

LEMMA OverriddenStep ==
    ASSUME [Next]_vars
    PROVE  overridden \subseteq overridden'
<1>1. CASE UNCHANGED vars \/ Tick \/ Publish
  BY <1>1 DEF vars, Tick, Publish, BeginEnqueue, CommitEnqueue
<1>2. CASE Owner
  BY <1>2 DEF Owner, Pause, Resume, Discard, RetryDead, Block, UnblockActor, UnblockDomain,
              CancelActive
<1>3. ASSUME NEW w \in Worker, WorkerStep(w) \/ Abort(w)
      PROVE  overridden' = overridden
  BY <1>3 DEF WorkerStep, BeginRun, Claim, CheckPolicy, SkipJob, BeginSend, Accepted, Failed,
              Release, Record, Abort
<1>4. QED
  BY <1>1, <1>2, <1>3 DEF Next

LEMMA SerialStep ==
    ASSUME QueueInv, SerialInv, [Next]_vars
    PROVE  SerialInv'
<1> USE DEF QueueInv, TypeInv, TypeOK
<1>1. nextSerial \in Nat /\ nextSerial' \in Nat /\ nextSerial <= nextSerial'
  <2>1. ASSUME NEW p \in Publisher, CommitEnqueue(p)
        PROVE  nextSerial' \in {nextSerial, nextSerial + 1}
    BY <2>1 DEF CommitEnqueue
  <2>2. CASE \A p \in Publisher : ~CommitEnqueue(p)
    <3>1. CASE UNCHANGED vars \/ Tick \/ Publish \/ Owner
      BY <2>2, <3>1 DEF vars, queueVars, Tick, Publish, BeginEnqueue, Owner, OwnerUnchanged,
            Pause, Resume, Discard, RetryDead, Block, UnblockActor, UnblockDomain
    <3>2. ASSUME NEW w \in Worker, WorkerStep(w) \/ Abort(w)
          PROVE  nextSerial' = nextSerial
      BY <3>2 DEF WorkerStep, BeginRun, Claim, CheckPolicy, SkipJob, BeginSend, Accepted,
                  Failed, Release, Record, Abort, queueVars
    <3>3. QED
      BY <3>1, <3>2 DEF Next
  <2>3. QED
    BY <2>1, <2>2
<1>2. ASSUME NEW d \in Delivery, row'[d].status # "absent"
      PROVE  \/ row[d].status # "absent" /\ row'[d].serial = row[d].serial
             \/ \E p \in Publisher : Inserted(d, p)
  <2>1. row[d] \in Row
    OBVIOUS
  <2>2. CASE row'[d] = row[d]
    BY <1>2, <2>2
  <2>3. CASE Cancelled(d) \/ Requeued(d)
    BY <2>1, <2>3 DEF Cancelled, Requeued, Row
  <2>4. ASSUME NEW w \in Worker, Claimed(d, w)
        PROVE  row[d].status # "absent" /\ row'[d].serial = row[d].serial
    BY <2>1, <2>4 DEF Claimed, Due, Active, ActiveStatus, Row
  <2>5. ASSUME NEW w \in Worker, Recorded(d, w)
        PROVE  row[d].status # "absent" /\ row'[d].serial = row[d].serial
    BY <2>5, RecordingJob, HeldRow DEF Recorded, Active, ActiveStatus
  <2>6. QED
    BY <2>2, <2>3, <2>4, <2>5, RowStep
<1>3. ASSUME NEW p \in Publisher, NEW d \in Delivery, Inserted(d, p)
      PROVE  /\ row'[d].serial = nextSerial
             /\ d[1] = draft[p].activity /\ d \in NewRows(draft[p])
  BY <1>3 DEF Inserted, NewRows
<1>4. ASSUME NEW p \in Publisher, NEW d \in Delivery, Inserted(d, p)
      PROVE  nextSerial' = nextSerial + 1
  <2>1. d \in NewRows(draft[p]) /\ row[d].status = "absent" /\ row'[d] # row[d]
    BY <1>4 DEF Inserted, NewRows
  <2>2. HasRoom(NewRows(draft[p]))
    BY <1>4, <2>1 DEF Inserted, CommitEnqueue
  <2>3. QED
    BY <1>4, <2>1, <2>2 DEF Inserted, CommitEnqueue
<1>5. ASSUME NEW d \in Delivery, row'[d].status # "absent"
      PROVE  row'[d].serial < nextSerial'
  <2>1. row[d].serial \in Nat
    BY DEF Row
  <2>2. QED
    BY <1>1, <1>2, <1>3, <1>4, <1>5, <2>1 DEF SerialInv
<1>6. ASSUME NEW d \in Delivery, NEW e \in Delivery, InboxOf(d) = InboxOf(e), d # e,
             row'[d].status # "absent", row'[e].status # "absent"
      PROVE  row'[d].serial # row'[e].serial
  <2>1. row[d].serial \in Nat /\ row[e].serial \in Nat
    BY DEF Row
  <2>2. ASSUME NEW p \in Publisher, NEW q \in Publisher, Inserted(d, p), Inserted(e, q)
        PROVE  FALSE
    <3>1. d[1] # e[1]
      BY <1>6 DEF Delivery, InboxOf
    <3>2. draft[p] # None /\ draft[q] # None /\ e \in NewRows(draft[p])
      <4>1. row'[e] # row[e]
        BY <2>2 DEF Inserted, NewRows
      <4>2. e \in NewRows(draft[p])
        BY <2>2, <4>1 DEF Inserted, CommitEnqueue
      <4>3. QED
        BY <2>2, <4>2 DEF Inserted, CommitEnqueue
    <3>3. QED
      BY <2>2, <3>1, <3>2, <1>3 DEF NewRows
  <2>3. QED
    BY <1>1, <1>2, <1>3, <1>6, <2>1, <2>2 DEF SerialInv
<1>7. QED
  BY <1>5, <1>6 DEF SerialInv

LEMMA OrderStep ==
    ASSUME QueueInv, CopyInv, SerialInv, OrderInv, [Next]_vars
    PROVE  OrderInv'
<1> USE DEF QueueInv, TypeInv, TypeOK
<1>1. ASSUME NEW d \in Delivery, row'[d].status = "discarded"
      PROVE  d \in overridden'
  <2>1. CASE row'[d] = row[d]
    BY <1>1, <2>1, OverriddenStep DEF OrderInv
  <2>2. CASE Cancelled(d) \/ Requeued(d)
    BY <2>2 DEF Cancelled, Requeued
  <2>3. \A p \in Publisher : ~Inserted(d, p)
    BY <1>1 DEF Inserted
  <2>4. ASSUME NEW w \in Worker PROVE ~Claimed(d, w) /\ ~Recorded(d, w)
    <3>1. row[d] \in Row
      OBVIOUS
    <3>2. QED
      BY <1>1, <3>1, RecordingJob DEF Claimed, Due, Active, ActiveStatus, Recorded, Outcome, Row
  <2>5. QED
    BY <2>1, <2>2, <2>3, <2>4, RowStep
<1>2. ASSUME NEW w \in Worker, NEW j \in jobs'[w], NEW d \in Delivery,
             InboxOf(d) = InboxOf(j.key), Before(row'[d], j), row'[d].serial < j.serial,
             Active(d)'
      PROVE  d \in overridden'
  <2>1. row[d] \in Row /\ row'[d] \in Row /\ row'[d].status \in ActiveStatus
    BY <1>2, TypeStep DEF Active
  <2>2. CASE j \in jobs[w]
    <3>1. j \in Job /\ j.serial < nextSerial
      BY <2>2, HeldRow DEF CopyInv, SerialInv, Active, ActiveStatus
    <3>2. ASSUME row'[d].created = row[d].created, row'[d].serial = row[d].serial, Active(d)
          PROVE  d \in overridden'
      BY <1>2, <2>2, <3>2, OverriddenStep DEF OrderInv, Before
    <3>3. CASE row'[d] = row[d]
      BY <2>1, <3>2, <3>3 DEF Active
    <3>4. CASE Cancelled(d) \/ Requeued(d)
      BY <3>4 DEF Cancelled, Requeued
    <3>5. \A p \in Publisher : ~Inserted(d, p)
      BY <1>2, <2>1, <3>1 DEF Inserted, Row, Job
    <3>6. ASSUME NEW v \in Worker, Claimed(d, v)
          PROVE  d \in overridden'
      BY <2>1, <3>2, <3>6 DEF Claimed, Due, Row
    <3>7. ASSUME NEW v \in Worker, Recorded(d, v)
          PROVE  d \in overridden'
      <4>1. Active(d) \/ row[d].status = "discarded"
        BY <3>7, RecordingJob, HeldRow DEF Recorded
      <4>2. row'[d].created = row[d].created /\ row'[d].serial = row[d].serial
        BY <3>7 DEF Recorded
      <4>3. QED
        BY <3>2, <4>1, <4>2, OverriddenStep DEF OrderInv
    <3>8. QED
      BY <3>3, <3>4, <3>5, <3>6, <3>7, RowStep
  <2>3. CASE /\ pc[w] = "started" /\ Claim(w)
             /\ j.key \in Due(runNow[w]) /\ j = JobOf(j.key)
    <3>1. \/ row'[d] = row[d]
          \/ row'[d] = [row[d] EXCEPT !.due = ClaimedUntil(runNow[w])]
      BY <2>3 DEF Claim
    <3>2. Active(d) /\ row'[d].created = row[d].created /\ row'[d].serial = row[d].serial
      BY <2>1, <3>1 DEF Active, Row
    <3>3. ~Before(row[d], row[j.key])
      BY <1>2, <2>3, <3>2 DEF Due
    <3>4. j.created = row[j.key].created /\ j.serial = row[j.key].serial
      BY <2>3 DEF JobOf
    <3>5. QED
      BY <1>2, <3>2, <3>3, <3>4 DEF Before
  <2>4. QED
    BY <1>2, <2>2, <2>3, JobStep
<1>3. QED
  BY <1>1, <1>2 DEF OrderInv

\* Deliveries to one inbox are sent in the order they were created and
\* inserted, whatever fails, is retried or is interrupted before.
THEOREM InboxOrder ==
    ASSUME Patience < ClaimTTL
    PROVE  Spec => []OrderPerInbox
<1>1. Init => SerialInv /\ OrderInv
  BY DEF Init, SerialInv, OrderInv, Active, ActiveStatus
<1>2. QueueInv /\ OrderInv => OrderPerInbox
  BY DEF QueueInv, TypeInv, WorkerConsistent, OrderInv, OrderPerInbox
<1>3. QueueInv /\ [Next]_vars => QueueInv'
  BY QueueInvStep
<1>4. QED
  BY <1>1, <1>2, <1>3, QueueInvInit, CopyInit, CopyStep, SerialStep, OrderStep, PTL DEF Spec

\* Of two due deliveries of one inbox neither is before the other, so they
\* have one number: they are one delivery.
LEMMA SpreadStep ==
    ASSUME QueueInv, SerialInv, BatchSpreads, [Next]_vars
    PROVE  BatchSpreads'
<1> USE DEF QueueInv, TypeInv, TypeOK
<1>1. ASSUME NEW w \in Worker, Claim(w), NEW d \in Due(runNow[w]), NEW e \in Due(runNow[w]),
             InboxOf(d) = InboxOf(e)
      PROVE  d = e
  <2>1. d \in Delivery /\ e \in Delivery /\ Active(d) /\ Active(e)
    BY DEF Due
  <2>2. /\ row[d].created \in Nat /\ row[d].serial \in Nat
        /\ row[e].created \in Nat /\ row[e].serial \in Nat
    BY <2>1 DEF Row
  <2>3. ~Before(row[d], row[e]) /\ ~Before(row[e], row[d])
    BY <1>1, <2>1 DEF Due
  <2>4. row[d].serial = row[e].serial
    BY <2>2, <2>3 DEF Before
  <2>5. row[d].status # "absent" /\ row[e].status # "absent"
    BY <2>1 DEF Active, ActiveStatus
  <2>6. QED
    BY <1>1, <2>1, <2>4, <2>5 DEF SerialInv
<1>2. ASSUME NEW w \in Worker, NEW j \in jobs'[w], NEW k \in jobs'[w],
             InboxOf(j.key) = InboxOf(k.key)
      PROVE  j = k
  <2>1. CASE Claim(w)
    <3>1. PICK S \in SUBSET Due(runNow[w]) : jobs'[w] = {JobOf(d) : d \in S}
      BY <2>1 DEF Claim
    <3>2. PICK d \in S, e \in S : j = JobOf(d) /\ k = JobOf(e)
      BY <1>2, <3>1
    <3>3. j.key = d /\ k.key = e
      BY <3>2 DEF JobOf
    <3>4. QED
      BY <1>1, <1>2, <2>1, <3>2, <3>3
  <2>2. CASE ~Claim(w)
    BY <1>2, <2>2, JobStep DEF BatchSpreads
  <2>3. QED
    BY <2>1, <2>2
<1>3. QED
  BY <1>2 DEF BatchSpreads

\* No run claims two deliveries to one inbox, however many are due.
THEOREM BatchesSpread ==
    ASSUME Patience < ClaimTTL
    PROVE  Spec => []BatchSpreads
<1>1. Init => SerialInv /\ BatchSpreads
  BY DEF Init, SerialInv, BatchSpreads
<1>2. QueueInv /\ [Next]_vars => QueueInv'
  BY QueueInvStep
<1>3. QED
  BY <1>1, <1>2, QueueInvInit, SerialStep, SpreadStep, PTL DEF Spec

-----------------------------------------------------------------------------
(* The bound.                                                              *)

\* What the bound counts: queued deliveries the owner never cancelled nor
\* requeued.
Counted == {d \in Delivery : Active(d)} \ overridden

\* A step counts a new delivery only by inserting it.
LEMMA CountedStep ==
    ASSUME QueueInv, OrderInv, [Next]_vars, NEW d \in Counted', d \notin Counted
    PROVE  \E p \in Publisher : Inserted(d, p)
<1>1. d \in Delivery /\ Active(d)' /\ d \notin overridden'
  BY DEF Counted
<1>2. ~Active(d) /\ row[d].status # "discarded"
  BY <1>1, OverriddenStep DEF Counted, OrderInv
<1>3. row'[d] # row[d] /\ ~Cancelled(d) /\ ~Requeued(d)
  BY <1>1, <1>2 DEF Active, Cancelled, Requeued
<1>4. ASSUME NEW w \in Worker PROVE ~Claimed(d, w)
  BY <1>2 DEF Claimed, Due
<1>5. ASSUME NEW w \in Worker PROVE ~Recorded(d, w)
  BY <1>2, RecordingJob, HeldRow DEF Recorded
<1>6. QED
  BY <1>1, <1>3, <1>4, <1>5, RowStep

LEMMA BoundStep ==
    ASSUME QueueInv, OrderInv, QueueBounded, [Next]_vars, IsFiniteSet(Delivery)
    PROVE  QueueBounded'
<1>1. Counted \in SUBSET Delivery /\ Counted' \in SUBSET Delivery
  BY DEF Counted
<1>2. CASE Counted' \subseteq Counted
  <2>1. Cardinality(Counted') <= Cardinality(Counted)
    BY <1>1, <1>2, FS_Subset
  <2>2. Cardinality(Counted) \in Nat /\ Cardinality(Counted') \in Nat
    BY <1>1, FS_Subset, FS_CardinalityType
  <2>3. Cardinality(Counted) <= MaxActive
    BY DEF QueueBounded, Counted
  <2>4. Cardinality(Counted') <= MaxActive
    BY <2>1, <2>2, <2>3, QueueAssumption
  <2>5. QED
    BY <2>4 DEF QueueBounded, Counted
<1>3. CASE \E d \in Counted' : d \notin Counted
  <2>1. PICK d \in Counted', p \in Publisher : Inserted(d, p)
    BY <1>3, CountedStep
  <2> DEFINE S == NewRows(draft[p])
             A == {e \in Delivery : Active(e)}
  <2>2. CommitEnqueue(p) /\ d \in S /\ row[d].status = "absent" /\ row'[d] # row[d]
    BY <2>1 DEF Inserted, NewRows
  <2>3. HasRoom(S)
    BY <2>2 DEF CommitEnqueue
  <2>4. Counted' \subseteq A \cup S
    <3>1. ASSUME NEW e \in Counted', e \notin Counted
          PROVE  e \in S
      <4> PICK q \in Publisher : Inserted(e, q)
        BY <3>1, CountedStep
      <4>1. row'[e] # row[e]
        BY DEF Inserted, NewRows
      <4>2. QED
        BY <1>1, <2>2, <4>1 DEF CommitEnqueue
    <3>2. QED
      BY <3>1 DEF Counted
  <2>5. A \in SUBSET Delivery /\ S \in SUBSET Delivery
    BY DEF NewRows
  <2>6. Cardinality(A) + Cardinality(S) <= MaxActive
    BY <2>3 DEF HasRoom
  <2> HIDE DEF A, S
  <2>7. IsFiniteSet(A) /\ IsFiniteSet(S)
    BY <2>5, FS_Subset
  <2>8. /\ Cardinality(A \cup S) = Cardinality(A) + Cardinality(S) - Cardinality(A \cap S)
        /\ IsFiniteSet(A \cup S)
    BY <2>7, FS_Union
  <2>9. Cardinality(Counted') <= Cardinality(A \cup S) /\ IsFiniteSet(Counted')
    BY <2>4, <2>8, FS_Subset
  <2>10. IsFiniteSet(A \cap S)
    BY <2>7, FS_Subset
  <2>11. /\ Cardinality(A) \in Nat /\ Cardinality(S) \in Nat
         /\ Cardinality(A \cap S) \in Nat /\ Cardinality(Counted') \in Nat
    BY <2>7, <2>9, <2>10, FS_CardinalityType
  <2>12. Cardinality(Counted') <= MaxActive
    BY <2>6, <2>8, <2>9, <2>11, QueueAssumption
  <2>13. QED
    BY <2>12 DEF QueueBounded, Counted
<1>4. QED
  BY <1>2, <1>3

\* Concurrent publishers, retries and late results never push the queue over
\* its bound: only the owner's own requeues and cancellations can.
THEOREM BoundedQueue ==
    ASSUME Patience < ClaimTTL, IsFiniteSet(Activity), IsFiniteSet(Inbox)
    PROVE  Spec => []QueueBounded
<1>1. IsFiniteSet(Delivery)
  BY FS_Product DEF Delivery
<1>2. Init => SerialInv /\ OrderInv /\ QueueBounded
  <2> SUFFICES ASSUME Init PROVE SerialInv /\ OrderInv /\ QueueBounded
    OBVIOUS
  <2>1. SerialInv /\ OrderInv
    BY DEF Init, SerialInv, OrderInv, Active, ActiveStatus
  <2>2. {d \in Delivery : Active(d)} \ overridden = {}
    BY DEF Init, Active, ActiveStatus
  <2>3. QED
    BY <2>1, <2>2, FS_EmptySet, QueueAssumption DEF QueueBounded
<1>3. QueueInv /\ [Next]_vars => QueueInv'
  BY QueueInvStep
<1>4. QueueInv /\ OrderInv /\ QueueBounded /\ [Next]_vars => QueueBounded'
  BY <1>1, BoundStep
<1>5. QED
  BY <1>2, <1>3, <1>4, QueueInvInit, CopyInit, CopyStep, SerialStep, OrderStep, PTL DEF Spec

-----------------------------------------------------------------------------
(* Runs end.  Each step of a run brings its end nearer, so with a process  *)
(* that goes on running a run is over after at most as many steps as       *)
(* StepsLeft says at its beginning.                                        *)

\* A batch is finite and within its limit, and a run that goes on has work.
Sized ==
    \A w \in Worker :
        /\ IsFiniteSet(jobs[w]) /\ Cardinality(jobs[w]) <= BatchLimit
        /\ pc[w] \notin {"idle", "started"} => jobs[w] # {}

\* As many jobs as claimed deliveries at the most.
LEMMA BatchSize ==
    ASSUME NEW S, IsFiniteSet(S)
    PROVE  LET T == {JobOf(d) : d \in S}
           IN  IsFiniteSet(T) /\ Cardinality(T) <= Cardinality(S)
<1> DEFINE T == {JobOf(d) : d \in S}
           f == [d \in S |-> JobOf(d)]
<1>1. f \in Surjection(S, T)
  BY DEF Surjection
<1> HIDE DEF f, T
<1>2. IsFiniteSet(T) /\ Cardinality(T) <= Cardinality(S)
  BY <1>1, FS_Surjection
<1> QED
  BY <1>2 DEF T

\* The steps a run has left, from the size of its batch and its place in a job.
LEMMA LeftOf ==
    ASSUME TypeInv, Sized, NEW w \in Worker
    PROVE  LET n == Cardinality(jobs[w])
           IN  /\ n \in Nat /\ n <= BatchLimit /\ (jobs[w] # {} => n >= 1)
               /\ StepsLeft(w) \in 0..(5 * BatchLimit + 1)
               /\ pc[w] \notin {"idle", "started"} => StepsLeft(w) >= 1
<1> DEFINE n == Cardinality(jobs[w])
<1>1. n \in Nat /\ n <= BatchLimit /\ (jobs[w] # {} => n >= 1)
  BY FS_CardinalityType, FS_EmptySet, QueueAssumption DEF Sized
<1>2. pc[w] \notin {"idle", "started"} => n >= 1
  BY <1>1 DEF Sized
<1>3. pc[w] \in Step
  BY DEF TypeInv, TypeOK
<1> HIDE DEF n
<1>4. StepsLeft(w) = IF pc[w] = "idle" THEN 0
                     ELSE IF pc[w] = "started" THEN 5 * BatchLimit + 1
                     ELSE 5 * n - Passed(pc[w])
  BY <1>3 DEF StepsLeft, n
<1>5. pc[w] \notin {"idle", "started"} => Passed(pc[w]) \in 0..4
  BY <1>3 DEF Passed, Step
<1> QED
  BY <1>1, <1>2, <1>4, <1>5, QueueAssumption DEF n

\* One job fewer: the next one, or the end of the run.
LEMMA JobDone ==
    ASSUME TypeInv, Sized, NEW w \in Worker, pc[w] \in {"cleared", "recording"}, NextJob(w)
    PROVE  /\ IsFiniteSet(jobs'[w]) /\ Cardinality(jobs'[w]) <= BatchLimit
           /\ pc'[w] \notin {"idle", "started"} => jobs'[w] # {}
           /\ StepsLeft(w)' < StepsLeft(w)
<1>0. pc \in [Worker -> Step] /\ jobs \in [Worker -> SUBSET Job] /\ job[w] \in jobs[w]
  BY DEF TypeInv, TypeOK, WorkerConsistent
<1>1. jobs'[w] = jobs[w] \ {job[w]} /\ IsFiniteSet(jobs[w])
      /\ pc'[w] = IF jobs[w] = {job[w]} THEN "idle" ELSE "working"
  BY <1>0 DEF NextJob, Continue, Sized
<1>2. IsFiniteSet(jobs'[w]) /\ Cardinality(jobs'[w]) = Cardinality(jobs[w]) - 1
  BY <1>0, <1>1, FS_RemoveElement
<1>3. Cardinality(jobs[w]) \in Nat /\ Cardinality(jobs[w]) <= BatchLimit
      /\ Cardinality(jobs[w]) >= 1
  BY <1>0, LeftOf
<1>4. StepsLeft(w) >= 5 * Cardinality(jobs[w]) - 4 /\ StepsLeft(w) \in Nat
  <2>1. StepsLeft(w) = 5 * Cardinality(jobs[w]) - Passed(pc[w])
    BY DEF StepsLeft
  <2>2. Passed(pc[w]) \in {1, 4}
    BY DEF Passed
  <2> QED
    BY <1>3, <2>1, <2>2
<1>5. StepsLeft(w)' = IF jobs[w] = {job[w]} THEN 0 ELSE 5 * (Cardinality(jobs[w]) - 1)
  BY <1>1, <1>2, <1>3 DEF StepsLeft, Passed
<1>6. pc'[w] \notin {"idle", "started"} => jobs'[w] # {}
  BY <1>0, <1>1
<1> QED
  BY <1>2, <1>3, <1>4, <1>5, <1>6, QueueAssumption

\* A step within a job.
LEMMA JobGoesOn ==
    ASSUME TypeInv, Sized, NEW w \in Worker, jobs'[w] = jobs[w],
           pc[w] \notin {"idle", "started"}, pc'[w] \notin {"idle", "started"},
           Passed(pc[w]) \in Nat, Passed(pc'[w]) \in Nat, Passed(pc[w]) < Passed(pc'[w])
    PROVE  StepsLeft(w)' < StepsLeft(w)
<1>1. Cardinality(jobs[w]) \in Nat
  BY LeftOf
<1>2. /\ StepsLeft(w) = 5 * Cardinality(jobs[w]) - Passed(pc[w])
      /\ StepsLeft(w)' = 5 * Cardinality(jobs[w]) - Passed(pc'[w])
  BY DEF StepsLeft
<1> QED
  BY <1>1, <1>2

Nearer(w) == \/ pc'[w] = pc[w] /\ jobs'[w] = jobs[w]
             \/ StepsLeft(w)' < StepsLeft(w)

LEMMA RunStep ==
    ASSUME TypeInv, Sized, IsFiniteSet(Delivery), [Next]_vars
    PROVE  /\ Sized'
           /\ \A w \in Worker : pc[w] # "idle" => Nearer(w)
<1>0. pc \in [Worker -> Step] /\ jobs \in [Worker -> SUBSET Job]
  BY DEF TypeInv, TypeOK
<1> DEFINE Fine(w) == /\ IsFiniteSet(jobs'[w]) /\ Cardinality(jobs'[w]) <= BatchLimit
                      /\ pc'[w] \notin {"idle", "started"} => jobs'[w] # {}
                      /\ pc[w] # "idle" => Nearer(w)
<1>1. ASSUME NEW w \in Worker, pc'[w] = pc[w], jobs'[w] = jobs[w] PROVE Fine(w)
  BY <1>1 DEF Sized, Nearer
<1>2. ASSUME NEW w \in Worker, BeginRun(w) PROVE Fine(w)
  BY <1>0, <1>2 DEF BeginRun, Sized
<1>3. ASSUME NEW w \in Worker, Claim(w) PROVE Fine(w)
  <2>1. PICK S \in SUBSET Due(runNow[w]) :
           /\ Cardinality(S) <= BatchLimit
           /\ jobs' = [jobs EXCEPT ![w] = {JobOf(d) : d \in S}]
           /\ Continue(w, S = {})
    BY <1>3 DEF Claim
  <2>2. IsFiniteSet(S)
    BY FS_Subset DEF Due
  <2>3. IsFiniteSet(jobs'[w]) /\ Cardinality(jobs'[w]) <= Cardinality(S)
    BY <1>0, <2>1, <2>2, BatchSize
  <2>4. Cardinality(S) \in Nat /\ Cardinality(jobs'[w]) \in Nat
    BY <2>2, <2>3, FS_CardinalityType
  <2>5. pc'[w] = (IF S = {} THEN "idle" ELSE "working") /\ (S # {} => jobs'[w] # {})
    BY <1>0, <2>1 DEF Continue
  <2>6. StepsLeft(w) = 5 * BatchLimit + 1
    BY <1>3 DEF Claim, StepsLeft
  <2>7. StepsLeft(w)' = IF S = {} THEN 0 ELSE 5 * Cardinality(jobs'[w])
    BY <2>4, <2>5 DEF StepsLeft, Passed
  <2> QED
    BY <2>1, <2>3, <2>4, <2>5, <2>6, <2>7, QueueAssumption DEF Nearer
<1>4. ASSUME NEW w \in Worker, CheckPolicy(w) \/ BeginSend(w) \/ Accepted(w) \/ Failed(w)
                               \/ Release(w)
      PROVE  Fine(w)
  <2>1. /\ jobs'[w] = jobs[w]
        /\ pc[w] \notin {"idle", "started"} /\ pc'[w] \notin {"idle", "started"}
        /\ Passed(pc[w]) \in Nat /\ Passed(pc'[w]) \in Nat /\ Passed(pc[w]) < Passed(pc'[w])
    BY <1>0, <1>4 DEF CheckPolicy, BeginSend, Accepted, Failed, Release, Passed
  <2> QED
    BY <2>1, JobGoesOn DEF Sized, Nearer
<1>5. ASSUME NEW w \in Worker, SkipJob(w) \/ Record(w) PROVE Fine(w)
  BY <1>5, JobDone DEF SkipJob, Record, Nearer
<1>6. ASSUME NEW w \in Worker, Abort(w) PROVE Fine(w)
  <2>1. pc'[w] = "idle" /\ jobs'[w] = {} /\ pc[w] # "idle"
    BY <1>0, <1>6 DEF Abort, Continue
  <2>2. StepsLeft(w)' = 0
    BY <2>1 DEF StepsLeft
  <2>3. StepsLeft(w) >= 1 /\ StepsLeft(w) \in Nat
    <3>1. pc[w] = "started" => StepsLeft(w) = 5 * BatchLimit + 1
      BY DEF StepsLeft
    <3> QED
      BY <2>1, <3>1, LeftOf, QueueAssumption
  <2> QED
    BY <2>1, <2>2, <2>3, FS_EmptySet, QueueAssumption DEF Nearer
<1>7. ASSUME NEW v \in Worker, WorkerStep(v) \/ Abort(v), NEW w \in Worker, w # v
      PROVE  pc'[w] = pc[w] /\ jobs'[w] = jobs[w]
  BY <1>0, <1>7 DEF WorkerStep, BeginRun, Claim, CheckPolicy, SkipJob, BeginSend, Accepted,
     Failed, Release, Record, Abort, NextJob, Continue
<1>8. ASSUME UNCHANGED vars \/ Tick \/ Publish \/ Owner, NEW w \in Worker
      PROVE  pc'[w] = pc[w] /\ jobs'[w] = jobs[w]
  BY <1>8 DEF vars, Tick, Publish, BeginEnqueue, CommitEnqueue, Owner, OwnerUnchanged,
     Pause, Resume, Discard, RetryDead, Block, UnblockActor, UnblockDomain, workerVars
<1> HIDE DEF Fine
<1>9. ASSUME NEW w \in Worker PROVE Fine(w)
  BY <1>1, <1>2, <1>3, <1>4, <1>5, <1>6, <1>7, <1>8 DEF Next, WorkerStep
<1> QED
  BY <1>9 DEF Fine, Sized

\* A run makes at most five steps for each of the deliveries it may claim, and
\* one: whatever peers answer, other workers take and owners do meanwhile.
THEOREM RunsAreShort ==
    ASSUME IsFiniteSet(Activity), IsFiniteSet(Inbox)
    PROVE  Spec => RunsEnd
<1>1. IsFiniteSet(Delivery)
  BY FS_Product DEF Delivery
<1>2. Init => Sized
  BY FS_EmptySet, QueueAssumption DEF Init, Sized
<1>3. TypeInv /\ Sized => \A w \in Worker : StepsLeft(w) \in 0..(5 * BatchLimit + 1)
  BY LeftOf
<1>4. TypeInv /\ Sized /\ [Next]_vars
        => [\A w \in Worker : pc[w] # "idle" =>
              \/ pc'[w] = pc[w] /\ jobs'[w] = jobs[w]
              \/ StepsLeft(w)' < StepsLeft(w)]_vars
  BY <1>1, RunStep DEF Nearer
<1>5. TypeInv /\ Sized /\ [Next]_vars => (TypeInv /\ Sized)'
  BY <1>1, RunStep, TypeStep
<1>6. QED
  BY <1>2, <1>3, <1>4, <1>5, TypeInit, PTL DEF Spec, RunsEnd

-----------------------------------------------------------------------------
(* The delivery queue implements module Outbox: initial states map to      *)
(* initial states, every step to a step of Outbox or to a stutter.         *)

OutboxNext == [Promise!Next]_Promise!vars

LEMMA OutboxInit == Init => Promise!Init
BY DEF Init, Promise!Init, OutboxState, Taken, Held, Active, ActiveStatus

\* What a delivery is to Outbox depends on its row, what is taken on batches.
LEMMA TakenKeys ==
    /\ \A d \in Delivery : d \in Taken <=> \E w \in Worker : \E j \in jobs[w] : j.key = d
    /\ (\A d \in Delivery : d \in Taken <=> \E w \in Worker : \E j \in jobs[w] : j.key = d)'
BY DEF Taken, Held

LEMMA SameJobs ==
    ASSUME jobs' = jobs
    PROVE  Taken' = Taken
BY DEF Taken, Held

LEMMA SameRows ==
    ASSUME \A d \in Delivery : row'[d].status = row[d].status
    PROVE  OutboxState' = OutboxState
BY DEF OutboxState, Active

LEMMA Stutters ==
    ASSUME jobs' = jobs, row' = row
    PROVE  OutboxNext
BY SameJobs, SameRows DEF OutboxNext, Promise!vars

\* Rows in S get status s, the others keep theirs.
LEMMA Becomes ==
    ASSUME NEW S \in SUBSET Delivery, NEW s,
           s \in {"pending", "discarded", "dead", "delivered", "retrying"},
           \A d \in S : row'[d].status = s,
           \A d \in Delivery \ S : row'[d].status = row[d].status
    PROVE  Promise!Become(S, IF s \in ActiveStatus THEN "queued" ELSE s)
BY DEF Promise!Become, OutboxState, Active, ActiveStatus

LEMMA OutboxEnqueue ==
    ASSUME QueueInv, NEW p \in Publisher, CommitEnqueue(p)
    PROVE  OutboxNext
<1> DEFINE S == NewRows(draft[p])
<1>1. S \in SUBSET Delivery /\ jobs' = jobs
  BY DEF CommitEnqueue, NewRows, workerVars
<1>2. CASE HasRoom(S)
  <2>1. \A d \in S : row[d].status = "absent" /\ row'[d].status = "pending"
    BY <1>2 DEF CommitEnqueue, NewRows
  <2>2. \A d \in Delivery \ S : row'[d] = row[d]
    BY <1>2 DEF CommitEnqueue
  <2> HIDE DEF S
  <2>3. Promise!Become(S, "queued")
    BY <1>1, <2>1, <2>2, Becomes DEF ActiveStatus
  <2>4. \A d \in S : OutboxState[d] = "absent"
    BY <1>1, <2>1 DEF OutboxState, Active, ActiveStatus
  <2>5. Promise!Post(S)
    BY <1>1, <2>3, <2>4, SameJobs DEF Promise!Post
  <2>6. QED
    BY <1>1, <2>5 DEF OutboxNext, Promise!Next
<1>3. CASE ~HasRoom(S)
  BY <1>1, <1>3, Stutters DEF CommitEnqueue
<1>4. QED
  BY <1>2, <1>3

\* A claim takes queued deliveries nobody holds, one per inbox: of two that
\* go to one inbox, the one inserted or created later is not due.
LEMMA OutboxClaim ==
    ASSUME QueueInv, SerialInv, Patience < ClaimTTL, NEW w \in Worker, Claim(w)
    PROVE  OutboxNext
<1> USE DEF QueueInv, TypeInv, TypeOK
<1>1. PICK S \in SUBSET Due(runNow[w]) :
        /\ row' = [d \in Delivery |->
                     IF d \in S THEN [row[d] EXCEPT !.due = ClaimedUntil(runNow[w])]
                     ELSE row[d]]
        /\ jobs' = [jobs EXCEPT ![w] = {JobOf(d) : d \in S}]
  BY DEF Claim
<1>2. S \in SUBSET Delivery /\ \A d \in S : Active(d) /\ d \in Due(runNow[w])
  BY DEF Due
<1>3. \A d \in Delivery : row'[d].status = row[d].status
  BY <1>1 DEF Row
<1>4. \A d \in S : OutboxState[d] = "queued"
  BY <1>2 DEF OutboxState
<1>5. ASSUME NEW d \in S PROVE d \notin Taken
  BY <1>2, DueUnheld, TakenKeys DEF Claim
<1>6. ASSUME NEW d \in S, NEW e \in S, InboxOf(d) = InboxOf(e)
      PROVE  d = e
  <2>1. ~Before(row[d], row[e]) /\ ~Before(row[e], row[d])
    BY <1>2, <1>6 DEF Due
  <2>2. /\ row[d].created \in Nat /\ row[d].serial \in Nat
        /\ row[e].created \in Nat /\ row[e].serial \in Nat
    BY <1>2 DEF Row
  <2>3. row[d].serial = row[e].serial
    BY <2>1, <2>2 DEF Before
  <2>4. QED
    BY <1>2, <1>6, <2>3 DEF SerialInv, Active, ActiveStatus
<1>7. Taken' = Taken \cup S
  <2>1. jobs[w] = {}
    BY DEF Claim, HeldInv, BatchInv
  <2>2. ASSUME NEW d \in Delivery
        PROVE  d \in Taken' <=> d \in Taken \/ d \in S
    <3>1. (\E j \in jobs'[w] : j.key = d) <=> d \in S
      <4>1. jobs'[w] = {JobOf(e) : e \in S}
        BY <1>1
      <4>2. \A e \in S : JobOf(e).key = e
        BY DEF JobOf
      <4>3. QED
        BY <4>1, <4>2
    <3>2. \A v \in Worker \ {w} : jobs'[v] = jobs[v]
      BY <1>1
    <3>3. QED
      BY <2>1, <3>1, <3>2, TakenKeys
  <2>3. QED
    BY <1>2, <2>2 DEF Taken
<1>8. Promise!Take(S)
  BY <1>3, <1>4, <1>5, <1>6, <1>7, SameRows DEF Promise!Take
<1>9. QED
  BY <1>2, <1>8 DEF OutboxNext, Promise!Next

\* A finished job leaves what is taken: no other batch holds its delivery.
LEMMA TakenWithout ==
    ASSUME QueueInv, NEW w \in Worker, job[w] \in jobs[w],
           jobs' = [jobs EXCEPT ![w] = @ \ {job[w]}]
    PROVE  Taken' = Taken \ {job[w].key} /\ job[w].key \in Taken
<1> USE DEF QueueInv, TypeInv, TypeOK
<1>1. job[w].key \in Delivery
  BY DEF Job
<1>2. ASSUME NEW d \in Delivery
      PROVE  d \in Taken' <=> d \in Taken /\ d # job[w].key
  <2>1. ASSUME NEW v \in Worker, NEW j \in jobs[v]
        PROVE  j \in jobs'[v] <=> j.key # job[w].key
    BY DEF HeldInv, BatchInv, Exclusive
  <2>2. \A v \in Worker : jobs'[v] \subseteq jobs[v]
    OBVIOUS
  <2>3. QED
    BY <2>1, <2>2, TakenKeys
<1>3. job[w].key \in Taken
  BY <1>1, TakenKeys
<1>4. QED
  BY <1>1, <1>2, <1>3 DEF Taken

LEMMA OutboxRecord ==
    ASSUME QueueInv, NEW w \in Worker, Record(w)
    PROVE  OutboxNext
<1> USE DEF QueueInv, TypeInv, TypeOK
<1>1. /\ job[w] \in jobs[w] /\ outcome[w] \in Outcome
      /\ outcome[w].status \in {"retrying", "delivered", "dead"}
  BY RecordingJob DEF Outcome
<1>2. job[w].key \in Delivery /\ OutboxState[job[w].key] \in {"queued", "discarded"}
  BY <1>1, HeldRow DEF OutboxState, Active, ActiveStatus
<1>3. Taken' = Taken \ {job[w].key} /\ job[w].key \in Taken
  BY <1>1, TakenWithout DEF Record, NextJob
<1>4. PICK s \in {"queued", "delivered", "dead"} : Promise!Become({job[w].key}, s)
  <2>1. row'[job[w].key].status = outcome[w].status
    BY <1>2 DEF Record
  <2>2. \A d \in Delivery \ {job[w].key} : row'[d].status = row[d].status
    BY DEF Record
  <2>3. QED
    BY <1>1, <1>2, <2>1, <2>2 DEF Promise!Become, OutboxState, Active, ActiveStatus
<1>5. Promise!Settle(job[w].key, s)
  BY <1>2, <1>3, <1>4 DEF Promise!Settle
<1>6. QED
  BY <1>2, <1>5 DEF OutboxNext, Promise!Next, Promise!State

LEMMA OutboxLetGo ==
    ASSUME QueueInv, NEW w \in Worker, SkipJob(w) \/ Abort(w)
    PROVE  OutboxNext
<1> USE DEF QueueInv, TypeInv, TypeOK
<1>1. row' = row
  BY DEF SkipJob, Abort, queueVars
<1>2. Taken' \subseteq Taken
  <2>1. \A v \in Worker : jobs'[v] \subseteq jobs[v]
    BY DEF SkipJob, Abort, NextJob
  <2>2. QED
    BY <2>1 DEF Taken, Held
<1>3. Promise!LetGo(Taken \ Taken')
  BY <1>1, <1>2, SameRows DEF Promise!LetGo
<1>4. Taken \ Taken' \in SUBSET Delivery
  BY DEF Taken
<1>5. QED
  BY <1>3, <1>4 DEF OutboxNext, Promise!Next

LEMMA OutboxOwner ==
    ASSUME QueueInv, Owner
    PROVE  OutboxNext
<1> USE DEF QueueInv, TypeInv, TypeOK
<1>1. jobs' = jobs
  BY DEF Owner, OwnerUnchanged, workerVars, Pause, Resume, Discard, RetryDead, Block,
         UnblockActor, UnblockDomain
<1>2. CASE Pause \/ Resume \/ \E i \in Inbox : UnblockDomain(i)
  BY <1>1, <1>2, Stutters DEF Pause, Resume, UnblockDomain
<1>3. ASSUME NEW i \in Inbox, CancelActive(i)
      PROVE  OutboxNext
  <2> DEFINE S == ActiveTo(i)
  <2>1. /\ S \in SUBSET Delivery
        /\ \A d \in S : OutboxState[d] = "queued" /\ row'[d].status = "discarded"
        /\ \A d \in Delivery \ S : row'[d].status = row[d].status
    BY <1>3 DEF CancelActive, ActiveTo, OutboxState, Row
  <2> HIDE DEF S
  <2>2. Promise!Become(S, "discarded")
    BY <2>1, Becomes DEF ActiveStatus
  <2>3. Promise!Cancel(S)
    BY <1>1, <2>1, <2>2, SameJobs DEF Promise!Cancel
  <2>4. QED
    BY <2>1, <2>3 DEF OutboxNext, Promise!Next
<1>4. ASSUME NEW d \in Delivery, Discard(d)
      PROVE  OutboxNext
  <2>1. row'[d].status = "discarded" /\ \A e \in Delivery \ {d} : row'[e] = row[e]
    BY <1>4 DEF Discard, Row
  <2>2. Promise!Become({d}, "discarded")
    BY <2>1 DEF Promise!Become, OutboxState, Active, ActiveStatus
  <2>3. OutboxState[d] \in {"queued", "dead"}
    BY <1>4 DEF Discard, OutboxState, Active, ActiveStatus
  <2>4. Promise!Cancel({d})
    BY <1>1, <2>2, <2>3, SameJobs DEF Promise!Cancel
  <2>5. QED
    BY <2>4 DEF OutboxNext, Promise!Next
<1>5. ASSUME NEW d \in Delivery, RetryDead(d)
      PROVE  OutboxNext
  <2>1. Promise!Become({d}, "queued")
    BY <1>5, Becomes DEF RetryDead, ActiveStatus
  <2>2. OutboxState[d] = "dead" /\ d \notin Taken
    BY <1>5, TakenKeys, HeldRow DEF RetryDead, Requeueable, OutboxState, Active, ActiveStatus
  <2>3. Promise!Requeue(d)
    BY <1>1, <2>1, <2>2, SameJobs DEF Promise!Requeue
  <2>4. QED
    BY <2>3 DEF OutboxNext, Promise!Next
<1>6. QED
  BY <1>2, <1>3, <1>4, <1>5 DEF Owner, Block, UnblockActor

LEMMA OutboxStep ==
    ASSUME QueueInv, SerialInv, Patience < ClaimTTL, [Next]_vars
    PROVE  OutboxNext
<1>1. CASE UNCHANGED vars \/ Tick \/ \E p \in Publisher : BeginEnqueue(p)
  BY <1>1, Stutters DEF vars, Tick, BeginEnqueue, queueVars, workerVars
<1>2. ASSUME NEW w \in Worker, WorkerStep(w), ~Claim(w), ~SkipJob(w), ~Record(w)
      PROVE  OutboxNext
  BY <1>2, Stutters DEF WorkerStep, BeginRun, CheckPolicy, BeginSend, Accepted, Failed,
                        Release, queueVars
<1>3. QED
  BY <1>1, <1>2, OutboxEnqueue, OutboxClaim, OutboxRecord, OutboxLetGo, OutboxOwner
     DEF Next, Publish, WorkerStep

\* The queue implements the outbox: whoever relies on module Outbox needs to
\* know nothing of rows, claims, leases, backoff and circuits.
THEOREM ImplementsOutbox ==
    ASSUME Patience < ClaimTTL
    PROVE  Spec => KeepsPromise
<1>1. Init => SerialInv
  BY DEF Init, SerialInv
<1>2. QueueInv /\ [Next]_vars => QueueInv'
  BY QueueInvStep
<1>3. QueueInv /\ SerialInv /\ [Next]_vars => [Promise!Next]_Promise!vars
  BY OutboxStep DEF OutboxNext
<1>4. QED
  BY <1>1, <1>2, <1>3, OutboxInit, QueueInvInit, SerialStep, PTL
     DEF Spec, KeepsPromise, Promise!Spec

\* A cancelled delivery can come back only through a run that had it in its
\* batch when it was cancelled (or when a dead letter was discarded).
THEOREM CancelledIsOut ==
    ASSUME Patience < ClaimTTL
    PROVE  Spec => OutForGood
<1>1. ASSUME QueueInv, [Next]_vars, NEW d \in Delivery,
             row[d].status = "discarded", d \notin Taken
      PROVE  row'[d] = row[d] /\ d \notin Taken'
  <2>1. ASSUME NEW w \in Worker PROVE ~Recorded(d, w)
    BY <1>1, <2>1, RecordingJob DEF Recorded, Taken, Held
  <2>2. row'[d] = row[d]
    BY <1>1, <2>1, RowStep
       DEF Cancelled, Requeued, Inserted, NewRows, Claimed, Due, Active, ActiveStatus
  <2>3. ASSUME NEW w \in Worker, NEW j \in jobs'[w] PROVE j.key # d
    <3>1. CASE j \in jobs[w]
      BY <1>1, <3>1 DEF Taken, Held
    <3>2. CASE j.key \in Due(runNow[w])
      BY <1>1, <3>2 DEF Due, Active, ActiveStatus
    <3>3. QED
      BY <1>1, <3>1, <3>2, JobStep
  <2>4. QED
    BY <2>2, <2>3 DEF Taken, Held
<1>2. QueueInv /\ [Next]_vars
        => [\A d \in Delivery : row[d].status = "discarded" /\ d \notin Taken =>
              row'[d] = row[d] /\ d \notin Taken']_vars
  BY <1>1
<1>3. QueueInv /\ [Next]_vars => QueueInv'
  BY QueueInvStep
<1>4. QED
  BY <1>2, <1>3, QueueInvInit, PTL DEF Spec, OutForGood

-----------------------------------------------------------------------------
(* The delivery queue implements module Channel, as long as publishers do  *)
(* not overtake each other between their stamp and their commit.           *)

OnePublisher == \A p, q \in Publisher : p = q

Present(d) == row[d].status # "absent"

\* What was enqueued earlier was created no later, and no later than what is
\* being enqueued; leaving aside what the owner cancelled or requeued.
TurnInv ==
    /\ \A d \in overridden : Present(d)
    /\ \A p \in Publisher : draft[p] # None => draft[p].created <= clock
    /\ \A d \in Delivery \ overridden : Present(d) =>
          /\ row[d].created <= clock
          /\ \A p \in Publisher : draft[p] # None => row[d].created <= draft[p].created
    /\ \A d, e \in Delivery \ overridden :
          Present(d) /\ Present(e) /\ row[d].serial < row[e].serial
          => row[d].created <= row[e].created

\* A worker that has a success to record was answered.
HeardInv ==
    \A w \in Worker :
        pc[w] \in {"answered", "recording"} /\ outcome[w].status = "delivered"
        => accepted[job[w].key] > 0

LEMMA LineInit == Init => TurnInv /\ HeardInv
BY DEF Init, TurnInv, HeardInv

\* A row that is there and that the owner left alone was inserted, or keeps
\* its place and its creation instant.
LEMMA TurnRow ==
    ASSUME QueueInv, [Next]_vars, NEW d \in Delivery \ overridden', Present(d)'
    PROVE  /\ d \notin overridden
           /\ \/ \E p \in Publisher : Inserted(d, p)
              \/ /\ Present(d)
                 /\ row'[d].created = row[d].created /\ row'[d].serial = row[d].serial
<1>1. d \notin overridden
  BY OverriddenStep
<1>2. row[d] \in Row
  BY DEF QueueInv, TypeInv, TypeOK
<1>3. ~Cancelled(d) /\ ~Requeued(d)
  BY DEF Cancelled, Requeued
<1>4. ASSUME NEW w \in Worker, Claimed(d, w) \/ Recorded(d, w)
      PROVE  /\ Present(d)
             /\ row'[d].created = row[d].created /\ row'[d].serial = row[d].serial
  <2>1. CASE Claimed(d, w)
    BY <1>2, <2>1 DEF Claimed, Due, Active, ActiveStatus, Present, Row
  <2>2. CASE Recorded(d, w)
    BY <2>2, RecordingJob, HeldRow DEF Recorded, Active, ActiveStatus, Present
  <2>3. QED
    BY <1>4, <2>1, <2>2
<1>5. CASE row'[d] = row[d]
  BY <1>1, <1>5 DEF Present
<1>6. QED
  BY <1>1, <1>3, <1>4, <1>5, RowStep

\* What an enqueue has in hand was begun before, or is stamped now.
LEMMA DraftStep ==
    ASSUME QueueInv, [Next]_vars, NEW p \in Publisher, draft'[p] # None
    PROVE  \/ draft'[p] = draft[p]
           \/ draft'[p].created = clock /\ clock' = clock /\ row' = row
<1> USE DEF QueueInv, TypeInv, TypeOK
<1>1. ASSUME NEW q \in Publisher, BeginEnqueue(q)
      PROVE  draft'[p] = draft[p] \/ (draft'[p].created = clock /\ clock' = clock /\ row' = row)
  <2>1. clock' = clock /\ row' = row
    BY <1>1 DEF BeginEnqueue, queueVars
  <2>2. PICK a \in Activity, S \in SUBSET Inbox :
          draft' = [draft EXCEPT ![q] = [activity |-> a, inboxes |-> S, created |-> clock]]
    BY <1>1 DEF BeginEnqueue
  <2>3. QED
    BY <2>1, <2>2
<1>2. ASSUME NEW q \in Publisher, CommitEnqueue(q)
      PROVE  draft'[p] = draft[p]
  BY <1>2 DEF CommitEnqueue
<1>3. CASE UNCHANGED vars \/ Tick \/ Owner
  BY <1>3 DEF vars, Tick, Owner, OwnerUnchanged, Pause, Resume, Discard, RetryDead, Block,
              UnblockActor, UnblockDomain
<1>4. ASSUME NEW w \in Worker, WorkerStep(w) \/ Abort(w)
      PROVE  draft' = draft
  BY <1>4 DEF WorkerStep, BeginRun, Claim, CheckPolicy, SkipJob, BeginSend, Accepted,
              Failed, Release, Record, Abort
<1>5. QED
  BY <1>1, <1>2, <1>3, <1>4 DEF Next, Publish

\* Only what is queued or dead is cancelled or requeued.
LEMMA OverrideRow ==
    ASSUME QueueInv, [Next]_vars, NEW d \in overridden' \ overridden
    PROVE  d \in Delivery /\ Owner /\ (Cancelled(d) \/ Requeued(d))
<1> USE DEF QueueInv, TypeInv, TypeOK
<1>1. CASE UNCHANGED vars \/ Tick \/ Publish
  BY <1>1 DEF vars, Tick, Publish, BeginEnqueue, CommitEnqueue
<1>2. ASSUME NEW w \in Worker, WorkerStep(w) \/ Abort(w)
      PROVE  overridden' = overridden
  BY <1>2 DEF WorkerStep, BeginRun, Claim, CheckPolicy, SkipJob, BeginSend, Accepted,
              Failed, Release, Record, Abort
<1>3. Owner
  BY <1>1, <1>2 DEF Next
<1>4. ASSUME NEW i \in Inbox, CancelActive(i)
      PROVE  d \in Delivery /\ Cancelled(d)
  BY <1>4 DEF CancelActive, ActiveTo, Active, ActiveStatus, Cancelled
<1>5. ASSUME NEW e \in Delivery, Discard(e)
      PROVE  d \in Delivery /\ Cancelled(d)
  BY <1>5 DEF Discard, Cancelled
<1>6. ASSUME NEW e \in Delivery, RetryDead(e)
      PROVE  d \in Delivery /\ Requeued(d)
  BY <1>6 DEF RetryDead, Requeueable, Requeued
<1>7. QED
  BY <1>3, <1>4, <1>5, <1>6 DEF Owner, Pause, Resume, Block, UnblockActor, UnblockDomain

LEMMA OverrideLeaves ==
    ASSUME QueueInv, NEW d \in Delivery, Cancelled(d) \/ Requeued(d)
    PROVE  Present(d) /\ Present(d)'
<1>1. row[d] \in Row
  BY DEF QueueInv, TypeInv, TypeOK
<1>2. CASE Cancelled(d)
  BY <1>1, <1>2 DEF Cancelled, Present, Row
<1>3. CASE Requeued(d)
  BY <1>3 DEF Requeued, Present
<1>4. QED
  BY <1>2, <1>3

LEMMA TurnStep ==
    ASSUME QueueInv, SerialInv, TurnInv, OnePublisher, [Next]_vars
    PROVE  TurnInv'
<1> USE DEF QueueInv, TypeInv, TypeOK
<1>1. clock \in Nat /\ clock' \in Nat /\ clock <= clock'
  BY ClockStep
<1>2. \A d \in Delivery : /\ row[d].created \in Nat /\ row[d].serial \in Nat
                          /\ row[d] \in Row
  BY DEF Row
<1>3. ASSUME NEW p \in Publisher, draft[p] # None PROVE draft[p].created \in Nat
  BY <1>3 DEF Draft
<1>4. ASSUME NEW p \in Publisher, NEW d \in Delivery, Inserted(d, p)
      PROVE  /\ draft[p] # None /\ row'[d].created = draft[p].created
             /\ row'[d].serial = nextSerial
             /\ \A q \in Publisher : draft'[q] = None
             /\ clock' = clock
  <2>1. draft[p] # None /\ row'[d].created = draft[p].created
    BY <1>4 DEF Inserted, CommitEnqueue
  <2>2. draft'[p] = None /\ clock' = clock /\ row'[d].serial = nextSerial
    BY <1>4 DEF Inserted, CommitEnqueue
  <2>3. QED
    BY <2>1, <2>2 DEF OnePublisher
<1>5. ASSUME NEW d \in overridden' PROVE Present(d)'
  <2>1. d \in Delivery
    BY TypeStep
  <2>2. CASE d \in overridden
    <3>1. Present(d)
      BY <2>2 DEF TurnInv
    <3>2. CASE row'[d] = row[d]
      BY <3>1, <3>2 DEF Present
    <3>3. CASE Cancelled(d) \/ Requeued(d)
      BY <2>1, <3>3, OverrideLeaves
    <3>4. ASSUME NEW p \in Publisher, Inserted(d, p) PROVE Present(d)'
      BY <3>4 DEF Inserted, Present
    <3>5. ASSUME NEW w \in Worker, Claimed(d, w) \/ Recorded(d, w) PROVE Present(d)'
      BY <2>1, <3>1, <3>5, <1>2, RecordingJob
         DEF Claimed, Recorded, Present, Row, Outcome
    <3>6. QED
      BY <2>1, <3>2, <3>3, <3>4, <3>5, RowStep
  <2>3. CASE d \notin overridden
    BY <2>1, <2>3, OverrideRow, OverrideLeaves
  <2>4. QED
    BY <2>2, <2>3
<1>6. ASSUME NEW p \in Publisher, draft'[p] # None
      PROVE  draft'[p].created <= clock'
  BY <1>1, <1>3, <1>6, DraftStep DEF TurnInv
<1>7. ASSUME NEW d \in Delivery \ overridden', Present(d)'
      PROVE  row'[d].created <= clock'
  <2>1. CASE \E p \in Publisher : Inserted(d, p)
    BY <1>3, <1>4, <2>1 DEF TurnInv
  <2>2. CASE Present(d) /\ d \notin overridden /\ row'[d].created = row[d].created
    BY <1>1, <1>2, <2>2 DEF TurnInv
  <2>3. QED
    BY <1>7, <2>1, <2>2, TurnRow
<1>8. ASSUME NEW d \in Delivery \ overridden', Present(d)', NEW p \in Publisher,
             draft'[p] # None
      PROVE  row'[d].created <= draft'[p].created
  <2>1. CASE \E q \in Publisher : Inserted(d, q)
    BY <1>4, <1>8, <2>1
  <2>2. CASE Present(d) /\ d \notin overridden /\ row'[d].created = row[d].created
    BY <1>2, <1>8, <2>2, DraftStep DEF TurnInv
  <2>3. QED
    BY <1>8, <2>1, <2>2, TurnRow
<1>9. ASSUME NEW d \in Delivery \ overridden', NEW e \in Delivery \ overridden',
             Present(d)', Present(e)', row'[d].serial < row'[e].serial
      PROVE  row'[d].created <= row'[e].created
  <2>1. CASE /\ Present(d) /\ d \notin overridden
             /\ row'[d].created = row[d].created /\ row'[d].serial = row[d].serial
    <3>1. CASE \E p \in Publisher : Inserted(e, p)
      BY <1>2, <1>4, <2>1, <3>1 DEF TurnInv
    <3>2. CASE /\ Present(e) /\ e \notin overridden
               /\ row'[e].created = row[e].created /\ row'[e].serial = row[e].serial
      BY <1>2, <1>9, <2>1, <3>2 DEF TurnInv
    <3>3. QED
      BY <1>9, <3>1, <3>2, TurnRow
  <2>2. CASE \E p \in Publisher : Inserted(d, p)
    <3>1. PICK p \in Publisher : Inserted(d, p)
      BY <2>2
    <3>2. ASSUME NEW q \in Publisher, Inserted(e, q) PROVE FALSE
      BY <1>4, <1>9, <3>1, <3>2
    <3>3. Present(e) /\ row'[e].serial = row[e].serial
      BY <1>9, <3>2, TurnRow
    <3>4. row[e].serial < nextSerial /\ row'[d].serial = nextSerial
      BY <1>4, <3>1, <3>3 DEF SerialInv, Present
    <3>5. QED
      BY <1>2, <1>9, <3>3, <3>4
  <2>3. QED
    BY <1>9, <2>1, <2>2, TurnRow
<1>10. QED
  BY <1>5, <1>6, <1>7, <1>8, <1>9 DEF TurnInv

\* Only an answer that accepts makes a success to record.
LEMMA HeardStep ==
    ASSUME QueueInv, HeardInv, [Next]_vars
    PROVE  HeardInv'
<1> USE DEF QueueInv, TypeInv, TypeOK
<1>1. \A d \in Delivery : accepted[d] \in Nat /\ accepted[d] <= accepted'[d]
  <2>1. ASSUME NEW w \in Worker, WorkerStep(w) \/ Abort(w)
        PROVE  accepted' = accepted \/ accepted' = [accepted EXCEPT ![job[w].key] = @ + 1]
    BY <2>1 DEF WorkerStep, BeginRun, Claim, CheckPolicy, SkipJob, BeginSend, Accepted,
                Failed, Release, Record, Abort
  <2>2. CASE UNCHANGED vars \/ Tick \/ Publish \/ Owner
    BY <2>2 DEF vars, Tick, Publish, BeginEnqueue, CommitEnqueue, Owner, OwnerUnchanged,
        Pause, Resume, Discard, RetryDead, Block, UnblockActor, UnblockDomain
  <2>3. QED
    BY <2>1, <2>2 DEF Next
<1>2. SUFFICES ASSUME NEW w \in Worker, pc'[w] \in {"answered", "recording"},
                      outcome'[w].status = "delivered"
               PROVE  accepted'[job'[w].key] > 0
  BY DEF HeardInv
<1>3. CASE UNCHANGED <<pc[w], outcome[w], job[w]>>
  <2>1. job[w].key \in Delivery
    BY <1>2, <1>3 DEF WorkerConsistent, Job
  <2>2. PICK k \in Delivery : k = job[w].key /\ k = job'[w].key
    BY <1>3, <2>1
  <2>3. accepted[k] > 0
    BY <1>2, <1>3, <2>2 DEF HeardInv
  <2>4. accepted[k] \in Nat /\ accepted'[k] \in Nat /\ accepted[k] <= accepted'[k]
    BY <1>1, TypeStep
  <2>5. accepted'[k] > 0
    BY <2>3, <2>4
  <2>6. QED
    BY <2>2, <2>5
<1>4. CASE UNCHANGED vars \/ Tick \/ Publish \/ Owner
  BY <1>3, <1>4 DEF vars, workerVars, Tick, Publish, BeginEnqueue, CommitEnqueue, Owner,
      OwnerUnchanged, Pause, Resume, Discard, RetryDead, Block, UnblockActor, UnblockDomain
<1>5. ASSUME NEW v \in Worker, v # w, WorkerStep(v) \/ Abort(v)
      PROVE  UNCHANGED <<pc[w], outcome[w], job[w]>>
  BY <1>5 DEF WorkerStep, BeginRun, Claim, CheckPolicy, SkipJob, BeginSend, Accepted,
              Failed, Release, Record, Abort, NextJob, Continue
<1>6. CASE CheckPolicy(w)
  BY <1>2, <1>6 DEF CheckPolicy, Blocked
<1>7. CASE Accepted(w)
  <2>1. job[w].key \in Delivery /\ job' = job
    BY <1>7 DEF Accepted, WorkerConsistent, Job
  <2>2. accepted'[job[w].key] = accepted[job[w].key] + 1
    BY <1>7, <2>1 DEF Accepted
  <2>3. QED
    BY <1>1, <2>1, <2>2
<1>8. CASE Failed(w)
  <2>1. job[w] \in Job /\ runNow[w] \in Nat
    BY <1>8 DEF Failed, WorkerConsistent
  <2>2. PICK retryable \in BOOLEAN, asked \in RetryAfters :
          outcome'[w] = Failure(runNow[w], job[w].created, job[w].attempts, retryable, asked)
    BY <1>8 DEF Failed
  <2>3. asked \in Nat /\ job[w].created \in Nat /\ job[w].attempts \in Nat
    BY <2>1, QueueAssumption DEF Job
  <2>4. outcome'[w].status # "delivered"
    BY <2>2 DEF Failure, DeadOutcome, RetryOutcome
  <2>5. QED
    BY <1>2, <2>4
<1>9. CASE Release(w)
  <2>1. job[w].key \in Delivery
    BY <1>9 DEF Release, WorkerConsistent, Job
  <2>2. QED
    BY <1>1, <1>2, <1>9, <2>1 DEF Release, HeardInv
<1>10. CASE BeginRun(w) \/ Claim(w) \/ SkipJob(w) \/ BeginSend(w) \/ Record(w) \/ Abort(w)
  BY <1>2, <1>10 DEF BeginRun, Claim, SkipJob, BeginSend, Record, Abort, NextJob, Continue
<1>11. QED
  BY <1>3, <1>4, <1>5, <1>6, <1>7, <1>8, <1>9, <1>10 DEF Next, WorkerStep

LineNext == [Line!Next]_Line!vars

\* A claim, a scheduled retry or a change to astray deliveries moves nothing
\* in any line.
LEMMA LineStutters ==
    ASSUME accepted' = accepted, overridden' = overridden,
           \A d \in Delivery :
              /\ row'[d].serial = row[d].serial
              /\ \/ d \in overridden \/ row'[d].status = row[d].status
                 \/ Active(d) /\ Active(d)'
    PROVE  LineNext
<1>1. FateOf' = FateOf
  BY DEF FateOf, Active
<1>2. PlaceOf' = PlaceOf
  BY DEF PlaceOf
<1>3. QED
  BY <1>1, <1>2 DEF LineNext, Line!vars

\* What a worker holds is the first of its line, unless it is astray.
LEMMA HeldFirst ==
    ASSUME QueueInv, CopyInv, OrderInv, TurnInv,
           NEW w \in Worker, NEW j \in jobs[w], j.key \notin overridden
    PROVE  Line!First(j.key)
<1>1. /\ j \in Job /\ j.key \in Delivery /\ row[j.key] \in Row /\ Active(j.key)
      /\ j.created = row[j.key].created /\ j.serial = row[j.key].serial
  BY HeldRow DEF OrderInv, CopyInv
<1>2. ASSUME NEW e \in Delivery, FateOf[e] = "waiting", InboxOf(e) = InboxOf(j.key)
      PROVE  row[j.key].serial <= row[e].serial
  <2>1. row[e] \in Row
    BY DEF QueueInv, TypeInv, TypeOK
  <2>2. e \notin overridden /\ Active(e)
    BY <1>2, <2>1 DEF FateOf, Row, Status
  <2>3. CASE row[e].serial < row[j.key].serial
    <3>1. row[e].created <= row[j.key].created
      BY <1>1, <2>2, <2>3 DEF TurnInv, Present, Active, ActiveStatus
    <3>2. Before(row[e], j)
      BY <1>1, <2>1, <2>3, <3>1 DEF Before, Row
    <3>3. QED
      BY <1>1, <1>2, <2>2, <2>3, <3>2 DEF OrderInv
  <2>4. QED
    BY <1>1, <2>1, <2>3 DEF Row
<1>3. FateOf[j.key] = "waiting"
  BY <1>1 DEF FateOf
<1>4. QED
  BY <1>1, <1>2, <1>3 DEF Line!First, PlaceOf

LEMMA LineEnqueue ==
    ASSUME QueueInv, SerialInv, TurnInv, [Next]_vars, NEW p \in Publisher, CommitEnqueue(p)
    PROVE  LineNext
<1> DEFINE S == NewRows(draft[p])
<1>1. CASE ~HasRoom(S)
  BY <1>1, LineStutters DEF CommitEnqueue
<1>2. CASE HasRoom(S)
  <2>1. /\ S \in SUBSET Delivery /\ accepted' = accepted /\ overridden' = overridden
        /\ \A d \in S : row[d].status = "absent" /\ d \notin overridden
    BY DEF CommitEnqueue, NewRows, TurnInv, Present
  <2>2. \A d \in S : row'[d].status = "pending" /\ row'[d].serial = nextSerial
    BY <1>2 DEF CommitEnqueue, NewRows
  <2>3. \A d \in Delivery \ S : row'[d] = row[d]
    BY <1>2 DEF CommitEnqueue
  <2>4. \A d, e \in S : InboxOf(d) = InboxOf(e) => d = e
    BY DEF NewRows, InboxOf, Delivery
  <2>5. \A d \in Delivery : row'[d].serial \in Nat
    BY TypeStep DEF QueueInv, TypeInv, TypeOK, Row
  <2> HIDE DEF S
  <2>6. \A d \in S : FateOf[d] = "absent"
    BY <2>1 DEF FateOf, Active, ActiveStatus
  <2>7. Line!Become(S, "waiting")
    <3>1. ASSUME NEW d \in Delivery
          PROVE  FateOf'[d] = IF d \in S THEN "waiting" ELSE FateOf[d]
      BY <2>1, <2>2, <2>3 DEF FateOf, Active, ActiveStatus
    <3>2. FateOf' = [d \in Delivery |-> FateOf'[d]]
      BY DEF FateOf
    <3>3. QED
      BY <3>1, <3>2 DEF Line!Become
  <2>8. PlaceOf' \in [Delivery -> Nat] /\ \A e \in Delivery \ S : PlaceOf'[e] = PlaceOf[e]
    BY <2>3, <2>5 DEF PlaceOf
  <2>9. ASSUME NEW d \in S, NEW e \in Delivery, FateOf[e] # "absent"
        PROVE  PlaceOf[e] < PlaceOf'[d]
    <3>1. Present(e)
      BY <2>9 DEF FateOf, TurnInv, Present, Active, ActiveStatus
    <3>2. PlaceOf[e] < nextSerial
      BY <3>1 DEF PlaceOf, SerialInv, Present
    <3>3. QED
      BY <2>1, <2>2, <3>2 DEF PlaceOf
  <2>10. Line!Join(S)
    BY <2>1, <2>4, <2>6, <2>7, <2>8, <2>9 DEF Line!Join
  <2>11. QED
    BY <2>1, <2>10 DEF LineNext, Line!Next
<1>3. QED
  BY <1>1, <1>2

LEMMA LineAccepted ==
    ASSUME QueueInv, CopyInv, OrderInv, TurnInv, NEW w \in Worker, Accepted(w)
    PROVE  LineNext
<1>0. job[w] \in jobs[w]
  BY DEF Accepted, QueueInv, TypeInv, WorkerConsistent
<1>1. job[w] \in jobs[w] /\ job[w].key \in Delivery
  BY <1>0, HeldRow
<1>2. FateOf' = FateOf /\ PlaceOf' = PlaceOf
  BY DEF Accepted, queueVars, FateOf, PlaceOf, Active
<1>3. Line!First(job[w].key) \/ FateOf[job[w].key] = "astray"
  BY <1>1, HeldFirst DEF FateOf
<1>4. Line!Hear(job[w].key)
  BY <1>2, <1>3 DEF Line!Hear, Accepted
<1>5. QED
  BY <1>1, <1>4 DEF LineNext, Line!Next

LEMMA LineRecord ==
    ASSUME QueueInv, CopyInv, OrderInv, TurnInv, HeardInv, NEW w \in Worker, Record(w)
    PROVE  LineNext
<1>0. job[w].key \in Delivery
  BY RecordingJob, HeldRow
<1> PICK d \in Delivery : d = job[w].key
  BY <1>0
<1>1. /\ job[w] \in jobs[w] /\ d \in Delivery /\ outcome[w] \in Outcome
      /\ outcome[w].status \in {"retrying", "delivered", "dead"}
      /\ Active(d) \/ row[d].status = "discarded"
  BY RecordingJob, HeldRow DEF Outcome
<1>2. /\ row'[d].status = outcome[w].status /\ row'[d].serial = row[d].serial
      /\ \A e \in Delivery \ {d} : row'[e] = row[e]
      /\ accepted' = accepted /\ overridden' = overridden
  BY <1>1 DEF Record, QueueInv, TypeInv, TypeOK
<1>3. pc[w] = "recording"
  BY DEF Record
<1>4. CASE d \in overridden
  BY <1>2, <1>4, LineStutters
<1>5. CASE d \notin overridden
  <2>1. Line!First(d) /\ Active(d)
    BY <1>1, <1>5, HeldFirst DEF OrderInv
  <2>2. CASE outcome[w].status = "retrying"
    <3>1. Active(d)'
      BY <1>2, <2>2 DEF Active, ActiveStatus
    <3>2. QED
      BY <1>2, <2>1, <3>1, LineStutters
  <2>3. PlaceOf' = PlaceOf
    BY <1>2 DEF PlaceOf
  <2>4. ASSUME outcome[w].status \in {"delivered", "dead"}
        PROVE  Line!Become({d}, outcome[w].status)
    <3>1. ASSUME NEW e \in Delivery
          PROVE  FateOf'[e] = IF e = d THEN outcome[w].status ELSE FateOf[e]
      BY <1>2, <1>5, <2>4 DEF FateOf, Active, ActiveStatus
    <3>2. FateOf' = [e \in Delivery |-> FateOf'[e]]
      BY DEF FateOf
    <3>3. QED
      BY <3>1, <3>2 DEF Line!Become
  <2>5. CASE outcome[w].status = "delivered"
    <3>1. accepted[d] > 0
      BY <1>3, <2>5 DEF HeardInv
    <3>2. Line!Delivered(d)
      BY <1>2, <2>1, <2>3, <2>4, <2>5, <3>1 DEF Line!Delivered
    <3>3. QED
      BY <1>1, <3>2 DEF LineNext, Line!Next
  <2>6. CASE outcome[w].status = "dead"
    <3>1. Line!GivenUp(d)
      BY <1>2, <2>1, <2>3, <2>4, <2>6 DEF Line!GivenUp
    <3>2. QED
      BY <1>1, <3>1 DEF LineNext, Line!Next
  <2>7. QED
    BY <1>1, <2>2, <2>5, <2>6
<1>6. QED
  BY <1>4, <1>5

\* The owner changes the rows of deliveries that are overridden from then on,
\* and no others.
LEMMA OwnerRows ==
    ASSUME QueueInv, Owner
    PROVE  /\ accepted' = accepted
           /\ \A d \in Delivery : /\ row'[d].serial = row[d].serial
                                  /\ d \in overridden' \/ row'[d] = row[d]
<1>1. \A d \in Delivery : row[d] \in Row
  BY DEF QueueInv, TypeInv, TypeOK
<1>2. row \in [Delivery -> Row]
  BY DEF QueueInv, TypeInv, TypeOK
<1>3. QED
  BY <1>1, <1>2 DEF Owner, OwnerUnchanged, Pause, Resume, Discard, RetryDead, Block,
                    UnblockActor, UnblockDomain, CancelActive, Row

LEMMA LineOwner ==
    ASSUME QueueInv, [Next]_vars, Owner
    PROVE  LineNext
<1> DEFINE S == overridden' \ overridden
<1>1. overridden \subseteq overridden'
  BY OverriddenStep
<1>2. PlaceOf' = PlaceOf /\ accepted' = accepted
  BY OwnerRows DEF PlaceOf
<1>3. S \in SUBSET Delivery /\ \A d \in S : FateOf[d] \in {"waiting", "dead"}
  BY OverrideRow DEF Cancelled, Requeued, FateOf, Active, ActiveStatus
<1>4. Line!Become(S, "astray")
  <2>1. ASSUME NEW d \in Delivery
        PROVE  FateOf'[d] = IF d \in S THEN "astray" ELSE FateOf[d]
    BY <1>1, OwnerRows DEF FateOf, Active
  <2>2. FateOf' = [d \in Delivery |-> FateOf'[d]]
    BY DEF FateOf
  <2>3. QED
    BY <2>1, <2>2 DEF Line!Become
<1>5. Line!Divert(S)
  BY <1>2, <1>3, <1>4 DEF Line!Divert
<1>6. QED
  BY <1>3, <1>5 DEF LineNext, Line!Next

LEMMA LineStep ==
    ASSUME QueueInv, CopyInv, SerialInv, OrderInv, TurnInv, HeardInv, [Next]_vars
    PROVE  LineNext
<1>1. CASE UNCHANGED <<row, accepted, overridden>>
  BY <1>1, LineStutters
<1>2. CASE UNCHANGED vars \/ Tick \/ \E p \in Publisher : BeginEnqueue(p)
  BY <1>1, <1>2 DEF vars, Tick, BeginEnqueue, queueVars
<1>3. ASSUME NEW w \in Worker, Claim(w)
      PROVE  LineNext
  <2>1. \A d \in Delivery : row'[d].serial = row[d].serial /\ row'[d].status = row[d].status
    BY <1>3 DEF Claim, QueueInv, TypeInv, TypeOK, Row
  <2>2. QED
    BY <1>3, <2>1, LineStutters DEF Claim
<1>4. ASSUME NEW w \in Worker, WorkerStep(w) \/ Abort(w),
             ~Claim(w), ~Accepted(w), ~Record(w)
      PROVE  LineNext
  BY <1>1, <1>4 DEF WorkerStep, BeginRun, CheckPolicy, SkipJob, BeginSend, Failed, Release,
                    Abort, queueVars
<1>5. QED
  BY <1>2, <1>3, <1>4, LineEnqueue, LineAccepted, LineRecord, LineOwner
     DEF Next, Publish, WorkerStep

\* With one publishing process the queue implements the channel: what its
\* peers are told is told in the order of publication, whatever fails, is
\* retried or is interrupted.
THEOREM ImplementsChannel ==
    ASSUME Patience < ClaimTTL, OnePublisher
    PROVE  Spec => KeepsTurns
<1>1. Init => Line!Init
  BY DEF Init, Line!Init, FateOf, PlaceOf, Active, ActiveStatus
<1>2. Init => SerialInv /\ OrderInv
  BY DEF Init, SerialInv, OrderInv, Active, ActiveStatus
<1>3. QueueInv /\ [Next]_vars => QueueInv'
  BY QueueInvStep
<1>4. QueueInv /\ SerialInv /\ TurnInv /\ [Next]_vars => TurnInv'
  BY TurnStep
<1>5. /\ QueueInv /\ CopyInv /\ SerialInv /\ OrderInv /\ TurnInv /\ HeardInv
      /\ [Next]_vars
      => [Line!Next]_Line!vars
  BY LineStep DEF LineNext
<1>6. QED
  BY <1>1, <1>2, <1>3, <1>4, <1>5, LineInit, QueueInvInit, CopyInit, CopyStep, SerialStep,
     OrderStep, HeardStep, PTL DEF Spec, KeepsTurns, Line!Spec
=============================================================================
