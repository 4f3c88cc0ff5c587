------------------------ MODULE DeliveryQueueProofs ------------------------
(***************************************************************************)
(* Theorems about DeliveryQueue, for every set of workers, publishers,     *)
(* activities and inboxes and every value of the bounds.                   *)
(***************************************************************************)
EXTENDS DeliveryQueue, TLAPS

-----------------------------------------------------------------------------
(* The retry schedule.                                                     *)

\* The wait before an attempt is a positive duration.
LEMMA DelayPositive ==
    ASSUME NEW n \in Nat \ {0}
    PROVE  Delay(n) \in Nat \ {0}
<1>1. Sooner(n, Len(Backoff)) \in 1..Len(Backoff)
  BY ScheduleAssumption DEF Sooner
<1>2. QED
  BY <1>1, ScheduleAssumption DEF Delay

\* A failed attempt at a delivery that has life left is tried again strictly
\* later than the run that failed, and never past the end of its life.
LEMMA NextAttemptBounds ==
    ASSUME NEW now \in Nat, NEW created \in Nat, NEW n \in Nat \ {0}, NEW asked \in Nat,
           now < Deadline(created)
    PROVE  /\ NextAttempt(now, created, n, asked) \in Nat
           /\ now < NextAttempt(now, created, n, asked)
           /\ NextAttempt(now, created, n, asked) <= Deadline(created)
<1> DEFINE wait == Later(Delay(n), RequestedDelay(asked))
<1>1. wait \in Nat \ {0}
  BY DelayPositive, ScheduleAssumption DEF Later, RequestedDelay, Sooner
<1>2. Deadline(created) \in Nat
  BY ScheduleAssumption DEF Deadline
<1>3. NextAttempt(now, created, n, asked) = Sooner(now + wait, Deadline(created))
  BY DEF NextAttempt
<1> HIDE DEF wait
<1>4. QED
  BY <1>1, <1>2, <1>3 DEF Sooner

\* The outcome of an attempt is well formed, and a delivery that is queued
\* again is due within its life.
LEMMA FailureOutcome ==
    ASSUME NEW now \in Nat, NEW created \in Nat, NEW tried \in Nat,
           NEW retryable \in BOOLEAN, NEW asked \in Nat
    PROVE  LET o == Failure(now, created, tried, retryable, asked)
           IN /\ o \in Outcome
              /\ o.status \in {"retrying", "dead"}
              /\ o.status = "retrying" => o.due <= Deadline(created)
<1>1. CASE GivenUp(now, created, retryable)
  BY <1>1 DEF Failure, DeadOutcome, Outcome
<1>2. CASE ~GivenUp(now, created, retryable)
  <2> DEFINE next == NextAttempt(now, created, tried + 1, asked)
  <2>1. now < Deadline(created)
    BY <1>2, ScheduleAssumption DEF GivenUp, Deadline
  <2>2. next \in Nat /\ next <= Deadline(created)
    BY <2>1, NextAttemptBounds
  <2> HIDE DEF next
  <2>3. Failure(now, created, tried, retryable, asked) = RetryOutcome(next, tried + 1)
    BY <1>2 DEF Failure, next
  <2>4. QED
    BY <2>2, <2>3, ScheduleAssumption DEF RetryOutcome, Outcome
<1>3. QED
  BY <1>1, <1>2

LEMMA SuccessOutcome ==
    ASSUME NEW now \in Nat, NEW tried \in Nat
    PROVE  Success(now, tried) \in Outcome /\ Success(now, tried).status = "delivered"
BY DEF Success, Outcome

-----------------------------------------------------------------------------
(* Types.                                                                  *)

\* What a worker's program counter says of its current job and its result.
WorkerConsistent ==
    \A w \in Worker :
        /\ pc[w] \in {"cleared", "sending", "answered", "recording"} => job[w] \in jobs[w]
        /\ pc[w] \in {"answered", "recording"} => outcome[w] \in Outcome

TypeInv == TypeOK /\ WorkerConsistent

LEMMA InboxOfDelivery == \A d \in Delivery : InboxOf(d) \in Inbox
BY DEF Delivery, InboxOf

LEMMA JobOfType ==
    ASSUME NEW d \in Delivery, row \in [Delivery -> Row]
    PROVE  JobOf(d) \in Job
BY DEF JobOf, Job, Row

LEMMA BlockedOutcome ==
    ASSUME NEW j \in Job
    PROVE  Blocked(j, j.attempts + 1) \in Outcome
BY DEF Blocked, Outcome, Job

LEMMA TypeInit == Init => TypeInv
<1> SUFFICES ASSUME Init PROVE TypeInv
  OBVIOUS
<1>1. row \in [Delivery -> Row]
  BY DEF Init, Row, Status
<1>2. TypeOK
  BY <1>1 DEF Init, TypeOK, Step
<1>3. WorkerConsistent
  BY DEF Init, WorkerConsistent
<1>4. QED
  BY <1>2, <1>3 DEF TypeInv

\* The publisher's two steps.
LEMMA TypePublish ==
    ASSUME TypeInv, Publish
    PROVE  TypeInv'
<1> PICK p \in Publisher : BeginEnqueue(p) \/ CommitEnqueue(p)
  BY DEF Publish
<1>1. CASE BeginEnqueue(p)
  <2>1. draft' \in [Publisher -> Draft \cup {None}]
    BY <1>1 DEF BeginEnqueue, TypeInv, TypeOK, Draft
  <2>2. QED
    BY <1>1, <2>1 DEF BeginEnqueue, TypeInv, TypeOK, WorkerConsistent,
                      policyVars, queueVars, workerVars
<1>2. CASE CommitEnqueue(p)
  <2>1. draft[p] \in Draft
    BY <1>2 DEF CommitEnqueue, TypeInv, TypeOK
  <2>2. nextSerial' \in Nat /\ row' \in [Delivery -> Row]
    BY <1>2, <2>1 DEF CommitEnqueue, TypeInv, TypeOK, Draft, Row, Status
  <2>3. draft' \in [Publisher -> Draft \cup {None}]
    BY <1>2 DEF CommitEnqueue, TypeInv, TypeOK
  <2>4. QED
    BY <1>2, <2>2, <2>3 DEF CommitEnqueue, TypeInv, TypeOK, WorkerConsistent,
                            policyVars, workerVars
<1>3. QED
  BY <1>1, <1>2

\* The owner's operations.
LEMMA TypeOwner ==
    ASSUME TypeInv, Owner
    PROVE  TypeInv'
<1> USE DEF TypeInv, TypeOK, WorkerConsistent, OwnerUnchanged, policyVars, workerVars
<1>1. CASE Pause \/ Resume
  BY <1>1 DEF Pause, Resume
<1>2. ASSUME NEW d \in Delivery, Discard(d) PROVE TypeInv'
  BY <1>2 DEF Discard, Row, Status
<1>3. ASSUME NEW d \in Delivery, RetryDead(d) PROVE TypeInv'
  BY <1>3, InboxOfDelivery DEF RetryDead, Row, Status
<1>4. ASSUME NEW i \in Inbox, CancelActive(i)
      PROVE  row' \in [Delivery -> Row] /\ overridden' \in SUBSET Delivery
  BY <1>4 DEF CancelActive, ActiveTo, Row, Status
<1>5. ASSUME NEW i \in Inbox, Block(i) \/ UnblockActor(i) PROVE TypeInv'
  BY <1>4, <1>5 DEF Block, UnblockActor
<1>6. ASSUME NEW i \in Inbox, UnblockDomain(i) PROVE TypeInv'
  BY <1>6 DEF UnblockDomain
<1>7. QED
  BY <1>1, <1>2, <1>3, <1>5, <1>6 DEF Owner

\* The worker's steps.  A new value of job[w] with its record of jobs[w] is
\* what every step but the last ones of a job relies on.
LEMMA TypeWorker ==
    ASSUME TypeInv, NEW w \in Worker, WorkerStep(w)
    PROVE  TypeInv'
<1> USE DEF policyVars
<1>1. CASE BeginRun(w)
  BY <1>1 DEF BeginRun, TypeInv, TypeOK, WorkerConsistent, Step, queueVars
<1>2. CASE Claim(w)
  <2>1. PICK S \in SUBSET Due(runNow[w]) :
          /\ row' = [d \in Delivery |->
                       IF d \in S THEN [row[d] EXCEPT !.due = ClaimedUntil(runNow[w])]
                       ELSE row[d]]
          /\ jobs' = [jobs EXCEPT ![w] = {JobOf(d) : d \in S}]
          /\ Continue(w, S = {})
    BY <1>2 DEF Claim
  <2>2. row \in [Delivery -> Row] /\ ClaimedUntil(runNow[w]) \in Nat /\ S \subseteq Delivery
    BY QueueAssumption DEF TypeInv, TypeOK, ClaimedUntil, Due
  <2>3. row' \in [Delivery -> Row]
    BY <2>1, <2>2 DEF Row
  <2>4. jobs' \in [Worker -> SUBSET Job]
    BY <2>1, <2>2, JobOfType DEF TypeInv, TypeOK
  <2>5. /\ pc' = [pc EXCEPT ![w] = IF S = {} THEN "idle" ELSE "working"]
        /\ runNow' = [runNow EXCEPT ![w] = IF S = {} THEN 0 ELSE @]
    BY <2>1 DEF Continue
  <2>6. QED
    BY <1>2, <2>1, <2>3, <2>4, <2>5 DEF Claim, TypeInv, TypeOK, WorkerConsistent, Step
<1>3. CASE CheckPolicy(w)
  <2>1. PICK j \in jobs[w] :
          /\ job' = [job EXCEPT ![w] = j]
          /\ \/ /\ outcome' = [outcome EXCEPT ![w] = Blocked(j, j.attempts + 1)]
                /\ pc' = [pc EXCEPT ![w] = "recording"]
             \/ /\ pc' = [pc EXCEPT ![w] = "cleared"]
                /\ UNCHANGED outcome
    BY <1>3 DEF CheckPolicy
  <2>2. j \in Job /\ Blocked(j, j.attempts + 1) \in Outcome
    BY BlockedOutcome DEF TypeInv, TypeOK
  <2>3. QED
    BY <1>3, <2>1, <2>2 DEF CheckPolicy, TypeInv, TypeOK, WorkerConsistent, Step, queueVars
<1>4. CASE SkipJob(w)
  <2>1. leases' \in SUBSET Lease
    BY <1>4 DEF SkipJob, LiveLeases, TypeInv, TypeOK
  <2>2. TypeOK'
    BY <1>4, <2>1 DEF SkipJob, NextJob, Continue, TypeInv, TypeOK, Step, queueVars
  <2>3. WorkerConsistent'
    BY <1>4 DEF SkipJob, NextJob, Continue, TypeInv, TypeOK, WorkerConsistent
  <2>4. QED
    BY <2>2, <2>3 DEF TypeInv
<1>5. CASE BeginSend(w)
  <2>1. job[w] \in Job
    BY <1>5 DEF BeginSend, TypeInv, TypeOK, WorkerConsistent
  <2>2. leases' \in SUBSET Lease
    <3>1. [holder |-> w, inbox |-> InboxOf(job[w].key), expires |-> clock + LeaseTTL] \in Lease
      BY <2>1, InboxOfDelivery, QueueAssumption DEF Lease, Job, TypeInv, TypeOK
    <3>2. QED
      BY <1>5, <3>1 DEF BeginSend, LiveLeases, TypeInv, TypeOK
  <2>3. QED
    BY <1>5, <2>2 DEF BeginSend, TypeInv, TypeOK, WorkerConsistent, Step, queueVars
<1>6. CASE Accepted(w)
  <2>1. job[w] \in Job /\ runNow[w] \in Nat
    BY <1>6 DEF Accepted, TypeInv, TypeOK, WorkerConsistent
  <2>2. Success(runNow[w], job[w].attempts) \in Outcome /\ job[w].key \in Delivery
    BY <2>1, SuccessOutcome DEF Job
  <2>3. QED
    BY <1>6, <2>2 DEF Accepted, TypeInv, TypeOK, WorkerConsistent, Step, queueVars
<1>7. CASE Failed(w)
  <2>1. job[w] \in Job /\ runNow[w] \in Nat
    BY <1>7 DEF Failed, TypeInv, TypeOK, WorkerConsistent
  <2>2. PICK o \in Outcome : outcome' = [outcome EXCEPT ![w] = o]
    BY <1>7, <2>1, FailureOutcome, QueueAssumption DEF Failed, Job
  <2>3. QED
    BY <1>7, <2>2 DEF Failed, TypeInv, TypeOK, WorkerConsistent, Step, queueVars
<1>8. CASE Release(w)
  BY <1>8 DEF Release, TypeInv, TypeOK, WorkerConsistent, Step, queueVars
<1>9. CASE Record(w)
  <2> DEFINE d == job[w].key
  <2>1. d \in Delivery /\ outcome[w] \in Outcome
    BY <1>9 DEF Record, TypeInv, TypeOK, WorkerConsistent, Job
  <2>2. row' \in [Delivery -> Row]
    BY <1>9, <2>1 DEF Record, TypeInv, TypeOK, Row, Outcome, Status
  <2>3. circuit' \in [Inbox -> Nat]
    <3>1. ASSUME NEW old \in Nat PROVE CircuitAfter(outcome[w], old) \in Nat
      BY <2>1 DEF CircuitAfter, Outcome
    <3>2. QED
      BY <1>9, <2>1, <3>1, InboxOfDelivery DEF Record, TypeInv, TypeOK
  <2>4. TypeOK'
    BY <1>9, <2>2, <2>3 DEF Record, NextJob, Continue, TypeInv, TypeOK, Step
  <2>5. WorkerConsistent'
    BY <1>9 DEF Record, NextJob, Continue, TypeInv, TypeOK, WorkerConsistent
  <2>6. QED
    BY <2>4, <2>5 DEF TypeInv
<1>10. QED
  BY <1>1, <1>2, <1>3, <1>4, <1>5, <1>6, <1>7, <1>8, <1>9 DEF WorkerStep

LEMMA TypeAbort ==
    ASSUME TypeInv, NEW w \in Worker, Abort(w)
    PROVE  TypeInv'
<1>1. leases' \in SUBSET Lease
  BY DEF Abort, TypeInv, TypeOK
<1>2. TypeOK'
  BY <1>1 DEF Abort, Continue, TypeInv, TypeOK, Step, policyVars, queueVars
<1>3. WorkerConsistent'
  BY DEF Abort, Continue, TypeInv, TypeOK, WorkerConsistent
<1>4. QED
  BY <1>2, <1>3 DEF TypeInv

LEMMA TypeStep ==
    ASSUME TypeInv, [Next]_vars
    PROVE  TypeInv'
<1>1. CASE Tick
  BY <1>1 DEF Tick, TypeInv, TypeOK, WorkerConsistent, policyVars, queueVars, workerVars
<1>2. CASE UNCHANGED vars
  BY <1>2 DEF vars, TypeInv, TypeOK, WorkerConsistent, policyVars, queueVars, workerVars
<1>3. QED
  BY <1>1, <1>2, TypePublish, TypeOwner, TypeWorker, TypeAbort DEF Next

\* Types are kept by every step, whatever the constants: in particular every
\* recorded result is one the deliveries table accepts.
THEOREM TypeCorrect == Spec => []TypeOK
<1>1. TypeInv => TypeOK
  BY DEF TypeInv
<1>2. QED
  BY TypeInit, TypeStep, <1>1, PTL DEF Spec

-----------------------------------------------------------------------------
(* Leases.                                                                 *)

LeaseGrowth ==
    \/ LiveLeases' \subseteq LiveLeases
    \/ \E l : /\ LiveLeases' \subseteq LiveLeases \cup {l}
              /\ \A m \in LiveLeases : m.inbox # l.inbox

\* A step adds at most one live lease, to an inbox that has none.
LEMMA LeaseStep ==
    ASSUME TypeInv, Next
    PROVE  LeaseGrowth
<1> USE DEF LeaseGrowth
<1>1. clock \in Nat /\ leases \in SUBSET Lease
  BY DEF TypeInv, TypeOK
<1>2. CASE clock' = clock /\ leases' \subseteq leases
  BY <1>2 DEF LiveLeases
<1>3. CASE Tick
  BY <1>1, <1>3 DEF Tick, LiveLeases, Lease
<1>4. CASE Publish \/ Owner
  BY <1>2, <1>4 DEF Publish, BeginEnqueue, CommitEnqueue, Owner, OwnerUnchanged, Pause,
                    Resume, Discard, RetryDead, Block, UnblockActor, UnblockDomain
<1>5. ASSUME NEW w \in Worker, WorkerStep(w)
      PROVE  LeaseGrowth
  <2>1. CASE BeginSend(w)
    <3> DEFINE l == [holder |-> w, inbox |-> InboxOf(job[w].key),
                     expires |-> clock + LeaseTTL]
    <3>1. leases' = LiveLeases \cup {l} /\ clock' = clock
      BY <2>1 DEF BeginSend
    <3>2. \A m \in LiveLeases : m.inbox # l.inbox
      BY <2>1 DEF BeginSend, MayLease
    <3>3. LiveLeases' \subseteq LiveLeases \cup {l}
      BY <3>1 DEF LiveLeases
    <3>4. QED
      BY <3>2, <3>3
  <2>2. CASE ~BeginSend(w)
    <3>1. clock' = clock /\ leases' \subseteq leases
      BY <1>5, <2>2 DEF WorkerStep, BeginRun, Claim, CheckPolicy, SkipJob, LiveLeases,
                        Accepted, Failed, Release, Record
    <3>2. QED
      BY <1>2, <3>1
  <2>3. QED
    BY <2>1, <2>2
<1>6. ASSUME NEW w \in Worker, Abort(w)
      PROVE  LeaseGrowth
  BY <1>2, <1>6 DEF Abort
<1>7. QED
  BY <1>3, <1>4, <1>5, <1>6 DEF Next

\* However many processes deliver, and whatever the owner cancels meanwhile,
\* one inbox has at most one unexpired lease.
THEOREM SerialSends == Spec => []InboxSendsSerial
<1>1. Init => InboxSendsSerial
  BY DEF Init, InboxSendsSerial, LiveLeases
<1>2. TypeInv /\ InboxSendsSerial /\ [Next]_vars => InboxSendsSerial'
  <2>1. CASE UNCHANGED vars
    BY <2>1 DEF vars, InboxSendsSerial, LiveLeases
  <2>2. CASE Next
    BY <2>2, LeaseStep DEF LeaseGrowth, InboxSendsSerial
  <2>3. QED
    BY <2>1, <2>2
<1>3. QED
  BY <1>1, <1>2, TypeInit, TypeStep, PTL DEF Spec

-----------------------------------------------------------------------------
(* Claims.  ClaimExclusive is not inductive: a second run stays away from  *)
(* a held delivery because the claim postponed its row, and because the    *)
(* run that holds it started less than ClaimTTL ago.                       *)

\* A run holds jobs only while it works on them, one per delivery.
BatchInv ==
    \A w \in Worker :
        /\ pc[w] \in {"idle", "started"} => jobs[w] = {}
        /\ \A j, k \in jobs[w] : j.key = k.key => j = k

\* No run outlives Patience.
RunInv ==
    \A w \in Worker :
        pc[w] # "idle" => runNow[w] <= clock /\ clock <= runNow[w] + Patience

\* A held delivery is queued and postponed, or was discarded meanwhile.
Postponed(w, d) ==
    \/ row[d].status = "discarded"
    \/ Active(d) /\ row[d].due >= runNow[w] + ClaimTTL

Exclusive ==
    \A v, w \in Worker : v # w =>
        \A j \in jobs[v], k \in jobs[w] : j.key # k.key

HeldInv ==
    /\ BatchInv
    /\ RunInv
    /\ \A w \in Worker : \A j \in jobs[w] : Postponed(w, j.key)
    /\ Exclusive

LEMMA HeldInit == Init => HeldInv
BY DEF Init, HeldInv, BatchInv, RunInv, Postponed, Exclusive

\* No run that is under way holds what another run finds due.
LEMMA DueUnheld ==
    ASSUME TypeInv, HeldInv, Patience < ClaimTTL, NEW w \in Worker, pc[w] = "started",
           NEW v \in Worker, NEW j \in jobs[v]
    PROVE  j.key \notin Due(runNow[w])
<1>1. pc[v] # "idle" /\ Postponed(v, j.key)
  BY DEF HeldInv, BatchInv
<1>2. runNow[w] <= clock /\ clock <= runNow[v] + Patience
  BY <1>1 DEF HeldInv, RunInv
<1>3. /\ runNow[w] \in Nat /\ runNow[v] \in Nat /\ clock \in Nat
      /\ j.key \in Delivery /\ row[j.key].due \in Nat
  BY DEF TypeInv, TypeOK, Job, Row
<1>4. CASE row[j.key].status = "discarded"
  BY <1>4 DEF Due, Active, ActiveStatus
<1>5. CASE row[j.key].due >= runNow[v] + ClaimTTL
  BY <1>2, <1>3, <1>5, QueueAssumption DEF Due
<1>6. QED
  BY <1>1, <1>4, <1>5 DEF Postponed

\* A step that leaves the runs and their batches alone keeps HeldInv as long
\* as it leaves held rows queued and postponed, or discards them.
LEMMA HeldElsewhere ==
    ASSUME HeldInv, UNCHANGED <<clock, pc, runNow, jobs>>,
           \A w \in Worker : \A j \in jobs[w] :
               row'[j.key] = row[j.key] \/ row'[j.key].status = "discarded"
    PROVE  HeldInv'
<1>1. BatchInv' /\ RunInv' /\ Exclusive'
  BY DEF HeldInv, BatchInv, RunInv, Exclusive
<1>2. ASSUME NEW w \in Worker, NEW j \in jobs[w]
      PROVE  Postponed(w, j.key)'
  BY DEF HeldInv, Postponed, Active
<1>3. QED
  BY <1>1, <1>2 DEF HeldInv

LEMMA HeldPublish ==
    ASSUME TypeInv, HeldInv, Publish
    PROVE  HeldInv'
<1> PICK p \in Publisher : BeginEnqueue(p) \/ CommitEnqueue(p)
  BY DEF Publish
<1>1. ASSUME NEW w \in Worker, NEW j \in jobs[w]
      PROVE  row'[j.key] = row[j.key]
  <2>1. j.key \in Delivery /\ row[j.key].status # "absent"
    BY DEF TypeInv, TypeOK, Job, HeldInv, Postponed, Active, ActiveStatus
  <2>2. QED
    BY <2>1 DEF BeginEnqueue, CommitEnqueue, queueVars, NewRows
<1>2. UNCHANGED <<clock, pc, runNow, jobs>>
  BY DEF BeginEnqueue, CommitEnqueue, workerVars
<1>3. QED
  BY <1>1, <1>2, HeldElsewhere

LEMMA HeldOwner ==
    ASSUME TypeInv, HeldInv, Owner
    PROVE  HeldInv'
<1>1. ASSUME NEW w \in Worker, NEW j \in jobs[w]
      PROVE  row'[j.key] = row[j.key] \/ row'[j.key].status = "discarded"
  <2>1. /\ j.key \in Delivery /\ row[j.key].status # "dead"
        /\ row \in [Delivery -> Row]
    BY DEF TypeInv, TypeOK, Job, HeldInv, Postponed, Active, ActiveStatus
  <2>2. ASSUME NEW i \in Inbox, CancelActive(i)
        PROVE  row'[j.key] = row[j.key] \/ row'[j.key].status = "discarded"
    BY <2>1, <2>2 DEF CancelActive, Row
  <2>3. ASSUME NEW d \in Delivery, Discard(d)
        PROVE  row'[j.key] = row[j.key] \/ row'[j.key].status = "discarded"
    BY <2>1, <2>3 DEF Discard, Row
  <2>4. ASSUME NEW d \in Delivery, RetryDead(d)
        PROVE  row'[j.key] = row[j.key]
    BY <2>1, <2>4 DEF RetryDead, Requeueable
  <2>5. QED
    BY <2>2, <2>3, <2>4 DEF Owner, Pause, Resume, Block, UnblockActor, UnblockDomain
<1>2. UNCHANGED <<clock, pc, runNow, jobs>>
  BY DEF Owner, OwnerUnchanged, workerVars, Pause, Resume, Discard, RetryDead, Block,
         UnblockActor, UnblockDomain
<1>3. QED
  BY <1>1, <1>2, HeldElsewhere

\* A worker that lets go of jobs, all of them when its run ends, keeps HeldInv
\* as long as the rows of what is still held do not change.
LEMMA HeldLess ==
    ASSUME TypeInv, HeldInv, NEW w \in Worker,
           NEW left \in SUBSET jobs[w], NEW next \in Step,
           jobs' = [jobs EXCEPT ![w] = left],
           next \in {"idle", "started"} => left = {},
           next # "idle" => pc[w] # "idle",
           pc' = [pc EXCEPT ![w] = next],
           runNow' = [runNow EXCEPT ![w] = IF next = "idle" THEN 0 ELSE @],
           clock' = clock,
           \A v \in Worker : \A j \in jobs'[v] : row'[j.key] = row[j.key]
    PROVE  HeldInv'
<1> USE DEF TypeInv, TypeOK
<1>1. \A v \in Worker : jobs'[v] \subseteq jobs[v]
  OBVIOUS
<1>2. BatchInv'
  BY <1>1 DEF HeldInv, BatchInv
<1>3. RunInv'
  BY DEF HeldInv, RunInv
<1>4. ASSUME NEW v \in Worker, NEW j \in jobs'[v]
      PROVE  Postponed(v, j.key)'
  <2>1. row'[j.key] = row[j.key] /\ Postponed(v, j.key)
    BY <1>1, <1>4 DEF HeldInv
  <2>2. runNow'[v] = runNow[v]
    BY <1>4
  <2>3. QED
    BY <2>1, <2>2 DEF Postponed, Active
<1>5. Exclusive'
  BY <1>1 DEF HeldInv, Exclusive
<1>6. QED
  BY <1>2, <1>3, <1>4, <1>5 DEF HeldInv

LEMMA HeldClaim ==
    ASSUME TypeInv, HeldInv, Patience < ClaimTTL, NEW w \in Worker, Claim(w)
    PROVE  HeldInv'
<1> USE DEF TypeInv, TypeOK
<1>1. PICK S \in SUBSET Due(runNow[w]) :
        /\ row' = [d \in Delivery |->
                     IF d \in S THEN [row[d] EXCEPT !.due = ClaimedUntil(runNow[w])]
                     ELSE row[d]]
        /\ jobs' = [jobs EXCEPT ![w] = {JobOf(d) : d \in S}]
        /\ Continue(w, S = {})
  BY DEF Claim
<1>2. /\ pc[w] = "started" /\ jobs[w] = {} /\ clock' = clock
      /\ \A d \in S : d \in Delivery /\ Active(d) /\ row[d] \in Row
  BY DEF Claim, HeldInv, BatchInv, Due
<1>3. /\ pc' = [pc EXCEPT ![w] = IF S = {} THEN "idle" ELSE "working"]
      /\ runNow' = [runNow EXCEPT ![w] = IF S = {} THEN 0 ELSE @]
  BY <1>1 DEF Continue
<1>4. \A v \in Worker \ {w} : jobs'[v] = jobs[v] /\ runNow'[v] = runNow[v] /\ pc'[v] = pc[v]
  BY <1>1, <1>3
<1>5. ASSUME NEW j \in jobs'[w]
      PROVE  /\ j.key \in S /\ j = JobOf(j.key)
  BY <1>1 DEF JobOf
<1>6. ASSUME NEW v \in Worker, NEW j \in jobs[v]
      PROVE  j.key \notin S
  BY <1>1, <1>2, DueUnheld
<1>7. BatchInv'
  BY <1>1, <1>3, <1>4, <1>5 DEF HeldInv, BatchInv
<1>8. RunInv'
  BY <1>2, <1>3, <1>4 DEF HeldInv, RunInv
<1>9. ASSUME NEW v \in Worker, NEW j \in jobs'[v]
      PROVE  Postponed(v, j.key)'
  <2>1. CASE v = w
    <3>1. S # {} /\ runNow'[w] = runNow[w]
      BY <1>3, <1>5, <2>1
    <3>2. row'[j.key] = [row[j.key] EXCEPT !.due = ClaimedUntil(runNow[w])]
      BY <1>1, <1>2, <1>5, <2>1
    <3>3. Active(j.key)' /\ row'[j.key].due = runNow[w] + ClaimTTL
      BY <1>2, <1>5, <2>1, <3>2 DEF Active, ClaimedUntil, Row
    <3>4. QED
      BY <2>1, <3>1, <3>3, QueueAssumption DEF Postponed
  <2>2. CASE v # w
    <3>1. row'[j.key] = row[j.key] /\ Postponed(v, j.key) /\ runNow'[v] = runNow[v]
      BY <1>1, <1>4, <1>6, <1>9, <2>2 DEF HeldInv, Job
    <3>2. QED
      BY <3>1 DEF Postponed, Active
  <2>3. QED
    BY <2>1, <2>2
<1>10. Exclusive'
  BY <1>4, <1>5, <1>6 DEF HeldInv, Exclusive
<1>11. QED
  BY <1>7, <1>8, <1>9, <1>10 DEF HeldInv

LEMMA HeldWorker ==
    ASSUME TypeInv, HeldInv, Patience < ClaimTTL, NEW w \in Worker, WorkerStep(w)
    PROVE  HeldInv'
<1> USE DEF TypeInv, TypeOK
<1>1. CASE BeginRun(w)
  <2>1. BatchInv' /\ Exclusive'
    BY <1>1 DEF BeginRun, HeldInv, BatchInv, Exclusive
  <2>2. RunInv'
    BY <1>1, QueueAssumption DEF BeginRun, HeldInv, RunInv
  <2>3. ASSUME NEW v \in Worker, NEW j \in jobs'[v]
        PROVE  Postponed(v, j.key)'
    BY <1>1, <2>3 DEF BeginRun, HeldInv, BatchInv, Postponed, Active, queueVars
  <2>4. QED
    BY <2>1, <2>2, <2>3 DEF HeldInv
<1>2. CASE Claim(w)
  BY <1>2, HeldClaim
<1>3. CASE CheckPolicy(w) \/ BeginSend(w) \/ Accepted(w) \/ Failed(w) \/ Release(w)
  <2>1. PICK next \in {"cleared", "recording", "sending", "answered"} :
          pc' = [pc EXCEPT ![w] = next]
    BY <1>3 DEF CheckPolicy, BeginSend, Accepted, Failed, Release
  <2>2. pc[w] # "idle" /\ UNCHANGED <<clock, row, runNow, jobs>>
    BY <1>3 DEF CheckPolicy, BeginSend, Accepted, Failed, Release, queueVars
  <2>3. /\ jobs' = [jobs EXCEPT ![w] = jobs[w]]
        /\ runNow' = [runNow EXCEPT ![w] = IF next = "idle" THEN 0 ELSE @]
    BY <2>1, <2>2
  <2>4. next \in Step
    BY <2>1 DEF Step
  <2>5. QED
    BY <2>1, <2>2, <2>3, <2>4, HeldLess
<1>4. CASE SkipJob(w)
  BY <1>4, HeldLess DEF SkipJob, NextJob, Continue, Step, queueVars
<1>5. CASE Record(w)
  <2>1. job[w] \in jobs[w] /\ UNCHANGED clock
    BY <1>5 DEF Record, WorkerConsistent
  <2>2. \A v \in Worker : \A j \in jobs'[v] : j.key # job[w].key /\ row'[j.key] = row[j.key]
    <3> SUFFICES ASSUME NEW v \in Worker, NEW j \in jobs'[v]
                 PROVE  j.key # job[w].key /\ row'[j.key] = row[j.key]
      OBVIOUS
    <3>1. j \in jobs[v] /\ (v = w => j # job[w])
      BY <1>5 DEF Record, NextJob
    <3>2. j.key # job[w].key
      BY <2>1, <3>1 DEF HeldInv, BatchInv, Exclusive
    <3>3. QED
      BY <1>5, <3>2 DEF Record
  <2> DEFINE next == IF jobs[w] = {job[w]} THEN "idle" ELSE "working"
             left == jobs[w] \ {job[w]}
  <2>3. /\ jobs' = [jobs EXCEPT ![w] = left]
        /\ pc' = [pc EXCEPT ![w] = next]
        /\ runNow' = [runNow EXCEPT ![w] = IF next = "idle" THEN 0 ELSE @]
        /\ pc[w] # "idle"
    BY <1>5 DEF Record, NextJob, Continue
  <2>4. next \in Step /\ (next \in {"idle", "started"} => left = {})
    BY DEF Step
  <2> HIDE DEF next, left
  <2>5. left \in SUBSET jobs[w]
    BY DEF left
  <2>6. QED
    BY <2>1, <2>2, <2>3, <2>4, <2>5, HeldLess
<1>6. QED
  BY <1>1, <1>2, <1>3, <1>4, <1>5 DEF WorkerStep

LEMMA HeldStep ==
    ASSUME TypeInv, HeldInv, Patience < ClaimTTL, [Next]_vars
    PROVE  HeldInv'
<1>1. CASE UNCHANGED vars
  BY <1>1, HeldElsewhere DEF vars, queueVars, workerVars
<1>2. CASE Tick
  <2>1. BatchInv' /\ Exclusive' /\ UNCHANGED <<row, runNow, pc, jobs>>
    BY <1>2 DEF Tick, HeldInv, BatchInv, Exclusive, queueVars, workerVars
  <2>2. RunInv'
    BY <1>2, QueueAssumption DEF Tick, HeldInv, RunInv, TypeInv, TypeOK, workerVars
  <2>3. QED
    BY <2>1, <2>2 DEF HeldInv, Postponed, Active
<1>3. ASSUME NEW w \in Worker, Abort(w)
      PROVE  HeldInv'
  BY <1>3, HeldLess DEF Abort, Continue, Step, queueVars, TypeInv, TypeOK
<1>4. QED
  BY <1>1, <1>2, <1>3, HeldPublish, HeldOwner, HeldWorker DEF Next

\* As long as no run lasts as long as a claim, a delivery is in one batch at a
\* time, for any number of workers, publishers, inboxes and interruptions.
THEOREM ExclusiveClaims ==
    ASSUME Patience < ClaimTTL
    PROVE  Spec => []ClaimExclusive
<1>1. TypeInv /\ HeldInv /\ [Next]_vars => HeldInv'
  BY HeldStep
<1>2. HeldInv => ClaimExclusive
  BY DEF HeldInv, Exclusive, ClaimExclusive, Held
<1>3. QED
  BY HeldInit, TypeInit, TypeStep, <1>1, <1>2, PTL DEF Spec
=============================================================================
