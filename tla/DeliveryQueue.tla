--------------------------- MODULE DeliveryQueue ---------------------------
(***************************************************************************)
(* The durable outbound queue: DeliveryService and DeliveryWorker of       *)
(* delivery.py over the deliveries, delivery_peers and federation_leases   *)
(* tables of store.py.                                                     *)
(*                                                                         *)
(* Every store method is one database transaction, hence one atomic step.  *)
(* What a service or a worker does between two store calls is what can     *)
(* interleave with the web process, with other `chirp-space deliver`       *)
(* processes and with the owner, so each actor below advances from one     *)
(* store call (or one POST) to the next.                                   *)
(***************************************************************************)
EXTENDS RetrySchedule, FiniteSets

CONSTANTS
    Activity, Inbox,   \* activity identifiers, destination inboxes
    Worker,            \* concurrent run_once loops
    Publisher,         \* concurrent DeliveryService.enqueue calls
    None,              \* the absent value
    MaxActive,         \* max_active_deliveries, 10 000
    BatchLimit,        \* MAX_DELIVERIES_PER_RUN, 16
    ClaimTTL,          \* due_delivery_jobs postpones what it returns: 5 minutes
    LeaseTTL,          \* LEASE_TTL of safety.py, 30 seconds
    OutboundGlobal,    \* the outbound-global budget, 16
    RetryAfters,       \* the Retry-After values peers send, 0 for none
    Patience,          \* the longest a run lasts; below ClaimTTL for a prompt worker
    MaxTime,           \* bound on the clock
    Horizon,           \* publishers, owner and failures act before this instant
    OwnerOps,          \* the owner's operations exercised: a bound as well
    MaxAborts          \* bound on interrupted runs

ASSUME QueueAssumption ==
    /\ MaxActive \in Nat /\ BatchLimit \in Nat /\ OutboundGlobal \in Nat
    /\ ClaimTTL \in Nat \ {0} /\ LeaseTTL \in Nat \ {0}
    /\ RetryAfters \subseteq Nat
    /\ OwnerOps \subseteq {"pause", "discard", "retry", "block"}
    /\ Patience \in Nat /\ MaxTime \in Nat /\ Horizon \in Nat /\ MaxAborts \in Nat

\* UNIQUE(activity_id, inbox_url): a delivery is an activity for an inbox.
Delivery == Activity \X Inbox
InboxOf(d) == d[2]

Status == {"absent", "pending", "retrying", "delivered", "dead", "discarded"}
ActiveStatus == {"pending", "retrying"}

\* serial is the order of insertion: the UUIDv7 row identifier that breaks ties.
Row == [status : Status, attempts : Nat, due : Nat, created : Nat, serial : Nat]
Job == [key : Delivery, attempts : Nat, due : Nat, created : Nat, serial : Nat]
Lease == [holder : Worker, inbox : Inbox, expires : Nat]
Draft == [activity : Activity, inboxes : SUBSET Inbox, created : Nat]
Step == {"idle", "started", "working", "cleared", "sending", "answered", "recording"}

VARIABLES
    clock,           \* wall clock, shared by every process
    outboundPaused,  \* federation_controls.outbound_paused
    blocked,         \* inboxes that local policy blocks
    row,             \* deliveries
    nextSerial,      \* the next row identifier
    circuit,         \* delivery_peers.circuit_open_until, 0 for NULL
    leases,          \* federation_leases of the outbound scopes
    draft,           \* what an enqueue call has stamped and not committed
    pc, runNow,      \* a worker's next step, and the `now` its run began with
    jobs, job,       \* what its run claimed and has not finished, the current one
    outcome,         \* the result it has not recorded
    accepted,        \* history: 2xx answers per delivery
    overridden,      \* history: deliveries the owner cancelled or requeued
    aborts           \* history: interrupted runs

queueVars  == <<row, nextSerial, circuit>>
policyVars == <<outboundPaused, blocked>>
workerVars == <<pc, runNow, jobs, job, outcome>>
vars == <<clock, policyVars, queueVars, leases, draft, workerVars,
          accepted, overridden, aborts>>

Active(d) == row[d].status \in ActiveStatus

\* created_at first, row identifier second: the creation order of deliveries.
Before(a, b) == \/ a.created < b.created
                \/ a.created = b.created /\ a.serial < b.serial

Init ==
    /\ clock = 0
    /\ outboundPaused = FALSE
    /\ blocked = {}
    /\ row = [d \in Delivery |-> [status |-> "absent", attempts |-> 0, due |-> 0,
                                  created |-> 0, serial |-> 0]]
    /\ nextSerial = 1
    /\ circuit = [i \in Inbox |-> 0]
    /\ leases = {}
    /\ draft = [p \in Publisher |-> None]
    /\ pc = [w \in Worker |-> "idle"]
    /\ runNow = [w \in Worker |-> 0]
    /\ jobs = [w \in Worker |-> {}]
    /\ job = [w \in Worker |-> None]
    /\ outcome = [w \in Worker |-> None]
    /\ accepted = [d \in Delivery |-> 0]
    /\ overridden = {}
    /\ aborts = 0

-----------------------------------------------------------------------------
(* Publishing: DeliveryService.enqueue, then the store's transaction.      *)

NewRows(f) == {d \in Delivery : /\ d[1] = f.activity /\ InboxOf(d) \in f.inboxes
                                /\ row[d].status = "absent"}

\* The pause is read and created_at stamped before the transaction begins.
\* Enqueuing what is queued already changes nothing and is left out.
BeginEnqueue(p) ==
    /\ clock < Horizon
    /\ draft[p] = None
    /\ ~outboundPaused
    /\ \E a \in Activity, S \in SUBSET Inbox :
          LET f == [activity |-> a, inboxes |-> S, created |-> clock]
          IN NewRows(f) # {} /\ draft' = [draft EXCEPT ![p] = f]
    /\ UNCHANGED <<clock, policyVars, queueVars, leases, workerVars,
                   accepted, overridden, aborts>>

\* A plausible slip: the bound counts pending deliveries only.
HasRoomIgnoringRetries(S) ==
    Cardinality({d \in Delivery : row[d].status = "pending"}) + Cardinality(S) <= MaxActive

HasRoom(S) == Cardinality({d \in Delivery : Active(d)}) + Cardinality(S) <= MaxActive

\* enqueue_activity: all the missing deliveries of the activity, or none.
CommitEnqueue(p) ==
    /\ draft[p] # None
    /\ draft' = [draft EXCEPT ![p] = None]
    /\ LET f == draft[p]
           S == NewRows(f)
       IN IF HasRoom(S)
          THEN /\ nextSerial' = IF S = {} THEN nextSerial ELSE nextSerial + 1
               /\ row' = [d \in Delivery |->
                            IF d \in S
                            THEN [status |-> "pending", attempts |-> 0, due |-> f.created,
                                  created |-> f.created, serial |-> nextSerial]
                            ELSE row[d]]
          ELSE UNCHANGED <<row, nextSerial>>
    /\ UNCHANGED <<clock, policyVars, circuit, leases, workerVars,
                   accepted, overridden, aborts>>

-----------------------------------------------------------------------------
(* One worker run: DeliveryWorker.run_once.                                *)

\* `now` is read once for the whole run; a paused control ends it at once.
BeginRun(w) ==
    /\ pc[w] = "idle"
    /\ ~outboundPaused
    /\ pc' = [pc EXCEPT ![w] = "started"]
    /\ runNow' = [runNow EXCEPT ![w] = clock]
    /\ UNCHANGED <<clock, policyVars, queueVars, leases, draft, jobs, job, outcome,
                   accepted, overridden, aborts>>

\* A plausible slip: a later delivery does not wait for an earlier one.
DueOutOfOrder(now) == {d \in Delivery :
    /\ Active(d) /\ row[d].due <= now /\ circuit[InboxOf(d)] <= now}

Due(now) == {d \in Delivery :
    /\ Active(d)
    /\ row[d].due <= now
    /\ circuit[InboxOf(d)] <= now
    /\ \A e \in Delivery :
          InboxOf(e) = InboxOf(d) /\ Active(e) => ~Before(row[e], row[d])}

\* ORDER BY next_attempt_at, created_at, id.
Ahead(a, b) == a.due < b.due \/ (a.due = b.due /\ Before(a, b))

JobOf(d) == [key |-> d, attempts |-> row[d].attempts, due |-> row[d].due,
             created |-> row[d].created, serial |-> row[d].serial]

\* A plausible slip: the claim postpones nothing.
ClaimedUntilNow(now) == now

ClaimedUntil(now) == now + ClaimTTL

\* The loop over the claimed jobs goes on, or the run ends.
Continue(w, done) ==
    /\ pc' = [pc EXCEPT ![w] = IF done THEN "idle" ELSE "working"]
    /\ runNow' = [runNow EXCEPT ![w] = IF done THEN 0 ELSE @]

\* due_delivery_jobs: the first BatchLimit due deliveries, postponed together.
Claim(w) ==
    /\ pc[w] = "started"
    /\ \E S \in SUBSET Due(runNow[w]) :
          /\ Cardinality(S) <= BatchLimit
          /\ \A d \in S, e \in Due(runNow[w]) \ S : ~Ahead(row[e], row[d])
          /\ S = Due(runNow[w]) \/ Cardinality(S) = BatchLimit
          /\ row' = [d \in Delivery |->
                       IF d \in S THEN [row[d] EXCEPT !.due = ClaimedUntil(runNow[w])]
                       ELSE row[d]]
          /\ jobs' = [jobs EXCEPT ![w] = {JobOf(d) : d \in S}]
          /\ Continue(w, S = {})
    /\ UNCHANGED <<clock, policyVars, nextSerial, circuit, leases, draft, job,
                   outcome, accepted, overridden, aborts>>

\* A plausible slip: a status the table does not know.
BlockedOwnStatus(j, n) ==
    [status |-> "blocked", attempts |-> n, due |-> j.due, circuit |-> 0]

\* The outcome keeps the due instant the row had before it was claimed.
Blocked(j, n) == [status |-> "dead", attempts |-> n, due |-> j.due, circuit |-> 0]

\* The next job of the batch, and whether local policy still lets it go.
CheckPolicy(w) ==
    /\ pc[w] = "working"
    /\ \E j \in jobs[w] :
          /\ \A k \in jobs[w] : ~Ahead(k, j)
          /\ job' = [job EXCEPT ![w] = j]
          /\ IF InboxOf(j.key) \in blocked
             THEN /\ outcome' = [outcome EXCEPT ![w] = Blocked(j, j.attempts + 1)]
                  /\ pc' = [pc EXCEPT ![w] = "recording"]
             ELSE /\ pc' = [pc EXCEPT ![w] = "cleared"]
                  /\ UNCHANGED outcome
    /\ UNCHANGED <<clock, policyVars, queueVars, leases, draft, runNow, jobs,
                   accepted, overridden, aborts>>

\* A plausible slip: a lease is held until it is released.
AllLeases == leases

LiveLeases == {l \in leases : l.expires > clock}

\* A plausible slip: the outbound-inbox scope is left out of the limits.
MayLeaseGloballyOnly(i) == Cardinality(LiveLeases) < OutboundGlobal

MayLease(i) == /\ Cardinality(LiveLeases) < OutboundGlobal
               /\ \A l \in LiveLeases : l.inbox # i

\* A finished or skipped job leaves the batch; an empty batch ends the run.
NextJob(w) ==
    /\ jobs' = [jobs EXCEPT ![w] = @ \ {job[w]}]
    /\ job' = [job EXCEPT ![w] = None]
    /\ Continue(w, jobs[w] = {job[w]})

\* begin_outbound refuses: the loop goes on and the claim is left to run out.
SkipJob(w) ==
    /\ pc[w] = "cleared"
    /\ outboundPaused \/ ~MayLease(InboxOf(job[w].key))
    /\ leases' = IF outboundPaused THEN leases ELSE LiveLeases
    /\ NextJob(w)
    /\ UNCHANGED <<clock, policyVars, queueVars, draft, outcome,
                   accepted, overridden, aborts>>

\* begin_outbound acquires the lease, dropping the expired ones.
BeginSend(w) ==
    /\ pc[w] = "cleared"
    /\ ~outboundPaused
    /\ MayLease(InboxOf(job[w].key))
    /\ leases' = LiveLeases \cup {[holder |-> w, inbox |-> InboxOf(job[w].key),
                                   expires |-> clock + LeaseTTL]}
    /\ pc' = [pc EXCEPT ![w] = "sending"]
    /\ UNCHANGED <<clock, policyVars, queueVars, draft, runNow, jobs, job, outcome,
                   accepted, overridden, aborts>>

\* The POST is answered with a 2xx.
Accepted(w) ==
    /\ pc[w] = "sending"
    /\ outcome' = [outcome EXCEPT ![w] = Success(runNow[w], job[w].attempts)]
    /\ accepted' = [accepted EXCEPT ![job[w].key] = @ + 1]
    /\ pc' = [pc EXCEPT ![w] = "answered"]
    /\ UNCHANGED <<clock, policyVars, queueVars, leases, draft, runNow, jobs, job,
                   overridden, aborts>>

\* A transport error, a retryable status or a rejection.
Failed(w) ==
    /\ pc[w] = "sending"
    /\ \E retryable \in BOOLEAN, asked \in RetryAfters :
          outcome' = [outcome EXCEPT ![w] =
                        Failure(runNow[w], job[w].created, job[w].attempts, retryable, asked)]
    /\ pc' = [pc EXCEPT ![w] = "answered"]
    /\ UNCHANGED <<clock, policyVars, queueVars, leases, draft, runNow, jobs, job,
                   accepted, overridden, aborts>>

OwnLeases(w) == {l \in leases : l.holder = w /\ l.inbox = InboxOf(job[w].key)}

\* The finally clause: the lease goes before the result is written.
Release(w) ==
    /\ pc[w] = "answered"
    /\ leases' = leases \ OwnLeases(w)
    /\ pc' = [pc EXCEPT ![w] = "recording"]
    /\ UNCHANGED <<clock, policyVars, queueVars, draft, runNow, jobs, job, outcome,
                   accepted, overridden, aborts>>

\* COALESCE: a result that opens no circuit leaves an older one standing.
CircuitAfter(o, old) ==
    CASE o.status = "delivered" -> 0
      [] o.status # "delivered" /\ o.circuit > 0 -> o.circuit
      [] OTHER -> old

\* update_delivery: an UPDATE by identifier alone, whatever the row holds now.
Record(w) ==
    /\ pc[w] = "recording"
    /\ LET d == job[w].key
           o == outcome[w]
       IN /\ row' = [row EXCEPT ![d] = [status |-> o.status, attempts |-> o.attempts,
                                        due |-> o.due, created |-> @.created,
                                        serial |-> @.serial]]
          /\ circuit' = [circuit EXCEPT ![InboxOf(d)] = CircuitAfter(o, @)]
    /\ outcome' = [outcome EXCEPT ![w] = None]
    /\ NextJob(w)
    /\ UNCHANGED <<clock, policyVars, nextSerial, leases, draft,
                   accepted, overridden, aborts>>

\* The run ends where it stands: a signing or database exception (the finally
\* clause then releases the lease) or the death of the process (it does not).
Abort(w) ==
    /\ clock < Horizon /\ aborts < MaxAborts
    /\ pc[w] # "idle"
    /\ \/ leases' = leases
       \/ /\ pc[w] = "sending"
          /\ leases' = leases \ OwnLeases(w)
    /\ aborts' = aborts + 1
    /\ Continue(w, TRUE)
    /\ jobs' = [jobs EXCEPT ![w] = {}]
    /\ job' = [job EXCEPT ![w] = None]
    /\ outcome' = [outcome EXCEPT ![w] = None]
    /\ UNCHANGED <<clock, policyVars, queueVars, draft, accepted, overridden>>

WorkerStep(w) == \/ BeginRun(w) \/ Claim(w) \/ CheckPolicy(w) \/ SkipJob(w)
                 \/ BeginSend(w) \/ Accepted(w) \/ Failed(w) \/ Release(w) \/ Record(w)

-----------------------------------------------------------------------------
(* The owner, from the web process or the command line.                    *)

May(op) == op \in OwnerOps /\ clock < Horizon

OwnerUnchanged == UNCHANGED <<clock, nextSerial, leases, draft, workerVars, accepted, aborts>>

Pause ==
    /\ May("pause")
    /\ ~outboundPaused /\ outboundPaused' = TRUE
    /\ UNCHANGED <<blocked, row, circuit, overridden>> /\ OwnerUnchanged

Resume ==
    /\ outboundPaused /\ outboundPaused' = FALSE
    /\ UNCHANGED <<blocked, row, circuit, overridden>> /\ OwnerUnchanged

\* discard_delivery: whatever is not delivered or discarded already.
Discard(d) ==
    /\ May("discard")
    /\ row[d].status \in {"pending", "retrying", "dead"}
    /\ row' = [row EXCEPT ![d].status = "discarded"]
    /\ overridden' = overridden \cup {d}
    /\ UNCHANGED <<policyVars, circuit>> /\ OwnerUnchanged

\* A plausible slip: any delivery that is no longer queued can be retried.
Finished(d) == row[d].status \in {"dead", "discarded", "delivered"}

Requeueable(d) == row[d].status = "dead"

\* retry_delivery: a dead letter starts a fresh cycle, last in its inbox.
RetryDead(d) ==
    /\ May("retry")
    /\ Requeueable(d)
    /\ row' = [row EXCEPT ![d] = [status |-> "pending", attempts |-> 0, due |-> clock,
                                  created |-> clock, serial |-> @.serial]]
    /\ circuit' = [circuit EXCEPT ![InboxOf(d)] = 0]
    /\ overridden' = overridden \cup {d}
    /\ UNCHANGED policyVars /\ OwnerUnchanged

\* A plausible slip: the cancellation forgets the status condition.
AllTo(i) == {d \in Delivery : InboxOf(d) = i}

ActiveTo(i) == {d \in Delivery : InboxOf(d) = i /\ Active(d)}

\* What a block does to the queue, and an actor unblock as well: both pass
\* through _apply_actor_block.
CancelActive(i) ==
    /\ row' = [d \in Delivery |-> IF d \in ActiveTo(i)
                                  THEN [row[d] EXCEPT !.status = "discarded"] ELSE row[d]]
    /\ overridden' = overridden \cup ActiveTo(i)

Block(i) ==
    /\ May("block")
    /\ i \notin blocked /\ blocked' = blocked \cup {i}
    /\ CancelActive(i)
    /\ UNCHANGED <<outboundPaused, circuit>> /\ OwnerUnchanged

UnblockActor(i) ==
    /\ May("block")
    /\ i \in blocked /\ blocked' = blocked \ {i}
    /\ CancelActive(i)
    /\ UNCHANGED <<outboundPaused, circuit>> /\ OwnerUnchanged

\* unblock_domain leaves the queue alone.
UnblockDomain(i) ==
    /\ May("block")
    /\ i \in blocked /\ blocked' = blocked \ {i}
    /\ UNCHANGED <<outboundPaused, row, circuit, overridden>> /\ OwnerUnchanged

-----------------------------------------------------------------------------
\* Time passes; no run outlives Patience.
Tick ==
    /\ clock < MaxTime
    /\ \A w \in Worker : pc[w] # "idle" => clock < runNow[w] + Patience
    /\ clock' = clock + 1
    /\ UNCHANGED <<policyVars, queueVars, leases, draft, workerVars,
                   accepted, overridden, aborts>>

Publish == \E p \in Publisher : BeginEnqueue(p) \/ CommitEnqueue(p)

Owner == \/ Pause \/ Resume
         \/ \E d \in Delivery : Discard(d) \/ RetryDead(d)
         \/ \E i \in Inbox : Block(i) \/ UnblockActor(i) \/ UnblockDomain(i)

Next == Tick \/ Publish \/ Owner \/ \E w \in Worker : WorkerStep(w) \/ Abort(w)

Spec == Init /\ [][Next]_vars

-----------------------------------------------------------------------------
(* Properties.                                                             *)

\* Types of the queue, the peers, the leases and the workers.
TypeOK ==
    /\ clock \in Nat /\ nextSerial \in Nat /\ aborts \in Nat
    /\ outboundPaused \in BOOLEAN /\ blocked \in SUBSET Inbox
    /\ row \in [Delivery -> Row]
    /\ circuit \in [Inbox -> Nat]
    /\ leases \in SUBSET Lease
    /\ draft \in [Publisher -> Draft \cup {None}]
    /\ pc \in [Worker -> Step]
    /\ runNow \in [Worker -> Nat]
    /\ jobs \in [Worker -> SUBSET Job]
    /\ job \in [Worker -> Job \cup {None}]
    /\ outcome \in [Worker -> Outcome \cup {None}]
    /\ accepted \in [Delivery -> Nat]
    /\ overridden \in SUBSET Delivery

Held(w) == {j.key : j \in jobs[w]}

\* A claim is exclusive: no delivery is in the batch of two runs at once, as
\* long as no run outlives its claims.  update_delivery carries no guard of
\* its own, so everything below that is said of results rests on this.
ClaimExclusive == \A v, w \in Worker : v # w => Held(v) \cap Held(w) = {}

KeepsOutcome(d) ==
    /\ row[d].status = "delivered" => row'[d] = row[d]
    /\ row[d].status = "dead" => \/ row'[d] = row[d]
                                 \/ /\ row'[d].status \in {"pending", "discarded"}
                                    /\ d \in overridden'

\* A result that was recorded is not taken back by a late one: delivered is
\* final, and a dead letter changes only when the owner discards or requeues
\* it.
OutcomesStay == [][\A d \in Delivery : KeepsOutcome(d)]_vars

\* At-least-once delivery repeats only after an interrupted run: a peer
\* answers 2xx to one delivery once, plus once per interruption.
AcceptedOnce == \A d \in Delivery : accepted[d] <= 1 + aborts

\* Creation order per inbox: when a delivery is being sent, no delivery to
\* the same inbox that was created and inserted before it is still queued.
\* Deliveries the owner cancelled or requeued are out of the order.
OrderPerInbox ==
    \A w \in Worker : pc[w] = "sending" =>
        \A d \in Delivery :
            /\ InboxOf(d) = InboxOf(job[w].key)
            /\ Before(row[d], job[w])
            /\ row[d].serial < job[w].serial
            /\ Active(d)
            => d \in overridden

\* The same without the insertion order: what creation order alone means.
CreationOrder ==
    \A w \in Worker : pc[w] = "sending" =>
        \A d \in Delivery :
            InboxOf(d) = InboxOf(job[w].key) /\ Before(row[d], job[w]) /\ Active(d)
            => d \in overridden

\* Two workers that hold unexpired leases never send to one inbox at once,
\* even when a cancellation has let the second claim the next delivery.
InboxSendsSerial ==
    \A l, m \in LiveLeases : l.inbox = m.inbox => l = m

\* Retries end with the delivery's life: the next attempt of a queued
\* delivery lies within its lifetime, or is due when a claim of the last
\* ClaimTTL runs out.
RetriesEnd ==
    \A d \in Delivery : Active(d) =>
        \/ row[d].due <= Deadline(row[d].created)
        \/ row[d].due <= clock + ClaimTTL

\* The queue is bounded: beyond MaxActive there is nothing but deliveries
\* the owner requeued, or cancelled under an attempt that brought them back.
QueueBounded ==
    Cardinality({d \in Delivery : Active(d)} \ overridden) <= MaxActive

\* The deliveries of one batch go to different inboxes, so a run never has
\* two attempts to make at one peer and its failures cannot pile up there.
BatchSpreads ==
    \A w \in Worker : \A j, k \in jobs[w] : InboxOf(j.key) = InboxOf(k.key) => j = k

\* Cancelled work stays cancelled: a delivery that a block or the owner took
\* out of the queue is never back in it without the owner asking.
CancelledStaysOut ==
    [][\A d \in Delivery :
         row[d].status = "discarded" => row'[d].status \notin ActiveStatus]_vars

\* The queue keeps the promise of module Outbox: taken by one worker at a
\* time, settled by the worker that took it, final outcomes final.
OutboxState ==
    [d \in Delivery |-> IF Active(d) THEN "queued" ELSE row[d].status]

Taken == {d \in Delivery : \E w \in Worker : d \in Held(w)}

Promise == INSTANCE Outbox WITH state <- OutboxState, taken <- Taken

KeepsPromise == Promise!Spec

\* It takes a run that has the delivery in its batch to bring cancelled work
\* back: what is discarded while nobody holds it is out for good.
OutForGood ==
    [][\A d \in Delivery : row[d].status = "discarded" /\ d \notin Taken =>
         row'[d] = row[d] /\ d \notin Taken']_vars

\* With one publishing process, as shipped, each inbox is a line of module
\* Channel: its peer hears deliveries in the order they were enqueued, one that
\* is repeated no later than its successor, and none is taken for delivered
\* that it has not heard.  Only what the owner cancelled or requeued is heard
\* out of turn.
FateOf == [d \in Delivery |->
             IF d \in overridden THEN "astray"
             ELSE IF Active(d) THEN "waiting" ELSE row[d].status]

PlaceOf == [d \in Delivery |-> row[d].serial]

Line == INSTANCE Channel WITH fate <- FateOf, place <- PlaceOf, heard <- accepted

KeepsTurns == Line!Spec

\* The steps that a run has left at most: five for a job, and those of its
\* current job that are behind it do not count.
Passed(step) ==
    CASE step = "working" -> 0 [] step = "cleared" -> 1 [] step = "sending" -> 2
      [] step = "answered" -> 3 [] step = "recording" -> 4

StepsLeft(w) ==
    CASE pc[w] = "idle" -> 0
      [] pc[w] = "started" -> 5 * BatchLimit + 1
      [] OTHER -> 5 * Cardinality(jobs[w]) - Passed(pc[w])

\* A run that has begun ends: each of its steps leaves it fewer, however its
\* peers answer and whatever others do to its deliveries meanwhile.
RunsEnd ==
    /\ [](\A w \in Worker : StepsLeft(w) \in 0..(5 * BatchLimit + 1))
    /\ [][\A w \in Worker : pc[w] # "idle" =>
             \/ pc'[w] = pc[w] /\ jobs'[w] = jobs[w]
             \/ StepsLeft(w)' < StepsLeft(w)]_vars

\* The workers' loop is run again and again, and time passes.
Fairness == /\ WF_vars(Tick)
            /\ \A w \in Worker : WF_vars(WorkerStep(w))

FairSpec == Spec /\ Fairness

\* Every queued delivery is settled in the end, whatever the peers answer,
\* provided the owner does not leave delivery paused.
QueueDrains ==
    <>[]~outboundPaused => <>[](\A d \in Delivery : ~Active(d))
=============================================================================
