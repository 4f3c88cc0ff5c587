--------------------------- MODULE RetrySchedule ---------------------------
(***************************************************************************)
(* What one failed delivery attempt leads to: DeliveryWorker._failure and  *)
(* _retry_after of delivery.py, as functions of the job, of the instant    *)
(* the worker's run began and of the Retry-After the peer asked for.       *)
(*                                                                         *)
(* Instants and durations are natural numbers.  0 stands for "no header"   *)
(* as a requested delay and for NULL as a circuit.                         *)
(***************************************************************************)
EXTENDS Naturals, Sequences

CONSTANTS
    Backoff,          \* RETRY_DELAYS, a sequence of durations
    Lifetime,         \* DELIVERY_LIFETIME, seven days
    RetryAfterCap,    \* the longest Retry-After that is honoured, one day
    CircuitThreshold  \* attempts from which a failure opens the circuit

ASSUME ScheduleAssumption ==
    /\ Backoff \in Seq(Nat \ {0}) /\ Len(Backoff) > 0
    /\ Lifetime \in Nat \ {0}
    /\ RetryAfterCap \in Nat
    /\ CircuitThreshold \in Nat \ {0}

Sooner(a, b) == IF a <= b THEN a ELSE b
Later(a, b)  == IF a >= b THEN a ELSE b

Outcome == [status : {"retrying", "delivered", "dead"},
            attempts : Nat, due : Nat, circuit : Nat]

Deadline(created) == created + Lifetime

\* The delay before attempt n + 1, the last entry repeating.
Delay(n) == Backoff[Sooner(n, Len(Backoff))]

RequestedDelay(asked) == Sooner(asked, RetryAfterCap)

\* A plausible slip: the wait is not cut at the end of the delivery's life.
NextAttemptUncut(now, created, n, asked) ==
    now + Later(Delay(n), RequestedDelay(asked))

NextAttempt(now, created, n, asked) ==
    Sooner(now + Later(Delay(n), RequestedDelay(asked)), Deadline(created))

GivenUp(now, created, retryable) == ~retryable \/ now >= Deadline(created)

DeadOutcome(now, n) ==
    [status |-> "dead", attempts |-> n, due |-> now, circuit |-> 0]

RetryOutcome(next, n) ==
    [status |-> "retrying", attempts |-> n, due |-> next,
     circuit |-> IF n >= CircuitThreshold THEN next ELSE 0]

\* The outcome of a failed attempt, the tried-th of its retry cycle plus one.
Failure(now, created, tried, retryable, asked) ==
    IF GivenUp(now, created, retryable)
    THEN DeadOutcome(now, tried + 1)
    ELSE RetryOutcome(NextAttempt(now, created, tried + 1, asked), tried + 1)

Success(now, tried) ==
    [status |-> "delivered", attempts |-> tried + 1, due |-> now, circuit |-> 0]
=============================================================================
