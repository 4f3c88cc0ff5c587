------------------------------ MODULE Budgets ------------------------------
(***************************************************************************)
(* Budgets of the inbox and of new Follows: begin_inbound, release and     *)
(* check_follow_budget of safety.py over the rate buckets and leases of    *)
(* store.py.                                                               *)
(*                                                                         *)
(* The budgets live in the database so that several workers share them.  A *)
(* request reads its clock once and then charges bucket after bucket, each *)
(* in a transaction of its own: requests reach a bucket in another order   *)
(* than the one their clocks were read in, and updated_at steps back.      *)
(* Tokens are counted in units of 1/Cost so that every refill is whole;    *)
(* the code's floats are not.  Pauses are DeliveryQueue's and Lifecycle's. *)
(***************************************************************************)
EXTENDS Integers, FiniteSets, Sequences

CONSTANTS
    Request,   \* web processes: what each of them has under way
    Sender,    \* records that name an ip, a domain and an actor
    NoStamp,   \* the time of a row that is not there
    Cost,      \* units that one token is worth
    Capacity,  \* a bucket's capacity in units, by scope
    Refill,    \* units it gains in a tick, by scope
    MaxLeases, \* unexpired leases a principal may hold, by scope
    LeaseTtl,  \* lifetime of a lease
    MaxNow, MaxStarts   \* bounds on the clock and on the requests

\* What is charged in turn; an inbox request asks for its lease after that.
InboxScopes == <<"ip", "domain", "actor">>
FollowScopes == <<"follow-domain", "follow-actor">>

RateScope == {"ip", "domain", "actor", "follow-domain", "follow-actor"}
LeaseScope == {"global", "ip", "domain", "actor"}

\* The principal that a sender is charged as.
Principal(s, scope) ==
    CASE scope \in {"domain", "follow-domain"} -> s.domain
      [] scope \in {"actor", "follow-actor"} -> s.actor
      [] scope = "ip" -> s.ip
      [] OTHER -> "all"

Bucket == {<<scope, Principal(s, scope)>> : scope \in RateScope, s \in Sender}

ASSUME BudgetsAssumption ==
    /\ Cost \in Nat \ {0} /\ LeaseTtl \in Nat
    /\ Capacity \in [RateScope -> Nat] /\ Refill \in [RateScope -> Nat]
    /\ MaxLeases \in [LeaseScope -> Nat \ {0}]
    /\ MaxNow \in Nat /\ MaxStarts \in Nat /\ NoStamp \notin Int

VARIABLES
    tokens,    \* federation_rate_buckets.tokens, in units
    stampedAt, \* federation_rate_buckets.updated_at, NoStamp without a row
    leases,    \* federation_leases: one record for the rows of a lease_id
    request,   \* local variables of the request a process has under way
    clock,
    starts,    \* history: requests begun so far
    first,     \* history: the stamp of a bucket's first charge
    granted,   \* history: tokens a bucket granted
    setBack    \* history: by how much its updated_at stepped back, in all

bucketVars == <<tokens, stampedAt, first, granted, setBack>>
budgetVars == <<bucketVars, leases, request, clock, starts>>

NoRequest == [doing |-> "idle"]

BudgetInit ==
    /\ tokens = [b \in Bucket |-> 0] /\ stampedAt = [b \in Bucket |-> NoStamp]
    /\ leases = {} /\ clock = 0 /\ starts = 0
    /\ request = [r \in Request |-> NoRequest]
    /\ first = [b \in Bucket |-> 0] /\ granted = [b \in Bucket |-> 0]
    /\ setBack = [b \in Bucket |-> 0]

Least(a, b) == IF a < b THEN a ELSE b
Most(a, b) == IF a > b THEN a ELSE b

\* begin_inbound or check_follow_budget is called, and reads the clock.
Arrive(r) ==
    /\ request[r] = NoRequest /\ starts < MaxStarts
    /\ \E s \in Sender, scopes \in {InboxScopes, FollowScopes} :
          request' = [request EXCEPT ![r] = [doing |-> "charge", from |-> s,
                         scopes |-> scopes, at |-> 1, now |-> clock, id |-> starts]]
    /\ starts' = starts + 1
    /\ UNCHANGED <<bucketVars, leases, clock>>

\* A plausible slip: an updated_at that is written once, with the row.
ElapsedSinceFirst(b, now) == Most(0, now - first[b])

\* Time since the bucket's last charge, as far as the stamps tell.
Elapsed(b, now) == Most(0, now - stampedAt[b])

\* What a bucket holds for a request that read the clock at now.
Level(b, now) ==
    IF stampedAt[b] = NoStamp THEN Capacity[b[1]]
    ELSE Least(Capacity[b[1]], tokens[b] + Elapsed(b, now) * Refill[b[1]])

\* consume_rate_bucket: refill, take a token if there is one, store the stamp.
Consume(b, now) ==
    LET level == Level(b, now)
        allowed == level >= Cost
        new == stampedAt[b] = NoStamp
    IN /\ tokens' = [tokens EXCEPT ![b] = IF allowed THEN level - Cost ELSE level]
       /\ stampedAt' = [stampedAt EXCEPT ![b] = now]
       /\ first' = [first EXCEPT ![b] = IF new THEN now ELSE @]
       /\ granted' = [granted EXCEPT ![b] = IF allowed THEN @ + 1 ELSE @]
       /\ setBack' = [setBack EXCEPT ![b] =
                         IF new THEN 0 ELSE @ + Most(0, stampedAt[b] - now)]

\* The next bucket of a request is charged.  One that refuses ends it, and what
\* the buckets before it took is not given back.
Charge(r) ==
    /\ request[r].doing = "charge"
    /\ LET q == request[r]
           b == <<q.scopes[q.at], Principal(q.from, q.scopes[q.at])>>
       IN /\ Consume(b, q.now)
          /\ request' = [request EXCEPT ![r] =
                IF Level(b, q.now) < Cost THEN NoRequest
                ELSE IF q.at < Len(q.scopes) THEN [q EXCEPT !.at = @ + 1]
                ELSE IF q.scopes = InboxScopes THEN [q EXCEPT !.doing = "lease"]
                ELSE NoRequest]
    /\ UNCHANGED <<leases, clock, starts>>

\* The unexpired leases of a principal, as a clock that shows now sees them.
LeasesOf(scope, p, now) ==
    {l \in leases : Principal(l.from, scope) = p /\ l.expires > now}

\* A plausible slip: looking at the global limit only.
FitsGlobally(s, now) ==
    Cardinality(LeasesOf("global", "all", now)) < MaxLeases["global"]

\* Every scope of the sender has room.
Fits(s, now) ==
    \A scope \in LeaseScope :
        Cardinality(LeasesOf(scope, Principal(s, scope), now)) < MaxLeases[scope]

\* acquire_federation_lease removes expired rows, counts, and inserts.
Acquire(r) ==
    /\ request[r].doing = "lease"
    /\ LET q == request[r]
           left == {l \in leases : l.expires > q.now}
       IN IF Fits(q.from, q.now)
          THEN /\ leases' = left \cup {[id |-> q.id, from |-> q.from,
                                        expires |-> q.now + LeaseTtl]}
               /\ request' = [request EXCEPT ![r] = [q EXCEPT !.doing = "serve"]]
          ELSE /\ leases' = left
               /\ request' = [request EXCEPT ![r] = NoRequest]
    /\ UNCHANGED <<bucketVars, clock, starts>>

\* release, when the request has been dispatched or has failed.
Release(r) ==
    /\ request[r].doing = "serve"
    /\ leases' = {l \in leases : l.id # request[r].id}
    /\ request' = [request EXCEPT ![r] = NoRequest]
    /\ UNCHANGED <<bucketVars, clock, starts>>

\* The process dies: what it charged stays charged, its lease runs out.
Dies(r) ==
    /\ request[r] # NoRequest
    /\ request' = [request EXCEPT ![r] = NoRequest]
    /\ UNCHANGED <<bucketVars, leases, clock, starts>>

BudgetTick ==
    /\ clock < MaxNow /\ clock' = clock + 1
    /\ UNCHANGED <<bucketVars, leases, request, starts>>

BudgetNext ==
    \/ BudgetTick
    \/ \E r \in Request : Arrive(r) \/ Charge(r) \/ Acquire(r) \/ Release(r) \/ Dies(r)

BudgetSpec == BudgetInit /\ [][BudgetNext]_budgetVars

----------------------------------------------------------------------------
ScopesRow == {InboxScopes, FollowScopes}
Charging == [doing : {"charge"}, from : Sender, scopes : ScopesRow, at : 1..3,
             now : Int, id : Nat]
Leasing == [doing : {"lease", "serve"}, from : Sender, scopes : {InboxScopes},
            at : {3}, now : Int, id : Nat]
RequestRow == {NoRequest} \cup Charging \cup Leasing
LeaseRow == [id : Nat, from : Sender, expires : Int]

\* The types of rows and local variables; a request charges its own scopes.
BudgetTypeOK ==
    /\ tokens \in [Bucket -> Int] /\ stampedAt \in [Bucket -> Int \cup {NoStamp}]
    /\ leases \subseteq LeaseRow
    /\ request \in [Request -> RequestRow]
    /\ \A r \in Request :
          request[r] # NoRequest => request[r].at <= Len(request[r].scopes)
    /\ clock \in Int /\ starts \in Nat
    /\ first \in [Bucket -> Int] /\ granted \in [Bucket -> Nat]
    /\ setBack \in [Bucket -> Int]

(* A bucket never grants more than its capacity and what the clock refilled *)
(* since its first charge, however requests interleave; the one exception   *)
(* is an interval by which a slower request set updated_at back, which is   *)
(* refilled twice.                                                          *)
BudgetHolds ==
    \A b \in Bucket : stampedAt[b] # NoStamp =>
        granted[b] * Cost <= Capacity[b[1]]
                             + Refill[b[1]] * (stampedAt[b] - first[b] + setBack[b])

(* Of one address, one domain, one actor and in all, no more inbox requests *)
(* hold an unexpired lease than their scope allows, with the clock of       *)
(* whoever looks, also after processes died with a lease.                   *)
LeaseLimits ==
    \A s \in Sender, scope \in LeaseScope :
        Cardinality(LeasesOf(scope, Principal(s, scope), clock)) <= MaxLeases[scope]
=============================================================================
