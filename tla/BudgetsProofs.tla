--------------------------- MODULE BudgetsProofs ---------------------------
(***************************************************************************)
(* Budgets for any senders, capacities, refills, limits and any number of  *)
(* processes.                                                              *)
(*                                                                         *)
(* The buckets: what was granted and what is left together never exceed    *)
(* the capacity and the refill of the time that was counted; a charge adds *)
(* to both sides the same.  The leases: whoever looks has a clock no older *)
(* than the one a request counted the leases with, and sees fewer of them. *)
(***************************************************************************)
EXTENDS Budgets, FiniteSetTheorems, TLAPS

\* What a bucket granted and holds, against what it was ever given.
Account(b) ==
    IF stampedAt[b] = NoStamp THEN granted[b] = 0
    ELSE granted[b] * Cost + tokens[b]
           <= Capacity[b[1]] + Refill[b[1]] * (stampedAt[b] - first[b] + setBack[b])

BucketInv ==
    /\ BudgetTypeOK
    /\ \A b \in Bucket : Account(b) /\ tokens[b] >= 0

LeaseInv ==
    /\ BudgetTypeOK
    /\ IsFiniteSet(leases)
    /\ \A r \in Request : request[r] # NoRequest => request[r].now <= clock
    /\ LeaseLimits

----------------------------------------------------------------------------
(* A charge that counts the time e refills R * e; a stamp that steps back   *)
(* counts for nothing now and is entered in sb.                             *)
LEMMA Refilled ==
  ASSUME NEW g \in Int, NEW k \in Int, NEW t \in Int, NEW c \in Int, NEW R \in Int,
         NEW at \in Int, NEW f \in Int, NEW sb \in Int, NEW now \in Int,
         NEW level \in Int,
         g * k + t <= c + R * (at - f + sb),
         level <= t + Most(0, now - at) * R
  PROVE  g * k + level <= c + R * (now - f + (sb + Most(0, at - now)))
<1> DEFINE e == Most(0, now - at)
           x == at - f + sb
<1>1. e \in Int /\ x \in Int  BY DEF Most
<1>2. now - f + (sb + Most(0, at - now)) = x + e  BY DEF Most
<1>3. R * (x + e) = R * x + e * R  BY <1>1
<1>4. g * k \in Int /\ R * x \in Int /\ e * R \in Int  BY <1>1
<1>5. g * k + level <= c + (R * x + e * R)
  <2> HIDE DEF e, x
  <2>1. level <= t + e * R  BY DEF e
  <2>2. g * k + t <= c + R * x  BY DEF x
  <2> DEFINE gk == g * k
             Rx == R * x
             eR == e * R
  <2>3. gk \in Int /\ Rx \in Int /\ eR \in Int  BY <1>4
  <2>4. level <= t + eR /\ gk + t <= c + Rx  BY <2>1, <2>2
  <2> HIDE DEF gk, Rx, eR
  <2>5. gk + level <= c + (Rx + eR)  BY <2>3, <2>4
  <2> QED  BY <2>5 DEF gk, Rx, eR
<1> QED  BY <1>2, <1>3, <1>5

(* A bucket's key determines its scope's parameters. *)
LEMMA BucketParameters ==
  ASSUME NEW b \in Bucket
  PROVE  Capacity[b[1]] \in Nat /\ Refill[b[1]] \in Nat
  BY BudgetsAssumption DEF Bucket

(* What a request has under way says which of its variables there are. *)
LEMMA Shapes ==
  ASSUME BudgetTypeOK, NEW r \in Request
  PROVE  /\ request[r].doing = "charge" =>
              request[r] \in Charging /\ request[r].at <= Len(request[r].scopes)
         /\ request[r].doing \in {"lease", "serve"} =>
              request[r] \in Leasing /\ request[r].at <= Len(request[r].scopes)
         /\ request[r] # NoRequest => request[r].now \in Int
<1>1. request[r] \in RequestRow
      /\ (request[r] # NoRequest => request[r].at <= Len(request[r].scopes))
  BY DEF BudgetTypeOK
<1>2. CASE request[r] = NoRequest  BY <1>2 DEF NoRequest
<1>3. CASE request[r] \in Charging  BY <1>1, <1>3 DEF Charging, NoRequest
<1>4. CASE request[r] \in Leasing  BY <1>1, <1>4 DEF Leasing, NoRequest
<1> QED  BY <1>1, <1>2, <1>3, <1>4 DEF RequestRow

LEMMA Lengths == Len(InboxScopes) = 3 /\ Len(FollowScopes) = 2
  BY DEF InboxScopes, FollowScopes

(* A request charges a bucket that there is. *)
LEMMA ChargedBucket ==
  ASSUME BudgetTypeOK, NEW r \in Request, request[r].doing = "charge"
  PROVE  /\ <<request[r].scopes[request[r].at],
              Principal(request[r].from, request[r].scopes[request[r].at])>> \in Bucket
         /\ request[r].now \in Int
<1>2. /\ request[r].from \in Sender /\ request[r].scopes \in ScopesRow
      /\ request[r].at \in 1..3 /\ request[r].now \in Int
  BY Shapes DEF Charging
<1>3. request[r].at <= Len(request[r].scopes)  BY Shapes
<1>4. request[r].scopes[request[r].at] \in RateScope
  BY <1>2, <1>3 DEF ScopesRow, InboxScopes, FollowScopes, RateScope
<1> QED  BY <1>2, <1>4 DEF Bucket

----------------------------------------------------------------------------
(* Types. *)
LEMMA TypesInit == BudgetInit => BudgetTypeOK
  BY BudgetsAssumption DEF BudgetInit, BudgetTypeOK, RequestRow, NoRequest

LEMMA ArriveTypes ==
  ASSUME BudgetTypeOK, NEW r \in Request, Arrive(r) PROVE BudgetTypeOK'
<1> PICK s \in Sender, scopes \in ScopesRow :
      request' = [request EXCEPT ![r] = [doing |-> "charge", from |-> s,
                     scopes |-> scopes, at |-> 1, now |-> clock, id |-> starts]]
  BY DEF Arrive, ScopesRow
<1> DEFINE new == [doing |-> "charge", from |-> s, scopes |-> scopes, at |-> 1,
                   now |-> clock, id |-> starts]
<1>1. new \in Charging  BY DEF BudgetTypeOK, Charging
<1>2. new.at <= Len(new.scopes)  BY Lengths DEF ScopesRow
<1> HIDE DEF new
<1>3. request' = [request EXCEPT ![r] = new]  BY DEF new
<1>4. request' \in [Request -> RequestRow]
  BY <1>1, <1>3 DEF BudgetTypeOK, RequestRow
<1>5. \A p \in Request :
          request'[p] # NoRequest => request'[p].at <= Len(request'[p].scopes)
  BY <1>2, <1>3 DEF BudgetTypeOK
<1> QED  BY <1>4, <1>5 DEF Arrive, bucketVars, BudgetTypeOK

LEMMA ConsumeTypes ==
  ASSUME BudgetTypeOK, NEW b \in Bucket, NEW now \in Int, Consume(b, now)
  PROVE  /\ tokens' \in [Bucket -> Int]
         /\ stampedAt' \in [Bucket -> Int \cup {NoStamp}]
         /\ first' \in [Bucket -> Int] /\ granted' \in [Bucket -> Nat]
         /\ setBack' \in [Bucket -> Int]
<1>1. Capacity[b[1]] \in Int /\ Refill[b[1]] \in Int  BY BucketParameters
<1>2. Level(b, now) \in Int
  <2>1. CASE stampedAt[b] = NoStamp  BY <1>1, <2>1 DEF Level
  <2>2. CASE stampedAt[b] # NoStamp
    <3>1. stampedAt[b] \in Int /\ tokens[b] \in Int  BY <2>2 DEF BudgetTypeOK
    <3>2. Elapsed(b, now) \in Int  BY <3>1 DEF Elapsed, Most
    <3>3. Elapsed(b, now) * Refill[b[1]] \in Int  BY <1>1, <3>2
    <3> QED  BY <1>1, <2>2, <3>1, <3>3 DEF Level, Least
  <2> QED  BY <2>1, <2>2
<1>3. stampedAt[b] # NoStamp => Most(0, stampedAt[b] - now) \in Int
  BY DEF BudgetTypeOK, Most
<1> QED  BY <1>2, <1>3, BudgetsAssumption DEF Consume, BudgetTypeOK

LEMMA ChargeTypes ==
  ASSUME BudgetTypeOK, NEW r \in Request, Charge(r) PROVE BudgetTypeOK'
<1> DEFINE q == request[r]
           b == <<q.scopes[q.at], Principal(q.from, q.scopes[q.at])>>
<1>1. b \in Bucket /\ q.now \in Int  BY ChargedBucket DEF Charge
<1>2. Consume(b, q.now)  BY DEF Charge
<1>3. /\ tokens' \in [Bucket -> Int]
      /\ stampedAt' \in [Bucket -> Int \cup {NoStamp}]
      /\ first' \in [Bucket -> Int] /\ granted' \in [Bucket -> Nat]
      /\ setBack' \in [Bucket -> Int]
  BY <1>1, <1>2, ConsumeTypes
<1>4. q \in Charging /\ q.at <= Len(q.scopes)  BY Shapes DEF Charge
<1>5. \/ request' = [request EXCEPT ![r] = NoRequest]
      \/ q.at < Len(q.scopes) /\ request' = [request EXCEPT ![r] = [q EXCEPT !.at = @ + 1]]
      \/ /\ ~(q.at < Len(q.scopes)) /\ q.scopes = InboxScopes
         /\ request' = [request EXCEPT ![r] = [q EXCEPT !.doing = "lease"]]
  BY DEF Charge
<1>6. q \in [doing : {"charge"}, from : Sender, scopes : ScopesRow, at : 1..3,
             now : Int, id : Nat]
  BY <1>4 DEF Charging
<1>7. /\ request' \in [Request -> RequestRow]
      /\ \A p \in Request :
            request'[p] # NoRequest => request'[p].at <= Len(request'[p].scopes)
  <2>1. CASE request' = [request EXCEPT ![r] = NoRequest]
    BY <2>1 DEF BudgetTypeOK, RequestRow
  <2>2. CASE q.at < Len(q.scopes) /\ request' = [request EXCEPT ![r] = [q EXCEPT !.at = @ + 1]]
    <3>0. q.at + 1 \in 1..3
      <4>1. Len(q.scopes) \in {2, 3}  BY <1>6, Lengths DEF ScopesRow
      <4>2. q.at \in 1..3 /\ q.at < Len(q.scopes)  BY <1>6, <2>2
      <4> DEFINE n == Len(q.scopes)
                 i == q.at
      <4>3. n \in {2, 3} /\ i \in 1..3 /\ i < n  BY <4>1, <4>2
      <4> HIDE DEF n, i
      <4>4. i + 1 \in 1..3  BY <4>3
      <4> QED  BY <4>4 DEF i
    <3>1. [q EXCEPT !.at = @ + 1] \in Charging  BY <1>6, <3>0 DEF Charging
    <3>2. [q EXCEPT !.at = @ + 1].at <= Len([q EXCEPT !.at = @ + 1].scopes)
      BY <1>4, <1>6, <2>2
    <3> QED  BY <2>2, <3>1, <3>2 DEF BudgetTypeOK, RequestRow
  <2>3. CASE /\ ~(q.at < Len(q.scopes)) /\ q.scopes = InboxScopes
             /\ request' = [request EXCEPT ![r] = [q EXCEPT !.doing = "lease"]]
    <3>1. q.at = 3  BY <1>4, <1>6, <2>3, Lengths
    <3>2. [q EXCEPT !.doing = "lease"] \in Leasing
      BY <1>6, <2>3, <3>1 DEF Leasing
    <3>3. [q EXCEPT !.doing = "lease"].at <= Len([q EXCEPT !.doing = "lease"].scopes)
      BY <1>4, <1>6
    <3> QED  BY <2>3, <3>2, <3>3 DEF BudgetTypeOK, RequestRow
  <2> QED  BY <1>5, <2>1, <2>2, <2>3
<1> QED  BY <1>3, <1>7 DEF Charge, BudgetTypeOK

LEMMA AcquireTypes ==
  ASSUME BudgetTypeOK, NEW r \in Request, Acquire(r) PROVE BudgetTypeOK'
<1> DEFINE q == request[r]
<1>1. q \in Leasing /\ q.at <= Len(q.scopes)
      /\ q \in [doing : {"lease", "serve"}, from : Sender, scopes : {InboxScopes},
                at : {3}, now : Int, id : Nat]
  BY Shapes DEF Acquire, Leasing
<1>2. q.now + LeaseTtl \in Int  BY <1>1, BudgetsAssumption
<1>3. leases' \subseteq LeaseRow  BY <1>1, <1>2 DEF Acquire, BudgetTypeOK, LeaseRow
<1>4. /\ request' \in [Request -> RequestRow]
      /\ \A p \in Request :
            request'[p] # NoRequest => request'[p].at <= Len(request'[p].scopes)
  <2>1. CASE request' = [request EXCEPT ![r] = NoRequest]
    BY <2>1 DEF BudgetTypeOK, RequestRow
  <2>2. CASE request' = [request EXCEPT ![r] = [q EXCEPT !.doing = "serve"]]
    <3>1. [q EXCEPT !.doing = "serve"] \in Leasing
      BY <1>1 DEF Leasing
    <3> QED  BY <1>1, <2>2, <3>1 DEF BudgetTypeOK, RequestRow
  <2> QED  BY <2>1, <2>2 DEF Acquire
<1> QED  BY <1>3, <1>4 DEF Acquire, BudgetTypeOK, bucketVars

LEMMA OtherTypes ==
  ASSUME BudgetTypeOK,
         \/ BudgetTick \/ UNCHANGED budgetVars
         \/ \E r \in Request : Release(r) \/ Dies(r)
  PROVE  BudgetTypeOK'
<1>1. CASE BudgetTick \/ UNCHANGED budgetVars
  BY <1>1 DEF BudgetTick, budgetVars, bucketVars, BudgetTypeOK
<1>2. CASE \E r \in Request : Release(r) \/ Dies(r)
  <2> PICK r \in Request : Release(r) \/ Dies(r)  BY <1>2
  <2>1. request' = [request EXCEPT ![r] = NoRequest] /\ leases' \subseteq leases
    BY DEF Release, Dies
  <2>2. /\ request' \in [Request -> RequestRow]
        /\ \A p \in Request :
              request'[p] # NoRequest => request'[p].at <= Len(request'[p].scopes)
    BY <2>1 DEF BudgetTypeOK, RequestRow
  <2> QED  BY <2>1, <2>2 DEF Release, Dies, bucketVars, BudgetTypeOK
<1> QED  BY <1>1, <1>2

(* Rows and local variables are well typed in every reachable state. *)
THEOREM BudgetTypes == BudgetSpec => []BudgetTypeOK
<1>1. ASSUME BudgetTypeOK, [BudgetNext]_budgetVars PROVE BudgetTypeOK'
  BY <1>1, ArriveTypes, ChargeTypes, AcquireTypes, OtherTypes DEF BudgetNext
<1> QED  BY TypesInit, <1>1, PTL DEF BudgetSpec

----------------------------------------------------------------------------
(* The buckets. *)
LEMMA LevelBounds ==
  ASSUME BucketInv, NEW b \in Bucket, NEW now \in Int
  PROVE  /\ Level(b, now) \in Int /\ Level(b, now) >= 0
         /\ stampedAt[b] # NoStamp =>
              Level(b, now) <= tokens[b] + Most(0, now - stampedAt[b]) * Refill[b[1]]
         /\ stampedAt[b] = NoStamp => Level(b, now) = Capacity[b[1]]
<1>1. Capacity[b[1]] \in Nat /\ Refill[b[1]] \in Nat  BY BucketParameters
<1>2. CASE stampedAt[b] = NoStamp  BY <1>1, <1>2 DEF Level
<1>3. CASE stampedAt[b] # NoStamp
  <2>1. stampedAt[b] \in Int /\ tokens[b] \in Int /\ tokens[b] >= 0
    BY <1>3 DEF BucketInv, BudgetTypeOK
  <2>2. Elapsed(b, now) \in Nat  BY <2>1 DEF Elapsed, Most
  <2>3. Elapsed(b, now) * Refill[b[1]] \in Nat  BY <1>1, <2>2
  <2> QED  BY <1>1, <1>3, <2>1, <2>3 DEF Level, Least, Elapsed
<1> QED  BY <1>2, <1>3

LEMMA ConsumeAccounts ==
  ASSUME BucketInv, NEW b \in Bucket, NEW now \in Int, Consume(b, now)
  PROVE  Account(b)' /\ tokens'[b] >= 0
<1> DEFINE level == Level(b, now)
           c == Capacity[b[1]]
           R == Refill[b[1]]
<1>1. c \in Int /\ R \in Int  BY BucketParameters
<1>2. level \in Int /\ level >= 0  BY LevelBounds
<1>3. /\ granted[b] \in Int /\ tokens[b] \in Int /\ first[b] \in Int
      /\ setBack[b] \in Int /\ Cost \in Int
      /\ stampedAt[b] # NoStamp => stampedAt[b] \in Int
  BY BudgetsAssumption DEF BucketInv, BudgetTypeOK
<1>4. stampedAt'[b] = now /\ stampedAt'[b] # NoStamp
  BY BudgetsAssumption DEF Consume, BucketInv, BudgetTypeOK
<1>5. /\ tokens'[b] = IF level >= Cost THEN level - Cost ELSE level
      /\ granted'[b] = IF level >= Cost THEN granted[b] + 1 ELSE granted[b]
      /\ first'[b] = IF stampedAt[b] = NoStamp THEN now ELSE first[b]
      /\ setBack'[b] = IF stampedAt[b] = NoStamp THEN 0
                       ELSE setBack[b] + Most(0, stampedAt[b] - now)
  BY DEF Consume, BucketInv, BudgetTypeOK
<1>6. granted'[b] * Cost + tokens'[b] = granted[b] * Cost + level
  <2>1. (granted[b] + 1) * Cost = granted[b] * Cost + Cost  BY <1>3
  <2>2. granted[b] * Cost \in Int  BY <1>3
  <2> QED  BY <1>2, <1>3, <1>5, <2>1, <2>2
<1>7. granted[b] * Cost + level <= c + R * (now - first'[b] + setBack'[b])
  <2>1. CASE stampedAt[b] = NoStamp
    <3>1. granted[b] = 0  BY <2>1 DEF BucketInv, Account
    <3>2. level = c  BY <2>1, LevelBounds
    <3>3. now - first'[b] + setBack'[b] = 0  BY <1>5, <2>1
    <3> QED  BY <1>1, <1>3, <3>1, <3>2, <3>3
  <2>2. CASE stampedAt[b] # NoStamp
    <3>1. granted[b] * Cost + tokens[b] <= c + R * (stampedAt[b] - first[b] + setBack[b])
      BY <2>2 DEF BucketInv, Account
    <3>2. level <= tokens[b] + Most(0, now - stampedAt[b]) * R  BY <2>2, LevelBounds
    <3>3. stampedAt[b] \in Int  BY <1>3, <2>2
    <3> HIDE DEF level, c, R
    <3>4. granted[b] * Cost + level
            <= c + R * (now - first[b] + (setBack[b] + Most(0, stampedAt[b] - now)))
      BY <1>1, <1>2, <1>3, <3>1, <3>2, <3>3, Refilled
    <3> QED  BY <1>5, <2>2, <3>4
  <2> QED  BY <2>1, <2>2
<1>8. granted'[b] * Cost + tokens'[b] <= c + R * (now - first'[b] + setBack'[b])
  BY <1>6, <1>7
<1>9. tokens'[b] >= 0  BY <1>2, <1>3, <1>5
<1> QED  BY <1>4, <1>8, <1>9 DEF Account

LEMMA ChargeAccounts ==
  ASSUME BucketInv, NEW r \in Request, Charge(r)
  PROVE  \A b \in Bucket : Account(b)' /\ tokens'[b] >= 0
<1> DEFINE q == request[r]
           x == <<q.scopes[q.at], Principal(q.from, q.scopes[q.at])>>
<1>1. x \in Bucket /\ q.now \in Int  BY ChargedBucket DEF Charge, BucketInv
<1>2. Consume(x, q.now)  BY DEF Charge
<1> HIDE DEF x, q
<1>0. PICK y \in Bucket, t \in Int : y = x /\ t = q.now  BY <1>1
<1>9. Consume(y, t)  BY <1>0, <1>2
<1>3. Account(y)' /\ tokens'[y] >= 0  BY <1>9, ConsumeAccounts
<1>4. ASSUME NEW b \in Bucket, b # y PROVE Account(b)' /\ tokens'[b] >= 0
  <2>1. /\ tokens'[b] = tokens[b] /\ stampedAt'[b] = stampedAt[b]
        /\ first'[b] = first[b] /\ granted'[b] = granted[b]
        /\ setBack'[b] = setBack[b]
    BY <1>9, <1>4 DEF Consume, BucketInv, BudgetTypeOK
  <2> QED  BY <2>1 DEF BucketInv, Account
<1> QED  BY <1>3, <1>4

(* BucketInv is an invariant: a charge adds the same to both sides. *)
LEMMA BucketInvariant == BudgetSpec => []BucketInv
<1>1. BudgetInit => BucketInv
  BY TypesInit, BudgetsAssumption DEF BudgetInit, BucketInv, Account
<1>2. ASSUME BucketInv, BudgetTypeOK', [BudgetNext]_budgetVars PROVE BucketInv'
  <2>1. CASE \E r \in Request : Charge(r)
    BY <1>2, <2>1, ChargeAccounts DEF BucketInv
  <2>2. CASE UNCHANGED bucketVars
    BY <1>2, <2>2 DEF bucketVars, BucketInv, Account
  <2> QED
    BY <1>2, <2>1, <2>2 DEF BudgetNext, BudgetTick, Arrive, Acquire, Release, Dies,
                            budgetVars
<1> QED  BY <1>1, <1>2, BudgetTypes, PTL DEF BudgetSpec

(* No interleaving of requests overdraws a bucket. *)
THEOREM BucketsHold == BudgetSpec => []BudgetHolds
<1>1. BucketInv => BudgetHolds
  <2> SUFFICES ASSUME BucketInv, NEW b \in Bucket, stampedAt[b] # NoStamp
               PROVE  granted[b] * Cost <= Capacity[b[1]]
                        + Refill[b[1]] * (stampedAt[b] - first[b] + setBack[b])
    BY DEF BudgetHolds
  <2> DEFINE g == granted[b] * Cost
             all == Capacity[b[1]] + Refill[b[1]] * (stampedAt[b] - first[b] + setBack[b])
  <2>1. g + tokens[b] <= all /\ tokens[b] >= 0  BY DEF BucketInv, Account
  <2>2. tokens[b] \in Int /\ g \in Int
    BY BudgetsAssumption DEF BucketInv, BudgetTypeOK
  <2>3. all \in Int
    <3>1. stampedAt[b] - first[b] + setBack[b] \in Int
      BY DEF BucketInv, BudgetTypeOK
    <3> QED  BY <3>1, BucketParameters
  <2> HIDE DEF g, all
  <2>4. g <= all  BY <2>1, <2>2, <2>3
  <2> QED  BY <2>4 DEF g, all
<1> QED  BY <1>1, BucketInvariant, PTL

----------------------------------------------------------------------------
(* The leases. *)

(* A later clock sees no more leases. *)
LEMMA FewerLeases ==
  ASSUME BudgetTypeOK, IsFiniteSet(leases), NEW scope, NEW p,
         NEW L, L \subseteq leases, NEW t \in Int, NEW u \in Int, t <= u
  PROVE  /\ IsFiniteSet(LeasesOf(scope, p, t))
         /\ {l \in L : Principal(l.from, scope) = p /\ l.expires > u}
              \subseteq LeasesOf(scope, p, t)
         /\ Cardinality({l \in L : Principal(l.from, scope) = p /\ l.expires > u})
              <= Cardinality(LeasesOf(scope, p, t))
<1>1. IsFiniteSet(LeasesOf(scope, p, t))
  <2>1. LeasesOf(scope, p, t) \subseteq leases  BY DEF LeasesOf
  <2> QED  BY <2>1, FS_Subset
<1>2. {l \in L : Principal(l.from, scope) = p /\ l.expires > u}
        \subseteq LeasesOf(scope, p, t)
  <2> SUFFICES ASSUME NEW l \in leases, l.expires > u PROVE l.expires > t
    BY DEF LeasesOf
  <2>1. l.expires \in Int  BY DEF BudgetTypeOK, LeaseRow
  <2> QED  BY <2>1
<1> QED  BY <1>1, <1>2, FS_Subset

(* Taking a lease keeps every limit, because the taker counted with a clock *)
(* that is no later than anyone's.                                          *)
LEMMA AcquireLimits ==
  ASSUME LeaseInv, NEW r \in Request, Acquire(r) PROVE LeaseLimits' /\ IsFiniteSet(leases')
<1> DEFINE q == request[r]
           left == {l \in leases : l.expires > q.now}
           mine == [id |-> q.id, from |-> q.from, expires |-> q.now + LeaseTtl]
<1>1. q.now \in Int /\ q.now <= clock /\ clock \in Int
  <2>1. q # NoRequest  BY DEF Acquire, NoRequest
  <2> QED  BY <2>1, Shapes DEF LeaseInv, BudgetTypeOK
<1>2. IsFiniteSet(left) /\ IsFiniteSet(left \cup {mine})
  <2>1. IsFiniteSet(leases) /\ left \subseteq leases  BY DEF LeaseInv
  <2>2. IsFiniteSet(left)  BY <2>1, FS_Subset
  <2> QED  BY <2>2, FS_AddElement
<1>3. clock' = clock  BY DEF Acquire
<1>4. \/ Fits(q.from, q.now) /\ leases' = left \cup {mine}
      \/ leases' = left
  BY DEF Acquire
<1>5. IsFiniteSet(leases')  BY <1>2, <1>4
<1>6. ASSUME NEW s \in Sender, NEW scope \in LeaseScope
      PROVE  Cardinality(LeasesOf(scope, Principal(s, scope), clock)')
               <= MaxLeases[scope]
  <2> DEFINE p == Principal(s, scope)
             kept == {l \in left : Principal(l.from, scope) = p /\ l.expires > clock}
  <2>1. MaxLeases[scope] \in Nat  BY BudgetsAssumption
  <2>2. Cardinality(LeasesOf(scope, p, clock)) <= MaxLeases[scope]
    BY DEF LeaseInv, LeaseLimits
  <2>3. /\ IsFiniteSet(LeasesOf(scope, p, clock)) /\ kept \subseteq LeasesOf(scope, p, clock)
        /\ Cardinality(kept) <= Cardinality(LeasesOf(scope, p, clock))
    <3>1. left \subseteq leases  OBVIOUS
    <3>2. BudgetTypeOK /\ IsFiniteSet(leases) /\ clock <= clock
      BY <1>1 DEF LeaseInv
    <3> HIDE DEF left
    <3> QED  BY <1>1, <3>1, <3>2, FewerLeases
  <2>4. IsFiniteSet(kept)  BY <2>3, FS_Subset
  <2>5. Cardinality(kept) \in Nat /\ Cardinality(LeasesOf(scope, p, clock)) \in Nat
    BY <2>3, <2>4, FS_CardinalityType
  <2>6. Cardinality(kept) <= MaxLeases[scope]  BY <2>1, <2>2, <2>3, <2>5
  <2>7. CASE leases' = left
    <3>1. LeasesOf(scope, p, clock)' = kept  BY <1>3, <2>7 DEF LeasesOf
    <3> QED  BY <2>6, <3>1
  <2>8. CASE Fits(q.from, q.now) /\ leases' = left \cup {mine}
    <3>1. CASE ~(Principal(q.from, scope) = p)
      <4>1. LeasesOf(scope, p, clock)' = kept
        BY <1>3, <2>8, <3>1 DEF LeasesOf
      <4> QED  BY <2>6, <4>1
    <3>2. CASE Principal(q.from, scope) = p
      <4>1. Cardinality(LeasesOf(scope, p, q.now)) < MaxLeases[scope]
        BY <2>8, <3>2 DEF Fits
      <4>2. IsFiniteSet(LeasesOf(scope, p, q.now))
            /\ Cardinality(kept) <= Cardinality(LeasesOf(scope, p, q.now))
        <5>1. left \subseteq leases  OBVIOUS
        <5>2. BudgetTypeOK /\ IsFiniteSet(leases)  BY DEF LeaseInv
        <5> HIDE DEF left, q
        <5> QED  BY <1>1, <5>1, <5>2, FewerLeases
      <4>3. Cardinality(LeasesOf(scope, p, q.now)) \in Nat  BY <4>2, FS_CardinalityType
      <4>4. Cardinality(kept) + 1 <= MaxLeases[scope]
        BY <2>1, <2>5, <4>1, <4>2, <4>3
      <4>5. LeasesOf(scope, p, clock)' \subseteq kept \cup {mine}
        BY <1>3, <2>8 DEF LeasesOf
      <4>6. IsFiniteSet(kept \cup {mine})
            /\ Cardinality(kept \cup {mine}) <= Cardinality(kept) + 1
        <5> HIDE DEF kept, mine
        <5>1. /\ IsFiniteSet(kept \cup {mine})
              /\ Cardinality(kept \cup {mine}) = IF mine \in kept THEN Cardinality(kept)
                                                ELSE Cardinality(kept) + 1
          BY <2>4, FS_AddElement
        <5> QED  BY <2>5, <5>1
      <4>7. /\ IsFiniteSet(LeasesOf(scope, p, clock)')
            /\ Cardinality(LeasesOf(scope, p, clock)') <= Cardinality(kept \cup {mine})
        BY <4>5, <4>6, FS_Subset
      <4>8. Cardinality(LeasesOf(scope, p, clock)') \in Nat
            /\ Cardinality(kept \cup {mine}) \in Nat
        BY <4>6, <4>7, FS_CardinalityType
      <4> QED  BY <2>1, <2>5, <4>4, <4>6, <4>7, <4>8
    <3> QED  BY <3>1, <3>2
  <2> QED  BY <1>4, <2>7, <2>8
<1> QED  BY <1>3, <1>5, <1>6 DEF LeaseLimits

(* Leases that go, and a clock that advances, keep the limits. *)
LEMMA ShrinkingLimits ==
  ASSUME LeaseInv, leases' \subseteq leases, clock' \in Int, clock <= clock'
  PROVE  LeaseLimits' /\ IsFiniteSet(leases')
<1>1. IsFiniteSet(leases')  BY FS_Subset DEF LeaseInv
<1>2. ASSUME NEW s \in Sender, NEW scope \in LeaseScope
      PROVE  Cardinality(LeasesOf(scope, Principal(s, scope), clock)') <= MaxLeases[scope]
  <2> DEFINE p == Principal(s, scope)
             kept == {l \in leases' : Principal(l.from, scope) = p /\ l.expires > clock'}
  <2>1. LeasesOf(scope, p, clock)' = kept  BY DEF LeasesOf
  <2>2. /\ IsFiniteSet(LeasesOf(scope, p, clock)) /\ kept \subseteq LeasesOf(scope, p, clock)
        /\ Cardinality(kept) <= Cardinality(LeasesOf(scope, p, clock))
    <3>1. clock \in Int  BY DEF LeaseInv, BudgetTypeOK
    <3> QED  BY <3>1, FewerLeases DEF LeaseInv
  <2>3. IsFiniteSet(kept)  BY <2>2, FS_Subset
  <2>4. Cardinality(kept) \in Nat /\ Cardinality(LeasesOf(scope, p, clock)) \in Nat
    BY <2>2, <2>3, FS_CardinalityType
  <2>5. Cardinality(LeasesOf(scope, p, clock)) <= MaxLeases[scope]
        /\ MaxLeases[scope] \in Nat
    BY BudgetsAssumption DEF LeaseInv, LeaseLimits
  <2> QED  BY <2>1, <2>2, <2>4, <2>5
<1> QED  BY <1>1, <1>2 DEF LeaseLimits

(* LeaseInv is an invariant. *)
LEMMA LeaseInvariant == BudgetSpec => []LeaseInv
<1>1. BudgetInit => LeaseInv
  <2> SUFFICES ASSUME BudgetInit PROVE LeaseInv  OBVIOUS
  <2>1. leases = {} /\ IsFiniteSet({}) /\ Cardinality({}) = 0
    BY FS_EmptySet DEF BudgetInit
  <2>2. \A scope, p, t : LeasesOf(scope, p, t) = {}  BY <2>1 DEF LeasesOf
  <2>3. LeaseLimits
    <3> SUFFICES ASSUME NEW s \in Sender, NEW scope \in LeaseScope
                 PROVE  Cardinality(LeasesOf(scope, Principal(s, scope), clock))
                          <= MaxLeases[scope]
      BY DEF LeaseLimits
    <3>1. LeasesOf(scope, Principal(s, scope), clock) = {}  BY <2>2
    <3>2. MaxLeases[scope] \in Nat  BY BudgetsAssumption
    <3> QED  BY <2>1, <3>1, <3>2
  <2> QED  BY TypesInit, <2>1, <2>3 DEF BudgetInit, LeaseInv
<1>2. ASSUME LeaseInv, BudgetTypeOK', [BudgetNext]_budgetVars PROVE LeaseInv'
  <2>1. clock \in Int /\ clock' \in Int  BY <1>2 DEF LeaseInv, BudgetTypeOK
  <2>2. \A r \in Request : request'[r] # NoRequest => request'[r].now <= clock'
    <3>1. CASE \E p \in Request : Arrive(p)
      <4> PICK p \in Request : Arrive(p)  BY <3>1
      <4>1. clock' = clock /\ request'[p].now = clock
            /\ \A r \in Request \ {p} : request'[r] = request[r]
        BY <1>2 DEF Arrive, LeaseInv, BudgetTypeOK
      <4> QED  BY <1>2, <2>1, <4>1 DEF LeaseInv
    <3>2. CASE \E p \in Request : Charge(p)
      <4> PICK p \in Request : Charge(p)  BY <3>2
      <4>1. request[p] # NoRequest  BY DEF Charge, NoRequest
      <4>2. clock' = clock /\ \A r \in Request \ {p} : request'[r] = request[r]
        BY <1>2 DEF Charge, LeaseInv, BudgetTypeOK
      <4>3. request'[p] = NoRequest \/ request'[p].now = request[p].now
        <5>1. request[p] \in Charging
          BY <1>2, Shapes DEF Charge, LeaseInv
        <5>2. \/ request' = [request EXCEPT ![p] = NoRequest]
              \/ request' = [request EXCEPT ![p] = [request[p] EXCEPT !.at = @ + 1]]
              \/ request' = [request EXCEPT ![p] = [request[p] EXCEPT !.doing = "lease"]]
          BY DEF Charge
        <5> QED  BY <1>2, <5>1, <5>2 DEF LeaseInv, BudgetTypeOK, Charging
      <4> QED  BY <1>2, <2>1, <4>1, <4>2, <4>3 DEF LeaseInv
    <3>3. CASE \E p \in Request : Acquire(p)
      <4> PICK p \in Request : Acquire(p)  BY <3>3
      <4>1. request[p] # NoRequest  BY DEF Acquire, NoRequest
      <4>2. clock' = clock /\ \A r \in Request \ {p} : request'[r] = request[r]
        BY <1>2 DEF Acquire, LeaseInv, BudgetTypeOK
      <4>3. request'[p] = NoRequest \/ request'[p].now = request[p].now
        <5>1. request[p] \in Leasing
          BY <1>2, Shapes DEF Acquire, LeaseInv
        <5>2. \/ request' = [request EXCEPT ![p] = NoRequest]
              \/ request' = [request EXCEPT ![p] = [request[p] EXCEPT !.doing = "serve"]]
          BY DEF Acquire
        <5> QED  BY <1>2, <5>1, <5>2 DEF LeaseInv, BudgetTypeOK, Leasing
      <4> QED  BY <1>2, <2>1, <4>1, <4>2, <4>3 DEF LeaseInv
    <3>4. CASE \/ BudgetTick \/ UNCHANGED budgetVars
               \/ \E p \in Request : Release(p) \/ Dies(p)
      <4>1. CASE BudgetTick
        <5>1. \A r \in Request : request[r] # NoRequest => request[r].now \in Int
          BY <1>2, Shapes DEF LeaseInv
        <5> QED  BY <1>2, <2>1, <4>1, <5>1 DEF BudgetTick, LeaseInv
      <4>2. CASE UNCHANGED budgetVars  BY <1>2, <2>1, <4>2 DEF budgetVars, LeaseInv
      <4>3. CASE \E p \in Request : Release(p) \/ Dies(p)
        BY <1>2, <2>1, <4>3 DEF Release, Dies, LeaseInv, BudgetTypeOK
      <4> QED  BY <3>4, <4>1, <4>2, <4>3
    <3> QED  BY <1>2, <3>1, <3>2, <3>3, <3>4 DEF BudgetNext
  <2>3. LeaseLimits' /\ IsFiniteSet(leases')
    <3>1. CASE \E r \in Request : Acquire(r)  BY <1>2, <3>1, AcquireLimits
    <3>2. CASE leases' \subseteq leases /\ clock <= clock'
      BY <1>2, <2>1, <3>2, ShrinkingLimits
    <3> QED
      <4>1. CASE BudgetTick  BY <2>1, <3>2, <4>1 DEF BudgetTick
      <4>2. CASE UNCHANGED budgetVars  BY <2>1, <3>2, <4>2 DEF budgetVars
      <4>3. CASE \E r \in Request : Arrive(r) \/ Charge(r) \/ Release(r) \/ Dies(r)
        BY <2>1, <3>2, <4>3 DEF Arrive, Charge, Release, Dies
      <4> QED  BY <1>2, <3>1, <4>1, <4>2, <4>3 DEF BudgetNext
  <2> QED  BY <1>2, <2>2, <2>3 DEF LeaseInv
<1> QED  BY <1>1, <1>2, BudgetTypes, PTL DEF BudgetSpec

(* The concurrency budgets hold for every clock and after every crash. *)
THEOREM LeasesWithinLimits == BudgetSpec => []LeaseLimits
<1>1. LeaseInv => LeaseLimits  BY DEF LeaseInv
<1> QED  BY <1>1, LeaseInvariant, PTL
=============================================================================
