--------------------------- MODULE Relationships ---------------------------
(***************************************************************************)
(* Spaces that follow each other: RelationshipService of relationships.py  *)
(* and the inbox route of web.py on every node, over the relationship and  *)
(* block tables of store.py and the queue that connects the nodes.         *)
(*                                                                         *)
(* A node's web process is one asynchronous worker whose handlers never    *)
(* wait between two store calls, so one handler at a time is under way on  *)
(* a node.  It can die between two of its calls.  Posting to a peer is the *)
(* delivery worker's, another process: module DeliveryQueue says what it   *)
(* does, and module Channel what reaches the peer: the head of a queue per *)
(* pair of nodes, perhaps several times, until its answer is recorded or   *)
(* it is given up; and at any time what was taken out of the queue.        *)
(***************************************************************************)
EXTENDS Naturals, SequencesExt

CONSTANTS
    Node, Circle,
    None,        \* the absent value
    MaxId,       \* bound on the activities queued
    MaxFaults,   \* bound on lost answers, given up deliveries and crashes
    OwnerOps     \* the owners' operations exercised: a bound as well

ASSUME BoundAssumption ==
    /\ MaxId \in Nat /\ MaxFaults \in Nat
    /\ OwnerOps \subseteq {"follow", "unfollow", "remove", "block", "domain", "circle",
                            "leave"}

\* <<n, m>>: what node n knows of node m's actor, and what it queues for it.
Pair == {p \in Node \X Node : p[1] # p[2]}
Rev(p) == <<p[2], p[1]>>

\* Identifiers are numbered in the order they are drawn; 0 stands for NULL.
Row == [outbound : {"none", "pending", "following", "rejected", "removed",
                    "remote-deleted"},
        inbound : {"none", "pending", "follower", "rejected", "removed"},
        outId : Nat, inId : Nat, blocked : BOOLEAN]

Kind == {"Follow", "Accept", "Reject", "Undo", "Delete"}

\* follow is the Follow an activity is or refers to.
Activity == [id : Nat, kind : Kind, follow : Nat]

\* What a web process has begun: to save a row, to dispatch an admitted activity.
Task == [do : {"idle", "save", "dispatch"}, pair : Pair \cup {None},
         row : Row \cup {None}, act : Activity \cup {None}, fresh : BOOLEAN]

VARIABLES
    known,          \* remote_actors: the pairs that were discovered
    rel,            \* relationships
    domainBlocked,  \* domain_blocks, as the pairs they concern
    circles,        \* circle_members of a pair
    receipts,       \* inbox_receipts: the activities a node has recorded
    queue,          \* deliveries from one node to another, oldest first
    strays,         \* deliveries that were cancelled, given up or requeued
    nextId,         \* the next activity identifier
    web,            \* the task of a node's web process
    faults,         \* history: faults so far
    granted,        \* history: Follows a node's owner has accepted
    applied,        \* history: Follows that became a node's pending request
    reapplied,      \* history: Follows that did so a second time
    cut             \* history: pairs whose conversation lost an activity

policyVars  == <<known, domainBlocked>>
historyVars == <<granted, applied, reapplied>>
vars == <<policyVars, rel, circles, receipts, queue, nextId, web, faults,
          historyVars, cut, strays>>

Nothing == [do |-> "idle", pair |-> None, row |-> None, act |-> None, fresh |-> FALSE]

Idle(n) == web[n].do = "idle"

NewRow == [outbound |-> "none", inbound |-> "none", outId |-> 0, inId |-> 0,
           blocked |-> FALSE]

Init ==
    /\ known = {} /\ domainBlocked = {}
    /\ rel = [p \in Pair |-> NewRow]
    /\ circles = [p \in Pair |-> {}]
    /\ receipts = [n \in Node |-> {}]
    /\ queue = [p \in Pair |-> <<>>]
    /\ strays = [p \in Pair |-> {}]
    /\ nextId = 1
    /\ web = [n \in Node |-> Nothing]
    /\ faults = 0
    /\ granted = [n \in Node |-> {}]
    /\ applied = [n \in Node |-> {}]
    /\ reapplied = [n \in Node |-> {}]
    /\ cut = {}

-----------------------------------------------------------------------------
(* Rows.                                                                   *)

\* A plausible slip: the row's own flag, without the domain's.
ReadRowOnly(p) == rel[p]

\* A relationship as it is read: an actor of a blocked domain is blocked.
Read(p) == [rel[p] EXCEPT !.blocked = @ \/ p \in domainBlocked]

Friend(r) == r.outbound = "following" /\ r.inbound = "follower"

\* A plausible slip: only a block takes an actor out of the circles.
StaysUnlessBlocked(r) == ~r.blocked

StaysInCircles(r) == Friend(r) /\ ~r.blocked

\* save_relationship: the whole row is written back.
Save(p, r) ==
    /\ rel' = [rel EXCEPT ![p] = r]
    /\ circles' = IF StaysInCircles(r) THEN circles ELSE [circles EXCEPT ![p] = {}]

\* A plausible slip: a state the table does not know.
SeveredAsBlocked(r) == [r EXCEPT !.outbound = "blocked", !.inbound = "removed",
                                 !.outId = 0, !.inId = 0]

\* What a block leaves of a relationship.
Severed(r) == [r EXCEPT !.outbound = "removed", !.inbound = "removed",
                        !.outId = 0, !.inId = 0]

-----------------------------------------------------------------------------
(* The owner's requests.                                                   *)

\* A request of the owner for a pair, served when the web process is free.
Request(p, op) == op \in OwnerOps /\ Idle(p[1]) /\ p \in known

\* An activity is queued, and the row waits to be saved.
QueueThenSave(p, kind, follow, r) ==
    /\ nextId <= MaxId
    /\ nextId' = nextId + 1
    /\ queue' = [queue EXCEPT ![p] =
                   Append(@, [id |-> nextId, kind |-> kind, follow |-> follow])]
    /\ web' = [web EXCEPT ![p[1]] =
                 [do |-> "save", pair |-> p, row |-> r, act |-> None, fresh |-> FALSE]]
    /\ UNCHANGED <<policyVars, rel, circles, receipts, faults, applied,
                   reapplied, cut, strays>>

\* discover: unless the domain is blocked; what was known is kept.
Discover(p) ==
    /\ "follow" \in OwnerOps /\ Idle(p[1])
    /\ p \notin known /\ p \notin domainBlocked
    /\ known' = known \cup {p}
    /\ UNCHANGED <<domainBlocked, rel, circles, receipts, queue, nextId, web, faults,
                   historyVars, cut, strays>>

SendFollow(p) ==
    /\ Request(p, "follow")
    /\ LET r == Read(p)
       IN /\ ~r.blocked /\ r.outbound \in {"none", "removed", "rejected"}
          /\ QueueThenSave(p, "Follow", nextId,
                           [r EXCEPT !.outbound = "pending", !.outId = nextId])
    /\ UNCHANGED granted

\* accept_follower and reject_follower.
Answer(p) ==
    /\ Request(p, "follow")
    /\ LET r == Read(p)
       IN /\ ~r.blocked /\ r.inbound = "pending"
          /\ \/ /\ QueueThenSave(p, "Accept", r.inId, [r EXCEPT !.inbound = "follower"])
                /\ granted' = [granted EXCEPT ![p[1]] = @ \cup {r.inId}]
             \/ /\ QueueThenSave(p, "Reject", r.inId, [r EXCEPT !.inbound = "rejected"])
                /\ UNCHANGED granted

Unfollow(p) ==
    /\ Request(p, "unfollow")
    /\ LET r == Read(p)
       IN /\ r.outbound \in {"pending", "following"}
          /\ QueueThenSave(p, "Undo", r.outId, [r EXCEPT !.outbound = "removed"])
    /\ UNCHANGED granted

\* The second half of the three above.
FinishSave(n) ==
    /\ web[n].do = "save"
    /\ Save(web[n].pair, web[n].row)
    /\ web' = [web EXCEPT ![n] = Nothing]
    /\ UNCHANGED <<policyVars, receipts, queue, nextId, faults, historyVars,
                   cut, strays>>

\* remove_follower tells the peer nothing.
RemoveFollower(p) ==
    /\ Request(p, "remove")
    /\ LET r == Read(p)
       IN /\ r.inbound \in {"pending", "follower"}
          /\ Save(p, [r EXCEPT !.inbound = "removed"])
    /\ UNCHANGED <<policyVars, receipts, queue, nextId, web, faults,
                   historyVars, cut, strays>>

\* set_circle_members of the store: one circle's members, all of them friends.
Eligible(p) == Friend(rel[p]) /\ ~rel[p].blocked /\ p \notin domainBlocked

SetCircle(n, c) ==
    /\ "circle" \in OwnerOps /\ Idle(n)
    /\ \E S \in SUBSET {p \in Pair : p[1] = n /\ Eligible(p)} :
          circles' = [p \in Pair |-> CASE p \in S -> circles[p] \cup {c}
                                       [] p[1] = n /\ p \notin S -> circles[p] \ {c}
                                       [] OTHER -> circles[p]]
    /\ UNCHANGED <<policyVars, rel, receipts, queue, nextId, web, faults,
                   historyVars, cut, strays>>

\* A block cancels what is queued for the actor, and so does lifting one.
Cancel(p) ==
    /\ queue' = [queue EXCEPT ![p] = <<>>]
    /\ strays' = [strays EXCEPT ![p] = @ \cup ToSet(queue[p])]
    /\ cut' = cut \cup {p}

ApplyActorBlock(p, blocked) ==
    /\ Request(p, "block")
    /\ rel' = [rel EXCEPT ![p] = [Severed(@) EXCEPT !.blocked = blocked]]
    /\ circles' = [circles EXCEPT ![p] = {}]
    /\ Cancel(p)
    /\ UNCHANGED <<policyVars, receipts, nextId, web, faults, historyVars>>

BlockActor(p) == ApplyActorBlock(p, TRUE)
UnblockActor(p) == ApplyActorBlock(p, FALSE)

\* block_domain: also for domains no actor of which is known; the flag of the
\* row stays as it is.
BlockDomain(p) ==
    /\ "domain" \in OwnerOps /\ Idle(p[1])
    /\ p \notin domainBlocked /\ domainBlocked' = domainBlocked \cup {p}
    /\ IF p \in known
       THEN /\ rel' = [rel EXCEPT ![p] = Severed(@)]
            /\ circles' = [circles EXCEPT ![p] = {}]
            /\ Cancel(p)
       ELSE UNCHANGED <<rel, circles, queue, cut, strays>>
    /\ UNCHANGED <<known, receipts, nextId, web, faults, historyVars>>

UnblockDomain(p) ==
    /\ "domain" \in OwnerOps /\ Idle(p[1])
    /\ p \in domainBlocked /\ domainBlocked' = domainBlocked \ {p}
    /\ UNCHANGED <<known, rel, circles, receipts, queue, nextId, web, faults,
                   historyVars, cut, strays>>

-----------------------------------------------------------------------------
(* The inbox.                                                              *)

\* An activity reaches the peer, which records a receipt for it.
Receive(p, a) ==
    /\ Idle(p[2])
    /\ receipts' = [receipts EXCEPT ![p[2]] = @ \cup {a.id}]
    /\ web' = [web EXCEPT ![p[2]] =
                 [do |-> "dispatch", pair |-> Rev(p), row |-> None, act |-> a,
                  fresh |-> a.id \notin receipts[p[2]]]]
    /\ UNCHANGED <<policyVars, rel, circles, queue, nextId, faults,
                   historyVars, cut, strays>>

\* The head of a queue in its turn; a post that was under way when its delivery
\* was cancelled, or a requeued one, out of turn.
Admit(p) == queue[p] # <<>> /\ Receive(p, Head(queue[p]))

AdmitStray(p) == \E a \in strays[p] : Receive(p, a)

\* A plausible slip: a duplicate is acknowledged and not looked at again.
HandedOnOnce(fresh) == fresh

\* Both "accepted" and "duplicate" are handed on to relationships.receive.
HandedOn(fresh) == fresh \in {TRUE, FALSE}

\* A plausible slip: a Follow always makes a request.
RequestableAlways(r) == TRUE

Requestable(r) == r.inbound \in {"none", "removed", "rejected"}

\* A plausible slip: any answer will do while a request is open.
AnswersAny(r, a) == r.outbound = "pending"

Answers(r, a) == r.outbound = "pending" /\ a.follow = r.outId

\* A plausible slip: the wrong one of the two identifiers.
UndoesOwn(r, a) == a.follow = r.outId

Undoes(r, a) == a.follow = r.inId

\* The row that relationships.receive saves, or the one it read.
Received(r, a) ==
    CASE a.kind = "Follow" /\ Requestable(r) ->
           [r EXCEPT !.inbound = "pending", !.inId = a.follow]
      [] a.kind = "Accept" /\ Answers(r, a) -> [r EXCEPT !.outbound = "following"]
      [] a.kind = "Reject" /\ Answers(r, a) -> [r EXCEPT !.outbound = "rejected"]
      [] a.kind = "Undo" /\ Undoes(r, a) -> [r EXCEPT !.inbound = "removed"]
      [] a.kind = "Delete" ->
           [r EXCEPT !.outbound = "remote-deleted", !.inbound = "removed"]
      [] OTHER -> r

\* An unknown sender is discovered first, unless its domain is blocked.
Effective(p, a) == ~Read(p).blocked /\ Received(Read(p), a) # Read(p)

Note(n, p, a) ==
    IF a.kind = "Follow" /\ Effective(p, a) /\ HandedOn(web[n].fresh)
    THEN /\ applied' = [applied EXCEPT ![n] = @ \cup {a.follow}]
         /\ reapplied' = [reapplied EXCEPT ![n] = @ \cup (applied[n] \cap {a.follow})]
    ELSE UNCHANGED <<applied, reapplied>>

\* The sender's worker records the answer, or it is lost on the way.
Acknowledge(p, a) ==
    \/ /\ queue' = [queue EXCEPT ![p] = IF @ # <<>> /\ Head(@) = a THEN Tail(@) ELSE @]
       /\ UNCHANGED faults
    \/ /\ faults < MaxFaults /\ faults' = faults + 1
       /\ UNCHANGED queue

Dispatch(n) ==
    /\ web[n].do = "dispatch"
    /\ LET p == web[n].pair
           a == web[n].act
       IN /\ known' = IF HandedOn(web[n].fresh) /\ p \notin domainBlocked
                      THEN known \cup {p} ELSE known
          /\ IF Effective(p, a) /\ HandedOn(web[n].fresh)
             THEN Save(p, Received(Read(p), a)) ELSE UNCHANGED <<rel, circles>>
          /\ Note(n, p, a)
          /\ Acknowledge(Rev(p), a)
    /\ web' = [web EXCEPT ![n] = Nothing]
    /\ UNCHANGED <<domainBlocked, receipts, nextId, granted, cut, strays>>

-----------------------------------------------------------------------------
(* What goes wrong, and what other software may send.                      *)

\* A delivery ends as a dead letter, whether it reached the peer or not, or
\* the owner discards it.
GiveUp(p) ==
    /\ faults < MaxFaults /\ faults' = faults + 1
    /\ \E i \in 1..Len(queue[p]) :
          /\ queue' = [queue EXCEPT ![p] = RemoveAt(@, i)]
          /\ strays' = [strays EXCEPT ![p] = @ \cup {queue[p][i]}]
    /\ cut' = cut \cup {p}
    /\ UNCHANGED <<policyVars, rel, circles, receipts, nextId, web, historyVars>>

\* A web process dies between two store calls of a handler.
Crash(n) ==
    /\ faults < MaxFaults /\ faults' = faults + 1
    /\ ~Idle(n)
    /\ web' = [web EXCEPT ![n] = Nothing]
    /\ cut' = IF web[n].do = "save" THEN cut \cup {web[n].pair} ELSE cut
    /\ UNCHANGED <<policyVars, rel, circles, receipts, queue, strays, nextId,
                   historyVars>>

\* The peer deletes its account: a Space does not announce it, others do.
Leave(p) ==
    /\ Request(p, "leave") /\ ~Read(p).blocked
    /\ nextId <= MaxId /\ nextId' = nextId + 1
    /\ queue' = [queue EXCEPT ![p] =
                   Append(@, [id |-> nextId, kind |-> "Delete", follow |-> 0])]
    /\ cut' = cut \cup {p}
    /\ UNCHANGED <<policyVars, rel, circles, receipts, strays, web, faults,
                   historyVars>>

Process(n) == FinishSave(n) \/ Dispatch(n)

Owner(p) == \/ Discover(p) \/ SendFollow(p) \/ Answer(p) \/ Unfollow(p)
            \/ RemoveFollower(p) \/ BlockActor(p) \/ UnblockActor(p)
            \/ BlockDomain(p) \/ UnblockDomain(p)

Next == \/ \E p \in Pair : \/ Owner(p) \/ Admit(p) \/ AdmitStray(p)
                           \/ GiveUp(p) \/ Leave(p)
        \/ \E n \in Node : \/ Process(n) \/ Crash(n)
                           \/ \E c \in Circle : SetCircle(n, c)

Spec == Init /\ [][Next]_vars

-----------------------------------------------------------------------------
(* Properties.                                                             *)

\* Types of the rows, the queues and the web processes' tasks.
TypeOK ==
    /\ known \in SUBSET Pair /\ domainBlocked \in SUBSET Pair /\ cut \in SUBSET Pair
    /\ rel \in [Pair -> Row]
    /\ circles \in [Pair -> SUBSET Circle]
    /\ queue \in [Pair -> Seq(Activity)] /\ strays \in [Pair -> SUBSET Activity]
    /\ nextId \in Nat /\ faults \in Nat
    /\ web \in [Node -> Task]
    /\ receipts \in [Node -> SUBSET Nat] /\ granted \in [Node -> SUBSET Nat]
    /\ applied \in [Node -> SUBSET Nat] /\ reapplied \in [Node -> SUBSET Nat]

\* "Following" means that the other owner accepted this very Follow, however
\* often and late answers to older ones arrive; "Follower" means that this
\* owner accepted the Follow the row names.
FollowsAreEarned ==
    \A p \in Pair :
        /\ rel[p].outbound = "following" => rel[p].outId \in granted[p[2]]
        /\ rel[p].inbound = "follower" => rel[p].inId \in granted[p[1]]

\* The handshake keeps the promise of module Handshake: nothing is claimed or
\* shown but by its steps, whatever is repeated, late, lost or interrupted.
Claimed(r) ==
    IF r.outbound \in {"pending", "following"}
    THEN [is |-> r.outbound, of |-> r.outId] ELSE [is |-> "none", of |-> 0]

Displayed(r) ==
    IF r.inbound \in {"pending", "follower"}
    THEN [is |-> r.inbound, of |-> r.inId] ELSE [is |-> "none", of |-> 0]

ClaimOf == [p \in Pair |-> Claimed(rel[p])]
ShownOf == [p \in Pair |-> Displayed(rel[p])]

Promise == INSTANCE Handshake WITH claim <- ClaimOf, shown <- ShownOf, Follow <- Nat

KeepsHandshake == Promise!Spec

\* A blocked actor, by itself or by its domain, follows and is followed by
\* nobody, asks for nothing, is in no circle, and nothing waits its turn for it,
\* whatever it sends and whatever was under way.
BlockedIsOut ==
    \A p \in Pair : rel[p].blocked \/ p \in domainBlocked =>
        /\ rel[p].outbound \notin {"pending", "following"}
        /\ rel[p].inbound \notin {"pending", "follower"}
        /\ circles[p] = {}
        /\ queue[p] = <<>>

\* Members of a circle are friends: an unfollow, a removal, a rejection, an
\* account deletion or a block on any side takes them out of every circle.
CirclesAreFriends ==
    \A p \in Pair : circles[p] # {} => Friend(rel[p])

Quiet(p) == /\ queue[p] = <<>> /\ queue[Rev(p)] = <<>>
            /\ Idle(p[1]) /\ Idle(p[2])

\* Two nodes agree once nothing is under way: a request or a follower that
\* one shows is one the other has open or following, by the same Follow.
\* Answers may be lost and deliveries repeated; only an activity that was
\* cancelled or given up, or a Follow that was applied twice, excuses them.
Converged ==
    \A p \in Pair :
        LET mine == rel[p]
            theirs == rel[Rev(p)]
        IN Quiet(p) /\ cut \cap {p, Rev(p)} = {} /\ theirs.inId \notin reapplied[p[2]] =>
              /\ theirs.inbound = "pending" =>
                    mine.outbound = "pending" /\ mine.outId = theirs.inId
              /\ theirs.inbound = "follower" =>
                    mine.outbound = "following" /\ mine.outId = theirs.inId

\* An activity that a node has taken a Follow request from has no effect again.
AppliedOnce == \A n \in Node : reapplied[n] = {}

\* That takes a lost answer or a crash, or a delivery that left its queue out of
\* turn: without them no Follow is applied twice, though duplicates are handed on.
Undisturbed == faults = 0 /\ \A p \in Pair : strays[p] = {}
OnceUndisturbed == Undisturbed => AppliedOnce

Fairness == /\ \A n \in Node : WF_vars(Process(n))
            /\ \A p \in Pair : WF_vars(Admit(p))

FairSpec == Spec /\ Fairness

ShowsFollower(p, f) == rel[p].inbound = "follower" /\ rel[p].inId = f

\* A node that shows a follower is followed by it in the end, though answers
\* are lost and web processes die between receipt and dispatch; unless the
\* follower is gone again or an activity was cut from the conversation.
AcceptArrives ==
    \A p \in Pair, f \in 1..MaxId :
        ShowsFollower(Rev(p), f) ~>
            \/ rel[p].outbound = "following" /\ rel[p].outId = f
            \/ ~ShowsFollower(Rev(p), f)
            \/ cut \cap {p, Rev(p)} # {}
            \/ f \in reapplied[p[2]]
=============================================================================
