------------------------ MODULE RelationshipsProofs ------------------------
(***************************************************************************)
(* Theorems of Relationships, for any nodes, circles and bounds: types,    *)
(* what a block guarantees, who is in a circle, that following and         *)
(* follower are earned, that two nodes agree once they are quiet, and that *)
(* the whole keeps the promise of module Handshake.                        *)
(***************************************************************************)
EXTENDS Relationships, TLAPS

-----------------------------------------------------------------------------
(* Types.                                                                  *)

\* A task carries what its kind needs, and concerns the node that has it.
Shaped(t, n) ==
    /\ t.do = "save" => t.pair \in Pair /\ t.pair[1] = n /\ t.row \in Row
    /\ t.do = "dispatch" => t.pair \in Pair /\ t.pair[1] = n /\ t.act \in Activity

TypeInv == TypeOK /\ \A n \in Node : Shaped(web[n], n)

LEMMA PairFacts ==
    ASSUME NEW p \in Pair
    PROVE  /\ p[1] \in Node /\ p[2] \in Node
           /\ Rev(p) \in Pair /\ Rev(p)[1] = p[2] /\ Rev(p)[2] = p[1]
BY DEF Pair, Rev

LEMMA RowFacts ==
    ASSUME TypeOK, NEW p \in Pair
    PROVE  /\ rel[p] \in Row /\ Read(p) \in Row /\ Severed(rel[p]) \in Row
           /\ Read(p).blocked = (rel[p].blocked \/ p \in domainBlocked)
           /\ Read(p).outbound = rel[p].outbound /\ Read(p).inbound = rel[p].inbound
           /\ Read(p).outId = rel[p].outId /\ Read(p).inId = rel[p].inId
BY DEF TypeOK, Row, Read, Severed

LEMMA RowUpdates ==
    ASSUME NEW r \in Row, NEW i \in Nat, NEW b \in BOOLEAN
    PROVE  /\ [r EXCEPT !.outbound = "pending", !.outId = i] \in Row
           /\ [r EXCEPT !.outbound = "removed"] \in Row
           /\ [r EXCEPT !.inbound = "follower"] \in Row
           /\ [r EXCEPT !.inbound = "rejected"] \in Row
           /\ [r EXCEPT !.inbound = "removed"] \in Row
           /\ [r EXCEPT !.blocked = b] \in Row
           /\ r.outId \in Nat /\ r.inId \in Nat
BY DEF Row

LEMMA ReceivedRow ==
    ASSUME NEW r \in Row, NEW a \in Activity
    PROVE  Received(r, a) \in Row /\ Received(r, a).blocked = r.blocked
BY DEF Received, Row, Activity, Kind

LEMMA NothingShaped ==
    ASSUME NEW n \in Node
    PROVE  Nothing \in Task /\ Shaped(Nothing, n) /\ Nothing.do = "idle"
BY DEF Nothing, Task, Shaped

LEMMA SaveTask ==
    ASSUME NEW p \in Pair, NEW r \in Row
    PROVE  LET t == [do |-> "save", pair |-> p, row |-> r, act |-> None, fresh |-> FALSE]
           IN t \in Task /\ Shaped(t, p[1])
BY DEF Task, Shaped

\* The part of the state QueueThenSave changes keeps its types.
LEMMA QueueTypes ==
    ASSUME TypeInv, NEW p \in Pair, NEW kind \in Kind, NEW f \in Nat, NEW r \in Row,
           QueueThenSave(p, kind, f, r), granted' \in [Node -> SUBSET Nat]
    PROVE  TypeInv'
<1> USE DEF TypeInv, TypeOK
<1>1. p[1] \in Node
  BY PairFacts
<1>2. queue' \in [Pair -> Seq(Activity)] /\ nextId' \in Nat
  <2>1. [id |-> nextId, kind |-> kind, follow |-> f] \in Activity
    BY DEF Activity
  <2> QED
    BY <2>1 DEF QueueThenSave
<1>3. web' \in [Node -> Task] /\ \A n \in Node : Shaped(web'[n], n)
  BY <1>1, SaveTask DEF QueueThenSave
<1> QED
  BY <1>2, <1>3 DEF QueueThenSave, policyVars

LEMMA SaveTypes ==
    ASSUME TypeOK, NEW p \in Pair, NEW r \in Row, Save(p, r)
    PROVE  rel' \in [Pair -> Row] /\ circles' \in [Pair -> SUBSET Circle]
BY DEF TypeOK, Save

\* A sequence without one of its elements is made of the others.
LEMMA Without ==
    ASSUME NEW S, NEW s \in Seq(S), NEW i \in 1..Len(s)
    PROVE  /\ RemoveAt(s, i) \in Seq(S) /\ s[i] \in S
           /\ \A j \in 1..Len(RemoveAt(s, i)) :
                 \E k \in 1..Len(s) : RemoveAt(s, i)[j] = s[k]
<1> DEFINE a == SubSeq(s, 1, i - 1)
           b == SubSeq(s, i + 1, Len(s))
<1>0. i \in Nat /\ Len(s) \in Nat /\ 1 <= i /\ i <= Len(s)
  OBVIOUS
<1>1. a \in Seq(S) /\ Len(a) = i - 1 /\ \A j \in 1..(i - 1) : a[j] = s[j]
  BY <1>0
<1>2. b \in Seq(S) /\ Len(b) = Len(s) - i /\ \A j \in 1..(Len(s) - i) : b[j] = s[i + j]
  BY <1>0
<1> HIDE DEF a, b
<1>3. a \o b \in Seq(S) /\ Len(a \o b) = Len(a) + Len(b)
  <2>1. a \in Seq(S) /\ b \in Seq(S)
    BY <1>1, <1>2
  <2> QED
    BY <2>1
<1>4. Len(a \o b) = Len(s) - 1
  BY <1>0, <1>1, <1>2, <1>3
<1>5. \A j \in 1..(Len(a) + Len(b)) :
        (a \o b)[j] = IF j <= Len(a) THEN a[j] ELSE b[j - Len(a)]
  BY <1>1, <1>2
<1>6. ASSUME NEW j \in 1..(Len(s) - 1)
      PROVE  \E k \in 1..Len(s) : (a \o b)[j] = s[k]
  <2>1. CASE j <= i - 1
    <3>1. (a \o b)[j] = s[j] /\ j \in 1..Len(s)
      BY <1>0, <1>1, <1>2, <1>5, <2>1
    <3> QED
      BY <3>1
  <2>2. CASE ~(j <= i - 1)
    <3>1. (a \o b)[j] = b[j - (i - 1)] /\ j - (i - 1) \in 1..(Len(s) - i)
      BY <1>0, <1>1, <1>2, <1>5, <2>2
    <3>2. b[j - (i - 1)] = s[i + (j - (i - 1))] /\ i + (j - (i - 1)) \in 1..Len(s)
      BY <1>0, <1>2, <3>1
    <3> QED
      BY <3>1, <3>2
  <2> QED
    BY <2>1, <2>2
<1>7. RemoveAt(s, i) = a \o b
  BY DEF RemoveAt, a, b
<1>8. s[i] \in S
  OBVIOUS
<1> QED
  BY <1>3, <1>4, <1>6, <1>7, <1>8

LEMMA CancelTypes ==
    ASSUME TypeOK, NEW p \in Pair, Cancel(p)
    PROVE  /\ queue' \in [Pair -> Seq(Activity)] /\ cut' \in SUBSET Pair
           /\ strays' \in [Pair -> SUBSET Activity]
<1>1. /\ queue \in [Pair -> Seq(Activity)] /\ cut \in SUBSET Pair
      /\ strays \in [Pair -> SUBSET Activity]
  BY DEF TypeOK
<1>2. ToSet(queue[p]) \in SUBSET Activity
  BY <1>1 DEF ToSet
<1> QED
  BY <1>1, <1>2 DEF Cancel

\* What reaches a peer comes from the head of the queue, or is astray.
LEMMA Arrives ==
    ASSUME TypeOK, NEW p \in Pair, Admit(p) \/ AdmitStray(p)
    PROVE  \E a \in Activity :
              /\ Receive(p, a)
              /\ a \in strays[p] \/ (queue[p] # <<>> /\ a = Head(queue[p]))
<1>1. queue[p] \in Seq(Activity) /\ strays[p] \in SUBSET Activity
  BY DEF TypeOK
<1>2. CASE Admit(p)
  <2>1. queue[p] # <<>> /\ Receive(p, Head(queue[p]))
    BY <1>2 DEF Admit
  <2>2. Head(queue[p]) \in Activity
    BY <1>1, <2>1
  <2> QED
    BY <2>1, <2>2
<1>3. CASE AdmitStray(p)
  BY <1>1, <1>3 DEF AdmitStray
<1> QED
  BY <1>2, <1>3

LEMMA NoteTypes ==
    ASSUME TypeOK, NEW n \in Node, NEW p, NEW a \in Activity, Note(n, p, a)
    PROVE  applied' \in [Node -> SUBSET Nat] /\ reapplied' \in [Node -> SUBSET Nat]
<1>1. applied \in [Node -> SUBSET Nat] /\ reapplied \in [Node -> SUBSET Nat]
  BY DEF TypeOK
<1>2. a.follow \in Nat
  BY DEF Activity
<1>3. CASE UNCHANGED <<applied, reapplied>>
  BY <1>1, <1>3
<1>4. CASE /\ applied' = [applied EXCEPT ![n] = @ \cup {a.follow}]
           /\ reapplied' = [reapplied EXCEPT ![n] = @ \cup (applied[n] \cap {a.follow})]
  BY <1>1, <1>2, <1>4
<1> QED
  BY <1>3, <1>4 DEF Note

LEMMA AcknowledgeTypes ==
    ASSUME TypeOK, NEW p \in Pair, NEW a, Acknowledge(p, a)
    PROVE  queue' \in [Pair -> Seq(Activity)] /\ faults' \in Nat
<1>1. queue \in [Pair -> Seq(Activity)] /\ faults \in Nat
  BY DEF TypeOK
<1>2. CASE UNCHANGED queue
  BY <1>1, <1>2 DEF Acknowledge
<1>3. CASE queue' = [queue EXCEPT ![p] = IF @ # <<>> /\ Head(@) = a THEN Tail(@) ELSE @]
           /\ UNCHANGED faults
  <2> DEFINE q == queue[p]
             rest == IF q # <<>> /\ Head(q) = a THEN Tail(q) ELSE q
  <2>1. q \in Seq(Activity)
    BY <1>1
  <2>2. rest \in Seq(Activity)
    BY <2>1
  <2>3. queue' = [queue EXCEPT ![p] = rest]
    BY <1>3
  <2> HIDE DEF rest
  <2> QED
    BY <1>1, <1>3, <2>2, <2>3
<1> QED
  BY <1>2, <1>3 DEF Acknowledge

LEMMA TypeInit == Init => TypeInv
<1> SUFFICES ASSUME Init PROVE TypeInv
  OBVIOUS
<1>1. NewRow \in Row
  BY DEF NewRow, Row
<1>2. web \in [Node -> Task] /\ \A n \in Node : Shaped(web[n], n)
  BY NothingShaped DEF Init
<1> QED
  BY <1>1, <1>2 DEF Init, TypeInv, TypeOK

LEMMA TypeStep ==
    ASSUME TypeInv, [Next]_vars
    PROVE  TypeInv'
<1> USE DEF TypeInv, TypeOK
<1>1. CASE UNCHANGED vars
  BY <1>1 DEF vars, policyVars, historyVars
<1>2. ASSUME NEW p \in Pair, Discover(p) \/ UnblockDomain(p) PROVE TypeInv'
  BY <1>2 DEF Discover, UnblockDomain, historyVars, policyVars
<1>3. ASSUME NEW p \in Pair, SendFollow(p) PROVE TypeInv'
  <2> DEFINE r == [Read(p) EXCEPT !.outbound = "pending", !.outId = nextId]
  <2>1. r \in Row
    <3>1. Read(p) \in Row
      BY RowFacts
    <3> QED
      BY <3>1, RowUpdates
  <2>2. QueueThenSave(p, "Follow", nextId, r) /\ UNCHANGED granted
    BY <1>3 DEF SendFollow
  <2> QED
    BY <2>1, <2>2, QueueTypes DEF Kind
<1>4. ASSUME NEW p \in Pair, Answer(p) PROVE TypeInv'
  <2> DEFINE r == Read(p)
             yes == [r EXCEPT !.inbound = "follower"]
             no == [r EXCEPT !.inbound = "rejected"]
  <2>1. r \in Row /\ yes \in Row /\ no \in Row /\ r.inId \in Nat /\ p[1] \in Node
    <3>1. Read(p) \in Row
      BY RowFacts
    <3> QED
      BY <3>1, RowUpdates, PairFacts
  <2>2. CASE /\ QueueThenSave(p, "Accept", r.inId, yes)
             /\ granted' = [granted EXCEPT ![p[1]] = @ \cup {r.inId}]
    BY <2>1, <2>2, QueueTypes DEF Kind
  <2>3. CASE QueueThenSave(p, "Reject", r.inId, no) /\ UNCHANGED granted
    BY <2>1, <2>3, QueueTypes DEF Kind
  <2> QED
    BY <1>4, <2>2, <2>3 DEF Answer
<1>5. ASSUME NEW p \in Pair, Unfollow(p) PROVE TypeInv'
  <2> DEFINE r == [Read(p) EXCEPT !.outbound = "removed"]
  <2>1. r \in Row /\ Read(p).outId \in Nat
    <3>1. Read(p) \in Row
      BY RowFacts
    <3> QED
      BY <3>1, RowUpdates
  <2>2. QueueThenSave(p, "Undo", Read(p).outId, r) /\ UNCHANGED granted
    BY <1>5 DEF Unfollow
  <2> QED
    BY <2>1, <2>2, QueueTypes DEF Kind
<1>6. ASSUME NEW p \in Pair, RemoveFollower(p) PROVE TypeInv'
  <2>1. [Read(p) EXCEPT !.inbound = "removed"] \in Row
    <3>1. Read(p) \in Row
      BY RowFacts
    <3> QED
      BY <3>1, RowUpdates
  <2>2. rel' \in [Pair -> Row] /\ circles' \in [Pair -> SUBSET Circle]
    BY <1>6, <2>1, SaveTypes DEF RemoveFollower
  <2> QED
    BY <1>6, <2>2 DEF RemoveFollower, historyVars, policyVars
<1>7. ASSUME NEW p \in Pair, NEW b \in BOOLEAN, ApplyActorBlock(p, b) PROVE TypeInv'
  <2>1. [Severed(rel[p]) EXCEPT !.blocked = b] \in Row
    <3>1. Severed(rel[p]) \in Row
      BY RowFacts
    <3> QED
      BY <3>1, RowUpdates
  <2>2. /\ queue' \in [Pair -> Seq(Activity)] /\ cut' \in SUBSET Pair
        /\ strays' \in [Pair -> SUBSET Activity]
    BY <1>7, CancelTypes DEF ApplyActorBlock
  <2> QED
    BY <1>7, <2>1, <2>2 DEF ApplyActorBlock, historyVars, policyVars
<1>8. ASSUME NEW p \in Pair, BlockDomain(p) PROVE TypeInv'
  <2>1. Severed(rel[p]) \in Row
    BY RowFacts
  <2>2. /\ queue' \in [Pair -> Seq(Activity)] /\ cut' \in SUBSET Pair
        /\ strays' \in [Pair -> SUBSET Activity]
    <3>1. CASE p \in known
      BY <1>8, <3>1, CancelTypes DEF BlockDomain
    <3>2. CASE p \notin known
      BY <1>8, <3>2 DEF BlockDomain
    <3> QED
      BY <3>1, <3>2
  <2>3. rel' \in [Pair -> Row] /\ circles' \in [Pair -> SUBSET Circle]
    BY <1>8, <2>1 DEF BlockDomain
  <2> QED
    BY <1>8, <2>2, <2>3 DEF BlockDomain, historyVars
<1>9. ASSUME NEW p \in Pair, Admit(p) \/ AdmitStray(p) PROVE TypeInv'
  <2> PICK a \in Activity : Receive(p, a)
    BY <1>9, Arrives
  <2> DEFINE t == [do |-> "dispatch", pair |-> Rev(p), row |-> None, act |-> a,
                   fresh |-> a.id \notin receipts[p[2]]]
  <2>1. a.id \in Nat
    BY DEF Activity
  <2>2. p[2] \in Node /\ t \in Task /\ Shaped(t, p[2])
    BY PairFacts DEF Task, Shaped
  <2>3. web' = [web EXCEPT ![p[2]] = t]
    BY DEF Receive
  <2>4. receipts' \in [Node -> SUBSET Nat]
    BY <2>1 DEF Receive
  <2> HIDE DEF t
  <2>5. web' \in [Node -> Task] /\ \A n \in Node : Shaped(web'[n], n)
    BY <2>2, <2>3
  <2> QED
    BY <2>4, <2>5 DEF Receive, historyVars, policyVars
<1>10. ASSUME NEW p \in Pair, GiveUp(p) PROVE TypeInv'
  <2> PICK i \in 1..Len(queue[p]) :
          /\ queue' = [queue EXCEPT ![p] = RemoveAt(queue[p], i)]
          /\ strays' = [strays EXCEPT ![p] = @ \cup {queue[p][i]}]
    BY <1>10 DEF GiveUp
  <2>1. queue[p] \in Seq(Activity)
    OBVIOUS
  <2>2. RemoveAt(queue[p], i) \in Seq(Activity) /\ queue[p][i] \in Activity
    BY <2>1, Without
  <2>3. queue' \in [Pair -> Seq(Activity)] /\ strays' \in [Pair -> SUBSET Activity]
    BY <2>2
  <2> QED
    BY <1>10, <2>3 DEF GiveUp, historyVars, policyVars
<1>11. ASSUME NEW p \in Pair, Leave(p) PROVE TypeInv'
  <2>1. [id |-> nextId, kind |-> "Delete", follow |-> 0] \in Activity
    BY DEF Activity, Kind
  <2>2. queue' \in [Pair -> Seq(Activity)]
    BY <1>11, <2>1 DEF Leave
  <2> QED
    BY <1>11, <2>2 DEF Leave, historyVars, policyVars
<1>12. ASSUME NEW n \in Node, FinishSave(n) PROVE TypeInv'
  <2>1. rel' \in [Pair -> Row] /\ circles' \in [Pair -> SUBSET Circle]
    BY <1>12, SaveTypes DEF FinishSave, Shaped
  <2>2. web' \in [Node -> Task] /\ \A m \in Node : Shaped(web'[m], m)
    BY <1>12, NothingShaped DEF FinishSave
  <2> QED
    BY <1>12, <2>1, <2>2 DEF FinishSave, historyVars, policyVars
<1>13. ASSUME NEW n \in Node, Dispatch(n) PROVE TypeInv'
  <2> DEFINE p == web[n].pair
             a == web[n].act
  <2>1. p \in Pair /\ a \in Activity /\ Rev(p) \in Pair
    BY <1>13, PairFacts DEF Dispatch, Shaped
  <2>2. rel' \in [Pair -> Row] /\ circles' \in [Pair -> SUBSET Circle]
    <3>1. Received(Read(p), a) \in Row
      BY <2>1, RowFacts, ReceivedRow
    <3> QED
      BY <1>13, <2>1, <3>1, SaveTypes DEF Dispatch
  <2>3. applied' \in [Node -> SUBSET Nat] /\ reapplied' \in [Node -> SUBSET Nat]
    <3>1. Note(n, p, a)
      BY <1>13 DEF Dispatch
    <3> HIDE DEF p, a
    <3> QED
      BY <2>1, <3>1, NoteTypes
  <2>4. queue' \in [Pair -> Seq(Activity)] /\ faults' \in Nat
    <3>1. Acknowledge(Rev(p), a)
      BY <1>13 DEF Dispatch
    <3> HIDE DEF p, a
    <3> QED
      BY <2>1, <3>1, AcknowledgeTypes
  <2>5. web' \in [Node -> Task] /\ \A m \in Node : Shaped(web'[m], m)
    BY <1>13, NothingShaped DEF Dispatch
  <2>6. known' \in SUBSET Pair
    BY <1>13, <2>1 DEF Dispatch
  <2> QED
    BY <1>13, <2>2, <2>3, <2>4, <2>5, <2>6 DEF Dispatch
<1>14. ASSUME NEW n \in Node, Crash(n) PROVE TypeInv'
  <2>1. web' \in [Node -> Task] /\ \A m \in Node : Shaped(web'[m], m)
    BY <1>14, NothingShaped DEF Crash
  <2>2. cut' \in SUBSET Pair
    BY <1>14 DEF Crash, Shaped
  <2> QED
    BY <1>14, <2>1, <2>2 DEF Crash, historyVars, policyVars
<1>15. ASSUME NEW n \in Node, NEW c \in Circle, SetCircle(n, c) PROVE TypeInv'
  BY <1>15 DEF SetCircle, historyVars, policyVars
<1> QED
  BY <1>1, <1>2, <1>3, <1>4, <1>5, <1>6, <1>7, <1>8, <1>9, <1>10, <1>11, <1>12, <1>13,
     <1>14, <1>15 DEF Next, Owner, Process, BlockActor, UnblockActor

\* Rows, queues, tasks and histories are always of their types.
THEOREM RelationshipTypes == Spec => []TypeOK
<1>1. TypeInv /\ [Next]_vars => TypeInv'
  BY TypeStep
<1>2. TypeInv => TypeOK
  BY DEF TypeInv
<1> QED
  BY TypeInit, <1>1, <1>2, PTL DEF Spec

-----------------------------------------------------------------------------
(* Circles.                                                                *)

LEMMA SaveCircles ==
    ASSUME TypeOK, CirclesAreFriends, NEW p \in Pair, NEW r \in Row, Save(p, r)
    PROVE  CirclesAreFriends'
BY DEF TypeOK, CirclesAreFriends, Save, StaysInCircles

LEMMA CirclesStep ==
    ASSUME TypeInv, CirclesAreFriends, [Next]_vars
    PROVE  CirclesAreFriends'
<1>0. TypeOK
  BY DEF TypeInv
<1>1. CASE UNCHANGED <<rel, circles>>
  BY <1>1 DEF CirclesAreFriends
<1>2. ASSUME NEW p \in Pair, RemoveFollower(p) PROVE CirclesAreFriends'
  <2>1. Read(p) \in Row
    BY <1>0, RowFacts
  <2>2. [Read(p) EXCEPT !.inbound = "removed"] \in Row
    BY <2>1, RowUpdates
  <2> QED
    BY <1>0, <1>2, <2>2, SaveCircles DEF RemoveFollower
<1>3. ASSUME NEW p \in Pair, NEW b \in BOOLEAN, ApplyActorBlock(p, b)
      PROVE  CirclesAreFriends'
  BY <1>0, <1>3 DEF ApplyActorBlock, CirclesAreFriends, TypeOK
<1>4. ASSUME NEW p \in Pair, BlockDomain(p), p \in known PROVE CirclesAreFriends'
  BY <1>0, <1>4 DEF BlockDomain, CirclesAreFriends, TypeOK
<1>5. ASSUME NEW n \in Node, FinishSave(n) PROVE CirclesAreFriends'
  BY <1>0, <1>5, SaveCircles DEF FinishSave, TypeInv, Shaped
<1>6. ASSUME NEW n \in Node, Dispatch(n) PROVE CirclesAreFriends'
  <2> DEFINE p == web[n].pair
             a == web[n].act
  <2>1. p \in Pair /\ a \in Activity
    BY <1>6 DEF Dispatch, TypeInv, Shaped
  <2>2. Received(Read(p), a) \in Row
    BY <1>0, <2>1, RowFacts, ReceivedRow
  <2>3. Save(p, Received(Read(p), a)) \/ UNCHANGED <<rel, circles>>
    BY <1>6 DEF Dispatch
  <2> QED
    BY <1>0, <1>1, <2>1, <2>2, <2>3, SaveCircles
<1>7. ASSUME NEW n \in Node, NEW c \in Circle, SetCircle(n, c) PROVE CirclesAreFriends'
  <2>1. PICK S \in SUBSET {p \in Pair : p[1] = n /\ Eligible(p)} :
          circles' = [p \in Pair |-> CASE p \in S -> circles[p] \cup {c}
                                       [] p[1] = n /\ p \notin S -> circles[p] \ {c}
                                       [] OTHER -> circles[p]]
    BY <1>7 DEF SetCircle
  <2>2. ASSUME NEW q \in Pair, circles'[q] # {} PROVE Friend(rel[q])
    <3>1. q \in S \/ circles[q] # {}
      BY <2>1, <2>2
    <3> QED
      BY <2>1, <3>1 DEF Eligible, CirclesAreFriends
  <2> QED
    BY <1>7, <2>2 DEF SetCircle, CirclesAreFriends
<1>8. ASSUME NEW p \in Pair,
             \/ Discover(p) \/ SendFollow(p) \/ Answer(p) \/ Unfollow(p)
             \/ UnblockDomain(p) \/ Admit(p) \/ AdmitStray(p) \/ GiveUp(p) \/ Leave(p)
      PROVE  UNCHANGED <<rel, circles>>
  BY <1>8 DEF Discover, SendFollow, Answer, Unfollow, UnblockDomain, Admit, AdmitStray,
              Receive, GiveUp, Leave, QueueThenSave
<1>9. ASSUME NEW n \in Node, Crash(n) PROVE UNCHANGED <<rel, circles>>
  BY <1>9 DEF Crash
<1>10. ASSUME NEW p \in Pair, BlockDomain(p), p \notin known
       PROVE  UNCHANGED <<rel, circles>>
  BY <1>10 DEF BlockDomain
<1>11. ASSUME UNCHANGED vars PROVE UNCHANGED <<rel, circles>>
  BY <1>11 DEF vars
<1> QED
  BY <1>1, <1>2, <1>3, <1>4, <1>5, <1>6, <1>7, <1>8, <1>9, <1>10, <1>11
     DEF Next, Owner, Process, BlockActor, UnblockActor

\* Only friends are in a circle: save_relationship drops the memberships of a
\* row that is no friend's, a block drops them, and set_circle_members refuses
\* others.
THEOREM FriendCircles == Spec => []CirclesAreFriends
<1>1. Init => CirclesAreFriends
  BY DEF Init, CirclesAreFriends
<1>2. TypeInv /\ CirclesAreFriends /\ [Next]_vars => (TypeInv /\ CirclesAreFriends)'
  BY TypeStep, CirclesStep
<1> QED
  BY TypeInit, <1>1, <1>2, PTL DEF Spec

-----------------------------------------------------------------------------
(* Following and follower are earned.  What a row claims was granted, and so *)
(* was what an Accept claims, where it waits in a queue or in a process, and *)
(* what a row claims that is still to be saved.                              *)

Earned(r, p, g) ==
    /\ r.outbound = "following" => r.outId \in g[p[2]]
    /\ r.inbound = "follower" => r.inId \in g[p[1]]

\* An Accept that p[1] queued for p[2] was granted by p[1]'s owner.
Backed(a, p, g) == a.kind = "Accept" => a.follow \in g[p[1]]

EarnedInv ==
    /\ \A p \in Pair : Earned(rel[p], p, granted)
    /\ \A p \in Pair : \A i \in 1..Len(queue[p]) : Backed(queue[p][i], p, granted)
    /\ \A n \in Node :
         /\ web[n].do = "save" => Earned(web[n].row, web[n].pair, granted)
         /\ web[n].do = "dispatch" => Backed(web[n].act, Rev(web[n].pair), granted)

\* And so was what an Accept claims that is astray.
StraysEarned == \A p \in Pair : \A a \in strays[p] : Backed(a, p, granted)

\* Grants are never withdrawn.
LEMMA StillEarned ==
    ASSUME NEW g, NEW h, \A n \in Node : g[n] \subseteq h[n], NEW p \in Pair
    PROVE  /\ \A r : Earned(r, p, g) => Earned(r, p, h)
           /\ \A a : Backed(a, p, g) => Backed(a, p, h)
BY PairFacts DEF Earned, Backed

LEMMA SaveEarned ==
    ASSUME TypeOK, EarnedInv, NEW p \in Pair, NEW r \in Row, Save(p, r),
           Earned(r, p, granted)
    PROVE  \A q \in Pair : Earned(rel'[q], q, granted)
BY DEF TypeOK, EarnedInv, Save

LEMMA TailEarned ==
    ASSUME NEW s \in Seq(Activity), s # <<>>, NEW p \in Pair, NEW g,
           \A i \in 1..Len(s) : Backed(s[i], p, g)
    PROVE  \A i \in 1..Len(Tail(s)) : Backed(Tail(s)[i], p, g)
<1> TAKE i \in 1..Len(Tail(s))
<1>1. i + 1 \in 1..Len(s) /\ Tail(s)[i] = s[i + 1]
  OBVIOUS
<1> QED
  BY <1>1

LEMMA AppendEarned ==
    ASSUME NEW s \in Seq(Activity), NEW p \in Pair, NEW g, NEW h,
           \A n \in Node : g[n] \subseteq h[n],
           \A i \in 1..Len(s) : Backed(s[i], p, g),
           NEW a \in Activity, Backed(a, p, h)
    PROVE  \A i \in 1..Len(Append(s, a)) : Backed(Append(s, a)[i], p, h)
<1> TAKE i \in 1..Len(Append(s, a))
<1>1. CASE i \in 1..Len(s)
  <2>1. Append(s, a)[i] = s[i]
    BY <1>1
  <2>2. Backed(s[i], p, g)
    BY <1>1
  <2> QED
    BY <2>1, <2>2, StillEarned
<1>2. CASE i = Len(s) + 1
  <2>1. Append(s, a)[i] = a
    BY <1>2
  <2> QED
    BY <2>1
<1> QED
  BY <1>1, <1>2

\* The actions that queue an activity and leave a row to be saved.
LEMMA QueueEarned ==
    ASSUME TypeInv, EarnedInv, NEW p \in Pair, NEW kind \in Kind, NEW f \in Nat,
           NEW r \in Row, QueueThenSave(p, kind, f, r),
           \A n \in Node : granted[n] \subseteq granted'[n],
           Earned(r, p, granted'), kind = "Accept" => f \in granted'[p[1]]
    PROVE  EarnedInv'
<1> DEFINE a == [id |-> nextId, kind |-> kind, follow |-> f]
           t == [do |-> "save", pair |-> p, row |-> r, act |-> None, fresh |-> FALSE]
<1>1. queue \in [Pair -> Seq(Activity)] /\ web \in [Node -> Task] /\ nextId \in Nat
  BY DEF TypeInv, TypeOK
<1>2. \A q \in Pair : Earned(rel'[q], q, granted')
  BY StillEarned DEF EarnedInv, QueueThenSave
<1>3. ASSUME NEW q \in Pair
      PROVE  \A i \in 1..Len(queue'[q]) : Backed(queue'[q][i], q, granted')
  <2>1. a \in Activity /\ Backed(a, p, granted')
    BY <1>1 DEF Activity, Backed
  <2>2. queue[q] \in Seq(Activity) /\ \A i \in 1..Len(queue[q]) : Backed(queue[q][i], q, granted)
    BY <1>1 DEF EarnedInv
  <2>3. queue'[q] = IF q = p THEN Append(queue[q], a) ELSE queue[q]
    BY <1>1 DEF QueueThenSave
  <2> HIDE DEF a
  <2>4. CASE q = p
    <3>1. \A i \in 1..Len(Append(queue[q], a)) : Backed(Append(queue[q], a)[i], q, granted')
      BY <2>1, <2>2, <2>4, AppendEarned
    <3> QED
      BY <2>3, <2>4, <3>1
  <2>5. CASE q # p
    BY <2>2, <2>3, <2>5, StillEarned
  <2> QED
    BY <2>4, <2>5
<1>4. ASSUME NEW n \in Node
      PROVE  /\ web'[n].do = "save" => Earned(web'[n].row, web'[n].pair, granted')
             /\ web'[n].do = "dispatch" => Backed(web'[n].act, Rev(web'[n].pair), granted')
  <2>1. web'[n] = IF n = p[1] THEN t ELSE web[n]
    BY <1>1 DEF QueueThenSave
  <2>2. CASE n = p[1]
    BY <2>1, <2>2
  <2>3. CASE n # p[1]
    <3>1. Shaped(web[n], n)
      BY DEF TypeInv
    <3>2. /\ web[n].do = "save" => web[n].pair \in Pair
          /\ web[n].do = "dispatch" => Rev(web[n].pair) \in Pair
      BY <3>1, PairFacts DEF Shaped
    <3> QED
      BY <2>1, <2>3, <3>2, StillEarned DEF EarnedInv
  <2> QED
    BY <2>2, <2>3
<1> QED
  BY <1>2, <1>3, <1>4 DEF EarnedInv

\* What a row claims does not change with its flag or with a request of one's own.
LEMMA ReadEarned ==
    ASSUME TypeOK, EarnedInv, NEW p \in Pair
    PROVE  Earned(Read(p), p, granted)
<1>1. Earned(rel[p], p, granted)
  BY DEF EarnedInv
<1> QED
  BY <1>1, RowFacts DEF Earned

LEMMA UpdatesEarned ==
    ASSUME NEW r \in Row, NEW p \in Pair, NEW g, Earned(r, p, g), NEW i \in Nat,
           NEW b \in BOOLEAN
    PROVE  /\ Earned([r EXCEPT !.outbound = "pending", !.outId = i], p, g)
           /\ Earned([r EXCEPT !.outbound = "removed"], p, g)
           /\ Earned([r EXCEPT !.inbound = "rejected"], p, g)
           /\ Earned([r EXCEPT !.inbound = "removed"], p, g)
           /\ Earned(Severed(r), p, g)
           /\ Earned([Severed(r) EXCEPT !.blocked = b], p, g)
           /\ r.inId \in g[p[1]] => Earned([r EXCEPT !.inbound = "follower"], p, g)
BY DEF Row, Earned, Severed

LEMMA ReceivedEarned ==
    ASSUME NEW r \in Row, NEW a \in Activity, NEW p \in Pair, NEW g,
           Earned(r, p, g), Backed(a, Rev(p), g)
    PROVE  Earned(Received(r, a), p, g)
<1>1. Rev(p)[1] = p[2]
  BY PairFacts
<1> QED
  BY <1>1 DEF Row, Activity, Kind, Earned, Backed, Received, Answers, Requestable, Undoes

LEMMA EarnedStep ==
    ASSUME TypeInv, EarnedInv, StraysEarned, [Next]_vars
    PROVE  EarnedInv'
<1>0. TypeOK /\ queue \in [Pair -> Seq(Activity)] /\ web \in [Node -> Task]
      /\ rel \in [Pair -> Row] /\ nextId \in Nat
  BY DEF TypeInv, TypeOK
<1>1. ASSUME NEW p \in Pair, SendFollow(p) PROVE EarnedInv'
  <2> DEFINE r == [Read(p) EXCEPT !.outbound = "pending", !.outId = nextId]
  <2>1. r \in Row /\ Earned(r, p, granted)
    <3>1. Read(p) \in Row /\ Earned(Read(p), p, granted)
      BY <1>0, RowFacts, ReadEarned
    <3> QED
      BY <1>0, <3>1, RowUpdates, UpdatesEarned
  <2>2. QueueThenSave(p, "Follow", nextId, r) /\ granted' = granted
    BY <1>1 DEF SendFollow
  <2> HIDE DEF r
  <2> QED
    BY <1>0, <2>1, <2>2, QueueEarned DEF Kind
<1>2. ASSUME NEW p \in Pair, Answer(p) PROVE EarnedInv'
  <2> DEFINE r == Read(p)
             yes == [r EXCEPT !.inbound = "follower"]
             no == [r EXCEPT !.inbound = "rejected"]
  <2>1. r \in Row /\ Earned(r, p, granted)
    BY <1>0, RowFacts, ReadEarned
  <2>2. yes \in Row /\ no \in Row /\ r.inId \in Nat /\ p[1] \in Node
    BY <2>1, RowUpdates, PairFacts
  <2>3. CASE /\ QueueThenSave(p, "Accept", r.inId, yes)
             /\ granted' = [granted EXCEPT ![p[1]] = @ \cup {r.inId}]
    <3>1. /\ \A n \in Node : granted[n] \subseteq granted'[n]
          /\ r.inId \in granted'[p[1]]
      BY <2>2, <2>3, <1>0 DEF TypeOK
    <3>2. Earned(yes, p, granted')
      <4>1. Earned(r, p, granted')
        BY <2>1, <3>1, StillEarned
      <4> QED
        BY <2>1, <3>1, <4>1, UpdatesEarned
    <3> HIDE DEF yes, r
    <3> QED
      BY <2>2, <2>3, <3>1, <3>2, QueueEarned DEF Kind
  <2>4. CASE QueueThenSave(p, "Reject", r.inId, no) /\ UNCHANGED granted
    <3>1. Earned(no, p, granted')
      BY <2>1, <2>4, UpdatesEarned
    <3> HIDE DEF no, r
    <3> QED
      BY <2>2, <2>4, <3>1, QueueEarned DEF Kind
  <2> QED
    BY <1>2, <2>3, <2>4 DEF Answer
<1>3. ASSUME NEW p \in Pair, Unfollow(p) PROVE EarnedInv'
  <2> DEFINE r == [Read(p) EXCEPT !.outbound = "removed"]
  <2>1. r \in Row /\ Earned(r, p, granted) /\ Read(p).outId \in Nat
    <3>1. Read(p) \in Row /\ Earned(Read(p), p, granted)
      BY <1>0, RowFacts, ReadEarned
    <3> QED
      BY <3>1, RowUpdates, UpdatesEarned
  <2>2. QueueThenSave(p, "Undo", Read(p).outId, r) /\ granted' = granted
    BY <1>3 DEF Unfollow
  <2> HIDE DEF r
  <2> QED
    BY <2>1, <2>2, QueueEarned DEF Kind
<1>4. ASSUME NEW p \in Pair, RemoveFollower(p) PROVE EarnedInv'
  <2> DEFINE r == [Read(p) EXCEPT !.inbound = "removed"]
  <2>1. r \in Row /\ Earned(r, p, granted)
    <3>1. Read(p) \in Row /\ Earned(Read(p), p, granted)
      BY <1>0, RowFacts, ReadEarned
    <3> QED
      BY <3>1, RowUpdates, UpdatesEarned
  <2>2. Save(p, r) /\ UNCHANGED <<granted, queue, web>>
    BY <1>4 DEF RemoveFollower, historyVars
  <2>3. \A q \in Pair : Earned(rel'[q], q, granted)
    BY <1>0, <2>1, <2>2, SaveEarned
  <2> QED
    BY <2>2, <2>3 DEF EarnedInv
<1>5. ASSUME NEW p \in Pair, Earned(rel'[p], p, granted),
             \A q \in Pair \ {p} : rel'[q] = rel[q],
             queue' = [queue EXCEPT ![p] = <<>>], UNCHANGED <<granted, web>>
      PROVE  EarnedInv'
  BY <1>0, <1>5 DEF EarnedInv
<1>6. ASSUME NEW p \in Pair, NEW b \in BOOLEAN, ApplyActorBlock(p, b) PROVE EarnedInv'
  <2>1. Earned([Severed(rel[p]) EXCEPT !.blocked = b], p, granted)
    BY <1>0, UpdatesEarned DEF EarnedInv
  <2>2. /\ rel' = [rel EXCEPT ![p] = [Severed(rel[p]) EXCEPT !.blocked = b]]
        /\ queue' = [queue EXCEPT ![p] = <<>>] /\ UNCHANGED <<granted, web>>
    BY <1>6 DEF ApplyActorBlock, Cancel, historyVars
  <2>3. Earned(rel'[p], p, granted)
    BY <1>0, <2>1, <2>2
  <2> QED
    BY <1>0, <1>5, <2>2, <2>3
<1>7. ASSUME NEW p \in Pair, BlockDomain(p), p \in known PROVE EarnedInv'
  <2>1. Earned(Severed(rel[p]), p, granted)
    BY <1>0, UpdatesEarned DEF EarnedInv
  <2>2. /\ rel' = [rel EXCEPT ![p] = Severed(rel[p])]
        /\ queue' = [queue EXCEPT ![p] = <<>>] /\ UNCHANGED <<granted, web>>
    BY <1>7 DEF BlockDomain, Cancel, historyVars
  <2>3. Earned(rel'[p], p, granted)
    BY <1>0, <2>1, <2>2
  <2> QED
    BY <1>0, <1>5, <2>2, <2>3
<1>8. ASSUME NEW n \in Node, FinishSave(n) PROVE EarnedInv'
  <2> DEFINE p == web[n].pair
             r == web[n].row
  <2>1. p \in Pair /\ r \in Row /\ Earned(r, p, granted)
    BY <1>8 DEF FinishSave, TypeInv, Shaped, EarnedInv
  <2>2. Save(p, r) /\ UNCHANGED <<granted, queue>> /\ web' = [web EXCEPT ![n] = Nothing]
    BY <1>8 DEF FinishSave, historyVars
  <2>3. \A q \in Pair : Earned(rel'[q], q, granted)
    BY <1>0, <2>1, <2>2, SaveEarned
  <2> QED
    BY <1>0, <2>2, <2>3, NothingShaped DEF EarnedInv
<1>9. ASSUME NEW p \in Pair, Admit(p) \/ AdmitStray(p) PROVE EarnedInv'
  <2> PICK a \in Activity :
          /\ Receive(p, a)
          /\ a \in strays[p] \/ (queue[p] # <<>> /\ a = Head(queue[p]))
    BY <1>0, <1>9, Arrives
  <2>1. ASSUME a \in strays[p] PROVE Backed(a, p, granted)
    BY <1>0, <2>1 DEF StraysEarned
  <2>2. ASSUME queue[p] # <<>>, a = Head(queue[p]) PROVE Backed(a, p, granted)
    <3>1. a = queue[p][1] /\ 1 \in 1..Len(queue[p])
      BY <1>0, <2>2
    <3> QED
      BY <1>0, <3>1 DEF EarnedInv
  <2>3. Backed(a, p, granted) /\ p[2] \in Node /\ Rev(Rev(p)) = p
    BY <2>1, <2>2, PairFacts DEF Rev, Pair
  <2>4. web' = [web EXCEPT ![p[2]] =
                  [do |-> "dispatch", pair |-> Rev(p), row |-> None, act |-> a,
                   fresh |-> a.id \notin receipts[p[2]]]]
    BY DEF Receive
  <2>5. UNCHANGED <<rel, queue, granted>>
    BY DEF Receive, historyVars
  <2> QED
    BY <1>0, <2>3, <2>4, <2>5 DEF EarnedInv
<1>10. ASSUME NEW n \in Node, Dispatch(n) PROVE EarnedInv'
  <2> DEFINE p == web[n].pair
             a == web[n].act
  <2>1. p \in Pair /\ a \in Activity /\ Rev(p) \in Pair /\ Backed(a, Rev(p), granted)
    BY <1>10, PairFacts DEF Dispatch, TypeInv, Shaped, EarnedInv
  <2>2. granted' = granted /\ web' = [web EXCEPT ![n] = Nothing]
    BY <1>10 DEF Dispatch
  <2>3. \A q \in Pair : Earned(rel'[q], q, granted)
    <3>1. Read(p) \in Row /\ Earned(Read(p), p, granted)
      BY <1>0, <2>1, RowFacts, ReadEarned
    <3>2. Received(Read(p), a) \in Row /\ Earned(Received(Read(p), a), p, granted)
      BY <2>1, <3>1, ReceivedRow, ReceivedEarned
    <3>3. Save(p, Received(Read(p), a)) \/ UNCHANGED rel
      BY <1>10 DEF Dispatch
    <3> QED
      BY <1>0, <2>1, <3>2, <3>3, SaveEarned DEF EarnedInv
  <2>4. \A q \in Pair : queue'[q] = queue[q] \/ (queue[q] # <<>> /\ queue'[q] = Tail(queue[q]))
    <3>1. Acknowledge(Rev(p), a)
      BY <1>10 DEF Dispatch
    <3> HIDE DEF p, a
    <3> QED
      BY <1>0, <2>1, <3>1 DEF Acknowledge
  <2>5. ASSUME NEW q \in Pair
        PROVE  \A i \in 1..Len(queue'[q]) : Backed(queue'[q][i], q, granted)
    <3>1. queue[q] \in Seq(Activity)
          /\ \A i \in 1..Len(queue[q]) : Backed(queue[q][i], q, granted)
      BY <1>0 DEF EarnedInv
    <3> QED
      BY <2>4, <3>1, TailEarned
  <2> QED
    BY <1>0, <2>2, <2>3, <2>5, NothingShaped DEF EarnedInv
<1>11. ASSUME NEW n \in Node, Crash(n) PROVE EarnedInv'
  BY <1>0, <1>11, NothingShaped DEF Crash, historyVars, EarnedInv
<1>12. ASSUME NEW p \in Pair, GiveUp(p) PROVE EarnedInv'
  <2>1. ASSUME NEW q \in Pair
        PROVE  \A i \in 1..Len(queue'[q]) : Backed(queue'[q][i], q, granted)
    <3>1. queue[q] \in Seq(Activity)
          /\ \A i \in 1..Len(queue[q]) : Backed(queue[q][i], q, granted)
      BY <1>0 DEF EarnedInv
    <3>2. \/ queue'[q] = queue[q]
          \/ \E i \in 1..Len(queue[q]) : queue'[q] = RemoveAt(queue[q], i)
      BY <1>0, <1>12 DEF GiveUp
    <3>3. \A j \in 1..Len(queue'[q]) : \E k \in 1..Len(queue[q]) : queue'[q][j] = queue[q][k]
      <4>1. CASE queue'[q] = queue[q]
        BY <4>1
      <4>2. ASSUME NEW i \in 1..Len(queue[q]), queue'[q] = RemoveAt(queue[q], i)
            PROVE  \A j \in 1..Len(queue'[q]) :
                      \E k \in 1..Len(queue[q]) : queue'[q][j] = queue[q][k]
        <5>1. \A j \in 1..Len(RemoveAt(queue[q], i)) :
                  \E k \in 1..Len(queue[q]) : RemoveAt(queue[q], i)[j] = queue[q][k]
          BY <3>1, Without
        <5> QED
          BY <4>2, <5>1
      <4> QED
        BY <3>2, <4>1, <4>2
    <3> QED
      BY <3>1, <3>3
  <2> QED
    BY <1>12, <2>1 DEF GiveUp, historyVars, EarnedInv
<1>13. ASSUME NEW p \in Pair, Leave(p) PROVE EarnedInv'
  <2> DEFINE a == [id |-> nextId, kind |-> "Delete", follow |-> 0]
  <2>1. a \in Activity /\ Backed(a, p, granted)
    BY <1>0 DEF Activity, Kind, Backed
  <2>2. queue' = [queue EXCEPT ![p] = Append(queue[p], a)]
        /\ UNCHANGED <<rel, web, granted>>
    BY <1>13 DEF Leave, historyVars
  <2> HIDE DEF a
  <2>3. ASSUME NEW q \in Pair
        PROVE  \A i \in 1..Len(queue'[q]) : Backed(queue'[q][i], q, granted)
    <3>1. queue[q] \in Seq(Activity)
          /\ \A i \in 1..Len(queue[q]) : Backed(queue[q][i], q, granted)
      BY <1>0 DEF EarnedInv
    <3>2. queue'[q] = IF q = p THEN Append(queue[q], a) ELSE queue[q]
      BY <1>0, <2>2
    <3>3. CASE q = p
      BY <2>1, <3>1, <3>2, <3>3, AppendEarned
    <3>4. CASE q # p
      BY <3>1, <3>2, <3>4
    <3> QED
      BY <3>3, <3>4
  <2> QED
    BY <2>2, <2>3 DEF EarnedInv
<1>14. ASSUME UNCHANGED <<rel, queue, web, granted>> PROVE EarnedInv'
  BY <1>14 DEF EarnedInv
<1>15. ASSUME NEW p \in Pair,
              \/ Discover(p) \/ UnblockDomain(p) \/ (BlockDomain(p) /\ p \notin known)
       PROVE  UNCHANGED <<rel, queue, web, granted>>
  BY <1>15 DEF Discover, UnblockDomain, BlockDomain, historyVars
<1>16. ASSUME NEW n \in Node, NEW c \in Circle, SetCircle(n, c)
       PROVE  UNCHANGED <<rel, queue, web, granted>>
  BY <1>16 DEF SetCircle, historyVars
<1>17. ASSUME UNCHANGED vars PROVE UNCHANGED <<rel, queue, web, granted>>
  BY <1>17 DEF vars, historyVars
<1> QED
  BY <1>1, <1>2, <1>3, <1>4, <1>6, <1>7, <1>8, <1>9, <1>10, <1>11, <1>12, <1>13,
     <1>14, <1>15, <1>16, <1>17 DEF Next, Owner, Process, BlockActor, UnblockActor

\* What goes astray was in the queue, and its conversation is cut.
LEMMA StrayStep ==
    ASSUME TypeInv, [Next]_vars, NEW p \in Pair, NEW a \in strays'[p]
    PROVE  \/ a \in strays[p]
           \/ p \in cut' /\ \E i \in 1..Len(queue[p]) : a = queue[p][i]
<1>1. strays \in [Pair -> SUBSET Activity] /\ queue \in [Pair -> Seq(Activity)]
  BY DEF TypeInv, TypeOK
<1>2. ASSUME NEW q \in Pair, Cancel(q)
      PROVE  \/ a \in strays[p]
             \/ p \in cut' /\ \E i \in 1..Len(queue[p]) : a = queue[p][i]
  BY <1>1, <1>2 DEF Cancel, ToSet
<1>3. ASSUME NEW q \in Pair, GiveUp(q)
      PROVE  \/ a \in strays[p]
             \/ p \in cut' /\ \E i \in 1..Len(queue[p]) : a = queue[p][i]
  BY <1>1, <1>3 DEF GiveUp
<1>4. ASSUME NEW q \in Pair, Owner(q), ~Cancel(q)
      PROVE  strays' = strays
  BY <1>4 DEF Owner, Discover, SendFollow, Answer, Unfollow, RemoveFollower, BlockActor,
              UnblockActor, ApplyActorBlock, BlockDomain, UnblockDomain, QueueThenSave
<1>5. ASSUME NEW q \in Pair, Admit(q) \/ AdmitStray(q) \/ Leave(q)
      PROVE  strays' = strays
  BY <1>5 DEF Admit, AdmitStray, Receive, Leave
<1>6. ASSUME NEW n \in Node, Process(n) \/ Crash(n) \/ \E c \in Circle : SetCircle(n, c)
      PROVE  strays' = strays
  BY <1>6 DEF Process, FinishSave, Dispatch, Crash, SetCircle
<1>7. ASSUME UNCHANGED vars PROVE strays' = strays
  BY <1>7 DEF vars
<1> QED
  BY <1>2, <1>3, <1>4, <1>5, <1>6, <1>7 DEF Next

\* Grants and cuts are for good.
LEMMA HistoryGrows ==
    ASSUME TypeInv, [Next]_vars
    PROVE  cut \subseteq cut' /\ \A n \in Node : granted[n] \subseteq granted'[n]
<1>1. granted \in [Node -> SUBSET Nat]
  BY DEF TypeInv, TypeOK
<1>2. ASSUME NEW q \in Pair, Owner(q)
      PROVE  cut \subseteq cut' /\ \A n \in Node : granted[n] \subseteq granted'[n]
  BY <1>1, <1>2 DEF Owner, Discover, SendFollow, Answer, Unfollow, RemoveFollower,
     BlockActor, UnblockActor, ApplyActorBlock, BlockDomain, UnblockDomain, QueueThenSave,
     Cancel, historyVars
<1>3. ASSUME NEW q \in Pair, Admit(q) \/ AdmitStray(q) \/ GiveUp(q) \/ Leave(q)
      PROVE  cut \subseteq cut' /\ granted' = granted
  BY <1>3 DEF Admit, AdmitStray, Receive, GiveUp, Leave, historyVars
<1>4. ASSUME NEW n \in Node, Process(n) \/ Crash(n) \/ \E c \in Circle : SetCircle(n, c)
      PROVE  cut \subseteq cut' /\ granted' = granted
  BY <1>4 DEF Process, FinishSave, Dispatch, Crash, SetCircle, historyVars
<1>5. ASSUME UNCHANGED vars PROVE cut' = cut /\ granted' = granted
  BY <1>5 DEF vars, historyVars
<1> QED
  BY <1>2, <1>3, <1>4, <1>5 DEF Next

LEMMA StraysEarnedStep ==
    ASSUME TypeInv, EarnedInv, StraysEarned, [Next]_vars
    PROVE  StraysEarned'
<1> SUFFICES ASSUME NEW p \in Pair, NEW a \in strays'[p] PROVE Backed(a, p, granted')
  BY DEF StraysEarned
<1>1. Backed(a, p, granted)
  BY StrayStep DEF StraysEarned, EarnedInv
<1> QED
  BY <1>1, HistoryGrows, StillEarned

\* "Following" means that the other owner accepted this very Follow, and
\* "Follower" that this owner did: answers to older Follows, repeated and late
\* ones, a request that is sent while another is under way, change neither.
THEOREM EarnedStates == Spec => []FollowsAreEarned
<1>1. Init => EarnedInv /\ StraysEarned
  BY DEF Init, EarnedInv, StraysEarned, Earned, Backed, NewRow, Nothing
<1>2. /\ TypeInv /\ EarnedInv /\ StraysEarned /\ [Next]_vars
      => (TypeInv /\ EarnedInv /\ StraysEarned)'
  BY TypeStep, EarnedStep, StraysEarnedStep
<1>3. EarnedInv => FollowsAreEarned
  BY DEF EarnedInv, Earned, FollowsAreEarned
<1> QED
  BY TypeInit, <1>1, <1>2, <1>3, PTL DEF Spec

-----------------------------------------------------------------------------
(* Blocks.  An actor that is not known is as much out as one that is         *)
(* blocked: a domain may be blocked before it is discovered.  And nobody is  *)
(* blocked while a row waits to be saved, so that the saved row undoes no    *)
(* block.                                                                    *)

Shut(p) == rel[p].blocked \/ p \in domainBlocked \/ p \notin known

Out(p) ==
    /\ rel[p].outbound \notin {"pending", "following"}
    /\ rel[p].inbound \notin {"pending", "follower"}
    /\ circles[p] = {}
    /\ queue[p] = <<>>

Harmless(t) == ~Shut(t.pair) /\ ~t.row.blocked

BlockInv ==
    /\ \A p \in Pair : Shut(p) => Out(p)
    /\ \A n \in Node : web[n].do = "save" => Harmless(web[n])

LEMMA FlagKept ==
    ASSUME NEW r \in Row, NEW i
    PROVE  /\ [r EXCEPT !.outbound = "pending", !.outId = i].blocked = r.blocked
           /\ [r EXCEPT !.outbound = "removed"].blocked = r.blocked
           /\ [r EXCEPT !.inbound = "follower"].blocked = r.blocked
           /\ [r EXCEPT !.inbound = "rejected"].blocked = r.blocked
           /\ [r EXCEPT !.inbound = "removed"].blocked = r.blocked
BY DEF Row

LEMMA QueueBlock ==
    ASSUME TypeInv, BlockInv, NEW p \in Pair, NEW kind \in Kind, NEW f \in Nat,
           NEW r \in Row, QueueThenSave(p, kind, f, r), ~Shut(p), ~r.blocked
    PROVE  BlockInv'
<1>1. queue \in [Pair -> Seq(Activity)] /\ web \in [Node -> Task]
  BY DEF TypeInv, TypeOK
<1>2. UNCHANGED <<rel, domainBlocked, known, circles>>
  BY DEF QueueThenSave, policyVars
<1>3. ASSUME NEW q \in Pair, Shut(q)' PROVE Out(q)'
  <2>1. Shut(q) /\ q # p
    BY <1>2, <1>3 DEF Shut
  <2>2. queue'[q] = queue[q]
    BY <1>1, <2>1 DEF QueueThenSave
  <2> QED
    BY <1>2, <2>1, <2>2 DEF BlockInv, Out
<1>4. ASSUME NEW n \in Node, web'[n].do = "save" PROVE Harmless(web[n])'
  <2>1. ~Shut(web'[n].pair) /\ ~web'[n].row.blocked
    BY <1>1, <1>4 DEF QueueThenSave, BlockInv, Harmless
  <2> QED
    BY <1>2, <2>1 DEF Harmless, Shut
<1> QED
  BY <1>3, <1>4 DEF BlockInv

\* What a save leaves, for a pair that is not shut out.
LEMMA SaveBlock ==
    ASSUME TypeOK, BlockInv, NEW p \in Pair, NEW r \in Row, Save(p, r),
           ~r.blocked, p \notin domainBlocked, p \in known', known \subseteq known',
           UNCHANGED domainBlocked,
           \A q \in Pair : queue[q] = <<>> => queue'[q] = <<>>
    PROVE  \A q \in Pair : Shut(q)' => Out(q)'
BY DEF TypeOK, BlockInv, Save, Shut, Out

\* A pair whose conversation is cut by a block.
LEMMA CutBlock ==
    ASSUME TypeInv, BlockInv, NEW p \in Pair, Idle(p[1]), NEW r \in Row,
           r.outbound = "removed", r.inbound = "removed",
           rel' = [rel EXCEPT ![p] = r], circles' = [circles EXCEPT ![p] = {}],
           queue' = [queue EXCEPT ![p] = <<>>], UNCHANGED <<known, web>>,
           domainBlocked \ {p} = domainBlocked' \ {p}
    PROVE  BlockInv'
<1>1. TypeOK
  BY DEF TypeInv
<1>2. ASSUME NEW q \in Pair, Shut(q)' PROVE Out(q)'
  <2>1. CASE q = p
    BY <1>1, <2>1 DEF TypeOK, Out
  <2>2. CASE q # p
    BY <1>1, <1>2, <2>2 DEF TypeOK, Out, Shut, BlockInv
  <2> QED
    BY <2>1, <2>2
<1>3. ASSUME NEW n \in Node, web'[n].do = "save" PROVE Harmless(web[n])'
  <2>1. Harmless(web[n]) /\ web[n].pair \in Pair /\ web[n].pair[1] = n
    BY <1>3 DEF BlockInv, TypeInv, Shaped
  <2>2. web[n].pair # p
    BY <1>3, <2>1 DEF Idle
  <2> QED
    BY <1>1, <2>1, <2>2 DEF TypeOK, Harmless, Shut
<1> QED
  BY <1>2, <1>3 DEF BlockInv

LEMMA BlockStep ==
    ASSUME TypeInv, BlockInv, [Next]_vars
    PROVE  BlockInv'
<1>0. /\ TypeOK /\ queue \in [Pair -> Seq(Activity)] /\ web \in [Node -> Task]
      /\ rel \in [Pair -> Row] /\ circles \in [Pair -> SUBSET Circle] /\ nextId \in Nat
  BY DEF TypeInv, TypeOK
<1>1. ASSUME NEW p \in Pair, SendFollow(p) PROVE BlockInv'
  <2> DEFINE r == [Read(p) EXCEPT !.outbound = "pending", !.outId = nextId]
  <2>1. Read(p) \in Row /\ ~Read(p).blocked
    BY <1>0, <1>1, RowFacts DEF SendFollow
  <2>2. r \in Row /\ r.blocked = Read(p).blocked
    BY <1>0, <2>1, RowUpdates, FlagKept
  <2>3. ~Shut(p)
    BY <1>0, <1>1, <2>1, RowFacts DEF SendFollow, Request, Shut
  <2>4. QueueThenSave(p, "Follow", nextId, r)
    BY <1>1 DEF SendFollow
  <2> HIDE DEF r
  <2> QED
    BY <1>0, <2>1, <2>2, <2>3, <2>4, QueueBlock DEF Kind
<1>2. ASSUME NEW p \in Pair, Answer(p) PROVE BlockInv'
  <2> DEFINE r == Read(p)
             yes == [r EXCEPT !.inbound = "follower"]
             no == [r EXCEPT !.inbound = "rejected"]
  <2>1. r \in Row /\ ~r.blocked
    BY <1>0, <1>2, RowFacts DEF Answer
  <2>2. yes \in Row /\ no \in Row /\ r.inId \in Nat /\ ~yes.blocked /\ ~no.blocked
    BY <2>1, RowUpdates, FlagKept
  <2>3. ~Shut(p)
    BY <1>0, <1>2, <2>1, RowFacts DEF Answer, Request, Shut
  <2>4. QueueThenSave(p, "Accept", r.inId, yes) \/ QueueThenSave(p, "Reject", r.inId, no)
    BY <1>2 DEF Answer
  <2> HIDE DEF yes, no, r
  <2> QED
    BY <2>2, <2>3, <2>4, QueueBlock DEF Kind
<1>3. ASSUME NEW p \in Pair, Unfollow(p) PROVE BlockInv'
  <2> DEFINE r == [Read(p) EXCEPT !.outbound = "removed"]
  <2>1. Read(p) \in Row /\ rel[p].outbound \in {"pending", "following"}
    BY <1>0, <1>3, RowFacts DEF Unfollow
  <2>2. ~Shut(p)
    BY <2>1 DEF BlockInv, Out
  <2>3. r \in Row /\ ~r.blocked /\ Read(p).outId \in Nat
    <3>1. ~Read(p).blocked
      BY <1>0, <2>2, RowFacts DEF Shut
    <3> QED
      BY <2>1, <3>1, RowUpdates, FlagKept
  <2>4. QueueThenSave(p, "Undo", Read(p).outId, r)
    BY <1>3 DEF Unfollow
  <2> HIDE DEF r
  <2> QED
    BY <2>2, <2>3, <2>4, QueueBlock DEF Kind
<1>4. ASSUME NEW p \in Pair, RemoveFollower(p) PROVE BlockInv'
  <2> DEFINE r == [Read(p) EXCEPT !.inbound = "removed"]
  <2>1. Read(p) \in Row /\ rel[p].inbound \in {"pending", "follower"}
    BY <1>0, <1>4, RowFacts DEF RemoveFollower
  <2>2. ~Shut(p)
    BY <2>1 DEF BlockInv, Out
  <2>3. r \in Row /\ ~r.blocked
    <3>1. ~Read(p).blocked
      BY <1>0, <2>2, RowFacts DEF Shut
    <3> QED
      BY <2>1, <3>1, RowUpdates, FlagKept
  <2>4. Save(p, r) /\ UNCHANGED <<known, domainBlocked, queue, web>> /\ Idle(p[1])
    BY <1>4 DEF RemoveFollower, Request, policyVars
  <2> HIDE DEF r
  <2>5. \A q \in Pair : Shut(q)' => Out(q)'
    BY <1>0, <2>2, <2>3, <2>4, SaveBlock DEF Shut
  <2>6. ASSUME NEW n \in Node, web'[n].do = "save" PROVE Harmless(web[n])'
    <3>1. Harmless(web[n]) /\ web[n].pair \in Pair /\ web[n].pair # p
      BY <2>4, <2>6 DEF BlockInv, TypeInv, Shaped, Idle
    <3> QED
      BY <1>0, <2>4, <3>1 DEF Harmless, Shut, Save
  <2> QED
    BY <2>5, <2>6 DEF BlockInv
<1>5. ASSUME NEW p \in Pair, NEW b \in BOOLEAN, ApplyActorBlock(p, b) PROVE BlockInv'
  <2> DEFINE r == [Severed(rel[p]) EXCEPT !.blocked = b]
  <2>1. r \in Row /\ r.outbound = "removed" /\ r.inbound = "removed"
    BY <1>0 DEF Row, Severed
  <2>2. /\ rel' = [rel EXCEPT ![p] = r] /\ circles' = [circles EXCEPT ![p] = {}]
        /\ queue' = [queue EXCEPT ![p] = <<>>] /\ UNCHANGED <<known, domainBlocked, web>>
        /\ Idle(p[1])
    BY <1>5 DEF ApplyActorBlock, Cancel, Request, policyVars
  <2> HIDE DEF r
  <2> QED
    BY <2>1, <2>2, CutBlock
<1>6. ASSUME NEW p \in Pair, BlockDomain(p), p \in known PROVE BlockInv'
  <2> DEFINE r == Severed(rel[p])
  <2>1. r \in Row /\ r.outbound = "removed" /\ r.inbound = "removed"
    BY <1>0 DEF Row, Severed
  <2>2. /\ rel' = [rel EXCEPT ![p] = r] /\ circles' = [circles EXCEPT ![p] = {}]
        /\ queue' = [queue EXCEPT ![p] = <<>>] /\ UNCHANGED <<known, web>>
        /\ Idle(p[1]) /\ domainBlocked' = domainBlocked \cup {p}
    BY <1>6 DEF BlockDomain, Cancel
  <2> HIDE DEF r
  <2> QED
    BY <2>1, <2>2, CutBlock
<1>7. ASSUME NEW p \in Pair, BlockDomain(p), p \notin known PROVE BlockInv'
  <2>1. /\ domainBlocked' = domainBlocked \cup {p} /\ Idle(p[1])
        /\ UNCHANGED <<known, rel, circles, queue, web>>
    BY <1>7 DEF BlockDomain
  <2>2. ASSUME NEW q \in Pair, Shut(q)' PROVE Out(q)'
    BY <1>7, <2>1, <2>2 DEF BlockInv, Shut, Out
  <2>3. ASSUME NEW n \in Node, web'[n].do = "save" PROVE Harmless(web[n])'
    BY <1>7, <2>1, <2>3 DEF BlockInv, Harmless, Shut
  <2> QED
    BY <2>2, <2>3 DEF BlockInv
<1>8. ASSUME NEW p \in Pair, UnblockDomain(p) PROVE BlockInv'
  BY <1>8 DEF UnblockDomain, BlockInv, Harmless, Shut, Out
<1>9. ASSUME NEW p \in Pair, Discover(p) PROVE BlockInv'
  BY <1>9 DEF Discover, BlockInv, Harmless, Shut, Out
<1>10. ASSUME NEW n \in Node, FinishSave(n) PROVE BlockInv'
  <2> DEFINE p == web[n].pair
             r == web[n].row
  <2>1. p \in Pair /\ p[1] = n /\ r \in Row /\ ~Shut(p) /\ ~r.blocked
    BY <1>10 DEF FinishSave, TypeInv, Shaped, BlockInv, Harmless
  <2>2. /\ Save(p, r) /\ UNCHANGED <<known, domainBlocked, queue>>
        /\ web' = [web EXCEPT ![n] = Nothing]
    BY <1>10 DEF FinishSave, policyVars
  <2> HIDE DEF p, r
  <2>3. \A q \in Pair : Shut(q)' => Out(q)'
    BY <1>0, <2>1, <2>2, SaveBlock DEF Shut
  <2>4. ASSUME NEW m \in Node, web'[m].do = "save" PROVE Harmless(web[m])'
    <3>1. m # n /\ web'[m] = web[m]
      BY <1>0, <2>2, <2>4, NothingShaped
    <3>2. Harmless(web[m]) /\ web[m].pair \in Pair /\ web[m].pair # p
      BY <2>1, <2>4, <3>1 DEF BlockInv, TypeInv, Shaped
    <3> QED
      BY <1>0, <2>2, <3>1, <3>2 DEF Harmless, Shut, Save
  <2> QED
    BY <2>3, <2>4 DEF BlockInv
<1>11. ASSUME NEW p \in Pair, Admit(p) \/ AdmitStray(p) PROVE BlockInv'
  <2>1. UNCHANGED <<known, domainBlocked, rel, circles, queue>>
    BY <1>11 DEF Admit, AdmitStray, Receive, policyVars
  <2>2. ASSUME NEW m \in Node, web'[m].do = "save" PROVE Harmless(web[m])'
    <3>1. web'[m] = web[m]
      <4> PICK a \in Activity : Receive(p, a)
        BY <1>0, <1>11, Arrives
      <4> QED
        BY <1>0, <2>2 DEF Receive
    <3> QED
      BY <2>1, <2>2, <3>1 DEF BlockInv, Harmless, Shut
  <2> QED
    BY <2>1, <2>2 DEF BlockInv, Shut, Out
<1>12. ASSUME NEW n \in Node, Dispatch(n) PROVE BlockInv'
  <2> DEFINE p == web[n].pair
             a == web[n].act
             r == Received(Read(p), a)
  <2>1. p \in Pair /\ p[1] = n /\ a \in Activity /\ Rev(p) \in Pair
    BY <1>12, PairFacts DEF Dispatch, TypeInv, Shaped
  <2>2. /\ UNCHANGED domainBlocked /\ web' = [web EXCEPT ![n] = Nothing]
        /\ known \subseteq known'
    BY <1>12 DEF Dispatch
  <2>3. \A q \in Pair : queue[q] = <<>> => queue'[q] = <<>>
    <3>1. Acknowledge(Rev(p), a)
      BY <1>12 DEF Dispatch
    <3> HIDE DEF p, a
    <3> QED
      BY <1>0, <2>1, <3>1 DEF Acknowledge
  <2>4. Read(p) \in Row /\ r \in Row /\ r.blocked = Read(p).blocked
    BY <1>0, <2>1, RowFacts, ReceivedRow
  <2>5. CASE Effective(p, a) /\ HandedOn(web[n].fresh)
    <3>1. ~Read(p).blocked
      BY <2>5 DEF Effective
    <3>2. ~r.blocked /\ p \notin domainBlocked
      BY <1>0, <2>1, <2>4, <3>1, RowFacts
    <3>3. p \in known' /\ Save(p, r)
      BY <1>12, <2>5, <3>2 DEF Dispatch
    <3>4. \A q \in Pair : Shut(q)' => Out(q)'
      BY <1>0, <2>1, <2>2, <2>3, <2>4, <3>2, <3>3, SaveBlock
    <3>5. ASSUME NEW m \in Node, web'[m].do = "save" PROVE Harmless(web[m])'
      <4>1. m # n /\ web'[m] = web[m]
        BY <1>0, <2>2, <3>5, NothingShaped
      <4>2. Harmless(web[m]) /\ web[m].pair \in Pair /\ web[m].pair # p
        BY <2>1, <3>5, <4>1 DEF BlockInv, TypeInv, Shaped
      <4> HIDE DEF p, r
      <4> QED
        BY <1>0, <2>2, <3>3, <4>1, <4>2 DEF Harmless, Shut, Save
    <3> QED
      BY <3>4, <3>5 DEF BlockInv
  <2>6. CASE ~(Effective(p, a) /\ HandedOn(web[n].fresh))
    <3>1. UNCHANGED <<rel, circles>>
      BY <1>12, <2>6 DEF Dispatch
    <3>2. \A q \in Pair : Shut(q)' => Out(q)'
      BY <2>2, <2>3, <3>1 DEF BlockInv, Shut, Out
    <3>3. ASSUME NEW m \in Node, web'[m].do = "save" PROVE Harmless(web[m])'
      <4>1. web'[m] = web[m]
        BY <1>0, <2>2, <3>3, NothingShaped
      <4> QED
        BY <2>2, <3>1, <3>3, <4>1 DEF BlockInv, Harmless, Shut
    <3> QED
      BY <3>2, <3>3 DEF BlockInv
  <2> QED
    BY <2>5, <2>6
<1>13. ASSUME NEW n \in Node, Crash(n) PROVE BlockInv'
  <2>1. /\ UNCHANGED <<known, domainBlocked, rel, circles, queue>>
        /\ web' = [web EXCEPT ![n] = Nothing]
    BY <1>13 DEF Crash, policyVars
  <2>2. ASSUME NEW m \in Node, web'[m].do = "save" PROVE Harmless(web[m])'
    <3>1. web'[m] = web[m]
      BY <1>0, <2>1, <2>2, NothingShaped
    <3> QED
      BY <2>1, <2>2, <3>1 DEF BlockInv, Harmless, Shut
  <2> QED
    BY <2>1, <2>2 DEF BlockInv, Shut, Out
<1>14. ASSUME NEW p \in Pair, GiveUp(p) PROVE BlockInv'
  <2>1. /\ UNCHANGED <<known, domainBlocked, rel, circles, web>>
        /\ \A q \in Pair : queue[q] = <<>> => queue'[q] = <<>>
    BY <1>0, <1>14 DEF GiveUp, policyVars
  <2> QED
    BY <2>1 DEF BlockInv, Harmless, Shut, Out
<1>15. ASSUME NEW p \in Pair, Leave(p) PROVE BlockInv'
  <2>1. ~Shut(p)
    BY <1>0, <1>15, RowFacts DEF Leave, Request, Shut
  <2>2. /\ UNCHANGED <<known, domainBlocked, rel, circles, web>>
        /\ \A q \in Pair : q # p => queue'[q] = queue[q]
    BY <1>0, <1>15 DEF Leave, policyVars
  <2> QED
    BY <2>1, <2>2 DEF BlockInv, Harmless, Shut, Out
<1>16. ASSUME NEW n \in Node, NEW c \in Circle, SetCircle(n, c) PROVE BlockInv'
  <2>1. UNCHANGED <<known, domainBlocked, rel, queue, web>>
    BY <1>16 DEF SetCircle, policyVars
  <2>2. PICK S \in SUBSET {p \in Pair : p[1] = n /\ Eligible(p)} :
          circles' = [p \in Pair |-> CASE p \in S -> circles[p] \cup {c}
                                       [] p[1] = n /\ p \notin S -> circles[p] \ {c}
                                       [] OTHER -> circles[p]]
    BY <1>16 DEF SetCircle
  <2>3. ASSUME NEW q \in Pair, Shut(q) PROVE circles'[q] = {}
    <3>1. Out(q)
      BY <2>3 DEF BlockInv
    <3>2. q \notin S
      BY <3>1 DEF Out, Eligible, Friend
    <3> QED
      BY <2>2, <3>1, <3>2 DEF Out
  <2> QED
    BY <2>1, <2>3 DEF BlockInv, Harmless, Shut, Out
<1>17. CASE UNCHANGED vars
  BY <1>17 DEF vars, policyVars, BlockInv, Harmless, Shut, Out
<1> QED
  BY <1>1, <1>2, <1>3, <1>4, <1>5, <1>6, <1>7, <1>8, <1>9, <1>10, <1>11, <1>12, <1>13,
     <1>14, <1>15, <1>16, <1>17 DEF Next, Owner, Process, BlockActor, UnblockActor

\* A blocked actor neither follows nor is followed, asks for nothing, is in no
\* circle and has nothing queued for it, until the block is lifted.
THEOREM BlocksHold == Spec => []BlockedIsOut
<1>1. Init => BlockInv
  BY DEF Init, BlockInv, Shut, Out, NewRow, Nothing
<1>2. TypeInv /\ BlockInv /\ [Next]_vars => (TypeInv /\ BlockInv)'
  BY TypeStep, BlockStep
<1>3. BlockInv => BlockedIsOut
  BY DEF BlockInv, Shut, Out, BlockedIsOut
<1> QED
  BY TypeInit, <1>1, <1>2, <1>3, PTL DEF Spec

-----------------------------------------------------------------------------
(* Agreement.  For each direction: what the follower's node claims (mine,  *)
(* with q on its way to the other), what the other node shows of it        *)
(* (theirs, with b on its way back), and the Follows that became requests  *)
(* there.  Rows count as saved once they wait to be.                       *)

Eff(p) == IF web[p[1]].do = "save" /\ web[p[1]].pair = p THEN web[p[1]].row ELSE rel[p]

Has(q, kind, f) == \E i \in 1..Len(q) : q[i].kind = kind /\ q[i].follow = f

\* The activity at i is followed by an Undo of the same Follow.
Undone(q, i) == \E j \in 1..Len(q) : j > i /\ q[j].kind = "Undo" /\ q[j].follow = q[i].follow

Shown(r) == r.inbound \in {"pending", "follower"}

Stays(q) == \A i \in 1..Len(q) : q[i].kind # "Delete"

\* A Follow on its way is still open, taken back later, or has been a request.
Asks(mine, q, ap) ==
    \A i \in 1..Len(q) : q[i].kind = "Follow" =>
        \/ Undone(q, i)
        \/ mine.outbound = "pending" /\ mine.outId = q[i].follow
        \/ q[i].follow \in ap

\* An answer on its way is the last word on its Follow, unless that has
\* become a request a second time.
Replies(theirs, b, ap, re) ==
    /\ \A f : Has(b, "Accept", f) \/ Has(b, "Reject", f) => f \in ap
    /\ Shown(theirs) => theirs.inId \in ap
    /\ theirs.inbound = "pending" /\ Has(b, "Accept", theirs.inId) => theirs.inId \in re
    /\ Shown(theirs) /\ Has(b, "Reject", theirs.inId) => theirs.inId \in re

\* What is shown is claimed, or is about to be taken back or claimed.
Fits(mine, theirs, q, b, re) ==
    Shown(theirs) /\ theirs.inId \notin re =>
        \/ Has(q, "Undo", theirs.inId)
        \/ /\ mine.outId = theirs.inId
           /\ theirs.inbound = "pending" => mine.outbound = "pending"
           /\ theirs.inbound = "follower" =>
                 \/ mine.outbound = "following"
                 \/ mine.outbound = "pending" /\ Has(b, "Accept", theirs.inId)

Agreed(mine, theirs, q, b, ap, re) ==
    /\ Stays(q) /\ Stays(b) /\ Asks(mine, q, ap)
    /\ Replies(theirs, b, ap, re) /\ Fits(mine, theirs, q, b, re)

Whole(p) == p \notin cut /\ Rev(p) \notin cut

\* What a node is dispatching is still the head of the queue it came from.
AtHead(p) ==
    web[p[2]].do = "dispatch" /\ web[p[2]].pair = Rev(p) =>
        queue[p] # <<>> /\ Head(queue[p]) = web[p[2]].act

Talk(p) ==
    /\ AtHead(p)
    /\ Agreed(Eff(p), Eff(Rev(p)), queue[p], queue[Rev(p)], applied[p[2]], reapplied[p[2]])

ConvInv == \A p \in Pair : Whole(p) => Talk(p)

LEMMA HasAppend ==
    ASSUME NEW s \in Seq(Activity), NEW a \in Activity, NEW kind, NEW f
    PROVE  Has(Append(s, a), kind, f) <=> Has(s, kind, f) \/ (a.kind = kind /\ a.follow = f)
<1> DEFINE t == Append(s, a)
<1>1. Len(t) = Len(s) + 1 /\ t[Len(s) + 1] = a /\ \A i \in 1..Len(s) : t[i] = s[i]
  OBVIOUS
<1>2. Len(s) \in Nat  OBVIOUS
<1> HIDE DEF t
<1>3. ASSUME Has(t, kind, f) PROVE Has(s, kind, f) \/ (a.kind = kind /\ a.follow = f)
  <2> PICK i \in 1..Len(t) : t[i].kind = kind /\ t[i].follow = f  BY <1>3 DEF Has
  <2> QED  BY <1>1, <1>2 DEF Has
<1>4. ASSUME Has(s, kind, f) PROVE Has(t, kind, f)
  BY <1>1, <1>2, <1>4 DEF Has
<1>5. ASSUME a.kind = kind, a.follow = f PROVE Has(t, kind, f)
  <2>1. Len(s) + 1 \in 1..Len(t)  BY <1>1, <1>2
  <2> QED  BY <1>1, <1>5, <2>1 DEF Has
<1> QED  BY <1>3, <1>4, <1>5 DEF t

LEMMA HasTail ==
    ASSUME NEW s \in Seq(Activity), s # <<>>, NEW kind, NEW f
    PROVE  /\ Has(Tail(s), kind, f) => Has(s, kind, f)
           /\ Has(s, kind, f) =>
                 Has(Tail(s), kind, f) \/ (Head(s).kind = kind /\ Head(s).follow = f)
<1>1. Len(s) \in Nat \ {0} /\ Len(Tail(s)) = Len(s) - 1 /\ Head(s) = s[1]
      /\ \A i \in 1..Len(Tail(s)) : Tail(s)[i] = s[i + 1]
  OBVIOUS
<1>2. ASSUME Has(Tail(s), kind, f) PROVE Has(s, kind, f)
  <2> PICK i \in 1..Len(Tail(s)) : Tail(s)[i].kind = kind /\ Tail(s)[i].follow = f
    BY <1>2 DEF Has
  <2>1. i + 1 \in 1..Len(s)  BY <1>1
  <2> QED  BY <1>1, <2>1 DEF Has
<1>3. ASSUME Has(s, kind, f)
      PROVE  Has(Tail(s), kind, f) \/ (Head(s).kind = kind /\ Head(s).follow = f)
  <2> PICK i \in 1..Len(s) : s[i].kind = kind /\ s[i].follow = f  BY <1>3 DEF Has
  <2>1. CASE i = 1  BY <1>1, <2>1
  <2>2. CASE i # 1
    <3>1. i - 1 \in 1..Len(Tail(s)) /\ Tail(s)[i - 1] = s[i]  BY <1>1, <2>2
    <3> QED  BY <3>1 DEF Has
  <2> QED  BY <2>1, <2>2
<1> QED  BY <1>2, <1>3

LEMMA StaysOn ==
    ASSUME NEW s \in Seq(Activity), Stays(s)
    PROVE  /\ \A a \in Activity : a.kind # "Delete" => Stays(Append(s, a))
           /\ s # <<>> => Stays(Tail(s)) /\ Head(s).kind # "Delete"
<1>1. ASSUME NEW a \in Activity, a.kind # "Delete" PROVE Stays(Append(s, a))
  BY <1>1 DEF Stays
<1>2. ASSUME s # <<>> PROVE Stays(Tail(s)) /\ Head(s).kind # "Delete"
  <2>1. Len(s) \in Nat \ {0} /\ Len(Tail(s)) = Len(s) - 1 /\ Head(s) = s[1]
        /\ \A i \in 1..Len(Tail(s)) : Tail(s)[i] = s[i + 1]
    BY <1>2
  <2> QED  BY <2>1 DEF Stays
<1> QED  BY <1>1, <1>2

\* Without a new Follow, an open request that stays or is undone.
LEMMA AsksAppend ==
    ASSUME NEW s \in Seq(Activity), NEW a \in Activity, NEW mine, NEW then, NEW ap,
           Asks(mine, s, ap),
           a.kind = "Follow" => then.outbound = "pending" /\ then.outId = a.follow,
           mine.outbound = "pending" =>
              \/ then.outbound = "pending" /\ then.outId = mine.outId
              \/ a.kind = "Undo" /\ a.follow = mine.outId
    PROVE  Asks(then, Append(s, a), ap)
<1> DEFINE t == Append(s, a)
<1>1. Len(t) = Len(s) + 1 /\ t[Len(s) + 1] = a /\ \A i \in 1..Len(s) : t[i] = s[i]
  OBVIOUS
<1>2. Len(s) \in Nat  OBVIOUS
<1> HIDE DEF t
<1> SUFFICES ASSUME NEW i \in 1..Len(t), t[i].kind = "Follow"
             PROVE  \/ Undone(t, i)
                    \/ then.outbound = "pending" /\ then.outId = t[i].follow
                    \/ t[i].follow \in ap
  BY DEF Asks, t
<1>3. CASE i = Len(s) + 1  BY <1>1, <1>3
<1>4. CASE i \in 1..Len(s)
  <2>1. CASE Undone(s, i)
    <3> PICK j \in 1..Len(s) : j > i /\ s[j].kind = "Undo" /\ s[j].follow = s[i].follow
      BY <2>1 DEF Undone
    <3>1. j \in 1..Len(t)  BY <1>1, <1>2
    <3> QED  BY <1>1, <1>4, <3>1 DEF Undone
  <2>2. CASE mine.outbound = "pending" /\ mine.outId = s[i].follow
    <3>1. CASE a.kind = "Undo" /\ a.follow = mine.outId
      <4>1. Len(s) + 1 \in 1..Len(t) /\ Len(s) + 1 > i  BY <1>1, <1>2, <1>4
      <4> QED  BY <1>1, <1>4, <2>2, <3>1, <4>1 DEF Undone
    <3> QED  BY <1>1, <1>4, <2>2, <3>1
  <2> QED  BY <1>1, <1>4, <2>1, <2>2 DEF Asks
<1> QED  BY <1>1, <1>2, <1>3, <1>4

LEMMA AsksTail ==
    ASSUME NEW s \in Seq(Activity), s # <<>>, NEW mine, NEW ap, Asks(mine, s, ap)
    PROVE  /\ Asks(mine, Tail(s), ap)
           /\ Head(s).kind = "Follow" =>
                 \/ Has(Tail(s), "Undo", Head(s).follow)
                 \/ mine.outbound = "pending" /\ mine.outId = Head(s).follow
                 \/ Head(s).follow \in ap
<1>1. Len(s) \in Nat \ {0} /\ Len(Tail(s)) = Len(s) - 1 /\ Head(s) = s[1]
      /\ \A i \in 1..Len(Tail(s)) : Tail(s)[i] = s[i + 1]
  OBVIOUS
<1>2. ASSUME NEW i \in 1..Len(Tail(s)), Tail(s)[i].kind = "Follow"
      PROVE  \/ Undone(Tail(s), i)
             \/ mine.outbound = "pending" /\ mine.outId = Tail(s)[i].follow
             \/ Tail(s)[i].follow \in ap
  <2>1. i + 1 \in 1..Len(s) /\ s[i + 1] = Tail(s)[i]  BY <1>1
  <2>2. CASE Undone(s, i + 1)
    <3> PICK j \in 1..Len(s) : j > i + 1 /\ s[j].kind = "Undo" /\ s[j].follow = s[i + 1].follow
      BY <2>2 DEF Undone
    <3>1. j - 1 \in 1..Len(Tail(s)) /\ j - 1 > i /\ Tail(s)[j - 1] = s[j]  BY <1>1
    <3> QED  BY <2>1, <3>1 DEF Undone
  <2> QED  BY <1>2, <2>1, <2>2 DEF Asks
<1>3. ASSUME Undone(s, 1) PROVE Has(Tail(s), "Undo", Head(s).follow)
  <2> PICK j \in 1..Len(s) : j > 1 /\ s[j].kind = "Undo" /\ s[j].follow = s[1].follow
    BY <1>3 DEF Undone
  <2>1. j - 1 \in 1..Len(Tail(s)) /\ Tail(s)[j - 1] = s[j]  BY <1>1
  <2> QED  BY <1>1, <2>1 DEF Has
<1>4. 1 \in 1..Len(s)  BY <1>1
<1> QED  BY <1>1, <1>2, <1>3, <1>4 DEF Asks

SameOut(r, s) == r.outbound = s.outbound /\ r.outId = s.outId
SameIn(r, s) == r.inbound = s.inbound /\ r.inId = s.inId

\* Nothing that the two nodes say to each other changes.
LEMMA AgreedOn ==
    ASSUME NEW mine, NEW theirs, NEW q, NEW b, NEW ap, NEW re,
           Agreed(mine, theirs, q, b, ap, re),
           NEW mine2, NEW theirs2, NEW ap2, NEW re2,
           SameOut(mine, mine2), SameIn(theirs, theirs2), ap \subseteq ap2, re \subseteq re2
    PROVE  Agreed(mine2, theirs2, q, b, ap2, re2)
<1>1. Asks(mine2, q, ap2)
  BY DEF Agreed, Asks, SameOut
<1>2. Replies(theirs2, b, ap2, re2)
  BY DEF Agreed, Replies, SameIn, Shown
<1>3. Fits(mine2, theirs2, q, b, re2)
  BY DEF Agreed, Fits, SameIn, SameOut, Shown
<1> QED  BY <1>1, <1>2, <1>3 DEF Agreed

\* The follower's node queues something: a Follow with which a request opens,
\* the Undo of the open one, or an answer.
LEMMA AgreedSends ==
    ASSUME NEW mine, NEW theirs, NEW q \in Seq(Activity), NEW b, NEW ap, NEW re,
           Agreed(mine, theirs, q, b, ap, re), NEW mine2, NEW a \in Activity, a.kind # "Delete",
           a.kind = "Follow" => mine2.outbound = "pending" /\ mine2.outId = a.follow,
           mine.outbound \in {"pending", "following"} =>
              SameOut(mine, mine2) \/ (a.kind = "Undo" /\ a.follow = mine.outId)
    PROVE  Agreed(mine2, theirs, Append(q, a), b, ap, re)
<1>1. Asks(mine2, Append(q, a), ap)
  BY AsksAppend DEF Agreed, SameOut
<1>2. Stays(Append(q, a))
  BY StaysOn DEF Agreed
<1>3. \A f : Has(q, "Undo", f) \/ (a.kind = "Undo" /\ a.follow = f) => Has(Append(q, a), "Undo", f)
  BY HasAppend
<1>4. Fits(mine2, theirs, Append(q, a), b, re)
  BY <1>3 DEF Agreed, Fits, SameOut, Shown
<1> QED  BY <1>1, <1>2, <1>4 DEF Agreed

\* The other node queues something that is no answer.
LEMMA AgreedBeside ==
    ASSUME NEW mine, NEW theirs, NEW q, NEW b \in Seq(Activity), NEW ap, NEW re,
           Agreed(mine, theirs, q, b, ap, re), NEW theirs2, SameIn(theirs, theirs2),
           NEW a \in Activity, a.kind \in {"Follow", "Undo"}
    PROVE  Agreed(mine, theirs2, q, Append(b, a), ap, re)
<1>1. \A f : /\ Has(Append(b, a), "Accept", f) <=> Has(b, "Accept", f)
             /\ Has(Append(b, a), "Reject", f) <=> Has(b, "Reject", f)
  BY HasAppend
<1>2. Stays(Append(b, a))
  BY StaysOn DEF Agreed
<1>3. Replies(theirs2, Append(b, a), ap, re)
  BY <1>1 DEF Agreed, Replies, SameIn, Shown
<1>4. Fits(mine, theirs2, q, Append(b, a), re)
  BY <1>1 DEF Agreed, Fits, SameIn, Shown
<1> QED  BY <1>2, <1>3, <1>4 DEF Agreed

\* The other owner answers the request that is shown.
LEMMA AgreedAnswers ==
    ASSUME NEW mine, NEW theirs, NEW q, NEW b \in Seq(Activity), NEW ap, NEW re,
           Agreed(mine, theirs, q, b, ap, re), theirs.inbound = "pending",
           NEW theirs2, theirs2.inId = theirs.inId, NEW a \in Activity, a.follow = theirs.inId,
           \/ theirs2.inbound = "follower" /\ a.kind = "Accept"
           \/ theirs2.inbound = "rejected" /\ a.kind = "Reject"
    PROVE  Agreed(mine, theirs2, q, Append(b, a), ap, re)
<1>1. \A f : /\ Has(Append(b, a), "Accept", f) <=>
                   Has(b, "Accept", f) \/ (a.kind = "Accept" /\ a.follow = f)
             /\ Has(Append(b, a), "Reject", f) <=>
                   Has(b, "Reject", f) \/ (a.kind = "Reject" /\ a.follow = f)
  BY HasAppend
<1>2. Stays(Append(b, a))
  BY StaysOn DEF Agreed
<1>3. Replies(theirs2, Append(b, a), ap, re)
  BY <1>1 DEF Agreed, Replies, Shown
<1>4. Fits(mine, theirs2, q, Append(b, a), re)
  BY <1>1 DEF Agreed, Fits, Shown
<1> QED  BY <1>2, <1>3, <1>4 DEF Agreed

Grows(S, T) == S \subseteq T

\* What taking an activity makes of what a node shows: nothing; no follower;
\* a request, noted as applied, a second time if it was one before.
Takes(theirs, theirs2, a, ap, ap2, re2) ==
    \/ SameIn(theirs, theirs2) /\ (a.kind = "Undo" /\ Shown(theirs) => a.follow # theirs.inId)
    \/ ~Shown(theirs2)
    \/ /\ a.kind = "Follow" /\ a.follow \in ap2
       /\ theirs2.inbound = "pending" /\ theirs2.inId = a.follow
       /\ a.follow \in ap => a.follow \in re2

\* The other node takes the head of q, which may stay where it is.
LEMMA AgreedTakes ==
    ASSUME NEW mine, NEW theirs, NEW q \in Seq(Activity), NEW b, NEW ap, NEW re,
           Agreed(mine, theirs, q, b, ap, re), q # <<>>, NEW rest \in {q, Tail(q)},
           NEW theirs2, NEW ap2, NEW re2, Grows(ap, ap2), Grows(re, re2),
           Takes(theirs, theirs2, Head(q), ap, ap2, re2)
    PROVE  Agreed(mine, theirs2, rest, b, ap2, re2)
<1> DEFINE a == Head(q)
<1> USE DEF Grows
<1>1. Stays(rest) /\ Stays(b)
  BY StaysOn DEF Agreed
<1>2. Asks(mine, q, ap) /\ Asks(mine, Tail(q), ap)
  BY AsksTail DEF Agreed
<1>3. Asks(mine, rest, ap2)
  BY <1>2 DEF Asks
<1>4. ASSUME NEW f, Has(q, "Undo", f)
      PROVE  Has(rest, "Undo", f) \/ (a.kind = "Undo" /\ a.follow = f)
  <2>1. Has(Tail(q), "Undo", f) \/ (a.kind = "Undo" /\ a.follow = f)
    BY <1>4, HasTail
  <2> QED  BY <1>4, <2>1
<1>5. a.kind = "Follow" => \/ Has(rest, "Undo", a.follow)
                           \/ mine.outbound = "pending" /\ mine.outId = a.follow
                           \/ a.follow \in ap
  <2>1. Asks(mine, q, ap)
    BY DEF Agreed
  <2>2. a.kind = "Follow" => \/ Has(Tail(q), "Undo", a.follow)
                             \/ mine.outbound = "pending" /\ mine.outId = a.follow
                             \/ a.follow \in ap
    BY <2>1, AsksTail
  <2>3. Has(Tail(q), "Undo", a.follow) => Has(q, "Undo", a.follow)
    BY HasTail
  <2> QED  BY <2>2, <2>3
<1> HIDE DEF a
<1>6. CASE SameIn(theirs, theirs2) /\ (a.kind = "Undo" /\ Shown(theirs) => a.follow # theirs.inId)
  <2>1. Replies(theirs2, b, ap2, re2)
    BY <1>6 DEF Agreed, Replies, SameIn, Shown
  <2>2. Fits(mine, theirs2, rest, b, re2)
    BY <1>4, <1>6 DEF Agreed, Fits, SameIn, Shown
  <2> QED  BY <1>1, <1>3, <2>1, <2>2 DEF Agreed
<1>7. CASE ~Shown(theirs2)
  <2>1. Replies(theirs2, b, ap2, re2)
    BY <1>7 DEF Agreed, Replies, Shown
  <2>2. Fits(mine, theirs2, rest, b, re2)
    BY <1>7 DEF Fits
  <2> QED  BY <1>1, <1>3, <2>1, <2>2 DEF Agreed
<1>8. CASE /\ a.kind = "Follow" /\ a.follow \in ap2
           /\ theirs2.inbound = "pending" /\ theirs2.inId = a.follow
           /\ a.follow \in ap => a.follow \in re2
  <2>1. Has(b, "Accept", a.follow) \/ Has(b, "Reject", a.follow) => a.follow \in re2
    BY <1>8 DEF Agreed, Replies
  <2>2. Replies(theirs2, b, ap2, re2)
    BY <1>8, <2>1 DEF Agreed, Replies
  <2>3. Fits(mine, theirs2, rest, b, re2)
    BY <1>5, <1>8 DEF Fits
  <2> QED  BY <1>1, <1>3, <2>2, <2>3 DEF Agreed
<1> QED  BY <1>6, <1>7, <1>8 DEF Takes, a

\* What taking an activity makes of what a node claims: nothing, or its open
\* request is answered.
Hears(mine, mine2, a) ==
    \/ /\ SameOut(mine, mine2)
       /\ a.kind = "Accept" /\ mine.outbound = "pending" => a.follow # mine.outId
    \/ /\ mine.outbound = "pending" /\ mine2.outId = mine.outId /\ a.follow = mine.outId
       /\ \/ a.kind = "Accept" /\ mine2.outbound = "following"
          \/ a.kind = "Reject" /\ mine2.outbound = "rejected"

\* The follower's node takes the head of b, which may stay where it is.
LEMMA AgreedHears ==
    ASSUME NEW mine, NEW theirs, NEW q, NEW b \in Seq(Activity), NEW ap, NEW re,
           Agreed(mine, theirs, q, b, ap, re), b # <<>>, NEW rest \in {b, Tail(b)},
           NEW mine2,
           Hears(mine, mine2, Head(b))
    PROVE  Agreed(mine2, theirs, q, rest, ap, re)
<1> DEFINE a == Head(b)
<1>1. Stays(rest) /\ Stays(q)
  BY StaysOn DEF Agreed
<1>2. ASSUME NEW f
      PROVE  /\ Has(rest, "Accept", f) => Has(b, "Accept", f)
             /\ Has(rest, "Reject", f) => Has(b, "Reject", f)
             /\ Has(b, "Accept", f) =>
                   Has(rest, "Accept", f) \/ (a.kind = "Accept" /\ a.follow = f)
  <2>1. /\ Has(Tail(b), "Accept", f) => Has(b, "Accept", f)
        /\ Has(b, "Accept", f) =>
              Has(Tail(b), "Accept", f) \/ (a.kind = "Accept" /\ a.follow = f)
    BY HasTail
  <2>2. Has(Tail(b), "Reject", f) => Has(b, "Reject", f)
    BY HasTail
  <2> QED  BY <2>1, <2>2
<1>3. Has(b, a.kind, a.follow)
  <2>1. 1 \in 1..Len(b) /\ a = b[1]  OBVIOUS
  <2> QED  BY <2>1 DEF Has
<1> HIDE DEF a
<1>4. Replies(theirs, rest, ap, re)
  BY <1>2 DEF Agreed, Replies
<1>5. CASE SameOut(mine, mine2)
           /\ (a.kind = "Accept" /\ mine.outbound = "pending" => a.follow # mine.outId)
  <2>1. Asks(mine2, q, ap)
    BY <1>5 DEF Agreed, Asks, SameOut
  <2>2. Fits(mine2, theirs, q, rest, re)
    BY <1>2, <1>5 DEF Agreed, Fits, SameOut
  <2> QED  BY <1>1, <1>4, <2>1, <2>2 DEF Agreed
<1>6. CASE /\ mine.outbound = "pending" /\ mine2.outId = mine.outId /\ a.follow = mine.outId
           /\ \/ a.kind = "Accept" /\ mine2.outbound = "following"
              \/ a.kind = "Reject" /\ mine2.outbound = "rejected"
  <2>1. mine.outId \in ap
    BY <1>3, <1>6 DEF Agreed, Replies
  <2>2. Asks(mine2, q, ap)
    BY <1>6, <2>1 DEF Agreed, Asks
  <2>3. ASSUME Shown(theirs), theirs.inId \notin re
        PROVE  Has(q, "Undo", theirs.inId)
               \/ /\ mine2.outId = theirs.inId /\ theirs.inbound = "follower"
                  /\ mine2.outbound = "following"
    <3>1. CASE Has(q, "Undo", theirs.inId)
      BY <3>1
    <3>2. CASE mine.outId = theirs.inId
      <4>1. a.kind = "Accept" /\ theirs.inbound = "follower"
        BY <1>3, <1>6, <2>3, <3>2 DEF Agreed, Replies, Shown
      <4> QED  BY <1>6, <3>2, <4>1
    <3> QED  BY <2>3, <3>1, <3>2 DEF Agreed, Fits
  <2>4. Fits(mine2, theirs, q, rest, re)
    BY <2>3 DEF Fits
  <2> QED  BY <1>1, <1>4, <2>2, <2>4 DEF Agreed
<1> QED  BY <1>5, <1>6 DEF Hears, a

\* The other node shows the follower no more.
LEMMA AgreedDrops ==
    ASSUME NEW mine, NEW theirs, NEW q, NEW b, NEW ap, NEW re,
           Agreed(mine, theirs, q, b, ap, re), NEW theirs2, ~Shown(theirs2)
    PROVE  Agreed(mine, theirs2, q, b, ap, re)
<1>1. Replies(theirs2, b, ap, re)
  BY DEF Agreed, Replies, Shown
<1>2. Fits(mine, theirs2, q, b, re)
  BY DEF Fits
<1> QED  BY <1>1, <1>2 DEF Agreed

LEMMA Opposite ==
    ASSUME NEW p \in Pair
    PROVE  Rev(Rev(p)) = p /\ Rev(p) # p /\ p[1] # p[2]
BY DEF Pair, Rev

\* A step of one node, for one pair, leaves the other conversations alone.
LEMMA Elsewhere ==
    ASSUME TypeInv, ConvInv, NEW p \in Pair,
           \A d \in Pair \ {p, Rev(p)} : rel'[d] = rel[d] /\ queue'[d] = queue[d],
           \/ UNCHANGED web
           \/ /\ \A n \in Node \ {p[1]} : web'[n] = web[n]
              /\ web[p[1]].do = "save" => web[p[1]].pair = p
              /\ web'[p[1]].do \in {"save", "dispatch"} => web'[p[1]].pair = p,
           cut \subseteq cut',
           \A n \in Node : applied[n] \subseteq applied'[n] /\ reapplied[n] \subseteq reapplied'[n],
           Whole(p)' => Talk(p)' /\ Talk(Rev(p))'
    PROVE  ConvInv'
<1> SUFFICES ASSUME NEW d \in Pair, Whole(d)' PROVE Talk(d)'
  BY DEF ConvInv
<1>1. CASE d \in {p, Rev(p)}
  BY <1>1, Opposite DEF Whole
<1>2. CASE d \notin {p, Rev(p)}
  <2>1. /\ d[1] \in Node /\ d[2] \in Node /\ Rev(d) \in Pair /\ Rev(d) \notin {p, Rev(p)}
        /\ Rev(d)[1] = d[2] /\ Rev(d)[2] = d[1] /\ Rev(Rev(d)) = d
    BY <1>2, PairFacts, Opposite
  <2>2. Talk(d)
    BY DEF ConvInv, Whole
  <2>3. /\ rel'[d] = rel[d] /\ rel'[Rev(d)] = rel[Rev(d)]
        /\ queue'[d] = queue[d] /\ queue'[Rev(d)] = queue[Rev(d)]
    BY <1>2, <2>1
  <2>4. Eff(d)' = Eff(d)
    BY <1>2, <2>1, <2>3 DEF Eff
  <2>5. Eff(Rev(d))' = Eff(Rev(d))
    BY <1>2, <2>1, <2>3 DEF Eff
  <2>6. AtHead(d)'
    BY <2>1, <2>2, <2>3 DEF Talk, AtHead
  <2>7. Agreed(Eff(d), Eff(Rev(d)), queue[d], queue[Rev(d)], applied[d[2]], reapplied[d[2]])'
    BY <2>1, <2>2, <2>3, <2>4, <2>5, AgreedOn DEF Talk, SameOut, SameIn
  <2> QED  BY <2>6, <2>7 DEF Talk
<1> QED  BY <1>1, <1>2

\* An activity is queued and its row waits to be saved.
LEMMA ConvQueues ==
    ASSUME TypeInv, ConvInv, NEW p \in Pair, Idle(p[1]),
           NEW kind \in Kind \ {"Delete"}, NEW f \in Nat, NEW r \in Row,
           QueueThenSave(p, kind, f, r),
           kind = "Follow" => r.outbound = "pending" /\ r.outId = f,
           rel[p].outbound \in {"pending", "following"} =>
              SameOut(rel[p], r) \/ (kind = "Undo" /\ f = rel[p].outId),
           \/ SameIn(rel[p], r) /\ kind \in {"Follow", "Undo"}
           \/ /\ rel[p].inbound = "pending" /\ f = rel[p].inId /\ r.inId = rel[p].inId
              /\ \/ r.inbound = "follower" /\ kind = "Accept"
                 \/ r.inbound = "rejected" /\ kind = "Reject"
    PROVE  ConvInv'
<1> DEFINE a == [id |-> nextId, kind |-> kind, follow |-> f]
           t == [do |-> "save", pair |-> p, row |-> r, act |-> None, fresh |-> FALSE]
<1>1. /\ p[1] \in Node /\ p[2] \in Node /\ Rev(p) \in Pair /\ Rev(p)[1] = p[2]
      /\ Rev(p)[2] = p[1] /\ Rev(Rev(p)) = p /\ Rev(p) # p /\ p[1] # p[2]
  BY PairFacts, Opposite
<1>2. /\ queue \in [Pair -> Seq(Activity)] /\ web \in [Node -> Task] /\ nextId \in Nat
      /\ queue[p] \in Seq(Activity) /\ queue[Rev(p)] \in Seq(Activity)
  BY <1>1 DEF TypeInv, TypeOK
<1>3. a \in Activity /\ a.kind = kind /\ a.follow = f
  BY <1>2 DEF Activity
<1>4. t.do = "save" /\ t.pair = p /\ t.row = r
  OBVIOUS
<1>5. /\ queue' = [queue EXCEPT ![p] = Append(@, a)] /\ web' = [web EXCEPT ![p[1]] = t]
      /\ UNCHANGED <<rel, cut, applied, reapplied>>
  BY DEF QueueThenSave
<1> HIDE DEF a, t
<1>6. /\ queue'[p] = Append(queue[p], a) /\ queue'[Rev(p)] = queue[Rev(p)]
      /\ web'[p[1]] = t /\ web'[p[2]] = web[p[2]]
  BY <1>1, <1>2, <1>5
<1>7. /\ Eff(p) = rel[p] /\ Eff(p)' = r /\ Eff(Rev(p))' = Eff(Rev(p))
  BY <1>1, <1>4, <1>5, <1>6 DEF Eff, Idle
<1>8. ASSUME Whole(p)' PROVE Talk(p)'
  <2>1. Talk(p)
    BY <1>5, <1>8 DEF ConvInv, Whole
  <2>2. AtHead(p)'
    <3>1. queue[p] # <<>> =>
            Append(queue[p], a) # <<>> /\ Head(Append(queue[p], a)) = Head(queue[p])
      BY <1>2, <1>3
    <3> QED  BY <1>6, <2>1, <3>1 DEF Talk, AtHead
  <2>3. Agreed(r, Eff(Rev(p)), Append(queue[p], a), queue[Rev(p)], applied[p[2]],
               reapplied[p[2]])
    BY <1>2, <1>3, <1>7, <2>1, AgreedSends DEF Talk
  <2> QED  BY <1>5, <1>6, <1>7, <2>2, <2>3 DEF Talk
<1>9. ASSUME Whole(p)' PROVE Talk(Rev(p))'
  <2>1. Talk(Rev(p))
    BY <1>1, <1>5, <1>9 DEF ConvInv, Whole
  <2>2. AtHead(Rev(p))'
    BY <1>1, <1>4, <1>6 DEF AtHead
  <2>3. Agreed(Eff(Rev(p)), rel[p], queue[Rev(p)], queue[p], applied[p[1]], reapplied[p[1]])
    BY <1>1, <1>7, <2>1 DEF Talk
  <2>4. CASE SameIn(rel[p], r) /\ kind \in {"Follow", "Undo"}
    <3>1. Agreed(Eff(Rev(p)), r, queue[Rev(p)], Append(queue[p], a), applied[p[1]],
                 reapplied[p[1]])
      BY <1>2, <1>3, <2>3, <2>4, AgreedBeside
    <3> QED  BY <1>1, <1>5, <1>6, <1>7, <2>2, <3>1 DEF Talk
  <2>5. CASE /\ rel[p].inbound = "pending" /\ f = rel[p].inId /\ r.inId = rel[p].inId
             /\ \/ r.inbound = "follower" /\ kind = "Accept"
                \/ r.inbound = "rejected" /\ kind = "Reject"
    <3>1. Agreed(Eff(Rev(p)), r, queue[Rev(p)], Append(queue[p], a), applied[p[1]],
                 reapplied[p[1]])
      BY <1>2, <1>3, <2>3, <2>5, AgreedAnswers
    <3> QED  BY <1>1, <1>5, <1>6, <1>7, <2>2, <3>1 DEF Talk
  <2> QED  BY <2>4, <2>5
<1>10. \A d \in Pair \ {p, Rev(p)} : rel'[d] = rel[d] /\ queue'[d] = queue[d]
  BY <1>2, <1>5
<1>11. /\ \A n \in Node \ {p[1]} : web'[n] = web[n]
       /\ web[p[1]].do = "save" => web[p[1]].pair = p
       /\ web'[p[1]].pair = p
  BY <1>2, <1>4, <1>5, <1>6 DEF Idle
<1>12. cut \subseteq cut'
       /\ \A n \in Node : applied[n] \subseteq applied'[n] /\ reapplied[n] \subseteq reapplied'[n]
  BY <1>5
<1> QED  BY <1>8, <1>9, <1>10, <1>11, <1>12, Elsewhere

LEMMA ConvSendFollow ==
    ASSUME TypeInv, ConvInv, NEW p \in Pair, SendFollow(p)
    PROVE  ConvInv'
<1> DEFINE r == [Read(p) EXCEPT !.outbound = "pending", !.outId = nextId]
<1>1. TypeOK /\ nextId \in Nat /\ Read(p) \in Row
  BY RowFacts DEF TypeInv, TypeOK
<1>2. /\ r \in Row /\ r.outbound = "pending" /\ r.outId = nextId
      /\ r.inbound = rel[p].inbound /\ r.inId = rel[p].inId
      /\ Read(p).outbound = rel[p].outbound
  BY <1>1, RowFacts DEF Row
<1>3. QueueThenSave(p, "Follow", nextId, r) /\ Idle(p[1])
      /\ rel[p].outbound \notin {"pending", "following"}
  BY <1>2 DEF SendFollow, Request
<1> HIDE DEF r
<1>4. "Follow" \in Kind \ {"Delete"}
  BY DEF Kind
<1> QED  BY <1>1, <1>2, <1>3, <1>4, ConvQueues DEF SameIn

LEMMA ConvAnswer ==
    ASSUME TypeInv, ConvInv, NEW p \in Pair, Answer(p)
    PROVE  ConvInv'
<1> DEFINE r == Read(p)
           yes == [r EXCEPT !.inbound = "follower"]
           no == [r EXCEPT !.inbound = "rejected"]
<1>1. TypeOK /\ r \in Row
  BY RowFacts DEF TypeInv
<1>2. /\ r.inbound = rel[p].inbound /\ r.inId = rel[p].inId /\ r.inId \in Nat
      /\ r.outbound = rel[p].outbound /\ r.outId = rel[p].outId
  BY <1>1, RowFacts, RowUpdates
<1> HIDE DEF r
<1>3. /\ yes \in Row /\ yes.inbound = "follower" /\ yes.inId = r.inId
      /\ yes.outbound = r.outbound /\ yes.outId = r.outId
      /\ no \in Row /\ no.inbound = "rejected" /\ no.inId = r.inId
      /\ no.outbound = r.outbound /\ no.outId = r.outId
  BY <1>1 DEF Row
<1>4. /\ Idle(p[1]) /\ r.inbound = "pending"
      /\ QueueThenSave(p, "Accept", r.inId, yes) \/ QueueThenSave(p, "Reject", r.inId, no)
  BY DEF Answer, Request, r
<1> HIDE DEF yes, no
<1>5. {"Accept", "Reject"} \subseteq Kind \ {"Delete"}
  BY DEF Kind
<1>6. CASE QueueThenSave(p, "Accept", r.inId, yes)
  BY <1>2, <1>3, <1>4, <1>5, <1>6, ConvQueues DEF SameOut
<1>7. CASE QueueThenSave(p, "Reject", r.inId, no)
  BY <1>2, <1>3, <1>4, <1>5, <1>7, ConvQueues DEF SameOut
<1> QED  BY <1>4, <1>6, <1>7

LEMMA ConvUnfollow ==
    ASSUME TypeInv, ConvInv, NEW p \in Pair, Unfollow(p)
    PROVE  ConvInv'
<1> DEFINE r == [Read(p) EXCEPT !.outbound = "removed"]
<1>1. TypeOK /\ Read(p) \in Row
  BY RowFacts DEF TypeInv
<1>2. /\ r \in Row /\ r.inbound = rel[p].inbound /\ r.inId = rel[p].inId
      /\ Read(p).outId = rel[p].outId /\ Read(p).outId \in Nat
  BY <1>1, RowFacts DEF Row
<1>3. QueueThenSave(p, "Undo", Read(p).outId, r) /\ Idle(p[1])
  BY DEF Unfollow, Request
<1> HIDE DEF r
<1>4. "Undo" \in Kind \ {"Delete"}
  BY DEF Kind
<1> QED  BY <1>2, <1>3, <1>4, ConvQueues DEF SameIn

LEMMA ConvRemoveFollower ==
    ASSUME TypeInv, ConvInv, NEW p \in Pair, RemoveFollower(p)
    PROVE  ConvInv'
<1> DEFINE r == [Read(p) EXCEPT !.inbound = "removed"]
<1>1. TypeOK /\ Read(p) \in Row /\ rel \in [Pair -> Row]
  BY RowFacts DEF TypeInv, TypeOK
<1>2. SameOut(rel[p], r) /\ ~Shown(r)
  BY <1>1, RowFacts DEF Row, SameOut, Shown
<1>3. /\ rel' = [rel EXCEPT ![p] = r] /\ Idle(p[1])
      /\ UNCHANGED <<queue, web, cut, applied, reapplied>>
  BY DEF RemoveFollower, Request, Save, historyVars
<1> HIDE DEF r
<1>4. /\ p[1] \in Node /\ p[2] \in Node /\ Rev(p) \in Pair /\ Rev(p)[1] = p[2]
      /\ Rev(p)[2] = p[1] /\ Rev(Rev(p)) = p /\ Rev(p) # p
  BY PairFacts, Opposite
<1>5. Eff(p) = rel[p] /\ Eff(p)' = r /\ Eff(Rev(p))' = Eff(Rev(p))
  BY <1>1, <1>3, <1>4 DEF Eff, Idle
<1>6. ASSUME Whole(p)' PROVE Talk(p)' /\ Talk(Rev(p))'
  <2>1. Talk(p) /\ Talk(Rev(p))
    BY <1>3, <1>4, <1>6 DEF ConvInv, Whole
  <2>2. AtHead(p)' /\ AtHead(Rev(p))'
    BY <1>3, <2>1 DEF Talk, AtHead
  <2>3. Agreed(r, Eff(Rev(p)), queue[p], queue[Rev(p)], applied[p[2]], reapplied[p[2]])
    BY <1>2, <1>5, <2>1, AgreedOn DEF Talk, SameIn
  <2>4. Agreed(Eff(Rev(p)), r, queue[Rev(p)], queue[p], applied[p[1]], reapplied[p[1]])
    BY <1>2, <1>4, <2>1, AgreedDrops DEF Talk
  <2> QED  BY <1>3, <1>4, <1>5, <2>2, <2>3, <2>4 DEF Talk
<1> QED  BY <1>1, <1>3, <1>6, Elsewhere

\* A step that changes the task of one node and no row that counts.
LEMMA ConvTurns ==
    ASSUME TypeInv, ConvInv, NEW p \in Pair,
           \A d \in Pair \ {p} : rel'[d] = rel[d],
           \A n \in Node \ {p[1]} : web'[n] = web[n],
           web[p[1]].do = "save" => web[p[1]].pair = p,
           web'[p[1]].do \in {"save", "dispatch"} => web'[p[1]].pair = p,
           UNCHANGED <<queue, applied, reapplied>>, cut \subseteq cut',
           Whole(p)' => Eff(p)' = Eff(p) /\ AtHead(Rev(p))'
    PROVE  ConvInv'
<1>1. /\ p[1] \in Node /\ p[2] \in Node /\ Rev(p) \in Pair /\ Rev(p)[1] = p[2]
      /\ Rev(p)[2] = p[1] /\ Rev(Rev(p)) = p /\ Rev(p) # p /\ p[1] # p[2]
  BY PairFacts, Opposite
<1>2. Eff(Rev(p))' = Eff(Rev(p)) /\ web'[p[2]] = web[p[2]]
  BY <1>1 DEF Eff
<1>3. ASSUME Whole(p)' PROVE Talk(p)' /\ Talk(Rev(p))'
  <2>1. Talk(p) /\ Talk(Rev(p))
    BY <1>1, <1>3 DEF ConvInv, Whole
  <2>2. AtHead(p)'
    BY <1>1, <1>2, <2>1 DEF Talk, AtHead
  <2> QED  BY <1>1, <1>2, <1>3, <2>1, <2>2 DEF Talk
<1> QED  BY <1>3, Elsewhere

LEMMA ConvFinishSave ==
    ASSUME TypeInv, ConvInv, NEW n \in Node, FinishSave(n)
    PROVE  ConvInv'
<1>1. rel \in [Pair -> Row] /\ web \in [Node -> Task]
  BY DEF TypeInv, TypeOK
<1> PICK p \in Pair, r \in Row : p = web[n].pair /\ r = web[n].row
  BY DEF FinishSave, TypeInv, Shaped
<1>2. p[1] = n /\ web[n].do = "save"
  BY DEF FinishSave, TypeInv, Shaped
<1>3. /\ rel' = [rel EXCEPT ![p] = r] /\ web' = [web EXCEPT ![n] = Nothing]
      /\ UNCHANGED <<queue, cut, applied, reapplied>>
  BY DEF FinishSave, Save, historyVars
<1>4. Eff(p) = r /\ web'[n].do = "idle"
  BY <1>1, <1>2, <1>3, NothingShaped DEF Eff
<1>5. AtHead(Rev(p))' /\ Eff(p)' = r
  BY <1>1, <1>2, <1>3, <1>4, PairFacts DEF AtHead, Eff
<1> QED  BY <1>1, <1>2, <1>3, <1>4, <1>5, ConvTurns

\* Nothing is astray in a conversation that is whole.
StrayInv == \A p \in Pair : strays[p] # {} => p \in cut

LEMMA StrayInvStep ==
    ASSUME TypeInv, StrayInv, [Next]_vars
    PROVE  StrayInv'
BY StrayStep, HistoryGrows DEF StrayInv

LEMMA ConvAdmit ==
    ASSUME TypeInv, ConvInv, StrayInv, NEW p \in Pair, Admit(p) \/ AdmitStray(p)
    PROVE  ConvInv'
<1> PICK a \in Activity :
        /\ Receive(p, a)
        /\ a \in strays[p] \/ (queue[p] # <<>> /\ a = Head(queue[p]))
  BY Arrives DEF TypeInv
<1> DEFINE t == [do |-> "dispatch", pair |-> Rev(p), row |-> None, act |-> a,
                 fresh |-> a.id \notin receipts[p[2]]]
<1>1. web \in [Node -> Task]
  BY DEF TypeInv, TypeOK
<1>2. /\ Rev(p) \in Pair /\ Rev(p)[1] = p[2] /\ Rev(p)[2] = p[1] /\ p[2] \in Node
      /\ Rev(Rev(p)) = p
  BY PairFacts, Opposite
<1>3. /\ web' = [web EXCEPT ![p[2]] = t] /\ Idle(p[2])
      /\ UNCHANGED <<rel, queue, cut, applied, reapplied>>
  BY DEF Receive, historyVars
<1>4. t.do = "dispatch" /\ t.pair = Rev(p) /\ t.act = a
  OBVIOUS
<1> HIDE DEF t
<1>5. web'[p[2]] = t
  BY <1>1, <1>2, <1>3
<1>6. Whole(Rev(p)) => queue[p] # <<>> /\ a = Head(queue[p])
  BY <1>2 DEF StrayInv, Whole
<1>7. Whole(Rev(p))' => Eff(Rev(p))' = Eff(Rev(p)) /\ AtHead(p)'
  BY <1>2, <1>3, <1>4, <1>5, <1>6 DEF Eff, AtHead, Idle, Whole
<1> QED  BY <1>1, <1>2, <1>3, <1>4, <1>5, <1>7, ConvTurns DEF Idle

\* A step that cuts a conversation.
LEMMA ConvCut ==
    ASSUME TypeInv, ConvInv, NEW p \in Pair,
           \A d \in Pair \ {p} : rel'[d] = rel[d] /\ queue'[d] = queue[d],
           UNCHANGED <<web, applied, reapplied>>, cut' = cut \cup {p}
    PROVE  ConvInv'
<1>1. ~Whole(p)'
  BY DEF Whole
<1> QED  BY <1>1, Elsewhere

LEMMA ConvCrash ==
    ASSUME TypeInv, ConvInv, NEW n \in Node, Crash(n)
    PROVE  ConvInv'
<1>1. web \in [Node -> Task]
  BY DEF TypeInv, TypeOK
<1> PICK p \in Pair : p = web[n].pair
  BY <1>1 DEF Crash, Idle, Task, TypeInv, Shaped
<1>2. p[1] = n /\ web[n].do \in {"save", "dispatch"}
  BY <1>1 DEF Crash, Idle, Task, TypeInv, Shaped
<1>3. /\ web' = [web EXCEPT ![n] = Nothing]
      /\ cut' = IF web[n].do = "save" THEN cut \cup {p} ELSE cut
      /\ UNCHANGED <<rel, queue, applied, reapplied>>
  BY DEF Crash, historyVars
<1>4. web'[n].do = "idle"
  BY <1>1, <1>3, NothingShaped
<1>5. AtHead(Rev(p))' /\ Eff(p)' = rel[p]
  BY <1>2, <1>3, <1>4, PairFacts DEF AtHead, Eff
<1>6. Whole(p)' => Eff(p) = rel[p]
  BY <1>2, <1>3 DEF Eff, Whole
<1> QED  BY <1>1, <1>2, <1>3, <1>4, <1>5, <1>6, ConvTurns

\* What an activity that has an effect makes of a row, and what one has not.
LEMMA ReceivedParts ==
    ASSUME NEW r \in Row, NEW a \in Activity, a.kind # "Delete"
    PROVE  LET s == Received(r, a)
           IN /\ s # r => \/ /\ a.kind = "Follow" /\ Requestable(r) /\ SameOut(r, s)
                             /\ s.inbound = "pending" /\ s.inId = a.follow
                          \/ /\ a.kind = "Accept" /\ Answers(r, a) /\ SameIn(r, s)
                             /\ s.outbound = "following" /\ s.outId = r.outId
                          \/ /\ a.kind = "Reject" /\ Answers(r, a) /\ SameIn(r, s)
                             /\ s.outbound = "rejected" /\ s.outId = r.outId
                          \/ a.kind = "Undo" /\ SameOut(r, s) /\ s.inbound = "removed"
              /\ s = r => /\ a.kind = "Accept" => ~Answers(r, a)
                          /\ a.kind = "Undo" /\ Undoes(r, a) => r.inbound = "removed"
<1>1. CASE a.kind = "Follow"
  BY <1>1 DEF Received, Row, SameOut
<1>2. CASE a.kind = "Accept"
  BY <1>2 DEF Received, Row, SameIn, Answers
<1>3. CASE a.kind = "Reject"
  BY <1>3 DEF Received, Row, SameIn, Answers
<1>4. CASE a.kind = "Undo"
  BY <1>4 DEF Received, Row, SameOut
<1> QED  BY <1>1, <1>2, <1>3, <1>4 DEF Activity, Kind

LEMMA ConvDispatch ==
    ASSUME TypeInv, BlockInv, ConvInv, NEW n \in Node, Dispatch(n)
    PROVE  ConvInv'
<1>1. /\ TypeOK /\ web \in [Node -> Task] /\ queue \in [Pair -> Seq(Activity)]
      /\ rel \in [Pair -> Row] /\ applied \in [Node -> SUBSET Nat]
      /\ reapplied \in [Node -> SUBSET Nat]
  BY DEF TypeInv, TypeOK
<1> PICK p \in Pair, a \in Activity : p = web[n].pair /\ a = web[n].act
  BY DEF Dispatch, TypeInv, Shaped
<1>2. p[1] = n /\ web[n].do = "dispatch" /\ HandedOn(web[n].fresh)
  <2>1. p[1] = n /\ web[n].do = "dispatch"
    BY DEF Dispatch, TypeInv, Shaped
  <2> QED  BY <1>1, <2>1 DEF Task, HandedOn
<1>3. /\ p[2] \in Node /\ Rev(p) \in Pair /\ Rev(p)[1] = p[2] /\ Rev(p)[2] = p[1]
      /\ Rev(Rev(p)) = p /\ Rev(p) # p /\ p[1] # p[2]
  BY PairFacts, Opposite
<1> DEFINE r == Read(p)
           s == rel'[p]
           q == queue[Rev(p)]
<1>4. /\ IF Effective(p, a) THEN Save(p, Received(r, a)) ELSE UNCHANGED <<rel, circles>>
      /\ Note(n, p, a) /\ Acknowledge(Rev(p), a)
      /\ web' = [web EXCEPT ![n] = Nothing] /\ UNCHANGED cut
  BY <1>2 DEF Dispatch
<1>5. /\ \A d \in Pair \ {p} : rel'[d] = rel[d]
      /\ s = IF Effective(p, a) THEN Received(r, a) ELSE rel[p]
  BY <1>1, <1>4 DEF Save
<1>6. /\ \A d \in Pair \ {Rev(p)} : queue'[d] = queue[d]
      /\ q # <<>> /\ Head(q) = a => queue'[Rev(p)] \in {q, Tail(q)}
  BY <1>1, <1>3, <1>4 DEF Acknowledge
<1>7. /\ \A m \in Node : applied[m] \subseteq applied'[m] /\ reapplied[m] \subseteq reapplied'[m]
      /\ applied'[p[2]] = applied[p[2]] /\ reapplied'[p[2]] = reapplied[p[2]]
      /\ a.kind = "Follow" /\ Effective(p, a) =>
            /\ a.follow \in applied'[n]
            /\ a.follow \in applied[n] => a.follow \in reapplied'[n]
  BY <1>1, <1>2, <1>3, <1>4 DEF Note
<1>8. /\ \A m \in Node \ {n} : web'[m] = web[m]
      /\ web'[n].do = "idle"
  BY <1>1, <1>4, NothingShaped
<1>9. Eff(p) = rel[p] /\ Eff(p)' = s /\ Eff(Rev(p))' = Eff(Rev(p))
  BY <1>2, <1>3, <1>5, <1>8 DEF Eff
<1>10. /\ r \in Row /\ SameOut(rel[p], r) /\ SameIn(rel[p], r)
       /\ r.blocked => Shut(p)
  <2>1. r \in Row /\ rel[p] \in Row
    BY <1>1, RowFacts
  <2> QED  BY <1>1, <2>1, RowFacts DEF SameOut, SameIn, Shut, Row
<1>11. Shut(p) => rel[p].outbound # "pending" /\ ~Shown(rel[p])
  BY DEF BlockInv, Out, Shown
<1> HIDE DEF r, s, q
<1>12. ASSUME Whole(p)' PROVE Talk(p)' /\ Talk(Rev(p))'
  <2>1. Talk(p) /\ Talk(Rev(p))
    BY <1>3, <1>4, <1>12 DEF ConvInv, Whole
  <2>2. q # <<>> /\ Head(q) = a
    BY <1>2, <1>3, <2>1 DEF Talk, AtHead, q
  <2>3. a.kind # "Delete"
    <3>1. Stays(q) /\ q \in Seq(Activity)
      BY <1>1, <1>3, <2>1 DEF Talk, Agreed, q
    <3> QED  BY <2>2, <3>1, StaysOn
  <2>4. AtHead(p)' /\ AtHead(Rev(p))'
    BY <1>2, <1>3, <1>6, <1>8, <2>1 DEF Talk, AtHead
  <2>5. Takes(rel[p], s, a, applied[n], applied'[n], reapplied'[n])
    <3>1. CASE Effective(p, a)
      <4>1. s = Received(r, a) /\ Received(r, a) # r
        BY <1>5, <3>1 DEF Effective, r
      <4> QED  BY <1>7, <1>10, <2>3, <3>1, <4>1, ReceivedParts DEF Takes, SameIn, Shown
    <3>2. CASE ~Effective(p, a)
      <4>1. s = rel[p]
        BY <1>5, <3>2
      <4>2. r.blocked \/ Received(r, a) = r
        BY <3>2 DEF Effective, r
      <4> QED  BY <1>10, <1>11, <2>3, <4>1, <4>2, ReceivedParts DEF Takes, SameIn, Shown, Undoes
    <3> QED  BY <3>1, <3>2
  <2>6. Hears(rel[p], s, a)
    <3>1. CASE Effective(p, a)
      <4>1. s = Received(r, a) /\ Received(r, a) # r
        BY <1>5, <3>1 DEF Effective, r
      <4> QED  BY <1>10, <2>3, <4>1, ReceivedParts DEF Hears, SameOut, Answers
    <3>2. CASE ~Effective(p, a)
      <4>1. s = rel[p]
        BY <1>5, <3>2
      <4>2. r.blocked \/ Received(r, a) = r
        BY <3>2 DEF Effective, r
      <4> QED  BY <1>10, <1>11, <2>3, <4>1, <4>2, ReceivedParts DEF Hears, SameOut, Answers
    <3> QED  BY <3>1, <3>2
  <2>7. queue'[Rev(p)] \in {q, Tail(q)} /\ queue'[p] = queue[p]
        /\ queue[p] \in Seq(Activity) /\ q \in Seq(Activity)
    BY <1>1, <1>3, <1>6, <2>2 DEF q
  <2>8. Agreed(Eff(Rev(p)), s, queue'[Rev(p)], queue[p], applied'[n], reapplied'[n])
    <3>1. Agreed(Eff(Rev(p)), rel[p], q, queue[p], applied[n], reapplied[n])
      BY <1>2, <1>3, <1>9, <2>1 DEF Talk, q
    <3>2. Grows(applied[n], applied'[n]) /\ Grows(reapplied[n], reapplied'[n])
      BY <1>7 DEF Grows
    <3>3. Takes(rel[p], s, Head(q), applied[n], applied'[n], reapplied'[n])
      BY <2>2, <2>5
    <3>4. q # <<>> /\ q \in Seq(Activity) /\ queue[p] \in Seq(Activity)
          /\ queue'[Rev(p)] \in {q, Tail(q)}
      BY <2>2, <2>7
    <3> QED  BY <3>1, <3>2, <3>3, <3>4, AgreedTakes
  <2>9. Agreed(s, Eff(Rev(p)), queue[p], queue'[Rev(p)], applied[p[2]], reapplied[p[2]])
    <3>1. Agreed(rel[p], Eff(Rev(p)), queue[p], q, applied[p[2]], reapplied[p[2]])
      BY <1>9, <2>1 DEF Talk, q
    <3>2. Hears(rel[p], s, Head(q))
      BY <2>2, <2>6
    <3>3. q # <<>> /\ q \in Seq(Activity) /\ queue'[Rev(p)] \in {q, Tail(q)}
      BY <2>2, <2>7
    <3> HIDE DEF q, s
    <3> QED  BY <3>1, <3>2, <3>3, AgreedHears
  <2> QED  BY <1>2, <1>3, <1>7, <1>9, <2>4, <2>7, <2>8, <2>9 DEF Talk
<1>13. /\ \A d \in Pair \ {p, Rev(p)} : rel'[d] = rel[d] /\ queue'[d] = queue[d]
       /\ \A m \in Node \ {p[1]} : web'[m] = web[m]
       /\ web[p[1]].do # "save" /\ web'[p[1]].do \notin {"save", "dispatch"}
       /\ cut \subseteq cut'
  BY <1>2, <1>4, <1>5, <1>6, <1>8
<1> QED  BY <1>7, <1>12, <1>13, Elsewhere

LEMMA ConvStart == Init => ConvInv
<1> SUFFICES ASSUME Init, NEW p \in Pair PROVE Talk(p)
  BY DEF ConvInv
<1>1. p[1] \in Node /\ p[2] \in Node /\ Rev(p) \in Pair
  BY PairFacts
<1>2. web[p[1]].do = "idle" /\ web[p[2]].do = "idle" /\ Rev(p)[1] = p[2]
  BY <1>1, PairFacts DEF Init, Nothing
<1>3. Eff(p) = NewRow /\ Eff(Rev(p)) = NewRow /\ queue[p] = <<>> /\ queue[Rev(p)] = <<>>
  BY <1>1, <1>2 DEF Init, Eff
<1>4. AtHead(p)
  BY <1>2 DEF AtHead
<1>5. ~Shown(NewRow) /\ \A kind, f : ~Has(<<>>, kind, f)
  BY DEF NewRow, Shown, Has
<1> HIDE DEF NewRow
<1>6. Stays(<<>>) /\ Asks(NewRow, <<>>, applied[p[2]])
  BY DEF Stays, Asks
<1>7. /\ Replies(NewRow, <<>>, applied[p[2]], reapplied[p[2]])
      /\ Fits(NewRow, NewRow, <<>>, <<>>, reapplied[p[2]])
  BY <1>5 DEF Replies, Fits, Shown
<1> QED  BY <1>3, <1>4, <1>6, <1>7 DEF Talk, Agreed

LEMMA ConvStep ==
    ASSUME TypeInv, BlockInv, ConvInv, StrayInv, [Next]_vars
    PROVE  ConvInv'
<1>0. rel \in [Pair -> Row] /\ queue \in [Pair -> Seq(Activity)]
  BY DEF TypeInv, TypeOK
<1>1. CASE UNCHANGED <<rel, queue, web, cut, applied, reapplied>>
  BY <1>1 DEF ConvInv, Whole, Talk, AtHead, Eff
<1>2. ASSUME NEW p \in Pair, NEW b \in BOOLEAN, ApplyActorBlock(p, b) PROVE ConvInv'
  <2>1. \A d \in Pair \ {p} : rel'[d] = rel[d] /\ queue'[d] = queue[d]
    BY <1>0, <1>2 DEF ApplyActorBlock, Cancel
  <2> QED  BY <1>2, <2>1, ConvCut DEF ApplyActorBlock, Cancel, historyVars
<1>3. ASSUME NEW p \in Pair, BlockDomain(p), p \in known PROVE ConvInv'
  <2>1. \A d \in Pair \ {p} : rel'[d] = rel[d] /\ queue'[d] = queue[d]
    BY <1>0, <1>3 DEF BlockDomain, Cancel
  <2> QED  BY <1>3, <2>1, ConvCut DEF BlockDomain, Cancel, historyVars
<1>4. ASSUME NEW p \in Pair, GiveUp(p) \/ Leave(p) PROVE ConvInv'
  <2>1. \A d \in Pair \ {p} : rel'[d] = rel[d] /\ queue'[d] = queue[d]
    BY <1>0, <1>4 DEF GiveUp, Leave
  <2> QED  BY <1>4, <2>1, ConvCut DEF GiveUp, Leave, historyVars
<1>5. ASSUME NEW p \in Pair, Discover(p) \/ UnblockDomain(p) \/ (BlockDomain(p) /\ p \notin known)
      PROVE  UNCHANGED <<rel, queue, web, cut, applied, reapplied>>
  BY <1>5 DEF Discover, UnblockDomain, BlockDomain, historyVars
<1>6. ASSUME NEW n \in Node, NEW c \in Circle, SetCircle(n, c)
      PROVE  UNCHANGED <<rel, queue, web, cut, applied, reapplied>>
  BY <1>6 DEF SetCircle, historyVars
<1>7. ASSUME UNCHANGED vars PROVE UNCHANGED <<rel, queue, web, cut, applied, reapplied>>
  BY <1>7 DEF vars, historyVars
<1> QED
  BY <1>1, <1>2, <1>3, <1>4, <1>5, <1>6, <1>7, ConvSendFollow, ConvAnswer, ConvUnfollow,
     ConvRemoveFollower, ConvFinishSave, ConvAdmit, ConvCrash, ConvDispatch
     DEF Next, Owner, Process, BlockActor, UnblockActor

\* Two nodes agree once nothing is under way between them: a request or a
\* follower that one shows is one the other has open or following, by the same
\* Follow, though answers were lost and activities repeated; unless one was
\* cancelled or given up, or the shown Follow was applied twice.
THEOREM NodesAgree == Spec => []Converged
<1>1. /\ TypeInv /\ BlockInv /\ ConvInv /\ StrayInv /\ [Next]_vars
      => (TypeInv /\ BlockInv /\ ConvInv /\ StrayInv)'
  BY TypeStep, BlockStep, ConvStep, StrayInvStep
<1>2. Init => TypeInv /\ BlockInv /\ ConvInv /\ StrayInv
  BY TypeInit, ConvStart DEF Init, BlockInv, Shut, Out, NewRow, Nothing, StrayInv
<1>3. ASSUME TypeInv, ConvInv PROVE Converged
  <2> SUFFICES ASSUME NEW p \in Pair, Quiet(p), cut \cap {p, Rev(p)} = {},
                      rel[Rev(p)].inId \notin reapplied[p[2]], Shown(rel[Rev(p)])
               PROVE  /\ rel[p].outId = rel[Rev(p)].inId
                      /\ rel[Rev(p)].inbound = "pending" => rel[p].outbound = "pending"
                      /\ rel[Rev(p)].inbound = "follower" => rel[p].outbound = "following"
    BY DEF Converged, Shown
  <2>1. /\ Eff(p) = rel[p] /\ Eff(Rev(p)) = rel[Rev(p)]
        /\ queue[p] = <<>> /\ queue[Rev(p)] = <<>>
    BY PairFacts DEF Quiet, Idle, Eff
  <2>2. Talk(p)
    BY <1>3 DEF ConvInv, Whole
  <2>3. Fits(rel[p], rel[Rev(p)], <<>>, <<>>, reapplied[p[2]])
    BY <2>1, <2>2 DEF Talk, Agreed
  <2>4. \A kind, f : ~Has(<<>>, kind, f)
    BY DEF Has
  <2> QED  BY <2>3, <2>4 DEF Fits
<1> QED  BY <1>1, <1>2, <1>3, PTL DEF Spec

-----------------------------------------------------------------------------
(* The promise of module Handshake.  A row that waits to be saved is one     *)
(* step of it away from the row that is saved: nobody else writes that row   *)
(* meanwhile, and grants are never withdrawn.                                *)

NoWord == [is |-> "none", of |-> 0]

OneStep(p, old, r, g) ==
    \/ /\ Claimed(old) = NoWord /\ r.outbound = "pending"
       /\ Displayed(r) = Displayed(old)
    \/ /\ Displayed(old) = NoWord /\ r.inbound = "pending"
       /\ Claimed(r) = Claimed(old)
    \/ /\ old.inbound = "pending" /\ old.inId \in g[p[1]]
       /\ r.inbound = "follower" /\ r.inId = old.inId /\ Claimed(r) = Claimed(old)
    \/ /\ old.outbound = "pending" /\ old.outId \in g[p[2]]
       /\ r.outbound = "following" /\ r.outId = old.outId /\ Displayed(r) = Displayed(old)
    \/ /\ Claimed(r) \in {Claimed(old), NoWord}
       /\ Displayed(r) \in {Displayed(old), NoWord}

TasksFollow ==
    \A n \in Node : web[n].do = "save" =>
        OneStep(web[n].pair, rel[web[n].pair], web[n].row, granted)

HandshakeNext == [Promise!Next]_Promise!vars

LEMMA SameWords ==
    ASSUME UNCHANGED <<rel, granted>>
    PROVE  HandshakeNext
BY DEF HandshakeNext, Promise!vars, ClaimOf, ShownOf

LEMMA RowKeepsPromise ==
    ASSUME TypeOK, NEW p \in Pair, NEW r \in Row, rel' = [rel EXCEPT ![p] = r],
           UNCHANGED granted, OneStep(p, rel[p], r, granted)
    PROVE  HandshakeNext
<1>1. rel \in [Pair -> Row] /\ rel[p] \in Row /\ p \in Promise!Pair
  BY DEF TypeOK, Promise!Pair, Pair
<1>2. /\ ClaimOf[p] = Claimed(rel[p]) /\ ShownOf[p] = Displayed(rel[p])
      /\ ClaimOf' = [ClaimOf EXCEPT ![p] = Claimed(r)]
      /\ ShownOf' = [ShownOf EXCEPT ![p] = Displayed(r)]
  BY <1>1 DEF ClaimOf, ShownOf
<1>3. ClaimOf'[p] = Claimed(r) /\ ShownOf'[p] = Displayed(r)
  BY <1>2 DEF ClaimOf, ShownOf
<1>4. /\ Claimed(r) = Claimed(rel[p]) => UNCHANGED ClaimOf
      /\ Displayed(r) = Displayed(rel[p]) => UNCHANGED ShownOf
  BY <1>2 DEF ClaimOf, ShownOf
<1>5. NoWord = Promise!Nothing
  BY DEF NoWord, Promise!Nothing
<1>6. CASE /\ Claimed(rel[p]) = NoWord /\ r.outbound = "pending"
           /\ Displayed(r) = Displayed(rel[p])
  <2>1. Claimed(r) \in [is : {"pending"}, of : Nat]
    BY <1>6 DEF Claimed, Row
  <2>2. Promise!Ask(p)
    BY <1>2, <1>3, <1>4, <1>5, <1>6, <2>1 DEF Promise!Ask, Promise!Claims
  <2> QED  BY <1>1, <2>2 DEF HandshakeNext, Promise!Next
<1>7. CASE Displayed(rel[p]) = NoWord /\ r.inbound = "pending" /\ Claimed(r) = Claimed(rel[p])
  <2>1. Displayed(r) \in [is : {"pending"}, of : Nat]
    BY <1>7 DEF Displayed, Row
  <2>2. Promise!BeAsked(p)
    BY <1>2, <1>3, <1>4, <1>5, <1>7, <2>1 DEF Promise!BeAsked, Promise!Shows
  <2> QED  BY <1>1, <2>2 DEF HandshakeNext, Promise!Next
<1>8. CASE /\ rel[p].inbound = "pending" /\ rel[p].inId \in granted[p[1]]
           /\ r.inbound = "follower" /\ r.inId = rel[p].inId /\ Claimed(r) = Claimed(rel[p])
  <2>1. /\ ShownOf[p] = [is |-> "pending", of |-> rel[p].inId]
        /\ Displayed(r) = [is |-> "follower", of |-> rel[p].inId]
    BY <1>2, <1>8 DEF Displayed
  <2>2. /\ Displayed(r) = [ShownOf[p] EXCEPT !.is = "follower"]
        /\ ShownOf[p].is = "pending" /\ ShownOf[p].of = rel[p].inId
    BY <2>1
  <2>3. Promise!Welcome(p)
    BY <1>2, <1>4, <1>8, <2>2 DEF Promise!Welcome, Promise!Shows
  <2> QED  BY <1>1, <2>3 DEF HandshakeNext, Promise!Next
<1>9. CASE /\ rel[p].outbound = "pending" /\ rel[p].outId \in granted[p[2]]
           /\ r.outbound = "following" /\ r.outId = rel[p].outId
           /\ Displayed(r) = Displayed(rel[p])
  <2>1. /\ ClaimOf[p] = [is |-> "pending", of |-> rel[p].outId]
        /\ Claimed(r) = [is |-> "following", of |-> rel[p].outId]
    BY <1>2, <1>9 DEF Claimed
  <2>2. /\ Claimed(r) = [ClaimOf[p] EXCEPT !.is = "following"]
        /\ ClaimOf[p].is = "pending" /\ ClaimOf[p].of = rel[p].outId
    BY <2>1
  <2>3. Promise!Learn(p)
    BY <1>2, <1>4, <1>9, <2>2 DEF Promise!Learn, Promise!Claims
  <2> QED  BY <1>1, <2>3 DEF HandshakeNext, Promise!Next
<1>10. CASE /\ Claimed(r) \in {Claimed(rel[p]), NoWord}
            /\ Displayed(r) \in {Displayed(rel[p]), NoWord}
  <2>1. Promise!End(p)
    BY <1>2, <1>5, <1>10 DEF Promise!End, Promise!Claims, Promise!Shows
  <2> QED  BY <1>1, <2>1 DEF HandshakeNext, Promise!Next
<1> QED  BY <1>6, <1>7, <1>8, <1>9, <1>10 DEF OneStep

\* A step of one node, which may leave a row to be saved.
LEMMA TaskKeeps ==
    ASSUME TypeInv, TasksFollow, NEW n \in Node,
           \A d \in Pair : d[1] # n => rel'[d] = rel[d],
           \A m \in Node \ {n} : web'[m] = web[m],
           \A m \in Node : granted[m] \subseteq granted'[m],
           web'[n].do = "save" =>
              OneStep(web'[n].pair, rel'[web'[n].pair], web'[n].row, granted')
    PROVE  TasksFollow'
<1> SUFFICES ASSUME NEW m \in Node, web'[m].do = "save", m # n
             PROVE  OneStep(web'[m].pair, rel'[web'[m].pair], web'[m].row, granted')
  BY DEF TasksFollow
<1>1. web'[m] = web[m] /\ web[m].pair \in Pair /\ web[m].pair[1] = m
  BY DEF TypeInv, Shaped
<1>2. rel'[web[m].pair] = rel[web[m].pair]
  BY <1>1
<1>3. OneStep(web[m].pair, rel[web[m].pair], web[m].row, granted)
  BY <1>1 DEF TasksFollow
<1>4. web[m].pair[1] \in Node /\ web[m].pair[2] \in Node
  BY <1>1, PairFacts
<1>5. OneStep(web[m].pair, rel[web[m].pair], web[m].row, granted')
  BY <1>3, <1>4 DEF OneStep
<1> QED  BY <1>1, <1>2, <1>5

\* What a row says does not depend on the flag.
LEMMA ReadSaysTheSame ==
    ASSUME TypeOK, NEW p \in Pair, NEW r, NEW g
    PROVE  /\ Claimed(Read(p)) = Claimed(rel[p]) /\ Displayed(Read(p)) = Displayed(rel[p])
           /\ OneStep(p, Read(p), r, g) => OneStep(p, rel[p], r, g)
<1>1. Claimed(Read(p)) = Claimed(rel[p]) /\ Displayed(Read(p)) = Displayed(rel[p])
  BY RowFacts DEF Claimed, Displayed
<1> QED  BY <1>1, RowFacts DEF OneStep

\* An activity is queued; its row is one step away.
LEMMA QueueFollows ==
    ASSUME TypeInv, TasksFollow, NEW p \in Pair, NEW kind, NEW f, NEW r \in Row,
           QueueThenSave(p, kind, f, r), \A m \in Node : granted[m] \subseteq granted'[m],
           OneStep(p, Read(p), r, granted')
    PROVE  TasksFollow' /\ UNCHANGED rel
<1> DEFINE t == [do |-> "save", pair |-> p, row |-> r, act |-> None, fresh |-> FALSE]
<1>1. web \in [Node -> Task] /\ p[1] \in Node /\ TypeOK
  BY PairFacts DEF TypeInv, TypeOK
<1>2. web' = [web EXCEPT ![p[1]] = t] /\ UNCHANGED rel
  BY DEF QueueThenSave
<1>3. t.pair = p /\ t.row = r
  OBVIOUS
<1> HIDE DEF t
<1>4. web'[p[1]] = t /\ \A m \in Node \ {p[1]} : web'[m] = web[m]
  BY <1>1, <1>2
<1>5. OneStep(p, rel[p], r, granted')
  BY <1>1, ReadSaysTheSame
<1>6. TasksFollow'
  BY <1>1, <1>2, <1>3, <1>4, <1>5, TaskKeeps
<1> QED  BY <1>2, <1>6

\* The row of one pair changes by a step while its node is idle, or turns so.
LEMMA RowFollows ==
    ASSUME TypeInv, TasksFollow, NEW p \in Pair, NEW r \in Row,
           rel' = [rel EXCEPT ![p] = r], UNCHANGED granted, OneStep(p, rel[p], r, granted),
           \A m \in Node \ {p[1]} : web'[m] = web[m], web'[p[1]].do # "save"
    PROVE  TasksFollow' /\ HandshakeNext
<1>1. rel \in [Pair -> Row] /\ p[1] \in Node /\ TypeOK
  BY PairFacts DEF TypeInv, TypeOK
<1>2. \A d \in Pair : d[1] # p[1] => rel'[d] = rel[d]
  BY <1>1
<1> QED  BY <1>1, <1>2, TaskKeeps, RowKeepsPromise

LEMMA UpdatesFollow ==
    ASSUME NEW r \in Row, NEW p \in Pair, NEW g, NEW i \in Nat, NEW b \in BOOLEAN
    PROVE  /\ r.outbound \notin {"pending", "following"} =>
                OneStep(p, r, [r EXCEPT !.outbound = "pending", !.outId = i], g)
           /\ OneStep(p, r, [r EXCEPT !.outbound = "removed"], g)
           /\ OneStep(p, r, [r EXCEPT !.inbound = "rejected"], g)
           /\ OneStep(p, r, [r EXCEPT !.inbound = "removed"], g)
           /\ OneStep(p, r, Severed(r), g)
           /\ OneStep(p, r, [Severed(r) EXCEPT !.blocked = b], g)
           /\ r.inbound = "pending" /\ r.inId \in g[p[1]] =>
                OneStep(p, r, [r EXCEPT !.inbound = "follower"], g)
BY DEF Row, OneStep, Severed, Claimed, Displayed, NoWord

LEMMA ReceivedFollows ==
    ASSUME NEW r \in Row, NEW a \in Activity, NEW p \in Pair, NEW g, Backed(a, Rev(p), g)
    PROVE  OneStep(p, r, Received(r, a), g)
<1> USE DEF Received, OneStep, Claimed, Displayed, NoWord, Row
<1>1. Rev(p)[1] = p[2]
  BY PairFacts
<1>2. CASE a.kind = "Follow"
  BY <1>2 DEF Requestable
<1>3. CASE a.kind = "Accept"
  BY <1>1, <1>3 DEF Backed, Answers
<1>4. CASE a.kind = "Reject"
  BY <1>4
<1>5. CASE a.kind = "Undo"
  BY <1>5
<1>6. CASE a.kind = "Delete"
  BY <1>6
<1> QED  BY <1>2, <1>3, <1>4, <1>5, <1>6 DEF Activity, Kind

LEMMA HandshakeStep ==
    ASSUME TypeInv, EarnedInv, TasksFollow, [Next]_vars
    PROVE  TasksFollow' /\ HandshakeNext
<1>0. /\ TypeOK /\ web \in [Node -> Task] /\ rel \in [Pair -> Row] /\ nextId \in Nat
      /\ granted \in [Node -> SUBSET Nat]
  BY DEF TypeInv, TypeOK
<1> DEFINE Goal == TasksFollow' /\ HandshakeNext
<1>1. CASE UNCHANGED <<rel, web, granted>>
  BY <1>1, SameWords DEF TasksFollow
<1>2. ASSUME NEW p \in Pair, SendFollow(p) PROVE Goal
  <2> DEFINE r == [Read(p) EXCEPT !.outbound = "pending", !.outId = nextId]
  <2>1. Read(p) \in Row /\ Read(p).outbound \notin {"pending", "following"}
    BY <1>0, <1>2, RowFacts DEF SendFollow
  <2>2. r \in Row /\ OneStep(p, Read(p), r, granted)
    BY <1>0, <2>1, RowUpdates, UpdatesFollow
  <2>3. QueueThenSave(p, "Follow", nextId, r) /\ granted' = granted
    BY <1>2 DEF SendFollow
  <2> HIDE DEF r
  <2> QED  BY <2>2, <2>3, QueueFollows, SameWords
<1>3. ASSUME NEW p \in Pair, Unfollow(p) PROVE Goal
  <2> DEFINE r == [Read(p) EXCEPT !.outbound = "removed"]
  <2>1. Read(p) \in Row
    BY <1>0, RowFacts
  <2>2. r \in Row /\ OneStep(p, Read(p), r, granted)
    BY <2>1, RowUpdates, UpdatesFollow
  <2>3. QueueThenSave(p, "Undo", Read(p).outId, r) /\ granted' = granted
    BY <1>3 DEF Unfollow
  <2> HIDE DEF r
  <2> QED  BY <2>2, <2>3, QueueFollows, SameWords
<1>4. ASSUME NEW p \in Pair, Answer(p) PROVE Goal
  <2> DEFINE r == Read(p)
             yes == [r EXCEPT !.inbound = "follower"]
             no == [r EXCEPT !.inbound = "rejected"]
  <2>1. r \in Row /\ r.inbound = "pending" /\ r.inId \in Nat /\ p[1] \in Node
    BY <1>0, <1>4, RowFacts, RowUpdates, PairFacts DEF Answer
  <2>2. yes \in Row /\ no \in Row /\ OneStep(p, r, no, granted)
        /\ (r.inId \in granted'[p[1]] => OneStep(p, r, yes, granted'))
    BY <2>1, RowUpdates, UpdatesFollow
  <2>3. CASE /\ QueueThenSave(p, "Accept", r.inId, yes)
             /\ granted' = [granted EXCEPT ![p[1]] = @ \cup {r.inId}]
    <3>1. /\ \A m \in Node : granted[m] \subseteq granted'[m]
          /\ r.inId \in granted'[p[1]]
      BY <1>0, <2>1, <2>3
    <3>2. TasksFollow' /\ UNCHANGED rel
      <4> HIDE DEF yes
      <4> QED  BY <2>2, <2>3, <3>1, QueueFollows
    <3>3. ShownOf[p] = [is |-> "pending", of |-> r.inId]
      <4>1. rel[p].inbound = "pending" /\ rel[p].inId = r.inId
        BY <1>0, <2>1, RowFacts
      <4> QED  BY <4>1 DEF ShownOf, Displayed
    <3>4. UNCHANGED <<ClaimOf, ShownOf>>
      BY <3>2 DEF ClaimOf, ShownOf
    <3>5. Promise!Grant(p)
      BY <2>3, <3>3, <3>4 DEF Promise!Grant
    <3> QED  BY <3>2, <3>5 DEF HandshakeNext, Promise!Next, Promise!Pair, Pair
  <2>4. CASE QueueThenSave(p, "Reject", r.inId, no) /\ UNCHANGED granted
    <3> HIDE DEF no
    <3> QED  BY <2>2, <2>4, QueueFollows, SameWords
  <2> QED  BY <1>4, <2>3, <2>4 DEF Answer
<1>5. ASSUME NEW p \in Pair, RemoveFollower(p) PROVE Goal
  <2> DEFINE r == [Read(p) EXCEPT !.inbound = "removed"]
  <2>1. Read(p) \in Row
    BY <1>0, RowFacts
  <2>2. r \in Row /\ OneStep(p, rel[p], r, granted)
    BY <1>0, <2>1, RowUpdates, UpdatesFollow, ReadSaysTheSame
  <2>3. /\ rel' = [rel EXCEPT ![p] = r] /\ UNCHANGED <<granted, web>> /\ web[p[1]].do # "save"
    BY <1>5 DEF RemoveFollower, Save, Request, Idle, historyVars
  <2> HIDE DEF r
  <2> QED  BY <2>2, <2>3, RowFollows
<1>6. ASSUME NEW p \in Pair, NEW b \in BOOLEAN, ApplyActorBlock(p, b) PROVE Goal
  <2> DEFINE r == [Severed(rel[p]) EXCEPT !.blocked = b]
  <2>1. r \in Row /\ OneStep(p, rel[p], r, granted)
    <3>1. rel[p] \in Row /\ Severed(rel[p]) \in Row
      BY <1>0, RowFacts
    <3> QED  BY <3>1, RowUpdates, UpdatesFollow
  <2>2. /\ rel' = [rel EXCEPT ![p] = r] /\ UNCHANGED <<granted, web>> /\ web[p[1]].do # "save"
    BY <1>6 DEF ApplyActorBlock, Request, Idle, historyVars
  <2> HIDE DEF r
  <2> QED  BY <2>1, <2>2, RowFollows
<1>7. ASSUME NEW p \in Pair, BlockDomain(p), p \in known PROVE Goal
  <2> DEFINE r == Severed(rel[p])
  <2>1. r \in Row /\ OneStep(p, rel[p], r, granted)
    BY <1>0, RowFacts, UpdatesFollow
  <2>2. /\ rel' = [rel EXCEPT ![p] = r] /\ UNCHANGED <<granted, web>> /\ web[p[1]].do # "save"
    BY <1>7 DEF BlockDomain, Idle, historyVars
  <2> HIDE DEF r
  <2> QED  BY <2>1, <2>2, RowFollows
<1>8. ASSUME NEW n \in Node, FinishSave(n) PROVE Goal
  <2> PICK p \in Pair, r \in Row : p = web[n].pair /\ r = web[n].row
    BY <1>8 DEF FinishSave, TypeInv, Shaped
  <2>1. p[1] = n /\ OneStep(p, rel[p], r, granted)
    BY <1>8 DEF FinishSave, TypeInv, Shaped, TasksFollow
  <2>2. /\ rel' = [rel EXCEPT ![p] = r] /\ UNCHANGED granted
        /\ web' = [web EXCEPT ![n] = Nothing]
    BY <1>8 DEF FinishSave, Save, historyVars
  <2>3. /\ \A m \in Node \ {n} : web'[m] = web[m]
        /\ web'[n].do # "save"
    BY <1>0, <2>2, NothingShaped
  <2> QED  BY <2>1, <2>2, <2>3, RowFollows
<1>9. ASSUME NEW n \in Node, Dispatch(n) PROVE Goal
  <2> PICK p \in Pair, a \in Activity : p = web[n].pair /\ a = web[n].act
    BY <1>9 DEF Dispatch, TypeInv, Shaped
  <2>1. p[1] = n /\ Backed(a, Rev(p), granted)
    BY <1>9 DEF Dispatch, TypeInv, Shaped, EarnedInv
  <2>2. /\ Save(p, Received(Read(p), a)) \/ UNCHANGED rel
        /\ UNCHANGED granted /\ web' = [web EXCEPT ![n] = Nothing]
    BY <1>9 DEF Dispatch
  <2>3. /\ \A m \in Node \ {n} : web'[m] = web[m]
        /\ web'[n].do # "save"
    BY <1>0, <2>2, NothingShaped
  <2>4. Received(Read(p), a) \in Row /\ OneStep(p, rel[p], Received(Read(p), a), granted)
    <3>1. Read(p) \in Row
      BY <1>0, RowFacts
    <3>2. OneStep(p, Read(p), Received(Read(p), a), granted)
      BY <2>1, <3>1, ReceivedFollows
    <3> QED  BY <1>0, <3>1, <3>2, ReceivedRow, ReadSaysTheSame
  <2>5. CASE UNCHANGED rel
    BY <2>2, <2>3, <2>5, TaskKeeps, SameWords
  <2>6. CASE Save(p, Received(Read(p), a))
    BY <2>1, <2>2, <2>3, <2>4, <2>6, RowFollows DEF Save
  <2> QED  BY <2>2, <2>5, <2>6
<1>10. ASSUME NEW n \in Node, UNCHANGED <<rel, granted>>, web'[n].do # "save",
              \A m \in Node \ {n} : web'[m] = web[m]
       PROVE  Goal
  BY <1>10, TaskKeeps, SameWords
<1>11. ASSUME NEW p \in Pair, Admit(p) \/ AdmitStray(p) PROVE Goal
  <2>1. UNCHANGED <<rel, granted>> /\ p[2] \in Node
    BY <1>11, PairFacts DEF Admit, AdmitStray, Receive, historyVars
  <2>2. web'[p[2]].do = "dispatch" /\ \A m \in Node \ {p[2]} : web'[m] = web[m]
    <3> PICK a \in Activity : Receive(p, a)
      BY <1>0, <1>11, Arrives
    <3> QED  BY <1>0, <2>1 DEF Receive
  <2> QED  BY <1>10, <2>1, <2>2
<1>12. ASSUME NEW n \in Node, Crash(n) PROVE Goal
  <2>1. UNCHANGED <<rel, granted>> /\ web' = [web EXCEPT ![n] = Nothing]
    BY <1>12 DEF Crash, historyVars
  <2>2. web'[n].do # "save" /\ \A m \in Node \ {n} : web'[m] = web[m]
    BY <1>0, <2>1, NothingShaped
  <2> QED  BY <1>10, <2>1, <2>2
<1>13. ASSUME NEW p \in Pair, \/ Discover(p) \/ UnblockDomain(p) \/ GiveUp(p) \/ Leave(p)
                              \/ BlockDomain(p) /\ p \notin known
       PROVE  UNCHANGED <<rel, web, granted>>
  BY <1>13 DEF Discover, UnblockDomain, GiveUp, Leave, BlockDomain, historyVars
<1>14. ASSUME NEW n \in Node, NEW c \in Circle, SetCircle(n, c)
       PROVE  UNCHANGED <<rel, web, granted>>
  BY <1>14 DEF SetCircle, historyVars
<1>15. ASSUME UNCHANGED vars PROVE UNCHANGED <<rel, web, granted>>
  BY <1>15 DEF vars, historyVars
<1> HIDE DEF Goal
<1>16. Goal
  BY <1>1, <1>2, <1>3, <1>4, <1>5, <1>6, <1>7, <1>8, <1>9, <1>11, <1>12, <1>13, <1>14, <1>15
     DEF Goal, Next, Owner, Process, BlockActor, UnblockActor
<1> QED  BY <1>16 DEF Goal

\* Nodes claim and show follows as module Handshake promises: a node follows by
\* a Follow it asked with and the other owner granted, and shows a follower by
\* one it was asked with and its owner granted, through repeated and late
\* activities, requests of both owners, blocks and crashes between two calls.
THEOREM ImplementsHandshake == Spec => KeepsHandshake
<1>1. Init => Promise!Init
  BY DEF Init, NewRow, Promise!Init, Promise!Pair, Promise!Nothing, Pair, ClaimOf, ShownOf,
         Claimed, Displayed
<1>2. Init => TypeInv /\ EarnedInv /\ StraysEarned /\ TasksFollow
  BY TypeInit DEF Init, EarnedInv, StraysEarned, Earned, Backed, NewRow, Nothing, TasksFollow
<1>3. TypeInv /\ EarnedInv /\ StraysEarned /\ TasksFollow /\ [Next]_vars
         => /\ (TypeInv /\ EarnedInv /\ StraysEarned /\ TasksFollow)'
            /\ [Promise!Next]_Promise!vars
  BY TypeStep, EarnedStep, StraysEarnedStep, HandshakeStep DEF HandshakeNext
<1> QED
  BY <1>1, <1>2, <1>3, PTL DEF Spec, KeepsHandshake, Promise!Spec

-----------------------------------------------------------------------------
(* Once.  While nothing was lost, died or left its queue out of turn, an   *)
(* activity is in one place of one queue, stays there until it has been    *)
(* dispatched, and is nowhere afterwards.                                  *)

Numbered ==
    \A p \in Pair : \A i \in 1..Len(queue[p]) :
        /\ queue[p][i].id < nextId
        /\ queue[p][i].kind = "Follow" => queue[p][i].follow = queue[p][i].id

Distinct ==
    \A p, q \in Pair : \A i \in 1..Len(queue[p]), j \in 1..Len(queue[q]) :
        queue[p][i].id = queue[q][j].id => p = q /\ i = j

Consumed ==
    \A n \in Node : \A f \in applied[n] :
        f < nextId /\ \A p \in Pair : \A i \in 1..Len(queue[p]) : queue[p][i].id # f

Once == Numbered /\ Distinct /\ (\A p \in Pair : AtHead(p)) /\ Consumed /\ AppliedOnce

OnceInv == Undisturbed => Once

\* What went astray stays so.
LEMMA StraysStay ==
    ASSUME TypeInv, [Next]_vars, NEW p \in Pair
    PROVE  strays[p] \subseteq strays'[p]
<1>1. strays \in [Pair -> SUBSET Activity]
  BY DEF TypeInv, TypeOK
<1>2. ASSUME NEW q \in Pair, Cancel(q) \/ GiveUp(q)
      PROVE  strays[p] \subseteq strays'[p]
  BY <1>1, <1>2 DEF Cancel, GiveUp
<1>3. ASSUME NEW q \in Pair, Owner(q), ~Cancel(q) PROVE strays' = strays
  BY <1>3 DEF Owner, Discover, SendFollow, Answer, Unfollow, RemoveFollower, BlockActor,
              UnblockActor, ApplyActorBlock, BlockDomain, UnblockDomain, QueueThenSave
<1>4. ASSUME NEW q \in Pair, Admit(q) \/ AdmitStray(q) \/ Leave(q) PROVE strays' = strays
  BY <1>4 DEF Admit, AdmitStray, Receive, Leave
<1>5. ASSUME NEW n \in Node, Process(n) \/ Crash(n) \/ \E c \in Circle : SetCircle(n, c)
      PROVE  strays' = strays
  BY <1>5 DEF Process, FinishSave, Dispatch, Crash, SetCircle
<1>6. ASSUME UNCHANGED vars PROVE strays' = strays
  BY <1>6 DEF vars
<1> QED
  BY <1>2, <1>3, <1>4, <1>5, <1>6 DEF Next

\* What was undisturbed after a step was so before it.
LEMMA CalmBefore ==
    ASSUME TypeInv, [Next]_vars, Undisturbed'
    PROVE  Undisturbed /\ faults' = faults
<1>1. faults \in Nat
  BY DEF TypeInv, TypeOK
<1>2. faults' = faults \/ faults' = faults + 1
  BY DEF Next, Owner, Process, Discover, SendFollow, Answer, Unfollow, RemoveFollower,
     BlockActor, UnblockActor, ApplyActorBlock, BlockDomain, UnblockDomain, QueueThenSave,
     Admit, AdmitStray, Receive, GiveUp, Leave, FinishSave, Dispatch, Acknowledge, Crash,
     SetCircle, vars
<1>3. faults' = faults /\ faults = 0
  BY <1>1, <1>2 DEF Undisturbed
<1>4. ASSUME NEW p \in Pair PROVE strays[p] = {}
  <2>1. strays[p] \subseteq strays'[p]
    BY StraysStay
  <2> QED
    BY <2>1 DEF Undisturbed
<1> QED
  BY <1>3, <1>4 DEF Undisturbed

\* Steps that touch neither a queue nor a history, and begin no dispatch.
LEMMA OnceBeside ==
    ASSUME Once, UNCHANGED <<queue, nextId, applied, reapplied>>,
           \A n \in Node : web'[n].do = "dispatch" => web'[n] = web[n]
    PROVE  Once'
<1>1. ASSUME NEW p \in Pair PROVE AtHead(p)'
  BY PairFacts DEF Once, AtHead
<1> QED
  BY <1>1 DEF Once, Numbered, Distinct, Consumed, AppliedOnce

\* A new activity has a number of its own.
LEMMA OnceSends ==
    ASSUME TypeInv, Once, NEW p \in Pair, NEW a \in Activity,
           a.id = nextId, a.kind = "Follow" => a.follow = nextId,
           queue' = [queue EXCEPT ![p] = Append(@, a)], nextId' = nextId + 1,
           UNCHANGED <<applied, reapplied>>,
           \A n \in Node : web'[n].do = "dispatch" => web'[n] = web[n]
    PROVE  Once'
<1>0. queue \in [Pair -> Seq(Activity)] /\ nextId \in Nat /\ applied \in [Node -> SUBSET Nat]
  BY DEF TypeInv, TypeOK
<1>1. ASSUME NEW q \in Pair, NEW i \in 1..Len(queue'[q])
      PROVE  \/ i \in 1..Len(queue[q]) /\ queue'[q][i] = queue[q][i]
             \/ q = p /\ i = Len(queue[p]) + 1 /\ queue'[q][i] = a
  <2>1. queue[q] \in Seq(Activity) /\ Len(queue[q]) \in Nat
    BY <1>0
  <2>2. CASE q = p
    <3>1. queue'[q] = Append(queue[q], a)
      BY <1>0, <2>2
    <3>2. /\ Len(queue'[q]) = Len(queue[q]) + 1
          /\ queue'[q][Len(queue[q]) + 1] = a
          /\ \A k \in 1..Len(queue[q]) : queue'[q][k] = queue[q][k]
      BY <2>1, <3>1
    <3>3. i \in 1..Len(queue[q]) \/ i = Len(queue[q]) + 1
      BY <2>1, <3>2
    <3> QED
      BY <2>2, <3>2, <3>3
  <2>3. CASE q # p
    BY <1>0, <2>3
  <2> QED
    BY <2>2, <2>3
<1>2. \A q \in Pair : \A i \in 1..Len(queue[q]) : queue[q][i].id < nextId /\ queue[q][i].id \in Nat
  <2>1. ASSUME NEW q \in Pair, NEW i \in 1..Len(queue[q]) PROVE queue[q][i] \in Activity
    BY <1>0
  <2> QED
    BY <2>1 DEF Once, Numbered, Activity
<1>3. Numbered'
  BY <1>0, <1>1, <1>2 DEF Once, Numbered
<1>4. Distinct'
  BY <1>0, <1>1, <1>2 DEF Once, Distinct
<1>5. ASSUME NEW n \in Node, NEW f \in applied'[n]
      PROVE  f < nextId' /\ \A q \in Pair : \A i \in 1..Len(queue'[q]) : queue'[q][i].id # f
  <2>1. f < nextId /\ f \in Nat
        /\ \A q \in Pair : \A i \in 1..Len(queue[q]) : queue[q][i].id # f
    BY <1>0 DEF Once, Consumed
  <2> QED
    BY <1>0, <1>1, <2>1
<1>6. ASSUME NEW q \in Pair PROVE AtHead(q)'
  <2>1. queue[q] \in Seq(Activity) /\ (queue'[q] = queue[q] \/ queue'[q] = Append(queue[q], a))
    BY <1>0
  <2>2. queue[q] # <<>> => queue'[q] # <<>> /\ Head(queue'[q]) = Head(queue[q])
    BY <2>1
  <2> QED
    BY <2>2, PairFacts DEF Once, AtHead
<1> QED
  BY <1>3, <1>4, <1>5, <1>6 DEF Once, Consumed, AppliedOnce

\* What is received in its turn is still the head of its queue.
LEMMA OnceReceives ==
    ASSUME TypeInv, Once, NEW p \in Pair, Admit(p)
    PROVE  Once'
<1>0. queue \in [Pair -> Seq(Activity)] /\ web \in [Node -> Task] /\ p[2] \in Node
  BY PairFacts DEF TypeInv, TypeOK
<1> DEFINE a == Head(queue[p])
<1>1. /\ queue[p] # <<>> /\ UNCHANGED <<queue, nextId, applied, reapplied>>
      /\ web' = [web EXCEPT ![p[2]] =
                   [do |-> "dispatch", pair |-> Rev(p), row |-> None, act |-> a,
                    fresh |-> a.id \notin receipts[p[2]]]]
  BY DEF Admit, Receive, historyVars
<1>2. ASSUME NEW q \in Pair PROVE AtHead(q)'
  <2>1. CASE q[2] = p[2]
    <3>1. web'[q[2]].pair = Rev(p) /\ web'[q[2]].act = a
      BY <1>0, <1>1, <2>1
    <3>2. Rev(q) = Rev(p) => q = p
      BY PairFacts DEF Rev, Pair
    <3> QED
      BY <1>1, <3>1, <3>2 DEF AtHead
  <2>2. CASE q[2] # p[2]
    BY <1>0, <1>1, <2>2, PairFacts DEF Once, AtHead
  <2> QED
    BY <2>1, <2>2
<1> QED
  BY <1>1, <1>2 DEF Once, Numbered, Distinct, Consumed, AppliedOnce

\* What has been dispatched leaves its queue for good.
LEMMA OnceDispatches ==
    ASSUME TypeInv, Once, NEW n \in Node, Dispatch(n), UNCHANGED faults
    PROVE  Once'
<1>0. /\ queue \in [Pair -> Seq(Activity)] /\ web \in [Node -> Task] /\ faults \in Nat
      /\ applied \in [Node -> SUBSET Nat] /\ reapplied \in [Node -> SUBSET Nat]
  BY DEF TypeInv, TypeOK
<1>1. PICK p \in Pair, a \in Activity : Rev(p) = web[n].pair /\ a = web[n].act /\ p[2] = n
  <2>1. web[n].pair \in Pair /\ web[n].pair[1] = n /\ web[n].act \in Activity
    BY DEF Dispatch, TypeInv, Shaped
  <2>2. /\ Rev(web[n].pair) \in Pair /\ Rev(Rev(web[n].pair)) = web[n].pair
        /\ Rev(web[n].pair)[2] = n
    BY <2>1, PairFacts DEF Rev, Pair
  <2> QED
    BY <2>1, <2>2
<1>2. queue[p] # <<>> /\ Head(queue[p]) = a
  BY <1>1 DEF Once, AtHead, Dispatch
<1>3. /\ queue' = [queue EXCEPT ![p] = Tail(queue[p])] /\ UNCHANGED nextId
      /\ web' = [web EXCEPT ![n] = Nothing]
      /\ Note(n, Rev(p), a)
  <2>1. Acknowledge(Rev(Rev(p)), a) /\ Rev(Rev(p)) = p
    BY <1>1, PairFacts DEF Dispatch, Rev, Pair
  <2>2. queue' = [queue EXCEPT ![p] = IF @ # <<>> /\ Head(@) = a THEN Tail(@) ELSE @]
    BY <1>0, <2>1 DEF Acknowledge
  <2> QED
    BY <1>0, <1>1, <1>2, <2>2 DEF Dispatch
<1>4. /\ queue[p] \in Seq(Activity) /\ Len(queue[p]) \in Nat /\ 1 \in 1..Len(queue[p])
      /\ queue[p][1] = a
  BY <1>0, <1>2
<1>5. ASSUME NEW q \in Pair, NEW i \in 1..Len(queue'[q])
      PROVE  \E k \in 1..Len(queue[q]) : /\ queue'[q][i] = queue[q][k]
                                         /\ k = IF q = p THEN i + 1 ELSE i
  <2>1. CASE q = p
    <3>1. /\ queue'[q] = Tail(queue[p]) /\ Len(Tail(queue[p])) = Len(queue[p]) - 1
          /\ \A k \in 1..(Len(queue[p]) - 1) : Tail(queue[p])[k] = queue[p][k + 1]
      BY <1>0, <1>3, <1>4, <2>1
    <3>2. i \in 1..(Len(queue[p]) - 1) /\ i + 1 \in 1..Len(queue[p])
      BY <1>4, <3>1
    <3> QED
      BY <2>1, <3>1, <3>2
  <2>2. CASE q # p
    BY <1>0, <1>3, <2>2
  <2> QED
    BY <2>1, <2>2
<1>6. Numbered'
  BY <1>3, <1>5 DEF Once, Numbered
<1>7. Distinct'
  <2> SUFFICES ASSUME NEW q \in Pair, NEW r \in Pair,
                      NEW i \in 1..Len(queue'[q]), NEW j \in 1..Len(queue'[r]),
                      queue'[q][i].id = queue'[r][j].id
               PROVE  q = r /\ i = j
    BY DEF Distinct
  <2>1. PICK k \in 1..Len(queue[q]) : queue'[q][i] = queue[q][k]
                                      /\ k = IF q = p THEN i + 1 ELSE i
    BY <1>5
  <2>2. PICK l \in 1..Len(queue[r]) : queue'[r][j] = queue[r][l]
                                      /\ l = IF r = p THEN j + 1 ELSE j
    BY <1>5
  <2>3. q = r /\ k = l
    BY <2>1, <2>2 DEF Once, Distinct
  <2>4. i \in Int /\ j \in Int
    OBVIOUS
  <2> QED
    BY <2>1, <2>2, <2>3, <2>4
<1>8. ASSUME NEW q \in Pair PROVE AtHead(q)'
  <2>1. CASE q[2] = n
    BY <1>0, <1>3, <2>1, NothingShaped DEF AtHead
  <2>2. CASE q[2] # n
    BY <1>0, <1>1, <1>3, <2>2, PairFacts DEF Once, AtHead
  <2> QED
    BY <2>1, <2>2
\* The number it had is in no queue any more.
<1>9. \A q \in Pair : \A i \in 1..Len(queue'[q]) : queue'[q][i].id # a.id
  <2> SUFFICES ASSUME NEW q \in Pair, NEW i \in 1..Len(queue'[q])
               PROVE  queue'[q][i].id # a.id
    OBVIOUS
  <2>1. PICK k \in 1..Len(queue[q]) : queue'[q][i] = queue[q][k]
                                      /\ k = IF q = p THEN i + 1 ELSE i
    BY <1>5
  <2>2. i \in Nat /\ i >= 1
    OBVIOUS
  <2>3. k # 1 \/ q # p
    BY <2>1, <2>2
  <2> QED
    BY <1>4, <2>1, <2>3 DEF Once, Distinct
<1>10. a.kind = "Follow" => a.follow = a.id
  BY <1>4 DEF Once, Numbered
<1>11. a.id < nextId /\ \A m \in Node : a.id \notin applied[m]
  BY <1>4 DEF Once, Numbered, Consumed
<1>12. \/ UNCHANGED <<applied, reapplied>>
       \/ /\ applied' = [applied EXCEPT ![n] = applied[n] \cup {a.id}]
          /\ reapplied' = [reapplied EXCEPT ![n] = reapplied[n] \cup (applied[n] \cap {a.id})]
  BY <1>0, <1>3, <1>10 DEF Note
<1>13. AppliedOnce'
  <2>1. applied[n] \cap {a.id} = {} /\ \A m \in Node : reapplied[m] = {}
    BY <1>11 DEF Once, AppliedOnce
  <2>2. \A m \in Node : reapplied'[m] = reapplied[m]
    BY <1>0, <1>12, <2>1
  <2> QED
    BY <2>1, <2>2 DEF AppliedOnce
<1>14. ASSUME NEW m \in Node, NEW f \in applied'[m]
       PROVE  f < nextId' /\ \A q \in Pair : \A i \in 1..Len(queue'[q]) : queue'[q][i].id # f
  <2>1. f \in applied[m] \/ f = a.id
    BY <1>0, <1>12
  <2>2. CASE f \in applied[m]
    BY <1>3, <1>5, <2>2 DEF Once, Consumed
  <2>3. CASE f = a.id
    BY <1>3, <1>9, <1>11, <2>3
  <2> QED
    BY <2>1, <2>2, <2>3
<1> QED
  BY <1>6, <1>7, <1>8, <1>13, <1>14 DEF Once, Consumed

LEMMA OnceStep ==
    ASSUME TypeInv, OnceInv, [Next]_vars
    PROVE  OnceInv'
<1> SUFFICES ASSUME Undisturbed' PROVE Once'
  BY DEF OnceInv
<1>0. /\ Once /\ Undisturbed /\ UNCHANGED faults
      /\ queue \in [Pair -> Seq(Activity)] /\ web \in [Node -> Task] /\ faults \in Nat
      /\ strays \in [Pair -> SUBSET Activity] /\ nextId \in Nat
      /\ rel \in [Pair -> Row]
  BY CalmBefore DEF OnceInv, TypeInv, TypeOK
<1>1. ASSUME NEW p \in Pair, NEW kind \in Kind, NEW f \in Nat, NEW r,
             kind = "Follow" => f = nextId, QueueThenSave(p, kind, f, r)
      PROVE  Once'
  <2> DEFINE a == [id |-> nextId, kind |-> kind, follow |-> f]
  <2>1. a \in Activity /\ a.id = nextId /\ a.kind = kind /\ a.follow = f
    BY <1>0 DEF Activity
  <2>2. /\ queue' = [queue EXCEPT ![p] = Append(@, a)] /\ nextId' = nextId + 1
        /\ UNCHANGED <<applied, reapplied>>
    BY <1>1 DEF QueueThenSave
  <2>3. \A n \in Node : web'[n].do = "dispatch" => web'[n] = web[n]
    BY <1>0, <1>1, PairFacts DEF QueueThenSave
  <2> HIDE DEF a
  <2> QED
    BY <1>0, <1>1, <2>1, <2>2, <2>3, OnceSends
<1>2. ASSUME NEW p \in Pair, SendFollow(p) \/ Answer(p) \/ Unfollow(p) PROVE Once'
  <2>1. Read(p) \in Row
    BY RowFacts DEF TypeInv
  <2>2. Read(p).inId \in Nat /\ Read(p).outId \in Nat
    BY <2>1 DEF Row
  <2>3. \E kind \in Kind, f \in Nat : \E r :
            (kind = "Follow" => f = nextId) /\ QueueThenSave(p, kind, f, r)
    BY <1>0, <1>2, <2>2 DEF SendFollow, Answer, Unfollow, Kind
  <2> QED
    BY <1>1, <2>3
<1>3. ASSUME NEW p \in Pair, Leave(p) PROVE Once'
  <2> DEFINE a == [id |-> nextId, kind |-> "Delete", follow |-> 0]
  <2>1. a \in Activity /\ a.id = nextId /\ a.kind # "Follow"
    BY <1>0 DEF Activity, Kind
  <2>2. /\ queue' = [queue EXCEPT ![p] = Append(@, a)] /\ nextId' = nextId + 1
        /\ UNCHANGED <<applied, reapplied, web>>
    BY <1>3 DEF Leave, historyVars
  <2> HIDE DEF a
  <2> QED
    BY <1>0, <1>3, <2>1, <2>2, OnceSends
\* A block that took something out of its queue would have left it astray.
<1>4. ASSUME NEW p \in Pair, Cancel(p) PROVE UNCHANGED queue
  <2>1. ToSet(queue[p]) = {} /\ queue[p] \in Seq(Activity)
    BY <1>0, <1>4 DEF Cancel, Undisturbed
  <2>2. queue[p] = <<>>
    <3>1. queue[p] # <<>> => 1 \in DOMAIN queue[p]
      BY <2>1
    <3> QED
      BY <2>1, <3>1 DEF ToSet
  <2> QED
    BY <1>0, <1>4, <2>2 DEF Cancel
<1>5. ASSUME NEW p \in Pair, \/ RemoveFollower(p) \/ Discover(p) \/ BlockActor(p)
                             \/ UnblockActor(p) \/ BlockDomain(p) \/ UnblockDomain(p)
      PROVE  Once'
  <2>1. UNCHANGED <<queue, nextId, applied, reapplied, web>>
    BY <1>4, <1>5 DEF RemoveFollower, Discover, BlockActor, UnblockActor, ApplyActorBlock,
                      BlockDomain, UnblockDomain, historyVars
  <2> QED
    BY <1>0, <2>1, OnceBeside
<1>6. ASSUME NEW n \in Node, FinishSave(n) \/ Crash(n) PROVE Once'
  <2>1. UNCHANGED <<queue, nextId, applied, reapplied>> /\ web' = [web EXCEPT ![n] = Nothing]
    BY <1>6 DEF FinishSave, Crash, historyVars
  <2>2. \A m \in Node : web'[m].do = "dispatch" => web'[m] = web[m]
    BY <1>0, <2>1, NothingShaped
  <2> QED
    BY <1>0, <2>1, <2>2, OnceBeside
<1>7. ASSUME NEW n \in Node, NEW c \in Circle, SetCircle(n, c) PROVE Once'
  <2>1. UNCHANGED <<queue, nextId, applied, reapplied, web>>
    BY <1>7 DEF SetCircle, historyVars
  <2> QED
    BY <1>0, <2>1, OnceBeside
<1>8. CASE UNCHANGED vars
  <2>1. UNCHANGED <<queue, nextId, applied, reapplied, web>>
    BY <1>8 DEF vars, historyVars
  <2> QED
    BY <1>0, <2>1, OnceBeside
<1>9. ASSUME NEW p \in Pair PROVE ~GiveUp(p) /\ ~AdmitStray(p)
  BY <1>0 DEF GiveUp, AdmitStray, Undisturbed
<1> QED
  BY <1>0, <1>2, <1>3, <1>5, <1>6, <1>7, <1>8, <1>9, OnceReceives, OnceDispatches
     DEF Next, Owner, Process

\* A Follow takes effect a second time only after an answer was lost, a process
\* died, or a delivery left its queue out of turn: handing duplicates on does no
\* harm to a conversation that nothing disturbs.
THEOREM TwiceTakesAMishap == Spec => []OnceUndisturbed
<1>1. Init => OnceInv
  BY DEF Init, OnceInv, Once, Numbered, Distinct, Consumed, AppliedOnce, AtHead, Nothing, Pair
<1>2. TypeInv /\ OnceInv /\ [Next]_vars => (TypeInv /\ OnceInv)'
  BY TypeStep, OnceStep
<1>3. OnceInv => OnceUndisturbed
  BY DEF OnceInv, Once, OnceUndisturbed
<1> QED
  BY TypeInit, <1>1, <1>2, <1>3, PTL DEF Spec
=============================================================================
