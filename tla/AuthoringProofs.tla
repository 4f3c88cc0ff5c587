-------------------------- MODULE AuthoringProofs --------------------------
(***************************************************************************)
(* The guestbook for any visitors, tokens, window and limit, the rows of   *)
(* the feed for any actors, posts, deliveries and handlers, and content    *)
(* and its images for any items, images, handlers and failures.            *)
(*                                                                         *)
(* SubmissionsBounded looks at spans that begin at a submission.  Inductive *)
(* is the same bound for the spans that begin at any time: all that lies   *)
(* with a new submission in one span is Recent when it is stored, also     *)
(* what was stamped later and stored before.                               *)
(*                                                                         *)
(* Publishing has three invariants, each on top of the one before: ItemInv *)
(* (what a handler read is the row or an older one), ImageInv (who knows   *)
(* an image that is being brought or dropped) and CleanInv (which objects  *)
(* are left, and who answers for them).                                    *)
(***************************************************************************)
EXTENDS Publishing, Guestbook, Feed, FiniteSetTheorems, TLAPS

SpansBounded == \A t \in Token, from \in Int : Cardinality(Between(t, from)) <= Limit

NoDoubles ==
    \A d, e \in entries : d.token = e.token /\ d.words = e.words => d.nr = e.nr

BookInv == BookTypeOK /\ SpansBounded /\ NoDoubles

(* The empty guestbook satisfies the invariant. *)
LEMMA BookStart == BookInit => BookInv
<1> SUFFICES ASSUME BookInit PROVE BookInv  OBVIOUS
<1>1. BookTypeOK
  BY FS_EmptySet DEF BookInit, BookTypeOK, NoVisit
<1>2. ASSUME NEW t \in Token, NEW from \in Int
      PROVE  Cardinality(Between(t, from)) <= Limit
  <2>1. Between(t, from) = {}  BY DEF Between, BookInit
  <2> QED  BY <2>1, FS_EmptySet, GuestbookAssumption
<1> QED  BY <1>1, <1>2 DEF BookInv, SpansBounded, NoDoubles, BookInit

(* What is counted is finite. *)
LEMMA SpanIsFinite ==
  ASSUME BookTypeOK, NEW t, NEW from
  PROVE  /\ IsFiniteSet(Between(t, from))
         /\ Cardinality(Between(t, from)) \in Nat
<1>1. Between(t, from) \in SUBSET entries  BY DEF Between
<1>2. IsFiniteSet(Between(t, from))  BY <1>1, FS_Subset DEF BookTypeOK
<1> QED  BY <1>2, FS_CardinalityType

LEMMA RecentIsFinite ==
  ASSUME BookTypeOK, NEW t, NEW now
  PROVE  /\ IsFiniteSet(Recent(t, now))
         /\ Cardinality(Recent(t, now)) \in Nat
<1>1. Recent(t, now) \in SUBSET entries  BY DEF Recent
<1>2. IsFiniteSet(Recent(t, now))  BY <1>1, FS_Subset DEF BookTypeOK
<1> QED  BY <1>2, FS_CardinalityType

(* Types survive a submission and its storing. *)
LEMMA StoreTypes ==
  ASSUME BookInv, NEW v \in Visitor, StoreEntry(v) PROVE BookTypeOK'
<1> DEFINE q == visit[v]
           new == [nr |-> q.nr, token |-> q.token, words |-> q.words,
                   at |-> q.at, status |-> "pending"]
<1>1. q \in VisitRow
  BY DEF BookInv, BookTypeOK, StoreEntry, NoVisit
<1>2. new \in EntryRow  BY <1>1 DEF VisitRow, EntryRow
<1>3. entries' \in {entries, entries \cup {new}}  BY DEF StoreEntry
<1>4. IsFiniteSet(entries \cup {new})  BY FS_AddElement DEF BookInv, BookTypeOK
<1>5. entries' \subseteq EntryRow /\ IsFiniteSet(entries')
  BY <1>2, <1>3, <1>4 DEF BookInv, BookTypeOK
<1>6. visit' \in [Visitor -> VisitRow \cup {NoVisit}]
  BY DEF BookInv, BookTypeOK, StoreEntry
<1> QED  BY <1>5, <1>6 DEF BookInv, BookTypeOK, StoreEntry

(* A submission that is stored fits into every span that it lies in. *)
LEMMA StoreKeeps ==
  ASSUME BookInv, NEW v \in Visitor, StoreEntry(v) PROVE BookInv'
<1> DEFINE q == visit[v]
           new == [nr |-> q.nr, token |-> q.token, words |-> q.words,
                   at |-> q.at, status |-> "pending"]
<1>1. BookTypeOK'  BY StoreTypes
<1>2. q \in VisitRow
  BY DEF BookInv, BookTypeOK, StoreEntry, NoVisit
<1>3. CASE entries' = entries
  BY <1>1, <1>3 DEF BookInv, SpansBounded, Between, NoDoubles
<1>4. CASE entries' # entries
  <2>1. /\ entries' = entries \cup {new}
        /\ ~Received(q.token, q.words) /\ HasRoom(q.token, q.at)
    BY <1>4 DEF StoreEntry
  <2> HIDE DEF q
  <2>2. ASSUME NEW t \in Token, NEW from \in Int
        PROVE  Cardinality(Between(t, from)') <= Limit
    <3>1. CASE new \in Between(t, from)'
      <4>1. q.token = t /\ from <= q.at /\ q.at <= from + Window
        BY <3>1 DEF Between
      <4>2. ASSUME NEW e \in entries, e \in Between(t, from)  PROVE e \in Recent(t, q.at)
        <5>1. e.token = t /\ from <= e.at  BY <4>2 DEF Between
        <5>2. e.at \in Int /\ q.at \in Int
          BY <1>2 DEF BookInv, BookTypeOK, EntryRow, VisitRow
        <5> QED  BY <4>1, <5>1, <5>2, GuestbookAssumption DEF Recent
      <4>3. Between(t, from) \in SUBSET Recent(t, q.at)  BY <4>2 DEF Between
      <4>4. Cardinality(Between(t, from)) <= Cardinality(Recent(t, q.at))
        BY <4>3, RecentIsFinite, FS_Subset DEF BookInv
      <4>5. Between(t, from)' = Between(t, from) \cup {new}
        BY <2>1, <3>1 DEF Between
      <4>6. Cardinality(Between(t, from)') <= Cardinality(Between(t, from)) + 1
        <5>1. IsFiniteSet(Between(t, from)) /\ Cardinality(Between(t, from)) \in Nat
          BY SpanIsFinite DEF BookInv
        <5>2. Cardinality(Between(t, from) \cup {new}) =
                 IF new \in Between(t, from) THEN Cardinality(Between(t, from))
                                             ELSE Cardinality(Between(t, from)) + 1
          BY <5>1, FS_AddElement
        <5> QED  BY <4>5, <5>1, <5>2
      <4>7. Cardinality(Recent(t, q.at)) < Limit  BY <2>1, <4>1 DEF HasRoom
      <4>8. /\ Cardinality(Between(t, from)) \in Nat
            /\ Cardinality(Recent(t, q.at)) \in Nat
            /\ Cardinality(Between(t, from)') \in Nat
        BY <1>1, SpanIsFinite, SpanIsFinite, RecentIsFinite, <4>5, FS_AddElement,
           FS_CardinalityType DEF BookInv
      <4> QED  BY <4>4, <4>6, <4>7, <4>8, GuestbookAssumption
    <3>2. CASE new \notin Between(t, from)'
      <4>1. Between(t, from)' = Between(t, from)  BY <2>1, <3>2 DEF Between
      <4> QED  BY <4>1 DEF BookInv, SpansBounded
    <3> QED  BY <3>1, <3>2
  <2>3. NoDoubles'
    BY <2>1 DEF BookInv, NoDoubles, Received
  <2> QED  BY <1>1, <2>2, <2>3 DEF BookInv, SpansBounded
<1> QED  BY <1>3, <1>4

(* An entry that is moderated keeps its place in every span. *)
LEMMA ModerateKeeps ==
  ASSUME BookInv, Moderate PROVE BookInv'
<1>1. PICK e \in entries, action \in {"approved", "rejected", "deleted"} :
         entries' = (entries \ {e}) \cup {[e EXCEPT !.status = action]}
  BY DEF Moderate, Kept
<1> DEFINE f == [e EXCEPT !.status = action]
<1>2. e \in EntryRow  BY DEF BookInv, BookTypeOK
<1>3. f \in EntryRow /\ f.at = e.at /\ f.token = e.token /\ f.words = e.words /\ f.nr = e.nr
  BY <1>2 DEF EntryRow
<1> HIDE DEF f
<1>4. entries' = (entries \ {e}) \cup {f}  BY <1>1 DEF f
<1>5. BookTypeOK'
  <2>1. IsFiniteSet(entries')
    BY <1>4, FS_RemoveElement, FS_AddElement DEF BookInv, BookTypeOK
  <2> QED  BY <1>3, <1>4, <2>1 DEF BookInv, BookTypeOK, Moderate
<1>6. ASSUME NEW t \in Token, NEW from \in Int
      PROVE  Cardinality(Between(t, from)') <= Limit
  <2>1. CASE e \in Between(t, from)
    <3>1. Between(t, from)' = (Between(t, from) \ {e}) \cup {f}
      BY <1>3, <1>4, <2>1 DEF Between
    <3>2. /\ IsFiniteSet(Between(t, from) \ {e})
          /\ Cardinality(Between(t, from) \ {e}) = Cardinality(Between(t, from)) - 1
      BY <2>1, SpanIsFinite, FS_RemoveElement DEF BookInv
    <3>3. Cardinality(Between(t, from)') <= Cardinality(Between(t, from))
      <4> DEFINE rest == Between(t, from) \ {e}
      <4>1. Cardinality(rest \cup {f}) = IF f \in rest THEN Cardinality(rest)
                                                     ELSE Cardinality(rest) + 1
        BY <3>2, FS_AddElement
      <4>2. Cardinality(Between(t, from)) \in Nat  BY SpanIsFinite DEF BookInv
      <4> QED  BY <3>1, <3>2, <4>1, <4>2
    <3>4. Cardinality(Between(t, from)) \in Nat /\ Cardinality(Between(t, from)') \in Nat
      BY <1>5, <3>1, <3>2, SpanIsFinite, FS_AddElement, FS_CardinalityType DEF BookInv
    <3> QED  BY <3>3, <3>4, GuestbookAssumption DEF BookInv, SpansBounded
  <2>2. CASE e \notin Between(t, from)
    <3>1. Between(t, from)' = Between(t, from)
      BY <1>3, <1>4, <2>2 DEF Between
    <3> QED  BY <3>1 DEF BookInv, SpansBounded
  <2> QED  BY <2>1, <2>2
<1>7. NoDoubles'
  BY <1>3, <1>4 DEF BookInv, NoDoubles
<1> QED  BY <1>5, <1>6, <1>7 DEF BookInv, SpansBounded

(* The other steps leave the entries alone. *)
LEMMA OthersKeepBook ==
  ASSUME BookInv, BookNext \/ UNCHANGED bookVars,
         entries' = entries
  PROVE  BookInv'
<1>1. BookTypeOK'
  <2>1. ASSUME NEW v \in Visitor, Submit(v)  PROVE BookTypeOK'
    <3>1. PICK t \in Token, x \in Words :
             visit' = [visit EXCEPT ![v] = [doing |-> "store", nr |-> begun,
                                            token |-> t, words |-> x, at |-> wall]]
      BY <2>1 DEF Submit
    <3>2. [doing |-> "store", nr |-> begun, token |-> t, words |-> x, at |-> wall]
             \in VisitRow
      BY DEF BookInv, BookTypeOK, VisitRow
    <3>3. visit' \in [Visitor -> VisitRow \cup {NoVisit}]
      BY <3>1, <3>2 DEF BookInv, BookTypeOK
    <3> QED  BY <2>1, <3>3 DEF Submit, BookInv, BookTypeOK
  <2>2. ASSUME NEW v \in Visitor, StoreEntry(v)  PROVE BookTypeOK'
    BY <2>2, StoreTypes
  <2>3. ASSUME NEW v \in Visitor, VisitorLeaves(v)  PROVE BookTypeOK'
    BY <2>3 DEF VisitorLeaves, BookInv, BookTypeOK
  <2>4. ASSUME Moderate  PROVE BookTypeOK'
    BY <2>4, ModerateKeeps DEF BookInv
  <2>5. ASSUME WallTick  PROVE BookTypeOK'
    BY <2>5 DEF WallTick, BookInv, BookTypeOK
  <2>6. ASSUME UNCHANGED bookVars  PROVE BookTypeOK'
    BY <2>6 DEF bookVars, BookInv, BookTypeOK
  <2> QED  BY <2>1, <2>2, <2>3, <2>4, <2>5, <2>6 DEF BookNext
<1> QED  BY <1>1 DEF BookInv, SpansBounded, Between, NoDoubles

(* The invariant of every behaviour. *)
LEMMA BookInvariant == BookSpec => []BookInv
<1>1. BookInv /\ [BookNext]_bookVars => BookInv'
  <2> SUFFICES ASSUME BookInv, BookNext \/ UNCHANGED bookVars PROVE BookInv'  OBVIOUS
  <2>1. CASE entries' = entries  BY <2>1, OthersKeepBook
  <2>2. CASE entries' # entries
    <3>1. Moderate \/ \E v \in Visitor : StoreEntry(v)
      BY <2>2 DEF BookNext, bookVars, WallTick, Submit, VisitorLeaves
    <3> QED  BY <3>1, ModerateKeeps, StoreKeeps
  <2> QED  BY <2>1, <2>2
<1> QED  BY BookStart, <1>1, PTL DEF BookSpec

(* The rows and local variables have their types. *)
THEOREM BookTypes == BookSpec => []BookTypeOK
<1>1. BookInv => BookTypeOK  BY DEF BookInv
<1> QED  BY <1>1, BookInvariant, PTL

(* Whatever handlers overtake each other and whatever the owner deletes, no  *)
(* span of Window that begins at a submission holds more than Limit of one   *)
(* token, and no submission is in twice.                                     *)
THEOREM GuestbookBounded == BookSpec => []SubmissionsBounded
<1>1. BookInv => SubmissionsBounded
  BY DEF BookInv, BookTypeOK, SpansBounded, NoDoubles, SubmissionsBounded, EntryRow
<1> QED  BY <1>1, BookInvariant, PTL

----------------------------------------------------------------------------
(* What is written of an edge keeps one active edge of a kind. *)
LEMMA WriteEdgeKeeps ==
  ASSUME CountedOnce, NEW h \in Handler, WriteEdge(h) PROVE CountedOnce'
<1> DEFINE e == turn[h].row
<1>1. UNCHANGED notices  BY DEF WriteEdge
<1>2. CASE UNCHANGED edges  BY <1>1, <1>2 DEF CountedOnce
<1>3. CASE /\ IndexFree(e)
           /\ edges' = {f \in edges : f.id # e.id} \cup {e}
  <2> HIDE DEF e
  <2>1. ASSUME NEW f \in edges, f.id # e.id, ~e.undone, ~f.undone,
               f.kind = e.kind, f.by = e.by, f.on = e.on
        PROVE  FALSE
    BY <1>3, <2>1 DEF IndexFree, ActiveEdges
  <2> QED  BY <1>1, <1>3, <2>1 DEF CountedOnce
<1> QED  BY <1>2, <1>3 DEF WriteEdge

(* A second notice for an activity is not inserted. *)
LEMMA TellKeeps ==
  ASSUME CountedOnce, NEW h \in Handler, Tell(h) PROVE CountedOnce'
  BY DEF Tell, Untold, CountedOnce

(* However activities are repeated and handlers overtake each other, an edge *)
(* counts once and an activity gives one notice.                             *)
THEOREM EdgesCountOnce == FeedSpec => []CountedOnce
<1>1. FeedInit => CountedOnce  BY DEF FeedInit, CountedOnce
<1>2. CountedOnce /\ [FeedNext]_feedVars => CountedOnce'
  <2> SUFFICES ASSUME CountedOnce, FeedNext \/ UNCHANGED feedVars PROVE CountedOnce'
    OBVIOUS
  <2>1. CASE Dismiss  BY <2>1 DEF Dismiss, CountedOnce
  <2>2. CASE ChangeBond \/ UNCHANGED feedVars
    BY <2>2 DEF ChangeBond, feedVars, feedRows, CountedOnce
  <2>3. ASSUME NEW h \in Handler, WriteEdge(h)  PROVE CountedOnce'
    BY <2>3, WriteEdgeKeeps
  <2>4. ASSUME NEW h \in Handler, Tell(h)  PROVE CountedOnce'
    BY <2>4, TellKeeps
  <2>5. ASSUME NEW h \in Handler,
               \/ Receive(h) \/ LookCreate(h) \/ LookObject(h) \/ LookEdge(h)
               \/ LookUndo(h) \/ LookFollow(h) \/ WriteObject(h) \/ Ask(h)
               \/ OwnerEdge(h) \/ OwnerUndo(h) \/ OwnerReply(h) \/ MarkUnavailable(h)
               \/ HandlerDies(h)
        PROVE  CountedOnce'
    <3>1. UNCHANGED <<edges, notices>>
      BY <2>5 DEF Receive, LookCreate, LookObject, LookEdge, LookUndo, LookFollow,
                  WriteObject, Ask, OwnerEdge, OwnerUndo, OwnerReply, MarkUnavailable,
                  HandlerDies, feedRows
    <3> QED  BY <3>1 DEF CountedOnce
  <2> QED  BY <2>1, <2>2, <2>3, <2>4, <2>5 DEF FeedNext
<1> QED  BY <1>1, <1>2, PTL DEF FeedSpec

(* Whatever the rows are, the default feed shows no actor who is blocked or  *)
(* muted, nobody's repost of what a blocked actor wrote, and no text of a    *)
(* deleted object: who is listed is decided from the rows when it is built.  *)
THEOREM FeedStaysClean == FeedSpec => []FeedIsClean
<1>1. FeedIsClean
  <2> SUFFICES ASSUME NEW e \in HomeFeed
               PROVE  /\ e.by # Owner => ~bond[e.by].blocked /\ ~bond[e.by].muted
                      /\ e.on \in Note /\ remote[e.on] # Absent => ~bond[e.on.by].blocked
                      /\ e.on \in Note /\ e.text => ~remote[e.on].deleted
    BY DEF FeedIsClean
  <2>1. ASSUME NEW p \in Post, e = [by |-> Owner, on |-> p, text |-> TRUE]
        PROVE  e.by = Owner /\ e.on \notin Note
    BY <2>1, FeedBounds
  <2>2. ASSUME NEW o \in Note, Heard(o.by), e = [by |-> o.by, on |-> o, text |-> Text(o)]
        PROVE  /\ ~bond[e.by].blocked /\ ~bond[e.by].muted /\ e.on.by = e.by
               /\ e.text => ~remote[e.on].deleted
    BY <2>2 DEF Heard, Text
  <2>3. ASSUME NEW f \in edges, f.by = Owner \/ Heard(f.by), RepostListed(f.on),
               e = [by |-> f.by, on |-> f.on, text |-> RepostText(f.on)]
        PROVE  /\ e.by # Owner => ~bond[e.by].blocked /\ ~bond[e.by].muted
               /\ e.on \in Note /\ remote[e.on] # Absent => ~bond[e.on.by].blocked
               /\ e.on \in Note /\ e.text => ~remote[e.on].deleted
    <3>1. e.by = f.by /\ e.on = f.on /\ e.text = RepostText(f.on)
      BY <2>3
    <3>2. f.on \in Note => f.on \notin Post
      BY FeedBounds
    <3> QED  BY <2>3, <3>1, <3>2 DEF Heard, RepostListed, RepostText, Snapshot, Text
  <2> QED  BY <2>1, <2>2, <2>3 DEF HomeFeed
<1> QED  BY <1>1, PTL

----------------------------------------------------------------------------
ObjectRow == [text : BOOLEAN, deleted : BOOLEAN, unavailable : BOOLEAN]
ObjectWrites == {"Create", "Update", "Delete", "mark"}

(* What a handler that writes an object has in hand is no younger than what *)
(* it read: made from a tombstone, it is one.                               *)
TurnRemembers(u) ==
    /\ u.do = "look" /\ u.act.type \in ObjectWrites => u.act.actor \in Actor
    /\ u.do = "write" /\ u.act.type \in ObjectWrites =>
          u.row \in ObjectRow /\ (u.seen # Absent /\ u.seen.deleted => u.row.deleted)

FeedInv ==
    /\ remote \in [Note -> ObjectRow \cup {Absent}]
    /\ turn = [h \in Handler |-> turn[h]]
    /\ \A h \in Handler : TurnRemembers(turn[h])

(* A handler that goes on with something it remembers keeps the invariant. *)
LEMMA TurnKeeps ==
  ASSUME FeedInv, NEW h \in Handler, NEW u, Turns(h, u), TurnRemembers(u),
         UNCHANGED remote
  PROVE  FeedInv'
<1>1. turn' = [turn EXCEPT ![h] = u]  BY DEF Turns
<1>2. turn' = [k \in Handler |-> IF k = h THEN u ELSE turn[k]]
  BY <1>1 DEF FeedInv
<1>3. turn' = [k \in Handler |-> turn'[k]]  BY <1>2
<1>4. ASSUME NEW k \in Handler  PROVE TurnRemembers(turn'[k])
  BY <1>2 DEF FeedInv
<1>5. \A k \in Handler : TurnRemembers(turn[k])'
  BY <1>4 DEF TurnRemembers
<1> QED  BY <1>3, <1>5 DEF FeedInv

LEMMA IdleRemembers == TurnRemembers(NoTurn)
  BY DEF NoTurn, TurnRemembers

LEMMA AskRemembers ==
  ASSUME NEW act, NEW next \in {"ask", "tell"}
  PROVE  TurnRemembers([do |-> next, act |-> act])
  BY DEF TurnRemembers

LEMMA AfterRemembers == ASSUME NEW u PROVE TurnRemembers(After(u))
  BY IdleRemembers, AskRemembers DEF After

(* Writing an edge says nothing about objects. *)
LEMMA EdgeRemembers ==
  ASSUME NEW act, NEW row, NEW seen, NEW tells, act.type \notin ObjectWrites
  PROVE  TurnRemembers(Write(act, row, seen, tells))
  BY DEF TurnRemembers, Write

LEMMA RowRemembers ==
  ASSUME NEW act, NEW row \in ObjectRow, NEW seen, NEW tells,
         seen # Absent /\ seen.deleted => row.deleted
  PROVE  TurnRemembers(Write(act, row, seen, tells))
  BY DEF TurnRemembers, Write

(* Updates, deletions and marks keep a tombstone. *)
LEMMA RowsKeepTombstones ==
  ASSUME NEW row \in ObjectRow
  PROVE  /\ Updated(row) \in ObjectRow /\ Updated(row).deleted = row.deleted
         /\ Tombstone(row) \in ObjectRow /\ Tombstone(row).deleted
         /\ [row EXCEPT !.unavailable = TRUE] \in ObjectRow
         /\ [row EXCEPT !.unavailable = TRUE].deleted = row.deleted
  BY DEF ObjectRow, Updated, Tombstone

(* What a handler takes up when it is idle. *)
LEMMA TakingUpKeeps ==
  ASSUME FeedInv, NEW h \in Handler,
         Receive(h) \/ OwnerEdge(h) \/ OwnerUndo(h) \/ OwnerReply(h)
  PROVE  FeedInv'
<1>1. ASSUME Receive(h)  PROVE FeedInv'
  <2>1. PICK act \in Activity : Turns(h, [do |-> "look", act |-> act])
    BY <1>1 DEF Receive
  <2>2. act.actor \in Actor  BY DEF Activity
  <2>3. TurnRemembers([do |-> "look", act |-> act])  BY <2>2 DEF TurnRemembers
  <2> QED  BY <1>1, <2>1, <2>3, TurnKeeps DEF Receive, feedRows
<1>2. ASSUME OwnerEdge(h)  PROVE FeedInv'
  <2>1. PICK kind \in {"like", "repost"}, x \in Target :
           Turns(h, Write(Act(kind, x), Edge(OwnId(calls), kind, Owner, x), Absent, FALSE))
    BY <1>2 DEF OwnerEdge
  <2>2. Act(kind, x).type \notin ObjectWrites  BY DEF Act, ObjectWrites
  <2> QED  BY <1>2, <2>1, <2>2, EdgeRemembers, TurnKeeps DEF OwnerEdge, feedRows
<1>3. ASSUME OwnerUndo(h)  PROVE FeedInv'
  <2>1. PICK e \in edges :
           Turns(h, Write(Act("undo", e.on), [e EXCEPT !.undone = TRUE], e, FALSE))
    BY <1>3 DEF OwnerUndo
  <2>2. Act("undo", e.on).type \notin ObjectWrites  BY DEF Act, ObjectWrites
  <2> QED  BY <1>3, <2>1, <2>2, EdgeRemembers, TurnKeeps DEF OwnerUndo, feedRows
<1>4. ASSUME OwnerReply(h)  PROVE FeedInv'
  <2>1. PICK x \in Target :
           Turns(h, Write(Act("reply", x), Edge(OwnId(calls), "reply", Owner, x),
                          Absent, FALSE))
    BY <1>4 DEF OwnerReply
  <2>2. Act("reply", x).type \notin ObjectWrites  BY DEF Act, ObjectWrites
  <2> QED  BY <1>4, <2>1, <2>2, EdgeRemembers, TurnKeeps DEF OwnerReply
<1> QED  BY <1>1, <1>2, <1>3, <1>4

(* What a handler of a delivery makes of what it reads. *)
LEMMA LookingKeeps ==
  ASSUME FeedInv, NEW h \in Handler,
         LookCreate(h) \/ LookObject(h) \/ LookEdge(h) \/ LookUndo(h) \/ LookFollow(h)
  PROVE  FeedInv'
<1> DEFINE act == turn[h].act
           old == remote[[by |-> act.actor]]
<1>1. ASSUME LookCreate(h)  PROVE FeedInv'
  <2>1. NewObject \in ObjectRow  BY DEF NewObject, ObjectRow
  <2>2. PICK u : Turns(h, u) /\ (u = NoTurn \/ \E tells \in BOOLEAN :
                    u = Write(act, NewObject, Absent, tells))
    BY <1>1 DEF LookCreate
  <2>3. TurnRemembers(u)  BY <2>1, <2>2, RowRemembers, IdleRemembers
  <2> QED  BY <1>1, <2>2, <2>3, TurnKeeps DEF LookCreate, feedRows
<1>2. ASSUME LookObject(h)  PROVE FeedInv'
  <2>1. act.actor \in Actor
    BY <1>2 DEF LookObject, FeedInv, TurnRemembers, ObjectWrites
  <2>2. old \in ObjectRow \cup {Absent}  BY <2>1 DEF FeedInv, Note
  <2>3. CASE old = Absent
    <3>1. Turns(h, NoTurn)  BY <1>2, <2>3 DEF LookObject
    <3> QED  BY <1>2, <3>1, IdleRemembers, TurnKeeps DEF LookObject, feedRows
  <2>4. CASE old # Absent
    <3> DEFINE new == IF act.type = "Update" THEN Updated(old) ELSE Tombstone(old)
    <3>1. Turns(h, Write(act, new, old, FALSE))  BY <1>2, <2>4 DEF LookObject
    <3>2. new \in ObjectRow /\ (old.deleted => new.deleted)
      BY <2>2, <2>4, RowsKeepTombstones
    <3>3. TurnRemembers(Write(act, new, old, FALSE))  BY <3>2, RowRemembers
    <3> QED  BY <1>2, <3>1, <3>3, TurnKeeps DEF LookObject, feedRows
  <2> QED  BY <2>3, <2>4
<1>3. ASSUME LookEdge(h) \/ LookUndo(h)  PROVE FeedInv'
  <2>1. act.type \notin ObjectWrites  BY <1>3 DEF LookEdge, LookUndo, ObjectWrites
  <2>2. PICK u : Turns(h, u) /\ (u = NoTurn \/ \E row, seen, tells :
                    u = Write(act, row, seen, tells))
    BY <1>3 DEF LookEdge, LookUndo
  <2>3. TurnRemembers(u)  BY <2>1, <2>2, EdgeRemembers, IdleRemembers
  <2> QED  BY <1>3, <2>2, <2>3, TurnKeeps DEF LookEdge, LookUndo, feedRows
<1>4. ASSUME LookFollow(h)  PROVE FeedInv'
  <2>1. Turns(h, [do |-> "ask", act |-> act])  BY <1>4 DEF LookFollow
  <2> QED  BY <1>4, <2>1, AskRemembers, TurnKeeps DEF LookFollow, feedRows
<1> QED  BY <1>1, <1>2, <1>3, <1>4

(* A row that is written is an object's row. *)
LEMMA WriteObjectKeeps ==
  ASSUME FeedInv, NEW h \in Handler, WriteObject(h) PROVE FeedInv'
<1> DEFINE u == After(turn[h])
<1>1. turn[h].row \in ObjectRow
  BY DEF WriteObject, FeedInv, TurnRemembers, ObjectWrites
<1>2. remote' \in [Note -> ObjectRow \cup {Absent}]
  BY <1>1 DEF WriteObject, FeedInv
<1>3. turn' = [turn EXCEPT ![h] = u]  BY DEF WriteObject, Turns
<1>4. TurnRemembers(u)  BY AfterRemembers
<1> HIDE DEF u
<1>5. turn' = [k \in Handler |-> IF k = h THEN u ELSE turn[k]]  BY <1>3 DEF FeedInv
<1>6. ASSUME NEW k \in Handler  PROVE TurnRemembers(turn'[k])
  BY <1>4, <1>5 DEF FeedInv
<1>7. turn' = [k \in Handler |-> turn'[k]]  BY <1>5
<1> QED  BY <1>2, <1>6, <1>7 DEF FeedInv, TurnRemembers

LEMMA FinishingKeeps ==
  ASSUME FeedInv, NEW h \in Handler,
         WriteEdge(h) \/ Ask(h) \/ Tell(h) \/ MarkUnavailable(h) \/ HandlerDies(h)
  PROVE  FeedInv'
<1>1. ASSUME WriteEdge(h)  PROVE FeedInv'
  <2>1. Turns(h, After(turn[h])) \/ Turns(h, NoTurn)  BY <1>1 DEF WriteEdge
  <2> QED  BY <1>1, <2>1, AfterRemembers, IdleRemembers, TurnKeeps DEF WriteEdge
<1>2. ASSUME Ask(h)  PROVE FeedInv'
  <2>1. Turns(h, NoTurn) \/ Turns(h, [do |-> "tell", act |-> turn[h].act])
    BY <1>2 DEF Ask
  <2> QED  BY <1>2, <2>1, AskRemembers, IdleRemembers, TurnKeeps DEF Ask, feedRows
<1>3. ASSUME Tell(h) \/ HandlerDies(h)  PROVE FeedInv'
  BY <1>3, IdleRemembers, TurnKeeps DEF Tell, HandlerDies, feedRows
<1>4. ASSUME MarkUnavailable(h)  PROVE FeedInv'
  <2>1. PICK o \in Note :
           /\ remote[o] # Absent
           /\ Turns(h, Write([type |-> "mark", actor |-> o.by],
                             [remote[o] EXCEPT !.unavailable = TRUE], remote[o], FALSE))
    BY <1>4 DEF MarkUnavailable
  <2>2. remote[o] \in ObjectRow  BY <2>1 DEF FeedInv
  <2> DEFINE new == [remote[o] EXCEPT !.unavailable = TRUE]
  <2>3. new \in ObjectRow /\ (remote[o].deleted => new.deleted)
    BY <2>2, RowsKeepTombstones
  <2>4. TurnRemembers(Write([type |-> "mark", actor |-> o.by], new, remote[o], FALSE))
    BY <2>3, RowRemembers
  <2> QED  BY <1>4, <2>1, <2>4, TurnKeeps DEF MarkUnavailable, feedRows
<1> QED  BY <1>1, <1>2, <1>3, <1>4

LEMMA FeedInvariant == FeedSpec => []FeedInv
<1>1. FeedInit => FeedInv
  BY DEF FeedInit, FeedInv, TurnRemembers, NoTurn
<1>2. FeedInv /\ [FeedNext]_feedVars => FeedInv'
  <2> SUFFICES ASSUME FeedInv, FeedNext \/ UNCHANGED feedVars PROVE FeedInv'  OBVIOUS
  <2>1. CASE UNCHANGED <<remote, turn>>  BY <2>1 DEF FeedInv, TurnRemembers
  <2>2. CASE ~UNCHANGED <<remote, turn>>
    <3>1. \E h \in Handler :
             \/ Receive(h) \/ LookCreate(h) \/ LookObject(h) \/ LookEdge(h) \/ LookUndo(h)
             \/ LookFollow(h) \/ WriteObject(h) \/ WriteEdge(h) \/ Ask(h) \/ Tell(h)
             \/ OwnerEdge(h) \/ OwnerUndo(h) \/ OwnerReply(h) \/ MarkUnavailable(h)
             \/ HandlerDies(h)
      BY <2>2 DEF FeedNext, ChangeBond, Dismiss, feedVars, feedRows
    <3> QED  BY <3>1, TakingUpKeeps, LookingKeeps, WriteObjectKeeps, FinishingKeeps
  <2> QED  BY <2>1, <2>2
<1> QED  BY <1>1, <1>2, PTL DEF FeedSpec

(* A tombstone is only written over by a handler that had read the row       *)
(* before the deletion, or had found none: nothing that arrives afterwards   *)
(* brings a deleted object back.                                             *)
THEOREM TombstonesStayPut == FeedSpec => TombstonesStay
<1> DEFINE Stays == \A o \in Note :
             remote[o] # Absent /\ remote[o].deleted /\ ~remote'[o].deleted =>
                \E h \in Handler : /\ turn[h].do = "write" /\ turn[h].act.actor = o.by
                                   /\ turn[h].seen = Absent \/ ~turn[h].seen.deleted
<1>1. FeedInv /\ [FeedNext]_feedVars => [Stays]_feedVars
  <2> SUFFICES ASSUME FeedInv, FeedNext, NEW o \in Note,
                      remote[o] # Absent, remote[o].deleted, ~remote'[o].deleted
               PROVE  \E h \in Handler : /\ turn[h].do = "write" /\ turn[h].act.actor = o.by
                                         /\ turn[h].seen = Absent \/ ~turn[h].seen.deleted
    OBVIOUS
  <2>1. PICK h \in Handler : WriteObject(h)
    BY DEF FeedNext, ChangeBond, Dismiss, Receive, LookCreate, LookObject, LookEdge,
           LookUndo, LookFollow, WriteEdge, Ask, Tell, OwnerEdge, OwnerUndo, OwnerReply,
           MarkUnavailable, HandlerDies, feedRows
  <2>2. remote' = [remote EXCEPT ![[by |-> turn[h].act.actor]] = turn[h].row]
    BY <2>1 DEF WriteObject
  <2>3. o = [by |-> turn[h].act.actor]  BY <2>2 DEF FeedInv
  <2>4. turn[h].row = remote'[o]  BY <2>2, <2>3 DEF FeedInv
  <2>5. turn[h].seen = Absent \/ ~turn[h].seen.deleted
    BY <2>1, <2>4 DEF WriteObject, FeedInv, TurnRemembers, ObjectWrites
  <2>6. turn[h].do = "write" /\ turn[h].act.actor = o.by
    BY <2>1, <2>3 DEF WriteObject
  <2> QED  BY <2>5, <2>6
<1> QED  BY <1>1, FeedInvariant, PTL DEF FeedSpec, TombstonesStay

----------------------------------------------------------------------------
\* Publishing.  An edit that passes the compare-and-set finds the row that its
\* handler read, and an item that is being created is in nobody else's hands.

Creates(j) == j.do \in {"put", "unput", "commit"} /\ j.base = NoRow
Edits(j) == j.do \in {"put", "unput", "commit", "bury"} /\ j.base # NoRow

\* The records of these fields.
Fields(d, i, b, r, t, m, p, f) ==
    [do : {d}, item : {i}, base : {b}, rev : {r}, to : {t}, media : {m}, parts : {p},
     failed : {f}]

Whole(j) == j \in Fields(j.do, j.item, j.base, j.rev, j.to, j.media, j.parts, j.failed)

JobOK(j) ==
    \/ j = NoJob
    \/ /\ Whole(j) /\ j.do \in {"put", "unput", "commit", "bury", "mark", "erase"}
       /\ j.rev \in Nat /\ j.media \in Media \cup {NoMedia}
       /\ j.to \in {"draft", "public", "deleted"} /\ j.base \in ItemRow \cup {NoRow}
       /\ j.do \in {"put", "unput", "mark", "erase"} => j.media \in Media
       /\ j.do \in {"put", "unput", "commit", "bury"} => j.item \in Item
       /\ j.do = "bury" => j.base # NoRow
       /\ j.do \in {"put", "unput", "commit"} => j.to \in States

\* What an edit read is the item's row, or an older version of it.
Read(j, row) ==
    /\ row # NoRow /\ j.rev <= j.base.rev /\ j.base.rev <= row.rev
    /\ j.base.state # "deleted"
    /\ j.base.rev = row.rev => row = j.base

ItemInv ==
    /\ items \in [Item -> ItemRow \cup {NoRow}] /\ stamps \in Nat
    /\ job = [w \in Writer |-> job[w]]
    /\ \A i \in Item : items[i] # NoRow => i \in known
    /\ \A w \in Writer :
          /\ JobOK(job[w])
          /\ Creates(job[w]) => items[job[w].item] = NoRow /\ job[w].item \in known
          /\ Edits(job[w]) => Read(job[w], items[job[w].item])
    /\ \A v, w \in Writer :
          Creates(job[v]) /\ Creates(job[w]) /\ job[v].item = job[w].item => v = w

(* What the handlers that do not move have in hand.                         *)
LEMMA DoesOne ==
  ASSUME NEW w \in Writer, NEW x, job = [v \in Writer |-> job[v]], Does(w, x)
  PROVE  /\ job' = [v \in Writer |-> job'[v]]
         /\ \A v \in Writer : job'[v] = IF v = w THEN x ELSE job[v]
BY DEF Does

(* A handler's own record after a change of its step, or of what is to go.  *)
LEMMA JobFields ==
  ASSUME NEW j, Whole(j), NEW d, NEW s, NEW f
  PROVE  /\ [j EXCEPT !.do = d]
               \in Fields(d, j.item, j.base, j.rev, j.to, j.media, j.parts, j.failed)
         /\ [j EXCEPT !.parts = s]
               \in Fields(j.do, j.item, j.base, j.rev, j.to, j.media, s, j.failed)
         /\ [j EXCEPT !.do = d, !.parts = s]
               \in Fields(d, j.item, j.base, j.rev, j.to, j.media, s, j.failed)
         /\ [j EXCEPT !.parts = s, !.failed = f]
               \in Fields(j.do, j.item, j.base, j.rev, j.to, j.media, s, f)
<1>1. [j EXCEPT !.do = d]
         \in Fields(d, j.item, j.base, j.rev, j.to, j.media, j.parts, j.failed)
  BY DEF Whole, Fields
<1>2. [j EXCEPT !.parts = s]
         \in Fields(j.do, j.item, j.base, j.rev, j.to, j.media, s, j.failed)
  BY DEF Whole, Fields
<1>3. [j EXCEPT !.do = d, !.parts = s]
         \in Fields(d, j.item, j.base, j.rev, j.to, j.media, s, j.failed)
  BY DEF Whole, Fields
<1>4. [j EXCEPT !.parts = s, !.failed = f]
         \in Fields(j.do, j.item, j.base, j.rev, j.to, j.media, s, f)
  BY DEF Whole, Fields
<1> QED  BY <1>1, <1>2, <1>3, <1>4

LEMMA PubStart == PubInit => ItemInv
BY PublishingBounds DEF PubInit, ItemInv, JobOK, NoJob, Creates, Edits

(* A handler that goes on with the same item, and no row changes.           *)
LEMMA GoesOn ==
  ASSUME ItemInv, NEW w \in Writer, NEW x, Does(w, x), UNCHANGED <<items, stamps>>,
         known \subseteq known', JobOK(x),
         Creates(x) => Creates(job[w]) /\ x.item = job[w].item,
         Edits(x) => /\ Edits(job[w]) /\ x.item = job[w].item
                     /\ x.base = job[w].base /\ x.rev = job[w].rev
  PROVE  ItemInv'
<1>1. /\ job' = [v \in Writer |-> job'[v]]
      /\ \A v \in Writer : job'[v] = IF v = w THEN x ELSE job[v]
  BY DoesOne DEF ItemInv
<1> QED  BY <1>1 DEF ItemInv, Read

(* A handler that takes up an item as it is now.                            *)
LEMMA TakesUp ==
  ASSUME ItemInv, NEW w \in Writer, NEW x, Does(w, x), UNCHANGED <<items, stamps>>,
         known \subseteq known', JobOK(x), Edits(x), x.base = items[x.item],
         x.base.state # "deleted", x.rev <= x.base.rev
  PROVE  ItemInv'
<1>1. /\ job' = [v \in Writer |-> job'[v]]
      /\ \A v \in Writer : job'[v] = IF v = w THEN x ELSE job[v]
  BY DoesOne DEF ItemInv
<1>2. ~Creates(x)
  BY DEF Creates, Edits
<1>3. x \in Fields(x.do, x.item, x.base, x.rev, x.to, x.media, x.parts, x.failed)
  BY DEF JobOK, NoJob, Edits, Whole
<1>4. x.item \in Item /\ x.base \in ItemRow
  BY DEF JobOK, NoJob, Edits
<1>5. Read(x, items[x.item])
  BY <1>4 DEF Read, ItemRow, Edits
<1>6. ASSUME NEW v \in Writer
      PROVE  /\ JobOK(job'[v])
             /\ Creates(job'[v]) => items[job'[v].item] = NoRow /\ job'[v].item \in known'
             /\ Edits(job'[v]) => Read(job'[v], items[job'[v].item])
  <2>1. CASE v = w  BY <1>1, <1>2, <1>5, <2>1
  <2>2. CASE v # w  BY <1>1, <2>2 DEF ItemInv
  <2> QED  BY <2>1, <2>2
<1>7. \A u, v \in Writer : Creates(job'[u]) /\ Creates(job'[v])
                             /\ job'[u].item = job'[v].item => u = v
  BY <1>1, <1>2 DEF ItemInv
<1> QED  BY <1>1, <1>6, <1>7 DEF ItemInv

(* A handler that draws a new item.                                         *)
LEMMA Draws ==
  ASSUME ItemInv, NEW w \in Writer, NEW x, Does(w, x), UNCHANGED <<items, stamps>>,
         known \subseteq known', JobOK(x), Creates(x), x.item \notin known,
         x.item \in known'
  PROVE  ItemInv'
<1>1. /\ job' = [v \in Writer |-> job'[v]]
      /\ \A v \in Writer : job'[v] = IF v = w THEN x ELSE job[v]
  BY DoesOne DEF ItemInv
<1>2. ~Edits(x)
  BY DEF Creates, Edits
<1>3. x.item \in Item /\ items[x.item] = NoRow
  BY DEF JobOK, NoJob, Creates, ItemInv
<1>6. ASSUME NEW v \in Writer
      PROVE  /\ JobOK(job'[v])
             /\ Creates(job'[v]) => items[job'[v].item] = NoRow /\ job'[v].item \in known'
             /\ Edits(job'[v]) => Read(job'[v], items[job'[v].item])
  <2>1. CASE v = w  BY <1>1, <1>2, <1>3, <2>1
  <2>2. CASE v # w  BY <1>1, <2>2 DEF ItemInv
  <2> QED  BY <2>1, <2>2
<1>7. \A u, v \in Writer : Creates(job'[u]) /\ Creates(job'[v])
                             /\ job'[u].item = job'[v].item => u = v
  BY <1>1 DEF ItemInv
<1> QED  BY <1>1, <1>6, <1>7 DEF ItemInv

(* A handler that writes the row of its item and lets go of it.             *)
LEMMA Lands ==
  ASSUME ItemInv, NEW w \in Writer, NEW x, Does(w, x), NEW r \in ItemRow,
         items' = [items EXCEPT ![job[w].item] = r], stamps' \in Nat,
         known \subseteq known', JobOK(x), ~Creates(x), ~Edits(x),
         \/ Creates(job[w])
         \/ Edits(job[w]) /\ r.rev > items[job[w].item].rev
  PROVE  ItemInv'
<1> DEFINE i == job[w].item
<1>1. /\ job' = [v \in Writer |-> job'[v]]
      /\ \A v \in Writer : job'[v] = IF v = w THEN x ELSE job[v]
  BY DoesOne DEF ItemInv
<1>2. i \in Item /\ items \in [Item -> ItemRow \cup {NoRow}] /\ r # NoRow
  BY PublishingBounds DEF ItemInv, JobOK, NoJob, Creates, Edits
<1>3. /\ items' \in [Item -> ItemRow \cup {NoRow}] /\ items'[i] = r
      /\ \A k \in Item : k # i => items'[k] = items[k]
  BY <1>2
<1>4. i \in known
  BY <1>2 DEF ItemInv, Read
<1>5. \A k \in Item : items'[k] # NoRow => k \in known'
  BY <1>3, <1>4 DEF ItemInv
<1>6. ASSUME NEW v \in Writer
      PROVE  /\ JobOK(job'[v])
             /\ Creates(job'[v]) => items'[job'[v].item] = NoRow /\ job'[v].item \in known'
             /\ Edits(job'[v]) => Read(job'[v], items'[job'[v].item])
  <2>1. CASE v = w  BY <1>1, <2>1
  <2>2. CASE v # w
    <3>1. job'[v] = job[v] /\ JobOK(job[v])
      BY <1>1, <2>2 DEF ItemInv
    <3>2. ASSUME Creates(job[v])
          PROVE  items'[job[v].item] = NoRow /\ job[v].item \in known'
      <4>1. job[v].item \in Item
        BY <3>1, <3>2 DEF JobOK, NoJob, Creates
      <4>2. job[v].item # i
        BY <2>2, <3>2 DEF ItemInv, Read
      <4> QED  BY <1>3, <3>2, <4>1, <4>2 DEF ItemInv
    <3>3. ASSUME Edits(job[v])
          PROVE  Read(job[v], items'[job[v].item])
      <4>1. job[v].item \in Item /\ job[v].base \in ItemRow
        BY <3>1, <3>3 DEF JobOK, NoJob, Edits
      <4>2. Read(job[v], items[job[v].item])
        BY <3>3 DEF ItemInv
      <4>3. CASE job[v].item # i
        BY <1>3, <4>1, <4>2, <4>3
      <4>4. CASE job[v].item = i
        <5>1. ~Creates(job[w])
          BY <4>2, <4>4 DEF ItemInv, Read
        <5>2. items[i] \in ItemRow /\ r.rev > items[i].rev
          BY <1>2, <4>2, <4>4, <5>1 DEF Read
        <5>3. items[i].rev \in Nat /\ r.rev \in Nat /\ job[v].base.rev \in Nat
          BY <4>1, <5>2 DEF ItemRow
        <5> QED  BY <1>2, <1>3, <4>2, <4>4, <5>2, <5>3 DEF Read
      <4> QED  BY <4>3, <4>4
    <3> QED  BY <3>1, <3>2, <3>3
  <2> QED  BY <2>1, <2>2
<1>7. \A u, v \in Writer : Creates(job'[u]) /\ Creates(job'[v])
                             /\ job'[u].item = job'[v].item => u = v
  BY <1>1 DEF ItemInv
<1> QED  BY <1>1, <1>3, <1>5, <1>6, <1>7 DEF ItemInv

(* What a handler begins with.                                              *)
LEMMA JobIs ==
  ASSUME NEW d, NEW i, NEW b, NEW r, NEW t, NEW m
  PROVE  Job(d, i, b, r, t, m) \in Fields(d, i, b, r, t, m, Planned, FALSE)
BY DEF Job, Fields

(* A handler that turns to discarding works on no item.                     *)
LEMMA Discarding ==
  ASSUME NEW w \in Writer, NEW m \in Media \cup {NoMedia}, NEW p, Discards(w, m, p)
  PROVE  \E x : /\ Does(w, x) /\ JobOK(x) /\ ~Creates(x) /\ ~Edits(x)
                /\ x = NoJob \/ (x.do = "mark" /\ x.media = m /\ m # NoMedia)
<1> DEFINE k == Job("mark", NoRow, NoRow, 0, "deleted", m)
           x == [k EXCEPT !.parts = p]
<1>1. CASE m = NoMedia
  BY <1>1 DEF Discards, JobOK, NoJob, Creates, Edits
<1>2. CASE m # NoMedia
  <2>1. Whole(k) /\ k.do = "mark" /\ k.item = NoRow /\ k.base = NoRow /\ k.rev = 0
        /\ k.to = "deleted" /\ k.media = m /\ k.failed = FALSE
    BY JobIs DEF Fields, Job, Whole
  <2>2. x \in Fields("mark", NoRow, NoRow, 0, "deleted", m, p, FALSE)
    BY <2>1, JobFields
  <2>3. /\ Whole(x) /\ x.do = "mark" /\ x.item = NoRow /\ x.base = NoRow /\ x.rev = 0
        /\ x.to = "deleted" /\ x.media = m
    BY <2>2 DEF Fields, Whole
  <2>4. JobOK(x) /\ ~Creates(x) /\ ~Edits(x)
    BY <1>2, <2>3 DEF JobOK, Creates, Edits
  <2>5. Does(w, x)
    BY <1>2 DEF Discards
  <2> HIDE DEF x
  <2> QED  BY <1>2, <2>3, <2>4, <2>5
<1> QED  BY <1>1, <1>2

(* An idle handler works on no item.                                        *)
LEMMA IdleIsFree == JobOK(NoJob) /\ ~Creates(NoJob) /\ ~Edits(NoJob)
BY DEF JobOK, NoJob, Creates, Edits

LEMMA BeginCreateStep ==
  ASSUME ItemInv, NEW w \in Writer, BeginCreate(w)
  PROVE  ItemInv'
<1>1. PICK i \in Item \ known, to \in States : WithImage(w, i, NoRow, 0, to)
  BY DEF BeginCreate
<1>2. PICK d \in {"put", "commit"}, m \in Media \cup {NoMedia} :
        /\ Does(w, Job(d, i, NoRow, 0, to, m)) /\ known \cup {i} \subseteq known'
        /\ d = "put" => m \in Media
  BY <1>1 DEF WithImage
<1> DEFINE x == Job(d, i, NoRow, 0, to, m)
<1>3. x \in Fields(d, i, NoRow, 0, to, m, Planned, FALSE)
  BY JobIs
<1>4. /\ Whole(x) /\ x.do = d /\ x.item = i /\ x.base = NoRow /\ x.rev = 0 /\ x.to = to
      /\ x.media = m
  BY <1>3 DEF Fields, Whole
<1>5. JobOK(x) /\ Creates(x) /\ x.item \notin known /\ x.item \in known'
  BY <1>2, <1>4 DEF JobOK, Creates, States
<1>6. UNCHANGED <<items, stamps>>
  BY DEF BeginCreate, pubRows
<1> HIDE DEF x
<1> QED  BY <1>2, <1>5, <1>6, Draws DEF x

LEMMA BeginUpdateStep ==
  ASSUME ItemInv, NEW w \in Writer, BeginUpdate(w)
  PROVE  ItemInv'
<1>1. PICK i \in Item, to \in States :
        Required(i) /\ \E rev \in 1..items[i].rev : WithImage(w, i, items[i], rev, to)
  BY DEF BeginUpdate
<1>2. PICK rev \in 1..items[i].rev : WithImage(w, i, items[i], rev, to)
  BY <1>1
<1>3. PICK d \in {"put", "commit"}, m \in Media \cup {NoMedia} :
        /\ Does(w, Job(d, i, items[i], rev, to, m)) /\ known \subseteq known'
        /\ d = "put" => m \in Media
  BY <1>2 DEF WithImage
<1> DEFINE x == Job(d, i, items[i], rev, to, m)
<1>4. x \in Fields(d, i, items[i], rev, to, m, Planned, FALSE)
  BY JobIs
<1>5. /\ Whole(x) /\ x.do = d /\ x.item = i /\ x.base = items[i] /\ x.rev = rev
      /\ x.to = to /\ x.media = m
  BY <1>4 DEF Fields, Whole
<1>6. items[i] \in ItemRow /\ items[i] # NoRow /\ items[i].state # "deleted"
  BY <1>1 DEF Required, Alive, ItemInv
<1>7. items[i].rev \in Nat /\ rev \in Nat /\ rev <= items[i].rev
  BY <1>6 DEF ItemRow
<1>8. JobOK(x) /\ Edits(x) /\ x.base = items[x.item] /\ x.base.state # "deleted"
      /\ x.rev <= x.base.rev
  BY <1>3, <1>5, <1>6, <1>7 DEF JobOK, Edits, States
<1>9. UNCHANGED <<items, stamps>>
  BY DEF BeginUpdate, pubRows
<1> HIDE DEF x
<1> QED  BY <1>3, <1>8, <1>9, TakesUp DEF x

LEMMA BeginDeleteStep ==
  ASSUME ItemInv, NEW w \in Writer, BeginDelete(w)
  PROVE  ItemInv'
<1>1. PICK i \in Item :
        Required(i) /\ \E rev \in 1..items[i].rev :
          Does(w, Job("bury", i, items[i], rev, "deleted", NoMedia))
  BY DEF BeginDelete
<1>2. PICK rev \in 1..items[i].rev :
        Does(w, Job("bury", i, items[i], rev, "deleted", NoMedia))
  BY <1>1
<1> DEFINE x == Job("bury", i, items[i], rev, "deleted", NoMedia)
<1>4. x \in Fields("bury", i, items[i], rev, "deleted", NoMedia, Planned, FALSE)
  BY JobIs
<1>5. /\ Whole(x) /\ x.do = "bury" /\ x.item = i /\ x.base = items[i] /\ x.rev = rev
      /\ x.to = "deleted" /\ x.media = NoMedia
  BY <1>4 DEF Fields, Whole
<1>6. items[i] \in ItemRow /\ items[i] # NoRow /\ items[i].state # "deleted"
  BY <1>1 DEF Required, Alive, ItemInv
<1>7. items[i].rev \in Nat /\ rev \in Nat /\ rev <= items[i].rev
  BY <1>6 DEF ItemRow
<1>8. JobOK(x) /\ Edits(x) /\ x.base = items[x.item] /\ x.base.state # "deleted"
      /\ x.rev <= x.base.rev
  BY <1>5, <1>6, <1>7 DEF JobOK, Edits
<1>9. UNCHANGED <<items, stamps>> /\ known \subseteq known'
  BY DEF BeginDelete, pubRows, pubHistory
<1> HIDE DEF x
<1> QED  BY <1>2, <1>8, <1>9, TakesUp DEF x

LEMMA BeginRetryStep ==
  ASSUME ItemInv, NEW w \in Writer, BeginRetry(w)
  PROVE  ItemInv'
<1>1. PICK m \in Media : Does(w, Job("erase", NoRow, NoRow, 0, "deleted", m))
  BY DEF BeginRetry
<1> DEFINE x == Job("erase", NoRow, NoRow, 0, "deleted", m)
<1>2. x \in Fields("erase", NoRow, NoRow, 0, "deleted", m, Planned, FALSE)
  BY JobIs
<1>3. /\ Whole(x) /\ x.do = "erase" /\ x.item = NoRow /\ x.base = NoRow /\ x.rev = 0
      /\ x.to = "deleted" /\ x.media = m
  BY <1>2 DEF Fields, Whole
<1>4. JobOK(x) /\ ~Creates(x) /\ ~Edits(x)
  BY <1>3 DEF JobOK, Creates, Edits
<1>5. UNCHANGED <<items, stamps>> /\ known \subseteq known'
  BY DEF BeginRetry, pubRows, pubHistory
<1> HIDE DEF x
<1> QED  BY <1>1, <1>4, <1>5, GoesOn DEF x

(* The steps that change what is left to do, and no row.                    *)
LEMMA GoingOnStep ==
  ASSUME ItemInv, NEW w \in Writer,
         \/ PutPart(w) \/ SaveMedia(w) \/ PutFails(w) \/ MarkPending(w) \/ ErasePart(w)
  PROVE  ItemInv'
<1> DEFINE j == job[w]
<1>1. UNCHANGED <<items, stamps>> /\ known \subseteq known' /\ JobOK(j) /\ j # NoJob
  BY DEF PutPart, SaveMedia, PutFails, MarkPending, ErasePart, pubRows, pubHistory,
         ItemInv, NoJob
<1>2. Whole(j)
  BY <1>1 DEF JobOK
<1>3. \E d, s, f :
        \E x \in Fields(d, j.item, j.base, j.rev, j.to, j.media, s, f) :
          /\ Does(w, x)
          /\ \/ d = j.do
             \/ j.do = "put" /\ d \in {"commit", "unput"}
             \/ j.do = "mark" /\ d = "erase"
  <2>1. CASE PutPart(w)
    <3>1. [j EXCEPT !.parts = Tail(@)]
            \in Fields(j.do, j.item, j.base, j.rev, j.to, j.media, Tail(j.parts), j.failed)
      BY <1>2 DEF Whole, Fields
    <3> QED  BY <2>1, <3>1 DEF PutPart
  <2>2. CASE SaveMedia(w)
    <3>1. [j EXCEPT !.do = "commit"]
            \in Fields("commit", j.item, j.base, j.rev, j.to, j.media, j.parts, j.failed)
      BY <1>2, JobFields
    <3> QED  BY <2>2, <3>1 DEF SaveMedia, Goes
  <2>3. CASE PutFails(w)
    <3> DEFINE s == SubSeq(Planned, 1, Len(Planned) - Len(j.parts))
    <3>1. [j EXCEPT !.do = "unput", !.parts = s]
            \in Fields("unput", j.item, j.base, j.rev, j.to, j.media, s, j.failed)
      BY <1>2, JobFields
    <3>2. Does(w, [j EXCEPT !.do = "unput", !.parts = s]) /\ j.do = "put"
      BY <2>3 DEF PutFails
    <3> HIDE DEF s
    <3> QED  BY <3>1, <3>2
  <2>4. CASE MarkPending(w)
    <3>1. [j EXCEPT !.do = "erase"]
            \in Fields("erase", j.item, j.base, j.rev, j.to, j.media, j.parts, j.failed)
      BY <1>2, JobFields
    <3> QED  BY <2>4, <3>1 DEF MarkPending, Goes
  <2>5. CASE ErasePart(w)
    <3>1. [j EXCEPT !.parts = Tail(@)]
            \in Fields(j.do, j.item, j.base, j.rev, j.to, j.media, Tail(j.parts), j.failed)
      BY <1>2 DEF Whole, Fields
    <3>2. [j EXCEPT !.parts = Tail(@), !.failed = TRUE]
            \in Fields(j.do, j.item, j.base, j.rev, j.to, j.media, Tail(j.parts), TRUE)
      BY <1>2 DEF Whole, Fields
    <3>3. \/ Does(w, [j EXCEPT !.parts = Tail(@)])
          \/ Does(w, [j EXCEPT !.parts = Tail(@), !.failed = TRUE])
      BY <2>5 DEF ErasePart
    <3> QED  BY <3>1, <3>2, <3>3
  <2> QED  BY <2>1, <2>2, <2>3, <2>4, <2>5
<1>4. PICK d, s, f, x :
        /\ x \in Fields(d, j.item, j.base, j.rev, j.to, j.media, s, f)
        /\ Does(w, x)
        /\ \/ d = j.do
           \/ j.do = "put" /\ d \in {"commit", "unput"}
           \/ j.do = "mark" /\ d = "erase"
  BY <1>3
<1>5. /\ Whole(x) /\ x.do = d /\ x.item = j.item /\ x.base = j.base /\ x.rev = j.rev
      /\ x.to = j.to /\ x.media = j.media
  BY <1>4 DEF Fields, Whole
<1>6. JobOK(x)
  BY <1>1, <1>4, <1>5 DEF JobOK
<1>7. /\ Creates(x) => Creates(j) /\ x.item = j.item
      /\ Edits(x) => Edits(j) /\ x.item = j.item /\ x.base = j.base /\ x.rev = j.rev
  BY <1>4, <1>5 DEF Creates, Edits
<1> QED  BY <1>1, <1>4, <1>6, <1>7, GoesOn

(* The steps that end a handler's work on an item and change no row.        *)
LEMMA LettingGoStep ==
  ASSUME ItemInv, NEW w \in Writer,
         CreateFails(w) \/ RefuseFields(w) \/ MarkDeleted(w) \/ PubDies(w)
  PROVE  ItemInv'
<1>1. UNCHANGED <<items, stamps>> /\ known \subseteq known'
  BY DEF CreateFails, RefuseFields, MarkDeleted, PubDies, pubRows, pubHistory
<1>2. \E x : Does(w, x) /\ JobOK(x) /\ ~Creates(x) /\ ~Edits(x)
  <2>1. CASE CreateFails(w)
    <3>1. job[w].media \in Media \cup {NoMedia}
      BY <2>1 DEF CreateFails, ItemInv, JobOK, NoJob
    <3> QED  BY <2>1, <3>1, Discarding DEF CreateFails
  <2>2. CASE RefuseFields(w) \/ MarkDeleted(w) \/ PubDies(w)
    BY <2>2, IdleIsFree DEF RefuseFields, MarkDeleted, PubDies
  <2> QED  BY <2>1, <2>2
<1> QED  BY <1>1, <1>2, GoesOn

\* What PublishedOnce says of one step.
KeepsPublished ==
    \A i \in Item : items[i] # NoRow =>
        /\ items'[i] # NoRow /\ items'[i].rev >= items[i].rev
        /\ items[i].published # 0 => items'[i].published = items[i].published
        /\ items[i].state = "deleted" => items'[i] = items[i]

(* A step that writes no row moves no publication time.                     *)
LEMMA RowsRest ==
  ASSUME ItemInv, UNCHANGED items
  PROVE  KeepsPublished
BY DEF KeepsPublished, ItemInv, ItemRow

(* A new row where there was none.                                          *)
LEMMA FirstRow ==
  ASSUME ItemInv, NEW w \in Writer, NEW r \in ItemRow, Creates(job[w]),
         items' = [items EXCEPT ![job[w].item] = r]
  PROVE  KeepsPublished
<1>1. job[w].item \in Item /\ items[job[w].item] = NoRow
  BY DEF ItemInv, JobOK, NoJob, Creates
<1>2. \A k \in Item : items[k] # NoRow => items'[k] = items[k]
  BY <1>1 DEF ItemInv
<1> QED  BY <1>2 DEF KeepsPublished, ItemInv, ItemRow

(* The row that an edit read has the item's revision only if it is the      *)
(* item's row.                                                              *)
LEMMA ReadsTheRow ==
  ASSUME ItemInv, NEW w \in Writer, Edits(job[w]), SameRev(job[w].item, job[w].rev)
  PROVE  /\ job[w].item \in Item /\ job[w].base \in ItemRow
         /\ items[job[w].item] = job[w].base /\ job[w].rev = job[w].base.rev
         /\ job[w].base.state # "deleted" /\ job[w].rev \in Nat
<1>1. /\ job[w].item \in Item /\ job[w].base \in ItemRow /\ job[w].rev \in Nat
      /\ Read(job[w], items[job[w].item])
  BY DEF ItemInv, JobOK, NoJob, Edits
<1>2. items[job[w].item] \in ItemRow
  BY <1>1 DEF ItemInv, Read
<1>3. items[job[w].item].rev \in Nat /\ job[w].base.rev \in Nat
  BY <1>1, <1>2 DEF ItemRow
<1>4. job[w].base.rev = items[job[w].item].rev
  BY <1>1, <1>3 DEF Read, SameRev
<1> QED  BY <1>1, <1>4 DEF Read, SameRev

(* The next version of the row that an edit read.                           *)
LEMMA NextRow ==
  ASSUME ItemInv, NEW w \in Writer, Edits(job[w]), SameRev(job[w].item, job[w].rev),
         NEW r \in ItemRow, r.rev = job[w].rev + 1,
         job[w].base.published # 0 => r.published = job[w].base.published,
         items' = [items EXCEPT ![job[w].item] = r]
  PROVE  KeepsPublished /\ r.rev > items[job[w].item].rev
<1> DEFINE i == job[w].item
<1>1. /\ i \in Item /\ items[i] \in ItemRow /\ items[i] = job[w].base
      /\ job[w].rev = items[i].rev /\ items[i].state # "deleted" /\ items[i].rev \in Nat
  BY ReadsTheRow
<1>2. /\ items'[i] = r /\ r # NoRow
      /\ \A k \in Item : k # i => items'[k] = items[k]
  BY <1>1, PublishingBounds DEF ItemInv
<1>3. r.rev > items[i].rev
  BY <1>1
<1>4. ASSUME NEW k \in Item, items[k] # NoRow
      PROVE  /\ items'[k] # NoRow /\ items'[k].rev >= items[k].rev
             /\ items[k].published # 0 => items'[k].published = items[k].published
             /\ items[k].state = "deleted" => items'[k] = items[k]
  <2>1. CASE k = i  BY <1>1, <1>2, <1>3, <2>1
  <2>2. CASE k # i
    <3>1. items[k].rev \in Nat
      BY <1>4 DEF ItemInv, ItemRow
    <3> QED  BY <1>2, <1>4, <2>2, <3>1
  <2> QED  BY <2>1, <2>2
<1> QED  BY <1>3, <1>4 DEF KeepsPublished

LEMMA PublishedIsTime ==
  ASSUME stamps \in Nat, NEW b \in ItemRow \cup {NoRow}, NEW to
  PROVE  /\ Published(b, to) \in Nat
         /\ b # NoRow /\ b.published # 0 => Published(b, to) = b.published
BY DEF Published, ItemRow

LEMMA RowIs ==
  ASSUME NEW photo \in BOOLEAN, NEW st \in {"draft", "public", "deleted"},
         NEW m \in Media \cup {NoMedia}, NEW rev \in Nat, NEW at \in Nat
  PROVE  /\ Row(photo, st, m, rev, at) \in ItemRow
         /\ Row(photo, st, m, rev, at).rev = rev
         /\ Row(photo, st, m, rev, at).published = at
BY DEF Row, ItemRow

LEMMA SaveDraftStep ==
  ASSUME ItemInv, NEW w \in Writer, SaveDraft(w)
  PROVE  ItemInv' /\ KeepsPublished
<1>1. Does(w, NoJob) /\ UNCHANGED <<stamps, known>> /\ stamps \in Nat
  BY DEF SaveDraft, ItemInv
<1>2. CASE job[w].base = NoRow
  <2> DEFINE r == Row(TRUE, "draft", NoMedia, 1, 0)
  <2>1. r \in ItemRow
    BY RowIs
  <2>2. Creates(job[w]) /\ items' = [items EXCEPT ![job[w].item] = r]
    BY <1>2 DEF SaveDraft, Creates
  <2> HIDE DEF r
  <2> QED  BY <1>1, <2>1, <2>2, IdleIsFree, Lands, FirstRow
<1>3. CASE job[w].base # NoRow
  <2>1. UNCHANGED items
    BY <1>3 DEF SaveDraft
  <2> QED  BY <1>1, <2>1, IdleIsFree, GoesOn, RowsRest
<1> QED  BY <1>2, <1>3

LEMMA CommitCreateStep ==
  ASSUME ItemInv, NEW w \in Writer, CommitCreate(w)
  PROVE  ItemInv' /\ KeepsPublished
<1> DEFINE j == job[w]
           at == Published(NoRow, j.to)
           r == Row(j.media # NoMedia, j.to, j.media, 1, at)
<1>1. Does(w, NoJob) /\ UNCHANGED known /\ stamps \in Nat /\ Creates(j)
  BY DEF CommitCreate, ItemInv, Creates
<1>2. at \in Nat
  BY <1>1, PublishedIsTime
<1>3. items' = [items EXCEPT ![j.item] = r] /\ stamps' \in Nat
  BY <1>1, <1>2 DEF CommitCreate
<1>4. r \in ItemRow
  <2>1. j.media \in Media \cup {NoMedia} /\ j.to \in {"draft", "public", "deleted"}
    BY <1>1 DEF ItemInv, JobOK, NoJob, Creates
  <2> HIDE DEF at
  <2> QED  BY <1>2, <2>1, RowIs
<1> HIDE DEF r
<1> QED  BY <1>1, <1>3, <1>4, IdleIsFree, Lands, FirstRow

LEMMA CommitUpdateStep ==
  ASSUME ItemInv, NEW w \in Writer, CommitUpdate(w)
  PROVE  ItemInv' /\ KeepsPublished
<1> DEFINE j == job[w]
           m == IF j.media = NoMedia THEN j.base.media ELSE j.media
           at == Published(j.base, j.to)
           r == Row(j.base.photo, j.to, m, j.rev + 1, at)
<1>1. UNCHANGED known /\ stamps \in Nat /\ Edits(j)
  BY DEF CommitUpdate, ItemInv, Edits
<1>2. /\ j.media \in Media \cup {NoMedia} /\ j.to \in {"draft", "public", "deleted"}
      /\ j.base \in ItemRow /\ j.rev \in Nat
  BY <1>1 DEF ItemInv, JobOK, NoJob, Edits
<1>3. CASE SameRev(j.item, j.rev)
  <2>1. /\ at \in Nat /\ j.base # NoRow
        /\ j.base.published # 0 => at = j.base.published
    BY <1>1, <1>2, PublishedIsTime DEF Edits
  <2>2. j.base.photo \in BOOLEAN /\ j.base.media \in Media \cup {NoMedia}
    BY <1>2 DEF ItemRow
  <2>3. /\ items' = [items EXCEPT ![j.item] = r] /\ stamps' \in Nat
        /\ Discards(w, Superseded(j), Planned)
    BY <1>1, <1>3, <2>1 DEF CommitUpdate
  <2>4. r \in ItemRow /\ r.rev = j.rev + 1 /\ r.published = at
    <3>1. m \in Media \cup {NoMedia} /\ j.rev + 1 \in Nat
      BY <1>2, <2>2
    <3> HIDE DEF m, at
    <3> QED  BY <1>2, <2>1, <2>2, <3>1 DEF Row, ItemRow
  <2>5. Superseded(j) \in Media \cup {NoMedia}
    BY <2>2 DEF Superseded
  <2>6. PICK x : Does(w, x) /\ JobOK(x) /\ ~Creates(x) /\ ~Edits(x)
    BY <2>3, <2>5, Discarding
  <2> HIDE DEF r, at
  <2>7. KeepsPublished /\ r.rev > items[j.item].rev
    BY <1>1, <1>3, <2>1, <2>3, <2>4, NextRow
  <2> QED  BY <1>1, <2>3, <2>4, <2>6, <2>7, Lands
<1>4. CASE ~SameRev(j.item, j.rev)
  <2>1. UNCHANGED <<items, stamps>> /\ Discards(w, j.media, Planned)
    BY <1>4 DEF CommitUpdate
  <2>2. PICK x : Does(w, x) /\ JobOK(x) /\ ~Creates(x) /\ ~Edits(x)
    BY <1>2, <2>1, Discarding
  <2> QED  BY <1>1, <2>1, <2>2, GoesOn, RowsRest
<1> QED  BY <1>3, <1>4

LEMMA CommitDeleteStep ==
  ASSUME ItemInv, NEW w \in Writer, CommitDelete(w)
  PROVE  ItemInv' /\ KeepsPublished
<1> DEFINE j == job[w]
           r == Row(j.base.photo, "deleted", j.base.media, j.rev + 1, j.base.published)
<1>1. UNCHANGED <<known, stamps>> /\ stamps \in Nat /\ Edits(j)
  BY DEF CommitDelete, ItemInv, Edits, JobOK, NoJob, pubHistory
<1>2. j.base \in ItemRow /\ j.rev \in Nat
  BY <1>1 DEF ItemInv, JobOK, NoJob, Edits
<1>3. CASE SameRev(j.item, j.rev)
  <2>1. /\ j.base.photo \in BOOLEAN /\ j.base.media \in Media \cup {NoMedia}
        /\ j.base.published \in Nat /\ j.rev + 1 \in Nat
    BY <1>2 DEF ItemRow
  <2>2. items' = [items EXCEPT ![j.item] = r] /\ Discards(w, j.base.media, Planned)
    BY <1>3 DEF CommitDelete
  <2>3. r \in ItemRow /\ r.rev = j.rev + 1 /\ r.published = j.base.published
    BY <2>1 DEF Row, ItemRow
  <2>4. PICK x : Does(w, x) /\ JobOK(x) /\ ~Creates(x) /\ ~Edits(x)
    BY <2>1, <2>2, Discarding
  <2> HIDE DEF r
  <2>5. KeepsPublished /\ r.rev > items[j.item].rev
    BY <1>1, <1>3, <2>2, <2>3, NextRow
  <2> QED  BY <1>1, <2>2, <2>3, <2>4, <2>5, Lands
<1>4. CASE ~SameRev(j.item, j.rev)
  <2>1. UNCHANGED <<items, stamps>> /\ Does(w, NoJob)
    BY <1>1, <1>4 DEF CommitDelete
  <2> QED  BY <1>1, <2>1, IdleIsFree, GoesOn, RowsRest
<1> QED  BY <1>3, <1>4

LEMMA ItemStep ==
  ASSUME ItemInv, [PubNext]_pubVars
  PROVE  ItemInv' /\ KeepsPublished
<1>1. CASE LookUp \/ Serve \/ UNCHANGED pubVars
  <2>1. UNCHANGED <<items, stamps, job, known>>
    BY <1>1 DEF LookUp, Serve, pubVars, pubRows, pubHistory
  <2>2. ItemInv'
    BY <2>1 DEF ItemInv
  <2> QED  BY <2>1, <2>2, RowsRest
<1>2. ASSUME NEW w \in Writer,
             \/ BeginCreate(w) \/ BeginUpdate(w) \/ PutPart(w) \/ SaveMedia(w)
             \/ PutFails(w) \/ CreateFails(w) \/ RefuseFields(w) \/ BeginDelete(w)
             \/ MarkPending(w) \/ ErasePart(w) \/ MarkDeleted(w) \/ BeginRetry(w)
             \/ PubDies(w)
      PROVE  ItemInv' /\ KeepsPublished
  <2>1. UNCHANGED items
    BY <1>2 DEF BeginCreate, BeginUpdate, PutPart, SaveMedia, PutFails, CreateFails,
       RefuseFields, BeginDelete, MarkPending, ErasePart, MarkDeleted, BeginRetry, PubDies,
       pubRows
  <2>2. ItemInv'
    BY <1>2, BeginCreateStep, BeginUpdateStep, BeginDeleteStep, BeginRetryStep,
       GoingOnStep, LettingGoStep
  <2> QED  BY <2>1, <2>2, RowsRest
<1>3. ASSUME NEW w \in Writer,
             SaveDraft(w) \/ CommitCreate(w) \/ CommitUpdate(w) \/ CommitDelete(w)
      PROVE  ItemInv' /\ KeepsPublished
  BY <1>3, SaveDraftStep, CommitCreateStep, CommitUpdateStep, CommitDeleteStep
<1> QED  BY <1>1, <1>2, <1>3 DEF PubNext

(* An item keeps its publication time and a tombstone its row, for any      *)
(* number of items and editors, however old their forms are and whatever    *)
(* fails: the compare-and-set only lets in who has read the row as it is.   *)
THEOREM PublicationSticks == PubSpec => PublishedOnce
<1>1. PubInit => ItemInv
  BY PubStart
<1>2. ItemInv /\ [PubNext]_pubVars => ItemInv' /\ [KeepsPublished]_pubVars
  BY ItemStep
<1> QED  BY <1>1, <1>2, PTL DEF PubSpec, PublishedOnce, KeepsPublished

----------------------------------------------------------------------------
\* Images.  A handler that brings an image is the only one to know it until
\* its item shows it, and nobody discards an image that a live item shows.

Brings(j) == j.do \in {"put", "unput", "commit"} /\ j.media # NoMedia
Drops(j) == j.do \in {"mark", "erase"}

AllThere(m) == \A p \in Part : <<m, p>> \in stored

\* What a handler that brings an image has achieved so far.
Holds(j) ==
    /\ j.do \in {"put", "unput"} => status[j.media] = "none"
    /\ j.do = "put" => \/ j.parts = Planned
                       \/ j.parts = <<"small">> /\ <<j.media, "full">> \in stored
                       \/ j.parts = <<>> /\ AllThere(j.media)
    /\ j.do = "commit" => status[j.media] = "ready" /\ AllThere(j.media)

ImageStatus == {"none", "ready", "missing", "cleanup-pending", "deleted"}

RowsOfImages ==
    /\ status \in [Media -> ImageStatus]
    /\ \A m \in Media : status[m] # "none" => m \in known
    /\ reading # NoMedia => reading \in Media /\ status[reading] # "none"

ItemsOfImages ==
    /\ \A i \in Item : items[i] # NoRow /\ items[i].media # NoMedia =>
          items[i].media \in known
    /\ \A i, k \in Item :
          (/\ items[i] # NoRow /\ items[k] # NoRow
           /\ items[i].media = items[k].media /\ items[i].media # NoMedia) => i = k
    /\ \A i \in Item : Alive(i) /\ items[i].media # NoMedia =>
          status[items[i].media] = "ready" /\ AllThere(items[i].media)

JobsOfImages ==
    /\ \A w \in Writer : Brings(job[w]) =>
          /\ job[w].media \in known /\ Holds(job[w])
          /\ \A i \in Item : items[i] # NoRow => items[i].media # job[w].media
    /\ \A w \in Writer : Drops(job[w]) =>
          job[w].media \in known /\ ~Shown(job[w].media)
    /\ \A v, w \in Writer :
          v # w /\ Brings(job[v]) /\ (Brings(job[w]) \/ Drops(job[w])) =>
             job[v].media # job[w].media

ImageInv == RowsOfImages /\ ItemsOfImages /\ JobsOfImages

\* Nothing happens to the row or the objects of this image.
Spared(m) ==
    /\ status'[m] = status[m]
    /\ \A p \in Part : <<m, p>> \in stored' <=> <<m, p>> \in stored

\* What a handler holds after a step.
HoldsThen(j) ==
    /\ j.do \in {"put", "unput"} => status'[j.media] = "none"
    /\ j.do = "put" =>
          \/ j.parts = Planned
          \/ j.parts = <<"small">> /\ <<j.media, "full">> \in stored'
          \/ j.parts = <<>> /\ \A p \in Part : <<j.media, p>> \in stored'
    /\ j.do = "commit" =>
          status'[j.media] = "ready" /\ \A p \in Part : <<j.media, p>> \in stored'

(* What a handler holds survives when its image is spared.                  *)
LEMMA SparedIsHeld ==
  ASSUME NEW j, Spared(j.media)
  PROVE  /\ AllThere(j.media) => AllThere(j.media)'
         /\ Holds(j) => HoldsThen(j)
BY DEF Spared, AllThere, Holds, HoldsThen, Part

LEMMA ImagesStart == PubInit => ImageInv
BY PublishingBounds DEF PubInit, ImageInv, RowsOfImages, ItemsOfImages, JobsOfImages,
   ImageStatus, Brings, Drops, NoJob, Alive

(* A handler goes on to x while no item changes, and touches no image that  *)
(* a live item shows or another handler brings.                             *)
LEMMA TurnsTo ==
  ASSUME ItemInv, ImageInv, NEW w \in Writer, NEW x, Does(w, x), UNCHANGED <<items, reading>>,
         known \subseteq known', status' \in [Media -> ImageStatus],
         \A m \in Media : status'[m] # "none" => m \in known',
         \A m \in Media : status[m] # "none" => status'[m] # "none",
         \A m \in Media :
            \/ Spared(m)
            \/ /\ ~Shown(m)
               /\ \A v \in Writer : v # w /\ Brings(job[v]) => job[v].media # m,
         Brings(x) => /\ x.media \in known' /\ HoldsThen(x)
                      /\ \A i \in Item : items[i] # NoRow => items[i].media # x.media
                      /\ \A v \in Writer : v # w /\ (Brings(job[v]) \/ Drops(job[v])) =>
                            job[v].media # x.media,
         Drops(x) => /\ x.media \in known /\ ~Shown(x.media)
                     /\ \A v \in Writer : v # w /\ Brings(job[v]) => job[v].media # x.media
  PROVE  ImageInv'
<1>1. \A v \in Writer : job'[v] = IF v = w THEN x ELSE job[v]
  BY DoesOne DEF ItemInv
<1>2. RowsOfImages'
  BY DEF ImageInv, RowsOfImages
<1>3. ItemsOfImages'
  <2>1. ASSUME NEW i \in Item, Alive(i), items[i].media # NoMedia
        PROVE  status'[items[i].media] = "ready" /\ AllThere(items[i].media)'
    <3>1. items[i].media \in Media
      BY <2>1 DEF Alive, ItemInv, ItemRow
    <3>2. Spared(items[i].media)
      BY <2>1, <3>1 DEF Shown
    <3> QED  BY <2>1, <3>2 DEF Spared, AllThere, ImageInv, ItemsOfImages
  <2> QED  BY <2>1 DEF ImageInv, ItemsOfImages, Alive
<1>4. JobsOfImages'
  <2>1. ASSUME NEW v \in Writer, v # w, Brings(job[v])
        PROVE  HoldsThen(job[v])
    <3>1. job[v].media \in Media
      BY <2>1 DEF ItemInv, JobOK, NoJob, Brings
    <3>2. Spared(job[v].media) /\ Holds(job[v])
      BY <2>1, <3>1 DEF ImageInv, JobsOfImages
    <3> QED  BY <3>2, SparedIsHeld
  <2>2. ASSUME NEW v \in Writer, Brings(job'[v])
        PROVE  /\ job'[v].media \in known' /\ HoldsThen(job'[v])
               /\ \A i \in Item : items'[i] # NoRow => items'[i].media # job'[v].media
    <3>1. CASE v = w
      <4>1. job'[v] = x /\ Brings(x)
        BY <1>1, <2>2, <3>1
      <4> QED  BY <4>1
    <3>2. CASE v # w
      <4>1. job'[v] = job[v]
        BY <1>1, <3>2
      <4> QED  BY <2>1, <2>2, <3>2, <4>1 DEF ImageInv, JobsOfImages
    <3> QED  BY <3>1, <3>2
  <2>3. \A m : Shown(m)' <=> Shown(m)
    BY DEF Shown, Alive
  <2>4. \A v \in Writer : Drops(job'[v]) => job'[v].media \in known' /\ ~Shown(job'[v].media)
    BY <1>1 DEF ImageInv, JobsOfImages
  <2>5. \A u, v \in Writer :
          u # v /\ Brings(job'[u]) /\ (Brings(job'[v]) \/ Drops(job'[v])) =>
             job'[u].media # job'[v].media
    BY <1>1 DEF ImageInv, JobsOfImages
  <2>6. \A v \in Writer : (Brings(job[v])' <=> Brings(job'[v])) /\ (Drops(job[v])' <=> Drops(job'[v]))
    BY DEF Brings, Drops
  <2>7. \A v \in Writer : Shown(job[v].media)' <=> Shown(job'[v].media)
    BY DEF Shown, Alive
  <2>8. \A v \in Writer : Holds(job[v])' <=> HoldsThen(job'[v])
    BY DEF Holds, HoldsThen, AllThere
  <2> QED  BY <2>2, <2>4, <2>5, <2>6, <2>7, <2>8 DEF JobsOfImages
<1> QED  BY <1>2, <1>3, <1>4 DEF ImageInv

(* A handler writes the row of its item: with no image, with the one that   *)
(* the item had, or with the one that the handler brings.                   *)
LEMMA WritesRow ==
  ASSUME ItemInv, ImageInv, NEW w \in Writer, NEW x, Does(w, x), NEW i \in Item,
         NEW r \in ItemRow, items' = [items EXCEPT ![i] = r],
         UNCHANGED <<status, stored, reading, known>>,
         \/ r.media = NoMedia
         \/ /\ items[i] # NoRow /\ r.media = items[i].media
            /\ r.state # "deleted" => Alive(i)
         \/ Brings(job[w]) /\ job[w].do = "commit" /\ r.media = job[w].media,
         ~Brings(x),
         Drops(x) => /\ x.media \in known /\ ~Shown(x.media)'
                     /\ \A v \in Writer : v # w /\ Brings(job[v]) => job[v].media # x.media
  PROVE  ImageInv'
<1>1. \A v \in Writer : job'[v] = IF v = w THEN x ELSE job[v]
  BY DoesOne DEF ItemInv
<1>2. /\ items'[i] = r /\ r # NoRow
      /\ \A k \in Item : k # i => items'[k] = items[k]
  BY PublishingBounds DEF ItemInv
<1>3. r.media \in Media \cup {NoMedia}
  BY DEF ItemRow
<1>4. RowsOfImages'
  BY DEF ImageInv, RowsOfImages
<1>5. r.media # NoMedia => r.media \in known
  BY DEF ImageInv, ItemsOfImages, JobsOfImages
<1>6. ASSUME NEW k \in Item, k # i, items[k] # NoRow, r.media # NoMedia
      PROVE  items[k].media # r.media
  BY <1>6 DEF ImageInv, ItemsOfImages, JobsOfImages
<1>7. ASSUME r.state # "deleted", r.media # NoMedia
      PROVE  status[r.media] = "ready" /\ AllThere(r.media)
  BY <1>7 DEF ImageInv, ItemsOfImages, JobsOfImages, Holds
<1>8. ItemsOfImages'
  <2>1. ASSUME NEW k \in Item, items'[k] # NoRow, items'[k].media # NoMedia
        PROVE  items'[k].media \in known'
    BY <1>2, <1>5, <2>1 DEF ImageInv, ItemsOfImages
  <2>2. ASSUME NEW k \in Item, NEW l \in Item, items'[k] # NoRow, items'[l] # NoRow,
               items'[k].media = items'[l].media, items'[k].media # NoMedia
        PROVE  k = l
    <3>1. CASE k = i \/ l = i
      BY <1>2, <1>6, <2>2, <3>1
    <3>2. CASE k # i /\ l # i
      BY <1>2, <2>2, <3>2 DEF ImageInv, ItemsOfImages
    <3> QED  BY <3>1, <3>2
  <2>3. ASSUME NEW k \in Item, items'[k] # NoRow, items'[k].state # "deleted",
               items'[k].media # NoMedia
        PROVE  status'[items'[k].media] = "ready"
               /\ \A p \in Part : <<items'[k].media, p>> \in stored'
    <3>1. CASE k = i
      BY <1>2, <1>7, <2>3, <3>1 DEF AllThere
    <3>2. CASE k # i
      BY <1>2, <2>3, <3>2 DEF ImageInv, ItemsOfImages, Alive, AllThere
    <3> QED  BY <3>1, <3>2
  <2> QED  BY <2>1, <2>2, <2>3 DEF ItemsOfImages, Alive, AllThere
<1>9. ASSUME NEW v \in Writer, v # w, Brings(job[v])
      PROVE  job[v].media # r.media
  BY <1>9 DEF ImageInv, JobsOfImages, Brings
<1>10. ASSUME NEW v \in Writer, v # w, Drops(job[v])
       PROVE  r.state = "deleted" \/ job[v].media # r.media
  <2>1. job[v].media \in Media
    BY <1>10 DEF ItemInv, JobOK, NoJob, Drops
  <2>2. ~Shown(job[v].media)
    BY <1>10 DEF ImageInv, JobsOfImages
  <2>3. CASE r.media = NoMedia
    BY <2>1, <2>3, PublishingBounds
  <2>4. CASE items[i] # NoRow /\ r.media = items[i].media
             /\ (r.state # "deleted" => Alive(i))
    BY <2>2, <2>4 DEF Shown
  <2>5. CASE Brings(job[w]) /\ r.media = job[w].media
    BY <1>10, <2>5 DEF ImageInv, JobsOfImages
  <2> QED  BY <2>3, <2>4, <2>5
<1>11. JobsOfImages'
  <2> DEFINE HiddenThen(m) == \A k \in Item :
                items'[k] # NoRow /\ items'[k].state # "deleted" => items'[k].media # m
  <2>1. ASSUME NEW v \in Writer, Brings(job'[v])
        PROVE  /\ job'[v].media \in known' /\ Holds(job'[v])
               /\ \A k \in Item : items'[k] # NoRow => items'[k].media # job'[v].media
    <3>1. v # w /\ job'[v] = job[v]
      BY <1>1, <2>1
    <3> QED  BY <1>2, <1>9, <2>1, <3>1 DEF ImageInv, JobsOfImages
  <2>2. \A v \in Writer : Holds(job[v])' <=> Holds(job'[v])
    BY DEF Holds, AllThere
  <2>3. ASSUME NEW v \in Writer, Drops(job'[v])
        PROVE  job'[v].media \in known' /\ HiddenThen(job'[v].media)
    <3>1. CASE v = w
      <4>1. job'[v] = x
        BY <1>1, <3>1
      <4>2. HiddenThen(x.media)
        BY <2>3, <4>1 DEF Shown, Alive
      <4> QED  BY <2>3, <4>1, <4>2
    <3>2. CASE v # w
      <4>1. job'[v] = job[v]
        BY <1>1, <3>2
      <4>2. ~Shown(job[v].media) /\ job[v].media \in known
        BY <2>3, <4>1 DEF ImageInv, JobsOfImages
      <4>3. ~(r.state # "deleted" /\ r.media = job[v].media)
        BY <1>10, <2>3, <3>2, <4>1
      <4> QED  BY <1>2, <4>1, <4>2, <4>3 DEF Shown, Alive
    <3> QED  BY <3>1, <3>2
  <2>4. \A u, v \in Writer :
          u # v /\ Brings(job'[u]) /\ (Brings(job'[v]) \/ Drops(job'[v])) =>
             job'[u].media # job'[v].media
    BY <1>1 DEF ImageInv, JobsOfImages
  <2>5. \A v \in Writer : (Brings(job[v])' <=> Brings(job'[v])) /\ (Drops(job[v])' <=> Drops(job'[v]))
    BY DEF Brings, Drops
  <2>6. \A v \in Writer : Drops(job'[v]) => ~Shown(job[v].media)'
    BY <2>3 DEF Shown, Alive
  <2> QED  BY <2>1, <2>2, <2>3, <2>4, <2>5, <2>6 DEF JobsOfImages
<1> QED  BY <1>4, <1>8, <1>11 DEF ImageInv

(* A handler that touches no image and goes on with none.                   *)
LEMMA Leaves ==
  ASSUME ItemInv, ImageInv, NEW w \in Writer, NEW x, Does(w, x),
         UNCHANGED <<items, status, stored, reading>>, known \subseteq known',
         ~Brings(x), ~Drops(x)
  PROVE  ImageInv'
<1>1. \A m \in Media : Spared(m)
  BY DEF Spared
<1>2. status' \in [Media -> ImageStatus] /\ \A m \in Media : status'[m] # "none" => m \in known'
  BY DEF ImageInv, RowsOfImages
<1> QED  BY <1>1, <1>2, TurnsTo

(* A handler that turns to discarding the image it brings, if any.          *)
LEMMA GivesUp ==
  ASSUME ItemInv, ImageInv, NEW w \in Writer, NEW p, job[w].do = "commit",
         Discards(w, job[w].media, p),
         UNCHANGED <<items, status, stored, reading>>, known \subseteq known'
  PROVE  ImageInv'
<1>1. job[w].media \in Media \cup {NoMedia}
  BY DEF ItemInv, JobOK, NoJob
<1>2. PICK x : /\ Does(w, x)
               /\ x = NoJob \/ (x.do = "mark" /\ x.media = job[w].media /\ job[w].media # NoMedia)
  BY <1>1, Discarding
<1>3. CASE x = NoJob
  BY <1>2, <1>3, Leaves DEF NoJob, Brings, Drops
<1>4. CASE x.do = "mark" /\ x.media = job[w].media /\ job[w].media # NoMedia
  <2>1. Brings(job[w]) /\ ~Brings(x)
    BY <1>4 DEF Brings
  <2>2. /\ x.media \in known /\ ~Shown(x.media)
        /\ \A v \in Writer : v # w /\ Brings(job[v]) => job[v].media # x.media
    BY <1>4, <2>1 DEF ImageInv, JobsOfImages, Shown, Alive
  <2>3. \A m \in Media : Spared(m)
    BY DEF Spared
  <2>4. status' \in [Media -> ImageStatus] /\ \A m \in Media : status'[m] # "none" => m \in known'
    BY DEF ImageInv, RowsOfImages
  <2> QED  BY <1>2, <2>1, <2>2, <2>3, <2>4, TurnsTo
<1> QED  BY <1>2, <1>3, <1>4

LEMMA BeginsImage ==
  ASSUME ItemInv, ImageInv, NEW w \in Writer, NEW i, NEW b, NEW rev, NEW to,
         WithImage(w, i, b, rev, to), UNCHANGED <<items, status, stored, reading>>
  PROVE  ImageInv'
<1>1. CASE Does(w, Job("commit", i, b, rev, to, NoMedia)) /\ known' = known \cup {i}
  <2> DEFINE x == Job("commit", i, b, rev, to, NoMedia)
  <2>1. ~Brings(x) /\ ~Drops(x)
    BY DEF Brings, Drops, Job
  <2> HIDE DEF x
  <2> QED  BY <1>1, <2>1, Leaves DEF x
<1>2. ASSUME NEW m \in Media \ known, Does(w, Job("put", i, b, rev, to, m)),
             known' = known \cup {i, m}
      PROVE  ImageInv'
  <2> DEFINE x == Job("put", i, b, rev, to, m)
  <2>1. x.do = "put" /\ x.media = m /\ x.parts = Planned
    BY DEF Job
  <2>2. ~Drops(x) /\ x.media \in known'
    BY <1>2, <2>1 DEF Drops
  <2>3. status[m] = "none" /\ status' \in [Media -> ImageStatus]
        /\ \A n \in Media : status'[n] # "none" => n \in known'
    BY <1>2 DEF ImageInv, RowsOfImages
  <2>4. \A k \in Item : items[k] # NoRow => items[k].media # m
    BY <1>2, PublishingBounds DEF ImageInv, ItemsOfImages
  <2>5. \A v \in Writer : Brings(job[v]) \/ Drops(job[v]) => job[v].media # m
    BY <1>2 DEF ImageInv, JobsOfImages
  <2>6. \A n \in Media : Spared(n)
    BY DEF Spared
  <2> HIDE DEF x
  <2>7. HoldsThen(x)
    BY <2>1, <2>3 DEF HoldsThen
  <2> QED  BY <1>2, <2>1, <2>2, <2>3, <2>4, <2>5, <2>6, <2>7, TurnsTo DEF x
<1> QED  BY <1>1, <1>2 DEF WithImage

LEMMA RetryTurns ==
  ASSUME ItemInv, ImageInv, NEW w \in Writer, BeginRetry(w)
  PROVE  ImageInv'
<1>1. PICK m \in Media : /\ status[m] = "cleanup-pending"
                         /\ Does(w, Job("erase", NoRow, NoRow, 0, "deleted", m))
  BY DEF BeginRetry
<1> DEFINE x == Job("erase", NoRow, NoRow, 0, "deleted", m)
<1>2. x.do = "erase" /\ x.media = m /\ ~Brings(x)
  BY DEF Job, Brings
<1>3. m \in known /\ status \in [Media -> ImageStatus]
      /\ \A n \in Media : status[n] # "none" => n \in known
  BY <1>1 DEF ImageInv, RowsOfImages
<1>4. ~Shown(m)
  BY <1>1, PublishingBounds DEF Shown, ImageInv, ItemsOfImages
<1>5. \A v \in Writer : Brings(job[v]) => job[v].media # m
  BY <1>1 DEF ImageInv, JobsOfImages, Holds, Brings
<1>6. (\A n \in Media : Spared(n)) /\ UNCHANGED <<items, status, stored, reading, known>>
  BY DEF Spared, BeginRetry, pubRows, pubHistory
<1> HIDE DEF x
<1> QED  BY <1>1, <1>2, <1>3, <1>4, <1>5, <1>6, TurnsTo DEF x

(* The parts of an image, one after the other.                              *)
LEMMA PlannedParts ==
  /\ Head(Planned) = "full" /\ Tail(Planned) = <<"small">> /\ Planned # <<>>
  /\ Head(<<"small">>) = "small" /\ Tail(<<"small">>) = <<>> /\ <<"small">> # <<>>
BY DEF Planned

LEMMA PutPartTurns ==
  ASSUME ItemInv, ImageInv, NEW w \in Writer, PutPart(w)
  PROVE  ImageInv'
<1> DEFINE j == job[w]
           x == [j EXCEPT !.parts = Tail(j.parts)]
<1>1. /\ j.do = "put" /\ j.parts # <<>> /\ Does(w, x)
      /\ stored' = stored \cup {<<j.media, Head(j.parts)>>}
      /\ UNCHANGED <<items, status, reading, known>>
  BY DEF PutPart, pubRows, pubHistory
<1>2. Whole(j) /\ j.media \in Media
  BY <1>1 DEF ItemInv, JobOK, NoJob
<1>3. Brings(j)
  BY <1>1, <1>2, PublishingBounds DEF Brings
<1>4. x.do = "put" /\ x.media = j.media /\ x.parts = Tail(j.parts)
  BY <1>1, <1>2 DEF Whole, Fields
<1>5. /\ j.media \in known /\ Holds(j)
      /\ \A i \in Item : items[i] # NoRow => items[i].media # j.media
      /\ \A v \in Writer : v # w /\ (Brings(job[v]) \/ Drops(job[v])) =>
            job[v].media # j.media
  BY <1>3 DEF ImageInv, JobsOfImages
<1>6. \A m \in Media : m # j.media => Spared(m)
  BY <1>1 DEF Spared
<1>7. status' \in [Media -> ImageStatus] /\ \A m \in Media : status'[m] # "none" => m \in known'
  BY <1>1 DEF ImageInv, RowsOfImages
<1>8. /\ status'[x.media] = "none"
      /\ \/ x.parts = <<"small">> /\ <<x.media, "full">> \in stored'
         \/ x.parts = <<>> /\ \A p \in Part : <<x.media, p>> \in stored'
  <2> DEFINE s == j.parts
  <2>1. status[j.media] = "none" /\ status'[x.media] = "none"
    BY <1>1, <1>4, <1>5 DEF Holds
  <2>2. CASE s = Planned
    <3>1. Head(s) = "full" /\ x.parts = <<"small">>
      BY <1>4, <2>2, PlannedParts
    <3> QED  BY <1>1, <1>4, <2>1, <3>1
  <2>3. CASE s = <<"small">> /\ <<j.media, "full">> \in stored
    <3>1. Head(s) = "small" /\ x.parts = <<>>
      BY <1>4, <2>3, PlannedParts
    <3> QED  BY <1>1, <1>4, <2>1, <2>3, <3>1 DEF Part
  <2> QED  BY <1>1, <1>5, <2>2, <2>3 DEF Holds
<1>9. ~Drops(x) /\ ~Shown(j.media)
  BY <1>4, <1>5 DEF Drops, Shown, Alive
<1> HIDE DEF x
<1>10. HoldsThen(x)
  BY <1>4, <1>8 DEF HoldsThen
<1> QED  BY <1>1, <1>4, <1>5, <1>6, <1>7, <1>9, <1>10, TurnsTo

LEMMA SaveMediaTurns ==
  ASSUME ItemInv, ImageInv, NEW w \in Writer, SaveMedia(w)
  PROVE  ImageInv'
<1> DEFINE j == job[w]
           x == [j EXCEPT !.do = "commit"]
<1>1. /\ j.do = "put" /\ j.parts = <<>> /\ Does(w, x)
      /\ status' = [status EXCEPT ![j.media] = "ready"]
      /\ UNCHANGED <<items, stored, reading, known>>
  BY DEF SaveMedia, Goes, pubHistory
<1>2. Whole(j) /\ j.media \in Media
  BY <1>1 DEF ItemInv, JobOK, NoJob
<1>3. Brings(j)
  BY <1>1, <1>2, PublishingBounds DEF Brings
<1>4. x.do = "commit" /\ x.media = j.media
  BY <1>1, <1>2 DEF Whole, Fields
<1>5. /\ j.media \in known /\ Holds(j)
      /\ \A i \in Item : items[i] # NoRow => items[i].media # j.media
      /\ \A v \in Writer : v # w /\ (Brings(job[v]) \/ Drops(job[v])) =>
            job[v].media # j.media
  BY <1>3 DEF ImageInv, JobsOfImages
<1>6. /\ status' \in [Media -> ImageStatus] /\ status'[j.media] = "ready"
      /\ \A m \in Media : status'[m] # "none" => m \in known'
      /\ \A m \in Media : status[m] # "none" => status'[m] # "none"
      /\ \A m \in Media : m # j.media => status'[m] = status[m]
  BY <1>1, <1>2, <1>5 DEF ImageInv, RowsOfImages, ImageStatus
<1>7. \A m \in Media : m # j.media => Spared(m)
  BY <1>1, <1>6 DEF Spared
<1>8. \A p \in Part : <<x.media, p>> \in stored'
  BY <1>1, <1>4, <1>5 DEF Holds, Planned, AllThere
<1>9. ~Drops(x) /\ ~Shown(j.media)
  BY <1>4, <1>5 DEF Drops, Shown, Alive
<1> HIDE DEF x
<1>10. HoldsThen(x)
  BY <1>4, <1>6, <1>8 DEF HoldsThen
<1> QED  BY <1>1, <1>4, <1>5, <1>6, <1>7, <1>9, <1>10, TurnsTo

(* What a handler that brings an image has for itself.                      *)
LEMMA BroughtAlone ==
  ASSUME ItemInv, ImageInv, NEW w \in Writer, Brings(job[w])
  PROVE  /\ job[w].media \in Media /\ job[w].media \in known /\ Holds(job[w])
         /\ ~Shown(job[w].media)
         /\ \A i \in Item : items[i] # NoRow => items[i].media # job[w].media
         /\ \A v \in Writer : v # w /\ (Brings(job[v]) \/ Drops(job[v])) =>
               job[v].media # job[w].media
BY DEF ItemInv, JobOK, NoJob, ImageInv, JobsOfImages, Brings, Shown, Alive

(* What a handler that discards an image may rely on.                       *)
LEMMA DroppedAlone ==
  ASSUME ItemInv, ImageInv, NEW w \in Writer, Drops(job[w])
  PROVE  /\ job[w].media \in Media /\ job[w].media \in known /\ ~Shown(job[w].media)
         /\ \A v \in Writer : v # w /\ Brings(job[v]) => job[v].media # job[w].media
<1>1. job[w].media \in Media
  BY DEF ItemInv, JobOK, NoJob, Drops
<1>2. \A v \in Writer : v # w /\ Brings(job[v]) => job[v].media # job[w].media
  BY DEF ImageInv, JobsOfImages
<1> QED  BY <1>1, <1>2 DEF ImageInv, JobsOfImages

LEMMA PutFailsTurns ==
  ASSUME ItemInv, ImageInv, NEW w \in Writer, PutFails(w)
  PROVE  ImageInv'
<1> DEFINE j == job[w]
           s == SubSeq(Planned, 1, Len(Planned) - Len(j.parts))
           x == [j EXCEPT !.do = "unput", !.parts = s]
<1>1. /\ j.do = "put" /\ Does(w, x)
      /\ UNCHANGED <<items, status, stored, reading, known>>
  BY DEF PutFails, pubRows
<1>2. Whole(j) /\ j.media \in Media
  BY <1>1 DEF ItemInv, JobOK, NoJob
<1>3. Brings(j)
  BY <1>1, <1>2, PublishingBounds DEF Brings
<1>4. x.do = "unput" /\ x.media = j.media
  BY <1>1, <1>2 DEF Whole, Fields
<1>5. (\A m \in Media : Spared(m)) /\ status' \in [Media -> ImageStatus]
      /\ \A m \in Media : status'[m] # "none" => m \in known'
  BY <1>1 DEF Spared, ImageInv, RowsOfImages
<1>6. HoldsThen(x) /\ ~Drops(x)
  BY <1>1, <1>3, <1>4, BroughtAlone DEF Holds, HoldsThen, Drops
<1> HIDE DEF x
<1> QED  BY <1>1, <1>3, <1>4, <1>5, <1>6, BroughtAlone, TurnsTo

LEMMA MarkTurns ==
  ASSUME ItemInv, ImageInv, NEW w \in Writer, MarkPending(w)
  PROVE  ImageInv'
<1> DEFINE j == job[w]
           x == [j EXCEPT !.do = "erase"]
<1>1. /\ j.do = "mark" /\ Does(w, x)
      /\ status' = [status EXCEPT ![j.media] = "cleanup-pending"]
      /\ UNCHANGED <<items, stored, reading, known>>
  BY DEF MarkPending, Goes, pubHistory
<1>2. Whole(j) /\ Drops(j)
  BY <1>1 DEF ItemInv, JobOK, NoJob, Drops
<1>3. x.do = "erase" /\ x.media = j.media /\ ~Brings(x)
  BY <1>1, <1>2 DEF Whole, Fields, Brings
<1>4. /\ status' \in [Media -> ImageStatus]
      /\ \A m \in Media : status'[m] # "none" => m \in known'
      /\ \A m \in Media : status[m] # "none" => status'[m] # "none"
      /\ \A m \in Media : m # j.media => status'[m] = status[m]
  BY <1>1, <1>2, DroppedAlone DEF ImageInv, RowsOfImages, ImageStatus
<1>5. \A m \in Media : m # j.media => Spared(m)
  BY <1>1, <1>4 DEF Spared
<1> HIDE DEF x
<1> QED  BY <1>1, <1>2, <1>3, <1>4, <1>5, DroppedAlone, TurnsTo

LEMMA MarkDeletedTurns ==
  ASSUME ItemInv, ImageInv, NEW w \in Writer, MarkDeleted(w)
  PROVE  ImageInv'
<1> DEFINE j == job[w]
<1>1. /\ Drops(j) /\ Does(w, NoJob)
      /\ status' = [status EXCEPT ![j.media] = "deleted"] \/ UNCHANGED status
      /\ UNCHANGED <<items, stored, reading, known>>
  BY DEF MarkDeleted, Drops, pubHistory
<1>2. ~Brings(NoJob) /\ ~Drops(NoJob)
  BY DEF NoJob, Brings, Drops
<1>3. /\ status' \in [Media -> ImageStatus]
      /\ \A m \in Media : status'[m] # "none" => m \in known'
      /\ \A m \in Media : status[m] # "none" => status'[m] # "none"
      /\ \A m \in Media : m # j.media => status'[m] = status[m]
  BY <1>1, DroppedAlone DEF ImageInv, RowsOfImages, ImageStatus
<1>4. \A m \in Media : m # j.media => Spared(m)
  BY <1>1, <1>3 DEF Spared
<1> QED  BY <1>1, <1>2, <1>3, <1>4, DroppedAlone, TurnsTo

LEMMA ErasePartTurns ==
  ASSUME ItemInv, ImageInv, NEW w \in Writer, ErasePart(w)
  PROVE  ImageInv'
<1> DEFINE j == job[w]
<1>1. /\ j.do \in {"erase", "unput"}
      /\ stored' = stored \ {<<j.media, Head(j.parts)>>} \/ UNCHANGED stored
      /\ UNCHANGED <<items, status, reading, known>>
  BY DEF ErasePart, pubRows
<1>2. Whole(j) /\ j.media \in Media
  BY <1>1 DEF ItemInv, JobOK, NoJob
<1>3. PICK x : Does(w, x) /\ x.do = j.do /\ x.media = j.media
  <2>1. \/ Does(w, [j EXCEPT !.parts = Tail(@)])
        \/ Does(w, [j EXCEPT !.parts = Tail(@), !.failed = TRUE])
    BY DEF ErasePart
  <2>2. /\ [j EXCEPT !.parts = Tail(@)].do = j.do
        /\ [j EXCEPT !.parts = Tail(@)].media = j.media
        /\ [j EXCEPT !.parts = Tail(@), !.failed = TRUE].do = j.do
        /\ [j EXCEPT !.parts = Tail(@), !.failed = TRUE].media = j.media
    BY <1>2 DEF Whole, Fields
  <2> QED  BY <2>1, <2>2
<1>4. \A m \in Media : m # j.media => Spared(m)
  BY <1>1 DEF Spared
<1>5. status' \in [Media -> ImageStatus] /\ \A m \in Media : status'[m] # "none" => m \in known'
  BY <1>1 DEF ImageInv, RowsOfImages
<1>6. CASE j.do = "erase"
  <2>1. Drops(j) /\ Drops(x) /\ ~Brings(x)
    BY <1>3, <1>6 DEF Drops, Brings
  <2> QED  BY <1>1, <1>3, <1>4, <1>5, <2>1, DroppedAlone, TurnsTo
<1>7. CASE j.do = "unput"
  <2>1. Brings(j) /\ ~Drops(x)
    BY <1>2, <1>3, <1>7, PublishingBounds DEF Drops, Brings
  <2>2. HoldsThen(x)
    BY <1>1, <1>3, <1>7, <2>1, BroughtAlone DEF Holds, HoldsThen
  <2> QED  BY <1>1, <1>3, <1>4, <1>5, <2>1, <2>2, BroughtAlone, TurnsTo
<1> QED  BY <1>1, <1>6, <1>7

LEMMA SaveDraftTurns ==
  ASSUME ItemInv, ImageInv, NEW w \in Writer, SaveDraft(w)
  PROVE  ImageInv'
<1>1. Does(w, NoJob) /\ UNCHANGED <<status, stored, reading, known>>
  BY DEF SaveDraft
<1>2. ~Brings(NoJob) /\ ~Drops(NoJob)
  BY DEF NoJob, Brings, Drops
<1>3. CASE job[w].base = NoRow
  <2> DEFINE r == Row(TRUE, "draft", NoMedia, 1, 0)
  <2>1. r \in ItemRow /\ r.media = NoMedia
    BY DEF Row, ItemRow
  <2>2. job[w].item \in Item
    BY DEF SaveDraft, ItemInv, JobOK, NoJob
  <2>3. items' = [items EXCEPT ![job[w].item] = r]
    BY <1>3 DEF SaveDraft
  <2> HIDE DEF r
  <2> QED  BY <1>1, <1>2, <2>1, <2>2, <2>3, WritesRow
<1>4. CASE job[w].base # NoRow
  BY <1>1, <1>2, <1>4, Leaves DEF SaveDraft
<1> QED  BY <1>3, <1>4

LEMMA CommitCreateTurns ==
  ASSUME ItemInv, ImageInv, NEW w \in Writer, CommitCreate(w)
  PROVE  ImageInv'
<1> DEFINE j == job[w]
           at == Published(NoRow, j.to)
           r == Row(j.media # NoMedia, j.to, j.media, 1, at)
<1>1. /\ Does(w, NoJob) /\ UNCHANGED <<status, stored, reading, known>>
      /\ j.do = "commit" /\ items' = [items EXCEPT ![j.item] = r]
  BY DEF CommitCreate
<1>2. ~Brings(NoJob) /\ ~Drops(NoJob)
  BY DEF NoJob, Brings, Drops
<1>3. /\ j.media \in Media \cup {NoMedia} /\ j.to \in {"draft", "public", "deleted"}
      /\ j.item \in Item /\ at \in Nat
  BY <1>1, PublishedIsTime DEF ItemInv, JobOK, NoJob
<1>4. r \in ItemRow /\ r.media = j.media
  <2> HIDE DEF at
  <2> QED  BY <1>3 DEF Row, ItemRow
<1>5. r.media = NoMedia \/ Brings(j)
  BY <1>1, <1>4 DEF Brings
<1> HIDE DEF r
<1> QED  BY <1>1, <1>2, <1>3, <1>4, <1>5, WritesRow

(* A handler that turns to discarding the image that its item showed, when  *)
(* the item shows another or is gone.                                       *)
LEMMA LetsGo ==
  ASSUME ItemInv, ImageInv, NEW w \in Writer, NEW i \in Item, NEW r \in ItemRow, NEW m, NEW p,
         items[i] # NoRow, m = NoMedia \/ m = items[i].media,
         r.state = "deleted" \/ r.media # m,
         Discards(w, m, p), items' = [items EXCEPT ![i] = r]
  PROVE  \E x : /\ Does(w, x) /\ ~Brings(x)
                /\ Drops(x) =>
                      /\ x.media \in known /\ ~Shown(x.media)'
                      /\ \A v \in Writer : v # w /\ Brings(job[v]) => job[v].media # x.media
<1>1. m \in Media \cup {NoMedia}
  BY DEF ItemInv, ItemRow
<1>2. PICK x : Does(w, x) /\ (x = NoJob \/ (x.do = "mark" /\ x.media = m /\ m # NoMedia))
  BY <1>1, Discarding
<1>3. ~Brings(x)
  BY <1>2 DEF NoJob, Brings
<1>4. ASSUME Drops(x)
      PROVE  /\ x.media = items[i].media /\ x.media # NoMedia /\ x.media \in known
             /\ \A v \in Writer : v # w /\ Brings(job[v]) => job[v].media # x.media
  <2>1. x.media = m /\ m # NoMedia
    BY <1>2, <1>4 DEF NoJob, Drops
  <2> QED  BY <2>1 DEF ImageInv, ItemsOfImages, JobsOfImages
<1>5. ASSUME Drops(x)
      PROVE  ~Shown(x.media)'
  <2>1. /\ items'[i] = r
        /\ \A k \in Item : k # i => items'[k] = items[k]
    BY DEF ItemInv
  <2>2. x.media = m /\ m # NoMedia
    BY <1>2, <1>5 DEF NoJob, Drops
  <2>3. \A k \in Item : k # i /\ items[k] # NoRow => items[k].media # x.media
    BY <1>4, <1>5 DEF ImageInv, ItemsOfImages
  <2> QED  BY <2>1, <2>2, <2>3 DEF Shown, Alive
<1> QED  BY <1>2, <1>3, <1>4, <1>5

LEMMA CommitUpdateTurns ==
  ASSUME ItemInv, ImageInv, NEW w \in Writer, CommitUpdate(w)
  PROVE  ImageInv'
<1> DEFINE j == job[w]
           m == IF j.media = NoMedia THEN j.base.media ELSE j.media
           at == Published(j.base, j.to)
           r == Row(j.base.photo, j.to, m, j.rev + 1, at)
<1>1. /\ UNCHANGED <<status, stored, reading, known>> /\ stamps \in Nat
      /\ j.do = "commit" /\ Edits(j)
  BY DEF CommitUpdate, ItemInv, Edits
<1>2. /\ j.media \in Media \cup {NoMedia} /\ j.to \in {"draft", "public", "deleted"}
      /\ j.base \in ItemRow /\ j.rev \in Nat /\ j.item \in Item
  BY <1>1 DEF ItemInv, JobOK, NoJob, Edits
<1>3. CASE SameRev(j.item, j.rev)
  <2>1. /\ items[j.item] = j.base /\ items[j.item] # NoRow /\ Alive(j.item)
    BY <1>1, <1>3, ReadsTheRow DEF Edits, Alive
  <2>2. at \in Nat /\ j.base.photo \in BOOLEAN /\ j.base.media \in Media \cup {NoMedia}
    BY <1>1, <1>2, PublishedIsTime DEF ItemRow
  <2>3. items' = [items EXCEPT ![j.item] = r] /\ Discards(w, Superseded(j), Planned)
    BY <1>3 DEF CommitUpdate
  <2>4. r \in ItemRow /\ r.media = m
    <3>1. m \in Media \cup {NoMedia} /\ j.rev + 1 \in Nat
      BY <1>2, <2>2
    <3> HIDE DEF m, at
    <3> QED  BY <1>2, <2>2, <3>1 DEF Row, ItemRow
  <2>5. /\ Superseded(j) = NoMedia \/ Superseded(j) = items[j.item].media
        /\ r.media # Superseded(j) \/ Superseded(j) = NoMedia
    <3>1. CASE j.media = NoMedia
      BY <3>1 DEF Superseded
    <3>2. CASE j.media # NoMedia
      <4>1. Brings(j)
        BY <1>1, <3>2 DEF Brings
      <4>2. items[j.item].media # j.media
        BY <1>2, <2>1, <4>1, BroughtAlone
      <4> QED  BY <2>1, <2>4, <3>2, <4>2 DEF Superseded
    <3> QED  BY <3>1, <3>2
  <2>6. \/ r.media = items[j.item].media
        \/ Brings(j) /\ r.media = j.media
    BY <1>1, <2>1, <2>4 DEF Brings
  <2> HIDE DEF r, m
  <2>7. CASE Superseded(j) = NoMedia
    <3>1. Does(w, NoJob) /\ ~Brings(NoJob) /\ ~Drops(NoJob)
      BY <2>3, <2>7 DEF Discards, NoJob, Brings, Drops
    <3> QED  BY <1>1, <1>2, <2>1, <2>3, <2>4, <2>6, <3>1, WritesRow
  <2>8. CASE Superseded(j) # NoMedia
    <3>1. PICK x : /\ Does(w, x) /\ ~Brings(x)
                   /\ Drops(x) =>
                        /\ x.media \in known /\ ~Shown(x.media)'
                        /\ \A v \in Writer :
                              v # w /\ Brings(job[v]) => job[v].media # x.media
      BY <1>2, <2>1, <2>3, <2>4, <2>5, <2>8, LetsGo
    <3> QED  BY <1>1, <1>2, <2>1, <2>3, <2>4, <2>6, <3>1, WritesRow
  <2> QED  BY <2>7, <2>8
<1>4. CASE ~SameRev(j.item, j.rev)
  <2>1. UNCHANGED items /\ Discards(w, j.media, Planned)
    BY <1>4 DEF CommitUpdate
  <2> QED  BY <1>1, <2>1, GivesUp
<1> QED  BY <1>3, <1>4

LEMMA CommitDeleteTurns ==
  ASSUME ItemInv, ImageInv, NEW w \in Writer, CommitDelete(w)
  PROVE  ImageInv'
<1> DEFINE j == job[w]
           r == Row(j.base.photo, "deleted", j.base.media, j.rev + 1, j.base.published)
<1>1. /\ UNCHANGED <<status, stored, reading, known>> /\ j.do = "bury" /\ Edits(j)
  BY DEF CommitDelete, ItemInv, Edits, JobOK, NoJob, pubHistory
<1>2. j.base \in ItemRow /\ j.rev \in Nat /\ j.item \in Item
  BY <1>1 DEF ItemInv, JobOK, NoJob, Edits
<1>3. CASE SameRev(j.item, j.rev)
  <2>1. items[j.item] = j.base /\ items[j.item] # NoRow
    BY <1>1, <1>3, ReadsTheRow DEF Edits
  <2>2. /\ j.base.photo \in BOOLEAN /\ j.base.media \in Media \cup {NoMedia}
        /\ j.base.published \in Nat /\ j.rev + 1 \in Nat
    BY <1>2 DEF ItemRow
  <2>3. items' = [items EXCEPT ![j.item] = r] /\ Discards(w, j.base.media, Planned)
    BY <1>3 DEF CommitDelete
  <2>4. r \in ItemRow /\ r.media = j.base.media /\ r.state = "deleted"
    BY <2>2 DEF Row, ItemRow
  <2> HIDE DEF r
  <2>5. PICK x : /\ Does(w, x) /\ ~Brings(x)
                 /\ Drops(x) =>
                      /\ x.media \in known /\ ~Shown(x.media)'
                      /\ \A v \in Writer :
                            v # w /\ Brings(job[v]) => job[v].media # x.media
    BY <1>2, <2>1, <2>3, <2>4, LetsGo
  <2> QED  BY <1>1, <1>2, <2>1, <2>3, <2>4, <2>5, WritesRow
<1>4. CASE ~SameRev(j.item, j.rev)
  <2>1. UNCHANGED items /\ Does(w, NoJob)
    BY <1>4 DEF CommitDelete
  <2>2. ~Brings(NoJob) /\ ~Drops(NoJob)
    BY DEF NoJob, Brings, Drops
  <2> QED  BY <1>1, <2>1, <2>2, Leaves
<1> QED  BY <1>3, <1>4

(* A visitor looks an image up, and marks it when an object is not there.   *)
LEMMA VisitorTurns ==
  ASSUME ItemInv, ImageInv, LookUp \/ Serve
  PROVE  ImageInv'
<1>1. UNCHANGED <<items, stored, job, known>>
  BY DEF LookUp, Serve, pubRows, pubHistory
<1>2. CASE UNCHANGED status
  <2>1. reading' = NoMedia \/ (reading' \in Media /\ status[reading'] = "ready")
    BY <1>2 DEF LookUp, Serve
  <2>2. RowsOfImages'
    BY <1>1, <1>2, <2>1 DEF ImageInv, RowsOfImages
  <2>3. ItemsOfImages' /\ JobsOfImages'
    BY <1>1, <1>2 DEF ImageInv, ItemsOfImages, JobsOfImages, Holds, AllThere, Shown, Alive,
       Brings, Drops
  <2> QED  BY <2>2, <2>3 DEF ImageInv
<1>3. CASE Serve /\ ~UNCHANGED status
  <2>1. /\ reading \in Media /\ reading' = NoMedia /\ ~AllThere(reading)
        /\ status' = [status EXCEPT ![reading] = "missing"] /\ status[reading] # "none"
    BY <1>3 DEF Serve, AllThere, ImageInv, RowsOfImages
  <2>2. /\ status' \in [Media -> ImageStatus]
        /\ \A m \in Media : m # reading => status'[m] = status[m]
    BY <2>1 DEF ImageInv, RowsOfImages, ImageStatus
  <2>3. RowsOfImages'
    BY <1>1, <2>1, <2>2 DEF ImageInv, RowsOfImages
  <2>4. ASSUME NEW i \in Item, Alive(i), items[i].media # NoMedia
        PROVE  status'[items[i].media] = "ready"
    <3>1. items[i].media \in Media /\ items[i].media # reading
      BY <2>1, <2>4 DEF ImageInv, ItemsOfImages, ItemInv, ItemRow, Alive
    <3> QED  BY <2>2, <2>4, <3>1 DEF ImageInv, ItemsOfImages
  <2>5. ItemsOfImages'
    BY <1>1, <2>4 DEF ImageInv, ItemsOfImages, Alive, AllThere
  <2>6. ASSUME NEW w \in Writer, Brings(job[w])
        PROVE  status'[job[w].media] = status[job[w].media]
    <3>1. job[w].media \in Media /\ Holds(job[w])
      BY <2>6, BroughtAlone
    <3>2. job[w].media # reading
      BY <2>1, <2>6, <3>1 DEF Holds, Brings
    <3> QED  BY <2>2, <3>1, <3>2
  <2>7. JobsOfImages'
    BY <1>1, <2>6 DEF ImageInv, JobsOfImages, Holds, AllThere, Shown, Alive, Brings, Drops
  <2> QED  BY <2>3, <2>5, <2>7 DEF ImageInv
<1> QED  BY <1>2, <1>3 DEF LookUp, pubRows

LEMMA ImageStep ==
  ASSUME ItemInv, ImageInv, [PubNext]_pubVars
  PROVE  ImageInv'
<1>1. CASE UNCHANGED pubVars
  BY <1>1 DEF pubVars, pubRows, pubHistory, ImageInv, RowsOfImages, ItemsOfImages, JobsOfImages,
     Holds, AllThere, Shown, Alive, Brings, Drops
<1>2. ASSUME NEW w \in Writer, BeginCreate(w) \/ BeginUpdate(w)
      PROVE  ImageInv'
  <2>1. UNCHANGED <<items, status, stored, reading>>
    BY <1>2 DEF BeginCreate, BeginUpdate, pubRows
  <2>2. \E i, b, rev, to : WithImage(w, i, b, rev, to)
    BY <1>2 DEF BeginCreate, BeginUpdate
  <2> QED  BY <2>1, <2>2, BeginsImage
<1>3. ASSUME NEW w \in Writer, BeginDelete(w)
      PROVE  ImageInv'
  <2>1. PICK i, rev : Does(w, Job("bury", i, items[i], rev, "deleted", NoMedia))
    BY <1>3 DEF BeginDelete
  <2> DEFINE x == Job("bury", i, items[i], rev, "deleted", NoMedia)
  <2>2. ~Brings(x) /\ ~Drops(x)
    BY DEF Job, Brings, Drops
  <2>3. UNCHANGED <<items, status, stored, reading, known>>
    BY <1>3 DEF BeginDelete, pubRows, pubHistory
  <2> HIDE DEF x
  <2> QED  BY <2>1, <2>2, <2>3, Leaves DEF x
<1>4. ASSUME NEW w \in Writer, RefuseFields(w) \/ PubDies(w)
      PROVE  ImageInv'
  <2>1. Does(w, NoJob) /\ UNCHANGED <<items, status, stored, reading, known>>
    BY <1>4 DEF RefuseFields, PubDies, pubRows
  <2>2. ~Brings(NoJob) /\ ~Drops(NoJob)
    BY DEF NoJob, Brings, Drops
  <2> QED  BY <2>1, <2>2, Leaves
<1>5. ASSUME NEW w \in Writer, CreateFails(w)
      PROVE  ImageInv'
  BY <1>5, GivesUp DEF CreateFails, pubRows
<1> QED  BY <1>1, <1>2, <1>3, <1>4, <1>5, VisitorTurns, PutPartTurns, SaveMediaTurns,
         PutFailsTurns, SaveDraftTurns, CommitCreateTurns, CommitUpdateTurns,
         CommitDeleteTurns, MarkTurns, ErasePartTurns, MarkDeletedTurns, RetryTurns
         DEF PubNext

(* The image of a live item is there and ready, for any number of items,    *)
(* images and handlers and whatever fails: a handler alone knows the image  *)
(* it brings, and what is discarded is shown by no live item.               *)
THEOREM LiveImagesStay == PubSpec => []LiveMediaIsThere
<1>1. PubInit => ItemInv /\ ImageInv
  BY PubStart, ImagesStart
<1>2. ItemInv /\ ImageInv /\ [PubNext]_pubVars => ItemInv' /\ ImageInv'
  BY ItemStep, ImageStep
<1>3. ImageInv => LiveMediaIsThere
  BY DEF ImageInv, ItemsOfImages, LiveMediaIsThere, Objects, AllThere
<1> QED  BY <1>1, <1>2, <1>3, PTL DEF PubSpec

----------------------------------------------------------------------------
\* Cleaning up.  A handler knows which objects of its image are left, and every
\* object belongs to an image that somebody answers for.

Bare(m) == \A p \in Part : <<m, p>> \notin stored

\* The parts in what is left to do.
Todo(s) == {p \in Part : s = Planned \/ s = <<p>>}

\* A deletion that has not failed leaves only what is still to be deleted.
Clears(j, objects) ==
    /\ j.parts \in {Planned, <<"full">>, <<"small">>, <<>>}
    /\ ~j.failed => \A p \in Part : <<j.media, p>> \in objects => p \in Todo(j.parts)

Tidy(j, objects, lost) ==
    /\ j.do = "put" =>
          ~j.failed /\ \A p \in Part : <<j.media, p>> \in objects => p \notin Todo(j.parts)
    /\ j.do = "unput" => Clears(j, objects)
    /\ Drops(j) => <<j.media, "create">> \in lost \/ Clears(j, objects)
    /\ j.do \in {"put", "unput", "commit"} => j.to \in States

\* A handler that will show the image, take it back, or mark it.
Covers(j, m) == (Brings(j) \/ j.do = "mark") /\ j.media = m

Answered(m) ==
    \/ Bare(m) \/ Shown(m) \/ status[m] = "cleanup-pending"
    \/ \E w \in Writer : Covers(job[w], m)
    \/ \E a \in adrift : a[1] = m

CleanInv ==
    /\ \A m \in Media : m \notin known => Bare(m)
    /\ \A w \in Writer : Tidy(job[w], stored, adrift)
    /\ \A m \in Media : status[m] = "deleted" => <<m, "create">> \in adrift \/ Bare(m)
    /\ \A m \in Media : Answered(m)

(* What is left to do, in every case there is.                              *)
LEMMA TodoIs ==
  /\ Todo(Planned) = Part /\ Todo(<<"full">>) = {"full"} /\ Todo(<<"small">>) = {"small"}
  /\ Todo(<<>>) = {}
  /\ Head(<<"full">>) = "full" /\ Tail(<<"full">>) = <<>> /\ <<"full">> # <<>>
<1>1. Todo(Planned) = Part
  BY DEF Todo
<1>2. Todo(<<"full">>) = {"full"}
  BY DEF Todo, Planned, Part
<1>3. Todo(<<"small">>) = {"small"}
  BY DEF Todo, Planned, Part
<1>4. Todo(<<>>) = {}
  BY DEF Todo, Planned, Part
<1> QED  BY <1>1, <1>2, <1>3, <1>4

(* One deletion after the other.                                            *)
LEMMA ClearsOne ==
  ASSUME NEW j, NEW k, NEW objects, NEW rest, Clears(j, objects), j.parts # <<>>,
         k.media = j.media, k.parts = Tail(j.parts),
         \/ k.failed = j.failed /\ rest = objects \ {<<j.media, Head(j.parts)>>}
         \/ k.failed
  PROVE  Clears(k, rest)
<1>1. CASE j.parts = Planned
  BY <1>1, TodoIs, PlannedParts DEF Clears, Part
<1>2. CASE j.parts = <<"full">>
  BY <1>2, TodoIs, PlannedParts DEF Clears, Part
<1>3. CASE j.parts = <<"small">>
  BY <1>3, TodoIs, PlannedParts DEF Clears, Part
<1> QED  BY <1>1, <1>2, <1>3 DEF Clears

(* What a handler has in hand stays tidy when no object of its image is     *)
(* added.                                                                   *)
LEMMA StaysTidy ==
  ASSUME NEW j, NEW objects, NEW rest, NEW lost, NEW more, Tidy(j, objects, lost),
         \A p \in Part : <<j.media, p>> \in rest => <<j.media, p>> \in objects,
         lost \subseteq more
  PROVE  Tidy(j, rest, more)
BY DEF Tidy, Clears

LEMMA CleanStart == PubInit => CleanInv
BY DEF PubInit, CleanInv, Bare, Tidy, Drops, NoJob, Answered

(* A step of one handler: it may add objects of the image that it brings,   *)
(* and answers for the images that it covered.                              *)
LEMMA CleanFrame ==
  ASSUME ItemInv, ImageInv, CleanInv, NEW w \in Writer, NEW x, Does(w, x),
         adrift \subseteq adrift', known \subseteq known',
         \A m \in Media, p \in Part :
            <<m, p>> \in stored' => <<m, p>> \in stored \/ (Brings(job[w]) /\ job[w].media = m),
         Tidy(x, stored', adrift'),
         \A m \in Media : status'[m] = "deleted" =>
            \/ status[m] = "deleted" \/ <<m, "create">> \in adrift'
            \/ \A p \in Part : <<m, p>> \notin stored',
         \A m \in Media : Covers(job[w], m) =>
            \/ Covers(x, m) \/ status'[m] = "cleanup-pending"
            \/ \E a \in adrift' : a[1] = m
            \/ \E i \in Item : /\ items'[i] # NoRow /\ items'[i].state # "deleted"
                               /\ items'[i].media = m
            \/ \A p \in Part : <<m, p>> \notin stored',
         \A m \in Media : status[m] = "cleanup-pending" =>
            \/ status'[m] = "cleanup-pending"
            \/ \E a \in adrift' : a[1] = m
            \/ \A p \in Part : <<m, p>> \notin stored',
         \A m \in Media : Shown(m) => Covers(x, m) \/
            \E i \in Item : /\ items'[i] # NoRow /\ items'[i].state # "deleted"
                            /\ items'[i].media = m
  PROVE  CleanInv'
<1>1. \A v \in Writer : job'[v] = IF v = w THEN x ELSE job[v]
  BY DoesOne DEF ItemInv
<1>2. ASSUME NEW m \in Media, m \notin known'
      PROVE  \A p \in Part : <<m, p>> \notin stored'
  <2>1. m \notin known
    BY <1>2
  <2>2. Brings(job[w]) => job[w].media # m
    BY <2>1, BroughtAlone
  <2> QED  BY <2>1, <2>2 DEF CleanInv, Bare
<1>3. ASSUME NEW v \in Writer
      PROVE  Tidy(job'[v], stored', adrift')
  <2>1. CASE v = w
    BY <1>1, <2>1
  <2>2. CASE v # w
    <3>1. job'[v] = job[v] /\ Tidy(job[v], stored, adrift)
      BY <1>1, <2>2 DEF CleanInv
    <3>2. CASE Brings(job[v]) \/ Drops(job[v])
      <4>1. job[v].media \in Media
        BY <3>2, BroughtAlone, DroppedAlone
      <4>2. Brings(job[w]) => job[w].media # job[v].media
        BY <2>2, <3>2, BroughtAlone
      <4>3. \A p \in Part : <<job[v].media, p>> \in stored' => <<job[v].media, p>> \in stored
        BY <4>1, <4>2
      <4> QED  BY <3>1, <4>3, StaysTidy
    <3>3. CASE ~Brings(job[v]) /\ ~Drops(job[v])
      <4>1. job[v].do \notin {"put", "unput", "mark", "erase"}
        BY <3>3, PublishingBounds DEF Brings, Drops, ItemInv, JobOK, NoJob
      <4> QED  BY <3>1, <3>3, <4>1 DEF Tidy
    <3> QED  BY <3>2, <3>3
  <2> QED  BY <2>1, <2>2
<1>4. ASSUME NEW m \in Media, status'[m] = "deleted", <<m, "create">> \notin adrift'
      PROVE  \A p \in Part : <<m, p>> \notin stored'
  <2>1. CASE status[m] = "deleted"
    <3>1. Brings(job[w]) => job[w].media # m
      BY <2>1, BroughtAlone DEF Holds, Brings
    <3> QED  BY <1>4, <2>1, <3>1 DEF CleanInv, Bare
  <2>2. CASE status[m] # "deleted"
    BY <1>4, <2>2
  <2> QED  BY <2>1, <2>2
<1>5. ASSUME NEW m \in Media
      PROVE  \/ \A p \in Part : <<m, p>> \notin stored'
             \/ \E i \in Item : /\ items'[i] # NoRow /\ items'[i].state # "deleted"
                                /\ items'[i].media = m
             \/ status'[m] = "cleanup-pending"
             \/ \E v \in Writer : Covers(job'[v], m)
             \/ \E a \in adrift' : a[1] = m
  <2>1. Answered(m)
    BY DEF CleanInv
  <2>2. CASE Covers(job[w], m)
    BY <1>1, <2>2
  <2>3. CASE \E v \in Writer : v # w /\ Covers(job[v], m)
    BY <1>1, <2>3
  <2>4. CASE Bare(m) /\ ~Covers(job[w], m)
    <3>1. ~(Brings(job[w]) /\ job[w].media = m)
      BY <2>4 DEF Covers
    <3> QED  BY <2>4, <3>1 DEF Bare
  <2>5. CASE Shown(m)
    BY <1>1, <2>5
  <2>6. CASE status[m] = "cleanup-pending"
    BY <2>6
  <2>7. CASE \E a \in adrift : a[1] = m
    BY <2>7
  <2> QED  BY <2>1, <2>2, <2>3, <2>4, <2>5, <2>6, <2>7 DEF Answered
<1>6. \A v \in Writer, m \in Media : Covers(job[v], m)' <=> Covers(job'[v], m)
  BY DEF Covers, Brings
<1>7. \A v \in Writer : Tidy(job[v], stored, adrift)' <=> Tidy(job'[v], stored', adrift')
  BY DEF Tidy, Drops
<1>8. \A m \in Media : Answered(m)'
  BY <1>5, <1>6 DEF Answered, Bare, Shown, Alive
<1> QED  BY <1>2, <1>3, <1>4, <1>7, <1>8 DEF CleanInv, Bare

(* A step that changes no item, no row of an image and no object.           *)
LEMMA CleanRest ==
  ASSUME ItemInv, ImageInv, CleanInv, NEW w \in Writer, NEW x, Does(w, x),
         UNCHANGED <<items, status, stored>>, adrift \subseteq adrift', known \subseteq known',
         Tidy(x, stored, adrift'),
         \A m \in Media : Covers(job[w], m) =>
            \/ Covers(x, m) \/ \E a \in adrift' : a[1] = m
            \/ \A p \in Part : <<m, p>> \notin stored
  PROVE  CleanInv'
<1>1. \A m \in Media : Shown(m) =>
        \E i \in Item : /\ items'[i] # NoRow /\ items'[i].state # "deleted"
                        /\ items'[i].media = m
  BY DEF Shown, Alive
<1> QED  BY <1>1, CleanFrame

(* Nothing in hand: nothing to tidy.                                        *)
LEMMA IdleIsTidy ==
  /\ \A objects, lost : Tidy(NoJob, objects, lost)
  /\ \A m : ~Covers(NoJob, m)
BY DEF Tidy, NoJob, Drops, Covers, Brings

(* A handler that begins to discard has every part before it.               *)
LEMMA DiscardIsTidy ==
  ASSUME NEW w \in Writer, NEW m \in Media \cup {NoMedia}, NEW p, Discards(w, m, p),
         NEW objects, NEW lost, p = Planned \/ <<m, "create">> \in lost \/ m = NoMedia
  PROVE  \E x : /\ Does(w, x) /\ Tidy(x, objects, lost)
                /\ m # NoMedia => Covers(x, m)
<1> DEFINE k == Job("mark", NoRow, NoRow, 0, "deleted", m)
           x == [k EXCEPT !.parts = p]
<1>1. CASE m = NoMedia
  BY <1>1, IdleIsTidy DEF Discards
<1>2. CASE m # NoMedia
  <2>1. x.do = "mark" /\ x.media = m /\ x.parts = p
    BY DEF Job
  <2>2. Does(w, x)
    BY <1>2 DEF Discards
  <2> HIDE DEF x
  <2>3. Tidy(x, objects, lost)
    BY <1>2, <2>1, TodoIs DEF Tidy, Clears, Drops
  <2>4. Covers(x, m)
    BY <2>1 DEF Covers
  <2> QED  BY <2>2, <2>3, <2>4
<1> QED  BY <1>1, <1>2

LEMMA BeginsClean ==
  ASSUME ItemInv, ImageInv, CleanInv, NEW w \in Writer, job[w] = NoJob,
         NEW i, NEW b, NEW rev, NEW to \in States, WithImage(w, i, b, rev, to),
         UNCHANGED <<items, status, stored, adrift>>
  PROVE  CleanInv'
<1>1. \A m : ~Covers(job[w], m)
  BY IdleIsTidy
<1>2. CASE Does(w, Job("commit", i, b, rev, to, NoMedia)) /\ known' = known \cup {i}
  <2> DEFINE x == Job("commit", i, b, rev, to, NoMedia)
  <2>1. Tidy(x, stored, adrift)
    BY DEF Tidy, Drops, Job
  <2> HIDE DEF x
  <2> QED  BY <1>1, <1>2, <2>1, CleanRest DEF x
<1>3. ASSUME NEW m \in Media \ known, Does(w, Job("put", i, b, rev, to, m)),
             known' = known \cup {i, m}
      PROVE  CleanInv'
  <2> DEFINE x == Job("put", i, b, rev, to, m)
  <2>1. x.do = "put" /\ x.media = m /\ ~x.failed /\ x.to = to
    BY DEF Job
  <2>2. \A p \in Part : <<m, p>> \notin stored
    BY DEF CleanInv, Bare
  <2> HIDE DEF x
  <2>3. Tidy(x, stored, adrift)
    BY <2>1, <2>2 DEF Tidy, Drops
  <2> QED  BY <1>1, <1>3, <2>3, CleanRest DEF x
<1> QED  BY <1>2, <1>3 DEF WithImage

LEMMA BeginsOtherClean ==
  ASSUME ItemInv, ImageInv, CleanInv, NEW w \in Writer, BeginDelete(w) \/ BeginRetry(w)
  PROVE  CleanInv'
<1>1. job[w] = NoJob /\ UNCHANGED <<items, status, stored, known, adrift>>
  BY DEF BeginDelete, BeginRetry, pubRows, pubHistory
<1>2. \E x : Does(w, x) /\ Tidy(x, stored, adrift)
  <2>1. CASE BeginDelete(w)
    <3>1. PICK i, rev : Does(w, Job("bury", i, items[i], rev, "deleted", NoMedia))
      BY <2>1 DEF BeginDelete
    <3> DEFINE x == Job("bury", i, items[i], rev, "deleted", NoMedia)
    <3>2. Tidy(x, stored, adrift)
      BY DEF Tidy, Drops, Job
    <3> HIDE DEF x
    <3> QED  BY <3>1, <3>2 DEF x
  <2>2. CASE BeginRetry(w)
    <3>1. PICK m : Does(w, Job("erase", NoRow, NoRow, 0, "deleted", m))
      BY <2>2 DEF BeginRetry
    <3> DEFINE x == Job("erase", NoRow, NoRow, 0, "deleted", m)
    <3>2. x.do = "erase" /\ x.media = m /\ x.parts = Planned
      BY DEF Job
    <3> HIDE DEF x
    <3>3. Tidy(x, stored, adrift)
      BY <3>2, TodoIs DEF Tidy, Clears, Drops
    <3> QED  BY <3>1, <3>3 DEF x
  <2> QED  BY <2>1, <2>2
<1> QED  BY <1>1, <1>2, CleanRest, IdleIsTidy

LEMMA PutPartClean ==
  ASSUME ItemInv, ImageInv, CleanInv, NEW w \in Writer, PutPart(w)
  PROVE  CleanInv'
<1> DEFINE j == job[w]
           x == [j EXCEPT !.parts = Tail(j.parts)]
<1>1. /\ j.do = "put" /\ j.parts # <<>> /\ Does(w, x)
      /\ stored' = stored \cup {<<j.media, Head(j.parts)>>}
      /\ UNCHANGED <<items, status, known, adrift>>
  BY DEF PutPart, pubRows, pubHistory
<1>2. Whole(j) /\ j.media \in Media
  BY <1>1 DEF ItemInv, JobOK, NoJob
<1>3. Brings(j)
  BY <1>1, <1>2, PublishingBounds DEF Brings
<1>4. /\ x.do = "put" /\ x.media = j.media /\ x.parts = Tail(j.parts) /\ x.failed = j.failed
      /\ x.to = j.to
  BY <1>1, <1>2 DEF Whole, Fields
<1>5. /\ ~j.failed /\ j.to \in States
      /\ \A p \in Part : <<j.media, p>> \in stored => p \notin Todo(j.parts)
  BY <1>1 DEF CleanInv, Tidy
<1>6. j.parts = Planned \/ j.parts = <<"small">>
  BY <1>1, <1>3, BroughtAlone DEF Holds
<1>7. \A p \in Part : <<j.media, p>> \in stored' => p \notin Todo(x.parts)
  <2>1. CASE j.parts = Planned
    BY <1>1, <1>4, <1>5, <2>1, TodoIs, PlannedParts
  <2>2. CASE j.parts = <<"small">>
    BY <1>4, <2>2, TodoIs, PlannedParts
  <2> QED  BY <1>6, <2>1, <2>2
<1>8. Tidy(x, stored', adrift')
  BY <1>4, <1>5, <1>7 DEF Tidy, Drops
<1>9. \A m : Covers(j, m) => Covers(x, m)
  BY <1>1, <1>4 DEF Covers, Brings
<1>10. \A m \in Media : Shown(m) =>
         \E i \in Item : /\ items'[i] # NoRow /\ items'[i].state # "deleted"
                         /\ items'[i].media = m
  BY <1>1 DEF Shown, Alive
<1>11. \A m \in Media, p \in Part :
         <<m, p>> \in stored' => <<m, p>> \in stored \/ (Brings(j) /\ j.media = m)
  BY <1>1, <1>3
<1>12. Does(w, x) /\ UNCHANGED <<status, known, adrift>>
  BY <1>1
<1> HIDE DEF x, j
<1>13. \A m \in Media : status'[m] = status[m]
  BY <1>12
<1> QED  BY <1>8, <1>9, <1>10, <1>11, <1>12, <1>13, CleanFrame DEF j

LEMMA SaveMediaClean ==
  ASSUME ItemInv, ImageInv, CleanInv, NEW w \in Writer, SaveMedia(w)
  PROVE  CleanInv'
<1> DEFINE j == job[w]
           x == [j EXCEPT !.do = "commit"]
<1>1. /\ j.do = "put" /\ Does(w, x) /\ status' = [status EXCEPT ![j.media] = "ready"]
      /\ UNCHANGED <<items, stored, known, adrift>>
  BY DEF SaveMedia, Goes, pubHistory
<1>2. Whole(j) /\ j.media \in Media
  BY <1>1 DEF ItemInv, JobOK, NoJob
<1>3. x.do = "commit" /\ x.media = j.media /\ x.to = j.to
  BY <1>2 DEF Whole, Fields
<1>4. Brings(j) /\ j.to \in States
  BY <1>1, <1>2, PublishingBounds DEF Brings, CleanInv, Tidy
<1>5. /\ Tidy(x, stored', adrift')
      /\ \A m : Covers(j, m) => Covers(x, m)
  BY <1>1, <1>3, <1>4 DEF Tidy, Drops, Covers, Brings
<1>6. /\ status'[j.media] = "ready" /\ status[j.media] = "none"
      /\ \A m \in Media : m # j.media => status'[m] = status[m]
  BY <1>1, <1>2, <1>4, BroughtAlone DEF Holds, ImageInv, RowsOfImages
<1>7. \A m \in Media : Shown(m) =>
        \E i \in Item : /\ items'[i] # NoRow /\ items'[i].state # "deleted"
                        /\ items'[i].media = m
  BY <1>1 DEF Shown, Alive
<1> HIDE DEF x
<1> QED  BY <1>1, <1>5, <1>6, <1>7, CleanFrame

(* What has been stored when a part fails.                                  *)
LEMMA StoredSoFar ==
  /\ SubSeq(Planned, 1, Len(Planned) - Len(Planned)) = <<>>
  /\ SubSeq(Planned, 1, Len(Planned) - Len(<<"small">>)) = <<"full">>
  /\ SubSeq(Planned, 1, Len(Planned) - Len(<<>>)) = Planned
<1>1. "full" \in Part /\ "small" \in Part
  BY DEF Part
<1>2. ASSUME NEW t \in Seq(Part), Len(t) = 1, NEW a \in Part, t[1] = a
      PROVE  t = <<a>>
  BY <1>2
<1>3. ASSUME NEW a \in Part, NEW b \in Part
      PROVE  /\ SubSeq(<<a, b>>, 1, 1) = <<a>> /\ SubSeq(<<a, b>>, 1, 2) = <<a, b>>
             /\ SubSeq(<<a, b>>, 1, 0) = <<>>
             /\ Len(<<a, b>>) = 2 /\ Len(<<b>>) = 1
  <2>1. /\ SubSeq(<<a, b>>, 1, 1) \in Seq(Part) /\ Len(SubSeq(<<a, b>>, 1, 1)) = 1
        /\ SubSeq(<<a, b>>, 1, 1)[1] = a
    OBVIOUS
  <2>2. SubSeq(<<a, b>>, 1, 1) = <<a>>
    BY <1>2, <2>1
  <2>3. <<a, b>> \in Seq(Part) /\ Len(<<a, b>>) = 2 /\ Len(<<b>>) = 1
    OBVIOUS
  <2>4. SubSeq(<<a, b>>, 1, 0) = <<>>
    OBVIOUS
  <2>5. SubSeq(<<a, b>>, 1, 2) = <<a, b>>
    <3> DEFINE q == <<a, b>>
    <3>1. q \in Seq(Part) /\ Len(q) = 2
      BY <2>3
    <3> HIDE DEF q
    <3>2. SubSeq(q, 1, Len(q)) = q
      BY <3>1
    <3>3. SubSeq(q, 1, 2) = q
      BY <3>1, <3>2
    <3> QED  BY <3>3 DEF q
  <2> QED  BY <2>2, <2>3, <2>4, <2>5
<1> HIDE DEF Planned
<1>4. Planned = <<"full", "small">>
  BY DEF Planned
<1>5. /\ SubSeq(Planned, 1, 1) = <<"full">> /\ SubSeq(Planned, 1, 2) = Planned
      /\ SubSeq(Planned, 1, 0) = <<>>
      /\ Len(Planned) = 2 /\ Len(<<"small">>) = 1
  BY <1>1, <1>3, <1>4
<1>6. Len(<<>>) = 0
  OBVIOUS
<1>7. 2 - 2 = 0 /\ 2 - 1 = 1 /\ 2 - 0 = 2
  OBVIOUS
<1> QED  BY <1>5, <1>6, <1>7

LEMMA PutFailsClean ==
  ASSUME ItemInv, ImageInv, CleanInv, NEW w \in Writer, PutFails(w)
  PROVE  CleanInv'
<1> DEFINE j == job[w]
           s == SubSeq(Planned, 1, Len(Planned) - Len(j.parts))
           x == [j EXCEPT !.do = "unput", !.parts = s]
<1>1. /\ j.do = "put" /\ Does(w, x)
      /\ UNCHANGED <<items, status, stored, known, adrift>>
  BY DEF PutFails, pubRows
<1>2. Whole(j) /\ j.media \in Media
  BY <1>1 DEF ItemInv, JobOK, NoJob
<1>3. /\ x.do = "unput" /\ x.media = j.media /\ x.parts = s /\ x.failed = j.failed
      /\ x.to = j.to
  BY <1>2 DEF Whole, Fields
<1>4. Brings(j) /\ j.to \in States
      /\ \A p \in Part : <<j.media, p>> \in stored => p \notin Todo(j.parts)
  BY <1>1, <1>2, PublishingBounds DEF Brings, CleanInv, Tidy
<1>5. j.parts \in {Planned, <<"small">>, <<>>}
  BY <1>1, <1>4, BroughtAlone DEF Holds
<1>6. Clears(x, stored)
  <2>1. CASE j.parts = Planned
    <3>1. s = <<>>
      BY <2>1, StoredSoFar
    <3> QED  BY <1>3, <1>4, <2>1, <3>1, TodoIs DEF Clears
  <2>2. CASE j.parts = <<"small">>
    <3>1. s = <<"full">>
      BY <2>2, StoredSoFar
    <3> HIDE DEF s
    <3> QED  BY <1>3, <1>4, <2>2, <3>1, TodoIs DEF Clears, Part
  <2>3. CASE j.parts = <<>>
    <3>1. s = Planned
      BY <2>3, StoredSoFar
    <3> QED  BY <1>3, <3>1, TodoIs DEF Clears
  <2> QED  BY <1>5, <2>1, <2>2, <2>3
<1>7. Tidy(x, stored, adrift) /\ \A m : Covers(j, m) => Covers(x, m)
  BY <1>1, <1>3, <1>4, <1>6 DEF Tidy, Drops, Covers, Brings
<1> HIDE DEF x
<1> QED  BY <1>1, <1>7, CleanRest

LEMMA MarkClean ==
  ASSUME ItemInv, ImageInv, CleanInv, NEW w \in Writer, MarkPending(w)
  PROVE  CleanInv'
<1> DEFINE j == job[w]
           x == [j EXCEPT !.do = "erase"]
<1>1. /\ j.do = "mark" /\ Does(w, x)
      /\ status' = [status EXCEPT ![j.media] = "cleanup-pending"]
      /\ UNCHANGED <<items, stored, known, adrift>>
  BY DEF MarkPending, Goes, pubHistory
<1>2. Whole(j) /\ Drops(j)
  BY <1>1 DEF ItemInv, JobOK, NoJob, Drops
<1>3. x.do = "erase" /\ x.media = j.media /\ x.parts = j.parts /\ x.failed = j.failed
  BY <1>2 DEF Whole, Fields
<1>4. Tidy(j, stored, adrift)
  BY DEF CleanInv
<1>5. Tidy(x, stored, adrift)
  BY <1>2, <1>3, <1>4 DEF Tidy, Clears, Drops
<1>6. /\ \A m \in Media : m # j.media => status'[m] = status[m]
      /\ j.media \in Media /\ status'[j.media] = "cleanup-pending"
  BY <1>1, <1>2, DroppedAlone DEF ImageInv, RowsOfImages
<1>7. \A m : Covers(j, m) => m = j.media
  BY DEF Covers
<1>8. \A m \in Media : Shown(m) =>
        \E i \in Item : /\ items'[i] # NoRow /\ items'[i].state # "deleted"
                        /\ items'[i].media = m
  BY <1>1 DEF Shown, Alive
<1> HIDE DEF x
<1> QED  BY <1>1, <1>5, <1>6, <1>7, <1>8, CleanFrame

LEMMA ErasePartClean ==
  ASSUME ItemInv, ImageInv, CleanInv, NEW w \in Writer, ErasePart(w)
  PROVE  CleanInv'
<1> DEFINE j == job[w]
<1>1. /\ j.do \in {"erase", "unput"} /\ j.parts # <<>>
      /\ UNCHANGED <<items, status, known, adrift>>
  BY DEF ErasePart, pubRows
<1>2. Whole(j) /\ Tidy(j, stored, adrift)
  BY <1>1 DEF ItemInv, JobOK, NoJob, CleanInv
<1>3. PICK x : /\ Does(w, x) /\ x.do = j.do /\ x.media = j.media /\ x.to = j.to
               /\ x.parts = Tail(j.parts)
               /\ \/ /\ x.failed = j.failed
                     /\ stored' = stored \ {<<j.media, Head(j.parts)>>}
                  \/ x.failed /\ UNCHANGED stored
  <2> DEFINE y == [j EXCEPT !.parts = Tail(j.parts)]
             z == [j EXCEPT !.parts = Tail(j.parts), !.failed = TRUE]
  <2>1. \/ Does(w, y) /\ stored' = stored \ {<<j.media, Head(j.parts)>>}
        \/ Does(w, z) /\ UNCHANGED stored
    BY DEF ErasePart
  <2>2. /\ y.do = j.do /\ y.media = j.media /\ y.to = j.to /\ y.parts = Tail(j.parts)
        /\ y.failed = j.failed
        /\ z.do = j.do /\ z.media = j.media /\ z.to = j.to /\ z.parts = Tail(j.parts)
        /\ z.failed
    BY <1>2 DEF Whole, Fields
  <2> HIDE DEF y, z
  <2> QED  BY <2>1, <2>2
<1>4. Clears(j, stored) => Clears(x, stored')
  BY <1>1, <1>3, ClearsOne
<1>5. Tidy(x, stored', adrift')
  BY <1>1, <1>2, <1>3, <1>4 DEF Tidy, Drops
<1>6. \A m : Covers(j, m) => Covers(x, m)
  BY <1>1, <1>3 DEF Covers, Brings
<1>7. \A m \in Media, p \in Part : <<m, p>> \in stored' => <<m, p>> \in stored
  BY <1>3
<1>8. \A m \in Media : Shown(m) =>
        \E i \in Item : /\ items'[i] # NoRow /\ items'[i].state # "deleted"
                        /\ items'[i].media = m
  BY <1>1 DEF Shown, Alive
<1> QED  BY <1>1, <1>3, <1>5, <1>6, <1>7, <1>8, CleanFrame

LEMMA MarkDeletedClean ==
  ASSUME ItemInv, ImageInv, CleanInv, NEW w \in Writer, MarkDeleted(w)
  PROVE  CleanInv'
<1> DEFINE j == job[w]
<1>1. /\ j.do = "erase" /\ j.parts = <<>> /\ Does(w, NoJob)
      /\ \/ ~j.failed /\ status' = [status EXCEPT ![j.media] = "deleted"]
         \/ UNCHANGED status
      /\ UNCHANGED <<items, stored, known, adrift>>
  BY DEF MarkDeleted, Erased, pubHistory
<1>2. Drops(j) /\ Tidy(j, stored, adrift)
  BY <1>1 DEF Drops, CleanInv
<1>3. \A m : ~Covers(j, m)
  BY <1>1 DEF Covers, Brings
<1>4. \A m \in Media : m # j.media => status'[m] = status[m]
  BY <1>1, <1>2, DroppedAlone DEF ImageInv, RowsOfImages
<1>5. UNCHANGED status \/ <<j.media, "create">> \in adrift
      \/ \A p \in Part : <<j.media, p>> \notin stored
  BY <1>1, <1>2, TodoIs DEF Tidy, Clears
<1>6. \A m \in Media :
        \/ status'[m] = status[m]
        \/ <<m, "create">> \in adrift
        \/ \A p \in Part : <<m, p>> \notin stored
  BY <1>4, <1>5
<1>7. \A m : <<m, "create">> \in adrift => \E a \in adrift : a[1] = m
  OBVIOUS
<1>8. \A m \in Media : Shown(m) =>
        \E i \in Item : /\ items'[i] # NoRow /\ items'[i].state # "deleted"
                        /\ items'[i].media = m
  BY <1>1 DEF Shown, Alive
<1>9. UNCHANGED <<stored, known, adrift>> /\ Does(w, NoJob) /\ Tidy(NoJob, stored', adrift')
  BY <1>1, IdleIsTidy
<1> HIDE DEF j
<1> QED  BY <1>3, <1>6, <1>7, <1>8, <1>9, CleanFrame DEF j

(* A handler ends its work on an item and says what it lost track of.       *)
LEMMA LettingGoClean ==
  ASSUME ItemInv, ImageInv, CleanInv, NEW w \in Writer, RefuseFields(w) \/ PubDies(w)
  PROVE  CleanInv'
<1>1. Does(w, NoJob) /\ UNCHANGED <<items, status, stored, known>>
  BY DEF RefuseFields, PubDies, pubRows
<1>2. adrift \subseteq adrift'
  BY DEF RefuseFields, PubDies, Lost
<1>3. ASSUME NEW m \in Media, Covers(job[w], m)
      PROVE  \E a \in adrift' : a[1] = m
  <2>1. job[w].media = m
    BY <1>3 DEF Covers
  <2>2. CASE RefuseFields(w)
    <3>1. <<m, "refused">> \in adrift'
      BY <2>1, <2>2 DEF RefuseFields, Lost
    <3> QED  BY <3>1
  <2>3. CASE PubDies(w)
    <3>1. <<m, "died">> \in adrift'
      <4>1. m # NoMedia
        BY PublishingBounds
      <4> DEFINE lost == {job[w].media}
                    \cup IF job[w].base = NoRow THEN {} ELSE {job[w].base.media}
      <4>2. adrift' = adrift \cup ({<<n, "died">> : n \in lost} \ {<<NoMedia, "died">>})
        BY <2>3 DEF PubDies
      <4>3. m \in lost
        BY <2>1
      <4> HIDE DEF lost
      <4> QED  BY <4>1, <4>2, <4>3
    <3> QED  BY <3>1
  <2> QED  BY <2>2, <2>3
<1> QED  BY <1>1, <1>2, <1>3, IdleIsTidy, CleanRest

LEMMA CreateFailsClean ==
  ASSUME ItemInv, ImageInv, CleanInv, NEW w \in Writer, CreateFails(w)
  PROVE  CleanInv'
<1> DEFINE m == job[w].media
<1>1. /\ job[w].do = "commit" /\ Discards(w, m, <<"full">>)
      /\ UNCHANGED <<items, status, stored, known>> /\ adrift \subseteq adrift'
      /\ m # NoMedia => <<m, "create">> \in adrift'
  BY DEF CreateFails, Lost, pubRows
<1>2. m \in Media \cup {NoMedia}
  BY <1>1 DEF ItemInv, JobOK, NoJob
<1>3. PICK x : /\ Does(w, x) /\ Tidy(x, stored, adrift')
               /\ m # NoMedia => Covers(x, m)
  BY <1>1, <1>2, DiscardIsTidy
<1>4. \A n \in Media : Covers(job[w], n) => n = m /\ n # NoMedia
  BY PublishingBounds DEF Covers
<1> QED  BY <1>1, <1>3, <1>4, CleanRest

LEMMA SaveDraftClean ==
  ASSUME ItemInv, ImageInv, CleanInv, NEW w \in Writer, SaveDraft(w)
  PROVE  CleanInv'
<1> DEFINE j == job[w]
<1>1. /\ j.do = "unput" /\ j.parts = <<>> /\ Does(w, NoJob)
      /\ UNCHANGED <<status, stored, known>> /\ adrift \subseteq adrift'
      /\ j.failed => <<j.media, "unput">> \in adrift'
  BY DEF SaveDraft, Lost
<1>2. Tidy(j, stored, adrift) /\ j.item \in Item
  BY <1>1 DEF CleanInv, ItemInv, JobOK, NoJob
<1>3. (\E a \in adrift' : a[1] = j.media) \/ \A p \in Part : <<j.media, p>> \notin stored
  <2>1. CASE j.failed
    <3>1. <<j.media, "unput">> \in adrift'
      BY <1>1, <2>1
    <3> QED  BY <3>1
  <2>2. CASE ~j.failed
    BY <1>1, <1>2, <2>2, TodoIs DEF Tidy, Clears
  <2> QED  BY <2>1, <2>2
<1>4. \A m : Covers(j, m) => m = j.media
  BY DEF Covers
<1>5. \A i \in Item : Alive(i) => items'[i] = items[i]
  <2>1. CASE j.base = NoRow
    <3>1. items[j.item] = NoRow
      BY <1>1, <2>1 DEF ItemInv, Creates
    <3>2. items' = [items EXCEPT ![j.item] = Row(TRUE, "draft", NoMedia, 1, 0)]
      BY <2>1 DEF SaveDraft
    <3> QED  BY <1>2, <3>1, <3>2 DEF Alive, ItemInv
  <2>2. CASE j.base # NoRow
    BY <2>2 DEF SaveDraft
  <2> QED  BY <2>1, <2>2
<1>6. \A m \in Media : Shown(m) =>
        \E i \in Item : /\ items'[i] # NoRow /\ items'[i].state # "deleted"
                        /\ items'[i].media = m
  BY <1>5 DEF Shown, Alive
<1>7. Tidy(NoJob, stored', adrift')
  BY IdleIsTidy
<1> HIDE DEF j
<1> QED  BY <1>1, <1>3, <1>4, <1>6, <1>7, CleanFrame DEF j

(* A handler writes the row of its item: what the item showed is shown      *)
(* again or covered, and so is what the handler brought.                    *)
LEMMA CleanRow ==
  ASSUME ItemInv, ImageInv, CleanInv, NEW w \in Writer, NEW x, Does(w, x), NEW i \in Item,
         NEW r \in ItemRow, items' = [items EXCEPT ![i] = r],
         UNCHANGED <<status, stored, known, adrift>>, Tidy(x, stored, adrift),
         Alive(i) /\ items[i].media # NoMedia =>
            \/ Covers(x, items[i].media)
            \/ r.state # "deleted" /\ r.media = items[i].media,
         Brings(job[w]) => r.state # "deleted" /\ r.media = job[w].media,
         job[w].do # "mark"
  PROVE  CleanInv'
<1>1. /\ items'[i] = r /\ r # NoRow
      /\ \A k \in Item : k # i => items'[k] = items[k]
  BY PublishingBounds DEF ItemInv
<1>2. ASSUME NEW m \in Media, Shown(m)
      PROVE  Covers(x, m) \/
             \E k \in Item : /\ items'[k] # NoRow /\ items'[k].state # "deleted"
                             /\ items'[k].media = m
  <2>1. PICK k \in Item : Alive(k) /\ items[k].media = m
    BY <1>2 DEF Shown
  <2>2. CASE k = i
    <3>1. m # NoMedia
      BY PublishingBounds
    <3> QED  BY <1>1, <2>1, <2>2, <3>1
  <2>3. CASE k # i
    BY <1>1, <2>1, <2>3 DEF Alive
  <2> QED  BY <2>2, <2>3
<1>3. \A m \in Media : Covers(job[w], m) =>
        \E k \in Item : /\ items'[k] # NoRow /\ items'[k].state # "deleted"
                        /\ items'[k].media = m
  BY <1>1 DEF Covers
<1> QED  BY <1>2, <1>3, CleanFrame

LEMMA CommitCreateClean ==
  ASSUME ItemInv, ImageInv, CleanInv, NEW w \in Writer, CommitCreate(w)
  PROVE  CleanInv'
<1> DEFINE j == job[w]
           at == Published(NoRow, j.to)
           r == Row(j.media # NoMedia, j.to, j.media, 1, at)
<1>1. /\ Does(w, NoJob) /\ UNCHANGED <<status, stored, known, adrift>> /\ Creates(j)
      /\ j.do = "commit" /\ items' = [items EXCEPT ![j.item] = r]
  BY DEF CommitCreate, Creates
<1>2. /\ j.media \in Media \cup {NoMedia} /\ j.to \in States
      /\ j.item \in Item /\ at \in Nat /\ items[j.item] = NoRow
  <2>1. Tidy(j, stored, adrift)
    BY DEF CleanInv
  <2>2. j.to \in States
    BY <1>1, <2>1 DEF Tidy
  <2>3. j.media \in Media \cup {NoMedia} /\ j.item \in Item /\ items[j.item] = NoRow
    BY <1>1 DEF ItemInv, JobOK, NoJob
  <2>4. at \in Nat
    BY PublishedIsTime DEF ItemInv
  <2> HIDE DEF at
  <2> QED  BY <2>2, <2>3, <2>4
<1>3. r \in ItemRow /\ r.media = j.media /\ r.state # "deleted"
  <2> HIDE DEF at
  <2> QED  BY <1>2 DEF Row, ItemRow, States
<1>4. ~Alive(j.item) /\ Tidy(NoJob, stored, adrift)
  BY <1>2, IdleIsTidy DEF Alive
<1> HIDE DEF r
<1> QED  BY <1>1, <1>2, <1>3, <1>4, CleanRow

LEMMA CommitUpdateClean ==
  ASSUME ItemInv, ImageInv, CleanInv, NEW w \in Writer, CommitUpdate(w)
  PROVE  CleanInv'
<1> DEFINE j == job[w]
           m == IF j.media = NoMedia THEN j.base.media ELSE j.media
           at == Published(j.base, j.to)
           r == Row(j.base.photo, j.to, m, j.rev + 1, at)
<1>1. /\ UNCHANGED <<status, stored, known, adrift>> /\ stamps \in Nat
      /\ j.do = "commit" /\ Edits(j)
  BY DEF CommitUpdate, ItemInv, Edits
<1>2. /\ j.media \in Media \cup {NoMedia} /\ j.to \in States
      /\ j.base \in ItemRow /\ j.rev \in Nat /\ j.item \in Item
  <2>1. Tidy(j, stored, adrift)
    BY DEF CleanInv
  <2>2. j.to \in States
    BY <1>1, <2>1 DEF Tidy
  <2>3. /\ j.media \in Media \cup {NoMedia} /\ j.base \in ItemRow /\ j.rev \in Nat
        /\ j.item \in Item
    BY <1>1 DEF ItemInv, JobOK, NoJob, Edits
  <2> QED  BY <2>2, <2>3
<1>3. CASE SameRev(j.item, j.rev)
  <2>1. items[j.item] = j.base
    BY <1>1, <1>3, ReadsTheRow
  <2>2. at \in Nat /\ j.base.photo \in BOOLEAN /\ j.base.media \in Media \cup {NoMedia}
    BY <1>1, <1>2, PublishedIsTime DEF ItemRow
  <2>3. items' = [items EXCEPT ![j.item] = r] /\ Discards(w, Superseded(j), Planned)
    BY <1>3 DEF CommitUpdate
  <2>4. r \in ItemRow /\ r.media = m /\ r.state # "deleted"
    <3>1. m \in Media \cup {NoMedia} /\ j.rev + 1 \in Nat
      BY <1>2, <2>2
    <3> HIDE DEF m, at
    <3> QED  BY <1>2, <2>2, <3>1 DEF Row, ItemRow, States
  <2>5. PICK x : /\ Does(w, x) /\ Tidy(x, stored, adrift)
                 /\ Superseded(j) # NoMedia => Covers(x, Superseded(j))
    <3>1. Superseded(j) \in Media \cup {NoMedia}
      BY <2>2 DEF Superseded
    <3> QED  BY <2>3, <3>1, DiscardIsTidy
  <2>6. items[j.item].media # NoMedia =>
           \/ Covers(x, items[j.item].media)
           \/ r.state # "deleted" /\ r.media = items[j.item].media
    BY <2>1, <2>4, <2>5 DEF Superseded
  <2>7. Brings(j) => r.media = j.media
    BY <2>4 DEF Brings
  <2> HIDE DEF r, m
  <2> QED  BY <1>1, <1>2, <2>3, <2>4, <2>5, <2>6, <2>7, CleanRow
<1>4. CASE ~SameRev(j.item, j.rev)
  <2>1. UNCHANGED items /\ Discards(w, j.media, Planned)
    BY <1>4 DEF CommitUpdate
  <2>2. PICK x : /\ Does(w, x) /\ Tidy(x, stored, adrift)
                 /\ j.media # NoMedia => Covers(x, j.media)
    BY <1>2, <2>1, DiscardIsTidy
  <2>3. \A n \in Media : Covers(j, n) => n = j.media /\ n # NoMedia
    BY PublishingBounds DEF Covers
  <2> QED  BY <1>1, <2>1, <2>2, <2>3, CleanRest
<1> QED  BY <1>3, <1>4

LEMMA CommitDeleteClean ==
  ASSUME ItemInv, ImageInv, CleanInv, NEW w \in Writer, CommitDelete(w)
  PROVE  CleanInv'
<1> DEFINE j == job[w]
           r == Row(j.base.photo, "deleted", j.base.media, j.rev + 1, j.base.published)
<1>1. /\ UNCHANGED <<status, stored, known, adrift>> /\ j.do = "bury" /\ Edits(j)
      /\ ~Brings(j)
  BY DEF CommitDelete, ItemInv, Edits, JobOK, NoJob, pubHistory, Brings
<1>2. j.base \in ItemRow /\ j.rev \in Nat /\ j.item \in Item
  BY <1>1 DEF ItemInv, JobOK, NoJob, Edits
<1>3. CASE SameRev(j.item, j.rev)
  <2>1. items[j.item] = j.base
    BY <1>1, <1>3, ReadsTheRow
  <2>2. /\ j.base.photo \in BOOLEAN /\ j.base.media \in Media \cup {NoMedia}
        /\ j.base.published \in Nat /\ j.rev + 1 \in Nat
    BY <1>2 DEF ItemRow
  <2>3. items' = [items EXCEPT ![j.item] = r] /\ Discards(w, j.base.media, Planned)
    BY <1>3 DEF CommitDelete
  <2>4. r \in ItemRow
    BY <2>2 DEF Row, ItemRow
  <2> HIDE DEF r
  <2>5. PICK x : /\ Does(w, x) /\ Tidy(x, stored, adrift)
                 /\ j.base.media # NoMedia => Covers(x, j.base.media)
    BY <2>2, <2>3, DiscardIsTidy
  <2> QED  BY <1>1, <1>2, <2>1, <2>3, <2>4, <2>5, CleanRow
<1>4. CASE ~SameRev(j.item, j.rev)
  <2>1. UNCHANGED items /\ Does(w, NoJob)
    BY <1>4 DEF CommitDelete
  <2>2. \A m : ~Covers(j, m)
    BY <1>1 DEF Covers
  <2> QED  BY <1>1, <2>1, <2>2, IdleIsTidy, CleanRest
<1> QED  BY <1>3, <1>4

LEMMA VisitorClean ==
  ASSUME ItemInv, ImageInv, CleanInv, LookUp \/ Serve
  PROVE  CleanInv'
<1>1. /\ UNCHANGED <<items, stored, job, known>> /\ adrift \subseteq adrift'
      /\ \A m \in Media : \/ status'[m] = status[m]
                          \/ status'[m] = "missing" /\ <<m, "read">> \in adrift'
  <2>1. CASE LookUp
    BY <2>1 DEF LookUp, pubRows, pubHistory
  <2>2. CASE Serve /\ UNCHANGED <<status, adrift>>
    BY <2>2 DEF Serve
  <2>3. CASE Serve /\ status' = [status EXCEPT ![reading] = "missing"] /\ Lost(reading, "read")
    <3>1. reading \in Media
      BY <2>3 DEF Serve, ImageInv, RowsOfImages
    <3> QED  BY <2>3, <3>1 DEF Serve, Lost, ImageInv, RowsOfImages
  <2> QED  BY <2>1, <2>2, <2>3 DEF Serve
<1>2. ASSUME NEW v \in Writer
      PROVE  Tidy(job[v], stored', adrift')
  BY <1>1, StaysTidy DEF CleanInv
<1>3. \A v \in Writer : Tidy(job[v], stored, adrift)' <=> Tidy(job[v], stored', adrift')
  BY <1>1 DEF Tidy, Drops
<1>4. ASSUME NEW m \in Media
      PROVE  Answered(m)'
  <2>1. Answered(m)
    BY DEF CleanInv
  <2>2. \/ status'[m] = status[m]
        \/ \E a \in adrift' : a[1] = m
    <3>1. <<m, "read">> \in adrift' => \E a \in adrift' : a[1] = m
      OBVIOUS
    <3> QED  BY <1>1, <3>1
  <2> QED  BY <1>1, <2>1, <2>2 DEF Answered, Bare, Shown, Alive, Covers, Brings
<1>5. \A m \in Media : status'[m] = "deleted" => status[m] = "deleted"
  BY <1>1
<1> QED  BY <1>1, <1>2, <1>3, <1>4, <1>5 DEF CleanInv, Bare

LEMMA CleanStep ==
  ASSUME ItemInv, ImageInv, CleanInv, [PubNext]_pubVars
  PROVE  CleanInv'
<1>1. CASE UNCHANGED pubVars
  BY <1>1 DEF pubVars, pubRows, pubHistory, CleanInv, Bare, Tidy, Drops, Answered, Shown, Alive,
     Covers, Brings
<1>2. ASSUME NEW w \in Writer, BeginCreate(w) \/ BeginUpdate(w)
      PROVE  CleanInv'
  <2>1. UNCHANGED <<items, status, stored, adrift>> /\ job[w] = NoJob
    BY <1>2 DEF BeginCreate, BeginUpdate, pubRows
  <2>2. \E i, b, rev : \E to \in States : WithImage(w, i, b, rev, to)
    BY <1>2 DEF BeginCreate, BeginUpdate
  <2> QED  BY <2>1, <2>2, BeginsClean
<1> QED  BY <1>1, <1>2, VisitorClean, BeginsOtherClean, PutPartClean, SaveMediaClean,
         PutFailsClean, SaveDraftClean, CommitCreateClean, CreateFailsClean,
         CommitUpdateClean, LettingGoClean, CommitDeleteClean, MarkClean, ErasePartClean,
         MarkDeletedClean DEF PubNext

LEMMA CleanAlways == PubSpec => [](ItemInv /\ ImageInv /\ CleanInv)
<1>1. PubInit => ItemInv /\ ImageInv /\ CleanInv
  BY PubStart, ImagesStart, CleanStart
<1>2. ItemInv /\ ImageInv /\ CleanInv /\ [PubNext]_pubVars =>
        ItemInv' /\ ImageInv' /\ CleanInv'
  BY ItemStep, ImageStep, CleanStep
<1> QED  BY <1>1, <1>2, PTL DEF PubSpec

(* An asset marked deleted has left nothing in the storage, but variants of *)
(* an image whose item could not be created, for any number of handlers and *)
(* retries that overlap.                                                    *)
THEOREM DeletedImagesAreGone == PubSpec => []DeletedIsGone
<1>1. CleanInv => DeletedIsGone
  BY DEF CleanInv, DeletedIsGone, Bare, Objects
<1> QED  BY <1>1, CleanAlways, PTL

(* Every object in the storage is shown, worked on, or marked for a retry,  *)
(* but for the ways in which the code loses track of an image.              *)
THEOREM NobodyIsOrphaned == PubSpec => []NoOrphans
<1>1. ASSUME NEW m \in Media, NEW w \in Writer, Covers(job[w], m)
      PROVE  Working(m)
  <2>1. job[w] # NoJob /\ m = job[w].media
    BY <1>1 DEF Covers, Brings, NoJob
  <2> QED  BY <2>1 DEF Working
<1>2. CleanInv => NoOrphans
  BY <1>1 DEF CleanInv, Answered, NoOrphans, Bare, Objects
<1> QED  BY <1>2, CleanAlways, PTL
----------------------------------------------------------------------------
\* The shelf.  Whatever handlers do between their calls, a row that is saved
\* follows upon the row as it is.

\* No item has a later publication time than the latest.
Dated == \A i \in Item : items[i] # NoRow => items[i].published <= stamps

(* A row that is saved is a version of its item, if its publication time is *)
(* what the code makes of the one the item has.                             *)
LEMMA SavesVersion ==
  ASSUME ItemInv, NEW i \in Item, NEW photo, NEW to, NEW m, NEW rev, NEW base,
         NEW was \in Nat, was <= stamps,
         base = NoRow => was = 0, base # NoRow => was = base.published,
         items' = [items EXCEPT ![i] = Row(photo, to, m, rev, Published(base, to))],
         stamps' = IF Published(base, to) > stamps THEN Published(base, to) ELSE stamps
  PROVE  Display!Version(i, photo, to, m, rev, was)
<1> DEFINE at == Published(base, to)
<1>1. stamps \in Nat
  BY DEF ItemInv
<1>2. IF was = 0 /\ to = "public"
      THEN stamps' \in Nat /\ at = stamps' /\ stamps < stamps'
      ELSE at = was /\ stamps' = stamps
  BY <1>1 DEF Published
<1> HIDE DEF at
<1>3. at \in {was, stamps'}
  BY <1>2
<1>4. items' = [items EXCEPT ![i] = [photo |-> photo, state |-> to, media |-> m,
                                     rev |-> rev, published |-> at]]
  BY DEF Row, at
<1> QED  BY <1>2, <1>3, <1>4 DEF Display!Version

(* A first row differs from none, and the next from the one before.         *)
LEMMA Differs ==
  ASSUME ItemInv, NEW i \in Item, NEW r \in ItemRow, items' = [items EXCEPT ![i] = r],
         items[i] = NoRow \/ r.rev > items[i].rev
  PROVE  items'[i] # items[i]
<1>1. items'[i] = r
  BY DEF ItemInv
<1>2. items[i] = NoRow => r # items[i]
  BY PublishingBounds
<1>3. items[i] # NoRow => r # items[i]
  BY DEF ItemInv, ItemRow
<1> QED  BY <1>1, <1>2, <1>3

(* An image that a handler brings is on no item.                            *)
LEMMA BroughtIsUnshown ==
  ASSUME ImageInv, NEW w \in Writer, job[w].do = "commit", job[w].media # NoMedia
  PROVE  Display!Unshown(job[w].media)
BY DEF ImageInv, JobsOfImages, Brings, Display!Unshown

LEMMA SaveDraftKept ==
  ASSUME ItemInv, NEW w \in Writer, SaveDraft(w)
  PROVE  [Display!Next]_Display!vars
<1>1. CASE job[w].base = NoRow
  <2> DEFINE i == job[w].item
  <2>1. Creates(job[w])
    BY <1>1 DEF SaveDraft, Creates
  <2>2. i \in Item /\ items[i] = NoRow
    BY <2>1 DEF ItemInv, JobOK, NoJob, Creates
  <2>3. /\ items' = [items EXCEPT ![i] = Row(TRUE, "draft", NoMedia, 1, 0)]
        /\ stamps' = stamps /\ stamps \in Nat
    BY <1>1 DEF SaveDraft, ItemInv
  <2>4. Published(NoRow, "draft") = 0
    BY DEF Published
  <2> DEFINE at == Published(NoRow, "draft")
  <2>7. /\ items' = [items EXCEPT ![i] = Row(TRUE, "draft", NoMedia, 1, at)]
        /\ stamps' = IF at > stamps THEN at ELSE stamps
    <3>1. at = 0 /\ ~(0 > stamps)
      BY <2>3, <2>4
    <3> QED  BY <2>3, <3>1
  <2>8. 0 \in Nat /\ 0 <= stamps
    BY <2>3
  <2>5. Display!Version(i, TRUE, "draft", NoMedia, 1, 0)
    BY <2>2, <2>7, <2>8, SavesVersion
  <2>6. items'[i] # items[i]
    BY <2>2, <2>3, RowIs, Differs
  <2> QED  BY <2>2, <2>5, <2>6 DEF Display!Put, Display!Next
<1>2. CASE job[w].base # NoRow
  BY <1>2 DEF SaveDraft, Display!vars
<1> QED  BY <1>1, <1>2

LEMMA CommitCreateKept ==
  ASSUME ItemInv, ImageInv, NEW w \in Writer, CommitCreate(w)
  PROVE  [Display!Next]_Display!vars
<1> DEFINE i == job[w].item
           m == job[w].media
           to == job[w].to
           at == Published(NoRow, to)
<1>1. Creates(job[w]) /\ job[w].do = "commit"
  BY DEF CommitCreate, Creates
<1>2. /\ i \in Item /\ items[i] = NoRow
      /\ m \in Media \cup {NoMedia} /\ to \in {"draft", "public"} /\ stamps \in Nat
  BY <1>1 DEF ItemInv, JobOK, NoJob, Creates, States
<1>3. at \in Nat /\ (at = 0 \/ at > stamps)
  BY <1>2 DEF Published
<1>4. /\ items' = [items EXCEPT ![i] = Row(m # NoMedia, to, m, 1, at)]
      /\ stamps' = IF at > stamps THEN at ELSE stamps
  BY <1>2, <1>3 DEF CommitCreate
<1>5. Row(m # NoMedia, to, m, 1, at) \in ItemRow
  <2> HIDE DEF at
  <2> QED  BY <1>2, <1>3, RowIs
<1>6. items'[i] # items[i]
  BY <1>2, <1>4, <1>5, Differs
<1>7. Display!Version(i, m # NoMedia, to, m, 1, 0)
  <2>1. 0 \in Nat /\ 0 <= stamps
    BY <1>2
  <2> QED  BY <1>2, <1>4, <2>1, SavesVersion
<1>8. m = NoMedia \/ Display!Unshown(m)
  BY <1>1, BroughtIsUnshown
<1>9. Display!Put(i)
  BY <1>2, <1>7, <1>8 DEF Display!Put
<1> QED  BY <1>2, <1>6, <1>9 DEF Display!Next

LEMMA CommitUpdateKept ==
  ASSUME ItemInv, ImageInv, Dated, NEW w \in Writer, CommitUpdate(w)
  PROVE  [Display!Next]_Display!vars
<1> DEFINE j == job[w]
           i == j.item
           m == IF j.media = NoMedia THEN j.base.media ELSE j.media
           at == Published(j.base, j.to)
<1>1. Edits(j) /\ j.do = "commit" /\ stamps \in Nat
  BY DEF CommitUpdate, Edits, ItemInv
<1>2. CASE SameRev(i, j.rev)
  <2>1. /\ i \in Item /\ j.base \in ItemRow /\ items[i] = j.base
        /\ j.rev = items[i].rev /\ j.base.state # "deleted" /\ j.rev \in Nat
    BY <1>1, <1>2, ReadsTheRow
  <2>2. j.to \in {"draft", "public"} /\ j.media \in Media \cup {NoMedia}
    BY <1>1 DEF ItemInv, JobOK, NoJob, States
  <2>3. /\ j.base # NoRow /\ j.base.published \in Nat /\ j.base.published <= stamps
        /\ j.base.photo \in BOOLEAN /\ j.base.media \in Media \cup {NoMedia}
    BY <1>1, <2>1 DEF Dated, ItemRow, Edits
  <2>4. /\ items' = [items EXCEPT ![i] = Row(j.base.photo, j.to, m, j.rev + 1, at)]
        /\ stamps' = IF at > stamps THEN at ELSE stamps
        /\ j.base.photo = (m # NoMedia)
    BY <1>2 DEF CommitUpdate
  <2>5. m \in Media \cup {NoMedia} /\ (m = items[i].media \/ Display!Unshown(m))
    BY <1>1, <2>1, <2>2, <2>3, BroughtIsUnshown
  <2>6. at \in Nat
    BY <1>1, <2>1, PublishedIsTime
  <2> HIDE DEF m, at
  <2>7. Row(j.base.photo, j.to, m, j.rev + 1, at) \in ItemRow
        /\ Row(j.base.photo, j.to, m, j.rev + 1, at).rev > items[i].rev
    BY <2>1, <2>2, <2>3, <2>5, <2>6 DEF Row, ItemRow
  <2>8. items'[i] # items[i]
    BY <2>1, <2>4, <2>7, Differs
  <2>9. Display!Version(i, j.base.photo, j.to, m, j.rev + 1, j.base.published)
    BY <2>1, <2>3, <2>4, SavesVersion DEF at
  <2>10. Display!Edit(i)
    BY <2>1, <2>2, <2>3, <2>4, <2>5, <2>9 DEF Display!Edit
  <2> QED  BY <2>1, <2>8, <2>10 DEF Display!Next
<1>3. CASE ~SameRev(i, j.rev)
  BY <1>3 DEF CommitUpdate, Display!vars
<1> QED  BY <1>2, <1>3

LEMMA CommitDeleteKept ==
  ASSUME ItemInv, Dated, NEW w \in Writer, CommitDelete(w)
  PROVE  [Display!Next]_Display!vars
<1> DEFINE j == job[w]
           i == j.item
           at == Published(j.base, "deleted")
<1>1. Edits(j) /\ UNCHANGED stamps /\ stamps \in Nat
  BY DEF CommitDelete, Edits, ItemInv, JobOK, NoJob, pubHistory
<1>2. CASE SameRev(i, j.rev)
  <2>1. /\ i \in Item /\ j.base \in ItemRow /\ items[i] = j.base
        /\ j.rev = items[i].rev /\ j.base.state # "deleted" /\ j.rev \in Nat
    BY <1>1, <1>2, ReadsTheRow
  <2>2. /\ j.base # NoRow /\ j.base.published \in Nat /\ j.base.published <= stamps
        /\ j.base.photo \in BOOLEAN /\ j.base.media \in Media \cup {NoMedia}
    BY <1>1, <2>1 DEF Dated, ItemRow, Edits
  <2>3. at = j.base.published
    BY <2>2 DEF Published
  <2> HIDE DEF at
  <2>4. /\ items' = [items EXCEPT ![i] = Row(j.base.photo, "deleted", j.base.media,
                                             j.rev + 1, at)]
        /\ stamps' = IF at > stamps THEN at ELSE stamps
    <3>1. ~(at > stamps)
      BY <1>1, <2>2, <2>3
    <3> QED  BY <1>1, <1>2, <2>3, <3>1 DEF CommitDelete
  <2>5. Row(j.base.photo, "deleted", j.base.media, j.rev + 1, at) \in ItemRow
        /\ Row(j.base.photo, "deleted", j.base.media, j.rev + 1, at).rev > items[i].rev
    BY <2>1, <2>2, <2>3 DEF Row, ItemRow
  <2>6. items'[i] # items[i]
    BY <2>1, <2>4, <2>5, Differs
  <2>7. Display!Version(i, j.base.photo, "deleted", j.base.media, j.rev + 1,
                        j.base.published)
    BY <2>1, <2>2, <2>4, SavesVersion DEF at
  <2> QED  BY <2>1, <2>2, <2>6, <2>7 DEF Display!Bury, Display!Next
<1>3. CASE ~SameRev(i, j.rev)
  BY <1>1, <1>3 DEF CommitDelete, Display!vars
<1> QED  BY <1>2, <1>3

LEMMA KeptStep ==
  ASSUME ItemInv, ImageInv, Dated, [PubNext]_pubVars
  PROVE  [Display!Next]_Display!vars
<1>1. CASE LookUp \/ Serve \/ UNCHANGED pubVars
  BY <1>1 DEF LookUp, Serve, pubVars, pubRows, pubHistory, Display!vars
<1>2. ASSUME NEW w \in Writer,
             \/ BeginCreate(w) \/ BeginUpdate(w) \/ PutPart(w) \/ SaveMedia(w)
             \/ PutFails(w) \/ CreateFails(w) \/ RefuseFields(w) \/ BeginDelete(w)
             \/ MarkPending(w) \/ ErasePart(w) \/ MarkDeleted(w) \/ BeginRetry(w)
             \/ PubDies(w)
      PROVE  UNCHANGED <<items, stamps>>
  BY <1>2 DEF BeginCreate, BeginUpdate, PutPart, SaveMedia, PutFails, CreateFails,
     RefuseFields, BeginDelete, MarkPending, ErasePart, MarkDeleted, BeginRetry, PubDies,
     pubRows, pubHistory
<1> QED  BY <1>1, <1>2, SaveDraftKept, CommitCreateKept, CommitUpdateKept,
         CommitDeleteKept DEF PubNext, Display!vars

(* Times stay in the past, which every step of a shelf sees to.             *)
LEMMA DatedStep ==
  ASSUME ItemInv, ItemInv', Dated, [Display!Next]_Display!vars
  PROVE  Dated'
<1>1. CASE UNCHANGED <<items, stamps>>
  BY <1>1 DEF Dated
<1>2. ASSUME NEW i \in Item, Display!Put(i) \/ Display!Edit(i) \/ Display!Bury(i)
      PROVE  Dated'
  <2>1. stamps \in Nat /\ items \in [Item -> ItemRow \cup {NoRow}]
    BY DEF ItemInv
  <2>2. PICK photo, state, m, rev, was :
           /\ Display!Version(i, photo, state, m, rev, was)
           /\ was \in Nat /\ was <= stamps
    <3>1. CASE Display!Put(i)
      <4>1. \E photo, state, m : Display!Version(i, photo, state, m, 1, 0)
        BY <3>1 DEF Display!Put
      <4> QED  BY <2>1, <4>1
    <3>2. CASE Display!Edit(i) \/ Display!Bury(i)
      <4>1. items[i] \in ItemRow /\ items[i].published <= stamps
        BY <1>2, <2>1, <3>2 DEF Display!Edit, Display!Bury, Dated
      <4>2. items[i].published \in Nat
        BY <4>1 DEF ItemRow
      <4>3. \E photo, state, m, rev :
               Display!Version(i, photo, state, m, rev, items[i].published)
        BY <3>2 DEF Display!Edit, Display!Bury
      <4> QED  BY <4>1, <4>2, <4>3
    <3> QED  BY <1>2, <3>1, <3>2
  <2>3. PICK at : /\ at <= stamps' /\ stamps <= stamps' /\ stamps' \in Nat
                  /\ items' = [items EXCEPT ![i] =
                        [photo |-> photo, state |-> state, media |-> m, rev |-> rev,
                         published |-> at]]
    <3>1. PICK at \in {was, stamps'} :
             /\ items' = [items EXCEPT ![i] =
                   [photo |-> photo, state |-> state, media |-> m, rev |-> rev,
                    published |-> at]]
             /\ IF was = 0 /\ state = "public"
                THEN stamps' \in Nat /\ at = stamps' /\ stamps < stamps'
                ELSE at = was /\ stamps' = stamps
      BY <2>2 DEF Display!Version
    <3>2. at <= stamps' /\ stamps <= stamps' /\ stamps' \in Nat
      BY <2>1, <2>2, <3>1
    <3> QED  BY <3>1, <3>2
  <2>4. ASSUME NEW k \in Item, items'[k] # NoRow
        PROVE  items'[k].published <= stamps'
    <3>1. CASE k = i  BY <2>1, <2>3, <3>1
    <3>2. CASE k # i
      <4>1. items'[k] = items[k] /\ items[k].published \in Nat
        BY <2>1, <2>3, <2>4, <3>2 DEF ItemRow
      <4> QED  BY <2>1, <2>3, <2>4, <4>1 DEF Dated
    <3> QED  BY <3>1, <3>2
  <2> QED  BY <2>4 DEF Dated
<1> QED  BY <1>1, <1>2 DEF Display!Next, Display!vars

(* The owner's items change as those of a shelf do: every change that is    *)
(* saved starts from the row as it is, for any number of handlers, items    *)
(* and images, whatever fails or dies between the calls.                    *)
THEOREM ImplementsShelf == PubSpec => KeepsShelf
<1>1. PubInit => Display!Init /\ Dated
  BY DEF PubInit, Display!Init, Dated
<1>2. PubInit => ItemInv /\ ImageInv
  BY PubStart, ImagesStart
<1>3. ItemInv /\ ImageInv /\ Dated /\ [PubNext]_pubVars =>
        ItemInv' /\ ImageInv' /\ Dated' /\ [Display!Next]_Display!vars
  BY ItemStep, ImageStep, KeptStep, DatedStep
<1> QED  BY <1>1, <1>2, <1>3, PTL DEF PubSpec, KeepsShelf, Display!Spec
=============================================================================
