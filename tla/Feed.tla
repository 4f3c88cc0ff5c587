-------------------------------- MODULE Feed --------------------------------
(***************************************************************************)
(* What remote actors and the owner do to posts: FeedService of feed.py    *)
(* over the remote_objects, interactions and notifications tables.         *)
(*                                                                         *)
(* The inbox route hands an activity to receive whenever it is delivered,  *)
(* a repeated delivery too, and peers deliver in any order.  A handler     *)
(* reads rows in one call of the store and writes whole rows in a later    *)
(* one, while another process serves the next delivery or the owner.       *)
(* Blocks, mutes and follows are Relationships'; here they just change.    *)
(* What the owner's interactions enqueue is DeliveryQueue's; a failure to  *)
(* enqueue is swallowed and changes nothing here.                          *)
(***************************************************************************)
EXTENDS Integers, FiniteSets

CONSTANTS
    Actor,       \* remote actors
    Post,        \* local public posts
    Serial,      \* tells activities apart that say the same
    Handler,     \* handlers of deliveries and of the owner's forms
    Owner,       \* the owner as an actor
    Absent,      \* no such row
    MaxCalls,    \* bound on deliveries and forms
    MaxChanges,  \* bound on changes of a relationship
    MaxDeaths    \* bound on handlers that die

\* remote_objects identifiers: every remote actor publishes one object here.
Note == [by : Actor]
Target == Note \cup Post

ASSUME FeedBounds ==
    /\ Owner \notin Actor /\ Note \cap Post = {}
    /\ MaxCalls \in Nat /\ MaxChanges \in Nat /\ MaxDeaths \in Nat

\* The activities that concern the feed.  An object is created, updated and
\* deleted by its own actor: others are refused.
Activity ==
    [type : {"Create", "Update", "Delete", "Follow"}, actor : Actor, serial : Serial]
    \cup [type : {"Like", "Announce", "UndoLike", "UndoAnnounce"}, actor : Actor,
          on : Target, serial : Serial]

KindOf(type) == IF type \in {"Like", "UndoLike"} THEN "like" ELSE "repost"

VARIABLES
    bond,     \* relationships: following, muted, blocked
    remote,   \* remote_objects
    edges,    \* interactions
    notices,  \* notifications that are not dismissed
    replies,  \* content_items that reply stored
    turn,     \* what a handler has in hand
    calls, changes, deaths   \* history: how many so far

feedRows == <<bond, remote, edges, notices, replies>>
feedVars == <<feedRows, turn, calls, changes, deaths>>

NoTurn == [do |-> "idle"]

\* A block ends a follow, and says nothing about muting.
Bond == {b \in [following : BOOLEAN, muted : BOOLEAN, blocked : BOOLEAN] :
            b.blocked => ~b.following}

Stranger == [following |-> FALSE, muted |-> FALSE, blocked |-> FALSE]

FeedInit ==
    /\ bond \in [Actor -> Bond]
    /\ remote = [o \in Note |-> Absent]
    /\ edges = {} /\ notices = {} /\ replies = {}
    /\ turn = [h \in Handler |-> NoTurn]
    /\ calls = 0 /\ changes = 0 /\ deaths = 0

Turns(h, next) == turn' = [turn EXCEPT ![h] = next]
Calls == calls < MaxCalls /\ calls' = calls + 1

\* The owner follows, mutes, blocks, or takes it back.
ChangeBond ==
    /\ changes < MaxChanges /\ changes' = changes + 1
    /\ \E a \in Actor, b \in Bond : bond' = [bond EXCEPT ![a] = b]
    /\ UNCHANGED <<remote, edges, notices, replies, turn, calls, deaths>>

----------------------------------------------------------------------------
\* Deliveries.

\* receive turns away who is blocked.
Receive(h) ==
    /\ turn[h] = NoTurn /\ Calls
    /\ \E act \in Activity : ~bond[act.actor].blocked
                             /\ Turns(h, [do |-> "look", act |-> act])
    /\ UNCHANGED <<feedRows, changes, deaths>>

ActiveEdges(kind, by, on) ==
    {e \in edges : e.kind = kind /\ e.by = by /\ e.on = on /\ ~e.undone}

\* What a handler is going to write, the row that it read, and the notice for
\* it, if the activity is about the owner.
Write(act, row, seen, tells) ==
    [do |-> "write", act |-> act, row |-> row, seen |-> seen, tells |-> tells]

Edge(id, kind, by, on) ==
    [id |-> id, kind |-> kind, by |-> by, on |-> on, undone |-> FALSE]

NewObject == [text |-> TRUE, deleted |-> FALSE, unavailable |-> FALSE]

\* A plausible slip: making the row anew from the activity.
UpdatedAnew(row) == NewObject

\* An update leaves deleted_at and what else it does not name as it was.
Updated(row) == [row EXCEPT !.text = TRUE]

Tombstone(row) == [row EXCEPT !.text = FALSE, !.deleted = TRUE]

\* _receive_create.  The object may be a reply to the owner or mention them.
LookCreate(h) ==
    /\ turn[h].do = "look" /\ turn[h].act.type = "Create"
    /\ LET act == turn[h].act IN
       IF bond[act.actor].following /\ remote[[by |-> act.actor]] = Absent
       THEN \E tells \in BOOLEAN : Turns(h, Write(act, NewObject, Absent, tells))
       ELSE Turns(h, NoTurn)
    /\ UNCHANGED <<feedRows, calls, changes, deaths>>

\* _receive_update and _receive_delete: an object that is not there yet is not
\* remembered as deleted either.
LookObject(h) ==
    /\ turn[h].do = "look" /\ turn[h].act.type \in {"Update", "Delete"}
    /\ LET act == turn[h].act
           row == remote[[by |-> act.actor]]
       IN Turns(h, IF row = Absent THEN NoTurn
                   ELSE Write(act, IF act.type = "Update" THEN Updated(row)
                                                          ELSE Tombstone(row),
                              row, FALSE))
    /\ UNCHANGED <<feedRows, calls, changes, deaths>>

\* _receive_edge: neither this activity nor another one for the same edge.
LookEdge(h) ==
    /\ turn[h].do = "look" /\ turn[h].act.type \in {"Like", "Announce"}
    /\ LET act == turn[h].act
           kind == KindOf(act.type)
       IN Turns(h, IF \/ \E e \in edges : e.id = act
                      \/ ActiveEdges(kind, act.actor, act.on) # {}
                   THEN NoTurn
                   ELSE Write(act, Edge(act, kind, act.actor, act.on), Absent,
                              act.on \in Post))
    /\ UNCHANGED <<feedRows, calls, changes, deaths>>

\* _receive_undo names the edge, not the activity that made it.
LookUndo(h) ==
    /\ turn[h].do = "look" /\ turn[h].act.type \in {"UndoLike", "UndoAnnounce"}
    /\ LET act == turn[h].act
           active == ActiveEdges(KindOf(act.type), act.actor, act.on)
       IN IF active = {} THEN Turns(h, NoTurn)
          ELSE \E e \in active : Turns(h, Write(act, [e EXCEPT !.undone = TRUE], e, FALSE))
    /\ UNCHANGED <<feedRows, calls, changes, deaths>>

\* _notify_relationship, after Relationships has had the Follow.
LookFollow(h) ==
    /\ turn[h].do = "look" /\ turn[h].act.type = "Follow"
    /\ Turns(h, [do |-> "ask", act |-> turn[h].act])
    /\ UNCHANGED <<feedRows, calls, changes, deaths>>

After(t) == IF t.tells THEN [do |-> "ask", act |-> t.act] ELSE NoTurn

\* upsert_remote_object writes the whole row, whatever it has become.
WriteObject(h) ==
    /\ turn[h].do = "write"
    /\ turn[h].act.type \in {"Create", "Update", "Delete", "mark"}
    /\ remote' = [remote EXCEPT ![[by |-> turn[h].act.actor]] = turn[h].row]
    /\ Turns(h, After(turn[h]))
    /\ UNCHANGED <<bond, edges, notices, replies, calls, changes, deaths>>

\* A plausible slip: without the unique index on active interactions.
IndexFreeAlways(e) == TRUE

\* idx_interactions_active: no other active edge of the same kind between them.
IndexFree(e) ==
    e.undone \/ \A f \in ActiveEdges(e.kind, e.by, e.on) : f.id = e.id

\* save_interaction inserts, or updates the row of the same id; the index makes
\* it fail, and the handler with it.
WriteEdge(h) ==
    /\ turn[h].do = "write"
    /\ turn[h].act.type \notin {"Create", "Update", "Delete", "mark"}
    /\ LET e == turn[h].row IN
       IF IndexFree(e)
       THEN /\ edges' = {f \in edges : f.id # e.id} \cup {e}
            /\ Turns(h, After(turn[h]))
       ELSE Turns(h, NoTurn) /\ UNCHANGED edges
    /\ UNCHANGED <<bond, remote, notices, replies, calls, changes, deaths>>

\* _notify: a muted actor is silent, but for Follows and answers to ours; an
\* activity that has a notice gets no other.
Ask(h) ==
    /\ turn[h].do = "ask"
    /\ LET act == turn[h].act IN
       Turns(h, IF \/ bond[act.actor].muted /\ act.type # "Follow"
                   \/ \E n \in notices : n.act = act
                THEN NoTurn
                ELSE [do |-> "tell", act |-> act])
    /\ UNCHANGED <<feedRows, calls, changes, deaths>>

\* idx_notifications_activity
Untold(act) == \A n \in notices : n.act # act

Tell(h) ==
    /\ turn[h].do = "tell"
    /\ notices' = IF Untold(turn[h].act)
                  THEN notices \cup {[act |-> turn[h].act, by |-> h]} ELSE notices
    /\ Turns(h, NoTurn)
    /\ UNCHANGED <<bond, remote, edges, replies, calls, changes, deaths>>

----------------------------------------------------------------------------
\* The owner.

\* Identifiers of the owner's activities and replies.
OwnId(n) == [type |-> "own", nr |-> n]
Act(type, on) == [type |-> type, actor |-> Owner, on |-> on]

\* _edge for a like or a repost; deleted objects are not reposted.
OwnerEdge(h) ==
    /\ turn[h] = NoTurn /\ Calls
    /\ \E kind \in {"like", "repost"}, x \in Target :
          /\ kind = "repost" /\ x \in Note /\ remote[x] # Absent => ~remote[x].deleted
          /\ ActiveEdges(kind, Owner, x) = {}
          /\ Turns(h, Write(Act(kind, x), Edge(OwnId(calls), kind, Owner, x), Absent,
                            FALSE))
    /\ UNCHANGED <<feedRows, changes, deaths>>

\* _undo_edge
OwnerUndo(h) ==
    /\ turn[h] = NoTurn /\ Calls
    /\ \E e \in edges : /\ e.by = Owner /\ e.kind # "reply" /\ ~e.undone
                        /\ Turns(h, Write(Act("undo", e.on), [e EXCEPT !.undone = TRUE], e,
                                          FALSE))
    /\ UNCHANGED <<feedRows, changes, deaths>>

\* reply stores the text as a content item, and then its interaction.
OwnerReply(h) ==
    /\ turn[h] = NoTurn /\ Calls
    /\ \E x \in Target :
          /\ replies' = replies \cup {[nr |-> calls, to |-> x]}
          /\ Turns(h, Write(Act("reply", x), Edge(OwnId(calls), "reply", Owner, x),
                            Absent, FALSE))
    /\ UNCHANGED <<bond, remote, edges, notices, changes, deaths>>

\* mark_unavailable
MarkUnavailable(h) ==
    /\ turn[h] = NoTurn /\ Calls
    /\ \E o \in Note :
          /\ remote[o] # Absent
          /\ Turns(h, Write([type |-> "mark", actor |-> o.by],
                            [remote[o] EXCEPT !.unavailable = TRUE], remote[o], FALSE))
    /\ UNCHANGED <<feedRows, changes, deaths>>

Dismiss ==
    /\ \E n \in notices : notices' = notices \ {n}
    /\ UNCHANGED <<bond, remote, edges, replies, turn, calls, changes, deaths>>

HandlerDies(h) ==
    /\ turn[h] # NoTurn /\ deaths < MaxDeaths /\ deaths' = deaths + 1
    /\ Turns(h, NoTurn)
    /\ UNCHANGED <<feedRows, calls, changes>>

FeedNext ==
    \/ ChangeBond \/ Dismiss
    \/ \E h \in Handler :
          \/ Receive(h) \/ LookCreate(h) \/ LookObject(h) \/ LookEdge(h) \/ LookUndo(h)
          \/ LookFollow(h) \/ WriteObject(h) \/ WriteEdge(h) \/ Ask(h) \/ Tell(h)
          \/ OwnerEdge(h) \/ OwnerUndo(h) \/ OwnerReply(h) \/ MarkUnavailable(h)
          \/ HandlerDies(h)

FeedSpec == FeedInit /\ [][FeedNext]_feedVars

----------------------------------------------------------------------------
\* The home feed.

\* Whom the default feed shows.
Heard(a) == bond[a].following /\ ~bond[a].blocked /\ ~bond[a].muted

Text(o) == remote[o].text /\ ~remote[o].deleted

\* A plausible slip: whatever the table holds of the object.
SnapshotAny(o) == remote[o] # Absent

\* _object_snapshot has nothing for an object of an actor who is blocked.
Snapshot(o) == remote[o] # Absent /\ ~bond[o.by].blocked

\* A repost of an object that is not here is listed as "Original unavailable",
\* one of an object without a snapshot is not listed.
RepostListed(x) == x \in Post \/ remote[x] = Absent \/ Snapshot(x)
RepostText(x) == x \in Post \/ (remote[x] # Absent /\ Text(x))

\* _assemble_entries: whose events are listed, and whose text with them.
HomeFeed ==
    {[by |-> Owner, on |-> p, text |-> TRUE] : p \in Post}
    \cup {[by |-> o.by, on |-> o, text |-> Text(o)] :
             o \in {q \in Note : remote[q] # Absent /\ Heard(q.by)}}
    \cup {[by |-> e.by, on |-> e.on, text |-> RepostText(e.on)] :
             e \in {f \in edges : /\ f.kind = "repost" /\ ~f.undone
                                  /\ f.by = Owner \/ Heard(f.by)
                                  /\ RepostListed(f.on)}}

----------------------------------------------------------------------------
\* What must hold.

\* The types of the rows.
FeedTypeOK ==
    /\ remote \in [Note -> [text : BOOLEAN, deleted : BOOLEAN, unavailable : BOOLEAN]
                             \cup {Absent}]
    /\ \A e \in edges : /\ e.kind \in {"like", "repost", "reply"} /\ e.undone \in BOOLEAN
                        /\ e.by \in Actor \cup {Owner} /\ e.on \in Target
    /\ \A n \in notices : n.act \in Activity

(* However often and however concurrently an activity is delivered, an edge *)
(* counts once and gives one notice: likes and reposts are counted by rows. *)
CountedOnce ==
    /\ \A d, e \in edges : /\ ~d.undone /\ ~e.undone
                           /\ d.kind = e.kind /\ d.by = e.by /\ d.on = e.on
                           => d = e
    /\ \A m, n \in notices : m.act = n.act => m = n

(* "Deletes become compact tombstones" (README.md:125): one stays, whatever  *)
(* updates and creations follow it late.  Only a handler that had read the   *)
(* row before the deletion can write the old row over it.                    *)
TombstonesStay ==
    [][\A o \in Note : remote[o] # Absent /\ remote[o].deleted /\ ~remote'[o].deleted =>
          \E h \in Handler : /\ turn[h].do = "write" /\ turn[h].act.actor = o.by
                             /\ turn[h].seen = Absent \/ ~turn[h].seen.deleted]_feedVars

(* "Muted actors are omitted from the default feed [...]; blocked actors     *)
(* never appear" (README.md:126-127): not as authors, not as reposters, and  *)
(* not when somebody else, or the owner, reposted what is here of them; the  *)
(* text of a deleted object shows nowhere.                                   *)
FeedIsClean ==
    \A e \in HomeFeed :
        /\ e.by # Owner => ~bond[e.by].blocked /\ ~bond[e.by].muted
        /\ e.on \in Note /\ remote[e.on] # Absent => ~bond[e.on.by].blocked
        /\ e.on \in Note /\ e.text => ~remote[e.on].deleted
=============================================================================
