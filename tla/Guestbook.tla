----------------------------- MODULE Guestbook -----------------------------
(***************************************************************************)
(* The guestbook: GuestbookService of content.py over guestbook_entries of *)
(* store.py.  It is the one thing that anybody may write.  A handler reads *)
(* its clock and then calls the store; the store counts, looks for the     *)
(* same submission and inserts in one transaction (sqlite's BEGIN          *)
(* IMMEDIATE, an advisory lock on the token in PostgreSQL).  Submissions   *)
(* with a filled honeypot or fields that are too long leave no trace.      *)
(***************************************************************************)
EXTENDS Integers, FiniteSets

CONSTANTS
    Visitor,        \* handlers of submissions
    Token,          \* abuse tokens: keyed hashes of the visitors' addresses
    Words,          \* what may be submitted
    Window,         \* the span that the limit is about (an hour)
    Limit,          \* submissions of a token in a window (three)
    MaxWall,        \* bound on the clock
    MaxSubmissions  \* bound on the submissions

ASSUME GuestbookAssumption ==
    Window \in Nat /\ Limit \in Nat /\ MaxWall \in Nat /\ MaxSubmissions \in Nat

VARIABLES
    entries,  \* guestbook_entries
    visit,    \* the submission that a handler has in hand
    wall,     \* the clock
    begun     \* history: submissions begun so far

bookVars == <<entries, visit, wall, begun>>

NoVisit == [doing |-> "idle"]

BookInit ==
    /\ entries = {} /\ visit = [v \in Visitor |-> NoVisit]
    /\ wall = 0 /\ begun = 0

\* submit: the entry is made out, and stamped with the time.
Submit(v) ==
    /\ visit[v] = NoVisit /\ begun < MaxSubmissions
    /\ \E t \in Token, x \in Words :
          visit' = [visit EXCEPT ![v] = [doing |-> "store", nr |-> begun,
                                         token |-> t, words |-> x, at |-> wall]]
    /\ begun' = begun + 1
    /\ UNCHANGED <<entries, wall>>

\* The entries of a token that count at some time.
Recent(t, now) == {e \in entries : e.token = t /\ e.at >= now - Window}

\* The submission hash is that of an entry, whatever became of it.
Received(t, x) == \E e \in entries : e.token = t /\ e.words = x

\* A plausible slip: counting in a call of its own, before the transaction.
HasRoomEarlier(t, now) == TRUE

HasRoom(t, now) == Cardinality(Recent(t, now)) < Limit

\* create_guestbook_entry
StoreEntry(v) ==
    /\ visit[v].doing = "store"
    /\ LET q == visit[v] IN
       entries' = IF ~Received(q.token, q.words) /\ HasRoom(q.token, q.at)
                  THEN entries \cup {[nr |-> q.nr, token |-> q.token, words |-> q.words,
                                      at |-> q.at, status |-> "pending"]}
                  ELSE entries
    /\ visit' = [visit EXCEPT ![v] = NoVisit]
    /\ UNCHANGED <<wall, begun>>

\* moderate: the row stays, with another status.
Kept(e, action) == {[e EXCEPT !.status = action]}

\* The owner decides, and may decide again until the entry is deleted.
Moderate ==
    /\ \E e \in entries, action \in {"approved", "rejected", "deleted"} :
          /\ e.status # "deleted"
          /\ entries' = (entries \ {e}) \cup Kept(e, action)
    /\ UNCHANGED <<visit, wall, begun>>

VisitorLeaves(v) ==
    /\ visit[v] # NoVisit /\ visit' = [visit EXCEPT ![v] = NoVisit]
    /\ UNCHANGED <<entries, wall, begun>>

WallTick ==
    /\ wall < MaxWall /\ wall' = wall + 1
    /\ UNCHANGED <<entries, visit, begun>>

BookNext ==
    \/ Moderate \/ WallTick
    \/ \E v \in Visitor : Submit(v) \/ StoreEntry(v) \/ VisitorLeaves(v)

BookSpec == BookInit /\ [][BookNext]_bookVars

----------------------------------------------------------------------------
EntryRow == [nr : Nat, token : Token, words : Words, at : Int,
             status : {"pending", "approved", "rejected", "deleted"}]
VisitRow == [doing : {"store"}, nr : Nat, token : Token, words : Words, at : Int]

\* The types of the rows and the handlers' local variables.
BookTypeOK ==
    /\ entries \subseteq EntryRow /\ IsFiniteSet(entries)
    /\ visit \in [Visitor -> VisitRow \cup {NoVisit}]
    /\ wall \in Int /\ begun \in Nat

Between(t, from) == {e \in entries : e.token = t /\ from <= e.at /\ e.at <= from + Window}

(* No span of an hour holds more than Limit submissions of one token, and no *)
(* submission is in twice: not when handlers overtake each other between     *)
(* their clock and their transaction, nor when the owner deletes entries.    *)
SubmissionsBounded ==
    /\ \A t \in Token, e \in entries : Cardinality(Between(t, e.at)) <= Limit
    /\ \A d, e \in entries : d.token = e.token /\ d.words = e.words => d.nr = e.nr
=============================================================================
