------------------------------- MODULE Archive -------------------------------
(***************************************************************************)
(* What an export carries and what a restore makes of it: build_snapshot   *)
(* and the converters of lifecycle.py, and replace_lifecycle_snapshot of   *)
(* store.py.                                                               *)
(*                                                                         *)
(* The snapshot is no transaction: it reads table after table, each in a   *)
(* call of its own, while the inbox, the owner's other browsers and other  *)
(* processes write.  Some tables are read up to a limit of the store's.  A *)
(* restore empties the tables and fills them from the archive, or leaves   *)
(* all as it was where a foreign key is broken.  Objects in the storage,   *)
(* sessions and federation controls are Lifecycle's; here is what the rows *)
(* say of each other.  Columns that nothing refers to travel as they are.  *)
(***************************************************************************)
EXTENDS Integers, FiniteSets, Sequences

CONSTANTS
    Peer,      \* remote actors
    DomainOf,  \* their domains
    Piece,     \* content items
    Picture,   \* media assets
    None,      \* no such row; a content item without a picture is "plain"
    Carried,   \* how many rows an export takes of a table with a limit
    MaxWrites  \* bound on what is written

Tie == [friend : BOOLEAN, flag : BOOLEAN]

ASSUME ArchiveAssumption ==
    /\ Carried \in Nat /\ MaxWrites \in Nat
    /\ "plain" \notin Picture /\ None \notin Tie /\ None \notin Picture

VARIABLES
    tables,  \* the database
    draft,   \* what build_snapshot has read so far, None without an export
    backup,  \* the archive
    writes,  \* history: writes so far, which also stamp rows with their time
    since    \* history: what happened since the export began

archiveVars == <<tables, draft, backup, writes, since>>

Empty == [ties |-> [p \in Peer |-> None], ring |-> {}, barred |-> {},
          pieces |-> [i \in Piece |-> None], pictures |-> {}, heard |-> {}, deeds |-> {}]

Untouched == [quiet |-> TRUE, out |-> {}, grown |-> FALSE, sound |-> TRUE]

ArchiveInit ==
    /\ tables = Empty /\ draft = None /\ backup = None /\ writes = 0
    /\ since = Untouched

Known(t) == {p \in Peer : t.ties[p] # None}
Friends(t) == {p \in Known(t) : t.ties[p].friend}

\* effective_blocked: the flag of the row, or the domain's block.
Out(t) == {p \in Known(t) : t.ties[p].flag \/ DomainOf[p] \in t.barred}

----------------------------------------------------------------------------
\* What is written meanwhile.  Relationships, Feed and Publishing have the
\* steps of it.

\* A write, and what it means to an export under way: whether somebody became
\* known or a friend, who has been blocked all the time, and whether the circle
\* held friends only when the export began.
Writes(t) ==
    /\ writes < MaxWrites /\ writes' = writes + 1
    /\ tables' = t
    /\ since' = IF draft = None THEN Untouched
                ELSE [quiet |-> FALSE, out |-> since.out \cap Out(t), sound |-> since.sound,
                      grown |-> since.grown \/ ~(Friends(t) \subseteq Friends(tables))
                                            \/ ~(Known(t) \subseteq Known(tables))]
    /\ UNCHANGED <<draft, backup>>

Meet(p) ==
    /\ tables.ties[p] = None /\ DomainOf[p] \notin tables.barred
    /\ Writes([tables EXCEPT !.ties[p] = [friend |-> FALSE, flag |-> FALSE]])

Befriend(p) ==
    /\ p \in Known(tables) \ (Out(tables) \cup Friends(tables))
    /\ Writes([tables EXCEPT !.ties[p].friend = TRUE])

Sever(p) ==
    /\ p \in Friends(tables)
    /\ Writes([tables EXCEPT !.ties[p].friend = FALSE, !.ring = @ \ {p}])

Gather == \E r \in SUBSET (Friends(tables) \ Out(tables)) :
              r # tables.ring /\ Writes([tables EXCEPT !.ring = r])

SetFlag(p) ==
    /\ p \in Known(tables)
    /\ \E b \in BOOLEAN :
          Writes([tables EXCEPT !.ties[p] = [friend |-> FALSE, flag |-> b],
                                !.ring = @ \ {p}])

Bar(d) ==
    LET there == {p \in Known(tables) : DomainOf[p] = d} IN
    /\ d \notin tables.barred
    /\ Writes([tables EXCEPT !.barred = @ \cup {d}, !.ring = @ \ there,
                  !.ties = [p \in Peer |-> IF p \in there
                                           THEN [@[p] EXCEPT !.friend = FALSE] ELSE @[p]]])

Unbar(d) == d \in tables.barred /\ Writes([tables EXCEPT !.barred = @ \ {d}])

\* A remote object, and an interaction or a notification.
Hear(p) == p \in Friends(tables)
           /\ Writes([tables EXCEPT !.heard = @ \cup {[by |-> p, at |-> writes]}])
Remark == Writes([tables EXCEPT !.deeds = @ \cup {[at |-> writes]}])

SavePicture == \E m \in Picture \ tables.pictures :
                   Writes([tables EXCEPT !.pictures = @ \cup {m}])

SavePiece(i) == \E x \in tables.pictures \cup {"plain"} :
                    x # tables.pieces[i] /\ Writes([tables EXCEPT !.pieces[i] = x])

Meanwhile ==
    \/ \E p \in Peer : Meet(p) \/ Befriend(p) \/ Sever(p) \/ SetFlag(p) \/ Hear(p)
    \/ \E p \in Peer : Bar(DomainOf[p]) \/ Unbar(DomainOf[p])
    \/ \E i \in Piece : SavePiece(i)
    \/ Gather \/ Remark \/ SavePicture

----------------------------------------------------------------------------
\* Export.

\* A plausible slip: the pictures before the items that show them.
ReadsPicturesFirst ==
    <<"ties", "ring", "barred", "pictures", "pieces", "heard", "deeds">>

\* The tables in the order in which build_snapshot reads them.
Reads == <<"ties", "ring", "barred", "pieces", "pictures", "heard", "deeds">>

\* What a limit leaves of a table, latest first.
Newest(rows) == {r \in rows : Cardinality({s \in rows : s.at > r.at}) < Carried}

\* _relationship_to_json has the effective block, as RELATIONSHIP_SELECT reads it.
TieOut(t, p) ==
    IF t.ties[p] = None THEN None
    ELSE [friend |-> t.ties[p].friend, flag |-> p \in Out(t)]

Exported(t, name) ==
    CASE name = "ties" -> [p \in Peer |-> TieOut(t, p)]
      [] name \in {"heard", "deeds"} -> Newest(t[name])
      [] OTHER -> t[name]

BeginExport ==
    /\ draft = None /\ draft' = [rows |-> Empty, at |-> 1]
    /\ since' = [quiet |-> TRUE, out |-> Out(tables), grown |-> FALSE,
                 sound |-> tables.ring \subseteq Friends(tables)]
    /\ UNCHANGED <<tables, backup, writes>>

\* The archive, with the history of its making.
Backup(rows) ==
    [rows |-> rows, quiet |-> since.quiet, out |-> since.out, grown |-> since.grown,
     sound |-> since.sound, was |-> IF since.quiet THEN tables ELSE None]

ReadNext ==
    /\ draft # None
    /\ LET name == Reads[draft.at]
           rows == [draft.rows EXCEPT ![name] = Exported(tables, name)]
       IN IF draft.at < Len(Reads)
          THEN /\ draft' = [rows |-> rows, at |-> draft.at + 1]
               /\ UNCHANGED <<backup, since>>
          ELSE draft' = None /\ backup' = Backup(rows) /\ since' = Untouched
    /\ UNCHANGED <<tables, writes>>

----------------------------------------------------------------------------
\* Restore and deletion.

\* A plausible slip: a table that LIFECYCLE_PURGE_STATEMENTS forgets.
PurgedButBlocks == [Empty EXCEPT !.barred = tables.barred]

Purged == Empty

\* The foreign keys of circle members and remote objects.
Loadable(rows) ==
    rows.ring \subseteq Known(rows) /\ \A r \in rows.heard : r.by \in Known(rows)

\* _content_from_json: an item whose picture is not in the archive has none.
PieceIn(rows, i) ==
    IF rows.pieces[i] \in Picture \ rows.pictures THEN "plain" ELSE rows.pieces[i]

\* Blocked domains are inserted beside those that are there.
Loaded(rows) ==
    [rows EXCEPT !.barred = @ \cup Purged.barred,
                 !.pieces = [i \in Piece |-> PieceIn(rows, i)]]

Restore ==
    /\ backup # None /\ draft = None
    /\ tables' = IF Loadable(backup.rows) THEN Loaded(backup.rows) ELSE tables
    /\ UNCHANGED <<draft, backup, writes, since>>

\* purge_lifecycle_data
Erase ==
    /\ draft = None /\ tables' = Purged
    /\ UNCHANGED <<draft, backup, writes, since>>

ArchiveNext == Meanwhile \/ BeginExport \/ ReadNext \/ Restore \/ Erase

ArchiveSpec == ArchiveInit /\ [][ArchiveNext]_archiveVars

----------------------------------------------------------------------------
\* What must hold.

Dated == [at : Nat]
TablesRow ==
    [ties : [Peer -> Tie \cup {None}], ring : SUBSET Peer,
     barred : SUBSET {DomainOf[p] : p \in Peer},
     pieces : [Piece -> Picture \cup {"plain", None}], pictures : SUBSET Picture,
     heard : SUBSET [by : Peer, at : Nat], deeds : SUBSET Dated]

\* The types of the tables, of the draft and of the archive.
ArchiveTypeOK ==
    /\ tables \in TablesRow
    /\ draft # None => draft.rows \in TablesRow /\ draft.at \in 1..Len(Reads)
    /\ backup # None => backup.rows \in TablesRow
    /\ writes \in 0..MaxWrites

\* What the owner sees of two databases agrees, but for what a limit cut off.
Alike(s, t) ==
    /\ Known(s) = Known(t) /\ Friends(s) = Friends(t) /\ Out(s) = Out(t)
    /\ s.ring = t.ring /\ s.barred = t.barred
    /\ s.pieces = t.pieces /\ s.pictures = t.pictures
    /\ \A name \in {"heard", "deeds"} :
          /\ t[name] \subseteq s[name]
          /\ Cardinality(s[name]) <= Carried => t[name] = s[name]
          /\ \A r \in s[name] \ t[name], k \in t[name] : r.at < k.at

(* An archive exported while nothing was written is never refused, and gives *)
(* the Space back as it was, whatever was there before the restore: the same *)
(* people are blocked, the same images belong to the same items, and of      *)
(* tables that the store limits the latest rows are there.                   *)
RoundTrip ==
    [][Restore /\ backup.quiet => Alike(backup.was, tables')]_archiveVars

(* An archive exported while others write is torn, but not in this: an item  *)
(* has its image with it, who was blocked all the time is blocked in it, and *)
(* unless somebody became known or a friend meanwhile it can be restored and *)
(* its circles hold friends only, if they did when the export began.         *)
TornArchivesHold ==
    backup # None =>
        /\ \A i \in Piece : backup.rows.pieces[i] \in Picture =>
                               backup.rows.pieces[i] \in backup.rows.pictures
        /\ backup.out \subseteq Out(backup.rows)
        /\ ~backup.grown => Loadable(backup.rows)
        /\ ~backup.grown /\ backup.sound => backup.rows.ring \subseteq Friends(backup.rows)
=============================================================================
