----------------------------- MODULE Publishing -----------------------------
(***************************************************************************)
(* Content items and their images: PublishingService of content.py over    *)
(* the content and media tables of store.py and an object storage.         *)
(*                                                                         *)
(* An image is two objects in the storage, which knows no transactions,    *)
(* and a row.  A handler stores the objects, then the row, then the item   *)
(* that shows it; it deletes them one by one when the image is replaced or *)
(* its item deleted.  Each call may fail, a handler may die between two    *)
(* calls, and another browser of the owner edits the same item meanwhile.  *)
(* Texts, tags and links are checked before the first write of a creation, *)
(* and after the image is stored in an update; they are not modelled.      *)
(***************************************************************************)
EXTENDS Integers, Sequences

CONSTANTS
    Item,      \* content item identifiers
    Media,     \* media asset identifiers
    Writer,    \* handlers of the owner's browsers
    NoRow,     \* the absent value: an item without a row
    NoMedia,   \* the absent value: no image
    MaxRev,    \* bound on the revisions of an item
    MaxFaults  \* bound on failed calls and dead handlers

ItemRow == [photo : BOOLEAN, state : {"draft", "public", "deleted"},
            media : Media \cup {NoMedia}, rev : Nat, published : Nat]

ASSUME PublishingBounds ==
    /\ MaxRev \in Nat /\ MaxFaults \in Nat
    /\ NoRow \notin ItemRow /\ NoMedia \notin Media

Part == {"full", "small"}
Planned == <<"full", "small">>

VARIABLES
    items,    \* content_items
    status,   \* media_assets.status, "none" without a row
    stored,   \* the object storage
    job,      \* what a handler has under way, with its local variables
    reading,  \* the asset that a visitor's request has looked up
    faults,   \* history: failed calls and dead handlers so far
    stamps,   \* history: publication times given
    known,    \* history: identifiers of items and images drawn
    adrift    \* history: images that the code lost track of, and how

pubRows == <<items, status>>
pubHistory == <<faults, stamps, known, adrift>>
pubVars == <<pubRows, stored, job, reading, pubHistory>>

NoJob == [do |-> "idle"]

PubInit ==
    /\ items = [i \in Item |-> NoRow] /\ status = [m \in Media |-> "none"]
    /\ stored = {} /\ job = [w \in Writer |-> NoJob] /\ reading = NoMedia
    /\ faults = 0 /\ stamps = 0 /\ known = {} /\ adrift = {}

Does(w, next) == job' = [job EXCEPT ![w] = next]
Goes(w, do) == Does(w, [job[w] EXCEPT !.do = do])
Fault == faults < MaxFaults /\ faults' = faults + 1
Lost(m, why) == adrift' = adrift \cup {<<m, why>>}

Alive(i) == items[i] # NoRow /\ items[i].state # "deleted"

\* A plausible slip: looking for the item and not at its state.
RequiredAny(i) == items[i] # NoRow

\* _required
Required(i) == Alive(i)

----------------------------------------------------------------------------
\* Creating and editing.

\* What a handler has in hand: the item, the row it read, the revision and the
\* state that the form carries, a new image or none, and the parts to go.
Job(do, i, base, rev, to, m) ==
    [do |-> do, item |-> i, base |-> base, rev |-> rev, to |-> to, media |-> m,
     parts |-> Planned, failed |-> FALSE]

\* An image is normalized and stored first; without one the row is next.
WithImage(w, i, base, rev, to) ==
    \/ \E m \in Media \ known :
          Does(w, Job("put", i, base, rev, to, m)) /\ known' = known \cup {i, m}
    \/ Does(w, Job("commit", i, base, rev, to, NoMedia)) /\ known' = known \cup {i}

\* Where it matters here, "local_only" is saved as "draft" is.
States == {"draft", "public"}

\* create: a photo comes with an image and nothing else does.
BeginCreate(w) ==
    /\ job[w] = NoJob
    /\ \E i \in Item \ known, to \in States : WithImage(w, i, NoRow, 0, to)
    /\ UNCHANGED <<pubRows, stored, reading, faults, stamps, adrift>>

\* update: the form was shown some time ago, the row is read now.
BeginUpdate(w) ==
    /\ job[w] = NoJob
    /\ \E i \in Item, to \in States :
          /\ Required(i)
          /\ \E rev \in 1..items[i].rev : WithImage(w, i, items[i], rev, to)
    /\ UNCHANGED <<pubRows, stored, reading, faults, stamps, adrift>>

\* _save_image stores the normalized picture, then its variants, then the row.
PutPart(w) ==
    /\ job[w].do = "put" /\ job[w].parts # <<>>
    /\ stored' = stored \cup {<<job[w].media, Head(job[w].parts)>>}
    /\ Does(w, [job[w] EXCEPT !.parts = Tail(@)])
    /\ UNCHANGED <<pubRows, reading, pubHistory>>

SaveMedia(w) ==
    /\ job[w].do = "put" /\ job[w].parts = <<>>
    /\ status' = [status EXCEPT ![job[w].media] = "ready"]
    /\ Goes(w, "commit")
    /\ UNCHANGED <<items, stored, reading, pubHistory>>

\* A call of _save_image fails: what was stored is to be deleted again.
PutFails(w) ==
    /\ job[w].do = "put" /\ Fault
    /\ LET written == Len(Planned) - Len(job[w].parts) IN
       Does(w, [job[w] EXCEPT !.do = "unput", !.parts = SubSeq(Planned, 1, written)])
    /\ UNCHANGED <<pubRows, stored, reading, stamps, known, adrift>>

Row(photo, state, m, rev, published) ==
    [photo |-> photo, state |-> state, media |-> m, rev |-> rev,
     published |-> published]

\* A creation saves a recoverable draft then; an update just fails.
SaveDraft(w) ==
    /\ job[w].do = "unput" /\ job[w].parts = <<>>
    /\ IF job[w].failed THEN Lost(job[w].media, "unput") ELSE UNCHANGED adrift
    /\ IF job[w].base = NoRow
       THEN items' = [items EXCEPT ![job[w].item] = Row(TRUE, "draft", NoMedia, 1, 0)]
       ELSE UNCHANGED items
    /\ Does(w, NoJob)
    /\ UNCHANGED <<status, stored, reading, faults, stamps, known>>

\* published_at: set when an item first becomes public, and kept from then on.
Published(base, to) ==
    IF base # NoRow /\ base.published # 0 THEN base.published
    ELSE IF to = "public" THEN stamps + 1 ELSE 0

CommitCreate(w) ==
    /\ job[w].do = "commit" /\ job[w].base = NoRow
    /\ LET j == job[w]
           at == Published(NoRow, j.to)
       IN /\ items' = [items EXCEPT ![j.item] =
                          Row(j.media # NoMedia, j.to, j.media, 1, at)]
          /\ stamps' = IF at = 0 THEN stamps ELSE at
    /\ Does(w, NoJob)
    /\ UNCHANGED <<status, stored, reading, faults, known, adrift>>

----------------------------------------------------------------------------
\* Letting go of an image: _discard_media.

\* The handler goes on to discard m, if there is such an image.
Discards(w, m, parts) ==
    Does(w, IF m = NoMedia THEN NoJob
            ELSE [Job("mark", NoRow, NoRow, 0, "deleted", m) EXCEPT !.parts = parts])

\* create's own cleanup knows the full picture only.
CreateFails(w) ==
    /\ job[w].do = "commit" /\ job[w].base = NoRow /\ Fault
    /\ Discards(w, job[w].media, <<"full">>)
    /\ IF job[w].media = NoMedia THEN UNCHANGED adrift ELSE Lost(job[w].media, "create")
    /\ UNCHANGED <<pubRows, stored, reading, stamps, known>>

\* A plausible slip: an UPDATE without the revision in its WHERE clause.
SameRevAny(i, rev) == TRUE

SameRev(i, rev) == items[i].rev = rev

\* A plausible slip: forgetting the image that was replaced.
NothingReplaced(j) == NoMedia

\* The image that a successful update has replaced.
Superseded(j) == IF j.media = NoMedia THEN NoMedia ELSE j.base.media

\* update_content: a compare-and-set on the revision of the form.  A photo
\* keeps the image it had or gets the new one.
CommitUpdate(w) ==
    /\ job[w].do = "commit" /\ job[w].base # NoRow /\ job[w].rev < MaxRev
    /\ LET j == job[w]
           m == IF j.media = NoMedia THEN j.base.media ELSE j.media
           at == Published(j.base, j.to)
       IN /\ j.base.photo = (m # NoMedia)
          /\ IF SameRev(j.item, j.rev)
             THEN /\ items' = [items EXCEPT ![j.item] =
                                  Row(j.base.photo, j.to, m, j.rev + 1, at)]
                  /\ stamps' = IF at > stamps THEN at ELSE stamps
                  /\ Discards(w, Superseded(j), Planned)
             ELSE /\ Discards(w, j.media, Planned)
                  /\ UNCHANGED <<items, stamps>>
    /\ UNCHANGED <<status, stored, reading, faults, known, adrift>>

\* _validated_fields refuses an update after its image was saved.
RefuseFields(w) ==
    /\ job[w].do = "commit" /\ job[w].base # NoRow /\ job[w].media # NoMedia
    /\ Lost(job[w].media, "refused")
    /\ Does(w, NoJob)
    /\ UNCHANGED <<pubRows, stored, reading, faults, stamps, known>>

BeginDelete(w) ==
    /\ job[w] = NoJob
    /\ \E i \in Item :
          /\ Required(i)
          /\ \E rev \in 1..items[i].rev :
                Does(w, Job("bury", i, items[i], rev, "deleted", NoMedia))
    /\ UNCHANGED <<pubRows, stored, reading, pubHistory>>

\* delete: the tombstone keeps its permalink, its revision and its media_id.
CommitDelete(w) ==
    /\ job[w].do = "bury"
    /\ LET j == job[w] IN
       IF SameRev(j.item, j.rev)
       THEN /\ items' = [items EXCEPT ![j.item] =
                    Row(j.base.photo, "deleted", j.base.media, j.rev + 1, j.base.published)]
            /\ Discards(w, j.base.media, Planned)
       ELSE Does(w, NoJob) /\ UNCHANGED items
    /\ UNCHANGED <<status, stored, reading, pubHistory>>

MarkPending(w) ==
    /\ job[w].do = "mark"
    /\ status' = [status EXCEPT ![job[w].media] = "cleanup-pending"]
    /\ Goes(w, "erase")
    /\ UNCHANGED <<items, stored, reading, pubHistory>>

\* _delete_untracked_objects tries every key, and counts what failed.
ErasePart(w) ==
    /\ job[w].do \in {"erase", "unput"} /\ job[w].parts # <<>>
    /\ \/ /\ stored' = stored \ {<<job[w].media, Head(job[w].parts)>>}
          /\ Does(w, [job[w] EXCEPT !.parts = Tail(@)]) /\ UNCHANGED faults
       \/ /\ Fault /\ UNCHANGED stored
          /\ Does(w, [job[w] EXCEPT !.parts = Tail(@), !.failed = TRUE])
    /\ UNCHANGED <<pubRows, reading, stamps, known, adrift>>

\* A plausible slip: ignoring the deletions that failed.
ErasedAnyway(j) == TRUE

Erased(j) == ~j.failed

MarkDeleted(w) ==
    /\ job[w].do = "erase" /\ job[w].parts = <<>>
    /\ IF Erased(job[w]) THEN status' = [status EXCEPT ![job[w].media] = "deleted"]
                         ELSE UNCHANGED status
    /\ Does(w, NoJob)
    /\ UNCHANGED <<items, stored, reading, pubHistory>>

\* retry_media_cleanup takes up what is marked, whoever else is at it.
BeginRetry(w) ==
    /\ job[w] = NoJob
    /\ \E m \in Media :
          /\ status[m] = "cleanup-pending"
          /\ Does(w, Job("erase", NoRow, NoRow, 0, "deleted", m))
    /\ UNCHANGED <<pubRows, stored, reading, pubHistory>>

----------------------------------------------------------------------------
\* Visitors and accidents.

\* The media route looks up a row; media_bytes goes on if it was ready.
LookUp ==
    /\ reading = NoMedia
    /\ \E m \in Media : status[m] = "ready" /\ reading' = m
    /\ UNCHANGED <<pubRows, stored, job, pubHistory>>

\* An object that is not there marks its asset as missing, whatever became of
\* the asset since the row was read.
Serve ==
    /\ reading # NoMedia /\ reading' = NoMedia
    /\ \E p \in Part :
          IF <<reading, p>> \in stored THEN UNCHANGED <<status, adrift>>
          ELSE /\ status' = [status EXCEPT ![reading] = "missing"]
               /\ Lost(reading, "read")
    /\ UNCHANGED <<items, stored, job, faults, stamps, known>>

\* A handler dies, or gets an error that none of its except clauses names.
PubDies(w) ==
    /\ job[w] # NoJob /\ Fault
    /\ adrift' = adrift \cup
          ({<<m, "died">> : m \in {job[w].media}
                \cup IF job[w].base = NoRow THEN {} ELSE {job[w].base.media}}
           \ {<<NoMedia, "died">>})
    /\ Does(w, NoJob)
    /\ UNCHANGED <<pubRows, stored, reading, stamps, known>>

PubNext ==
    \/ LookUp \/ Serve
    \/ \E w \in Writer :
          \/ BeginCreate(w) \/ BeginUpdate(w) \/ PutPart(w) \/ SaveMedia(w)
          \/ PutFails(w) \/ SaveDraft(w) \/ CommitCreate(w) \/ CreateFails(w)
          \/ CommitUpdate(w) \/ RefuseFields(w) \/ BeginDelete(w) \/ CommitDelete(w)
          \/ MarkPending(w) \/ ErasePart(w) \/ MarkDeleted(w) \/ BeginRetry(w) \/ PubDies(w)

PubSpec == PubInit /\ [][PubNext]_pubVars

----------------------------------------------------------------------------
\* What must hold.

Objects(m) == {m} \X Part
Working(m) == \E w \in Writer : job[w] # NoJob /\ m \in
                  {job[w].media} \cup IF job[w].base = NoRow THEN {}
                                      ELSE {job[w].base.media}
Shown(m) == \E i \in Item : Alive(i) /\ items[i].media = m

\* The types of the rows; an item that is public has a publication time.
PubTypeOK ==
    /\ items \in [Item -> ItemRow \cup {NoRow}]
    /\ \A i \in Item : items[i] # NoRow /\ items[i].state = "public" =>
                          items[i].published \in 1..stamps
    /\ status \in [Media -> {"none", "ready", "missing", "cleanup-pending", "deleted"}]
    /\ stored \subseteq Media \X Part /\ known \subseteq Media \cup Item

(* The image of an item that is not deleted is there, the whole of it, and  *)
(* its row says so: no edit, discard, retry or visitor's request that       *)
(* overlaps with the owner's takes it away.                                 *)
LiveMediaIsThere ==
    \A i \in Item : Alive(i) /\ items[i].media # NoMedia =>
        status[items[i].media] = "ready" /\ Objects(items[i].media) \subseteq stored

(* An item keeps the publication time it was first given, and the "permanent *)
(* deleted tombstone" (README.md:40-41) never changes again, however old the *)
(* forms are that come in.                                                   *)
PublishedOnce ==
    [][\A i \in Item : items[i] # NoRow =>
          /\ items'[i] # NoRow /\ items'[i].rev >= items[i].rev
          /\ items[i].published # 0 => items'[i].published = items[i].published
          /\ items[i].state = "deleted" => items'[i] = items[i]]_pubVars

(* The owner's items change as those of a shelf do (module Shelf): every     *)
(* change that is saved starts from the row as it is, though the handler     *)
(* read it some calls before and others saved meanwhile, and an image that   *)
(* comes with it was shown by no item before.                                *)
Display == INSTANCE Shelf WITH shelf <- items, clock <- stamps
KeepsShelf == Display!Spec

(* An asset marked deleted has left nothing in the storage; where the       *)
(* creation of its item failed, its variants may stay.                      *)
DeletedIsGone ==
    \A m \in Media : status[m] = "deleted" /\ <<m, "create">> \notin adrift =>
        Objects(m) \cap stored = {}

(* What no live item shows is being dealt with, gone, or marked for a retry: *)
(* "deletion cleanup is idempotent and retryable" (README.md:54), but for    *)
(* the ways in which the code loses track of an image.                       *)
NoOrphans ==
    \A m \in Media : Objects(m) \cap stored # {} =>
        \/ Shown(m) \/ Working(m) \/ status[m] = "cleanup-pending"
        \/ \E a \in adrift : a[1] = m
=============================================================================
