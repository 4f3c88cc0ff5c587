----------------------------- MODULE Lifecycle -----------------------------
(***************************************************************************)
(* Export, restore, migration and deletion of a whole Space:               *)
(* SpaceLifecycleService of lifecycle.py over the tables of store.py and   *)
(* the object storage, while the visitors and the owner's browsers of      *)
(* Ownership go on, media are published and the owner pauses federation.   *)
(*                                                                         *)
(* An operation is several calls of the store and of the storage.  Nothing *)
(* holds between two of them, each call may fail, and the process may die. *)
(* One lifecycle operation runs at a time.  The sqlite and the PostgreSQL  *)
(* store make the same transactions.                                       *)
(***************************************************************************)
EXTENDS Ownership

CONSTANTS
    Asset,       \* media assets that may be published, each once
    MaxMishaps,  \* bound on failed calls, crashes and damaged archives
    MaxOps,      \* bound on lifecycle operations begun
    MaxTurns     \* bound on the owner's changes of the federation controls

ASSUME LifecycleBounds ==
    MaxMishaps \in Nat /\ MaxOps \in Nat /\ MaxTurns \in Nat

\* A stored image is its normalized picture and a smaller variant of it.
Object == Asset \X {"full", "small"}

\* _asset_object_rows
KeysOf(assets) == assets \X {"full", "small"}

VARIABLES
    rows,      \* media_assets
    objects,   \* the object storage
    upload,    \* an asset whose objects are stored and whose row is not, or NoOne
    control,   \* federation_controls
    page,      \* the owner's page of federation controls
    archive,   \* the export archive on the owner's disk
    op,        \* the lifecycle operation under way
    published, \* history: assets ever published
    mishaps,   \* history: failed calls, crashes and damage so far
    opsBegun,  \* history: lifecycle operations so far
    removed,   \* history: objects of media the owner deleted since a restore began
    promised,  \* history: objects the last restore promised to be there
    atRestore, \* history: objects that live media had when a restore began
    doomed,    \* history: objects a deletion of the Space must not leave behind
    mustPause  \* history: a migration paused federation, and nobody resumed it

mediaVars == <<rows, objects, upload>>
controlVars == <<control, page>>
lifeHistory == <<published, mishaps, opsBegun, removed, promised, atRestore,
                 doomed, mustPause>>
lifeVars == <<mediaVars, controlVars, archive, op, lifeHistory>>
allVars == <<ownVars, lifeVars>>

NoOp == [do |-> "none"]
Unpaused == [in |-> FALSE, out |-> FALSE, rev |-> 1]

LifeInit ==
    /\ OwnInit
    /\ rows = {} /\ objects = {} /\ upload = NoOne
    /\ control = Unpaused /\ page = NoOne
    /\ archive = NoOne /\ op = NoOp
    /\ published = {} /\ mishaps = 0 /\ opsBegun = 0 /\ removed = {}
    /\ promised = {} /\ atRestore = {} /\ doomed = {} /\ mustPause = FALSE

----------------------------------------------------------------------------
\* What goes on meanwhile: publishing and the emergency controls.

\* The objects of an image are stored before its row.
StoreObjects ==
    /\ site # NoOne /\ upload = NoOne
    /\ \E a \in Asset \ published :
          /\ objects' = objects \cup KeysOf({a})
          /\ upload' = a /\ published' = published \cup {a}
    /\ UNCHANGED <<ownVars, rows, controlVars, archive, op, mishaps, opsBegun,
                   removed, promised, atRestore, doomed, mustPause>>

SaveRow ==
    /\ upload # NoOne
    /\ rows' = rows \cup {upload} /\ upload' = NoOne
    /\ UNCHANGED <<ownVars, objects, controlVars, archive, op, lifeHistory>>

\* A published image is deleted; Publishing has the steps of it.
RemoveMedia ==
    /\ site # NoOne
    /\ \E a \in rows :
          /\ rows' = rows \ {a}
          /\ objects' = objects \ KeysOf({a})
          /\ removed' = removed \cup KeysOf({a})
          /\ promised' = promised \ KeysOf({a})
          /\ atRestore' = atRestore \ KeysOf({a})
    /\ UNCHANGED <<ownVars, upload, controlVars, archive, op, published, mishaps,
                   opsBegun, doomed, mustPause>>

OpenControls ==
    /\ site # NoOne /\ page' = [c |-> control, era |-> era]
    /\ UNCHANGED <<ownVars, mediaVars, control, archive, op, lifeHistory>>

\* A plausible slip: taking the revision from the row instead of the page.
ControlWhatever(rev) == TRUE

ControlStill(rev) == control.rev = rev

\* update_control: a compare-and-set on the revision the page carried.
SubmitControls ==
    /\ page # NoOne /\ control.rev <= MaxTurns
    /\ \E i, o \in BOOLEAN :
          IF ControlStill(page.c.rev)
          THEN /\ control' = [in |-> i, out |-> o, rev |-> page.c.rev + 1]
               /\ mustPause' = (/\ mustPause /\ page.era = era
                                /\ ~(page.c.in /\ page.c.out))
          ELSE UNCHANGED <<control, mustPause>>
    /\ page' = NoOne
    /\ UNCHANGED <<ownVars, mediaVars, archive, op, published, mishaps, opsBegun,
                   removed, promised, atRestore, doomed>>

----------------------------------------------------------------------------
\* Export.

Begin(next) == op = NoOp /\ opsBegun < MaxOps /\ op' = next /\ opsBegun' = opsBegun + 1

\* build_snapshot reads table by table; media come after the owner and codes.
BeginExport ==
    /\ site # NoOne
    /\ Begin([do |-> "export", site |-> site,
              codes |-> {k \in codes : k.owner = site.owner}])
    /\ UNCHANGED <<ownVars, mediaVars, controlVars, archive, published, mishaps,
                   removed, promised, atRestore, doomed, mustPause>>

ReadMediaRows ==
    /\ op.do = "export"
    /\ op' = [do |-> "collect", site |-> op.site, codes |-> op.codes, rows |-> rows]
    /\ UNCHANGED <<ownVars, mediaVars, controlVars, archive, lifeHistory>>

\* _collect_media: an object that is gone is listed as missing, not archived.
Present(assets) == KeysOf(assets) \cap objects

\* space.json and manifest.json list what the media members must be.
Envelope(s, ks, assets, held) ==
    [site |-> s, codes |-> ks, rows |-> assets, listed |-> held, blobs |-> held]

Collect ==
    /\ op.do = "collect"
    /\ archive' = Envelope(op.site, op.codes, op.rows, Present(op.rows))
    /\ op' = NoOp
    /\ UNCHANGED <<ownVars, mediaVars, controlVars, lifeHistory>>

Mishap == mishaps < MaxMishaps /\ mishaps' = mishaps + 1

\* The archive loses a member on the owner's disk; an upload is read at once.
Damage ==
    /\ op = NoOp /\ archive # NoOne /\ Mishap
    /\ \E k \in archive.blobs : archive' = [archive EXCEPT !.blobs = @ \ {k}]
    /\ UNCHANGED <<ownVars, mediaVars, controlVars, op, published, opsBegun, removed,
                   promised, atRestore, doomed, mustPause>>

----------------------------------------------------------------------------
\* Restore.

\* _parse_archive refuses a listed object without its member, and a member
\* that is not listed; digests are compared for both files.
Acceptable(a) == a.blobs = a.listed

\* Claim token or owner's password, then preview, integrity and key checks:
\* whatever they refuse has changed nothing.
BeginRestore ==
    /\ archive # NoOne /\ Acceptable(archive)
    /\ Begin([do |-> "restore", written |-> {}])
    /\ removed' = {}
    /\ atRestore' = Present(rows)
    /\ UNCHANGED <<ownVars, mediaVars, controlVars, archive, published, mishaps,
                   promised, doomed, mustPause>>

PutObject ==
    /\ op.do = "restore"
    /\ \E k \in archive.blobs \ op.written :
          /\ objects' = objects \cup {k}
          /\ op' = [op EXCEPT !.written = @ \cup {k}]
          /\ removed' = removed \ {k} /\ doomed' = doomed \ {k}
    /\ UNCHANGED <<ownVars, rows, upload, controlVars, archive, published, mishaps,
                   opsBegun, promised, atRestore, mustPause>>

\* A plausible slip: the database first, its media afterwards.
StagedLater == TRUE

Staged == op.written = archive.blobs

\* The rows of owners, settings and modules that an archive carries.
Restored(a) == a.site

\* replace_lifecycle_snapshot: every table purged and filled again, federation
\* controls back at revision 1 and unpaused, in one transaction.
ReplaceSnapshot ==
    /\ op.do = "restore" /\ Staged
    /\ site' = Restored(archive) /\ codes' = archive.codes /\ sessions' = {}
    /\ rows' = archive.rows /\ control' = Unpaused
    /\ op' = NoOp
    /\ era' = era + 1 /\ told' = {} /\ fence' = drawn.session
    /\ origin' = archive.site.origin
    /\ revived' = [k \in DOMAIN revived \cup (archive.codes \ codes) |->
                     Tally(revived, k) + IF k \in archive.codes \ codes THEN 1 ELSE 0]
    /\ promised' = archive.listed \ removed
    /\ atRestore' = {} /\ mustPause' = FALSE
    /\ UNCHANGED <<webVars, drawn, redeemed, lostEdit, objects, upload, page, archive,
                   published, mishaps, opsBegun, removed, doomed>>

\* Storing an object or the transaction fails: what was written is deleted.
RestoreFails ==
    /\ op.do = "restore" /\ Mishap
    /\ op' = [op EXCEPT !.do = "undo"]
    /\ UNCHANGED <<ownVars, mediaVars, controlVars, archive, published, opsBegun,
                   removed, promised, atRestore, doomed, mustPause>>

\* The deletions of the failed restore, whose own errors are suppressed.
DeleteWritten ==
    /\ op.do = "undo"
    /\ \/ /\ op.written = {} /\ op' = NoOp
          /\ UNCHANGED <<objects, promised, mishaps>>
       \/ \E k \in op.written :
             /\ op' = [op EXCEPT !.written = @ \ {k}]
             /\ promised' = promised \ {k}
             /\ \/ objects' = objects \ {k} /\ UNCHANGED mishaps
                \/ Mishap /\ UNCHANGED objects
    /\ UNCHANGED <<ownVars, rows, upload, controlVars, archive, published, opsBegun,
                   removed, atRestore, doomed, mustPause>>

----------------------------------------------------------------------------
\* Migration to the configured origin, with federation state to give up.

BeginMigration ==
    /\ site # NoOne
    /\ \E target \in Origin \ {site.origin} :
          Begin([do |-> "hold", rev |-> site.rev, target |-> target])
    /\ UNCHANGED <<ownVars, mediaVars, controlVars, archive, published, mishaps,
                   removed, promised, atRestore, doomed, mustPause>>

ReadControl ==
    /\ op.do = "hold"
    /\ op' = [do |-> "pause", rev |-> op.rev, target |-> op.target, ctl |-> control.rev]
    /\ UNCHANGED <<ownVars, mediaVars, controlVars, archive, lifeHistory>>

PauseFederation ==
    /\ op.do = "pause"
    /\ IF ControlStill(op.ctl)
       THEN /\ control' = [in |-> TRUE, out |-> TRUE, rev |-> op.ctl + 1]
            /\ op' = [do |-> "move", rev |-> op.rev, target |-> op.target]
            /\ mustPause' = TRUE
       ELSE op' = NoOp /\ UNCHANGED <<control, mustPause>>
    /\ UNCHANGED <<ownVars, mediaVars, page, archive, published, mishaps, opsBegun,
                   removed, promised, atRestore, doomed>>

\* A plausible slip: moving the origin without counting a revision.
Same(rev) == rev

Next1(rev) == rev + 1

\* update_canonical_origin: refused when the settings changed since; then
\* federation stays paused with the origin unchanged.
MoveOrigin ==
    /\ op.do = "move"
    /\ IF StillAt(op.rev)
       THEN /\ site' = [site EXCEPT !.rev = Next1(op.rev), !.origin = op.target]
            /\ origin' = op.target
       ELSE UNCHANGED <<site, origin>>
    /\ op' = NoOp
    /\ UNCHANGED <<codes, sessions, webVars, drawn, era, told, redeemed, revived, fence,
                   lostEdit, mediaVars, controlVars, archive, lifeHistory>>

----------------------------------------------------------------------------
\* Deletion of the Space.

BeginDeletion ==
    /\ site # NoOne /\ Begin([do |-> "list"])
    /\ doomed' = Present(rows)
    /\ UNCHANGED <<ownVars, mediaVars, controlVars, archive, published, mishaps,
                   removed, promised, atRestore, mustPause>>

\* A plausible slip: forgetting the variants.
FullKeys(assets) == assets \X {"full"}

\* _media_keys
MediaKeys(assets) == KeysOf(assets)

ListMedia ==
    /\ op.do = "list"
    /\ op' = [do |-> "purge", keys |-> MediaKeys(rows)]
    /\ UNCHANGED <<ownVars, mediaVars, controlVars, archive, lifeHistory>>

\* The tables of LIFECYCLE_PURGE_STATEMENTS that Ownership knows.
PurgeOwner ==
    /\ site' = NoOne /\ codes' = {} /\ sessions' = {}
    /\ era' = era + 1 /\ told' = {} /\ fence' = drawn.session

Purge ==
    /\ op.do = "purge"
    /\ PurgeOwner
    /\ rows' = {} /\ control' = Unpaused
    /\ op' = [do |-> "erase", keys |-> op.keys]
    /\ promised' = {} /\ atRestore' = {} /\ mustPause' = FALSE
    /\ UNCHANGED <<webVars, drawn, redeemed, revived, lostEdit, origin, objects,
                   upload, page, archive, published, mishaps, opsBegun, removed, doomed>>

\* A deletion that fails is reported in the notes, and no more than that.
EraseObject ==
    /\ op.do = "erase"
    /\ \/ op.keys = {} /\ op' = NoOp /\ UNCHANGED <<objects, mishaps, doomed>>
       \/ \E k \in op.keys :
             /\ op' = [op EXCEPT !.keys = @ \ {k}]
             /\ \/ objects' = objects \ {k} /\ UNCHANGED <<mishaps, doomed>>
                \/ Mishap /\ doomed' = doomed \ {k} /\ UNCHANGED objects
    /\ UNCHANGED <<ownVars, rows, upload, controlVars, archive, published, opsBegun,
                   removed, promised, atRestore, mustPause>>

----------------------------------------------------------------------------
\* The process of a lifecycle operation dies.
OperationDies ==
    /\ op # NoOp /\ Mishap
    /\ op' = NoOp /\ doomed' = {} /\ atRestore' = {}
    /\ UNCHANGED <<ownVars, mediaVars, controlVars, archive, published, opsBegun,
                   removed, promised, mustPause>>

LifeStep ==
    \/ StoreObjects \/ SaveRow \/ RemoveMedia \/ OpenControls \/ SubmitControls
    \/ BeginExport \/ ReadMediaRows \/ Collect \/ Damage
    \/ BeginRestore \/ PutObject \/ ReplaceSnapshot \/ RestoreFails \/ DeleteWritten
    \/ BeginMigration \/ ReadControl \/ PauseFederation \/ MoveOrigin
    \/ BeginDeletion \/ ListMedia \/ Purge \/ EraseObject
    \/ OperationDies

LifeNext == LifeStep \/ (OwnNext /\ UNCHANGED lifeVars)

LifeSpec == LifeInit /\ [][LifeNext]_allVars

----------------------------------------------------------------------------
\* What must hold.

ControlRow == [in : BOOLEAN, out : BOOLEAN, rev : Nat]
ArchiveRow == [site : SiteRow, codes : SUBSET Code, rows : SUBSET Asset,
               listed : SUBSET Object, blobs : SUBSET Object]
OpRow ==
    [do : {"none", "list"}]
    \cup [do : {"export"}, site : SiteRow, codes : SUBSET Code]
    \cup [do : {"collect"}, site : SiteRow, codes : SUBSET Code, rows : SUBSET Asset]
    \cup [do : {"restore", "undo"}, written : SUBSET Object]
    \cup [do : {"hold", "move"}, rev : Nat, target : Origin]
    \cup [do : {"pause"}, rev : Nat, target : Origin, ctl : Nat]
    \cup [do : {"purge", "erase"}, keys : SUBSET Object]

\* The types of the rows, the storage and the operation's local variables; an
\* archive holds objects of its own media rows and nothing else.
LifeTypeOK ==
    /\ rows \subseteq Asset /\ objects \subseteq Object
    /\ upload \in Asset \cup {NoOne}
    /\ control \in ControlRow
    /\ page \in [c : ControlRow, era : Nat] \cup {NoOne}
    /\ archive \in ArchiveRow \cup {NoOne}
    /\ archive # NoOne => /\ archive.blobs \subseteq archive.listed
                          /\ archive.listed \subseteq KeysOf(archive.rows)
    /\ op \in OpRow

(* A restore that succeeded left every object its archive lists in the      *)
(* storage, except those the owner deleted meanwhile or that a later        *)
(* lifecycle operation deleted: no archive that lost a member, no crash     *)
(* between media and database and no concurrent publishing breaks that.     *)
RestoredIsWhole == promised \subseteq objects

(* Once a migration has paused federation, it stays paused in both          *)
(* directions until the owner submits a page that showed the pause, or the  *)
(* database is replaced: a page opened earlier does not lift it.            *)
PauseKept == mustPause => control.in /\ control.out

(* When the deletion of a Space has run to its end, no image that had been  *)
(* published when it began is in the storage, variants included, except     *)
(* where deleting it failed.                                                *)
DeletedSpaceIsGone == op = NoOp => doomed \cap objects = {}

(* A restore that fails leaves the media of the Space as they were: the     *)
(* code writes media first "rolling media back on failure when possible"    *)
(* (lifecycle.py:276-278).                                                  *)
FailedRestoreKeepsMedia == op = NoOp => atRestore \subseteq objects
=============================================================================
