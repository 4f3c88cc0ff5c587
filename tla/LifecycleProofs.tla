-------------------------- MODULE LifecycleProofs --------------------------
(***************************************************************************)
(* Ownership and the lifecycle operations of a Space, for any browsers,    *)
(* origins, images, failures and crashes.                                  *)
(***************************************************************************)
EXTENDS Lifecycle, TLAPS

\* What an export has read, and what it left in an archive, is one owner's.
Carried ==
    /\ op.do \in {"export", "collect"} => \A k \in op.codes : k.owner = op.site.owner
    /\ op.do = "restore" => archive # NoOne
    /\ archive # NoOne => \A k \in archive.codes : k.owner = archive.site.owner

CodeCounts ==
    /\ redeemed \in [DOMAIN redeemed -> Nat] /\ DOMAIN redeemed \subseteq Code
    /\ revived \in [DOMAIN revived -> Nat] /\ DOMAIN revived \subseteq Code

MediaHistories ==
    /\ published \subseteq Asset
    /\ removed \subseteq Object /\ promised \subseteq Object
    /\ atRestore \subseteq Object /\ doomed \subseteq Object
    /\ mustPause \in BOOLEAN

TypeInv == OwnTypeOK /\ LifeTypeOK /\ Carried /\ CodeCounts /\ MediaHistories

(* The fields of a handler's local variables. *)
LEMMA TaskShape ==
  ASSUME NEW t \in TaskRow
  PROVE  /\ t.do \in {"idle", "claim", "issue", "revoke", "redeem", "save"}
         /\ t.do = "claim" => t.origin \in Origin
         /\ t.do \in {"issue", "revoke"} => t.owner \in Nat /\ t.mark \in Nat
         /\ t.do = "redeem" => t.code \in Code
         /\ t.do = "save" => t.rev \in Nat /\ t.origin \in Origin /\ t.era \in Nat
BY DEF TaskRow

(* The local variables that the steps of a handler make. *)
LEMMA TaskMade ==
  /\ Idle \in TaskRow
  /\ \A o \in Origin : [do |-> "claim", origin |-> o] \in TaskRow
  /\ \A n, m \in Nat : /\ [do |-> "issue", owner |-> n, mark |-> m] \in TaskRow
                       /\ [do |-> "revoke", owner |-> n, mark |-> m] \in TaskRow
  /\ \A k \in Code : [do |-> "redeem", mark |-> 0, code |-> k] \in TaskRow
  /\ \A r, e \in Nat, o \in Origin :
        [do |-> "save", rev |-> r, origin |-> o, era |-> e] \in TaskRow
BY DEF TaskRow, Idle

(* The fields of a lifecycle operation's local variables. *)
LEMMA OpShape ==
  ASSUME NEW o \in OpRow
  PROVE  /\ o.do \in {"none", "list", "export", "collect", "restore", "undo", "hold",
                      "pause", "move", "purge", "erase"}
         /\ o.do = "none" => o = NoOp
         /\ o.do \in {"export", "collect"} => o.site \in SiteRow /\ o.codes \subseteq Code
         /\ o.do = "collect" => o.rows \subseteq Asset
         /\ o.do = "restore" => o = [do |-> "restore", written |-> o.written]
         /\ o.do = "undo" => o = [do |-> "undo", written |-> o.written]
         /\ o.do \in {"restore", "undo"} => o.written \subseteq Object
         /\ o.do \in {"hold", "pause", "move"} => o.rev \in Nat /\ o.target \in Origin
         /\ o.do = "pause" => o.ctl \in Nat
         /\ o.do = "purge" => o = [do |-> "purge", keys |-> o.keys]
         /\ o.do = "erase" => o = [do |-> "erase", keys |-> o.keys]
         /\ o.do \in {"purge", "erase"} => o.keys \subseteq Object
BY DEF OpRow, NoOp

(* The local variables that the steps of an operation make. *)
LEMMA OpMade ==
  /\ NoOp \in OpRow /\ [do |-> "list"] \in OpRow
  /\ \A s \in SiteRow, k \in SUBSET Code :
        /\ [do |-> "export", site |-> s, codes |-> k] \in OpRow
        /\ \A r \in SUBSET Asset :
              [do |-> "collect", site |-> s, codes |-> k, rows |-> r] \in OpRow
  /\ \A w \in SUBSET Object : /\ [do |-> "restore", written |-> w] \in OpRow
                              /\ [do |-> "undo", written |-> w] \in OpRow
                              /\ [do |-> "purge", keys |-> w] \in OpRow
                              /\ [do |-> "erase", keys |-> w] \in OpRow
  /\ \A r, n \in Nat, o \in Origin :
        /\ [do |-> "hold", rev |-> r, target |-> o] \in OpRow
        /\ [do |-> "move", rev |-> r, target |-> o] \in OpRow
        /\ [do |-> "pause", rev |-> r, target |-> o, ctl |-> n] \in OpRow
BY DEF OpRow, NoOp

(* Counting one more redemption. *)
LEMMA CountedTally ==
  ASSUME NEW f, NEW k, f \in [DOMAIN f -> Nat]
  PROVE  /\ Counted(f, k) \in [DOMAIN f \cup {k} -> Nat]
         /\ DOMAIN Counted(f, k) = DOMAIN f \cup {k}
         /\ \A x : Tally(f, x) \in Nat
         /\ \A x : Tally(Counted(f, k), x) = Tally(f, x) + IF x = k THEN 1 ELSE 0
<1>1. \A x : Tally(f, x) \in Nat  BY DEF Tally
<1> QED  BY <1>1 DEF Counted, Tally

(* The Space before its first visitor. *)
LEMMA TypeStart == LifeInit => TypeInv
<1> SUFFICES ASSUME LifeInit PROVE TypeInv  OBVIOUS
<1>1. OwnTypeOK  BY TaskMade DEF LifeInit, OwnInit, OwnTypeOK
<1>2. LifeTypeOK
  BY OpMade DEF LifeInit, OwnInit, LifeTypeOK, ControlRow, Unpaused
<1>3. Carried /\ CodeCounts /\ MediaHistories
  BY DEF LifeInit, OwnInit, Carried, CodeCounts, MediaHistories, NoOp
<1> QED  BY <1>1, <1>2, <1>3 DEF TypeInv

(* The steps of the visitors' and the owner's handlers keep the types.      *)
LEMMA OwnTypes ==
  ASSUME OwnTypeOK, CodeCounts, OwnNext PROVE OwnTypeOK' /\ CodeCounts'
<1> USE DEF OwnTypeOK, CodeCounts
<1>1. CASE SessionExpires
  BY <1>1 DEF SessionExpires, webVars, ownHistory
<1>2. ASSUME NEW c \in Client, BeginSetup(c) PROVE OwnTypeOK' /\ CodeCounts'
  BY <1>2, TaskMade DEF BeginSetup, siteVars, ownHistory
<1>3. ASSUME NEW c \in Client, Bootstrap(c) PROVE OwnTypeOK' /\ CodeCounts'
  <2> DEFINE id == drawn.owner + 1
  <2>1. task[c] \in TaskRow  OBVIOUS
  <2>2. task[c].origin \in Origin  BY <1>3, <2>1, TaskShape DEF Bootstrap
  <2> id \in Nat /\ id = drawn.owner + 1  OBVIOUS
  <2> HIDE DEF id
  <2>3. CASE Claimable
    <3>1. codes = {} /\ sessions = {}  BY <2>3 DEF Claimable
    <3>2. site' \in SiteRow
      BY <1>3, <2>2, <2>3 DEF Bootstrap, Fresh, SiteRow
    <3>3. site'.owner = id /\ codes' = [owner : {id}, nr : 1..CodesPerOwner]
      BY <1>3, <2>3 DEF Bootstrap, Fresh
    <3>4. codes' \subseteq Code /\ \A k \in codes' : k.owner = id
      BY <3>3 DEF Code
    <3> DEFINE after == [do |-> "issue", owner |-> id, mark |-> 0]
    <3>a. after \in TaskRow  BY TaskMade
    <3>b. task' = [task EXCEPT ![c] = after]  BY <1>3, <2>3 DEF Bootstrap
    <3>5. task' \in [Client -> TaskRow]  BY <3>a, <3>b
    <3>c. told' = told \cup {[client |-> c, owner |-> id]}
      BY <1>3, <2>3 DEF Bootstrap, id
    <3>6. told' \subseteq [client : Client, owner : Nat]  BY <3>c
    <3>d. drawn' = [drawn EXCEPT !.owner = id, !.version = drawn.version + 1]
      BY <1>3, <2>3 DEF Bootstrap, id
    <3>7. drawn' \in [owner : Nat, session : Nat, version : Nat]
      <4>1. drawn.version + 1 \in Nat  OBVIOUS
      <4> QED  BY <3>d, <4>1
    <3>8. site' # NoOne  BY <3>2, OwnershipBounds DEF SiteRow
    <3> QED
      BY <1>3, <2>2, <2>3, <3>1, <3>2, <3>3, <3>4, <3>5, <3>6, <3>7, <3>8 DEF Bootstrap
  <2>4. CASE ~Claimable
    BY <1>3, <2>4, TaskMade DEF Bootstrap
  <2> QED  BY <2>3, <2>4
<1>4. ASSUME NEW c \in Client, BeginLogin(c) PROVE OwnTypeOK' /\ CodeCounts'
  <2>1. site.owner \in Nat  BY <1>4 DEF BeginLogin, SiteRow
  <2> QED  BY <1>4, <2>1, TaskMade DEF BeginLogin, siteVars, ownHistory
<1>5. ASSUME NEW c \in Client, BeginRecovery(c) PROVE OwnTypeOK' /\ CodeCounts'
  <2>1. \A n \in 1..CodesPerOwner : [owner |-> site.owner, nr |-> n] \in Code
    BY <1>5 DEF BeginRecovery, SiteRow, Code
  <2> QED  BY <1>5, <2>1, TaskMade DEF BeginRecovery, siteVars, ownHistory
<1>6. ASSUME NEW c \in Client, Redeem(c) PROVE OwnTypeOK' /\ CodeCounts'
  <2> DEFINE k == task[c].code
  <2>1. task[c] \in TaskRow  OBVIOUS
  <2>2. k \in Code  BY <1>6, <2>1, TaskShape DEF Redeem
  <2>3. k.owner \in Nat /\ drawn.session \in Nat  BY <2>2 DEF Code
  <2> HIDE DEF k
  <2> DEFINE after == [do |-> "revoke", owner |-> k.owner, mark |-> drawn.session]
  <2>a. after \in TaskRow  BY <2>3, TaskMade
  <2>b. task' \in {[task EXCEPT ![c] = after], [task EXCEPT ![c] = Idle]}
    BY <1>6 DEF Redeem, k
  <2>4. task' \in [Client -> TaskRow]  BY <2>a, <2>b, TaskMade
  <2>5. Counted(redeemed, k) \in [DOMAIN redeemed \cup {k} -> Nat]
        /\ DOMAIN Counted(redeemed, k) = DOMAIN redeemed \cup {k}
    BY CountedTally
  <2>6. redeemed' \in {redeemed, Counted(redeemed, k)} /\ codes' \subseteq codes
    BY <1>6 DEF Redeem, k
  <2> QED  BY <1>6, <2>2, <2>4, <2>5, <2>6 DEF Redeem
<1>7. ASSUME NEW c \in Client, RevokeAll(c) PROVE OwnTypeOK' /\ CodeCounts'
  <2>1. task[c] \in TaskRow  OBVIOUS
  <2>2. task[c].owner \in Nat /\ task[c].mark \in Nat
    BY <1>7, <2>1, TaskShape DEF RevokeAll
  <2> QED  BY <1>7, <2>2, TaskMade DEF RevokeAll, Surviving, ownHistory
<1>8. ASSUME NEW c \in Client, IssueSession(c) PROVE OwnTypeOK' /\ CodeCounts'
  <2>1. task[c] \in TaskRow  OBVIOUS
  <2>2. task[c].owner \in Nat /\ task[c].mark \in Nat
    BY <1>8, <2>1, TaskShape DEF IssueSession
  <2>3. task' \in [Client -> TaskRow]  BY <1>8, TaskMade DEF IssueSession
  <2>4. CASE site # NoOne /\ site.owner = task[c].owner
    BY <1>8, <2>2, <2>3, <2>4 DEF IssueSession, SessionRow, Larger
  <2>5. CASE ~(site # NoOne /\ site.owner = task[c].owner)
    BY <1>8, <2>3, <2>5 DEF IssueSession
  <2> QED  BY <2>4, <2>5
<1>9. ASSUME NEW c \in Client, Logout(c) PROVE OwnTypeOK' /\ CodeCounts'
  BY <1>9 DEF Logout, ownHistory
<1>10. ASSUME NEW c \in Client, OpenForm(c) PROVE OwnTypeOK' /\ CodeCounts'
  <2>1. [rev |-> site.rev, look |-> site.look, era |-> era] \in FormRow
    BY <1>10 DEF OpenForm, SignedIn, SiteRow, FormRow
  <2> QED  BY <1>10, <2>1 DEF OpenForm, siteVars, ownHistory
<1>11. ASSUME NEW c \in Client, BeginSave(c) PROVE OwnTypeOK' /\ CodeCounts'
  <2>1. form[c].rev \in Nat /\ site.origin \in Origin /\ era \in Nat
    BY <1>11 DEF BeginSave, SignedIn, SiteRow, FormRow
  <2> QED  BY <1>11, <2>1, TaskMade DEF BeginSave, siteVars, ownHistory
<1>12. ASSUME NEW c \in Client, CommitSave(c) PROVE OwnTypeOK' /\ CodeCounts'
  <2>1. task[c] \in TaskRow  OBVIOUS
  <2>2. task[c].rev \in Nat /\ task[c].origin \in Origin
    BY <1>12, <2>1, TaskShape DEF CommitSave
  <2>3. task' \in [Client -> TaskRow]  BY <1>12, TaskMade DEF CommitSave
  <2>4. CASE StillAt(task[c].rev)
    <3>a. /\ site \in SiteRow
          /\ site' = [site EXCEPT !.rev = task[c].rev + 1, !.look = drawn.version + 1,
                                  !.origin = task[c].origin]
      BY <1>12, <2>4 DEF CommitSave, StillAt
    <3>d. drawn.version + 1 \in Nat /\ task[c].rev + 1 \in Nat  BY <2>2
    <3>1. site' \in SiteRow /\ site'.owner = site.owner
      BY <3>a, <3>d, <2>2 DEF SiteRow
    <3>2. site' # NoOne  BY <3>1, OwnershipBounds DEF SiteRow
    <3> QED  BY <1>12, <2>2, <2>3, <2>4, <3>1, <3>2 DEF CommitSave, StillAt
  <2>5. CASE ~StillAt(task[c].rev)
    BY <1>12, <2>3, <2>5 DEF CommitSave
  <2> QED  BY <2>4, <2>5
<1> QED
  BY <1>1, <1>2, <1>3, <1>4, <1>5, <1>6, <1>7, <1>8, <1>9, <1>10, <1>11, <1>12
  DEF OwnNext

LEMMA OwnFrame ==
  ASSUME OwnTypeOK, CodeCounts, UNCHANGED ownVars PROVE OwnTypeOK' /\ CodeCounts'
BY DEF OwnTypeOK, CodeCounts, ownVars, siteVars, webVars, ownHistory

(* The steps of publishing, of the controls and of a lifecycle operation    *)
(* keep the types.                                                          *)
LEMMA LifeTypes ==
  ASSUME TypeInv, LifeStep PROVE TypeInv'
<1> USE DEF TypeInv, LifeTypeOK, Carried, MediaHistories
<1>0. /\ op \in OpRow /\ op.do \in {"none", "list", "export", "collect", "restore", "undo",
                                 "hold", "pause", "move", "purge", "erase"}
      /\ \A a \in SUBSET Asset : KeysOf(a) \subseteq Object
  BY OpShape DEF KeysOf, Object
<1>1. CASE StoreObjects
  BY <1>0, <1>1, OwnFrame DEF StoreObjects, controlVars
<1>2. CASE SaveRow
  BY <1>2, OwnFrame DEF SaveRow, controlVars, lifeHistory
<1>3. CASE RemoveMedia
  BY <1>0, <1>3, OwnFrame DEF RemoveMedia, controlVars
<1>4. CASE OpenControls
  <2>1. [c |-> control, era |-> era] \in [c : ControlRow, era : Nat]  BY DEF OwnTypeOK
  <2> QED  BY <1>4, <2>1, OwnFrame DEF OpenControls, mediaVars, lifeHistory
<1>5. CASE SubmitControls
  <2>1. page \in [c : ControlRow, era : Nat]  BY <1>5 DEF SubmitControls
  <2>2. page.c.rev + 1 \in Nat  BY <2>1 DEF ControlRow
  <2>3. \A i, o \in BOOLEAN : [in |-> i, out |-> o, rev |-> page.c.rev + 1] \in ControlRow
    BY <2>2 DEF ControlRow
  <2>4. control' \in ControlRow /\ mustPause' \in BOOLEAN /\ page' = NoOne
    BY <1>5, <2>3 DEF SubmitControls
  <2> QED  BY <1>5, <2>4, OwnFrame DEF SubmitControls, mediaVars
<1>6. CASE BeginExport
  <2> DEFINE held == {k \in codes : k.owner = site.owner}
  <2>1. site \in SiteRow /\ held \subseteq Code  BY <1>6 DEF BeginExport, OwnTypeOK
  <2>2. op' = [do |-> "export", site |-> site, codes |-> held]
    BY <1>6 DEF BeginExport, Begin
  <2>3. op' \in OpRow  BY <2>1, <2>2, OpMade
  <2> QED
    BY <1>6, <2>2, <2>3, OwnFrame DEF BeginExport, Begin, mediaVars, controlVars
<1>7. CASE ReadMediaRows
  <2>1. op.site \in SiteRow /\ op.codes \subseteq Code
    BY <1>0, <1>7, OpShape DEF ReadMediaRows
  <2> QED
    BY <1>7, <2>1, OpMade, OwnFrame DEF ReadMediaRows, mediaVars, controlVars, lifeHistory
<1>8. CASE Collect
  <2>1. op.site \in SiteRow /\ op.codes \subseteq Code /\ op.rows \subseteq Asset
    BY <1>0, <1>8, OpShape DEF Collect
  <2> DEFINE new == Envelope(op.site, op.codes, op.rows, Present(op.rows))
  <2>2. /\ Present(op.rows) \subseteq KeysOf(op.rows)
        /\ Present(op.rows) \subseteq Object
    BY <1>0, <2>1 DEF Present
  <2>3. /\ new \in ArchiveRow
        /\ new.codes = op.codes /\ new.site = op.site /\ new.rows = op.rows
        /\ new.listed = Present(op.rows) /\ new.blobs = Present(op.rows)
    BY <2>1, <2>2 DEF Envelope, ArchiveRow
  <2>4. archive' = new /\ op' = NoOp  BY <1>8 DEF Collect
  <2> HIDE DEF new
  <2> QED
    BY <1>8, <2>2, <2>3, <2>4, OpMade, OwnFrame
    DEF Collect, NoOp, mediaVars, controlVars, lifeHistory
<1>9. CASE Damage
  <2>1. PICK k \in archive.blobs : archive' = [archive EXCEPT !.blobs = @ \ {k}]
    BY <1>9 DEF Damage
  <2>2. archive \in ArchiveRow /\ archive # NoOne  BY <1>9 DEF Damage
  <2>3. /\ archive' \in ArchiveRow /\ archive'.blobs \subseteq archive.blobs
        /\ archive'.listed = archive.listed /\ archive'.rows = archive.rows
        /\ archive'.codes = archive.codes /\ archive'.site = archive.site
    BY <2>1, <2>2 DEF ArchiveRow
  <2> QED
    BY <1>9, <2>2, <2>3, OwnFrame DEF Damage, NoOp, mediaVars, controlVars
<1>10. CASE BeginRestore
  <2>1. Present(rows) \subseteq Object  BY <1>0 DEF Present
  <2>2. op' \in OpRow /\ op'.do = "restore" /\ archive # NoOne
    BY <1>10, OpMade DEF BeginRestore, Begin
  <2>3. removed' \subseteq Object /\ atRestore' \subseteq Object
    BY <1>10, <2>1 DEF BeginRestore
  <2> QED  BY <1>10, <2>2, <2>3, OwnFrame DEF BeginRestore, Begin, mediaVars, controlVars
<1>11. CASE PutObject
  <2>1. /\ op = [do |-> "restore", written |-> op.written] /\ op.written \subseteq Object
        /\ op.do = "restore"
    BY <1>0, <1>11, OpShape DEF PutObject
  <2>2. PICK k \in archive.blobs \ op.written :
          /\ objects' = objects \cup {k}
          /\ op' = [op EXCEPT !.written = @ \cup {k}]
          /\ removed' = removed \ {k} /\ doomed' = doomed \ {k}
    BY <1>11 DEF PutObject
  <2>3. k \in Object  BY <2>1 DEF ArchiveRow
  <2>4. op' = [do |-> "restore", written |-> op.written \cup {k}]  BY <2>1, <2>2
  <2>5. op.written \cup {k} \in SUBSET Object  BY <2>1, <2>3
  <2>6. op' \in OpRow /\ op'.do = "restore"  BY <2>4, <2>5, OpMade
  <2>7. objects' \subseteq Object /\ removed' \subseteq Object /\ doomed' \subseteq Object
    BY <2>2, <2>3
  <2> QED
    BY <1>11, <2>1, <2>6, <2>7, OwnFrame DEF PutObject, controlVars
<1>12. CASE ReplaceSnapshot
  <2>1. op.do = "restore" /\ archive \in ArchiveRow /\ archive # NoOne
    BY <1>12 DEF ReplaceSnapshot
  <2>2. /\ archive.site \in SiteRow /\ archive.codes \subseteq Code
        /\ archive.rows \subseteq Asset /\ archive.listed \subseteq Object
    BY <2>1 DEF ArchiveRow
  <2>3. /\ site' = archive.site /\ codes' = archive.codes /\ sessions' = {}
        /\ rows' = archive.rows /\ control' = Unpaused /\ op' = NoOp
    BY <1>12 DEF ReplaceSnapshot, Restored
  <2>4. site' # NoOne  BY <2>2, <2>3, OwnershipBounds DEF SiteRow
  <2>5. OwnTypeOK'
    <3>1. origin' \in Origin  BY <1>12, <2>2 DEF ReplaceSnapshot, SiteRow
    <3>2. era' \in Nat /\ fence' \in Nat /\ told' = {}
      BY <1>12 DEF ReplaceSnapshot, OwnTypeOK
    <3>3. UNCHANGED <<webVars, drawn, lostEdit>>  BY <1>12 DEF ReplaceSnapshot
    <3>4. \A k \in codes' : k.owner = site'.owner  BY <2>1, <2>3
    <3> QED  BY <2>2, <2>3, <2>4, <3>1, <3>2, <3>3, <3>4 DEF OwnTypeOK, webVars
  <2>6. CodeCounts'
    <3> DEFINE back == archive.codes \ codes
               sum(k) == Tally(revived, k) + IF k \in back THEN 1 ELSE 0
    <3>1. revived' = [k \in DOMAIN revived \cup back |-> sum(k)] /\ redeemed' = redeemed
      BY <1>12 DEF ReplaceSnapshot
    <3>2. \A k : Tally(revived, k) \in Nat  BY CountedTally DEF CodeCounts
    <3>3. \A k : sum(k) \in Nat  BY <3>2
    <3> HIDE DEF sum
    <3>4. DOMAIN revived' = DOMAIN revived \cup back  BY <3>1
    <3> QED  BY <2>2, <3>1, <3>3, <3>4 DEF CodeCounts
  <2>7. LifeTypeOK'
    <3>1. Unpaused \in ControlRow  BY DEF Unpaused, ControlRow
    <3>2. UNCHANGED <<objects, upload, page, archive>>  BY <1>12 DEF ReplaceSnapshot
    <3> QED  BY <2>2, <2>3, <3>1, <3>2, OpMade
  <2>8. Carried'
    BY <1>12, <2>3 DEF ReplaceSnapshot, NoOp
  <2>9. MediaHistories'
    <3>1. promised' \subseteq Object /\ atRestore' = {} /\ mustPause' = FALSE
      BY <1>12, <2>2 DEF ReplaceSnapshot
    <3>2. UNCHANGED <<published, removed, doomed>>  BY <1>12 DEF ReplaceSnapshot
    <3> QED  BY <3>1, <3>2
  <2> QED  BY <2>5, <2>6, <2>7, <2>8, <2>9
<1>13. CASE RestoreFails
  <2>1. op = [do |-> "restore", written |-> op.written] /\ op.written \subseteq Object
    BY <1>0, <1>13, OpShape DEF RestoreFails
  <2>2. op' = [do |-> "undo", written |-> op.written]
    BY <1>13, <2>1 DEF RestoreFails
  <2> QED
    BY <1>13, <2>1, <2>2, OpMade, OwnFrame DEF RestoreFails, Mishap, mediaVars, controlVars
<1>14. CASE DeleteWritten
  <2>1. op = [do |-> "undo", written |-> op.written] /\ op.written \subseteq Object
    BY <1>0, <1>14, OpShape DEF DeleteWritten
  <2>2. op' = NoOp \/ \E k : op' = [do |-> "undo", written |-> op.written \ {k}]
    BY <1>14, <2>1 DEF DeleteWritten
  <2>a. \A k : [do |-> "undo", written |-> op.written \ {k}] \in OpRow  BY <2>1, OpMade
  <2>3. op' \in OpRow /\ op'.do \in {"none", "undo"}
    BY <2>2, <2>a DEF OpRow, NoOp
  <2>4. objects' \subseteq objects /\ promised' \subseteq promised
    BY <1>14 DEF DeleteWritten
  <2> QED
    BY <1>14, <2>3, <2>4, OwnFrame DEF DeleteWritten, controlVars
<1>15. CASE BeginMigration
  <2>1. site \in SiteRow  BY <1>15 DEF BeginMigration, OwnTypeOK
  <2>a. PICK o \in Origin : op' = [do |-> "hold", rev |-> site.rev, target |-> o]
    BY <1>15 DEF BeginMigration, Begin
  <2>b. site.rev \in Nat  BY <2>1 DEF SiteRow
  <2>2. op' \in OpRow /\ op'.do = "hold"  BY <2>a, <2>b, OpMade
  <2> QED
    BY <1>15, <2>2, OwnFrame DEF BeginMigration, Begin, mediaVars, controlVars
<1>16. CASE ReadControl
  <2>1. op.rev \in Nat /\ op.target \in Origin /\ control.rev \in Nat
    BY <1>0, <1>16, OpShape DEF ReadControl, ControlRow
  <2> QED
    BY <1>16, <2>1, OpMade, OwnFrame DEF ReadControl, mediaVars, controlVars, lifeHistory
<1>17. CASE PauseFederation
  <2>1. op.rev \in Nat /\ op.target \in Origin /\ op.ctl \in Nat
    BY <1>0, <1>17, OpShape DEF PauseFederation
  <2>2. [in |-> TRUE, out |-> TRUE, rev |-> op.ctl + 1] \in ControlRow
    BY <2>1 DEF ControlRow
  <2>a. [do |-> "move", rev |-> op.rev, target |-> op.target] \in OpRow  BY <2>1, OpMade
  <2>3. /\ control' \in ControlRow /\ mustPause' \in BOOLEAN
        /\ op' \in OpRow /\ op'.do \in {"none", "move"}
    <3>1. CASE ControlStill(op.ctl)
      <4>1. /\ op' = [do |-> "move", rev |-> op.rev, target |-> op.target]
            /\ control' = [in |-> TRUE, out |-> TRUE, rev |-> op.ctl + 1]
            /\ mustPause' = TRUE
        BY <1>17, <3>1 DEF PauseFederation
      <4> QED  BY <4>1, <2>2, <2>a
    <3>2. CASE ~ControlStill(op.ctl)
      BY <1>17, <3>2, OpMade DEF PauseFederation, NoOp
    <3> QED  BY <3>1, <3>2
  <2> QED
    BY <1>17, <2>3, OwnFrame DEF PauseFederation, mediaVars
<1>18. CASE MoveOrigin
  <2>1. op.rev \in Nat /\ op.target \in Origin
    BY <1>0, <1>18, OpShape DEF MoveOrigin
  <2>2. CASE StillAt(op.rev)
    <3>1. site \in SiteRow  BY <2>2 DEF StillAt, OwnTypeOK
    <3>2. op.rev + 1 \in Nat  BY <2>1
    <3>3. site' = [site EXCEPT !.rev = op.rev + 1, !.origin = op.target]
          /\ origin' = op.target
      BY <1>18, <2>2 DEF MoveOrigin, Next1
    <3>4. site' \in SiteRow /\ site'.owner = site.owner
      BY <2>1, <3>1, <3>2, <3>3 DEF SiteRow
    <3>5. site' # NoOne  BY <3>4, OwnershipBounds DEF SiteRow
    <3>6. OwnTypeOK' /\ CodeCounts'
      BY <1>18, <2>1, <3>3, <3>4, <3>5 DEF MoveOrigin, webVars, OwnTypeOK, CodeCounts
    <3> QED
      BY <1>18, <3>6, OpMade DEF MoveOrigin, NoOp, mediaVars, controlVars, lifeHistory
  <2>3. CASE ~StillAt(op.rev)
    BY <1>18, <2>3, OpMade DEF MoveOrigin, NoOp, webVars, mediaVars, controlVars, lifeHistory,
       OwnTypeOK, CodeCounts
  <2> QED  BY <2>2, <2>3
<1>19. CASE BeginDeletion
  <2>1. doomed' \subseteq Object /\ op' = [do |-> "list"]
    BY <1>0, <1>19 DEF BeginDeletion, Begin, Present
  <2> QED
    BY <1>19, <2>1, OpMade, OwnFrame DEF BeginDeletion, Begin, mediaVars, controlVars
<1>20. CASE ListMedia
  <2>1. MediaKeys(rows) \subseteq Object  BY <1>0 DEF MediaKeys
  <2> QED
    BY <1>20, <2>1, OpMade, OwnFrame DEF ListMedia, mediaVars, controlVars, lifeHistory
<1>21. CASE Purge
  <2>1. op.keys \subseteq Object  BY <1>0, <1>21, OpShape DEF Purge
  <2>2. op' \in OpRow /\ op'.do = "erase"  BY <1>21, <2>1, OpMade DEF Purge
  <2>3. Unpaused \in ControlRow  BY DEF Unpaused, ControlRow
  <2>4. OwnTypeOK' /\ CodeCounts'
    BY <1>21 DEF Purge, PurgeOwner, webVars, OwnTypeOK, CodeCounts
  <2> QED  BY <1>21, <2>2, <2>3, <2>4 DEF Purge
<1>22. CASE EraseObject
  <2>1. op = [do |-> "erase", keys |-> op.keys] /\ op.keys \subseteq Object
    BY <1>0, <1>22, OpShape DEF EraseObject
  <2>2. op' = NoOp \/ \E k : op' = [do |-> "erase", keys |-> op.keys \ {k}]
    BY <1>22, <2>1 DEF EraseObject
  <2>a. \A k : [do |-> "erase", keys |-> op.keys \ {k}] \in OpRow  BY <2>1, OpMade
  <2>3. op' \in OpRow /\ op'.do \in {"none", "erase"}
    BY <2>2, <2>a DEF OpRow, NoOp
  <2>4. objects' \subseteq objects /\ doomed' \subseteq doomed
    BY <1>22 DEF EraseObject
  <2> QED
    BY <1>22, <2>3, <2>4, OwnFrame DEF EraseObject, controlVars
<1>23. CASE OperationDies
  BY <1>23, OpMade, OwnFrame DEF OperationDies, NoOp, mediaVars, controlVars
<1> QED
  BY <1>1, <1>2, <1>3, <1>4, <1>5, <1>6, <1>7, <1>8, <1>9, <1>10, <1>11, <1>12, <1>13,
     <1>14, <1>15, <1>16, <1>17, <1>18, <1>19, <1>20, <1>21, <1>22, <1>23, OwnFrame DEF LifeStep

(* Whatever step is taken, the types hold after it.                         *)
LEMMA TypeStep == ASSUME TypeInv, [LifeNext]_allVars PROVE TypeInv'
<1>1. CASE LifeStep  BY <1>1, LifeTypes
<1>2. CASE OwnNext /\ UNCHANGED lifeVars
  <2>1. OwnTypeOK' /\ CodeCounts'  BY <1>2, OwnTypes DEF TypeInv
  <2> QED
    BY <1>2, <2>1 DEF TypeInv, LifeTypeOK, Carried, MediaHistories, lifeVars, mediaVars,
       controlVars, lifeHistory
<1>3. CASE UNCHANGED allVars
  BY <1>3 DEF allVars, ownVars, siteVars, webVars, ownHistory, lifeVars, mediaVars,
     controlVars, lifeHistory, TypeInv, OwnTypeOK, CodeCounts, LifeTypeOK, Carried,
     MediaHistories
<1> QED  BY <1>1, <1>2, <1>3 DEF LifeNext

(* The rows of the database, the object storage and the local variables of  *)
(* every handler keep their types, and what an archive carries belongs to   *)
(* the owner in it.                                                         *)
THEOREM Types == LifeSpec => []TypeInv
<1>1. LifeInit => TypeInv  BY TypeStart
<1>2. TypeInv /\ [LifeNext]_allVars => TypeInv'  BY TypeStep
<1> QED  BY <1>1, <1>2, PTL DEF LifeSpec

----------------------------------------------------------------------------
\* The owner's rows change in few steps of a lifecycle operation.

LEMMA OwnSteps ==
  ASSUME [LifeNext]_allVars
  PROVE  OwnNext \/ UNCHANGED ownVars \/ ReplaceSnapshot \/ MoveOrigin \/ Purge
BY DEF LifeNext, LifeStep, allVars, StoreObjects, SaveRow, RemoveMedia, OpenControls,
   SubmitControls, BeginExport, ReadMediaRows, Collect, Damage, BeginRestore, PutObject,
   RestoreFails, DeleteWritten, BeginMigration, ReadControl, PauseFederation,
   BeginDeletion, ListMedia, EraseObject, OperationDies

\* Of the handlers' steps, two write the Space's row.
LEMMA SiteSteps ==
  ASSUME TypeInv, OwnNext
  PROVE  \/ \E c \in Client : Bootstrap(c) \/ CommitSave(c)
         \/ UNCHANGED <<site, told, origin, lostEdit, era>> /\ drawn'.owner = drawn.owner
<1>1. ASSUME NEW c \in Client, IssueSession(c)
      PROVE  UNCHANGED <<site, told, origin, lostEdit, era>> /\ drawn'.owner = drawn.owner
  BY <1>1 DEF IssueSession, TypeInv, OwnTypeOK
<1>2. ASSUME UNCHANGED <<site, told, origin, lostEdit, era, drawn>>
      PROVE  UNCHANGED <<site, told, origin, lostEdit, era>> /\ drawn'.owner = drawn.owner
  BY <1>2
<1>3. \/ \E c \in Client : Bootstrap(c) \/ CommitSave(c) \/ IssueSession(c)
      \/ UNCHANGED <<site, told, origin, lostEdit, era, drawn>>
  BY DEF OwnNext, SessionExpires, BeginSetup, BeginLogin, BeginRecovery, Redeem, RevokeAll,
     Logout, OpenForm, BeginSave, siteVars, webVars, ownHistory
<1> QED  BY <1>1, <1>2, <1>3

\* What the steps that write it make of the row.
LEMMA SiteWrites ==
  ASSUME TypeInv
  PROVE  /\ \A c \in Client : CommitSave(c) =>
              \/ /\ site # NoOne /\ site' # NoOne /\ StillAt(task[c].rev)
                 /\ site'.owner = site.owner /\ site'.rev = site.rev + 1
                 /\ site'.origin = task[c].origin
              \/ site' = site
         /\ MoveOrigin =>
              \/ /\ site # NoOne /\ site' # NoOne
                 /\ site'.owner = site.owner /\ site'.rev = site.rev + 1
                 /\ site'.origin = origin'
              \/ site' = site /\ origin' = origin
         /\ ReplaceSnapshot => site' # NoOne /\ site' = archive.site
<1> USE DEF TypeInv, OwnTypeOK
<1>1. ASSUME NEW c \in Client, CommitSave(c), StillAt(task[c].rev)
      PROVE  /\ site # NoOne /\ site' # NoOne
             /\ site'.owner = site.owner /\ site'.rev = site.rev + 1
             /\ site'.origin = task[c].origin
  <2>1. task[c] \in TaskRow /\ site \in SiteRow /\ site.rev = task[c].rev /\ site # NoOne
    BY <1>1 DEF StillAt
  <2>2. task[c].rev \in Nat /\ task[c].origin \in Origin
    BY <1>1, <2>1, TaskShape DEF CommitSave
  <2>3. site' = [site EXCEPT !.rev = task[c].rev + 1, !.look = drawn.version + 1,
                             !.origin = task[c].origin]
    BY <1>1 DEF CommitSave
  <2>4. task[c].rev + 1 \in Nat /\ drawn.version + 1 \in Nat  BY <2>2
  <2>5. site' \in SiteRow /\ site'.owner = site.owner /\ site'.rev = site.rev + 1
        /\ site'.origin = task[c].origin
    BY <2>1, <2>2, <2>3, <2>4 DEF SiteRow
  <2> QED  BY <2>1, <2>5, OwnershipBounds DEF SiteRow
<1>2. ASSUME NEW c \in Client, CommitSave(c), ~StillAt(task[c].rev) PROVE site' = site
  BY <1>2 DEF CommitSave
<1>3. ASSUME MoveOrigin, StillAt(op.rev)
      PROVE  /\ site # NoOne /\ site' # NoOne
             /\ site'.owner = site.owner /\ site'.rev = site.rev + 1
             /\ site'.origin = origin'
  <2>1. op \in OpRow /\ site \in SiteRow /\ site.rev = op.rev /\ site # NoOne
    BY <1>3 DEF StillAt, LifeTypeOK
  <2>2. op.rev \in Nat /\ op.target \in Origin
    BY <1>3, <2>1, OpShape DEF MoveOrigin
  <2>3. site' = [site EXCEPT !.rev = op.rev + 1, !.origin = op.target]
        /\ origin' = op.target
    BY <1>3 DEF MoveOrigin, Next1
  <2>4. op.rev + 1 \in Nat  BY <2>2
  <2>5. site' \in SiteRow /\ site'.owner = site.owner /\ site'.rev = site.rev + 1
        /\ site'.origin = op.target
    BY <2>1, <2>2, <2>3, <2>4 DEF SiteRow
  <2> QED  BY <2>1, <2>3, <2>5, OwnershipBounds DEF SiteRow
<1>4. ASSUME MoveOrigin, ~StillAt(op.rev) PROVE site' = site /\ origin' = origin
  BY <1>4 DEF MoveOrigin
<1>5. ASSUME ReplaceSnapshot PROVE site' # NoOne /\ site' = archive.site
  <2>1. archive \in ArchiveRow
    BY <1>5 DEF ReplaceSnapshot, LifeTypeOK, Carried
  <2> QED  BY <1>5, <2>1, OwnershipBounds DEF ReplaceSnapshot, Restored, ArchiveRow, SiteRow
<1> QED  BY <1>1, <1>2, <1>3, <1>4, <1>5

----------------------------------------------------------------------------
\* One claim.

LEMMA ClaimStep ==
  ASSUME TypeInv, OneClaim, [LifeNext]_allVars PROVE OneClaim'
<1>1. CASE OwnNext
  <2>1. ASSUME NEW c \in Client, Bootstrap(c) PROVE OneClaim'
    <3>1. CASE Claimable
      <4>1. told = {}  BY <3>1 DEF Claimable, OneClaim
      <4>2. /\ told' = {[client |-> c, owner |-> drawn.owner + 1]}
            /\ site' = Fresh(drawn.owner + 1, drawn.version + 1, task[c].origin)
        BY <2>1, <3>1, <4>1 DEF Bootstrap
      <4>3. task[c].origin \in Origin
        BY <2>1, TaskShape DEF Bootstrap, TypeInv, OwnTypeOK
      <4>4. site' \in SiteRow /\ site'.owner = drawn.owner + 1
        BY <4>2, <4>3 DEF Fresh, SiteRow, TypeInv, OwnTypeOK
      <4>5. site' # NoOne  BY <4>4, OwnershipBounds DEF SiteRow
      <4> QED  BY <4>2, <4>4, <4>5 DEF OneClaim
    <3>2. CASE ~Claimable  BY <2>1, <3>2 DEF Bootstrap, OneClaim
    <3> QED  BY <3>1, <3>2
  <2>2. ASSUME NEW c \in Client, CommitSave(c) PROVE OneClaim'
    BY <2>2, SiteWrites DEF CommitSave, OneClaim
  <2>3. CASE UNCHANGED <<site, told>>  BY <2>3 DEF OneClaim
  <2> QED  BY <1>1, <2>1, <2>2, <2>3, SiteSteps
<1>2. CASE UNCHANGED ownVars  BY <1>2 DEF ownVars, siteVars, ownHistory, OneClaim
<1>3. CASE ReplaceSnapshot  BY <1>3 DEF ReplaceSnapshot, OneClaim
<1>4. CASE MoveOrigin  BY <1>4, SiteWrites DEF MoveOrigin, OneClaim
<1>5. CASE Purge  BY <1>5 DEF Purge, PurgeOwner, OneClaim
<1> QED  BY <1>1, <1>2, <1>3, <1>4, <1>5, OwnSteps

(* Of the visitors who race through setup, at most one is told that the     *)
(* Space is theirs, and it is.                                              *)
THEOREM ClaimedOnce == LifeSpec => []OneClaim
<1>1. LifeInit => OneClaim  BY DEF LifeInit, OwnInit, OneClaim
<1>2. TypeInv /\ OneClaim /\ [LifeNext]_allVars => OneClaim'  BY ClaimStep
<1> QED  BY <1>1, <1>2, Types, PTL DEF LifeSpec

----------------------------------------------------------------------------
\* Recovery codes: one that is still unused was redeemed at most as often as
\* a restore brought it back, and the codes of a later owner are new.

Spent == \A k \in codes : Tally(redeemed, k) <= Tally(revived, k)
AtMostOnceMore == \A k \in Code : Tally(redeemed, k) <= 1 + Tally(revived, k)
CodesDrawn == \A k \in DOMAIN redeemed : k.owner <= drawn.owner
OwnersDrawn ==
    /\ site # NoOne => site.owner <= drawn.owner
    /\ op.do \in {"export", "collect"} => op.site.owner <= drawn.owner
    /\ archive # NoOne => archive.site.owner <= drawn.owner

CodeInv == Spent /\ AtMostOnceMore /\ CodesDrawn /\ OwnersDrawn

LEMMA CodeStart == LifeInit => CodeInv
BY DEF LifeInit, OwnInit, CodeInv, Spent, AtMostOnceMore, CodesDrawn, OwnersDrawn, Tally,
   NoOp

\* A snapshot and an archive are made by three steps.
LEMMA OpSteps ==
  ASSUME TypeInv, LifeStep
  PROVE  \/ BeginExport \/ ReadMediaRows \/ Collect \/ Damage
         \/ UNCHANGED <<archive, op>>
         \/ archive' = archive /\ op'.do \notin {"export", "collect"}
<1>1. CASE StoreObjects \/ SaveRow \/ RemoveMedia \/ OpenControls \/ SubmitControls
  BY <1>1 DEF StoreObjects, SaveRow, RemoveMedia, OpenControls, SubmitControls
<1>2. CASE BeginRestore \/ BeginMigration \/ BeginDeletion
  BY <1>2 DEF BeginRestore, BeginMigration, BeginDeletion, Begin
<1>3. CASE ReadControl \/ PauseFederation \/ MoveOrigin \/ ListMedia \/ Purge
           \/ OperationDies \/ ReplaceSnapshot
  BY <1>3 DEF ReadControl, PauseFederation, MoveOrigin, ListMedia, Purge, OperationDies,
     ReplaceSnapshot, NoOp
<1>4. CASE PutObject \/ RestoreFails \/ DeleteWritten \/ EraseObject
  <2>1. op' = NoOp \/ op'.do \in {"restore", "undo", "erase"}
    <3>1. op \in OpRow  BY DEF TypeInv, LifeTypeOK
    <3>2. /\ op.do = "restore" => op = [do |-> "restore", written |-> op.written]
          /\ op.do = "undo" => op = [do |-> "undo", written |-> op.written]
          /\ op.do = "erase" => op = [do |-> "erase", keys |-> op.keys]
      BY <3>1, OpShape
    <3> QED  BY <1>4, <3>2 DEF PutObject, RestoreFails, DeleteWritten, EraseObject
  <2> QED
    BY <1>4, <2>1 DEF PutObject, RestoreFails, DeleteWritten, EraseObject, NoOp
<1> QED  BY <1>1, <1>2, <1>3, <1>4 DEF LifeStep

LEMMA OwnersStep ==
  ASSUME TypeInv, OwnersDrawn, [LifeNext]_allVars
  PROVE  OwnersDrawn' /\ drawn'.owner \in Nat /\ drawn.owner <= drawn'.owner
<1> USE DEF OwnersDrawn
<1>1. ASSUME UNCHANGED <<archive, op>>, OwnNext
      PROVE  OwnersDrawn' /\ drawn'.owner \in Nat /\ drawn.owner <= drawn'.owner
  <2>1. ASSUME NEW c \in Client, Bootstrap(c)
        PROVE  OwnersDrawn' /\ drawn'.owner \in Nat /\ drawn.owner <= drawn'.owner
    <3>0. /\ drawn.owner \in Nat
          /\ site # NoOne => site.owner \in Nat
          /\ archive # NoOne => archive.site.owner \in Nat
          /\ op.do \in {"export", "collect"} => op.site.owner \in Nat
      BY OpShape DEF TypeInv, OwnTypeOK, LifeTypeOK, SiteRow, ArchiveRow
    <3>1. CASE Claimable
      <4>1. drawn' = [drawn EXCEPT !.owner = drawn.owner + 1, !.version = drawn.version + 1]
            /\ site' = Fresh(drawn.owner + 1, drawn.version + 1, task[c].origin)
        BY <2>1, <3>1 DEF Bootstrap
      <4>2. drawn'.owner = drawn.owner + 1  BY <4>1 DEF TypeInv, OwnTypeOK
      <4>3. site'.owner = drawn.owner + 1  BY <4>1 DEF Fresh
      <4>4. \A n \in Nat : n <= drawn.owner => n <= drawn'.owner  BY <3>0, <4>2
      <4>5. drawn'.owner \in Nat /\ drawn.owner <= drawn'.owner  BY <3>0, <4>2
      <4> QED  BY <1>1, <3>0, <4>2, <4>3, <4>4, <4>5
    <3>2. CASE ~Claimable
      <4>1. UNCHANGED <<site, drawn>>  BY <2>1, <3>2 DEF Bootstrap
      <4> QED  BY <1>1, <3>0, <4>1
    <3> QED  BY <3>1, <3>2
  <2>2. ASSUME NEW c \in Client, CommitSave(c)
        PROVE  OwnersDrawn' /\ drawn'.owner \in Nat /\ drawn.owner <= drawn'.owner
    <3>1. drawn'.owner = drawn.owner /\ drawn.owner \in Nat
      BY <2>2 DEF CommitSave, TypeInv, OwnTypeOK
    <3>2. site' = site \/ (site # NoOne /\ site'.owner = site.owner)  BY <2>2, SiteWrites
    <3> QED  BY <1>1, <3>1, <3>2
  <2>3. CASE site' = site /\ drawn'.owner = drawn.owner
    BY <1>1, <2>3 DEF TypeInv, OwnTypeOK
  <2> QED  BY <1>1, <2>1, <2>2, <2>3, SiteSteps
<1>2. ASSUME LifeStep PROVE OwnersDrawn' /\ drawn' = drawn
  <2>1. /\ drawn' = drawn
        /\ (site' = site \/ (site' # NoOne => site'.owner <= drawn.owner))
    <3>1. CASE UNCHANGED ownVars  BY <3>1 DEF ownVars, siteVars, ownHistory
    <3>2. CASE ReplaceSnapshot
      BY <3>2, SiteWrites DEF ReplaceSnapshot, TypeInv, Carried
    <3>3. CASE MoveOrigin  BY <3>3, SiteWrites DEF MoveOrigin
    <3>4. CASE Purge  BY <3>4 DEF Purge, PurgeOwner
    <3>5. UNCHANGED ownVars \/ ReplaceSnapshot \/ MoveOrigin \/ Purge
      BY <1>2 DEF LifeStep, StoreObjects, SaveRow, RemoveMedia, OpenControls,
         SubmitControls, BeginExport, ReadMediaRows, Collect, Damage, BeginRestore,
         PutObject, RestoreFails, DeleteWritten, BeginMigration, ReadControl,
         PauseFederation, BeginDeletion, ListMedia, EraseObject, OperationDies
    <3> QED  BY <3>1, <3>2, <3>3, <3>4, <3>5
  <2>2. /\ archive' # NoOne => archive'.site.owner <= drawn.owner
        /\ op'.do \in {"export", "collect"} => op'.site.owner <= drawn.owner
    <3>1. CASE BeginExport  BY <3>1 DEF BeginExport, Begin
    <3>2. CASE ReadMediaRows  BY <3>2 DEF ReadMediaRows
    <3>3. CASE Collect  BY <3>3 DEF Collect, Envelope, NoOp
    <3>4. CASE Damage
      <4>1. archive \in ArchiveRow /\ archive # NoOne
        BY <3>4 DEF Damage, TypeInv, LifeTypeOK
      <4>2. archive'.site = archive.site  BY <3>4, <4>1 DEF Damage, ArchiveRow
      <4> QED  BY <3>4, <4>1, <4>2 DEF Damage
    <3> QED  BY <1>2, <3>1, <3>2, <3>3, <3>4, OpSteps
  <2> QED  BY <2>1, <2>2
<1>3. CASE UNCHANGED allVars
  BY <1>3 DEF allVars, ownVars, siteVars, ownHistory, lifeVars, TypeInv, OwnTypeOK
<1>4. drawn.owner \in Nat  BY DEF TypeInv, OwnTypeOK
<1> QED
  BY <1>1, <1>2, <1>3, <1>4 DEF LifeNext, lifeVars

LEMMA CodeStep ==
  ASSUME TypeInv, CodeInv, [LifeNext]_allVars PROVE CodeInv'
<1> USE DEF CodeInv
<1>0. OwnersDrawn' /\ drawn'.owner \in Nat /\ drawn.owner <= drawn'.owner
  BY OwnersStep
<1>t. /\ codes \subseteq Code /\ codes' \subseteq Code
      /\ DOMAIN redeemed \subseteq Code /\ drawn.owner \in Nat
      /\ \A k : Tally(redeemed, k) \in Nat /\ Tally(revived, k) \in Nat
      /\ \A k \in codes : k.owner <= drawn.owner
  <2>1. TypeInv'  BY TypeStep
  <2> QED  BY <2>1, CountedTally DEF TypeInv, OwnTypeOK, CodeCounts, OwnersDrawn
<1>1. ASSUME codes' \subseteq codes, UNCHANGED <<redeemed, revived>> PROVE CodeInv'
  BY <1>0, <1>1, <1>t DEF Spent, AtMostOnceMore, CodesDrawn, Code
<1>2. ASSUME NEW c \in Client, Bootstrap(c) PROVE CodeInv'
  <2>1. CASE Claimable
    <3>0. codes' = [owner : {drawn.owner + 1}, nr : 1..CodesPerOwner]
      BY <1>2, <2>1 DEF Bootstrap
    <3>1. \A k \in codes' : k.owner = drawn.owner + 1  BY <3>0
    <3>2. \A k \in codes' : k \notin DOMAIN redeemed  BY <1>t, <3>1 DEF CodesDrawn, Code
    <3>3. \A k \in codes' : Tally(redeemed, k) = 0  BY <3>2 DEF Tally
    <3>4. UNCHANGED <<redeemed, revived>>  BY <1>2 DEF Bootstrap
    <3>5. Spent'  BY <1>t, <3>3, <3>4 DEF Spent
    <3> QED  BY <1>0, <1>t, <3>4, <3>5 DEF AtMostOnceMore, CodesDrawn, Code
  <2>2. CASE ~Claimable  BY <1>1, <1>2, <2>2 DEF Bootstrap
  <2> QED  BY <2>1, <2>2
<1>3. ASSUME NEW c \in Client, Redeem(c) PROVE CodeInv'
  <2> DEFINE k == task[c].code
  <2>1. CASE Unused(k)
    <3>1. /\ k \in codes /\ codes' = codes \ {k} /\ revived' = revived
          /\ redeemed' = Counted(redeemed, k)
      BY <1>3, <2>1 DEF Redeem, Unused
    <3> HIDE DEF k
    <3>2. /\ DOMAIN redeemed' = DOMAIN redeemed \cup {k}
          /\ \A x : Tally(redeemed', x) = Tally(redeemed, x) + IF x = k THEN 1 ELSE 0
      <4>1. redeemed \in [DOMAIN redeemed -> Nat]  BY DEF TypeInv, CodeCounts
      <4>2. /\ DOMAIN Counted(redeemed, k) = DOMAIN redeemed \cup {k}
            /\ \A x : Tally(Counted(redeemed, k), x)
                      = Tally(redeemed, x) + IF x = k THEN 1 ELSE 0
        BY <4>1, CountedTally
      <4> QED  BY <3>1, <4>2
    <3>3. Spent'  BY <3>1, <3>2, <1>t DEF Spent
    <3>4. AtMostOnceMore'  BY <3>1, <3>2, <1>t DEF Spent, AtMostOnceMore
    <3>5. CodesDrawn'  BY <1>0, <1>t, <3>1, <3>2 DEF CodesDrawn, Code
    <3> QED  BY <1>0, <3>3, <3>4, <3>5
  <2>2. CASE ~Unused(k)  BY <1>1, <1>3, <2>2 DEF Redeem
  <2> QED  BY <2>1, <2>2
<1>4. CASE ReplaceSnapshot
  <2> DEFINE back == archive.codes \ codes
  <2>1. /\ codes' = archive.codes /\ redeemed' = redeemed
        /\ revived' = [k \in DOMAIN revived \cup back |->
                         Tally(revived, k) + IF k \in back THEN 1 ELSE 0]
    BY <1>4 DEF ReplaceSnapshot
  <2> HIDE DEF back
  <2>2. \A k : Tally(revived', k) = Tally(revived, k) + IF k \in back THEN 1 ELSE 0
    BY <2>1 DEF Tally
  <2>3. Spent'  BY <1>t, <2>1, <2>2 DEF Spent, AtMostOnceMore, back
  <2>4. AtMostOnceMore'
    <3>1. \A k : Tally(revived, k) <= Tally(revived', k) /\ Tally(revived', k) \in Nat
      BY <1>t, <2>2
    <3> QED  BY <1>t, <2>1, <3>1 DEF AtMostOnceMore
  <2>5. CodesDrawn'  BY <1>0, <1>t, <2>1 DEF CodesDrawn, Code
  <2> QED  BY <1>0, <2>3, <2>4, <2>5
<1>5. CASE OwnNext
  <2>1. \/ \E c \in Client : Bootstrap(c) \/ Redeem(c)
        \/ UNCHANGED <<codes, redeemed, revived>>
    BY <1>5 DEF OwnNext, SessionExpires, BeginSetup, BeginLogin, BeginRecovery, RevokeAll,
       IssueSession, Logout, OpenForm, BeginSave, CommitSave, siteVars, ownHistory
  <2> QED  BY <2>1, <1>1, <1>2, <1>3
<1>6. CASE UNCHANGED ownVars  BY <1>1, <1>6 DEF ownVars, siteVars, ownHistory
<1>7. CASE MoveOrigin  BY <1>1, <1>7 DEF MoveOrigin
<1>8. CASE Purge  BY <1>1, <1>8 DEF Purge, PurgeOwner
<1> QED  BY <1>4, <1>5, <1>6, <1>7, <1>8, OwnSteps

(* A recovery code lets someone in once, and once more for each restore of  *)
(* an archive in which it was unused, for any number of browsers and codes. *)
THEOREM CodesAreOneTime == LifeSpec => []CodesWorkOnce
<1>1. LifeInit => CodeInv  BY CodeStart
<1>2. TypeInv /\ CodeInv /\ [LifeNext]_allVars => CodeInv'  BY CodeStep
<1>3. TypeInv /\ CodeInv => CodesWorkOnce
  BY DEF TypeInv, CodeCounts, CodeInv, AtMostOnceMore, CodesWorkOnce, Tally
<1> QED  BY <1>1, <1>2, <1>3, Types, PTL DEF LifeSpec

----------------------------------------------------------------------------
\* Sessions after a recovery.  A handler that is about to issue a session for
\* the present owner finds only sessions younger than the mark it carries.

MarksDrawn ==
    /\ fence <= drawn.session
    /\ \A c \in Client : task[c].do \in {"issue", "revoke"} =>
          task[c].mark <= drawn.session

YoungerThanMarks ==
    \A c \in Client : task[c].do = "issue" /\ site # NoOne /\ site.owner = task[c].owner =>
        \A s \in sessions : s.id > task[c].mark

SessionInv == OldSessionsDead /\ MarksDrawn /\ YoungerThanMarks

LEMMA SessionStep ==
  ASSUME TypeInv, SessionInv, [LifeNext]_allVars PROVE SessionInv'
<1> USE DEF SessionInv, OldSessionsDead, MarksDrawn, YoungerThanMarks
<1>t. /\ drawn.session \in Nat /\ fence \in Nat
      /\ task \in [Client -> TaskRow]
      /\ \A s \in sessions : s.id \in Nat /\ s.id >= 1 /\ s.id <= drawn.session
      /\ \A s \in sessions : site # NoOne /\ s.owner = site.owner
      /\ \A c \in Client : task[c].do \in {"issue", "revoke"} => task[c].mark \in Nat
  BY TaskShape DEF TypeInv, OwnTypeOK, SessionRow
<1>1. ASSUME sessions' \subseteq sessions, UNCHANGED <<task, fence, drawn>>,
             site' = site \/ site' = NoOne \/ (site # NoOne /\ site'.owner = site.owner)
      PROVE  SessionInv'
  BY <1>1
<1>2. ASSUME sessions' = {}, UNCHANGED <<task, drawn>>, fence' = drawn.session
      PROVE  SessionInv'
  BY <1>2, <1>t
<1>3. ASSUME NEW c \in Client, NEW d, task' = [task EXCEPT ![c] = d],
             UNCHANGED <<site, sessions, fence, drawn>>,
             d.do \in {"issue", "revoke"} => d.mark \in Nat /\ d.mark <= drawn.session,
             d.do = "issue" => d.mark = 0
      PROVE  SessionInv'
  <2>1. \A x \in Client : task'[x] = IF x = c THEN d ELSE task[x]  BY <1>3, <1>t
  <2> QED  BY <1>3, <1>t, <2>1
<1>4. ASSUME NEW c \in Client, Bootstrap(c) PROVE SessionInv'
  <2>1. CASE Claimable
    <3>1. sessions = {} /\ UNCHANGED <<sessions, fence>>
      BY <1>4, <2>1, <1>t DEF Bootstrap, Claimable
    <3>2. drawn'.session = drawn.session
      BY <1>4, <2>1 DEF Bootstrap, TypeInv, OwnTypeOK
    <3>3. task' = [task EXCEPT ![c] = [do |-> "issue", owner |-> drawn.owner + 1,
                                       mark |-> 0]]
      BY <1>4, <2>1 DEF Bootstrap
    <3>4. \A x \in Client : task'[x] = task[x] \/ task'[x].mark = 0  BY <3>3, <1>t
    <3> QED  BY <1>t, <3>1, <3>2, <3>4
  <2>2. CASE ~Claimable
    BY <1>3, <1>4, <2>2 DEF Bootstrap, Idle
  <2> QED  BY <2>1, <2>2
<1>5. ASSUME NEW c \in Client, BeginSetup(c) PROVE SessionInv'
  <2>1. PICK o \in Origin : task' = [task EXCEPT ![c] = [do |-> "claim", origin |-> o]]
    BY <1>5 DEF BeginSetup
  <2> QED  BY <1>3, <1>5, <2>1 DEF BeginSetup, siteVars, ownHistory
<1>6. ASSUME NEW c \in Client, BeginLogin(c) PROVE SessionInv'
  <2>1. 0 <= drawn.session  BY <1>t
  <2> QED  BY <1>3, <1>6, <2>1 DEF BeginLogin, siteVars, ownHistory
<1>7. ASSUME NEW c \in Client, BeginRecovery(c) PROVE SessionInv'
  <2>1. PICK k : task' = [task EXCEPT ![c] = [do |-> "redeem", mark |-> 0, code |-> k]]
    BY <1>7 DEF BeginRecovery
  <2> QED  BY <1>3, <1>7, <2>1 DEF BeginRecovery, siteVars, ownHistory
<1>8. ASSUME NEW c \in Client, Redeem(c) PROVE SessionInv'
  <2>1. PICK d \in {Idle, [do |-> "revoke", owner |-> task[c].code.owner,
                           mark |-> drawn.session]} : task' = [task EXCEPT ![c] = d]
    BY <1>8 DEF Redeem
  <2>2. d.do \in {"issue", "revoke"} => d.mark \in Nat /\ d.mark <= drawn.session
    BY <1>t DEF Idle
  <2>3. d.do # "issue"  BY DEF Idle
  <2> QED  BY <1>3, <1>8, <2>1, <2>2, <2>3 DEF Redeem
<1>9. ASSUME NEW c \in Client, RevokeAll(c) PROVE SessionInv'
  <2>1. /\ sessions' = {s \in sessions : s.owner # task[c].owner}
        /\ task' = [task EXCEPT ![c] = [do |-> "issue", owner |-> task[c].owner,
                                        mark |-> task[c].mark]]
        /\ UNCHANGED <<site, fence, drawn>>
    BY <1>9 DEF RevokeAll, Surviving, ownHistory
  <2>2. \A x \in Client : \/ task'[x] = task[x]
                          \/ /\ x = c /\ task'[x].owner = task[c].owner
                             /\ task'[x].mark = task[c].mark
    BY <2>1, <1>t
  <2>3. site # NoOne /\ site.owner = task[c].owner => sessions' = {}  BY <2>1, <1>t
  <2>4. task[c].mark \in Nat /\ task[c].mark <= drawn.session
    BY <1>9, <1>t DEF RevokeAll
  <2> QED  BY <2>1, <2>2, <2>3, <2>4
<1>10. ASSUME NEW c \in Client, IssueSession(c) PROVE SessionInv'
  <2>1. \A x \in Client : task'[x] = IF x = c THEN Idle ELSE task[x]
    BY <1>10, <1>t DEF IssueSession
  <2>2. site' = site /\ task[c].do = "issue"  BY <1>10 DEF IssueSession
  <2>3. CASE site # NoOne /\ site.owner = task[c].owner
    <3> DEFINE id == drawn.session + 1
    <3>1. /\ sessions' = sessions \cup {[id |-> id, owner |-> site.owner]}
          /\ drawn'.session = id /\ fence' = Larger(fence, task[c].mark)
      BY <1>10, <2>3 DEF IssueSession, TypeInv, OwnTypeOK
    <3>2. /\ id \in Nat /\ id > drawn.session /\ id > fence
          /\ \A x \in Client : task[x].do \in {"issue", "revoke"} => id > task[x].mark
      BY <1>t
    <3>3. fence' \in {fence, task[c].mark}  BY <3>1 DEF Larger
    <3>4. fence' <= id /\ \A s \in sessions' : s.id > fence'
      BY <1>t, <2>2, <2>3, <3>1, <3>2, <3>3
    <3> HIDE DEF id
    <3>5. YoungerThanMarks'
      <4> SUFFICES ASSUME NEW x \in Client, NEW s \in sessions', task'[x].do = "issue",
                          site.owner = task'[x].owner
                   PROVE  s.id > task'[x].mark
        BY <2>2
      <4>1. task'[x] = task[x]  BY <2>1 DEF Idle
      <4>2. CASE s \in sessions  BY <2>3, <4>1, <4>2
      <4>3. CASE s = [id |-> id, owner |-> site.owner]  BY <3>2, <4>1, <4>3
      <4> QED  BY <3>1, <4>2, <4>3
    <3>6. \A x \in Client : task'[x].do \in {"issue", "revoke"} => task'[x].mark <= id
      BY <2>1, <3>2, <1>t DEF Idle
    <3> QED  BY <3>1, <3>4, <3>5, <3>6
  <2>4. CASE ~(site # NoOne /\ site.owner = task[c].owner)
    <3>1. UNCHANGED <<sessions, drawn, fence>>  BY <1>10, <2>4 DEF IssueSession
    <3> QED  BY <2>1, <2>2, <3>1 DEF Idle
  <2> QED  BY <2>3, <2>4
<1>11. ASSUME NEW c \in Client, BeginSave(c) PROVE SessionInv'
  <2>1. PICK r, o, e : task' = [task EXCEPT ![c] = [do |-> "save", rev |-> r,
                                                    origin |-> o, era |-> e]]
    BY <1>11 DEF BeginSave
  <2> QED  BY <1>3, <1>11, <2>1 DEF BeginSave, siteVars, ownHistory
<1>12. ASSUME NEW c \in Client, CommitSave(c) PROVE SessionInv'
  <2>1. site' = site \/ (site # NoOne /\ site'.owner = site.owner)
    BY <1>12, SiteWrites
  <2>2. \A x \in Client : task'[x] = IF x = c THEN Idle ELSE task[x]
    BY <1>12, <1>t DEF CommitSave
  <2>3. UNCHANGED <<sessions, fence>> /\ drawn'.session = drawn.session
    BY <1>12 DEF CommitSave, TypeInv, OwnTypeOK
  <2> QED  BY <2>1, <2>2, <2>3 DEF Idle
<1>13. CASE OwnNext
  <2>1. \/ SessionExpires \/ \E c \in Client : Logout(c) \/ OpenForm(c)
        \/ \E c \in Client :
              \/ BeginSetup(c) \/ Bootstrap(c) \/ BeginLogin(c) \/ BeginRecovery(c)
              \/ Redeem(c) \/ RevokeAll(c) \/ IssueSession(c)
              \/ BeginSave(c) \/ CommitSave(c)
    BY <1>13 DEF OwnNext
  <2>2. CASE SessionExpires  BY <1>1, <2>2 DEF SessionExpires, webVars, ownHistory
  <2>3. ASSUME NEW c \in Client, Logout(c) \/ OpenForm(c) PROVE SessionInv'
    BY <1>1, <2>3 DEF Logout, OpenForm, siteVars, ownHistory
  <2> QED
    BY <2>1, <2>2, <2>3, <1>4, <1>5, <1>6, <1>7, <1>8, <1>9, <1>10, <1>11, <1>12
<1>14. CASE UNCHANGED ownVars
  BY <1>1, <1>14 DEF ownVars, siteVars, webVars, ownHistory
<1>15. CASE ReplaceSnapshot  BY <1>2, <1>15 DEF ReplaceSnapshot, webVars
<1>16. CASE MoveOrigin  BY <1>1, <1>16, SiteWrites DEF MoveOrigin, webVars
<1>17. CASE Purge  BY <1>2, <1>17 DEF Purge, PurgeOwner, webVars
<1> QED  BY <1>13, <1>14, <1>15, <1>16, <1>17, OwnSteps

(* Once a recovery has let its caller in, no session issued before its code *)
(* was redeemed is alive; the same after a restore or a deletion.           *)
THEOREM RecoverySignsOut == LifeSpec => []OldSessionsDead
<1>1. LifeInit => SessionInv
  BY DEF LifeInit, OwnInit, SessionInv, OldSessionsDead, MarksDrawn, YoungerThanMarks, Idle
<1>2. TypeInv /\ SessionInv /\ [LifeNext]_allVars => SessionInv'  BY SessionStep
<1>3. SessionInv => OldSessionsDead  BY DEF SessionInv
<1> QED  BY <1>1, <1>2, <1>3, Types, PTL DEF LifeSpec

----------------------------------------------------------------------------
\* Customization.  A page opened in the present era shows a version that was
\* stored under the revision it carries, and a handler that is about to save
\* knows the origin of that revision.

PagesKnow ==
    \A c \in Client : form[c] # NoOne =>
        /\ form[c].era <= era
        /\ form[c].era = era =>
              /\ site # NoOne /\ form[c].rev <= site.rev
              /\ form[c].rev = site.rev => form[c].look = site.look

SavesCarry ==
    \A c \in Client : task[c].do = "save" =>
        /\ form[c] # NoOne /\ task[c].rev = form[c].rev /\ task[c].era <= era
        /\ task[c].era = era /\ form[c].era = era /\ task[c].rev = site.rev =>
              task[c].origin = site.origin

EditInv == NoLostEdit /\ OriginSticks /\ PagesKnow /\ SavesCarry

LEMMA EditStep ==
  ASSUME TypeInv, EditInv, [LifeNext]_allVars PROVE EditInv'
<1> USE DEF EditInv, NoLostEdit, OriginSticks, PagesKnow, SavesCarry
<1>t. /\ era \in Nat /\ lostEdit \in BOOLEAN
      /\ task \in [Client -> TaskRow] /\ form \in [Client -> FormRow \cup {NoOne}]
      /\ site # NoOne => site \in SiteRow /\ site.rev \in Nat
      /\ \A c \in Client : form[c] # NoOne => form[c].rev \in Nat /\ form[c].era \in Nat
      /\ \A c \in Client : task[c].do = "save" => task[c].era \in Nat /\ task[c].rev \in Nat
  BY TaskShape DEF TypeInv, OwnTypeOK, SiteRow, FormRow
<1>1. ASSUME UNCHANGED <<site, form, era, lostEdit, origin>>,
             \A x \in Client : task'[x] = task[x] \/ task'[x].do # "save"
      PROVE  EditInv'
  BY <1>1
<1>2. ASSUME UNCHANGED <<form, task, lostEdit>>, era' = era + 1,
             site' # NoOne => site'.origin = origin'
      PROVE  EditInv'
  BY <1>2, <1>t
<1>3. ASSUME NEW c \in Client, Bootstrap(c) PROVE EditInv'
  <2>1. \A x \in Client : task'[x] = task[x] \/ task'[x].do # "save"
    BY <1>3, <1>t DEF Bootstrap, Idle
  <2>2. CASE Claimable
    <3>1. site' = Fresh(drawn.owner + 1, drawn.version + 1, task[c].origin)
          /\ origin' = task[c].origin /\ UNCHANGED <<form, era, lostEdit>>
      BY <1>3, <2>2 DEF Bootstrap
    <3>2. site'.origin = origin'  BY <3>1 DEF Fresh
    <3>3. \A x \in Client : form[x] # NoOne => form[x].era # era
      BY <2>2 DEF Claimable
    <3> QED  BY <2>1, <3>1, <3>2, <3>3
  <2>3. CASE ~Claimable  BY <1>1, <1>3, <2>1, <2>3 DEF Bootstrap
  <2> QED  BY <2>2, <2>3
<1>4. ASSUME NEW c \in Client, OpenForm(c) PROVE EditInv'
  <2>1. /\ task[c] = Idle /\ site # NoOne
        /\ form' = [form EXCEPT ![c] = [rev |-> site.rev, look |-> site.look, era |-> era]]
        /\ UNCHANGED <<site, task, era, lostEdit, origin>>
    BY <1>4 DEF OpenForm, SignedIn, siteVars, ownHistory
  <2>2. \A x \in Client : \/ form'[x] = form[x] /\ x # c
                          \/ /\ x = c /\ form'[x].era = era /\ form'[x].rev = site.rev
                             /\ form'[x].look = site.look
    BY <2>1, <1>t
  <2>3. task[c].do # "save"  BY <2>1 DEF Idle
  <2> QED  BY <2>1, <2>2, <2>3, <1>t
<1>5. ASSUME NEW c \in Client, BeginSave(c) PROVE EditInv'
  <2>1. /\ site # NoOne /\ form[c] # NoOne
        /\ task' = [task EXCEPT ![c] = [do |-> "save", rev |-> form[c].rev,
                                        origin |-> site.origin, era |-> era]]
        /\ UNCHANGED <<site, form, era, lostEdit, origin>>
    BY <1>5 DEF BeginSave, SignedIn, siteVars, ownHistory
  <2>2. \A x \in Client : \/ task'[x] = task[x]
                          \/ /\ x = c /\ task'[x].rev = form[c].rev
                             /\ task'[x].era = era /\ task'[x].origin = site.origin
    BY <2>1, <1>t
  <2> QED  BY <2>1, <2>2, <1>t
<1>6. ASSUME NEW c \in Client, CommitSave(c) PROVE EditInv'
  <2>1. \A x \in Client : task'[x] = IF x = c THEN Idle ELSE task[x]
    BY <1>6, <1>t DEF CommitSave
  <2>2. CASE StillAt(task[c].rev)
    <3> DEFINE same == task[c].era = era /\ form[c].era = era
    <3>1. /\ lostEdit' = (lostEdit \/ (same /\ form[c].look # site.look))
          /\ origin' = IF same THEN origin ELSE task[c].origin
          /\ form' = [form EXCEPT ![c] = NoOne] /\ era' = era
          /\ task[c].do = "save" /\ site # NoOne /\ site.rev = task[c].rev
          /\ site' = [site EXCEPT !.rev = task[c].rev + 1, !.look = drawn.version + 1,
                                  !.origin = task[c].origin]
      BY <1>6, <2>2 DEF CommitSave, StillAt
    <3>2. /\ site'.rev = site.rev + 1 /\ site'.origin = task[c].origin
      BY <3>1, <1>t DEF SiteRow
    <3>3. site' # NoOne
      <4>1. site.rev + 1 # site.rev  BY <3>1, <1>t
      <4> QED  BY <1>6, <4>1, <3>2, SiteWrites
    <3>4. ~lostEdit'  BY <3>1, <1>t
    <3>5. origin' = site'.origin  BY <3>1, <3>2
    <3>6. \A x \in Client : form'[x] = IF x = c THEN NoOne ELSE form[x]  BY <3>1, <1>t
    <3>7. PagesKnow'  BY <3>1, <3>2, <3>3, <3>6, <1>t
    <3>8. \A x \in Client : task'[x].do = "save" => x # c /\ task'[x] = task[x]
      BY <2>1 DEF Idle
    <3>9. \A x \in Client : task[x].do = "save" /\ form[x].era = era => task[x].rev <= site.rev
      BY <3>1, <1>t
    <3>10. SavesCarry'  BY <3>1, <3>2, <3>6, <3>8, <3>9, <1>t
    <3> QED  BY <3>3, <3>4, <3>5, <3>7, <3>10
  <2>3. CASE ~StillAt(task[c].rev)
    <3>1. UNCHANGED <<site, form, era, lostEdit, origin>>  BY <1>6, <2>3 DEF CommitSave
    <3> QED  BY <1>1, <2>1, <3>1 DEF Idle
  <2> QED  BY <2>2, <2>3
<1>7. CASE OwnNext
  <2>1. ASSUME NEW c \in Client,
               \/ BeginSetup(c) \/ BeginLogin(c) \/ BeginRecovery(c)
               \/ Redeem(c) \/ RevokeAll(c) \/ IssueSession(c) \/ Logout(c)
        PROVE  EditInv'
    <3>1. \A x \in Client : task'[x] = task[x] \/ task'[x].do # "save"
      BY <2>1, <1>t DEF BeginSetup, BeginLogin, BeginRecovery, Redeem, RevokeAll,
         IssueSession, Logout, Idle
    <3>2. UNCHANGED <<site, form, era, lostEdit, origin>>
      BY <2>1 DEF BeginSetup, BeginLogin, BeginRecovery, Redeem, RevokeAll,
         IssueSession, Logout, siteVars, ownHistory
    <3> QED  BY <1>1, <3>1, <3>2
  <2>2. CASE SessionExpires  BY <1>1, <2>2 DEF SessionExpires, webVars, ownHistory
  <2> QED  BY <1>7, <2>1, <2>2, <1>3, <1>4, <1>5, <1>6 DEF OwnNext
<1>8. CASE UNCHANGED ownVars
  BY <1>1, <1>8 DEF ownVars, siteVars, webVars, ownHistory
<1>9. CASE ReplaceSnapshot
  BY <1>2, <1>9, SiteWrites DEF ReplaceSnapshot, webVars
<1>10. CASE MoveOrigin
  <2>1. UNCHANGED <<form, task, era, lostEdit>>  BY <1>10 DEF MoveOrigin, webVars
  <2>2. CASE site' = site /\ origin' = origin  BY <1>1, <2>1, <2>2
  <2>3. CASE /\ site # NoOne /\ site' # NoOne /\ site'.rev = site.rev + 1
             /\ site'.origin = origin'
    <3>1. \A x \in Client : task[x].do = "save" /\ form[x].era = era => task[x].rev <= site.rev
      BY <2>3, <1>t
    <3> QED  BY <2>1, <2>3, <3>1, <1>t
  <2> QED  BY <1>10, <2>2, <2>3, SiteWrites
<1>11. CASE Purge  BY <1>2, <1>11 DEF Purge, PurgeOwner, webVars
<1> QED  BY <1>7, <1>8, <1>9, <1>10, <1>11, OwnSteps

LEMMA EditStart == LifeInit => EditInv
BY DEF LifeInit, OwnInit, EditInv, NoLostEdit, OriginSticks, PagesKnow, SavesCarry, Idle

(* An accepted customization replaced the version its page showed, for any  *)
(* number of browsers, saves and migrations.                                *)
THEOREM EditsAreKept == LifeSpec => []NoLostEdit
<1>1. TypeInv /\ EditInv /\ [LifeNext]_allVars => EditInv'  BY EditStep
<1>2. EditInv => NoLostEdit  BY DEF EditInv
<1> QED  BY <1>1, <1>2, EditStart, Types, PTL DEF LifeSpec

(* The canonical origin is the one last claimed, migrated to or restored.   *)
THEOREM OriginIsKept == LifeSpec => []OriginSticks
<1>1. TypeInv /\ EditInv /\ [LifeNext]_allVars => EditInv'  BY EditStep
<1>2. EditInv => OriginSticks  BY DEF EditInv
<1> QED  BY <1>1, <1>2, EditStart, Types, PTL DEF LifeSpec

----------------------------------------------------------------------------
\* The pause of a migration.

PageKnows ==
    page # NoOne =>
        /\ page.era <= era
        /\ page.era = era => /\ page.c.rev <= control.rev
                             /\ page.c.rev = control.rev => page.c = control

PauseInv == PauseKept /\ PageKnows

LEMMA PauseStep ==
  ASSUME TypeInv, PauseInv, [LifeNext]_allVars PROVE PauseInv'
<1> USE DEF PauseInv, PauseKept, PageKnows
<1>t. /\ era \in Nat /\ control \in ControlRow /\ control.rev \in Nat
      /\ mustPause \in BOOLEAN
      /\ page # NoOne => /\ page.c \in ControlRow /\ page.c.rev \in Nat
                         /\ page.era \in Nat
  BY DEF TypeInv, OwnTypeOK, LifeTypeOK, MediaHistories, ControlRow
<1>1. ASSUME UNCHANGED <<control, page, mustPause, era>> PROVE PauseInv'
  BY <1>1
<1>2. ASSUME mustPause' = FALSE, page' = page, era' = era + 1 PROVE PauseInv'
  BY <1>2, <1>t
<1>3. CASE OpenControls
  <2>1. /\ page' = [c |-> control, era |-> era] /\ UNCHANGED <<control, mustPause, era>>
    BY <1>3 DEF OpenControls, ownVars, ownHistory, lifeHistory
  <2> QED  BY <2>1, <1>t
<1>4. CASE SubmitControls
  <2>1. era' = era /\ page' = NoOne /\ page # NoOne
    BY <1>4 DEF SubmitControls, ownVars, ownHistory
  <2>2. CASE control.rev = page.c.rev
    <3>1. mustPause' = (/\ mustPause /\ page.era = era /\ ~(page.c.in /\ page.c.out))
      BY <1>4, <2>2 DEF SubmitControls, ControlStill
    <3>2. ~mustPause'  BY <3>1, <2>1, <2>2
    <3> QED  BY <2>1, <3>2
  <2>3. CASE control.rev # page.c.rev
    BY <1>4, <2>1, <2>3 DEF SubmitControls, ControlStill
  <2> QED  BY <2>2, <2>3
<1>5. CASE PauseFederation
  <2>1. era' = era /\ page' = page  BY <1>5 DEF PauseFederation, ownVars, ownHistory
  <2>2. CASE ControlStill(op.ctl)
    <3>1. control' = [in |-> TRUE, out |-> TRUE, rev |-> control.rev + 1]
      BY <1>5, <2>2 DEF PauseFederation, ControlStill
    <3>2. control'.in /\ control'.out /\ control'.rev = control.rev + 1  BY <3>1
    <3> QED  BY <2>1, <3>2, <1>t
  <2>3. CASE ~ControlStill(op.ctl)
    BY <1>1, <1>5, <2>1, <2>3 DEF PauseFederation
  <2> QED  BY <2>2, <2>3
<1>6. CASE ReplaceSnapshot  BY <1>2, <1>6 DEF ReplaceSnapshot
<1>7. CASE Purge  BY <1>2, <1>7 DEF Purge, PurgeOwner
<1>8. CASE LifeStep
  <2>1. \/ OpenControls \/ SubmitControls \/ PauseFederation \/ ReplaceSnapshot \/ Purge
        \/ UNCHANGED <<control, page, mustPause, era>>
    BY <1>8 DEF LifeStep, StoreObjects, SaveRow, RemoveMedia, BeginExport, ReadMediaRows,
       Collect, Damage, BeginRestore, PutObject, RestoreFails, DeleteWritten,
       BeginMigration, ReadControl, MoveOrigin, BeginDeletion, ListMedia, EraseObject,
       OperationDies, ownVars, ownHistory, controlVars, lifeHistory
  <2> QED  BY <2>1, <1>1, <1>3, <1>4, <1>5, <1>6, <1>7
<1>9. CASE OwnNext /\ UNCHANGED lifeVars
  <2>1. era' = era
    BY <1>9 DEF OwnNext, SessionExpires, BeginSetup, Bootstrap, BeginLogin, BeginRecovery,
       Redeem, RevokeAll, IssueSession, Logout, OpenForm, BeginSave, CommitSave, ownHistory
  <2> QED  BY <1>1, <1>9, <2>1 DEF lifeVars, controlVars, lifeHistory
<1>10. CASE UNCHANGED allVars
  BY <1>1, <1>10 DEF allVars, ownVars, ownHistory, lifeVars, controlVars, lifeHistory
<1> QED  BY <1>8, <1>9, <1>10 DEF LifeNext

(* Federation that a migration paused stays paused until the owner submits  *)
(* a page that showed the pause, or the database is replaced.               *)
THEOREM PauseIsKept == LifeSpec => []PauseKept
<1>1. LifeInit => PauseInv  BY DEF LifeInit, PauseInv, PauseKept, PageKnows
<1>2. TypeInv /\ PauseInv /\ [LifeNext]_allVars => PauseInv'  BY PauseStep
<1>3. PauseInv => PauseKept  BY DEF PauseInv
<1> QED  BY <1>1, <1>2, <1>3, Types, PTL DEF LifeSpec

----------------------------------------------------------------------------
\* Media under restores and deletions.  The steps of OwnNext and those of the
\* controls, of exports and of migrations leave the media alone.

MediaUntouched ==
    /\ UNCHANGED <<mediaVars, removed, promised, doomed, published>>
    /\ \/ UNCHANGED op
       \/ op.do \notin {"restore", "list", "purge", "erase"} /\
          op'.do \notin {"restore", "list", "purge", "erase"}

LEMMA MediaFrame ==
  ASSUME TypeInv, [LifeNext]_allVars
  PROVE  \/ StoreObjects \/ SaveRow \/ RemoveMedia \/ Collect \/ Damage
         \/ BeginRestore \/ PutObject \/ ReplaceSnapshot \/ RestoreFails \/ DeleteWritten
         \/ BeginDeletion \/ ListMedia \/ Purge \/ EraseObject \/ OperationDies
         \/ MediaUntouched /\ UNCHANGED archive
<1>1. CASE (OwnNext /\ UNCHANGED lifeVars) \/ UNCHANGED allVars
  BY <1>1 DEF allVars, lifeVars, lifeHistory, MediaUntouched
<1>2. CASE OpenControls \/ SubmitControls
  BY <1>2 DEF OpenControls, SubmitControls, lifeHistory, MediaUntouched
<1>3. CASE BeginExport
  BY <1>3 DEF BeginExport, Begin, NoOp, MediaUntouched
<1>4. CASE BeginMigration
  BY <1>4 DEF BeginMigration, Begin, NoOp, MediaUntouched
<1>5. CASE ReadMediaRows \/ ReadControl
  BY <1>5 DEF ReadMediaRows, ReadControl, lifeHistory, MediaUntouched
<1>6. CASE PauseFederation \/ MoveOrigin
  BY <1>6 DEF PauseFederation, MoveOrigin, lifeHistory, NoOp, MediaUntouched
<1> QED  BY <1>1, <1>2, <1>3, <1>4, <1>5, <1>6 DEF LifeNext, LifeStep

WritesBacked ==
    op.do = "restore" =>
        /\ archive # NoOne /\ archive.blobs = archive.listed
        /\ op.written \ removed \subseteq objects

RestoreInv == RestoredIsWhole /\ WritesBacked /\ (op.do = "erase" => promised = {})

LEMMA RestoreStep ==
  ASSUME TypeInv, RestoreInv, [LifeNext]_allVars PROVE RestoreInv'
<1> USE DEF RestoreInv, RestoredIsWhole, WritesBacked
<1>t. /\ op \in OpRow
      /\ op.do = "restore" => op = [do |-> "restore", written |-> op.written]
      /\ op.do = "undo" => op = [do |-> "undo", written |-> op.written]
      /\ op.do = "erase" => op = [do |-> "erase", keys |-> op.keys]
  BY OpShape DEF TypeInv, LifeTypeOK
<1>1. CASE StoreObjects \/ SaveRow
  BY <1>1 DEF StoreObjects, SaveRow, lifeHistory
<1>2. CASE RemoveMedia
  <2>1. PICK a \in rows : /\ objects' = objects \ KeysOf({a})
                          /\ removed' = removed \cup KeysOf({a})
                          /\ promised' = promised \ KeysOf({a})
    BY <1>2 DEF RemoveMedia
  <2> QED  BY <1>2, <2>1 DEF RemoveMedia
<1>3. CASE Collect  BY <1>3 DEF Collect, NoOp, mediaVars, lifeHistory
<1>4. CASE Damage  BY <1>4 DEF Damage, NoOp, mediaVars
<1>5. CASE BeginRestore
  BY <1>5 DEF BeginRestore, Begin, Acceptable, mediaVars
<1>6. CASE PutObject
  <2>1. PICK k \in archive.blobs \ op.written :
          /\ objects' = objects \cup {k} /\ removed' = removed \ {k}
          /\ op' = [op EXCEPT !.written = @ \cup {k}]
    BY <1>6 DEF PutObject
  <2>2. op' = [do |-> "restore", written |-> op.written \cup {k}]
    BY <1>6, <1>t, <2>1 DEF PutObject
  <2>3. op'.do = "restore" /\ op'.written = op.written \cup {k}  BY <2>2
  <2> QED  BY <1>6, <2>1, <2>3 DEF PutObject
<1>7. CASE ReplaceSnapshot
  <2>1. /\ op.written = archive.listed /\ op.written \ removed \subseteq objects
        /\ promised' = archive.listed \ removed /\ objects' = objects /\ op' = NoOp
    BY <1>7 DEF ReplaceSnapshot, Staged
  <2> QED  BY <2>1 DEF NoOp
<1>8. CASE RestoreFails
  <2>1. op' = [do |-> "undo", written |-> op.written]  BY <1>8, <1>t DEF RestoreFails
  <2> QED  BY <1>8, <2>1 DEF RestoreFails, mediaVars
<1>9. CASE DeleteWritten
  <2>1. CASE op' = NoOp /\ UNCHANGED <<objects, promised>>  BY <2>1 DEF NoOp
  <2>2. ASSUME NEW k \in op.written, op' = [op EXCEPT !.written = @ \ {k}],
               promised' = promised \ {k}, objects' = objects \ {k} \/ objects' = objects
        PROVE  RestoreInv'
    <3>1. op' = [do |-> "undo", written |-> op.written \ {k}]
      BY <1>9, <1>t, <2>2 DEF DeleteWritten
    <3> QED  BY <2>2, <3>1
  <2> QED  BY <1>9, <2>1, <2>2 DEF DeleteWritten
<1>10. CASE BeginDeletion  BY <1>10 DEF BeginDeletion, Begin, mediaVars
<1>11. CASE ListMedia  BY <1>11 DEF ListMedia, mediaVars, lifeHistory
<1>12. CASE Purge  BY <1>12 DEF Purge
<1>13. CASE EraseObject
  <2>1. promised' = {}  BY <1>13 DEF EraseObject
  <2>2. op' = NoOp \/ \E k \in op.keys : op' = [do |-> "erase", keys |-> op.keys \ {k}]
    BY <1>13, <1>t DEF EraseObject
  <2>3. op'.do \in {"none", "erase"}  BY <2>2 DEF NoOp
  <2> QED  BY <2>1, <2>3
<1>14. CASE OperationDies  BY <1>14 DEF OperationDies, NoOp, mediaVars
<1>15. CASE MediaUntouched /\ UNCHANGED archive
  BY <1>15 DEF MediaUntouched, mediaVars
<1> QED
  BY <1>1, <1>2, <1>3, <1>4, <1>5, <1>6, <1>7, <1>8, <1>9, <1>10, <1>11, <1>12, <1>13,
     <1>14, <1>15, MediaFrame

(* A restore that succeeded left every object its archive lists in the      *)
(* storage, except what the owner or a later operation deleted.             *)
THEOREM RestoresAreWhole == LifeSpec => []RestoredIsWhole
<1>1. LifeInit => RestoreInv
  BY DEF LifeInit, RestoreInv, RestoredIsWhole, WritesBacked, NoOp
<1>2. TypeInv /\ RestoreInv /\ [LifeNext]_allVars => RestoreInv'  BY RestoreStep
<1>3. RestoreInv => RestoredIsWhole  BY DEF RestoreInv
<1> QED  BY <1>1, <1>2, <1>3, Types, PTL DEF LifeSpec

\* What a deletion of the Space must not leave behind is on the way out.
StoredWasPublished ==
    /\ rows \subseteq published
    /\ upload # NoOne => upload \in published
    /\ op.do = "collect" => op.rows \subseteq published
    /\ archive # NoOne => archive.rows \subseteq published
    /\ doomed \subseteq KeysOf(published)

OnTheWayOut ==
    /\ op.do = "list" => doomed \cap objects \subseteq KeysOf(rows)
    /\ op.do \in {"purge", "erase"} => doomed \cap objects \subseteq op.keys
    /\ op.do \notin {"list", "purge", "erase"} => doomed \cap objects = {}

GoneInv == StoredWasPublished /\ OnTheWayOut

LEMMA StoredStep ==
  ASSUME TypeInv, StoredWasPublished, [LifeNext]_allVars
  PROVE  StoredWasPublished' /\ published \subseteq published'
<1> USE DEF StoredWasPublished
<1>1. published \subseteq published' /\ KeysOf(published) \subseteq KeysOf(published')
  <2>1. published \subseteq published'
    BY MediaFrame DEF MediaUntouched, StoreObjects, SaveRow, RemoveMedia, Collect, Damage,
       BeginRestore, PutObject, ReplaceSnapshot, RestoreFails, DeleteWritten,
       BeginDeletion, ListMedia, Purge, EraseObject, OperationDies, lifeHistory
  <2> QED  BY <2>1 DEF KeysOf
<1>2. /\ archive' # NoOne => archive'.rows \subseteq published
      /\ op'.do = "collect" => op'.rows \subseteq published
  <2>1. CASE LifeStep
    <3>1. CASE BeginExport  BY <3>1 DEF BeginExport, Begin
    <3>2. CASE ReadMediaRows  BY <3>2 DEF ReadMediaRows
    <3>3. CASE Collect  BY <3>3 DEF Collect, Envelope, NoOp
    <3>4. CASE Damage
      <4>1. archive \in ArchiveRow /\ archive # NoOne
        BY <3>4 DEF Damage, TypeInv, LifeTypeOK
      <4>2. archive'.rows = archive.rows  BY <3>4, <4>1 DEF Damage, ArchiveRow
      <4> QED  BY <3>4, <4>1, <4>2 DEF Damage
    <3> QED  BY <2>1, <3>1, <3>2, <3>3, <3>4, OpSteps
  <2>2. CASE UNCHANGED lifeVars  BY <2>2 DEF lifeVars
  <2> QED  BY <2>1, <2>2 DEF LifeNext, allVars
<1>3. rows' \subseteq published' /\ (upload' # NoOne => upload' \in published')
  <2>1. CASE StoreObjects  BY <2>1 DEF StoreObjects
  <2>2. CASE SaveRow  BY <1>1, <2>2 DEF SaveRow
  <2>3. CASE RemoveMedia  BY <1>1, <2>3 DEF RemoveMedia
  <2>4. CASE ReplaceSnapshot
    BY <1>1, <2>4 DEF ReplaceSnapshot, TypeInv, Carried
  <2>5. CASE Purge  BY <1>1, <2>5 DEF Purge
  <2>6. CASE UNCHANGED <<rows, upload>>  BY <1>1, <2>6
  <2> QED
    BY <2>1, <2>2, <2>3, <2>4, <2>5, <2>6, MediaFrame DEF MediaUntouched, Collect, Damage,
       BeginRestore, PutObject, RestoreFails, DeleteWritten, BeginDeletion, ListMedia,
       EraseObject, OperationDies, mediaVars
<1>4. doomed' \subseteq KeysOf(published')
  <2>1. CASE BeginDeletion  BY <1>1, <2>1 DEF BeginDeletion, Present, KeysOf
  <2>2. CASE doomed' \subseteq doomed  BY <1>1, <2>2
  <2> QED
    BY <2>1, <2>2, MediaFrame DEF MediaUntouched, StoreObjects, SaveRow, RemoveMedia,
       Collect, Damage, BeginRestore, PutObject, ReplaceSnapshot, RestoreFails,
       DeleteWritten, ListMedia, Purge, EraseObject, OperationDies, lifeHistory
<1> QED  BY <1>1, <1>2, <1>3, <1>4

LEMMA GoneStep ==
  ASSUME TypeInv, GoneInv, [LifeNext]_allVars PROVE GoneInv'
<1>0. StoredWasPublished'  BY StoredStep DEF GoneInv
<1> SUFFICES OnTheWayOut'  BY <1>0 DEF GoneInv
<1> USE DEF OnTheWayOut
<1>t. /\ op \in OpRow /\ OnTheWayOut /\ StoredWasPublished
      /\ op.do = "restore" => op = [do |-> "restore", written |-> op.written]
      /\ op.do = "undo" => op = [do |-> "undo", written |-> op.written]
      /\ op.do = "erase" => op = [do |-> "erase", keys |-> op.keys]
  BY OpShape DEF TypeInv, LifeTypeOK, GoneInv
<1>1. ASSUME op' = op, rows \subseteq rows', doomed' \cap objects' \subseteq doomed \cap objects
      PROVE  OnTheWayOut'
  BY <1>1, <1>t DEF KeysOf
<1>2. CASE StoreObjects
  <2>1. PICK a \in Asset \ published : objects' = objects \cup KeysOf({a})
    BY <1>2 DEF StoreObjects
  <2>2. doomed \cap KeysOf({a}) = {}  BY <1>t DEF StoredWasPublished, KeysOf
  <2> QED  BY <1>1, <1>2, <2>1, <2>2 DEF StoreObjects
<1>3. CASE SaveRow  BY <1>1, <1>3 DEF SaveRow, lifeHistory
<1>4. CASE RemoveMedia
  <2>1. PICK a \in rows : rows' = rows \ {a} /\ objects' = objects \ KeysOf({a})
    BY <1>4 DEF RemoveMedia
  <2>2. op' = op /\ doomed' = doomed  BY <1>4 DEF RemoveMedia
  <2>3. KeysOf(rows) \subseteq KeysOf(rows') \cup KeysOf({a})  BY <2>1 DEF KeysOf
  <2> QED  BY <1>t, <2>1, <2>2, <2>3
<1>5. CASE Collect  BY <1>5, <1>t DEF Collect, NoOp, mediaVars, lifeHistory
<1>6. CASE Damage  BY <1>1, <1>6 DEF Damage, mediaVars
<1>7. CASE BeginRestore  BY <1>7, <1>t DEF BeginRestore, Begin, NoOp, mediaVars
<1>8. CASE PutObject
  <2>1. PICK k \in archive.blobs \ op.written :
          /\ objects' = objects \cup {k} /\ doomed' = doomed \ {k}
          /\ op' = [op EXCEPT !.written = @ \cup {k}]
    BY <1>8 DEF PutObject
  <2>2. op' = [do |-> "restore", written |-> op.written \cup {k}]
    BY <1>8, <1>t, <2>1 DEF PutObject
  <2>3. op'.do = "restore" /\ op.do = "restore"  BY <1>8, <2>2 DEF PutObject
  <2> QED  BY <1>t, <2>1, <2>3
<1>9. CASE ReplaceSnapshot  BY <1>9, <1>t DEF ReplaceSnapshot, NoOp
<1>10. CASE RestoreFails
  <2>1. op' = [do |-> "undo", written |-> op.written]  BY <1>10, <1>t DEF RestoreFails
  <2> QED  BY <1>10, <1>t, <2>1 DEF RestoreFails, mediaVars
<1>11. CASE DeleteWritten
  <2>1. objects' \subseteq objects /\ doomed' = doomed  BY <1>11 DEF DeleteWritten
  <2>2. op' = NoOp \/ \E k \in op.written :
                       op' = [do |-> "undo", written |-> op.written \ {k}]
    BY <1>11, <1>t DEF DeleteWritten
  <2>3. op'.do \in {"none", "undo"} /\ op.do = "undo"
    BY <1>11, <2>2 DEF NoOp, DeleteWritten
  <2> QED  BY <1>t, <2>1, <2>3
<1>12. CASE BeginDeletion
  BY <1>12 DEF BeginDeletion, Begin, Present, mediaVars
<1>13. CASE ListMedia
  BY <1>13, <1>t DEF ListMedia, MediaKeys, KeysOf, mediaVars, lifeHistory
<1>14. CASE Purge  BY <1>14, <1>t DEF Purge
<1>15. CASE EraseObject
  <2>1. CASE op.keys = {} /\ op' = NoOp /\ UNCHANGED <<objects, doomed>>
    BY <1>15, <1>t, <2>1 DEF EraseObject, NoOp
  <2>2. ASSUME NEW k \in op.keys, op' = [op EXCEPT !.keys = @ \ {k}],
               \/ objects' = objects \ {k} /\ doomed' = doomed
               \/ doomed' = doomed \ {k} /\ objects' = objects
        PROVE  OnTheWayOut'
    <3>1. op' = [do |-> "erase", keys |-> op.keys \ {k}] /\ op.do = "erase"
      BY <1>15, <1>t, <2>2 DEF EraseObject
    <3>2. op'.do = "erase" /\ op'.keys = op.keys \ {k}  BY <3>1
    <3> QED  BY <1>t, <2>2, <3>1, <3>2
  <2> QED  BY <1>15, <2>1, <2>2 DEF EraseObject
<1>16. CASE OperationDies  BY <1>16 DEF OperationDies, NoOp
<1>17. CASE MediaUntouched
  <2>1. CASE op' = op  BY <1>1, <1>17, <2>1 DEF MediaUntouched, mediaVars
  <2>2. CASE op' # op  BY <1>17, <1>t, <2>2 DEF MediaUntouched, mediaVars
  <2> QED  BY <2>1, <2>2
<1> QED
  BY <1>2, <1>3, <1>4, <1>5, <1>6, <1>7, <1>8, <1>9, <1>10, <1>11, <1>12, <1>13, <1>14,
     <1>15, <1>16, <1>17, MediaFrame

(* When a deletion has run to its end, nothing that had been published when *)
(* it began is in the storage, except where deleting it failed.             *)
THEOREM DeletionIsComplete == LifeSpec => []DeletedSpaceIsGone
<1>1. LifeInit => GoneInv
  BY DEF LifeInit, GoneInv, StoredWasPublished, OnTheWayOut, NoOp, KeysOf
<1>2. TypeInv /\ GoneInv /\ [LifeNext]_allVars => GoneInv'  BY GoneStep
<1>3. GoneInv => DeletedSpaceIsGone
  BY DEF GoneInv, OnTheWayOut, DeletedSpaceIsGone, NoOp
<1> QED  BY <1>1, <1>2, <1>3, Types, PTL DEF LifeSpec
=============================================================================
