----------------------------- MODULE Ownership -----------------------------
(***************************************************************************)
(* Who owns a Space: SpaceService of services.py over the owner, session,  *)
(* recovery-code and settings tables of store.py.                          *)
(*                                                                         *)
(* The store is made for several workers and processes on one database:    *)
(* each call of it is a transaction, and nothing holds from one call of a  *)
(* handler to its next.  A client here is a browser together with the      *)
(* handler that serves it, and a step is one call of the store.  Checks of *)
(* the form's text (handle, password strength, theme, module order) come   *)
(* before the first write and refuse without a trace: they are left out.   *)
(***************************************************************************)
EXTENDS Naturals, FiniteSets

CONSTANTS
    Client,        \* browsers and the handlers that serve them
    Origin,        \* canonical origins a deployment may be configured with
    NoOne,         \* the absent value
    CodesPerOwner, \* recovery codes printed at the claim (eight in the code)
    MaxOwners,     \* bound on claims of the Space
    MaxSessions,   \* bound on sessions issued
    MaxVersions    \* bound on customizations saved

ASSUME OwnershipBounds ==
    /\ Origin # {} /\ CodesPerOwner \in Nat
    /\ MaxOwners \in Nat /\ MaxSessions \in Nat /\ MaxVersions \in Nat
    /\ NoOne \notin [owner : Nat, rev : Nat, look : Nat, origin : Origin]

\* Owner identifiers, session tokens and the versions of the customization
\* are numbered in the order they are drawn.
Code == [owner : Nat, nr : Nat]

VARIABLES
    site,      \* the owners, site_settings and profile_modules rows, or NoOne
    codes,     \* recovery_codes that are not used
    sessions,  \* owner_sessions neither revoked nor expired
    task,      \* what the handler serving a client has begun
    cookie,    \* the session token a browser holds
    form,      \* the customization page a browser shows
    drawn,     \* history: owners, sessions and versions drawn so far
    era,       \* history: how often the whole database was replaced or purged
    told,      \* history: clients told that they claimed the present Space
    redeemed,  \* history: how often a recovery code let someone in
    revived,   \* history: how often a used code was brought back by a restore
    fence,     \* history: sessions numbered below it must be dead
    lostEdit,  \* history: a save overwrote a version its page did not show
    origin     \* history: the origin last chosen by claim, migration, restore

siteVars == <<site, codes, sessions>>
webVars  == <<task, cookie, form>>
ownHistory == <<drawn, era, told, redeemed, revived, fence, lostEdit, origin>>
ownVars == <<siteVars, webVars, ownHistory>>

Idle == [do |-> "idle"]

OwnInit ==
    /\ site = NoOne /\ codes = {} /\ sessions = {}
    /\ task = [c \in Client |-> Idle]
    /\ cookie = [c \in Client |-> 0]
    /\ form = [c \in Client |-> NoOne]
    /\ drawn = [owner |-> 0, session |-> 0, version |-> 0]
    /\ era = 0 /\ told = {} /\ fence = 0 /\ lostEdit = FALSE
    /\ redeemed = [k \in {} |-> 0] /\ revived = [k \in {} |-> 0]
    /\ origin = NoOne

Live(id) == \E s \in sessions : s.id = id

\* current_owner: the session's owner; no session outlives its owner's row.
SignedIn(c) == site # NoOne /\ Live(cookie[c])

Tally(f, k) == IF k \in DOMAIN f THEN f[k] ELSE 0
Counted(f, k) == [x \in DOMAIN f \cup {k} |-> IF x = k THEN Tally(f, k) + 1 ELSE f[x]]

----------------------------------------------------------------------------
\* Claiming the Space.

\* setup finds no owner, and the claim token and the fields are right.
BeginSetup(c) ==
    /\ task[c] = Idle /\ site = NoOne
    /\ \E o \in Origin : task' = [task EXCEPT ![c] = [do |-> "claim", origin |-> o]]
    /\ UNCHANGED <<siteVars, cookie, form, ownHistory>>

Fresh(owner, version, o) == [owner |-> owner, rev |-> 1, look |-> version, origin |-> o]

\* A plausible slip: trusting the look at the table that setup took earlier.
ClaimableUnchecked == TRUE

Claimable == site = NoOne

\* bootstrap: all rows of the Space in one transaction, or none.
Bootstrap(c) ==
    /\ task[c].do = "claim" /\ drawn.owner < MaxOwners
    /\ IF Claimable
       THEN LET id == drawn.owner + 1
                v == drawn.version + 1
            IN /\ site' = Fresh(id, v, task[c].origin)
               /\ codes' = [owner : {id}, nr : 1..CodesPerOwner]
               /\ drawn' = [drawn EXCEPT !.owner = id, !.version = v]
               /\ task' = [task EXCEPT ![c] = [do |-> "issue", owner |-> id,
                                               mark |-> 0]]
               /\ told' = told \cup {[client |-> c, owner |-> id]}
               /\ origin' = task[c].origin
       ELSE /\ task' = [task EXCEPT ![c] = Idle]
            /\ UNCHANGED <<site, codes, drawn, told, origin>>
    /\ UNCHANGED <<sessions, cookie, form, era, redeemed, revived, fence, lostEdit>>

----------------------------------------------------------------------------
\* Signing in and out.

\* login reads the owner's row and verifies the password against it.
BeginLogin(c) ==
    /\ task[c] = Idle /\ site # NoOne
    /\ task' = [task EXCEPT ![c] = [do |-> "issue", owner |-> site.owner, mark |-> 0]]
    /\ UNCHANGED <<siteVars, cookie, form, ownHistory>>

\* login_with_recovery_code reads the owner's row and takes the code typed in.
BeginRecovery(c) ==
    /\ task[c] = Idle /\ site # NoOne
    /\ \E n \in 1..CodesPerOwner :
          task' = [task EXCEPT ![c] = [do |-> "redeem", mark |-> 0,
                      code |-> [owner |-> site.owner, nr |-> n]]]
    /\ UNCHANGED <<siteVars, cookie, form, ownHistory>>

\* A plausible slip: checking the code in one call and marking it in the next.
UnusedEarlier(code) == TRUE

Unused(code) == code \in codes

\* consume_recovery_code: one UPDATE that succeeds for an unused code only.
Redeem(c) ==
    /\ task[c].do = "redeem"
    /\ LET k == task[c].code IN
       IF Unused(k)
       THEN /\ codes' = codes \ {k}
            /\ redeemed' = Counted(redeemed, k)
            /\ task' = [task EXCEPT ![c] = [do |-> "revoke", owner |-> k.owner,
                                            mark |-> drawn.session]]
       ELSE /\ task' = [task EXCEPT ![c] = Idle] /\ UNCHANGED <<codes, redeemed>>
    /\ UNCHANGED <<site, sessions, cookie, form, drawn, era, told, revived, fence,
                   lostEdit, origin>>

\* A plausible slip: signing out only the browser that recovers.
SurvivingElsewhere(owner, c) == {s \in sessions : s.id # cookie[c]}

\* revoke_all_sessions
Surviving(owner, c) == {s \in sessions : s.owner # owner}

RevokeAll(c) ==
    /\ task[c].do = "revoke"
    /\ sessions' = Surviving(task[c].owner, c)
    /\ task' = [task EXCEPT ![c] = [do |-> "issue", owner |-> task[c].owner,
                                    mark |-> task[c].mark]]
    /\ UNCHANGED <<site, codes, cookie, form, ownHistory>>

Larger(a, b) == IF a > b THEN a ELSE b

\* create_session; its foreign key refuses an owner who is gone.
IssueSession(c) ==
    /\ task[c].do = "issue" /\ drawn.session < MaxSessions
    /\ IF site # NoOne /\ site.owner = task[c].owner
       THEN LET id == drawn.session + 1 IN
            /\ sessions' = sessions \cup {[id |-> id, owner |-> site.owner]}
            /\ cookie' = [cookie EXCEPT ![c] = id]
            /\ drawn' = [drawn EXCEPT !.session = id]
            /\ fence' = Larger(fence, task[c].mark)
       ELSE UNCHANGED <<sessions, cookie, drawn, fence>>
    /\ task' = [task EXCEPT ![c] = Idle]
    /\ UNCHANGED <<site, codes, form, era, told, redeemed, revived, lostEdit, origin>>

Logout(c) ==
    /\ task[c] = Idle /\ Live(cookie[c])
    /\ sessions' = {s \in sessions : s.id # cookie[c]}
    /\ cookie' = [cookie EXCEPT ![c] = 0]
    /\ UNCHANGED <<site, codes, task, form, ownHistory>>

\* A session's lifetime ends: owner_for_session no longer finds it.
SessionExpires ==
    /\ \E s \in sessions : sessions' = sessions \ {s}
    /\ UNCHANGED <<site, codes, webVars, ownHistory>>

----------------------------------------------------------------------------
\* Customization.

\* The page carries the revision it shows; era and look say which version.
OpenForm(c) ==
    /\ task[c] = Idle /\ SignedIn(c)
    /\ form' = [form EXCEPT ![c] = [rev |-> site.rev, look |-> site.look, era |-> era]]
    /\ UNCHANGED <<siteVars, task, cookie, ownHistory>>

\* save_customization or reset_customization: the caller is the owner, and the
\* settings that the form does not carry, the origin among them, are read now.
BeginSave(c) ==
    /\ task[c] = Idle /\ SignedIn(c) /\ form[c] # NoOne
    /\ task' = [task EXCEPT ![c] = [do |-> "save", rev |-> form[c].rev,
                                    origin |-> site.origin, era |-> era]]
    /\ UNCHANGED <<siteVars, cookie, form, ownHistory>>

\* A plausible slip: writing back without the revision in the WHERE clause.
StillAtAny(rev) == site # NoOne

StillAt(rev) == site # NoOne /\ site.rev = rev

\* update_customization: a compare-and-set on the revision the form carried.
CommitSave(c) ==
    /\ task[c].do = "save" /\ drawn.version < MaxVersions
    /\ IF StillAt(task[c].rev)
       THEN LET v == drawn.version + 1
                sameEra == task[c].era = era /\ form[c].era = era
            IN /\ site' = [site EXCEPT !.rev = task[c].rev + 1, !.look = v,
                                       !.origin = task[c].origin]
               /\ drawn' = [drawn EXCEPT !.version = v]
               /\ lostEdit' = (lostEdit \/ (sameEra /\ form[c].look # site.look))
               /\ origin' = IF sameEra THEN origin ELSE task[c].origin
               /\ form' = [form EXCEPT ![c] = NoOne]
       ELSE UNCHANGED <<site, drawn, lostEdit, origin, form>>
    /\ task' = [task EXCEPT ![c] = Idle]
    /\ UNCHANGED <<codes, sessions, cookie, era, told, redeemed, revived, fence>>

OwnNext ==
    \/ SessionExpires
    \/ \E c \in Client :
          \/ BeginSetup(c) \/ Bootstrap(c)
          \/ BeginLogin(c) \/ BeginRecovery(c) \/ Redeem(c) \/ RevokeAll(c)
          \/ IssueSession(c) \/ Logout(c)
          \/ OpenForm(c) \/ BeginSave(c) \/ CommitSave(c)

OwnSpec == OwnInit /\ [][OwnNext]_ownVars

----------------------------------------------------------------------------
\* What must hold.

SiteRow == [owner : Nat, rev : Nat, look : Nat, origin : Origin]
SessionRow == [id : Nat, owner : Nat]
TaskRow ==
    [do : {"idle"}] \cup [do : {"claim"}, origin : Origin]
    \cup [do : {"issue", "revoke"}, owner : Nat, mark : Nat]
    \cup [do : {"redeem"}, mark : {0}, code : Code]
    \cup [do : {"save"}, rev : Nat, origin : Origin, era : Nat]
FormRow == [rev : Nat, look : Nat, era : Nat]

\* The types of the rows, the handlers' local variables and the histories; the
\* codes and the sessions are the present owner's, as their foreign keys say.
OwnTypeOK ==
    /\ site \in SiteRow \cup {NoOne}
    /\ codes \subseteq Code /\ sessions \subseteq SessionRow
    /\ \A r \in codes \cup sessions : site # NoOne /\ r.owner = site.owner
    /\ \A s \in sessions : s.id \in 1..drawn.session
    /\ task \in [Client -> TaskRow] /\ cookie \in [Client -> Nat]
    /\ form \in [Client -> FormRow \cup {NoOne}]
    /\ drawn \in [owner : Nat, session : Nat, version : Nat]
    /\ era \in Nat /\ fence \in Nat /\ lostEdit \in BOOLEAN
    /\ told \subseteq [client : Client, owner : Nat]
    /\ origin \in Origin \cup {NoOne}

(* The first claim "succeeds once": of visitors who race through setup, at  *)
(* most one is told that the Space is theirs, and it is (bootstrap's look   *)
(* at the table inside its own transaction).                                *)
OneClaim ==
    /\ \A x, y \in told : x = y
    /\ \A x \in told : site # NoOne /\ site.owner = x.owner

(* A recovery code lets someone in once, however many browsers type it at   *)
(* the same time; only the restore of an archive in which it was still      *)
(* unused makes it good for one more use.                                   *)
CodesWorkOnce == \A k \in DOMAIN redeemed : redeemed[k] <= 1 + Tally(revived, k)

(* Once a recovery has let its caller in, no session issued before its code *)
(* was redeemed is alive, whatever logins and logouts ran in between; the   *)
(* same after the database was replaced or purged.                          *)
OldSessionsDead == \A s \in sessions : s.id > fence

(* A customization that is accepted replaced exactly the version its page   *)
(* showed: two owners' browsers, or a browser and a migration, never        *)
(* overwrite each other unseen.  Pages opened before a restore are left     *)
(* out: a restore brings older revision numbers back.                       *)
NoLostEdit == ~lostEdit

(* The canonical origin is the one last claimed, migrated to or restored: a *)
(* customization, which writes back the origin it read before its           *)
(* compare-and-set, never undoes a migration.                               *)
OriginSticks == site # NoOne => site.origin = origin
=============================================================================
