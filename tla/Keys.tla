-------------------------------- MODULE Keys --------------------------------
(***************************************************************************)
(* The signing keys of a Space: ensure_key, rotate_key, key_document and   *)
(* sign_request of federation.py over the federation_keys table.           *)
(*                                                                         *)
(* Web processes, delivery workers and the rotation command share the      *)
(* table and no memory: a process reads the active key in one call and     *)
(* uses it later, while another one creates or rotates.  Peers fetch the   *)
(* key document whenever a signed request reaches them.                    *)
(***************************************************************************)
EXTENDS Integers

CONSTANTS
    Proc,     \* processes that sign, and that rotate
    Key,      \* key identifiers
    NoKey,    \* the absent value, of keys and of times
    Ttl,      \* how long a retired key is served (30 days)
    Lag,      \* bound on a rotation between its time stamp and its commit
    MaxClock  \* bound on the clock

ASSUME KeysAssumption ==
    /\ NoKey \notin Key /\ NoKey \notin Int
    /\ Ttl \in Nat /\ Lag \in Nat /\ MaxClock \in Nat

VARIABLES
    active,     \* rows whose retired_at is NULL
    retiredAt,  \* retired_at of the other rows, NoKey for what is no such row
    step,       \* where a process is
    held,       \* the key a process has in hand
    since,      \* when it read that key, or stamped its rotation
    keyClock,
    drawnKeys,  \* history: identifiers drawn
    signed      \* history: signatures made, by key and by when the key was read

keyRows == <<active, retiredAt>>
keyVars == <<keyRows, step, held, since, keyClock, drawnKeys, signed>>

Retired == {k \in Key : retiredAt[k] # NoKey}
Stored == active \cup Retired

KeyInit ==
    /\ active = {} /\ retiredAt = [k \in Key |-> NoKey]
    /\ step = [p \in Proc |-> "idle"] /\ held = [p \in Proc |-> NoKey]
    /\ since = [p \in Proc |-> 0]
    /\ keyClock = 0 /\ drawnKeys = {} /\ signed = {}

Moves(p, s, k, t) ==
    /\ step' = [step EXCEPT ![p] = s]
    /\ held' = [held EXCEPT ![p] = k]
    /\ since' = [since EXCEPT ![p] = t]

\* _new_key
Draws(k) == k \in Key \ drawnKeys /\ drawnKeys' = drawnKeys \cup {k}

\* ensure_key reads the active key, and generates one if there is none.
Look(p) ==
    /\ step[p] = "idle"
    /\ \/ /\ \E k \in active : Moves(p, "held", k, keyClock)
          /\ UNCHANGED drawnKeys
       \/ /\ active = {}
          /\ \E k \in Key : Draws(k) /\ Moves(p, "create", k, keyClock)
    /\ UNCHANGED <<keyRows, keyClock, signed>>

\* A plausible slip: checking before the transaction only.
NoneActiveBefore == TRUE

\* create_federation_key looks again inside its transaction.
NoneActive == active = {}

\* A plausible slip: going on with the key that was generated.
AfterLosing == "held"

\* The loser of the race reads the winner's key.
AfterLoss == "again"

Create(p) ==
    /\ step[p] = "create"
    /\ IF NoneActive
       THEN /\ active' = active \cup {held[p]}
            /\ Moves(p, "held", held[p], keyClock)
       ELSE /\ Moves(p, AfterLoss, held[p], keyClock)
            /\ UNCHANGED active
    /\ UNCHANGED <<retiredAt, keyClock, drawnKeys, signed>>

LookAgain(p) ==
    /\ step[p] = "again"
    /\ \/ \E k \in active : Moves(p, "held", k, keyClock)
       \/ active = {} /\ Moves(p, "idle", NoKey, 0)
    /\ UNCHANGED <<keyRows, keyClock, drawnKeys, signed>>

\* sign_request: the signature names the key that was read some time ago.
Sign(p) ==
    /\ step[p] = "held"
    /\ signed' = signed \cup {[key |-> held[p], read |-> since[p]]}
    /\ Moves(p, "idle", NoKey, 0)
    /\ UNCHANGED <<keyRows, keyClock, drawnKeys>>

\* rotate_key, after ensure_key: a new key, and the time the old one retires.
StampRotation(p) ==
    /\ step[p] = "held"
    /\ \E k \in Key : Draws(k) /\ Moves(p, "rotate", k, keyClock)
    /\ UNCHANGED <<keyRows, keyClock, signed>>

\* A plausible slip: retiring the key as of its creation.
RetireStampAtOnce(p) == 0

\* The retired_at that a rotation writes.
RetireStamp(p) == since[p]

\* rotate_federation_key: whatever is active is retired as of the stamp.
Rotate(p) ==
    /\ step[p] = "rotate" /\ keyClock <= since[p] + Lag
    /\ IF active # {}
       THEN /\ retiredAt' = [k \in Key |-> IF k \in active THEN RetireStamp(p)
                                                          ELSE retiredAt[k]]
            /\ active' = {held[p]}
       ELSE UNCHANGED keyRows
    /\ Moves(p, "idle", NoKey, 0)
    /\ UNCHANGED <<keyClock, drawnKeys, signed>>

\* A handler or a worker dies, or its rotation takes longer than Lag and fails.
GivesUp(p) ==
    /\ step[p] # "idle" /\ Moves(p, "idle", NoKey, 0)
    /\ UNCHANGED <<keyRows, keyClock, drawnKeys, signed>>

KeyTick ==
    /\ keyClock < MaxClock /\ keyClock' = keyClock + 1
    /\ UNCHANGED <<keyRows, step, held, since, drawnKeys, signed>>

\* key_document: stored, and not retired for longer than Ttl.
Served(k) ==
    \/ k \in active
    \/ retiredAt[k] # NoKey /\ keyClock - retiredAt[k] <= Ttl

KeyNext ==
    \/ KeyTick
    \/ \E p \in Proc : \/ Look(p) \/ Create(p) \/ LookAgain(p) \/ Sign(p)
                       \/ StampRotation(p) \/ Rotate(p) \/ GivesUp(p)

KeySpec == KeyInit /\ [][KeyNext]_keyVars

----------------------------------------------------------------------------
\* The types of the rows and of the processes' local variables.
KeyTypeOK ==
    /\ active \subseteq Key /\ retiredAt \in [Key -> Int \cup {NoKey}]
    /\ step \in [Proc -> {"idle", "create", "again", "held", "rotate"}]
    /\ held \in [Proc -> Key \cup {NoKey}] /\ since \in [Proc -> Int]
    /\ keyClock \in Int /\ drawnKeys \subseteq Key
    /\ signed \subseteq [key : Key, read : Int]

(* Processes that create the first key at once, or rotate at once, leave    *)
(* one active key, and one there is as soon as there was any: what the      *)
(* actor document shows is what every signer uses.                          *)
OneActiveKey ==
    /\ \A j, k \in active : j = k
    /\ Retired # {} => active # {}

(* Nobody signs with a key that is not in the table: the loser of a race to *)
(* create the first key signs with the winner's.                            *)
SignedKeysAreStored == \A s \in signed : s.key \in Stored

(* A request signed with a key read at some time can be verified for Ttl    *)
(* from then, less the time a rotation takes to commit: keys rotated while  *)
(* it is queued or on its way stay published long enough.                   *)
VerifiableInFlight ==
    \A s \in signed : keyClock - s.read <= Ttl - Lag => Served(s.key)
=============================================================================
