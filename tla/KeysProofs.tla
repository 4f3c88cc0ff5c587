----------------------------- MODULE KeysProofs -----------------------------
(***************************************************************************)
(* Keys for any number of processes and keys, any Ttl and any Lag.         *)
(*                                                                         *)
(* What makes the three properties inductive is the age of what a process  *)
(* has in hand: a key that was read while it was active can only have been *)
(* retired with a stamp at most Lag before that reading, and a key that is *)
(* not in the table yet is in the hands of one process only.               *)
(***************************************************************************)
EXTENDS Keys, TLAPS

\* k is active, or was retired no earlier than Lag before t.
Fresh(k, t) == k \in active \/ (retiredAt[k] # NoKey /\ retiredAt[k] >= t - Lag)

\* A key that has been generated and not stored.
Unborn(p) == step[p] \in {"create", "rotate"}

KeysInv ==
    /\ KeyTypeOK
    /\ OneActiveKey
    /\ \A k \in active : retiredAt[k] = NoKey
    /\ Stored \subseteq drawnKeys
    /\ \A p \in Proc : since[p] <= keyClock \/ step[p] = "idle"
    /\ \A p \in Proc : step[p] = "held" => held[p] \in Key /\ Fresh(held[p], since[p])
    /\ \A p \in Proc : Unborn(p) => held[p] \in drawnKeys \ Stored
    /\ \A p, q \in Proc : Unborn(p) /\ Unborn(q) /\ held[p] = held[q] => p = q
    /\ \A s \in signed : s.read <= keyClock /\ Fresh(s.key, s.read)

(* Every start satisfies the invariant. *)
LEMMA KeysInit == KeyInit => KeysInv
  BY KeysAssumption DEF KeyInit, KeysInv, KeyTypeOK, OneActiveKey, Stored, Retired,
                        Unborn, Fresh

(* A process that reads the active key, or draws a new one, keeps it. *)
LEMMA LookKeeps ==
  ASSUME KeysInv, NEW p \in Proc, Look(p) PROVE KeysInv'
  BY KeysAssumption DEF Look, Moves, Draws, KeysInv, KeyTypeOK, OneActiveKey, Stored,
                        Retired, Unborn, Fresh, keyRows

(* Storing the first key keeps it, whoever wins. *)
LEMMA CreateKeeps ==
  ASSUME KeysInv, NEW p \in Proc, Create(p) PROVE KeysInv'
  BY KeysAssumption DEF Create, NoneActive, AfterLoss, Moves, KeysInv, KeyTypeOK,
                        OneActiveKey, Stored, Retired, Unborn, Fresh

(* A rotation keeps it: what it retires, it retires late enough. *)
LEMMA RotateKeeps ==
  ASSUME KeysInv, NEW p \in Proc, Rotate(p) PROVE KeysInv'
  BY KeysAssumption DEF Rotate, RetireStamp, Moves, KeysInv, KeyTypeOK,
                        OneActiveKey, Stored, Retired, Unborn, Fresh, keyRows

(* So does every other step of a process. *)
LEMMA OthersKeep ==
  ASSUME KeysInv, NEW p \in Proc,
         LookAgain(p) \/ Sign(p) \/ StampRotation(p) \/ GivesUp(p)
  PROVE  KeysInv'
  BY KeysAssumption DEF LookAgain, Sign, StampRotation, GivesUp, Draws, Moves, KeysInv,
                        KeyTypeOK, OneActiveKey, Stored, Retired, Unborn, Fresh, keyRows

(* And the clock. *)
LEMMA TickKeeps ==
  ASSUME KeysInv, KeyTick PROVE KeysInv'
  BY KeysAssumption DEF KeyTick, KeysInv, KeyTypeOK, OneActiveKey, Stored, Retired,
                        Unborn, Fresh, keyRows

(* KeysInv is an invariant of the specification. *)
THEOREM KeysInvariant == KeySpec => []KeysInv
<1>1. ASSUME KeysInv, [KeyNext]_keyVars PROVE KeysInv'
  <2>1. CASE KeyTick  BY <1>1, <2>1, TickKeeps
  <2>2. ASSUME NEW p \in Proc,
               \/ Look(p) \/ Create(p) \/ LookAgain(p) \/ Sign(p)
               \/ StampRotation(p) \/ Rotate(p) \/ GivesUp(p)
        PROVE  KeysInv'
    BY <1>1, <2>2, LookKeeps, CreateKeeps, RotateKeeps, OthersKeep
  <2>3. CASE UNCHANGED keyVars
    BY <1>1, <2>3 DEF keyVars, keyRows, KeysInv, KeyTypeOK, OneActiveKey, Stored,
                      Retired, Unborn, Fresh
  <2> QED  BY <1>1, <2>1, <2>2, <2>3 DEF KeyNext
<1> QED  BY KeysInit, <1>1, PTL DEF KeySpec

(* Rows and local variables are well typed in every reachable state. *)
THEOREM KeyTypes == KeySpec => []KeyTypeOK
<1>1. KeysInv => KeyTypeOK  BY DEF KeysInv
<1> QED  BY <1>1, KeysInvariant, PTL

(* However many processes create and rotate at once, one key is active. *)
THEOREM UniqueActiveKey == KeySpec => []OneActiveKey
<1>1. KeysInv => OneActiveKey  BY DEF KeysInv
<1> QED  BY <1>1, KeysInvariant, PTL

(* No signature names a key that the table does not hold. *)
THEOREM SignersAgree == KeySpec => []SignedKeysAreStored
<1>1. KeysInv => SignedKeysAreStored
  BY DEF KeysInv, SignedKeysAreStored, Fresh, Stored, Retired, KeyTypeOK
<1> QED  BY <1>1, KeysInvariant, PTL

(* Signatures stay verifiable for Ttl - Lag from the reading of their key. *)
THEOREM KeysOutliveSignatures == KeySpec => []VerifiableInFlight
<1>1. KeysInv => VerifiableInFlight
  <2> SUFFICES ASSUME KeysInv, NEW s \in signed, keyClock - s.read <= Ttl - Lag
               PROVE  Served(s.key)
    BY DEF VerifiableInFlight
  <2>1. s \in [key : Key, read : Int] /\ keyClock \in Int /\ Fresh(s.key, s.read)
    BY DEF KeysInv, KeyTypeOK
  <2>2. CASE s.key \in active  BY <2>2 DEF Served
  <2>3. CASE retiredAt[s.key] # NoKey /\ retiredAt[s.key] >= s.read - Lag
    <3>1. retiredAt[s.key] \in Int  BY <2>1, <2>3 DEF KeysInv, KeyTypeOK
    <3>2. keyClock - retiredAt[s.key] <= Ttl
      BY <2>1, <2>3, <3>1, KeysAssumption
    <3> QED  BY <2>3, <3>2 DEF Served
  <2> QED  BY <2>1, <2>2, <2>3 DEF Fresh
<1> QED  BY <1>1, KeysInvariant, PTL
=============================================================================
