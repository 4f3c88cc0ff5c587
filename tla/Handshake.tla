----------------------------- MODULE Handshake -----------------------------
(***************************************************************************)
(* What two owners are promised of a follow, without rows, activities,     *)
(* queues, receipts and web processes: a node claims to follow another     *)
(* only by a Follow it asked with and the other owner granted, and shows   *)
(* a follower only by a Follow it was asked with and its owner granted.    *)
(* Either side may end what it claims or shows at any time and without     *)
(* the other; nothing is claimed or shown anew before it has ended.        *)
(***************************************************************************)
EXTENDS Naturals

CONSTANTS Node,
          Follow      \* the Follows that nodes ask with

VARIABLES claim,      \* what p[1] claims of its follow of p[2]
          shown,      \* what p[1] shows of p[2]'s follow of it
          granted     \* the Follows that a node's owner has granted
vars == <<claim, shown, granted>>

Pair == {p \in Node \X Node : p[1] # p[2]}

Nothing == [is |-> "none", of |-> 0]

Init == /\ claim = [p \in Pair |-> Nothing]
        /\ shown = [p \in Pair |-> Nothing]
        /\ granted = [n \in Node |-> {}]

Claims(p, c) == claim' = [claim EXCEPT ![p] = c]
Shows(p, s) == shown' = [shown EXCEPT ![p] = s]

\* p[1] asks with a Follow; p[2] is asked, perhaps with one that is taken back.
Ask(p) ==
    /\ claim[p] = Nothing
    /\ claim'[p] \in [is : {"pending"}, of : Follow] /\ Claims(p, claim'[p])
    /\ UNCHANGED <<shown, granted>>

BeAsked(p) ==
    /\ shown[p] = Nothing
    /\ shown'[p] \in [is : {"pending"}, of : Follow] /\ Shows(p, shown'[p])
    /\ UNCHANGED <<claim, granted>>

\* The owner of p[1] grants what it is asked with.
Grant(p) ==
    /\ shown[p].is = "pending"
    /\ granted' = [granted EXCEPT ![p[1]] = @ \cup {shown[p].of}]
    /\ UNCHANGED <<claim, shown>>

Welcome(p) ==
    /\ shown[p].is = "pending" /\ shown[p].of \in granted[p[1]]
    /\ Shows(p, [shown[p] EXCEPT !.is = "follower"])
    /\ UNCHANGED <<claim, granted>>

\* p[1] learns that its Follow was granted.
Learn(p) ==
    /\ claim[p].is = "pending" /\ claim[p].of \in granted[p[2]]
    /\ Claims(p, [claim[p] EXCEPT !.is = "following"])
    /\ UNCHANGED <<shown, granted>>

\* An undo, a removal, a rejection, a deletion or a block.
End(p) ==
    /\ \E c \in {claim[p], Nothing} : Claims(p, c)
    /\ \E s \in {shown[p], Nothing} : Shows(p, s)
    /\ UNCHANGED granted

Next == \E p \in Pair : \/ End(p) \/ Ask(p) \/ BeAsked(p)
                        \/ Grant(p) \/ Welcome(p) \/ Learn(p)

Spec == Init /\ [][Next]_vars
=============================================================================
