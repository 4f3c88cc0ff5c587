------------------------------ MODULE Channel ------------------------------
(***************************************************************************)
(* What a peer may rely on when deliveries reach its inbox: they wait in a *)
(* line, and the peer hears the first of the line and no other, perhaps    *)
(* several times, until it leaves the line.  One leaves as delivered only  *)
(* after it was heard.  A delivery that the owner cancelled or requeued is *)
(* out of turn for good, and may be heard at any time.                     *)
(*                                                                         *)
(* Relationships is written for peers that are connected in this way.      *)
(***************************************************************************)
EXTENDS Naturals

CONSTANTS Delivery,      \* the deliveries, one per activity and inbox
          InboxOf(_)     \* the line a delivery waits in

VARIABLES fate,          \* where a delivery is
          place,         \* its place among those of its line
          heard          \* how often its peer has accepted it
vars == <<fate, place, heard>>

Fate == {"absent", "waiting", "delivered", "dead", "astray"}

Init == /\ fate = [d \in Delivery |-> "absent"]
        /\ place = [d \in Delivery |-> 0]
        /\ heard = [d \in Delivery |-> 0]

Become(S, f) == fate' = [d \in Delivery |-> IF d \in S THEN f ELSE fate[d]]

First(d) ==
    /\ fate[d] = "waiting"
    /\ \A e \in Delivery :
          fate[e] = "waiting" /\ InboxOf(e) = InboxOf(d) => place[d] <= place[e]

\* An activity joins lines, behind all that is or was in one.
Join(S) ==
    /\ \A d \in S : fate[d] = "absent"
    /\ \A d, e \in S : InboxOf(d) = InboxOf(e) => d = e
    /\ Become(S, "waiting")
    /\ place' \in [Delivery -> Nat]
    /\ \A d \in S, e \in Delivery : fate[e] # "absent" => place[e] < place'[d]
    /\ \A e \in Delivery \ S : place'[e] = place[e]
    /\ UNCHANGED heard

\* The peer accepts what is posted to it.
Hear(d) ==
    /\ First(d) \/ fate[d] = "astray"
    /\ heard' = [heard EXCEPT ![d] = @ + 1]
    /\ UNCHANGED <<fate, place>>

Delivered(d) ==
    /\ First(d) /\ heard[d] > 0
    /\ Become({d}, "delivered") /\ UNCHANGED <<place, heard>>

GivenUp(d) ==
    /\ First(d)
    /\ Become({d}, "dead") /\ UNCHANGED <<place, heard>>

\* A cancellation, or a fresh cycle for a dead letter.
Divert(S) ==
    /\ \A d \in S : fate[d] \in {"waiting", "dead", "astray"}
    /\ Become(S, "astray") /\ UNCHANGED <<place, heard>>

Next == \/ \E S \in SUBSET Delivery : Join(S) \/ Divert(S)
        \/ \E d \in Delivery : Hear(d) \/ Delivered(d) \/ GivenUp(d)

Spec == Init /\ [][Next]_vars
=============================================================================
