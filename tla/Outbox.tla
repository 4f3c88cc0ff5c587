------------------------------- MODULE Outbox -------------------------------
(***************************************************************************)
(* What the delivery queue promises, without clocks, leases, backoff or    *)
(* database rows: a delivery is posted once, is taken by one worker at a   *)
(* time and at most one per inbox at a time in one batch, and is settled   *)
(* by the worker that took it.  A delivered delivery never changes again;  *)
(* a dead one comes back only when the owner asks.  A cancellation does    *)
(* not reach a delivery that is taken: the attempt's own result wins.      *)
(***************************************************************************)
EXTENDS Naturals

CONSTANTS Delivery,      \* the deliveries, one per activity and inbox
          InboxOf(_)     \* where a delivery goes

VARIABLES state, taken
vars == <<state, taken>>

State == {"absent", "queued", "delivered", "dead", "discarded"}

TypeOK == /\ state \in [Delivery -> State]
          /\ taken \in SUBSET Delivery

Init == /\ state = [d \in Delivery |-> "absent"]
        /\ taken = {}

Become(S, s) == state' = [d \in Delivery |-> IF d \in S THEN s ELSE state[d]]

\* One activity is queued for the inboxes that do not have it yet.
Post(S) ==
    /\ \A d \in S : state[d] = "absent"
    /\ Become(S, "queued")
    /\ UNCHANGED taken

\* A worker takes a batch: nothing another worker holds, one per inbox.
Take(S) ==
    /\ \A d \in S : state[d] = "queued" /\ d \notin taken
    /\ \A d, e \in S : InboxOf(d) = InboxOf(e) => d = e
    /\ taken' = taken \cup S
    /\ UNCHANGED state

\* The holder records the attempt's result, whatever the owner did meanwhile.
Settle(d, s) ==
    /\ d \in taken
    /\ state[d] \in {"queued", "discarded"}
    /\ s \in {"queued", "delivered", "dead"}
    /\ Become({d}, s)
    /\ taken' = taken \ {d}

\* A worker puts deliveries back, or crashes with them.
LetGo(S) ==
    /\ S \subseteq taken
    /\ taken' = taken \ S
    /\ UNCHANGED state

\* The owner discards, or a block cancels.
Cancel(S) ==
    /\ \A d \in S : state[d] \in {"queued", "dead"}
    /\ Become(S, "discarded")
    /\ UNCHANGED taken

\* The owner asks for a fresh cycle of a dead letter.
Requeue(d) ==
    /\ state[d] = "dead" /\ d \notin taken
    /\ Become({d}, "queued")
    /\ UNCHANGED taken

Next == \/ \E S \in SUBSET Delivery : Post(S) \/ Take(S) \/ LetGo(S) \/ Cancel(S)
        \/ \E d \in Delivery : Requeue(d) \/ \E s \in State : Settle(d, s)

Spec == Init /\ [][Next]_vars
=============================================================================
