------------------------------- MODULE Shelf -------------------------------
(***************************************************************************)
(* What the owner may rely on when publishing: items stand on a shelf and  *)
(* change one at a time, and every change starts from what is on the shelf *)
(* at that moment.  An item is put there, edited any number of times, and  *)
(* buried for good; it keeps its kind, keeps its image or gets one that no *)
(* item shows, and keeps the publication time that it once got.            *)
(*                                                                         *)
(* There are no handlers here, no forms of any age, no storage and no      *)
(* failures: whoever wants to change an item does, or nothing happens.     *)
(***************************************************************************)
EXTENDS Naturals

CONSTANTS Item, Media,
          NoRow,    \* the absent value: an item that is not there yet
          NoMedia   \* the absent value: no image

VARIABLES shelf,    \* the items
          clock     \* the latest publication time
vars == <<shelf, clock>>

Init == shelf = [i \in Item |-> NoRow] /\ clock = 0

Unshown(m) == \A i \in Item : shelf[i] # NoRow => shelf[i].media # m

\* Item i becomes this version of itself.  It gets a publication time when it
\* is public and has none yet, later than all that were given, and keeps it.
Version(i, photo, state, m, rev, was) ==
    \E at \in {was, clock'} :
       /\ shelf' = [shelf EXCEPT ![i] = [photo |-> photo, state |-> state, media |-> m,
                                         rev |-> rev, published |-> at]]
       /\ IF was = 0 /\ state = "public"
          THEN clock' \in Nat /\ at = clock' /\ clock < clock'
          ELSE at = was /\ clock' = clock

\* A photo without an image is a draft, saved for another attempt.
Put(i) ==
    /\ shelf[i] = NoRow
    /\ \/ \E state \in {"draft", "public"}, m \in Media \cup {NoMedia} :
             /\ m = NoMedia \/ Unshown(m)
             /\ Version(i, m # NoMedia, state, m, 1, 0)
       \/ Version(i, TRUE, "draft", NoMedia, 1, 0)

Edit(i) ==
    /\ shelf[i] # NoRow /\ shelf[i].state # "deleted"
    /\ \E state \in {"draft", "public"}, m \in Media \cup {NoMedia} :
          /\ m = shelf[i].media \/ Unshown(m)
          /\ shelf[i].photo = (m # NoMedia)
          /\ Version(i, shelf[i].photo, state, m, shelf[i].rev + 1, shelf[i].published)

Bury(i) ==
    /\ shelf[i] # NoRow /\ shelf[i].state # "deleted"
    /\ Version(i, shelf[i].photo, "deleted", shelf[i].media, shelf[i].rev + 1,
               shelf[i].published)

Next == \E i \in Item : shelf'[i] # shelf[i] /\ (Put(i) \/ Edit(i) \/ Bury(i))

Spec == Init /\ [][Next]_vars
=============================================================================
