------------------------------ MODULE MCHouse ------------------------------
(* Values and scenes for model-checking the modules of one Space that do not *)
(* meet the network: Lifecycle with Ownership, Keys and Budgets, of which no *)
(* two share a variable.  A scene is a part of the behaviour that one        *)
(* question needs whole; a run checks the union of the scenes and not their  *)
(* product.                                                                  *)
EXTENDS Lifecycle, Keys, Budgets, TLC

VARIABLE scene

Doing(c) == task'[c].do

\* An export and one more operation, and no mishap.
Short == opsBegun' <= 2 /\ mishaps' = 0

\* Claims, logins and recoveries while the database is replaced or purged.
People == LifeNext /\ UNCHANGED <<published, page, form>> /\ op'.do # "hold"
          /\ Short

\* Two browsers of the owner edit while the origin migrates or a backup returns.
Edits == LifeNext /\ UNCHANGED <<published, page>> /\ drawn'.owner <= 1
         /\ Short /\ drawn'.session <= 2 /\ op'.do # "list"
         /\ \A c \in Client : Doing(c) # "redeem"

\* Nobody but the one who claims the Space signs in.
Alone == /\ UNCHANGED cookie /\ drawn'.owner <= 1
         /\ \A c \in Client : task[c] = Idle => Doing(c) \in {"idle", "claim"}

\* Media under exports, restores and deletions.
Images == LifeNext /\ Alone /\ UNCHANGED page /\ op'.do # "hold"
          /\ opsBegun' + mishaps' <= 4

\* The owner's page of controls while the origin migrates or a backup returns.
Controls == LifeNext /\ Alone /\ UNCHANGED published

MCInit ==
    /\ LifeInit /\ KeyInit /\ BudgetInit
    /\ scene \in {"people", "edits", "images", "controls", "keys", "budgets"}

MCNext ==
    /\ scene' = scene
    /\ \/ /\ \/ scene = "people" /\ People
             \/ scene = "edits" /\ Edits
             \/ scene = "images" /\ Images
             \/ scene = "controls" /\ Controls
          /\ UNCHANGED <<keyVars, budgetVars>>
       \/ /\ scene = "keys" /\ KeyNext /\ Cardinality(signed') <= 2
          /\ UNCHANGED <<allVars, budgetVars>>
       \/ scene = "budgets" /\ BudgetNext /\ UNCHANGED <<allVars, keyVars>>

MCSpec == MCInit /\ [][MCNext]_<<allVars, keyVars, budgetVars, scene>>

\* One set of process names serves every module.
Symmetry == Permutations(Client) \cup Permutations(Origin)

\* Two actors of one domain behind one address.
MCSender == {[ip |-> "i", domain |-> "d", actor |-> a] : a \in {"a", "b"}}
MCCapacity == [s \in RateScope |-> IF s \in {"ip", "follow-actor"} THEN 4 ELSE 6]
MCRefill == [s \in RateScope |-> IF s = "ip" THEN 2 ELSE 1]
MCMaxLeases == [s \in LeaseScope |-> IF s = "actor" THEN 1 ELSE 2]
=============================================================================
