---------------------------- MODULE MCAuthoring ----------------------------
(* Scenes for model-checking what the owner, visitors and remote actors      *)
(* write, and what an archive takes of it: Publishing, Guestbook, Feed and   *)
(* Archive, which share no variable.  A run checks the union of the scenes   *)
(* and not their product.                                                    *)
EXTENDS Publishing, Guestbook, Feed, Archive, TLC

VARIABLE scene

MCInit ==
    /\ PubInit /\ BookInit /\ FeedInit /\ ArchiveInit
    /\ scene \in {"posts", "guestbook", "feed", "archive"}
    /\ scene # "feed" => \A a \in Actor : bond[a] = Stranger

MCNext ==
    /\ scene' = scene
    /\ \/ scene = "posts" /\ PubNext /\ UNCHANGED <<bookVars, feedVars, archiveVars>>
       \/ scene = "guestbook" /\ BookNext /\ UNCHANGED <<pubVars, feedVars, archiveVars>>
       \/ scene = "feed" /\ FeedNext /\ UNCHANGED <<pubVars, bookVars, archiveVars>>
       \/ scene = "archive" /\ ArchiveNext /\ UNCHANGED <<pubVars, bookVars, feedVars>>

MCSpec == MCInit /\ [][MCNext]_<<pubVars, bookVars, feedVars, archiveVars, scene>>

\* One set of process names serves every module, and one set of labels stands
\* for the pictures of Publishing and the serial numbers of Feed.
Symmetry == Permutations(Writer) \cup Permutations(Media) \cup Permutations(Peer)

MCDomainOf == [p \in Peer |-> "d"]
=============================================================================
