-------------------------- MODULE MCRelationships --------------------------
(* Values for model-checking Relationships.                                *)
EXTENDS Relationships, TLC

MCAllBlocks == {"follow", "unfollow", "remove", "block", "domain"}
MCCircles == {"follow", "remove", "block", "circle"}
MCHandshake == {"follow", "unfollow", "leave"}
MCFollowOnly == {"follow"}

Symmetry == Permutations(Node)
=============================================================================
