-------------------------- MODULE MCDeliveryQueue --------------------------
(* Values for model-checking DeliveryQueue.                                *)
EXTENDS DeliveryQueue, TLC

MCBackoff == <<1, 3>>
MCRetryAfters == {0}
MCAllButPause == {"retry", "block", "discard"}
MCPauseOnly == {"pause"}
MCBlockOnly == {"block"}
MCNoOps == {}

Symmetry == Permutations(Worker)
=============================================================================
