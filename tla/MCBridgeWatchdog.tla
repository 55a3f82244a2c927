-------------------------- MODULE MCBridgeWatchdog --------------------------
(* A bridge of a few tokens beside the code's own back-off and limit: what   *)
(* is read, what is paged and what is lost, under every interleaving, and    *)
(* how long each of it takes.                                                *)
EXTENDS BridgeTiming

MCAmounts == {-2, 1}
=============================================================================
