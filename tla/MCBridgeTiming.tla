--------------------------- MODULE MCBridgeTiming ---------------------------
(* A bridge at rest and in balance: only the outside sources fail. *)
EXTENDS BridgeTiming

MCAmounts == {}
=============================================================================
