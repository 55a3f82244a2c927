-------------------------- MODULE MCHttpsEndpoints --------------------------
(* A node name for the model checker. *)
EXTENDS HttpsEndpoints

MCOneExplorer == {"e1"}
=============================================================================
