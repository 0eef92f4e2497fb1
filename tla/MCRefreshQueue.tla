--------------------------- MODULE MCRefreshQueue ---------------------------
(* The index queue with small bounds: see the configurations. *)
EXTENDS RefreshQueue

CONSTANTS user, agent

MCWriters == {user, agent}
=============================================================================
