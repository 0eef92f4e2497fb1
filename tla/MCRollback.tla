----------------------------- MODULE MCRollback -----------------------------
(* Any number of sessions and files, given by the configuration.            *)
EXTENDS Rollback
=============================================================================
