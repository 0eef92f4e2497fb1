------------------------------ MODULE MCReview ------------------------------
(* One rating that passes and one that fails. *)
EXTENDS Review

MCRatings == {[dims |-> <<9, 9, 9, 9, 9>>, fatal |-> 0], [dims |-> <<5, 8, 6, 8, 8>>, fatal |-> 2]}
=============================================================================
