----------------------------- MODULE MCApproval -----------------------------
(* Two edits of one file, with ids of their own or with the same id. *)
EXTENDS Approval

CONSTANTS e1, e2, t1, t2

MCEdits == {e1, e2}
MCIds   == {1, 2}
MCTexts == {t1, t2}
=============================================================================
