------------------------------ MODULE MCRecheck -----------------------------
(* Small instances of Recheck for the model checker. *)
EXTENDS Recheck

CONSTANTS p1, p2

\* posting_id follows the order of registration.
IdOrder == <<p1, p2>>
=============================================================================
