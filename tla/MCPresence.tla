----------------------------- MODULE MCPresence -----------------------------
(* Small instances of Presence for the model checker. *)
EXTENDS Presence, TLC

\* Advertisements are interchangeable: only their identity matters.
PostingSymmetry == Permutations(Postings)
=============================================================================
