----------------------------- MODULE MCContent ------------------------------
(***************************************************************************)
(* Content for TLC: what is published, and the comparison lineages, are    *)
(* interchangeable.                                                        *)
(***************************************************************************)
EXTENDS Content, TLC

ContentSymmetry == Permutations(Contents) \cup Permutations(Lineages)
=============================================================================
