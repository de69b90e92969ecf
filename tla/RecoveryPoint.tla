---------------------------- MODULE RecoveryPoint ------------------------------
(***************************************************************************)
(* What the backups of an archive promise.  The moments at which snapshots *)
(* were begun are numbered in order.  A moment is covered if a snapshot of *)
(* that moment or of a later one is on record as verified and its file is  *)
(* there to be restored.  A snapshot that is kept covers its own moment    *)
(* and all before it, and nothing that happens afterwards, not the making  *)
(* of other snapshots, not their rotation and not the death of a process   *)
(* in the middle of either, uncovers a moment again.                       *)
(***************************************************************************)
EXTENDS Naturals

CONSTANT MaxSnapshots      \* bound: snapshots ever begun

VARIABLE covered

Snapshots == 1 .. MaxSnapshots

Init == covered = {}

Keep(i) == covered' = covered \cup 1 .. i

Next == \E i \in Snapshots : Keep(i)

Spec == Init /\ [][Next]_covered
=============================================================================
