------------------------------- MODULE MCBackup --------------------------------
(* A small instance of Backup for the model checker: the calendar of the     *)
(* snapshots.                                                                *)
EXTENDS Backup, TLC

\* Two snapshots fall in the first week, and the second week crosses months.
WeekOf  == [i \in Snapshots |-> (i + 1) \div 2]
MonthOf == [i \in Snapshots |-> (i + 2) \div 3]

\* The processes are alike.
Alike == Permutations(Keepers)
=============================================================================
