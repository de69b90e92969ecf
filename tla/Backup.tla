------------------------------- MODULE Backup ----------------------------------
(***************************************************************************)
(* Snapshots of the archive and their rotation (ops/backup.py).            *)
(*                                                                         *)
(* A collection that added evidence, an operator and the release tool each *)
(* run BackupManager.create in a process of their own, with no lock among  *)
(* them.  A snapshot is copied under a partial name, verified, renamed,    *)
(* and recorded in the table backups; the process then rotates: it reads   *)
(* the rows once and for every row it drops removes the file and marks the *)
(* row, in two steps.  It can be killed, or leave by an exception, between *)
(* any two of them.  A snapshot is named by the order in which it was      *)
(* begun: no two are begun by the same kind of backup in the same second.  *)
(***************************************************************************)
EXTENDS Integers, FiniteSets

CONSTANTS
  Keepers,       \* processes that make and check backups
  MaxSnapshots,  \* bound: snapshots ever begun
  Week, Month,   \* the ISO week and the month a snapshot was begun in
  KeepDaily, KeepWeekly, KeepMonthly,  \* backup.keep_daily, ...
  Verifies       \* the values backup.verify_after_backup takes

Snapshots == 1 .. MaxSnapshots

ASSUME BackupAssumption ==
  /\ MaxSnapshots \in Nat
  /\ {KeepDaily, KeepWeekly, KeepMonthly} \subseteq Nat
  /\ Verifies \subseteq BOOLEAN
  /\ DOMAIN Week = Snapshots /\ DOMAIN Month = Snapshots

VARIABLES
  file,     \* what the backups directory holds of a snapshot
  row,      \* its row in the table backups
  taken,    \* the last snapshot begun
  job,      \* of each process: where it is, its snapshot, and its rows to drop
  proof     \* what the last restore check wrote to restore-check.json

vars == <<file, row, taken, job, proof>>

Files == {"none", "partial", "final", "unverified"}
Rows  == {"none", "OK", "SKIPPED", "pruned"}
Steps == {"idle", "copying", "renamed", "recorded", "rotating", "unlinked", "checking"}
Jobs  == [at : Steps, id : 0 .. MaxSnapshots, verified : BOOLEAN, todo : SUBSET Snapshots]

Idle    == [at |-> "idle", id |-> 0, verified |-> FALSE, todo |-> {}]
NoProof == [of |-> 0, verified |-> FALSE, ok |-> TRUE]

Goto(k, step) == job' = [job EXCEPT ![k].at = step]

Init ==
  /\ file = [i \in Snapshots |-> "none"] /\ row = [i \in Snapshots |-> "none"]
  /\ taken = 0
  /\ job = [k \in Keepers |-> Idle]
  /\ proof = NoProof

-----------------------------------------------------------------------------
(* The rotation, as a set of rows.                                         *)

Unpruned == {i \in Snapshots : row[i] \in {"OK", "SKIPPED"}}
Verified == {i \in Snapshots : row[i] = "OK"}

\* The n newest of S, and the newest of each week or month in S.
Newest(n, S)    == {i \in S : Cardinality({j \in S : j > i}) < n}
Leaders(S, Cal) == {i \in S : \A j \in S : j > i => Cal[j] # Cal[i]}

NewestVerified == {i \in Verified : \A j \in Verified : j <= i}

Kept == NewestVerified \cup Newest(KeepDaily, Unpruned)
                       \cup Newest(KeepWeekly, Leaders(Unpruned, Week))
                       \cup Newest(KeepMonthly, Leaders(Unpruned, Month))

\* Slips for LatestRestorable, the newest verified row is not protected, and for
\* KeepsRecoveryPoint, an unverified row counts as a recovery copy.
Rotation_BucketsOnly ==
  IF Cardinality(Verified) <= 1 THEN {} ELSE Unpruned \ (Kept \ NewestVerified)
Rotation_AnyRow ==
  IF Cardinality(Unpruned) <= 1 THEN {}
  ELSE Unpruned \ (Newest(1, Unpruned) \cup Newest(KeepWeekly, Leaders(Unpruned, Week)))

Rotation == IF Cardinality(Verified) <= 1 THEN {} ELSE Unpruned \ Kept

-----------------------------------------------------------------------------
(* BackupManager.create                                                    *)

Begin(k) ==
  /\ job[k].at = "idle" /\ taken < MaxSnapshots
  /\ taken' = taken + 1
  /\ file' = [file EXCEPT ![taken + 1] = "partial"]
  /\ job' = [job EXCEPT ![k] = [Idle EXCEPT !.at = "copying", !.id = taken + 1]]
  /\ UNCHANGED <<row, proof>>

\* The copy fails, and its file is removed.
SnapshotFails(k) ==
  /\ job[k].at = "copying"
  /\ file' = [file EXCEPT ![job[k].id] = "none"]
  /\ job' = [job EXCEPT ![k] = Idle]
  /\ UNCHANGED <<row, taken, proof>>

\* The copy does not verify: it is set aside under another name, gets no row,
\* and is handed to the restore check like any other path.
Reject(k) ==
  /\ job[k].at = "copying" /\ TRUE \in Verifies
  /\ file' = [file EXCEPT ![job[k].id] = "unverified"]
  /\ \E due \in BOOLEAN :
       job' = [job EXCEPT ![k] = IF due THEN [@ EXCEPT !.at = "checking"] ELSE Idle]
  /\ UNCHANGED <<row, taken, proof>>

\* Slip for FailedCheckIsNoLoss: the verified copy keeps its partial name.
Rename_Forgotten(k) ==
  /\ job[k].at = "copying"
  /\ \E v \in Verifies : job' = [job EXCEPT ![k].at = "renamed", ![k].verified = v]
  /\ UNCHANGED <<file, row, taken, proof>>

\* The copy verifies, or nobody asks.
Rename(k) ==
  /\ job[k].at = "copying"
  /\ \E v \in Verifies : job' = [job EXCEPT ![k].at = "renamed", ![k].verified = v]
  /\ file' = [file EXCEPT ![job[k].id] = "final"]
  /\ UNCHANGED <<row, taken, proof>>

\* _record, after the push off the host, whose failure changes nothing here.
Record(k) ==
  /\ job[k].at = "renamed"
  /\ row' = [row EXCEPT ![job[k].id] = IF job[k].verified THEN "OK" ELSE "SKIPPED"]
  /\ Goto(k, "recorded")
  /\ UNCHANGED <<file, taken, proof>>

\* prune: one read of the rows ...
ListRotation(k) ==
  /\ job[k].at = "recorded"
  /\ job' = [job EXCEPT ![k].at = "rotating", ![k].todo = Rotation]
  /\ UNCHANGED <<file, row, taken, proof>>

\* ... then the files, newest first, ...
NextToDrop(k) == CHOOSE i \in job[k].todo : \A j \in job[k].todo : j <= i

Unlink(k) ==
  /\ job[k].at = "rotating" /\ job[k].todo # {}
  /\ file' = [file EXCEPT ![NextToDrop(k)] = "none"]
  /\ Goto(k, "unlinked")
  /\ UNCHANGED <<row, taken, proof>>

\* ... each followed by the mark in its row.
MarkPruned(k) ==
  /\ job[k].at = "unlinked"
  /\ row' = [row EXCEPT ![NextToDrop(k)] = "pruned"]
  /\ job' = [job EXCEPT ![k].at = "rotating", ![k].todo = @ \ {NextToDrop(k)}]
  /\ UNCHANGED <<file, taken, proof>>

\* cmd_collect goes on to a restore check when one is due.
Rotated(k) ==
  /\ job[k].at = "rotating" /\ job[k].todo = {}
  /\ \E due \in BOOLEAN :
       job' = [job EXCEPT ![k] = IF due THEN [@ EXCEPT !.at = "checking"] ELSE Idle]
  /\ UNCHANGED <<file, row, taken, proof>>

\* cmd_verify --restore reads latest() and closes the archive ...
CheckLatest(k) ==
  /\ job[k].at = "idle"
  /\ \E i \in NewestVerified :
       job' = [job EXCEPT ![k] = [Idle EXCEPT !.at = "checking", !.id = i, !.verified = TRUE]]
  /\ UNCHANGED <<file, row, taken, proof>>

\* ... before restore_check copies the file, as it does with the snapshot that a
\* collection has just made.  The file must be there, and may still be refused: an
\* archive without a single description is.
RestoreCheck(k) ==
  /\ job[k].at = "checking"
  /\ \E ok \in BOOLEAN :
       /\ ok => file[job[k].id] = "final"
       /\ proof' = [of |-> job[k].id, verified |-> job[k].verified, ok |-> ok]
  /\ job' = [job EXCEPT ![k] = Idle]
  /\ UNCHANGED <<file, row, taken>>

\* Killed, or an exception that create does not catch: a verification that
\* raises, a push or a manifest that cannot be written, a locked archive.
Abandon(k) ==
  /\ job[k].at # "idle"
  /\ job' = [job EXCEPT ![k] = Idle]
  /\ UNCHANGED <<file, row, taken, proof>>

Step(k) ==
  \/ Begin(k) \/ SnapshotFails(k) \/ Reject(k) \/ Rename(k) \/ Record(k)
  \/ ListRotation(k) \/ Unlink(k) \/ MarkPruned(k) \/ Rotated(k)
  \/ CheckLatest(k) \/ RestoreCheck(k) \/ Abandon(k)

Next == \E k \in Keepers : Step(k)

Spec == Init /\ [][Next]_vars

-----------------------------------------------------------------------------
(* Properties.                                                             *)

TypeOK ==
  /\ file \in [Snapshots -> Files] /\ row \in [Snapshots -> Rows]
  /\ taken \in 0 .. MaxSnapshots
  /\ job \in [Keepers -> Jobs]
  /\ proof \in [of : 0 .. MaxSnapshots, verified : BOOLEAN, ok : BOOLEAN]

\* The row that latest() hands to a restore has its file, whatever rotations
\* overlapped and whichever of them died between a file and its row: "never
\* dropping the last verified recovery copy" (prune).
LatestRestorable == \A i \in NewestVerified : file[i] = "final"

\* The moments a restore can still bring back: the promise of RecoveryPoint.
Covered == {i \in Snapshots : \E j \in i .. MaxSnapshots : row[j] = "OK" /\ file[j] = "final"}

RP == INSTANCE RecoveryPoint WITH covered <- Covered

\* Backup implements RecoveryPoint: no rotation, concurrent or cut short, gives
\* up a moment that could be restored.
KeepsRecoveryPoint == RP!Spec

\* A restore check that fails for a snapshot that passed its verification is no
\* loss, although the check runs without any hold on the file: if another process
\* rotated it away by then, it did so for a newer one that is restorable.
FailedCheckIsNoLoss == ~proof.ok /\ proof.verified => proof.of \in Covered
=============================================================================
