----------------------------- MODULE BackupProofs ------------------------------
(***************************************************************************)
(* Proofs about Backup, for any number of processes and snapshots and any  *)
(* rotation: what was recorded as verified is only ever dropped for        *)
(* something newer that is verified too.                                   *)
(***************************************************************************)
EXTENDS Backup, WellFoundedInduction, TLAPS

\* A newer verified row stands behind i, and i is covered by the rows alone.
HasNewer(i) == \E j \in Snapshots : j > i /\ row[j] = "OK"
OnRecord(i) == row[i] = "OK" \/ HasNewer(i)

\* Snapshots that were not begun have no row.
Unbegun == \A i \in Snapshots : i > taken => row[i] = "none"

\* A process between its first step and its row is the only one at its snapshot.
Copying(k) == job[k].at \in {"copying", "renamed"}
InHand ==
  /\ \A k \in Keepers : job[k].at # "idle" => job[k].id \in 1 .. taken
  /\ \A k \in Keepers : Copying(k) => row[job[k].id] = "none"
  /\ \A k \in Keepers : job[k].at = "copying" => ~job[k].verified
  /\ \A k \in Keepers : job[k].at = "renamed" => file[job[k].id] = "final"
  /\ \A k, l \in Keepers : Copying(k) /\ Copying(l) /\ k # l => job[k].id # job[l].id

\* A verified row without its file has a newer verified row behind it, and so has
\* a row that some process is about to drop.
Backed == \A i \in Snapshots : row[i] = "OK" /\ file[i] # "final" => HasNewer(i)
ToDrop ==
  /\ \A k \in Keepers : job[k].at = "unlinked" => job[k].todo # {}
  /\ \A k \in Keepers : \A i \in job[k].todo : row[i] # "none" /\ (row[i] = "OK" => HasNewer(i))

\* What passed its verification is on record, or something newer is.
Behind(k) == job[k].at \in {"recorded", "rotating", "unlinked", "checking"}
Remembered ==
  /\ \A k \in Keepers : Behind(k) /\ job[k].verified => OnRecord(job[k].id)
  /\ ~proof.ok /\ proof.verified => proof.of \in Snapshots /\ OnRecord(proof.of)

IInv == TypeOK /\ Unbegun /\ InHand /\ Backed /\ ToDrop /\ Remembered

-----------------------------------------------------------------------------
\* A nonempty set of snapshots has a newest.
LEMMA NewestExists ==
  ASSUME NEW S, S \subseteq Snapshots, S # {}
  PROVE  \E i \in S : \A j \in S : j <= i
<1> DEFINE T == {MaxSnapshots - i : i \in S}
<1>1. \A i \in S : i \in Int /\ MaxSnapshots - i \in Nat
  BY BackupAssumption DEF Snapshots
<1>2. T \subseteq Nat /\ T # {}
  BY <1>1
<1>3. IsWellFoundedOn(OpToRel(<, Nat), Nat)
  BY NatLessThanWellFounded
<1>4. PICK t \in T : \A u \in T : <<u, t>> \notin OpToRel(<, Nat)
  <2> HIDE DEF T
  <2> QED
    BY <1>2, <1>3, WFMin
<1>5. PICK i \in S : t = MaxSnapshots - i
  BY <1>4
<1>6. ASSUME NEW j \in S PROVE j <= i
  <2>1. MaxSnapshots - j \in T
    OBVIOUS
  <2>2. ~(MaxSnapshots - j < MaxSnapshots - i)
    BY <1>2, <1>4, <1>5, <2>1 DEF OpToRel
  <2> QED
    BY <1>1, <2>2, BackupAssumption
<1> QED
  BY <1>6

\* Rotations choose among the rows and leave the newest verified one alone.
LEMMA RotationBacked ==
  ASSUME TypeOK, NEW i \in Rotation
  PROVE  i \in Snapshots /\ row[i] # "none" /\ (row[i] = "OK" => HasNewer(i))
<1>1. i \in Unpruned /\ i \notin NewestVerified
  BY DEF Rotation, Kept
<1>2. i \in Snapshots /\ row[i] \in {"OK", "SKIPPED"}
  BY <1>1 DEF Unpruned
<1>3. ASSUME row[i] = "OK" PROVE HasNewer(i)
  <2>1. PICK j \in Verified : ~(j <= i)
    BY <1>1, <1>2, <1>3 DEF NewestVerified, Verified
  <2> QED
    BY <1>2, <2>1 DEF Verified, HasNewer, Snapshots
<1> QED
  BY <1>2, <1>3

LEMMA NextToDropType ==
  ASSUME TypeOK, NEW k \in Keepers, job[k].todo # {}
  PROVE  NextToDrop(k) \in job[k].todo /\ NextToDrop(k) \in Snapshots
<1>1. job[k].todo \subseteq Snapshots
  BY DEF TypeOK, Jobs
<1>2. \E i \in job[k].todo : \A j \in job[k].todo : j <= i
  BY <1>1, NewestExists
<1> QED
  BY <1>1, <1>2 DEF NextToDrop

-----------------------------------------------------------------------------
(* How the rows change: by a row that is added, or one that is dropped with  *)
(* a newer one behind it.                                                    *)

LEMMA RowsGrow ==
  ASSUME IInv, NEW k \in Keepers, Record(k)
  PROVE  /\ job[k].id \in Snapshots /\ row[job[k].id] = "none"
         /\ \A i \in Snapshots : i # job[k].id => row'[i] = row[i]
         /\ row'[job[k].id] = IF job[k].verified THEN "OK" ELSE "SKIPPED"
         /\ \A i \in Snapshots : HasNewer(i) => HasNewer(i)'
<1> USE BackupAssumption
<1>1. job[k].id \in Snapshots /\ row[job[k].id] = "none"
  BY DEF IInv, InHand, TypeOK, Copying, Record, Snapshots, Jobs
<1>2. \A i \in Snapshots : i # job[k].id => row'[i] = row[i]
  BY <1>1 DEF IInv, TypeOK, Record
<1>3. row'[job[k].id] = IF job[k].verified THEN "OK" ELSE "SKIPPED"
  BY <1>1 DEF IInv, TypeOK, Record
<1>4. ASSUME NEW i \in Snapshots, HasNewer(i) PROVE HasNewer(i)'
  BY <1>1, <1>2, <1>4 DEF HasNewer
<1> QED
  BY <1>1, <1>2, <1>3, <1>4

LEMMA RowsDrop ==
  ASSUME IInv, NEW k \in Keepers, MarkPruned(k)
  PROVE  /\ NextToDrop(k) \in job[k].todo /\ NextToDrop(k) \in Snapshots
         /\ \A i \in Snapshots : i # NextToDrop(k) => row'[i] = row[i]
         /\ row'[NextToDrop(k)] = "pruned"
         /\ \A i \in Snapshots : HasNewer(i) => HasNewer(i)'
         /\ \A i \in Snapshots : OnRecord(i) => OnRecord(i)'
<1> DEFINE d == NextToDrop(k)
<1>1. d \in job[k].todo /\ d \in Snapshots
  BY NextToDropType DEF IInv, ToDrop, MarkPruned
<1>2. row' = [row EXCEPT ![d] = "pruned"] /\ row \in [Snapshots -> Rows]
  BY DEF MarkPruned, IInv, TypeOK
<1>3. row[d] = "OK" => HasNewer(d)
  BY <1>1 DEF IInv, ToDrop
<1> HIDE DEF d
<1>4. ASSUME NEW i \in Snapshots, HasNewer(i) PROVE HasNewer(i)'
  <2>1. PICK j \in Snapshots : j > i /\ row[j] = "OK"
    BY <1>4 DEF HasNewer
  <2>2. CASE j = d
    <3>1. PICK m \in Snapshots : m > d /\ row[m] = "OK"
      BY <1>3, <2>1, <2>2 DEF HasNewer
    <3>2. m > i /\ m # d
      BY <1>1, <2>1, <2>2, <3>1 DEF Snapshots
    <3> QED
      BY <1>2, <3>1, <3>2 DEF HasNewer
  <2>3. CASE j # d
    BY <1>2, <2>1, <2>3 DEF HasNewer
  <2> QED
    BY <2>2, <2>3
<1>5. \A i \in Snapshots : OnRecord(i) => OnRecord(i)'
  BY <1>1, <1>2, <1>3, <1>4 DEF OnRecord
<1>6. \A i \in Snapshots : i # d => row'[i] = row[i]
  BY <1>2
<1>7. row'[d] = "pruned"
  BY <1>1, <1>2
<1> QED
  BY <1>1, <1>4, <1>5, <1>6, <1>7 DEF d

-----------------------------------------------------------------------------
(* Types.                                                                  *)

LEMMA TypeInit == Init => TypeOK
  BY BackupAssumption DEF Init, TypeOK, Files, Rows, Jobs, Steps, Idle, NoProof, Snapshots

\* Every step gives the job of its process a new value.
LEMMA JobStep ==
  ASSUME TypeOK, NEW k \in Keepers, NEW j \in Jobs, job' = [job EXCEPT ![k] = j]
  PROVE  job' \in [Keepers -> Jobs]
  BY DEF TypeOK

LEMMA TypeStep ==
  ASSUME TypeOK, NEW k \in Keepers, Step(k)
  PROVE  TypeOK'
<1> USE BackupAssumption
<1>1. Idle \in Jobs
  BY DEF Idle, Jobs, Steps, Snapshots
<1>2. job[k] \in Jobs /\ job[k].id \in 0 .. MaxSnapshots
  BY DEF TypeOK, Jobs
<1>3. \A s \in Steps : [job[k] EXCEPT !.at = s] \in Jobs
  BY <1>2 DEF Jobs
<1>4. CASE Begin(k)
  <2> DEFINE new == [Idle EXCEPT !.at = "copying", !.id = taken + 1]
  <2>1. taken + 1 \in 0 .. MaxSnapshots /\ taken + 1 \in Int
    BY <1>4 DEF Begin, TypeOK
  <2>2. new \in Jobs
    BY <1>1, <2>1 DEF Jobs, Steps, Idle
  <2>3. job' = [job EXCEPT ![k] = new]
    BY <1>4 DEF Begin
  <2> HIDE DEF new
  <2>4. job' \in [Keepers -> Jobs]
    BY <2>2, <2>3, JobStep
  <2>5. taken' \in 0 .. MaxSnapshots
    BY <1>4, <2>1 DEF Begin
  <2> QED
    BY <1>4, <2>4, <2>5 DEF Begin, TypeOK, Files
<1>5. CASE SnapshotFails(k)
  <2>1. job' \in [Keepers -> Jobs]
    BY <1>1, <1>5, JobStep DEF SnapshotFails
  <2> QED
    BY <1>5, <2>1 DEF SnapshotFails, TypeOK, Files
<1>6. CASE Reject(k)
  <2>1. job' \in [Keepers -> Jobs]
    BY <1>1, <1>3, <1>6, JobStep DEF Reject, Steps, TypeOK
  <2> QED
    BY <1>6, <2>1 DEF Reject, TypeOK, Files
<1>7. CASE Rename(k)
  <2>1. PICK v \in Verifies : job' = [job EXCEPT ![k].at = "renamed", ![k].verified = v]
    BY <1>7 DEF Rename
  <2>2. [job[k] EXCEPT !.at = "renamed", !.verified = v] \in Jobs
    BY <1>2, v \in BOOLEAN DEF Jobs, Steps
  <2>3. job' = [job EXCEPT ![k] = [job[k] EXCEPT !.at = "renamed", !.verified = v]]
    BY <2>1 DEF TypeOK, Jobs
  <2>4. job' \in [Keepers -> Jobs]
    BY <2>2, <2>3, JobStep
  <2> QED
    BY <1>7, <2>4 DEF Rename, TypeOK, Files
<1>8. CASE Record(k)
  <2>1. job' = [job EXCEPT ![k] = [job[k] EXCEPT !.at = "recorded"]]
    BY <1>8 DEF Record, Goto, TypeOK
  <2>2. job' \in [Keepers -> Jobs]
    BY <1>3, <2>1, JobStep DEF Steps
  <2> QED
    BY <1>8, <2>2 DEF Record, TypeOK, Rows
<1>9. CASE ListRotation(k)
  <2>1. Rotation \subseteq Snapshots
    BY DEF Rotation, Unpruned
  <2>2. [job[k] EXCEPT !.at = "rotating", !.todo = Rotation] \in Jobs
    BY <1>2, <2>1 DEF Jobs, Steps
  <2>3. job' = [job EXCEPT ![k] = [job[k] EXCEPT !.at = "rotating", !.todo = Rotation]]
    BY <1>9 DEF ListRotation, TypeOK, Jobs
  <2>4. job' \in [Keepers -> Jobs]
    BY <2>2, <2>3, JobStep
  <2> QED
    BY <1>9, <2>4 DEF ListRotation, TypeOK
<1>10. CASE Unlink(k)
  <2>1. job' = [job EXCEPT ![k] = [job[k] EXCEPT !.at = "unlinked"]]
    BY <1>10 DEF Unlink, Goto, TypeOK
  <2>2. job' \in [Keepers -> Jobs]
    BY <1>3, <2>1, JobStep DEF Steps
  <2> QED
    BY <1>10, <2>2 DEF Unlink, TypeOK, Files
<1>11. CASE MarkPruned(k)
  <2> DEFINE left == job[k].todo \ {NextToDrop(k)}
  <2>1. left \subseteq Snapshots
    BY <1>2 DEF Jobs
  <2>2. job' = [job EXCEPT ![k] = [job[k] EXCEPT !.at = "rotating", !.todo = left]]
    BY <1>11 DEF MarkPruned, TypeOK, Jobs
  <2> HIDE DEF left
  <2>3. [job[k] EXCEPT !.at = "rotating", !.todo = left] \in Jobs
    BY <1>2, <2>1 DEF Jobs, Steps
  <2>4. job' \in [Keepers -> Jobs]
    BY <2>2, <2>3, JobStep
  <2> QED
    BY <1>11, <2>4 DEF MarkPruned, TypeOK, Rows
<1>12. CASE Rotated(k)
  <2>1. job' \in [Keepers -> Jobs]
    BY <1>1, <1>3, <1>12, JobStep DEF Rotated, Steps, TypeOK
  <2> QED
    BY <1>12, <2>1 DEF Rotated, TypeOK
<1>13. CASE RestoreCheck(k)
  <2>1. job' \in [Keepers -> Jobs]
    BY <1>1, <1>13, JobStep DEF RestoreCheck
  <2>2. job[k].verified \in BOOLEAN
    BY <1>2 DEF Jobs
  <2> QED
    BY <1>2, <1>13, <2>1, <2>2 DEF RestoreCheck, TypeOK
<1>14. CASE Abandon(k)
  <2>1. job' \in [Keepers -> Jobs]
    BY <1>1, <1>14, JobStep DEF Abandon
  <2> QED
    BY <1>14, <2>1 DEF Abandon, TypeOK
<1>15. CASE CheckLatest(k)
  <2>1. PICK i \in NewestVerified :
          job' = [job EXCEPT ![k] = [Idle EXCEPT !.at = "checking", !.id = i, !.verified = TRUE]]
    BY <1>15 DEF CheckLatest
  <2> DEFINE new == [Idle EXCEPT !.at = "checking", !.id = i, !.verified = TRUE]
  <2>2. i \in 0 .. MaxSnapshots
    BY DEF NewestVerified, Verified, Snapshots
  <2>3. new \in Jobs
    BY <1>1, <2>2 DEF Jobs, Steps, Idle
  <2>4. job' = [job EXCEPT ![k] = new]
    BY <2>1
  <2> HIDE DEF new
  <2>5. job' \in [Keepers -> Jobs]
    BY <2>3, <2>4, JobStep
  <2> QED
    BY <1>15, <2>5 DEF CheckLatest, TypeOK
<1> QED
  BY <1>4, <1>5, <1>6, <1>7, <1>8, <1>9, <1>10, <1>11, <1>12, <1>13, <1>14, <1>15 DEF Step

-----------------------------------------------------------------------------
(* The inductive step, one lemma for each conjunct of the invariant.       *)

LEMMA Others ==
  ASSUME TypeOK, NEW k \in Keepers, Step(k), NEW l \in Keepers, l # k
  PROVE  job'[l] = job[l]
  BY DEF TypeOK, Step, Goto, Begin, SnapshotFails, Reject, Rename, Record, ListRotation,
         Unlink, MarkPruned, Rotated, CheckLatest, RestoreCheck, Abandon

\* The steps that leave the rows alone.
Quiet(k) == Step(k) /\ ~Record(k) /\ ~MarkPruned(k)

LEMMA QuietRows ==
  ASSUME NEW k \in Keepers, Quiet(k)
  PROVE  row' = row
  BY DEF Quiet, Step, Begin, SnapshotFails, Reject, Rename, ListRotation, Unlink, Rotated,
         CheckLatest, RestoreCheck, Abandon

LEMMA UnbegunStep ==
  ASSUME IInv, NEW k \in Keepers, Step(k)
  PROVE  Unbegun'
<1> USE BackupAssumption DEF IInv, Unbegun
<1>1. taken \in Nat /\ taken' \in {taken, taken + 1}
  <2>1. taken \in Nat
    BY DEF TypeOK
  <2>2. CASE Begin(k)
    BY <2>1, <2>2 DEF Begin
  <2>3. CASE ~Begin(k)
    <3>1. taken' = taken
      BY <2>3, Zenon DEF Step, SnapshotFails, Reject, Rename, Record, ListRotation, Unlink,
         MarkPruned, Rotated, CheckLatest, RestoreCheck, Abandon
    <3> QED
      BY <2>1, <3>1
  <2> QED
    BY <2>2, <2>3
<1>2. CASE Record(k)
  <2>1. job[k].id \in 1 .. taken
    BY <1>2 DEF InHand, Record
  <2> QED
    BY <1>1, <1>2, <2>1, RowsGrow DEF Snapshots
<1>3. CASE MarkPruned(k)
  <2>1. row[NextToDrop(k)] # "none"
    BY <1>3, RowsDrop DEF ToDrop
  <2> QED
    BY <1>1, <1>3, <2>1, RowsDrop DEF Snapshots
<1>4. CASE Quiet(k)
  BY <1>1, <1>4, QuietRows DEF Snapshots
<1> QED
  BY <1>2, <1>3, <1>4 DEF Quiet

LEMMA BackedStep ==
  ASSUME IInv, NEW k \in Keepers, Step(k)
  PROVE  Backed'
<1> USE DEF IInv, Backed
<1>1. CASE Record(k)
  <2>1. file[job[k].id] = "final" /\ file' = file
    BY <1>1 DEF Record, InHand
  <2> QED
    BY <1>1, <2>1, RowsGrow
<1>2. CASE MarkPruned(k)
  <2>1. file' = file
    BY <1>2 DEF MarkPruned
  <2> QED
    BY <1>2, <2>1, RowsDrop
<1>3. CASE Unlink(k)
  <2>1. /\ NextToDrop(k) \in job[k].todo
        /\ row' = row /\ file' = [file EXCEPT ![NextToDrop(k)] = "none"]
    BY <1>3, NextToDropType DEF Unlink
  <2>2. row[NextToDrop(k)] = "OK" => HasNewer(NextToDrop(k))
    BY <2>1 DEF ToDrop
  <2> QED
    BY <2>1, <2>2 DEF HasNewer, TypeOK
<1>4. CASE Begin(k) \/ SnapshotFails(k) \/ Reject(k) \/ Rename(k)
  <2>1. PICK i : /\ row[i] # "OK" \/ file'[i] = "final"
                 /\ \A j \in Snapshots : j # i => file'[j] = file[j]
    <3>1. CASE Begin(k)
      <4>1. taken + 1 \in Snapshots /\ row[taken + 1] = "none"
        BY <3>1, BackupAssumption DEF Begin, TypeOK, Unbegun, Snapshots
      <4> QED
        BY <3>1, <4>1 DEF Begin, TypeOK
    <3>2. CASE ~Begin(k)
      <4>1. job[k].at = "copying"
        BY <1>4, <3>2 DEF SnapshotFails, Reject, Rename
      <4>2. row[job[k].id] = "none"
        BY <4>1 DEF InHand, Copying
      <4> QED
        BY <1>4, <3>2, <4>2 DEF SnapshotFails, Reject, Rename, TypeOK
    <3> QED
      BY <3>1, <3>2
  <2>2. row' = row
    BY <1>4 DEF Begin, SnapshotFails, Reject, Rename
  <2> QED
    BY <2>1, <2>2 DEF HasNewer
<1>5. CASE ListRotation(k) \/ Rotated(k) \/ CheckLatest(k) \/ RestoreCheck(k) \/ Abandon(k)
  BY <1>5 DEF ListRotation, Rotated, CheckLatest, RestoreCheck, Abandon, HasNewer
<1> QED
  BY <1>1, <1>2, <1>3, <1>4, <1>5 DEF Step

\* What a step makes of the job of its process, field by field.
At(k, step) == job'[k].at = step
Rested(k)   == job'[k].at = "idle" /\ job'[k].todo = {}
SameCopy(k) == job'[k].id = job[k].id /\ job'[k].verified = job[k].verified
SameTodo(k) == job'[k].todo = job[k].todo

LEMMA OwnJob ==
  ASSUME TypeOK, NEW k \in Keepers, Step(k)
  PROVE  /\ Begin(k) => At(k, "copying") /\ job'[k].id = taken + 1 /\ job'[k].verified = FALSE
                        /\ job'[k].todo = {}
         /\ CheckLatest(k) => /\ At(k, "checking") /\ job'[k].todo = {}
                              /\ job'[k].id \in NewestVerified
         /\ SnapshotFails(k) \/ RestoreCheck(k) \/ Abandon(k) => Rested(k)
         /\ Reject(k) \/ Rotated(k) =>
              Rested(k) \/ (At(k, "checking") /\ SameCopy(k) /\ SameTodo(k))
         /\ Rename(k) => At(k, "renamed") /\ job'[k].id = job[k].id /\ SameTodo(k)
         /\ Record(k) => At(k, "recorded") /\ SameCopy(k) /\ SameTodo(k)
         /\ ListRotation(k) => At(k, "rotating") /\ SameCopy(k) /\ job'[k].todo = Rotation
         /\ Unlink(k) => At(k, "unlinked") /\ SameCopy(k) /\ SameTodo(k)
         /\ MarkPruned(k) => /\ At(k, "rotating") /\ SameCopy(k)
                             /\ job'[k].todo = job[k].todo \ {NextToDrop(k)}
<1> USE DEF TypeOK, At, Rested, SameCopy, SameTodo
<1>1. job \in [Keepers -> Jobs] /\ job[k] \in Jobs
  OBVIOUS
<1>2. ASSUME Begin(k)
      PROVE  At(k, "copying") /\ job'[k].id = taken + 1 /\ job'[k].verified = FALSE
             /\ job'[k].todo = {}
  BY <1>1, <1>2 DEF Begin, Idle
<1>3. ASSUME SnapshotFails(k) \/ RestoreCheck(k) \/ Abandon(k) PROVE Rested(k)
  BY <1>1, <1>3 DEF SnapshotFails, RestoreCheck, Abandon, Idle
<1>4. ASSUME Reject(k) \/ Rotated(k)
      PROVE  Rested(k) \/ (At(k, "checking") /\ SameCopy(k) /\ SameTodo(k))
  <2>1. job'[k] = Idle \/ job'[k] = [job[k] EXCEPT !.at = "checking"]
    BY <1>1, <1>4 DEF Reject, Rotated
  <2> QED
    BY <1>1, <2>1 DEF Idle, Jobs
<1>5. ASSUME Rename(k) PROVE At(k, "renamed") /\ job'[k].id = job[k].id /\ SameTodo(k)
  BY <1>1, <1>5 DEF Rename, Jobs
<1>6. ASSUME Record(k) PROVE At(k, "recorded") /\ SameCopy(k) /\ SameTodo(k)
  BY <1>1, <1>6 DEF Record, Goto, Jobs
<1>7. ASSUME ListRotation(k)
      PROVE  At(k, "rotating") /\ SameCopy(k) /\ job'[k].todo = Rotation
  BY <1>1, <1>7 DEF ListRotation, Jobs
<1>8. ASSUME Unlink(k) PROVE At(k, "unlinked") /\ SameCopy(k) /\ SameTodo(k)
  BY <1>1, <1>8 DEF Unlink, Goto, Jobs
<1>9. ASSUME MarkPruned(k)
      PROVE  At(k, "rotating") /\ SameCopy(k) /\ job'[k].todo = job[k].todo \ {NextToDrop(k)}
  BY <1>1, <1>9 DEF MarkPruned, Jobs
<1>10. ASSUME CheckLatest(k)
       PROVE  At(k, "checking") /\ job'[k].todo = {} /\ job'[k].id \in NewestVerified
  BY <1>1, <1>10 DEF CheckLatest, Idle
<1> QED
  BY <1>2, <1>3, <1>4, <1>5, <1>6, <1>7, <1>8, <1>9, <1>10

LEMMA RememberedStep ==
  ASSUME IInv, NEW k \in Keepers, Step(k)
  PROVE  Remembered'
<1>1. \A i \in Snapshots : OnRecord(i) => OnRecord(i)'
  <2>1. CASE Record(k)
    BY <2>1, RowsGrow DEF OnRecord
  <2>2. CASE MarkPruned(k)
    BY <2>2, RowsDrop
  <2>3. CASE Quiet(k)
    BY <2>3, QuietRows DEF OnRecord, HasNewer
  <2> QED
    BY <2>1, <2>2, <2>3 DEF Quiet
<1>2. \A l \in Keepers : job[l].at # "idle" => job[l].id \in Snapshots
  BY BackupAssumption DEF IInv, InHand, TypeOK, Snapshots
<1>3. ASSUME NEW l \in Keepers, l # k, Behind(l)', job'[l].verified
      PROVE  \E i \in Snapshots : i = job'[l].id /\ OnRecord(i)
  BY <1>2, <1>3, Others DEF IInv, Remembered, Behind
<1>4. ASSUME Behind(k)', job'[k].verified, ~Record(k)
      PROVE  \E i \in Snapshots : i = job'[k].id /\ OnRecord(i)
  <2> USE DEF IInv
  <2>1. CASE Begin(k) \/ SnapshotFails(k) \/ RestoreCheck(k) \/ Abandon(k) \/ Rename(k)
    BY <1>4, <2>1, OwnJob DEF Behind, At, Rested
  <2>2. CASE Reject(k)
    <3>1. ~job[k].verified
      BY <2>2 DEF Reject, InHand
    <3> QED
      BY <1>4, <2>2, <3>1, OwnJob DEF Behind, Rested, SameCopy
  <2>3. CASE ListRotation(k) \/ Unlink(k) \/ MarkPruned(k) \/ Rotated(k)
    <3>1. Behind(k)
      BY <2>3 DEF ListRotation, Unlink, MarkPruned, Rotated, Behind
    <3>2. job'[k].id = job[k].id /\ job[k].verified
      BY <1>4, <2>3, OwnJob DEF Behind, Rested, SameCopy
    <3> QED
      BY <1>2, <3>1, <3>2 DEF Remembered, Behind
  <2>4. CASE CheckLatest(k)
    BY <2>4, OwnJob DEF NewestVerified, Verified, OnRecord
  <2> QED
    BY <1>4, <2>1, <2>2, <2>3, <2>4 DEF Step
<1>5. ASSUME Behind(k)', job'[k].verified, Record(k)
      PROVE  \E i \in Snapshots : i = job'[k].id /\ row'[i] = "OK"
  BY <1>5, OwnJob, RowsGrow DEF IInv, SameCopy
<1>6. ASSUME NEW l \in Keepers, Behind(l)', job'[l].verified
      PROVE  OnRecord(job[l].id)'
  <2>1. PICK i \in Snapshots : i = job'[l].id /\ (OnRecord(i) \/ row'[i] = "OK")
    BY <1>3, <1>4, <1>5, <1>6
  <2>2. OnRecord(i)'
    BY <1>1, <2>1 DEF OnRecord
  <2> QED
    BY <2>1, <2>2 DEF OnRecord, HasNewer
<1>7. (~proof.ok /\ proof.verified => proof.of \in Snapshots /\ OnRecord(proof.of))'
  <2>1. CASE RestoreCheck(k)
    <3>1. proof'.verified = job[k].verified /\ proof'.of = job[k].id
      BY <2>1 DEF RestoreCheck
    <3>2. Behind(k) /\ job[k].id \in Snapshots
      BY <1>2, <2>1 DEF RestoreCheck, Behind
    <3> QED
      BY <1>1, <3>1, <3>2 DEF IInv, Remembered
  <2>2. CASE ~RestoreCheck(k)
    <3>1. proof' = proof
      BY <2>2 DEF Step, Begin, SnapshotFails, Reject, Rename, Record, ListRotation, Unlink,
         MarkPruned, Rotated, CheckLatest, Abandon
    <3> QED
      BY <1>1, <3>1 DEF IInv, Remembered
  <2> QED
    BY <2>1, <2>2
<1> QED
  BY <1>7, <1>6 DEF Remembered

LEMMA ToDropStep ==
  ASSUME IInv, NEW k \in Keepers, Step(k)
  PROVE  ToDrop'
<1> USE DEF IInv
<1>1. \A l \in Keepers : job[l].todo \subseteq Snapshots
  BY DEF TypeOK, Jobs
<1>2. ASSUME NEW i \in Snapshots, row[i] # "none", row[i] = "OK" => HasNewer(i)
      PROVE  row'[i] # "none" /\ (row'[i] = "OK" => HasNewer(i)')
  <2>1. CASE Record(k)
    BY <1>2, <2>1, RowsGrow
  <2>2. CASE MarkPruned(k)
    BY <1>2, <2>2, RowsDrop
  <2>3. CASE Quiet(k)
    BY <1>2, <2>3, QuietRows DEF HasNewer
  <2> QED
    BY <2>1, <2>2, <2>3 DEF Quiet
<1>3. job'[k].todo \subseteq job[k].todo \/ (ListRotation(k) /\ job'[k].todo = Rotation)
  BY OwnJob DEF Step, Rested, SameTodo
<1>4. ASSUME NEW l \in Keepers, NEW i \in job'[l].todo
      PROVE  row'[i] # "none" /\ (row'[i] = "OK" => HasNewer(i)')
  <2>1. i \in Snapshots /\ row[i] # "none" /\ (row[i] = "OK" => HasNewer(i))
    <3>1. CASE i \in job[l].todo
      BY <1>1, <3>1 DEF ToDrop
    <3>2. CASE i \notin job[l].todo
      <4>1. i \in Rotation
        BY <1>3, <1>4, <3>2, Others
      <4> QED
        BY <4>1, RotationBacked
    <3> QED
      BY <3>1, <3>2
  <2> QED
    BY <1>2, <2>1
<1>5. ASSUME NEW l \in Keepers, job'[l].at = "unlinked"
      PROVE  job'[l].todo # {}
  <2>1. CASE l # k
    BY <1>5, <2>1, Others DEF ToDrop
  <2>2. CASE l = k
    <3>1. Unlink(k)
      BY <1>5, <2>2, OwnJob DEF Step, At, Rested
    <3>2. job'[k].todo = job[k].todo
      BY <3>1, OwnJob DEF SameTodo
    <3> QED
      BY <2>2, <3>1, <3>2 DEF Unlink
  <2> QED
    BY <2>1, <2>2
<1> QED
  BY <1>4, <1>5 DEF ToDrop

LEMMA InHandStep ==
  ASSUME IInv, NEW k \in Keepers, Step(k)
  PROVE  InHand'
<1> USE DEF IInv
<1>1. taken \in Nat /\ job[k].id \in Int
  BY BackupAssumption DEF TypeOK, Jobs
\* The snapshot this process has in hand afterwards.
<1>2. Copying(k)' => /\ \/ Begin(k) /\ job'[k].id = taken + 1 /\ taken' = taken + 1
                        \/ Rename(k) /\ Copying(k) /\ job'[k].id = job[k].id
                     /\ job'[k].at = "copying" => ~job'[k].verified
                     /\ row' = row
  BY OwnJob DEF Step, At, Rested, Copying, Begin, Rename
<1>3. taken' = taken \/ (Begin(k) /\ taken' = taken + 1)
  BY Zenon DEF Step, Begin, SnapshotFails, Reject, Rename, Record, ListRotation, Unlink,
     MarkPruned, Rotated, CheckLatest, RestoreCheck, Abandon
\* The one snapshot whose file or row this step may touch.
<1>4. ASSUME NEW l \in Keepers, l # k, Copying(l)
      PROVE  /\ row'[job[l].id] = "none" /\ job'[l] = job[l]
             /\ job[l].at = "renamed" => file'[job[l].id] = "final"
  <2>1. /\ job'[l] = job[l] /\ row[job[l].id] = "none"
        /\ job[l].id \in Snapshots /\ job[l].id \in 1 .. taken
    BY <1>4, Others, BackupAssumption DEF InHand, Copying, TypeOK, Snapshots
  <2>2. job[l].at = "renamed" => file[job[l].id] = "final"
    BY DEF InHand
  <2>3. CASE Begin(k)
    BY <1>1, <2>1, <2>2, <2>3 DEF Begin, TypeOK
  <2>4. CASE SnapshotFails(k) \/ Reject(k) \/ Rename(k)
    <3>1. job[k].id # job[l].id
      BY <1>4, <2>4 DEF InHand, Copying, SnapshotFails, Reject, Rename
    <3> QED
      BY <2>1, <2>2, <2>4, <3>1 DEF SnapshotFails, Reject, Rename, TypeOK
  <2>5. CASE Record(k)
    <3>1. job[k].id # job[l].id /\ file' = file
      BY <1>4, <2>5 DEF InHand, Copying, Record
    <3> QED
      BY <2>1, <2>2, <2>5, <3>1, RowsGrow
  <2>6. CASE Unlink(k)
    <3>1. NextToDrop(k) # job[l].id
      BY <2>1, <2>6, NextToDropType DEF Unlink, ToDrop
    <3> QED
      BY <2>1, <2>2, <2>6, <3>1 DEF Unlink, TypeOK
  <2>7. CASE MarkPruned(k)
    <3>1. NextToDrop(k) # job[l].id /\ file' = file
      BY <2>1, <2>7, RowsDrop DEF MarkPruned, ToDrop
    <3> QED
      BY <2>1, <2>2, <2>7, <3>1, RowsDrop
  <2>8. CASE ListRotation(k) \/ Rotated(k) \/ CheckLatest(k) \/ RestoreCheck(k) \/ Abandon(k)
    BY <2>1, <2>2, <2>8 DEF ListRotation, Rotated, CheckLatest, RestoreCheck, Abandon
  <2> QED
    BY <2>3, <2>4, <2>5, <2>6, <2>7, <2>8 DEF Step
<1>5. ASSUME NEW l \in Keepers, job'[l].at # "idle" PROVE job'[l].id \in 1 .. taken'
  <2>1. CASE l # k
    BY <1>1, <1>3, <1>5, <2>1, Others DEF InHand
  <2>2. CASE l = k
    <3>1. CASE Begin(k)
      <4>1. job'[k].id = taken + 1 /\ taken' = taken + 1
        BY <3>1, OwnJob DEF Begin
      <4> QED
        BY <1>1, <2>2, <4>1
    <3>2. CASE CheckLatest(k)
      <4>1. job'[k].id \in Snapshots /\ row[job'[k].id] = "OK"
        BY <3>2, OwnJob DEF NewestVerified, Verified
      <4>2. taken' = taken
        BY <3>2 DEF CheckLatest
      <4> QED
        BY <1>1, <2>2, <4>1, <4>2 DEF Unbegun, Snapshots
    <3>3. CASE ~Begin(k) /\ ~CheckLatest(k)
      <4>1. job'[k].id = job[k].id /\ job[k].at # "idle" /\ taken' = taken
        BY <1>3, <1>5, <2>2, <3>3, OwnJob DEF Step, Rested, SameCopy, SnapshotFails, Reject,
           Rename, Record, ListRotation, Unlink, MarkPruned, Rotated, CheckLatest, RestoreCheck, Abandon
      <4> QED
        BY <2>2, <4>1 DEF InHand
    <3> QED
      BY <3>1, <3>3, <3>2
  <2> QED
    BY <2>1, <2>2
<1>6. ASSUME NEW l \in Keepers, Copying(l)'
      PROVE  /\ row'[job'[l].id] = "none"
             /\ job'[l].at = "copying" => ~job'[l].verified
             /\ job'[l].at = "renamed" => file'[job'[l].id] = "final"
  <2>1. CASE l # k
    <3>1. job'[l] = job[l] /\ Copying(l)
      BY <1>6, <2>1, Others DEF Copying
    <3> QED
      BY <1>4, <2>1, <3>1 DEF InHand
  <2>2. CASE l = k
    <3>1. CASE Begin(k)
      <4>1. taken + 1 \in Snapshots /\ row[taken + 1] = "none"
        BY <1>1, <3>1, BackupAssumption DEF Begin, Unbegun, Snapshots, TypeOK
      <4> QED
        <5>1. job'[k].at = "copying" /\ job'[k].id = taken + 1 /\ row' = row
          BY <3>1, OwnJob DEF Begin, At
        <5> QED
          BY <1>2, <1>6, <2>2, <4>1, <5>1
    <3>2. CASE Rename(k)
      <4>1. job[k].id \in Snapshots /\ row[job[k].id] = "none"
        BY <1>1, <3>2, BackupAssumption DEF Rename, InHand, Copying, TypeOK, Snapshots
      <4>2. job'[k].id = job[k].id /\ job'[k].at = "renamed"
        BY <3>2, OwnJob DEF At
      <4> QED
        BY <1>2, <1>6, <2>2, <3>2, <4>1, <4>2 DEF Rename, TypeOK
    <3> QED
      BY <1>2, <1>6, <2>2, <3>1, <3>2
  <2> QED
    BY <2>1, <2>2
<1>7. ASSUME NEW l \in Keepers, NEW m \in Keepers, l # m, Copying(l)', Copying(m)'
      PROVE  job'[l].id # job'[m].id
  <2>1. \A n \in Keepers : n # k /\ Copying(n)' =>
          job'[n].id = job[n].id /\ Copying(n) /\ job[n].id \in 1 .. taken
    BY Others DEF InHand, Copying
  <2>2. Copying(k)' => \/ job'[k].id = taken + 1
                       \/ Copying(k) /\ job'[k].id = job[k].id
    BY <1>2
  <2>3. \A n \in Keepers : n # k /\ Copying(n)' /\ Copying(k)' => job'[n].id # job'[k].id
    BY <1>1, <2>1, <2>2 DEF InHand
  <2> QED
    BY <1>7, <2>1, <2>3 DEF InHand
<1> QED
  BY <1>5, <1>6, <1>7 DEF InHand, Copying

-----------------------------------------------------------------------------
(* The theorems.                                                           *)

LEMMA Inductive == Spec => []IInv
<1> USE BackupAssumption
<1>1. Init => IInv
  <2> SUFFICES ASSUME Init PROVE IInv
    OBVIOUS
  <2>1. TypeOK
    BY TypeInit
  <2>2. \A k \in Keepers : job[k].at = "idle" /\ job[k].todo = {}
    BY DEF Init, Idle
  <2>3. \A i \in Snapshots : row[i] = "none"
    BY DEF Init
  <2>4. ~proof.verified
    BY DEF Init, NoProof
  <2> QED
    BY <2>1, <2>2, <2>3, <2>4
       DEF IInv, Unbegun, InHand, Copying, Backed, ToDrop, Remembered, Behind
<1>2. IInv /\ [Next]_vars => IInv'
  <2> SUFFICES ASSUME IInv, [Next]_vars PROVE IInv'
    OBVIOUS
  <2>1. ASSUME NEW k \in Keepers, Step(k) PROVE IInv'
    BY <2>1, TypeStep, UnbegunStep, InHandStep, BackedStep, ToDropStep, RememberedStep DEF IInv
  <2>2. CASE UNCHANGED vars
    BY <2>2 DEF vars, IInv, TypeOK, Unbegun, InHand, Copying, Backed, ToDrop, Remembered,
       Behind, OnRecord, HasNewer
  <2> QED
    BY <2>1, <2>2 DEF Next
<1> QED
  BY <1>1, <1>2, PTL DEF Spec

\* Backup keeps its types.
THEOREM TypeCorrect == Spec => []TypeOK
<1>1. IInv => TypeOK
  BY DEF IInv
<1> QED
  BY <1>1, Inductive, PTL

\* The row that a restore is handed has its file, whatever rotations overlapped
\* and wherever they were cut short (BackupManager.prune, latest).
THEOREM LatestStands == Spec => []LatestRestorable
<1>1. IInv => LatestRestorable
  <2> SUFFICES ASSUME IInv, NEW i \in NewestVerified PROVE file[i] = "final"
    BY DEF LatestRestorable
  <2>1. i \in Snapshots /\ row[i] = "OK" /\ \A j \in Snapshots : row[j] = "OK" => j <= i
    BY DEF NewestVerified, Verified
  <2>2. ~HasNewer(i)
    BY <2>1 DEF HasNewer, Snapshots
  <2> QED
    BY <2>1, <2>2 DEF IInv, Backed
<1> QED
  BY <1>1, Inductive, PTL

\* What can be restored is told by the rows alone.
LEMMA CoveredOnRecord ==
  ASSUME IInv
  PROVE  Covered = {i \in Snapshots : OnRecord(i)}
<1> USE BackupAssumption DEF Snapshots
<1>1. ASSUME NEW i \in Covered PROVE i \in Snapshots /\ OnRecord(i)
  BY <1>1 DEF Covered, OnRecord, HasNewer
<1>2. ASSUME NEW i \in Snapshots, OnRecord(i) PROVE i \in Covered
  <2> DEFINE S == {j \in Snapshots : j >= i /\ row[j] = "OK"}
  <2>1. S \subseteq Snapshots /\ S # {}
    BY <1>2 DEF OnRecord, HasNewer
  <2>2. PICK m \in S : \A j \in S : j <= m
    <3> HIDE DEF S
    <3> QED
      BY <2>1, NewestExists
  <2>3. ~HasNewer(m)
    BY <2>2 DEF HasNewer
  <2>4. row[m] = "OK" /\ file[m] = "final" /\ m \in i .. MaxSnapshots
    BY <2>2, <2>3 DEF IInv, Backed
  <2> QED
    BY <2>4 DEF Covered
<1> QED
  BY <1>1, <1>2 DEF Covered

\* A restore check that fails for a verified snapshot is no loss: something as new
\* can be restored (BackupManager.restore_check beside another process's prune).
THEOREM FailedChecksHarmless == Spec => []FailedCheckIsNoLoss
<1>1. IInv => FailedCheckIsNoLoss
  BY CoveredOnRecord DEF IInv, Remembered, FailedCheckIsNoLoss
<1> QED
  BY <1>1, Inductive, PTL

\* No step of any process gives up a moment that could be restored: Backup
\* implements RecoveryPoint (create and prune).
THEOREM RecoveryKept == Spec => KeepsRecoveryPoint
<1> USE BackupAssumption
<1>1. Init => RP!Init
  BY DEF Init, RP!Init, Covered
<1>2. IInv => Covered = {i \in Snapshots : OnRecord(i)}
  BY CoveredOnRecord
<1>3. IInv' => Covered' = {i \in Snapshots : OnRecord(i)'}
  <2>1. (IInv => Covered = {i \in Snapshots : OnRecord(i)})'
    BY <1>2, PTL
  <2> QED
    BY <2>1
<1>4. IInv /\ IInv' /\ [Next]_vars => [RP!Next]_Covered
  <2> SUFFICES ASSUME IInv, IInv', [Next]_vars PROVE RP!Next \/ Covered' = Covered
    OBVIOUS
  <2>1. Covered = {i \in Snapshots : OnRecord(i)}
    BY <1>2
  <2>2. Covered' = {i \in Snapshots : OnRecord(i)'}
    BY <1>3
  <2>3. ASSUME NEW k \in Keepers, Record(k) PROVE RP!Next \/ Covered' = Covered
    <3> DEFINE new == job[k].id
    <3>1. CASE ~job[k].verified
      <4>1. \A i \in Snapshots : OnRecord(i)' <=> OnRecord(i)
        BY <2>3, <3>1, RowsGrow DEF OnRecord, HasNewer
      <4> QED
        BY <2>1, <2>2, <4>1
    <3>2. CASE job[k].verified
      <4>1. new \in Snapshots /\ row'[new] = "OK"
        BY <2>3, <3>2, RowsGrow
      <4>2. \A i \in Snapshots : OnRecord(i)' <=> OnRecord(i) \/ i <= new
        BY <2>3, <4>1, RowsGrow DEF OnRecord, HasNewer, Snapshots
      <4>3. Covered' = Covered \cup 1 .. new
        BY <2>1, <2>2, <4>1, <4>2 DEF Snapshots
      <4> QED
        BY <4>1, <4>3 DEF RP!Next, RP!Keep, RP!Snapshots, Snapshots
    <3> QED
      BY <3>1, <3>2
  <2>4. ASSUME NEW k \in Keepers, MarkPruned(k) PROVE Covered' = Covered
    <3>1. \A i \in Snapshots : OnRecord(i)' <=> OnRecord(i)
      BY <2>4, RowsDrop DEF OnRecord, HasNewer
    <3> QED
      BY <2>1, <2>2, <3>1
  <2>5. ASSUME row' = row PROVE Covered' = Covered
    BY <2>1, <2>2, <2>5 DEF OnRecord, HasNewer
  <2> QED
    BY <2>3, <2>4, <2>5, QuietRows DEF Next, Quiet, vars
<1> QED
  BY <1>1, <1>4, Inductive, PTL DEF Spec, KeepsRecoveryPoint, RP!Spec
=============================================================================
