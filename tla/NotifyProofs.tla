---------------------------- MODULE NotifyProofs -----------------------------
(***************************************************************************)
(* Proofs about Notify, for any runs, any number of processes that work on *)
(* the rows together, and any of them dying.                               *)
(***************************************************************************)
EXTENDS Notify, TLAPS

Labels == {"idle", "collecting", "seed", "seed_write", "unreported", "next_unreported",
           "queue", "queue_write", "list", "next_owed", "deliver", "send", "record"}
Placed == pc \in [Procs -> Labels]

\* A process that has taken up a run still has it, and one that collects has its own.
Handling == \A p \in Procs :
  /\ task[p] = "collect" => own[p] \in Runs
  /\ pc[p] \in {"queue", "queue_write", "deliver", "send", "record"} => cur[p] \in Runs

\* What was found to precede reporting does.
SeedsOld == \A p \in Procs : pc[p] = "seed_write" => work[p] \subseteq old

\* The attempt that is being made was one there was room for.
RoomForOne == \A p \in Procs :
  pc[p] \in {"send", "record"} => snap[p].attempts < MaxAttempts

\* What the provider answered is what it did.
Answered == \A p \in Procs : pc[p] = "record" =>
  /\ reply[p] = "accepted"  => cur[p] \in delivered
  /\ reply[p] = "permanent" => cur[p] \in refused

IInv == TypeOK /\ Placed /\ Handling /\ SeedsOld /\ RoomForOne /\ Answered
          /\ SettledForAReason /\ OwedHasAttemptsLeft

Answers == {"none", "accepted", "transient", "permanent"}

-----------------------------------------------------------------------------
(* Processes.                                                                *)

LEMMA Rows == NoRow \in Row /\ 0 < MaxAttempts /\ MaxAttempts \in Nat
BY BoundsAssumption DEF NoRow, Row, States

\* A step of one process leaves the others where they are, and what happened, happened.
LEMMA OthersStay ==
  ASSUME IInv, NEW p \in Procs, Tick(p) \/ StartCollection(p) \/ Ask(p) \/ Progress(p) \/ Crash(p)
  PROVE  /\ \A q \in Procs : q # p =>
              /\ pc'[q] = pc[q] /\ task'[q] = task[q] /\ own'[q] = own[q] /\ cur'[q] = cur[q]
              /\ snap'[q] = snap[q] /\ work'[q] = work[q] /\ reply'[q] = reply[q]
         /\ UNCHANGED old
         /\ delivered \subseteq delivered' /\ refused \subseteq refused'
<1> USE DEF Goto, Become, procs, archive, outside, bounds, IInv, TypeOK, Placed
<1>1. ASSUME Exit(p)
      PROVE  \A q \in Procs : q # p =>
               /\ pc'[q] = pc[q] /\ task'[q] = task[q] /\ own'[q] = own[q] /\ cur'[q] = cur[q]
               /\ snap'[q] = snap[q] /\ work'[q] = work[q] /\ reply'[q] = reply[q]
  BY <1>1 DEF Exit
<1>2. CASE Tick(p) \/ StartCollection(p) \/ Ask(p) \/ FinishRun(p)
  BY <1>2 DEF Tick, StartCollection, Ask, FinishRun
<1>3. CASE SeedRead(p) \/ SeedWrite(p) \/ ListUnreported(p) \/ NextUnreported(p)
  BY <1>3 DEF SeedRead, SeedWrite, Seeded, ListUnreported, NextUnreported
<1>4. CASE QueueRead(p) \/ QueueWrite(p) \/ ListOwed(p) \/ Send(p)
  BY <1>4 DEF QueueRead, QueueWrite, ListOwed, Send
<1>5. CASE Collide(p) \/ Crash(p)
  BY <1>1, <1>5 DEF Collide, Crash
<1>6. CASE NextOwed(p)
  BY <1>1, <1>6 DEF NextOwed
<1>7. CASE DeliverRead(p) \/ Record(p)
  <2>1. ASSUME Leave(p), ~Exit(p)
        PROVE  \A q \in Procs : q # p =>
               /\ pc'[q] = pc[q] /\ task'[q] = task[q] /\ own'[q] = own[q] /\ cur'[q] = cur[q]
               /\ snap'[q] = snap[q] /\ work'[q] = work[q] /\ reply'[q] = reply[q]
    BY <2>1 DEF Leave
  <2>2. CASE Leave(p)
    BY <1>1, <1>7, <2>1, <2>2 DEF DeliverRead, Record
  <2>3. CASE ~Leave(p)
    BY <1>7, <2>3 DEF DeliverRead, Record
  <2> QED
    BY <2>2, <2>3
<1> QED
  BY <1>2, <1>3, <1>4, <1>5, <1>6, <1>7 DEF Progress

\* What the invariant says of one process.
Fine(p) ==
  /\ pc[p] \in Labels /\ task[p] \in Tasks
  /\ own[p] \in Runs \cup {0} /\ cur[p] \in Runs \cup {0}
  /\ snap[p] \in Row /\ work[p] \subseteq Runs /\ reply[p] \in Answers
  /\ task[p] = "collect" => own[p] \in Runs
  /\ pc[p] \in {"queue", "queue_write", "deliver", "send", "record"} => cur[p] \in Runs
  /\ pc[p] = "seed_write" => work[p] \subseteq old
  /\ pc[p] \in {"send", "record"} => snap[p].attempts < MaxAttempts
  /\ pc[p] = "record" /\ reply[p] = "accepted"  => cur[p] \in delivered
  /\ pc[p] = "record" /\ reply[p] = "permanent" => cur[p] \in refused

EachFine == \A p \in Procs : Fine(p)

\* ... and of the functions that say where the processes are.
OfProcs == /\ pc = [p \in Procs |-> pc[p]]     /\ task = [p \in Procs |-> task[p]]
           /\ own = [p \in Procs |-> own[p]]   /\ cur = [p \in Procs |-> cur[p]]
           /\ snap = [p \in Procs |-> snap[p]] /\ work = [p \in Procs |-> work[p]]
           /\ reply = [p \in Procs |-> reply[p]]

\* ... and of the rows.
RowsFine == /\ status \in [Runs -> {"future", "open", "ended"}] /\ old \subseteq Runs
            /\ note \in [Runs -> Row]
            /\ delivered \subseteq Runs /\ refused \subseteq Runs
            /\ launches \in 0 .. MaxLaunches /\ crashes \in 0 .. MaxCrashes
            /\ SettledForAReason /\ OwedHasAttemptsLeft

LEMMA ByParts == IInv <=> RowsFine /\ OfProcs /\ EachFine
<1>1. IInv => RowsFine
  BY DEF IInv, RowsFine, TypeOK
<1>2. IInv => OfProcs
  BY DEF IInv, OfProcs, TypeOK, Placed
<1>3. IInv => EachFine
  BY DEF IInv, EachFine, Fine, TypeOK, Placed, Handling, SeedsOld, RoomForOne, Answered, Answers
<1>4. RowsFine /\ OfProcs /\ EachFine => IInv
  <2> SUFFICES ASSUME RowsFine, OfProcs, EachFine PROVE IInv
    OBVIOUS
  <2>1. TypeOK /\ Placed
    BY DEF RowsFine, OfProcs, EachFine, Fine, TypeOK, Placed, Answers
  <2> QED
    BY <2>1 DEF IInv, RowsFine, EachFine, Fine, Handling, SeedsOld, RoomForOne, Answered
<1> QED
  BY <1>1, <1>2, <1>3, <1>4

LEMMA OfProcsKept ==
  ASSUME IInv, NEW p \in Procs, Tick(p) \/ StartCollection(p) \/ Ask(p) \/ Progress(p) \/ Crash(p)
  PROVE  OfProcs'
<1> USE DEF Goto, Become, procs, archive, outside, bounds, OfProcs
<1>1. OfProcs
  BY ByParts DEF EachFine
<1>2. ASSUME Exit(p) PROVE OfProcs'
  BY <1>1, <1>2 DEF Exit
<1>3. CASE Tick(p) \/ StartCollection(p) \/ Ask(p) \/ FinishRun(p)
  BY <1>1, <1>3 DEF Tick, StartCollection, Ask, FinishRun
<1>4. CASE SeedRead(p) \/ SeedWrite(p) \/ ListUnreported(p) \/ NextUnreported(p)
  BY <1>1, <1>4 DEF SeedRead, SeedWrite, Seeded, ListUnreported, NextUnreported
<1>5. CASE QueueRead(p) \/ QueueWrite(p) \/ ListOwed(p) \/ Send(p)
  BY <1>1, <1>5 DEF QueueRead, QueueWrite, ListOwed, Send
<1>6. CASE Collide(p) \/ Crash(p)
  BY <1>2, <1>6 DEF Collide, Crash
<1>7. CASE NextOwed(p)
  BY <1>1, <1>2, <1>7 DEF NextOwed
<1>8. CASE DeliverRead(p) \/ Record(p)
  <2>1. CASE Leave(p) /\ ~Exit(p)
    BY <1>1, <2>1 DEF Leave
  <2>2. CASE ~Leave(p)
    BY <1>1, <1>8, <2>2 DEF DeliverRead, Record
  <2> QED
    BY <1>2, <2>1, <2>2
<1> QED
  BY <1>3, <1>4, <1>5, <1>6, <1>7, <1>8 DEF Progress

-----------------------------------------------------------------------------
(* The process that takes the step.                                          *)

LEMMA ExitFine ==
  ASSUME IInv, NEW p \in Procs, Exit(p) PROVE Fine(p)'
<1>1. OfProcs
  BY ByParts DEF EachFine
<1> QED
  BY <1>1, Rows DEF OfProcs, Exit, Goto, Fine, Labels, Tasks, Answers

LEMMA LeaveFine ==
  ASSUME IInv, NEW p \in Procs, pc[p] \in {"deliver", "record"}, Leave(p) PROVE Fine(p)'
<1>1. OfProcs /\ Fine(p)
  BY ByParts DEF EachFine
<1>2. CASE ~Sweeping(p)
  BY <1>2, ExitFine DEF Leave
<1>3. CASE Sweeping(p)
  <2>1. AfterDeliver(p) \in {"list", "next_owed"}
    BY DEF AfterDeliver
  <2>2. pc'[p] \in {"list", "next_owed"}
    BY <1>1, <1>3, <2>1 DEF OfProcs, Leave, Goto
  <2>3. /\ UNCHANGED <<task, own, cur, work>>
        /\ snap'[p] = NoRow /\ reply'[p] = "none"
    BY <1>1, <1>3 DEF OfProcs, Leave
  <2> QED
    BY <1>1, <2>2, <2>3, Rows DEF Fine, Labels, Answers
<1> QED
  BY <1>2, <1>3

LEMMA LaunchFine ==
  ASSUME IInv, NEW p \in Procs, Tick(p) \/ StartCollection(p) \/ Ask(p) \/ FinishRun(p)
  PROVE  Fine(p)'
<1> USE DEF Goto, Become, archive, outside, OfProcs, Fine, Labels, Tasks
<1>1. OfProcs /\ Fine(p)
  BY ByParts DEF EachFine
<1>2. CASE Tick(p)
  BY <1>1, <1>2 DEF Tick
<1>3. CASE StartCollection(p)
  BY <1>1, <1>3 DEF StartCollection
<1>4. CASE Ask(p)
  BY <1>1, <1>4 DEF Ask
<1>5. CASE FinishRun(p)
  BY <1>1, <1>5 DEF FinishRun
<1> QED
  BY <1>2, <1>3, <1>4, <1>5

LEMMA SeedFine ==
  ASSUME IInv, NEW p \in Procs, SeedRead(p) \/ SeedWrite(p)
  PROVE  Fine(p)'
<1> USE DEF Goto, archive, outside, OfProcs, Labels
<1>1. OfProcs /\ Fine(p) /\ old \subseteq Runs
  BY ByParts DEF RowsFine, EachFine
<1>2. ASSUME Seeded(p)
      PROVE  /\ cur'[p] = own[p] /\ pc'[p] \in {"queue", "list"}
             /\ pc'[p] = "queue" => task[p] = "collect"
  BY <1>1, <1>2 DEF Seeded
<1>3. CASE SeedRead(p) /\ Unowed(p) # {}
  <2>1. Unowed(p) \subseteq old
    BY DEF Unowed
  <2>2. /\ work'[p] = Unowed(p) /\ pc'[p] = "seed_write"
        /\ UNCHANGED <<old, task, own, cur, snap, reply>>
    BY <1>1, <1>3 DEF SeedRead
  <2> QED
    BY <1>1, <2>1, <2>2 DEF Fine
<1>4. CASE SeedRead(p) /\ Unowed(p) = {}
  <2>1. Seeded(p) /\ UNCHANGED <<old, task, own, snap, work, reply>>
    BY <1>4 DEF SeedRead
  <2> QED
    BY <1>1, <1>2, <2>1 DEF Fine
<1>5. CASE SeedWrite(p)
  <2>1. Seeded(p) /\ work'[p] = {} /\ UNCHANGED <<old, task, own, snap, reply>>
    BY <1>1, <1>5 DEF SeedWrite
  <2> QED
    BY <1>1, <1>2, <2>1 DEF Fine
<1> QED
  BY <1>3, <1>4, <1>5

LEMMA QueueFine ==
  ASSUME IInv, NEW p \in Procs,
         ListUnreported(p) \/ NextUnreported(p) \/ QueueRead(p) \/ QueueWrite(p)
  PROVE  Fine(p)'
<1> USE DEF Goto, archive, outside, OfProcs, Labels
<1>1. OfProcs /\ Fine(p) /\ note \in [Runs -> Row]
  BY ByParts DEF RowsFine, EachFine
<1>2. AfterQueue(p) \in {"next_unreported", "deliver"}
  BY DEF AfterQueue
<1>3. CASE ListUnreported(p)
  <2>1. UnreportedRuns \subseteq Runs
    BY DEF UnreportedRuns
  <2> QED
    BY <1>1, <1>3, <2>1 DEF ListUnreported, Fine
<1>4. CASE NextUnreported(p)
  BY <1>1, <1>4 DEF NextUnreported, Fine
<1>5. CASE QueueRead(p)
  <2>1. cur[p] \in Runs /\ note[cur[p]] \in Row
    BY <1>1, <1>5 DEF QueueRead, Fine
  <2>2. /\ snap'[p] \in Row /\ pc'[p] \in {"queue_write", "next_unreported", "deliver"}
        /\ UNCHANGED <<old, task, own, cur, work, reply>>
    BY <1>1, <1>2, <1>5, <2>1 DEF QueueRead, Fine
  <2> QED
    BY <1>1, <2>1, <2>2 DEF Fine
<1>6. CASE QueueWrite(p)
  <2>1. /\ snap'[p] = NoRow /\ pc'[p] \in {"next_unreported", "deliver"} /\ cur[p] \in Runs
        /\ UNCHANGED <<old, task, own, cur, work, reply>>
    BY <1>1, <1>2, <1>6 DEF QueueWrite, Fine
  <2> QED
    BY <1>1, <2>1, Rows DEF Fine
<1> QED
  BY <1>3, <1>4, <1>5, <1>6

LEMMA DeliverFine ==
  ASSUME IInv, NEW p \in Procs,
         ListOwed(p) \/ NextOwed(p) \/ DeliverRead(p) \/ Send(p) \/ Record(p)
  PROVE  Fine(p)'
<1> USE DEF Goto, archive, outside, OfProcs, Labels
<1>1. OfProcs /\ Fine(p) /\ note \in [Runs -> Row] /\ OwedHasAttemptsLeft
  BY ByParts DEF RowsFine, EachFine
<1>2. Owed \subseteq Runs
  BY DEF Owed
<1>3. CASE ListOwed(p)
  <2>1. /\ work'[p] \subseteq Runs /\ cur'[p] = 0 /\ pc'[p] = "next_owed"
        /\ UNCHANGED <<old, task, own, snap, reply>>
    BY <1>1, <1>2, <1>3 DEF ListOwed
  <2> QED
    BY <1>1, <2>1 DEF Fine
<1>4. CASE NextOwed(p)
  <2>1. CASE work[p] # {}
    <3>1. /\ cur'[p] \in Runs /\ work'[p] \subseteq Runs /\ pc'[p] = "deliver"
          /\ UNCHANGED <<old, task, own, snap, reply>>
      BY <1>1, <1>4, <2>1 DEF NextOwed, Fine
    <3> QED
      BY <1>1, <3>1 DEF Fine
  <2>2. CASE work[p] = {}
    BY <1>4, <2>2, ExitFine DEF NextOwed
  <2> QED
    BY <2>1, <2>2
<1>5. CASE DeliverRead(p)
  <2>1. CASE cur[p] \in Owed
    <3>1. /\ snap'[p] = note[cur[p]] /\ pc'[p] = "send"
          /\ UNCHANGED <<old, task, own, cur, work, reply>>
      BY <1>1, <1>5, <2>1 DEF DeliverRead
    <3>2. note[cur[p]] \in Row /\ note[cur[p]].attempts < MaxAttempts /\ cur[p] \in Runs
      BY <1>1, <1>2, <2>1 DEF OwedHasAttemptsLeft
    <3> QED
      BY <1>1, <3>1, <3>2 DEF Fine
  <2>2. CASE cur[p] \notin Owed
    BY <1>5, <2>2, LeaveFine DEF DeliverRead
  <2> QED
    BY <2>1, <2>2
<1>6. CASE Send(p)
  <2>1. /\ pc'[p] = "record" /\ cur[p] \in Runs /\ snap[p].attempts < MaxAttempts
        /\ UNCHANGED <<old, task, own, cur, snap, work>>
    BY <1>1, <1>6 DEF Send, Fine
  <2>2. /\ reply'[p] \in Answers
        /\ reply'[p] = "accepted" => cur[p] \in delivered'
        /\ reply'[p] = "permanent" => cur[p] \in refused'
    BY <1>1, <1>6 DEF Send, Answers
  <2> QED
    BY <1>1, <2>1, <2>2 DEF Fine
<1>7. CASE Record(p)
  BY <1>7, LeaveFine DEF Record
<1> QED
  BY <1>3, <1>4, <1>5, <1>6, <1>7

-----------------------------------------------------------------------------
(* The rows.                                                                 *)

\* Only three steps write a row, and they write it from what they had read.
LEMMA RowsKept ==
  ASSUME IInv, NEW p \in Procs, Tick(p) \/ StartCollection(p) \/ Ask(p) \/ Progress(p) \/ Crash(p)
  PROVE  RowsFine'
<1>1. RowsFine /\ OfProcs /\ Fine(p)
  BY ByParts DEF EachFine
<1>2. UNCHANGED old /\ delivered \subseteq delivered' /\ refused \subseteq refused'
  BY OthersStay
<1>3. /\ status' \in [Runs -> {"future", "open", "ended"}]
      /\ launches' \in 0 .. MaxLaunches /\ crashes' \in 0 .. MaxCrashes
  BY <1>1, BoundsAssumption
  DEF RowsFine, archive, bounds, Tick, StartCollection, Ask, Progress, Crash, FinishRun, SeedRead,
      SeedWrite, ListUnreported, NextUnreported, QueueRead, QueueWrite, Collide, ListOwed,
      NextOwed, DeliverRead, Send, Record
<1>4. delivered' \subseteq Runs /\ refused' \subseteq Runs
  <2>1. CASE Send(p)
    <3>1. cur[p] \in Runs
      BY <1>1, <2>1 DEF Fine, Send
    <3> QED
      BY <1>1, <2>1, <3>1 DEF RowsFine, Send, outside
  <2>2. CASE UNCHANGED outside
    BY <1>1, <2>2 DEF RowsFine, outside
  <2> QED
    BY <2>1, <2>2
    DEF outside, Tick, StartCollection, Ask, Progress, Crash, FinishRun, SeedRead, SeedWrite,
        ListUnreported, NextUnreported, QueueRead, QueueWrite, Collide, ListOwed, NextOwed,
        DeliverRead, Record
<1>5. ASSUME NEW r \in Runs
      PROVE  \/ note'[r] = note[r]
             \/ note'[r] = [NoRow EXCEPT !.state = "skipped"] /\ r \in old
             \/ note'[r] = [NoRow EXCEPT !.state = "pending"]
             \/ Record(p) /\ r = cur[p]
  <2>1. CASE SeedWrite(p)
    <3>1. work[p] \subseteq old
      BY <1>1, <2>1 DEF Fine, SeedWrite
    <3> QED
      BY <2>1, <3>1 DEF SeedWrite
  <2>2. CASE QueueWrite(p)
    BY <1>1, <2>2 DEF QueueWrite, RowsFine
  <2>3. CASE Record(p)
    BY <1>1, <2>3 DEF Record, RowsFine
  <2>4. CASE UNCHANGED note
    BY <2>4
  <2> QED
    BY <2>1, <2>2, <2>3, <2>4
    DEF archive, Tick, StartCollection, Ask, Progress, Crash, FinishRun, SeedRead,
        ListUnreported, NextUnreported, QueueRead, Collide, ListOwed, NextOwed,
        DeliverRead, Send
<1>6. DOMAIN note' = Runs /\ note' = [r \in Runs |-> note'[r]]
  BY <1>1
  DEF RowsFine, archive, Tick, StartCollection, Ask, Progress, Crash, FinishRun, SeedRead,
      SeedWrite, ListUnreported, NextUnreported, QueueRead, QueueWrite, Collide, ListOwed,
      NextOwed, DeliverRead, Send, Record
<1> DEFINE Good(row, r) ==   \* a row that is written is as good as it was
      /\ row \in Row
      /\ row.state = "accepted"  => r \in delivered'
      /\ row.state = "skipped"   => r \in old
      /\ row.state = "abandoned" => row.attempts = MaxAttempts \/ r \in refused'
      /\ row.state \in {"pending", "failed"} => row.attempts < MaxAttempts
<1>7. \A r \in Runs : Good(note[r], r)
  BY <1>1, <1>2 DEF RowsFine, SettledForAReason, OwedHasAttemptsLeft, Owed
<1>8. \A r \in Runs : r \in old => Good([NoRow EXCEPT !.state = "skipped"], r)
  BY Rows DEF NoRow, Row, States
<1>9. \A r \in Runs : Good([NoRow EXCEPT !.state = "pending"], r)
  BY Rows DEF NoRow, Row, States
<1>10. ASSUME Record(p) PROVE Good(note'[cur[p]], cur[p])
  <2> DEFINE attempts == snap[p].attempts + 1
             state == IF reply[p] = "accepted" THEN "accepted"
                      ELSE IF Exhausted(p, attempts) THEN "abandoned" ELSE "failed"
  <2>1. /\ cur[p] \in Runs /\ snap[p] \in Row /\ snap[p].attempts < MaxAttempts
        /\ reply[p] = "accepted"  => cur[p] \in delivered
        /\ reply[p] = "permanent" => cur[p] \in refused
    BY <1>1, <1>10 DEF Fine, Record
  <2>2. attempts \in 0 .. MaxAttempts
    BY <2>1, Rows DEF Row
  <2>3. note'[cur[p]].state = state /\ note'[cur[p]].attempts = attempts /\ state \in States
        /\ note'[cur[p]] \in [state : States, attempts : {attempts}]
    BY <1>1, <1>10, <2>1 DEF RowsFine, Record, Row, States
  <2>4. state = "abandoned" => attempts = MaxAttempts \/ reply[p] = "permanent"
    BY <2>2, Rows DEF Exhausted
  <2>5. state = "failed" => attempts < MaxAttempts
    BY <2>2, Rows DEF Exhausted
  <2>6. state = "accepted" => reply[p] = "accepted"
    OBVIOUS
  <2>7. state \in {"accepted", "abandoned", "failed"}
    OBVIOUS
  <2>8. note'[cur[p]] \in Row
    BY <2>2, <2>3 DEF Row
  <2> HIDE DEF attempts, state
  <2> QED
    BY <1>2, <2>1, <2>3, <2>4, <2>5, <2>6, <2>7, <2>8
<1>11. \A r \in Runs : Good(note'[r], r)
  <2> HIDE DEF Good
  <2> QED
    BY <1>5, <1>7, <1>8, <1>9, <1>10
<1>12. note' \in [Runs -> Row]
  BY <1>6, <1>11
<1>13. SettledForAReason' /\ OwedHasAttemptsLeft'
  BY <1>2, <1>11 DEF SettledForAReason, OwedHasAttemptsLeft, Owed
<1> QED
  BY <1>1, <1>2, <1>3, <1>4, <1>12, <1>13 DEF RowsFine

-----------------------------------------------------------------------------
(* The results.                                                              *)

LEMMA InitInvariant == Init => IInv
<1> SUFFICES ASSUME Init PROVE IInv
  OBVIOUS
<1>1. NoRow \in Row /\ NoRow.state = "none"
  BY Rows DEF NoRow
<1>2. note = [r \in Runs |-> NoRow] /\ old \subseteq Runs
  BY DEF Init
<1>3. SettledForAReason /\ OwedHasAttemptsLeft
  BY <1>1, <1>2 DEF SettledForAReason, OwedHasAttemptsLeft, Owed
<1>4. RowsFine
  BY <1>1, <1>2, <1>3, BoundsAssumption DEF Init, RowsFine
<1>5. OfProcs
  BY DEF Init, OfProcs
<1>6. EachFine
  BY <1>1 DEF Init, EachFine, Fine, Labels, Tasks, Answers
<1> QED
  BY <1>4, <1>5, <1>6, ByParts

\* Each process knows what it had read, and each row is what its writers found.
THEOREM Invariance == Spec => []IInv
<1>1. RowsFine' /\ OfProcs' /\ EachFine' => IInv'
  BY ByParts, PTL
<1>2. IInv /\ [Next]_vars => IInv'
  <2> SUFFICES ASSUME IInv, [Next]_vars PROVE IInv'
    OBVIOUS
  <2>1. CASE UNCHANGED vars
    BY <2>1
    DEF vars, archive, outside, procs, bounds, IInv, TypeOK, Placed, Handling, SeedsOld,
        RoomForOne, Answered, SettledForAReason, OwedHasAttemptsLeft, Owed
  <2>2. ASSUME NEW p \in Procs,
               Tick(p) \/ StartCollection(p) \/ Ask(p) \/ Progress(p) \/ Crash(p)
        PROVE  IInv'
    <3>1. Fine(p)'
      <4>1. CASE Collide(p) \/ Crash(p)
        BY <4>1, ExitFine DEF Collide, Crash
      <4> QED
        BY <2>2, <4>1, LaunchFine, SeedFine, QueueFine, DeliverFine DEF Progress
    <3>2. \A q \in Procs : q # p => Fine(q)'
      <4>1. \A q \in Procs : Fine(q)
        BY ByParts DEF EachFine
      <4> QED
        BY <2>2, <4>1, OthersStay DEF Fine
    <3> QED
      BY <1>1, <2>2, <3>1, <3>2, RowsKept, OfProcsKept DEF EachFine
  <2> QED
    BY <2>1, <2>2 DEF Next
<1> QED
  BY <1>2, InitInvariant, PTL DEF Spec

\* Every variable keeps its type, and with it no row counts more attempts than there
\* are, although each delivery counts from what it read before the mail went out.
THEOREM TypeCorrect == Spec => []TypeOK
<1>1. IInv => TypeOK
  BY DEF IInv
<1> QED
  BY <1>1, Invariance, PTL

\* However deliveries, sweeps, settlements and revivals of one row interleave, and
\* wherever the processes die, no row claims more than what happened.
THEOREM SettledRightly == Spec => []SettledForAReason
<1>1. IInv => SettledForAReason
  BY DEF IInv
<1> QED
  BY <1>1, Invariance, PTL

\* A report that is owed has an attempt left: no interleaving of two deliveries
\* leaves it owed with its attempts spent, where no sweep would end it.
THEOREM OwedCanBeTried == Spec => []OwedHasAttemptsLeft
<1>1. IInv => OwedHasAttemptsLeft
  BY DEF IInv
<1> QED
  BY <1>1, Invariance, PTL
=============================================================================
