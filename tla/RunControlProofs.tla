-------------------------- MODULE RunControlProofs --------------------------
(***************************************************************************)
(* Proofs about RunControl, for any number of processes, runs and days.    *)
(***************************************************************************)
EXTENDS RunControl, FiniteSetTheorems, WellFoundedInduction, TLAPS

\* The lock file's holder is the only process between Acquire and Release.
LockOwned == \A p \in Procs : pc[p] \in Locked => holder = p

\* A process knows the open rows it is about to abandon, and only those.
StaleKnown == \A p \in Procs :
  /\ pc[p] = "abandon" => stale[p] = Open
  /\ pc[p] # "abandon" => stale[p] = {}

\* Nothing is open when a row is about to be opened, and it is the only one then.
RowOwned == \A p \in Procs :
  /\ pc[p] = "start" => Open = {}
  /\ pc[p] = "collect" => Open = {mine[p]}
  /\ pc[p] # "collect" => mine[p] = 0

Unwritten == \A r \in RunIds : r > last <=> rows[r].state = "none"

IInv == /\ TypeOK /\ LockOwned /\ StaleKnown /\ RowOwned /\ NoTwoRunsOpen /\ Unwritten

-----------------------------------------------------------------------------
\* A slot that has a daily run has a first one.
LEMMA FirstDailyFacts == SlotDailies # {} => FirstDaily \in SlotDailies
<1> SUFFICES ASSUME SlotDailies # {}
             PROVE  \E r \in SlotDailies : \A s \in SlotDailies : r <= s
  BY DEF FirstDaily
<1>1. SlotDailies \subseteq Nat
  BY BoundsAssumption DEF SlotDailies, SlotRuns, RunIds
<1>2. IsWellFoundedOn(OpToRel(<, Nat), Nat)
  BY NatLessThanWellFounded
<1>3. PICK r \in SlotDailies : \A s \in SlotDailies : <<s, r>> \notin OpToRel(<, Nat)
  BY <1>1, <1>2, WFMin
<1>4. \A s \in SlotDailies : ~(s < r)
  BY <1>1, <1>3 DEF OpToRel
<1> QED
  BY <1>1, <1>4

\* What a retry window reads is within the types: a nonempty set of run ids has
\* a least element, and the retries of a slot can be counted.
LEMMA RetryJobType == TypeOK => RetryJob \in Jobs
<1> SUFFICES ASSUME TypeOK PROVE RetryJob \in Jobs
  OBVIOUS
<1> USE BoundsAssumption
<1>1. SlotDailies \subseteq Nat /\ SlotDailies \subseteq RunIds /\ SlotRetries \subseteq RunIds
  BY DEF SlotDailies, SlotRetries, SlotRuns, RunIds
<1>2. IsFiniteSet(RunIds)
  BY FS_Interval DEF RunIds
<1>3. Cardinality(SlotRetries) \in Nat
  BY <1>1, <1>2, FS_Subset, FS_CardinalityType
<1>4. SlotDailies # {} => FirstDaily \in SlotDailies
  BY FirstDailyFacts
<1>5. (IF SlotDailies = {} THEN 0 ELSE FirstDaily) \in 0 .. MaxRuns
  <2>1. CASE SlotDailies = {}
    BY <2>1
  <2>2. CASE SlotDailies # {}
    <3>1. FirstDaily \in 1 .. MaxRuns
      BY <1>1, <1>4, <2>2 DEF RunIds
    <3> QED
      BY <2>2, <3>1
  <2> QED
    BY <2>1, <2>2
<1> QED
  BY <1>3, <1>5 DEF RetryJob, Jobs, Kinds

\* One step of one process keeps the types.
LEMMA StepType == ASSUME TypeOK, NEW p \in Procs, Step(p) PROVE TypeOK'
<1> USE BoundsAssumption, ProcsAssumption DEF TypeOK, Goto, Exit, shared, procs, Locked
<1>0. Fresh \in Jobs
  BY DEF Fresh, Jobs, Kinds
<1>1. CASE Launch(p)
  <2>1. Scheduled \in Jobs
    BY DEF Scheduled, Fresh, Jobs, Kinds
  <2>2. \A kind \in Kinds, parent \in Parents, attempt \in Attempts :
          [kind |-> kind, parent |-> parent, attempt |-> attempt] \in Jobs
    BY DEF Jobs
  <2>3. PICK j \in Jobs : job' = [job EXCEPT ![p] = j]
    BY <1>1, <2>1, <2>2 DEF Launch
  <2> QED
    BY <1>1, <2>3 DEF Launch
<1>2. CASE Decide(p)
  BY <1>2, RetryJobType DEF Decide
<1>3. CASE Acquire(p)
  BY <1>3 DEF Acquire
<1>4. CASE Contend(p)
  BY <1>0, <1>4 DEF Contend
<1>5. CASE QueryStale(p)
  BY <1>5 DEF QueryStale, StaleRuns, Open
<1>6. CASE Abandon(p)
  BY <1>6 DEF Abandon, Row, States
<1>7. CASE StartRun(p)
  <2>1. last + 1 \in RunIds /\ last + 1 \in 0 .. MaxRuns
    BY <1>7 DEF StartRun, RunIds
  <2>2. [kind |-> job[p].kind, parent |-> job[p].parent, attempt |-> job[p].attempt,
         slot |-> day, state |-> "open"] \in Row
    BY DEF Row, Jobs, States, Days
  <2> QED
    BY <1>7, <2>1, <2>2 DEF StartRun
<1>8. CASE FailEarly(p)
  BY <1>8 DEF FailEarly
<1>9. CASE FinishRun(p)
  <2>1. PICK o \in Outcomes : rows' = [rows EXCEPT ![mine[p]].state = o]
    BY <1>9 DEF FinishRun
  <2>2. rows' \in [RunIds -> Row]
    BY <2>1 DEF Row, States
  <2> QED
    BY <1>9, <2>2 DEF FinishRun
<1>10. CASE Release(p)
  BY <1>0, <1>10 DEF Release
<1>11. CASE Crash(p)
  BY <1>0, <1>11 DEF Crash
<1> QED
  BY <1>1, <1>2, <1>3, <1>4, <1>5, <1>6, <1>7, <1>8, <1>9, <1>10, <1>11 DEF Step

LEMMA InitType == Init => TypeOK
  BY BoundsAssumption
  DEF Init, TypeOK, Absent, Fresh, Row, Jobs, Kinds, States, Days, Locked

\* Every variable keeps its type, whatever is killed when.
THEOREM TypeCorrect == Spec => []TypeOK
<1>1. TypeOK /\ [Next]_vars => TypeOK'
  <2> SUFFICES ASSUME TypeOK, [Next]_vars PROVE TypeOK'
    OBVIOUS
  <2>1. CASE \E p \in Procs : Step(p)
    BY <2>1, StepType
  <2>2. CASE Midnight
    BY <2>2, BoundsAssumption DEF Midnight, TypeOK, procs, Days
  <2>3. CASE UNCHANGED vars
    BY <2>3 DEF vars, shared, procs, TypeOK
  <2> QED
    BY <2>1, <2>2, <2>3 DEF Next
<1> QED
  BY <1>1, InitType, PTL DEF Spec

-----------------------------------------------------------------------------
(* The inductive invariant.  The lock makes Locked a critical section, so no *)
(* row is opened or closed by anybody else between the query of the open     *)
(* rows and the row of the new run.                                          *)

\* While p holds the lock, no other process is in the critical section.
LEMMA Exclusion ==
  ASSUME LockOwned, NEW p \in Procs, holder = p
  PROVE  \A q \in Procs \ {p} : pc[q] \notin Locked
  BY DEF LockOwned

LEMMA InitInvariant == Init => IInv
<1> SUFFICES ASSUME Init PROVE IInv
  OBVIOUS
<1>1. TypeOK
  BY InitType
<1>2. Open = {}
  BY DEF Init, Open, Absent
<1>3. last = 0 /\ \A r \in RunIds : r > last /\ rows[r].state = "none"
  BY BoundsAssumption DEF Init, RunIds, Absent
<1> QED
  BY <1>1, <1>2, <1>3
  DEF Init, IInv, LockOwned, StaleKnown, RowOwned, NoTwoRunsOpen, Unwritten, Locked, Absent

\* Steps that change no row.
LEMMA QuietStep ==
  ASSUME IInv, NEW p \in Procs,
         Launch(p) \/ Decide(p) \/ Acquire(p) \/ Contend(p) \/ QueryStale(p)
           \/ FailEarly(p) \/ Release(p) \/ Crash(p)
  PROVE  IInv'
<1> USE DEF Goto, Exit, shared, Locked
<1>1. TypeOK'
  BY StepType DEF IInv, Step
<1>2. rows' = rows /\ last' = last
  BY DEF Launch, Decide, Acquire, Contend, QueryStale, FailEarly, Release, Crash
<1>3. Open' = Open
  BY <1>2 DEF Open
<1>4. NoTwoRunsOpen' /\ Unwritten'
  BY <1>2, <1>3 DEF IInv, NoTwoRunsOpen, Unwritten
<1>5. holder # NoProc => holder \in Procs
  BY DEF IInv, TypeOK
<1>6. NoProc \notin Procs
  BY ProcsAssumption DEF Procs
<1>7. LockOwned'
  BY <1>5, <1>6
  DEF IInv, TypeOK, LockOwned, Launch, Decide, Acquire, Contend, QueryStale, FailEarly,
      Release, Crash
<1>8. StaleKnown'
  BY <1>3
  DEF IInv, TypeOK, StaleKnown, StaleRuns, Launch, Decide, Acquire, Contend, QueryStale,
      FailEarly, Release, Crash
<1>9. RowOwned'
  BY <1>3
  DEF IInv, TypeOK, RowOwned, Launch, Decide, Acquire, Contend, QueryStale, FailEarly,
      Release, Crash
<1> QED
  BY <1>1, <1>4, <1>7, <1>8, <1>9 DEF IInv

\* The rows a process abandons are the open ones still, for it has held the lock
\* since it read them.
LEMMA AbandonStep == ASSUME IInv, NEW p \in Procs, Abandon(p) PROVE IInv'
<1> USE DEF Goto, Locked
<1>1. TypeOK'
  BY StepType DEF IInv, Step
<1>2. stale[p] = Open /\ holder = p
  BY DEF IInv, LockOwned, StaleKnown, Abandon
<1>3. Open' = {}
  BY <1>2 DEF IInv, TypeOK, Open, Abandon
<1>4. \A q \in Procs \ {p} : pc[q] \notin Locked
  BY <1>2, Exclusion DEF IInv
<1>5. LockOwned' /\ NoTwoRunsOpen'
  BY <1>3 DEF IInv, TypeOK, LockOwned, NoTwoRunsOpen, Abandon
<1>6. StaleKnown' /\ RowOwned'
  BY <1>3, <1>4 DEF IInv, TypeOK, StaleKnown, RowOwned, Abandon
<1>7. Unwritten'
  BY <1>2 DEF IInv, TypeOK, Unwritten, Open, Abandon
<1> QED
  BY <1>1, <1>5, <1>6, <1>7 DEF IInv

LEMMA StartStep == ASSUME IInv, NEW p \in Procs, StartRun(p) PROVE IInv'
<1> USE BoundsAssumption DEF Goto, Locked
<1>1. TypeOK'
  BY StepType DEF IInv, Step
<1>2. holder = p /\ Open = {}
  BY DEF IInv, LockOwned, RowOwned, StartRun
<1>3. \A q \in Procs \ {p} : pc[q] \notin Locked
  BY <1>2, Exclusion DEF IInv
<1>4. last + 1 \in RunIds
  BY DEF IInv, TypeOK, RunIds, StartRun
<1>5. Open' = {last + 1} /\ mine'[p] = last + 1
  BY <1>2, <1>4 DEF IInv, TypeOK, Open, StartRun
<1>6. LockOwned' /\ NoTwoRunsOpen'
  BY <1>5 DEF IInv, TypeOK, LockOwned, NoTwoRunsOpen, StartRun
<1>7. StaleKnown' /\ RowOwned'
  BY <1>3, <1>5 DEF IInv, TypeOK, StaleKnown, RowOwned, StartRun
<1>8. Unwritten'
  BY <1>4 DEF IInv, TypeOK, Unwritten, RunIds, StartRun
<1> QED
  BY <1>1, <1>6, <1>7, <1>8 DEF IInv

LEMMA FinishStep == ASSUME IInv, NEW p \in Procs, FinishRun(p) PROVE IInv'
<1> USE DEF Goto, Locked
<1>1. TypeOK'
  BY StepType DEF IInv, Step
<1>2. holder = p /\ Open = {mine[p]}
  BY DEF IInv, LockOwned, RowOwned, FinishRun
<1>3. \A q \in Procs \ {p} : pc[q] \notin Locked
  BY <1>2, Exclusion DEF IInv
<1>4. PICK o \in Outcomes : rows' = [rows EXCEPT ![mine[p]].state = o]
  BY DEF FinishRun
<1>5. o # "open" /\ mine[p] \in RunIds
  BY <1>2 DEF Outcomes, Open
<1>6. Open' = {}
  BY <1>2, <1>4, <1>5 DEF IInv, TypeOK, Open
<1>7. LockOwned' /\ NoTwoRunsOpen'
  BY <1>6 DEF IInv, TypeOK, LockOwned, NoTwoRunsOpen, FinishRun
<1>8. StaleKnown' /\ RowOwned'
  BY <1>3, <1>6 DEF IInv, TypeOK, StaleKnown, RowOwned, FinishRun
<1>9. Unwritten'
  <2>1. rows[mine[p]].state = "open"
    BY <1>2 DEF Open
  <2>2. last' = last /\ \A r \in RunIds \ {mine[p]} : rows'[r] = rows[r]
    BY <1>4 DEF IInv, TypeOK, FinishRun
  <2>3. rows'[mine[p]].state = o /\ o # "none"
    BY <1>4, <1>5 DEF IInv, TypeOK, Outcomes
  <2>4. ~(mine[p] > last)
    BY <2>1, <1>5 DEF IInv, Unwritten
  <2> QED
    BY <2>2, <2>3, <2>4 DEF IInv, Unwritten
<1> QED
  BY <1>1, <1>7, <1>8, <1>9 DEF IInv

LEMMA StepInvariant == IInv /\ [Next]_vars => IInv'
<1> SUFFICES ASSUME IInv, [Next]_vars PROVE IInv'
  OBVIOUS
<1>1. ASSUME NEW p \in Procs, Step(p) PROVE IInv'
  BY <1>1, QuietStep, AbandonStep, StartStep, FinishStep DEF Step
<1>2. CASE Midnight \/ UNCHANGED vars
  <2>1. /\ rows' = rows /\ last' = last /\ holder' = holder /\ pc' = pc /\ job' = job
        /\ stale' = stale /\ mine' = mine /\ windowed' = windowed
    BY <1>2 DEF Midnight, procs, vars, shared
  <2>2. day' \in Days
    BY <1>2, BoundsAssumption DEF Midnight, vars, shared, IInv, TypeOK, Days
  <2>3. Open' = Open
    BY <2>1 DEF Open
  <2> QED
    BY <2>1, <2>2, <2>3
    DEF IInv, TypeOK, LockOwned, StaleKnown, RowOwned, NoTwoRunsOpen, Unwritten
<1> QED
  BY <1>1, <1>2 DEF Next

\* The invariant holds throughout.
THEOREM Invariance == Spec => []IInv
  BY InitInvariant, StepInvariant, PTL DEF Spec

\* Readers of collection_runs never see two runs in progress.
THEOREM OneOpenRun == Spec => []NoTwoRunsOpen
<1>1. IInv => NoTwoRunsOpen
  BY DEF IInv
<1> QED
  BY <1>1, Invariance, PTL

-----------------------------------------------------------------------------
\* Three actions write rows.
LEMMA RowSteps ==
  ASSUME [Next]_vars
  PROVE  rows' = rows \/ \E p \in Procs : Abandon(p) \/ StartRun(p) \/ FinishRun(p)
  BY DEF Next, Step, Midnight, vars, shared, Launch, Decide, Acquire, Contend, QueryStale,
         FailEarly, Release, Crash

\* The only step that aborts a row is Abandon, and its process, which holds the
\* lock, leaves nobody else collecting.
LEMMA AbortStep ==
  ASSUME IInv, [Next]_vars, NEW r \in RunIds,
         rows[r].state = "open", rows'[r].state = "aborted", NEW q \in Procs
  PROVE  mine[q] # r
<1>1. PICK p \in Procs : Abandon(p)
  <2>1. ASSUME NEW p \in Procs, StartRun(p) PROVE FALSE
    BY <2>1 DEF IInv, RowOwned, Open, StartRun
  <2>2. ASSUME NEW p \in Procs, FinishRun(p) PROVE FALSE
    <3>1. PICK o \in Outcomes : rows' = [rows EXCEPT ![mine[p]].state = o]
      BY <2>2 DEF FinishRun
    <3>2. rows'[r].state \in Outcomes \cup {"open"}
      BY <3>1 DEF IInv, TypeOK
    <3> QED
      BY <3>2 DEF Outcomes
  <2> QED
    BY <2>1, <2>2, RowSteps
<1>2. holder = p /\ pc[p] = "abandon"
  BY <1>1 DEF Abandon, IInv, LockOwned, Locked
<1>3. pc[q] # "collect"
  BY <1>2, Exclusion DEF IInv, Locked
<1>4. mine[q] = 0
  BY <1>3 DEF IInv, RowOwned
<1> QED
  BY <1>4, BoundsAssumption DEF RunIds

\* A run is only ever aborted after its process is gone.
THEOREM AbortedAreDead == Spec => OnlyDeadRunsAborted
<1>1. IInv /\ [Next]_vars =>
        [\A r \in RunIds : rows[r].state = "open" /\ rows'[r].state = "aborted"
           => \A p \in Procs : mine[p] # r]_vars
  BY AbortStep
<1> QED
  BY <1>1, Invariance, PTL DEF Spec, OnlyDeadRunsAborted

-----------------------------------------------------------------------------
\* A row that was closed is left alone: an abandoned one was open, a finished one
\* was open, and a new one was not written yet.
LEMMA ClosedStep ==
  ASSUME IInv, [Next]_vars, NEW r \in RunIds, rows[r].state \notin {"none", "open"}
  PROVE  rows'[r] = rows[r]
<1>0. r \notin Open
  BY DEF Open
<1>1. ASSUME NEW p \in Procs, Abandon(p) PROVE rows'[r] = rows[r]
  <2>1. stale[p] = Open
    BY <1>1 DEF IInv, StaleKnown, Abandon
  <2> QED
    BY <1>0, <1>1, <2>1 DEF Abandon
<1>2. ASSUME NEW p \in Procs, StartRun(p) PROVE rows'[r] = rows[r]
  <2>1. ~(r > last)
    BY DEF IInv, Unwritten
  <2>2. r # last + 1
    BY <2>1 DEF IInv, TypeOK, RunIds
  <2> QED
    BY <1>2, <2>2 DEF IInv, TypeOK, StartRun
<1>3. ASSUME NEW p \in Procs, FinishRun(p) PROVE rows'[r] = rows[r]
  <2>1. mine[p] \in Open
    BY <1>3 DEF IInv, RowOwned, FinishRun
  <2>2. r # mine[p]
    BY <1>0, <2>1
  <2> QED
    BY <1>3, <2>2 DEF IInv, TypeOK, FinishRun
<1> QED
  BY <1>1, <1>2, <1>3, RowSteps

\* Closed rows never change again.
THEOREM ClosedStayClosed == Spec => ClosedRunsFinal
<1>1. IInv /\ [Next]_vars =>
        [\A r \in RunIds : rows[r].state \notin {"none", "open"} => rows'[r] = rows[r]]_vars
  BY ClosedStep
<1> QED
  BY <1>1, Invariance, PTL DEF Spec, ClosedRunsFinal

-----------------------------------------------------------------------------
(* Retries.  With one retry process, which midnight does not overtake, what  *)
(* it decided on still serves when it writes its row: other processes may    *)
(* add runs to the slot meanwhile, even retries, but no window does.         *)

\* A row that was not written has the kind of no retry and no daily run; what a
\* window opens is a retry.
KindsKnown ==
  /\ \A r \in RunIds : rows[r].state = "none" => rows[r].kind = "manual"
  /\ \A r \in windowed : rows[r].kind = "retry"

\* The retries of a slot that windows made.
Windows(d) == RetriesOf(d) \cap windowed

\* The parent a window names is a daily run of the slot; it names none where an
\* operator has retried the slot.
DailiesOf(d) == {r \in RunIds : rows[r].kind = "daily" /\ rows[r].slot = d}

Parented(parent, d) ==
  /\ parent # 0 => parent \in DailiesOf(d)
  /\ parent = 0 => RetriesOf(d) \ windowed # {}

\* A retry on its way to its row has room in the slot, and a number that is above
\* those of the windows before.
OnItsWay(p) ==
  /\ job[p].kind = "retry" /\ Parented(job[p].parent, day)
  /\ Cardinality(Windows(day)) < MaxRetries
  /\ job[p].attempt <= Cardinality(RetriesOf(day)) + 2
  /\ \A r \in Windows(day) : rows[r].attempt < job[p].attempt

Underway == \A p \in Retriers : pc[p] \in Deciding => OnItsWay(p)

\* The windows' retries of a slot are numbered apart, below the next number.
Numbered ==
  \A d \in 0 .. MaxDays : \A r \in Windows(d) :
    /\ Parented(rows[r].parent, d)
    /\ rows[r].attempt < Cardinality(RetriesOf(d)) + 2
    /\ \A s \in Windows(d) \ {r} : rows[s].attempt # rows[r].attempt

RetryInv == KindsKnown /\ Underway /\ Numbered /\ RetryWithinBudget

LEMMA RetriesFinite ==
  \A d : /\ IsFiniteSet(RetriesOf(d)) /\ Cardinality(RetriesOf(d)) \in Nat
         /\ IsFiniteSet(Windows(d)) /\ Cardinality(Windows(d)) \in Nat
         /\ Cardinality(Windows(d)) <= Cardinality(RetriesOf(d))
<1>1. IsFiniteSet(RunIds)
  BY FS_Interval, BoundsAssumption DEF RunIds
<1>2. ASSUME NEW d PROVE IsFiniteSet(RetriesOf(d))
  BY <1>1, FS_Subset DEF RetriesOf
<1>3. ASSUME NEW d
      PROVE  IsFiniteSet(Windows(d)) /\ Cardinality(Windows(d)) <= Cardinality(RetriesOf(d))
  BY <1>2, FS_Subset DEF Windows
<1> QED
  BY <1>2, <1>3, FS_CardinalityType

\* What the window decides from: the retries of its day, and their daily run.  Where
\* there is none, an operator has been there.
LEMMA SlotReading ==
  ASSUME TypeOK, KindsKnown, Numbered, SlotRuns # {}
  PROVE  /\ SlotRetries = RetriesOf(day)
         /\ Parented(RetryJob.parent, day)
<1>1. SlotRetries = RetriesOf(day)
  BY DEF SlotRetries, SlotRuns, RetriesOf, KindsKnown
<1>2. SlotDailies = DailiesOf(day)
  BY DEF SlotDailies, SlotRetries, SlotRuns, DailiesOf, KindsKnown
<1>3. day \in 0 .. MaxDays
  BY BoundsAssumption DEF TypeOK, Days
<1>4. RetryJob.parent = IF SlotDailies = {} THEN 0 ELSE FirstDaily
  BY DEF RetryJob
<1>5. 0 \notin DailiesOf(day)
  BY BoundsAssumption DEF DailiesOf, RunIds
<1>6. CASE SlotDailies # {}
  <2>1. RetryJob.parent = FirstDaily /\ FirstDaily \in DailiesOf(day)
    BY <1>2, <1>4, <1>6, FirstDailyFacts
  <2> HIDE DEF RetryJob
  <2>2. RetryJob.parent \in DailiesOf(day) /\ RetryJob.parent # 0
    BY <1>5, <2>1
  <2> QED
    BY <1>1, <2>2 DEF Parented
<1>7. CASE SlotDailies = {}
  <2>1. PICK r : r \in RetriesOf(day)
    BY <1>1, <1>7 DEF SlotDailies
  <2>2. RetriesOf(day) \ windowed # {}
    BY <1>2, <1>3, <1>7, <2>1 DEF Numbered, Windows, Parented
  <2>3. RetryJob.parent = 0
    BY <1>4, <1>7
  <2> QED
    BY <1>1, <2>2, <2>3 DEF Parented
<1> QED
  BY <1>1, <1>6, <1>7

\* Nothing about a row but its state changes.
SameRuns ==
  /\ windowed' = windowed
  /\ \A r \in RunIds :
       /\ rows'[r].kind = rows[r].kind /\ rows'[r].slot = rows[r].slot
       /\ rows'[r].parent = rows[r].parent /\ rows'[r].attempt = rows[r].attempt
       /\ rows'[r].state = "none" => rows[r].state = "none"

LEMMA SameRetries ==
  ASSUME SameRuns, RetryInv, windowed \subseteq RunIds
  PROVE  /\ \A d : /\ RetriesOf(d)' = RetriesOf(d) /\ Windows(d)' = Windows(d)
                   /\ \A parent : Parented(parent, d)' <=> Parented(parent, d)
         /\ Numbered' /\ RetryWithinBudget' /\ KindsKnown'
<1>1. \A d : RetriesOf(d)' = RetriesOf(d) /\ Windows(d)' = Windows(d)
  BY DEF SameRuns, RetriesOf, Windows
<1>2. \A d : DailiesOf(d)' = DailiesOf(d)
  BY DEF SameRuns, DailiesOf
<1>3. \A d, parent : Parented(parent, d)' <=> Parented(parent, d)
  BY <1>1, <1>2 DEF Parented, SameRuns
<1>4. Numbered'
  <2> SUFFICES ASSUME NEW d \in 0 .. MaxDays, NEW r \in Windows(d)'
               PROVE  /\ Parented(rows[r].parent, d)'
                      /\ rows'[r].attempt < Cardinality(RetriesOf(d)') + 2
                      /\ \A s \in Windows(d)' \ {r} : rows'[s].attempt # rows'[r].attempt
    BY DEF Numbered
  <2>1. r \in Windows(d) /\ \A s \in Windows(d) : s \in RunIds
    BY <1>1 DEF RetriesOf, Windows
  <2>2. Parented(rows[r].parent, d)'
    BY <1>2, <1>1, <2>1 DEF SameRuns, RetryInv, Numbered, Parented
  <2> QED
    BY <1>1, <2>1, <2>2 DEF SameRuns, RetryInv, Numbered
<1>5. RetryWithinBudget'
  BY <1>1 DEF RetryInv, RetryWithinBudget, Windows
<1>6. KindsKnown'
  BY DEF SameRuns, RetryInv, KindsKnown
<1> QED
  BY <1>1, <1>3, <1>4, <1>5, <1>6

\* Who is on its way stays so while the rows keep what they say.
LEMMA StaysUnderway ==
  ASSUME SameRuns, RetryInv, windowed \subseteq RunIds, day' = day,
         NEW p \in Procs, OnItsWay(p), job'[p] = job[p]
  PROVE  OnItsWay(p)'
<1>1. \A d : RetriesOf(d)' = RetriesOf(d) /\ Windows(d)' = Windows(d)
  BY SameRetries
<1>2. Parented(job[p].parent, day)'
  BY <1>1 DEF OnItsWay, Parented, SameRuns, DailiesOf
<1>3. \A r \in Windows(day) : rows'[r].attempt = rows[r].attempt
  BY DEF SameRuns, Windows, RetriesOf
<1> QED
  BY <1>1, <1>2, <1>3 DEF OnItsWay

LEMMA RetryInit == Init => RetryInv
<1> SUFFICES ASSUME Init PROVE RetryInv
  OBVIOUS
<1>1. \A d : Windows(d) = {}
  BY DEF Init, Windows
<1>2. RetryWithinBudget
  BY <1>1, FS_EmptySet, BoundsAssumption DEF RetryWithinBudget, Windows
<1>3. KindsKnown
  BY DEF Init, KindsKnown, Absent
<1>4. Underway /\ Numbered
  BY <1>1 DEF Init, Underway, Numbered, Deciding, Procs
<1> QED
  BY <1>2, <1>3, <1>4 DEF RetryInv

\* A window that decides to retry is on its way.
LEMMA DecideKeepsRetries ==
  ASSUME IInv, RetryInv, NEW p \in Procs, Decide(p) PROVE RetryInv'
<1> USE DEF Goto, shared
<1>1. SameRuns /\ day' = day /\ windowed \subseteq RunIds
  BY DEF Decide, SameRuns, IInv, TypeOK
<1>2. OnItsWay(p)'
  <2>1. SlotRuns # {} /\ Cardinality(SlotRetries) < MaxRetries
    BY DEF Decide, MayRetry
  <2>2. SlotRetries = RetriesOf(day) /\ Parented(RetryJob.parent, day)
    BY <2>1, SlotReading DEF IInv, RetryInv
  <2>3. job'[p] = RetryJob
    BY DEF Decide, IInv, TypeOK
  <2>4. job'[p].kind = "retry" /\ job'[p].attempt = Cardinality(RetriesOf(day)) + 2
    BY <2>2, <2>3 DEF RetryJob
  <2>5. \A r \in Windows(day) : /\ rows[r].attempt < Cardinality(RetriesOf(day)) + 2
                                /\ rows'[r].attempt = rows[r].attempt
    BY BoundsAssumption, <1>1
    DEF RetryInv, Numbered, IInv, TypeOK, Days, SameRuns, Windows, RetriesOf
  <2>6. RetriesOf(day)' = RetriesOf(day) /\ Windows(day)' = Windows(day)
    BY <1>1, SameRetries
  <2>7. Parented(job[p].parent, day)'
    <3> DEFINE parent == RetryJob.parent
    <3>1. job'[p].parent = parent /\ Parented(parent, day)
      BY <2>2, <2>3
    <3> HIDE DEF parent
    <3> QED
      BY <1>1, <2>6, <3>1 DEF Parented, SameRuns, DailiesOf
  <2>8. Cardinality(Windows(day)) < MaxRetries
    BY <2>1, <2>2, RetriesFinite, BoundsAssumption
  <2> QED
    BY <1>1, <2>4, <2>5, <2>6, <2>7, <2>8, RetriesFinite DEF OnItsWay
<1>3. \A q \in Procs \ {p} : job'[q] = job[q] /\ pc'[q] = pc[q]
  BY DEF Decide, IInv, TypeOK
<1>4. Underway'
  BY <1>1, <1>2, <1>3, StaysUnderway DEF RetryInv, Underway, Procs
<1> QED
  BY <1>1, <1>4, SameRetries DEF RetryInv

\* What a new row changes: those before are as they were.
LEMMA RowOpened ==
  ASSUME IInv, RetryInv, NEW p \in Procs, StartRun(p), NEW new, new = last + 1
  PROVE  /\ new \in RunIds /\ new \notin windowed /\ day' = day /\ job' = job
         /\ rows'[new] = [kind |-> job[p].kind, parent |-> job[p].parent,
                          attempt |-> job[p].attempt, slot |-> day, state |-> "open"]
         /\ \A r \in RunIds \ {new} : rows'[r] = rows[r]
         /\ \A d : DailiesOf(d) \subseteq DailiesOf(d)'
         /\ \A d : RetriesOf(d) \subseteq RetriesOf(d)' /\ new \notin RetriesOf(d)
         /\ \A d : \A r \in Windows(d) : rows'[r] = rows[r] /\ rows[r].attempt \in Int
<1> USE BoundsAssumption DEF Goto
<1>1. new \in RunIds /\ day' = day /\ job' = job
  BY DEF StartRun, IInv, TypeOK, RunIds
<1>2. rows[new].state = "none" /\ rows[new].kind = "manual"
  BY <1>1 DEF IInv, TypeOK, Unwritten, RetryInv, KindsKnown
<1>3. /\ rows'[new] = [kind |-> job[p].kind, parent |-> job[p].parent,
                       attempt |-> job[p].attempt, slot |-> day, state |-> "open"]
      /\ \A r \in RunIds \ {new} : rows'[r] = rows[r]
  BY <1>1 DEF StartRun, IInv, TypeOK
<1>4. new \notin windowed
  BY <1>2 DEF RetryInv, KindsKnown
<1>5. \A d : DailiesOf(d) \subseteq DailiesOf(d)'
  BY <1>2, <1>3 DEF DailiesOf
<1>6. \A d : RetriesOf(d) \subseteq RetriesOf(d)' /\ new \notin RetriesOf(d)
  BY <1>2, <1>3 DEF RetriesOf
<1>7. \A d : \A r \in Windows(d) : rows'[r] = rows[r] /\ rows[r].attempt \in Int
  BY <1>3, <1>6 DEF Windows, RetriesOf, IInv, TypeOK, Row
<1> QED
  BY <1>1, <1>3, <1>4, <1>5, <1>6, <1>7

\* A row that an operator or the timer opens leaves the windows' retries alone.
LEMMA CollectorKeepsRetries ==
  ASSUME IInv, RetryInv, NEW p \in Procs, StartRun(p), p \notin Retriers PROVE RetryInv'
<1> DEFINE new == last + 1
<1>1. /\ new \in RunIds /\ new \notin windowed /\ day' = day /\ job' = job
      /\ rows'[new] = [kind |-> job[p].kind, parent |-> job[p].parent,
                       attempt |-> job[p].attempt, slot |-> day, state |-> "open"]
      /\ \A r \in RunIds \ {new} : rows'[r] = rows[r]
      /\ \A d : DailiesOf(d) \subseteq DailiesOf(d)'
      /\ \A d : RetriesOf(d) \subseteq RetriesOf(d)' /\ new \notin RetriesOf(d)
      /\ \A d : \A r \in Windows(d) : rows'[r] = rows[r] /\ rows[r].attempt \in Int
  BY RowOpened
<1>2. windowed' = windowed
  BY DEF StartRun
<1> HIDE DEF new
<1>3. \A d : Windows(d)' = Windows(d)
  BY <1>1, <1>2 DEF Windows, RetriesOf
<1>4. \A d : /\ Cardinality(RetriesOf(d)) <= Cardinality(RetriesOf(d)')
             /\ Cardinality(RetriesOf(d)') \in Nat
  <2>1. IsFiniteSet(RunIds) /\ \A d : RetriesOf(d)' \subseteq RunIds
    BY FS_Interval, BoundsAssumption DEF RetriesOf, RunIds
  <2> QED
    BY <1>1, <2>1, FS_Subset, FS_CardinalityType
<1>5. \A d, parent : Parented(parent, d) => Parented(parent, d)'
  BY <1>1, <1>2 DEF Parented
<1>6. KindsKnown'
  BY <1>1, <1>2 DEF KindsKnown, RetryInv, IInv, TypeOK
<1>7. Underway'
  <2> SUFFICES ASSUME NEW q \in Retriers, pc'[q] \in Deciding PROVE OnItsWay(q)'
    BY DEF Underway
  <2>1. OnItsWay(q) /\ job'[q] = job[q] /\ job[q].attempt \in Int
    BY <1>1 DEF StartRun, Goto, IInv, TypeOK, Procs, RetryInv, Underway, Jobs
  <2>2. Parented(job[q].parent, day)'
    BY <1>1, <1>2, <2>1 DEF OnItsWay, Parented
  <2> QED
    BY <1>1, <1>3, <1>4, <2>1, <2>2, RetriesFinite DEF OnItsWay
<1>8. Numbered'
  <2> SUFFICES ASSUME NEW d \in 0 .. MaxDays, NEW r \in Windows(d)'
               PROVE  /\ Parented(rows[r].parent, d)'
                      /\ rows'[r].attempt < Cardinality(RetriesOf(d)') + 2
                      /\ \A s \in Windows(d)' \ {r} : rows'[s].attempt # rows'[r].attempt
    BY DEF Numbered
  <2>1. r \in Windows(d) /\ rows'[r] = rows[r] /\ rows[r].attempt \in Int
    BY <1>1, <1>3
  <2>2. Parented(rows[r].parent, d)'
    BY <1>1, <1>2, <2>1 DEF RetryInv, Numbered, Parented
  <2>3. rows'[r].attempt < Cardinality(RetriesOf(d)') + 2
    BY <1>4, <2>1, RetriesFinite DEF RetryInv, Numbered
  <2> QED
    BY <1>1, <1>3, <2>1, <2>2, <2>3 DEF RetryInv, Numbered
<1>9. RetryWithinBudget'
  BY <1>3 DEF RetryInv, RetryWithinBudget, Windows
<1> QED
  BY <1>6, <1>7, <1>8, <1>9 DEF RetryInv

\* A row that a window opens is the retry it decided on.
LEMMA WindowKeepsRetries ==
  ASSUME IInv, RetryInv, NEW p \in Retriers, StartRun(p) PROVE RetryInv'
<1> USE BoundsAssumption
<1> DEFINE new == last + 1
<1>0. p \in Procs /\ OnItsWay(p)
  BY DEF Procs, RetryInv, Underway, Deciding, StartRun
<1>1. /\ new \in RunIds /\ new \notin windowed /\ day' = day /\ job' = job
      /\ rows'[new] = [kind |-> job[p].kind, parent |-> job[p].parent,
                       attempt |-> job[p].attempt, slot |-> day, state |-> "open"]
      /\ \A r \in RunIds \ {new} : rows'[r] = rows[r]
      /\ \A d : DailiesOf(d) \subseteq DailiesOf(d)'
      /\ \A d : RetriesOf(d) \subseteq RetriesOf(d)' /\ new \notin RetriesOf(d)
      /\ \A d : \A r \in Windows(d) : rows'[r] = rows[r] /\ rows[r].attempt \in Int
  BY <1>0, RowOpened
<1>2. windowed' = windowed \cup {new}
  BY DEF StartRun
<1> HIDE DEF new
<1>3. job[p].kind = "retry" /\ job[p].attempt \in Int
  BY <1>0 DEF OnItsWay, IInv, TypeOK, Jobs
<1>4. /\ \A d : d # day => RetriesOf(d)' = RetriesOf(d) /\ Windows(d)' = Windows(d)
      /\ \A d : d = day => /\ RetriesOf(d)' = RetriesOf(d) \cup {new}
                            /\ Windows(d)' = Windows(d) \cup {new}
  <2>1. \A d : d # day => RetriesOf(d)' = RetriesOf(d)
    BY <1>1, <1>3 DEF RetriesOf
  <2>2. \A d : d = day => RetriesOf(d)' = RetriesOf(d) \cup {new}
    BY <1>1, <1>3 DEF RetriesOf
  <2> QED
    BY <1>1, <1>2, <2>1, <2>2 DEF Windows
<1>5. \A d : d = day => /\ Cardinality(RetriesOf(d)') = Cardinality(RetriesOf(d)) + 1
                        /\ Cardinality(Windows(d)') = Cardinality(Windows(d)) + 1
  <2> SUFFICES ASSUME NEW d, d = day
               PROVE  /\ Cardinality(RetriesOf(d)') = Cardinality(RetriesOf(d)) + 1
                      /\ Cardinality(Windows(d)') = Cardinality(Windows(d)) + 1
    OBVIOUS
  <2>1. new \notin RetriesOf(d) /\ new \notin Windows(d)
    BY <1>1 DEF Windows
  <2>2. RetriesOf(d)' = RetriesOf(d) \cup {new} /\ Windows(d)' = Windows(d) \cup {new}
    BY <1>4
  <2>3. IsFiniteSet(RetriesOf(d)) /\ IsFiniteSet(Windows(d))
    BY RetriesFinite
  <2> QED
    BY <2>1, <2>2, <2>3, FS_AddElement
<1>6. \A d, parent : Parented(parent, d) => Parented(parent, d)'
  BY <1>1, <1>2 DEF Parented
<1>7. KindsKnown'
  BY <1>1, <1>2, <1>3 DEF KindsKnown, RetryInv, IInv, TypeOK
<1>8. Underway'
  <2>1. pc'[p] \notin Deciding
    BY <1>0 DEF StartRun, Goto, IInv, TypeOK, Deciding
  <2> QED
    BY <2>1, OneWindow DEF Underway
<1>9. RetryWithinBudget'
  <2> SUFFICES ASSUME NEW d \in Days PROVE Cardinality(Windows(d)') <= MaxRetries
    BY DEF RetryWithinBudget, Windows
  <2>1. CASE d = day
    BY <1>0, <1>5, <2>1, RetriesFinite DEF OnItsWay
  <2>2. CASE d # day
    BY <1>4, <2>2 DEF RetryInv, RetryWithinBudget, Windows
  <2> QED
    BY <2>1, <2>2
<1>10. /\ rows'[new].attempt = job[p].attempt /\ rows'[new].parent = job[p].parent
       /\ job[p].attempt <= Cardinality(RetriesOf(day)) + 2
       /\ \A r \in Windows(day) : rows'[r].attempt < job[p].attempt
  BY <1>0, <1>1 DEF OnItsWay
<1>11. Numbered'
  <2> SUFFICES ASSUME NEW d \in 0 .. MaxDays, NEW r \in Windows(d)'
               PROVE  /\ Parented(rows[r].parent, d)'
                      /\ rows'[r].attempt < Cardinality(RetriesOf(d)') + 2
                      /\ \A s \in Windows(d)' \ {r} : rows'[s].attempt # rows'[r].attempt
    BY DEF Numbered
  <2>1. CASE d # day
    <3>1. r \in Windows(d) /\ rows'[r] = rows[r] /\ RetriesOf(d)' = RetriesOf(d)
          /\ Windows(d)' = Windows(d)
      BY <1>1, <1>4, <2>1
    <3>2. Parented(rows[r].parent, d)'
      BY <1>1, <1>2, <3>1 DEF RetryInv, Numbered, Parented
    <3> QED
      BY <1>1, <3>1, <3>2 DEF RetryInv, Numbered
  <2>2. CASE d = day /\ r = new
    <3>1. Parented(rows[r].parent, d)'
      BY <1>0, <1>1, <1>2, <1>10, <2>2 DEF OnItsWay, Parented
    <3>2. rows'[r].attempt < Cardinality(RetriesOf(d)') + 2
      BY <1>3, <1>5, <1>10, <2>2, RetriesFinite
    <3>3. ASSUME NEW s \in Windows(d)' \ {r} PROVE rows'[s].attempt # rows'[r].attempt
      <4>1. s \in Windows(day)
        BY <1>4, <2>2, <3>3
      <4>2. rows'[s].attempt \in Int /\ rows'[s].attempt < job[p].attempt
        BY <1>1, <1>10, <4>1
      <4> QED
        BY <1>3, <1>10, <2>2, <4>2
    <3> QED
      BY <3>1, <3>2, <3>3
  <2>3. CASE d = day /\ r # new
    <3>1. r \in Windows(d) /\ rows'[r] = rows[r] /\ rows[r].attempt \in Int
      BY <1>1, <1>4, <2>3
    <3>2. Parented(rows[r].parent, d)'
      BY <1>1, <1>2, <3>1 DEF RetryInv, Numbered, Parented
    <3>3. rows[r].attempt < Cardinality(RetriesOf(day)) + 2
      BY <2>3, <3>1 DEF RetryInv, Numbered
    <3>4. rows'[r].attempt < Cardinality(RetriesOf(d)') + 2
      BY <1>5, <2>3, <3>1, <3>3, RetriesFinite
    <3>5. ASSUME NEW s \in Windows(d)' \ {r} PROVE rows'[s].attempt # rows'[r].attempt
      <4>1. CASE s = new
        BY <1>3, <1>10, <2>3, <3>1, <4>1
      <4>2. CASE s # new
        <5>1. s \in Windows(d) \ {r} /\ rows'[s] = rows[s]
          BY <1>1, <1>4, <2>3, <3>5, <4>2
        <5> QED
          BY <3>1, <5>1 DEF RetryInv, Numbered
      <4> QED
        BY <4>1, <4>2
    <3> QED
      BY <3>2, <3>4, <3>5
  <2> QED
    BY <2>1, <2>2, <2>3
<1> QED
  BY <1>7, <1>8, <1>9, <1>11 DEF RetryInv

\* The other steps neither write a row nor decide on one.
LEMMA OtherStepsKeepRetries ==
  ASSUME IInv, RetryInv, NEW p \in Procs, Step(p), ~Decide(p), ~StartRun(p) PROVE RetryInv'
<1> USE DEF Goto, Exit, shared
<1>1. SameRuns
  <2>0. windowed' = windowed
    BY DEF Step, Launch, Acquire, Contend, QueryStale, Abandon, FailEarly, FinishRun,
           Release, Crash
  <2>1. CASE rows' = rows
    BY <2>0, <2>1 DEF SameRuns
  <2>2. CASE Abandon(p)
    <3>1. ASSUME NEW r \in RunIds
          PROVE  rows'[r] = rows[r] \/ rows'[r] = [rows[r] EXCEPT !.state = "aborted"]
      BY <2>2 DEF Abandon
    <3>2. \A r \in RunIds : rows[r] \in Row
      BY DEF IInv, TypeOK
    <3> QED
      BY <2>0, <3>1, <3>2 DEF SameRuns, Row
  <2>3. CASE FinishRun(p)
    <3>1. PICK o \in Outcomes : rows' = [rows EXCEPT ![mine[p]].state = o]
      BY <2>3 DEF FinishRun
    <3>2. o # "none"
      BY DEF Outcomes
    <3>3. ASSUME NEW r \in RunIds
          PROVE  rows'[r] = rows[r] \/ rows'[r] = [rows[r] EXCEPT !.state = o]
      BY <3>1 DEF IInv, TypeOK
    <3> QED
      BY <2>0, <3>2, <3>3 DEF SameRuns, IInv, TypeOK, Row
  <2> QED
    BY <2>1, <2>2, <2>3
    DEF Step, Launch, Acquire, Contend, QueryStale, FailEarly, Release, Crash
<1>2. day' = day /\ windowed \subseteq RunIds
  BY DEF Step, Launch, Acquire, Contend, QueryStale, Abandon, FailEarly, FinishRun,
         Release, Crash, IInv, TypeOK
<1>3. \A q \in Retriers : pc'[q] \in Deciding => job'[q] = job[q] /\ pc[q] \in Deciding
  BY ProcsAssumption
  DEF Step, Launch, Acquire, Contend, QueryStale, Abandon, FailEarly, FinishRun,
      Release, Crash, IInv, TypeOK, Deciding, Procs
<1>4. Underway'
  BY <1>1, <1>2, <1>3, StaysUnderway DEF RetryInv, Underway, Procs
<1> QED
  BY <1>1, <1>2, <1>4, SameRetries DEF RetryInv

LEMMA RetryStep == IInv /\ RetryInv /\ [Next]_vars => RetryInv'
<1> SUFFICES ASSUME IInv, RetryInv, [Next]_vars PROVE RetryInv'
  OBVIOUS
<1>1. ASSUME NEW p \in Procs, Step(p) PROVE RetryInv'
  BY <1>1, DecideKeepsRetries, CollectorKeepsRetries, WindowKeepsRetries,
     OtherStepsKeepRetries
<1>2. windowed \subseteq RunIds
  BY DEF IInv, TypeOK
<1>3. CASE Midnight
  <2>1. SameRuns
    BY <1>3 DEF Midnight, SameRuns
  <2>2. Underway'
    BY <1>3 DEF Midnight, procs, Underway
  <2> QED
    BY <1>2, <2>1, <2>2, SameRetries DEF RetryInv
<1>4. CASE UNCHANGED vars
  <2>1. SameRuns /\ job' = job /\ pc' = pc /\ day' = day
    BY <1>4 DEF SameRuns, vars, shared, procs
  <2>2. Underway'
    BY <1>2, <2>1, StaysUnderway DEF Underway, RetryInv, Procs
  <2> QED
    BY <1>2, <2>1, <2>2, SameRetries DEF RetryInv
<1> QED
  BY <1>1, <1>3, <1>4 DEF Next

THEOREM RetryInvariance == Spec => []RetryInv
  BY RetryInit, RetryStep, Invariance, PTL DEF Spec

\* The windows retry no slot more often than configured, whichever retries die and
\* whatever operators collect.
THEOREM RetriesBounded == Spec => []RetryWithinBudget
<1>1. RetryInv => RetryWithinBudget
  BY DEF RetryInv
<1> QED
  BY <1>1, RetryInvariance, PTL

\* Every window's retry belongs to the slot of a daily run, its parent, or to one that
\* an operator retried, and has a number of its own there.
THEOREM RetriesBelong == Spec => []RetryBelongsToSlot
<1>1. RetryInv /\ TypeOK => RetryBelongsToSlot
  <2> SUFFICES ASSUME RetryInv, TypeOK, NEW r \in windowed, NEW d, d = rows[r].slot
               PROVE  /\ rows[r].parent # 0 => /\ rows[rows[r].parent].kind = "daily"
                                               /\ rows[rows[r].parent].slot = d
                      /\ rows[r].parent = 0 => RetriesOf(d) \ windowed # {}
                      /\ \A s \in Windows(d) : rows[s].attempt = rows[r].attempt => s = r
    BY DEF RetryBelongsToSlot, Windows
  <2>1. d \in 0 .. MaxDays /\ r \in Windows(d)
    BY DEF TypeOK, Row, RetriesOf, Windows, RetryInv, KindsKnown
  <2>2. Parented(rows[r].parent, d)
    BY <2>1 DEF RetryInv, Numbered
  <2>3. \A s \in Windows(d) \ {r} : rows[s].attempt # rows[r].attempt
    BY <2>1 DEF RetryInv, Numbered
  <2> QED
    BY <2>2, <2>3 DEF DailiesOf, Parented
<1> QED
  BY <1>1, RetryInvariance, TypeCorrect, PTL

-----------------------------------------------------------------------------
(* What the rows tell.                                                       *)

\* A step that writes no row tells nothing.
LEMMA QuietTold ==
  ASSUME IInv, [Next]_vars,
         ~\E p \in Procs : Abandon(p) \/ StartRun(p) \/ FinishRun(p)
  PROVE  Told' = Told
  BY RowSteps DEF Told

\* Each transaction is a step of the ledger.  When a row is opened every earlier one
\* is closed, and when rows are given up these are all that are open.
LEMMA LedgerStep == IInv /\ [Next]_vars => [Ledger!Next]_Told
<1> SUFFICES ASSUME IInv, [Next]_vars PROVE Ledger!Next \/ Told' = Told
  OBVIOUS
<1> USE BoundsAssumption DEF IInv, TypeOK
<1>1. RunIds = Ledger!Ids
  BY DEF RunIds, Ledger!Ids
<1>2. ASSUME NEW p \in Procs, Abandon(p) PROVE Ledger!Next
  <2>1. stale[p] = Open
    BY <1>2 DEF StaleKnown, Abandon
  <2>2. \A r \in RunIds : Told'[r] = Ledger!GivenUp(r)
    BY <1>2, <2>1 DEF Abandon, Told, Open, Ledger!GivenUp
  <2>3. Ledger!GiveUp
    BY <1>1, <2>2 DEF Told, Ledger!GiveUp
  <2> QED
    BY <2>3 DEF Ledger!Next
<1>3. ASSUME NEW p \in Procs, StartRun(p) PROVE Ledger!Next
  <2> DEFINE r == last + 1
  <2>1. r \in RunIds /\ Open = {}
    BY <1>3 DEF RowOwned, StartRun, RunIds
  <2>2. Told[r] = "none" /\ \A s \in 1 .. r - 1 : Told[s] # "none"
    BY <2>1 DEF Unwritten, Told, RunIds
  <2>3. \A s \in RunIds : Told'[s] = IF s = r THEN "open" ELSE Ledger!GivenUp(s)
    BY <1>3, <2>1 DEF StartRun, Told, Open, Ledger!GivenUp
  <2>4. Ledger!Begin(r)
    <3> HIDE DEF r
    <3> QED
      BY <1>1, <2>2, <2>3 DEF Told, Ledger!Begin
  <2> QED
    BY <1>1, <2>1, <2>4 DEF Ledger!Next
<1>4. ASSUME NEW p \in Procs, FinishRun(p) PROVE Ledger!Next
  <2>1. PICK how \in Outcomes : rows' = [rows EXCEPT ![mine[p]].state = how]
    BY <1>4 DEF FinishRun
  <2>2. mine[p] \in RunIds /\ Told[mine[p]] = "open"
    BY <1>4 DEF FinishRun, RowOwned, Open, Told
  <2>3. Told' = [Told EXCEPT ![mine[p]] = how]
    <3>1. \A r \in RunIds : rows'[r].state = IF r = mine[p] THEN how ELSE rows[r].state
      BY <2>1, <2>2 DEF Row
    <3>2. \A r \in RunIds : Told'[r] = IF r = mine[p] THEN how ELSE Told[r]
      BY <3>1 DEF Told
    <3> QED
      BY <3>2 DEF Told
  <2>4. Ledger!Close(mine[p])
    BY <2>2, <2>3 DEF Ledger!Close, Ledger!Endings, Outcomes
  <2> QED
    BY <1>1, <2>2, <2>4 DEF Ledger!Next
<1> QED
  BY <1>2, <1>3, <1>4, QuietTold

\* Run control implements RunLedger, for any number of processes that start, overlap
\* and are killed, and any number of runs.
THEOREM LedgerKept == Spec => KeepsLedger
<1>1. Init => Ledger!Init
  BY DEF Init, Absent, Told, RunIds, Ledger!Init, Ledger!Ids
<1> QED
  BY <1>1, LedgerStep, Invariance, PTL DEF Spec, KeepsLedger, Ledger!Spec
=============================================================================
