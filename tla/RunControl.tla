---------------------------- MODULE RunControl ------------------------------
(***************************************************************************)
(* Who may collect, and what becomes of the rows of collection_runs.       *)
(*                                                                         *)
(* Collections are started by a timer, by a retry window or by an          *)
(* operator, each in a process of its own.  A process takes the exclusive  *)
(* collector lock, closes the rows that dead processes left open, opens a  *)
(* row of its own, collects, closes its row and releases the lock.  It can *)
(* be killed at any point: the kernel then drops the lock, and the row     *)
(* stays open.  A retry window decides from the rows of today's slot       *)
(* whether there is anything to retry, before it takes the lock.           *)
(***************************************************************************)
EXTENDS Integers, FiniteSets

CONSTANTS
  Collectors,    \* processes that run "rowanjobs collect"
  Retriers,      \* processes that run "rowanjobs retry"
  NoProc,        \* the collector lock is free
  MaxRetries,    \* schedule.max_retries_per_slot
  Parents,       \* --parent-run as operators give it; 0 is none
  Attempts,      \* --attempt as operators give it
  MaxRuns,       \* bound: rows of collection_runs
  MaxByHand,     \* bound: those of them that operators ask for
  MaxDays        \* bound: scheduled slots

ASSUME ProcsAssumption  == /\ Collectors \cap Retriers = {}
                           /\ NoProc \notin Collectors \cup Retriers
\* systemd runs one instance of the retry unit.
ASSUME OneWindow == \A p, q \in Retriers : p = q
ASSUME BoundsAssumption == /\ MaxRetries \in Nat /\ MaxRuns \in Nat /\ MaxByHand \in Nat
                           /\ MaxDays \in Nat \ {0}
                           /\ Parents \subseteq 0 .. MaxRuns /\ Attempts \subseteq Int

VARIABLES
  rows,          \* collection_runs
  last,          \* the highest run_id
  windowed,      \* history: the rows that retry windows opened
  day,           \* the local date, which names the slot
  holder,        \* the process that holds the flock on the lock file
  pc, job, stale, mine    \* of each process; mine is its run_id, or 0

shared == <<rows, last, windowed, day, holder>>
procs  == <<pc, job, stale, mine>>
vars   == <<shared, procs>>

Procs  == Collectors \cup Retriers
RunIds == 1 .. MaxRuns
Days   == 1 .. MaxDays

Kinds    == {"daily", "retry", "manual", "verification"}
Outcomes == {"success", "partial", "failed"}
States   == {"none", "open", "aborted"} \cup Outcomes
Jobs     == [kind : Kinds, parent : 0 .. MaxRuns, attempt : Int]
Row      == [kind : Kinds, parent : 0 .. MaxRuns, attempt : Int,
             slot : 0 .. MaxDays, state : States]

Fresh  == [kind |-> "manual", parent |-> 0, attempt |-> 1]
Absent == [kind |-> "manual", parent |-> 0, attempt |-> 1, slot |-> 0, state |-> "none"]

Open     == {r \in RunIds : rows[r].state = "open"}
Locked   == {"query", "abandon", "start", "collect", "release"}
Deciding == {"lock", "query", "abandon", "start"}

-----------------------------------------------------------------------------
Init ==
  /\ rows = [r \in RunIds |-> Absent] /\ last = 0 /\ windowed = {}
  /\ day = 1 /\ holder = NoProc
  /\ pc = [p \in Procs |-> "idle"] /\ job = [p \in Procs |-> Fresh]
  /\ stale = [p \in Procs |-> {}] /\ mine = [p \in Procs |-> 0]

Goto(p, label) == pc' = [pc EXCEPT ![p] = label]

\* The process is over, and with it what it knew.
Exit(p) == /\ Goto(p, "idle")
           /\ job' = [job EXCEPT ![p] = Fresh]
           /\ stale' = [stale EXCEPT ![p] = {}]
           /\ mine' = [mine EXCEPT ![p] = 0]

\* rowanjobs.service says --kind daily and nothing else.
Scheduled == [Fresh EXCEPT !.kind = "daily"]

\* The rows that operators asked for, as far as a row shows it.
ByHand == {r \in RunIds \ windowed :
             /\ rows[r].state # "none"
             /\ <<rows[r].kind, rows[r].parent, rows[r].attempt>> # <<"daily", 0, 1>>}

\* The timer starts a collection, or an operator one of any kind, which is not held
\* against the rows of the slot, not even when it is a retry.
Launch(p) ==
  /\ p \in Collectors /\ pc[p] = "idle"
  /\ \/ job' = [job EXCEPT ![p] = Scheduled]
     \/ /\ Cardinality(ByHand) < MaxByHand
        /\ \E kind \in Kinds, parent \in Parents, attempt \in Attempts :
             job' = [job EXCEPT ![p] = [kind |-> kind, parent |-> parent, attempt |-> attempt]]
  /\ Goto(p, "lock")
  /\ UNCHANGED <<shared, stale, mine>>

-----------------------------------------------------------------------------
(* cmd_retry: one read of the slot's rows, without the lock.               *)

SlotRuns    == {r \in RunIds : /\ rows[r].state # "none" /\ rows[r].slot = day
                               /\ rows[r].kind \in {"daily", "retry"}}
SlotRetries == {r \in SlotRuns : rows[r].kind = "retry"}
SlotDailies == SlotRuns \ SlotRetries

\* Slip for RetryWithinBudget: the limit is compared with the wrong relation.
MayRetry_OneMore ==
  /\ SlotRuns # {} /\ SlotRuns \cap Open = {}
  /\ \A r \in SlotRuns : rows[r].state # "success"
  /\ Cardinality(SlotRetries) <= MaxRetries

\* The slot was due, no run of it is in progress, none resolved it, and the
\* budget is not spent.
MayRetry ==
  /\ SlotRuns # {} /\ SlotRuns \cap Open = {}
  /\ \A r \in SlotRuns : rows[r].state # "success"
  /\ Cardinality(SlotRetries) < MaxRetries

FirstDaily == CHOOSE r \in SlotDailies : \A s \in SlotDailies : r <= s

\* Slip for RetryBelongsToSlot: retries that died are not counted as attempts.
RetryJob_LivingAttempts ==
  [kind    |-> "retry",
   parent  |-> IF SlotDailies = {} THEN 0 ELSE FirstDaily,
   attempt |-> Cardinality({r \in SlotRetries : rows[r].state # "aborted"}) + 2]

RetryJob == [kind    |-> "retry",
             parent  |-> IF SlotDailies = {} THEN 0 ELSE FirstDaily,
             attempt |-> Cardinality(SlotRetries) + 2]

\* A window that may not retry leaves no trace.
Decide(p) ==
  /\ p \in Retriers /\ pc[p] = "idle"
  /\ MayRetry
  /\ job' = [job EXCEPT ![p] = RetryJob]
  /\ Goto(p, "lock")
  /\ UNCHANGED <<shared, stale, mine>>

-----------------------------------------------------------------------------
(* Collector.run and _run_locked.                                          *)

\* Slip for OnlyDeadRunsAborted: the lock is not exclusive.
Acquire_Shared(p) ==
  /\ pc[p] = "lock"
  /\ holder' = p
  /\ Goto(p, "query")
  /\ UNCHANGED <<rows, last, windowed, day, job, stale, mine>>

Acquire(p) ==
  /\ pc[p] = "lock" /\ holder = NoProc
  /\ holder' = p
  /\ Goto(p, "query")
  /\ UNCHANGED <<rows, last, windowed, day, job, stale, mine>>

\* LockContention: nothing is recorded.
Contend(p) ==
  /\ pc[p] = "lock" /\ holder # NoProc
  /\ Exit(p)
  /\ UNCHANGED <<shared>>

\* Slips for ClosedRunsFinal, every run that is no success counts as stale, and
\* for NoTwoRunsOpen, only runs of today's slot do.
StaleRuns_Unsuccessful == {r \in RunIds : rows[r].state \notin {"none", "success"}}
StaleRuns_Today        == {r \in Open : rows[r].slot = day}

\* abandon_stale_runs reads the open rows in one statement ...
StaleRuns == Open

QueryStale(p) ==
  /\ pc[p] = "query"
  /\ stale' = [stale EXCEPT ![p] = StaleRuns]
  /\ Goto(p, "abandon")
  /\ UNCHANGED <<shared, job, mine>>

\* ... and closes them by run_id in a later transaction.
Abandon(p) ==
  /\ pc[p] = "abandon"
  /\ rows' = [r \in RunIds |-> IF r \in stale[p]
                               THEN [rows[r] EXCEPT !.state = "aborted"] ELSE rows[r]]
  /\ stale' = [stale EXCEPT ![p] = {}]
  /\ Goto(p, "start")
  /\ UNCHANGED <<last, windowed, day, holder, job, mine>>

\* Slip for TypeOK: the process takes the id after its own.
StartRun_NextId(p) ==
  /\ pc[p] = "start" /\ last < MaxRuns /\ job[p].parent <= last
  /\ last' = last + 1
  /\ windowed' = IF p \in Retriers THEN windowed \cup {last + 1} ELSE windowed
  /\ mine' = [mine EXCEPT ![p] = last + 2]
  /\ rows' = [rows EXCEPT ![last + 1] =
                [kind |-> job[p].kind, parent |-> job[p].parent,
                 attempt |-> job[p].attempt, slot |-> day, state |-> "open"]]
  /\ Goto(p, "collect")
  /\ UNCHANGED <<day, holder, job, stale>>

\* slot_for(None, ...): the slot is that of the moment the row is written.  A parent
\* is a foreign key, so a row with one that does not exist is refused.
StartRun(p) ==
  /\ pc[p] = "start" /\ last < MaxRuns /\ job[p].parent <= last
  /\ last' = last + 1
  /\ windowed' = IF p \in Retriers THEN windowed \cup {last + 1} ELSE windowed
  /\ mine' = [mine EXCEPT ![p] = last + 1]
  /\ rows' = [rows EXCEPT ![last + 1] =
                [kind |-> job[p].kind, parent |-> job[p].parent,
                 attempt |-> job[p].attempt, slot |-> day, state |-> "open"]]
  /\ Goto(p, "collect")
  /\ UNCHANGED <<day, holder, job, stale>>

\* An exception before the row exists: there is nothing to close.
FailEarly(p) ==
  /\ pc[p] \in {"query", "abandon", "start"}
  /\ stale' = [stale EXCEPT ![p] = {}]
  /\ Goto(p, "release")
  /\ UNCHANGED <<shared, job, mine>>

\* finish_run, with the outcome of the collection or, after an exception, failed.
FinishRun(p) ==
  /\ pc[p] = "collect"
  /\ \E outcome \in Outcomes : rows' = [rows EXCEPT ![mine[p]].state = outcome]
  /\ mine' = [mine EXCEPT ![p] = 0]
  /\ Goto(p, "release")
  /\ UNCHANGED <<last, windowed, day, holder, job, stale>>

Release(p) ==
  /\ pc[p] = "release"
  /\ holder' = NoProc
  /\ Exit(p)
  /\ UNCHANGED <<rows, last, windowed, day>>

\* The process is killed; a flock dies with its holder.
Crash(p) ==
  /\ pc[p] # "idle"
  /\ Exit(p)
  /\ holder' = IF holder = p THEN NoProc ELSE holder
  /\ UNCHANGED <<rows, last, windowed, day>>

\* Assumed: midnight does not fall in the seconds between a retry's decision and
\* its row (see the README).
Midnight ==
  /\ day < MaxDays
  /\ \A p \in Retriers : pc[p] \notin Deciding
  /\ day' = day + 1
  /\ UNCHANGED <<rows, last, windowed, holder, procs>>

Step(p) ==
  \/ Launch(p) \/ Decide(p) \/ Acquire(p) \/ Contend(p) \/ QueryStale(p)
  \/ Abandon(p) \/ StartRun(p) \/ FailEarly(p) \/ FinishRun(p) \/ Release(p)
  \/ Crash(p)

Next == (\E p \in Procs : Step(p)) \/ Midnight

Spec == Init /\ [][Next]_vars

-----------------------------------------------------------------------------
(* Properties.                                                             *)

TypeOK ==
  /\ rows \in [RunIds -> Row] /\ last \in 0 .. MaxRuns /\ windowed \subseteq RunIds
  /\ day \in Days
  /\ holder \in Procs \cup {NoProc}
  /\ pc \in [Procs -> {"idle", "lock"} \cup Locked]
  /\ job \in [Procs -> Jobs]
  /\ stale \in [Procs -> SUBSET RunIds]
  /\ mine \in [Procs -> 0 .. MaxRuns]

\* A row is marked aborted only if the process that opened it no longer collects
\* into it: the comment in abandon_stale_runs ("any open run belongs to a process
\* that died"), although the rows are read in one step and closed in another.
OnlyDeadRunsAborted ==
  [][\A r \in RunIds : rows[r].state = "open" /\ rows'[r].state = "aborted"
        => \A p \in Procs : mine[p] # r]_vars

\* A row that was closed is never opened again, closed a second time with another
\* outcome, or moved to another slot: finish_run and abandon_stale_runs both
\* update by run_id without looking at the row again.
ClosedRunsFinal ==
  [][\A r \in RunIds : rows[r].state \notin {"none", "open"} => rows'[r] = rows[r]]_vars

\* When a run opens its row, every earlier row is closed: whatever died before,
\* readers of collection_runs never see two runs in progress (_run_locked).
NoTwoRunsOpen == \A r, s \in Open : r = s

\* The rows tell a plain story: see RunLedger.
Told   == [r \in RunIds |-> rows[r].state]
Ledger == INSTANCE RunLedger WITH state <- Told

\* RunControl implements RunLedger: however processes start, overlap and die, rows
\* are opened in order, one at a time, and closed for good (start_run, finish_run
\* and abandon_stale_runs, each a transaction of its own).
KeepsLedger == Ledger!Spec

RetriesOf(d) == {r \in RunIds : rows[r].kind = "retry" /\ rows[r].slot = d}

\* The retry windows never retry a slot more often than configured, whichever of the
\* retries crash, and whatever operators collect meanwhile (cmd_retry; one retry
\* process at a time, as systemd runs one unit once).
RetryWithinBudget == \A d \in Days : Cardinality(RetriesOf(d) \cap windowed) <= MaxRetries

\* OBSERVATION_SEMANTICS section 4: a window's retry belongs to the slot of its
\* parent, which is a daily run, and the windows' attempts at a slot are numbered
\* apart, even from a reading that other processes overtook.  It lacks a parent only
\* in a slot where an operator launched a retry.
RetryBelongsToSlot ==
  \A r \in windowed :
    LET slot == rows[r].slot IN
    /\ rows[r].parent # 0 => /\ rows[rows[r].parent].kind = "daily"
                            /\ rows[rows[r].parent].slot = slot
    /\ rows[r].parent = 0 => RetriesOf(slot) \ windowed # {}
    /\ \A s \in RetriesOf(slot) \cap windowed : rows[s].attempt = rows[r].attempt => s = r
=============================================================================
