------------------------------- MODULE Notify -------------------------------
(***************************************************************************)
(* The report that goes out after a collection run.                        *)
(*                                                                         *)
(* Delivery state is a row per run in notifications.  Several processes    *)
(* work on those rows: the collection itself once its run has ended and    *)
(* the collector lock is released, an hourly timer, and an operator who    *)
(* asks for a catch-up or for one run.  No lock keeps them apart: each     *)
(* reads a row, talks to the mail provider outside any transaction, and    *)
(* then writes the row from what it had read.                              *)
(*                                                                         *)
(* The provider is external.  It accepts a message, rejects it for now or  *)
(* for good, or takes it while its answer is lost.  Reporting is           *)
(* configured, and the twenty-row limit of a sweep is never reached.       *)
(***************************************************************************)
EXTENDS Integers, FiniteSets

CONSTANTS
  Runs,            \* collection_runs, in the order of their run_id: 1 .. n
  Timers,          \* processes that run "rowanjobs notify" every hour
  Hosts,           \* processes that run "rowanjobs collect" or an operator's "notify"
  MaxAttempts,     \* notify.max_attempts
  MaxLaunches,     \* bound: processes started by hand or to collect
  MaxCrashes       \* bound: processes that die

ASSUME ProcsAssumption  == Timers \cap Hosts = {}
ASSUME BoundsAssumption ==
  /\ Runs \subseteq Nat \ {0} /\ MaxAttempts \in Nat \ {0}
  /\ MaxLaunches \in Nat /\ MaxCrashes \in Nat

VARIABLES
  status,          \* of each run: "future", "open", or "ended" (ended_at_utc is set)
  old,             \* runs that ended before reporting existed (reporting_epoch)
  note,            \* notifications: the row of each run
  delivered,       \* runs of whose report the provider took a copy
  refused,         \* runs whose report the provider rejected for good at some time
  pc, task, own, cur, snap, work, reply,   \* of each process
  launches, crashes

archive == <<status, old, note>>
outside == <<delivered, refused>>
procs   == <<pc, task, own, cur, snap, work, reply>>
bounds  == <<launches, crashes>>
vars    == <<archive, outside, procs, bounds>>

Procs  == Timers \cup Hosts
States == {"none", "pending", "accepted", "failed", "abandoned", "skipped"}
Row    == [state : States, attempts : 0 .. MaxAttempts]
NoRow  == [state |-> "none", attempts |-> 0]
Tasks  == {"none", "collect", "notify", "catch_up", "one_run"}

Owed    == {r \in Runs : note[r].state \in {"pending", "failed"}}
Settled == {"skipped", "abandoned"}

\* Completed runs with no report row at all.
UnreportedRuns == {r \in Runs : status[r] = "ended" /\ note[r].state = "none"}

-----------------------------------------------------------------------------
Init ==
  /\ \E last \in Runs \cup {0} : old = {r \in Runs : r <= last}
  /\ status = [r \in Runs |-> IF r \in old THEN "ended" ELSE "future"]
  /\ note = [r \in Runs |-> NoRow]
  /\ delivered = {} /\ refused = {}
  /\ pc = [p \in Procs |-> "idle"] /\ task = [p \in Procs |-> "none"]
  /\ own = [p \in Procs |-> 0] /\ cur = [p \in Procs |-> 0]
  /\ snap = [p \in Procs |-> NoRow] /\ work = [p \in Procs |-> {}]
  /\ reply = [p \in Procs |-> "none"]
  /\ launches = 0 /\ crashes = 0

Goto(p, label) == pc' = [pc EXCEPT ![p] = label]

Exit(p) ==
  /\ Goto(p, "idle") /\ task' = [task EXCEPT ![p] = "none"]
  /\ own' = [own EXCEPT ![p] = 0] /\ cur' = [cur EXCEPT ![p] = 0]
  /\ snap' = [snap EXCEPT ![p] = NoRow] /\ work' = [work EXCEPT ![p] = {}]
  /\ reply' = [reply EXCEPT ![p] = "none"]

Become(p, what) == task' = [task EXCEPT ![p] = what]

\* A run needs the collector lock, and closes the runs of dead processes.
Collecting == {p \in Procs : pc[p] = "collecting"}

StartCollection(p) ==
  /\ p \in Hosts /\ pc[p] = "idle" /\ Collecting = {} /\ launches < MaxLaunches
  /\ \E r \in Runs :
       /\ status[r] = "future" /\ \A s \in Runs : s < r => status[s] # "future"
       /\ status' = [s \in Runs |-> IF s = r THEN "open"
                                    ELSE IF status[s] = "open" THEN "ended" ELSE status[s]]
       /\ own' = [own EXCEPT ![p] = r]
  /\ Become(p, "collect") /\ Goto(p, "collecting")
  /\ launches' = launches + 1
  /\ UNCHANGED <<old, note, outside, cur, snap, work, reply, crashes>>

FinishRun(p) ==
  /\ pc[p] = "collecting"
  /\ status' = [status EXCEPT ![own[p]] = "ended"]
  /\ Goto(p, "seed")
  /\ UNCHANGED <<old, note, outside, task, own, cur, snap, work, reply, bounds>>

\* cmd_notify, by the timer.
Tick(p) ==
  /\ p \in Timers /\ pc[p] = "idle"
  /\ Become(p, "notify") /\ Goto(p, "seed")
  /\ UNCHANGED <<archive, outside, own, cur, snap, work, reply, bounds>>

\* cmd_notify, by an operator: --catch-up, or --run.
Ask(p) ==
  /\ p \in Hosts /\ pc[p] = "idle" /\ launches < MaxLaunches
  /\ launches' = launches + 1
  /\ \/ /\ Become(p, "catch_up") /\ Goto(p, "unreported")
        /\ UNCHANGED cur
     \/ /\ Become(p, "one_run") /\ Goto(p, "queue")
        /\ \E r \in Runs : status[r] # "future" /\ cur' = [cur EXCEPT ![p] = r]
  /\ UNCHANGED <<archive, outside, own, snap, work, reply, crashes>>

-----------------------------------------------------------------------------
(* seed_baseline: while there is no row at all, runs that ended before     *)
(* reporting existed are settled as skipped.                               *)

\* Slip for SettledForAReason: an empty table is taken to mean a new installation.
Unowed_AnyRun(p) == IF \A r \in Runs : note[r].state = "none"
                    THEN UnreportedRuns \ {own[p]} ELSE {}

\* What there is to settle for a process that has just collected its own run.
Unowed(p) == IF \A r \in Runs : note[r].state = "none"
             THEN (UnreportedRuns \cap old) \ {own[p]} ELSE {}

\* UNIQUE(run_id, kind): an insert that comes second raises, and the command ends.
Conflict(p, rs) == \E r \in rs : note[r].state # "none"

Seeded(p) == /\ Goto(p, IF task[p] = "collect" THEN "queue" ELSE "list")
             /\ cur' = [cur EXCEPT ![p] = own[p]]

SeedRead(p) ==
  /\ pc[p] = "seed"
  /\ \/ /\ Unowed(p) # {}
        /\ work' = [work EXCEPT ![p] = Unowed(p)]
        /\ Goto(p, "seed_write")
        /\ UNCHANGED cur
     \/ /\ Unowed(p) = {}
        /\ Seeded(p)
        /\ UNCHANGED work
  /\ UNCHANGED <<archive, outside, task, own, snap, reply, bounds>>

SeedWrite(p) ==
  /\ pc[p] = "seed_write" /\ ~Conflict(p, work[p])
  /\ note' = [r \in Runs |-> IF r \in work[p]
                             THEN [NoRow EXCEPT !.state = "skipped"] ELSE note[r]]
  /\ work' = [work EXCEPT ![p] = {}]
  /\ Seeded(p)
  /\ UNCHANGED <<status, old, outside, task, own, snap, reply, bounds>>

-----------------------------------------------------------------------------
(* queue: compose the report of one run and record it as pending.          *)

\* sweep(catch_up): all unreported runs, one after the other.
ListUnreported(p) ==
  /\ pc[p] = "unreported"
  /\ work' = [work EXCEPT ![p] = UnreportedRuns]
  /\ Goto(p, "next_unreported")
  /\ UNCHANGED <<archive, outside, task, own, cur, snap, reply, bounds>>

NextUnreported(p) ==
  /\ pc[p] = "next_unreported"
  /\ \/ \E r \in work[p] :
          /\ cur' = [cur EXCEPT ![p] = r]
          /\ work' = [work EXCEPT ![p] = @ \ {r}]
          /\ Goto(p, "queue")
     \/ /\ work[p] = {}
        /\ Goto(p, "list")
        /\ UNCHANGED <<cur, work>>
  /\ UNCHANGED <<archive, outside, task, own, snap, reply, bounds>>

\* A row that is accepted, owed, or settled and not revived keeps its state.
Revives(p) == task[p] = "one_run" /\ note[cur[p]].state \in Settled
Inserts(p) == note[cur[p]].state = "none"

AfterQueue(p) == IF task[p] = "catch_up" THEN "next_unreported" ELSE "deliver"

QueueRead(p) ==
  /\ pc[p] = "queue"
  /\ \/ /\ Inserts(p) \/ Revives(p)
        /\ snap' = [snap EXCEPT ![p] = note[cur[p]]]
        /\ Goto(p, "queue_write")
     \/ /\ ~Inserts(p) /\ ~Revives(p)
        /\ Goto(p, AfterQueue(p))
        /\ UNCHANGED snap
  /\ UNCHANGED <<archive, outside, task, own, cur, work, reply, bounds>>

\* An insert, or an update by notification_id that restores the attempts.
QueueWrite(p) ==
  /\ pc[p] = "queue_write"
  /\ snap[p].state = "none" => ~Conflict(p, {cur[p]})
  /\ note' = [note EXCEPT ![cur[p]] = [NoRow EXCEPT !.state = "pending"]]
  /\ snap' = [snap EXCEPT ![p] = NoRow]
  /\ Goto(p, AfterQueue(p))
  /\ UNCHANGED <<status, old, outside, task, own, cur, work, reply, bounds>>

\* IntegrityError, in queue or in seed_baseline.
Collide(p) ==
  /\ \/ pc[p] = "seed_write" /\ Conflict(p, work[p])
     \/ pc[p] = "queue_write" /\ snap[p].state = "none" /\ Conflict(p, {cur[p]})
  /\ Exit(p)
  /\ UNCHANGED <<archive, outside, bounds>>

-----------------------------------------------------------------------------
(* retry_pending and deliver.                                              *)

\* Slip for OwedIsSettled: reports that failed once are not swept.
ListOwed_PendingOnly(p) ==
  /\ pc[p] = "list"
  /\ work' = [work EXCEPT ![p] = {r \in Runs : note[r].state = "pending"} \ {own[p]}]
  /\ cur' = [cur EXCEPT ![p] = 0]
  /\ Goto(p, "next_owed")
  /\ UNCHANGED <<archive, outside, task, own, snap, reply, bounds>>

ListOwed(p) ==
  /\ pc[p] = "list"
  /\ work' = [work EXCEPT ![p] = Owed \ {own[p]}]
  /\ cur' = [cur EXCEPT ![p] = 0]
  /\ Goto(p, "next_owed")
  /\ UNCHANGED <<archive, outside, task, own, snap, reply, bounds>>

NextOwed(p) ==
  /\ pc[p] = "next_owed"
  /\ \/ \E r \in work[p] :
          /\ cur' = [cur EXCEPT ![p] = r]
          /\ work' = [work EXCEPT ![p] = @ \ {r}]
          /\ Goto(p, "deliver")
          /\ UNCHANGED <<task, own, snap, reply>>
     \/ work[p] = {} /\ Exit(p)
  /\ UNCHANGED <<archive, outside, bounds>>

\* The collection sweeps after its own report; the others go on or are done.
Sweeping(p)     == task[p] # "one_run"
AfterDeliver(p) == IF task[p] = "collect" /\ cur[p] = own[p] THEN "list" ELSE "next_owed"

Leave(p) == \/ Sweeping(p) /\ Goto(p, AfterDeliver(p)) /\ snap' = [snap EXCEPT ![p] = NoRow]
                /\ reply' = [reply EXCEPT ![p] = "none"]
                /\ UNCHANGED <<task, own, cur, work>>
            \/ ~Sweeping(p) /\ Exit(p)

\* A row that is accepted or settled is left alone.
DeliverRead(p) ==
  /\ pc[p] = "deliver"
  /\ \/ /\ cur[p] \in Owed
        /\ snap' = [snap EXCEPT ![p] = note[cur[p]]]
        /\ Goto(p, "send")
        /\ UNCHANGED <<task, own, cur, work, reply>>
     \/ cur[p] \notin Owed /\ Leave(p)
  /\ UNCHANGED <<archive, outside, bounds>>

\* SMTP: accepted; 4xx, timeout or no connection; 5xx, refused or no credential.
Send(p) ==
  /\ pc[p] = "send"
  /\ \/ /\ \E answer \in {"accepted", "transient"} : reply' = [reply EXCEPT ![p] = answer]
        /\ delivered' = delivered \cup {cur[p]}
        /\ UNCHANGED refused
     \/ /\ reply' = [reply EXCEPT ![p] = "transient"]
        /\ UNCHANGED outside
     \/ /\ reply' = [reply EXCEPT ![p] = "permanent"]
        /\ refused' = refused \cup {cur[p]}
        /\ UNCHANGED delivered
  /\ Goto(p, "record")
  /\ UNCHANGED <<archive, task, own, cur, snap, work, bounds>>

\* Slip for OwedHasAttemptsLeft: one attempt too many.
Exhausted_OneMore(p, attempts) == attempts > MaxAttempts \/ reply[p] = "permanent"

Exhausted(p, attempts) == attempts >= MaxAttempts \/ reply[p] = "permanent"

\* The row is written from the attempt count that was read before the mail went out.
Record(p) ==
  LET attempts == snap[p].attempts + 1 IN
  /\ pc[p] = "record"
  /\ note' = [note EXCEPT
       ![cur[p]].state = IF reply[p] = "accepted" THEN "accepted"
                         ELSE IF Exhausted(p, attempts) THEN "abandoned" ELSE "failed",
       ![cur[p]].attempts = attempts]
  /\ Leave(p)
  /\ UNCHANGED <<status, old, outside, bounds>>

-----------------------------------------------------------------------------
\* The process dies; its run, if it has one and it is open, stays open.
Crash(p) ==
  /\ pc[p] # "idle" /\ crashes < MaxCrashes
  /\ crashes' = crashes + 1
  /\ Exit(p)
  /\ UNCHANGED <<archive, outside, launches>>

Progress(p) ==
  \/ FinishRun(p) \/ SeedRead(p) \/ SeedWrite(p) \/ ListUnreported(p) \/ NextUnreported(p)
  \/ QueueRead(p) \/ QueueWrite(p) \/ Collide(p) \/ ListOwed(p) \/ NextOwed(p)
  \/ DeliverRead(p) \/ Send(p) \/ Record(p)

Next == \E p \in Procs :
  Tick(p) \/ StartCollection(p) \/ Ask(p) \/ Progress(p) \/ Crash(p)

\* The timer comes round every hour, and what was started goes on.
Spec == Init /\ [][Next]_vars
             /\ \A t \in Timers : WF_vars(Tick(t))
             /\ \A p \in Procs  : WF_vars(Progress(p))

-----------------------------------------------------------------------------
(* Properties.                                                             *)

TypeOK ==
  /\ status \in [Runs -> {"future", "open", "ended"}] /\ old \subseteq Runs
  /\ note \in [Runs -> Row]
  /\ delivered \subseteq Runs /\ refused \subseteq Runs
  /\ task \in [Procs -> Tasks] /\ own \in [Procs -> Runs \cup {0}]
  /\ cur \in [Procs -> Runs \cup {0}] /\ snap \in [Procs -> Row]
  /\ work \in [Procs -> SUBSET Runs]
  /\ reply \in [Procs -> {"none", "accepted", "transient", "permanent"}]
  /\ launches \in 0 .. MaxLaunches /\ crashes \in 0 .. MaxCrashes

\* No row claims more than what happened, whichever processes wrote to it in
\* whichever order: accepted means the provider took a copy, skipped that the run
\* precedes reporting ("a run that finished after reporting existed and still has
\* no report is a genuine gap"), and abandoned that the attempts are spent or the
\* provider refused for good (deliver, seed_baseline).
SettledForAReason ==
  \A r \in Runs :
    /\ note[r].state = "accepted"  => r \in delivered
    /\ note[r].state = "skipped"   => r \in old
    /\ note[r].state = "abandoned" => note[r].attempts = MaxAttempts \/ r \in refused

\* A report that is owed still has attempts left, so that the sweeps can end it,
\* although two deliveries of it may each count the same attempt (deliver).
OwedHasAttemptsLeft == \A r \in Owed : note[r].attempts < MaxAttempts

\* A report once owed does not stay so for good: the hourly sweep has it accepted
\* or gives up, although processes die and operators revive.
OwedIsSettled == \A r \in Runs : r \in Owed ~> r \notin Owed
=============================================================================
