------------------------------ MODULE Harvest -------------------------------
(***************************************************************************)
(* The detail phase of a collection run: what is queued, in which order it *)
(* is retrieved, what happens to a retrieval that fails, and what the run  *)
(* may call itself at the end.                                             *)
(*                                                                         *)
(* Collector._collect queues every advertisement the discovery traversal   *)
(* found and a bounded number of unlisted ones, drains the queue one item  *)
(* at a time, retrieves outside the queue whatever only the verification   *)
(* traversal found, and derives the outcome of the run from what happened. *)
(* The queue is in the archive: a process that dies leaves its items as    *)
(* they are, and the next run finds them.                                  *)
(*                                                                         *)
(* The traversals (Presence, Traversal) and the choice of the unlisted     *)
(* advertisements that are due are inputs here.                            *)
(***************************************************************************)
EXTENDS Integers, FiniteSets

CONSTANTS
  Postings,        \* external job ids, the work_key of a queue item
  MaxHistorical,   \* collection.max_historical_rechecks_per_run
  MaxDetails,      \* values of --max-details that operators use; Unbounded: none
  Unbounded,       \* larger than any number of attempts a run can make
  MaxRuns          \* bound: collection runs

ASSUME BoundsAssumption ==
  /\ MaxHistorical \in Nat /\ MaxRuns \in Nat /\ Unbounded \in Nat
  /\ Unbounded \in MaxDetails /\ MaxDetails \subseteq Nat
  /\ Unbounded > 2 * Cardinality(Postings)

VARIABLES
  \* --- the archive ---
  run, outcome,    \* collection_runs: the latest run_id, and the outcome of each
  known,           \* postings
  baselineExists,  \* v_qualified_scans has a row
  queue,           \* work_queue: of each run and posting
  \* --- the process running the collection ---
  pc, bound,       \* bound is its --max-details
  baselineRun,     \* is_baseline, read when the run began
  found,           \* ids of the discovery traversal
  claimed,         \* items being retrieved: at most one
  stats,           \* detail_stats
  answer,          \* of each posting: whether its latest queued retrieval settled it
  late             \* late arrivals still to retrieve

archive == <<run, outcome, known, baselineExists, queue>>
process == <<pc, bound, baselineRun, found, claimed, stats, answer, late>>
vars    == <<archive, process>>

Runs       == 1 .. MaxRuns
ItemStates == {"none", "pending", "in_progress", "done", "failed", "abandoned"}
Priorities == {10, 50, 80, 90}
Outcomes   == {"none", "open", "success", "partial", "failed", "aborted"}

max_attempts == 2

Item   == [state : ItemStates, priority : Priorities, attempts : 0 .. max_attempts]
NoItem == [state |-> "none", priority |-> 10, attempts |-> 0]
Stats  == [attempted : Nat, failed : Nat, uncertain : Nat]
NoStats == [attempted |-> 0, failed |-> 0, uncertain |-> 0]

\* A process that begins, or is gone, knows nothing yet, or any more.
Blank == /\ found' = {} /\ claimed' = {} /\ late' = {}
         /\ stats' = NoStats /\ answer' = [p \in Postings |-> "open"]

Gone == Blank /\ pc' = "idle" /\ bound' = Unbounded /\ baselineRun' = FALSE

InState(r, states) == {p \in Postings : queue[r][p].state \in states}

-----------------------------------------------------------------------------
Init ==
  /\ run = 0 /\ outcome = [r \in Runs |-> "none"]
  /\ known = {} /\ baselineExists = FALSE
  /\ queue = [r \in Runs |-> [p \in Postings |-> NoItem]]
  /\ pc = "idle" /\ bound = Unbounded /\ baselineRun = FALSE
  /\ found = {} /\ claimed = {} /\ late = {}
  /\ stats = NoStats /\ answer = [p \in Postings |-> "open"]

\* Slip for ClosedRunsLeaveNoWork: the row is closed, its queue is not.
LeftOf_RowOnly(r, p) == queue[r][p]

\* What becomes of an item when the next run begins.
LeftOf(r, p) ==
  IF outcome[r] = "open" /\ queue[r][p].state \in {"pending", "in_progress"}
  THEN [queue[r][p] EXCEPT !.state = "abandoned"] ELSE queue[r][p]

\* The process holds the collector lock: rows still open belong to the dead, and
\* so does the unfinished work in their queues (abandon_stale_runs, start_run).
StartRun ==
  /\ pc = "idle" /\ run < MaxRuns
  /\ run' = run + 1
  /\ outcome' = [r \in Runs |-> IF r = run + 1 THEN "open"
                                ELSE IF outcome[r] = "open" THEN "aborted" ELSE outcome[r]]
  /\ queue' = [r \in Runs |-> [p \in Postings |-> LeftOf(r, p)]]
  /\ baselineRun' = ~baselineExists
  /\ bound' \in MaxDetails
  /\ pc' = "discover"
  /\ Blank
  /\ UNCHANGED <<known, baselineExists>>

Registered(ids, qualified) ==
  /\ known' = known \cup ids
  /\ baselineExists' = (baselineExists \/ qualified)

-----------------------------------------------------------------------------
(* The queue.                                                              *)

ListedPriority(p) == IF p \notin known /\ ~baselineRun THEN 10 ELSE 50

Enqueued(priority) == [state |-> "pending", priority |-> priority, attempts |-> 0]

\* The discovery traversal, then _queue_details and _queue_historical: among the
\* unlisted ones, those that are not due are passed over.
DiscoverAndQueue ==
  /\ pc = "discover"
  /\ \E ids \in SUBSET Postings, qualified \in BOOLEAN :
     \E daily, weekly \in SUBSET Postings :
       /\ daily \cup weekly \subseteq known \ ids /\ daily \cap weekly = {}
       /\ Cardinality(daily \cup weekly) <= MaxHistorical
       /\ Registered(ids, qualified)
       /\ found' = ids
       /\ queue' = [queue EXCEPT ![run] = [p \in Postings |->
            CASE p \in ids    -> Enqueued(ListedPriority(p))
              [] p \in daily  -> Enqueued(80)
              [] p \in weekly -> Enqueued(90)
              [] OTHER        -> NoItem]]
  /\ pc' = "reclaim"
  /\ UNCHANGED <<run, outcome, bound, baselineRun, claimed, stats, answer, late>>

\* Slip for WorkStaysDone: the items of every run are reclaimed.
Reclaim_AnyRun ==
  /\ pc = "reclaim"
  /\ queue' = [r \in Runs |-> [p \in Postings |->
       IF queue[r][p].state = "in_progress"
       THEN [queue[r][p] EXCEPT !.state = "pending"] ELSE queue[r][p]]]
  /\ pc' = "drain"
  /\ UNCHANGED <<run, outcome, known, baselineExists, bound, baselineRun, found,
                 claimed, stats, answer, late>>

\* reclaim_orphans: only items of this very run.
Reclaim ==
  /\ pc = "reclaim"
  /\ queue' = [queue EXCEPT ![run] = [p \in Postings |->
       IF queue[run][p].state = "in_progress"
       THEN [queue[run][p] EXCEPT !.state = "pending"] ELSE queue[run][p]]]
  /\ pc' = "drain"
  /\ UNCHANGED <<run, outcome, known, baselineExists, bound, baselineRun, found,
                 claimed, stats, answer, late>>

BoundReached == stats.attempted >= bound
Pending      == InState(run, {"pending"})

\* Slip for NewBeforeOld: items are claimed whatever their priority.
Claim_AnyOrder(p) ==
  /\ pc = "drain" /\ claimed = {} /\ ~BoundReached
  /\ p \in Pending
  /\ queue' = [queue EXCEPT ![run][p].state = "in_progress", ![run][p].attempts = @ + 1]
  /\ claimed' = {p}
  /\ stats' = [stats EXCEPT !.attempted = @ + 1]
  /\ UNCHANGED <<run, outcome, known, baselineExists, pc, bound, baselineRun, found,
                 answer, late>>

\* claim_next: a pending item of the lowest priority number.
Claim(p) ==
  /\ pc = "drain" /\ claimed = {} /\ ~BoundReached
  /\ p \in Pending
  /\ \A q \in Pending : queue[run][p].priority <= queue[run][q].priority
  /\ queue' = [queue EXCEPT ![run][p].state = "in_progress", ![run][p].attempts = @ + 1]
  /\ claimed' = {p}
  /\ stats' = [stats EXCEPT !.attempted = @ + 1]
  /\ UNCHANGED <<run, outcome, known, baselineExists, pc, bound, baselineRun, found,
                 answer, late>>

Settle(p, state) ==
  /\ queue' = [queue EXCEPT ![run][p].state = state]
  /\ claimed' = {}
  /\ UNCHANGED <<run, outcome, known, baselineExists, pc, bound, baselineRun, found,
                 late>>

Answered(p, how) == answer' = [answer EXCEPT ![p] = how]

\* Content captured, or a terminal answer: closed, not found, another job's page.
RetrieveSettled(p) ==
  /\ pc = "drain" /\ p \in claimed
  /\ Settle(p, "done")
  /\ Answered(p, "settled")
  /\ UNCHANGED stats

\* requeue_or_fail.
Requeued(p) == IF queue[run][p].attempts >= max_attempts THEN "failed" ELSE "pending"

FailedMore(p) == IF Requeued(p) = "failed" THEN 1 ELSE 0

\* A challenge or a failed retrieval is recorded as inconclusive.
RetrieveUncertain(p) ==
  /\ pc = "drain" /\ p \in claimed
  /\ Settle(p, Requeued(p))
  /\ Answered(p, "open")
  /\ stats' = [stats EXCEPT !.uncertain = @ + 1, !.failed = @ + FailedMore(p)]

\* The collector raised, before or after it recorded its observation.
RetrieveRaised(p) ==
  /\ pc = "drain" /\ p \in claimed
  /\ Settle(p, Requeued(p))
  /\ \E how \in {"open", "settled"} : Answered(p, how)
  /\ stats' = [stats EXCEPT !.failed = @ + FailedMore(p)]

\* Slip for EveryRunEnds: the bound is tested without leaving the loop.
Drained_BoundIgnored ==
  /\ pc = "drain" /\ claimed = {}
  /\ Pending = {}
  /\ pc' = "verify"
  /\ UNCHANGED <<archive, bound, baselineRun, found, claimed, stats, answer, late>>

Drained ==
  /\ pc = "drain" /\ claimed = {}
  /\ Pending = {} \/ BoundReached
  /\ pc' = "verify"
  /\ UNCHANGED <<archive, bound, baselineRun, found, claimed, stats, answer, late>>

-----------------------------------------------------------------------------
(* The end of the run.                                                     *)

\* The verification traversal, unless it is skipped.
Verify ==
  /\ pc = "verify"
  /\ \E ids \in SUBSET Postings, qualified \in BOOLEAN :
       /\ Registered(ids, qualified)
       /\ late' = ids \ found
  /\ pc' = "late"
  /\ UNCHANGED <<run, outcome, queue, bound, baselineRun, found, claimed, stats, answer>>

SkipVerification ==
  /\ pc = "verify"
  /\ pc' = "late"
  /\ UNCHANGED <<archive, bound, baselineRun, found, claimed, stats, answer, late>>

\* _collect_late_arrivals: one retrieval each, and what comes of it is not counted.
RetrieveLate(p) ==
  /\ pc = "late" /\ p \in late
  /\ late' = late \ {p}
  /\ UNCHANGED <<archive, pc, bound, baselineRun, found, claimed, stats, answer>>

\* Slip for SuccessCoversDiscovery: items never attempted are no problem.
OutcomeOf_AttemptedOnly(final, unresolved) ==
  IF final /\ ~unresolved /\ stats.failed = 0 /\ stats.uncertain = 0
  THEN "success" ELSE "partial"

\* _outcome.  Whether some traversal qualified, and whether the sets reconciled,
\* is decided by the traversals.
OutcomeOf(final, unresolved) ==
  IF /\ final /\ ~unresolved
     /\ InState(run, {"pending", "in_progress"}) = {}
     /\ stats.failed = 0 /\ stats.uncertain = 0
  THEN "success" ELSE "partial"

FinishRun ==
  /\ pc = "late" /\ late = {}
  /\ \E final, unresolved \in BOOLEAN :
       outcome' = [outcome EXCEPT ![run] = OutcomeOf(final, unresolved)]
  /\ Gone
  /\ UNCHANGED <<run, known, baselineExists, queue>>

\* Slip for KeepsLedger: the exception is recorded, and the run goes on.
FailRun_GoesOn ==
  /\ pc # "idle"
  /\ outcome' = [outcome EXCEPT ![run] = "failed"]
  /\ UNCHANGED <<run, known, baselineExists, queue, process>>

\* An exception outside details.collect: the row says failed, the queue stays.
FailRun ==
  /\ pc # "idle"
  /\ outcome' = [outcome EXCEPT ![run] = "failed"]
  /\ Gone
  /\ UNCHANGED <<run, known, baselineExists, queue>>

\* The process is killed: the row stays open.
Crash ==
  /\ pc # "idle"
  /\ Gone
  /\ UNCHANGED archive

Retrieve(p) == RetrieveSettled(p) \/ RetrieveUncertain(p) \/ RetrieveRaised(p)

Progress ==
  \/ DiscoverAndQueue \/ Reclaim \/ Drained \/ Verify \/ SkipVerification \/ FinishRun
  \/ \E p \in Postings : Claim(p) \/ Retrieve(p) \/ RetrieveLate(p)

Next == StartRun \/ Progress \/ FailRun \/ Crash

\* A running process keeps going.
Spec == Init /\ [][Next]_vars /\ WF_vars(Progress)

-----------------------------------------------------------------------------
(* Properties.                                                             *)

TypeOK ==
  /\ run \in 0 .. MaxRuns /\ outcome \in [Runs -> Outcomes]
  /\ known \subseteq Postings /\ baselineExists \in BOOLEAN
  /\ queue \in [Runs -> [Postings -> Item]]
  /\ pc \in {"idle", "discover", "reclaim", "drain", "verify", "late"}
  /\ bound \in MaxDetails /\ baselineRun \in BOOLEAN
  /\ found \subseteq Postings /\ late \subseteq Postings
  /\ claimed \subseteq Postings /\ Cardinality(claimed) <= 1
  /\ stats \in Stats
  /\ answer \in [Postings -> {"open", "settled"}]

\* A run that calls itself a success got an answer it can use, content or a
\* terminal state, for every advertisement its discovery traversal listed:
\* retries, bounds and exceptions included (_drain_details and _outcome).
SuccessCoversDiscovery ==
  [][\A r \in Runs : outcome'[r] = "success" /\ outcome[r] = "open"
        => \A p \in found : answer[p] = "settled"]_vars

\* A bounded pass spends its attempts on what is new before anything that was
\* listed before, and on that before anything unlisted (claim_next, with retries
\* of failed items in between).
Attempted(r, p) == queue[r][p].attempts > 0
Waiting(r, p)   == queue[r][p].state \in {"pending", "in_progress"}

NewBeforeOld ==
  \A r \in Runs : \A p, q \in Postings :
    Waiting(r, p) /\ Attempted(r, q) => queue[r][q].priority <= queue[r][p].priority

\* Once a run counts as a success or as aborted, no work is left in its queue for
\* a later process to stumble on: abandonment closes the queue together with the
\* row, and success is refused while anything is outstanding.
ClosedRunsLeaveNoWork ==
  \A r \in Runs : outcome[r] \in {"success", "aborted"}
    => InState(r, {"pending", "in_progress"}) = {}

\* Nothing that was settled or given up is taken up again, no attempt is forgotten,
\* and what earlier runs left behind is abandoned or stays as it is: each run starts
\* from a queue of its own (enqueue, claim_next, reclaim_orphans, requeue_or_fail).
WorkStaysDone ==
  [][\A r \in Runs, p \in Postings :
       /\ queue[r][p].state \in {"done", "failed", "abandoned"} => queue'[r][p] = queue[r][p]
       /\ queue'[r][p].attempts >= queue[r][p].attempts
       /\ r < run' => queue'[r][p].state \in {queue[r][p].state, "abandoned"}]_vars

\* The rows of the runs tell a plain story: see RunLedger.
Ledger == INSTANCE RunLedger WITH state <- outcome

\* Harvest implements RunLedger, as RunControl does: a run is closed once, with the
\* outcome it came to or as failed, or it is given up when the next one begins.
KeepsLedger == Ledger!Spec

\* Every run ends, by itself or interrupted, whatever the source answers: time and
\* again none is going on.
EveryRunEnds == []<>(pc = "idle")
=============================================================================
