---------------------------- MODULE HarvestProofs ---------------------------
(***************************************************************************)
(* Proofs about Harvest, and about the recheck policy it queues by, for    *)
(* any set of advertisements and number of runs.                           *)
(***************************************************************************)
EXTENDS Harvest, Recheck, FiniteSetTheorems, TLAPS

\* A process works for the latest run, which is then open; no other run is, and
\* the runs to come have no row and no queue.
RunGoing == /\ pc # "idle" => run \in Runs /\ outcome[run] = "open"
            /\ \A r \in Runs : outcome[r] = "open" => r = run
            /\ \A r \in Runs : r > run => /\ outcome[r] = "none"
                                          /\ \A p \in Postings : queue[r][p] = NoItem

\* What is in progress in the queue of the run is what the process has in hand, one
\* item at most, and what is pending may be attempted.
InHand == /\ pc # "drain" => claimed = {}
          /\ \A p, q \in claimed : p = q
          /\ pc # "idle" =>
               /\ InState(run, {"in_progress"}) = claimed
               /\ \A p \in Postings : queue[run][p].state = "pending"
                                        => queue[run][p].attempts < max_attempts

\* Every advertisement of the discovery traversal is in the queue of the run, what
\* is done there was answered, and what failed there is counted.
Accounted ==
  pc \notin {"idle", "discover"} =>
    /\ \A p \in found : queue[run][p].state \in {"pending", "in_progress", "done", "failed"}
    /\ \A p \in Postings : queue[run][p].state = "done" => answer[p] = "settled"
    /\ InState(run, {"failed"}) # {} => stats.failed > 0

IInv == /\ TypeOK /\ RunGoing /\ InHand /\ Accounted
        /\ NewBeforeOld /\ ClosedRunsLeaveNoWork

-----------------------------------------------------------------------------
LEMMA Blanks ==
  /\ NoItem \in Item /\ NoStats \in Stats
  /\ [p \in Postings |-> "open"] \in [Postings -> {"open", "settled"}]
<1>1. NoItem \in Item
  BY DEF NoItem, Item, ItemStates, Priorities, max_attempts
<1>2. NoStats \in Stats
  BY DEF NoStats, Stats
<1> QED
  BY <1>1, <1>2

LEMMA NothingInHand == ASSUME NEW S, S = {} PROVE Cardinality(S) <= 1
  BY FS_EmptySet

LEMMA OneInHand == ASSUME NEW S, NEW x, S = {x} PROVE Cardinality(S) <= 1
<1>1. Cardinality({x}) = 1
  BY FS_Singleton
<1> QED
  BY <1>1

LEMMA InitInvariant == Init => IInv
<1> SUFFICES ASSUME Init PROVE IInv
  OBVIOUS
<1>1. TypeOK
  <2>1. Cardinality(claimed) <= 1
    BY NothingInHand DEF Init
  <2>2. run \in 0 .. MaxRuns /\ bound \in MaxDetails /\ outcome \in [Runs -> Outcomes]
    BY BoundsAssumption DEF Init, Outcomes
  <2>3. queue \in [Runs -> [Postings -> Item]]
    BY Blanks DEF Init
  <2> QED
    BY <2>1, <2>2, <2>3, Blanks DEF Init, TypeOK
<1>2. RunGoing /\ InHand /\ Accounted
  BY DEF Init, RunGoing, InHand, Accounted
<1>3. NewBeforeOld /\ ClosedRunsLeaveNoWork
  BY DEF Init, NewBeforeOld, ClosedRunsLeaveNoWork, Waiting, Attempted, NoItem
<1> QED
  BY <1>1, <1>2, <1>3 DEF IInv

\* A run in progress has a row and a queue; its items are items.
LEMMA RunFacts ==
  ASSUME IInv, pc # "idle"
  PROVE  /\ run \in Runs /\ outcome[run] = "open"
         /\ queue[run] \in [Postings -> Item]
         /\ \A r \in Runs : outcome[r] \in {"success", "aborted"} => r # run
  BY DEF IInv, TypeOK, RunGoing

\* Steps of a running process that leave the queue and the rows alone, and what it
\* found, has in hand and counted.
LEMMA QuietStep ==
  ASSUME IInv, pc # "idle", pc # "discover", pc' # "idle", pc' # "drain" => claimed = {},
         UNCHANGED <<run, outcome, queue, found, claimed, stats, answer>>, TypeOK'
  PROVE  IInv'
  BY DEF IInv, RunGoing, InHand, Accounted, NewBeforeOld, ClosedRunsLeaveNoWork,
         InState, Waiting, Attempted

\* Steps after which there is no process, and the queue is as it was.
LEMMA GoneStep ==
  ASSUME IInv, pc # "idle", Gone, UNCHANGED <<run, known, baselineExists, queue>>,
         NEW how \in Outcomes, outcome' = [outcome EXCEPT ![run] = how],
         how = "success" => InState(run, {"pending", "in_progress"}) = {},
         how # "aborted"
  PROVE  IInv'
<1>1. run \in Runs /\ outcome[run] = "open"
  BY RunFacts
<1>2. TypeOK'
  <2>1. outcome' \in [Runs -> Outcomes]
    BY <1>1 DEF IInv, TypeOK
  <2>2. /\ pc' = "idle" /\ bound' \in MaxDetails /\ baselineRun' \in BOOLEAN
        /\ found' \subseteq Postings /\ late' \subseteq Postings
        /\ claimed' \subseteq Postings /\ Cardinality(claimed') <= 1
        /\ stats' \in Stats /\ answer' \in [Postings -> {"open", "settled"}]
    <3>1. claimed' = {}
      BY DEF Gone, Blank
    <3>2. Cardinality(claimed') <= 1
      BY <3>1, NothingInHand
    <3> QED
      BY <3>1, <3>2, Blanks, BoundsAssumption DEF Gone, Blank
  <2> QED
    BY <2>1, <2>2 DEF IInv, TypeOK
<1>3. RunGoing'
  BY <1>1 DEF IInv, RunGoing, TypeOK, Gone, Runs
<1>4. InHand' /\ Accounted'
  BY DEF InHand, Accounted, Gone, Blank
<1>5. NewBeforeOld'
  BY DEF IInv, NewBeforeOld, Waiting, Attempted
<1>6. ClosedRunsLeaveNoWork'
  BY <1>1 DEF IInv, TypeOK, ClosedRunsLeaveNoWork, InState
<1> QED
  BY <1>2, <1>3, <1>4, <1>5, <1>6 DEF IInv

-----------------------------------------------------------------------------
LEMMA StartRunStep == ASSUME IInv, StartRun PROVE IInv'
<1>1. run + 1 \in Runs /\ run \in Nat
  BY BoundsAssumption DEF IInv, TypeOK, StartRun, Runs
<1>2. /\ run' = run + 1 /\ pc' = "discover"
      /\ outcome' = [r \in Runs |-> IF r = run + 1 THEN "open"
                                    ELSE IF outcome[r] = "open" THEN "aborted" ELSE outcome[r]]
      /\ queue' = [r \in Runs |-> [p \in Postings |->
           IF outcome[r] = "open" /\ queue[r][p].state \in {"pending", "in_progress"}
           THEN [queue[r][p] EXCEPT !.state = "abandoned"] ELSE queue[r][p]]]
  BY DEF StartRun, LeftOf
<1>3. \A r \in Runs, p \in Postings :
        /\ queue'[r][p] \in Item
        /\ queue'[r][p].priority = queue[r][p].priority
        /\ queue'[r][p].attempts = queue[r][p].attempts
        /\ queue'[r][p].state \in {queue[r][p].state, "abandoned"}
        /\ outcome[r] = "open" => queue'[r][p].state \notin {"pending", "in_progress"}
        /\ outcome[r] # "open" => queue'[r][p] = queue[r][p]
  <2> SUFFICES ASSUME NEW r \in Runs, NEW p \in Postings
               PROVE  /\ queue'[r][p] \in Item
                      /\ queue'[r][p].priority = queue[r][p].priority
                      /\ queue'[r][p].attempts = queue[r][p].attempts
                      /\ queue'[r][p].state \in {queue[r][p].state, "abandoned"}
                      /\ outcome[r] = "open" => queue'[r][p].state \notin {"pending", "in_progress"}
                      /\ outcome[r] # "open" => queue'[r][p] = queue[r][p]
    OBVIOUS
  <2>1. queue[r][p] \in Item
    BY DEF IInv, TypeOK
  <2> QED
    BY <1>2, <2>1 DEF Item, ItemStates
<1>4. TypeOK'
  <2>1. outcome' \in [Runs -> Outcomes]
    BY <1>2 DEF IInv, TypeOK, Outcomes
  <2>2. queue' \in [Runs -> [Postings -> Item]]
    BY <1>2, <1>3
  <2> QED
    <3>1. claimed' = {}
      BY DEF StartRun, Blank
    <3>2. Cardinality(claimed') <= 1
      BY <3>1, NothingInHand
    <3> QED
      BY <1>1, <2>1, <2>2, <3>2, Blanks DEF IInv, TypeOK, StartRun, Blank, Runs
<1>5. RunGoing'
  <2>1. \A r \in Runs : r > run + 1 =>
          /\ outcome[r] = "none" /\ r # run + 1
          /\ \A p \in Postings : queue[r][p] = NoItem
    BY <1>1 DEF IInv, RunGoing, Runs
  <2> QED
    BY <1>1, <1>2, <1>3, <2>1 DEF RunGoing
<1>6. InHand' /\ Accounted'
  <2>1. \A p \in Postings : queue'[run + 1][p] = NoItem
    <3>1. run + 1 > run
      BY <1>1
    <3>2. outcome[run + 1] = "none" /\ \A p \in Postings : queue[run + 1][p] = NoItem
      BY <1>1, <3>1 DEF IInv, RunGoing
    <3> QED
      BY <1>1, <1>3, <3>2
  <2>2. InState(run, {"in_progress"})' = {} /\ \A p \in Postings : queue'[run'][p].state = "none"
    <3>1. run' = run + 1 /\ NoItem.state = "none"
      BY <1>2 DEF NoItem
    <3> QED
      BY <2>1, <3>1 DEF InState
  <2>3. claimed' = {} /\ pc' = "discover"
    BY <1>2 DEF StartRun, Blank
  <2> QED
    BY <2>2, <2>3 DEF InHand, Accounted
<1>7. NewBeforeOld'
  BY <1>3 DEF IInv, NewBeforeOld, Waiting, Attempted
<1>8. ClosedRunsLeaveNoWork'
  <2>1. \A r \in Runs : outcome'[r] \in {"success", "aborted"}
          => outcome[r] = "open" \/ outcome[r] \in {"success", "aborted"}
    BY <1>2
  <2> QED
    BY <1>3, <2>1 DEF IInv, ClosedRunsLeaveNoWork, InState
<1> QED
  BY <1>4, <1>5, <1>6, <1>7, <1>8 DEF IInv

\* Steps that write the queue of the run only.
LEMMA RunQueueFrame ==
  ASSUME IInv, pc # "idle", pc' # "idle", UNCHANGED <<run, outcome>>,
         NEW items \in [Postings -> Item], queue' = [queue EXCEPT ![run] = items]
  PROVE  /\ queue' \in [Runs -> [Postings -> Item]]
         /\ queue'[run] = items /\ \A r \in Runs \ {run} : queue'[r] = queue[r]
         /\ RunGoing' /\ ClosedRunsLeaveNoWork'
<1>1. run \in Runs /\ outcome[run] = "open"
  BY RunFacts
<1>2. queue \in [Runs -> [Postings -> Item]]
  BY DEF IInv, TypeOK
<1>3. /\ queue' \in [Runs -> [Postings -> Item]]
      /\ queue'[run] = items /\ \A r \in Runs \ {run} : queue'[r] = queue[r]
  BY <1>1, <1>2
<1>4. RunGoing'
  BY <1>1, <1>3 DEF IInv, RunGoing, Runs
<1>5. ClosedRunsLeaveNoWork'
  BY <1>1, <1>3 DEF IInv, ClosedRunsLeaveNoWork, InState
<1> QED
  BY <1>3, <1>4, <1>5

\* The order of work has to be looked at in the queue of the run only.
LEMMA OrderFrame ==
  ASSUME IInv, pc # "idle", pc' # "idle", UNCHANGED <<run, outcome>>,
         NEW items \in [Postings -> Item], queue' = [queue EXCEPT ![run] = items],
         \A p, q \in Postings :
           items[p].state \in {"pending", "in_progress"} /\ items[q].attempts > 0
             => items[q].priority <= items[p].priority
  PROVE  NewBeforeOld'
  BY RunQueueFrame DEF IInv, NewBeforeOld, Waiting, Attempted

LEMMA DiscoverStep == ASSUME IInv, DiscoverAndQueue PROVE IInv'
<1>1. PICK ids \in SUBSET Postings, qualified \in BOOLEAN,
           daily \in SUBSET Postings, weekly \in SUBSET Postings :
        /\ Registered(ids, qualified)
        /\ found' = ids
        /\ queue' = [queue EXCEPT ![run] = [p \in Postings |->
             CASE p \in ids    -> Enqueued(ListedPriority(p))
               [] p \in daily  -> Enqueued(80)
               [] p \in weekly -> Enqueued(90)
               [] OTHER        -> NoItem]]
        /\ daily \subseteq known \ ids /\ weekly \subseteq known \ ids /\ daily \cap weekly = {}
  BY DEF DiscoverAndQueue
<1> DEFINE items == [p \in Postings |->
             CASE p \in ids    -> Enqueued(ListedPriority(p))
               [] p \in daily  -> Enqueued(80)
               [] p \in weekly -> Enqueued(90)
               [] OTHER        -> NoItem]
<1>2. \A p \in Postings :
        /\ items[p] \in Item /\ items[p].attempts = 0
        /\ items[p].state \in {"none", "pending"}
        /\ p \in ids => items[p].state = "pending"
  <2>1. \A n \in Priorities : /\ Enqueued(n) \in Item /\ Enqueued(n).attempts = 0
                              /\ Enqueued(n).state = "pending"
    BY DEF Enqueued, Item, ItemStates, max_attempts
  <2>2. 80 \in Priorities /\ 90 \in Priorities /\ \A p : ListedPriority(p) \in Priorities
    BY DEF Priorities, ListedPriority
  <2>3. NoItem \in Item /\ NoItem.attempts = 0 /\ NoItem.state = "none"
    BY Blanks DEF NoItem
  <2> HIDE DEF Enqueued, NoItem, Item, Priorities, ListedPriority
  <2> SUFFICES ASSUME NEW p \in Postings
               PROVE  /\ items[p] \in Item /\ items[p].attempts = 0
                      /\ items[p].state \in {"none", "pending"}
                      /\ p \in ids => items[p].state = "pending"
    OBVIOUS
  <2>4. CASE p \in ids
    <3>1. items[p] = Enqueued(ListedPriority(p))
      BY <1>1, <2>4
    <3> QED
      BY <2>1, <2>2, <3>1
  <2>5. CASE p \in daily
    <3>1. items[p] = Enqueued(80) /\ p \notin ids
      BY <1>1, <2>5
    <3> QED
      BY <2>1, <2>2, <3>1
  <2>6. CASE p \in weekly
    <3>1. items[p] = Enqueued(90) /\ p \notin ids
      BY <1>1, <2>6
    <3> QED
      BY <2>1, <2>2, <3>1
  <2>7. CASE p \notin ids /\ p \notin daily /\ p \notin weekly
    <3>1. items[p] = NoItem
      BY <2>7
    <3> QED
      BY <2>3, <2>7, <3>1
  <2> QED
    BY <2>4, <2>5, <2>6, <2>7
<1>3. /\ pc = "discover" /\ pc' = "reclaim"
      /\ UNCHANGED <<run, outcome, bound, baselineRun, claimed, stats, answer, late>>
  BY DEF DiscoverAndQueue
<1>4. items \in [Postings -> Item] /\ queue' = [queue EXCEPT ![run] = items]
  BY <1>1, <1>2
<1> HIDE DEF items
<1>5. /\ queue' \in [Runs -> [Postings -> Item]] /\ queue'[run] = items
      /\ RunGoing' /\ ClosedRunsLeaveNoWork'
  BY <1>3, <1>4, RunQueueFrame
<1>6. NewBeforeOld'
  <2>1. \A p, q \in Postings :
          items[p].state \in {"pending", "in_progress"} /\ items[q].attempts > 0
            => items[q].priority <= items[p].priority
    BY <1>2
  <2> QED
    BY <1>3, <1>4, <2>1, OrderFrame
<1>7. TypeOK'
  BY <1>1, <1>3, <1>5 DEF IInv, TypeOK, Registered
<1>8. InHand'
  <2>1. InState(run, {"in_progress"})' = {}
    BY <1>2, <1>3, <1>5 DEF InState
  <2> QED
    <3>1. claimed' = {} /\ run' = run
      BY <1>3 DEF IInv, InHand
    <3>2. \A p \in Postings : queue'[run'][p].attempts < max_attempts
      BY <1>2, <1>5, <3>1 DEF max_attempts
    <3> QED
      BY <1>3, <2>1, <3>1, <3>2 DEF InHand
<1>9. Accounted'
  BY <1>1, <1>2, <1>3, <1>5 DEF Accounted, InState
<1> QED
  BY <1>5, <1>6, <1>7, <1>8, <1>9 DEF IInv

\* Nothing is in progress before the queue is drained.
LEMMA ReclaimStep == ASSUME IInv, Reclaim PROVE IInv'
<1>1. pc = "reclaim" /\ pc' = "drain"
  BY DEF Reclaim
<1>2. run \in Runs /\ queue[run] \in [Postings -> Item] /\ queue \in [Runs -> [Postings -> Item]]
  BY <1>1, RunFacts DEF IInv, TypeOK
<1>3. \A p \in Postings : queue[run][p].state # "in_progress"
  BY <1>1 DEF IInv, InHand, InState
<1>4. queue' = queue
  <2>1. [p \in Postings |->
          IF queue[run][p].state = "in_progress"
          THEN [queue[run][p] EXCEPT !.state = "pending"] ELSE queue[run][p]] = queue[run]
    BY <1>2, <1>3
  <2> QED
    BY <1>2, <2>1 DEF Reclaim
<1>5. TypeOK'
  BY <1>1, <1>4 DEF IInv, TypeOK, Reclaim
<1> QED
  BY <1>1, <1>4, <1>5, QuietStep DEF Reclaim

-----------------------------------------------------------------------------
\* Steps that write one item of the queue: it keeps its priority, is waiting only
\* if it was, and is attempted for the first time only ahead of what waits.
LEMMA ItemStep ==
  ASSUME IInv, pc # "idle", pc' # "idle", UNCHANGED <<run, outcome>>,
         NEW p \in Postings, NEW item \in Item, queue' = [queue EXCEPT ![run][p] = item],
         item.priority = queue[run][p].priority,
         item.state \in {"pending", "in_progress"}
           => queue[run][p].state \in {"pending", "in_progress"},
         item.attempts > 0 =>
           \/ queue[run][p].attempts > 0
           \/ \A q \in Postings : queue[run][q].state \in {"pending", "in_progress"}
                                   => item.priority <= queue[run][q].priority
  PROVE  /\ queue' \in [Runs -> [Postings -> Item]]
         /\ queue'[run][p] = item
         /\ \A q \in Postings \ {p} : queue'[run][q] = queue[run][q]
         /\ RunGoing' /\ NewBeforeOld' /\ ClosedRunsLeaveNoWork'
<1> DEFINE items == [queue[run] EXCEPT ![p] = item]
<1>1. run \in Runs /\ queue[run] \in [Postings -> Item] /\ queue \in [Runs -> [Postings -> Item]]
  BY RunFacts DEF IInv, TypeOK
<1>2. /\ items \in [Postings -> Item] /\ items[p] = item
      /\ \A q \in Postings \ {p} : items[q] = queue[run][q]
  BY <1>1
<1>3. queue' = [queue EXCEPT ![run] = items]
  BY <1>1
<1>4. \A q, r \in Postings :
        queue[run][q].state \in {"pending", "in_progress"} /\ queue[run][r].attempts > 0
          => queue[run][r].priority <= queue[run][q].priority
  BY <1>1 DEF IInv, NewBeforeOld, Waiting, Attempted
<1>5. \A q, r \in Postings :
        items[q].state \in {"pending", "in_progress"} /\ items[r].attempts > 0
          => items[r].priority <= items[q].priority
  <2> SUFFICES ASSUME NEW q \in Postings, NEW r \in Postings,
                      items[q].state \in {"pending", "in_progress"}, items[r].attempts > 0
               PROVE  items[r].priority <= items[q].priority
    OBVIOUS
  <2>1. /\ queue[run][q].state \in {"pending", "in_progress"}
        /\ items[q].priority = queue[run][q].priority
    BY <1>2
  <2>2. CASE r # p
    BY <1>2, <1>4, <2>1, <2>2
  <2>3. CASE r = p
    BY <1>2, <1>4, <2>1, <2>3
  <2> QED
    BY <2>2, <2>3
<1> HIDE DEF items
<1>6. /\ queue' \in [Runs -> [Postings -> Item]] /\ queue'[run] = items
      /\ RunGoing' /\ ClosedRunsLeaveNoWork'
  BY <1>2, <1>3, RunQueueFrame
<1>7. NewBeforeOld'
  BY <1>2, <1>3, <1>5, OrderFrame
<1> QED
  BY <1>2, <1>6, <1>7

\* An item is claimed when nothing is in hand and nothing pending is more urgent.
LEMMA ClaimStep == ASSUME IInv, NEW p \in Postings, Claim(p) PROVE IInv'
<1> DEFINE item == [queue[run][p] EXCEPT !.state = "in_progress", !.attempts = @ + 1]
<1>1. /\ pc = "drain" /\ claimed = {} /\ claimed' = {p}
      /\ queue[run][p].state = "pending"
      /\ \A q \in Postings : queue[run][q].state = "pending"
                               => queue[run][p].priority <= queue[run][q].priority
      /\ stats' = [stats EXCEPT !.attempted = @ + 1]
      /\ UNCHANGED <<run, outcome, known, baselineExists, pc, bound, baselineRun, found,
                     answer, late>>
  BY DEF Claim, Pending, InState
<1>2. /\ run \in Runs /\ queue[run] \in [Postings -> Item] /\ queue[run][p] \in Item
      /\ queue \in [Runs -> [Postings -> Item]]
  BY <1>1, RunFacts DEF IInv, TypeOK
<1>3. /\ queue[run][p].attempts + 1 \in 0 .. max_attempts
      /\ queue[run][p].attempts + 1 > 0
  <2>1. queue[run][p].attempts < max_attempts /\ queue[run][p].attempts \in 0 .. max_attempts
    BY <1>1, <1>2 DEF IInv, InHand, Item
  <2> QED
    BY <2>1 DEF max_attempts
<1>4. /\ item \in Item /\ item.state = "in_progress"
      /\ item.priority = queue[run][p].priority /\ item.attempts > 0
  BY <1>2, <1>3 DEF Item, ItemStates
<1>5. queue' = [queue EXCEPT ![run][p] = item]
  BY <1>2 DEF Claim
<1>6. \A q \in Postings : queue[run][q].state \in {"pending", "in_progress"}
                          => item.priority <= queue[run][q].priority
  BY <1>1, <1>4 DEF IInv, InHand, InState
<1> HIDE DEF item
<1>7. /\ queue' \in [Runs -> [Postings -> Item]]
      /\ queue'[run][p] = item
      /\ \A q \in Postings \ {p} : queue'[run][q] = queue[run][q]
      /\ RunGoing' /\ NewBeforeOld' /\ ClosedRunsLeaveNoWork'
  <2>1. item.state \in {"pending", "in_progress"}
          => queue[run][p].state \in {"pending", "in_progress"}
    BY <1>1
  <2>2. pc # "idle" /\ pc' # "idle" /\ UNCHANGED <<run, outcome>>
    BY <1>1
  <2>3. \/ queue[run][p].attempts > 0
        \/ \A q \in Postings : queue[run][q].state \in {"pending", "in_progress"}
                                => item.priority <= queue[run][q].priority
    BY <1>6
  <2>4. item \in Item /\ item.priority = queue[run][p].priority
    BY <1>4
  <2> QED
    BY <1>5, <2>1, <2>2, <2>3, <2>4, ItemStep
<1>8. TypeOK'
  <2>1. Cardinality(claimed') <= 1
    BY <1>1, OneInHand
  <2>2. stats' \in Stats
    BY <1>1 DEF IInv, TypeOK, Stats
  <2> QED
    BY <1>1, <1>7, <2>1, <2>2 DEF IInv, TypeOK
<1>9. InHand'
  <2>1. InState(run, {"in_progress"})' = {p}
    BY <1>1, <1>4, <1>7 DEF IInv, InHand, InState
  <2> QED
    BY <1>1, <1>4, <1>7, <2>1 DEF IInv, InHand
<1>10. Accounted'
  <2>1. stats'.failed = stats.failed
    BY <1>1 DEF IInv, TypeOK, Stats
  <2>2. InState(run, {"failed"})' \subseteq InState(run, {"failed"})
    BY <1>1, <1>4, <1>7 DEF InState
  <2>3. \A q \in Postings : queue'[run][q].state = "done" => queue[run][q].state = "done"
    BY <1>4, <1>7
  <2>4. \A q \in found : queue'[run][q].state \in {"pending", "in_progress", "done", "failed"}
    BY <1>1, <1>4, <1>7 DEF IInv, TypeOK, Accounted
  <2> QED
    BY <1>1, <2>1, <2>2, <2>3, <2>4 DEF IInv, Accounted
<1> QED
  BY <1>7, <1>8, <1>9, <1>10 DEF IInv

\* The item in hand is put down: done only if it was answered, failed only if that
\* is counted, and pending only if it may be attempted again.
LEMMA SettleStep ==
  ASSUME IInv, pc = "drain", NEW p \in claimed,
         NEW state \in {"done", "failed", "pending"}, Settle(p, state),
         NEW how \in {"open", "settled"}, Answered(p, how),
         state = "done" => how = "settled",
         state = "pending" => queue[run][p].attempts < max_attempts,
         stats' \in Stats, stats'.failed >= stats.failed,
         state = "failed" => stats'.failed > 0
  PROVE  IInv'
<1> DEFINE item == [queue[run][p] EXCEPT !.state = state]
<1>1. /\ claimed = {p} /\ claimed' = {} /\ p \in Postings
      /\ queue[run][p].state = "in_progress"
      /\ answer' = [answer EXCEPT ![p] = how]
      /\ UNCHANGED <<run, outcome, known, baselineExists, pc, bound, baselineRun, found, late>>
  BY DEF IInv, TypeOK, InHand, InState, Settle, Answered
<1>2. /\ run \in Runs /\ queue[run] \in [Postings -> Item] /\ queue[run][p] \in Item
      /\ queue \in [Runs -> [Postings -> Item]]
  BY <1>1, RunFacts DEF IInv, TypeOK
<1>3. /\ item \in Item /\ item.state = state
      /\ item.priority = queue[run][p].priority /\ item.attempts = queue[run][p].attempts
  BY <1>2 DEF Item, ItemStates
<1>4. queue' = [queue EXCEPT ![run][p] = item]
  BY <1>2 DEF Settle
<1> HIDE DEF item
<1>5. /\ queue' \in [Runs -> [Postings -> Item]]
      /\ queue'[run][p] = item
      /\ \A q \in Postings \ {p} : queue'[run][q] = queue[run][q]
      /\ RunGoing' /\ NewBeforeOld' /\ ClosedRunsLeaveNoWork'
  BY <1>1, <1>3, <1>4, ItemStep
<1>6. TypeOK'
  <2>1. answer' \in [Postings -> {"open", "settled"}]
    BY <1>1 DEF IInv, TypeOK
  <2>2. Cardinality(claimed') <= 1
    BY <1>1, NothingInHand
  <2> QED
    BY <1>1, <1>5, <2>1, <2>2 DEF IInv, TypeOK
<1>7. InHand'
  <2>1. InState(run, {"in_progress"})' = {}
    BY <1>1, <1>3, <1>5 DEF IInv, InHand, InState
  <2>2. \A q \in Postings : queue'[run][q].state = "pending"
                             => queue'[run][q].attempts < max_attempts
    BY <1>3, <1>5 DEF IInv, InHand
  <2> QED
    BY <1>1, <2>1, <2>2 DEF InHand
<1>8. Accounted'
  <2>1. stats.failed \in Nat /\ stats'.failed \in Nat
    BY DEF IInv, TypeOK, Stats
  <2>2. InState(run, {"failed"})' \subseteq InState(run, {"failed"}) \cup {p}
    BY <1>1, <1>5 DEF InState
  <2>3. p \in InState(run, {"failed"})' => state = "failed"
    BY <1>1, <1>3, <1>5 DEF InState
  <2>4. InState(run, {"failed"})' # {} => stats'.failed > 0
    BY <2>1, <2>2, <2>3 DEF IInv, Accounted
  <2>5. \A q \in Postings : queue'[run][q].state = "done" => answer'[q] = "settled"
    BY <1>1, <1>3, <1>5 DEF IInv, TypeOK, Accounted
  <2>6. \A q \in found : queue'[run][q].state \in {"pending", "in_progress", "done", "failed"}
    BY <1>3, <1>5 DEF IInv, TypeOK, Accounted
  <2> QED
    BY <1>1, <2>4, <2>5, <2>6 DEF Accounted
<1> QED
  BY <1>5, <1>6, <1>7, <1>8 DEF IInv

-----------------------------------------------------------------------------
\* What Requeued and FailedMore do to the item in hand and to the counts.
LEMMA RequeueFacts ==
  ASSUME IInv, pc = "drain", NEW p \in claimed
  PROVE  /\ p \in Postings
         /\ Requeued(p) \in {"failed", "pending"} /\ FailedMore(p) \in {0, 1}
         /\ Requeued(p) = "pending" => queue[run][p].attempts < max_attempts
         /\ Requeued(p) = "failed" => FailedMore(p) = 1
<1>1. p \in Postings /\ run \in Runs /\ queue[run][p].attempts \in Nat
  BY RunFacts DEF IInv, TypeOK, Item, max_attempts
<1> QED
  BY <1>1 DEF Requeued, FailedMore, max_attempts

LEMMA RetrieveStep == ASSUME IInv, NEW p \in Postings, Retrieve(p) PROVE IInv'
<1>1. stats \in Stats /\ stats.failed \in Nat
  BY DEF IInv, TypeOK, Stats
<1>2. answer[p] \in {"open", "settled"}
  BY DEF IInv, TypeOK
<1>3. CASE RetrieveSettled(p)
  <2>1. /\ pc = "drain" /\ p \in claimed /\ Settle(p, "done") /\ Answered(p, "settled")
        /\ stats' = stats
    BY <1>3 DEF RetrieveSettled
  <2>2. stats' \in Stats /\ stats'.failed >= stats.failed
    BY <1>1, <2>1
  <2> QED
    BY <2>1, <2>2, SettleStep
<1>4. CASE RetrieveUncertain(p)
  <2>1. /\ pc = "drain" /\ p \in claimed /\ Settle(p, Requeued(p))
        /\ Answered(p, "open")
        /\ stats' = [stats EXCEPT !.uncertain = @ + 1, !.failed = @ + FailedMore(p)]
    BY <1>4 DEF RetrieveUncertain
  <2>2. /\ stats' \in Stats /\ stats'.failed >= stats.failed
        /\ Requeued(p) = "failed" => stats'.failed > 0
    <3>1. FailedMore(p) \in {0, 1} /\ (Requeued(p) = "failed" => FailedMore(p) = 1)
      BY <2>1, RequeueFacts
    <3>2. /\ stats.attempted \in Nat /\ stats.uncertain \in Nat
          /\ stats = [attempted |-> stats.attempted, failed |-> stats.failed,
                      uncertain |-> stats.uncertain]
      BY <1>1 DEF Stats
    <3>3. stats' = [attempted |-> stats.attempted, failed |-> stats.failed + FailedMore(p),
                    uncertain |-> stats.uncertain + 1]
      BY <2>1, <3>2
    <3> HIDE DEF FailedMore, Requeued
    <3> QED
      BY <1>1, <3>1, <3>2, <3>3 DEF Stats
  <2>3. /\ Requeued(p) \in {"done", "failed", "pending"}
        /\ Requeued(p) = "done" => "open" = "settled"
        /\ Requeued(p) = "pending" => queue[run][p].attempts < max_attempts
    BY <2>1, RequeueFacts
  <2> HIDE DEF Requeued
  <2> QED
    BY <2>1, <2>2, <2>3, SettleStep
<1>5. CASE RetrieveRaised(p)
  <2>1. PICK how \in {"open", "settled"} : Answered(p, how)
    BY <1>5 DEF RetrieveRaised
  <2>2. /\ pc = "drain" /\ p \in claimed /\ Settle(p, Requeued(p))
        /\ stats' = [stats EXCEPT !.failed = @ + FailedMore(p)]
    BY <1>5 DEF RetrieveRaised
  <2>3. /\ stats' \in Stats /\ stats'.failed >= stats.failed
        /\ Requeued(p) = "failed" => stats'.failed > 0
    BY <1>1, <2>2, RequeueFacts DEF Stats
  <2>4. /\ Requeued(p) \in {"done", "failed", "pending"}
        /\ Requeued(p) = "done" => how = "settled"
        /\ Requeued(p) = "pending" => queue[run][p].attempts < max_attempts
    BY <2>2, RequeueFacts
  <2>5. how \in {"open", "settled"}
    BY <1>2
  <2> HIDE DEF Requeued
  <2> QED
    BY <2>1, <2>2, <2>3, <2>4, <2>5, SettleStep
<1> QED
  BY <1>3, <1>4, <1>5 DEF Retrieve

LEMMA DrainedStep == ASSUME IInv, Drained PROVE IInv'
<1>1. TypeOK'
  BY DEF IInv, TypeOK, Drained, archive
<1>2. /\ pc # "idle" /\ pc # "discover" /\ pc' # "idle" /\ claimed = {}
      /\ UNCHANGED <<run, outcome, queue, found, claimed, stats, answer>>
  BY DEF Drained, archive
<1> QED
  BY <1>1, <1>2, QuietStep

\* The verification traversal, or its absence, and the late arrivals.
LEMMA LateSteps ==
  ASSUME IInv, Verify \/ SkipVerification \/ \E p \in Postings : RetrieveLate(p)
  PROVE  IInv'
<1>1. CASE Verify
  <2>1. TypeOK'
    BY <1>1 DEF IInv, TypeOK, Verify, Registered
  <2>2. /\ pc # "idle" /\ pc # "discover" /\ pc' # "idle"
        /\ UNCHANGED <<run, outcome, queue, found, claimed, stats, answer>>
    BY <1>1 DEF Verify, Registered
  <2>3. pc' # "drain" => claimed = {}
    BY <1>1 DEF IInv, InHand, Verify, Registered
  <2> QED
    BY <2>1, <2>2, <2>3, QuietStep
<1>2. CASE SkipVerification
  <2>1. TypeOK'
    BY <1>2 DEF IInv, TypeOK, SkipVerification, archive
  <2>2. /\ pc # "idle" /\ pc # "discover" /\ pc' # "idle"
        /\ UNCHANGED <<run, outcome, queue, found, claimed, stats, answer>>
    BY <1>2 DEF SkipVerification, archive
  <2>3. pc' # "drain" => claimed = {}
    BY <1>2 DEF IInv, InHand, SkipVerification, archive
  <2> QED
    BY <2>1, <2>2, <2>3, QuietStep
<1>3. CASE \E p \in Postings : RetrieveLate(p)
  <2>1. TypeOK'
    BY <1>3 DEF IInv, TypeOK, RetrieveLate, archive
  <2>2. /\ pc # "idle" /\ pc # "discover" /\ pc' # "idle"
        /\ UNCHANGED <<run, outcome, queue, found, claimed, stats, answer>>
    BY <1>3 DEF RetrieveLate, archive
  <2>3. pc' # "drain" => claimed = {}
    BY <1>3 DEF IInv, InHand, RetrieveLate, archive
  <2> QED
    BY <2>1, <2>2, <2>3, QuietStep
<1> QED
  BY <1>1, <1>2, <1>3

\* What FinishRun may write as the outcome.
LEMMA FinishFacts ==
  ASSUME IInv, FinishRun
  PROVE  /\ pc = "late" /\ Gone /\ UNCHANGED <<run, known, baselineExists, queue>>
         /\ \E how \in {"success", "partial"} :
              /\ outcome' = [outcome EXCEPT ![run] = how]
              /\ how = "success" =>
                   InState(run, {"pending", "in_progress"}) = {} /\ stats.failed = 0
<1>1. PICK final \in BOOLEAN, unresolved \in BOOLEAN :
        outcome' = [outcome EXCEPT ![run] = OutcomeOf(final, unresolved)]
  BY DEF FinishRun
<1>2. /\ OutcomeOf(final, unresolved) \in {"success", "partial"}
      /\ OutcomeOf(final, unresolved) = "success" =>
           InState(run, {"pending", "in_progress"}) = {} /\ stats.failed = 0
  BY DEF OutcomeOf
<1> QED
  BY <1>1, <1>2 DEF FinishRun

LEMMA EndSteps == ASSUME IInv, FinishRun \/ FailRun \/ Crash PROVE IInv'
<1>1. CASE FinishRun
  <2>1. PICK how \in {"success", "partial"} :
          /\ outcome' = [outcome EXCEPT ![run] = how]
          /\ how = "success" => InState(run, {"pending", "in_progress"}) = {}
    BY <1>1, FinishFacts
  <2>2. pc # "idle" /\ Gone /\ UNCHANGED <<run, known, baselineExists, queue>>
    BY <1>1, FinishFacts
  <2>3. how \in Outcomes /\ how # "aborted"
    BY DEF Outcomes
  <2> QED
    BY <2>1, <2>2, <2>3, GoneStep
<1>2. CASE FailRun
  <2>1. /\ pc # "idle" /\ Gone /\ UNCHANGED <<run, known, baselineExists, queue>>
        /\ outcome' = [outcome EXCEPT ![run] = "failed"] /\ "failed" \in Outcomes
    BY <1>2 DEF FailRun, Outcomes
  <2> QED
    BY <2>1, GoneStep
<1>3. CASE Crash
  <2>1. pc # "idle" /\ Gone /\ UNCHANGED <<run, known, baselineExists, queue, outcome>>
    BY <1>3 DEF Crash, archive
  <2>2. outcome' = [outcome EXCEPT ![run] = "open"] /\ "open" \in Outcomes
    BY <2>1, RunFacts DEF IInv, TypeOK, Outcomes
  <2> QED
    BY <2>1, <2>2, GoneStep
<1> QED
  BY <1>1, <1>2, <1>3

LEMMA StutterStep == ASSUME IInv, UNCHANGED vars PROVE IInv'
<1> USE DEF vars, archive, process
<1>1. TypeOK'
  BY DEF IInv, TypeOK
<1>2. RunGoing' /\ InHand' /\ Accounted'
  BY DEF IInv, RunGoing, InHand, Accounted, InState
<1>3. NewBeforeOld' /\ ClosedRunsLeaveNoWork'
  BY DEF IInv, NewBeforeOld, ClosedRunsLeaveNoWork, Waiting, Attempted, InState
<1> QED
  BY <1>1, <1>2, <1>3 DEF IInv

LEMMA Inductive == IInv /\ [Next]_vars => IInv'
<1> SUFFICES ASSUME IInv, [Next]_vars PROVE IInv'
  OBVIOUS
<1>1. CASE StartRun
  BY <1>1, StartRunStep
<1>2. CASE DiscoverAndQueue
  BY <1>2, DiscoverStep
<1>3. CASE Reclaim
  BY <1>3, ReclaimStep
<1>4. CASE \E p \in Postings : Claim(p)
  BY <1>4, ClaimStep
<1>5. CASE \E p \in Postings : Retrieve(p)
  BY <1>5, RetrieveStep
<1>6. CASE Drained
  BY <1>6, DrainedStep
<1>7. CASE Verify \/ SkipVerification \/ \E p \in Postings : RetrieveLate(p)
  BY <1>7, LateSteps
<1>8. CASE FinishRun \/ FailRun \/ Crash
  BY <1>8, EndSteps
<1>9. CASE UNCHANGED vars
  BY <1>9, StutterStep
<1> QED
  BY <1>1, <1>2, <1>3, <1>4, <1>5, <1>6, <1>7, <1>8, <1>9 DEF Next, Progress

LEMMA Invariant == Spec => []IInv
<1>1. Init => IInv
  BY InitInvariant
<1>2. IInv /\ [Next]_vars => IInv'
  BY Inductive
<1> QED
  BY <1>1, <1>2, PTL DEF Spec

-----------------------------------------------------------------------------
\* Every variable keeps to its type; in particular no item is attempted more than
\* max_attempts times in a run, and at most one is in hand (requeue_or_fail).
THEOREM TypeCorrect == Spec => []TypeOK
<1>1. IInv => TypeOK
  BY DEF IInv
<1> QED
  BY <1>1, Invariant, PTL

\* Attempts go to the most urgent items first, retries included (claim_next).
THEOREM OrderOfWork == Spec => []NewBeforeOld
<1>1. IInv => NewBeforeOld
  BY DEF IInv
<1> QED
  BY <1>1, Invariant, PTL

\* Successful and aborted runs leave nothing outstanding, whatever the number of
\* runs and of interruptions (_outcome, abandon_stale_runs).
THEOREM NoWorkLeft == Spec => []ClosedRunsLeaveNoWork
<1>1. IInv => ClosedRunsLeaveNoWork
  BY DEF IInv
<1> QED
  BY <1>1, Invariant, PTL

\* Only FinishRun closes a run with success.
LEMMA SuccessMeans ==
  ASSUME IInv, [Next]_vars
  PROVE  \A r \in Runs : outcome'[r] = "success" /\ outcome[r] = "open"
           => \A p \in found : answer[p] = "settled"
<1> SUFFICES ASSUME NEW r \in Runs, outcome'[r] = "success", outcome[r] = "open"
             PROVE  \A p \in found : answer[p] = "settled"
  OBVIOUS
<1>1. CASE FinishRun
  <2>1. PICK how \in {"success", "partial"} :
          /\ outcome' = [outcome EXCEPT ![run] = how]
          /\ how = "success" =>
               InState(run, {"pending", "in_progress"}) = {} /\ stats.failed = 0
    BY <1>1, FinishFacts
  <2>2. pc = "late"
    BY <1>1, FinishFacts
  <2>3. r = run /\ how = "success"
    BY <2>1 DEF IInv, TypeOK, RunGoing
  <2>4. InState(run, {"failed"}) = {} /\ InState(run, {"pending", "in_progress"}) = {}
    BY <2>1, <2>2, <2>3 DEF IInv, Accounted
  <2>5. \A p \in found : p \in Postings /\ queue[run][p].state = "done"
    BY <2>2, <2>4 DEF IInv, TypeOK, Accounted, InState
  <2> QED
    BY <2>2, <2>5 DEF IInv, Accounted
<1>2. CASE FailRun
  BY <1>2 DEF FailRun, IInv, TypeOK
<1>3. CASE StartRun
  BY <1>3 DEF StartRun
<1>4. CASE UNCHANGED outcome
  BY <1>4
<1>5. CASE \E p \in Postings : Claim(p) \/ Retrieve(p) \/ RetrieveLate(p)
  <2>1. UNCHANGED outcome
    BY <1>5 DEF Claim, Retrieve, RetrieveSettled, RetrieveUncertain, RetrieveRaised,
                RetrieveLate, Settle, archive
  <2> QED
    BY <2>1
<1>6. CASE DiscoverAndQueue \/ Reclaim \/ Drained \/ Verify \/ SkipVerification \/ Crash
  <2>1. UNCHANGED outcome
    BY <1>6 DEF DiscoverAndQueue, Reclaim, Drained, Verify, SkipVerification, Crash, archive
  <2> QED
    BY <2>1
<1> QED
  BY <1>1, <1>2, <1>3, <1>4, <1>5, <1>6 DEF Next, Progress, vars, archive

\* A successful run settled every advertisement its discovery listed, for any
\* number of them and whatever failed on the way (_drain_details, _outcome).
THEOREM SuccessHonest == Spec => SuccessCoversDiscovery
<1>1. IInv /\ [Next]_vars =>
        [\A r \in Runs : outcome'[r] = "success" /\ outcome[r] = "open"
           => \A p \in found : answer[p] = "settled"]_vars
  BY SuccessMeans
<1> QED
  BY <1>1, Invariant, PTL DEF Spec, SuccessCoversDiscovery

-----------------------------------------------------------------------------
(* The rows of the runs, and their queues over time.                         *)

\* Every run up to the latest has a row, and one that begins an empty queue.
Begun == /\ \A r \in Runs : r <= run => outcome[r] # "none"
         /\ pc = "discover" => \A p \in Postings : queue[run][p] = NoItem

\* What the steps of a run do to its row, and which of them begin a run.
LEMMA RowSteps ==
  ASSUME IInv, [Next]_vars
  PROVE  \/ UNCHANGED <<run, outcome>> /\ (pc' = "discover" => pc = "discover" /\ UNCHANGED queue)
         \/ StartRun
         \/ /\ UNCHANGED run /\ pc' = "idle" /\ run \in Runs /\ outcome[run] = "open"
            /\ \E how \in {"success", "partial", "failed"} : outcome' = [outcome EXCEPT ![run] = how]
<1>1. CASE FinishRun
  BY <1>1, FinishFacts, RunFacts DEF Gone
<1>2. CASE FailRun
  BY <1>2, RunFacts DEF FailRun, Gone
<1>3. CASE Crash \/ UNCHANGED vars
  BY <1>3 DEF Crash, Gone, vars, archive, process
<1>4. CASE \E p \in Postings : Claim(p) \/ Retrieve(p) \/ RetrieveLate(p)
  BY <1>4 DEF Claim, Retrieve, RetrieveSettled, RetrieveUncertain, RetrieveRaised,
              RetrieveLate, Settle, archive
<1>5. CASE DiscoverAndQueue \/ Reclaim \/ Drained \/ Verify \/ SkipVerification
  BY <1>5 DEF DiscoverAndQueue, Reclaim, Drained, Verify, SkipVerification, archive
<1> QED
  BY <1>1, <1>2, <1>3, <1>4, <1>5 DEF Next, Progress

\* What is left of the queues when a run begins.
LEMMA LeftFacts ==
  ASSUME IInv, StartRun, NEW r \in Runs, NEW p \in Postings
  PROVE  /\ queue'[r][p] = LeftOf(r, p)
         /\ queue'[r][p].attempts = queue[r][p].attempts
         /\ queue'[r][p].state \in {queue[r][p].state, "abandoned"}
         /\ queue[r][p].state \notin {"pending", "in_progress"} => queue'[r][p] = queue[r][p]
<1>1. queue[r][p] \in Item
  BY DEF IInv, TypeOK
<1>2. queue'[r][p] = LeftOf(r, p)
  BY DEF StartRun
<1> QED
  BY <1>1, <1>2 DEF LeftOf, Item

LEMMA BegunAtFirst == Init => Begun
<1> SUFFICES ASSUME Init PROVE \A r \in Runs : ~(r <= run)
  BY DEF Init, Begun
<1> QED
  BY BoundsAssumption DEF Init, Runs

LEMMA BegunKept == IInv /\ Begun /\ [Next]_vars => Begun'
<1> SUFFICES ASSUME IInv, Begun, [Next]_vars PROVE Begun'
  OBVIOUS
<1>1. CASE UNCHANGED <<run, outcome>> /\ (pc' = "discover" => pc = "discover" /\ UNCHANGED queue)
  BY <1>1 DEF Begun
<1>2. CASE StartRun
  <2>1. /\ run' = run + 1 /\ run \in Nat /\ run + 1 \in Runs /\ Runs \subseteq Nat
        /\ outcome' = [r \in Runs |-> IF r = run + 1 THEN "open"
                                      ELSE IF outcome[r] = "open" THEN "aborted" ELSE outcome[r]]
    BY <1>2, BoundsAssumption DEF StartRun, IInv, TypeOK, Runs
  <2>2. \A r \in Runs : r <= run' => outcome'[r] # "none"
    BY <2>1 DEF Begun
  <2>3. run + 1 > run /\ NoItem.state \notin {"pending", "in_progress"}
    BY <2>1 DEF NoItem
  <2>4. \A p \in Postings : queue[run + 1][p] = NoItem
    BY <2>1, <2>3 DEF IInv, RunGoing
  <2>5. \A p \in Postings : queue'[run + 1][p] = NoItem
    BY <1>2, <2>1, <2>3, <2>4, LeftFacts
  <2> QED
    BY <2>1, <2>2, <2>5 DEF Begun
<1>3. CASE /\ UNCHANGED run /\ pc' = "idle" /\ run \in Runs /\ outcome[run] = "open"
           /\ \E how \in {"success", "partial", "failed"} : outcome' = [outcome EXCEPT ![run] = how]
  BY <1>3 DEF Begun, IInv, TypeOK
<1> QED
  BY <1>1, <1>2, <1>3, RowSteps

LEMMA AllBegun == Spec => []Begun
  BY BegunAtFirst, BegunKept, Invariant, PTL DEF Spec

\* Each step is a step of the ledger, or leaves the rows alone.
LEMMA LedgerStep == IInv /\ Begun /\ [Next]_vars => [Ledger!Next]_outcome
<1> SUFFICES ASSUME IInv, Begun, [Next]_vars PROVE Ledger!Next \/ outcome' = outcome
  OBVIOUS
<1>1. Runs = Ledger!Ids
  BY DEF Runs, Ledger!Ids
<1>2. CASE StartRun
  <2> DEFINE next == run + 1
  <2>1. run \in Nat /\ next \in Runs
    BY <1>2, BoundsAssumption DEF StartRun, IInv, TypeOK, Runs
  <2>2. next > run /\ 1 .. next - 1 \subseteq Runs /\ \A s \in 1 .. next - 1 : s <= run
    BY <2>1, BoundsAssumption DEF Runs
  <2>3. outcome[next] = "none" /\ \A s \in 1 .. next - 1 : outcome[s] # "none"
    BY <2>1, <2>2 DEF IInv, RunGoing, Begun
  <2>4. outcome' = [s \in Runs |-> IF s = next THEN "open" ELSE Ledger!GivenUp(s)]
    BY <1>2 DEF StartRun, Ledger!GivenUp
  <2>5. Ledger!Begin(next)
    <3> HIDE DEF next
    <3> QED
      BY <1>1, <2>3, <2>4 DEF Ledger!Begin
  <2> QED
    BY <1>1, <2>1, <2>5 DEF Ledger!Next
<1>3. CASE /\ UNCHANGED run /\ pc' = "idle" /\ run \in Runs /\ outcome[run] = "open"
           /\ \E how \in {"success", "partial", "failed"} : outcome' = [outcome EXCEPT ![run] = how]
  <2>1. Ledger!Close(run)
    BY <1>3 DEF Ledger!Close, Ledger!Endings
  <2> QED
    BY <1>1, <1>3, <2>1 DEF Ledger!Next
<1> QED
  BY <1>2, <1>3, RowSteps

\* Harvest implements RunLedger, for any number of runs that end, fail or are
\* killed at any point.
THEOREM LedgerKept == Spec => KeepsLedger
<1>1. Init => Ledger!Init
  BY DEF Init, Runs, Ledger!Init, Ledger!Ids
<1> QED
  BY <1>1, LedgerStep, Invariant, AllBegun, PTL DEF Spec, KeepsLedger, Ledger!Spec

\* What a step may do to an item, of the run or of one before it.
Onward(r, p) ==
  /\ queue[r][p].state \in {"done", "failed", "abandoned"} => queue'[r][p] = queue[r][p]
  /\ queue'[r][p].attempts >= queue[r][p].attempts
  /\ r < run' => queue'[r][p].state \in {queue[r][p].state, "abandoned"}

LEMMA ItemsMoveOn ==
  ASSUME IInv, Begun, [Next]_vars, NEW r \in Runs, NEW p \in Postings
  PROVE  Onward(r, p)
<1>1. queue[r][p] \in Item /\ queue[r][p].attempts \in Nat /\ r \in Nat /\ run \in Nat
  BY BoundsAssumption DEF IInv, TypeOK, Item, max_attempts, Runs
<1>2. CASE queue'[r][p] = queue[r][p]
  BY <1>1, <1>2 DEF Onward
<1>3. CASE StartRun
  BY <1>1, <1>3, LeftFacts DEF Onward
<1>4. CASE DiscoverAndQueue
  <2>1. r # run => queue'[r][p] = queue[r][p]
    BY <1>4 DEF DiscoverAndQueue, IInv, TypeOK
  <2>2. r = run => queue[r][p].state = "none" /\ queue[r][p].attempts = 0
    BY <1>4 DEF DiscoverAndQueue, Begun, NoItem
  <2>3. IInv' /\ run' = run
    BY <1>4, DiscoverStep DEF DiscoverAndQueue
  <2>4. queue'[r][p].attempts \in Nat
    <3>1. queue' \in [Runs -> [Postings -> Item]]
      BY <2>3 DEF IInv, TypeOK
    <3>2. queue'[r][p] \in Item
      BY <3>1
    <3> QED
      BY <3>2 DEF Item, max_attempts
  <2> QED
    BY <1>1, <1>2, <2>1, <2>2, <2>3, <2>4 DEF Onward
<1>5. CASE Reclaim
  <2>1. r = run => queue[r][p].state # "in_progress"
    BY <1>5 DEF Reclaim, IInv, InHand, InState
  <2>2. queue'[r][p] = queue[r][p]
    BY <1>5, <2>1 DEF Reclaim, IInv, TypeOK
  <2> QED
    BY <1>2, <2>2
<1>6. ASSUME NEW q \in Postings, Claim(q) PROVE Onward(r, p)
  <2>1. queue[run][q].state = "pending" /\ run' = run
    BY <1>6 DEF Claim, Pending, InState
  <2>2. CASE r = run /\ p = q
    BY <1>1, <1>6, <2>1, <2>2 DEF Claim, Onward, IInv, TypeOK, Item
  <2>3. CASE ~(r = run /\ p = q)
    BY <1>2, <1>6, <2>3 DEF Claim, IInv, TypeOK
  <2> QED
    BY <2>2, <2>3
<1>7. ASSUME NEW q \in Postings, Retrieve(q) PROVE Onward(r, p)
  <2>1. PICK state : Settle(q, state)
    BY <1>7 DEF Retrieve, RetrieveSettled, RetrieveUncertain, RetrieveRaised
  <2>2. queue[run][q].state = "in_progress" /\ run' = run
    BY <1>7, <2>1 DEF Retrieve, RetrieveSettled, RetrieveUncertain, RetrieveRaised, Settle,
                      IInv, InHand, InState
  <2>3. CASE r = run /\ p = q
    BY <1>1, <2>1, <2>2, <2>3 DEF Settle, Onward, IInv, TypeOK, Item
  <2>4. CASE ~(r = run /\ p = q)
    BY <1>2, <2>1, <2>4 DEF Settle, IInv, TypeOK
  <2> QED
    BY <2>3, <2>4
<1>8. CASE UNCHANGED queue
  BY <1>2, <1>8
<1> QED
  BY <1>3, <1>4, <1>5, <1>6, <1>7, <1>8
  DEF Next, Progress, Drained, Verify, Registered, SkipVerification, RetrieveLate, FinishRun,
      FailRun, Crash, vars, archive

\* For any number of advertisements and runs, no attempt is forgotten, what was
\* settled or given up is left alone, and what an earlier run left is at most
\* abandoned (enqueue, claim_next, requeue_or_fail, reclaim_orphans).
THEOREM NothingUndone == Spec => WorkStaysDone
<1>1. IInv /\ Begun /\ [Next]_vars =>
        [\A r \in Runs, p \in Postings :
           /\ queue[r][p].state \in {"done", "failed", "abandoned"} => queue'[r][p] = queue[r][p]
           /\ queue'[r][p].attempts >= queue[r][p].attempts
           /\ r < run' => queue'[r][p].state \in {queue[r][p].state, "abandoned"}]_vars
  BY ItemsMoveOn DEF Onward
<1> QED
  BY <1>1, Invariant, AllBegun, PTL DEF Spec, WorkStaysDone

-----------------------------------------------------------------------------
(* The policy of Recheck chooses the unlisted advertisements that a run adds *)
(* to its queue.                                                             *)

\* The streak never runs ahead of the evidence, which never exceeds what is asked.
Evidenced ==
  /\ tier \in [Advertisements -> {"daily", "weekly"}]
  /\ streak \in [Advertisements -> 0 .. Terminals] /\ evidence \in [Advertisements -> 0 .. Terminals]
  /\ \A p \in Advertisements : /\ streak[p] <= evidence[p]
                               /\ tier[p] = "weekly" => evidence[p] = Terminals

\* One posting that a run observed, with whatever result.
LEMMA Moved ==
  ASSUME Evidenced, NEW p \in Advertisements, NEW result \in Results
  PROVE  /\ Streak(p, result) \in 0 .. Terminals
         /\ Evidence(p, result) \in 0 .. Terminals
         /\ Streak(p, result) <= Evidence(p, result)
         /\ Tier(p, result) \in {"daily", "weekly"}
         /\ Tier(p, result) = "weekly" => Evidence(p, result) = Terminals
<1>1. /\ Terminals \in Nat \ {0} /\ streak[p] \in 0 .. Terminals /\ evidence[p] \in 0 .. Terminals
      /\ streak[p] <= evidence[p] /\ tier[p] \in {"daily", "weekly"}
      /\ tier[p] = "weekly" => evidence[p] = Terminals
  BY RecheckAssumption DEF Evidenced
<1>2. CASE p \in listed'
  BY <1>1, <1>2 DEF Streak, Evidence, Tier, Results
<1>3. CASE p \notin listed' /\ result = "terminal"
  BY <1>1, <1>3 DEF Streak, Evidence, Tier
<1>4. CASE p \notin listed' /\ result = "content"
  BY <1>1, <1>4 DEF Streak, Evidence, Tier
<1>5. CASE p \notin listed' /\ result = "inconclusive"
  BY <1>1, <1>5 DEF Streak, Evidence, Tier
<1> QED
  BY <1>2, <1>3, <1>4, <1>5 DEF Results

LEMMA EvidencedKept ==
  ASSUME Evidenced, [RecheckNext]_recheckVars
  PROVE  Evidenced'
<1>1. ASSUME NEW appeared \in SUBSET Advertisements, NEW results \in Observations,
             Complete(appeared, results)
      PROVE  Evidenced'
  <2>1. PICK seen \in SUBSET Advertisements : results \in [seen -> Results]
    BY DEF Observations
  <2>2. DOMAIN results = seen /\ \A p \in seen : results[p] \in Results
    BY <2>1
  <2>3. /\ streak' = [p \in Advertisements |-> IF p \in seen THEN Streak(p, results[p]) ELSE streak[p]]
        /\ evidence' = [p \in Advertisements |-> IF p \in seen THEN Evidence(p, results[p]) ELSE evidence[p]]
        /\ tier' = [p \in Advertisements |-> IF p \in seen THEN Tier(p, results[p]) ELSE tier[p]]
    BY <1>1, <2>2 DEF Complete
  <2>4. ASSUME NEW p \in Advertisements
        PROVE  /\ streak'[p] \in 0 .. Terminals /\ evidence'[p] \in 0 .. Terminals
               /\ tier'[p] \in {"daily", "weekly"} /\ streak'[p] <= evidence'[p]
               /\ tier'[p] = "weekly" => evidence'[p] = Terminals
    <3>1. CASE p \in seen
      BY <2>2, <2>3, <3>1, Moved
    <3>2. CASE p \notin seen
      BY <2>3, <3>2 DEF Evidenced
    <3> QED
      BY <3>1, <3>2
  <2> QED
    BY <2>3, <2>4 DEF Evidenced
<1>2. CASE Run
  BY <1>1, <1>2 DEF Run
<1>3. CASE LostRun \/ Day \/ UNCHANGED recheckVars
  BY <1>3 DEF LostRun, Day, recheckVars, Evidenced
<1> QED
  BY <1>2, <1>3 DEF RecheckNext

\* An advertisement is only put off for a week on as many terminal observations in
\* a row as the configuration asks for, however many advertisements compete and in
\* whatever order runs end, die, or find things (_update_recheck_policy).
THEOREM Demoted == RecheckSpec => []DemotedOnEvidence
<1>1. RecheckInit => Evidenced
  BY RecheckAssumption DEF RecheckInit, Evidenced
<1>2. Evidenced /\ [RecheckNext]_recheckVars => Evidenced'
  BY EvidencedKept
<1>3. Evidenced => DemotedOnEvidence
  BY RecheckAssumption DEF Evidenced, DemotedOnEvidence
<1> QED
  BY <1>1, <1>2, <1>3, PTL DEF RecheckSpec
=============================================================================
