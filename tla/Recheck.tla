------------------------------ MODULE Recheck -------------------------------
(***************************************************************************)
(* Which advertisements are looked at again after they left the listing.   *)
(*                                                                         *)
(* Every run queues a bounded number of unlisted advertisements, least     *)
(* recently checked first, and passes over those of the weekly tier whose  *)
(* week is not over (_queue_historical).  At its end it moves what it      *)
(* observed between the tiers (_update_recheck_policy).                    *)
(*                                                                         *)
(* A run is one step here.  Timestamps of recheck_policy are abstracted to *)
(* the order they induce, and next_due_at_utc to the days left.            *)
(***************************************************************************)
EXTENDS Integers, Sequences, FiniteSets, SequencesExt

CONSTANTS
  Advertisements,  \* external job ids
  ByPostingId,     \* the same, in the order of posting_id
  MaxRechecks,     \* collection.max_historical_rechecks_per_run
  Terminals,       \* collection.terminal_observations_before_weekly
  WeeklyDays       \* collection.weekly_recheck_interval_days

ASSUME RecheckAssumption ==
  /\ MaxRechecks \in Nat \ {0} /\ Terminals \in Nat \ {0} /\ WeeklyDays \in Nat \ {0}
ASSUME OrderAssumption ==
  /\ ByPostingId \in Seq(Advertisements) /\ Len(ByPostingId) = Cardinality(Advertisements)
  /\ {ByPostingId[i] : i \in DOMAIN ByPostingId} = Advertisements

VARIABLES
  registered,      \* postings
  tier, streak,    \* recheck_policy.tier, .consecutive_terminal_observations
  due,             \* days until next_due_at_utc; 0: due, or not set
  order,           \* all postings by last_checked_at_utc, then posting_id
  listed,          \* listed_ids of the latest run
  observed,        \* postings the latest run observed
  evidence         \* terminal observations since the last content, in runs that ended,
                   \* up to Terminals

recheckVars == <<registered, tier, streak, due, order, listed, observed, evidence>>

\* Availability states by what the policy makes of them.
Results == {"terminal", "content", "inconclusive"}

-----------------------------------------------------------------------------
RecheckInit ==
  /\ registered = {} /\ listed = {} /\ observed = {}
  /\ tier = [p \in Advertisements |-> "daily"]
  /\ streak = [p \in Advertisements |-> 0] /\ due = [p \in Advertisements |-> 0]
  /\ evidence = [p \in Advertisements |-> 0]
  /\ order = ByPostingId

Deferred(p) == tier[p] = "weekly" /\ due[p] > 0

\* Slip for UnlistedStaysWatched: the first ones by posting_id, every run.
Historical_ById(found) ==
  LET eligible(p) == p \in registered \ found /\ ~Deferred(p)
      candidates  == SelectSeq(ByPostingId, eligible)
  IN  {candidates[i] : i \in 1 .. Len(candidates) \cap 1 .. MaxRechecks}

\* The unlisted advertisements a run looks at: the first MaxRechecks that are due.
Historical(found) ==
  LET eligible(p) == p \in registered \ found /\ ~Deferred(p)
      candidates  == SelectSeq(order, eligible)
  IN  {candidates[i] : i \in 1 .. Len(candidates)
                             \cap 1 .. MaxRechecks}

\* Items are processed, and so time-stamped, in order of priority.
Reordered(seen, now) ==
  LET unseen(p) == p \notin seen
      new(p)    == p \in seen \cap now
      daily(p)  == p \in seen \ now /\ tier[p] = "daily"
      weekly(p) == p \in seen \ now /\ tier[p] = "weekly"
  IN  SelectSeq(order, unseen) \o SelectSeq(order, new)
        \o SelectSeq(order, daily) \o SelectSeq(order, weekly)

\* Slip for DemotedOnEvidence: an inconclusive check advances the streak.
Streak_UncertainCounts(p, result) ==
  IF p \in listed' \/ result = "content" THEN 0
  ELSE IF streak[p] < Terminals THEN streak[p] + 1 ELSE Terminals

\* _update_recheck_policy for one observed posting.
Streak(p, result) ==
  CASE p \in listed'          -> 0
    [] p \notin listed' /\ result = "terminal"     ->
         IF streak[p] < Terminals THEN streak[p] + 1 ELSE Terminals
    [] p \notin listed' /\ result = "content"      -> 0
    [] p \notin listed' /\ result = "inconclusive" -> streak[p]

Tier(p, result) ==
  IF p \notin listed' /\ result = "inconclusive" THEN tier[p]
  ELSE IF Streak(p, result) >= Terminals THEN "weekly" ELSE "daily"

Due(p, result) ==
  IF p \notin listed' /\ result = "inconclusive" THEN due[p]
  ELSE IF Tier(p, result) = "weekly" THEN WeeklyDays ELSE 0

Evidence(p, result) ==
  CASE result = "content"      -> 0
    [] result = "terminal"     ->
         IF evidence[p] < Terminals THEN evidence[p] + 1 ELSE Terminals
    [] result = "inconclusive" -> evidence[p]

\* What a run finds listed, what it queues, and what it observes of that: a
\* collector that raises leaves no observation of its posting.
Observe(found, results) ==
  LET queued == found \cup Historical(found)
      seen   == DOMAIN results
  IN  /\ registered' = registered \cup found
      /\ observed' = seen
      /\ seen \subseteq queued

\* What a run may come to see: some postings, each with a result.
Observations == UNION {[seen -> Results] : seen \in SUBSET Advertisements}

\* A run that gets to its end.  Its authoritative set is that of its last
\* qualified traversal, here the discovery traversal or none.
Complete(found, results) ==
  LET seen == DOMAIN results IN
  /\ Observe(found, results)
  /\ listed' \in {found, {}}
  /\ order' = Reordered(seen, found)
  /\ evidence' = [p \in Advertisements |->
       IF p \in seen THEN Evidence(p, results[p]) ELSE evidence[p]]
  /\ streak' = [p \in Advertisements |->
       IF p \in seen THEN Streak(p, results[p]) ELSE streak[p]]
  /\ tier' = [p \in Advertisements |->
       IF p \in seen THEN Tier(p, results[p]) ELSE tier[p]]
  /\ due' = [p \in Advertisements |->
       IF p \in seen THEN Due(p, results[p]) ELSE due[p]]

Run == \E found \in SUBSET Advertisements, results \in Observations : Complete(found, results)

\* A run in which no retrieval raises, so that every queued item is observed.
GoodRun ==
  \E found \in SUBSET Advertisements :
    \E results \in [found \cup Historical(found) -> Results] : Complete(found, results)

\* A run that dies before it updates the policy.
LostRun ==
  /\ \E found \in SUBSET Advertisements, results \in Observations : Observe(found, results)
  /\ listed' = {}
  /\ UNCHANGED <<tier, streak, due, order, evidence>>

Day ==
  /\ \E p \in Advertisements : due[p] > 0
  /\ due' = [p \in Advertisements |-> IF due[p] > 0 THEN due[p] - 1 ELSE 0]
  /\ UNCHANGED <<registered, tier, streak, order, listed, observed, evidence>>

RecheckNext == Run \/ LostRun \/ Day

\* Days pass, and again and again the timer starts a run that goes well.
RecheckSpec == RecheckInit /\ [][RecheckNext]_recheckVars
                 /\ WF_recheckVars(Day) /\ WF_recheckVars(GoodRun)

-----------------------------------------------------------------------------
(* Properties.                                                             *)

\* An advertisement is demoted only after that many terminal observations with no
\* content captured between them: failures and challenges never count towards it
\* (_update_recheck_policy; DATA_DICTIONARY, consecutive_terminal_observations:
\* "Reset by a listing appearance or a content capture").  Counted over the runs
\* that ended: what a run captured that died is not in the policy.
DemotedOnEvidence == \A p \in Advertisements : tier[p] = "weekly" => evidence[p] >= Terminals

\* An advertisement that left the listing for good is looked at again and again,
\* whichever tier it is in and however many others compete for the bounded number
\* of rechecks: the comment in _queue_historical ("would recheck the same first N
\* unlisted advertisements every run and never reach the tail").
UnlistedStaysWatched ==
  \A p \in Advertisements : <>[](p \in registered /\ p \notin listed) => []<>(p \in observed)
=============================================================================
