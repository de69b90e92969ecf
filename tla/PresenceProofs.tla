--------------------------- MODULE PresenceProofs ---------------------------
(***************************************************************************)
(* Proofs about Presence, for any set of advertisements and number of runs.*)
(***************************************************************************)
EXTENDS Presence, TLAPS

\* While a run is in progress its number is a run's; outside derivation nothing
\* is left to derive.
RunGoing == /\ pc # "idle" => run \in Runs
            /\ pc # "derive" => todo = {}

\* What stayed listed while the run read is in the result of every traversal of it
\* that qualified, or slipped past that one.
NothingMissed == \A role \in Roles :
  Qualified(role) => always \subseteq scans[role].ids \cup slipped[role]

\* Absence is only ever derived beside a qualified traversal.
DerivesFromFinal == todo # {} => HasFinal

IInv == TypeOK /\ RunGoing /\ NothingMissed /\ DerivesFromFinal

-----------------------------------------------------------------------------
\* No traversal has been made yet.
NoScans == [role \in Roles |-> NoScan]

LEMMA NoScansFacts ==
  /\ NoScans \in [Roles -> Scan]
  /\ \A role \in Roles : ~NoScans[role].done
<1>1. NoScan \in Scan
  BY DEF NoScan, Scan
<1> QED
  BY <1>1 DEF NoScans, NoScan

LEMMA InitInvariant == Init => IInv
<1> SUFFICES ASSUME Init PROVE IInv
  OBVIOUS
<1>1. scans = NoScans
  BY DEF Init, NoScans
<1>2. TypeOK
  <2>1. scans \in [Roles -> Scan]
    BY <1>1, NoScansFacts
  <2>2. /\ discovered \in [Postings -> 0 .. MaxRuns] /\ run \in 0 .. MaxRuns
    BY BoundsAssumption DEF Init
  <2>3. /\ slipped \in [Roles -> SUBSET Postings] /\ always \subseteq Postings /\ ever \subseteq Postings
        /\ todo \subseteq Postings /\ greeted \subseteq Postings
        /\ events \subseteq Events /\ gaps \subseteq Gaps
    BY DEF Init
  <2> QED
    BY <2>1, <2>2, <2>3 DEF Init, TypeOK
<1>3. RunGoing /\ DerivesFromFinal
  BY DEF Init, RunGoing, DerivesFromFinal
<1>4. NothingMissed
  BY <1>1, NoScansFacts DEF Init, NothingMissed, Qualified
<1> QED
  BY <1>2, <1>3, <1>4 DEF IInv

\* A traversal keeps the types and, if it qualifies, misses nothing that stayed.
LEMMA TraverseStep ==
  ASSUME IInv, NEW role \in Roles, Traverse(role), pc # "idle", pc # "derive",
         pc' \in {"verification", "reconciliation", "conclude"}
  PROVE  IInv'
<1>1. PICK throughout, during, ids \in SUBSET Postings, qualified, masked \in BOOLEAN :
        /\ TraversalResult(throughout, during, ids, qualified, masked)
        /\ always' = always \cap throughout
        /\ ever' = ever \cup during
        /\ slipped' = [slipped EXCEPT ![role] = @ \cup IF qualified THEN always' \ ids ELSE {}]
        /\ scans' = [scans EXCEPT ![role] =
                       [done |-> TRUE, qualified |-> qualified, ids |-> ids]]
        /\ discovered' = [p \in Postings |->
                            IF p \in ids /\ discovered[p] = 0 THEN run ELSE discovered[p]]
        /\ UNCHANGED <<events, gaps, run, todo, greeted>>
  BY DEF Traverse
<1> USE DEF Roles
<1>2. run \in Runs /\ run \in 0 .. MaxRuns
  BY DEF IInv, RunGoing, TypeOK
<1>3. scans' \in [Roles -> Scan]
  BY <1>1 DEF IInv, TypeOK, Scan
<1>4. discovered' \in [Postings -> 0 .. MaxRuns]
  BY <1>1, <1>2 DEF IInv, TypeOK
<1>5. TypeOK'
  BY <1>1, <1>3, <1>4 DEF IInv, TypeOK
<1>6. RunGoing' /\ DerivesFromFinal'
  BY <1>1, <1>2 DEF IInv, RunGoing, DerivesFromFinal
<1>7. NothingMissed'
  <2>1. qualified => always' \subseteq ids \cup slipped'[role]
    BY <1>1 DEF IInv, TypeOK
  <2>2. /\ scans'[role] = [done |-> TRUE, qualified |-> qualified, ids |-> ids]
        /\ \A r \in Roles \ {role} : scans'[r] = scans[r] /\ slipped'[r] = slipped[r]
    BY <1>1 DEF IInv, TypeOK
  <2>3. ASSUME NEW r \in Roles, Qualified(r)'
        PROVE  always' \subseteq scans'[r].ids \cup slipped'[r]
    <3>1. CASE r = role
      BY <2>1, <2>2, <2>3, <3>1 DEF Qualified
    <3>2. CASE r # role
      BY <1>1, <2>2, <2>3, <3>2 DEF Qualified, IInv, NothingMissed
    <3> QED
      BY <3>1, <3>2
  <2> QED
    BY <1>1, <2>3 DEF NothingMissed
<1> QED
  BY <1>5, <1>6, <1>7 DEF IInv

LEMMA ScanStep == ASSUME IInv, Discover \/ Verify \/ Reconcile PROVE IInv'
  BY TraverseStep DEF Discover, Verify, Reconcile, Roles

LEMMA StartStep == ASSUME IInv, StartRun PROVE IInv'
<1> USE BoundsAssumption
<1>1. run + 1 \in Runs /\ run + 1 \in 0 .. MaxRuns
  BY DEF IInv, TypeOK, StartRun, Runs
<1>2. scans' \in [Roles -> Scan] /\ \A role \in Roles : ~Qualified(role)'
  BY DEF StartRun, NoScan, Scan, Qualified
<1>3. TypeOK'
  BY <1>1, <1>2 DEF IInv, TypeOK, StartRun
<1>4. RunGoing' /\ DerivesFromFinal'
  BY <1>1 DEF IInv, RunGoing, DerivesFromFinal, StartRun
<1>5. NothingMissed'
  BY <1>2 DEF NothingMissed, StartRun
<1> QED
  BY <1>3, <1>4, <1>5 DEF IInv

LEMMA ConcludeStep == ASSUME IInv, Conclude PROVE IInv'
<1>1. TypeOK'
  <2>1. gaps' \subseteq Gaps
    BY DEF Conclude, IInv, TypeOK, Gap, Gaps, GapKinds
  <2> QED
    BY <2>1 DEF Conclude, IInv, TypeOK, world
<1>2. RunGoing'
  BY DEF Conclude, IInv, RunGoing
<1>3. NothingMissed' /\ DerivesFromFinal'
  BY DEF Conclude, IInv, NothingMissed, DerivesFromFinal, HasFinal, Qualified, world
<1> QED
  BY <1>1, <1>2, <1>3 DEF IInv

\* Derivation writes rows and leaves the traversals and the world alone.
LEMMA DeriveStep == ASSUME IInv, NEW p \in Postings, Step(p) PROVE IInv'
<1> USE DEF Deriving, Write, memory, world
<1>1. run \in Runs
  BY DEF IInv, RunGoing, Step, RecordDisagreement, RecordAbsent, Greet, RecordListed
<1>2. gaps' \subseteq Gaps
  BY DEF IInv, TypeOK, Step, RecordDisagreement, RecordAbsent, Greet, RecordListed,
         Gap, Gaps, GapKinds
<1>3. events' \subseteq Events
  BY <1>1 DEF IInv, TypeOK, Step, RecordDisagreement, RecordAbsent, Greet, RecordListed,
              Events, EventKinds, PresenceKinds
<1>4. /\ UNCHANGED <<discovered, run, pc, scans, always, ever, slipped>>
      /\ pc = "derive" /\ todo # {} /\ todo' \subseteq todo /\ greeted' \subseteq Postings
  BY DEF IInv, TypeOK, Step, RecordDisagreement, RecordAbsent, Greet, RecordListed
<1>5. TypeOK'
  BY <1>2, <1>3, <1>4 DEF IInv, TypeOK
<1>6. RunGoing' /\ NothingMissed' /\ DerivesFromFinal'
  BY <1>4 DEF IInv, RunGoing, NothingMissed, DerivesFromFinal, HasFinal, Qualified
<1> QED
  BY <1>5, <1>6 DEF IInv

LEMMA EndStep == ASSUME IInv, Finish \/ Crash \/ UNCHANGED vars PROVE IInv'
<1> USE DEF archive, memory, world, vars
<1>1. CASE UNCHANGED vars
  BY <1>1 DEF IInv, TypeOK, RunGoing, NothingMissed, DerivesFromFinal, HasFinal, Qualified
<1>2. CASE Finish \/ Crash
  <2>0. scans' = NoScans
    BY <1>2 DEF Finish, Crash, NoScans
  <2>1. scans' \in [Roles -> Scan] /\ \A role \in Roles : ~Qualified(role)'
    BY <2>0, NoScansFacts DEF Qualified
  <2>2. todo' = {} /\ pc' = "idle"
    BY <1>2 DEF Finish, Crash
  <2>3. UNCHANGED <<archive, world>> /\ greeted' \subseteq Postings
    BY <1>2 DEF Finish, Crash, IInv, TypeOK
  <2> QED
    BY <2>1, <2>2, <2>3 DEF IInv, TypeOK, RunGoing, NothingMissed, DerivesFromFinal
<1> QED
  BY <1>1, <1>2

LEMMA StepInvariant == IInv /\ [Next]_vars => IInv'
  BY StartStep, ScanStep, ConcludeStep, DeriveStep, EndStep DEF Next

THEOREM Invariance == Spec => []IInv
  BY InitInvariant, StepInvariant, PTL DEF Spec

\* Every variable keeps its type, in whatever order traversals fail and runs die.
THEOREM TypeCorrect == Spec => []TypeOK
<1>1. IInv => TypeOK
  BY DEF IInv
<1> QED
  BY <1>1, Invariance, PTL

-----------------------------------------------------------------------------
\* What is not in the result of any traversal of the run that qualified was off the
\* listing, or slipped past all of them.
LEMMA Unseen ==
  ASSUME IInv, NEW p \in todo, p \notin ListedAnywhere
  PROVE  (p \notin always \/ SlippedPastAll(p)) /\ (p \in always => p \in NotOnShow)
<1> SUFFICES ASSUME p \in always PROVE SlippedPastAll(p) /\ p \in NotOnShow
  OBVIOUS
<1>1. PICK role \in Roles : Qualified(role)
  BY DEF IInv, DerivesFromFinal, HasFinal
<1>2. \A r \in Roles : Qualified(r) => p \in slipped[r]
  BY DEF IInv, NothingMissed, ListedAnywhere
<1> QED
  BY <1>1, <1>2 DEF SlippedPastAll, NotOnShow

\* The one step that claims an absence does so beside a qualified traversal, and
\* no qualified traversal of the run misses what stayed listed, if nothing slipped.
LEMMA AbsenceStep ==
  ASSUME IInv, [Next]_vars, NEW e \in events' \ events, e.kind = "absent_qualified"
  PROVE  e.posting \notin always \/ SlippedPastAll(e.posting)
<1> USE DEF Write
<1>1. PICK p \in Postings : RecordAbsent(p) /\ e.posting = p
  <2>1. events' # events
    OBVIOUS
  <2>2. PICK p \in Postings : Step(p)
    BY <2>1 DEF Next, StartRun, Discover, Verify, Reconcile, Traverse, Conclude, Finish,
                Crash, archive, vars
  <2>3. PICK kind \in EventKinds :
          e = [kind |-> kind, posting |-> p, run |-> run] /\ Write(kind, p)
              /\ (kind = "absent_qualified" => RecordAbsent(p))
    BY <2>1, <2>2 DEF Step, RecordDisagreement, RecordAbsent, Greet, RecordListed,
                      EventKinds, PresenceKinds
  <2> QED
    BY <2>3
<1> QED
  BY <1>1, Unseen DEF RecordAbsent, Deriving

\* No advertisement that stayed listed while a run read is ever called absent by it,
\* whatever fails, unless it slipped past each of its traversals that qualified.
THEOREM AbsenceTrue == Spec => AbsenceIsTrue
<1>1. IInv /\ [Next]_vars =>
        [\A e \in events' \ events :
            e.kind = "absent_qualified" =>
              e.posting \notin always \/ SlippedPastAll(e.posting)]_vars
  BY AbsenceStep
<1> QED
  BY <1>1, Invariance, PTL DEF Spec, AbsenceIsTrue

-----------------------------------------------------------------------------
(* What the events say.  The second part of the invariant is about the rows  *)
(* of the latest run beside those of the runs before.                        *)

\* What was written about an advertisement was written since its discovery.
SinceDiscovery ==
  /\ \A p \in Postings : discovered[p] <= run
  /\ \A e \in events : discovered[e.posting] # 0 /\ discovered[e.posting] <= e.run
  /\ \A p \in todo : discovered[p] # 0

\* A run writes nothing before it derives, and nothing final about what is left to
\* derive; only the advertisement that was greeted has a row already.
Pending ==
  /\ \A e \in events : e.run <= run
  /\ pc \notin {"idle", "derive"} => gaps = {} /\ \A e \in events : e.run < run
  /\ \A e \in events : e.run = run /\ e.posting \in todo =>
       greeted = {e.posting} /\ e.kind \notin PresenceKinds
  /\ \A p \in todo : Gap("listing_disagreement_within_run", {p}) \notin gaps

\* Every traversal saw what was listed at some time of the run.
SawListed == \A role \in Roles : scans[role].ids \subseteq ever

NeverBoth == \A p \in Postings : RunsWith("listed", p) \cap RunsWith("absent_qualified", p) = {}

RowsInv == /\ SinceDiscovery /\ Pending /\ SawListed /\ NeverBoth
           /\ EveryPostingExplained /\ ReturnsCountedOnce

\* One row more in the events.
LEMMA WriteAddsRow ==
  ASSUME NEW kind, NEW p, Write(kind, p)
  PROVE  /\ \A e \in events' : e \in events \/ e = [kind |-> kind, posting |-> p, run |-> run]
         /\ events \subseteq events'
         /\ \A k, q : RunsWith(k, q)' =
              RunsWith(k, q) \cup (IF k = kind /\ q = p THEN {run} ELSE {})
<1> DEFINE new == [kind |-> kind, posting |-> p, run |-> run]
<1>1. events' = events \cup {new}
  BY DEF Write
<1>2. new.kind = kind /\ new.posting = p /\ new.run = run
  OBVIOUS
<1> HIDE DEF new
<1>3. \A k, q : RunsWith(k, q)' =
         RunsWith(k, q) \cup (IF k = kind /\ q = p THEN {run} ELSE {})
  BY <1>1, <1>2 DEF RunsWith
<1> QED
  BY <1>1, <1>3 DEF new

LEMMA SameRows ==
  ASSUME events' = events
  PROVE  /\ \A k, q : RunsWith(k, q)' = RunsWith(k, q)
         /\ NeverBoth => NeverBoth'
         /\ ReturnsCountedOnce => ReturnsCountedOnce'
<1>1. \A k, q : RunsWith(k, q)' = RunsWith(k, q)
  BY DEF RunsWith
<1> QED
  BY <1>1 DEF NeverBoth, ReturnsCountedOnce

\* The runs that wrote rows are runs up to the latest.
LEMMA RunsWithType ==
  ASSUME IInv, RowsInv, NEW k, NEW p, NEW r \in RunsWith(k, p)
  PROVE  r \in Nat /\ r <= run
BY BoundsAssumption DEF RunsWith, IInv, TypeOK, Events, Runs, RowsInv, Pending

\* What is left to derive has no final row of the latest run.
LEMMA NothingFinal ==
  ASSUME IInv, RowsInv, NEW p \in todo, NEW k \in PresenceKinds
  PROVE  run \notin RunsWith(k, p)
BY DEF RunsWith, RowsInv, Pending

\* A gap names what it is about.
LEMMA GapsApart == \A p, q : Gap("listing_disagreement_within_run", {p})
                               = Gap("listing_disagreement_within_run", {q}) => p = q
<1> SUFFICES ASSUME NEW p, NEW q,
                    Gap("listing_disagreement_within_run", {p})
                      = Gap("listing_disagreement_within_run", {q})
             PROVE  p = q
  OBVIOUS
<1>1. Gap("listing_disagreement_within_run", {p}).about = {p}
  BY DEF Gap
<1>2. Gap("listing_disagreement_within_run", {q}).about = {q}
  BY DEF Gap
<1> QED
  BY <1>1, <1>2

\* The authoritative set is the result of a qualified traversal.
LEMMA FinalIsQualified == HasFinal => FinalRole \in Roles /\ Qualified(FinalRole)
  BY DEF HasFinal, FinalRole, Roles

LEMMA RowsInit == Init => RowsInv
<1> SUFFICES ASSUME Init PROVE RowsInv
  OBVIOUS
<1>1. \A k, p : RunsWith(k, p) = {}
  BY DEF Init, RunsWith
<1>2. SawListed
  BY DEF Init, SawListed, NoScan
<1>3. EveryPostingExplained /\ ReturnsCountedOnce /\ NeverBoth
  BY <1>1 DEF Init, EveryPostingExplained, ReturnsCountedOnce, NeverBoth
<1> QED
  BY <1>2, <1>3 DEF Init, RowsInv, SinceDiscovery, Pending

LEMMA StartKeepsRows == ASSUME IInv, RowsInv, StartRun PROVE RowsInv'
<1>1. events' = events /\ todo' = {} /\ run' = run + 1 /\ run \in Nat
  BY BoundsAssumption DEF StartRun, IInv, TypeOK, RunGoing
<1>2. \A e \in events : e.run \in Nat
  BY BoundsAssumption DEF IInv, TypeOK, Events, Runs
<1>3. SinceDiscovery'
  BY <1>1, BoundsAssumption DEF StartRun, RowsInv, SinceDiscovery, IInv, TypeOK
<1>4. Pending'
  BY <1>1, <1>2 DEF StartRun, RowsInv, Pending
<1>5. SawListed'
  BY DEF StartRun, SawListed, NoScan
<1>6. EveryPostingExplained'
  BY DEF StartRun, EveryPostingExplained
<1> QED
  BY <1>1, <1>3, <1>4, <1>5, <1>6, SameRows DEF RowsInv

LEMMA TraverseKeepsRows ==
  ASSUME IInv, RowsInv, NEW role \in Roles, Traverse(role), pc \notin {"idle", "derive"},
         pc' \notin {"idle", "derive"}
  PROVE  RowsInv'
<1>1. PICK throughout \in SUBSET Postings, during \in SUBSET Postings,
           ids \in SUBSET Postings, qualified \in BOOLEAN :
        /\ ids \subseteq during /\ ever' = ever \cup during
        /\ scans' = [scans EXCEPT ![role] =
                       [done |-> TRUE, qualified |-> qualified, ids |-> ids]]
        /\ discovered' = [p \in Postings |->
                            IF p \in ids /\ discovered[p] = 0 THEN run ELSE discovered[p]]
        /\ UNCHANGED <<events, gaps, run, todo, greeted>>
  BY DEF Traverse, TraversalResult
<1>2. todo = {} /\ \A e \in events : e.posting \in Postings
  BY DEF IInv, RunGoing, TypeOK, Events
<1>3. run \in Nat
  BY BoundsAssumption DEF IInv, TypeOK
<1>4. SinceDiscovery'
  BY <1>1, <1>2, <1>3 DEF RowsInv, SinceDiscovery
<1>5. Pending'
  BY <1>1, <1>2 DEF RowsInv, Pending
<1>6. SawListed'
  <2>1. ids \subseteq ever'
    BY <1>1
  <2>2. \A r \in Roles : scans'[r].ids = IF r = role THEN ids ELSE scans[r].ids
    BY <1>1 DEF IInv, TypeOK
  <2> QED
    BY <1>1, <2>1, <2>2 DEF RowsInv, SawListed
<1>7. EveryPostingExplained'
  BY DEF EveryPostingExplained
<1> QED
  BY <1>1, <1>4, <1>5, <1>6, <1>7, SameRows DEF RowsInv

LEMMA ConcludeKeepsRows == ASSUME IInv, RowsInv, Conclude PROVE RowsInv'
<1>1. /\ UNCHANGED <<discovered, events, run, scans, greeted, ever>>
      /\ pc' = "derive" /\ gaps = {} /\ \A e \in events : e.run < run
  BY DEF Conclude, world, RowsInv, Pending
<1>2. \A e \in events : e.run \in Nat /\ run \in Nat
  BY BoundsAssumption DEF IInv, TypeOK, Events, Runs
<1>3. SinceDiscovery' /\ SawListed'
  BY <1>1 DEF Conclude, RowsInv, SinceDiscovery, SawListed
<1>4. \A p : Gap("listing_disagreement_within_run", {p}) \notin gaps'
  BY <1>1 DEF Conclude, Gap
<1>5. Pending'
  <2>1. \A e \in events' : e.run <= run' /\ e.run # run'
    BY <1>1, <1>2
  <2> QED
    BY <1>1, <1>4, <2>1 DEF Pending
<1>6. EveryPostingExplained'
  BY <1>1 DEF Conclude, EveryPostingExplained
<1> QED
  BY <1>1, <1>3, <1>5, <1>6, SameRows DEF RowsInv

\* The parts that every step of the derivation keeps alike: p is done with, or has
\* been greeted, and a row about it was written, or none.
LEMMA DeriveKeepsPending ==
  ASSUME IInv, RowsInv, NEW p \in Postings, Step(p)
  PROVE  SinceDiscovery' /\ Pending' /\ SawListed'
<1> USE DEF Deriving, memory, world, archive
<1>1. /\ UNCHANGED <<discovered, run, pc, scans, ever>> /\ todo' \subseteq todo
      /\ pc = "derive" /\ p \in todo /\ greeted \subseteq {p} /\ run \in Nat
  BY BoundsAssumption
  DEF Step, RecordDisagreement, RecordAbsent, Greet, RecordListed, Write, IInv, TypeOK
<1>2. \A e \in events' : e \in events \/ (e.posting = p /\ e.run = run)
  <2>1. ASSUME NEW kind, Write(kind, p), NEW e \in events'
        PROVE  e \in events \/ (e.posting = p /\ e.run = run)
    <3>1. e \in events \/ e = [kind |-> kind, posting |-> p, run |-> run]
      BY <2>1, WriteAddsRow
    <3> QED
      BY <3>1
  <2> QED
    BY <2>1 DEF Step, RecordDisagreement, RecordAbsent, Greet, RecordListed
<1>3. SinceDiscovery' /\ SawListed'
  BY <1>1, <1>2 DEF RowsInv, SinceDiscovery, SawListed
<1>4. \A e \in events' : e.run <= run
  BY <1>1, <1>2 DEF RowsInv, Pending
<1>5. ASSUME NEW e \in events', e.run = run, e.posting \in todo'
      PROVE  greeted' = {e.posting} /\ e.kind \notin PresenceKinds
  <2>1. CASE Greet(p)
    <3>1. PICK kind \in {"first_observed", "reappeared"} : Write(kind, p)
      BY <2>1 DEF Greet
    <3>2. e \in events \/ e = [kind |-> kind, posting |-> p, run |-> run]
      BY <3>1, WriteAddsRow
    <3>3. e \notin events
      BY <1>1, <1>5, <2>1 DEF Greet, RowsInv, Pending
    <3> QED
      BY <2>1, <3>2, <3>3 DEF Greet, PresenceKinds
  <2>2. CASE ~Greet(p)
    <3>1. todo' = todo \ {p}
      BY <2>2 DEF Step, RecordDisagreement, RecordAbsent, RecordListed
    <3>2. e \in events /\ e.posting # p
      BY <1>2, <1>5, <3>1
    <3>3. greeted = {e.posting}
      BY <1>1, <1>5, <3>1, <3>2 DEF RowsInv, Pending
    <3> QED
      BY <1>1, <3>2, <3>3
  <2> QED
    BY <2>1, <2>2
<1>6. ASSUME NEW q \in todo' PROVE Gap("listing_disagreement_within_run", {q}) \notin gaps'
  <2>1. Gap("listing_disagreement_within_run", {q}) \notin gaps
    BY <1>1 DEF RowsInv, Pending
  <2>2. CASE RecordDisagreement(p)
    <3>1. q # p /\ gaps' = gaps \cup {Gap("listing_disagreement_within_run", {p})}
      BY <2>2 DEF RecordDisagreement
    <3> QED
      BY <2>1, <3>1, GapsApart
  <2>3. CASE ~RecordDisagreement(p)
    BY <2>1, <2>3 DEF Step, RecordAbsent, Greet, RecordListed, Write
  <2> QED
    BY <2>2, <2>3
<1>7. Pending'
  BY <1>1, <1>4, <1>5, <1>6 DEF Pending
<1> QED
  BY <1>3, <1>7

\* Which rows a step of the derivation writes about p.
LEMMA DeriveKeepsRows ==
  ASSUME IInv, RowsInv, NEW p \in Postings, Step(p)
  PROVE  NeverBoth' /\ EveryPostingExplained' /\ ReturnsCountedOnce'
<1> USE DEF Deriving, memory, world, archive
<1>1. /\ UNCHANGED <<discovered, run, pc, scans>>
      /\ p \in todo /\ run \in Nat
      /\ Gap("listing_disagreement_within_run", {p}) \notin gaps
      /\ run \notin RunsWith("listed", p) /\ run \notin RunsWith("absent_qualified", p)
  BY BoundsAssumption, NothingFinal
  DEF Step, RecordDisagreement, RecordAbsent, Greet, RecordListed, Write, IInv, TypeOK,
      PresenceKinds, RowsInv, Pending
<1>2. \A k, q : \A r \in RunsWith(k, q) : r \in Nat /\ r <= run
  BY RunsWithType
<1>3. CASE RecordDisagreement(p)
  <2>1. events' = events /\ todo' = todo \ {p}
        /\ gaps' = gaps \cup {Gap("listing_disagreement_within_run", {p})}
    BY <1>3 DEF RecordDisagreement
  <2>2. \A k, q : RunsWith(k, q)' = RunsWith(k, q)
    BY <2>1, SameRows
  <2>3. ASSUME pc = "derive", Gap("no_qualified_discovery", {}) \notin gaps',
               NEW q \in Postings, discovered[q] # 0, q \notin todo'
        PROVE  Explained(q)'
    <3>1. CASE q = p
      BY <1>1, <2>1, <2>2, <3>1 DEF Explained
    <3>2. CASE q # p
      <4>1. Explained(q)
        BY <2>1, <2>3, <3>2 DEF RowsInv, EveryPostingExplained
      <4>2. Gap("listing_disagreement_within_run", {q}) \in gaps'
              <=> Gap("listing_disagreement_within_run", {q}) \in gaps
        BY <2>1, <3>2, GapsApart
      <4> QED
        BY <1>1, <2>2, <4>1, <4>2 DEF Explained
    <3> QED
      BY <3>1, <3>2
  <2>4. EveryPostingExplained'
    BY <1>1, <2>3 DEF EveryPostingExplained
  <2> QED
    BY <2>1, <2>4, SameRows DEF RowsInv
<1>4. ASSUME NEW kind \in PresenceKinds, Write(kind, p), todo' = todo \ {p}
      PROVE  NeverBoth' /\ EveryPostingExplained' /\ ReturnsCountedOnce'
  <2>1. \A k, q : RunsWith(k, q)' =
           RunsWith(k, q) \cup (IF k = kind /\ q = p THEN {run} ELSE {})
    BY <1>4, WriteAddsRow
  <2>2. gaps' = gaps
    BY <1>4 DEF Write
  <2>3. NeverBoth'
    BY <1>1, <2>1 DEF RowsInv, NeverBoth, PresenceKinds
  <2>4. ASSUME pc = "derive", Gap("no_qualified_discovery", {}) \notin gaps',
               NEW q \in Postings, discovered[q] # 0, q \notin todo'
        PROVE  Explained(q)'
    <3>1. CASE q = p
      BY <1>1, <2>1, <2>2, <3>1 DEF Explained, PresenceKinds
    <3>2. CASE q # p
      <4>1. Explained(q)
        BY <1>4, <2>2, <2>4, <3>2 DEF RowsInv, EveryPostingExplained
      <4> QED
        BY <1>1, <2>1, <2>2, <3>2, <4>1 DEF Explained
    <3> QED
      BY <3>1, <3>2
  <2>5. EveryPostingExplained'
    BY <1>1, <2>4 DEF EveryPostingExplained
  <2>6. ASSUME NEW q \in Postings, NEW r \in RunsWith("reappeared", q)',
               NEW s \in RunsWith("reappeared", q)', r < s
        PROVE  \/ \E t \in RunsWith("absent_qualified", q)' : r < t /\ t < s
               \/ r \notin RunsWith("listed", q)'
    <3>1. r \in RunsWith("reappeared", q) /\ s \in RunsWith("reappeared", q)
      BY <2>1, <2>6 DEF PresenceKinds
    <3>2. r # run
      BY <1>1, <1>2, <2>6, <3>1
    <3>3. \/ \E t \in RunsWith("absent_qualified", q) : r < t /\ t < s
          \/ r \notin RunsWith("listed", q)
      BY <2>6, <3>1 DEF RowsInv, ReturnsCountedOnce
    <3> QED
      BY <2>1, <3>2, <3>3
  <2>7. ReturnsCountedOnce'
    BY <2>6 DEF ReturnsCountedOnce
  <2> QED
    BY <2>3, <2>5, <2>7
<1>5. CASE RecordAbsent(p)
  BY <1>4, <1>5 DEF RecordAbsent, PresenceKinds
<1>6. CASE RecordListed(p)
  BY <1>4, <1>6 DEF RecordListed, PresenceKinds
<1>7. CASE Greet(p)
  <2>1. PICK kind \in {"first_observed", "reappeared"} :
          Write(kind, p) /\ (kind = "reappeared" => IsReturn(p))
    BY <1>7 DEF Greet
  <2>2. \A k, q : RunsWith(k, q)' =
           RunsWith(k, q) \cup (IF k = kind /\ q = p THEN {run} ELSE {})
    BY <2>1, WriteAddsRow
  <2>3. \A q : /\ RunsWith("listed", q)' = RunsWith("listed", q)
               /\ RunsWith("absent_qualified", q)' = RunsWith("absent_qualified", q)
    BY <2>2
  <2>4. gaps' = gaps /\ todo' = todo
    BY <1>7, <2>1 DEF Greet, Write
  <2>5. NeverBoth' /\ EveryPostingExplained'
    BY <1>1, <2>3, <2>4 DEF RowsInv, NeverBoth, EveryPostingExplained, Explained
  <2>6. ASSUME NEW q \in Postings, NEW r \in RunsWith("reappeared", q)',
               NEW s \in RunsWith("reappeared", q)', r < s
        PROVE  \/ \E t \in RunsWith("absent_qualified", q)' : r < t /\ t < s
               \/ r \notin RunsWith("listed", q)'
    <3>1. CASE r \in RunsWith("reappeared", q) /\ s \in RunsWith("reappeared", q)
      BY <2>3, <2>6, <3>1 DEF RowsInv, ReturnsCountedOnce
    <3>2. CASE s \notin RunsWith("reappeared", q)
      <4>1. q = p /\ s = run /\ kind = "reappeared"
        BY <2>2, <2>6, <3>2
      <4>2. PICK t \in RunsWith("absent_qualified", p) :
              \A k \in PresenceKinds : \A u \in RunsWith(k, p) : u <= t
        BY <2>1, <4>1 DEF IsReturn, PreviousPresence
      <4>3. t \in Nat /\ t < s
        BY <1>1, <1>2, <4>1, <4>2
      <4>4. r \in Nat
        BY <1>1, <1>2, <2>2, <2>6
      <4>5. ASSUME r \in RunsWith("listed", p) PROVE r < t
        <5>1. r <= t
          BY <4>2, <4>5 DEF PresenceKinds
        <5>2. r # t
          BY <4>2, <4>5 DEF RowsInv, NeverBoth
        <5> QED
          BY <4>3, <4>4, <5>1, <5>2
      <4> QED
        BY <2>3, <4>1, <4>2, <4>3, <4>5
    <3>3. CASE r \notin RunsWith("reappeared", q)
      <4>1. r = run
        BY <2>2, <2>6, <3>3
      <4>2. s <= run /\ s \in Nat
        BY <1>1, <1>2, <2>2, <2>6
      <4> QED
        BY <1>1, <2>6, <4>1, <4>2
    <3> QED
      BY <3>1, <3>2, <3>3
  <2>7. ReturnsCountedOnce'
    BY <2>6 DEF ReturnsCountedOnce
  <2> QED
    BY <2>5, <2>7
<1> QED
  BY <1>3, <1>5, <1>6, <1>7 DEF Step

LEMMA EndKeepsRows == ASSUME IInv, RowsInv, Finish \/ Crash \/ UNCHANGED vars PROVE RowsInv'
<1> USE DEF archive, memory, world, vars
<1>1. events' = events
  BY DEF Finish, Crash
<1>2. CASE UNCHANGED vars
  <2>1. SinceDiscovery' /\ Pending' /\ SawListed'
    BY <1>2 DEF RowsInv, SinceDiscovery, Pending, SawListed
  <2>2. EveryPostingExplained'
    BY <1>1, <1>2, SameRows DEF RowsInv, EveryPostingExplained, Explained
  <2> QED
    BY <1>1, <2>1, <2>2, SameRows DEF RowsInv
<1>3. CASE Finish \/ Crash
  <2>1. /\ UNCHANGED <<discovered, events, gaps, run, ever>>
        /\ todo' = {} /\ pc' = "idle" /\ scans' = NoScans
    BY <1>3 DEF Finish, Crash, NoScans
  <2>2. SinceDiscovery' /\ Pending' /\ EveryPostingExplained'
    BY <2>1 DEF RowsInv, SinceDiscovery, Pending, EveryPostingExplained
  <2>3. SawListed'
    BY <2>1 DEF RowsInv, SawListed, NoScans, NoScan
  <2> QED
    BY <1>1, <2>2, <2>3, SameRows DEF RowsInv
<1> QED
  BY <1>2, <1>3

LEMMA RowsStep == IInv /\ RowsInv /\ [Next]_vars => RowsInv'
<1> SUFFICES ASSUME IInv, RowsInv, [Next]_vars PROVE RowsInv'
  OBVIOUS
<1>1. ASSUME Discover \/ Verify \/ Reconcile PROVE RowsInv'
  BY <1>1, TraverseKeepsRows DEF Discover, Verify, Reconcile, Roles
<1>2. ASSUME NEW p \in Postings, Step(p) PROVE RowsInv'
  BY <1>2, DeriveKeepsPending, DeriveKeepsRows DEF RowsInv
<1> QED
  BY <1>1, <1>2, StartKeepsRows, ConcludeKeepsRows, EndKeepsRows DEF Next

THEOREM RowsInvariance == Spec => []RowsInv
  BY RowsInit, RowsStep, Invariance, PTL DEF Spec

\* A run that gets through derivation leaves no advertisement unexplained.
THEOREM AllExplained == Spec => []EveryPostingExplained
<1>1. RowsInv => EveryPostingExplained
  BY DEF RowsInv
<1> QED
  BY <1>1, RowsInvariance, PTL

\* Two returns of an advertisement have an absence between them, or the first was
\* written by a run that died before it wrote the listing.
THEOREM ReturnsOnce == Spec => []ReturnsCountedOnce
<1>1. RowsInv => ReturnsCountedOnce
  BY DEF RowsInv
<1> QED
  BY <1>1, RowsInvariance, PTL

-----------------------------------------------------------------------------
(* The promise, step by step.                                                *)

LEMMA PromiseInit == Init => Promise!Init
  BY DEF Init, Promise!Init, NotOnShow

LEMMA PromiseStep ==
  ASSUME IInv, RowsInv, [Next]_vars
  PROVE  [Promise!Next]_<<run, ever, NotOnShow, events>>
<1> USE DEF archive, memory, world
<1> DEFINE Stutter == UNCHANGED <<run, ever, NotOnShow, events>>
<1>1. CASE StartRun
  <2>1. NotOnShow' = {} /\ ever' = {} /\ run' = run + 1 /\ events' = events
    BY <1>1 DEF StartRun, NotOnShow
  <2> QED
    BY <2>1 DEF Promise!Next, Promise!Watch
<1>2. CASE Discover \/ Verify \/ Reconcile
  <2>1. PICK role \in Roles : Traverse(role)
    BY <1>2 DEF Discover, Verify, Reconcile, Roles
  <2>2. PICK throughout \in SUBSET Postings, during \in SUBSET Postings,
             ids \in SUBSET Postings, qualified \in BOOLEAN :
          /\ throughout \subseteq during
          /\ always' = always \cap throughout /\ ever' = ever \cup during
          /\ slipped' = [slipped EXCEPT ![role] = @ \cup IF qualified THEN always' \ ids ELSE {}]
          /\ UNCHANGED <<events, run>>
    BY <2>1 DEF Traverse, TraversalResult
  <2> DEFINE slip   == IF qualified THEN always' \ ids ELSE {}
             hidden == (Postings \ throughout) \cup slip
  <2>3. slip \subseteq Postings
    BY <2>2
  <2>4. \A r \in Roles : slipped'[r] = IF r = role THEN slipped[r] \cup slip ELSE slipped[r]
    <3>1. slipped' = [slipped EXCEPT ![role] = slipped[role] \cup slip]
      BY <2>2
    <3> QED
      BY <3>1 DEF IInv, TypeOK
  <2> HIDE DEF slip
  <2>5. NotOnShow' = NotOnShow \cup hidden
    <3>1. \A q : q \in NotOnShow <=> q \in Postings \ always \/ \E r \in Roles : q \in slipped[r]
      BY DEF NotOnShow
    <3>2. \A q : q \in NotOnShow' <=> q \in Postings \ always' \/ \E r \in Roles : q \in slipped'[r]
      BY DEF NotOnShow
    <3>3. \A q : (\E r \in Roles : q \in slipped'[r]) <=> q \in slip \/ \E r \in Roles : q \in slipped[r]
      BY <2>4
    <3>4. \A q : q \in Postings \ always' <=> q \in Postings \ always \/ q \in Postings \ throughout
      BY <2>2
    <3>5. \A q : q \in NotOnShow' <=> q \in NotOnShow \/ q \in hidden
      BY <3>1, <3>2, <3>3, <3>4
    <3> QED
      BY <3>5
  <2>6. during \cup hidden = Postings /\ hidden \in SUBSET Postings
    BY <2>2, <2>3
  <2> HIDE DEF hidden
  <2> QED
    BY <2>2, <2>5, <2>6 DEF Promise!Next, Promise!Watch
<1>3. CASE Conclude \/ Finish \/ Crash \/ UNCHANGED vars
  BY <1>3 DEF Conclude, Finish, Crash, vars, NotOnShow
<1>4. ASSUME NEW p \in Postings, Step(p) PROVE Promise!Next \/ Stutter
  <2>0. /\ run' = run /\ ever' = ever /\ NotOnShow' = NotOnShow
        /\ p \in todo /\ greeted \subseteq {p}
    BY <1>4 DEF Step, RecordDisagreement, RecordAbsent, Greet, RecordListed, Write, Deriving, NotOnShow
  <2>1. \A e \in events : e.run = run /\ e.posting = p => e.kind \notin PresenceKinds
    BY <2>0 DEF RowsInv, Pending
  <2>2. p \in ListedIds => p \in ever
    BY FinalIsQualified DEF ListedIds, RowsInv, SawListed
  <2>3. CASE RecordDisagreement(p)
    BY <2>0, <2>3 DEF RecordDisagreement
  <2>4. CASE RecordAbsent(p)
    <3>1. p \in NotOnShow
      BY <2>0, <2>4, Unseen DEF RecordAbsent, NotOnShow
    <3>2. Promise!Claim("listed", p) \notin events
      BY <2>1 DEF Promise!Claim, PresenceKinds
    <3>3. events' = events \cup {Promise!Claim("absent_qualified", p)}
      BY <2>4 DEF RecordAbsent, Write, Promise!Claim
    <3> QED
      BY <2>0, <3>1, <3>2, <3>3 DEF Promise!Next, Promise!ClaimAbsent
  <2>5. CASE RecordListed(p)
    <3>1. Promise!Claim("absent_qualified", p) \notin events
      BY <2>1 DEF Promise!Claim, PresenceKinds
    <3>2. events' = events \cup {Promise!Claim("listed", p)} /\ p \in ever
      BY <2>2, <2>5 DEF RecordListed, Write, Promise!Claim
    <3> QED
      BY <2>0, <3>1, <3>2 DEF Promise!Next, Promise!ClaimListed
  <2>6. CASE Greet(p) /\ IsFirst(p) /\ Write("first_observed", p)
    <3>1. \A c \in events : c.posting # p
      <4> SUFFICES ASSUME NEW c \in events, c.posting = p PROVE FALSE
        OBVIOUS
      <4>1. discovered[p] = run /\ discovered[p] <= c.run /\ c.run <= run
        BY <2>6 DEF IsFirst, RowsInv, SinceDiscovery, Pending
      <4>2. c.run = run
        BY <4>1, BoundsAssumption DEF IInv, TypeOK, Events, Runs
      <4> QED
        BY <2>0, <2>6, <4>2 DEF Greet, RowsInv, Pending
    <3>2. events' = events \cup {Promise!Claim("first_observed", p)} /\ p \in ever
      BY <2>2, <2>6 DEF Greet, Write, Promise!Claim
    <3> QED
      BY <2>0, <3>1, <3>2 DEF Promise!Next, Promise!ClaimNew
  <2>7. CASE Greet(p) /\ IsReturn(p) /\ Write("reappeared", p)
    <3>1. PICK r \in RunsWith("absent_qualified", p) :
            \A k \in PresenceKinds : \A s \in RunsWith(k, p) : s <= r
      BY <2>7 DEF IsReturn, PreviousPresence
    <3>2. PICK a \in events : a.kind = "absent_qualified" /\ a.posting = p /\ a.run = r
      BY <3>1 DEF RunsWith
    <3>3. ASSUME NEW c \in events, c.posting = p, c.kind \in {"listed", "absent_qualified"}
          PROVE  c.run <= a.run
      <4>1. c.run \in RunsWith(c.kind, p)
        BY <3>3 DEF RunsWith
      <4> QED
        BY <3>1, <3>2, <3>3, <4>1 DEF PresenceKinds
    <3>4. Promise!LastClaimedAbsent(p)
      BY <3>2, <3>3 DEF Promise!LastClaimedAbsent
    <3>5. events' = events \cup {Promise!Claim("reappeared", p)} /\ p \in ever
      BY <2>2, <2>7 DEF Greet, Write, Promise!Claim
    <3> QED
      BY <2>0, <3>4, <3>5 DEF Promise!Next, Promise!ClaimReturn
  <2> QED
    BY <1>4, <2>3, <2>4, <2>5, <2>6, <2>7 DEF Step, Greet
<1> QED
  BY <1>1, <1>2, <1>3, <1>4 DEF Next

\* What a run writes keeps the promise made to readers who know nothing of
\* traversals: Presence implements PresencePromise.
THEOREM PromiseKept == Spec => KeepsPromise
<1>1. IInv /\ RowsInv /\ [Next]_vars => [Promise!Next]_<<run, ever, NotOnShow, events>>
  BY PromiseStep
<1> QED
  BY <1>1, PromiseInit, Invariance, RowsInvariance, PTL
  DEF Spec, KeepsPromise, Promise!Spec, Promise!vars
=============================================================================
