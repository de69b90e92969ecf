------------------------------ MODULE Presence ------------------------------
(***************************************************************************)
(* How a collection run turns its listing traversals into presence claims. *)
(*                                                                         *)
(* One run walks the listing up to three times (discovery, verification,   *)
(* reconciliation), decides which traversal is authoritative and whether   *)
(* the traversals contradict each other, and then writes, one short        *)
(* transaction at a time, a presence event or a coverage gap for every     *)
(* advertisement the archive knows.  The process can die between any two   *)
(* of those transactions; whatever was committed stays, and the next run   *)
(* starts from it.                                                         *)
(*                                                                         *)
(* A traversal is one step here.  The listing changes while it runs, and   *)
(* between it and the next; of what was listed when, only what matters to  *)
(* the claims is kept.  Module Traversal models the page walk and the      *)
(* edits themselves and checks the contract that the result satisfies: see *)
(* TraversalResult.                                                        *)
(*                                                                         *)
(* Timestamps are abstracted to run numbers: the order in which rows       *)
(* appear, which is what the queries of collect/events.py sort by.         *)
(***************************************************************************)
EXTENDS Integers, FiniteSets

CONSTANTS
  Postings,            \* external job ids the source may ever list
  MaxRuns,             \* bound: collection runs
  ReconciliationScan   \* collection.reconciliation_scan of the configuration

ASSUME BoundsAssumption    == MaxRuns \in Nat
ASSUME ReconcileAssumption == ReconciliationScan \in BOOLEAN

VARIABLES
  \* --- the archive (survives a crash) ---
  discovered,          \* postings.first_discovered_run_id; 0: no such row
  events,              \* presence_events: [kind, posting, run]
  gaps,                \* coverage_gaps of the latest run: [kind, about]
  run,                 \* collection_runs: the latest run_id
  \* --- the process running the collection (lost in a crash) ---
  pc, scans, todo, greeted,
  \* --- the world, while the latest run's traversals read the listing ---
  always, ever,        \* listed at every moment of them, at some moment
  slipped              \* what stayed, and a qualified traversal failed to show

archive == <<discovered, events, gaps, run>>
memory  == <<pc, scans, todo, greeted>>
world   == <<always, ever, slipped>>
vars    == <<archive, memory, world>>

Runs  == 1 .. MaxRuns
Roles == {"discovery", "verification", "reconciliation"}

PresenceKinds == {"listed", "absent_qualified"}
EventKinds    == PresenceKinds \cup {"first_observed", "reappeared"}
Events        == [kind : EventKinds, posting : Postings, run : Runs]

\* about: the posting a gap is recorded for, or the empty set for the whole run.
GapKinds == {"listing_set_unreconciled", "no_qualified_discovery",
             "listing_disagreement_within_run"}
Gaps     == [kind : GapKinds, about : SUBSET Postings]

Scan   == [done : BOOLEAN, qualified : BOOLEAN, ids : SUBSET Postings]
NoScan == [done |-> FALSE, qualified |-> FALSE, ids |-> {}]

-----------------------------------------------------------------------------
(* What the run knows once its traversals are over.                        *)

Qualified(role) == scans[role].done /\ scans[role].qualified

\* The last qualified traversal is the run's authoritative listing set.
FinalRole ==
  CASE Qualified("reconciliation") -> "reconciliation"
    [] Qualified("verification") /\ ~Qualified("reconciliation") -> "verification"
    [] OTHER -> "discovery"

\* Slip for AbsenceIsTrue: any finished traversal is taken for a qualified one.
HasFinal_AnyTraversal == \E role \in Roles : scans[role].done

HasFinal  == \E role \in Roles : Qualified(role)
ListedIds == IF HasFinal THEN scans[FinalRole].ids ELSE {}

\* Identifier sets are compared, never counts.
SetsDiffer ==
  /\ scans["verification"].done
  /\ scans["discovery"].ids # scans["verification"].ids

Reconciled ==
  /\ Qualified("reconciliation")
  /\ \E role \in {"discovery", "verification"} :
        scans[role].ids = scans["reconciliation"].ids

Unresolved == SetsDiffer /\ ~Reconciled

\* Every advertisement any qualified traversal of this run saw listed.
ListedAnywhere == UNION {scans[role].ids : role \in {r \in Roles : Qualified(r)}}

-----------------------------------------------------------------------------
(* What the archive says about one advertisement.                          *)

RunsWith(kind, p) == {e.run : e \in {x \in events : x.kind = kind /\ x.posting = p}}

\* Slip for ReturnsCountedOnce: an absence is remembered past a later listing.
PreviousPresence_EverRecorded(p, kind) == RunsWith(kind, p) # {}

\* The latest of the posting's listed / absent_qualified events.
PreviousPresence(p, kind) ==
  \E r \in RunsWith(kind, p) :
     \A k \in PresenceKinds : \A s \in RunsWith(k, p) : s <= r

Gap(kind, who) == [kind |-> kind, about |-> who]

-----------------------------------------------------------------------------
Init ==
  /\ discovered = [p \in Postings |-> 0]
  /\ events = {} /\ gaps = {}
  /\ run = 0
  /\ pc = "idle" /\ scans = [role \in Roles |-> NoScan]
  /\ todo = {} /\ greeted = {}
  /\ always = Postings /\ ever = {} /\ slipped = [role \in Roles |-> {}]

\* A run opens; none of its traversals has read anything yet.
StartRun ==
  /\ pc = "idle" /\ run < MaxRuns
  /\ run' = run + 1
  /\ pc' = "discovery"
  /\ scans' = [role \in Roles |-> NoScan]
  /\ gaps' = {}
  /\ always' = Postings /\ ever' = {} /\ slipped' = [role \in Roles |-> {}]
  /\ UNCHANGED <<discovered, events, todo, greeted>>

\* What a traversal reports, when some rows are listed throughout and others come and
\* go during it: rows that were there, and if it qualified every row that was there
\* throughout, unless what moved was masked or no count was announced
\* (Traversal!KeepsContract).  A traversal always has a result: the ChallengeWall that
\* would leave none never gets out of fetch.
TraversalResult(throughout, during, ids, qualified, masked) ==
  /\ throughout \subseteq during /\ ids \subseteq during
  /\ qualified /\ ~masked => throughout \subseteq ids

\* One traversal: rows are registered page by page, while the verdict on the
\* traversal comes at its end.
Traverse(role) ==
  \E throughout, during, ids \in SUBSET Postings, qualified, masked \in BOOLEAN :
    /\ TraversalResult(throughout, during, ids, qualified, masked)
    /\ always' = always \cap throughout
    /\ ever' = ever \cup during
    /\ slipped' = [slipped EXCEPT ![role] = @ \cup IF qualified THEN always' \ ids ELSE {}]
    /\ scans' = [scans EXCEPT ![role] =
                   [done |-> TRUE, qualified |-> qualified, ids |-> ids]]
    /\ discovered' = [p \in Postings |->
                        IF p \in ids /\ discovered[p] = 0 THEN run ELSE discovered[p]]
    /\ UNCHANGED <<events, gaps, run, todo, greeted>>

Discover ==
  /\ pc = "discovery"
  /\ Traverse("discovery")
  /\ pc' \in {"verification", "conclude"}      \* --no-verification

Verify ==
  /\ pc = "verification"
  /\ Traverse("verification")
  /\ pc' = IF SetsDiffer' /\ ReconciliationScan THEN "reconciliation" ELSE "conclude"

Reconcile ==
  /\ pc = "reconciliation"
  /\ Traverse("reconciliation")
  /\ pc' = "conclude"

\* Absence analysis happens only with a qualified authoritative traversal that
\* the others do not contradict; otherwise a gap says why it did not.
Conclude ==
  /\ pc = "conclude"
  /\ gaps' = gaps \cup
       (IF Unresolved THEN {Gap("listing_set_unreconciled", {})} ELSE {}) \cup
       (IF Unresolved \/ ~HasFinal THEN {Gap("no_qualified_discovery", {})} ELSE {})
  /\ todo' = IF Unresolved \/ ~HasFinal THEN {}
             ELSE {p \in Postings : discovered[p] # 0}
  /\ pc' = "derive"
  /\ UNCHANGED <<discovered, events, run, scans,
                 greeted, world>>

\* The loop over all postings, one transaction per event or gap.  greeted holds
\* the posting whose first_observed or reappeared row is in and whose listed row
\* is not: that row is finished before the loop moves on.
Deriving(p) == pc = "derive" /\ p \in todo /\ greeted \subseteq {p}

\* Slip for KeepsPromise: "first" taken to mean "not called first before".
IsFirst_NeverGreeted(p) == discovered[p] = run \/ RunsWith("first_observed", p) = {}

IsFirst(p)  == discovered[p] = run
IsReturn(p) == ~IsFirst(p) /\ PreviousPresence(p, "absent_qualified")

\* Slip for TypeOK: the event is filed under the run to come.
Write_NextRun(kind, p) ==
  /\ events' = events \cup {[kind |-> kind, posting |-> p, run |-> run + 1]}
  /\ UNCHANGED <<discovered, gaps, run, pc, scans, world>>

Write(kind, p) ==
  /\ events' = events \cup {[kind |-> kind, posting |-> p, run |-> run]}
  /\ UNCHANGED <<discovered, gaps, run, pc, scans, world>>

\* Slip for EveryPostingExplained: a disputed advertisement is passed over.
RecordDisagreement_Silent(p) ==
  /\ Deriving(p)
  /\ p \in ListedAnywhere \ ListedIds
  /\ todo' = todo \ {p}
  /\ UNCHANGED <<archive, pc, scans, greeted, world>>

\* Absence here would contradict the run's own evidence: a gap instead.
RecordDisagreement(p) ==
  /\ Deriving(p)
  /\ p \in ListedAnywhere \ ListedIds
  /\ gaps' = gaps \cup {Gap("listing_disagreement_within_run", {p})}
  /\ todo' = todo \ {p}
  /\ UNCHANGED <<discovered, events, run, pc, scans,
                 greeted, world>>

RecordAbsent(p) ==
  /\ Deriving(p)
  /\ p \notin ListedAnywhere
  /\ Write("absent_qualified", p)
  /\ todo' = todo \ {p}
  /\ UNCHANGED greeted

Greet(p) ==
  /\ Deriving(p) /\ greeted = {}
  /\ p \in ListedIds
  /\ \/ IsFirst(p)  /\ Write("first_observed", p)
     \/ IsReturn(p) /\ Write("reappeared", p)
  /\ greeted' = {p}
  /\ UNCHANGED todo

RecordListed(p) ==
  /\ Deriving(p)
  /\ p \in ListedIds
  /\ IsFirst(p) \/ IsReturn(p) => greeted = {p}
  /\ Write("listed", p)
  /\ todo' = todo \ {p}
  /\ greeted' = {}

Finish ==
  /\ pc = "derive" /\ todo = {}
  /\ pc' = "idle" /\ scans' = [role \in Roles |-> NoScan]
  /\ UNCHANGED <<archive, todo, greeted, world>>

\* The process dies, or an exception ends the run: the rows stay.
Crash ==
  /\ pc # "idle"
  /\ pc' = "idle" /\ scans' = [role \in Roles |-> NoScan]
  /\ todo' = {} /\ greeted' = {}
  /\ UNCHANGED <<archive, world>>

Step(p) == \/ RecordDisagreement(p) \/ RecordAbsent(p)
           \/ Greet(p) \/ RecordListed(p)

Next ==
  \/ StartRun \/ Discover \/ Verify \/ Reconcile \/ Conclude
  \/ \E p \in Postings : Step(p)
  \/ Finish \/ Crash

Spec == Init /\ [][Next]_vars

-----------------------------------------------------------------------------
(* Properties.                                                             *)

TypeOK ==
  /\ discovered \in [Postings -> 0 .. MaxRuns]
  /\ events \subseteq Events
  /\ gaps \subseteq Gaps
  /\ run \in 0 .. MaxRuns
  /\ pc \in {"idle", "discovery", "verification", "reconciliation", "conclude", "derive"}
  /\ scans \in [Roles -> Scan]
  /\ todo \subseteq Postings
  /\ greeted \subseteq Postings
  /\ always \subseteq Postings /\ ever \subseteq Postings
  /\ slipped \in [Roles -> SUBSET Postings]

\* No traversal of the run that qualified shows p, and at least one did qualify.
SlippedPastAll(p) ==
  LET all == {role \in Roles : Qualified(role)}
  IN  all # {} /\ \A role \in all : p \in slipped[role]

\* An absent_qualified row is only ever written for an advertisement that really
\* was off the listing at some moment while that run read it: neither a failed
\* page, nor a contradicted traversal, nor a crash between two rows can make the
\* archive call a continuously listed advertisement absent
\* (collect/runner.py _collect and collect/events.py derive_for_run together).
\* What can: that it slipped past every one of the run's qualified traversals, which
\* takes rows on the move, and a missing count or another edit to mask them.
AbsenceIsTrue ==
  [][\A e \in events' \ events : e.kind = "absent_qualified" =>
       e.posting \notin always \/ SlippedPastAll(e.posting)]_vars

\* A run that gets through derivation leaves no advertisement unexplained: each
\* has exactly one of listed, absent_qualified or a disagreement gap, unless a
\* gap suppresses the analysis of the whole run (derive_for_run).
Explained(p) ==
  LET listed   == run \in RunsWith("listed", p)
      absent   == run \in RunsWith("absent_qualified", p)
      disputed == Gap("listing_disagreement_within_run", {p}) \in gaps
  IN  \/ listed /\ ~absent /\ ~disputed
      \/ absent /\ ~listed /\ ~disputed
      \/ disputed /\ ~listed /\ ~absent

EveryPostingExplained ==
  pc = "derive" /\ Gap("no_qualified_discovery", {}) \notin gaps
    => \A p \in Postings : discovered[p] # 0 /\ p \notin todo => Explained(p)

\* A return is counted once per absence: a second reappeared row without an
\* absence between them means that the first run was interrupted after writing
\* its reappeared row and before its listed row (two transactions of
\* derive_for_run).
ReturnsCountedOnce ==
  \A p \in Postings : \A r, s \in RunsWith("reappeared", p) :
     r < s => \/ \E t \in RunsWith("absent_qualified", p) : r < t /\ t < s
              \/ r \notin RunsWith("listed", p)

\* Not on show at some moment while the run read the listing: off it, or slipped past
\* a traversal that qualified.
NotOnShow == (Postings \ always) \cup UNION {slipped[role] : role \in Roles}

\* What a reader of the archive is promised: see PresencePromise.
Promise ==
  INSTANCE PresencePromise WITH
    on <- ever, off <- NotOnShow, claims <- events, check <- run

KeepsPromise == Promise!Spec
=============================================================================
