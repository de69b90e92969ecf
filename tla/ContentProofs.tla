---------------------------- MODULE ContentProofs ---------------------------
(***************************************************************************)
(* Proofs about Content, for any contents, lineages and bounds.            *)
(***************************************************************************)
EXTENDS Content, TLAPS

\* While a run is in progress its number is a run's, observations belong to runs
\* that began, and only a run in its derivation has something to compare.
RunGoing == /\ pc # "idle" => run \in 1 .. MaxRuns
            /\ pc # "derive" => todo = {}
            /\ \A i \in DOMAIN obs : obs[i].run <= run

\* What the run in progress observed was read by the release that compares it.
ReadByThisRelease ==
  /\ pc = "collect" => \A i \in DOMAIN obs : obs[i].run = run => obs[i].lineage = lineage
  /\ \A i \in todo : obs[i].lineage = lineage

\* A change compares observations that exist.
ChangesCompareObservations ==
  \A c \in changes : c.first \in DOMAIN obs /\ c.second \in DOMAIN obs

\* Between the two ends of a change there was nothing of their lineage to compare
\* with, and nothing that was not relinked is of it now.
NothingBetween ==
  \A c \in changes : Untouched(c) =>
    /\ obs[c.first].lineage = obs[c.second].lineage
    /\ \A k \in c.first + 1 .. c.second - 1 :
         obs[k].lineage = obs[c.second].lineage => obs[k].moved

IInv == /\ TypeOK /\ RunGoing /\ ReadByThisRelease
        /\ ChangesCompareObservations /\ ChangesAreEdits /\ NothingBetween

-----------------------------------------------------------------------------
\* What the type invariant says of one observation.
LEMMA ObservationFacts ==
  ASSUME TypeOK, NEW i \in DOMAIN obs
  PROVE  /\ i \in 1 .. Len(obs) /\ i \in Indices /\ i \in Nat
         /\ obs[i] \in Observation
         /\ obs[i].run \in 1 .. MaxRuns /\ obs[i].lineage \in Lineages
         /\ obs[i].content \in Contents
         /\ obs[i].match \in BOOLEAN /\ obs[i].moved \in BOOLEAN
<1>1. obs \in Seq(Observation) /\ Len(obs) <= MaxObservations
  BY DEF TypeOK
<1>2. i \in 1 .. Len(obs) /\ Len(obs) \in Nat
  BY <1>1
<1>3. i \in Indices /\ i \in Nat
  BY <1>1, <1>2, BoundsAssumption DEF Indices
<1>4. obs[i] \in Observation
  BY <1>1, <1>2
<1> QED
  BY <1>2, <1>3, <1>4 DEF Observation

LEMMA InitInvariant == Init => IInv
  BY BoundsAssumption DEF Init, IInv, TypeOK, RunGoing, ReadByThisRelease,
     ChangesCompareObservations, ChangesAreEdits, NothingBetween

\* Steps that leave the observations and the events alone.
LEMMA QuietStep ==
  ASSUME IInv, UNCHANGED <<obs, changes>>, TypeOK', RunGoing', ReadByThisRelease'
  PROVE  IInv'
  BY DEF IInv, ChangesCompareObservations, ChangesAreEdits, NothingBetween, Untouched

LEMMA EditStep == ASSUME IInv, Edit PROVE IInv'
<1>1. TypeOK' /\ RunGoing' /\ ReadByThisRelease'
  BY DEF IInv, Edit, TypeOK, RunGoing, ReadByThisRelease
<1> QED
  BY <1>1, QuietStep DEF Edit

LEMMA InstallStep == ASSUME IInv, Install PROVE IInv'
<1>1. TypeOK' /\ RunGoing' /\ ReadByThisRelease'
  BY DEF IInv, Install, TypeOK, RunGoing, ReadByThisRelease
<1> QED
  BY <1>1, QuietStep DEF Install

LEMMA StartRunStep == ASSUME IInv, StartRun PROVE IInv'
<1>1. run \in 0 .. MaxRuns /\ run + 1 \in 1 .. MaxRuns
  BY BoundsAssumption DEF IInv, TypeOK, StartRun
<1>2. TypeOK'
  BY <1>1, BoundsAssumption DEF IInv, TypeOK, StartRun
<1>3. \A i \in DOMAIN obs : obs[i].run \in 1 .. MaxRuns /\ obs[i].run <= run
  BY ObservationFacts DEF IInv, RunGoing
<1>4. RunGoing'
  BY <1>1, <1>3, BoundsAssumption DEF IInv, RunGoing, StartRun
<1>5. ReadByThisRelease'
  BY <1>1, <1>3, BoundsAssumption DEF IInv, RunGoing, ReadByThisRelease, StartRun
<1> QED
  BY <1>2, <1>4, <1>5, QuietStep DEF StartRun

\* A new observation comes after all others, so that no change is about it yet.
LEMMA ObserveStep == ASSUME IInv, Observe PROVE IInv'
<1>1. PICK new \in Observation :
        /\ new.run = run /\ new.lineage = lineage
        /\ obs' = Append(obs, new)
        /\ pc = "collect" /\ Len(obs) < MaxObservations
        /\ UNCHANGED <<page, lineage, changes, run, pc, todo>>
  <2>1. PICK answer \in Answers :
          obs' = Append(obs, [run |-> run, content |-> page.content, lineage |-> lineage,
                              match |-> answer.id = "own", moved |-> FALSE])
    BY DEF Observe, Recorded
  <2>2. [run |-> run, content |-> page.content, lineage |-> lineage,
         match |-> answer.id = "own", moved |-> FALSE] \in Observation
    <3>1. run \in 1 .. MaxRuns /\ page.content \in Contents /\ lineage \in Lineages
      BY DEF IInv, TypeOK, RunGoing, Observe, Page
    <3>2. (answer.id = "own") \in BOOLEAN
      OBVIOUS
    <3> QED
      BY <3>1, <3>2 DEF Observation
  <2> QED
    BY <2>1, <2>2 DEF Observe
<1>2. obs \in Seq(Observation) /\ Len(obs) \in Nat
  BY DEF IInv, TypeOK
<1>3. /\ obs' \in Seq(Observation) /\ Len(obs') = Len(obs) + 1
      /\ DOMAIN obs' = 1 .. Len(obs) + 1 /\ DOMAIN obs = 1 .. Len(obs)
      /\ \A i \in DOMAIN obs : i \in DOMAIN obs' /\ obs'[i] = obs[i]
      /\ obs'[Len(obs) + 1] = new
  BY <1>1, <1>2
<1>4. TypeOK'
  BY <1>1, <1>2, <1>3, BoundsAssumption DEF IInv, TypeOK
<1>5. RunGoing'
  BY <1>1, <1>2, <1>3, BoundsAssumption DEF IInv, TypeOK, RunGoing
<1>6. ReadByThisRelease'
  BY <1>1, <1>2, <1>3 DEF IInv, TypeOK, RunGoing, ReadByThisRelease
<1>7. ChangesCompareObservations' /\ ChangesAreEdits'
  BY <1>1, <1>3 DEF IInv, ChangesCompareObservations, ChangesAreEdits
<1>8. NothingBetween'
  <2> SUFFICES ASSUME NEW c \in changes, Untouched(c)'
               PROVE  /\ obs'[c.first].lineage = obs'[c.second].lineage
                      /\ \A k \in c.first + 1 .. c.second - 1 :
                           obs'[k].lineage = obs'[c.second].lineage => obs'[k].moved
    BY <1>1 DEF NothingBetween
  <2>1. c.first \in 1 .. Len(obs) /\ c.second \in 1 .. Len(obs)
    BY <1>3 DEF IInv, ChangesCompareObservations
  <2>2. \A k \in c.first + 1 .. c.second - 1 : k \in DOMAIN obs
    BY <1>2, <1>3, <2>1
  <2>3. Untouched(c)
    BY <1>3, <2>1 DEF Untouched
  <2> QED
    BY <1>3, <2>1, <2>2, <2>3 DEF IInv, NothingBetween
<1> QED
  BY <1>4, <1>5, <1>6, <1>7, <1>8 DEF IInv

LEMMA StartDeriveStep == ASSUME IInv, StartDerive PROVE IInv'
<1>1. TypeOK' /\ RunGoing' /\ ReadByThisRelease'
  BY DEF IInv, StartDerive, TypeOK, RunGoing, ReadByThisRelease
<1> QED
  BY <1>1, QuietStep DEF StartDerive

\* An event is written for the latest earlier observation of the lineage.
LEMMA DeriveStep == ASSUME IInv, NEW i \in DOMAIN obs, Derive(i) PROVE IInv'
<1>1. /\ pc = "derive" /\ i \in todo /\ todo' = todo \ {i}
      /\ UNCHANGED <<page, lineage, obs, run, pc>>
  BY DEF Derive
<1>2. \A c \in changes' \ changes :
        \E j \in DOMAIN obs : /\ c = [first |-> j, second |-> i]
                              /\ Previous(i, j) /\ Version(j) # Version(i)
  BY DEF Derive
<1>3. obs[i].lineage = lineage /\ i \in Indices
  BY <1>1, ObservationFacts DEF IInv, ReadByThisRelease
<1>4. TypeOK'
  <2>1. changes' \subseteq Change
    <3> SUFFICES ASSUME NEW c \in changes' \ changes PROVE c \in Change
      BY DEF IInv, TypeOK
    <3>1. PICK j \in DOMAIN obs : c = [first |-> j, second |-> i]
      BY <1>2
    <3>2. j \in Indices
      BY ObservationFacts DEF IInv
    <3> QED
      BY <1>3, <3>1, <3>2 DEF Change
  <2> QED
    BY <1>1, <2>1 DEF IInv, TypeOK
<1>5. RunGoing' /\ ReadByThisRelease'
  BY <1>1 DEF IInv, RunGoing, ReadByThisRelease
<1>6. ChangesCompareObservations'
  BY <1>1, <1>2 DEF IInv, ChangesCompareObservations
<1>7. ASSUME NEW c \in changes' \ changes
      PROVE  /\ c.first < c.second /\ obs[c.first].content # obs[c.second].content
             /\ obs[c.first].lineage = obs[c.second].lineage
             /\ \A k \in c.first + 1 .. c.second - 1 : obs[k].lineage # obs[c.second].lineage
  <2>1. PICK j \in DOMAIN obs : /\ c = [first |-> j, second |-> i]
                                /\ Previous(i, j) /\ Version(j) # Version(i)
    BY <1>2, <1>7
  <2>2. j < i /\ obs[j].lineage = lineage
    BY <2>1 DEF Previous, Comparable
  <2>3. obs[j].content # obs[i].content
    BY <1>3, <2>1, <2>2 DEF Version
  <2>4. \A k \in j + 1 .. i - 1 : obs[k].lineage # lineage
    <3>1. i \in Int /\ j \in Int
      BY ObservationFacts DEF IInv
    <3> QED
      BY <2>1, <3>1 DEF Previous, Comparable
  <2> QED
    BY <1>3, <2>1, <2>2, <2>3, <2>4
<1>8. ChangesAreEdits' /\ NothingBetween'
  <2>1. \A c \in changes' : c \in changes \/ c \in changes' \ changes
    OBVIOUS
  <2>2. ChangesAreEdits'
    BY <1>1, <1>7, <2>1 DEF IInv, ChangesAreEdits
  <2>3. NothingBetween'
    BY <1>1, <1>7, <2>1 DEF IInv, NothingBetween, Untouched
  <2> QED
    BY <2>2, <2>3
<1> QED
  BY <1>4, <1>5, <1>6, <1>8 DEF IInv

LEMMA EndRunStep == ASSUME IInv, EndRun \/ Die PROVE IInv'
<1>1. TypeOK' /\ RunGoing' /\ ReadByThisRelease'
  BY DEF IInv, EndRun, Die, TypeOK, RunGoing, ReadByThisRelease
<1> QED
  BY <1>1, QuietStep DEF EndRun, Die

\* Relinking marks what it moves, and keeps the content that was observed.
LEMMA RelinkStep == ASSUME IInv, NEW i \in DOMAIN obs, Relink(i) PROVE IInv'
<1>1. /\ obs' = [obs EXCEPT ![i].lineage = lineage, ![i].moved = TRUE]
      /\ UNCHANGED <<page, lineage, changes, run, pc, todo>>
  BY DEF Relink, Outdated
<1>2. obs \in Seq(Observation) /\ DOMAIN obs = 1 .. Len(obs) /\ Len(obs) \in Nat
  BY DEF IInv, TypeOK
<1>3. /\ DOMAIN obs' = DOMAIN obs
      /\ \A k \in DOMAIN obs \ {i} : obs'[k] = obs[k]
      /\ obs'[i] = [obs[i] EXCEPT !.lineage = lineage, !.moved = TRUE]
  BY <1>1, <1>2
<1>4. /\ obs'[i] \in Observation
      /\ obs'[i].lineage = lineage /\ obs'[i].moved = TRUE
      /\ obs'[i].run = obs[i].run /\ obs'[i].content = obs[i].content
  <2>1. obs[i] \in Observation /\ lineage \in Lineages
    BY ObservationFacts DEF IInv, TypeOK
  <2> QED
    BY <1>3, <2>1 DEF Observation
<1>5. /\ \A k \in DOMAIN obs : /\ obs'[k] \in Observation
                               /\ obs'[k].run = obs[k].run /\ obs'[k].content = obs[k].content
                               /\ obs'[k].lineage = obs[k].lineage \/ obs'[k].lineage = lineage
      /\ \A k \in DOMAIN obs : ~obs'[k].moved => obs'[k] = obs[k]
      /\ \A k \in DOMAIN obs : obs[k].moved => obs'[k].moved
  BY <1>3, <1>4, ObservationFacts DEF IInv
<1>6. obs' \in Seq(Observation) /\ Len(obs') = Len(obs)
  <2>1. obs' \in [1 .. Len(obs) -> Observation]
    <3>1. obs' = [k \in 1 .. Len(obs) |-> obs'[k]]
      BY <1>1, <1>2
    <3> QED
      BY <1>2, <1>5, <3>1
  <2> QED
    BY <1>2, <2>1
<1>7. TypeOK'
  BY <1>1, <1>3, <1>6 DEF IInv, TypeOK
<1>8. RunGoing' /\ ReadByThisRelease'
  BY <1>1, <1>3, <1>5, <1>7 DEF IInv, TypeOK, RunGoing, ReadByThisRelease
<1>9. ChangesCompareObservations' /\ ChangesAreEdits'
  BY <1>1, <1>3, <1>5 DEF IInv, ChangesCompareObservations, ChangesAreEdits
<1>10. NothingBetween'
  <2> SUFFICES ASSUME NEW c \in changes, Untouched(c)'
               PROVE  /\ obs'[c.first].lineage = obs'[c.second].lineage
                      /\ \A k \in c.first + 1 .. c.second - 1 :
                           obs'[k].lineage = obs'[c.second].lineage => obs'[k].moved
    BY <1>1 DEF NothingBetween
  <2>1. c.first \in DOMAIN obs /\ c.second \in DOMAIN obs
    BY DEF IInv, ChangesCompareObservations
  <2>2. obs'[c.first] = obs[c.first] /\ obs'[c.second] = obs[c.second]
    BY <1>5, <2>1 DEF Untouched
  <2>3. Untouched(c)
    BY <2>2 DEF Untouched
  <2>4. \A k \in c.first + 1 .. c.second - 1 : k \in DOMAIN obs
    BY <1>2, <2>1
  <2>5. /\ obs[c.first].lineage = obs[c.second].lineage
        /\ \A k \in c.first + 1 .. c.second - 1 :
             obs[k].lineage = obs[c.second].lineage => obs[k].moved
    BY <2>3 DEF IInv, NothingBetween
  <2>6. ASSUME NEW k \in c.first + 1 .. c.second - 1, ~obs'[k].moved
        PROVE  obs'[k].lineage # obs'[c.second].lineage
    <3>1. obs'[k] = obs[k]
      BY <1>5, <2>4, <2>6
    <3> QED
      BY <2>2, <2>5, <2>6, <3>1
  <2> QED
    BY <2>2, <2>5, <2>6
<1> QED
  BY <1>7, <1>8, <1>9, <1>10 DEF IInv

LEMMA Inductive == IInv /\ [Next]_vars => IInv'
<1> SUFFICES ASSUME IInv, [Next]_vars PROVE IInv'
  OBVIOUS
<1>1. CASE Edit
  BY <1>1, EditStep
<1>2. CASE Install
  BY <1>2, InstallStep
<1>3. CASE StartRun
  BY <1>3, StartRunStep
<1>4. CASE Observe
  BY <1>4, ObserveStep
<1>5. CASE StartDerive
  BY <1>5, StartDeriveStep
<1>6. CASE EndRun \/ Die
  BY <1>6, EndRunStep
<1>7. CASE \E i \in DOMAIN obs : Derive(i)
  BY <1>7, DeriveStep
<1>8. CASE \E i \in DOMAIN obs : Relink(i)
  BY <1>8, RelinkStep
<1>9. CASE UNCHANGED vars
  <2>1. TypeOK' /\ RunGoing' /\ ReadByThisRelease'
    BY <1>9 DEF IInv, vars, TypeOK, RunGoing, ReadByThisRelease
  <2> QED
    BY <1>9, <2>1, QuietStep DEF vars
<1> QED
  BY <1>1, <1>2, <1>3, <1>4, <1>5, <1>6, <1>7, <1>8, <1>9 DEF Next

-----------------------------------------------------------------------------
\* Two changes of one lineage that overlap would each have an end inside the other.
LEMMA NoOverlap == IInv => EditsReportedOnce
<1> SUFFICES ASSUME IInv, NEW c \in changes, NEW d \in changes,
                    c # d, Untouched(c), Untouched(d),
                    obs[c.second].lineage = obs[d.second].lineage
             PROVE  c.second <= d.first \/ d.second <= c.first
  BY DEF EditsReportedOnce
<1>1. /\ c.first \in Nat /\ c.second \in Nat /\ d.first \in Nat /\ d.second \in Nat
      /\ c = [first |-> c.first, second |-> c.second]
      /\ d = [first |-> d.first, second |-> d.second]
  BY BoundsAssumption DEF IInv, TypeOK, Change, Indices
<1>2. c.first < c.second /\ d.first < d.second
  BY DEF IInv, ChangesAreEdits
<1>3. ~obs[c.first].moved /\ ~obs[c.second].moved /\ ~obs[d.first].moved /\ ~obs[d.second].moved
  BY DEF Untouched
<1>4. /\ obs[c.first].lineage = obs[d.second].lineage
      /\ obs[d.first].lineage = obs[c.second].lineage
      /\ \A k \in c.first + 1 .. c.second - 1 :
           obs[k].lineage = obs[c.second].lineage => obs[k].moved
      /\ \A k \in d.first + 1 .. d.second - 1 :
           obs[k].lineage = obs[d.second].lineage => obs[k].moved
  BY DEF IInv, NothingBetween
<1>5. ~(c.first < d.second /\ d.second < c.second) /\ ~(d.first < c.second /\ c.second < d.second)
  BY <1>1, <1>3, <1>4
<1>6. CASE c.second = d.second
  <2>1. c.first # d.first
    BY <1>1, <1>6
  <2>2. ~(c.first < d.first) /\ ~(d.first < c.first)
    BY <1>1, <1>2, <1>3, <1>4, <1>6
  <2> QED
    BY <1>1, <2>1, <2>2
<1> QED
  BY <1>1, <1>5, <1>6

\* Content keeps its types.
THEOREM TypeCorrect == Spec => []TypeOK
<1>1. IInv => TypeOK
  BY DEF IInv
<1> QED
  BY <1>1, InitInvariant, Inductive, PTL DEF Spec

\* No release, rollback, relinking or crash makes the archive tell a change of
\* content where the source showed none (_record_content_events).
THEOREM EditsOnly == Spec => []ChangesAreEdits
<1>1. IInv => ChangesAreEdits
  BY DEF IInv
<1> QED
  BY <1>1, InitInvariant, Inductive, PTL DEF Spec

\* No two content_changed events tell of one edit, unless relinking touched what
\* they compare (_record_content_events, with runs that die anywhere).
THEOREM EditsOnce == Spec => []EditsReportedOnce
  BY NoOverlap, InitInvariant, Inductive, PTL DEF Spec
=============================================================================
