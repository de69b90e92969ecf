--------------------------- MODULE DeploymentProofs ----------------------------
(***************************************************************************)
(* Proofs about Deployment, for any releases, any number of migrations and *)
(* of operators, and any config.                                           *)
(***************************************************************************)
EXTENDS Deployment, WellFoundedInduction, TLAPS

\* The operator inside its critical section is the holder of the deploy lock.
Waiting == {"idle", "locking"}
LockHeld == \A o \in Operators : op[o].at \notin Waiting <=> deployLock = o

\* Whoever is at work knows what it switches to and what from.
Known == /\ \A o \in Operators : op[o].at # "idle" => op[o].rel \in Releases /\ op[o].prev \in Releases
         /\ coll.at # "idle" => coll.rel \in Releases

\* What is linked, or may be linked by an activation under way, is sealed; what
\* is being built is not.
AllSealed ==
  /\ building # Nobody => tree[building] = "rubble"
  /\ tree[current] = "sealed"
  /\ previous # Nobody => tree[previous] = "sealed"
  /\ \A o \in Operators : op[o].at # "idle" =>
       tree[op[o].rel] = "sealed" /\ tree[op[o].prev] = "sealed"

\* What an operator finds pending is what its candidate lacks.
Opened == \A o \in Operators :
  /\ pending[o] # {} => op[o].at \in {"saving", "migrating"}
  /\ pending[o] # {} => pending[o] \subseteq 1 .. Knows[op[o].rel]
  /\ op[o].at = "migrating" => 1 .. Knows[op[o].rel] \subseteq applied \cup pending[o]

\* The archive is never older than code that the units may start.
Served(r) == 1 .. Knows[r] \subseteq applied
AllServed ==
  /\ Served(current) /\ Served(units)
  /\ coll.at # "idle" => Served(coll.rel)
  /\ \A o \in Operators :
       /\ op[o].at # "idle" => Served(op[o].prev)
       /\ op[o].at \in {"linking", "switching", "wiring", "smoke"} => Served(op[o].rel)

\* How far an activation has come.
Phases == \A o \in Operators :
  /\ op[o].at \in {"wiring", "smoke"} => current = op[o].rel
  /\ op[o].at = "smoke" => units = op[o].rel /\ timers
  /\ op[o].at = "rewiring" => current = op[o].prev

\* Before anybody is in its try block, and after, the units are in order.
Untouched == Waiting \cup {"draining", "checking"}
InOrder == ~torn /\ (\A o \in Operators : op[o].at \in Untouched) => timers /\ units = current

\* A candidate that was not allowed to be older than the archive is not.
NotBehind == \A o \in Operators :
  op[o].at \in Trying /\ ~op[o].flag => applied \subseteq 1 .. Knows[op[o].rel]

\* Between the backup and the switch the references of the archive are sound.
Sound == \A o \in Operators :
  op[o].at \in {"migrate", "migrating", "linking", "switching"} => ~dangling

\* A collection beside an activation began beside it.
BeganBeside == Activating /\ CollectionInFlight => coll.late

IInv == /\ TypeOK /\ SchemaTypeOK /\ LockHeld /\ Known /\ AllSealed /\ Opened /\ AllServed
        /\ Phases /\ InOrder /\ NotBehind /\ Sound /\ BeganBeside
        /\ NothingLeftToCollections

-----------------------------------------------------------------------------
(* Health and the schema.                                                    *)

LEMMA EvidenceTypes ==
  ASSUME NEW e \in Evidence
  PROVE  /\ ActivationFailed(e) \in Evidence /\ RunOpened(e) \in Evidence
         /\ NextDay(e) \in Evidence
         /\ \A outcome : \A qualified \in BOOLEAN : RunClosed(e, outcome, qualified) \in Evidence
<1> USE DEF Evidence, RunStates, SlotStates, StaleAfter
<1>1. ActivationFailed(e) \in Evidence
  BY DEF ActivationFailed
<1>2. RunOpened(e) \in Evidence
  BY DEF RunOpened
<1>3. NextDay(e) \in Evidence
  <2>1. e.lag \in 0 .. 2 /\ e.earlier \in BOOLEAN
    OBVIOUS
  <2>2. (IF e.lag < 2 THEN e.lag + 1 ELSE e.lag) \in 0 .. 2
    BY <2>1
  <2>3. (e.earlier \/ e.today = "failed") \in BOOLEAN
    OBVIOUS
  <2> QED
    BY <2>2, <2>3 DEF NextDay
<1>4. \A outcome : \A qualified \in BOOLEAN : RunClosed(e, outcome, qualified) \in Evidence
  <2> SUFFICES ASSUME NEW outcome, NEW qualified \in BOOLEAN
               PROVE  RunClosed(e, outcome, qualified) \in Evidence
    OBVIOUS
  <2>1. (IF outcome = "failed" THEN "failed" ELSE "good") \in RunStates
    OBVIOUS
  <2>2. (IF outcome = "failed" THEN e.today ELSE "answered") \in SlotStates
    OBVIOUS
  <2>3. (IF qualified THEN 0 ELSE e.lag) \in 0 .. 2
    <3>1. e.lag \in 0 .. 2 /\ 0 \in 0 .. 2
      OBVIOUS
    <3> QED
      BY <3>1
  <2>4. ASSUME NEW a \in RunStates, NEW b \in SlotStates, NEW c \in 0 .. 2
        PROVE  [e EXCEPT !.last = a, !.today = b, !.lag = c] \in Evidence
    OBVIOUS
  <2> QED
    <3> DEFINE A == IF outcome = "failed" THEN "failed" ELSE "good"
    <3> DEFINE B == IF outcome = "failed" THEN e.today ELSE "answered"
    <3> DEFINE C == IF qualified THEN 0 ELSE e.lag
    <3>1. A \in RunStates /\ B \in SlotStates /\ C \in 0 .. 2
      BY <2>1, <2>2, <2>3
    <3>2. RunClosed(e, outcome, qualified) = [e EXCEPT !.last = A, !.today = B, !.lag = C]
      BY DEF RunClosed
    <3> HIDE DEF A, B, C, Evidence, RunStates, SlotStates
    <3> QED
      BY <2>4, <3>1, <3>2
<1> QED
  BY <1>1, <1>2, <1>3, <1>4

\* A set of versions that is not empty has a greatest and a least.
LEMMA ExtremeVersions ==
  ASSUME NEW S, S \subseteq Versions, S # {}
  PROVE  (\E v \in S : \A w \in S : w <= v) /\ (\E v \in S : \A w \in S : v <= w)
<1> USE MigrationsAssumption
<1> DEFINE Left == {Newest - v : v \in S}
<1>1. S \subseteq Nat /\ Left \subseteq Nat /\ Left # {}
  <2>1. \A v \in S : v \in 1 .. Newest
    BY DEF Versions
  <2>2. \A v \in S : v \in Nat /\ Newest - v \in Nat
    BY <2>1
  <2> QED
    BY <2>2
<1>2. IsWellFoundedOn(OpToRel(<, Nat), Nat)
  BY NatLessThanWellFounded
<1>3. ASSUME NEW T, T \subseteq Nat, T # {} PROVE \E t \in T : \A u \in T : t <= u
  <2>1. PICK t \in T : \A u \in T : <<u, t>> \notin OpToRel(<, Nat)
    BY <1>2, <1>3, WFMin
  <2>2. \A u \in T : ~(u < t)
    BY <1>3, <2>1 DEF OpToRel
  <2> QED
    BY <1>3, <2>2
<1>4. PICK t \in Left : \A u \in Left : t <= u
  <2> HIDE DEF Left
  <2> QED
    BY <1>1, <1>3
<1>5. PICK v \in S : t = Newest - v
  BY <1>4
<1>6. \A w \in S : Newest - v <= Newest - w
  BY <1>4, <1>5
<1>7. \A w \in S : w <= v
  BY <1>1, <1>6
<1> QED
  BY <1>1, <1>3, <1>7

LEMMA VersionIsGreatest ==
  ASSUME SchemaTypeOK PROVE (\A v \in applied : v <= Version) /\ Version \in Nat
<1>1. CASE applied = {}
  BY <1>1 DEF Version
<1>2. CASE applied # {}
  <2>1. \E v \in applied : \A w \in applied : w <= v
    BY <1>2, ExtremeVersions DEF SchemaTypeOK
  <2>2. Version \in applied /\ \A v \in applied : v <= Version
    BY <1>2, <2>1 DEF Version
  <2> QED
    BY <2>2, MigrationsAssumption DEF SchemaTypeOK, Versions
<1> QED
  BY <1>1, <1>2

LEMMA FirstIsPending ==
  ASSUME SchemaTypeOK, NEW p \in Openers, pending[p] # {}
  PROVE  First(p) \in pending[p] /\ First(p) \in Versions
<1>1. pending[p] \subseteq Versions
  BY DEF SchemaTypeOK
<1>2. \E n \in pending[p] : \A m \in pending[p] : n <= m
  BY <1>1, ExtremeVersions
<1> QED
  BY <1>1, <1>2 DEF First

\* An archive is behind no code that is not behind it.
LEMMA NotRegressed ==
  ASSUME SchemaTypeOK, NEW r \in Releases, ~Regresses(r)
  PROVE  applied \subseteq 1 .. Knows[r]
<1>1. Knows[r] \in Nat /\ applied \subseteq Versions
  BY DeploymentAssumption, MigrationsAssumption DEF Versions, SchemaTypeOK
<1> QED
  BY <1>1, VersionIsGreatest DEF Regresses, Versions

-----------------------------------------------------------------------------
(* Types.                                                                    *)

LEMMA InitTypes == Init => TypeOK /\ SchemaTypeOK
<1> USE DeploymentAssumption, MigrationsAssumption
<1> SUFFICES ASSUME Init PROVE TypeOK /\ SchemaTypeOK
  OBVIOUS
<1>1. OpRest \in Op /\ CollRest \in Coll
  BY DEF OpRest, Op, OpSteps, CollRest, Coll
<1>2. evidence \in Evidence
  BY DEF Init, Evidence, RunStates, SlotStates, StaleAfter
<1>3. SchemaTypeOK
  <2>1. Knows[Installed] \in 1 .. Newest
    BY DEF Versions
  <2>2. 1 .. Knows[Installed] \subseteq 1 .. Newest
    BY <2>1
  <2> QED
    BY <2>2 DEF Init, SchemaInit, SchemaTypeOK, Versions
<1>4. config \in Configs
  BY DEF Init
<1>5. /\ op \in [Operators -> Op] /\ coll \in Coll
      /\ newer \in [Releases -> SUBSET Releases]
  BY <1>1 DEF Init
<1> QED
  BY <1>2, <1>3, <1>4, <1>5 DEF Init, TypeOK

LEMMA StoreTypes ==
  ASSUME TypeOK, SchemaTypeOK, Prune \/ \E r \in Releases : BuildStep(r)
  PROVE  TypeOK' /\ SchemaTypeOK'
<1> USE DEF NoBuildTouches, deployed, schemaVars
<1>1. UNCHANGED <<deployed, schemaVars, deployLock, op, coll, config, evidence, torn>>
  BY DEF Prune, BuildStep, StartBuild, Seal, BuildFails, BuildKilled
<1>2. tree' \in [Releases -> {"absent", "rubble", "sealed"}]
  BY DEF Prune, BuildStep, StartBuild, Seal, BuildFails, BuildKilled, TypeOK
<1>3. newer' \in [Releases -> SUBSET Releases]
  BY DEF Prune, BuildStep, StartBuild, Seal, BuildFails, BuildKilled, TypeOK, Without
<1>4. building' \in Releases \cup {Nobody}
  BY DEF Prune, BuildStep, StartBuild, Seal, BuildFails, BuildKilled, TypeOK
<1> QED
  BY <1>1, <1>2, <1>3, <1>4 DEF TypeOK, SchemaTypeOK

LEMMA ActivateTypes ==
  ASSUME TypeOK, SchemaTypeOK, Known, NEW o \in Operators, Activate(o)
  PROVE  TypeOK' /\ SchemaTypeOK'
<1> USE DEF Goto, Leave, deployed, schemaVars, host, store
<1>1. OpRest \in Op
  BY DEF OpRest, Op, OpSteps
<1>2. UNCHANGED host
  BY DEF Activate, Ask, Lock, LockTimesOut, Drained, DrainTimesOut, RefuseRegression,
         StopTimers, StopCutShort, Open, Saved, Migrated, LinkPrevious, Switch, Wire, Finish, Fail,
         RestoreCurrent, RestoreUnits, RestorationRaises, Kill
<1>3. op' \in [Operators -> Op]
  <2>1. CASE Ask(o)
    <3>1. PICK r \in Releases :
            op' = [op EXCEPT ![o] = [OpRest EXCEPT !.at = "locking", !.rel = r, !.prev = current]]
      BY <2>1 DEF Ask
    <3>2. [OpRest EXCEPT !.at = "locking", !.rel = r, !.prev = current] \in Op
      BY <3>1 DEF TypeOK, Op, OpSteps, OpRest
    <3> QED
      BY <3>1, <3>2 DEF TypeOK
  <2>2. CASE StopTimers(o)
    <3>1. Regresses(op[o].rel) \in BOOLEAN
      BY DEF Regresses
    <3>2. [op[o] EXCEPT !.at = "backup", !.flag = Regresses(op[o].rel)] \in Op
      BY <3>1 DEF TypeOK, Op, OpSteps, Trying
    <3>3. op' = [op EXCEPT ![o] = [op[o] EXCEPT !.at = "backup", !.flag = Regresses(op[o].rel)]]
      BY <2>2 DEF StopTimers, TypeOK, Op
    <3> QED
      BY <3>2, <3>3 DEF TypeOK
  <2>3. CASE Activate(o) /\ \E step \in OpSteps : Goto(o, step)
    BY <2>3 DEF TypeOK, Op
  <2>4. CASE Leave(o)
    BY <1>1, <2>4 DEF TypeOK
  <2> QED
    BY <2>1, <2>3, <2>4, <2>2
    DEF Activate, Lock, LockTimesOut, Drained, DrainTimesOut, RefuseRegression,
        StopCutShort, Open, Saved, Migrated, LinkPrevious, Switch, Wire, Finish, Fail,
        RestoreCurrent, RestoreUnits, RestorationRaises, Kill, OpSteps, Trying, Restoring
<1>4. deployLock' \in Operators \cup {Nobody} /\ torn' \in BOOLEAN
  BY DEF TypeOK, Activate, Ask, Lock, LockTimesOut, Drained, DrainTimesOut, RefuseRegression,
         StopTimers, StopCutShort, Open, Saved, Migrated, LinkPrevious, Switch, Wire, Finish, Fail,
         RestoreCurrent, RestoreUnits, RestorationRaises, Kill
<1>5. /\ current' \in Releases /\ previous' \in Releases \cup {Nobody}
      /\ units' \in Releases /\ timers' \in BOOLEAN
  BY DEF TypeOK, Known, Activate, Ask, Lock, LockTimesOut, Drained, DrainTimesOut,
         RefuseRegression, StopTimers, StopCutShort, Open, Saved, Migrated, LinkPrevious, Switch, Wire,
         Finish, Fail, RestoreCurrent, RestoreUnits, RestorationRaises, Kill
<1>6. SchemaTypeOK'
  <2>1. CASE Open(o)
    <3>1. op[o].rel \in Releases /\ o \in Openers
      BY <2>1, DeploymentAssumption DEF Open, Known
    <3>2. 1 .. Knows[op[o].rel] \subseteq Versions
      BY <3>1, DeploymentAssumption, MigrationsAssumption DEF Versions
    <3> QED
      BY <2>1, <3>1, <3>2 DEF Open, OpenArchive, SchemaTypeOK
  <2>2. CASE Fail(o) \/ Kill(o)
    BY <2>2 DEF Fail, Kill, Close, SchemaTypeOK
  <2>3. CASE UNCHANGED schemaVars
    BY <2>3 DEF SchemaTypeOK
  <2> QED
    BY <2>1, <2>2, <2>3
    DEF Activate, Ask, Lock, LockTimesOut, Drained, DrainTimesOut, RefuseRegression,
        StopTimers, StopCutShort, Saved, Migrated, LinkPrevious, Switch, Wire, Finish,
        RestoreCurrent, RestoreUnits, RestorationRaises
<1> QED
  BY <1>2, <1>3, <1>4, <1>5, <1>6 DEF TypeOK

LEMMA CollectTypes ==
  ASSUME TypeOK, SchemaTypeOK, Known, Collect \/ Midnight \/ EditConfig
  PROVE  TypeOK' /\ SchemaTypeOK'
<1> USE EvidenceTypes DEF NoSwitchTouches, deployed, schemaVars, store
<1>1. UNCHANGED <<store, deployed, deployLock, op, torn>>
  BY DEF Collect, Start, StartFails, OpenUnits, OpenRun, EndRun, KillUnits, Midnight, EditConfig
<1>2. coll' \in Coll
  <2>1. CASE Start
    <3>1. Activating \in BOOLEAN /\ units \in Releases
      BY DEF Activating, TypeOK
    <3> QED
      BY <2>1, <3>1 DEF Start, Coll
  <2>2. CASE EndRun \/ KillUnits
    <3>1. coll' = CollRest
      BY <2>2 DEF EndRun, KillUnits
    <3> QED
      BY <3>1 DEF CollRest, Coll
  <2>3. CASE OpenUnits \/ OpenRun
    BY <2>3 DEF OpenUnits, OpenRun, TypeOK, Coll
  <2>4. CASE UNCHANGED coll
    BY <2>4 DEF TypeOK
  <2> QED
    BY <2>1, <2>2, <2>3, <2>4 DEF Collect, StartFails, Midnight, EditConfig
<1>3. evidence' \in Evidence
  <2>1. CASE EndRun
    <3>1. PICK outcome \in {"success", "partial", "failed"}, qualified \in BOOLEAN :
            LET closed == RunClosed(evidence, outcome, qualified)
            IN evidence' = IF outcome = "failed" THEN ActivationFailed(closed) ELSE closed
      BY <2>1 DEF EndRun
    <3>2. RunClosed(evidence, outcome, qualified) \in Evidence
      BY DEF TypeOK
    <3> QED
      BY <3>1, <3>2
  <2>2. CASE ~EndRun
    BY <2>2
    DEF Collect, Start, StartFails, OpenUnits, OpenRun, KillUnits, Midnight, EditConfig, TypeOK
  <2> QED
    BY <2>1, <2>2
<1>4. config' \in Configs
  BY DEF Collect, Start, StartFails, OpenUnits, OpenRun, EndRun, KillUnits, Midnight,
         EditConfig, TypeOK
<1>5. SchemaTypeOK'
  <2>1. CASE OpenUnits
    <3>1. coll.rel \in Releases /\ Collector \in Openers
      BY <2>1, DeploymentAssumption DEF OpenUnits, Known
    <3>2. 1 .. Knows[coll.rel] \subseteq Versions
      BY <3>1, DeploymentAssumption, MigrationsAssumption DEF Versions
    <3> QED
      BY <2>1, <3>1, <3>2 DEF OpenUnits, OpenArchive, SchemaTypeOK
  <2>2. CASE KillUnits
    BY <2>2 DEF KillUnits, Close, SchemaTypeOK
  <2>3. CASE UNCHANGED schemaVars
    BY <2>3 DEF SchemaTypeOK
  <2> QED
    BY <2>1, <2>2, <2>3
    DEF Collect, Start, StartFails, OpenRun, EndRun, Midnight, EditConfig
<1> QED
  BY <1>1, <1>2, <1>3, <1>4, <1>5 DEF TypeOK

LEMMA UpgradeTypes ==
  ASSUME TypeOK, SchemaTypeOK, NEW p \in Openers, Upgrade(p)
  PROVE  TypeOK' /\ SchemaTypeOK'
<1> USE EvidenceTypes DEF deployed, store
<1>1. UNCHANGED <<store, deployed, config, deployLock, torn>>
  BY DEF Upgrade
<1>2. op' \in [Operators -> Op]
  BY DEF Upgrade, TypeOK, Op, OpSteps, Restoring
<1>3. coll' \in Coll /\ evidence' \in Evidence
  <2>1. coll \in Coll /\ evidence \in Evidence /\ CollRest \in Coll
    BY DEF TypeOK, Coll, CollRest
  <2>2. ActivationFailed(evidence) \in Evidence
    BY <2>1
  <2> QED
    BY <2>1, <2>2 DEF Upgrade
<1>4. SchemaTypeOK'
  BY FirstIsPending
  DEF Upgrade, Migrate, MigrateDangling, MigrationFails, Close, SchemaTypeOK
<1> QED
  BY <1>1, <1>2, <1>3, <1>4 DEF TypeOK

-----------------------------------------------------------------------------
(* The invariant, when it begins and on the steps outside the activations.   *)

LEMMA InitInvariant == Init => IInv
<1> USE DeploymentAssumption
<1> SUFFICES ASSUME Init PROVE IInv
  OBVIOUS
<1>1. TypeOK /\ SchemaTypeOK
  BY InitTypes
<1>2. \A o \in Operators : op[o] = OpRest
  BY DEF Init
<1>3. LockHeld /\ Known
  BY <1>2 DEF Init, LockHeld, Known, Waiting, OpRest, CollRest
<1>4. AllSealed /\ Opened
  BY <1>2 DEF Init, SchemaInit, AllSealed, Opened, OpRest
<1>5. AllServed
  BY <1>2 DEF Init, SchemaInit, AllServed, Served, OpRest, CollRest
<1>6. Phases /\ InOrder /\ NotBehind /\ Sound
  BY <1>2 DEF Init, Phases, InOrder, NotBehind, Sound, OpRest, Trying
<1>7. BeganBeside /\ NothingLeftToCollections
  BY DEF Init, SchemaInit, BeganBeside, CollectionInFlight, CollRest, NothingLeftToCollections
<1> QED
  BY <1>1, <1>3, <1>4, <1>5, <1>6, <1>7 DEF IInv

\* Only one operator is past the deploy lock.
LEMMA Alone ==
  ASSUME LockHeld, NEW o \in Operators, op[o].at \notin Waiting,
         NEW q \in Operators, q # o
  PROVE  op[q].at \in Waiting
BY DEF LockHeld

LEMMA StoreStep ==
  ASSUME IInv, Prune \/ \E r \in Releases : BuildStep(r)
  PROVE  IInv'
<1> USE DEF NoBuildTouches, deployed, schemaVars
<1>1. UNCHANGED <<deployed, schemaVars, deployLock, op, coll, config, evidence, torn>>
  BY DEF Prune, BuildStep, StartBuild, Seal, BuildFails, BuildKilled
<1>2. TypeOK' /\ SchemaTypeOK'
  BY StoreTypes DEF IInv
<1>3. AllSealed'
  <2> DEFINE Linked == {current, previous}
                \cup UNION {{op[o].rel, op[o].prev} : o \in {q \in Operators : op[q].at # "idle"}}
  <2>1. \A r \in Releases : r \in Linked => tree[r] = "sealed"
    BY DeploymentAssumption DEF IInv, AllSealed
  <2>2. \A r \in Releases : r \in Linked => tree'[r] = "sealed"
    <3>1. CASE Prune
      <4>1. PICK gone \in SUBSET (Releases \ Protected) :
              tree' = [r \in Releases |-> IF r \in gone THEN "absent" ELSE tree[r]]
        BY <3>1 DEF Prune, Present
      <4>2. \A o \in Operators : op[o].at = "idle"
        BY <3>1 DEF Prune, InFlight
      <4> QED
        BY <2>1, <4>1, <4>2 DEF Protected
    <3>2. ASSUME NEW s \in Releases, BuildStep(s)
          PROVE  \A r \in Releases : r \in Linked => tree'[r] = "sealed"
      <4>1. CASE StartBuild(s) \/ Seal(s) \/ BuildKilled(s)
        BY <2>1, <4>1 DEF StartBuild, Seal, BuildKilled, IInv, TypeOK
      <4>2. CASE BuildFails(s)
        <5>1. tree[s] = "rubble"
          BY <4>2, DeploymentAssumption DEF BuildFails, IInv, AllSealed
        <5> QED
          BY <2>1, <4>2, <5>1 DEF BuildFails, IInv, TypeOK
      <4> QED
        BY <3>2, <4>1, <4>2 DEF BuildStep
    <3> QED
      BY <3>1, <3>2
  <2>3. building' # Nobody => tree'[building'] = "rubble"
    <3>1. CASE building' = Nobody
      BY <3>1
    <3>2. ASSUME NEW r \in Releases, StartBuild(r)
          PROVE  tree'[building'] = "rubble"
      BY <3>2 DEF StartBuild, IInv, TypeOK
    <3> QED
      BY <3>1, <3>2 DEF Prune, BuildStep, Seal, BuildFails, BuildKilled
  <2>4. /\ current \in Releases /\ (previous # Nobody => previous \in Releases)
        /\ \A o \in Operators : op[o].at # "idle" =>
             op[o].rel \in Releases /\ op[o].prev \in Releases
    BY DEF IInv, TypeOK, Known
  <2> QED
    BY <1>1, <2>2, <2>3, <2>4 DEF AllSealed
<1>4. LockHeld' /\ Known' /\ Opened' /\ AllServed' /\ Phases'
  BY <1>1 DEF IInv, LockHeld, Known, Opened, AllServed, Served, Phases
<1>5. InOrder' /\ NotBehind' /\ Sound' /\ BeganBeside' /\ NothingLeftToCollections'
  BY <1>1
  DEF IInv, InOrder, NotBehind, Sound, BeganBeside, Activating, CollectionInFlight,
      NothingLeftToCollections
<1> QED
  BY <1>2, <1>3, <1>4, <1>5 DEF IInv

LEMMA CollectStep ==
  ASSUME IInv, Collect \/ Midnight \/ EditConfig
  PROVE  IInv'
<1> USE DeploymentAssumption DEF NoSwitchTouches, deployed, schemaVars, store
<1>1. UNCHANGED <<store, deployed, deployLock, op, torn, applied, dangling>>
  BY DEF Collect, Start, StartFails, OpenUnits, OpenRun, EndRun, KillUnits, Midnight, EditConfig,
         OpenArchive
<1>2. TypeOK' /\ SchemaTypeOK'
  BY CollectTypes DEF IInv
<1>3. NothingLeftToCollections'
  <2>1. CASE OpenUnits
    <3>1. 1 .. Knows[coll.rel] \ applied = {}
      BY <2>1 DEF OpenUnits, IInv, AllServed, Served
    <3> QED
      BY <2>1, <3>1
      DEF OpenUnits, OpenArchive, NothingLeftToCollections, IInv, SchemaTypeOK
  <2>2. CASE KillUnits
    BY <2>2 DEF KillUnits, Close, NothingLeftToCollections, IInv, SchemaTypeOK
  <2> QED
    BY <2>1, <2>2
    DEF Collect, Start, StartFails, OpenRun, EndRun, Midnight, EditConfig,
        NothingLeftToCollections, IInv
<1>4. \A o \in Operators : pending'[o] = pending[o]
  BY DEF Collect, Start, StartFails, OpenUnits, OpenRun, EndRun, KillUnits, Midnight, EditConfig,
         OpenArchive, Close, IInv, SchemaTypeOK
<1>5. \/ coll'.at = "idle" /\ ~Start
      \/ coll'.rel = coll.rel /\ coll'.late = coll.late /\ coll.at # "idle" /\ ~Start
      \/ coll' = [at |-> "opening", rel |-> units, late |-> Activating]
  BY DEF Collect, Start, StartFails, OpenUnits, OpenRun, EndRun, KillUnits, Midnight,
         EditConfig, CollRest, IInv, TypeOK, Coll
<1>6. Known' /\ AllServed' /\ BeganBeside'
  BY <1>1, <1>5
  DEF IInv, TypeOK, Known, AllServed, Served, BeganBeside, Activating, CollectionInFlight
<1>7. LockHeld' /\ AllSealed' /\ Phases' /\ InOrder'
  BY <1>1 DEF IInv, LockHeld, AllSealed, Phases, InOrder
<1>8. Opened' /\ NotBehind' /\ Sound'
  BY <1>1, <1>4 DEF IInv, Opened, NotBehind, Sound
<1> QED
  BY <1>2, <1>3, <1>6, <1>7, <1>8 DEF IInv

LEMMA UpgradeStep ==
  ASSUME IInv, NEW p \in Openers, Upgrade(p)
  PROVE  IInv'
<1> USE DeploymentAssumption DEF deployed, store
<1>1. UNCHANGED <<store, deployed, config, deployLock, torn>>
  BY DEF Upgrade
<1>2. TypeOK' /\ SchemaTypeOK'
  BY UpgradeTypes DEF IInv
<1>3. pending[p] # {}
  BY DEF Upgrade, Migrate, MigrateDangling, MigrationFails
<1>4. p \in Operators /\ op[p].at \in {"saving", "migrating"}
  BY <1>3 DEF IInv, NothingLeftToCollections, Opened
<1>5. First(p) \in pending[p] /\ pending[p] \subseteq 1 .. Knows[op[p].rel]
  BY <1>3, <1>4, FirstIsPending DEF IInv, Opened
<1>6. UNCHANGED coll
  BY <1>4 DEF Upgrade
<1>7. /\ \A q \in Openers \ {p} : pending'[q] = pending[q]
      /\ pending'[p] \subseteq pending[p] /\ applied \subseteq applied'
  BY DEF Upgrade, Migrate, MigrateDangling, MigrationFails, Close, IInv, SchemaTypeOK
<1>8. applied' \subseteq applied \cup {First(p)}
  BY DEF Upgrade, Migrate, MigrateDangling, MigrationFails
<1>9. \A q \in Operators : q # p => op'[q] = op[q] /\ op[q].at \in Waiting
  BY <1>4, Alone DEF Upgrade, IInv, Waiting
<1>10. \/ op'[p] = op[p] /\ UNCHANGED <<op, dangling>>
          /\ applied' \cup pending'[p] = applied \cup pending[p]
       \/ op'[p].at = "restoring" /\ op'[p].rel = op[p].rel /\ op'[p].prev = op[p].prev
          /\ pending'[p] = {}
  <2>1. CASE Migrate(p) /\ UNCHANGED op
    BY <1>5, <2>1 DEF Migrate, IInv, SchemaTypeOK
  <2>2. CASE MigrateDangling(p) \/ MigrationFails(p)
    <3>1. pending'[p] = {}
      BY <2>2 DEF MigrateDangling, MigrationFails, Close, IInv, SchemaTypeOK
    <3>2. \/ op' = [o \in Operators |-> IF o = p THEN [op[o] EXCEPT !.at = "restoring"] ELSE op[o]]
          \/ Migrate(p) /\ UNCHANGED op
      BY DEF Upgrade
    <3> QED
      BY <1>4, <2>1, <3>1, <3>2 DEF IInv, TypeOK, Op
  <2> QED
    BY <2>1, <2>2 DEF Upgrade
<1>11. LockHeld' /\ Known' /\ AllSealed'
  BY <1>1, <1>4, <1>6, <1>9, <1>10 DEF IInv, LockHeld, Known, AllSealed, Waiting
<1>12. Opened'
  BY <1>4, <1>5, <1>7, <1>9, <1>10 DEF IInv, Opened, Waiting
<1>13. AllServed'
  BY <1>1, <1>4, <1>6, <1>7, <1>9, <1>10 DEF IInv, AllServed, Served
<1>14. Phases' /\ InOrder'
  BY <1>1, <1>4, <1>9, <1>10 DEF IInv, Phases, InOrder, Untouched, Waiting
<1>15. NotBehind'
  BY <1>4, <1>5, <1>8, <1>9, <1>10 DEF IInv, NotBehind, Trying, Waiting
<1>16. Sound' /\ BeganBeside' /\ NothingLeftToCollections'
  BY <1>4, <1>6, <1>7, <1>9, <1>10
  DEF IInv, Sound, BeganBeside, Activating, CollectionInFlight, NothingLeftToCollections, Waiting
<1> QED
  BY <1>2, <1>11, <1>12, <1>13, <1>14, <1>15, <1>16 DEF IInv

-----------------------------------------------------------------------------
(* The steps of an activation: what each kind of them moves.                 *)

\* An activation leaves the host, and the other operators, alone.
LEMMA ActivateFrame ==
  ASSUME IInv, NEW o \in Operators, Activate(o)
  PROVE  /\ UNCHANGED <<host, applied, dangling>>
         /\ op' \in [Operators -> Op]
         /\ \A q \in Operators : q # o => op'[q] = op[q]
         /\ \A p \in Openers : p # o => pending'[p] = pending[p]
<1> USE DEF Goto, Leave, deployed, schemaVars
<1>1. op' \in [Operators -> Op]
  BY ActivateTypes DEF IInv, TypeOK
<1>2. UNCHANGED <<host, applied, dangling>>
  BY DEF Activate, Ask, Lock, LockTimesOut, Drained, DrainTimesOut, RefuseRegression,
         StopTimers, StopCutShort, Open, OpenArchive, Saved, Migrated, LinkPrevious, Switch,
         Wire, Finish,
         Fail, RestoreCurrent, RestoreUnits, RestorationRaises, Kill
<1>3. \E x \in Op : op' = [op EXCEPT ![o] = x]
  <2>1. op \in [Operators -> Op]
    BY DEF IInv, TypeOK
  <2>2. \E x : op' = [op EXCEPT ![o] = x]
    BY <2>1
    DEF Activate, Ask, Lock, LockTimesOut, Drained, DrainTimesOut, RefuseRegression,
        StopTimers, StopCutShort, Open, Saved, Migrated, LinkPrevious, Switch, Wire, Finish, Fail,
        RestoreCurrent, RestoreUnits, RestorationRaises, Kill
  <2>3. PICK x : op' = [op EXCEPT ![o] = x]
    BY <2>2
  <2>4. op'[o] = x
    BY <2>1, <2>3
  <2> QED
    BY <1>1, <2>3, <2>4
<1>4. \A q \in Operators : q # o => op'[q] = op[q]
  BY <1>3 DEF IInv, TypeOK
<1>5. \A p \in Openers : p # o => pending'[p] = pending[p]
  BY DEF Activate, Ask, Lock, LockTimesOut, Drained, DrainTimesOut, RefuseRegression,
         StopTimers, StopCutShort, Open, OpenArchive, Saved, Migrated, LinkPrevious, Switch,
         Wire, Finish,
         Fail, Close, RestoreCurrent, RestoreUnits, RestorationRaises, Kill, IInv, SchemaTypeOK
<1> QED
  BY <1>1, <1>2, <1>4, <1>5

\* It ends, or begins with a sealed release, or keeps what it was asked for.
LEMMA ActivateKeeps ==
  ASSUME IInv, NEW o \in Operators, Activate(o)
  PROVE  \/ op'[o] = OpRest
         \/ /\ Ask(o) /\ op'[o].at = "locking" /\ op'[o].prev = current
            /\ op'[o].rel \in Releases /\ tree[op'[o].rel] = "sealed"
         \/ /\ op[o].at # "idle" /\ op'[o].rel = op[o].rel /\ op'[o].prev = op[o].prev
            /\ StopTimers(o) \/ op'[o].flag = op[o].flag
<1> USE DEF Goto
<1>1. op \in [Operators -> Op]
  BY DEF IInv, TypeOK
<1>2. CASE Ask(o)
  <2>1. PICK r \in Releases :
          /\ tree[r] = "sealed"
          /\ op' = [op EXCEPT ![o] = [OpRest EXCEPT !.at = "locking", !.rel = r, !.prev = current]]
    BY <1>2 DEF Ask
  <2>2. op'[o] = [OpRest EXCEPT !.at = "locking", !.rel = r, !.prev = current]
    BY <1>1, <2>1
  <2>3. op'[o] = [at |-> "locking", rel |-> r, prev |-> current, flag |-> FALSE]
    BY <2>2 DEF OpRest
  <2> QED
    BY <1>2, <2>1, <2>3
<1>3. CASE StopTimers(o)
  BY <1>1, <1>3 DEF StopTimers, Op
<1>4. CASE Leave(o)
  BY <1>1, <1>4 DEF Leave
<1>5. CASE op[o].at # "idle" /\ \E step \in OpSteps : Goto(o, step)
  BY <1>1, <1>5 DEF Op
<1> QED
  BY <1>2, <1>3, <1>4, <1>5
  DEF Activate, Lock, LockTimesOut, Drained, DrainTimesOut, RefuseRegression,
      StopCutShort, Open, Saved, Migrated, LinkPrevious, Switch, Wire, Finish, Fail, RestoreCurrent,
      RestoreUnits, RestorationRaises, Kill, Trying, Restoring, OpSteps

\* Without the deploy lock it touches neither the links nor the archive.
LEMMA ActivateWaiting ==
  ASSUME IInv, NEW o \in Operators, Activate(o), op[o].at \in Waiting
  PROVE  /\ UNCHANGED <<deployed, torn>>
         /\ op'[o].at \in Waiting \cup {"draining"}
<1>1. op \in [Operators -> Op]
  BY DEF IInv, TypeOK
<1>2. Ask(o) \/ Lock(o) \/ LockTimesOut(o) \/ Kill(o)
  BY DEF Activate, Waiting, Drained, DrainTimesOut, RefuseRegression, StopTimers, StopCutShort,
         Open, Saved, Migrated, LinkPrevious, Switch, Wire, Finish, Fail, RestoreCurrent,
         RestoreUnits, RestorationRaises, Trying, Restoring
<1>3. UNCHANGED <<deployed, torn>>
  BY <1>2 DEF Ask, Lock, LockTimesOut, Kill, Waiting, Trying, Restoring, IInv, TypeOK
<1>4. op'[o].at \in Waiting \cup {"draining"}
  <2>1. CASE Ask(o)
    BY <2>1, <1>1, ActivateKeeps DEF Waiting, OpRest, Ask
  <2>2. CASE ~Ask(o)
    BY <2>2, <1>1, <1>2 DEF Lock, LockTimesOut, Kill, Waiting, Goto, Leave, OpRest, Op
  <2> QED
    BY <2>1, <2>2
<1> QED
  BY <1>3, <1>4

\* The step that an activation takes next.
LEMMA ActivateStages ==
  ASSUME IInv, NEW o \in Operators, Activate(o)
  PROVE  /\ Ask(o)            => op[o].at = "idle"      /\ op'[o].at = "locking"
         /\ Lock(o)           => op[o].at = "locking"   /\ op'[o].at = "draining"
         /\ Drained(o)        => op[o].at = "draining"  /\ op'[o].at = "checking"
         /\ StopTimers(o)     => op[o].at = "checking"  /\ op'[o].at = "backup"
         /\ Open(o)           => <<op[o].at, op'[o].at>> \in
                                   {<<"backup", "saving">>, <<"migrate", "migrating">>}
         /\ Saved(o)          => op[o].at = "saving"    /\ op'[o].at = "migrate"
         /\ Migrated(o)       => op[o].at = "migrating" /\ op'[o].at = "linking"
         /\ LinkPrevious(o)   => op[o].at = "linking"   /\ op'[o].at = "switching"
         /\ Switch(o)         => op[o].at = "switching" /\ op'[o].at = "wiring"
         /\ Wire(o)           => op[o].at = "wiring"    /\ op'[o].at = "smoke"
         /\ Fail(o)           => op[o].at \in Trying    /\ op'[o].at = "restoring"
         /\ RestoreCurrent(o) => op[o].at = "restoring" /\ op'[o].at = "rewiring"
<1> USE DEF Goto
<1>1. op \in [Operators -> Op]
  BY DEF IInv, TypeOK
<1>2. Ask(o) => op[o].at = "idle" /\ op'[o].at = "locking"
  BY ActivateKeeps, <1>1 DEF Ask, OpRest
<1>3. \A step : Goto(o, step) => op'[o].at = step
  BY <1>1 DEF Op
<1>4. StopTimers(o) => op[o].at = "checking" /\ op'[o].at = "backup"
  BY <1>1 DEF StopTimers, Op
<1> HIDE DEF Goto
<1>5. Open(o) => <<op[o].at, op'[o].at>> \in
                   {<<"backup", "saving">>, <<"migrate", "migrating">>}
  BY <1>3 DEF Open
<1> QED
  BY <1>2, <1>3, <1>4, <1>5
  DEF Lock, Drained, Saved, Migrated, LinkPrevious, Switch, Wire, Fail, RestoreCurrent

\* An activation that leaves gives up the deploy lock, if it has it.
LEMMA ActivateLeaves ==
  ASSUME IInv, NEW o \in Operators,
         LockTimesOut(o) \/ DrainTimesOut(o) \/ RefuseRegression(o) \/ Finish(o)
           \/ RestoreUnits(o) \/ RestorationRaises(o)
           \/ StopCutShort(o) \/ Kill(o)
  PROVE  op'[o] = OpRest /\ deployLock' = (IF deployLock = o THEN Nobody ELSE deployLock)
BY DEF LockTimesOut, DrainTimesOut, RefuseRegression, Finish, RestoreUnits,
       RestorationRaises, StopCutShort, Kill, Leave, IInv, TypeOK

-----------------------------------------------------------------------------
(* The steps of an activation, one part of the invariant after another.      *)

LEMMA ActivateLockHeld ==
  ASSUME IInv, NEW o \in Operators, Activate(o)
  PROVE  LockHeld'
<1> USE ActivateFrame, DeploymentAssumption DEF Waiting
<1>1. CASE Lock(o)
  <2>1. deployLock = Nobody /\ deployLock' = o /\ op'[o].at = "draining"
    BY <1>1, ActivateStages DEF Lock
  <2>2. \A q \in Operators : op[q].at \in Waiting
    BY <2>1 DEF IInv, LockHeld
  <2> QED
    BY <2>1, <2>2 DEF LockHeld
<1>2. CASE LockTimesOut(o) \/ DrainTimesOut(o) \/ RefuseRegression(o) \/ Finish(o)
             \/ RestoreUnits(o) \/ RestorationRaises(o)
           \/ StopCutShort(o) \/ Kill(o)
  <2>1. op'[o] = OpRest /\ deployLock' = (IF deployLock = o THEN Nobody ELSE deployLock)
    BY <1>2, ActivateLeaves
  <2>2. \A q \in Operators : q # o => (op'[q].at \notin Waiting <=> deployLock' = q)
    BY <2>1 DEF IInv, LockHeld
  <2>3. op'[o].at \in Waiting /\ deployLock' # o
    BY <2>1 DEF OpRest
  <2> QED
    BY <2>2, <2>3 DEF LockHeld
<1>3. CASE UNCHANGED deployLock /\ (op'[o].at \in Waiting <=> op[o].at \in Waiting)
  BY <1>3 DEF IInv, LockHeld
<1>4. UNCHANGED deployLock \/ Lock(o) \/ LockTimesOut(o) \/ DrainTimesOut(o)
        \/ RefuseRegression(o) \/ Finish(o) \/ RestoreUnits(o) \/ RestorationRaises(o)
           \/ StopCutShort(o) \/ Kill(o)
  BY DEF Activate, Ask, Drained, StopTimers, Open, Saved, Migrated, LinkPrevious, Switch, Wire,
         Fail, RestoreCurrent
<1> QED
  BY <1>1, <1>2, <1>3, <1>4, ActivateStages
  DEF Activate, Trying, Drained, StopTimers, Open, Saved, Migrated, LinkPrevious, Switch, Wire,
      Fail, RestoreCurrent

LEMMA ActivateKnown ==
  ASSUME IInv, NEW o \in Operators, Activate(o)
  PROVE  Known'
<1>1. UNCHANGED coll
  BY ActivateFrame DEF host
<1>2. op'[o].at # "idle" => op'[o].rel \in Releases /\ op'[o].prev \in Releases
  BY ActivateKeeps DEF IInv, TypeOK, Known, OpRest
<1> QED
  BY <1>1, <1>2, ActivateFrame DEF IInv, Known

\* What the links and the units may be changed to.
LEMMA ActivateLinks ==
  ASSUME IInv, NEW o \in Operators, Activate(o)
  PROVE  /\ \/ UNCHANGED current
            \/ Switch(o) /\ current' = op[o].rel
            \/ RestoreCurrent(o) /\ current' = op[o].prev
         /\ \/ UNCHANGED previous
            \/ LinkPrevious(o) /\ previous' = op[o].prev
         /\ \/ UNCHANGED units
            \/ Wire(o) /\ units' = op[o].rel
            \/ RestoreUnits(o) /\ units' = op[o].prev
         /\ UNCHANGED timers \/ Wire(o) \/ RestoreUnits(o) \/ StopTimers(o) \/ StopCutShort(o)
BY DEF deployed, Activate, Ask, Lock, LockTimesOut, Drained, DrainTimesOut, RefuseRegression,
       StopTimers, StopCutShort, Open, Saved, Migrated, LinkPrevious, Switch, Wire, Finish, Fail,
       RestoreCurrent, RestoreUnits, RestorationRaises, Kill

LEMMA ActivateAllSealed ==
  ASSUME IInv, NEW o \in Operators, Activate(o)
  PROVE  AllSealed'
<1>1. UNCHANGED <<tree, building>>
  BY ActivateFrame DEF host, store
<1>2. op'[o].at # "idle" => tree[op'[o].rel] = "sealed" /\ tree[op'[o].prev] = "sealed"
  BY ActivateKeeps DEF IInv, AllSealed, OpRest
<1>3. op[o].at # "idle" => tree[op[o].rel] = "sealed" /\ tree[op[o].prev] = "sealed"
  BY DEF IInv, AllSealed
<1>4. tree[current'] = "sealed" /\ (previous' # Nobody => tree[previous'] = "sealed")
  BY <1>3, ActivateLinks DEF IInv, AllSealed, Switch, RestoreCurrent, LinkPrevious
<1> QED
  BY <1>1, <1>2, <1>4, ActivateFrame DEF IInv, AllSealed

LEMMA ActivateOpened ==
  ASSUME IInv, NEW o \in Operators, Activate(o)
  PROVE  Opened'
<1> DEFINE Fine(q) == /\ pending[q] # {} => op[q].at \in {"saving", "migrating"}
                      /\ pending[q] # {} => pending[q] \subseteq 1 .. Knows[op[q].rel]
                      /\ op[q].at = "migrating" => 1 .. Knows[op[q].rel] \subseteq applied \cup pending[q]
<1>1. UNCHANGED applied
  BY ActivateFrame
<1>2. \A q \in Operators : q # o => Fine(q)'
  BY <1>1, ActivateFrame, DeploymentAssumption DEF IInv, Opened
<1>3. Fine(o)
  BY DEF IInv, Opened
<1>4. o \in Openers /\ pending \in [Openers -> SUBSET Versions]
  BY DeploymentAssumption DEF IInv, SchemaTypeOK
<1>5. CASE Open(o)
  <2>1. pending'[o] = 1 .. Knows[op[o].rel] \ applied /\ op'[o].at \in {"saving", "migrating"}
    BY <1>4, <1>5, ActivateStages DEF Open, OpenArchive
  <2>2. op'[o].rel = op[o].rel
    BY <1>5, ActivateKeeps DEF Open, Ask, OpRest, Goto, IInv, TypeOK, Op
  <2> QED
    BY <1>1, <1>2, <2>1, <2>2 DEF Opened
<1>6. CASE pending'[o] = {} /\ op'[o].at # "migrating"
  BY <1>2, <1>6 DEF Opened
<1>7. CASE Fail(o) \/ Kill(o)
  <2>1. pending'[o] = {}
    BY <1>4, <1>7 DEF Fail, Kill, Close
  <2> QED
    BY <1>6, <1>7, <2>1, ActivateStages, ActivateLeaves DEF OpRest
<1>8. CASE UNCHANGED pending /\ (op[o].at \notin {"saving", "migrating"} \/ pending[o] = {})
           /\ op'[o].at # "migrating"
  BY <1>3, <1>6, <1>8
<1>9. CASE Saved(o) \/ Migrated(o)
  BY <1>8, <1>9, ActivateStages DEF Saved, Migrated, schemaVars
<1>10. CASE Ask(o) \/ Lock(o) \/ Drained(o) \/ StopTimers(o) \/ LinkPrevious(o) \/ Switch(o)
              \/ Wire(o) \/ RestoreCurrent(o)
  <2>1. UNCHANGED pending
    BY <1>10 DEF schemaVars, Ask, Lock, Drained, StopTimers, LinkPrevious, Switch, Wire,
                 RestoreCurrent
  <2> QED
    BY <1>8, <1>10, <2>1, ActivateStages
<1>11. CASE LockTimesOut(o) \/ DrainTimesOut(o) \/ RefuseRegression(o) \/ Finish(o)
              \/ RestoreUnits(o) \/ RestorationRaises(o) \/ StopCutShort(o)
  <2>1. UNCHANGED pending /\ op[o].at \notin {"saving", "migrating"}
    BY <1>11 DEF schemaVars, LockTimesOut, DrainTimesOut, RefuseRegression, Finish, RestoreUnits,
                 RestorationRaises, Restoring, StopCutShort
  <2> QED
    BY <1>8, <1>11, <2>1, ActivateLeaves DEF OpRest
<1> QED
  BY <1>5, <1>7, <1>9, <1>10, <1>11 DEF Activate

LEMMA ActivateAllServed ==
  ASSUME IInv, NEW o \in Operators, Activate(o)
  PROVE  AllServed'
<1>1. UNCHANGED <<applied, coll>>
  BY ActivateFrame DEF host
<1>2. \A r : Served(r)' <=> Served(r)
  BY <1>1 DEF Served
<1>3. Served(current) /\ Served(units) /\ (op[o].at # "idle" => Served(op[o].prev))
  BY DEF IInv, AllServed
<1>4. op[o].at \in {"linking", "switching", "wiring", "smoke"} => Served(op[o].rel)
  BY DEF IInv, AllServed
<1>5. Migrated(o) => Served(op[o].rel)
  BY DEF Migrated, IInv, Opened, Served
<1>6. op'[o].at # "idle" => Served(op'[o].prev)
  BY <1>3, ActivateKeeps DEF OpRest
<1>7. op'[o].at \in {"linking", "switching", "wiring", "smoke"} => Served(op'[o].rel)
  <2>1. CASE Migrated(o) \/ LinkPrevious(o) \/ Switch(o) \/ Wire(o)
    BY <1>4, <1>5, <2>1, ActivateStages, ActivateKeeps DEF OpRest
  <2>2. CASE op'[o].at \notin {"linking", "switching", "wiring", "smoke"}
    BY <2>2
  <2>3. CASE op'[o] = OpRest
    BY <2>3 DEF OpRest
  <2> QED
    BY <2>1, <2>2, <2>3, ActivateStages, ActivateLeaves DEF Activate
<1>8. Served(current') /\ Served(units')
  BY <1>3, <1>4, ActivateLinks DEF Switch, RestoreCurrent, Wire, RestoreUnits
<1> QED
  BY <1>1, <1>2, <1>6, <1>7, <1>8, ActivateFrame DEF IInv, AllServed

LEMMA ActivatePhases ==
  ASSUME IInv, NEW o \in Operators, Activate(o)
  PROVE  Phases'
<1>1. CASE op[o].at \in Waiting
  <2>1. UNCHANGED deployed /\ op'[o].at \in Waiting \cup {"draining"}
    BY <1>1, ActivateWaiting
  <2> QED
    BY <2>1, ActivateFrame DEF IInv, Phases, deployed, Waiting
<1>2. CASE op[o].at \notin Waiting
  <2>1. \A q \in Operators : q # o => op'[q].at \in Waiting
    BY <1>2, ActivateFrame, Alone DEF IInv
  <2>2. CASE Switch(o) \/ Wire(o) \/ RestoreCurrent(o)
    <3>1. op'[o].rel = op[o].rel /\ op'[o].prev = op[o].prev
      BY <2>2, ActivateStages, ActivateKeeps DEF OpRest
    <3>2. Switch(o) => op'[o].at = "wiring" /\ current' = op[o].rel
      BY ActivateStages DEF Switch
    <3>3. Wire(o) => /\ op'[o].at = "smoke" /\ UNCHANGED current
                     /\ current = op[o].rel /\ units' = op[o].rel /\ timers'
      BY ActivateStages DEF Wire, IInv, Phases
    <3>4. RestoreCurrent(o) => op'[o].at = "rewiring" /\ current' = op[o].prev
      BY ActivateStages DEF RestoreCurrent
    <3> QED
      BY <2>1, <2>2, <3>1, <3>2, <3>3, <3>4 DEF Phases, Waiting
  <2>3. CASE op'[o].at \notin {"wiring", "smoke", "rewiring"}
    BY <2>1, <2>3 DEF Phases, Waiting
  <2> QED
    BY <1>2, <2>2, <2>3, ActivateStages, ActivateLeaves DEF Activate, OpRest
<1> QED
  BY <1>1, <1>2

LEMMA ActivateInOrder ==
  ASSUME IInv, NEW o \in Operators, Activate(o)
  PROVE  InOrder'
<1> USE DEF Untouched, Waiting
<1>1. \A q \in Operators : q # o => op'[q] = op[q]
  BY ActivateFrame
<1>2. CASE op[o].at \in Untouched /\ ~StopTimers(o) /\ ~StopCutShort(o)
  <2>1. UNCHANGED <<deployed, torn>>
    BY <1>2
    DEF Activate, deployed, Ask, Lock, LockTimesOut, Drained, DrainTimesOut, RefuseRegression,
        Open, Saved, Migrated, LinkPrevious, Switch, Wire, Finish, Fail, RestoreCurrent,
        RestoreUnits, RestorationRaises, Kill, Trying, Restoring, IInv, TypeOK
  <2> QED
    BY <1>1, <1>2, <2>1 DEF IInv, InOrder, deployed
<1>3. CASE op'[o].at \notin Untouched
  BY <1>3 DEF InOrder
<1>4. CASE Finish(o)
  BY <1>4 DEF Finish, InOrder, IInv, Phases, deployed
<1>5. CASE RestoreUnits(o)
  BY <1>5 DEF RestoreUnits, InOrder, IInv, Phases
<1>6. CASE RestorationRaises(o) \/ (Kill(o) /\ op[o].at \in Trying \cup Restoring)
  BY <1>6 DEF RestorationRaises, Kill, InOrder
<1>8. CASE StopCutShort(o)
  <2>1. /\ op[o].at \in Untouched /\ UNCHANGED <<current, units>>
        /\ torn' = (torn \/ timers' # timers)
    BY <1>8 DEF StopCutShort
  <2>2. CASE torn'
    BY <2>2 DEF InOrder
  <2>3. CASE ~torn'
    <3>1. ~torn /\ timers' = timers
      BY <2>1, <2>3
    <3> QED
      BY <1>1, <2>1, <3>1 DEF IInv, InOrder
  <2> QED
    BY <2>2, <2>3
<1>7. op[o].at \in OpSteps
  BY DEF IInv, TypeOK, Op
<1> QED
  BY <1>2, <1>3, <1>4, <1>5, <1>6, <1>7, <1>8, ActivateStages
  DEF Activate, LockTimesOut, DrainTimesOut, RefuseRegression, OpSteps

LEMMA ActivateNotBehind ==
  ASSUME IInv, NEW o \in Operators, Activate(o)
  PROVE  NotBehind'
<1>1. op'[o].at \in Trying /\ ~op'[o].flag => applied \subseteq 1 .. Knows[op'[o].rel]
  <2>1. CASE StopTimers(o)
    <3>1. op'[o].flag = Regresses(op[o].rel) /\ op'[o].rel = op[o].rel
      BY <2>1 DEF StopTimers, IInv, TypeOK, Op
    <3>2. op[o].rel \in Releases
      BY <2>1 DEF StopTimers, IInv, Known
    <3>3. ~Regresses(op[o].rel) => applied \subseteq 1 .. Knows[op[o].rel]
      BY <3>2, NotRegressed DEF IInv
    <3> QED
      BY <3>1, <3>3
  <2>2. CASE op'[o].at \in Trying /\ ~StopTimers(o)
    <3>1. op[o].at \in Trying
      BY <2>2, ActivateStages, ActivateLeaves DEF Activate, Trying, OpRest
    <3>2. op'[o].rel = op[o].rel /\ op'[o].flag = op[o].flag
      <4>1. op[o].at # "idle" /\ op'[o] # OpRest
        BY <2>2, <3>1 DEF Trying, OpRest
      <4>2. ~Ask(o)
        BY <4>1 DEF Ask
      <4> QED
        BY <2>2, <4>1, <4>2, ActivateKeeps
    <3> QED
      BY <3>1, <3>2 DEF IInv, NotBehind
  <2> QED
    BY <2>1, <2>2
<1> QED
  BY <1>1, ActivateFrame DEF IInv, NotBehind

LEMMA ActivateSound ==
  ASSUME IInv, NEW o \in Operators, Activate(o)
  PROVE  Sound'
<1> DEFINE Between == {"migrate", "migrating", "linking", "switching"}
<1>1. op'[o].at \in Between => op[o].at \in Between \/ Saved(o)
  BY ActivateStages, ActivateLeaves DEF Activate, OpRest
<1>2. Saved(o) => ~dangling
  BY DEF Saved
<1> QED
  BY <1>1, <1>2, ActivateFrame DEF IInv, Sound

LEMMA ActivateBeganBeside ==
  ASSUME IInv, NEW o \in Operators, Activate(o)
  PROVE  BeganBeside'
<1> DEFINE Before == {"idle", "locking", "draining"}
<1>1. UNCHANGED coll
  BY ActivateFrame DEF host
<1>2. CASE Drained(o)
  BY <1>1, <1>2 DEF Drained, BeganBeside, CollectionInFlight
<1>3. CASE ~Drained(o)
  <2>1. op'[o].at \notin Before => op[o].at \notin Before
    BY <1>3, ActivateStages, ActivateLeaves DEF Activate, Trying, OpRest
  <2>2. Activating' => Activating
    BY <2>1, ActivateFrame DEF Activating
  <2> QED
    BY <1>1, <2>2 DEF IInv, BeganBeside, CollectionInFlight
<1> QED
  BY <1>2, <1>3

LEMMA ActivateStep ==
  ASSUME IInv, NEW o \in Operators, Activate(o)
  PROVE  IInv'
<1>1. TypeOK' /\ SchemaTypeOK'
  BY ActivateTypes DEF IInv
<1>2. NothingLeftToCollections'
  <2>1. Collector \in Openers /\ Collector # o
    BY DeploymentAssumption
  <2> QED
    BY <2>1, ActivateFrame DEF IInv, NothingLeftToCollections
<1>3. LockHeld' /\ Known' /\ AllSealed' /\ Opened' /\ AllServed'
  BY ActivateLockHeld, ActivateKnown, ActivateAllSealed, ActivateOpened, ActivateAllServed
<1>4. Phases' /\ InOrder' /\ NotBehind' /\ Sound' /\ BeganBeside'
  BY ActivatePhases, ActivateInOrder, ActivateNotBehind, ActivateSound, ActivateBeganBeside
<1> QED
  BY <1>1, <1>2, <1>3, <1>4 DEF IInv

-----------------------------------------------------------------------------
(* The results.                                                              *)

\* What is linked is sealed, what is in service knows the archive, and the operator
\* past the deploy lock is alone: in every state of every host.
THEOREM Invariance == Spec => []IInv
<1>1. Init => IInv
  BY InitInvariant
<1>2. IInv /\ [Next]_vars => IInv'
  <2> SUFFICES ASSUME IInv, [Next]_vars PROVE IInv'
    OBVIOUS
  <2>1. CASE Prune \/ \E r \in Releases : BuildStep(r)
    BY <2>1, StoreStep
  <2>2. ASSUME NEW o \in Operators, Activate(o) PROVE IInv'
    BY <2>2, ActivateStep
  <2>3. CASE Collect \/ EditConfig \/ Midnight
    BY <2>3, CollectStep
  <2>4. ASSUME NEW p \in Openers, Upgrade(p) PROVE IInv'
    BY <2>4, UpgradeStep
  <2>5. CASE UNCHANGED vars
    BY <2>5
    DEF vars, host, store, deployed, schemaVars, IInv, TypeOK, SchemaTypeOK, LockHeld, Known,
        AllSealed, Opened, AllServed, Served, Phases, InOrder, NotBehind, Sound, BeganBeside,
        Activating, CollectionInFlight, NothingLeftToCollections
  <2> QED
    BY <2>1, <2>2, <2>3, <2>4, <2>5 DEF Next
<1> QED
  BY <1>1, <1>2, PTL DEF Spec

\* Every variable keeps its type, however builds, activations, collections and
\* kills overlap.
THEOREM TypeCorrect == Spec => []TypeOK
<1>1. IInv => TypeOK
  BY DEF IInv
<1> QED
  BY <1>1, Invariance, PTL

\* "Any failure restores the previous release": with the deploy lock free, the timers
\* run and the units start what current points to, which is sealed, as is what previous
\* points to, whatever failed in the try block, and unless an activation was killed,
\* failed while it stopped the timers, or failed in its restoration.
THEOREM RestsAlways == Spec => []RestsWhole
<1>1. IInv => RestsWhole
  <2> SUFFICES ASSUME IInv, deployLock = Nobody, ~torn
               PROVE  /\ timers /\ units = current /\ tree[current] = "sealed"
                      /\ previous # Nobody => tree[previous] = "sealed"
    BY DEF RestsWhole
  <2>1. \A o \in Operators : op[o].at \in Waiting
    BY DeploymentAssumption DEF IInv, LockHeld
  <2>2. timers /\ units = current
    BY <2>1 DEF IInv, InOrder, Untouched
  <2> QED
    BY <2>2 DEF IInv, AllSealed
<1> QED
  BY <1>1, Invariance, PTL

\* The version of the archive is compared with the candidate's long before the
\* switch, and still no activation puts code in service that is older than the
\* archive, unless it was told to: nobody else can have migrated it further.
THEOREM NeverBehind == Spec => []NeverBehindArchive
<1>1. IInv => NeverBehindArchive
  <2> SUFFICES ASSUME IInv, NEW o \in Operators, op[o].at \in {"wiring", "smoke"}, ~op[o].flag
               PROVE  Knows[op[o].rel] >= Version
    BY DEF NeverBehindArchive
  <2>1. applied \subseteq 1 .. Knows[op[o].rel]
    BY DEF IInv, NotBehind, Trying
  <2>2. Knows[op[o].rel] \in Nat /\ \A v \in applied : v \in Nat /\ v <= Knows[op[o].rel]
    <3>1. op[o].rel \in Releases
      BY DEF IInv, Known
    <3>2. Knows[op[o].rel] \in Versions
      BY <3>1, DeploymentAssumption
    <3> QED
      BY <2>1, <3>2, MigrationsAssumption DEF Versions
  <2>3. Version \in applied \/ Version = 0
    <3>1. CASE applied = {}
      BY <3>1 DEF Version
    <3>2. CASE applied # {}
      <4>1. \E v \in applied : \A w \in applied : w <= v
        BY <3>2, ExtremeVersions DEF IInv, SchemaTypeOK
      <4> QED
        BY <3>2, <4>1 DEF Version
    <3> QED
      BY <3>1, <3>2
  <2> QED
    BY <2>2, <2>3
<1> QED
  BY <1>1, Invariance, PTL

\* A collection finds nothing to migrate: whatever the units may start, the archive
\* already has what it knows.
THEOREM NothingLeft == Spec => []NothingLeftToCollections
<1>1. IInv => NothingLeftToCollections
  BY DEF IInv
<1> QED
  BY <1>1, Invariance, PTL

\* "Never switch the runtime out from under a harvest in progress": one that had
\* begun when the collector lock was asked for is over when current is repointed.
THEOREM SwitchBetween == Spec => SwitchesBetweenHarvests
<1>1. IInv /\ [Next]_vars => [current' # current /\ CollectionInFlight => coll.late]_vars
  <2> SUFFICES ASSUME IInv, Next, current' # current, CollectionInFlight PROVE coll.late
    OBVIOUS
  <2>1. PICK o \in Operators : Activate(o)
    BY DEF Next, Prune, BuildStep, StartBuild, Seal, BuildFails, BuildKilled, NoBuildTouches,
           deployed, Collect, Start, StartFails, OpenUnits, OpenRun, EndRun, KillUnits, Midnight,
           NoSwitchTouches, EditConfig, Upgrade
  <2>2. Switch(o) \/ RestoreCurrent(o)
    BY <2>1, ActivateLinks
  <2>3. Activating
    BY <2>2 DEF Switch, RestoreCurrent, Activating
  <2> QED
    BY <2>3 DEF IInv, BeganBeside
<1> QED
  BY <1>1, Invariance, PTL DEF Spec, SwitchesBetweenHarvests

\* New code is never put in service over an archive with dangling references: the
\* backup of the activation has looked, and only its own migrations come after.
THEOREM SwitchSound == Spec => SwitchesSoundArchive
<1>1. IInv => \A o \in Operators : op[o].at = "switching" => ~dangling
  BY DEF IInv, Sound
<1>2. IInv /\ [Next]_vars =>
        [\A o \in Operators : op[o].at = "switching" /\ op'[o].at = "wiring" => ~dangling]_vars
  BY <1>1
<1> QED
  BY <1>2, Invariance, PTL DEF Spec, SwitchesSoundArchive

-----------------------------------------------------------------------------
(* The migrations on their own, whoever opens the archive when.              *)

\* What a process has left is all its code knows and the archive lacks.
ListsComplete == \A p \in Openers : pending[p] # {} =>
  \E v \in 0 .. Newest : pending[p] \subseteq 1 .. v /\ 1 .. v \subseteq applied \cup pending[p]

\* Below an applied migration all are applied.
Downward == \A n \in applied : 1 .. n \subseteq applied

SchemaInv == SchemaTypeOK /\ ListsComplete /\ Downward

LEMMA SchemaBegins == ASSUME NEW v \in 0 .. Newest, SchemaInit(v) PROVE SchemaInv
<1> USE MigrationsAssumption
<1>1. applied = 1 .. v /\ 1 .. v \subseteq 1 .. Newest
  BY DEF SchemaInit
<1>2. \A n \in 1 .. v : 1 .. n \subseteq 1 .. v
  OBVIOUS
<1> QED
  BY <1>1, <1>2 DEF SchemaInit, SchemaInv, SchemaTypeOK, ListsComplete, Downward, Versions

\* The next migration of a process leaves no gap behind it, whatever the others did
\* since the process made its list.
LEMMA NextInOrder ==
  ASSUME SchemaInv, NEW p \in Openers, pending[p] # {}
  PROVE  1 .. First(p) \subseteq applied \cup {First(p)}
<1> USE MigrationsAssumption DEF SchemaInv, Versions
<1>1. PICK v \in 0 .. Newest : pending[p] \subseteq 1 .. v /\ 1 .. v \subseteq applied \cup pending[p]
  BY DEF ListsComplete
<1>2. pending[p] \subseteq Versions
  BY DEF SchemaTypeOK
<1>3. First(p) \in pending[p] /\ \A m \in pending[p] : First(p) <= m
  BY <1>2, ExtremeVersions DEF First
<1>4. \A m \in 1 .. First(p) : m \in 1 .. v
  BY <1>1, <1>3
<1>5. \A m \in 1 .. First(p) : m \in pending[p] => m = First(p)
  BY <1>2, <1>3
<1> QED
  BY <1>1, <1>4, <1>5

LEMMA SchemaKept == SchemaInv /\ [SchemaNext]_schemaVars => SchemaInv'
<1> SUFFICES ASSUME SchemaInv, [SchemaNext]_schemaVars PROVE SchemaInv'
  OBVIOUS
<1> USE MigrationsAssumption DEF SchemaInv, Versions
<1>1. ASSUME NEW p \in Openers, NEW v \in Versions, OpenArchive(p, v) PROVE SchemaInv'
  <2>1. /\ pending' = [pending EXCEPT ![p] = 1 .. v \ applied] /\ UNCHANGED <<applied, dangling>>
        /\ v \in 0 .. Newest /\ 1 .. v \subseteq 1 .. Newest
    BY <1>1 DEF OpenArchive
  <2> QED
    BY <2>1 DEF SchemaTypeOK, ListsComplete, Downward
<1>2. ASSUME NEW p \in Openers, Migrate(p) \/ MigrateDangling(p) PROVE SchemaInv'
  <2>1. /\ pending[p] # {} /\ applied' = applied \cup {First(p)} /\ dangling' \in BOOLEAN
        /\ \/ pending' = [pending EXCEPT ![p] = pending[p] \ {First(p)}]
           \/ pending' = [pending EXCEPT ![p] = {}]
    BY <1>2 DEF Migrate, MigrateDangling, Close, SchemaTypeOK
  <2>2. 1 .. First(p) \subseteq applied' /\ First(p) \in pending[p] /\ First(p) \in Versions
    BY <2>1, NextInOrder, FirstIsPending
  <2>3. SchemaTypeOK'
    BY <2>1, <2>2 DEF SchemaTypeOK
  <2>4. Downward'
    BY <2>1, <2>2 DEF Downward
  <2>5. ListsComplete'
    <3> SUFFICES ASSUME NEW q \in Openers, pending'[q] # {}
                 PROVE  \E v \in 0 .. Newest : /\ pending'[q] \subseteq 1 .. v
                                               /\ 1 .. v \subseteq applied' \cup pending'[q]
      BY DEF ListsComplete
    <3>1. /\ pending'[q] \subseteq pending[q]
          /\ pending[q] \subseteq pending'[q] \cup {First(p)}
      BY <2>1 DEF SchemaTypeOK
    <3>2. PICK v \in 0 .. Newest : /\ pending[q] \subseteq 1 .. v
                                   /\ 1 .. v \subseteq applied \cup pending[q]
      BY <3>1 DEF ListsComplete
    <3> QED
      BY <2>1, <3>1, <3>2
  <2> QED
    BY <2>3, <2>4, <2>5
<1>3. ASSUME NEW p \in Openers, MigrationFails(p) PROVE SchemaInv'
  BY <1>3 DEF MigrationFails, Close, SchemaTypeOK, ListsComplete, Downward
<1>4. CASE UNCHANGED schemaVars
  BY <1>4 DEF schemaVars, SchemaTypeOK, ListsComplete, Downward
<1> QED
  BY <1>1, <1>2, <1>3, <1>4 DEF SchemaNext

\* However many processes of however many releases migrate one archive at a time,
\* and wherever they fail or die, its version says which migrations it has.
THEOREM SchemaWithoutGaps == SchemaSpec => []ArchiveWithoutGaps
<1>1. (\E v \in 0 .. Newest : SchemaInit(v)) => SchemaInv
  BY SchemaBegins
<1>2. SchemaInv => ArchiveWithoutGaps
  <2> SUFFICES ASSUME SchemaInv PROVE applied = 1 .. Version
    BY DEF ArchiveWithoutGaps
  <2> USE MigrationsAssumption DEF SchemaInv, SchemaTypeOK, Versions
  <2>1. CASE applied = {}
    BY <2>1 DEF Version
  <2>2. CASE applied # {}
    <3>1. Version \in applied /\ \A w \in applied : w <= Version
      BY <2>2, ExtremeVersions DEF Version
    <3>2. 1 .. Version \subseteq applied
      BY <3>1 DEF Downward
    <3>3. \A w \in applied : w \in 1 .. Version
      BY <3>1
    <3> QED
      BY <3>2, <3>3
  <2> QED
    BY <2>1, <2>2
<1> QED
  BY <1>1, <1>2, SchemaKept, PTL DEF SchemaSpec

\* What the release tool and the units do to the schema, the schema allows.
LEMMA SchemaStep == IInv /\ [Next]_vars => [SchemaNext]_schemaVars
<1> SUFFICES ASSUME IInv, [Next]_vars PROVE [SchemaNext]_schemaVars
  OBVIOUS
<1> USE DeploymentAssumption
<1>1. TypeOK
  BY DEF IInv
<1>2. ASSUME NEW p \in Openers, Close(p), UNCHANGED <<applied, dangling>>
      PROVE  [SchemaNext]_schemaVars
  <2>1. CASE pending[p] = {}
    BY <1>1, <1>2, <2>1 DEF TypeOK, SchemaTypeOK, Close, schemaVars
  <2>2. CASE pending[p] # {}
    BY <1>2, <2>2 DEF MigrationFails, SchemaNext
  <2> QED
    BY <2>1, <2>2
<1>3. ASSUME NEW o \in Operators, Activate(o) PROVE [SchemaNext]_schemaVars
  <2>1. CASE Open(o)
    <3>1. op[o].at # "idle"
      BY <2>1 DEF Open
    <3>2. op[o].rel \in Releases
      BY <3>1 DEF IInv, Known
    <3>3. Knows[op[o].rel] \in Versions /\ OpenArchive(o, Knows[op[o].rel])
      BY <2>1, <3>2 DEF Open
    <3> QED
      BY <3>3 DEF SchemaNext
  <2>2. CASE Fail(o) \/ Kill(o)
    BY <1>2, <2>2 DEF Fail, Kill
  <2>3. CASE UNCHANGED schemaVars
    BY <2>3
  <2> QED
    BY <1>3, <2>1, <2>2, <2>3
    DEF Activate, Ask, Lock, LockTimesOut, Drained, DrainTimesOut, RefuseRegression, StopTimers,
        StopCutShort, Saved, Migrated, LinkPrevious, Switch, Wire, Finish, RestoreCurrent,
        RestoreUnits, RestorationRaises
<1>4. CASE Collect
  <2>1. CASE OpenUnits
    <3>1. Knows[coll.rel] \in Versions
      BY <2>1 DEF IInv, Known, OpenUnits
    <3> QED
      BY <2>1, <3>1 DEF OpenUnits, SchemaNext
  <2>2. CASE KillUnits
    BY <1>2, <2>2 DEF KillUnits
  <2> QED
    BY <1>4, <2>1, <2>2 DEF Collect, Start, StartFails, OpenRun, EndRun
<1>5. CASE \E p \in Openers : Upgrade(p)
  BY <1>5 DEF Upgrade, SchemaNext
<1>6. CASE (\E r \in Releases : BuildStep(r)) \/ Prune \/ EditConfig \/ Midnight
  BY <1>6 DEF BuildStep, StartBuild, Seal, BuildFails, BuildKilled, Prune, EditConfig, Midnight,
              NoBuildTouches
<1>7. CASE UNCHANGED vars
  BY <1>7 DEF vars
<1> QED
  BY <1>3, <1>4, <1>5, <1>6, <1>7 DEF Next

\* Deployment implements SchemaSpec: for any releases and operators, with failures and
\* kills anywhere, each of its steps migrates as any opener may, or not at all.
THEOREM MigratesBySchema == Spec => SchemaSpec
<1>1. Init => \E v \in 0 .. Newest : SchemaInit(v)
  BY DeploymentAssumption, MigrationsAssumption DEF Init, Versions
<1> QED
  BY <1>1, SchemaStep, Invariance, PTL DEF Spec, SchemaSpec

\* Whatever activations, rollbacks and collections do, fail to do or leave half done,
\* the version of the archive says which migrations it has.
THEOREM NoGaps == Spec => []ArchiveWithoutGaps
BY MigratesBySchema, SchemaWithoutGaps, PTL
=============================================================================
