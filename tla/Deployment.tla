------------------------------ MODULE Deployment -------------------------------
(***************************************************************************)
(* How a host changes the code it runs (ops/release.py), while the timers  *)
(* go on collecting.                                                       *)
(*                                                                         *)
(* A release is built into a directory of its own and sealed.  An operator *)
(* activates it: under the deploy lock, and once no collection holds the   *)
(* collector lock, the timers are stopped, the candidate backs the archive *)
(* up and migrates it, the links previous and current are repointed, the   *)
(* units are rewritten and the timers started, and the candidate's health  *)
(* command has the last word.  Any exception from the backup on restores   *)
(* the release that was current when the operator began, unless the        *)
(* restoration fails in its turn.  A process can be killed at any point;   *)
(* the kernel then drops its locks, and nothing else is undone.  A         *)
(* rollback is the activation of previous.                                 *)
(***************************************************************************)
EXTENDS Integers, FiniteSets, Health, Migrations

CONSTANTS
  Releases,      \* commits
  Installed,     \* the release in service at the beginning
  Knows,         \* SCHEMA_VERSION of each release
  Configs,       \* states of the operator's config file
  Reads,         \* the configs each release can load
  Operators,     \* processes that activate releases
  Collector,     \* the process of the units
  Nobody,
  Keep           \* prune --keep

ASSUME DeploymentAssumption ==
  /\ Installed \in Releases /\ Nobody \notin Operators \cup Releases
  /\ Collector \notin Operators /\ Openers = Operators \cup {Collector}
  /\ Knows \in [Releases -> Versions]
  /\ Reads \in [Releases -> SUBSET Configs]
  /\ Keep \in Nat

VARIABLES
  tree,          \* of each release: its directory
  newer,         \* of each release: the directories made after its own
  building,      \* the release a build is at work on, or Nobody
  current, previous,   \* the links
  units,         \* the release that systemd starts
  timers,        \* the timers are running
  deployLock,    \* the operator that holds .deploy.lock, or Nobody
  op,            \* of each operator: its activation
  coll,          \* the collection of the units
  config,        \* the config file
  evidence,      \* what health looks at
  torn           \* history: an activation was killed, or failed outside its try block
                 \* or in its restoration, and none has got to its end since

store    == <<tree, newer, building>>
deployed == <<current, previous, units, timers>>
host     == <<store, coll, config, evidence>>
vars     == <<host, deployed, schemaVars, deployLock, op, torn>>

\* Steps of an activation inside its try block, and of what follows a failure.
Trying    == {"backup", "saving", "migrate", "migrating", "linking", "switching",
              "wiring", "smoke"}
Restoring == {"restoring", "rewiring"}
OpSteps   == {"idle", "locking", "draining", "checking"} \cup Trying \cup Restoring
Op        == [at : OpSteps, rel : Releases \cup {Nobody}, prev : Releases \cup {Nobody},
              flag : BOOLEAN]
Coll      == [at : {"idle", "opening", "starting", "collecting"},
              rel : Releases \cup {Nobody}, late : BOOLEAN]

OpRest   == [at |-> "idle", rel |-> Nobody, prev |-> Nobody, flag |-> FALSE]
CollRest == [at |-> "idle", rel |-> Nobody, late |-> FALSE]

Runnable(r) == tree[r] = "sealed" /\ config \in Reads[r]
WellSaid    == ExitCodes(evidence) \subseteq {0, 2}
InFlight    == {o \in Operators : op[o].at # "idle"}

Goto(o, step) == op' = [op EXCEPT ![o].at = step]
Leave(o)      == /\ op' = [op EXCEPT ![o] = OpRest]
                 /\ deployLock' = IF deployLock = o THEN Nobody ELSE deployLock

-----------------------------------------------------------------------------
(* The host has been installed, and has collected.                         *)

Init ==
  /\ tree = [r \in Releases |-> IF r = Installed THEN "sealed" ELSE "absent"]
  /\ newer = [r \in Releases |-> {}] /\ building = Nobody
  /\ current = Installed /\ previous = Nobody /\ units = Installed /\ timers = TRUE
  /\ SchemaInit(Knows[Installed])
  /\ deployLock = Nobody
  /\ op = [o \in Operators |-> OpRest]
  /\ coll = CollRest
  /\ config \in Reads[Installed]
  /\ evidence = [last |-> "good", today |-> "clear", earlier |-> FALSE, lag |-> 0]
  /\ torn = FALSE

-----------------------------------------------------------------------------
(* build and prune, which take no lock.                                    *)

Present    == {r \in Releases : tree[r] # "absent"}
Without(S) == [r \in Releases |-> IF r \in S THEN {} ELSE newer[r] \ S]
NoBuildTouches == UNCHANGED <<deployed, schemaVars, deployLock, op, coll, config, evidence, torn>>

\* A sealed release is reused; anything else at its path is discarded first.
StartBuild(r) ==
  /\ building = Nobody /\ tree[r] # "sealed"
  /\ building' = r
  /\ tree' = [tree EXCEPT ![r] = "rubble"]
  /\ newer' = [s \in Releases |-> IF s \in Present \ {r} THEN newer[s] \cup {r} ELSE {}]
  /\ NoBuildTouches

\* The candidate loads the deployed config and its health command answers well;
\* the manifest that seals it is written last.
Seal(r) ==
  /\ building = r /\ config \in Reads[r] /\ WellSaid
  /\ tree' = [tree EXCEPT ![r] = "sealed"]
  /\ building' = Nobody
  /\ UNCHANGED newer
  /\ NoBuildTouches

BuildFails(r) ==
  /\ building = r
  /\ tree' = [tree EXCEPT ![r] = "absent"]
  /\ newer' = Without({r})
  /\ building' = Nobody
  /\ NoBuildTouches

BuildKilled(r) ==
  /\ building = r
  /\ building' = Nobody
  /\ UNCHANGED <<tree, newer>>
  /\ NoBuildTouches

Protected == {current, previous}

\* Assumed: nobody prunes while a release is built or activated (see the README).
Prune ==
  /\ building = Nobody /\ InFlight = {}
  /\ LET gone == {r \in Present : Cardinality(newer[r]) >= Keep} \ Protected
     IN /\ gone # {}
        /\ tree' = [r \in Releases |-> IF r \in gone THEN "absent" ELSE tree[r]]
        /\ newer' = Without(gone)
  /\ UNCHANGED building
  /\ NoBuildTouches

-----------------------------------------------------------------------------
(* activate, up to its try block.                                          *)

\* The candidate must be sealed.  What is current is read now, without the lock.
\* rollback is the same with the release that previous points to.
Ask(o) ==
  /\ op[o].at = "idle"
  /\ \E r \in Releases :
       /\ tree[r] = "sealed"
       /\ op' = [op EXCEPT ![o] = [OpRest EXCEPT !.at = "locking", !.rel = r, !.prev = current]]
  /\ UNCHANGED <<host, deployed, schemaVars, deployLock, torn>>

Lock(o) ==
  /\ op[o].at = "locking" /\ deployLock = Nobody
  /\ deployLock' = o
  /\ Goto(o, "draining")
  /\ UNCHANGED <<host, deployed, schemaVars, torn>>

LockTimesOut(o) ==
  /\ op[o].at = "locking" /\ deployLock # Nobody
  /\ Leave(o)
  /\ UNCHANGED <<host, deployed, schemaVars, torn>>

CollectionInFlight == coll.at # "idle"

\* Slip for SwitchesBetweenHarvests: nobody waits for the collector lock.
Drained_AtOnce(o) ==
  /\ op[o].at = "draining"
  /\ Goto(o, "checking")
  /\ UNCHANGED <<host, deployed, schemaVars, deployLock, torn>>

Drained(o) ==
  /\ op[o].at = "draining" /\ ~CollectionInFlight
  /\ Goto(o, "checking")
  /\ UNCHANGED <<host, deployed, schemaVars, deployLock, torn>>

DrainTimesOut(o) ==
  /\ op[o].at = "draining" /\ CollectionInFlight
  /\ Leave(o)
  /\ UNCHANGED <<host, deployed, schemaVars, torn>>

\* Slip for NeverBehindArchive: the candidate is compared with the code in service.
Regresses_InService(r) == Knows[r] < Knows[current]

Regresses(r) == Knows[r] < Version

RefuseRegression(o) ==
  /\ op[o].at = "checking" /\ Regresses(op[o].rel)
  /\ Leave(o)
  /\ UNCHANGED <<host, deployed, schemaVars, torn>>

\* Or the operator allowed it, which only then makes a difference.  The timers are
\* stopped, and stay enabled.  One that systemctl fails to stop, which is passed over,
\* adds nothing: Start does not ask for the timers, and nothing is gained by stopped
\* ones.
StopTimers(o) ==
  /\ op[o].at = "checking"
  /\ op' = [op EXCEPT ![o].at = "backup", ![o].flag = Regresses(op[o].rel)]
  /\ timers' = FALSE
  /\ UNCHANGED <<host, current, previous, units, schemaVars, deployLock, torn>>

\* An exception, such as a timeout of systemctl, or a kill while they are being
\* stopped: nobody restores anything.
StopCutShort(o) ==
  /\ op[o].at = "checking"
  /\ timers' \in {timers, FALSE}
  /\ Leave(o)
  /\ torn' = (torn \/ timers' # timers)
  /\ UNCHANGED <<host, current, previous, units, schemaVars>>

-----------------------------------------------------------------------------
(* The try block: what the candidate is asked to do, and the switch.       *)

\* Slip for NothingLeftToCollections: neither command migrates.
Open_ReadOnly(o) ==
  /\ \/ op[o].at = "backup" /\ Goto(o, "saving")
     \/ op[o].at = "migrate" /\ Goto(o, "migrating")
  /\ Runnable(op[o].rel)
  /\ UNCHANGED <<host, deployed, schemaVars, deployLock, torn>>

\* "backup" and "migrate" both begin with the migrations the archive lacks.
Open(o) ==
  /\ \/ op[o].at = "backup" /\ Goto(o, "saving")
     \/ op[o].at = "migrate" /\ Goto(o, "migrating")
  /\ Runnable(op[o].rel)
  /\ OpenArchive(o, Knows[op[o].rel])
  /\ UNCHANGED <<host, deployed, deployLock, torn>>

\* Slip for SwitchesSoundArchive: any exit of the backup will do.
Saved_Whatever(o) ==
  /\ op[o].at = "saving" /\ pending[o] = {}
  /\ Goto(o, "migrate")
  /\ UNCHANGED <<host, deployed, schemaVars, deployLock, torn>>

\* The snapshot is made and verified, which a dangling reference prevents.
Saved(o) ==
  /\ op[o].at = "saving" /\ pending[o] = {} /\ ~dangling
  /\ Goto(o, "migrate")
  /\ UNCHANGED <<host, deployed, schemaVars, deployLock, torn>>

Migrated(o) ==
  /\ op[o].at = "migrating" /\ pending[o] = {}
  /\ Goto(o, "linking")
  /\ UNCHANGED <<host, deployed, schemaVars, deployLock, torn>>

LinkPrevious(o) ==
  /\ op[o].at = "linking"
  /\ previous' = IF op[o].prev = op[o].rel THEN previous ELSE op[o].prev
  /\ Goto(o, "switching")
  /\ UNCHANGED <<host, current, units, timers, schemaVars, deployLock, torn>>

Switch(o) ==
  /\ op[o].at = "switching"
  /\ current' = op[o].rel
  /\ Goto(o, "wiring")
  /\ UNCHANGED <<host, previous, units, timers, schemaVars, deployLock, torn>>

\* The drop-ins, daemon-reload, and the timers enabled and started.
Wire(o) ==
  /\ op[o].at = "wiring"
  /\ units' = op[o].rel /\ timers' = TRUE
  /\ Goto(o, "smoke")
  /\ UNCHANGED <<host, current, previous, schemaVars, deployLock, torn>>

Finish(o) ==
  /\ op[o].at = "smoke" /\ Runnable(op[o].rel) /\ WellSaid
  /\ Leave(o)
  /\ torn' = FALSE
  /\ UNCHANGED <<host, deployed, schemaVars>>

\* Any exception: a command of the candidate that fails or cannot start, a unit
\* that does not show the release, a health command that does not answer well.
Fail(o) ==
  /\ op[o].at \in Trying
  /\ Goto(o, "restoring")
  /\ Close(o)
  /\ UNCHANGED <<host, deployed, applied, dangling, deployLock, torn>>

RestoreCurrent(o) ==
  /\ op[o].at = "restoring"
  /\ current' = op[o].prev
  /\ Goto(o, "rewiring")
  /\ UNCHANGED <<host, previous, units, timers, schemaVars, deployLock, torn>>

\* Slip for RestsWhole: the timers are left as they are.
RestoreUnits_Only(o) ==
  /\ op[o].at = "rewiring"
  /\ units' = op[o].prev
  /\ Leave(o)
  /\ torn' = FALSE
  /\ UNCHANGED <<host, current, previous, timers, schemaVars>>

\* The drop-ins again, which systemd is to reload, and the timers that were enabled
\* before, as they all are since the installation, whoever stopped them.  Neither
\* systemctl has to succeed.
RestoreUnits(o) ==
  /\ op[o].at = "rewiring"
  /\ \E reloaded, started \in BOOLEAN :
       /\ units' = IF reloaded THEN op[o].prev ELSE units
       /\ timers' = (started \/ timers)
       /\ torn' = ~(reloaded /\ started)
  /\ Leave(o)
  /\ UNCHANGED <<host, current, previous, schemaVars>>

\* An exception in the except block ends the restoration where it is.
RestorationRaises(o) ==
  /\ op[o].at \in Restoring
  /\ Leave(o)
  /\ torn' = TRUE
  /\ UNCHANGED <<host, deployed, schemaVars>>

\* Killed: the deploy lock is dropped, and nothing is restored.
Kill(o) ==
  /\ op[o].at # "idle"
  /\ Leave(o)
  /\ Close(o)
  /\ torn' = (torn \/ op[o].at \in Trying \cup Restoring)
  /\ UNCHANGED <<host, deployed, applied, dangling>>

-----------------------------------------------------------------------------
(* The units: a collection of the release they name, by a timer or by hand. *)

NoSwitchTouches == UNCHANGED <<store, deployed, deployLock, op, config, torn>>

Activating == \E o \in Operators : op[o].at \notin {"idle", "locking", "draining"}

Start ==
  /\ coll.at = "idle" /\ Runnable(units)
  /\ coll' = [at |-> "opening", rel |-> units, late |-> Activating]
  /\ UNCHANGED <<schemaVars, evidence>>
  /\ NoSwitchTouches

\* The program exits before it records anything; the failure handler does.
StartFails ==
  /\ coll.at = "idle" /\ ~Runnable(units)
  /\ evidence' = ActivationFailed(evidence)
  /\ UNCHANGED <<coll, schemaVars>>
  /\ NoSwitchTouches

\* Under the collector lock the archive is opened and migrated ...
OpenUnits ==
  /\ coll.at = "opening"
  /\ OpenArchive(Collector, Knows[coll.rel])
  /\ coll' = [coll EXCEPT !.at = "starting"]
  /\ UNCHANGED evidence
  /\ NoSwitchTouches

\* ... and the run gets its row.
OpenRun ==
  /\ coll.at = "starting" /\ pending[Collector] = {}
  /\ coll' = [coll EXCEPT !.at = "collecting"]
  /\ evidence' = RunOpened(evidence)
  /\ UNCHANGED schemaVars
  /\ NoSwitchTouches

\* A failed run is a failed unit, which the handler records too.
EndRun ==
  /\ coll.at = "collecting"
  /\ coll' = CollRest
  /\ \E outcome \in {"success", "partial", "failed"}, qualified \in BOOLEAN :
       /\ outcome = "success" => qualified
       /\ LET closed == RunClosed(evidence, outcome, qualified)
          IN evidence' = IF outcome = "failed" THEN ActivationFailed(closed) ELSE closed
  /\ UNCHANGED schemaVars
  /\ NoSwitchTouches

\* Killed, with the unit failing or with the host; the row stays open.
KillUnits ==
  /\ coll.at # "idle"
  /\ coll' = CollRest
  /\ evidence' \in {evidence, ActivationFailed(evidence)}
  /\ Close(Collector)
  /\ UNCHANGED <<applied, dangling>>
  /\ NoSwitchTouches

\* One of the migrations that a collection or a candidate found pending.
Upgrade(p) ==
  /\ \/ Migrate(p) /\ UNCHANGED <<op, coll, evidence>>
     \/ /\ MigrateDangling(p) \/ MigrationFails(p)
        /\ op' = [o \in Operators |-> IF o = p THEN [op[o] EXCEPT !.at = "restoring"] ELSE op[o]]
        /\ IF p = Collector THEN coll' = CollRest /\ evidence' = ActivationFailed(evidence)
           ELSE UNCHANGED <<coll, evidence>>
  /\ UNCHANGED <<store, deployed, config, deployLock, torn>>

EditConfig ==
  /\ config' \in Configs \ {config}
  /\ UNCHANGED <<store, coll, evidence, deployed, schemaVars, deployLock, op, torn>>

\* Assumed: a collection ends on the day it began (its unit is given three hours).
Midnight ==
  /\ coll.at = "idle"
  /\ evidence' = NextDay(evidence)
  /\ UNCHANGED <<coll, schemaVars>>
  /\ NoSwitchTouches

BuildStep(r) == StartBuild(r) \/ Seal(r) \/ BuildFails(r) \/ BuildKilled(r)

Activate(o) ==
  \/ Ask(o) \/ Lock(o) \/ LockTimesOut(o) \/ Drained(o) \/ DrainTimesOut(o)
  \/ RefuseRegression(o) \/ StopTimers(o) \/ StopCutShort(o) \/ Open(o) \/ Saved(o)
  \/ Migrated(o) \/ LinkPrevious(o) \/ Switch(o) \/ Wire(o) \/ Finish(o)
  \/ Fail(o) \/ RestoreCurrent(o) \/ RestoreUnits(o)
  \/ RestorationRaises(o) \/ Kill(o)

Collect == Start \/ StartFails \/ OpenUnits \/ OpenRun \/ EndRun \/ KillUnits

Next ==
  \/ \E r \in Releases : BuildStep(r)
  \/ Prune
  \/ \E o \in Operators : Activate(o)
  \/ Collect
  \/ \E p \in Openers : Upgrade(p)
  \/ EditConfig
  \/ Midnight

Spec == Init /\ [][Next]_vars

-----------------------------------------------------------------------------
(* Properties.                                                             *)

TypeOK ==
  /\ tree \in [Releases -> {"absent", "rubble", "sealed"}]
  /\ newer \in [Releases -> SUBSET Releases] /\ building \in Releases \cup {Nobody}
  /\ current \in Releases /\ previous \in Releases \cup {Nobody}
  /\ units \in Releases /\ timers \in BOOLEAN
  /\ deployLock \in Operators \cup {Nobody}
  /\ op \in [Operators -> Op] /\ coll \in Coll
  /\ config \in Configs /\ evidence \in Evidence /\ torn \in BOOLEAN
  /\ SchemaTypeOK

\* With no activation under way, whatever failed in the try blocks of the ones before,
\* at whatever step and however they overlapped, the timers run, the units start the
\* release that current points to, and it is sealed, as is the one to roll back to
\* ("Any failure restores the previous release").  What leaves it otherwise is an
\* activation that was killed, or failed while it stopped the timers, or whose
\* restoration failed; the next one that gets to its end, good or bad, repairs that.
RestsWhole ==
  deployLock = Nobody /\ ~torn =>
    /\ timers /\ units = current
    /\ tree[current] = "sealed"
    /\ previous # Nobody => tree[previous] = "sealed"

\* No activation that was not told to (--allow-schema-regression) puts code in
\* service that is older than the archive: "old code against a migrated archive
\* cannot read its own evidence" (OPERATIONS.md).  The versions are compared once,
\* long before the switch.
NeverBehindArchive ==
  \A o \in Operators :
    op[o].at \in {"wiring", "smoke"} /\ ~op[o].flag => Knows[op[o].rel] >= Version

\* A collection finds nothing to migrate, whichever activations failed or were
\* killed before it: "migrate with the candidate, repoint current" (OPERATIONS.md).
NothingLeftToCollections == pending[Collector] = {}

\* A harvest that had begun when the collector lock was asked for is over before
\* current is repointed ("Never switch the runtime out from under a harvest in
\* progress").  One that begins later, by a timer not yet stopped or by hand, is
\* not waited for: late tells them apart.
SwitchesBetweenHarvests ==
  [][current' # current /\ CollectionInFlight => coll.late]_vars

\* New code is never put in service over an archive with dangling references: a
\* migration that leaves them is reported once, and never again by the migrations
\* themselves, but the snapshot of the next activation does not verify.
SwitchesSoundArchive ==
  [][\A o \in Operators : op[o].at = "switching" /\ op'[o].at = "wiring" => ~dangling]_vars

\* A candidate that loads the deployed config and emits the status contract proves
\* itself ("What a candidate must prove", OPERATIONS.md), when it is built and when
\* it has been switched to.  It does not: the exit code must be 0 or 2 as well, and
\* that depends on what the releases before it left in the archive.
RunnableIsAccepted ==
  /\ building # Nobody /\ config \in Reads[building] => WellSaid
  /\ \A o \in Operators : op[o].at = "smoke" /\ Runnable(op[o].rel) => WellSaid
=============================================================================
