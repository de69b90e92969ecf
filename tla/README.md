# A verification development for RowanJobs

RowanJobs collects the job advertisements of one source, day after day, into an
SQLite archive, and makes claims about them: that an advertisement was listed,
that it was absent, that it returned, that its content was edited. The claims
are what the program is for, and most of its code is about not making false
ones. This directory models that code in TLA+, checks the models with TLC on
small instances, and proves the properties that matter most with TLAPS for
every instance.

All paths below are relative to the repository; `collect/`, `net/`, `ops/` and
`db/` are under `src/rowanjobs/`.

## 1. The system

A collection is one process (`rowanjobs collect`, from a daily timer, a retry
window or an operator). It takes the collector lock, closes the rows of dead
runs, opens a row, walks the listing, queues and retrieves advertisements,
walks the listing again, derives presence and content events, closes its row,
and has a report mailed. An hourly timer mails what is still owed. A collection
that added evidence also backs the archive up. The code itself is changed by a
release tool that works beside all of these. Everything that survives a process
is in the archive; every write is a short transaction, and a process may die
between any two.

| Component | State | Operations | Module |
|---|---|---|---|
| Listing traversal, `collect/scanner.py`, `qualify.py` | page, ids and facts of the walk | fetch a page, stop, assess | `Traversal` |
| Presence derivation, `collect/runner.py`, `events.py` | `postings`, `presence_events`, `coverage_gaps`; the scans of a run | discover, verify, reconcile, conclude, one event per transaction | `Presence` |
| Run control, `collect/lock.py`, `repo.py`, `cli.py` | `collection_runs`, the flock | lock, abandon stale runs, start, finish, retry windows | `RunControl` |
| Detail harvest, `collect/runner.py`, `repo.py` | `work_queue`, the counts of a run | queue, reclaim, claim, settle, requeue, outcome | `Harvest` |
| Source client, `net/client.py`, `budget.py` | request budget, pacing, challenge count | acquire, retry, redirect, solve | `Fetch` |
| Recheck policy, `collect/runner.py` | `recheck_policy` | choose unlisted advertisements, promote and demote | `Recheck` |
| Reporting, `ops/notify.py`, `mail.py`, `cli.py` | `notifications` | seed, queue, deliver, sweep, revive | `Notify` |
| Content history, `collect/details.py`, `events.py`, `reprocess.py` | observations, versions, `content_changed` | observe, derive, relink, install | `Content` |
| Backups, `ops/backup.py` | snapshots on disk and their rows | create, rotate, restore check | `Backup` |
| Migrations, `db/migrations`, `db/connection.py` | `schema_migrations` | list what is pending, apply in order | `Migrations` |
| Releases, `ops/release.py` in the root, `onfailure.py` | release directories, links, units and timers, deploy lock | build, activate, roll back, prune | `Deployment` |
| Health, status, reports, `ops/health.py`, `failures.py`, `cpstatus.py` | journal of failed activations | judge the archive | `Health` (the exit code) |
| Artifact store, `archive/store.py` | content-addressed artifacts | put, verify | not modelled |
| HTML extraction, `extract/` | none | parse one page | input of `Traversal`, `Content` |
| Configuration, paths, credentials | none at run time | load and check | CONSTANTS |

How they interact: `runner.py` calls the traversal three times and hands its
results to the presence derivation; the ids found fill the queue, together with
what the recheck policy chooses; the harvest retrieves through the source
client, which the traversal uses too; what is retrieved becomes observations,
which move the recheck policy and make content events at the end of the run.
The processes meet in the archive (rows), at the lock file, in the backups
directory, and at the mail provider. The release tool asks the candidate's own
`backup`, `migrate` and `health` commands to do the work, waits for the
collector lock, and stops and starts the timers.

What is hard here, and what makes it correct:

- *The source changes while it is read.* Rows move between pages, traversals
  disagree, templates lose their job number. An advertisement that stayed
  listed must never be called absent, and content that was not edited must
  never be called edited.
- *Processes die anywhere.* What they committed stays and the next run builds
  on it: rows must be closed once and by the right process, returns and edits
  counted once, nothing called a success that was not.
- *Processes meet.* The lock keeps collections apart, but retry windows decide
  without it, reporting never takes it, and backups are made and rotated by
  several processes with no lock among them. What can be restored must stay
  restorable.
- *The code changes under its own archive.* An activation has a dozen steps,
  each of which can fail or be the last; operators overlap, timers and people
  start collections meanwhile, a migration is judged after it is committed. The
  host must come to rest with links, units and timers that agree, and old code
  must not meet a new archive.
- *The source resists.* Failures, challenges, redirects and requests for
  patience, in any mix, must end, and stay within what was promised.
- *Bounds.* A bounded pass must spend itself on what matters most, and what it
  leaves must be reached some day.

`PROJECT.json` lists each such hazard with the line where it bites, the
properties aimed at it, and what they do not cover.

## 2. The modules

Each module has its state as VARIABLES, one action per operation, handler or
transaction, and its properties at the end. Operators named `X_Something`,
marked "Slip", are variants of `X` with a plausible mistake; nothing in a
specification uses them. They are there to show that the property they name
notices.

**Presence** (with `PresencePromise`, `PresenceProofs`). One run: up to three
traversals, `Conclude` (which traversal is final, are they reconciled), then
the loop of `derive_for_run`, one transaction per action. A traversal is one step
with the result that `TraversalResult` allows, which is what a `Traversal` is
shown to report. Of the listing itself only this is kept: `always` and `ever`,
what was listed throughout, and at some moment of, the run's traversals, and
`slipped`, what a qualified traversal failed to show although it stayed listed.
`PresencePromise` says what the events promise to a reader who knows nothing of
traversals: a claim is about the check that made it, and true of it; nothing is
listed and absent at once; new is claimed once, before anything else; a return
follows an absence. `KeepsPromise` is the refinement, with `on <- ever` and
`off <- NotOnShow`: off the listing at some moment, or slipped past a qualified
traversal.

**Traversal** (with `TraversalProofs`). The page walk over a listing that is
inserted into, deleted from and reordered between pages; every way a page can
come back and every reason to stop; the facts and the checks of `assess`. The
more link of a page that rows follow may lack its address, which ends the walk, or
its count, without which there is no total to compare (`MoreLinks`). `inserted`,
`removed` and `cut` remember what can mislead a reader, and what can mask that.

**RunControl** (with `RunLedger`, `RunControlProofs`). Processes that collect
and processes that retry; the lock; the rows. `abandon_stale_runs` is two steps,
as in the code: it reads, and later writes by `run_id`. A killed process loses
the lock and leaves its row. `Launch` is the timer's daily run, or an operator's of
any kind, a retry or a verification included, with the parent and attempt number
that the operator gives; `windowed` remembers which rows the retry windows opened.
`RunLedger` says what the rows tell somebody who
reads them and knows nothing of locks and processes: runs are numbered as they
begin, one is open at a time, what is open when the next one begins is given up,
and an ending is final. `KeepsLedger` is the refinement, with `state <- Told`,
the states of the rows.

**Harvest** (with `RunLedger`, `HarvestProofs`). The queue in the archive, of
each run and posting; the drain loop with claims by priority, requeueing up to
`max_attempts`, exceptions before or after the observation; late arrivals,
outside the queue; `_outcome`; failures and crashes at any point. It implements
`RunLedger` as well, with `state <- outcome`: what `RunControl` says of the rows
when processes overlap, and what `Harvest` takes for granted of them when it
lets one run work at a time, is the same story.

**Fetch** (proofs in `TraversalProofs`). One call after the other of
`SourceClient.fetch`, and the `prime` that precedes the first: attempts,
redirects, challenges, the browser, and the `RequestBudget` they share. Time
passes only where the code sleeps, so requests are as close as the code lets
them be. The pacing interval is any of `MinIntervals`, which may be longer than the
`max_interval` that nothing sets; a Retry-After header counts if it is a number of
seconds. The URL policy and the source are choices. Its names are its own
(`FetchInit`, `FetchNext`, `phase`), and so are those of `Recheck`, so that a
module of proofs can extend each of them beside another component.

**Recheck** (proofs in `HarvestProofs`). A run is one step: `_queue_historical`
chooses by the order of `last_checked_at_utc`, and `_update_recheck_policy`
moves what was observed.

**Notify** (with `NotifyProofs`). Collections, the hourly timer and operators,
each reading a row, talking to the provider and writing what it computed from
its own read, in any interleaving; answers that get lost; unique-key conflicts;
deaths.

**Content** (with `ContentProofs`). One advertisement: the employer edits it,
runs observe it, a release with another lineage is installed, relinking moves
observations, runs die with or without their events.

**Backup** (with `RecoveryPoint`, `BackupProofs`). `BackupManager.create` and
`prune` step by step, by any number of processes: copy, verify, rename, record,
read the rows once, then a file and its row at a time; the restore checks of a
collection and of `verify --restore`, which hold nothing while they read. A
snapshot is named by the order in which it was begun; its week and month are
constants. `RecoveryPoint` says what a backup is for: a moment that can be
restored stays restorable. `KeepsRecoveryPoint` is the refinement, with
`covered <- Covered`, the moments at or before a snapshot that is recorded as
verified and is there.

**Migrations** (proofs in `DeploymentProofs`). `open_db` and `apply_migrations`
by several processes: the list is made once, every entry has a transaction of
its own, a rebuild of a table is checked for dangling references after its
commit. `SchemaSpec` is the module on its own, where any process opens the
archive at any time with the code of any release, a specification that
`Deployment` is proved to implement.

**Health**. Operators, without state: what the exit code of `rowanjobs health`
depends on, over a summary of the evidence (the newest run, the failed
activations and whether a run answered them, the days since a qualified scan).

**Deployment** (with `DeploymentProofs`) extends `Health` and `Migrations` and
composes them with the release tool. `tree` are the release directories, `newer`
the order in which they were made, `current` and
`previous` the links, `units` what systemd starts, `timers` whether it does.
An operator's activation, `op`, goes through the steps of `activate` (backup
and migrate by the candidate, two links, units, smoke test, and the
restoration), any of which may fail and at any of which it may be killed. A failure
in the try block is followed by the restoration. One while the timers are being
stopped is not (`StopCutShort`), and the restoration can itself end with an exception
(`RestorationRaises`) or lose a `systemctl` call that it does not check
(`RestoreUnits`).
Beside it run builds and prunes, one collection of the units (`coll`), edits of
the config, and midnights. A rollback is an activation of what `previous` names.
`torn` remembers that an activation was killed, or failed outside its try block or in
its restoration, and that none has got to its end since.

The modules `MCPresence`, `MCRecheck`, `MCContent`, `MCBackup` and
`MCDeployment` give symmetry sets, an order, a calendar and the capabilities of
releases for TLC.

## 3. The runs

| Run | What it asks | Bounds, and why they are enough |
|---|---|---|
| `presence` | Are presence claims true, complete, counted once, and do they implement the promise? | Two advertisements (one can be disputed while the other is not) and three runs: list, absence and return need three. |
| `traversal` | Does a qualified traversal miss anything; does a traversal end? | Three jobs on pages of one row, every order; two edits, so that they can mask each other, and more links without count or address; four pages, one more than the listing has. |
| `run_control` | Whose rows are closed by whom; do the windows' retries keep to slot and budget; do the rows implement `RunLedger`? | A collector and a retrier, kills anywhere; two days, so that a slot is left behind; four rows, one more than the budget of two retries and the daily run, and one of them by an operator, of any kind, with a parent or without. |
| `harvest` | Order of work, no work left behind or taken up again, honest success, rows that implement `RunLedger`, termination. | Two runs, of which the first ends in every way there is, from an empty archive; two advertisements, since order is a matter of two; one recheck; a bound that bites and one that does not. |
| `fetch` | Spacing, Retry-After, whether every request uses something up, termination. | One retry, one redirect, challenges up to two; five requests, which three fetches can exhaust; a configured interval below and one above `MaxInterval`; patience shorter and longer than these. |
| `recheck` | Is the weekly tier earned; does everything unlisted stay watched? | Two advertisements that compete for one recheck per run; two terminal observations; a week of two days. |
| `notify` | Do rows claim what happened, and are owed reports settled? | One run, three processes at once, two launches by hand, one death, two attempts: enough for two deliveries of one row to cross. |
| `content` | Is every change told an edit, and told once? | Two contents, so that A, B, A happens; two lineages; three runs; four observations. |
| `backup` | Is what a restore is handed there; does a rotation give up a moment; what does a failed restore check mean? | Two processes, five snapshots over three weeks and two months; one daily, two weekly, one monthly kept, so that the buckets differ and something is dropped from the third snapshot on; verification on and off. |
| `deployment` | Does the host come to rest whole, and do code and archive go together; is a version ever missing below another? | Two operators who overlap; two releases, of which the second brings two migrations, one of them the rebuild of a table, and reads a config the first does not; one release kept by a prune; no bound on steps, days or collections. |
| `edit_unreported` | A claim of the documents, see section 6. | Three observations. |
| `candidate_refused` | A claim of the documents, see section 6. | As `deployment`. |

Unbounded counters are cut off in guards, each by a constant marked "bound":
`MaxRuns`, `MaxByHand`, `MaxChanges`, `MaxDays`, `MaxFetches`, `MaxLaunches`, `MaxCrashes`,
`MaxObservations`, `MaxSnapshots`. `Deployment` needs none, and is checked for
deadlock. `CHECK_DEADLOCK FALSE` is set wherever these bounds let a
behaviour end. Symmetry is only used where no liveness is checked.

**Fairness.** `Harvest`, `Fetch`, `Traversal`: a process that runs goes on
(weak fairness of its next step as a whole, never of one branch: the source may
fail for ever). In `Fetch` every request has a timeout in the code, and a
refusal by the URL policy is left out of the fair actions, since it would end
any fetch. `Notify`: the timer comes round (`OnCalendar=hourly`) and what was
started goes on; deaths are bounded, but not forbidden. `Recheck`: days pass,
and the daily run goes well again and again; without that nothing would be
looked at. `Presence`, `RunControl`, `Content`, `Backup` and
`Deployment` have no liveness property and assume no fairness.

**Assumptions about what is outside the models.**

- *Traversal*: none is needed for what `Presence` takes of a traversal, which is
  proved (`ResultAllowed`). What the code does not promise is said in the
  properties: a row can slip past a qualified traversal when rows are taken out or
  moved between two pages, or a page names no next one (`Misled`), and the announced
  count does not tell, because there is none or an insertion made up for the loss
  (`Masked`). `Presence` has such traversals too, and an absence that rests on
  nothing else is the exception that `AbsenceIsTrue` names (`SlippedPastAll`). Any
  one of the run's qualified traversals that shows the row prevents it.
- *Presence*: `ChallengeWall` never leaves a fetch (`_handle_challenge`
  catches it), so a traversal always has a result.
- *RunControl*: midnight does not fall in the seconds between a retry's
  decision and its row, and there is one retrying process, as systemd runs one
  instance of a unit (`OneWindow`). `RetryBelongsToSlot` and `RetryWithinBudget` need
  these, and speak of the retries of the windows: see section 6 for those that
  operators launch.
- *Notify*: reporting is configured; no sweep meets its limit of twenty rows.
  Delivery is at least once.
- *Content*: observations are more than a second apart, as pacing has them; no
  release is installed while a run is in progress; versions without a parser
  version, from before lineages existed, are left out.
- *Backup*: no two snapshots of one kind are begun in the same second, which is
  what their names can tell apart.
- *Deployment*: the host was installed with an archive at the version of the
  installed release, and its timers were enabled. One builder works at a time;
  nobody prunes while a release is built or activated, activates a commit that
  is still being built, or forces a rebuild of the one in service. The probe of
  the schema version answers (otherwise the code skips the comparison). What a
  killed release tool had started dies with it. The drop-ins of the units are
  written as one step. A collection ends on the day it began. A stop of the timers that
  systemctl refuses changes nothing here, since collections start in the model whether
  or not the timers run. Backups and their
  verification are enabled, without which no activation succeeds.

## 4. The proofs

TLAPS proves the following for any value of the constants: every safety
property and every refinement that a passing run checks. The only assumptions
are the named ASSUMEs of the modules. Most say that bounds are numbers and that
sets of processes are disjoint. The others: the order of `Recheck` is one of its
advertisements; `Unbounded` is larger than the number of attempts a run of
`Harvest` can make; the calendar of `Backup` gives every snapshot a week and a
month; `OneWindow`, one retry window at a time, in `RunControl`, where parents are
numbers of rows; in `Deployment`, the host has a release to begin with, and each release knows some
migrations and reads some configs.

- **PresenceProofs**. `AbsenceTrue`: an absence is true because the
  authoritative traversal is qualified, and what stayed listed while the run read
  is in every qualified traversal or has slipped past that one (`NothingMissed`):
  the invariant carries that from traversal to derivation, and from the
  authoritative traversal to all of them, since no absence is derived for what any
  of them saw; together with the fact that nothing is
  derived without a qualified traversal (`DerivesFromFinal`). A second
  invariant, `RowsInv`, sets the rows of the latest run beside those of the runs
  before: what is left to derive has no final row yet, only the one that was
  greeted has any (`Pending`), and nothing is written about an advertisement
  before its discovery (`SinceDiscovery`). From it follow `AllExplained`,
  `ReturnsOnce`, and `PromiseKept`, the refinement of `PresencePromise`: a
  transaction that writes an event makes the claim of the same name, and the
  claim is true of what the traversals saw (`SawListed`, `NothingMissed`); every
  other step is a stutter or begins a check.
- **TraversalProofs**. `ContractKept`: there are two reasons why nothing that
  stayed listed is missed. While nothing is inserted and there is a count, what is
  listed and what was seen both lie in the set of the rows first announced, which
  is as large as the announcement (`Announced`), so that a reader who saw that
  many saw them all. While nothing is taken out, with or without a count, rows move
  only away from the pages already read (`Ahead`), so that what is not seen is
  still to come, and nothing is left after the last page (`AllRead`), if every page
  that rows followed named the next. `ResultAllowed` composes: the result of a
  traversal, masked or not, is one that the single step of `Presence` allows (the
  instance `Check`). `Spaced`, `Patient` and `StepsCount`
  are about `Fetch`. The next turn always is at least `Floor` after the latest request
  and not before the source agreed to be called (`Paced`), whoever sends; `Floor`
  only ever falls to `MaxInterval`, on a challenge. No
  step of a fetch is for nothing (`EveryStepCounts`): it ends the fetch, begins
  one of a fixed number of attempts, follows one of a fixed number of redirects,
  or gets that one further. For this, attempts must stay within their limit
  where a challenge is answered by another try (`Within`). It is the measure
  behind `EveryFetchEnds`, which itself stays with TLC.
- **RunControlProofs**. `OneOpenRun`, `AbortedAreDead`, `ClosedStayClosed`: what
  a process read as open before it writes is still exactly what is open
  (`StaleKnown`), because only the holder of the lock writes rows (`LockOwned`);
  when it opens its own row nothing else is open, and while it collects its row
  is the only one (`RowOwned`). `RetriesBounded`, `RetriesBelong`: a window
  decides without the lock, but no other window writes retries of its slot, and an
  operator's only add to them, so what it counted is still at least the count of the
  windows' when it writes (`Underway`); the windows' retries of a
  slot are numbered below the count of all (`Numbered`), so that the next number is
  free among them. `LedgerKept`, the refinement of `RunLedger`: a row that is above the
  latest id, and no other, is unwritten (`Unwritten`), so that a row is opened in
  order; nothing else is open then, because the same process gave up all that was
  (`StaleKnown`), under the lock.
- **HarvestProofs**. `OrderOfWork`, `NoWorkLeft`, `SuccessHonest`: what is in
  progress is exactly what is in hand, and what is pending may be attempted
  again (`InHand`), so attempts stay within the limit. Everything discovered is
  in the queue, done only if answered, and failed only if counted (`Accounted`),
  so a success, which requires that nothing is outstanding and nothing counted
  as failed, has an answer for all of it. The order of work holds because an
  item is first attempted only when no pending one is more urgent, and nothing
  pending is added once the drain began. `NothingUndone`
  (`WorkStaysDone`) speaks of all runs together: a run writes to its own row and
  queue and closes only those of dead runs, which have begun (`Begun`), and what
  it touches in its own is in hand or pending, by the invariant before. From the
  same follows `LedgerKept`, the refinement of `RunLedger`. `Demoted` is about
  `Recheck`: the streak in the archive never runs ahead of the evidence
  (`Evidenced`).
- **ContentProofs**. `EditsOnly`, `EditsOnce`: a run compares what it read with
  the lineage it reads (`ReadByThisRelease`), so a version that differs differs
  in content; between the two ends of a change there was nothing of its lineage
  (`NothingBetween`), so that two changes do not overlap.
- **NotifyProofs**. `SettledRightly`, `OwedCanBeTried`: a delivery only goes on
  if the row it read had an attempt left (`RoomForOne`), and records what the
  provider did (`Answered`). It writes what it computed from its own read, which
  may be old: each such row is good on its own, whatever it overwrites, which is
  why deliveries may cross, count one attempt twice, and still claim nothing
  that did not happen.
- **BackupProofs**. `LatestStands`, `FailedChecksHarmless`, and `RecoveryKept`,
  the refinement of `RecoveryPoint`: a verified row whose file is gone, or that
  some process is about to drop, has a newer verified row behind it (`Backed`,
  `ToDrop`): a rotation works from rows it read earlier, but rows that were
  added since only make more of them newer, and a row that another process
  dropped had a newer one itself. A process between its first step and its row
  is alone at its snapshot (`InHand`, `Unbegun`), so that a file it makes final
  or removes is nobody else's. From this, what is covered is covered by a row
  whose file is there (`CoveredOnRecord`), and the rows only gain: every step
  keeps `Covered` or extends it to one more snapshot and all before it, which is
  a step of `RecoveryPoint`.
- **DeploymentProofs**. One operator is inside the critical section at a time
  (`LockHeld`), so that `RestsAlways` needs only how far that one has come
  (`Phases`), and that before its try block and after it, unless it left the host
  torn, links, units and timers agree (`InOrder`). What any operator may link, the one waiting for the lock
  included, is sealed, and what is being built is not (`AllSealed`): neither
  builds nor prunes reach it. `NothingLeft`: no code that the units may start,
  be it by a restoration, needs a migration that was not applied (`AllServed`),
  because a candidate is linked only after its own pending list was worked off
  (`Opened`). `NeverBehind`: the versions are compared in the critical section, and until
  its end nobody but the candidate has anything to apply (`NotBehind`).
  `SwitchSound`: the backup of the activation does not verify over dangling
  references, and a rebuild that leaves some after it ends the activation
  (`Sound`). `SwitchBetween`: what runs beside
  an activation began beside it (`BeganBeside`). `NoGaps`: the versions
  applied are all those up to the highest. This is proved of `SchemaSpec`, in
  which any process opens the archive at any time: a list, however old, together
  with what has been applied, lacks nothing up to some version
  (`ListsComplete`), as others only ever apply more; so what comes first on it
  has everything below it applied, and nothing is applied without what is below
  it (`Downward`). `Deployment` implements `SchemaSpec` (`MigratesBySchema`). The run over
  `Deployment` has only one process at a time with a list to work off, since a
  candidate leaves the units nothing to migrate; that the property holds of many at
  once is what the theorem adds.

Each of these modules but `TraversalProofs` also proves the type invariant of its
component (`TypeCorrect`); the invariants in `TraversalProofs` have their own. The
runs check type invariants of `Presence` and `RunControl` only, and leave the
others to the proofs. `TraversalProofs` extends `Fetch`, and `HarvestProofs`
extends `Recheck`, beside the component that uses it.

Only model-checked: liveness (`Terminates`, `EveryRunEnds`, `EveryFetchEnds`,
`UnlistedStaysWatched`, `OwedIsSettled`), which is beyond the prover, and the
claims of section 6, which fail.

## 5. What is not modelled

- *The artifact store*: inserts by hash inside the transaction of their caller.
  It has no step of its own, and nothing but the hash relates two payloads.
- *HTML extraction*: pure text handling, which tests with fixtures cover better.
- *Configuration, paths, credentials*: loaded once, constants of the modules.
- *Health, status, reports and export* only read, and are text for people,
  except for the exit code that the release tool acts on.
- *The first installation* (`install.sh`) and the `status` and `verify`
  commands of the release tool, which change nothing or happen once.

Inside the modelled parts: the URL policy and the browser are choices; linked
resources, field conflicts and the details of inconclusive answers are left out
of `Content`; `discovery_basis`, which no claim depends on, and
`repeatedly_unlisted`, computed by readers, are left out of `Presence`; the text
of a report is left out of `Notify`; the copy off the host, whose failure
changes nothing else, and `restore_to`, which reads one file, are left out of
`Backup`; what a migration does to the tables is left out of `Migrations`.

## 6. Where documents and code part

Two claims of the documents are checked as they are written and fail; the runs
of kind "violation" show how.

1. `docs/OBSERVATION_SEMANTICS.md:252`, A, B, A makes two changes: an
   observation of a page that did not show its job number is compared with,
   but never itself compared, and the edit it saw first is not told
   (`EditsAreReported`).
2. `docs/OPERATIONS.md:127`, a candidate must emit the status contract: its
   health command must also exit with 0 or 2 (`ops/release.py:329` and `:726`),
   which depends on what earlier releases left in the archive. After one failed
   activation that no run of its day answered, every build is discarded and
   every activation and rollback undone (`RunnableIsAccepted`). The document
   gives health more weight elsewhere; the list of what a candidate must prove
   does not.

About the truth of an absence:

- The code has one check that notices a row lost between two pages, the count in
  the more link of page 1. If the count is missing or no number
  (`extract/pageup_listing.py:333`), no total is set (`collect/scanner.py:166`), and
  the check passes as not applicable (`collect/qualify.py:177`, as
  `docs/OBSERVATION_SEMANTICS.md:83` has it). One advertisement taken down between
  two pages then hides another, which stayed listed, from a traversal that qualifies;
  if that happens to every qualified traversal of a run, the run calls it absent. The
  same holds of a count that an insertion keeps right. A more link without an address
  ends the walk on any page as a last page does, and without a count on page 1 nothing
  tells. The parser warns of the missing count, which no verdict looks at.

Met while modelling, stated here, and kept out of the properties by an
assumption or by how the property is stated:

- `docs/DATA_DICTIONARY.md:514` says that an interrupted harvest resumes: what a
  dead run left unfinished is marked abandoned, `reclaim_orphans` only looks at
  the run that has just begun, and the next run collects from the listing again.
- `docs/OPERATIONS.md:236` promises a report after every actual collection run,
  an interrupted one included: only the process that collected queues one, after
  its run has ended (`cli.py:222`), and the timer retries what is queued, so that
  a run whose process died has none unless an operator asks (`--catch-up`).
- A retry that starts before midnight and writes its row after it is filed
  under the next slot (`collect/runner.py:195`; `docs/DATA_DICTIONARY.md:101`).
- An operator can launch `collect --kind retry` (`cli.py:161` and `:1331`). It looks at
  no budget, and takes `--parent-run` and `--attempt` as given, none and 1 by default.
  So a slot can have more retries than `max_retries_per_slot`, one of them without a
  parent (`docs/DATA_DICTIONARY.md:101` and `:102`,
  `docs/OBSERVATION_SEMANTICS.md:217`), and it makes the windows of a slot without a
  daily run retry without a parent too. It counts against the budget of the windows.
  Its slot is that of the day it is launched on, whatever parent it names.
- A retry window takes a run that died for one in progress and declines
  (`cli.py:336`).
- Failures among late arrivals do not count against a success
  (`collect/runner.py:334`; `docs/ARCHITECTURE.md:147`).
- With `min_interval_seconds` above 30, which nothing forbids (`config.py:32`), the
  first challenge makes the run faster: the interval becomes `max_interval`, always 30
  (`net/budget.py:68` and `:136`; `docs/CONFIGURATION.md:70` has it widened, capped at
  30 s). `RequestsSpaced` says what holds (`Floor`).
- A `Retry-After` that is a date, as the header may be, is passed over
  (`net/client.py:399`; `docs/SECURITY.md:72`, `docs/DATA_DICTIONARY.md:171`), and the
  next request goes out after the normal interval. `RetryAfterHonoured` is about
  seconds.
- Past the challenge limit only the fetch in progress ends, not the run
  (`net/client.py:322`; the message in `net/budget.py:140`).
- An advertisement listed again but not observed in that run stays weekly
  (`collect/runner.py:735`; `docs/OBSERVATION_SEMANTICS.md:309`), and a run
  that dies after capturing content leaves the streak as it was
  (`docs/DATA_DICTIONARY.md:540`).
- A report can be sent twice (`ops/notify.py:289`; the comment in line 13), and
  one that an operator asks for late is not labelled so (`ops/notify.py:419`;
  `docs/DATA_DICTIONARY.md:601`).
- `first_observed` is written for the baseline too (`collect/events.py:130`;
  `docs/OBSERVATION_SEMANTICS.md:323`).
- A run that dies after it captured edited content never tells the edit, since
  the next run compares with that capture (`collect/events.py:231`).
- Relinking a part of the observations can make one edit be told twice.

About backups:

- The statistics in a manifest are read after the snapshot was taken, and can be
  those of a later moment (`ops/backup.py:112`).
- A process that dies between renaming a snapshot and recording it leaves a file
  without a row, which no rotation removes; one that dies between removing a
  file and marking its row leaves a row without a file, which `Backed` shows is
  never the newest verified one (`ops/backup.py:350`). A restored archive lists
  files that rotation removed after it was snapshot.
- With verification switched off, older unverified snapshots are dropped as
  newer unverified ones arrive: `KeepsRecoveryPoint` speaks of verified ones.
- A collection checks the restoration of a snapshot that failed its own
  verification too, and overwrites the outcome of an earlier check with it.
  The check also refuses an archive without a single description.

About releases:

- The backup before an activation is taken by the candidate, whose first act is
  to migrate the archive (`docs/OPERATIONS.md:142` puts the backup first), so
  that the archive as it was before has no copy of its own.
- A collection can begin between the check of the collector lock and the stop of
  the timers, or by hand, and is then not waited for: `late` in
  `SwitchesBetweenHarvests`.
- An activation that fails after migrating restores code that is older than the
  archive; `NeverBehindArchive` speaks of what is put in service.
- What is to be restored is read before the deploy lock is taken
  (`ops/release.py:645`): of two operators who overlap, the second may record as
  `previous`, or restore, what was current before the first.
- A failed activation leaves `previous` naming the release in service, so that
  the rollback target before it is lost.
- `docs/OPERATIONS.md:146` says that any failure restores the previous release. The
  restoration can fail too: its `daemon-reload` and the start of the timers are not
  checked (`ops/release.py:752` and `:573`), an exception in it, such as one of a link
  or a drop-in that cannot be written, skips the rest (from `:747`), and one while the
  timers are being stopped (`:695`) comes before the try block. In these cases, as
  after a kill, the timers can stay stopped, or the units with the wrong release, until
  another activation ends: `torn` in `RestsWhole`.
- Build and prune take no lock.
- A migration that leaves dangling references is committed before it is found
  out, and raises once; only the verification of the next snapshot notices again
  (`SwitchesSoundArchive`).

About health:

- The open row of a dead run is taken for a run in progress, which hides that
  collection is stale or failed until the next run closes it.
- A collection that steps aside for another (exit 4) is recorded as a failed
  activation, and a failure is filed under the day its handler ran on.

## 7. The plan

Done, in the order in which it was built, the most important behaviour first:
`Presence` and its promise, `Traversal`, `RunControl`, `Harvest`, `Fetch`,
`Recheck`, `Notify`, `Content`, `Backup` and its promise, `Migrations`,
`Health`, `Deployment`, with the proofs of section 4.

The properties that a model got later, as its proofs showed what they rest on:
`RunLedger` and `KeepsLedger`, which tie `RunControl` and `Harvest` together;
`WorkStaysDone`; `EveryStepCounts`; `ArchiveWithoutGaps`.

What is left, should the code around it begin to depend on it: linked resources
and their per-run cache in `Content`; `repeatedly_unlisted`, and what it should
say of an advertisement that was listed between two absences; a `prune` beside a
build or an activation, which no lock keeps apart.
