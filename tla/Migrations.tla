------------------------------ MODULE Migrations -------------------------------
(***************************************************************************)
(* The schema of the archive (db/migrations, db/connection.open_db).       *)
(*                                                                         *)
(* Whoever opens the archive to write, a collection, a backup or the       *)
(* command "rowanjobs migrate", applies the migrations its code knows and  *)
(* the archive lacks.  The list is made once, on opening, and each entry   *)
(* runs in a transaction of its own, so two processes that open the        *)
(* archive together interleave.  A migration that rebuilds a table turns   *)
(* foreign keys off and looks for dangling references when its transaction *)
(* is already committed.                                                   *)
(***************************************************************************)
EXTENDS Integers

CONSTANTS
  Openers,       \* processes that open the archive
  Newest,        \* SCHEMA_VERSION of the newest release there is
  Rebuilds       \* the versions with REQUIRES_FK_OFF

ASSUME MigrationsAssumption == Newest \in Nat /\ Rebuilds \subseteq 1 .. Newest

VARIABLES
  applied,       \* the table schema_migrations
  pending,       \* of each opener: what is left of its list
  dangling       \* some row of the archive refers to one that is not there

schemaVars == <<applied, pending, dangling>>

Versions == 1 .. Newest

\* An archive at version v.
SchemaInit(v) ==
  /\ applied = 1 .. v /\ pending = [p \in Openers |-> {}] /\ dangling = FALSE

\* current_version
Version == IF applied = {} THEN 0 ELSE CHOOSE v \in applied : \A w \in applied : w <= v

\* pending(db), for code whose newest migration is v.
OpenArchive(p, v) ==
  /\ pending' = [pending EXCEPT ![p] = 1 .. v \ applied]
  /\ UNCHANGED <<applied, dangling>>

First(p) == CHOOSE n \in pending[p] : \A m \in pending[p] : n <= m

Close(p) == pending' = [pending EXCEPT ![p] = {}]

\* Slip for ArchiveWithoutGaps: what is pending is applied in any order.
Migrate_AnyOrder(p) ==
  \E n \in pending[p] \ applied :
    /\ applied' = applied \cup {n}
    /\ pending' = [pending EXCEPT ![p] = @ \ {n}]
    /\ UNCHANGED dangling

\* One migration and its row, committed together.
Migrate(p) ==
  /\ pending[p] # {} /\ First(p) \notin applied
  /\ applied' = applied \cup {First(p)}
  /\ pending' = [pending EXCEPT ![p] = @ \ {First(p)}]
  /\ UNCHANGED dangling

\* The rebuild is committed before foreign_key_check finds what it broke.
MigrateDangling(p) ==
  /\ pending[p] # {} /\ First(p) \notin applied /\ First(p) \in Rebuilds
  /\ applied' = applied \cup {First(p)}
  /\ Close(p)
  /\ dangling' = TRUE

\* Rolled back: the migration raises, as it does when another process has
\* applied it since the list was made.
MigrationFails(p) ==
  /\ pending[p] # {}
  /\ Close(p)
  /\ UNCHANGED <<applied, dangling>>

\* On their own: any code may open the archive at any time, in the place of a process
\* that is gone too.  One that is killed leaves what one leaves whose migration fails.
SchemaNext ==
  \E p \in Openers :
    \/ \E v \in Versions : OpenArchive(p, v)
    \/ Migrate(p) \/ MigrateDangling(p) \/ MigrationFails(p)

SchemaSpec == (\E v \in 0 .. Newest : SchemaInit(v)) /\ [][SchemaNext]_schemaVars

-----------------------------------------------------------------------------
(* Properties.                                                             *)

\* The highest version applied says all there is to know of the schema, as the
\* comparison of versions before a switch has it: although processes of different
\* releases migrate at the same time, each by the list it made when it opened the
\* archive, and any may fail or die half way, no version is missing below another.
\* In Deployment at most one process has a list to work off at a time, of a candidate or
\* of the units, and that any number of them may is what the theorem about SchemaSpec adds.
ArchiveWithoutGaps == applied = 1 .. Version

SchemaTypeOK ==
  /\ applied \subseteq Versions
  /\ pending \in [Openers -> SUBSET Versions]
  /\ dangling \in BOOLEAN
=============================================================================
