----------------------------- MODULE Migrations -----------------------------
(***************************************************************************)
(* gate db migrate: processes that run up, down, force and version against *)
(* one database with one migration, the table of audit entries, and that   *)
(* may be interrupted at any step.  golang-migrate holds an advisory lock, *)
(* marks the target version dirty, runs the migration and then marks it    *)
(* clean.                                                                  *)
(***************************************************************************)
EXTENDS Configuration

CONSTANTS
    Files,        \* configuration files
    Migrators,    \* processes that run a migrate command
    NoMigrator,   \* nobody holds the lock
    MaxOps        \* bound on commands and requests together

ASSUME MigrationsConstants == NoMigrator \notin Migrators /\ MaxOps \in Nat

\* The TTLs of a file are numbers.
ASSUME FilesAreTyped ==
    \A f \in Files : LET policy == WithDefaults(f).policy IN
        policy.defaultTTL \in Int /\ policy.maxTTL \in Int

VARIABLES
    file,      \* the configuration file of all processes
    version,   \* schema_migrations: the version, NilVersion for none
    dirty,     \* schema_migrations: a migration is under way, or was cut off
    table,     \* audit_logs exists
    entries,   \* the audit log: the rows of audit_logs or items of its like
    lock,      \* the advisory lock
    forced,    \* the version was set by force and not by a migration since
    command,   \* the processes
    ops        \* commands and requests begun

schemaVars == <<version, dirty, table, forced, lock>>
migrationVars == <<schemaVars, entries, command>>

Config == WithDefaults(file)

NilVersion == -1
Exists(v) == v = 1   \* 01_audit_logs is the only migration

Kinds == {"up", "down", "force", "version"}
Results == {"none", "ok", "failed", "dirty", "locked"}
NoCommand == [pc |-> "idle", kind |-> "up", flag |-> 0, result |-> "none"]

MigrationsTypeOK ==
    /\ file \in Files
    /\ version \in {NilVersion, 0, 1, 2} /\ dirty \in BOOLEAN
    /\ table \in BOOLEAN /\ forced \in BOOLEAN
    /\ lock \in Migrators \cup {NoMigrator}
    /\ command \in [Migrators -> [pc: {"idle", "begun", "run", "clean"}, kind: Kinds,
                                  flag: 0 .. 2, result: Results]]
    /\ ops \in 0 .. MaxOps

Ended(m, result) == command' = [command EXCEPT ![m] = [NoCommand EXCEPT !.result = result]]

\* newDBMigrator
MigratorAvailable == Valid(Config) /\ IsMigrationSupported(Config)

\* The command loads the configuration and opens the database, for which the
\* driver waits for the lock.  Without migrations for the backend, up has
\* nothing to do and the others fail.
BeginMigrate(m, kind, flag) ==
    /\ command[m].pc = "idle"
    /\ ops < MaxOps /\ ops' = ops + 1
    /\ IF MigratorAvailable
       THEN /\ lock = NoMigrator
            /\ command' = [command EXCEPT ![m] = [pc |-> "begun", kind |-> kind,
                                                  flag |-> flag, result |-> "none"]]
       ELSE Ended(m, IF Valid(Config) /\ kind = "up" THEN "ok" ELSE "failed")
    /\ UNCHANGED <<file, schemaVars, entries>>

------------------------------------------------------------------------------
(* golang-migrate *)

\* What Up, Down (flag 0) and Migrate (the --version of either command) find
\* to do.  A forced version without a migration of its own is an error.
Plan(kind, flag) ==
    IF version >= 0 /\ ~Exists(version) THEN "error"
    ELSE IF flag > 0 THEN
        IF ~Exists(flag) THEN "error"
        ELSE IF version = flag THEN "no_change"
        ELSE IF version < flag THEN "apply" ELSE "revert"
    ELSE IF kind = "up" THEN IF version = 1 THEN "no_change" ELSE "apply"
    ELSE IF version = NilVersion THEN "no_change" ELSE "revert"

Target(plan) == IF plan = "apply" THEN 1 ELSE NilVersion

\* The lock is taken and there is something to do: the target is marked dirty.
StartMigration(m) ==
    LET plan == Plan(command[m].kind, command[m].flag) IN
    /\ command[m].pc = "begun" /\ command[m].kind \in {"up", "down"}
    /\ lock = NoMigrator /\ ~dirty
    /\ plan \in {"apply", "revert"}
    /\ lock' = m
    /\ version' = Target(plan) /\ dirty' = TRUE
    /\ command' = [command EXCEPT ![m].pc = "run"]
    /\ UNCHANGED <<file, table, forced, entries, ops>>

\* CREATE TABLE IF NOT EXISTS with its indexes, or DROP TABLE IF EXISTS.
RunMigration(m) ==
    /\ command[m].pc = "run"
    /\ table' = (version = 1)
    /\ entries' = IF version = 1 THEN entries ELSE {}
    /\ command' = [command EXCEPT ![m].pc = "clean"]
    /\ UNCHANGED <<file, version, dirty, forced, lock, ops>>

\* The version is marked clean and the lock is given back.
FinishMigration(m) ==
    /\ command[m].pc = "clean"
    /\ dirty' = FALSE /\ forced' = FALSE /\ lock' = NoMigrator
    /\ Ended(m, "ok")
    /\ UNCHANGED <<file, version, table, entries, ops>>

------------------------------------------------------------------------------
(* The commands *)

EndMigrate_DirtyIsFine(m) ==
    LET plan == Plan(command[m].kind, command[m].flag) IN
    /\ command[m].pc = "begun" /\ command[m].kind \in {"up", "down"}
    /\ lock = NoMigrator
    /\ \/ dirty /\ Ended(m, "ok")
       \/ ~dirty /\ plan = "no_change" /\ Ended(m, "ok")
       \/ ~dirty /\ plan = "error" /\ Ended(m, "failed")
    /\ UNCHANGED <<file, schemaVars, entries, ops>>

\* up and down end without a migration: a dirty version is reported with the
\* advice to force it, no change is success, a missing migration is an error.
EndMigrate(m) ==
    LET plan == Plan(command[m].kind, command[m].flag) IN
    /\ command[m].pc = "begun" /\ command[m].kind \in {"up", "down"}
    /\ lock = NoMigrator
    /\ \/ dirty /\ Ended(m, "dirty")
       \/ ~dirty /\ plan = "no_change" /\ Ended(m, "ok")
       \/ ~dirty /\ plan = "error" /\ Ended(m, "failed")
    /\ UNCHANGED <<file, schemaVars, entries, ops>>

\* The lock is not to be had in time.
Locked(m) ==
    /\ command[m].pc = "begun" /\ command[m].kind # "version"
    /\ lock # NoMigrator
    /\ Ended(m, "locked")
    /\ UNCHANGED <<file, schemaVars, entries, ops>>

\* force sets the version of its flag, an unsigned number, and clears dirty.
MigrateForce(m) ==
    /\ command[m].pc = "begun" /\ command[m].kind = "force"
    /\ lock = NoMigrator
    /\ version' = command[m].flag /\ dirty' = FALSE /\ forced' = TRUE
    /\ Ended(m, "ok")
    /\ UNCHANGED <<file, table, lock, entries, ops>>

\* version prints the version.
PrintVersion(m) ==
    /\ command[m].pc = "begun" /\ command[m].kind = "version"
    /\ Ended(m, "ok")
    /\ UNCHANGED <<file, schemaVars, entries, ops>>

\* The process is killed, or the database refuses or loses it: the lock goes
\* with its session, the version stays as it is.
Interrupt(m) ==
    /\ command[m].pc # "idle"
    /\ lock' = IF lock = m THEN NoMigrator ELSE lock
    /\ Ended(m, "failed")
    /\ UNCHANGED <<file, version, dirty, table, forced, entries, ops>>

\* A database that was never migrated, or one that was.
MigrationsInit ==
    /\ file \in Files
    /\ \/ version = NilVersion /\ table = FALSE
       \/ version = 1 /\ table = TRUE
    /\ dirty = FALSE /\ forced = FALSE /\ lock = NoMigrator
    /\ entries = {}
    /\ command = [m \in Migrators |-> NoCommand]
    /\ ops = 0

MigrateStep(m) ==
    \/ \E kind \in Kinds \ {"version"}, flag \in 0 .. 2 : BeginMigrate(m, kind, flag)
    \/ BeginMigrate(m, "version", 0)
    \/ StartMigration(m) \/ RunMigration(m) \/ FinishMigration(m)
    \/ EndMigrate(m) \/ Locked(m) \/ MigrateForce(m) \/ PrintVersion(m) \/ Interrupt(m)
==============================================================================
