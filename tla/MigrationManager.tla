-------------------------- MODULE MigrationManager --------------------------
(***************************************************************************)
(* MigrationManager of src/database/migration_manager.ts: calls of         *)
(* migrate() and rollback() in several processes over the schema and the   *)
(* table schema_migrations.  There is no lock around a call: each reads    *)
(* the table once and then runs one transaction per file.                  *)
(*                                                                         *)
(* A file is known by its position in the sorted directory; two files may  *)
(* have the same version (the repository has two with version 011).        *)
(***************************************************************************)
EXTENDS Naturals, FiniteSets

CONSTANTS
  Migrators,    \* calls
  Files,        \* 1..n
  versionOf,    \* version of each file
  hasDown,      \* files with a @down section; the others roll back with a no-op
  tolerant,     \* those whose @down may run on a schema without the file (IF EXISTS)
  reentrant     \* files whose @up may run on a schema that has it (IF NOT EXISTS)

ASSUME MigrationAssumption ==
  /\ IsFiniteSet(Files) /\ Files = 1..Cardinality(Files)
  /\ versionOf \in [Files -> Nat]
  /\ \A f, g \in Files : f <= g => versionOf[f] <= versionOf[g]
  /\ tolerant \subseteq hasDown /\ hasDown \subseteq Files /\ reentrant \subseteq Files
  /\ hasDown \cap reentrant = {}

VARIABLES
  schema,      \* files whose changes the schema has
  applied,     \* versions with rolled_back_at NULL
  migrator,    \* each call: what it runs, its transaction, the files it still has
  crossed,     \* history: a migrate() and a rollback() were under way at once
  split        \* history: versions a call left with some of their files run

migrationVars == <<schema, applied, migrator, crossed, split>>

MigrationTypeOK ==
  /\ schema \subseteq Files /\ applied \subseteq {versionOf[f] : f \in Files}
  /\ migrator \in [Migrators ->
       [op : {"none", "migrate", "rollback"},
        pc : {"idle", "begin", "commit", "skip", "done", "threw"},
        todo : SUBSET Files]]
  /\ crossed \in BOOLEAN /\ split \subseteq applied \cup {versionOf[f] : f \in Files}

MigrationInit ==
  /\ schema = {} /\ applied = {}
  /\ migrator = [c \in Migrators |-> [op |-> "none", pc |-> "idle", todo |-> {}]]
  /\ crossed = FALSE /\ split = {}

-----------------------------------------------------------------------------
\* "commit": the transaction holds what it created or dropped; "skip": it dropped nothing.
Running(c) == migrator[c].pc \in {"begin", "commit", "skip"}
MigratorGoto(c, label) == migrator' = [migrator EXCEPT ![c].pc = label]

StartCall(c, op, todo) ==
  /\ migrator[c].pc = "idle"
  /\ migrator' = [migrator EXCEPT ![c] =
       [op |-> op, pc |-> IF todo = {} THEN "done" ELSE "begin", todo |-> todo]]
  /\ crossed' = (crossed \/ \E d \in Migrators : Running(d) /\ migrator[d].op # op)
  /\ UNCHANGED <<schema, applied, split>>

\* migrate(): the files whose version the table lacks, up to the target.
migrate(c, target) ==
  StartCall(c, "migrate", {f \in Files : versionOf[f] \notin applied /\ versionOf[f] <= target})

\* The Map of rollback() keeps the last file of each version.
LastOf(v) == CHOOSE f \in Files : versionOf[f] = v /\ \A g \in Files : versionOf[g] = v => g <= f

rollback(c, target) == StartCall(c, "rollback", {LastOf(v) : v \in {w \in applied : w > target}})

\* loadMigrations(): the files in the order of their names.
loadMigrations(todo) == CHOOSE f \in todo : \A g \in todo : f <= g

\* Fault: ORDER BY version without DESC.
RollbackOrder_Ascending(todo) == CHOOSE f \in todo : \A g \in todo : f <= g

\* ORDER BY version DESC.
RollbackOrder(todo) == CHOOSE f \in todo : \A g \in todo : g <= f

\* The next file of a call.
NextFile(c) ==
  IF migrator[c].op = "migrate" THEN loadMigrations(migrator[c].todo)
  ELSE RollbackOrder(migrator[c].todo)

\* BEGIN and the @up or @down section.  Creating or dropping waits for a transaction
\* that has run the same file; an @up that is not reentrant fails on a schema that has
\* the file, an @down that is not tolerant on one that has not.  A tolerant @down, or
\* the no-op, drops nothing there and waits for nobody: not for an @up under way.
RunFile(c) ==
  LET f == NextFile(c) IN
  /\ migrator[c].pc = "begin"
  /\ \/ /\ IF migrator[c].op = "migrate" THEN f \notin schema \/ f \in reentrant
           ELSE f \in schema \cap hasDown
        /\ \A d \in Migrators : migrator[d].pc = "commit" => NextFile(d) # f
        /\ MigratorGoto(c, "commit")
     \/ /\ migrator[c].op = "rollback"
        /\ f \notin hasDown \/ (f \in tolerant /\ f \notin schema)
        /\ MigratorGoto(c, "skip")
  /\ UNCHANGED <<schema, applied, crossed, split>>

Rest(c) ==
  LET rest == migrator[c].todo \ {NextFile(c)} IN
  migrator' = [migrator EXCEPT ![c].todo = rest,
                               ![c].pc = IF rest = {} THEN "done" ELSE "begin"]

\* The row and COMMIT.
applyMigration(c) ==
  LET f == NextFile(c) IN
  /\ migrator[c].pc = "commit" /\ migrator[c].op = "migrate"
  /\ schema' = schema \cup {f}
  /\ applied' = applied \cup {versionOf[f]}
  /\ Rest(c)
  /\ UNCHANGED <<crossed, split>>

rollbackMigration(c) ==
  LET f == NextFile(c) IN
  /\ migrator[c].pc \in {"commit", "skip"} /\ migrator[c].op = "rollback"
  /\ schema' = IF migrator[c].pc = "commit" THEN schema \ {f} ELSE schema
  /\ applied' = applied \ {versionOf[f]}
  /\ Rest(c)
  /\ UNCHANGED <<crossed, split>>

\* A statement fails, or the process dies: ROLLBACK, and the call runs no other file.
MigrationFails(c) ==
  /\ Running(c)
  /\ MigratorGoto(c, "threw")
  /\ split' = split \cup {v \in applied : \E f \in migrator[c].todo \ schema : versionOf[f] = v}
  /\ UNCHANGED <<schema, applied, crossed>>

-----------------------------------------------------------------------------
MigratorStep(c) == RunFile(c) \/ applyMigration(c) \/ rollbackMigration(c) \/ MigrationFails(c)

MigrationNext ==
  \E c \in Migrators :
    \/ \E target \in {0} \cup {versionOf[f] : f \in Files} : migrate(c, target) \/ rollback(c, target)
    \/ MigratorStep(c)

-----------------------------------------------------------------------------
\* The table tells the truth: the schema has every file of an applied version,
\* unless a call still has the file to run, or stopped between two files of one
\* version, after which no later migrate() runs the file.
AppliedIsPresent ==
  \A f \in Files : versionOf[f] \in applied =>
    \/ f \in schema \/ versionOf[f] \in split
    \/ \E c \in Migrators : migrator[c].op = "migrate" /\ Running(c) /\ f \in migrator[c].todo

\* No version is applied above one that is not, however calls fail and overlap,
\* unless a rollback ran alongside a migration.
NoGap ==
  crossed \/ \A f, g \in Files :
    versionOf[g] \in applied /\ versionOf[f] < versionOf[g] => versionOf[f] \in applied
=============================================================================
