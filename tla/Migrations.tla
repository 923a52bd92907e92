----------------------------- MODULE Migrations -----------------------------
(***************************************************************************)
(* The schema of the database and how a start brings it up to date         *)
(* (sqlite.go, migrations/).  A file is executed statement by statement,   *)
(* each of which is durable by itself, and then recorded.                  *)
(*                                                                         *)
(* Abstraction: of the rows only whether the counters of all of them have  *)
(* been filled in.                                                         *)
(***************************************************************************)
EXTENDS Naturals, Sequences

VARIABLES
    objects,    \* the tables, indices and added columns that exist
    recorded,   \* the files in migration_versions
    counters,   \* of the rows there are: "unset" or "right"
    file,       \* the migration file being looked at
    statement   \* its next statement, 0 before it is looked up

diskVars   == <<objects, recorded, counters>>
cursorVars == <<file, statement>>

Files == 1..2

\* 001_init.sql and 002_counters.sql
Script == << <<"versions", "rooms", "updates", "index">>,
             <<"storage_bytes", "update_count", "backfill">> >>

\* CREATE ... IF NOT EXISTS, as opposed to ALTER TABLE ... ADD COLUMN.
Idempotent(name) == name \in {"versions", "rooms", "updates", "index", "backfill"}

Schema == {"versions", "rooms", "closed_at", "updates", "index", "storage_bytes", "update_count"}

\* The table rooms of 001_init.sql has the column closed_at, older ones do not.
Makes(name) == IF name = "rooms" THEN {"rooms", "closed_at"} ELSE {name}

MigrationStart == file' = 1 /\ statement' = 0

Done == file > Len(Script)

\* The lookup fails as long as there is no table to look into.
SkipFile ==
    /\ ~Done /\ statement = 0
    /\ "versions" \in objects /\ file \in recorded
    /\ file' = file + 1
    /\ UNCHANGED <<diskVars, statement>>

\* Mutant: nothing is looked up.
BeginAgain ==
    /\ ~Done /\ statement = 0
    /\ statement' = 1
    /\ UNCHANGED <<diskVars, file>>

BeginFile ==
    /\ ~Done /\ statement = 0
    /\ ~("versions" \in objects /\ file \in recorded)
    /\ statement' = 1
    /\ UNCHANGED <<diskVars, file>>

Executing(name) ==
    /\ ~Done /\ statement \in DOMAIN Script[file]
    /\ name = Script[file][statement]

\* Adding a column that exists is an error, which ends the start.
ColumnExists(name) == ~Idempotent(name) /\ name \in objects

\* Mutant: nothing is filled in for the rows there are.
ExecuteNoBackfill(name) ==
    /\ Executing(name)
    /\ ~ColumnExists(name)
    /\ objects' = IF name = "backfill" \/ name \in objects THEN objects
                  ELSE objects \cup Makes(name)
    /\ statement' = statement + 1
    /\ UNCHANGED <<recorded, counters, file>>

Execute(name) ==
    /\ Executing(name)
    /\ ~ColumnExists(name)
    /\ objects' = IF name = "backfill" \/ name \in objects THEN objects
                  ELSE objects \cup Makes(name)
    /\ counters' = IF name = "backfill" THEN "right" ELSE counters
    /\ statement' = statement + 1
    /\ UNCHANGED <<recorded, file>>

\* Mutant: the file is recorded before its last statement.
RecordEarly ==
    /\ ~Done /\ statement = Len(Script[file])
    /\ recorded' = recorded \cup {file}
    /\ statement' = statement
    /\ UNCHANGED <<objects, counters, file>>

\* Mutant: the next file goes on at the statement of the last.
RecordOnly ==
    /\ ~Done /\ statement = Len(Script[file]) + 1
    /\ recorded' = recorded \cup {file}
    /\ file' = file + 1 /\ statement' = statement
    /\ UNCHANGED <<objects, counters>>

Record ==
    /\ ~Done /\ statement = Len(Script[file]) + 1
    /\ recorded' = recorded \cup {file}
    /\ file' = file + 1 /\ statement' = 0
    /\ UNCHANGED <<objects, counters>>

\* ensureClosedAtColumn, after the last file.
EnsureClosedAt ==
    /\ Done
    /\ objects' = objects \cup {"closed_at"}
    /\ UNCHANGED <<recorded, counters, cursorVars>>

-----------------------------------------------------------------------------
\* The databases a start may find: none, that of a server before 002, and one
\* from before there were closed rooms and recorded files.
Fresh  == /\ objects = {} /\ recorded = {} /\ counters = "right"
First  == /\ objects = {"versions", "rooms", "closed_at", "updates", "index"}
          /\ recorded = {1} /\ counters = "unset"
Legacy == /\ objects = {"rooms", "updates", "index"} /\ recorded = {} /\ counters = "unset"

MigrationInit == (Fresh \/ First \/ Legacy) /\ file = 1 /\ statement = 0

\* What a recorded file promises has been done, whenever the start that executed
\* it was interrupted (migrate executes first and records afterwards).
RecordedMeansApplied ==
    /\ 1 \in recorded => {"versions", "rooms", "updates", "index"} \subseteq objects
    /\ 2 \in recorded => {"storage_bytes", "update_count"} \subseteq objects /\ counters = "right"
=============================================================================
