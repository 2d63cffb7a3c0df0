----------------------------- MODULE Migrations -----------------------------
(* backend/database.py: the migration of a database an earlier release left,*)
(* as the statements migrate() sends.                                       *)
(*                                                                          *)
(* Python's SQLite driver opens a transaction only before a statement that  *)
(* changes rows.  CREATE, ALTER, DROP and PRAGMA user_version before the    *)
(* first such statement are durable one by one; after it everything, the    *)
(* table definitions and the version included, waits for the commit.  The   *)
(* process may die between any two statements and start again.  Indexes     *)
(* are left out: DROP INDEX IF EXISTS and CREATE restore them with the      *)
(* table they belong to.                                                    *)
EXTENDS Naturals, Sequences, SequencesExt

CONSTANTS Rows,         \* of each table
          MaxCrashes

Tables == {"sessions", "findings"}
OldName == [sessions |-> "sessions_old", findings |-> "findings_old"]
Names == Tables \cup {OldName[t] : t \in Tables}

VARIABLES disk,          \* what a restart finds
          seen,          \* what the connection sees
          transaction,   \* whether the driver has opened one
          todo,          \* the statements still to be sent
          phase,         \* of the process
          had,           \* history: the rows the earlier release had stored
          crashes
vars == << disk, seen, transaction, todo, phase, had, crashes >>

-----------------------------------------------------------------------------
(* A table: its shape by the primary key, "narrow" the id alone and "wide"  *)
(* the id with the investigation.                                           *)

Absent == [shape |-> "absent", rows |-> {}]
Holding(shape, rows) == [shape |-> shape, rows |-> rows]

Database(version, shape, scope, rows) ==
    [version |-> version, score_scope |-> scope,
     tables |-> [n \in Names |-> IF n \in Tables /\ shape # "absent"
                                 THEN Holding(shape, rows[n]) ELSE Absent]]

(* What a release can have left: nothing, or its schema and some rows.      *)
Released ==
    {Database(0, "absent", "no table", [t \in Tables |-> {}])}
      \cup UNION {{Database(1, "narrow", "missing", r), Database(2, "wide", "missing", r),
                   Database(3, "wide", "present", r)} : r \in [Tables -> SUBSET Rows]}

-----------------------------------------------------------------------------
Statement(migration, do, table) == [migration |-> migration, do |-> do, table |-> table]

Script ==
    << Statement(1, "create missing", "investigations"),
       Statement(1, "create missing", "sessions"), Statement(1, "create missing", "findings"),
       Statement(1, "set version", ""),
       Statement(2, "table_info", "sessions"), Statement(2, "table_info", "findings"),
       Statement(2, "set version", ""),
       Statement(3, "add column", "investigations"), Statement(3, "set version", "") >>

(* Migration i applies when user_version is below i.                        *)
Pending(db) == SelectSeq(Script, LAMBDA s : s.migration > db.version)

(* _migration_2 looks at a table when its turn comes: one that is not there,*)
(* or has the wide key already, is passed over.                             *)
Rebuild(db, s) ==
    IF s.do = "table_info" /\ db.tables[s.table].shape = "narrow"
    THEN << Statement(2, "rename", s.table), Statement(2, "create", s.table),
            Statement(2, "copy", s.table), Statement(2, "drop", s.table) >>
    ELSE << >>

Effect(db, s) ==
    CASE s.do = "create missing" /\ s.table = "investigations" /\ db.score_scope = "no table" ->
           [db EXCEPT !.score_scope = "present"]
      [] s.do = "create missing" /\ s.table \in Tables /\ db.tables[s.table] = Absent ->
           [db EXCEPT !.tables[s.table] = Holding("wide", {})]
      [] s.do = "rename" ->
           [db EXCEPT !.tables[OldName[s.table]] = db.tables[s.table],
                      !.tables[s.table] = Absent]
      [] s.do = "create" -> [db EXCEPT !.tables[s.table] = Holding("wide", {})]
      [] s.do = "copy" ->
           [db EXCEPT !.tables[s.table].rows = @ \cup db.tables[OldName[s.table]].rows]
      [] s.do = "drop" -> [db EXCEPT !.tables[OldName[s.table]] = Absent]
      [] s.do = "add column" -> [db EXCEPT !.score_scope = "present"]
      [] s.do = "set version" -> [db EXCEPT !.version = s.migration]
      [] OTHER -> db

Init ==
    /\ disk \in Released
    /\ seen = disk
    /\ transaction = FALSE
    /\ todo = << >>
    /\ phase = "down"
    /\ had = [t \in Tables |-> disk.tables[t].rows]
    /\ crashes = 0

Open ==
    /\ phase = "down"
    /\ phase' = "migrating"
    /\ todo' = Pending(disk)
    /\ UNCHANGED << disk, seen, transaction, had, crashes >>

Execute ==
    /\ phase = "migrating" /\ todo # << >>
    /\ seen' = Effect(seen, Head(todo))
    /\ todo' = Rebuild(seen, Head(todo)) \o Tail(todo)
    /\ transaction' = (transaction \/ Head(todo).do = "copy")
    /\ disk' = IF transaction' THEN disk ELSE seen'
    /\ UNCHANGED << phase, had, crashes >>

Commit ==
    /\ phase = "migrating" /\ todo = << >>
    /\ phase' = "ready"
    /\ disk' = seen
    /\ transaction' = FALSE
    /\ UNCHANGED << seen, todo, had, crashes >>

Crash ==
    /\ phase = "migrating" /\ crashes < MaxCrashes
    /\ phase' = "down"
    /\ seen' = disk
    /\ transaction' = FALSE
    /\ todo' = << >>
    /\ crashes' = crashes + 1
    /\ UNCHANGED << disk, had >>

Next == Open \/ Execute \/ Commit \/ Crash
Spec == Init /\ [][Next]_vars

-----------------------------------------------------------------------------
(* Once the application is up, every session and finding an earlier release *)
(* had stored is in the table the application reads (database.py:326-328,   *)
(* docs/database.md:93-95: the steps are idempotent and nothing is lost).   *)
NothingIsLost ==
    phase = "ready" => \A t \in Tables : had[t] \subseteq disk.tables[t].rows

=============================================================================
