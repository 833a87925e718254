----------------------------- MODULE Migrations -----------------------------
(***************************************************************************)
(* "alembic upgrade head" on a database that is in use.  All pending       *)
(* revisions run in one transaction, statement by statement, while the     *)
(* backend that is still running reads and writes the same tables.         *)
(*                                                                         *)
(* db is what is committed, tx what the transaction of the upgrade sees:   *)
(* a row somebody else commits is in both (READ COMMITTED), a change of    *)
(* the upgrade only in tx until it commits.  A row is inserted only where  *)
(* the committed schema lets it in.                                        *)
(***************************************************************************)
EXTENDS Naturals, Sequences

CONSTANTS
    Persons,       \* user ids, as text
    RowIds,        \* serial ids of teachers_students and lessons
    HomeworkIds,
    Databases,     \* what the database may hold before the first upgrade
    MaxWrites,     \* bound: rows the running backend inserts
    Null

VARIABLES
    db,          \* the committed database
    tx,          \* the database as the upgrade sees it
    at,          \* the statement of Plan the upgrade is at, 0 outside of one
    found,       \* what its last SELECT returned
    barred,      \* <<table, access>>: what its locks keep others from
    outcome,     \* how the last upgrade ended
    disturbed,   \* whether anybody wrote, or died for it, during the last one
    held,        \* tables an open transaction of the backend has read
    wants,       \* the table that transaction waits for
    writes

upgradeVars == <<tx, at, found, barred, outcome>>
clientVars == <<held, wants>>
migrationVars == <<db, upgradeVars, disturbed, clientVars, writes>>

-----------------------------------------------------------------------------
ASSUME RowIdsAreOrdered == RowIds \subseteq Nat
ASSUME NullIsNoStatus == Null \notin {"active", "archived"}

\* A status is Null while the column does not exist.
LinkRow == [id : RowIds, teacher : Persons, student : Persons,
            status : {"active", "archived", Null}]
LessonRow == [id : RowIds, teacher : Persons, student : Persons,
              homework : HomeworkIds \union {Null}]
Tables == {"users", "links", "lessons"}

\* A statement about one column of a table, or "all" of it.
On(do, table, column) == [do |-> do, table |-> table, column |-> column]

\* What the second revision does to a table before it adds the constraint that
\* no key repeats.
Align(table) ==
    << On("find_orphans", table, "teacher"), On("insert_legacy", table, "teacher"),
       On("find_orphans", table, "student"), On("insert_legacy", table, "student"),
       On("validate_users", table, "teacher"),
       On("validate_users", table, "student"),
       On("find_duplicates", table, "all"), On("delete_duplicates", table, "all"),
       On("validate_unique", table, "all"),
       On("text_id", table, "teacher"), On("text_id", table, "student"),
       On("foreign_key", table, "teacher"), On("foreign_key", table, "student") >>
Baseline == <<On("timestamps", "users", "all"), On("timestamps", "lessons", "all")>>
AlignTables ==
    Align("links") \o <<On("unique", "links", "all")>>
        \o Align("lessons")
        \o <<On("homework_key", "lessons", "all"), On("unique", "lessons", "all")>>
\* Mutant: the columns, but neither the rows nor the checks.
RelationDomainColumns == <<On("columns", "links", "all")>>
RelationDomain ==
    << On("columns", "links", "all"), On("normalise", "links", "all"),
       On("checks", "links", "all") >>

\* The statements of the three revisions, in order.
Plan == Baseline \o AlignTables \o RelationDomain
LastRevision == 3
\* Mutant: a revision begins with its second statement.
FirstOfPast(revision) ==
    IF revision = 0 THEN 1
    ELSE IF revision = 1 THEN 2 + Len(Baseline)
    ELSE 2 + Len(Plan)
FirstOf(revision) ==
    IF revision = 0 THEN 1
    ELSE IF revision = 1 THEN 1 + Len(Baseline)
    ELSE IF revision = 2 THEN 1 + Len(Baseline) + Len(AlignTables)
    ELSE 1 + Len(Plan)

\* What the inspector looks for before a change of the schema is made; those
\* of Exclusive lock out readers too.
Exclusive == {"timestamps", "text_id", "homework_key", "unique", "columns",
              "checks"}
SchemaSteps ==
    {Plan[i] : i \in {j \in 1..Len(Plan) :
                        Plan[j].do \in Exclusive \union {"foreign_key"}}}

Database == [users : SUBSET Persons, links : SUBSET LinkRow,
             lessons : SUBSET LessonRow, schema : SUBSET SchemaSteps,
             revision : 0..LastRevision]

ASSUME DatabasesAreDatabases == Databases \subseteq Database

-----------------------------------------------------------------------------
Running == at \in 1..Len(Plan)
Doing(do) == Running /\ Plan[at].do = do
Table == Plan[at].table

Orphans(view, table, column) ==
    {row[column] : row \in view[table]} \ view.users

\* UNIQUE does not compare NULLs.
Keyed(table, row) == table = "links" \/ row.homework # Null
SameKey(table, row, other) ==
    /\ Keyed(table, row) /\ Keyed(table, other)
    /\ IF table = "links"
       THEN row.teacher = other.teacher /\ row.student = other.student
       ELSE row.homework = other.homework

\* ROW_NUMBER() OVER (PARTITION BY key ORDER BY id) > 1
Duplicates(view, table) ==
    {row \in view[table] :
        \E other \in view[table] :
            SameKey(table, row, other) /\ other.id < row.id}

\* What any database holds to: ids are primary keys, PostgreSQL enforces the
\* constraints there are, the status column fills itself with its default, and
\* alembic stamps a revision that it has run.
Consistent(view) ==
    /\ \A table \in {"links", "lessons"} :
        /\ \A row, other \in view[table] : row.id = other.id => row = other
        /\ On("unique", table, "all") \in view.schema => Duplicates(view, table) = {}
        /\ \A column \in {"teacher", "student"} :
            On("foreign_key", table, column) \in view.schema
                => Orphans(view, table, column) = {}
    /\ \A row \in view.links :
        row.status # Null <=> On("columns", "links", "all") \in view.schema
    /\ On("checks", "links", "all") \in view.schema =>
        /\ On("columns", "links", "all") \in view.schema
        /\ \A row \in view.links : row.teacher # row.student
    /\ \A i \in 1..Len(Plan) :
        (i < FirstOf(view.revision) /\ Plan[i] \in SchemaSteps)
            => Plan[i] \in view.schema

ASSUME DatabasesAreConsistent == \A view \in Databases : Consistent(view)

\* Whether the upgrade is about to ask for a lock no reader may hold.
Asks(table) ==
    Running /\ Plan[at].do \in Exclusive /\ Table = table
            /\ Plan[at] \notin tx.schema

\* New readers queue behind an upgrade that waits for the table.
Readable(table) == <<table, "read">> \notin barred /\ ~Asks(table)
Writable(table) == <<table, "write">> \notin barred /\ Readable(table)

-----------------------------------------------------------------------------
\* The next statement, with the view the last one left.
Proceed(view) ==
    /\ tx' = view
    /\ at' = at + 1
    /\ UNCHANGED <<outcome, disturbed, db, clientVars, writes>>

\* Mutant: every statement is a transaction of its own.
FailKeepsChanges ==
    /\ db' = tx
    /\ tx' = tx
    /\ at' = 0
    /\ found' = {}
    /\ barred' = {}
    /\ outcome' = "failed"
    /\ UNCHANGED <<clientVars, writes>>

\* An exception ends the upgrade, and its transaction is rolled back.
Fail ==
    /\ tx' = db
    /\ at' = 0
    /\ found' = {}
    /\ barred' = {}
    /\ outcome' = "failed"
    /\ UNCHANGED <<db, clientVars, writes>>

Unless(wrong, view) ==
    IF wrong THEN Fail /\ UNCHANGED disturbed
    ELSE Proceed(view) /\ UNCHANGED <<found, barred>>

StartUpgrade ==
    /\ at = 0
    /\ tx' = db
    /\ at' = FirstOf(db.revision)
    /\ outcome' = "none"
    /\ disturbed' = FALSE
    /\ UNCHANGED <<db, found, barred, clientVars, writes>>

\* Mutant: only teachers are looked for.
FindOrphanTeachers ==
    /\ Doing("find_orphans")
    /\ found' = Orphans(tx, Table, "teacher")
    /\ Proceed(tx)
    /\ UNCHANGED barred

\* _get_orphan_user_refs
FindOrphans ==
    /\ Doing("find_orphans")
    /\ found' = Orphans(tx, Table, Plan[at].column)
    /\ Proceed(tx)
    /\ UNCHANGED barred

\* _insert_legacy_users: an id that logged in since then is a primary key
\* already.
InsertLegacyUsers ==
    /\ Doing("insert_legacy")
    /\ Unless(found \intersect tx.users # {},
              [tx EXCEPT !.users = @ \union found])

\* _validate_no_orphan_user_refs
ValidateUserRefs ==
    /\ Doing("validate_users")
    /\ Unless(Orphans(tx, Table, Plan[at].column) # {}, tx)

\* The SELECT of _deduplicate_teachers_students_pairs and of
\* _deduplicate_homework_links.
FindDuplicates ==
    /\ Doing("find_duplicates")
    /\ found' = Duplicates(tx, Table)
    /\ Proceed(tx)
    /\ UNCHANGED barred

\* Mutants: every row of a key goes, the oldest too; the statement is tried
\* until it succeeds.
DeleteAllOfAKey ==
    /\ Doing("delete_duplicates")
    /\ Proceed([tx EXCEPT ![Table] =
                    {row \in @ : \A dup \in found : ~SameKey(Table, row, dup)}])
    /\ UNCHANGED <<found, barred>>
DeleteDuplicatesAgain ==
    /\ Doing("delete_duplicates")
    /\ at' = IF found # {} THEN at - 1 ELSE at + 1
    /\ UNCHANGED <<db, tx, found, barred, outcome, disturbed, clientVars, writes>>

\* Their DELETE and UPDATE, which run only for something found.  The ids are
\* bound as an expanded list, "= ANY((1, 2))", where PostgreSQL wants an array:
\* it refuses the statement.
DeleteDuplicates ==
    /\ Doing("delete_duplicates")
    /\ Unless(found # {}, tx)

\* _validate_no_duplicate_pairs, _validate_no_duplicate_homework_links
ValidateUnique ==
    /\ Doing("validate_unique")
    /\ Unless(Duplicates(tx, Table) # {}, tx)

\* A change of the schema that no row can refuse.  It waits until nobody reads.
AlterTable(do) ==
    /\ Doing(do)
    /\ Asks(Table) => Table \notin held
    /\ barred' = IF Asks(Table)
                 THEN barred \union ({Table} \X {"read", "write"}) ELSE barred
    /\ Proceed([tx EXCEPT !.schema = @ \union {Plan[at]}])
    /\ UNCHANGED found

\* _convert_columns_to_timestamptz, _alter_column_to_string, and the key to
\* homeworks dropped and created again with its ON DELETE.
ConvertTimestamps == AlterTable("timestamps")
ConvertId == AlterTable("text_id")
RenewHomeworkKey == AlterTable("homework_key")

\* create_foreign_key keeps others from writing both tables, not from reading.
CreateForeignKey ==
    /\ Doing("foreign_key")
    /\ IF Plan[at] \in tx.schema
       THEN Proceed(tx) /\ UNCHANGED <<found, barred>>
       ELSE IF Orphans(tx, Table, Plan[at].column) # {}
       THEN Fail /\ UNCHANGED disturbed
       ELSE /\ barred' = barred \union ({Table, "users"} \X {"write"})
            /\ Proceed([tx EXCEPT !.schema = @ \union {Plan[at]}])
            /\ UNCHANGED found

\* create_unique_constraint
CreateUnique ==
    /\ Doing("unique")
    /\ Asks(Table) => Table \notin held
    /\ IF Asks(Table) /\ Duplicates(tx, Table) # {}
       THEN Fail /\ UNCHANGED disturbed
       ELSE /\ barred' = IF Asks(Table)
                         THEN barred \union ({Table} \X {"read", "write"})
                         ELSE barred
            /\ Proceed([tx EXCEPT !.schema = @ \union {Plan[at]}])
            /\ UNCHANGED found

\* The status column, with 'active' as the server's default for old rows.
AddColumns ==
    /\ Doing("columns")
    /\ Asks(Table) => Table \notin held
    /\ barred' = IF Asks(Table)
                 THEN barred \union ({Table} \X {"read", "write"}) ELSE barred
    /\ Proceed([tx EXCEPT
                    !.schema = @ \union {Plan[at]},
                    !.links = IF Asks(Table)
                              THEN {[row EXCEPT !.status = "active"] : row \in @}
                              ELSE @])
    /\ UNCHANGED found

\* Relations of a person with themselves go.  The default has left no NULL for
\* the UPDATE of statuses that follows.
NormaliseRelations ==
    /\ Doing("normalise")
    /\ Proceed([tx EXCEPT !.links = {row \in @ : row.teacher # row.student}])
    /\ UNCHANGED <<found, barred>>

\* NOT NULL and the three check constraints.
AddChecks ==
    /\ Doing("checks")
    /\ Asks(Table) => Table \notin held
    /\ IF \E row \in tx.links : row.teacher = row.student \/ row.status = Null
       THEN Fail /\ UNCHANGED disturbed
       ELSE /\ barred' = barred \union ({Table} \X {"read", "write"})
            /\ Proceed([tx EXCEPT !.schema = @ \union {Plan[at]}])
            /\ UNCHANGED found

\* One COMMIT for all revisions.
CommitUpgrade ==
    /\ at = Len(Plan) + 1
    /\ db' = [tx EXCEPT !.revision = LastRevision]
    /\ tx' = db'
    /\ at' = 0
    /\ found' = {}
    /\ barred' = {}
    /\ outcome' = "done"
    /\ UNCHANGED <<disturbed, clientVars, writes>>

\* downgrade() of the last revision drops the columns and their checks.
Downgrade ==
    /\ at = 0 /\ db.revision = LastRevision /\ "links" \notin held
    /\ db' = [db EXCEPT
                !.revision = LastRevision - 1,
                !.schema = {s \in @ : s.do \notin {"columns", "checks"}},
                !.links = {[row EXCEPT !.status = Null] : row \in @}]
    /\ tx' = db'
    /\ UNCHANGED <<at, found, barred, outcome, disturbed, clientVars, writes>>

UpgradeStep ==
    \/ FindOrphans \/ InsertLegacyUsers \/ ValidateUserRefs
    \/ FindDuplicates \/ DeleteDuplicates \/ ValidateUnique
    \/ ConvertTimestamps \/ ConvertId \/ RenewHomeworkKey
    \/ CreateForeignKey \/ CreateUnique
    \/ AddColumns \/ NormaliseRelations \/ AddChecks \/ CommitUpgrade

-----------------------------------------------------------------------------
\* The running backend, as far as it matters here: one open transaction that
\* reads tables in any order, and rows that others insert.
ReadTable(table) ==
    /\ IF wants = Null THEN table \notin held ELSE wants = table
    /\ IF Readable(table)
       THEN held' = held \union {table} /\ wants' = Null
       ELSE /\ wants = Null
            /\ wants' = table
            /\ UNCHANGED held
    /\ UNCHANGED <<db, upgradeVars, disturbed, writes>>

EndTransaction ==
    /\ wants = Null /\ held # {}
    /\ held' = {}
    /\ UNCHANGED <<db, upgradeVars, disturbed, wants, writes>>

\* Both wait for the other: PostgreSQL ends one of the two.
Deadlocked ==
    /\ wants # Null
    /\ ~Readable(wants)
    /\ \E table \in held : Asks(table)
ResolveDeadlock ==
    /\ Deadlocked
    /\ disturbed' = TRUE
    /\ \/ Fail
       \/ held' = {} /\ wants' = Null /\ UNCHANGED <<db, upgradeVars, writes>>

\* The committed schema decides what may be inserted; a key of the upgrade's
\* that is not committed yet makes the insert wait.
Fits(table, row) ==
    /\ \A column \in {"teacher", "student"} :
        On("foreign_key", table, column) \in db.schema => row[column] \in db.users
    /\ On("unique", table, "all") \in db.schema =>
        \A other \in db[table] : ~SameKey(table, row, other)
    /\ (table = "links" /\ On("checks", "links", "all") \in db.schema) =>
        row.teacher # row.student

Insert(table, rows) ==
    /\ writes < MaxWrites
    /\ Writable(table)
    /\ db' = [db EXCEPT ![table] = @ \union rows]
    /\ tx' = [tx EXCEPT ![table] = @ \union rows]
    /\ writes' = writes + 1
    /\ disturbed' = TRUE
    /\ UNCHANGED <<at, found, barred, outcome, clientVars>>

LogIn ==
    \E p \in Persons \ (db.users \union tx.users) : Insert("users", {p})

Unused(table) == RowIds \ {row.id : row \in db[table]}
Status == IF On("columns", "links", "all") \in db.schema THEN "active" ELSE Null

AddLink ==
    \E i \in Unused("links"), t, s \in Persons :
        LET row == [id |-> i, teacher |-> t, student |-> s, status |-> Status]
        IN Fits("links", row) /\ Insert("links", {row})

AddLesson ==
    \E i \in Unused("lessons"), t, s \in Persons :
        LET row == [id |-> i, teacher |-> t, student |-> s, homework |-> Null]
        IN Fits("lessons", row) /\ Insert("lessons", {row})

ClientStep ==
    \/ \E table \in Tables : ReadTable(table)
    \/ EndTransaction \/ LogIn \/ AddLink \/ AddLesson

MigrationsInit ==
    /\ db \in Databases
    /\ tx = db
    /\ at = 0 /\ found = {} /\ barred = {}
    /\ outcome = "none" /\ disturbed = FALSE
    /\ held = {} /\ wants = Null
    /\ writes = 0
=============================================================================
