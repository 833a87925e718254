------------------------------ MODULE Rollout ------------------------------
(***************************************************************************)
(* What a deploy promises of the tables, to whoever reads or writes them   *)
(* meanwhile: people and rows are added one by one, and at some moment all *)
(* the tables are migrated at once, or they are not.  There are no         *)
(* statements, locks, views or failures here.                              *)
(***************************************************************************)
CONSTANTS
    Persons, RowIds, HomeworkIds,
    None    \* no homework, no status

VARIABLES
    users,     \* the people who have an account
    links,     \* the relations
    lessons,
    migrated   \* whether the tables are those of the last revision

tables == <<users, links, lessons, migrated>>

Link == [id : RowIds, teacher : Persons, student : Persons,
         status : {"active", "archived", None}]
Lesson == [id : RowIds, teacher : Persons, student : Persons,
           homework : HomeworkIds \union {None}]

Known(row) == {row.teacher, row.student} \subseteq users
SamePair(row, other) ==
    row.teacher = other.teacher /\ row.student = other.student
PairsOnce == \A row, other \in links : SamePair(row, other) => row = other
HomeworkOnce ==
    \A row, other \in lessons :
        (row.homework # None /\ row.homework = other.homework) => row = other

Legal ==
    /\ \A row \in links \union lessons : Known(row)
    /\ \A row \in links : row.teacher # row.student /\ row.status # None
    /\ PairsOnce /\ HomeworkOnce

Init ==
    /\ users \subseteq Persons /\ links \subseteq Link /\ lessons \subseteq Lesson
    /\ migrated \in BOOLEAN
    /\ migrated => Legal

Join(p) ==
    /\ p \notin users
    /\ users' = users \union {p}
    /\ UNCHANGED <<links, lessons, migrated>>

AddLink(row) ==
    /\ \A other \in links : other.id # row.id
    /\ migrated =>
        /\ Known(row) /\ row.teacher # row.student /\ row.status # None
        /\ \A other \in links : ~SamePair(row, other)
    /\ links' = links \union {row}
    /\ UNCHANGED <<users, lessons, migrated>>

AddLesson(row) ==
    /\ \A other \in lessons : other.id # row.id
    /\ row.homework = None
    /\ migrated => Known(row)
    /\ lessons' = lessons \union {row}
    /\ UNCHANGED <<users, links, migrated>>

\* Whoever a row names gets an account, relations of one person go, the others
\* have a status and keep one they had; no row is taken for another's copy.
People == UNION {{row.teacher, row.student} : row \in links \union lessons}
WithStatus(row) ==
    IF row.status = None THEN [row EXCEPT !.status = "active"] ELSE row
Migrate ==
    /\ PairsOnce /\ HomeworkOnce
    /\ users' = users \union People
    /\ links' = {WithStatus(row) : row \in {r \in links : r.teacher # r.student}}
    /\ migrated' = TRUE
    /\ UNCHANGED lessons

Downgrade ==
    /\ migrated
    /\ links' = {[row EXCEPT !.status = None] : row \in links}
    /\ migrated' = FALSE
    /\ UNCHANGED <<users, lessons>>

Next ==
    \/ \E p \in Persons : Join(p)
    \/ \E row \in Link : AddLink(row)
    \/ \E row \in Lesson : AddLesson(row)
    \/ Migrate \/ Downgrade

Spec == Init /\ [][Next]_tables
=============================================================================
