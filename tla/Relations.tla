----------------------------- MODULE Relations -----------------------------
(***************************************************************************)
(* Teacher-student relations: a teacher opens one with a student, either   *)
(* of the two archives it.  There is one row per pair for ever; an active  *)
(* row is what lessons and homework are allowed by.                        *)
(***************************************************************************)
EXTENDS Users

CONSTANTS
    RelationIds,       \* the serial ids the database can hand out
    InitialRelations   \* the teachers_students table at start

VARIABLE relations     \* the teachers_students table

relationsVars == <<relations, usersVars>>

-----------------------------------------------------------------------------
RelationRow == [teacher : Persons, student : Persons,
                status : {"active", "archived"}]

RelationPair(table, t, s) ==
    \E i \in RelationIds :
        table[i] # Null /\ table[i].teacher = t /\ table[i].student = s

\* UNIQUE (teacher_id, student_id)
OneRowPerPair(table) ==
    \A i, j \in RelationIds :
        (/\ table[i] # Null /\ table[j] # Null
         /\ table[i].teacher = table[j].teacher
         /\ table[i].student = table[j].student) => i = j

\* The foreign keys to users, and the check that nobody teaches themselves.
ParticipantsInTable(table, accounts) ==
    \A i \in RelationIds :
        table[i] # Null => /\ accounts[table[i].teacher] # Null
                           /\ accounts[table[i].student] # Null
                           /\ table[i].teacher # table[i].student

ASSUME NullIsNoRelation == Null \notin RelationIds \union RelationRow

ASSUME InitialRelationsAreLegal ==
    /\ InitialRelations \in [RelationIds -> RelationRow \union {Null}]
    /\ OneRowPerPair(InitialRelations)
    /\ ParticipantsInTable(InitialRelations, InitialUsers)

RelationsSteps ==
    UsersSteps \union {"load_student", "insert_relation", "write_archive", "respond"}

RelationsTypeOK ==
    /\ relations \in [RelationIds -> RelationRow \union {Null}]
    /\ SessionTypeOK(RelationsSteps)
    /\ \A r \in Requests :
        /\ pc[r] \in {"load_student", "insert_relation"} =>
            ask[r] \in [op : {"create_relation"}, student : Persons]
        /\ pc[r] = "write_archive" =>
            /\ ask[r] \in [op : {"archive"}, relation : RelationIds]
            /\ seen[r] \in RelationRow

RelationsInit == relations = InitialRelations /\ UsersInit

-----------------------------------------------------------------------------
\* ensure_active_relation: the statement lessons and homework are guarded by.
ActiveRelation(t, s) ==
    \E i \in RelationIds :
        /\ relations[i] # Null
        /\ relations[i].teacher = t /\ relations[i].student = s
        /\ relations[i].status = "active"

\* Mutant: the pair is not looked up.
CreateRelationBlind(r) ==
    /\ Enter(r, "relations/create", {Teacher})
    /\ \E s \in Persons :
        /\ ask' = [ask EXCEPT ![r] = [op |-> "create_relation", student |-> s]]
        /\ Goto(r, IF s = token[r].sub THEN "bad_request" ELSE "load_student")
    /\ UNCHANGED <<relations, users, token, me, seen>>

\* POST /relations/create: look for a row of the pair, archived ones included.
CreateRelation(r) ==
    /\ Enter(r, "relations/create", {Teacher})
    /\ \E s \in Persons :
        /\ ask' = [ask EXCEPT ![r] = [op |-> "create_relation", student |-> s]]
        /\ Goto(r, IF s = token[r].sub THEN "bad_request"
                   ELSE IF RelationPair(relations, token[r].sub, s)
                   THEN "conflict"
                   ELSE "load_student")
    /\ UNCHANGED <<relations, users, token, me, seen>>

\* Mutant: the target is taken on trust when it has no row yet.
LoadStudentOrStranger(r) ==
    /\ pc[r] = "load_student"
    /\ LET row == users[ask[r].student] IN
        Goto(r, IF row = Null THEN "insert_relation"
                ELSE IF row.role # Student THEN "bad_request"
                ELSE "insert_relation")
    /\ UNCHANGED <<relations, users, token, me, ask, seen>>

\* The target must have logged in, as a student.
LoadStudent(r) ==
    /\ pc[r] = "load_student"
    /\ LET row == users[ask[r].student] IN
        Goto(r, IF row = Null THEN "not_found"
                ELSE IF row.role # Student THEN "bad_request"
                ELSE "insert_relation")
    /\ UNCHANGED <<relations, users, token, me, ask, seen>>

\* Mutant: INSERT without the unique constraint, on the word of the look-up.
InsertRelationUnchecked(r) ==
    /\ pc[r] = "insert_relation"
    /\ \E i \in RelationIds :
        /\ relations[i] = Null
        /\ relations' = [relations EXCEPT ![i] =
                [teacher |-> token[r].sub, student |-> ask[r].student,
                 status |-> "active"]]
    /\ Goto(r, "respond")
    /\ UNCHANGED <<users, token, me, ask, seen>>

\* Mutant: INSERT ... ON CONFLICT DO UPDATE SET status = 'active'.
UpsertRelation(r) ==
    /\ pc[r] = "insert_relation"
    /\ \E i \in RelationIds :
        /\ \/ relations[i] = Null
           \/ relations[i] \in [teacher : {token[r].sub}, student : {ask[r].student},
                               status : {"active", "archived"}]
        /\ relations' = [relations EXCEPT ![i] =
                [teacher |-> token[r].sub, student |-> ask[r].student,
                 status |-> "active"]]
    /\ Goto(r, "respond")
    /\ UNCHANGED <<users, token, me, ask, seen>>

\* INSERT and COMMIT.  A row of the pair committed meanwhile makes it fail with
\* an IntegrityError that the router does not map.
InsertRelation(r) ==
    /\ pc[r] = "insert_relation"
    /\ \/ /\ RelationPair(relations, token[r].sub, ask[r].student)
          /\ Goto(r, "server_error")
          /\ UNCHANGED relations
       \/ /\ ~RelationPair(relations, token[r].sub, ask[r].student)
          /\ \E i \in RelationIds :
                /\ relations[i] = Null
                /\ relations' = [relations EXCEPT ![i] =
                        [teacher |-> token[r].sub, student |-> ask[r].student,
                         status |-> "active"]]
          /\ Goto(r, "respond")
    /\ UNCHANGED <<users, token, me, ask, seen>>

\* Mutant: a missing row is not answered with 404.
ArchiveRelationMissing(r) ==
    /\ Enter(r, "relations/archive", {})
    /\ \E i \in RelationIds :
        /\ ask' = [ask EXCEPT ![r] = [op |-> "archive", relation |-> i]]
        /\ seen' = [seen EXCEPT ![r] = relations[i]]
        /\ Goto(r, IF /\ relations[i] # Null
                      /\ token[r].sub \notin
                            {relations[i].teacher, relations[i].student}
                   THEN "forbidden"
                   ELSE "write_archive")
    /\ UNCHANGED <<relations, users, token, me>>

\* POST /relations/archive/{id}: load the row, only for its two participants.
ArchiveRelation(r) ==
    /\ Enter(r, "relations/archive", {})
    /\ \E i \in RelationIds :
        /\ ask' = [ask EXCEPT ![r] = [op |-> "archive", relation |-> i]]
        /\ seen' = [seen EXCEPT ![r] = relations[i]]
        /\ Goto(r, IF relations[i] = Null THEN "not_found"
                   ELSE IF token[r].sub \notin
                            {relations[i].teacher, relations[i].student}
                   THEN "forbidden"
                   ELSE "write_archive")
    /\ UNCHANGED <<relations, users, token, me>>

\* Mutant: archiving twice puts the relation back to work.
ToggleArchive(r) ==
    /\ pc[r] = "write_archive"
    /\ relations' = [relations EXCEPT ![ask[r].relation].status =
                        IF seen[r].status = "active" THEN "archived"
                        ELSE "active"]
    /\ Goto(r, "respond")
    /\ UNCHANGED <<users, token, me, ask, seen>>

\* The crud function selects the row again, but the identity map answers with
\* the object loaded before: its status decides whether anything is written.
WriteArchive(r) ==
    /\ pc[r] = "write_archive"
    /\ relations' = IF seen[r].status = "archived" THEN relations
                    ELSE [relations EXCEPT ![ask[r].relation].status = "archived"]
    /\ Goto(r, "respond")
    /\ UNCHANGED <<users, token, me, ask, seen>>

\* After its commit a handler of this module, or of those that extend it,
\* refreshes and serialises the row it wrote.
Respond(r) ==
    /\ pc[r] = "respond"
    /\ Goto(r, "ok")
    /\ UNCHANGED <<relations, users, token, me, ask, seen>>

RelationsStep(r) ==
    \/ CreateRelation(r) \/ LoadStudent(r) \/ InsertRelation(r)
    \/ ArchiveRelation(r) \/ WriteArchive(r) \/ Respond(r)

RelationsNext ==
    \E r \in Requests :
        \/ UsersStep(r) /\ UNCHANGED relations
        \/ RelationsStep(r)

RelationsSpec == RelationsInit /\ [][RelationsNext]_relationsVars

-----------------------------------------------------------------------------
\* Safety
\* Two teachers' clicks, or one teacher's double click, never leave two rows
\* for a pair, whatever both look-ups saw (UNIQUE constraint).
PairUnique == OneRowPerPair(relations)

\* No relation names a person without an account: an INSERT never trips over
\* the foreign keys or over the not-self check, whoever logs in or is renamed
\* between the look-up and the commit.
ParticipantsKnown == ParticipantsInTable(relations, users)

\* What every step keeps: a relation its row and its pair, and its archiving.
RelationsAdvance ==
    \A i \in RelationIds :
        relations[i] # Null =>
            /\ relations'[i] # Null
            /\ relations'[i].teacher = relations[i].teacher
            /\ relations'[i].student = relations[i].student
            /\ relations[i].status = "archived" =>
                relations'[i].status = "archived"

\* A relation row keeps its pair for ever, and an archived one stays archived:
\* neither a late request nor a second create opens it again.
ArchiveIsFinal == [][RelationsAdvance]_relations

\* Once an archive request is past its write, the relation is archived,
\* whichever of two concurrent archives wrote it and from whichever object.
ArchivedWhenAnswered ==
    \A r \in Requests :
        (/\ pc[r] \in {"respond", "ok"}
         /\ ask[r] # Null
         /\ ask[r].op = "archive")
            => relations[ask[r].relation].status = "archived"
-----------------------------------------------------------------------------
\* Refinement
\* The pairs whose row has a status.
PairsWith(status) ==
    {<<relations[i].teacher, relations[i].student>> :
        i \in {j \in RelationIds :
                relations[j] # Null /\ relations[j].status = status}}

Book == INSTANCE Registry WITH
    people <- {p \in Persons : users[p] # Null},
    open <- PairsWith("active"),
    closed <- PairsWith("archived")

\* Behind all the interleaved look-ups, inserts and stale objects the tables
\* change as the pages of one book do: a person joins, a pair of two people who
\* joined is opened for the first time, an open pair is closed, one at a time.
ImplementsRegistry == Book!Spec
=============================================================================
