------------------------------ MODULE Lessons ------------------------------
(***************************************************************************)
(* Lessons: a teacher schedules, changes and soft-deletes lessons with a   *)
(* student of an active relation.  Deleting a lesson deletes the homework  *)
(* it is linked to, so the homeworks table is declared here.               *)
(***************************************************************************)
EXTENDS Relations, Naturals

CONSTANTS
    LessonIds,       \* the serial ids of lessons
    HomeworkIds,     \* the serial ids of homeworks
    Times,           \* points in time, normalised to UTC
    LessonBodies,    \* bodies of POST /lessons/create that pass the schema
    LessonPatches,   \* bodies of PUT /lessons/update that pass the schema
    InitialLessons,  \* the lessons table at start
    InitialHomeworks,
    JsonNull         \* an explicit null in a body; an unset field is Null

VARIABLES lessons, homeworks

schoolVars == <<lessons, homeworks, relationsVars>>

-----------------------------------------------------------------------------
LessonStatuses == {"active", "passed", "cancelled"}

\* The columns of a lesson that requests write.
LessonRow ==
    [teacher : Persons, student : Persons, start : Times, end : Times,
     status : LessonStatuses, deleted : BOOLEAN,
     homework : HomeworkIds \union {Null}]

\* An answer stands for the student who wrote it, a brief for the teacher's
\* fields (name, description, files, deadline).
HomeworkRow ==
    [answer : Persons \union {Null}, brief : Persons \union {Null},
     deleted : BOOLEAN]

\* LessonCreateSchema and LessonUpdateSchema refuse a body whose two times are
\* out of order.
LessonBody ==
    {b \in [student : Persons, start : Times, end : Times,
            status : LessonStatuses] : b.start < b.end}
LessonPatch ==
    [student : Persons \union {Null, JsonNull},
     start : Times \union {Null}, end : Times \union {Null},
     status : LessonStatuses \union {Null, JsonNull}]

\* Every lesson is a lesson of a pair with a relation row, archived or not.
PairsOfLessonsIn(table, related) ==
    \A l \in LessonIds :
        table[l] # Null => RelationPair(related, table[l].teacher, table[l].student)

\* UNIQUE (homework_id), and the foreign key to homeworks.
LinksIn(table, rows) ==
    \A l, m \in LessonIds :
        (table[l] # Null /\ table[l].homework # Null) =>
            /\ rows[table[l].homework] # Null
            /\ (table[m] # Null /\ table[m].homework = table[l].homework)
                => l = m

\* The homework of a lesson carries the brief of the lesson's teacher, and an
\* answer, if any, of the lesson's student.
AuthorsIn(table, rows) ==
    \A l \in LessonIds :
        (table[l] # Null /\ table[l].homework # Null) =>
            LET h == rows[table[l].homework] IN
            /\ h.answer \in {Null, table[l].student}
            /\ h.brief = table[l].teacher

ASSUME TimesAreNaturals == Times \subseteq Nat

ASSUME NullIsNoLesson ==
    /\ Null \notin LessonIds \union HomeworkIds
    /\ Null \notin Times /\ Null \notin LessonStatuses
    /\ Null \notin LessonRow /\ Null \notin HomeworkRow
    /\ Null \notin [op : {"update_lesson"}, lesson : LessonIds, patch : LessonPatches]
    /\ JsonNull \notin Persons \union LessonStatuses \union {Null}

ASSUME BodiesPassSchema ==
    /\ LessonBodies \subseteq LessonBody
    /\ LessonPatches \subseteq LessonPatch
    /\ \A p \in LessonPatches :
        (p.start \in Times /\ p.end \in Times) => p.start < p.end

ASSUME InitialLessonsAreLegal ==
    /\ InitialLessons \in [LessonIds -> LessonRow \union {Null}]
    /\ InitialHomeworks \in [HomeworkIds -> HomeworkRow \union {Null}]
    /\ PairsOfLessonsIn(InitialLessons, InitialRelations)
    /\ LinksIn(InitialLessons, InitialHomeworks)
    /\ AuthorsIn(InitialLessons, InitialHomeworks)

LessonsSteps ==
    RelationsSteps \union
        {"insert_lesson", "check_update", "reread_update", "write_update",
         "write_lesson_delete"}

LessonsInit ==
    /\ lessons = InitialLessons
    /\ homeworks = InitialHomeworks
    /\ RelationsInit

-----------------------------------------------------------------------------
\* A lesson a teacher's queries can find: WHERE id, teacher_id, NOT is_deleted.
Owns(t, l) ==
    lessons[l] # Null /\ lessons[l].teacher = t /\ ~lessons[l].deleted

\* LESSON_STATUS_TRANSITIONS.  Mutant (AnyStatus): a passed lesson can go on.
AnyStatus(from) == LessonStatuses
AllowedStatus(from) == IF from = "active" THEN LessonStatuses ELSE {from}

\* The fields a patch gives, over a row: update_data.get(field, row.field).
Given(patch, field, row) ==
    IF patch[field] = Null THEN row[field] ELSE patch[field]

\* setattr of the remaining update_data.  The student of the body is not among
\* it: update_lesson has a parameter of that name, a filter on the lesson.
Patched(row, patch) ==
    [col \in DOMAIN row |->
        IF col \in {"start", "end", "status"} THEN Given(patch, col, row)
        ELSE row[col]]
MatchesStudent(patch, row) == patch.student \in {Null, row.student}

\* Mutant: the body is stored first and the relation looked up afterwards.
CreateLessonUnrelated(r) ==
    /\ Enter(r, "lessons/create", {Teacher})
    /\ \E body \in LessonBodies :
        /\ ask' = [ask EXCEPT ![r] = [op |-> "create_lesson", body |-> body]]
        /\ Goto(r, "insert_lesson")
    /\ UNCHANGED <<lessons, homeworks, relations, users, token, me, seen>>

\* POST /lessons/create: the pair needs an active relation.
CreateLesson(r) ==
    /\ Enter(r, "lessons/create", {Teacher})
    /\ \E body \in LessonBodies :
        /\ ask' = [ask EXCEPT ![r] = [op |-> "create_lesson", body |-> body]]
        /\ Goto(r, IF ActiveRelation(token[r].sub, body.student)
                   THEN "insert_lesson" ELSE "forbidden")
    /\ UNCHANGED <<lessons, homeworks, relations, users, token, me, seen>>

\* INSERT and COMMIT, on the word of the relation read before.
InsertLesson(r) ==
    /\ pc[r] = "insert_lesson"
    /\ \E l \in LessonIds :
        /\ lessons[l] = Null
        /\ LET body == ask[r].body IN
            lessons' = [lessons EXCEPT ![l] =
                [teacher |-> token[r].sub, student |-> body.student,
                 start |-> body.start, end |-> body.end,
                 status |-> body.status, deleted |-> FALSE,
                 homework |-> Null]]
    /\ Goto(r, "respond")
    /\ UNCHANGED <<homeworks, relations, users, token, me, ask, seen>>

\* PUT /lessons/update/{id} with an explicit null for a time: the validator of
\* the schema raises an AttributeError, after the dependencies have run.
RefuseNullTime(r) ==
    /\ Enter(r, "lessons/update", {Teacher})
    /\ Goto(r, "server_error")
    /\ UNCHANGED <<lessons, homeworks, relations, users, token, me, ask, seen>>

\* PUT /lessons/update/{id}: load the teacher's lesson.
UpdateLesson(r) ==
    /\ Enter(r, "lessons/update", {Teacher})
    /\ \E l \in LessonIds, patch \in LessonPatches :
        /\ ask' = [ask EXCEPT ![r] =
                    [op |-> "update_lesson", lesson |-> l, patch |-> patch]]
        /\ IF Owns(token[r].sub, l)
           THEN /\ seen' = [seen EXCEPT ![r] = lessons[l]]
                /\ Goto(r, "check_update")
           ELSE Goto(r, "not_found") /\ UNCHANGED seen
    /\ UNCHANGED <<lessons, homeworks, relations, users, token, me>>

\* Mutant: the time range is left to the schema.
CheckUpdateAnyTime(r) ==
    /\ pc[r] = "check_update"
    /\ LET new == Patched(seen[r], ask[r].patch)
           student == Given(ask[r].patch, "student", seen[r])
       IN Goto(r, IF ~ActiveRelation(token[r].sub, student)
                  THEN "forbidden"
                  ELSE IF new.status \notin AllowedStatus(seen[r].status)
                  THEN "bad_request"
                  ELSE "reread_update")
    /\ UNCHANGED <<lessons, homeworks, relations, users, token, me, ask, seen>>

\* SELECT the relation of the student in the body, or else the lesson's, then
\* check the times and the status change against the object loaded before.  A
\* null student is in no relation and a null status in no transition.
CheckUpdate(r) ==
    /\ pc[r] = "check_update"
    /\ LET new == Patched(seen[r], ask[r].patch)
           student == Given(ask[r].patch, "student", seen[r])
       IN Goto(r, IF ~ActiveRelation(token[r].sub, student)
                  THEN "forbidden"
                  ELSE IF \/ new.start >= new.end
                          \/ new.status \notin AllowedStatus(seen[r].status)
                  THEN "bad_request"
                  ELSE "reread_update")
    /\ UNCHANGED <<lessons, homeworks, relations, users, token, me, ask, seen>>

\* update_lesson selects the lesson again, by the student of the body too.  The
\* WHERE clause sees fresh rows: a lesson that was deleted meanwhile, or is
\* another student's, gives None, and the service reads None.id.  A row that
\* matches leaves the loaded object as it was.
RereadUpdate(r) ==
    /\ pc[r] = "reread_update"
    /\ LET l == ask[r].lesson
       IN Goto(r, IF /\ Owns(token[r].sub, l)
                     /\ MatchesStudent(ask[r].patch, lessons[l])
                  THEN "write_update" ELSE "server_error")
    /\ UNCHANGED <<lessons, homeworks, relations, users, token, me, ask, seen>>

\* Mutant: the whole loaded object is written back.
WriteUpdateWholeRow(r) ==
    /\ pc[r] = "write_update"
    /\ lessons' = [lessons EXCEPT ![ask[r].lesson] =
                    Patched(seen[r], ask[r].patch)]
    /\ Goto(r, "respond")
    /\ UNCHANGED <<homeworks, relations, users, token, me, ask, seen>>

\* UPDATE by primary key and COMMIT, of the columns the patch changed.
WriteUpdate(r) ==
    /\ pc[r] = "write_update"
    /\ lessons' = [lessons EXCEPT ![ask[r].lesson] =
                    Merge(@, seen[r], Patched(seen[r], ask[r].patch))]
    /\ Goto(r, "respond")
    /\ UNCHANGED <<homeworks, relations, users, token, me, ask, seen>>

\* Mutant: a missing row is not answered with 404.
DeleteLessonMissing(r) ==
    /\ Enter(r, "lessons/delete", {Teacher})
    /\ \E l \in LessonIds :
        /\ ask' = [ask EXCEPT ![r] = [op |-> "delete_lesson", lesson |-> l]]
        /\ seen' = [seen EXCEPT ![r] = lessons[l]]
        /\ Goto(r, IF lessons[l] = Null \/ Owns(token[r].sub, l)
                   THEN "write_lesson_delete" ELSE "not_found")
    /\ UNCHANGED <<lessons, homeworks, relations, users, token, me>>

\* DELETE /lessons/delete/{id}: load the lesson and the homework it links.  A
\* linked homework is never physically removed, so the second statement of the
\* load adds nothing to the first.
DeleteLesson(r) ==
    /\ Enter(r, "lessons/delete", {Teacher})
    /\ \E l \in LessonIds :
        /\ ask' = [ask EXCEPT ![r] = [op |-> "delete_lesson", lesson |-> l]]
        /\ IF Owns(token[r].sub, l)
           THEN /\ seen' = [seen EXCEPT ![r] = lessons[l]]
                /\ Goto(r, "write_lesson_delete")
           ELSE Goto(r, "not_found") /\ UNCHANGED seen
    /\ UNCHANGED <<lessons, homeworks, relations, users, token, me>>

\* Mutant: the homework is left for later.
WriteLessonDeleteOnly(r) ==
    /\ pc[r] = "write_lesson_delete"
    /\ lessons' = [lessons EXCEPT ![ask[r].lesson].deleted = TRUE]
    /\ Goto(r, "respond")
    /\ UNCHANGED <<homeworks, relations, users, token, me, ask, seen>>

\* Soft-delete both rows in one COMMIT.
WriteLessonDelete(r) ==
    /\ pc[r] = "write_lesson_delete"
    /\ lessons' = [lessons EXCEPT ![ask[r].lesson].deleted = TRUE]
    /\ homeworks' = IF seen[r].homework = Null THEN homeworks
                    ELSE [homeworks EXCEPT ![seen[r].homework].deleted = TRUE]
    /\ Goto(r, "respond")
    /\ UNCHANGED <<relations, users, token, me, ask, seen>>

LessonsStep(r) ==
    \/ CreateLesson(r) \/ InsertLesson(r)
    \/ RefuseNullTime(r) \/ UpdateLesson(r) \/ CheckUpdate(r)
    \/ RereadUpdate(r) \/ WriteUpdate(r)
    \/ DeleteLesson(r) \/ WriteLessonDelete(r)
=============================================================================
