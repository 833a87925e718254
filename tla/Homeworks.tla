----------------------------- MODULE Homeworks -----------------------------
(***************************************************************************)
(* Homework: a teacher attaches one to a lesson, teacher and student edit  *)
(* their own fields of it, the teacher soft-deletes and unlinks it.        *)
(***************************************************************************)
EXTENDS Lessons

HomeworksSteps ==
    LessonsSteps \union
        {"check_homework", "reread_lesson", "insert_homework",
         "write_homework", "load_linked_lesson", "write_homework_delete",
         "serialize_homework"}

-----------------------------------------------------------------------------
\* The lesson a homework hangs on; at most one, homework_id being unique.
LessonOf(h) ==
    {l \in LessonIds : lessons[l] # Null /\ lessons[l].homework = h}

\* The role the user row had when the request was authenticated decides which
\* side of a lesson must be the user's.
OnOwnSide(r, l) ==
    token[r].sub = IF me[r].role = Student THEN lessons[l].student
                   ELSE lessons[l].teacher

\* SELECT homeworks JOIN lessons: both live, the lesson the user's own.
Visible(r, h, l) ==
    /\ homeworks[h] # Null /\ ~homeworks[h].deleted
    /\ ~lessons[l].deleted
    /\ OnOwnSide(r, l)

VisibleHomework(r, h) == \E l \in LessonOf(h) : Visible(r, h, l)

\* POST /homeworks/create: load the teacher's lesson.
CreateHomework(r) ==
    /\ Enter(r, "homeworks/create", {Teacher})
    /\ \E l \in LessonIds :
        /\ ask' = [ask EXCEPT ![r] = [op |-> "create_homework", lesson |-> l]]
        /\ IF Owns(token[r].sub, l)
           THEN /\ seen' = [seen EXCEPT ![r] = lessons[l]]
                /\ Goto(r, "check_homework")
           ELSE Goto(r, "not_found") /\ UNCHANGED seen
    /\ UNCHANGED <<lessons, homeworks, relations, users, token, me>>

\* The pair of the loaded lesson needs an active relation.
CheckHomework(r) ==
    /\ pc[r] = "check_homework"
    /\ Goto(r, IF ActiveRelation(token[r].sub, seen[r].student)
               THEN "reread_lesson" ELSE "forbidden")
    /\ UNCHANGED <<lessons, homeworks, relations, users, token, me, ask, seen>>

\* Mutant: the existing homework of the lesson is not looked at.
RereadLessonOnly(r) ==
    /\ pc[r] = "reread_lesson"
    /\ Goto(r, IF ~Owns(token[r].sub, ask[r].lesson) THEN "server_error"
               ELSE "insert_homework")
    /\ UNCHANGED <<lessons, homeworks, relations, users, token, me, ask, seen>>

\* create_homework selects the lesson again: a lesson deleted meanwhile gives
\* None and the service reads None.id.  The eager load follows the homework_id
\* of the object loaded before, and reads that homework's row as it is now.
RereadLesson(r) ==
    /\ pc[r] = "reread_lesson"
    /\ Goto(r, IF ~Owns(token[r].sub, ask[r].lesson) THEN "server_error"
               ELSE IF /\ seen[r].homework # Null
                       /\ ~homeworks[seen[r].homework].deleted
               THEN "conflict"
               ELSE "insert_homework")
    /\ UNCHANGED <<lessons, homeworks, relations, users, token, me, ask, seen>>

\* Mutant: a soft-deleted row is used again for the new homework.
InsertHomeworkRecycled(r) ==
    /\ pc[r] = "insert_homework"
    /\ \E h \in HomeworkIds :
        /\ \/ homeworks[h] = Null
           \/ homeworks[h] # Null /\ homeworks[h].deleted
        /\ homeworks' = [homeworks EXCEPT ![h] =
                [answer |-> Null, brief |-> token[r].sub, deleted |-> FALSE]]
        /\ lessons' = [lessons EXCEPT ![ask[r].lesson].homework = h]
    /\ Goto(r, "serialize_homework")
    /\ UNCHANGED <<relations, users, token, me, ask, seen>>

\* INSERT the homework, UPDATE the lesson's link by primary key, COMMIT.
InsertHomework(r) ==
    /\ pc[r] = "insert_homework"
    /\ \E h \in HomeworkIds :
        /\ homeworks[h] = Null
        /\ homeworks' = [homeworks EXCEPT ![h] =
                [answer |-> Null, brief |-> token[r].sub, deleted |-> FALSE]]
        /\ lessons' = [lessons EXCEPT ![ask[r].lesson].homework = h]
    /\ Goto(r, "serialize_homework")
    /\ UNCHANGED <<relations, users, token, me, ask, seen>>

\* PUT /homeworks/update/{id}: who may see it depends on the role, and so do
\* the fields that survive in the payload.
UpdateHomework(r) ==
    /\ Enter(r, "homeworks/update", {})
    /\ \E h \in HomeworkIds, fields \in SUBSET {"answer", "brief"} :
        /\ fields # {}
        /\ ask' = [ask EXCEPT ![r] = [op |-> "update_homework", homework |-> h,
                                      fields |-> fields]]
        /\ Goto(r, IF me[r].role \notin KeycloakRoles THEN "forbidden"
                   ELSE IF ~VisibleHomework(r, h) THEN "not_found"
                   ELSE "write_homework")
    /\ UNCHANGED <<lessons, homeworks, relations, users, token, me, seen>>

\* Mutant: the fields are chosen by the role the row has by then.
OwnFieldByRow(r) ==
    IF users[token[r].sub].role = Student THEN "answer" ELSE "brief"

\* Of the fields in the body a student writes the answer, a teacher the rest.
OwnField(r) == IF me[r].role = Student THEN "answer" ELSE "brief"

\* UPDATE by primary key and COMMIT of the role's own fields, if the body has
\* any; otherwise the COMMIT has nothing to write.
WriteHomework(r) ==
    /\ pc[r] = "write_homework"
    /\ homeworks' =
            IF OwnField(r) \notin ask[r].fields THEN homeworks
            ELSE [homeworks EXCEPT ![ask[r].homework][OwnField(r)] = token[r].sub]
    /\ Goto(r, "serialize_homework")
    /\ UNCHANGED <<lessons, relations, users, token, me, ask, seen>>

\* refresh() expires homework.lesson, and serialize_homework reads it: the
\* reply may fail although the work is committed.
SerializeHomework(r) ==
    /\ pc[r] = "serialize_homework"
    /\ \E outcome \in {"ok", "response_error"} : Goto(r, outcome)
    /\ UNCHANGED <<lessons, homeworks, relations, users, token, me, ask, seen>>

\* DELETE /homeworks/delete/{id}: the join finds it for the lesson's teacher.
DeleteHomework(r) ==
    /\ Enter(r, "homeworks/delete", {Teacher})
    /\ \E h \in HomeworkIds :
        /\ ask' = [ask EXCEPT ![r] = [op |-> "delete_homework", homework |-> h]]
        /\ Goto(r, IF \E l \in LessonOf(h) :
                        /\ homeworks[h] # Null /\ ~homeworks[h].deleted
                        /\ Owns(token[r].sub, l)
                   THEN "load_linked_lesson" ELSE "not_found")
    /\ UNCHANGED <<lessons, homeworks, relations, users, token, me, seen>>

\* The eager load of homework.lesson is a second statement; it finds no lesson
\* when somebody unlinked the homework in between.
LoadLinkedLesson(r) ==
    /\ pc[r] = "load_linked_lesson"
    /\ seen' = [seen EXCEPT ![r] = LessonOf(ask[r].homework)]
    /\ Goto(r, "write_homework_delete")
    /\ UNCHANGED <<lessons, homeworks, relations, users, token, me, ask>>

\* Soft-delete the homework and set the loaded lesson's link to NULL, whatever
\* homework that lesson links by now; one COMMIT.
WriteHomeworkDelete(r) ==
    /\ pc[r] = "write_homework_delete"
    /\ homeworks' = [homeworks EXCEPT ![ask[r].homework].deleted = TRUE]
    /\ lessons' = [l \in LessonIds |->
            IF l \in seen[r] THEN [lessons[l] EXCEPT !.homework = Null]
            ELSE lessons[l]]
    /\ Goto(r, "respond")
    /\ UNCHANGED <<relations, users, token, me, ask, seen>>

HomeworksStep(r) ==
    \/ CreateHomework(r) \/ CheckHomework(r) \/ RereadLesson(r)
    \/ InsertHomework(r) \/ UpdateHomework(r) \/ WriteHomework(r)
    \/ SerializeHomework(r) \/ DeleteHomework(r) \/ LoadLinkedLesson(r)
    \/ WriteHomeworkDelete(r)
=============================================================================
