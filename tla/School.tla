------------------------------- MODULE School -------------------------------
(***************************************************************************)
(* The whole application: requests to every endpoint interleave over the   *)
(* four tables.                                                            *)
(***************************************************************************)
EXTENDS Reads

SchoolSteps == ReadsSteps

\* The steps at which a handler works on a lesson it has loaded.
HoldsLesson ==
    {"check_update", "reread_update", "write_update", "write_lesson_delete",
     "check_homework", "reread_lesson", "insert_homework"}

SchoolTypeOK ==
    /\ relations \in [RelationIds -> RelationRow \union {Null}]
    /\ lessons \in [LessonIds -> LessonRow \union {Null}]
    /\ homeworks \in [HomeworkIds -> HomeworkRow \union {Null}]
    /\ SessionTypeOK(SchoolSteps)
    /\ \A r \in Requests : pc[r] \in HoldsLesson => seen[r] \in LessonRow

SchoolInit == LessonsInit

SchoolNext ==
    \E r \in Requests :
        \/ UsersStep(r) /\ UNCHANGED <<relations, lessons, homeworks>>
        \/ RelationsStep(r) /\ UNCHANGED <<lessons, homeworks>>
        \/ LessonsStep(r)
        \/ HomeworksStep(r)
        \/ ReadsStep(r)

SchoolSpec == SchoolInit /\ [][SchoolNext]_schoolVars

-----------------------------------------------------------------------------
\* Safety with any number of requests in progress
\* Nobody has a lesson in somebody's name without ever having been related to
\* them: the check at creation holds up although the row is written in another
\* statement, and no later update gives the lesson to somebody else.
LessonPairRelated == PairsOfLessonsIn(lessons, relations)

\* Two lessons never share a homework and no link dangles, although links are
\* set and cleared by primary key from objects loaded earlier.
HomeworkLinkedOnce == LinksIn(lessons, homeworks)

\* What every step keeps: a lesson its row, its pair and its deletion, a
\* homework its row and its deletion.  What is linked is new, or was so before.
LinkStays(l) == lessons[l] # Null /\ lessons[l].homework = lessons'[l].homework
LessonsAdvance ==
    \A l \in LessonIds :
        /\ lessons[l] # Null =>
            /\ lessons'[l] # Null
            /\ lessons'[l].teacher = lessons[l].teacher
            /\ lessons'[l].student = lessons[l].student
            /\ lessons[l].deleted => lessons'[l].deleted
        /\ (lessons'[l] # Null /\ lessons'[l].homework # Null) =>
            LinkStays(l) \/ homeworks[lessons'[l].homework] = Null
HomeworksAdvance ==
    \A h \in HomeworkIds :
        homeworks[h] # Null =>
            /\ homeworks'[h] # Null
            /\ homeworks[h].deleted => homeworks'[h].deleted

\* A deleted lesson or homework never comes back, however stale the object is
\* that a late update writes from; an unlinked homework is never linked again;
\* and a lesson stays the lesson of its pair, whatever student an update names.
DeletionIsFinal ==
    [][LessonsAdvance /\ HomeworksAdvance]_<<lessons, homeworks>>

\* The answer on a lesson's homework is by the lesson's student and the brief
\* by its teacher, although both are updated by primary key after the homework
\* was looked up and the writer's role may have changed with another login.
AuthorsOwn == AuthorsIn(lessons, homeworks)

\* A person the teacher has, or has had, a relation with, or the teacher.
InPair(p, t) == p = t \/ RelationPair(relations, t, p)

IsOn(p, l) == p \in {lessons[l].teacher, lessons[l].student}

\* Nobody is shown somebody else's lesson, on its own or with a homework, nor
\* the homework of a teacher they were never related to: not when their role
\* changes with another login, nor when the homework is unlinked, or another
\* one linked, between the two statements of one reply.
RepliesOwn ==
    \A r \in Requests :
        (pc[r] = "ok" /\ ask[r] # Null) =>
            /\ ask[r].op = "list_lessons" =>
                \A l \in seen[r] : IsOn(token[r].sub, l)
            /\ ask[r].op = "read_homework" =>
                \A h \in DOMAIN seen[r] :
                    /\ InPair(token[r].sub, homeworks[h].brief)
                    /\ \A l \in seen[r][h] : IsOn(token[r].sub, l)

\* A delete that is answered 200 has deleted, and so has what it went with: the
\* homework with its lesson, the link with the homework, also when somebody
\* else unlinked or deleted in between.
DeletedWhenAnswered ==
    \A r \in Requests :
        (pc[r] \in {"respond", "ok"} /\ ask[r] # Null) =>
            /\ ask[r].op = "delete_lesson" =>
                /\ lessons[ask[r].lesson].deleted
                /\ seen[r].homework # Null => homeworks[seen[r].homework].deleted
            /\ ask[r].op = "delete_homework" =>
                /\ homeworks[ask[r].homework].deleted
                /\ LessonOf(ask[r].homework) = {}

-----------------------------------------------------------------------------
\* Safety with one request at a time
\* A lesson starts before it ends, through any sequence of partial updates.
TimesOrdered ==
    \A l \in LessonIds : lessons[l] # Null => lessons[l].start < lessons[l].end

\* passed and cancelled are final (LESSON_STATUS_TRANSITIONS).
StatusTransitions ==
    [][\A l \in LessonIds :
        (lessons[l] # Null /\ lessons'[l].status # lessons[l].status)
            => lessons[l].status = "active"]_lessons

\* Every live homework hangs on a live lesson, where its owners can find it,
\* and a live lesson links no deleted homework.
HomeworkLivesWithLesson ==
    /\ \A h \in HomeworkIds :
        (homeworks[h] # Null /\ ~homeworks[h].deleted) =>
            \E l \in LessonOf(h) : ~lessons[l].deleted
    /\ \A l \in LessonIds :
        (/\ lessons[l] # Null /\ ~lessons[l].deleted
         /\ lessons[l].homework # Null) => ~homeworks[lessons[l].homework].deleted

\* An exception nobody handles means that the token has no application role,
\* that its email belongs to somebody else's row, that the body gives a time as
\* null, the user in sync already, or that it names a student who is not the
\* lesson's.  No handler fails otherwise: what it writes has been checked, and
\* what it checked has not changed.
NamesOtherStudent(r) ==
    /\ ask[r].op = "update_lesson"
    /\ lessons[ask[r].lesson] # Null
    /\ ~MatchesStudent(ask[r].patch, lessons[ask[r].lesson])
ServerErrorsExplained ==
    \A r \in Requests :
        pc[r] = "server_error" =>
            IF ask[r] # Null THEN NamesOtherStudent(r)
            ELSE \/ RoleOf(token[r]) = Null
                 \/ EmailTaken(token[r].sub, token[r].email)
                 \/ me[r] = Profile(token[r])

-----------------------------------------------------------------------------
\* Refinement with one request at a time
Live(l) == lessons[l] # Null /\ ~lessons[l].deleted
LiveHomework(l) ==
    /\ Live(l) /\ lessons[l].homework # Null
    /\ ~homeworks[lessons[l].homework].deleted

\* What clients are told of a lesson, and of its homework.
OnTimetable(l) ==
    IF Live(l) THEN [teacher |-> lessons[l].teacher, student |-> lessons[l].student,
                     start |-> lessons[l].start, end |-> lessons[l].end,
                     status |-> lessons[l].status]
    ELSE Null
HomeworkOn(l) ==
    IF LiveHomework(l) THEN [answer |-> homeworks[lessons[l].homework].answer] ELSE Null

Class == INSTANCE Classroom WITH
    None <- Null,
    Statuses <- LessonStatuses,
    open <- PairsWith("active"),
    timetable <- [l \in LessonIds |-> OnTimetable(l)],
    homework <- [l \in LessonIds |-> HomeworkOn(l)]

ASSUME NullIsNothing == Null \notin Class!Lesson \union Class!Homework

\* Whoever sends one request after the other cannot tell the statements, the
\* deletion marks and the links from a classroom in which every request is one
\* step: what it checks holds when it writes, and what goes together goes at once.
ImplementsClassroom == Class!Spec

-----------------------------------------------------------------------------
\* What the code says and two requests in progress break
\* create_homework: "Create a homework record and attach it to the requested
\* lesson."  A homework answered as created is attached while it is live.
CreatedHomeworkIsAttached ==
    \A h \in HomeworkIds :
        (homeworks[h] # Null /\ ~homeworks[h].deleted) => LessonOf(h) # {}
=============================================================================
