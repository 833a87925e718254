------------------------------- MODULE Reads -------------------------------
(***************************************************************************)
(* The endpoints that only read.  A reply on homework is put together from *)
(* two statements; in between the tables go on.                            *)
(***************************************************************************)
EXTENDS Homeworks

ReadsSteps == HomeworksSteps \union {"load_lessons"}

-----------------------------------------------------------------------------
\* The filters of a query depend on the role of the user row; without one of
\* the two roles there are none, and nothing is shown.
Shown(r, l) == me[r].role \in KeycloakRoles /\ OnOwnSide(r, l)

\* GET /relations/students and /relations/teachers, archived ones on demand.
ListRelations(r) ==
    /\ \E side \in KeycloakRoles, archived \in BOOLEAN :
        /\ Enter(r, "relations/list", {side})
        /\ ask' = [ask EXCEPT ![r] = [op |-> "list_relations"]]
        /\ seen' = [seen EXCEPT ![r] =
                {i \in RelationIds :
                    /\ relations[i] # Null
                    /\ token[r].sub = IF side = Teacher THEN relations[i].teacher
                                      ELSE relations[i].student
                    /\ archived \/ relations[i].status = "active"}]
    /\ Goto(r, "ok")
    /\ UNCHANGED <<lessons, homeworks, relations, users, token, me>>

\* GET /lessons, of a time window: each side of it may be left open.
ListLessons(r) ==
    /\ Enter(r, "lessons/list", {})
    /\ \E from, to \in Times \union {Null} :
        /\ ask' = [ask EXCEPT ![r] = [op |-> "list_lessons"]]
        /\ seen' = [seen EXCEPT ![r] =
                {l \in LessonIds :
                    /\ lessons[l] # Null /\ ~lessons[l].deleted
                    /\ Shown(r, l)
                    /\ from # Null => from <= lessons[l].start
                    /\ to # Null => lessons[l].end <= to}]
    /\ Goto(r, "ok")
    /\ UNCHANGED <<lessons, homeworks, relations, users, token, me>>

\* What a read of homework has found, its lessons not loaded yet.
Found(r, hs) ==
    /\ ask' = [ask EXCEPT ![r] = [op |-> "read_homework"]]
    /\ seen' = [seen EXCEPT ![r] = [h \in hs |-> {}]]
    /\ Goto(r, IF hs = {} THEN "ok" ELSE "load_lessons")

\* GET /homeworks, of one lesson or of all.
ListHomeworks(r) ==
    /\ Enter(r, "homeworks/read", {})
    /\ \E only \in SUBSET LessonIds :
        /\ only = LessonIds \/ \E l \in LessonIds : only = {l}
        /\ Found(r, {h \in HomeworkIds :
                \E l \in LessonOf(h) \intersect only : Shown(r, l) /\ Visible(r, h, l)})
    /\ UNCHANGED <<lessons, homeworks, relations, users, token, me>>

\* GET /homeworks/{id}
GetHomework(r) ==
    /\ Enter(r, "homeworks/read", {})
    /\ \E h \in HomeworkIds :
        \/ /\ me[r].role \notin KeycloakRoles
           /\ Goto(r, "forbidden") /\ UNCHANGED <<ask, seen>>
        \/ /\ me[r].role \in KeycloakRoles /\ ~VisibleHomework(r, h)
           /\ Goto(r, "not_found") /\ UNCHANGED <<ask, seen>>
        \/ /\ me[r].role \in KeycloakRoles /\ VisibleHomework(r, h)
           /\ Found(r, {h})
    /\ UNCHANGED <<lessons, homeworks, relations, users, token, me>>

\* The eager load of homework.lesson is a second statement, without the filters
\* of the first; a homework unlinked in between is shown without a lesson.
LoadLessons(r) ==
    /\ pc[r] = "load_lessons"
    /\ seen' = [seen EXCEPT ![r] = [h \in DOMAIN @ |-> LessonOf(h)]]
    /\ Goto(r, "ok")
    /\ UNCHANGED <<lessons, homeworks, relations, users, token, me, ask>>

ReadsStep(r) ==
    \/ ListRelations(r) \/ ListLessons(r) \/ ListHomeworks(r) \/ GetHomework(r)
    \/ LoadLessons(r)
=============================================================================
