----------------------------- MODULE Classroom -----------------------------
(***************************************************************************)
(* What the endpoints promise somebody who sends one request after the     *)
(* other: pairs that may work together, a timetable of lessons, and on a   *)
(* lesson at most one homework with the student's answer.  There are no    *)
(* statements, deletion marks, links or remembered objects here.           *)
(***************************************************************************)
EXTENDS Naturals

CONSTANTS
    Persons, LessonIds, Times, Statuses,
    None    \* no such lesson, no homework, no answer

VARIABLES
    open,       \* the pairs <<teacher, student>> that work together
    timetable,  \* the lessons that are on
    homework    \* the homework of each

classroom == <<open, timetable, homework>>

Lesson ==
    {l \in [teacher : Persons, student : Persons, start : Times, end : Times,
            status : Statuses] : l.start < l.end}
Homework == [answer : Persons \union {None}]

MayTeach(lesson) == <<lesson.teacher, lesson.student>> \in open

Init ==
    /\ open \subseteq Persons \X Persons
    /\ timetable \in [LessonIds -> Lesson \union {None}]
    /\ homework \in [LessonIds -> Homework \union {None}]
    /\ \A l \in LessonIds : timetable[l] = None => homework[l] = None

Open(pair) ==
    /\ pair \notin open
    /\ open' = open \union {pair}
    /\ UNCHANGED <<timetable, homework>>

Close(pair) ==
    /\ pair \in open
    /\ open' = open \ {pair}
    /\ UNCHANGED <<timetable, homework>>

\* A lesson that may be taught stands at l, and nothing else is moved.
PutOn(l) ==
    /\ timetable'[l] \in Lesson
    /\ MayTeach(timetable'[l])
    /\ timetable' = [timetable EXCEPT ![l] = timetable'[l]]
    /\ UNCHANGED <<open, homework>>

Schedule(l) == timetable[l] = None /\ PutOn(l)

\* A lesson moves in time or ends; it stays the lesson of its pair.
Change(l) ==
    /\ timetable[l] # None
    /\ PutOn(l)
    /\ \A side \in {"teacher", "student"} :
        timetable'[l][side] = timetable[l][side]
    /\ timetable[l].status # "active" => timetable'[l].status = timetable[l].status

Drop(l) ==
    /\ timetable[l] # None
    /\ timetable' = [timetable EXCEPT ![l] = None]
    /\ homework' = [homework EXCEPT ![l] = None]
    /\ UNCHANGED open

Assign(l) ==
    /\ timetable[l] # None /\ homework[l] = None
    /\ MayTeach(timetable[l])
    /\ homework' = [homework EXCEPT ![l] = [answer |-> None]]
    /\ UNCHANGED <<open, timetable>>

\* The student of the lesson may answer after the pair was closed, too.
Answer(l) ==
    /\ homework[l] # None
    /\ homework' = [homework EXCEPT ![l].answer = timetable[l].student]
    /\ UNCHANGED <<open, timetable>>

Withdraw(l) ==
    /\ homework[l] # None
    /\ homework' = [homework EXCEPT ![l] = None]
    /\ UNCHANGED <<open, timetable>>

Next ==
    \/ \E pair \in Persons \X Persons : Open(pair) \/ Close(pair)
    \/ \E l \in LessonIds :
        Schedule(l) \/ Change(l) \/ Drop(l) \/ Assign(l) \/ Answer(l) \/ Withdraw(l)

Spec == Init /\ [][Next]_classroom
=============================================================================
