------------------------------ MODULE MCSchool ------------------------------
(* One teacher, two students with an account each.  The teacher's relation  *)
(* with sam is active; with sue it is archived or yet to be created.        *)
EXTENDS School

CONSTANTS r1, r2, ann, sam, sue, rel1, rel2, les1, les2, hw1, hw2, hw3

MCPersons == {ann, sam, sue}
MCEmails == {"a@x", "m@x", "u@x"}

AnnToken == [sub |-> ann, email |-> "a@x", roles |-> {Teacher}]
SamToken == [sub |-> sam, email |-> "m@x", roles |-> {Student}]
SueToken == [sub |-> sue, email |-> "u@x", roles |-> {Student}]
MCTokens == {AnnToken, SamToken, SueToken}

\* Sam becomes a teacher too, or loses every role; Ann takes Sue's email.
PromotedSam == [SamToken EXCEPT !.roles = {Student, Teacher}]
RolelessSam == [SamToken EXCEPT !.roles = {}]
AnnAsSue == [AnnToken EXCEPT !.email = "u@x"]
SamComesOfAge == {AnnToken, SamToken, PromotedSam}
ChangingTokens ==
    {AnnToken, SamToken, PromotedSam, RolelessSam, AnnAsSue}
TeacherOnly == {AnnToken}

\* Everybody's row is in sync with their token.
MCUsers ==
    [p \in MCPersons |->
        Profile(CHOOSE t \in {AnnToken, SamToken, SueToken} : t.sub = p)]

ActiveWithSam == [teacher |-> ann, student |-> sam, status |-> "active"]
ActiveWithSue == [teacher |-> ann, student |-> sue, status |-> "active"]

OneRelation ==
    [i \in RelationIds |-> IF i = rel1 THEN ActiveWithSam ELSE Null]
TwoRelations ==
    [i \in RelationIds |->
        IF i = rel1 THEN ActiveWithSam
        ELSE IF i = rel2 THEN ActiveWithSue ELSE Null]

NoLessons == [l \in LessonIds |-> Null]
NoHomeworks == [h \in HomeworkIds |-> Null]

Lesson ==
    [teacher |-> ann, student |-> sam, start |-> 1, end |-> 2,
     status |-> "active", deleted |-> FALSE, homework |-> Null]
LessonOfEach ==
    [l \in LessonIds |->
        IF l = les1 THEN Lesson ELSE [Lesson EXCEPT !.student = sue]]
LessonWithHomework ==
    [l \in LessonIds |->
        IF l = les1 THEN [Lesson EXCEPT !.homework = hw1] ELSE Null]
OneHomework ==
    [h \in HomeworkIds |->
        IF h = hw1 THEN [answer |-> sam, brief |-> ann, deleted |-> FALSE] ELSE Null]
OneLesson == [l \in LessonIds |-> IF l = les1 THEN Lesson ELSE Null]

Body(s, status) == [student |-> s, start |-> 1, end |-> 2, status |-> status]
SomeBodies == {Body(sam, "active"), Body(sue, "active")}

Patch == [student |-> Null, start |-> Null, end |-> Null, status |-> Null]
SomePatches ==
    {[Patch EXCEPT !.student = sue], [Patch EXCEPT !.student = JsonNull],
     [Patch EXCEPT !.student = sam, !.status = "passed"]}
TimePatches ==
    {[Patch EXCEPT !.start = 2], [Patch EXCEPT !.end = 2],
     [Patch EXCEPT !.start = 1], [Patch EXCEPT !.end = 3]}
StatusPatches == {[Patch EXCEPT !.status = s] : s \in LessonStatuses}
AllBodies == LessonBody
\* A patch names the student or gives the status, not both.
AllPatches ==
    {p \in LessonPatch :
        /\ (p.start \in Times /\ p.end \in Times) => p.start < p.end
        /\ Null \in {p.student, p.status}}

\* les1 and hw1 are told apart from the others.
RequestSymmetry == Permutations(Requests)
RequestsAndHomeworks == Permutations(Requests) \union Permutations(HomeworkIds)

MCSymmetry ==
    Permutations(Requests) \union Permutations(HomeworkIds)
        \union Permutations(LessonIds)
=============================================================================
