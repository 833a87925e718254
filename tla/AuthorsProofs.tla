---------------------------- MODULE AuthorsProofs ----------------------------
(***************************************************************************)
(* Whose work hangs on a lesson, and who is shown it.  A homework hangs on *)
(* one lesson at most and never on another, so the lesson that a request   *)
(* found its user on is still the one when it writes or loads the lessons. *)
(***************************************************************************)
EXTENDS SchoolProofs

\* What a request knows of the people behind the rows it writes or shows.
KnowsAuthors(r) ==
    /\ pc[r] = "write_homework" =>
        IF me[r].role = Student
        THEN \A l \in LessonOf(ask[r].homework) : lessons[l].student = token[r].sub
        ELSE homeworks[ask[r].homework].brief = token[r].sub
    /\ (pc[r] \in {"load_lessons", "ok"} /\ ask[r] # Null /\ ask[r].op = "read_homework") =>
        \A h \in DOMAIN seen[r] :
            /\ HasHomework(h) /\ InPair(token[r].sub, homeworks[h].brief)
            /\ \A l \in seen[r][h] :
                l \in LessonIds /\ lessons[l] # Null /\ IsOn(token[r].sub, l)
    /\ pc[r] = "load_lessons" =>
        \A h \in DOMAIN seen[r] :
            HasHomework(h) /\ \A l \in LessonOf(h) : IsOn(token[r].sub, l)
    /\ (pc[r] = "ok" /\ ask[r] # Null /\ ask[r].op = "list_lessons") =>
        \A l \in seen[r] :
            l \in LessonIds /\ lessons[l] # Null /\ IsOn(token[r].sub, l)
    /\ pc[r] = "respond" => ask[r].op \notin {"list_lessons", "read_homework"}

\* The inductive invariant, on top of that of the tables.
AuthorsInv == AuthorsOwn /\ \A r \in Requests : KnowsAuthors(r)

\* What every step does to homeworks: briefs keep their author, a new answer is
\* by the student of every lesson the homework hangs on, and a new link is to a
\* new homework with the brief of the lesson's teacher.
WorkAdvances ==
    /\ \A h \in HomeworkIds : homeworks[h] # Null =>
        /\ homeworks'[h].brief = homeworks[h].brief
        /\ \/ homeworks'[h].answer \in {homeworks[h].answer, Null}
           \/ \A l \in LessonOf(h) : homeworks'[h].answer = lessons[l].student
    /\ \A l \in LessonIds : (lessons'[l] # Null /\ lessons'[l].homework # Null) =>
        /\ lessons[l] # Null
        /\ \/ lessons'[l].homework = lessons[l].homework
           \/ /\ homeworks'[lessons'[l].homework].answer = Null
              /\ homeworks'[lessons'[l].homework].brief = lessons[l].teacher

-----------------------------------------------------------------------------
\* The work stays by the people of its lesson when it advances.
LEMMA AuthorsAdvance ==
    ASSUME SchoolInv, AuthorsOwn, SchoolAdvance, WorkAdvances
    PROVE  AuthorsOwn'
<1> SUFFICES ASSUME NEW l \in LessonIds, lessons'[l] # Null, lessons'[l].homework # Null
             PROVE  LET h == homeworks'[lessons'[l].homework] IN
                    /\ h.answer \in {Null, lessons'[l].student}
                    /\ h.brief = lessons'[l].teacher
  BY DEF AuthorsOwn, AuthorsIn
<1>1. /\ lessons[l] # Null /\ lessons'[l].teacher = lessons[l].teacher
      /\ lessons'[l].student = lessons[l].student
  BY DEF WorkAdvances, SchoolAdvance, LessonsAdvance
<1>2. CASE /\ homeworks'[lessons'[l].homework].answer = Null
           /\ homeworks'[lessons'[l].homework].brief = lessons[l].teacher
  BY <1>1, <1>2
<1>3. CASE lessons'[l].homework = lessons[l].homework
  <2> DEFINE h == lessons[l].homework
  <2>1. h \in HomeworkIds /\ homeworks[h] # Null /\ l \in LessonOf(h)
    BY <1>1, <1>3, LessonColumns
       DEF SchoolInv, TablesOK, LessonsTableOK, HomeworkLinkedOnce, LinksIn, LessonOf
  <2>2. /\ homeworks[h].answer \in {Null, lessons[l].student}
        /\ homeworks[h].brief = lessons[l].teacher
    BY <1>1, <1>3 DEF AuthorsOwn, AuthorsIn
  <2>3. /\ homeworks'[h].brief = lessons[l].teacher
        /\ homeworks'[h].answer \in {Null, lessons[l].student}
    BY <2>1, <2>2 DEF WorkAdvances
  <2> QED
    BY <1>1, <1>3, <2>3
<1> QED
  BY <1>1, <1>2, <1>3 DEF WorkAdvances

\* A request that does not move keeps what it knows.
LEMMA OthersKeepAuthors ==
    ASSUME SchoolInv, SchoolAdvance, WorkAdvances, NEW q \in Requests, KnowsAuthors(q),
           pc'[q] = pc[q], token'[q] = token[q], me'[q] = me[q],
           ask'[q] = ask[q], seen'[q] = seen[q]
    PROVE  KnowsAuthors(q)'
<1>1. \A h : HasHomework(h) => HasHomework(h)' /\ homeworks'[h].brief = homeworks[h].brief
  BY DEF HasHomework, SchoolAdvance, HomeworksAdvance, WorkAdvances
<1>2. \A l \in LessonIds : lessons[l] # Null =>
        /\ lessons'[l] # Null /\ lessons'[l].teacher = lessons[l].teacher
        /\ lessons'[l].student = lessons[l].student
  BY DEF SchoolAdvance, LessonsAdvance
<1>3. pc[q] = "write_homework" => HasHomework(ask[q].homework)
  BY DEF SchoolInv, KnowsLesson
<1>4. \A p, t : InPair(p, t) => (p = t \/ RelationPair(relations', t, p))
  BY PairsStay DEF SchoolAdvance, InPair
<1>5. \A p : \A l \in LessonIds : (lessons[l] # Null /\ IsOn(p, l)) =>
        p \in {lessons'[l].teacher, lessons'[l].student}
  BY <1>2 DEF IsOn
<1>6. \A h : HasHomework(h) => LessonOf(h)' \subseteq LessonOf(h)
  BY LinksOnlyGo DEF SchoolAdvance
<1>7. \A h : \A l \in LessonOf(h) : l \in LessonIds /\ lessons[l] # Null
  BY DEF LessonOf
<1>8. pc[q] = "write_homework" =>
        IF me[q].role = Student
        THEN \A l \in LessonOf(ask[q].homework)' : lessons'[l].student = token[q].sub
        ELSE homeworks'[ask[q].homework].brief = token[q].sub
  BY <1>1, <1>2, <1>3, <1>6, <1>7 DEF KnowsAuthors
<1>9. (pc[q] \in {"load_lessons", "ok"} /\ ask[q] # Null /\ ask[q].op = "read_homework") =>
        \A h \in DOMAIN seen[q] :
            /\ HasHomework(h)'
            /\ \/ token[q].sub = homeworks'[h].brief
               \/ RelationPair(relations', homeworks'[h].brief, token[q].sub)
            /\ \A l \in seen[q][h] :
                /\ l \in LessonIds /\ lessons'[l] # Null
                /\ token[q].sub \in {lessons'[l].teacher, lessons'[l].student}
  BY <1>1, <1>2, <1>4, <1>5 DEF KnowsAuthors
<1>10. pc[q] = "load_lessons" =>
        \A h \in DOMAIN seen[q] :
            /\ HasHomework(h)'
            /\ \A l \in LessonOf(h)' :
                token[q].sub \in {lessons'[l].teacher, lessons'[l].student}
  BY <1>1, <1>5, <1>6, <1>7 DEF KnowsAuthors
<1>11. (pc[q] = "ok" /\ ask[q] # Null /\ ask[q].op = "list_lessons") =>
        \A l \in seen[q] :
            /\ l \in LessonIds /\ lessons'[l] # Null
            /\ token[q].sub \in {lessons'[l].teacher, lessons'[l].student}
  BY <1>2, <1>5 DEF KnowsAuthors
<1>12. pc[q] = "respond" => ask[q].op \notin {"list_lessons", "read_homework"}
  BY DEF KnowsAuthors
<1> QED
  BY <1>8, <1>9, <1>10, <1>11, <1>12 DEF KnowsAuthors, InPair, IsOn

\* Nothing is done to homework when both tables are left alone.
LEMMA SameWorkAdvances ==
    ASSUME SchoolInv, UNCHANGED <<lessons, homeworks>>
    PROVE  WorkAdvances
BY DEF WorkAdvances

\* Nor when the homeworks are, and no lesson is given another link.
LEMMA LinksKept ==
    ASSUME SchoolInv, UNCHANGED homeworks,
           \A l \in LessonIds : (lessons'[l] # Null /\ lessons'[l].homework # Null) =>
                lessons[l] # Null /\ lessons'[l].homework = lessons[l].homework
    PROVE  WorkAdvances
BY DEF WorkAdvances

\* The steps of the lesson endpoints keep the authors.
LEMMA LessonsStepAdvancesWork ==
    ASSUME SchoolInv, AuthorsInv, NEW r \in Requests, LessonsStep(r)
    PROVE  WorkAdvances /\ KnowsAuthors(r)'
<1>1. KnowsLesson(r) /\ LessonsTableOK /\ HomeworksTableOK /\ RelationsInv(SchoolSteps)
  BY SchoolHandler
<1>2. /\ ask' = ask => ask'[r] = ask[r]
      /\ \A a : ask' = [ask EXCEPT ![r] = a] => ask'[r] = a
      /\ \A step : Goto(r, step) => pc'[r] = step
  BY <1>1, SessionReads
<1>3. CASE CreateLesson(r) \/ RefuseNullTime(r) \/ UpdateLesson(r) \/ CheckUpdate(r)
           \/ RereadUpdate(r) \/ DeleteLesson(r)
  <2>1. UNCHANGED <<lessons, homeworks>>
    BY <1>3 DEF CreateLesson, RefuseNullTime, UpdateLesson, CheckUpdate, RereadUpdate, DeleteLesson
  <2>2. PICK step : Goto(r, step) /\ step \notin {"write_homework", "load_lessons", "ok", "respond"}
    BY <1>3 DEF CreateLesson, RefuseNullTime, UpdateLesson, CheckUpdate, RereadUpdate, DeleteLesson
  <2> QED
    BY <1>2, <2>1, <2>2, SameWorkAdvances DEF KnowsAuthors
<1>4. CASE InsertLesson(r) \/ WriteUpdate(r) \/ WriteLessonDelete(r)
  <2>1. Goto(r, "respond") /\ UNCHANGED <<ask, seen>>
    BY <1>4 DEF InsertLesson, WriteUpdate, WriteLessonDelete
  <2>2. ask[r].op \in {"create_lesson", "update_lesson", "delete_lesson"}
    BY <1>1, <1>4 DEF KnowsLesson, LessonTypes, InsertLesson, WriteUpdate, WriteLessonDelete
  <2>3. KnowsAuthors(r)'
    BY <1>2, <2>1, <2>2 DEF KnowsAuthors
  <2>4. CASE InsertLesson(r)
    <3> DEFINE row == [teacher |-> token[r].sub, student |-> ask[r].body.student,
                       start |-> ask[r].body.start, end |-> ask[r].body.end,
                       status |-> ask[r].body.status, deleted |-> FALSE, homework |-> Null]
    <3>1. PICK l \in LessonIds : lessons' = [lessons EXCEPT ![l] = row]
      BY <2>4 DEF InsertLesson
    <3>2. row.homework = Null
      OBVIOUS
    <3> HIDE DEF row
    <3>3. UNCHANGED homeworks
      BY <2>4 DEF InsertLesson
    <3> QED
      BY <1>1, <2>3, <3>1, <3>2, <3>3, LinksKept DEF LessonsTableOK
  <2>5. CASE WriteUpdate(r)
    <3> DEFINE l == ask[r].lesson
               row == Merge(lessons[l], seen[r], Patched(seen[r], ask[r].patch))
    <3>1. lessons' = [lessons EXCEPT ![l] = row] /\ UNCHANGED homeworks
      BY <2>5 DEF WriteUpdate
    <3>2. /\ ask[r] \in LessonTypes /\ WorksOnLesson(r, l)
          /\ Patched(seen[r], ask[r].patch) \in LessonRow
      BY <1>1, <2>5 DEF WriteUpdate, KnowsLesson
    <3>3. l \in LessonIds /\ lessons[l] # Null /\ lessons[l] \in LessonRow
          /\ seen[r] \in LessonRow /\ ask[r].patch \in LessonPatches
      BY <1>1, <3>2 DEF WorksOnLesson, LessonsTableOK, LessonTypes
    <3>4. row.homework = lessons[l].homework
      BY <3>2, <3>3, MergedLesson
    <3> HIDE DEF row, l
    <3>5. lessons'[l] = row /\ \A m \in LessonIds : m # l => lessons'[m] = lessons[m]
      BY <1>1, <3>1, <3>3 DEF LessonsTableOK
    <3> QED
      BY <2>3, <3>1, <3>3, <3>4, <3>5, LinksKept
  <2>6. CASE WriteLessonDelete(r)
    <3> DEFINE l == ask[r].lesson
               g == seen[r].homework
    <3>1. /\ lessons' = [lessons EXCEPT ![l] = [lessons[l] EXCEPT !.deleted = TRUE]]
          /\ homeworks' = IF g = Null THEN homeworks ELSE [homeworks EXCEPT ![g].deleted = TRUE]
      BY <2>6 DEF WriteLessonDelete
    <3>2. /\ l \in LessonIds /\ lessons[l] # Null /\ lessons[l] \in LessonRow
          /\ g # Null => g \in HomeworkIds /\ homeworks[g] # Null
      BY <1>1, <2>6 DEF WriteLessonDelete, KnowsLesson, WorksOnLesson, HasHomework, LessonsTableOK
    <3> HIDE DEF l, g
    <3>3. /\ \A m \in LessonIds : m # l => lessons'[m] = lessons[m]
          /\ lessons'[l] = [lessons[l] EXCEPT !.deleted = TRUE]
      BY <1>1, <3>1, <3>2 DEF LessonsTableOK
    <3>4. lessons'[l].homework = lessons[l].homework
      BY <3>2, <3>3 DEF LessonRow
    <3>5. ASSUME NEW h \in HomeworkIds, homeworks[h] # Null
          PROVE  homeworks'[h].brief = homeworks[h].brief /\ homeworks'[h].answer = homeworks[h].answer
      <4>1. homeworks[h] \in HomeworkRow
        BY <1>1, <3>5 DEF HomeworksTableOK
      <4>2. homeworks'[h] = homeworks[h] \/ homeworks'[h] = [homeworks[h] EXCEPT !.deleted = TRUE]
        BY <1>1, <3>1, <3>2 DEF HomeworksTableOK
      <4> QED
        BY <4>1, <4>2 DEF HomeworkRow
    <3> QED
      BY <2>3, <3>2, <3>3, <3>4, <3>5 DEF WorkAdvances
  <2> QED
    BY <1>4, <2>4, <2>5, <2>6
<1> QED
  BY <1>3, <1>4 DEF LessonsStep

\* The user on their own side of a lesson is on it, and its teacher or related
\* to them.
LEMMA OwnSideInPair ==
    ASSUME SchoolInv, NEW r \in Requests, NEW l \in LessonIds, lessons[l] # Null, OnOwnSide(r, l)
    PROVE  /\ IsOn(token[r].sub, l)
           /\ IF me[r].role = Student
              THEN /\ lessons[l].student = token[r].sub
                   /\ RelationPair(relations, lessons[l].teacher, token[r].sub)
              ELSE lessons[l].teacher = token[r].sub
BY DEF SchoolInv, TablesOK, LessonPairRelated, PairsOfLessonsIn, OnOwnSide, IsOn

\* A homework hangs on one lesson.
LEMMA OneLessonOf ==
    ASSUME SchoolInv, NEW h, h # Null, NEW l \in LessonOf(h), NEW m \in LessonOf(h)
    PROVE  l = m
BY DEF SchoolInv, TablesOK, HomeworkLinkedOnce, LinksIn, LessonOf

\* The brief of a homework that hangs on a lesson is its teacher's.
LEMMA BriefOfTeacher ==
    ASSUME AuthorsOwn, NEW h \in HomeworkIds, NEW l \in LessonOf(h), HasHomework(h), h # Null
    PROVE  l \in LessonIds /\ lessons[l] # Null /\ homeworks[h].brief = lessons[l].teacher
BY DEF AuthorsOwn, AuthorsIn, LessonOf

\* The steps of the homework endpoints keep the authors.
LEMMA HomeworksStepAdvancesWork ==
    ASSUME SchoolInv, AuthorsInv, NEW r \in Requests, HomeworksStep(r)
    PROVE  WorkAdvances /\ KnowsAuthors(r)'
<1> DEFINE sub == token[r].sub
<1>1. /\ KnowsLesson(r) /\ LessonsTableOK /\ HomeworksTableOK /\ RelationsInv(SchoolSteps)
      /\ UNCHANGED <<relations, users, token, me>> /\ KnowsAuthors(r) /\ sub \in Persons
  BY SchoolHandler DEF AuthorsInv
<1>2. /\ ask' = ask => ask'[r] = ask[r]
      /\ \A a : ask' = [ask EXCEPT ![r] = a] => ask'[r] = a
      /\ \A step : Goto(r, step) => pc'[r] = step
  BY <1>1, SessionReads
<1>3. CASE CreateHomework(r) \/ CheckHomework(r) \/ RereadLesson(r) \/ DeleteHomework(r)
           \/ LoadLinkedLesson(r)
  <2>1. UNCHANGED <<lessons, homeworks>>
    BY <1>3 DEF CreateHomework, CheckHomework, RereadLesson, DeleteHomework, LoadLinkedLesson
  <2>2. PICK step : Goto(r, step) /\ step \notin {"write_homework", "load_lessons", "ok", "respond"}
    BY <1>3 DEF CreateHomework, CheckHomework, RereadLesson, DeleteHomework, LoadLinkedLesson
  <2> QED
    BY <1>2, <2>1, <2>2, SameWorkAdvances DEF KnowsAuthors
<1>4. CASE InsertHomework(r)
  <2> DEFINE row == [answer |-> Null, brief |-> sub, deleted |-> FALSE]
             l == ask[r].lesson
  <2>1. Goto(r, "serialize_homework")
    BY <1>4 DEF InsertHomework
  <2>2. PICK h \in HomeworkIds :
          /\ homeworks[h] = Null /\ homeworks' = [homeworks EXCEPT ![h] = row]
          /\ lessons' = [lessons EXCEPT ![l].homework = h]
    BY <1>4 DEF InsertHomework
  <2>3. l \in LessonIds /\ lessons[l] # Null /\ lessons[l] \in LessonRow /\ lessons[l].teacher = sub
    BY <1>1, <1>4 DEF InsertHomework, KnowsLesson, WorksOnLesson, LessonsTableOK
  <2>4. row.answer = Null /\ row.brief = sub
    OBVIOUS
  <2> HIDE DEF row, l
  <2>5. /\ homeworks'[h] = row /\ \A g \in HomeworkIds : g # h => homeworks'[g] = homeworks[g]
        /\ lessons'[l] = [lessons[l] EXCEPT !.homework = h]
        /\ \A m \in LessonIds : m # l => lessons'[m] = lessons[m]
    BY <1>1, <2>2, <2>3 DEF LessonsTableOK, HomeworksTableOK
  <2>6. lessons'[l].homework = h
    BY <2>3, <2>5 DEF LessonRow
  <2>7. \A m \in LessonIds : lessons[m] # Null /\ lessons[m].homework # Null =>
            lessons[m].homework \in HomeworkIds /\ lessons[m].homework # h
    BY <2>2, LessonColumns DEF SchoolInv, TablesOK, LessonsTableOK, HomeworkLinkedOnce, LinksIn
  <2>8. WorkAdvances
    BY <2>2, <2>3, <2>4, <2>5, <2>6 DEF WorkAdvances
  <2> QED
    BY <1>2, <2>1, <2>8 DEF KnowsAuthors
<1>5. CASE UpdateHomework(r)
  <2>1. PICK h \in HomeworkIds, fields \in SUBSET {"answer", "brief"} :
          /\ ask' = [ask EXCEPT ![r] = [op |-> "update_homework", homework |-> h,
                                        fields |-> fields]]
          /\ Goto(r, IF me[r].role \notin KeycloakRoles THEN "forbidden"
                     ELSE IF ~VisibleHomework(r, h) THEN "not_found"
                     ELSE "write_homework")
    BY <1>5 DEF UpdateHomework
  <2>2. UNCHANGED <<lessons, homeworks, seen>>
    BY <1>5 DEF UpdateHomework
  <2>3. PICK step \in {"forbidden", "not_found", "write_homework"} :
          Goto(r, step) /\ (step = "write_homework" => VisibleHomework(r, h))
    BY <2>1
  <2>4. pc'[r] = step /\ ask'[r].homework = h
    BY <1>2, <2>1, <2>3
  <2>5. ASSUME VisibleHomework(r, h)
        PROVE  IF me[r].role = Student
               THEN \A l \in LessonOf(h) : lessons[l].student = sub
               ELSE homeworks[h].brief = sub
    <3>1. PICK l \in LessonOf(h) : Visible(r, h, l)
      BY <2>5 DEF VisibleHomework
    <3>2. HasHomework(h) /\ OnOwnSide(r, l) /\ h # Null
      BY <3>1, NullIsNoLesson DEF HasHomework, Visible
    <3> QED
      BY <3>1, <3>2, BriefOfTeacher, OwnSideInPair, OneLessonOf DEF AuthorsInv
  <2>6. KnowsAuthors(r)'
    BY <1>1, <2>2, <2>3, <2>4, <2>5 DEF KnowsAuthors, LessonOf
  <2> QED
    BY <2>2, <2>6, SameWorkAdvances
<1>6. CASE WriteHomework(r)
  <2> DEFINE h == ask[r].homework
             row == [homeworks[h] EXCEPT ![OwnField(r)] = sub]
  <2>1. /\ pc[r] = "write_homework" /\ Goto(r, "serialize_homework")
        /\ UNCHANGED lessons
        /\ \/ UNCHANGED homeworks
           \/ homeworks' = [homeworks EXCEPT ![h] = row]
    BY <1>6 DEF WriteHomework
  <2>2. h \in HomeworkIds /\ homeworks[h] # Null /\ homeworks[h] \in HomeworkRow
    BY <1>1, <2>1 DEF KnowsLesson, HasHomework, HomeworksTableOK
  <2>3. IF me[r].role = Student THEN \A l \in LessonOf(h) : lessons[l].student = sub
        ELSE homeworks[h].brief = sub
    BY <1>1, <2>1 DEF KnowsAuthors
  <2>4. /\ row.brief = homeworks[h].brief
        /\ \/ row.answer = homeworks[h].answer
           \/ \A l \in LessonOf(h) : row.answer = lessons[l].student
    BY <2>2, <2>3 DEF HomeworkRow, OwnField
  <2> HIDE DEF row, h
  <2>5. WorkAdvances
    BY <1>1, <2>1, <2>2, <2>4 DEF WorkAdvances, HomeworksTableOK
  <2> QED
    BY <1>2, <2>1, <2>5 DEF KnowsAuthors
<1>7. CASE SerializeHomework(r)
  <2>1. /\ UNCHANGED <<lessons, homeworks, ask>>
        /\ ask[r].op \in {"create_homework", "update_homework"}
    BY <1>1, <1>7 DEF SerializeHomework, KnowsLesson
  <2>2. PICK step \in {"ok", "response_error"} : Goto(r, step)
    BY <1>7 DEF SerializeHomework
  <2> QED
    BY <1>2, <2>1, <2>2, SameWorkAdvances DEF KnowsAuthors
<1>8. CASE WriteHomeworkDelete(r)
  <2> DEFINE h == ask[r].homework
  <2>1. /\ pc[r] = "write_homework_delete" /\ Goto(r, "respond") /\ UNCHANGED ask
        /\ homeworks' = [homeworks EXCEPT ![h].deleted = TRUE]
        /\ lessons' = [l \in LessonIds |->
                IF l \in seen[r] THEN [lessons[l] EXCEPT !.homework = Null]
                ELSE lessons[l]]
    BY <1>8 DEF WriteHomeworkDelete
  <2>2. /\ ask[r].op = "delete_homework" /\ h \in HomeworkIds /\ homeworks[h] # Null
        /\ \A l \in seen[r] : l \in LessonIds /\ lessons[l] # Null
    BY <1>1, <2>1 DEF KnowsLesson, HasHomework
  <2> HIDE DEF h
  <2>3. ASSUME NEW g \in HomeworkIds, homeworks[g] # Null
        PROVE  homeworks'[g].brief = homeworks[g].brief /\ homeworks'[g].answer = homeworks[g].answer
    <3>1. homeworks[g] \in HomeworkRow
      BY <1>1, <2>3 DEF HomeworksTableOK
    <3>2. homeworks'[g] = homeworks[g] \/ homeworks'[g] = [homeworks[g] EXCEPT !.deleted = TRUE]
      BY <1>1, <2>1, <2>2 DEF HomeworksTableOK
    <3> QED
      BY <3>1, <3>2 DEF HomeworkRow
  <2>4. ASSUME NEW l \in LessonIds, lessons'[l] # Null, lessons'[l].homework # Null
        PROVE  lessons[l] # Null /\ lessons'[l].homework = lessons[l].homework
    <3>1. CASE l \in seen[r]
      <4>1. lessons[l] \in LessonRow /\ lessons'[l] = [lessons[l] EXCEPT !.homework = Null]
        BY <1>1, <2>1, <2>2, <3>1 DEF LessonsTableOK
      <4>2. lessons'[l].homework = Null
        BY <4>1 DEF LessonRow
      <4> QED
        BY <2>4, <4>2
    <3>2. CASE l \notin seen[r]
      BY <2>1, <2>4, <3>2
    <3> QED
      BY <3>1, <3>2
  <2>5. WorkAdvances
    BY <2>3, <2>4 DEF WorkAdvances
  <2> QED
    BY <1>2, <2>1, <2>2, <2>5 DEF KnowsAuthors
<1> QED
  BY <1>3, <1>4, <1>5, <1>6, <1>7, <1>8 DEF HomeworksStep

\* Reads show what is the user's own, or was when it was found.
LEMMA ReadsStepAdvancesWork ==
    ASSUME SchoolInv, AuthorsInv, NEW r \in Requests, ReadsStep(r)
    PROVE  WorkAdvances /\ KnowsAuthors(r)'
<1> DEFINE sub == token[r].sub
<1>1. /\ KnowsLesson(r) /\ LessonsTableOK /\ HomeworksTableOK /\ RelationsInv(SchoolSteps)
      /\ UNCHANGED <<relations, users, token, me>> /\ KnowsAuthors(r)
  BY SchoolHandler DEF AuthorsInv
<1>2. UNCHANGED <<lessons, homeworks>>
  BY DEF ReadsStep, ListRelations, ListLessons, ListHomeworks, GetHomework, LoadLessons
<1>3. /\ ask' = ask => ask'[r] = ask[r]
      /\ \A a : ask' = [ask EXCEPT ![r] = a] => ask'[r] = a
      /\ \A s : seen' = [seen EXCEPT ![r] = s] => seen'[r] = s
      /\ \A step : Goto(r, step) => pc'[r] = step
  BY <1>1, SessionReads
<1>4. WorkAdvances
  BY <1>2, SameWorkAdvances
<1>5. ASSUME NEW h \in HomeworkIds, NEW l \in LessonOf(h), Visible(r, h, l)
      PROVE  /\ HasHomework(h) /\ InPair(sub, homeworks[h].brief)
             /\ \A m \in LessonOf(h) : IsOn(sub, m)
  <2>1. HasHomework(h) /\ OnOwnSide(r, l) /\ h # Null
    BY <1>5, NullIsNoLesson DEF HasHomework, Visible
  <2> QED
    BY <2>1, BriefOfTeacher, OwnSideInPair, OneLessonOf DEF AuthorsInv, InPair
<1>6. ASSUME NEW hs, Found(r, hs),
             \A h \in hs : /\ HasHomework(h) /\ InPair(sub, homeworks[h].brief)
                           /\ \A m \in LessonOf(h) : IsOn(sub, m)
      PROVE  KnowsAuthors(r)'
  <2>1. ask'[r] = [op |-> "read_homework"] /\ seen'[r] = [h \in hs |-> {}]
    BY <1>3, <1>6 DEF Found
  <2>2. pc'[r] \in {"ok", "load_lessons"}
    BY <1>3, <1>6 DEF Found
  <2>3. DOMAIN seen'[r] = hs /\ \A h \in hs : seen'[r][h] = {}
    BY <2>1
  <2>4. ask'[r].op = "read_homework"
    BY <2>1
  <2> QED
    BY <1>1, <1>2, <1>6, <2>2, <2>3, <2>4 DEF KnowsAuthors, HasHomework, InPair, IsOn, LessonOf
<1>7. CASE ListRelations(r)
  <2>1. ask'[r] = [op |-> "list_relations"] /\ pc'[r] = "ok"
    BY <1>3, <1>7 DEF ListRelations
  <2> QED
    BY <1>4, <2>1 DEF KnowsAuthors
<1>8. CASE ListLessons(r)
  <2>1. ask'[r] = [op |-> "list_lessons"] /\ pc'[r] = "ok"
    BY <1>3, <1>8 DEF ListLessons
  <2>2. \A l \in seen'[r] : l \in LessonIds /\ lessons[l] # Null /\ OnOwnSide(r, l)
    BY <1>3, <1>8 DEF ListLessons, Shown
  <2>3. \A l \in seen'[r] : IsOn(sub, l)
    BY <2>2, OwnSideInPair
  <2> QED
    BY <1>1, <1>2, <1>4, <2>1, <2>2, <2>3 DEF KnowsAuthors, IsOn
<1>9. CASE ListHomeworks(r)
  <2>1. PICK only \in SUBSET LessonIds :
          Found(r, {h \in HomeworkIds :
                \E l \in LessonOf(h) \intersect only : Shown(r, l) /\ Visible(r, h, l)})
    BY <1>9 DEF ListHomeworks
  <2> QED
    BY <1>4, <1>5, <1>6, <2>1
<1>10. CASE GetHomework(r)
  <2>1. CASE \E step \in {"forbidden", "not_found"} : Goto(r, step)
    BY <1>3, <1>4, <2>1 DEF KnowsAuthors
  <2>2. CASE \E h \in HomeworkIds : VisibleHomework(r, h) /\ Found(r, {h})
    BY <1>4, <1>5, <1>6, <2>2 DEF VisibleHomework
  <2> QED
    BY <1>10, <2>1, <2>2 DEF GetHomework
<1>11. CASE LoadLessons(r)
  <2>1. /\ pc[r] = "load_lessons" /\ pc'[r] = "ok" /\ ask'[r] = ask[r]
        /\ seen'[r] = [h \in DOMAIN seen[r] |-> LessonOf(h)]
    BY <1>3, <1>11 DEF LoadLessons
  <2>2. ask[r].op = "read_homework"
    BY <1>1, <2>1 DEF KnowsLesson
  <2>3. ASSUME ask[r] # Null, NEW h \in DOMAIN seen[r]
        PROVE  /\ HasHomework(h) /\ InPair(sub, homeworks[h].brief)
               /\ \A l \in LessonOf(h) :
                    l \in LessonIds /\ lessons[l] # Null /\ IsOn(sub, l)
    BY <1>1, <2>1, <2>2, <2>3 DEF KnowsAuthors, LessonOf
  <2> QED
    BY <1>1, <1>2, <1>4, <2>1, <2>2, <2>3 DEF KnowsAuthors, HasHomework, InPair, IsOn
<1> QED
  BY <1>7, <1>8, <1>9, <1>10, <1>11 DEF ReadsStep

\* The other steps neither write nor show work.
LEMMA OtherStepAdvancesWork ==
    ASSUME SchoolInv, AuthorsInv, NEW r \in Requests,
           (UsersStep(r) /\ UNCHANGED relations) \/ RelationsStep(r),
           UNCHANGED <<lessons, homeworks>>
    PROVE  WorkAdvances /\ KnowsAuthors(r)'
<1>1. RelationsInv(SchoolSteps) /\ KnowsRelation(r) /\ KnowsAuthors(r)
  BY DEF SchoolInv, RelationsInv, AuthorsInv
<1>2. /\ ask' = ask => ask'[r] = ask[r]
      /\ \A step : Goto(r, step) => pc'[r] = step
  BY <1>1, SessionReads
<1> SUFFICES KnowsAuthors(r)'
  BY SameWorkAdvances
<1>3. CASE \E step \in SyncSteps \union {"idle", "ready", "unauthorized", "bad_request",
                "forbidden", "not_found", "conflict", "server_error", "db_error",
                "load_student", "insert_relation", "write_archive"} : Goto(r, step)
  BY <1>2, <1>3 DEF KnowsAuthors, SyncSteps
<1>4. CASE ReturnProfile(r)
  <2>1. pc'[r] = "ok" /\ ask'[r] = Null
    BY <1>1, <1>2, <1>4 DEF ReturnProfile, Enter, KnowsRelation
  <2> QED
    BY <2>1 DEF KnowsAuthors
<1>5. CASE Respond(r)
  <2>1. pc'[r] = "ok" /\ ask'[r] = ask[r] /\ ask[r].op \notin {"list_lessons", "read_homework"}
    BY <1>1, <1>2, <1>5 DEF Respond, KnowsAuthors
  <2> QED
    BY <2>1 DEF KnowsAuthors
<1>6. CASE Goto(r, "respond") /\ (InsertRelation(r) \/ WriteArchive(r))
  <2>1. pc'[r] = "respond" /\ ask'[r] = ask[r] /\ ask[r].op \in {"create_relation", "archive"}
    BY <1>1, <1>2, <1>6 DEF InsertRelation, WriteArchive, KnowsRelation
  <2> QED
    BY <2>1 DEF KnowsAuthors
<1>7. UsersStep(r) \/ RelationsStep(r)
  OBVIOUS
<1>8. CASE RejectToken(r) \/ RefuseRole(r) \/ Authenticate(r) \/ InsertUser(r) \/ UpdateUser(r)
           \/ RefreshUser(r) \/ DbFail(r) \/ Reply(r)
  BY <1>3, <1>8 DEF RejectToken, RefuseRole, Authenticate, InsertUser, UpdateUser, RefreshUser,
       DbFail, Reply, SyncSteps
<1>9. CASE CreateRelation(r) \/ LoadStudent(r) \/ ArchiveRelation(r)
  BY <1>3, <1>9 DEF CreateRelation, LoadStudent, ArchiveRelation
<1>10. CASE InsertRelation(r) \/ WriteArchive(r)
  <2>1. Goto(r, "respond") \/ Goto(r, "server_error")
    BY <1>10 DEF InsertRelation, WriteArchive
  <2> QED
    BY <1>3, <1>6, <1>10, <2>1
<1> QED
  BY <1>4, <1>5, <1>7, <1>8, <1>9, <1>10 DEF UsersStep, RelationsStep

\* The other requests stay where they are.
LEMMA OthersStay ==
    ASSUME SchoolInv, NEW r \in Requests, NEW q \in Requests, q # r,
           \/ UsersStep(r) \/ RelationsStep(r) \/ LessonsStep(r) \/ HomeworksStep(r) \/ ReadsStep(r)
    PROVE  /\ pc'[q] = pc[q] /\ token'[q] = token[q] /\ me'[q] = me[q]
           /\ ask'[q] = ask[q] /\ seen'[q] = seen[q]
<1>1. /\ pc = [p \in Requests |-> pc[p]] /\ token = [p \in Requests |-> token[p]]
      /\ me = [p \in Requests |-> me[p]] /\ SessionFunctions
  BY DEF SchoolInv, RelationsInv, AccountsInv, SessionTypeOK
<1>2. \A step : Goto(r, step) => pc'[q] = pc[q]
  BY <1>1 DEF Goto
<1>3. CASE UsersStep(r)
  BY <1>1, <1>2, <1>3 DEF SessionFunctions, UsersStep, RejectToken, RefuseRole, Authenticate, InsertUser,
       UpdateUser, RefreshUser, ReturnProfile, DbFail, Reply
<1>4. CASE RelationsStep(r)
  BY <1>1, <1>2, <1>4 DEF SessionFunctions, RelationsStep, CreateRelation, LoadStudent, InsertRelation,
       ArchiveRelation, WriteArchive, Respond
<1>5. CASE LessonsStep(r)
  BY <1>1, <1>2, <1>5 DEF SessionFunctions, LessonsStep, CreateLesson, InsertLesson, RefuseNullTime,
       UpdateLesson, CheckUpdate, RereadUpdate, WriteUpdate, DeleteLesson, WriteLessonDelete
<1>6. CASE HomeworksStep(r)
  BY <1>1, <1>2, <1>6 DEF SessionFunctions, HomeworksStep, CreateHomework, CheckHomework, RereadLesson,
       InsertHomework, UpdateHomework, WriteHomework, SerializeHomework, DeleteHomework,
       LoadLinkedLesson, WriteHomeworkDelete
<1>7. CASE ReadsStep(r)
  BY <1>1, <1>2, <1>7 DEF SessionFunctions, ReadsStep, ListRelations, ListLessons, ListHomeworks,
       GetHomework, LoadLessons, Found
<1> QED
  BY <1>3, <1>4, <1>5, <1>6, <1>7

\* The invariant holds of any traffic to all the endpoints.
LEMMA AuthorsInvariant == SchoolSpec => []AuthorsInv
<1>1. SchoolInit => AuthorsInv
  <2> SUFFICES ASSUME SchoolInit PROVE AuthorsInv
    OBVIOUS
  <2>1. AuthorsOwn
    BY InitialLessonsAreLegal DEF SchoolInit, LessonsInit, RelationsInit, AuthorsOwn
  <2>2. \A r \in Requests : KnowsAuthors(r)
    BY DEF SchoolInit, LessonsInit, RelationsInit, UsersInit, SessionInit, KnowsAuthors
  <2> QED
    BY <2>1, <2>2 DEF AuthorsInv
<1>2. SchoolInv /\ [SchoolAdvance]_schoolVars /\ AuthorsInv /\ [SchoolNext]_schoolVars => AuthorsInv'
  <2> SUFFICES ASSUME SchoolInv, [SchoolAdvance]_schoolVars, AuthorsInv, [SchoolNext]_schoolVars
               PROVE  AuthorsInv'
    OBVIOUS
  <2>1. CASE UNCHANGED schoolVars
    <3> USE DEF schoolVars, relationsVars, usersVars, sessionVars
    <3>1. SchoolAdvance
      BY <2>1, StutterKeepsSchool DEF SchoolAdvance
    <3>2. WorkAdvances
      BY <2>1, SameWorkAdvances
    <3>3. AuthorsOwn'
      BY <3>1, <3>2, AuthorsAdvance DEF AuthorsInv
    <3> QED
      BY <2>1, <3>1, <3>2, <3>3, OthersKeepAuthors DEF AuthorsInv
  <2>2. CASE ~UNCHANGED schoolVars
    <3>1. SchoolAdvance /\ SchoolNext
      BY <2>2
    <3>2. PICK r \in Requests :
            \/ UsersStep(r) /\ UNCHANGED <<relations, lessons, homeworks>>
            \/ RelationsStep(r) /\ UNCHANGED <<lessons, homeworks>>
            \/ LessonsStep(r)
            \/ HomeworksStep(r)
            \/ ReadsStep(r)
      BY <3>1 DEF SchoolNext
    <3>3. WorkAdvances /\ KnowsAuthors(r)'
      BY <3>2, OtherStepAdvancesWork, LessonsStepAdvancesWork, HomeworksStepAdvancesWork,
         ReadsStepAdvancesWork
    <3>4. AuthorsOwn'
      BY <3>1, <3>3, AuthorsAdvance DEF AuthorsInv
    <3>5. ASSUME NEW q \in Requests, q # r PROVE KnowsAuthors(q)'
      <4>1. /\ pc'[q] = pc[q] /\ token'[q] = token[q] /\ me'[q] = me[q]
            /\ ask'[q] = ask[q] /\ seen'[q] = seen[q]
        BY <3>2, <3>5, OthersStay
      <4> QED
        BY <3>1, <3>3, <4>1, OthersKeepAuthors DEF AuthorsInv
    <3> QED
      BY <3>3, <3>4, <3>5 DEF AuthorsInv
  <2> QED
    BY <2>1, <2>2
<1>3. SchoolSpec => []SchoolInv /\ [][SchoolAdvance]_schoolVars
  BY SchoolInvariant
<1> QED
  BY <1>1, <1>2, <1>3, PTL DEF SchoolSpec

-----------------------------------------------------------------------------
\* Whatever order the statements of teachers and students come in, and whatever
\* role somebody has by the time they write, the brief of a lesson's homework is
\* by the lesson's teacher and the answer by its student.
THEOREM SchoolAuthorsOwn == SchoolSpec => []AuthorsOwn
<1>1. AuthorsInv => AuthorsOwn
  BY DEF AuthorsInv
<1> QED
  BY <1>1, AuthorsInvariant, PTL

\* No read ever shows a person a lesson they are not on, nor a homework of a
\* teacher they were never related to.
THEOREM SchoolRepliesOwn == SchoolSpec => []RepliesOwn
<1>1. AuthorsInv => RepliesOwn
  BY DEF AuthorsInv, KnowsAuthors, RepliesOwn
<1> QED
  BY <1>1, AuthorsInvariant, PTL
=============================================================================
