---------------------------- MODULE SchoolProofs ----------------------------
(***************************************************************************)
(* What the four tables keep of each other however requests interleave:    *)
(* types, lessons of related people only, one lesson per homework, and     *)
(* deletions that last.                                                    *)
(***************************************************************************)
EXTENDS School, RelationsProofs

LessonTypes == [op : {"update_lesson"}, lesson : LessonIds, patch : LessonPatches]

\* The lesson a request of its teacher works on, and the object it loaded.
WorksOnLesson(r, l) ==
    /\ l \in LessonIds /\ lessons[l] # Null /\ lessons[l].teacher = token[r].sub
    /\ seen[r] \in LessonRow /\ seen[r].teacher = token[r].sub

\* The homework rows a request will write exist.
HasHomework(h) == h \in HomeworkIds /\ homeworks[h] # Null

KnowsLesson(r) ==
    /\ pc[r] = "insert_lesson" =>
        /\ ask[r] \in [op : {"create_lesson"}, body : LessonBodies]
        /\ RelationPair(relations, token[r].sub, ask[r].body.student)
    /\ pc[r] \in {"check_update", "reread_update", "write_update"} =>
        ask[r] \in LessonTypes /\ WorksOnLesson(r, ask[r].lesson)
    /\ pc[r] \in {"reread_update", "write_update"} =>
        Patched(seen[r], ask[r].patch) \in LessonRow
    /\ pc[r] = "write_lesson_delete" =>
        /\ ask[r] \in [op : {"delete_lesson"}, lesson : LessonIds]
        /\ WorksOnLesson(r, ask[r].lesson)
        /\ seen[r].homework # Null => HasHomework(seen[r].homework)
    /\ pc[r] \in {"check_homework", "reread_lesson", "insert_homework"} =>
        /\ ask[r] \in [op : {"create_homework"}, lesson : LessonIds]
        /\ WorksOnLesson(r, ask[r].lesson)
    /\ pc[r] = "write_homework" =>
        ask[r].op = "update_homework" /\ HasHomework(ask[r].homework)
    /\ pc[r] = "serialize_homework" =>
        ask[r].op \in {"create_homework", "update_homework"}
    /\ pc[r] \in {"load_linked_lesson", "write_homework_delete"} =>
        /\ ask[r] \in [op : {"delete_homework"}, homework : HomeworkIds]
        /\ HasHomework(ask[r].homework)
    /\ pc[r] = "write_homework_delete" =>
        /\ \A l \in seen[r] : l \in LessonIds /\ lessons[l] # Null
        /\ LessonOf(ask[r].homework) \subseteq seen[r]
    /\ pc[r] = "load_lessons" => ask[r].op = "read_homework"

\* What a request that has deleted finds deleted.
KnowsDeleted(r) ==
    (pc[r] \in {"respond", "ok"} /\ ask[r] # Null) =>
        /\ ask[r].op = "delete_lesson" =>
            /\ ask[r].lesson \in LessonIds /\ lessons[ask[r].lesson] # Null
            /\ lessons[ask[r].lesson].deleted
            /\ seen[r].homework # Null =>
                HasHomework(seen[r].homework) /\ homeworks[seen[r].homework].deleted
        /\ ask[r].op = "delete_homework" =>
            /\ HasHomework(ask[r].homework) /\ homeworks[ask[r].homework].deleted
            /\ LessonOf(ask[r].homework) = {}

LessonsTableOK == lessons \in [LessonIds -> LessonRow \union {Null}]
HomeworksTableOK == homeworks \in [HomeworkIds -> HomeworkRow \union {Null}]

TablesOK ==
    /\ LessonsTableOK /\ HomeworksTableOK
    /\ LessonPairRelated /\ HomeworkLinkedOnce

\* The inductive invariant of the whole application.
SchoolInv ==
    /\ RelationsInv(SchoolSteps)
    /\ TablesOK
    /\ \A r \in Requests : KnowsLesson(r) /\ KnowsDeleted(r)

\* What a step leaves: tables in order, with every row they had.
TablesAdvance == TablesOK' /\ LessonsAdvance /\ HomeworksAdvance

-----------------------------------------------------------------------------
\* The lessons of a homework that exists only ever become fewer.
LEMMA LinksOnlyGo ==
    ASSUME LessonsAdvance, NEW h, HasHomework(h)
    PROVE  LessonOf(h)' \subseteq LessonOf(h)
BY NullIsNoLesson DEF LessonsAdvance, LinkStays, HasHomework, LessonOf

\* The pair of every lesson stays related while lessons keep their pair or get
\* a related one.
LEMMA PairsAdvance ==
    ASSUME TablesOK, RelationsAdvance,
           \A l \in LessonIds : lessons'[l] # Null =>
                \/ RelationPair(relations, lessons'[l].teacher, lessons'[l].student)
                \/ /\ lessons[l] # Null
                   /\ lessons'[l].teacher = lessons[l].teacher
                   /\ lessons'[l].student = lessons[l].student
    PROVE  LessonPairRelated'
<1> SUFFICES ASSUME NEW l \in LessonIds, lessons'[l] # Null
             PROVE  RelationPair(relations', lessons'[l].teacher, lessons'[l].student)
  BY DEF LessonPairRelated, PairsOfLessonsIn
<1>1. RelationPair(relations, lessons'[l].teacher, lessons'[l].student)
  BY DEF TablesOK, LessonPairRelated, PairsOfLessonsIn
<1> QED
  BY <1>1, PairsStay

\* Links stay unique while they are only kept or cleared.
LEMMA LinksAdvance ==
    ASSUME TablesOK, HomeworksAdvance,
           \A l \in LessonIds : (lessons'[l] # Null /\ lessons'[l].homework # Null) =>
                lessons[l] # Null /\ lessons'[l].homework = lessons[l].homework
    PROVE  HomeworkLinkedOnce'
<1>1. \A l \in LessonIds : (lessons[l] # Null /\ lessons[l].homework # Null) =>
        lessons[l].homework \in HomeworkIds
  BY DEF TablesOK, LessonsTableOK, LessonRow
<1> QED
  BY <1>1 DEF TablesOK, HomeworkLinkedOnce, LinksIn, HomeworksAdvance

\* The lessons and homeworks advance when they are left alone.
LEMMA SameTablesAdvance ==
    ASSUME SchoolInv, RelationsAdvance, UNCHANGED <<lessons, homeworks>>
    PROVE  TablesAdvance
<1>1. LessonsAdvance /\ HomeworksAdvance
  BY DEF LessonsAdvance, LinkStays, HomeworksAdvance
<1>2. LessonPairRelated'
  BY PairsAdvance DEF SchoolInv
<1>3. HomeworkLinkedOnce'
  BY <1>1, LinksAdvance DEF SchoolInv
<1> QED
  BY <1>1, <1>2, <1>3 DEF SchoolInv, TablesOK, TablesAdvance, LessonsTableOK, HomeworksTableOK

\* The other requests keep what they know while the tables advance.
LEMMA OthersKeepLesson ==
    ASSUME SchoolInv, RelationsAdvance, LessonsAdvance, HomeworksAdvance,
           NEW q \in Requests,
           pc'[q] = pc[q], token'[q] = token[q],
           ask'[q] = ask[q], seen'[q] = seen[q]
    PROVE  KnowsLesson(q)' /\ KnowsDeleted(q)'
<1>1. KnowsLesson(q) /\ KnowsDeleted(q)
  BY DEF SchoolInv
<1>2. \A l : WorksOnLesson(q, l) => WorksOnLesson(q, l)'
  BY DEF WorksOnLesson, LessonsAdvance
<1>3. \A h : HasHomework(h) => HasHomework(h)'
  BY DEF HasHomework, HomeworksAdvance
<1>4. \A t, s : RelationPair(relations, t, s) => RelationPair(relations', t, s)
  BY PairsStay
<1>7. \A h : HasHomework(h) => LessonOf(h)' \subseteq LessonOf(h)
  BY LinksOnlyGo
<1>5. KnowsLesson(q)'
  BY <1>1, <1>2, <1>3, <1>4, <1>7 DEF KnowsLesson, LessonsAdvance, LessonTypes, Patched, Given
<1>6. KnowsDeleted(q)'
  BY <1>1, <1>3, <1>7 DEF KnowsDeleted, LessonsAdvance, HomeworksAdvance, HasHomework
<1> QED
  BY <1>5, <1>6

-----------------------------------------------------------------------------
\* The columns of a lessons row, and of a homeworks row.
LEMMA LessonColumns ==
    ASSUME NEW row \in LessonRow
    PROVE  /\ row.teacher \in Persons /\ row.student \in Persons
           /\ row.start \in Times /\ row.end \in Times
           /\ row.status \in LessonStatuses /\ row.deleted \in BOOLEAN
           /\ row.homework \in HomeworkIds \union {Null}
           /\ row # Null
           /\ DOMAIN row = {"teacher", "student", "start", "end", "status",
                            "deleted", "homework"}
BY NullIsNoLesson DEF LessonRow

\* Null, which stands for an absent row, is none.
LEMMA HomeworkColumns ==
    ASSUME NEW row \in HomeworkRow
    PROVE  row # Null /\ row.deleted \in BOOLEAN
BY NullIsNoLesson DEF HomeworkRow

\* A patched row is a lesson once the check on its status has passed.
LEMMA PatchedRow ==
    ASSUME NEW row \in LessonRow, NEW patch \in LessonPatches,
           Patched(row, patch).status \in LessonStatuses
    PROVE  Patched(row, patch) \in LessonRow
<1> DEFINE new == Patched(row, patch)
<1>1. patch \in LessonPatch
  BY BodiesPassSchema
<1>3. /\ new.teacher = row.teacher /\ new.student = row.student
      /\ new.deleted = row.deleted /\ new.homework = row.homework
      /\ new.start = Given(patch, "start", row) /\ new.end = Given(patch, "end", row)
  BY LessonColumns DEF Patched
<1>4. new.start \in Times /\ new.end \in Times
  BY <1>1, <1>3, LessonColumns DEF Given, LessonPatch
<1>5. new = [teacher |-> new.teacher, student |-> new.student, start |-> new.start,
             end |-> new.end, status |-> new.status, deleted |-> new.deleted,
             homework |-> new.homework]
  BY LessonColumns DEF Patched
<1>6. new.teacher \in Persons /\ new.student \in Persons /\ new.deleted \in BOOLEAN
      /\ new.homework \in HomeworkIds \union {Null}
  BY <1>3, LessonColumns
<1> HIDE DEF new
<1> QED
  BY <1>4, <1>5, <1>6 DEF LessonRow, new

\* The row an update leaves is a lesson; what a patch cannot name keeps the
\* value the row has by then, not the one that was loaded.
LEMMA MergedLesson ==
    ASSUME NEW row \in LessonRow, NEW loaded \in LessonRow, NEW patch \in LessonPatches,
           Patched(loaded, patch) \in LessonRow
    PROVE  LET m == Merge(row, loaded, Patched(loaded, patch)) IN
           /\ m \in LessonRow
           /\ m.teacher = row.teacher /\ m.student = row.student
           /\ m.homework = row.homework /\ m.deleted = row.deleted
<1> DEFINE new == Patched(loaded, patch)
           m == Merge(row, loaded, new)
<1>2. /\ new.teacher = loaded.teacher /\ new.student = loaded.student
      /\ new.deleted = loaded.deleted /\ new.homework = loaded.homework
  BY LessonColumns DEF Patched
<1> HIDE DEF new
<1>3. new \in LessonRow
  BY DEF new
<1>4. /\ m.teacher = row.teacher /\ m.student = row.student
      /\ m.homework = row.homework /\ m.deleted = row.deleted
      /\ m.start \in {row.start, new.start} /\ m.end \in {row.end, new.end}
      /\ m.status \in {row.status, new.status}
  BY <1>2, <1>3, LessonColumns DEF Merge
<1>5. m = [teacher |-> m.teacher, student |-> m.student, start |-> m.start,
           end |-> m.end, status |-> m.status, deleted |-> m.deleted,
           homework |-> m.homework]
  BY LessonColumns DEF Merge
<1>6. /\ m.teacher \in Persons /\ m.student \in Persons /\ m.start \in Times
      /\ m.end \in Times /\ m.status \in LessonStatuses /\ m.deleted \in BOOLEAN
      /\ m.homework \in HomeworkIds \union {Null}
  BY <1>3, <1>4, LessonColumns
<1> HIDE DEF m
<1>7. m \in LessonRow
  BY <1>5, <1>6 DEF LessonRow
<1> QED
  BY <1>4, <1>7 DEF m, new

\* An active relation is a relation, of the two persons it names.
LEMMA ActivePair ==
    ASSUME RelationsTableOK, NEW t, NEW s, ActiveRelation(t, s)
    PROVE  RelationPair(relations, t, s) /\ s \in Persons
BY DEF ActiveRelation, RelationPair, RelationsTableOK, RelationRow

-----------------------------------------------------------------------------
\* A step of a lesson or homework handler preserves the invariant when its
\* writes advance the tables and the request knows its rows afterwards.
LEMMA HandlerKeepsSchool ==
    ASSUME SchoolInv, NEW r \in Requests, pc[r] \in SchoolSteps \ SyncSteps,
           NEW step \in Outcomes \union (SchoolSteps \ (SyncSteps \union HandlerSteps \union {"ready"})),
           Goto(r, step), UNCHANGED <<relations, users, token, me>>,
           TablesAdvance,
           NEW a, ask' = [ask EXCEPT ![r] = a],
           NEW s, seen' = [seen EXCEPT ![r] = s],
           step \in {"respond", "ok"} => a.op # "archive",
           KnowsLesson(r)', KnowsDeleted(r)'
    PROVE  SchoolInv' /\ RelationsAdvance
<1>1. RelationsInv(SchoolSteps) /\ StepsOf(SchoolSteps)
  BY DEF SchoolInv, StepsOf, SchoolSteps, ReadsSteps, HomeworksSteps, LessonsSteps, RelationsSteps,
       UsersSteps, SyncSteps, Outcomes
<1>2. RelationsTableAdvances
  BY <1>1, SameTableAdvances, SameRelationsAdvance DEF RelationsInv
<1>3. ask'[r] = a /\ seen'[r] = s /\ pc'[r] = step
  BY <1>1, SessionReads
<1>4. step # "idle" /\ step \notin SyncSteps \union HandlerSteps \union {"ready"}
  BY DEF Outcomes, HandlerSteps, SyncSteps, SchoolSteps, ReadsSteps, HomeworksSteps, LessonsSteps,
       RelationsSteps, UsersSteps
<1>5. KnowsRelation(r)'
  BY <1>3, <1>4 DEF KnowsRelation, HandlerSteps, SyncSteps
<1>6. RelationsInv(SchoolSteps)' /\ RelationsAdvance
  BY <1>1, <1>2, <1>5, HandlerKeepsRelations
<1>7. ASSUME NEW q \in Requests PROVE KnowsLesson(q)' /\ KnowsDeleted(q)'
  <2>1. CASE q = r
    BY <2>1
  <2>2. CASE q # r
    <3>1. /\ pc'[q] = pc[q] /\ token'[q] = token[q]
          /\ ask'[q] = ask[q] /\ seen'[q] = seen[q]
      BY <1>1, <2>2 DEF Goto, RelationsInv, SessionFunctions, AccountsInv, SessionTypeOK
    <3> QED
      BY <1>6, <3>1, OthersKeepLesson DEF TablesAdvance
  <2> QED
    BY <2>1, <2>2
<1> QED
  BY <1>6, <1>7 DEF SchoolInv, TablesAdvance

\* The steps of the lesson and homework handlers, as the composition has them.
SchoolHandlerSteps ==
    {"insert_lesson", "check_update", "reread_update", "write_update",
     "write_lesson_delete", "check_homework", "reread_lesson",
     "insert_homework", "write_homework", "load_linked_lesson",
     "write_homework_delete", "serialize_homework", "load_lessons"}

LEMMA SchoolStepNames ==
    /\ SchoolHandlerSteps \union {"respond"} \subseteq
            SchoolSteps \ (SyncSteps \union HandlerSteps \union {"ready"})
    /\ "ready" \in SchoolSteps \ SyncSteps
    /\ RelationsSteps \subseteq SchoolSteps
    /\ StepsOf(SchoolSteps)
BY DEF StepsOf, SchoolHandlerSteps, SchoolSteps, ReadsSteps, HomeworksSteps, LessonsSteps,
     RelationsSteps, UsersSteps, SyncSteps, HandlerSteps, Outcomes

\* What every step of a lesson or homework handler has in common.
LEMMA SchoolHandler ==
    ASSUME SchoolInv, NEW r \in Requests,
           LessonsStep(r) \/ HomeworksStep(r) \/ ReadsStep(r)
    PROVE  /\ pc[r] \in SchoolSteps \ SyncSteps
           /\ UNCHANGED <<relations, users, token, me>>
           /\ token[r].sub \in Persons
           /\ token'[r] = token[r]
           /\ KnowsLesson(r) /\ LessonsTableOK /\ HomeworksTableOK
           /\ RelationsTableOK /\ RelationsInv(SchoolSteps)
           /\ UNCHANGED <<lessons, homeworks>> => TablesAdvance
<1>1. pc[r] \in {"ready"} \union SchoolHandlerSteps
  BY DEF LessonsStep, CreateLesson, InsertLesson, RefuseNullTime, UpdateLesson, CheckUpdate, RereadUpdate,
       WriteUpdate, DeleteLesson, WriteLessonDelete, HomeworksStep, CreateHomework,
       CheckHomework, RereadLesson, InsertHomework, UpdateHomework, WriteHomework,
       SerializeHomework, DeleteHomework, LoadLinkedLesson, WriteHomeworkDelete, ReadsStep,
       ListRelations, ListLessons, ListHomeworks, GetHomework, LoadLessons, Enter,
       SchoolHandlerSteps
<1>2. UNCHANGED <<relations, users, token, me>>
  BY DEF LessonsStep, CreateLesson, InsertLesson, RefuseNullTime, UpdateLesson, CheckUpdate, RereadUpdate,
       WriteUpdate, DeleteLesson, WriteLessonDelete, HomeworksStep, CreateHomework,
       CheckHomework, RereadLesson, InsertHomework, UpdateHomework, WriteHomework,
       SerializeHomework, DeleteHomework, LoadLinkedLesson, WriteHomeworkDelete, ReadsStep,
       ListRelations, ListLessons, ListHomeworks, GetHomework, LoadLessons
<1>3. pc[r] \in SchoolSteps \ SyncSteps
  BY <1>1, SchoolStepNames
<1>4. token[r].sub \in Persons
  BY <1>3, SchoolStepNames, HandlersPerson DEF SchoolInv
<1>5. RelationsAdvance
  BY <1>2 DEF RelationsAdvance
<1> QED
  BY <1>2, <1>3, <1>4, <1>5, SameTablesAdvance DEF SchoolInv, TablesOK, RelationsInv

\* A table in which one lesson is created for a related pair, or replaced by one
\* of the same pair with the same homework, deleted if it was, advances.
LEMMA WriteLessonAdvances ==
    ASSUME SchoolInv, UNCHANGED relations, NEW l \in LessonIds, NEW row \in LessonRow,
           lessons' = [lessons EXCEPT ![l] = row],
           HomeworksTableOK', HomeworksAdvance,
           RelationPair(relations, row.teacher, row.student),
           lessons[l] = Null => row.homework = Null,
           lessons[l] # Null =>
                /\ row.teacher = lessons[l].teacher
                /\ row.student = lessons[l].student
                /\ row.homework = lessons[l].homework
                /\ lessons[l].deleted => row.deleted
    PROVE  TablesAdvance
<1>1. LessonsTableOK /\ TablesOK /\ RelationsAdvance
  BY DEF SchoolInv, TablesOK, RelationsAdvance
<1>2. row # Null
  BY LessonColumns
<1>3. /\ LessonsTableOK' /\ lessons'[l] = row
      /\ \A m \in LessonIds \ {l} : lessons'[m] = lessons[m]
  BY <1>1 DEF LessonsTableOK
<1>4. LessonsAdvance
  BY <1>2, <1>3 DEF LessonsAdvance, LinkStays
<1>5. LessonPairRelated'
  BY <1>1, <1>3, PairsAdvance
<1>6. HomeworkLinkedOnce'
  BY <1>1, <1>2, <1>3, LinksAdvance
<1> QED
  BY <1>3, <1>4, <1>5, <1>6 DEF TablesAdvance, TablesOK

\* Each of the nine steps of the lesson endpoints preserves the invariant.
LEMMA LessonsStepKeepsSchool ==
    ASSUME SchoolInv, NEW r \in Requests, LessonsStep(r)
    PROVE  SchoolInv' /\ RelationsAdvance /\ LessonsAdvance /\ HomeworksAdvance
<1> DEFINE sub == token[r].sub
<1>1. /\ pc[r] \in SchoolSteps \ SyncSteps
      /\ UNCHANGED <<relations, users, token, me>> /\ token'[r] = token[r]
      /\ sub \in Persons /\ KnowsLesson(r)
      /\ LessonsTableOK /\ HomeworksTableOK /\ RelationsTableOK
      /\ RelationsInv(SchoolSteps)
      /\ UNCHANGED <<lessons, homeworks>> => TablesAdvance
  BY SchoolHandler
<1>2. /\ ask' = ask => ask' = [ask EXCEPT ![r] = ask[r]]
      /\ seen' = seen => seen' = [seen EXCEPT ![r] = seen[r]]
      /\ \A a : ask' = [ask EXCEPT ![r] = a] => ask'[r] = a
      /\ \A s : seen' = [seen EXCEPT ![r] = s] => seen'[r] = s
      /\ \A step : Goto(r, step) => pc'[r] = step
  BY <1>1, SessionReads
<1>3. \A step \in SchoolHandlerSteps \union {"respond"} \union Outcomes :
        step \in Outcomes \union (SchoolSteps \ (SyncSteps \union HandlerSteps \union {"ready"}))
  BY SchoolStepNames
<1>4. TablesAdvance => LessonsAdvance /\ HomeworksAdvance
  BY DEF TablesAdvance
<1>5. UNCHANGED homeworks => HomeworksTableOK' /\ HomeworksAdvance
  BY <1>1 DEF HomeworksTableOK, HomeworksAdvance
<1>6. CASE CreateLesson(r)
  <2>1. PICK body \in LessonBodies :
          /\ ask' = [ask EXCEPT ![r] = [op |-> "create_lesson", body |-> body]]
          /\ Goto(r, IF ActiveRelation(sub, body.student)
                     THEN "insert_lesson" ELSE "forbidden")
    BY <1>6 DEF CreateLesson
  <2>2. UNCHANGED <<lessons, homeworks, seen>>
    BY <1>6 DEF CreateLesson
  <2>3. PICK step \in {"insert_lesson", "forbidden"} :
          Goto(r, step) /\ (step = "insert_lesson" => ActiveRelation(sub, body.student))
    BY <2>1
  <2>4. /\ ask'[r] = [op |-> "create_lesson", body |-> body] /\ pc'[r] = step
    BY <1>2, <2>1, <2>3
  <2>5. step = "insert_lesson" => RelationPair(relations, sub, body.student)
    BY <1>1, <2>3, ActivePair
  <2>6. KnowsLesson(r)' /\ KnowsDeleted(r)'
    BY <1>1, <2>3, <2>4, <2>5 DEF KnowsLesson, KnowsDeleted
  <2>7. step \in SchoolHandlerSteps \union Outcomes
    BY <2>3 DEF SchoolHandlerSteps, Outcomes
  <2> QED
    BY <1>1, <1>2, <1>3, <1>4, <2>1, <2>2, <2>3, <2>6, <2>7, HandlerKeepsSchool
<1>7. CASE InsertLesson(r)
  <2>1. /\ pc[r] = "insert_lesson" /\ Goto(r, "respond") /\ UNCHANGED <<homeworks, ask, seen>>
    BY <1>7 DEF InsertLesson
  <2> DEFINE body == ask[r].body
             row == [teacher |-> sub, student |-> body.student,
                     start |-> body.start, end |-> body.end,
                     status |-> body.status, deleted |-> FALSE,
                     homework |-> Null]
  <2>2. PICK l \in LessonIds : lessons[l] = Null /\ lessons' = [lessons EXCEPT ![l] = row]
    BY <1>7 DEF InsertLesson
  <2>3. /\ ask[r].op = "create_lesson" /\ body \in LessonBody
        /\ RelationPair(relations, sub, body.student)
    BY <1>1, <2>1, BodiesPassSchema DEF KnowsLesson
  <2>4. /\ row \in LessonRow /\ row.teacher = sub /\ row.student = body.student
        /\ row.homework = Null
    BY <1>1, <2>3 DEF LessonRow, LessonBody
  <2> HIDE DEF row, body
  <2>5. TablesAdvance
    BY <1>1, <1>5, <2>1, <2>2, <2>3, <2>4, WriteLessonAdvances
  <2>6. KnowsLesson(r)' /\ KnowsDeleted(r)'
    BY <1>2, <2>1, <2>3 DEF KnowsLesson, KnowsDeleted
  <2> QED
    BY <1>1, <1>2, <1>3, <1>4, <2>1, <2>3, <2>5, <2>6, HandlerKeepsSchool
<1>8. CASE UpdateLesson(r)
  <2>1. PICK l \in LessonIds, patch \in LessonPatches :
          /\ ask' = [ask EXCEPT ![r] =
                        [op |-> "update_lesson", lesson |-> l, patch |-> patch]]
          /\ IF Owns(sub, l)
             THEN seen' = [seen EXCEPT ![r] = lessons[l]] /\ Goto(r, "check_update")
             ELSE Goto(r, "not_found") /\ UNCHANGED seen
    BY <1>8 DEF UpdateLesson
  <2>2. UNCHANGED <<lessons, homeworks>>
    BY <1>8 DEF UpdateLesson
  <2>3. PICK step, s :
          /\ step \in {"check_update", "not_found"}
          /\ Goto(r, step) /\ seen' = [seen EXCEPT ![r] = s]
          /\ step = "check_update" => Owns(sub, l) /\ s = lessons[l]
    BY <1>2, <2>1
  <2>4. /\ ask'[r] = [op |-> "update_lesson", lesson |-> l, patch |-> patch]
        /\ pc'[r] = step /\ seen'[r] = s
    BY <1>2, <2>1, <2>3
  <2>5. KnowsLesson(r)' /\ KnowsDeleted(r)'
    BY <1>1, <2>2, <2>3, <2>4
       DEF KnowsLesson, KnowsDeleted, LessonTypes, WorksOnLesson, Owns, LessonsTableOK
  <2>6. step \in SchoolHandlerSteps \union Outcomes
    BY <2>3 DEF SchoolHandlerSteps, Outcomes
  <2> QED
    BY <1>1, <1>3, <1>4, <2>1, <2>2, <2>3, <2>5, <2>6, HandlerKeepsSchool
<1>9. CASE CheckUpdate(r)
  <2> DEFINE new == Patched(seen[r], ask[r].patch)
  <2>1. pc[r] = "check_update" /\ UNCHANGED <<lessons, homeworks, ask, seen>>
    BY <1>9 DEF CheckUpdate
  <2>2. ask[r] \in LessonTypes /\ WorksOnLesson(r, ask[r].lesson)
    BY <1>1, <2>1 DEF KnowsLesson
  <2>3. PICK step \in {"forbidden", "bad_request", "reread_update"} :
          /\ Goto(r, step)
          /\ step = "reread_update" => new.status \in AllowedStatus(seen[r].status)
    BY <1>9 DEF CheckUpdate
  <2>4. step = "reread_update" => new \in LessonRow
    <3> SUFFICES ASSUME step = "reread_update"
                 PROVE  new \in LessonRow
      OBVIOUS
    <3>2. seen[r] \in LessonRow /\ ask[r].patch \in LessonPatches
      BY <2>2 DEF LessonTypes, WorksOnLesson
    <3>3. new.status \in LessonStatuses
      BY <2>3, <3>2, LessonColumns DEF AllowedStatus
    <3> QED
      BY <2>3, <3>2, <3>3, PatchedRow
  <2>5. KnowsLesson(r)' /\ KnowsDeleted(r)'
    <3>1. pc'[r] = step
      BY <1>2, <2>3
    <3>2. (ask[r] \in LessonTypes /\ WorksOnLesson(r, ask[r].lesson))'
      BY <1>1, <2>1, <2>2 DEF LessonTypes, WorksOnLesson
    <3> QED
      BY <1>1, <2>1, <2>3, <2>4, <3>1, <3>2 DEF KnowsLesson, KnowsDeleted, Patched, Given
  <2>6. step \in SchoolHandlerSteps \union Outcomes
    BY <2>3 DEF SchoolHandlerSteps, Outcomes
  <2> QED
    BY <1>1, <1>2, <1>3, <1>4, <2>1, <2>3, <2>5, <2>6, HandlerKeepsSchool
<1>10. CASE RereadUpdate(r)
  <2>1. pc[r] = "reread_update" /\ UNCHANGED <<lessons, homeworks, ask, seen>>
    BY <1>10 DEF RereadUpdate
  <2>2. PICK step \in {"write_update", "server_error"} : Goto(r, step)
    BY <1>10 DEF RereadUpdate
  <2>3. KnowsLesson(r)' /\ KnowsDeleted(r)'
    <3>1. pc'[r] = step
      BY <1>2, <2>2
    <3>2. (ask[r] \in LessonTypes /\ WorksOnLesson(r, ask[r].lesson))'
      BY <1>1, <2>1 DEF LessonTypes, WorksOnLesson, KnowsLesson
    <3> QED
      BY <1>1, <2>1, <2>2, <3>1, <3>2 DEF KnowsLesson, KnowsDeleted, Patched, Given
  <2>4. step \in SchoolHandlerSteps \union Outcomes
    BY <2>2 DEF SchoolHandlerSteps, Outcomes
  <2> QED
    BY <1>1, <1>2, <1>3, <1>4, <2>1, <2>2, <2>3, <2>4, HandlerKeepsSchool
<1>11. CASE WriteUpdate(r)
  <2> DEFINE l == ask[r].lesson
             new == Patched(seen[r], ask[r].patch)
             row == Merge(lessons[l], seen[r], new)
  <2>1. /\ pc[r] = "write_update" /\ Goto(r, "respond")
        /\ lessons' = [lessons EXCEPT ![l] = row] /\ UNCHANGED <<homeworks, ask, seen>>
    BY <1>11 DEF WriteUpdate
  <2>2. /\ ask[r] \in LessonTypes /\ WorksOnLesson(r, l)
        /\ new \in LessonRow
    BY <1>1, <2>1 DEF KnowsLesson
  <2>3. /\ l \in LessonIds /\ lessons[l] \in LessonRow /\ seen[r] \in LessonRow
        /\ lessons[l] # Null /\ lessons[l].teacher = sub /\ ask[r].patch \in LessonPatches
        /\ ask[r].op = "update_lesson"
    BY <1>1, <2>2 DEF WorksOnLesson, LessonTypes, LessonsTableOK
  <2>4. /\ row \in LessonRow /\ row.teacher = lessons[l].teacher
        /\ row.student = lessons[l].student
        /\ row.homework = lessons[l].homework /\ row.deleted = lessons[l].deleted
    BY <2>2, <2>3, MergedLesson
  <2>5. RelationPair(relations, row.teacher, row.student)
    BY <2>2, <2>3, <2>4 DEF SchoolInv, TablesOK, LessonPairRelated, PairsOfLessonsIn
  <2> HIDE DEF row, new, l
  <2>6. TablesAdvance
    BY <1>1, <1>5, <2>1, <2>3, <2>4, <2>5, WriteLessonAdvances
  <2>7. KnowsLesson(r)' /\ KnowsDeleted(r)'
    BY <1>2, <2>1, <2>3 DEF KnowsLesson, KnowsDeleted
  <2> QED
    BY <1>1, <1>2, <1>3, <1>4, <2>1, <2>3, <2>6, <2>7, HandlerKeepsSchool
<1>12. CASE DeleteLesson(r)
  <2>1. PICK l \in LessonIds :
          /\ ask' = [ask EXCEPT ![r] = [op |-> "delete_lesson", lesson |-> l]]
          /\ IF Owns(sub, l)
             THEN seen' = [seen EXCEPT ![r] = lessons[l]] /\ Goto(r, "write_lesson_delete")
             ELSE Goto(r, "not_found") /\ UNCHANGED seen
    BY <1>12 DEF DeleteLesson
  <2>2. UNCHANGED <<lessons, homeworks>>
    BY <1>12 DEF DeleteLesson
  <2>3. PICK step, s :
          /\ step \in {"write_lesson_delete", "not_found"}
          /\ Goto(r, step) /\ seen' = [seen EXCEPT ![r] = s]
          /\ step = "write_lesson_delete" => Owns(sub, l) /\ s = lessons[l]
    BY <1>2, <2>1
  <2>4. /\ ask'[r] = [op |-> "delete_lesson", lesson |-> l]
        /\ pc'[r] = step /\ seen'[r] = s
    BY <1>2, <2>1, <2>3
  <2>5. lessons[l] # Null /\ lessons[l].homework # Null => HasHomework(lessons[l].homework)
    BY <1>1, LessonColumns DEF SchoolInv, TablesOK, HomeworkLinkedOnce, LinksIn, HasHomework,
         LessonsTableOK
  <2>6. KnowsLesson(r)' /\ KnowsDeleted(r)'
    BY <1>1, <2>2, <2>3, <2>4, <2>5
       DEF KnowsLesson, KnowsDeleted, WorksOnLesson, Owns, LessonsTableOK, HasHomework
  <2>7. step \in SchoolHandlerSteps \union Outcomes
    BY <2>3 DEF SchoolHandlerSteps, Outcomes
  <2> QED
    BY <1>1, <1>3, <1>4, <2>1, <2>2, <2>3, <2>6, <2>7, HandlerKeepsSchool
<1>13. CASE WriteLessonDelete(r)
  <2> DEFINE l == ask[r].lesson
             h == seen[r].homework
             row == [lessons[l] EXCEPT !.deleted = TRUE]
  <2>1. /\ pc[r] = "write_lesson_delete" /\ Goto(r, "respond") /\ UNCHANGED <<ask, seen>>
        /\ lessons' = [lessons EXCEPT ![l] = row]
        /\ homeworks' = IF h = Null THEN homeworks
                        ELSE [homeworks EXCEPT ![h].deleted = TRUE]
    BY <1>13 DEF WriteLessonDelete
  <2>2. /\ ask[r].op = "delete_lesson" /\ l \in LessonIds
        /\ lessons[l] # Null /\ lessons[l] \in LessonRow
        /\ h # Null => HasHomework(h)
    BY <1>1, <2>1 DEF KnowsLesson, WorksOnLesson, LessonsTableOK
  <2>3. /\ row \in LessonRow /\ row.teacher = lessons[l].teacher
        /\ row.student = lessons[l].student /\ row.homework = lessons[l].homework
        /\ row.deleted = TRUE /\ row # Null
    BY <2>2, NullIsNoLesson DEF LessonRow
  <2>4. /\ HomeworksTableOK' /\ HomeworksAdvance
        /\ h # Null => homeworks'[h] # Null /\ homeworks'[h].deleted = TRUE
    <3>1. CASE h = Null
      BY <1>1, <1>5, <2>1, <3>1
    <3>2. CASE h # Null
      <4>1. h \in HomeworkIds /\ homeworks[h] \in HomeworkRow
        BY <1>1, <2>2, <3>2 DEF HasHomework, HomeworksTableOK
      <4>2. homeworks' = [homeworks EXCEPT ![h] = [homeworks[h] EXCEPT !.deleted = TRUE]]
        BY <2>1, <3>2
      <4>3. /\ [homeworks[h] EXCEPT !.deleted = TRUE] \in HomeworkRow
            /\ [homeworks[h] EXCEPT !.deleted = TRUE].deleted = TRUE
            /\ [homeworks[h] EXCEPT !.deleted = TRUE] # Null
        BY <4>1, NullIsNoLesson DEF HomeworkRow
      <4> HIDE DEF h
      <4> QED
        BY <1>1, <4>1, <4>2, <4>3 DEF HomeworksTableOK, HomeworksAdvance
    <3> QED
      BY <3>1, <3>2
  <2>5. RelationPair(relations, row.teacher, row.student)
    BY <2>2, <2>3 DEF SchoolInv, TablesOK, LessonPairRelated, PairsOfLessonsIn
  <2> HIDE DEF row, l, h
  <2>6. TablesAdvance
    BY <1>1, <2>1, <2>2, <2>3, <2>4, <2>5, WriteLessonAdvances
  <2>7. KnowsLesson(r)' /\ KnowsDeleted(r)'
    <3>1. lessons'[l] = row
      BY <1>1, <2>1, <2>2 DEF LessonsTableOK
    <3>2. pc'[r] = "respond" /\ ask'[r] = ask[r] /\ seen'[r] = seen[r]
      BY <1>2, <2>1
    <3>3. KnowsLesson(r)'
      BY <3>2 DEF KnowsLesson
    <3>4. KnowsDeleted(r)'
      BY <2>2, <2>3, <2>4, <3>1, <3>2 DEF KnowsDeleted, HasHomework, l, h
    <3> QED
      BY <3>3, <3>4
  <2> QED
    BY <1>1, <1>2, <1>3, <1>4, <2>1, <2>2, <2>6, <2>7, HandlerKeepsSchool
<1>14. CASE RefuseNullTime(r)
  <2>1. /\ Goto(r, "server_error") /\ UNCHANGED <<lessons, homeworks, ask, seen>>
    BY <1>14 DEF RefuseNullTime
  <2>2. KnowsLesson(r)' /\ KnowsDeleted(r)'
    BY <1>2, <2>1 DEF KnowsLesson, KnowsDeleted
  <2>3. "server_error" \in SchoolHandlerSteps \union Outcomes
    BY DEF Outcomes
  <2> QED
    BY <1>1, <1>2, <1>3, <1>4, <2>1, <2>2, <2>3, HandlerKeepsSchool
<1> QED
  BY <1>6, <1>7, <1>8, <1>9, <1>10, <1>11, <1>12, <1>13, <1>14 DEF LessonsStep

\* A homeworks table in which one row is written, deleted if it was, advances.
LEMMA WriteHomeworkAdvances ==
    ASSUME HomeworksTableOK, NEW h \in HomeworkIds, NEW row \in HomeworkRow,
           homeworks' = [homeworks EXCEPT ![h] = row],
           homeworks[h] # Null => (homeworks[h].deleted => row.deleted)
    PROVE  /\ HomeworksTableOK' /\ HomeworksAdvance
           /\ homeworks'[h] = row /\ homeworks'[h] # Null
<1>1. row # Null
  BY HomeworkColumns
<1> QED
  BY <1>1 DEF HomeworksTableOK, HomeworksAdvance

\* The tables advance when the lessons are left alone.
LEMMA LessonsAloneAdvance ==
    ASSUME SchoolInv, UNCHANGED <<relations, lessons>>,
           HomeworksTableOK', HomeworksAdvance
    PROVE  TablesAdvance
<1>1. TablesOK /\ RelationsAdvance
  BY DEF SchoolInv, RelationsAdvance
<1>2. LessonsAdvance /\ LessonsTableOK'
  BY <1>1 DEF LessonsAdvance, LinkStays, TablesOK, LessonsTableOK
<1>3. LessonPairRelated' /\ HomeworkLinkedOnce'
  BY <1>1, PairsAdvance, LinksAdvance
<1> QED
  BY <1>2, <1>3 DEF TablesAdvance, TablesOK

\* A lesson given a homework that was just inserted: no other lesson links it.
LEMMA LinkAdvances ==
    ASSUME SchoolInv, UNCHANGED relations,
           NEW h \in HomeworkIds, homeworks[h] = Null,
           NEW row \in HomeworkRow, homeworks' = [homeworks EXCEPT ![h] = row],
           NEW l \in LessonIds, lessons[l] # Null,
           lessons' = [lessons EXCEPT ![l].homework = h]
    PROVE  TablesAdvance
<1>1. /\ TablesOK /\ LessonsTableOK /\ HomeworksTableOK /\ RelationsAdvance
  BY DEF SchoolInv, TablesOK, RelationsAdvance
<1>2. /\ HomeworksTableOK' /\ HomeworksAdvance
      /\ homeworks'[h] # Null
  BY <1>1, WriteHomeworkAdvances
<1>3. /\ lessons[l] \in LessonRow
      /\ lessons' = [lessons EXCEPT ![l] = [lessons[l] EXCEPT !.homework = h]]
  BY <1>1 DEF LessonsTableOK
<1> DEFINE new == [lessons[l] EXCEPT !.homework = h]
<1>4. /\ new \in LessonRow /\ new # Null /\ new.homework = h
      /\ new.teacher = lessons[l].teacher /\ new.student = lessons[l].student
      /\ new.deleted = lessons[l].deleted
  BY <1>3, NullIsNoLesson DEF LessonRow
<1> HIDE DEF new
<1>5. /\ LessonsTableOK' /\ lessons'[l] = new
      /\ \A m \in LessonIds \ {l} : lessons'[m] = lessons[m]
  BY <1>1, <1>3, <1>4 DEF LessonsTableOK, new
<1>6. LessonsAdvance
  BY <1>4, <1>5 DEF LessonsAdvance, LinkStays
<1>7. LessonPairRelated'
  BY <1>1, <1>4, <1>5, PairsAdvance
<1>8. \A m \in LessonIds :
        (lessons[m] # Null /\ lessons[m].homework # Null) =>
            /\ lessons[m].homework \in HomeworkIds
            /\ homeworks[lessons[m].homework] # Null
            /\ lessons[m].homework # h
  BY <1>1, LessonColumns DEF TablesOK, HomeworkLinkedOnce, LinksIn, LessonsTableOK
<1>9. HomeworkLinkedOnce'
  BY <1>1, <1>2, <1>4, <1>5, <1>8
     DEF TablesOK, HomeworkLinkedOnce, LinksIn, HomeworksAdvance
<1> QED
  BY <1>2, <1>5, <1>6, <1>7, <1>9 DEF TablesAdvance, TablesOK

\* Some lessons lose their link.
LEMMA UnlinkAdvances ==
    ASSUME SchoolInv, UNCHANGED relations, HomeworksTableOK', HomeworksAdvance,
           NEW ls, \A l \in ls : l \in LessonIds /\ lessons[l] # Null,
           lessons' = [l \in LessonIds |->
                IF l \in ls THEN [lessons[l] EXCEPT !.homework = Null] ELSE lessons[l]]
    PROVE  TablesAdvance
<1>1. TablesOK /\ LessonsTableOK /\ RelationsAdvance
  BY DEF SchoolInv, TablesOK, RelationsAdvance
<1>2. ASSUME NEW l \in ls
      PROVE  /\ lessons'[l] \in LessonRow /\ lessons'[l] # Null
             /\ lessons'[l].homework = Null
             /\ lessons'[l].teacher = lessons[l].teacher
             /\ lessons'[l].student = lessons[l].student
             /\ lessons'[l].deleted = lessons[l].deleted
  <2>1. lessons[l] \in LessonRow /\ lessons'[l] = [lessons[l] EXCEPT !.homework = Null]
    BY <1>1 DEF LessonsTableOK
  <2> QED
    BY <2>1, NullIsNoLesson DEF LessonRow
<1>3. \A l \in LessonIds \ ls : lessons'[l] = lessons[l]
  OBVIOUS
<1>4. LessonsTableOK'
  BY <1>1, <1>2, <1>3 DEF LessonsTableOK
<1>5. LessonsAdvance
  BY <1>2, <1>3 DEF LessonsAdvance, LinkStays
<1>6. LessonPairRelated'
  BY <1>1, <1>2, <1>3, PairsAdvance
<1>7. HomeworkLinkedOnce'
  BY <1>1, <1>2, <1>3, LinksAdvance
<1> QED
  BY <1>4, <1>5, <1>6, <1>7 DEF TablesAdvance, TablesOK

\* Each of the ten steps of the homework endpoints preserves the invariant.
LEMMA HomeworksStepKeepsSchool ==
    ASSUME SchoolInv, NEW r \in Requests, HomeworksStep(r)
    PROVE  SchoolInv' /\ RelationsAdvance /\ LessonsAdvance /\ HomeworksAdvance
<1> DEFINE sub == token[r].sub
<1>1. /\ pc[r] \in SchoolSteps \ SyncSteps
      /\ UNCHANGED <<relations, users, token, me>> /\ token'[r] = token[r]
      /\ sub \in Persons /\ KnowsLesson(r)
      /\ LessonsTableOK /\ HomeworksTableOK /\ RelationsTableOK
      /\ RelationsInv(SchoolSteps)
      /\ UNCHANGED <<lessons, homeworks>> => TablesAdvance
  BY SchoolHandler
<1>2. /\ ask' = ask => ask' = [ask EXCEPT ![r] = ask[r]]
      /\ seen' = seen => seen' = [seen EXCEPT ![r] = seen[r]]
      /\ \A a : ask' = [ask EXCEPT ![r] = a] => ask'[r] = a
      /\ \A s : seen' = [seen EXCEPT ![r] = s] => seen'[r] = s
      /\ \A step : Goto(r, step) => pc'[r] = step
  BY <1>1, SessionReads
<1>3. \A step \in SchoolHandlerSteps \union {"respond"} \union Outcomes :
        step \in Outcomes \union (SchoolSteps \ (SyncSteps \union HandlerSteps \union {"ready"}))
  BY SchoolStepNames
<1>4. TablesAdvance => LessonsAdvance /\ HomeworksAdvance
  BY DEF TablesAdvance
<1>5. CASE CreateHomework(r)
  <2>1. PICK l \in LessonIds :
          /\ ask' = [ask EXCEPT ![r] = [op |-> "create_homework", lesson |-> l]]
          /\ IF Owns(sub, l)
             THEN seen' = [seen EXCEPT ![r] = lessons[l]] /\ Goto(r, "check_homework")
             ELSE Goto(r, "not_found") /\ UNCHANGED seen
    BY <1>5 DEF CreateHomework
  <2>2. UNCHANGED <<lessons, homeworks>>
    BY <1>5 DEF CreateHomework
  <2>3. PICK step, s :
          /\ step \in {"check_homework", "not_found"}
          /\ Goto(r, step) /\ seen' = [seen EXCEPT ![r] = s]
          /\ step = "check_homework" => Owns(sub, l) /\ s = lessons[l]
    BY <1>2, <2>1
  <2>4. /\ ask'[r] = [op |-> "create_homework", lesson |-> l]
        /\ pc'[r] = step /\ seen'[r] = s
    BY <1>2, <2>1, <2>3
  <2>5. KnowsLesson(r)' /\ KnowsDeleted(r)'
    BY <1>1, <2>2, <2>3, <2>4 DEF KnowsLesson, KnowsDeleted, WorksOnLesson, Owns, LessonsTableOK
  <2>6. step \in SchoolHandlerSteps \union Outcomes
    BY <2>3 DEF SchoolHandlerSteps, Outcomes
  <2> QED
    BY <1>1, <1>3, <1>4, <2>1, <2>2, <2>3, <2>5, <2>6, HandlerKeepsSchool
<1>6. CASE CheckHomework(r) \/ RereadLesson(r)
  <2>1. /\ pc[r] \in {"check_homework", "reread_lesson"}
        /\ UNCHANGED <<lessons, homeworks, ask, seen>>
    BY <1>6 DEF CheckHomework, RereadLesson
  <2>2. PICK step \in {"reread_lesson", "forbidden", "server_error", "conflict",
                       "insert_homework"} : Goto(r, step)
    BY <1>6 DEF CheckHomework, RereadLesson
  <2>3. /\ ask[r] \in [op : {"create_homework"}, lesson : LessonIds]
        /\ WorksOnLesson(r, ask[r].lesson)
    BY <1>1, <2>1 DEF KnowsLesson
  <2>4. WorksOnLesson(r, ask[r].lesson)' /\ ask'[r] = ask[r] /\ pc'[r] = step
    BY <1>1, <1>2, <2>1, <2>2, <2>3 DEF WorksOnLesson
  <2>5. KnowsLesson(r)' /\ KnowsDeleted(r)'
    BY <2>2, <2>3, <2>4 DEF KnowsLesson, KnowsDeleted
  <2>6. step \in SchoolHandlerSteps \union Outcomes
    BY <2>2 DEF SchoolHandlerSteps, Outcomes
  <2> QED
    BY <1>1, <1>2, <1>3, <1>4, <2>1, <2>2, <2>5, <2>6, HandlerKeepsSchool
<1>7. CASE InsertHomework(r)
  <2> DEFINE row == [answer |-> Null, brief |-> sub, deleted |-> FALSE]
  <2>1. /\ pc[r] = "insert_homework" /\ Goto(r, "serialize_homework")
        /\ UNCHANGED <<ask, seen>>
    BY <1>7 DEF InsertHomework
  <2>2. PICK h \in HomeworkIds :
          /\ homeworks[h] = Null /\ homeworks' = [homeworks EXCEPT ![h] = row]
          /\ lessons' = [lessons EXCEPT ![ask[r].lesson].homework = h]
    BY <1>7 DEF InsertHomework
  <2>3. /\ ask[r].op = "create_homework" /\ ask[r].lesson \in LessonIds
        /\ lessons[ask[r].lesson] # Null
    BY <1>1, <2>1 DEF KnowsLesson, WorksOnLesson
  <2>4. row \in HomeworkRow
    BY <1>1 DEF HomeworkRow
  <2> HIDE DEF row
  <2>5. TablesAdvance
    BY <1>1, <2>2, <2>3, <2>4, LinkAdvances
  <2>6. KnowsLesson(r)' /\ KnowsDeleted(r)'
    BY <1>2, <2>1, <2>3 DEF KnowsLesson, KnowsDeleted
  <2>7. "serialize_homework" \in SchoolHandlerSteps
    BY DEF SchoolHandlerSteps
  <2> QED
    BY <1>1, <1>2, <1>3, <1>4, <2>1, <2>5, <2>6, <2>7, HandlerKeepsSchool
<1>8. CASE UpdateHomework(r)
  <2>1. PICK h \in HomeworkIds, fields \in SUBSET {"answer", "brief"} :
          /\ ask' = [ask EXCEPT ![r] = [op |-> "update_homework", homework |-> h,
                                        fields |-> fields]]
          /\ Goto(r, IF me[r].role \notin KeycloakRoles THEN "forbidden"
                     ELSE IF ~VisibleHomework(r, h) THEN "not_found"
                     ELSE "write_homework")
    BY <1>8 DEF UpdateHomework
  <2>2. UNCHANGED <<lessons, homeworks, seen>>
    BY <1>8 DEF UpdateHomework
  <2>3. PICK step \in {"forbidden", "not_found", "write_homework"} :
          Goto(r, step) /\ (step = "write_homework" => VisibleHomework(r, h))
    BY <2>1
  <2>4. /\ ask'[r] = [op |-> "update_homework", homework |-> h, fields |-> fields]
        /\ pc'[r] = step
    BY <1>2, <2>1, <2>3
  <2>5. step = "write_homework" => HasHomework(h)
    BY <2>3 DEF VisibleHomework, Visible, HasHomework
  <2>6. KnowsLesson(r)' /\ KnowsDeleted(r)'
    BY <2>2, <2>3, <2>4, <2>5 DEF KnowsLesson, KnowsDeleted, HasHomework
  <2>7. step \in SchoolHandlerSteps \union Outcomes
    BY <2>3 DEF SchoolHandlerSteps, Outcomes
  <2>8. /\ step \in Outcomes \union (SchoolSteps \ (SyncSteps \union HandlerSteps \union {"ready"}))
        /\ step \notin {"respond", "ok"} /\ TablesAdvance
        /\ seen' = [seen EXCEPT ![r] = seen[r]]
    BY <1>1, <1>2, <1>3, <2>1, <2>2, <2>3, <2>7
  <2> QED
    BY <1>1, <1>4, <2>1, <2>2, <2>3, <2>6, <2>8, HandlerKeepsSchool
<1>9. CASE WriteHomework(r)
  <2> DEFINE h == ask[r].homework
             row == [homeworks[h] EXCEPT ![OwnField(r)] = sub]
  <2>1. /\ pc[r] = "write_homework" /\ Goto(r, "serialize_homework")
        /\ UNCHANGED <<lessons, ask, seen>>
        /\ \/ UNCHANGED homeworks
           \/ homeworks' = [homeworks EXCEPT ![h] = row]
    BY <1>9 DEF WriteHomework
  <2>2. ask[r].op = "update_homework" /\ h \in HomeworkIds /\ homeworks[h] \in HomeworkRow
    BY <1>1, <2>1 DEF KnowsLesson, HasHomework, HomeworksTableOK
  <2>3. row \in HomeworkRow /\ row.deleted = homeworks[h].deleted
    BY <1>1, <2>2 DEF HomeworkRow, OwnField
  <2> HIDE DEF row, h
  <2>4. TablesAdvance
    BY <1>1, <2>1, <2>2, <2>3, WriteHomeworkAdvances, LessonsAloneAdvance
  <2>5. KnowsLesson(r)' /\ KnowsDeleted(r)'
    BY <1>2, <2>1, <2>2 DEF KnowsLesson, KnowsDeleted
  <2>6. "serialize_homework" \in SchoolHandlerSteps
    BY DEF SchoolHandlerSteps
  <2> QED
    BY <1>1, <1>2, <1>3, <1>4, <2>1, <2>4, <2>5, <2>6, HandlerKeepsSchool
<1>10. CASE SerializeHomework(r)
  <2>1. /\ pc[r] = "serialize_homework" /\ UNCHANGED <<lessons, homeworks, ask, seen>>
        /\ ask[r].op \in {"create_homework", "update_homework"}
    BY <1>1, <1>10 DEF SerializeHomework, KnowsLesson
  <2>2. PICK step \in {"ok", "response_error"} : Goto(r, step)
    BY <1>10 DEF SerializeHomework
  <2>3. KnowsLesson(r)' /\ KnowsDeleted(r)'
    BY <1>2, <2>1, <2>2 DEF KnowsLesson, KnowsDeleted
  <2>4. step \in Outcomes
    BY <2>2 DEF Outcomes
  <2> QED
    BY <1>1, <1>2, <1>3, <1>4, <2>1, <2>2, <2>3, <2>4, HandlerKeepsSchool
<1>11. CASE DeleteHomework(r)
  <2>1. PICK h \in HomeworkIds, step \in {"load_linked_lesson", "not_found"} :
          /\ ask' = [ask EXCEPT ![r] = [op |-> "delete_homework", homework |-> h]]
          /\ Goto(r, step)
          /\ step = "load_linked_lesson" => homeworks[h] # Null
    BY <1>11 DEF DeleteHomework
  <2>2. UNCHANGED <<lessons, homeworks, seen>>
    BY <1>11 DEF DeleteHomework
  <2>3. ask'[r] = [op |-> "delete_homework", homework |-> h] /\ pc'[r] = step
    BY <1>2, <2>1
  <2>4. KnowsLesson(r)' /\ KnowsDeleted(r)'
    BY <2>1, <2>2, <2>3 DEF KnowsLesson, KnowsDeleted, HasHomework
  <2>5. step \in SchoolHandlerSteps \union Outcomes
    BY <2>1 DEF SchoolHandlerSteps, Outcomes
  <2>6. /\ step \in Outcomes \union (SchoolSteps \ (SyncSteps \union HandlerSteps \union {"ready"}))
        /\ step \notin {"respond", "ok"} /\ TablesAdvance
        /\ seen' = [seen EXCEPT ![r] = seen[r]]
    BY <1>1, <1>2, <1>3, <2>1, <2>2, <2>5
  <2> QED
    BY <1>1, <1>4, <2>1, <2>2, <2>4, <2>6, HandlerKeepsSchool
<1>12. CASE LoadLinkedLesson(r)
  <2>1. /\ pc[r] = "load_linked_lesson" /\ Goto(r, "write_homework_delete")
        /\ seen' = [seen EXCEPT ![r] = LessonOf(ask[r].homework)]
        /\ UNCHANGED <<lessons, homeworks, ask>>
    BY <1>12 DEF LoadLinkedLesson
  <2>2. /\ ask[r] \in [op : {"delete_homework"}, homework : HomeworkIds]
        /\ HasHomework(ask[r].homework)
    BY <1>1, <2>1 DEF KnowsLesson
  <2>3. /\ pc'[r] = "write_homework_delete" /\ ask'[r] = ask[r]
        /\ seen'[r] = LessonOf(ask[r].homework)
    BY <1>2, <2>1
  <2>4. KnowsLesson(r)' /\ KnowsDeleted(r)'
    BY <2>1, <2>2, <2>3 DEF KnowsLesson, KnowsDeleted, HasHomework, LessonOf
  <2>5. "write_homework_delete" \in SchoolHandlerSteps
    BY DEF SchoolHandlerSteps
  <2> QED
    BY <1>1, <1>2, <1>3, <1>4, <2>1, <2>4, <2>5, HandlerKeepsSchool
<1>13. CASE WriteHomeworkDelete(r)
  <2> DEFINE h == ask[r].homework
             row == [homeworks[h] EXCEPT !.deleted = TRUE]
  <2>1. /\ pc[r] = "write_homework_delete" /\ Goto(r, "respond") /\ UNCHANGED <<ask, seen>>
        /\ homeworks' = [homeworks EXCEPT ![h] = row]
        /\ lessons' = [l \in LessonIds |->
                IF l \in seen[r] THEN [lessons[l] EXCEPT !.homework = Null]
                ELSE lessons[l]]
    BY <1>13 DEF WriteHomeworkDelete
  <2>2. /\ ask[r].op = "delete_homework" /\ h \in HomeworkIds
        /\ homeworks[h] \in HomeworkRow
        /\ \A l \in seen[r] : l \in LessonIds /\ lessons[l] # Null
        /\ LessonOf(h) \subseteq seen[r]
    BY <1>1, <2>1 DEF KnowsLesson, HasHomework, HomeworksTableOK
  <2>3. row \in HomeworkRow /\ row.deleted = TRUE
    BY <2>2 DEF HomeworkRow
  <2> HIDE DEF row, h
  <2>4. /\ HomeworksTableOK' /\ HomeworksAdvance
        /\ homeworks'[h] = row /\ homeworks'[h] # Null
    BY <1>1, <2>1, <2>2, <2>3, WriteHomeworkAdvances
  <2>5. TablesAdvance
    BY <1>1, <2>1, <2>2, <2>4, UnlinkAdvances
  <2>6. pc'[r] = "respond" /\ ask'[r] = ask[r]
    BY <1>2, <2>1
  <2>8. LessonOf(h)' = {}
    <3>1. ASSUME NEW l \in LessonIds, lessons'[l] # Null PROVE lessons'[l].homework # h
      <4>1. CASE l \in seen[r]
        <5>1. lessons'[l] = [lessons[l] EXCEPT !.homework = Null] /\ lessons[l] \in LessonRow
          BY <1>1, <2>1, <2>2, <4>1 DEF LessonsTableOK
        <5> QED
          BY <2>2, <5>1, NullIsNoLesson DEF LessonRow
      <4>2. CASE l \notin seen[r]
        BY <2>1, <2>2, <3>1, <4>2 DEF LessonOf
      <4> QED
        BY <4>1, <4>2
    <3>2. h' = h
      BY <2>6 DEF h
    <3> QED
      BY <3>1, <3>2 DEF LessonOf
  <2>7. KnowsLesson(r)' /\ KnowsDeleted(r)'
    <3>1. KnowsLesson(r)'
      BY <2>6 DEF KnowsLesson
    <3>2. KnowsDeleted(r)'
      BY <2>2, <2>3, <2>4, <2>6, <2>8 DEF KnowsDeleted, HasHomework, h
    <3> QED
      BY <3>1, <3>2
  <2> QED
    BY <1>1, <1>2, <1>3, <1>4, <2>1, <2>2, <2>5, <2>7, HandlerKeepsSchool
<1> QED
  BY <1>5, <1>6, <1>7, <1>8, <1>9, <1>10, <1>11, <1>12, <1>13 DEF HomeworksStep

\* A read leaves the tables alone and knows nothing but that it reads.
LEMMA ReadsStepKeepsSchool ==
    ASSUME SchoolInv, NEW r \in Requests, ReadsStep(r)
    PROVE  SchoolInv' /\ RelationsAdvance /\ LessonsAdvance /\ HomeworksAdvance
<1>1. /\ pc[r] \in SchoolSteps \ SyncSteps
      /\ UNCHANGED <<relations, users, token, me>>
      /\ KnowsLesson(r) /\ RelationsInv(SchoolSteps)
      /\ UNCHANGED <<lessons, homeworks>> => TablesAdvance
  BY SchoolHandler
<1>2. UNCHANGED <<lessons, homeworks>>
  BY DEF ReadsStep, ListRelations, ListLessons, ListHomeworks, GetHomework, LoadLessons
<1>3. /\ ask' = ask => ask' = [ask EXCEPT ![r] = ask[r]]
      /\ seen' = seen => seen' = [seen EXCEPT ![r] = seen[r]]
      /\ \A a : ask' = [ask EXCEPT ![r] = a] => ask'[r] = a
      /\ \A step : Goto(r, step) => pc'[r] = step
  BY <1>1, SessionReads
<1>4. ASSUME NEW hs, Found(r, hs)
      PROVE  \E step \in {"ok", "load_lessons"} : \E a, s :
                /\ Goto(r, step) /\ ask' = [ask EXCEPT ![r] = a]
                /\ seen' = [seen EXCEPT ![r] = s] /\ a.op = "read_homework"
  <2>1. PICK a : ask' = [ask EXCEPT ![r] = a] /\ a = [op |-> "read_homework"]
    BY <1>4 DEF Found
  <2>2. PICK s : seen' = [seen EXCEPT ![r] = s]
    BY <1>4 DEF Found
  <2>3. PICK step \in {"ok", "load_lessons"} : Goto(r, step)
    BY <1>4 DEF Found
  <2>4. a.op = "read_homework"
    BY <2>1
  <2> QED
    BY <2>1, <2>2, <2>3, <2>4, Zenon
<1>5. PICK step, a, s :
        /\ Goto(r, step) /\ ask' = [ask EXCEPT ![r] = a] /\ seen' = [seen EXCEPT ![r] = s]
        /\ step \in {"ok", "load_lessons", "forbidden", "not_found"}
        /\ step \in {"ok", "load_lessons"} =>
            a.op \in {"list_relations", "list_lessons", "read_homework"}
        /\ step = "load_lessons" => a.op = "read_homework"
  <2>1. CASE ListRelations(r) \/ ListLessons(r)
    <3>1. PICK op \in {"list_relations", "list_lessons"} : \E a :
            ask' = [ask EXCEPT ![r] = a] /\ a = [op |-> op]
      BY <2>1 DEF ListRelations, ListLessons
    <3>2. PICK a :
            ask' = [ask EXCEPT ![r] = a] /\ a = [op |-> op]
      BY <3>1
    <3>3. PICK s : Goto(r, "ok") /\ seen' = [seen EXCEPT ![r] = s]
      BY <2>1 DEF ListRelations, ListLessons
    <3>4. a.op \in {"list_relations", "list_lessons", "read_homework"}
      BY <3>2
    <3>5. "ok" \in {"ok", "load_lessons", "forbidden", "not_found"} /\ "ok" # "load_lessons"
      OBVIOUS
    <3> QED
      BY <3>2, <3>3, <3>4, <3>5, Zenon
  <2>2. CASE ListHomeworks(r)
    BY <1>4, <2>2 DEF ListHomeworks
  <2>3. CASE GetHomework(r)
    <3>1. \/ \E step \in {"forbidden", "not_found"} : Goto(r, step) /\ UNCHANGED <<ask, seen>>
          \/ \E hs : Found(r, hs)
      BY <2>3 DEF GetHomework
    <3> QED
      BY <1>3, <1>4, <3>1
  <2>4. CASE LoadLessons(r)
    <3>1. ask[r].op = "read_homework"
      BY <1>1, <2>4 DEF LoadLessons, KnowsLesson
    <3>2. \E s : seen' = [seen EXCEPT ![r] = s]
      BY <2>4 DEF LoadLessons
    <3>3. Goto(r, "ok") /\ ask' = [ask EXCEPT ![r] = ask[r]]
      BY <1>3, <2>4 DEF LoadLessons
    <3> QED
      BY <3>1, <3>2, <3>3
  <2> QED
    BY <2>1, <2>2, <2>3, <2>4 DEF ReadsStep
<1>6. pc'[r] = step /\ ask'[r] = a
  BY <1>3, <1>5
<1>7. KnowsLesson(r)' /\ KnowsDeleted(r)'
  BY <1>5, <1>6 DEF KnowsLesson, KnowsDeleted
<1>8. step \in SchoolHandlerSteps \union Outcomes
  BY <1>5 DEF SchoolHandlerSteps, Outcomes
<1>9. /\ step \in Outcomes \union (SchoolSteps \ (SyncSteps \union HandlerSteps \union {"ready"}))
      /\ step \in {"respond", "ok"} => a.op # "archive"
      /\ TablesAdvance
  BY <1>1, <1>2, <1>5, <1>8, SchoolStepNames
<1>10. TablesAdvance => LessonsAdvance /\ HomeworksAdvance
  BY DEF TablesAdvance
<1> QED
  BY <1>1, <1>5, <1>7, <1>9, <1>10, HandlerKeepsSchool

-----------------------------------------------------------------------------
\* The steps of the other two modules leave lessons and homeworks alone and
\* lead to none of their handlers' steps.
LEMMA OtherStepKeepsSchool ==
    ASSUME SchoolInv, NEW r \in Requests,
           (UsersStep(r) /\ UNCHANGED relations) \/ RelationsStep(r),
           UNCHANGED <<lessons, homeworks>>
    PROVE  SchoolInv' /\ RelationsAdvance /\ LessonsAdvance /\ HomeworksAdvance
<1>1. RelationsInv(SchoolSteps) /\ KnowsRelation(r) /\ KnowsDeleted(r)
  BY DEF SchoolInv, RelationsInv
<1>2. RelationsInv(SchoolSteps)' /\ RelationsAdvance
  BY <1>1, SchoolStepNames, UsersStepKeepsRelations, RelationsStepKeepsRelations
<1>3. TablesAdvance
  BY <1>2, SameTablesAdvance
<1>4. PICK step, t, a, s :
        /\ Goto(r, step) /\ token' = [token EXCEPT ![r] = t]
        /\ ask' = [ask EXCEPT ![r] = a] /\ seen' = [seen EXCEPT ![r] = s]
        /\ step \notin SchoolHandlerSteps
        /\ step \in {"respond", "ok"} =>
            \/ a = Null
            \/ a.op \in {"create_relation", "archive"}
            \/ pc[r] = "respond" /\ a = ask[r] /\ s = seen[r]
  <2>1. /\ ask = [ask EXCEPT ![r] = ask[r]] /\ seen = [seen EXCEPT ![r] = seen[r]]
        /\ token = [token EXCEPT ![r] = token[r]]
    BY <1>1, SessionReads DEF RelationsInv, AccountsInv, SessionTypeOK, SessionFunctions
  <2>2. CASE RejectToken(r) \/ RefuseRole(r) \/ DbFail(r)
    <3>1. /\ UNCHANGED <<ask, seen>> /\ \E t : token' = [token EXCEPT ![r] = t]
          /\ \E step \in {"unauthorized", "bad_request", "forbidden", "db_error"} :
                Goto(r, step)
      BY <2>1, <2>2 DEF RejectToken, RefuseRole, DbFail
    <3> QED
      BY <2>1, <3>1 DEF SchoolHandlerSteps
  <2>3. CASE Authenticate(r) \/ InsertUser(r) \/ UpdateUser(r) \/ RefreshUser(r)
    <3>1. /\ UNCHANGED <<ask, seen>> /\ \E t : token' = [token EXCEPT ![r] = t]
          /\ \E step \in SyncSteps \union {"ready", "server_error"} : Goto(r, step)
      BY <2>1, <2>3 DEF Authenticate, InsertUser, UpdateUser, RefreshUser, SyncSteps
    <3> QED
      BY <2>1, <3>1 DEF SchoolHandlerSteps, SyncSteps
  <2>4. CASE ReturnProfile(r) \/ Respond(r)
    <3>1. /\ Goto(r, "ok") /\ UNCHANGED <<token, ask, seen>>
          /\ ask[r] = Null \/ pc[r] = "respond"
      BY <1>1, <2>4 DEF ReturnProfile, Respond, Enter, KnowsRelation
    <3>2. "ok" \notin SchoolHandlerSteps
      BY DEF SchoolHandlerSteps
    <3> QED
      BY <2>1, <3>1, <3>2
  <2>5. CASE Reply(r)
    BY <2>5 DEF Reply, SchoolHandlerSteps
  <2>6. CASE CreateRelation(r)
    <3>1. /\ UNCHANGED <<token, seen>>
          /\ \E step \in {"bad_request", "conflict", "load_student"} : Goto(r, step)
          /\ \E a : ask' = [ask EXCEPT ![r] = a]
      BY <2>6 DEF CreateRelation
    <3> QED
      BY <2>1, <3>1 DEF SchoolHandlerSteps
  <2>7. CASE LoadStudent(r) \/ InsertRelation(r)
    <3>1. ask[r].op = "create_relation" /\ UNCHANGED <<token, ask, seen>>
      BY <1>1, <2>7 DEF LoadStudent, InsertRelation, KnowsRelation
    <3>2. PICK step \in {"not_found", "bad_request", "insert_relation", "server_error",
                         "respond"} : Goto(r, step)
      BY <2>7 DEF LoadStudent, InsertRelation
    <3>3. step \notin SchoolHandlerSteps
      BY <3>2 DEF SchoolHandlerSteps
    <3> QED
      BY <2>1, <3>1, <3>2, <3>3
  <2>8. CASE ArchiveRelation(r)
    <3>1. /\ UNCHANGED token
          /\ \E step \in {"not_found", "forbidden", "write_archive"} : Goto(r, step)
          /\ \E a : ask' = [ask EXCEPT ![r] = a]
          /\ \E s : seen' = [seen EXCEPT ![r] = s]
      BY <2>8 DEF ArchiveRelation
    <3> QED
      BY <2>1, <3>1 DEF SchoolHandlerSteps
  <2>9. CASE WriteArchive(r)
    <3>1. ask[r].op = "archive" /\ UNCHANGED <<token, ask, seen>> /\ Goto(r, "respond")
      BY <1>1, <2>9 DEF WriteArchive, KnowsRelation
    <3> QED
      BY <2>1, <3>1 DEF SchoolHandlerSteps
  <2> QED
    BY <2>2, <2>3, <2>4, <2>5, <2>6, <2>7, <2>8, <2>9 DEF UsersStep, RelationsStep
<1>5. pc'[r] = step /\ ask'[r] = a /\ seen'[r] = s
  BY <1>1, <1>4, SessionReads
<1>6. KnowsLesson(r)'
  BY <1>4, <1>5 DEF KnowsLesson, SchoolHandlerSteps
<1>7. KnowsDeleted(r)'
  <2>1. CASE a = Null \/ a.op \in {"create_relation", "archive"} \/ step \notin {"respond", "ok"}
    BY <1>5, <2>1 DEF KnowsDeleted
  <2>2. CASE pc[r] = "respond" /\ a = ask[r] /\ s = seen[r]
    BY <1>1, <1>5, <2>2 DEF KnowsDeleted, HasHomework, LessonOf
  <2> QED
    BY <1>4, <2>1, <2>2
<1>8. ASSUME NEW q \in Requests PROVE KnowsLesson(q)' /\ KnowsDeleted(q)'
  <2>1. CASE q = r
    BY <1>6, <1>7, <2>1
  <2>2. CASE q # r
    <3>1. /\ pc'[q] = pc[q] /\ token'[q] = token[q]
          /\ ask'[q] = ask[q] /\ seen'[q] = seen[q]
      BY <1>1, <1>4, <2>2 DEF Goto, RelationsInv, SessionFunctions, AccountsInv, SessionTypeOK
    <3> QED
      BY <1>2, <1>3, <3>1, OthersKeepLesson DEF TablesAdvance
  <2> QED
    BY <2>1, <2>2
<1> QED
  BY <1>2, <1>3, <1>8 DEF SchoolInv, TablesAdvance

\* Initially the tables are the ones given and no request knows anything.
LEMMA InitHasSchool == SchoolInit => SchoolInv
<1> SUFFICES ASSUME SchoolInit PROVE SchoolInv
  OBVIOUS
<1>1. RelationsInv(SchoolSteps)
  BY InitHasRelations, SchoolStepNames DEF SchoolInit, LessonsInit, StepsOf
<1>2. TablesOK
  BY InitialLessonsAreLegal
     DEF SchoolInit, LessonsInit, RelationsInit, TablesOK, LessonsTableOK, HomeworksTableOK,
         LessonPairRelated, HomeworkLinkedOnce
<1>3. \A r \in Requests : KnowsLesson(r) /\ KnowsDeleted(r)
  BY DEF SchoolInit, LessonsInit, RelationsInit, UsersInit, SessionInit, KnowsLesson, KnowsDeleted
<1> QED
  BY <1>1, <1>2, <1>3 DEF SchoolInv

\* The invariant is about no other variable.
LEMMA StutterKeepsSchool ==
    ASSUME SchoolInv, UNCHANGED schoolVars
    PROVE  SchoolInv' /\ RelationsAdvance /\ LessonsAdvance /\ HomeworksAdvance
<1> USE DEF schoolVars, relationsVars, usersVars, sessionVars
<1>1. RelationsInv(SchoolSteps)' /\ RelationsAdvance
  BY StutterKeepsRelations DEF SchoolInv
<1>2. TablesAdvance
  BY <1>1, SameTablesAdvance
<1>3. \A q \in Requests : KnowsLesson(q)' /\ KnowsDeleted(q)'
  BY <1>1, <1>2, OthersKeepLesson DEF TablesAdvance
<1> QED
  BY <1>1, <1>2, <1>3 DEF SchoolInv, TablesAdvance

SchoolAdvance == RelationsAdvance /\ LessonsAdvance /\ HomeworksAdvance

\* The invariant holds of any traffic to all the endpoints, and every step of
\* it advances the tables.
LEMMA SchoolInvariant == SchoolSpec => []SchoolInv /\ [][SchoolAdvance]_schoolVars
<1>1. SchoolInv /\ [SchoolNext]_schoolVars => SchoolInv' /\ SchoolAdvance
  <2> SUFFICES ASSUME SchoolInv, [SchoolNext]_schoolVars
               PROVE  SchoolInv' /\ SchoolAdvance
    OBVIOUS
  <2>1. CASE SchoolNext
    <3>1. PICK r \in Requests :
            \/ UsersStep(r) /\ UNCHANGED <<relations, lessons, homeworks>>
            \/ RelationsStep(r) /\ UNCHANGED <<lessons, homeworks>>
            \/ LessonsStep(r)
            \/ HomeworksStep(r)
            \/ ReadsStep(r)
      BY <2>1 DEF SchoolNext
    <3> QED
      BY <3>1, OtherStepKeepsSchool, LessonsStepKeepsSchool, HomeworksStepKeepsSchool,
          ReadsStepKeepsSchool
         DEF SchoolAdvance
  <2>2. CASE UNCHANGED schoolVars
    BY <2>2, StutterKeepsSchool DEF SchoolAdvance
  <2> QED
    BY <2>1, <2>2
<1> QED
  BY <1>1, InitHasSchool, PTL DEF SchoolSpec

-----------------------------------------------------------------------------
\* The four tables and the sessions keep their types.
THEOREM SchoolTyped == SchoolSpec => []SchoolTypeOK
<1>1. SchoolInv => SchoolTypeOK
  BY DEF SchoolInv, RelationsInv, RelationsTableOK, AccountsInv, TablesOK, LessonsTableOK,
       HomeworksTableOK, SchoolTypeOK, HoldsLesson, KnowsLesson, WorksOnLesson
<1> QED
  BY <1>1, SchoolInvariant, PTL

\* Nobody ever has a lesson with somebody they were never related to, however
\* stale the objects are that creations and updates work from.
THEOREM SchoolLessonPairRelated == SchoolSpec => []LessonPairRelated
<1>1. SchoolInv => LessonPairRelated
  BY DEF SchoolInv, TablesOK
<1> QED
  BY <1>1, SchoolInvariant, PTL

\* No two lessons ever link one homework, and no link dangles.
THEOREM SchoolHomeworkLinkedOnce == SchoolSpec => []HomeworkLinkedOnce
<1>1. SchoolInv => HomeworkLinkedOnce
  BY DEF SchoolInv, TablesOK
<1> QED
  BY <1>1, SchoolInvariant, PTL

\* What a delete was answered for is deleted, a lesson with the homework it
\* loaded, and a deleted homework is linked by no lesson.
THEOREM SchoolDeletedWhenAnswered == SchoolSpec => []DeletedWhenAnswered
<1>1. SchoolInv => DeletedWhenAnswered
  BY DEF SchoolInv, KnowsDeleted, DeletedWhenAnswered
<1> QED
  BY <1>1, SchoolInvariant, PTL

\* No step brings a deleted lesson or homework back, removes a row, links a
\* homework once more, or gives a lesson to another teacher or student.
THEOREM SchoolDeletionIsFinal == SchoolSpec => DeletionIsFinal
<1>1. [SchoolAdvance]_schoolVars =>
        [LessonsAdvance /\ HomeworksAdvance]_<<lessons, homeworks>>
  BY DEF SchoolAdvance, schoolVars
<1>2. SchoolSpec => [][LessonsAdvance /\ HomeworksAdvance]_<<lessons, homeworks>>
  BY <1>1, SchoolInvariant, PTL
<1> QED
  BY <1>2 DEF DeletionIsFinal
=============================================================================
