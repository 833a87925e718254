---------------------------- MODULE SerialProofs ----------------------------
(***************************************************************************)
(* What the endpoints keep when requests come one after the other: the     *)
(* object a handler loaded is still the row when it writes, and what it    *)
(* has checked still holds; and that they implement the classroom.         *)
(***************************************************************************)
EXTENDS SchoolProofs

OneAtATime == \A q, r \in Requests : q = r

\* Why a request may have ended in an exception nobody handles.
Explained(r) ==
    IF ask[r] # Null THEN NamesOtherStudent(r)
    ELSE \/ RoleOf(token[r]) = Null
         \/ EmailTaken(token[r].sub, token[r].email)
         \/ me[r] = Profile(token[r])

\* What was read is still so.
Fresh(r) ==
    /\ pc[r] = "server_error" => Explained(r)
    /\ pc[r] = "insert_user" => users[token[r].sub] = Null
    /\ pc[r] = "update_user" => me[r] = users[token[r].sub]
    /\ pc[r] = "refresh_user" => users[token[r].sub] = Profile(token[r])
    /\ pc[r] = "ready" =>
        me[r] = Profile(token[r]) /\ users[token[r].sub] = me[r]
    /\ pc[r] \in {"load_student", "insert_relation"} =>
        ~RelationPair(relations, token[r].sub, ask[r].student)
    /\ pc[r] = "insert_lesson" => ActiveRelation(token[r].sub, ask[r].body.student)
    /\ pc[r] \in HoldsLesson =>
        seen[r] = lessons[ask[r].lesson] /\ ~seen[r].deleted
    /\ pc[r] \in {"reread_update", "write_update"} =>
        LET new == Patched(seen[r], ask[r].patch) IN
        /\ new.start < new.end
        /\ new.status \in AllowedStatus(seen[r].status)
        /\ ActiveRelation(token[r].sub, Given(ask[r].patch, "student", seen[r]))
    /\ pc[r] = "write_update" => MatchesStudent(ask[r].patch, seen[r])
    /\ (pc[r] = "insert_homework" /\ seen[r].homework # Null) =>
        homeworks[seen[r].homework].deleted
    /\ pc[r] \in {"reread_lesson", "insert_homework"} =>
        ActiveRelation(token[r].sub, seen[r].student)
    /\ pc[r] = "write_homework" => VisibleHomework(r, ask[r].homework)
    /\ pc[r] = "write_homework_delete" => seen[r] = LessonOf(ask[r].homework)

FreshSteps ==
    {"server_error", "insert_user", "update_user", "refresh_user", "ready",
     "load_student", "insert_relation", "insert_lesson", "write_homework",
     "write_homework_delete"} \union HoldsLesson

\* The inductive invariant.
SerialInv == SchoolInv /\ \A r \in Requests : Fresh(r)

\* What a step may do to a lesson's status.
StatusMoves ==
    \A l \in LessonIds :
        (lessons[l] # Null /\ lessons'[l].status # lessons[l].status)
            => lessons[l].status = "active"

\* What a step does to the tables of a school in order.
SerialMoves ==
    /\ StatusMoves
    /\ TimesOrdered => TimesOrdered'
    /\ HomeworkLivesWithLesson => HomeworkLivesWithLesson'

-----------------------------------------------------------------------------
\* A step that leaves lessons and homework alone leaves them in order.
LEMMA QuietMoves ==
    ASSUME UNCHANGED <<lessons, homeworks>>
    PROVE  SerialMoves
BY DEF SerialMoves, StatusMoves, TimesOrdered, HomeworkLivesWithLesson, LessonOf

\* A request that goes on to a step that relies on nothing is fresh.
LEMMA NothingToKeep ==
    ASSUME NEW r \in Requests, pc'[r] \notin FreshSteps
    PROVE  Fresh(r)'
BY DEF Fresh, FreshSteps, HoldsLesson

\* The body of an update is not Null, which is the body of no request.
LEMMA UpdateIsNotNull ==
    ASSUME NEW a \in LessonTypes
    PROVE  a # Null
BY NullIsNoLesson DEF LessonTypes

\* With nothing written since the object was loaded, the row becomes what the
\* token, or the body, says.
LEMMA MergedProfile ==
    ASSUME NEW row \in UserRow, NEW t \in Tokens
    PROVE  Merge(row, row, Profile(t)) = Profile(t)
<1>1. DOMAIN row = {"email", "role"} /\ DOMAIN Profile(t) = {"email", "role"}
  BY DEF UserRow, Profile
<1>2. Merge(row, row, Profile(t)) = [col \in {"email", "role"} |-> Profile(t)[col]]
  BY <1>1 DEF Merge
<1> QED
  BY <1>2 DEF Profile

LEMMA MergedPatch ==
    ASSUME NEW row \in LessonRow, NEW patch \in LessonPatches
    PROVE  LET new == Patched(row, patch) IN
           /\ Merge(row, row, new) = new
           /\ new.teacher = row.teacher /\ new.homework = row.homework
           /\ new.deleted = row.deleted /\ new.student = row.student
<1> DEFINE new == Patched(row, patch)
<1>1. DOMAIN patch = {"student", "start", "end", "status"}
  BY BodiesPassSchema DEF LessonPatch
<1>2. DOMAIN new = DOMAIN row /\ new = [col \in DOMAIN row |-> new[col]]
  BY DEF Patched
<1>3. /\ new.teacher = row.teacher /\ new.homework = row.homework
      /\ new.deleted = row.deleted /\ new.student = row.student
  BY <1>1, LessonColumns DEF Patched
<1> HIDE DEF new
<1>4. Merge(row, row, new) = new
  BY <1>2 DEF Merge
<1> QED
  BY <1>3, <1>4 DEF new

-----------------------------------------------------------------------------
\* The synchronisation ends with a row, and an object, that say what the
\* token says.
LEMMA UsersStepStaysFresh ==
    ASSUME SerialInv, NEW r \in Requests, UsersStep(r)
    PROVE  Fresh(r)'
<1>1. /\ SessionTypeOK(SchoolSteps) /\ KnowsRow(r) /\ KnowsRelation(r) /\ Fresh(r)
      /\ RelationsInv(SchoolSteps)
  BY DEF SerialInv, SchoolInv, RelationsInv, AccountsInv
<1>2. /\ \A step : Goto(r, step) => pc'[r] = step
      /\ users \in [Persons -> UserRow \union {Null}]
  BY <1>1, SessionReads DEF SessionTypeOK
<1>3. CASE RejectToken(r) \/ RefuseRole(r) \/ ReturnProfile(r) \/ DbFail(r) \/ Reply(r)
  <2>1. pc'[r] \in {"unauthorized", "bad_request", "forbidden", "ok", "db_error", "idle"}
    BY <1>2, <1>3 DEF RejectToken, RefuseRole, ReturnProfile, DbFail, Reply
  <2> QED
    BY <2>1, NothingToKeep DEF FreshSteps, HoldsLesson
<1>4. CASE Authenticate(r)
  <2>1. PICK t \in Tokens :
          /\ token' = [token EXCEPT ![r] = t]
          /\ me' = [me EXCEPT ![r] = users[t.sub]]
          /\ Goto(r, IF users[t.sub] = Null THEN "insert_user"
                     ELSE IF users[t.sub] = Profile(t) THEN "ready"
                     ELSE "update_user")
    BY <1>4 DEF Authenticate
  <2>2. token'[r] = t /\ me'[r] = users[t.sub] /\ users' = users
    BY <1>1, <1>4, <2>1 DEF SessionTypeOK, Authenticate
  <2>3. /\ pc'[r] \in {"insert_user", "ready", "update_user"}
        /\ pc'[r] = "ready" => users[t.sub] = Profile(t)
        /\ pc'[r] = "insert_user" => users[t.sub] = Null
    BY <1>2, <2>1
  <2> QED
    BY <2>2, <2>3 DEF Fresh, HoldsLesson
<1>5. CASE InsertUser(r)
  <2>1. /\ pc[r] = "insert_user" /\ UNCHANGED <<token, ask>>
        /\ \/ /\ Goto(r, "server_error") /\ UNCHANGED users
              /\ \/ users[token[r].sub] # Null
                 \/ EmailTaken(token[r].sub, token[r].email)
                 \/ RoleOf(token[r]) = Null
           \/ /\ Goto(r, "refresh_user")
              /\ users' = [users EXCEPT ![token[r].sub] = Profile(token[r])]
    BY <1>5 DEF InsertUser
  <2>2. token[r] \in Tokens /\ token[r].sub \in Persons
    <3>1. pc[r] = "insert_user" /\ "insert_user" \in SchoolSteps
      BY <1>5 DEF InsertUser, SchoolSteps, ReadsSteps, HomeworksSteps, LessonsSteps,
                  RelationsSteps, UsersSteps, SyncSteps
    <3> QED
      BY <1>1, <3>1, TokenFields DEF SessionTypeOK
  <2>3. CASE Goto(r, "server_error") /\ UNCHANGED users
                /\ (\/ users[token[r].sub] # Null
                    \/ EmailTaken(token[r].sub, token[r].email)
                    \/ RoleOf(token[r]) = Null)
    <3>1. ask[r] = Null /\ users[token[r].sub] = Null
      BY <1>1, <2>1 DEF KnowsRelation, SyncSteps, Fresh
    <3>2. Explained(r)'
      BY <2>1, <2>3, <3>1 DEF Explained, EmailTaken
    <3> QED
      BY <1>2, <2>3, <3>2 DEF Fresh, HoldsLesson
  <2>4. CASE Goto(r, "refresh_user")
            /\ users' = [users EXCEPT ![token[r].sub] = Profile(token[r])]
    BY <1>2, <2>1, <2>2, <2>4 DEF Fresh, HoldsLesson
  <2> QED
    BY <2>1, <2>3, <2>4
<1>6. CASE UpdateUser(r)
  <2> DEFINE p == token[r].sub
             row == Merge(users[p], me[r], Profile(token[r]))
  <2>1. /\ pc[r] = "update_user" /\ UNCHANGED <<token, ask>>
        /\ \/ /\ Goto(r, "server_error") /\ UNCHANGED users
              /\ row.role = Null \/ EmailTaken(p, row.email)
           \/ Goto(r, "refresh_user") /\ users' = [users EXCEPT ![p] = row]
    BY <1>6 DEF UpdateUser
  <2>2. token[r] \in Tokens /\ p \in Persons
    <3>1. "update_user" \in SchoolSteps
      BY DEF SchoolSteps, ReadsSteps, HomeworksSteps, LessonsSteps,
             RelationsSteps, UsersSteps, SyncSteps
    <3> QED
      BY <1>1, <2>1, <3>1, TokenFields DEF SessionTypeOK
  <2>3. users[p] \in UserRow /\ me[r] = users[p]
    BY <1>1, <1>2, <2>1, <2>2 DEF KnowsRow, Fresh, Outcomes
  <2>4. row = Profile(token[r])
    BY <2>2, <2>3, MergedProfile
  <2> HIDE DEF row
  <2>5. CASE Goto(r, "server_error") /\ UNCHANGED users
                /\ (row.role = Null \/ EmailTaken(p, row.email))
    <3>1. ask[r] = Null
      BY <1>1, <2>1 DEF KnowsRelation, SyncSteps
    <3>2. row.role = RoleOf(token[r]) /\ row.email = token[r].email
      BY <2>2, <2>4, TokenFields
    <3>3. Explained(r)'
      BY <2>1, <2>5, <3>1, <3>2 DEF Explained, EmailTaken
    <3> QED
      BY <1>2, <2>5, <3>3 DEF Fresh, HoldsLesson
  <2>6. CASE Goto(r, "refresh_user") /\ users' = [users EXCEPT ![p] = row]
    BY <1>2, <2>1, <2>2, <2>4, <2>6 DEF Fresh, HoldsLesson
  <2> QED
    BY <2>1, <2>5, <2>6
<1>7. CASE RefreshUser(r)
  <2>1. /\ pc[r] = "refresh_user" /\ Goto(r, "ready") /\ UNCHANGED <<users, token>>
        /\ me' = [me EXCEPT ![r] = users[token[r].sub]]
    BY <1>7 DEF RefreshUser
  <2>2. me'[r] = users[token[r].sub] /\ users[token[r].sub] = Profile(token[r])
    BY <1>1, <2>1 DEF SessionTypeOK, Fresh
  <2> QED
    BY <1>2, <2>1, <2>2 DEF Fresh, HoldsLesson
<1> QED
  BY <1>3, <1>4, <1>5, <1>6, <1>7 DEF UsersStep

\* A pair that was not there when it was looked up is not there when it is
\* inserted.  The other steps, and the reads, rely on nothing.
LEMMA OtherStepStaysFresh ==
    ASSUME SerialInv, NEW r \in Requests, RelationsStep(r) \/ ReadsStep(r)
    PROVE  Fresh(r)'
<1>1. /\ \A a : ask' = [ask EXCEPT ![r] = a] => ask'[r] = a
      /\ \A step : Goto(r, step) => pc'[r] = step
      /\ Fresh(r)
  BY SessionReads DEF SerialInv, SchoolInv
<1>2. CASE CreateRelation(r)
  <2>1. PICK s \in Persons :
          /\ ask' = [ask EXCEPT ![r] = [op |-> "create_relation", student |-> s]]
          /\ Goto(r, IF s = token[r].sub THEN "bad_request"
                     ELSE IF RelationPair(relations, token[r].sub, s)
                     THEN "conflict"
                     ELSE "load_student")
    BY <1>2 DEF CreateRelation
  <2>2. /\ ask'[r].student = s /\ UNCHANGED <<relations, token>>
        /\ pc'[r] \in {"bad_request", "conflict", "load_student"}
        /\ pc'[r] = "load_student" => ~RelationPair(relations, token[r].sub, s)
    BY <1>1, <1>2, <2>1 DEF CreateRelation
  <2> QED
    BY <2>2 DEF Fresh, HoldsLesson
<1>3. CASE LoadStudent(r)
  <2>1. /\ pc[r] = "load_student" /\ UNCHANGED <<relations, token, ask>>
        /\ pc'[r] \in {"not_found", "bad_request", "insert_relation"}
    BY <1>1, <1>3 DEF LoadStudent
  <2> QED
    BY <1>1, <2>1 DEF Fresh, HoldsLesson
<1>4. CASE InsertRelation(r)
  <2>1. Goto(r, "respond")
    BY <1>1, <1>4 DEF InsertRelation, Fresh
  <2> QED
    BY <1>1, <2>1, NothingToKeep DEF FreshSteps, HoldsLesson
<1>5. CASE ArchiveRelation(r) \/ WriteArchive(r) \/ Respond(r) \/ ReadsStep(r)
  <2>1. \E step \in {"write_archive", "respond", "load_lessons", "ok", "forbidden",
                     "not_found"} : Goto(r, step)
    BY <1>5 DEF ArchiveRelation, WriteArchive, Respond, ReadsStep, ListRelations, ListLessons,
                ListHomeworks, GetHomework, LoadLessons, Found
  <2> QED
    BY <1>1, <2>1, NothingToKeep DEF FreshSteps, HoldsLesson
<1> QED
  BY <1>2, <1>3, <1>4, <1>5 DEF RelationsStep

-----------------------------------------------------------------------------
\* A lesson written over a live one, or over none, with the same homework
\* leaves the homework in order.
LEMMA WriteLessonMoves ==
    ASSUME LessonsTableOK, NEW l \in LessonIds, NEW row \in LessonRow,
           lessons' = [lessons EXCEPT ![l] = row], UNCHANGED homeworks,
           row.start < row.end, ~row.deleted,
           lessons[l] = Null => row.homework = Null,
           lessons[l] # Null =>
                /\ ~lessons[l].deleted /\ row.homework = lessons[l].homework
                /\ row.status # lessons[l].status => lessons[l].status = "active"
    PROVE  SerialMoves
<1>1. /\ lessons'[l] = row /\ row # Null
      /\ \A m \in LessonIds \ {l} : lessons'[m] = lessons[m]
  BY LessonColumns DEF LessonsTableOK
<1>2. StatusMoves
  BY <1>1 DEF StatusMoves
<1>4. TimesOrdered => TimesOrdered'
  BY <1>1 DEF TimesOrdered
<1>5. Null \notin HomeworkIds
  BY NullIsNoLesson
<1>6. ASSUME HomeworkLivesWithLesson PROVE HomeworkLivesWithLesson'
  <2>1. ASSUME NEW h \in HomeworkIds, homeworks[h] # Null, ~homeworks[h].deleted
        PROVE  \E m \in LessonIds : /\ lessons'[m] # Null /\ lessons'[m].homework = h
                                    /\ ~lessons'[m].deleted
    <3>1. PICK m \in LessonIds : /\ lessons[m] # Null /\ lessons[m].homework = h
                                 /\ ~lessons[m].deleted
      BY <1>6, <2>1 DEF HomeworkLivesWithLesson, LessonOf
    <3> QED
      BY <1>1, <1>5, <3>1
  <2>2. ASSUME NEW m \in LessonIds, lessons'[m] # Null, ~lessons'[m].deleted,
               lessons'[m].homework # Null
        PROVE  ~homeworks[lessons'[m].homework].deleted
    BY <1>1, <1>6, <2>2 DEF HomeworkLivesWithLesson
  <2> QED
    BY <2>1, <2>2 DEF HomeworkLivesWithLesson, LessonOf
<1> QED
  BY <1>2, <1>4, <1>6 DEF SerialMoves

\* A deleted lesson takes its homework with it, and only its own.
LEMMA DeleteLessonMoves ==
    ASSUME TablesOK, NEW l \in LessonIds, lessons[l] # Null,
           lessons' = [lessons EXCEPT ![l].deleted = TRUE],
           homeworks' = IF lessons[l].homework = Null THEN homeworks
                        ELSE [homeworks EXCEPT ![lessons[l].homework].deleted = TRUE]
    PROVE  SerialMoves
<1> DEFINE gone == lessons[l].homework
<1>1. LessonsTableOK /\ HomeworksTableOK /\ HomeworkLinkedOnce
  BY DEF TablesOK
<1>2. lessons[l] \in LessonRow /\ gone \in HomeworkIds \union {Null}
  BY <1>1, LessonColumns DEF LessonsTableOK
<1>3. /\ lessons'[l] = [lessons[l] EXCEPT !.deleted = TRUE]
      /\ \A m \in LessonIds \ {l} : lessons'[m] = lessons[m]
  BY <1>1 DEF LessonsTableOK
<1>4. /\ lessons'[l].deleted /\ lessons'[l].start = lessons[l].start
      /\ lessons'[l].end = lessons[l].end /\ lessons'[l].status = lessons[l].status
      /\ lessons'[l].student = lessons[l].student
  BY <1>2, <1>3 DEF LessonRow
<1>5. /\ \A h \in HomeworkIds \ {gone} : homeworks'[h] = homeworks[h]
      /\ gone # Null => homeworks[gone] \in HomeworkRow /\ homeworks'[gone].deleted
  <2>1. CASE gone = Null
    BY <2>1
  <2>2. CASE gone # Null
    <3>1. homeworks[gone] \in HomeworkRow
      BY <1>1, <1>2, <2>2 DEF HomeworkLinkedOnce, LinksIn, HomeworksTableOK
    <3> QED
      BY <1>1, <1>2, <2>2, <3>1 DEF HomeworksTableOK, HomeworkRow
  <2> QED
    BY <2>1, <2>2
<1>6. StatusMoves /\ (TimesOrdered => TimesOrdered')
  BY <1>3, <1>4 DEF StatusMoves, TimesOrdered
<1>7. ASSUME HomeworkLivesWithLesson PROVE HomeworkLivesWithLesson'
  <2>1. ASSUME NEW h \in HomeworkIds, homeworks'[h] # Null, ~homeworks'[h].deleted
        PROVE  \E m \in LessonIds : /\ lessons'[m] # Null /\ lessons'[m].homework = h
                                    /\ ~lessons'[m].deleted
    <3>1. h # gone /\ homeworks'[h] = homeworks[h]
      BY <1>5, <2>1, NullIsNoLesson
    <3>2. PICK m \in LessonIds : /\ lessons[m] # Null /\ lessons[m].homework = h
                                 /\ ~lessons[m].deleted
      BY <1>7, <2>1, <3>1 DEF HomeworkLivesWithLesson, LessonOf
    <3> QED
      BY <1>3, <3>1, <3>2
  <2>2. ASSUME NEW m \in LessonIds, lessons'[m] # Null, ~lessons'[m].deleted,
               lessons'[m].homework # Null
        PROVE  ~homeworks'[lessons'[m].homework].deleted
    <3>1. m # l /\ lessons'[m] = lessons[m]
      BY <1>3, <1>4, <2>2
    <3>2. lessons[m].homework \in HomeworkIds \ {gone}
      BY <1>1, <2>2, <3>1, LessonColumns DEF HomeworkLinkedOnce, LinksIn, LessonsTableOK
    <3> QED
      BY <1>5, <1>7, <2>2, <3>1, <3>2 DEF HomeworkLivesWithLesson
  <2> QED
    BY <2>1, <2>2 DEF HomeworkLivesWithLesson, LessonOf
<1> QED
  BY <1>6, <1>7 DEF SerialMoves

\* The lesson endpoints.
LEMMA LessonsStepMoves ==
    ASSUME SerialInv, NEW r \in Requests, LessonsStep(r)
    PROVE  Fresh(r)' /\ SerialMoves
<1> DEFINE sub == token[r].sub
<1>1. /\ UNCHANGED <<relations, users, token, me>> /\ token'[r] = token[r]
      /\ KnowsLesson(r) /\ LessonsTableOK /\ HomeworksTableOK /\ RelationsTableOK
      /\ RelationsInv(SchoolSteps) /\ Fresh(r) /\ TablesOK
  BY SchoolHandler DEF SerialInv, SchoolInv
<1>2. /\ \A a : ask' = [ask EXCEPT ![r] = a] => ask'[r] = a
      /\ \A s : seen' = [seen EXCEPT ![r] = s] => seen'[r] = s
      /\ \A step : Goto(r, step) => pc'[r] = step
  BY <1>1, SessionReads
<1>3. KnowsLesson(r)'
  BY LessonsStepKeepsSchool DEF SerialInv, SchoolInv
<1>4. \A t, s : ActiveRelation(t, s)' <=> ActiveRelation(t, s)
  BY <1>1 DEF ActiveRelation
<1>5. CASE CreateLesson(r)
  <2>1. PICK body \in LessonBodies :
          /\ ask' = [ask EXCEPT ![r] = [op |-> "create_lesson", body |-> body]]
          /\ Goto(r, IF ActiveRelation(sub, body.student)
                     THEN "insert_lesson" ELSE "forbidden")
    BY <1>5 DEF CreateLesson
  <2>2. UNCHANGED <<lessons, homeworks>>
    BY <1>5 DEF CreateLesson
  <2>3. /\ ask'[r].body = body /\ pc'[r] \in {"insert_lesson", "forbidden"}
        /\ pc'[r] = "insert_lesson" => ActiveRelation(sub, body.student)
    BY <1>2, <2>1
  <2>4. Fresh(r)'
    BY <1>1, <1>4, <2>3 DEF Fresh, HoldsLesson
  <2> QED
    BY <2>2, <2>4, QuietMoves
<1>6. CASE InsertLesson(r)
  <2> DEFINE body == ask[r].body
             row == [teacher |-> sub, student |-> body.student,
                     start |-> body.start, end |-> body.end,
                     status |-> body.status, deleted |-> FALSE,
                     homework |-> Null]
  <2>1. pc[r] = "insert_lesson" /\ Goto(r, "respond") /\ UNCHANGED homeworks
    BY <1>6 DEF InsertLesson
  <2>2. PICK l \in LessonIds : lessons[l] = Null /\ lessons' = [lessons EXCEPT ![l] = row]
    BY <1>6 DEF InsertLesson
  <2>3. body \in LessonBody /\ ActiveRelation(sub, body.student) /\ sub \in Persons
    BY <1>1, <2>1, <1>6, SchoolHandler, BodiesPassSchema DEF KnowsLesson, Fresh, SerialInv
  <2>4. /\ row \in LessonRow /\ row.start < row.end /\ ~row.deleted
        /\ row.teacher = sub /\ row.student = body.student /\ row.homework = Null
    BY <2>3 DEF LessonRow, LessonBody
  <2> HIDE DEF row, body
  <2>5. SerialMoves
    BY <1>1, <2>1, <2>2, <2>3, <2>4, WriteLessonMoves
  <2>6. Fresh(r)'
    BY <1>2, <2>1, NothingToKeep DEF FreshSteps, HoldsLesson
  <2> QED
    BY <2>5, <2>6
<1>7. CASE RefuseNullTime(r)
  <2>1. /\ pc[r] = "ready" /\ Goto(r, "server_error")
        /\ UNCHANGED <<lessons, homeworks, ask>>
    BY <1>7 DEF RefuseNullTime, Enter
  <2>2. ask[r] = Null /\ me[r] = Profile(token[r])
    BY <1>1, <2>1 DEF RelationsInv, KnowsRelation, Fresh
  <2>3. Fresh(r)'
    BY <1>1, <1>2, <2>1, <2>2 DEF Fresh, Explained, HoldsLesson
  <2> QED
    BY <2>1, <2>3, QuietMoves
<1>8. CASE UpdateLesson(r) \/ DeleteLesson(r)
  <2>1. UNCHANGED <<lessons, homeworks>>
    BY <1>8 DEF UpdateLesson, DeleteLesson
  <2>2. PICK l \in LessonIds :
            /\ ask'[r].lesson = l
            /\ \/ /\ Owns(sub, l) /\ seen'[r] = lessons[l]
                  /\ pc'[r] \in {"check_update", "write_lesson_delete"}
               \/ pc'[r] = "not_found"
    <3>1. CASE UpdateLesson(r)
      <4>1. PICK l \in LessonIds, patch \in LessonPatches :
              /\ ask' = [ask EXCEPT ![r] =
                            [op |-> "update_lesson", lesson |-> l, patch |-> patch]]
              /\ IF Owns(sub, l)
                 THEN seen' = [seen EXCEPT ![r] = lessons[l]] /\ Goto(r, "check_update")
                 ELSE Goto(r, "not_found")
        BY <3>1 DEF UpdateLesson
      <4>2. ask'[r].lesson = l
        BY <1>2, <4>1
      <4> QED
        BY <1>2, <4>1, <4>2
    <3>2. CASE DeleteLesson(r)
      <4>1. PICK l \in LessonIds :
              /\ ask' = [ask EXCEPT ![r] = [op |-> "delete_lesson", lesson |-> l]]
              /\ IF Owns(sub, l)
                 THEN seen' = [seen EXCEPT ![r] = lessons[l]] /\ Goto(r, "write_lesson_delete")
                 ELSE Goto(r, "not_found")
        BY <3>2 DEF DeleteLesson
      <4>2. ask'[r].lesson = l
        BY <1>2, <4>1
      <4> QED
        BY <1>2, <4>1, <4>2
    <3> QED
      BY <1>8, <3>1, <3>2
  <2>3. Fresh(r)'
    BY <2>1, <2>2 DEF Fresh, HoldsLesson, Owns
  <2> QED
    BY <2>1, <2>3, QuietMoves
<1>9. CASE CheckUpdate(r)
  <2> DEFINE new == Patched(seen[r], ask[r].patch)
  <2>1. pc[r] = "check_update" /\ UNCHANGED <<lessons, homeworks, ask, seen>>
    BY <1>9 DEF CheckUpdate
  <2>2. PICK step \in {"forbidden", "bad_request", "reread_update"} :
          /\ Goto(r, step)
          /\ step = "reread_update" =>
                /\ ActiveRelation(sub, Given(ask[r].patch, "student", seen[r]))
                /\ ~(new.start >= new.end)
                /\ new.status \in AllowedStatus(seen[r].status)
    BY <1>9 DEF CheckUpdate
  <2>3. pc'[r] = step
    BY <1>2, <2>2
  <2>4. step = "reread_update" => new \in LessonRow
    BY <1>3, <2>1, <2>3 DEF KnowsLesson
  <2> HIDE DEF new
  <2>5. step = "reread_update" => new.start < new.end
    BY <2>2, <2>4, LessonColumns, TimesAreNaturals
  <2>6. Fresh(r)'
    BY <1>1, <1>4, <2>1, <2>2, <2>3, <2>5 DEF Fresh, HoldsLesson, AllowedStatus, new
  <2> QED
    BY <2>1, <2>6, QuietMoves
<1>10. CASE RereadUpdate(r)
  <2>1. pc[r] = "reread_update" /\ UNCHANGED <<lessons, homeworks, ask, seen>>
    BY <1>10 DEF RereadUpdate
  <2>2. /\ ask[r] \in LessonTypes /\ lessons[ask[r].lesson] # Null
        /\ Owns(sub, ask[r].lesson) /\ seen[r] = lessons[ask[r].lesson]
    BY <1>1, <2>1 DEF KnowsLesson, WorksOnLesson, Fresh, HoldsLesson, Owns
  <2>3. ASSUME MatchesStudent(ask[r].patch, seen[r]) PROVE Fresh(r)'
    <3>1. pc'[r] = "write_update"
      BY <1>2, <1>10, <2>2, <2>3 DEF RereadUpdate
    <3> QED
      BY <1>1, <1>4, <2>1, <2>3, <3>1 DEF Fresh, HoldsLesson, AllowedStatus
  <2>4. ASSUME ~MatchesStudent(ask[r].patch, seen[r]) PROVE Fresh(r)'
    <3>1. pc'[r] = "server_error"
      BY <1>2, <1>10, <2>2, <2>4 DEF RereadUpdate
    <3>2. ask[r].op = "update_lesson"
      BY <2>2 DEF LessonTypes
    <3>3. NamesOtherStudent(r)
      BY <2>2, <2>4, <3>2 DEF NamesOtherStudent
    <3>4. NamesOtherStudent(r)'
      BY <2>1, <3>3 DEF NamesOtherStudent, MatchesStudent
    <3>5. ask'[r] # Null
      BY <2>1, <2>2, UpdateIsNotNull
    <3>6. Explained(r)'
      BY <3>4, <3>5 DEF Explained
    <3> QED
      BY <3>1, <3>6 DEF Fresh, HoldsLesson
  <2>5. Fresh(r)'
    BY <2>3, <2>4
  <2> QED
    BY <2>1, <2>5, QuietMoves
<1>11. CASE WriteUpdate(r)
  <2> DEFINE l == ask[r].lesson
             patch == ask[r].patch
             new == Patched(seen[r], patch)
  <2>1. /\ pc[r] = "write_update" /\ Goto(r, "respond") /\ UNCHANGED homeworks
        /\ lessons' = [lessons EXCEPT ![l] = Merge(lessons[l], seen[r], new)]
    BY <1>11 DEF WriteUpdate
  <2>2. /\ l \in LessonIds /\ patch \in LessonPatches /\ lessons[l] # Null
        /\ lessons[l].teacher = sub /\ seen[r] = lessons[l] /\ ~lessons[l].deleted
        /\ seen[r] \in LessonRow /\ new \in LessonRow
    BY <1>1, <2>1 DEF KnowsLesson, LessonTypes, WorksOnLesson, Fresh, HoldsLesson
  <2>3. new.start < new.end /\ new.status \in AllowedStatus(lessons[l].status)
    BY <1>1, <2>1, <2>2 DEF Fresh
  <2>4. /\ Merge(lessons[l], seen[r], new) = new
        /\ new.teacher = sub /\ new.homework = lessons[l].homework /\ ~new.deleted
    BY <2>2, MergedPatch
  <2> HIDE DEF new
  <2>5. new.status # lessons[l].status => lessons[l].status = "active"
    BY <2>3 DEF AllowedStatus
  <2>6. SerialMoves
    BY <1>1, <2>1, <2>2, <2>3, <2>4, <2>5, WriteLessonMoves
  <2>7. Fresh(r)'
    BY <1>2, <2>1, NothingToKeep DEF FreshSteps, HoldsLesson
  <2> QED
    BY <2>6, <2>7
<1>12. CASE WriteLessonDelete(r)
  <2>1. /\ pc[r] = "write_lesson_delete" /\ Goto(r, "respond")
        /\ lessons' = [lessons EXCEPT ![ask[r].lesson].deleted = TRUE]
        /\ homeworks' = IF seen[r].homework = Null THEN homeworks
                        ELSE [homeworks EXCEPT ![seen[r].homework].deleted = TRUE]
    BY <1>12 DEF WriteLessonDelete
  <2>2. /\ ask[r].lesson \in LessonIds /\ lessons[ask[r].lesson] # Null
        /\ seen[r] = lessons[ask[r].lesson]
    BY <1>1, <2>1 DEF KnowsLesson, WorksOnLesson, Fresh, HoldsLesson
  <2>3. SerialMoves
    BY <1>1, <2>1, <2>2, DeleteLessonMoves
  <2>4. Fresh(r)'
    BY <1>2, <2>1, NothingToKeep DEF FreshSteps, HoldsLesson
  <2> QED
    BY <2>3, <2>4
<1> QED
  BY <1>5, <1>6, <1>7, <1>8, <1>9, <1>10, <1>11, <1>12 DEF LessonsStep

-----------------------------------------------------------------------------
\* A homework linked to a live lesson without a live one.
LEMMA LinkMoves ==
    ASSUME TablesOK, NEW l \in LessonIds, lessons[l] # Null, ~lessons[l].deleted,
           lessons[l].homework # Null => homeworks[lessons[l].homework].deleted,
           NEW h \in HomeworkIds, homeworks[h] = Null,
           NEW row \in HomeworkRow, ~row.deleted,
           homeworks' = [homeworks EXCEPT ![h] = row],
           lessons' = [lessons EXCEPT ![l].homework = h]
    PROVE  SerialMoves
<1>1. LessonsTableOK /\ HomeworksTableOK /\ HomeworkLinkedOnce
  BY DEF TablesOK
<1>2. /\ lessons[l] \in LessonRow
      /\ lessons'[l] = [lessons[l] EXCEPT !.homework = h]
      /\ \A m \in LessonIds \ {l} : lessons'[m] = lessons[m]
  BY <1>1 DEF LessonsTableOK
<1>3. /\ lessons'[l] # Null /\ lessons'[l].homework = h /\ ~lessons'[l].deleted
      /\ lessons'[l].start = lessons[l].start
      /\ lessons'[l].end = lessons[l].end /\ lessons'[l].status = lessons[l].status
      /\ lessons'[l].student = lessons[l].student
  BY <1>2, LessonColumns DEF LessonRow
<1>4. /\ homeworks'[h] = row
      /\ \A g \in HomeworkIds \ {h} : homeworks'[g] = homeworks[g]
  BY <1>1 DEF HomeworksTableOK
<1>5. StatusMoves /\ (TimesOrdered => TimesOrdered')
  BY <1>2, <1>3 DEF StatusMoves, TimesOrdered
<1>6. ASSUME HomeworkLivesWithLesson PROVE HomeworkLivesWithLesson'
  <2>1. ASSUME NEW g \in HomeworkIds, homeworks'[g] # Null, ~homeworks'[g].deleted
        PROVE  \E m \in LessonIds : /\ lessons'[m] # Null /\ lessons'[m].homework = g
                                    /\ ~lessons'[m].deleted
    <3>1. CASE g = h
      BY <1>3, <3>1
    <3>2. CASE g # h
      <4>1. homeworks[g] # Null /\ ~homeworks[g].deleted
        BY <1>4, <2>1, <3>2
      <4>2. PICK m \in LessonIds : /\ lessons[m] # Null /\ lessons[m].homework = g
                                   /\ ~lessons[m].deleted
        BY <1>6, <4>1 DEF HomeworkLivesWithLesson, LessonOf
      <4>3. m # l
        BY <4>1, <4>2, NullIsNoLesson
      <4> QED
        BY <1>2, <4>2, <4>3
    <3> QED
      BY <3>1, <3>2
  <2>2. ASSUME NEW m \in LessonIds, lessons'[m] # Null, ~lessons'[m].deleted,
               lessons'[m].homework # Null
        PROVE  ~homeworks'[lessons'[m].homework].deleted
    <3>1. CASE m = l
      BY <1>3, <1>4, <3>1
    <3>2. CASE m # l
      <4>1. lessons'[m] = lessons[m]
        BY <1>2, <3>2
      <4>2. lessons[m].homework \in HomeworkIds \ {h}
        BY <1>1, <2>2, <4>1, LessonColumns DEF HomeworkLinkedOnce, LinksIn, LessonsTableOK
      <4> QED
        BY <1>4, <1>6, <2>2, <4>1, <4>2 DEF HomeworkLivesWithLesson
    <3> QED
      BY <3>1, <3>2
  <2> QED
    BY <2>1, <2>2 DEF HomeworkLivesWithLesson, LessonOf
<1> QED
  BY <1>5, <1>6 DEF SerialMoves

\* A deleted homework leaves the lesson it hung on.
LEMMA UnlinkMoves ==
    ASSUME TablesOK, NEW h \in HomeworkIds, homeworks[h] # Null,
           homeworks' = [homeworks EXCEPT ![h].deleted = TRUE],
           lessons' = [l \in LessonIds |->
                IF l \in LessonOf(h) THEN [lessons[l] EXCEPT !.homework = Null]
                ELSE lessons[l]]
    PROVE  SerialMoves
<1>1. LessonsTableOK /\ HomeworksTableOK /\ HomeworkLinkedOnce
  BY DEF TablesOK
<1>2. ASSUME NEW l \in LessonIds
      PROVE  /\ l \in LessonOf(h) => lessons[l] \in LessonRow
             /\ lessons'[l] = IF l \in LessonOf(h) THEN [lessons[l] EXCEPT !.homework = Null]
                              ELSE lessons[l]
  BY <1>1 DEF LessonOf, LessonsTableOK
<1>3. ASSUME NEW l \in LessonIds
      PROVE  /\ (lessons'[l] # Null /\ lessons'[l].homework # Null) =>
                    lessons'[l] = lessons[l] /\ lessons[l].homework # h
             /\ lessons'[l].start = lessons[l].start
             /\ lessons'[l].end = lessons[l].end /\ lessons'[l].status = lessons[l].status
             /\ lessons'[l].student = lessons[l].student
             /\ lessons'[l] # Null => lessons[l] # Null
  <2>1. CASE l \in LessonOf(h)
    <3>1. lessons[l] \in LessonRow /\ lessons'[l] = [lessons[l] EXCEPT !.homework = Null]
      BY <1>2, <2>1
    <3>2. lessons[l] # Null
      BY <3>1, LessonColumns
    <3> QED
      BY <3>1, <3>2 DEF LessonRow
  <2>2. CASE l \notin LessonOf(h)
    BY <1>2, <2>2 DEF LessonOf
  <2> QED
    BY <2>1, <2>2
<1>4. /\ homeworks[h] \in HomeworkRow /\ homeworks'[h].deleted
      /\ \A g \in HomeworkIds \ {h} : homeworks'[g] = homeworks[g]
  BY <1>1 DEF HomeworksTableOK, HomeworkRow
<1>5. StatusMoves /\ (TimesOrdered => TimesOrdered')
  BY <1>3 DEF StatusMoves, TimesOrdered
<1>6. ASSUME HomeworkLivesWithLesson PROVE HomeworkLivesWithLesson'
  <2>1. ASSUME NEW g \in HomeworkIds, homeworks'[g] # Null, ~homeworks'[g].deleted
        PROVE  \E m \in LessonIds : /\ lessons'[m] # Null /\ lessons'[m].homework = g
                                    /\ ~lessons'[m].deleted
    <3>1. g # h /\ homeworks[g] # Null /\ ~homeworks[g].deleted
      BY <1>4, <2>1
    <3>2. PICK m \in LessonIds : /\ lessons[m] # Null /\ lessons[m].homework = g
                                 /\ ~lessons[m].deleted
      BY <1>6, <3>1 DEF HomeworkLivesWithLesson, LessonOf
    <3>3. m \notin LessonOf(h)
      BY <3>1, <3>2 DEF LessonOf
    <3> QED
      BY <1>2, <3>2, <3>3
  <2>2. ASSUME NEW m \in LessonIds, lessons'[m] # Null, ~lessons'[m].deleted,
               lessons'[m].homework # Null
        PROVE  ~homeworks'[lessons'[m].homework].deleted
    <3>1. lessons'[m] = lessons[m] /\ lessons[m].homework # h
      BY <1>3, <2>2
    <3>2. lessons[m].homework \in HomeworkIds \ {h}
      BY <1>1, <2>2, <3>1, LessonColumns DEF LessonsTableOK
    <3> QED
      BY <1>4, <1>6, <2>2, <3>1, <3>2 DEF HomeworkLivesWithLesson
  <2> QED
    BY <2>1, <2>2 DEF HomeworkLivesWithLesson, LessonOf
<1> QED
  BY <1>5, <1>6 DEF SerialMoves

\* A homework that stays live or deleted leaves all in order.
LEMMA EditMoves ==
    ASSUME UNCHANGED lessons,
           \A h \in HomeworkIds :
                /\ homeworks'[h] # Null => homeworks[h] # Null
                /\ homeworks[h] # Null => homeworks'[h].deleted = homeworks[h].deleted,
           TablesOK
    PROVE  SerialMoves
<1>1. \A l \in LessonIds : (lessons[l] # Null /\ lessons[l].homework # Null) =>
        lessons[l].homework \in HomeworkIds /\ homeworks[lessons[l].homework] # Null
  BY LessonColumns DEF TablesOK, LessonsTableOK, HomeworkLinkedOnce, LinksIn
<1> QED
  BY <1>1
     DEF SerialMoves, StatusMoves, TimesOrdered, HomeworkLivesWithLesson, LessonOf

\* The homework endpoints.
LEMMA HomeworksStepMoves ==
    ASSUME SerialInv, NEW r \in Requests, HomeworksStep(r)
    PROVE  Fresh(r)' /\ SerialMoves
<1> DEFINE sub == token[r].sub
<1>1. /\ UNCHANGED <<relations, users, token, me>> /\ token'[r] = token[r]
      /\ KnowsLesson(r) /\ LessonsTableOK /\ HomeworksTableOK
      /\ RelationsInv(SchoolSteps) /\ Fresh(r) /\ TablesOK
  BY SchoolHandler DEF SerialInv, SchoolInv
<1>2. /\ \A a : ask' = [ask EXCEPT ![r] = a] => ask'[r] = a
      /\ \A s : seen' = [seen EXCEPT ![r] = s] => seen'[r] = s
      /\ \A step : Goto(r, step) => pc'[r] = step
  BY <1>1, SessionReads
<1>3. \A h : VisibleHomework(r, h)' <=>
            \E l \in LessonOf(h)' :
                /\ homeworks'[h] # Null /\ ~homeworks'[h].deleted
                /\ ~lessons'[l].deleted
                /\ sub = IF me[r].role = Student THEN lessons'[l].student
                         ELSE lessons'[l].teacher
  BY <1>1 DEF VisibleHomework, Visible, OnOwnSide
<1>4. CASE SerializeHomework(r) \/ DeleteHomework(r)
  <2>1. UNCHANGED <<lessons, homeworks>>
    BY <1>4 DEF SerializeHomework, DeleteHomework
  <2>2. \E step \in {"not_found", "ok", "response_error",
                     "load_linked_lesson"} : Goto(r, step)
    BY <1>4 DEF SerializeHomework, DeleteHomework
  <2> QED
    BY <1>2, <2>1, <2>2, NothingToKeep, QuietMoves DEF FreshSteps, HoldsLesson
<1>5. CASE UpdateHomework(r)
  <2>1. PICK h \in HomeworkIds, fields \in SUBSET {"answer", "brief"} :
          /\ ask' = [ask EXCEPT ![r] = [op |-> "update_homework", homework |-> h,
                                        fields |-> fields]]
          /\ Goto(r, IF me[r].role \notin KeycloakRoles THEN "forbidden"
                     ELSE IF ~VisibleHomework(r, h) THEN "not_found"
                     ELSE "write_homework")
    BY <1>5 DEF UpdateHomework
  <2>2. UNCHANGED <<lessons, homeworks>>
    BY <1>5 DEF UpdateHomework
  <2>3. ask'[r].homework = h
    BY <1>2, <2>1
  <2>4. /\ pc'[r] \in {"forbidden", "not_found", "write_homework"}
        /\ pc'[r] = "write_homework" => VisibleHomework(r, h)
    BY <1>2, <2>1
  <2>5. VisibleHomework(r, h) => VisibleHomework(r, h)'
    BY <1>3, <2>2 DEF VisibleHomework, Visible, OnOwnSide, LessonOf
  <2>6. Fresh(r)'
    BY <2>3, <2>4, <2>5 DEF Fresh, HoldsLesson
  <2> QED
    BY <2>2, <2>6, QuietMoves
<1>6. \A t, s : ActiveRelation(t, s)' <=> ActiveRelation(t, s)
  BY <1>1 DEF ActiveRelation
<1>7. CASE CreateHomework(r)
  <2>1. PICK l \in LessonIds :
          /\ ask' = [ask EXCEPT ![r] = [op |-> "create_homework", lesson |-> l]]
          /\ IF Owns(sub, l)
             THEN seen' = [seen EXCEPT ![r] = lessons[l]] /\ Goto(r, "check_homework")
             ELSE Goto(r, "not_found")
    BY <1>7 DEF CreateHomework
  <2>2. UNCHANGED <<lessons, homeworks>>
    BY <1>7 DEF CreateHomework
  <2>3. ask'[r].lesson = l
    BY <1>2, <2>1
  <2>4. \/ Owns(sub, l) /\ seen'[r] = lessons[l] /\ pc'[r] = "check_homework"
        \/ pc'[r] = "not_found"
    BY <1>2, <2>1
  <2>5. Fresh(r)'
    BY <2>2, <2>3, <2>4 DEF Fresh, HoldsLesson, Owns
  <2> QED
    BY <2>2, <2>5, QuietMoves
<1>8. CASE CheckHomework(r)
  <2>1. pc[r] = "check_homework" /\ UNCHANGED <<lessons, homeworks, ask, seen>>
    BY <1>8 DEF CheckHomework
  <2>2. /\ pc'[r] \in {"reread_lesson", "forbidden"}
        /\ pc'[r] = "reread_lesson" => ActiveRelation(sub, seen[r].student)
    BY <1>2, <1>8 DEF CheckHomework
  <2>3. Fresh(r)'
    BY <1>1, <1>6, <2>1, <2>2 DEF Fresh, HoldsLesson
  <2> QED
    BY <2>1, <2>3, QuietMoves
<1>9. CASE RereadLesson(r)
  <2>1. pc[r] = "reread_lesson" /\ UNCHANGED <<lessons, homeworks, ask, seen>>
    BY <1>9 DEF RereadLesson
  <2>2. Owns(sub, ask[r].lesson)
    BY <1>1, <2>1 DEF KnowsLesson, WorksOnLesson, Fresh, HoldsLesson, Owns
  <2>3. /\ pc'[r] \in {"conflict", "insert_homework"}
        /\ (pc'[r] = "insert_homework" /\ seen[r].homework # Null) =>
                homeworks[seen[r].homework].deleted
    BY <1>2, <1>9, <2>2 DEF RereadLesson
  <2>4. Fresh(r)'
    BY <1>1, <1>6, <2>1, <2>3 DEF Fresh, HoldsLesson
  <2> QED
    BY <2>1, <2>4, QuietMoves
<1>10. CASE InsertHomework(r)
  <2> DEFINE row == [answer |-> Null, brief |-> sub, deleted |-> FALSE]
             l == ask[r].lesson
  <2>1. pc[r] = "insert_homework" /\ Goto(r, "serialize_homework")
    BY <1>10 DEF InsertHomework
  <2>2. PICK h \in HomeworkIds :
          /\ homeworks[h] = Null /\ homeworks' = [homeworks EXCEPT ![h] = row]
          /\ lessons' = [lessons EXCEPT ![l].homework = h]
    BY <1>10 DEF InsertHomework
  <2>3. /\ l \in LessonIds /\ lessons[l] # Null /\ ~lessons[l].deleted
        /\ lessons[l].homework # Null => homeworks[lessons[l].homework].deleted
    BY <1>1, <2>1 DEF KnowsLesson, WorksOnLesson, Fresh, HoldsLesson
  <2>4. row \in HomeworkRow /\ ~row.deleted
    BY SchoolHandler DEF HomeworkRow, SerialInv
  <2> HIDE DEF row
  <2>5. SerialMoves
    BY <1>1, <2>2, <2>3, <2>4, LinkMoves
  <2>6. Fresh(r)'
    BY <1>2, <2>1, NothingToKeep DEF FreshSteps, HoldsLesson
  <2> QED
    BY <2>5, <2>6
<1>11. CASE WriteHomework(r)
  <2> DEFINE h == ask[r].homework
  <2>1. /\ pc[r] = "write_homework" /\ Goto(r, "serialize_homework") /\ UNCHANGED lessons
        /\ homeworks' = IF OwnField(r) \notin ask[r].fields THEN homeworks
                        ELSE [homeworks EXCEPT ![h][OwnField(r)] = sub]
    BY <1>11 DEF WriteHomework
  <2>2. h \in HomeworkIds /\ homeworks[h] # Null /\ homeworks[h] \in HomeworkRow
    BY <1>1, <2>1 DEF KnowsLesson, HasHomework, HomeworksTableOK
  <2>3. ASSUME NEW g \in HomeworkIds
        PROVE  /\ homeworks'[g] # Null => homeworks[g] # Null
               /\ homeworks[g] # Null => homeworks'[g].deleted = homeworks[g].deleted
    BY <1>1, <2>1, <2>2 DEF HomeworksTableOK, HomeworkRow, OwnField
  <2>4. SerialMoves
    BY <1>1, <2>1, <2>3, EditMoves
  <2>5. Fresh(r)'
    BY <1>2, <2>1, NothingToKeep DEF FreshSteps, HoldsLesson
  <2> QED
    BY <2>4, <2>5
<1>12. CASE LoadLinkedLesson(r)
  <2>1. /\ seen' = [seen EXCEPT ![r] = LessonOf(ask[r].homework)]
        /\ Goto(r, "write_homework_delete") /\ UNCHANGED <<lessons, homeworks, ask>>
    BY <1>12 DEF LoadLinkedLesson
  <2>2. seen'[r] = LessonOf(ask[r].homework) /\ pc'[r] = "write_homework_delete"
    BY <1>2, <2>1
  <2>3. LessonOf(ask[r].homework)' = LessonOf(ask[r].homework)
    BY <2>1 DEF LessonOf
  <2>4. Fresh(r)'
    BY <2>1, <2>2, <2>3 DEF Fresh, HoldsLesson
  <2> QED
    BY <2>1, <2>4, QuietMoves
<1>13. CASE WriteHomeworkDelete(r)
  <2>1. /\ pc[r] = "write_homework_delete" /\ Goto(r, "respond")
        /\ homeworks' = [homeworks EXCEPT ![ask[r].homework].deleted = TRUE]
        /\ lessons' = [l \in LessonIds |->
                IF l \in seen[r] THEN [lessons[l] EXCEPT !.homework = Null]
                ELSE lessons[l]]
    BY <1>13 DEF WriteHomeworkDelete
  <2>2. /\ ask[r].homework \in HomeworkIds /\ homeworks[ask[r].homework] # Null
        /\ seen[r] = LessonOf(ask[r].homework)
    BY <1>1, <2>1 DEF KnowsLesson, HasHomework, Fresh, HoldsLesson
  <2>3. SerialMoves
    BY <1>1, <2>1, <2>2, UnlinkMoves
  <2>4. Fresh(r)'
    BY <1>2, <2>1, NothingToKeep DEF FreshSteps, HoldsLesson
  <2> QED
    BY <2>3, <2>4
<1> QED
  BY <1>4, <1>5, <1>7, <1>8, <1>9, <1>10, <1>11, <1>12, <1>13 DEF HomeworksStep

-----------------------------------------------------------------------------
\* With one request at a time every step keeps the invariant and moves the
\* tables as a school in order moves.
LEMMA SerialStep ==
    ASSUME OneAtATime, SerialInv, [SchoolNext]_schoolVars
    PROVE  SerialInv' /\ SerialMoves
<1>1. CASE SchoolNext
  <2>1. PICK r \in Requests :
          \/ UsersStep(r) /\ UNCHANGED <<relations, lessons, homeworks>>
          \/ RelationsStep(r) /\ UNCHANGED <<lessons, homeworks>>
          \/ LessonsStep(r)
          \/ HomeworksStep(r)
          \/ ReadsStep(r)
    BY <1>1 DEF SchoolNext
  <2>2. SchoolInv'
    BY <2>1, OtherStepKeepsSchool, LessonsStepKeepsSchool, HomeworksStepKeepsSchool,
       ReadsStepKeepsSchool DEF SerialInv
  <2>3. ReadsStep(r) => UNCHANGED <<lessons, homeworks>>
    BY DEF ReadsStep, ListRelations, ListLessons, ListHomeworks, GetHomework, LoadLessons
  <2>4. Fresh(r)' /\ SerialMoves
    BY <2>1, <2>3, UsersStepStaysFresh, OtherStepStaysFresh, LessonsStepMoves,
       HomeworksStepMoves, QuietMoves
  <2> QED
    BY <2>2, <2>4 DEF SerialInv, OneAtATime
<1>2. CASE UNCHANGED schoolVars
  <2>1. SchoolInv'
    BY <1>2, StutterKeepsSchool DEF SerialInv
  <2>2. UNCHANGED <<lessons, homeworks, relations, users, pc, token, me, ask, seen>>
    BY <1>2 DEF schoolVars, relationsVars, usersVars, sessionVars
  <2>3. ASSUME NEW q \in Requests PROVE Fresh(q)'
    <3>1. Explained(q) => Explained(q)'
      BY <2>2 DEF Explained, EmailTaken, NamesOtherStudent, MatchesStudent
    <3>2. /\ \A h : LessonOf(h)' = LessonOf(h)
          /\ \A h : VisibleHomework(q, h) => VisibleHomework(q, h)'
          /\ \A t, s : ActiveRelation(t, s) => ActiveRelation(t, s)'
      BY <2>2 DEF LessonOf, ActiveRelation, VisibleHomework, Visible, OnOwnSide
    <3> QED
      BY <2>2, <3>1, <3>2 DEF SerialInv, Fresh
  <2> QED
    BY <2>1, <2>2, <2>3, QuietMoves DEF SerialInv
<1> QED
  BY <1>1, <1>2

\* The invariant holds of every sequence of whole requests.
LEMMA SerialInvariant ==
    ASSUME OneAtATime
    PROVE  SchoolSpec => []SerialInv /\ [][SerialMoves]_schoolVars
<1>1. SchoolInit => SerialInv
  BY InitHasSchool
     DEF SchoolInit, LessonsInit, RelationsInit, UsersInit, SessionInit, SerialInv, Fresh,
         HoldsLesson
<1>2. SerialInv /\ [SchoolNext]_schoolVars => SerialInv' /\ SerialMoves
  BY SerialStep
<1> QED
  BY <1>1, <1>2, PTL DEF SchoolSpec

-----------------------------------------------------------------------------
\* The handler of a request is given what its token says, and the row says it
\* too, whichever tokens came before.
THEOREM SerialHandlerSeesToken ==
    ASSUME OneAtATime PROVE SchoolSpec => []HandlerSeesToken
<1>1. SerialInv => HandlerSeesToken
  BY DEF SerialInv, Fresh, HandlerSeesToken
<1> QED
  BY <1>1, SerialInvariant, PTL

\* No handler ends in an exception of its own but the update that names a
\* student who is not the lesson's: everything else that a handler has checked
\* is so when it writes, however the rows were before.
THEOREM SerialServerErrorsExplained ==
    ASSUME OneAtATime PROVE SchoolSpec => []ServerErrorsExplained
<1>1. SerialInv => ServerErrorsExplained
  BY DEF SerialInv, Fresh, Explained, ServerErrorsExplained
<1> QED
  BY <1>1, SerialInvariant, PTL

\* Lessons whose times are in order keep them in order, through any sequence
\* of partial updates.
THEOREM SerialTimesOrdered ==
    ASSUME OneAtATime PROVE SchoolSpec /\ TimesOrdered => []TimesOrdered
<1>1. TimesOrdered /\ [SerialMoves]_schoolVars => TimesOrdered'
  BY DEF SerialMoves, schoolVars, TimesOrdered
<1> QED
  BY <1>1, SerialInvariant, PTL

\* Homework that hangs on live lessons goes on to, through every creation,
\* deletion and failure.
THEOREM SerialHomeworkLivesWithLesson ==
    ASSUME OneAtATime
    PROVE  SchoolSpec /\ HomeworkLivesWithLesson => []HomeworkLivesWithLesson
<1>1. HomeworkLivesWithLesson /\ [SerialMoves]_schoolVars => HomeworkLivesWithLesson'
  BY DEF SerialMoves, schoolVars, HomeworkLivesWithLesson, LessonOf
<1> QED
  BY <1>1, SerialInvariant, PTL

\* passed and cancelled are final.
THEOREM SerialStatusTransitions ==
    ASSUME OneAtATime PROVE SchoolSpec => StatusTransitions
<1>1. [SerialMoves]_schoolVars =>
        [\A l \in LessonIds :
            (lessons[l] # Null /\ lessons'[l].status # lessons[l].status)
                => lessons[l].status = "active"]_lessons
  BY DEF SerialMoves, StatusMoves, schoolVars
<1> QED
  BY <1>1, SerialInvariant, PTL DEF StatusTransitions

-----------------------------------------------------------------------------
(* One request at a time, the endpoints implement the classroom: every     *)
(* statement is one of its steps, at one lesson or one pair, or nothing    *)
(* that a client could see.                                                *)

\* What clients see is the same, but for the lesson at l.
OnlyAt(l) ==
    /\ UNCHANGED relations
    /\ \A m \in LessonIds \ {l} :
        OnTimetable(m)' = OnTimetable(m) /\ HomeworkOn(m)' = HomeworkOn(m)

\* The steps of the classroom, as what they do at l.
PutAt(l) ==
    /\ HomeworkOn(l)' = HomeworkOn(l)
    /\ OnTimetable(l)' \in Class!Lesson
    /\ <<OnTimetable(l)'.teacher, OnTimetable(l)'.student>> \in PairsWith("active")
    /\ OnTimetable(l) # Null =>
        /\ OnTimetable(l)'.teacher = OnTimetable(l).teacher
        /\ OnTimetable(l)'.student = OnTimetable(l).student
        /\ OnTimetable(l).status # "active" =>
                OnTimetable(l)'.status = OnTimetable(l).status
DroppedAt(l) ==
    OnTimetable(l) # Null /\ OnTimetable(l)' = Null /\ HomeworkOn(l)' = Null
AssignedAt(l) ==
    /\ OnTimetable(l) # Null /\ HomeworkOn(l) = Null
    /\ <<OnTimetable(l).teacher, OnTimetable(l).student>> \in PairsWith("active")
    /\ OnTimetable(l)' = OnTimetable(l)
    /\ HomeworkOn(l)' = [answer |-> Null]
AnsweredAt(l) ==
    /\ HomeworkOn(l) # Null /\ OnTimetable(l)' = OnTimetable(l)
    /\ HomeworkOn(l)' = [HomeworkOn(l) EXCEPT !.answer = OnTimetable(l).student]
WithdrawnAt(l) ==
    /\ HomeworkOn(l) # Null /\ OnTimetable(l)' = OnTimetable(l)
    /\ HomeworkOn(l)' = Null
SameAt(l) == OnTimetable(l)' = OnTimetable(l) /\ HomeworkOn(l)' = HomeworkOn(l)

-----------------------------------------------------------------------------
\* A change at one lesson is a step of the classroom.
LEMMA StepAtOneLesson ==
    ASSUME NEW l \in LessonIds, OnlyAt(l),
           \/ PutAt(l) \/ DroppedAt(l) \/ AssignedAt(l) \/ AnsweredAt(l)
           \/ WithdrawnAt(l) \/ SameAt(l)
    PROVE  [Class!Next]_(Class!classroom)
<1> DEFINE timetable == [m \in LessonIds |-> OnTimetable(m)]
           homework == [m \in LessonIds |-> HomeworkOn(m)]
<1>1. PairsWith("active")' = PairsWith("active")
  BY DEF OnlyAt, PairsWith
<1>2. /\ timetable' = [timetable EXCEPT ![l] = OnTimetable(l)']
      /\ homework' = [homework EXCEPT ![l] = HomeworkOn(l)']
  BY DEF OnlyAt
<1>3. OnTimetable(l)' = OnTimetable(l) => timetable' = timetable
  BY <1>2
<1>4. HomeworkOn(l)' = HomeworkOn(l) => homework' = homework
  BY <1>2
<1>5. /\ timetable[l] = OnTimetable(l) /\ homework[l] = HomeworkOn(l)
      /\ timetable'[l] = OnTimetable(l)'
  BY <1>2
<1>6. CASE PutAt(l)
  <2>1. Class!PutOn(l)
    BY <1>1, <1>2, <1>4, <1>5, <1>6 DEF PutAt, Class!PutOn, Class!MayTeach
  <2>2. Class!Schedule(l) \/ Class!Change(l)
    BY <1>5, <1>6, <2>1 DEF PutAt, Class!Schedule, Class!Change
  <2> QED
    BY <2>2 DEF Class!Next
<1>7. CASE DroppedAt(l)
  BY <1>1, <1>2, <1>5, <1>7 DEF DroppedAt, Class!Drop, Class!Next
<1>8. CASE AssignedAt(l)
  BY <1>1, <1>2, <1>3, <1>5, <1>8 DEF AssignedAt, Class!Assign, Class!MayTeach, Class!Next
<1>9. CASE AnsweredAt(l)
  <2>1. homework' = [homework EXCEPT ![l].answer = timetable[l].student]
    BY <1>2, <1>5, <1>9 DEF AnsweredAt
  <2> QED
    BY <1>1, <1>3, <1>5, <1>9, <2>1 DEF AnsweredAt, Class!Answer, Class!Next
<1>10. CASE WithdrawnAt(l)
  BY <1>1, <1>2, <1>3, <1>5, <1>10 DEF WithdrawnAt, Class!Withdraw, Class!Next
<1>11. CASE SameAt(l)
  BY <1>1, <1>3, <1>4, <1>11 DEF SameAt, Class!classroom
<1> QED
  BY <1>6, <1>7, <1>8, <1>9, <1>10, <1>11

\* What is the same at every lesson is the same.
LEMMA SameEverywhere ==
    ASSUME UNCHANGED relations, \A l \in LessonIds : SameAt(l)
    PROVE  UNCHANGED Class!classroom
<1>1. PairsWith("active")' = PairsWith("active")
  BY DEF PairsWith
<1> QED
  BY <1>1 DEF SameAt, Class!classroom

\* A step that leaves relations, lessons and homework alone shows nothing.
LEMMA NothingToSee ==
    ASSUME UNCHANGED <<relations, lessons, homeworks>>
    PROVE  UNCHANGED Class!classroom
<1>1. \A l \in LessonIds : SameAt(l)
  BY DEF SameAt, OnTimetable, HomeworkOn, Live, LiveHomework
<1> QED
  BY <1>1, SameEverywhere

\* A lesson whose row is as it was, its homework's row too, is shown as it was.
LEMMA ShownAsBefore ==
    ASSUME LessonsTableOK, HomeworkLinkedOnce, NEW l \in LessonIds,
           lessons'[l] = lessons[l],
           lessons[l] # Null =>
                \A h \in HomeworkIds :
                    lessons[l].homework = h => homeworks'[h] = homeworks[h]
    PROVE  SameAt(l)
<1>1. (lessons[l] # Null /\ lessons[l].homework # Null) => lessons[l].homework \in HomeworkIds
  BY LessonColumns DEF LessonsTableOK
<1> QED
  BY <1>1 DEF SameAt, OnTimetable, HomeworkOn, Live, LiveHomework

\* A row on the timetable, before and after a step.
Told(row) ==
    [teacher |-> row.teacher, student |-> row.student, start |-> row.start,
     end |-> row.end, status |-> row.status]

LEMMA ShownLesson ==
    ASSUME NEW l, NEW row \in LessonRow, ~row.deleted, row.start < row.end
    PROVE  /\ Told(row) \in Class!Lesson /\ Told(row) # Null
           /\ lessons[l] = row => OnTimetable(l) = Told(row)
           /\ lessons'[l] = row => OnTimetable(l)' = Told(row)
<1>1. Told(row) \in Class!Lesson
  BY LessonColumns DEF Told, Class!Lesson
<1>2. Told(row) # Null
  BY <1>1, NullIsNothing
<1>3. row # Null
  BY LessonColumns
<1>4. /\ lessons[l] = row => OnTimetable(l) = Told(row)
      /\ lessons'[l] = row => OnTimetable(l)' = Told(row)
  BY <1>3 DEF Told, OnTimetable, Live
<1> QED
  BY <1>1, <1>2, <1>4

\* A homework that is shown, before and after a step.
LEMMA ShownHomework ==
    ASSUME NEW answer \in Persons \union {Null}
    PROVE  [answer |-> answer] # Null
BY NullIsNothing DEF Class!Homework

-----------------------------------------------------------------------------
\* A lesson written over a live one, or over none, with the same homework, is
\* put on the timetable.
LEMMA WrittenLessonIsPut ==
    ASSUME TablesOK, RelationsTableOK, TimesOrdered, UNCHANGED <<relations, homeworks>>,
           NEW l \in LessonIds, NEW row \in LessonRow,
           lessons' = [lessons EXCEPT ![l] = row],
           row.start < row.end, ~row.deleted,
           ActiveRelation(row.teacher, row.student),
           lessons[l] = Null => row.homework = Null,
           lessons[l] # Null =>
                /\ ~lessons[l].deleted /\ row.homework = lessons[l].homework
                /\ row.teacher = lessons[l].teacher
                /\ row.student = lessons[l].student
                /\ row.status # lessons[l].status => lessons[l].status = "active"
    PROVE  [Class!Next]_(Class!classroom)
<1>1. LessonsTableOK /\ HomeworkLinkedOnce
  BY DEF TablesOK
<1>2. lessons'[l] = row /\ \A m \in LessonIds \ {l} : lessons'[m] = lessons[m]
  BY <1>1 DEF LessonsTableOK
<1>3. OnlyAt(l)
  BY <1>1, <1>2, ShownAsBefore DEF OnlyAt, SameAt
<1>4. OnTimetable(l)' = Told(row) /\ Told(row) \in Class!Lesson
  BY <1>2, ShownLesson
<1>5. HomeworkOn(l)' = HomeworkOn(l)
  <2>1. row # Null
    BY LessonColumns
  <2> QED
    BY <1>2, <2>1 DEF HomeworkOn, LiveHomework, Live
<1>6. <<row.teacher, row.student>> \in PairsWith("active")
  BY InPairs DEF ActiveRelation
<1>7. CASE lessons[l] = Null
  BY <1>4, <1>5, <1>6, <1>7, <1>3, StepAtOneLesson DEF PutAt, OnTimetable, Live, Told
<1>8. CASE lessons[l] # Null
  <2>1. OnTimetable(l) = Told(lessons[l])
    BY <1>1, <1>8, ShownLesson DEF LessonsTableOK, TimesOrdered
  <2>2. PutAt(l)
    BY <1>4, <1>5, <1>6, <1>8, <2>1 DEF PutAt, Told
  <2> QED
    BY <1>3, <2>2, StepAtOneLesson
<1> QED
  BY <1>7, <1>8

\* A deleted lesson is dropped, with the homework on it and no other.
LEMMA DeletedLessonIsDropped ==
    ASSUME TablesOK, TimesOrdered, UNCHANGED relations, NEW l \in LessonIds,
           lessons[l] # Null, ~lessons[l].deleted,
           lessons' = [lessons EXCEPT ![l].deleted = TRUE],
           homeworks' = IF lessons[l].homework = Null THEN homeworks
                        ELSE [homeworks EXCEPT ![lessons[l].homework].deleted = TRUE]
    PROVE  [Class!Next]_(Class!classroom)
<1> DEFINE gone == lessons[l].homework
<1>1. LessonsTableOK /\ HomeworksTableOK /\ HomeworkLinkedOnce
  BY DEF TablesOK
<1>2. /\ lessons[l] \in LessonRow
      /\ lessons'[l] = [lessons[l] EXCEPT !.deleted = TRUE]
      /\ \A m \in LessonIds \ {l} : lessons'[m] = lessons[m]
  BY <1>1 DEF LessonsTableOK
<1>3. lessons'[l].deleted
  BY <1>2 DEF LessonRow
<1>4. \A h \in HomeworkIds \ {gone} : homeworks'[h] = homeworks[h]
  BY <1>1 DEF HomeworksTableOK
<1>5. ASSUME NEW m \in LessonIds \ {l} PROVE SameAt(m)
  <2>1. lessons[m] # Null => \A h \in HomeworkIds : lessons[m].homework = h => h # gone
    BY <1>5, NullIsNoLesson DEF TablesOK, HomeworkLinkedOnce, LinksIn
  <2> QED
    BY <1>1, <1>2, <1>4, <2>1, ShownAsBefore
<1>6. OnlyAt(l)
  BY <1>5 DEF OnlyAt, SameAt
<1>7. DroppedAt(l)
  <2>1. OnTimetable(l) # Null
    BY <1>2, ShownLesson DEF TimesOrdered
  <2> QED
    BY <1>3, <2>1 DEF DroppedAt, OnTimetable, HomeworkOn, LiveHomework, Live
<1> QED
  BY <1>6, <1>7, StepAtOneLesson

\* A homework attached to a lesson that has no live one is assigned.
LEMMA AttachedHomeworkIsAssigned ==
    ASSUME TablesOK, TimesOrdered, UNCHANGED relations, NEW l \in LessonIds,
           lessons[l] # Null, ~lessons[l].deleted,
           lessons[l].homework # Null => homeworks[lessons[l].homework].deleted,
           ActiveRelation(lessons[l].teacher, lessons[l].student),
           NEW h \in HomeworkIds, homeworks[h] = Null,
           NEW row \in HomeworkRow, row.answer = Null, ~row.deleted,
           homeworks' = [homeworks EXCEPT ![h] = row],
           lessons' = [lessons EXCEPT ![l].homework = h]
    PROVE  [Class!Next]_(Class!classroom)
<1>1. LessonsTableOK /\ HomeworksTableOK /\ HomeworkLinkedOnce
  BY DEF TablesOK
<1>2. /\ lessons[l] \in LessonRow
      /\ lessons'[l] = [lessons[l] EXCEPT !.homework = h]
      /\ \A m \in LessonIds \ {l} : lessons'[m] = lessons[m]
  BY <1>1 DEF LessonsTableOK
<1>3. /\ lessons'[l] # Null /\ lessons'[l].homework = h /\ ~lessons'[l].deleted
      /\ Told(lessons'[l]) = Told(lessons[l])
  BY <1>2, LessonColumns DEF LessonRow, Told
<1>4. homeworks'[h] = row /\ \A g \in HomeworkIds \ {h} : homeworks'[g] = homeworks[g]
  BY <1>1 DEF HomeworksTableOK
<1>5. ASSUME NEW m \in LessonIds \ {l} PROVE SameAt(m)
  <2>1. lessons[m] # Null => lessons[m].homework # h
    BY <1>1, NullIsNoLesson DEF HomeworkLinkedOnce, LinksIn
  <2> QED
    BY <1>1, <1>2, <1>4, <2>1, ShownAsBefore
<1>6. OnlyAt(l)
  BY <1>5 DEF OnlyAt, SameAt
<1>7. AssignedAt(l)
  <2>1. OnTimetable(l) = Told(lessons[l]) /\ OnTimetable(l) # Null
    BY <1>2, ShownLesson DEF TimesOrdered
  <2>2. OnTimetable(l)' = Told(lessons[l])
    BY <1>3 DEF OnTimetable, Live, Told
  <2>3. HomeworkOn(l) = Null
    BY DEF HomeworkOn, LiveHomework
  <2>4. HomeworkOn(l)' = [answer |-> Null]
    BY <1>3, <1>4, NullIsNoLesson DEF HomeworkOn, LiveHomework, Live
  <2>5. <<lessons[l].teacher, lessons[l].student>> \in PairsWith("active")
    BY InPairs DEF ActiveRelation
  <2> QED
    BY <2>1, <2>2, <2>3, <2>4, <2>5 DEF AssignedAt, Told
<1> QED
  BY <1>6, <1>7, StepAtOneLesson

\* Lessons other than the one a homework hangs on do not show it.
LEMMA OthersDoNotShow ==
    ASSUME TablesOK, NEW h \in HomeworkIds, UNCHANGED relations,
           \A g \in HomeworkIds \ {h} : homeworks'[g] = homeworks[g],
           NEW m \in LessonIds, lessons'[m] = lessons[m], m \notin LessonOf(h)
    PROVE  SameAt(m)
BY ShownAsBefore DEF TablesOK, LessonOf

LEMMA OneLessonOf ==
    ASSUME TablesOK, NEW h \in HomeworkIds, NEW l \in LessonOf(h)
    PROVE  /\ LessonOf(h) = {l} /\ l \in LessonIds
           /\ lessons[l] \in LessonRow /\ lessons[l].homework = h
<1>1. \A m \in LessonOf(h) : m = l
  BY NullIsNoLesson DEF LessonOf, TablesOK, HomeworkLinkedOnce, LinksIn
<1>2. l \in LessonIds /\ lessons[l] # Null /\ lessons[l].homework = h
  BY DEF LessonOf
<1> QED
  BY <1>1, <1>2 DEF TablesOK, LessonsTableOK

\* A student's answer is shown on the lesson, a teacher's brief nowhere.
LEMMA WrittenAnswerIsShown ==
    ASSUME TablesOK, TimesOrdered, UNCHANGED <<relations, lessons>>,
           NEW h \in HomeworkIds, homeworks[h] # Null, ~homeworks[h].deleted,
           NEW l \in LessonOf(h), ~lessons[l].deleted,
           homeworks' = [homeworks EXCEPT ![h].answer = lessons[l].student]
    PROVE  [Class!Next]_(Class!classroom)
<1>1. /\ LessonOf(h) = {l} /\ l \in LessonIds
      /\ lessons[l] \in LessonRow /\ lessons[l].homework = h
  BY OneLessonOf
<1>2. homeworks \in [HomeworkIds -> HomeworkRow \union {Null}]
  BY DEF TablesOK, HomeworksTableOK
<1>3. /\ homeworks[h] \in HomeworkRow
      /\ homeworks'[h] = [homeworks[h] EXCEPT !.answer = lessons[l].student]
      /\ \A g \in HomeworkIds \ {h} : homeworks'[g] = homeworks[g]
  BY <1>2
<1>4. /\ homeworks'[h] # Null /\ ~homeworks'[h].deleted
      /\ homeworks'[h].answer = lessons[l].student
      /\ homeworks[h].answer \in Persons \union {Null}
  BY <1>1, <1>3, HomeworkColumns, LessonColumns DEF HomeworkRow
<1>5. \A m \in LessonIds \ {l} : SameAt(m)
  BY <1>1, <1>3, OthersDoNotShow
<1>6. OnlyAt(l)
  BY <1>5 DEF OnlyAt, SameAt
<1>7. AnsweredAt(l)
  <2>1. lessons[l] # Null /\ lessons[l].homework # Null
    BY <1>1, LessonColumns, NullIsNoLesson
  <2>2. HomeworkOn(l) = [answer |-> homeworks[h].answer]
    BY <1>1, <2>1 DEF HomeworkOn, LiveHomework, Live
  <2>3. HomeworkOn(l)' = [answer |-> lessons[l].student]
    BY <1>1, <1>4, <2>1 DEF HomeworkOn, LiveHomework, Live
  <2>4. OnTimetable(l)' = OnTimetable(l) /\ OnTimetable(l).student = lessons[l].student
    BY <2>1 DEF OnTimetable, Live
  <2>5. HomeworkOn(l) # Null
    BY <1>4, <2>2, ShownHomework
  <2> QED
    BY <2>2, <2>3, <2>4, <2>5 DEF AnsweredAt
<1> QED
  BY <1>1, <1>6, <1>7, StepAtOneLesson

LEMMA WrittenBriefIsNotShown ==
    ASSUME TablesOK, UNCHANGED <<relations, lessons>>,
           NEW h \in HomeworkIds, homeworks[h] # Null, NEW t,
           homeworks' = [homeworks EXCEPT ![h].brief = t]
    PROVE  UNCHANGED Class!classroom
<1>1. LessonsTableOK /\ homeworks \in [HomeworkIds -> HomeworkRow \union {Null}]
  BY DEF TablesOK, HomeworksTableOK
<1>2. /\ homeworks[h] \in HomeworkRow
      /\ homeworks'[h] = [homeworks[h] EXCEPT !.brief = t]
      /\ \A g \in HomeworkIds \ {h} : homeworks'[g] = homeworks[g]
  BY <1>1
<1>3. /\ homeworks'[h].deleted = homeworks[h].deleted
      /\ homeworks'[h].answer = homeworks[h].answer
  BY <1>2 DEF HomeworkRow
<1>4. ASSUME NEW l \in LessonIds PROVE SameAt(l)
  <2>1. (lessons[l] # Null /\ lessons[l].homework # Null) =>
            lessons[l].homework \in HomeworkIds
    BY <1>1, LessonColumns DEF LessonsTableOK
  <2> QED
    BY <1>2, <1>3, <2>1 DEF SameAt, OnTimetable, HomeworkOn, Live, LiveHomework
<1> QED
  BY <1>4, SameEverywhere

\* A deleted and unlinked homework is withdrawn from its lesson, if that one is
\* still on, and from no other.
LEMMA UnlinkedHomeworkIsWithdrawn ==
    ASSUME TablesOK, TimesOrdered, UNCHANGED relations,
           NEW h \in HomeworkIds, homeworks[h] # Null,
           homeworks' = [homeworks EXCEPT ![h].deleted = TRUE],
           lessons' = [l \in LessonIds |->
                IF l \in LessonOf(h) THEN [lessons[l] EXCEPT !.homework = Null]
                ELSE lessons[l]]
    PROVE  [Class!Next]_(Class!classroom)
<1>1. \A g \in HomeworkIds \ {h} : homeworks'[g] = homeworks[g]
  BY DEF TablesOK, HomeworksTableOK
<1>2. \A m \in LessonIds \ LessonOf(h) : SameAt(m)
  BY <1>1, OthersDoNotShow
<1>3. CASE LessonOf(h) = {}
  BY <1>2, <1>3, SameEverywhere
<1>4. ASSUME NEW l \in LessonOf(h) PROVE [Class!Next]_(Class!classroom)
  <2>1. LessonOf(h) = {l} /\ l \in LessonIds /\ lessons[l] \in LessonRow
    BY <1>4, OneLessonOf
  <2>2. OnlyAt(l)
    BY <1>2, <2>1 DEF OnlyAt, SameAt
  <2>3. lessons'[l] = [lessons[l] EXCEPT !.homework = Null]
    BY <2>1
  <2>4. /\ lessons'[l].homework = Null /\ lessons'[l].deleted = lessons[l].deleted
        /\ Told(lessons'[l]) = Told(lessons[l])
    BY <2>1, <2>3 DEF LessonRow, Told
  <2>5. lessons[l] # Null /\ lessons'[l] # Null
    <3>1. lessons'[l] \in LessonRow
      BY <2>1, <2>3 DEF LessonRow
    <3> QED
      BY <2>1, <3>1, LessonColumns
  <2>6. OnTimetable(l)' = OnTimetable(l)
    BY <2>4, <2>5 DEF OnTimetable, Live, Told
  <2>7. HomeworkOn(l)' = Null
    BY <2>4 DEF HomeworkOn, LiveHomework
  <2>8. WithdrawnAt(l) \/ SameAt(l)
    BY <2>6, <2>7 DEF WithdrawnAt, SameAt
  <2> QED
    BY <2>1, <2>2, <2>8, StepAtOneLesson
<1> QED
  BY <1>3, <1>4

-----------------------------------------------------------------------------
\* The relation endpoints open and close pairs.
LEMMA RelationsStepIsClassroom ==
    ASSUME SerialInv, NEW r \in Requests, RelationsStep(r), UNCHANGED <<lessons, homeworks>>
    PROVE  [Class!Next]_(Class!classroom)
<1>1. TellsTheBook
  BY SchoolStepNames, RelationsStepTellsTheBook DEF SerialInv, SchoolInv
<1>2. RelationsTableOK /\ PairUnique
  BY DEF SerialInv, SchoolInv, RelationsInv
<1>3. \A l \in LessonIds : SameAt(l)
  BY DEF SameAt, OnTimetable, HomeworkOn, Live, LiveHomework
<1>4. CASE UNCHANGED relations
  BY <1>4, NothingToSee
<1>5. ASSUME NEW i \in RelationIds, PairOpens(i)
      PROVE  Class!Next
  <2> DEFINE pair == <<relations'[i].teacher, relations'[i].student>>
  <2>1. /\ PairsWith("active")' = PairsWith("active") \union {pair}
        /\ pair \notin PairsWith("active")
    BY <1>5, OpenedPair
  <2>2. pair \in Persons \X Persons
    BY <1>5 DEF PairOpens, RelationRow
  <2> HIDE DEF pair
  <2>3. Class!Open(pair)
    BY <1>3, <2>1 DEF Class!Open, SameAt
  <2> QED
    BY <2>2, <2>3 DEF Class!Next
<1>6. ASSUME NEW i \in RelationIds, PairCloses(i)
      PROVE  Class!Next
  <2> DEFINE pair == <<relations[i].teacher, relations[i].student>>
  <2>1. /\ PairsWith("active")' = PairsWith("active") \ {pair}
        /\ pair \in PairsWith("active")
    BY <1>2, <1>6, ClosedPair
  <2>2. pair \in Persons \X Persons
    BY <1>2, <1>6 DEF PairCloses, RelationsTableOK, RelationRow
  <2> HIDE DEF pair
  <2>3. Class!Close(pair)
    BY <1>3, <2>1 DEF Class!Close, SameAt
  <2> QED
    BY <2>2, <2>3 DEF Class!Next
<1> QED
  BY <1>1, <1>4, <1>5, <1>6 DEF TellsTheBook, NothingToTell, SomebodyJoins

\* The lesson endpoints schedule, change and drop.
LEMMA LessonsStepIsClassroom ==
    ASSUME SerialInv, TimesOrdered, NEW r \in Requests, LessonsStep(r)
    PROVE  [Class!Next]_(Class!classroom)
<1> DEFINE sub == token[r].sub
<1>1. /\ UNCHANGED relations /\ KnowsLesson(r) /\ RelationsTableOK /\ Fresh(r) /\ TablesOK
      /\ sub \in Persons
  BY SchoolHandler DEF SerialInv, SchoolInv
<1>2. CASE InsertLesson(r)
  <2> DEFINE body == ask[r].body
             row == [teacher |-> sub, student |-> body.student,
                     start |-> body.start, end |-> body.end,
                     status |-> body.status, deleted |-> FALSE,
                     homework |-> Null]
  <2>1. pc[r] = "insert_lesson" /\ UNCHANGED homeworks
    BY <1>2 DEF InsertLesson
  <2>2. PICK l \in LessonIds : lessons[l] = Null /\ lessons' = [lessons EXCEPT ![l] = row]
    BY <1>2 DEF InsertLesson
  <2>3. body \in LessonBody /\ ActiveRelation(sub, body.student)
    BY <1>1, <2>1, BodiesPassSchema DEF KnowsLesson, Fresh
  <2>4. /\ row \in LessonRow /\ row.start < row.end /\ ~row.deleted
        /\ row.teacher = sub /\ row.student = body.student /\ row.homework = Null
    BY <1>1, <2>3 DEF LessonRow, LessonBody
  <2> HIDE DEF row, body
  <2> QED
    BY <1>1, <2>1, <2>2, <2>3, <2>4, WrittenLessonIsPut
<1>3. CASE WriteUpdate(r)
  <2> DEFINE l == ask[r].lesson
             patch == ask[r].patch
             new == Patched(seen[r], patch)
  <2>1. /\ pc[r] = "write_update" /\ UNCHANGED homeworks
        /\ lessons' = [lessons EXCEPT ![l] = Merge(lessons[l], seen[r], new)]
    BY <1>3 DEF WriteUpdate
  <2>2. /\ l \in LessonIds /\ patch \in LessonPatches /\ lessons[l] # Null
        /\ lessons[l].teacher = sub /\ seen[r] = lessons[l] /\ ~lessons[l].deleted
        /\ seen[r] \in LessonRow /\ new \in LessonRow
    BY <1>1, <2>1 DEF KnowsLesson, LessonTypes, WorksOnLesson, Fresh, HoldsLesson
  <2>3. /\ new.start < new.end /\ new.status \in AllowedStatus(lessons[l].status)
        /\ ActiveRelation(sub, lessons[l].student)
    BY <1>1, <2>1, <2>2 DEF Fresh, Given, MatchesStudent
  <2>4. /\ Merge(lessons[l], seen[r], new) = new
        /\ new.teacher = sub /\ new.homework = lessons[l].homework /\ ~new.deleted
        /\ new.student = lessons[l].student
    BY <2>2, MergedPatch
  <2> HIDE DEF new
  <2>5. new.status # lessons[l].status => lessons[l].status = "active"
    BY <2>3 DEF AllowedStatus
  <2> QED
    BY <1>1, <2>1, <2>2, <2>3, <2>4, <2>5, WrittenLessonIsPut
<1>4. CASE WriteLessonDelete(r)
  <2>1. /\ pc[r] = "write_lesson_delete"
        /\ lessons' = [lessons EXCEPT ![ask[r].lesson].deleted = TRUE]
        /\ homeworks' = IF seen[r].homework = Null THEN homeworks
                        ELSE [homeworks EXCEPT ![seen[r].homework].deleted = TRUE]
    BY <1>4 DEF WriteLessonDelete
  <2>2. /\ ask[r].lesson \in LessonIds /\ lessons[ask[r].lesson] # Null
        /\ seen[r] = lessons[ask[r].lesson] /\ ~seen[r].deleted
    BY <1>1, <2>1 DEF KnowsLesson, WorksOnLesson, Fresh, HoldsLesson
  <2> QED
    BY <1>1, <2>1, <2>2, DeletedLessonIsDropped
<1>5. CASE UNCHANGED <<lessons, homeworks>>
  BY <1>1, <1>5, NothingToSee
<1> QED
  BY <1>2, <1>3, <1>4, <1>5
     DEF LessonsStep, CreateLesson, RefuseNullTime, UpdateLesson, CheckUpdate, RereadUpdate,
         DeleteLesson

\* The homework endpoints assign, answer and withdraw.
LEMMA HomeworksStepIsClassroom ==
    ASSUME SerialInv, TimesOrdered, NEW r \in Requests, HomeworksStep(r)
    PROVE  [Class!Next]_(Class!classroom)
<1> DEFINE sub == token[r].sub
<1>1. /\ UNCHANGED relations /\ KnowsLesson(r) /\ HomeworksTableOK /\ Fresh(r) /\ TablesOK
      /\ sub \in Persons
  BY SchoolHandler DEF SerialInv, SchoolInv
<1>2. CASE InsertHomework(r)
  <2> DEFINE row == [answer |-> Null, brief |-> sub, deleted |-> FALSE]
             l == ask[r].lesson
  <2>1. pc[r] = "insert_homework"
    BY <1>2 DEF InsertHomework
  <2>2. PICK h \in HomeworkIds :
          /\ homeworks[h] = Null /\ homeworks' = [homeworks EXCEPT ![h] = row]
          /\ lessons' = [lessons EXCEPT ![l].homework = h]
    BY <1>2 DEF InsertHomework
  <2>3. /\ l \in LessonIds /\ lessons[l] # Null /\ ~lessons[l].deleted
        /\ lessons[l].homework # Null => homeworks[lessons[l].homework].deleted
        /\ ActiveRelation(lessons[l].teacher, lessons[l].student)
    BY <1>1, <2>1 DEF KnowsLesson, WorksOnLesson, Fresh, HoldsLesson
  <2>4. row \in HomeworkRow /\ row.answer = Null /\ ~row.deleted
    BY <1>1 DEF HomeworkRow
  <2> HIDE DEF row
  <2> QED
    BY <1>1, <2>2, <2>3, <2>4, AttachedHomeworkIsAssigned
<1>3. CASE WriteHomework(r)
  <2> DEFINE h == ask[r].homework
  <2>1. /\ pc[r] = "write_homework" /\ UNCHANGED lessons
        /\ homeworks' = IF OwnField(r) \notin ask[r].fields THEN homeworks
                        ELSE [homeworks EXCEPT ![h][OwnField(r)] = sub]
    BY <1>3 DEF WriteHomework
  <2>2. h \in HomeworkIds /\ homeworks[h] # Null /\ VisibleHomework(r, h)
    BY <1>1, <2>1 DEF KnowsLesson, HasHomework, Fresh
  <2>3. CASE OwnField(r) \notin ask[r].fields
    BY <1>1, <2>1, <2>3, NothingToSee
  <2>4. CASE OwnField(r) \in ask[r].fields /\ me[r].role = Student
    <3>1. homeworks' = [homeworks EXCEPT ![h].answer = sub]
      BY <2>1, <2>4 DEF OwnField
    <3>2. PICK l \in LessonOf(h) :
            ~homeworks[h].deleted /\ ~lessons[l].deleted /\ sub = lessons[l].student
      BY <2>2, <2>4 DEF VisibleHomework, Visible, OnOwnSide
    <3> QED
      BY <1>1, <2>1, <2>2, <3>1, <3>2, WrittenAnswerIsShown
  <2>5. CASE OwnField(r) \in ask[r].fields /\ me[r].role # Student
    <3>1. homeworks' = [homeworks EXCEPT ![h].brief = sub]
      BY <2>1, <2>5 DEF OwnField
    <3> QED
      BY <1>1, <2>1, <2>2, <3>1, WrittenBriefIsNotShown
  <2> QED
    BY <2>3, <2>4, <2>5
<1>4. CASE WriteHomeworkDelete(r)
  <2>1. /\ pc[r] = "write_homework_delete"
        /\ homeworks' = [homeworks EXCEPT ![ask[r].homework].deleted = TRUE]
        /\ lessons' = [l \in LessonIds |->
                IF l \in seen[r] THEN [lessons[l] EXCEPT !.homework = Null]
                ELSE lessons[l]]
    BY <1>4 DEF WriteHomeworkDelete
  <2>2. /\ ask[r].homework \in HomeworkIds /\ homeworks[ask[r].homework] # Null
        /\ seen[r] = LessonOf(ask[r].homework)
    BY <1>1, <2>1 DEF KnowsLesson, HasHomework, Fresh, HoldsLesson
  <2> QED
    BY <1>1, <2>1, <2>2, UnlinkedHomeworkIsWithdrawn
<1>5. CASE UNCHANGED <<lessons, homeworks>>
  BY <1>1, <1>5, NothingToSee
<1> QED
  BY <1>2, <1>3, <1>4, <1>5
     DEF HomeworksStep, CreateHomework, CheckHomework, RereadLesson, UpdateHomework,
         SerializeHomework, DeleteHomework, LoadLinkedLesson

-----------------------------------------------------------------------------
\* The tables at the start are a classroom.
LEMMA SchoolStartsAsClassroom ==
    ASSUME SerialInv, TimesOrdered
    PROVE  Class!Init
<1>1. TablesOK /\ RelationsTableOK
  BY DEF SerialInv, SchoolInv, RelationsInv
<1>2. PairsWith("active") \subseteq Persons \X Persons
  <2> SUFFICES ASSUME NEW pair \in PairsWith("active") PROVE pair \in Persons \X Persons
    OBVIOUS
  <2>1. PICK i \in RelationIds :
            relations[i] # Null /\ pair = <<relations[i].teacher, relations[i].student>>
    BY InPairs
  <2> QED
    BY <1>1, <2>1 DEF RelationsTableOK, RelationRow
<1>3. ASSUME NEW l \in LessonIds
      PROVE  /\ OnTimetable(l) \in Class!Lesson \union {Null}
             /\ HomeworkOn(l) \in Class!Homework \union {Null}
             /\ OnTimetable(l) = Null => HomeworkOn(l) = Null
  <2>1. CASE ~Live(l)
    BY <2>1 DEF OnTimetable, HomeworkOn, LiveHomework
  <2>2. CASE Live(l)
    <3>1. lessons[l] \in LessonRow /\ lessons[l] # Null /\ ~lessons[l].deleted
      BY <1>1, <2>2 DEF Live, TablesOK, LessonsTableOK
    <3>2. OnTimetable(l) \in Class!Lesson /\ OnTimetable(l) # Null
      BY <3>1, ShownLesson DEF TimesOrdered
    <3>3. LiveHomework(l) =>
            homeworks[lessons[l].homework].answer \in Persons \union {Null}
      BY <1>1, <3>1, LessonColumns
         DEF LiveHomework, TablesOK, HomeworkLinkedOnce, LinksIn, HomeworksTableOK, HomeworkRow
    <3>4. HomeworkOn(l) \in Class!Homework \union {Null}
      BY <3>3 DEF HomeworkOn, Class!Homework
    <3> QED
      BY <3>2, <3>4
  <2> QED
    BY <2>1, <2>2
<1> QED
  BY <1>2, <1>3 DEF Class!Init

\* Requests that come one after the other do to lessons and homework what the
\* classroom allows, whatever the statements, marks and links they take.
THEOREM SchoolImplementsClassroom ==
    ASSUME OneAtATime PROVE SchoolSpec /\ TimesOrdered => ImplementsClassroom
<1>1. SerialInv /\ TimesOrdered => Class!Init
  BY SchoolStartsAsClassroom
<1>2. SerialInv /\ TimesOrdered /\ [SchoolNext]_schoolVars => [Class!Next]_(Class!classroom)
  <2> SUFFICES ASSUME SerialInv, TimesOrdered, [SchoolNext]_schoolVars
               PROVE  [Class!Next]_(Class!classroom)
    OBVIOUS
  <2>1. CASE UNCHANGED schoolVars
    BY <2>1, NothingToSee DEF schoolVars, relationsVars
  <2>2. ASSUME NEW r \in Requests, ReadsStep(r)
        PROVE  UNCHANGED <<relations, lessons, homeworks>>
    BY <2>2 DEF ReadsStep, ListRelations, ListLessons, ListHomeworks, GetHomework, LoadLessons
  <2>3. CASE SchoolNext
    BY <2>2, <2>3, NothingToSee, RelationsStepIsClassroom, LessonsStepIsClassroom,
       HomeworksStepIsClassroom DEF SchoolNext
  <2> QED
    BY <2>1, <2>3
<1>3. SchoolSpec => [][SchoolNext]_schoolVars
  BY DEF SchoolSpec
<1> QED
  BY <1>1, <1>2, <1>3, SerialInvariant, SerialTimesOrdered, PTL
     DEF ImplementsClassroom, Class!Spec
=============================================================================
