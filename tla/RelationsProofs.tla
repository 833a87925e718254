-------------------------- MODULE RelationsProofs --------------------------
(***************************************************************************)
(* One relation row per pair, of two people with accounts, archived for    *)
(* good, and no step that the book of module Registry does not know: for   *)
(* any number of requests, persons and relation ids.                       *)
(***************************************************************************)
EXTENDS Relations, UsersProofs

HandlerSteps == {"load_student", "insert_relation", "write_archive"}

\* What a request at its step knows of the relation it works on.
KnowsRelation(r) ==
    /\ pc[r] \in {"idle", "ready"} \union SyncSteps => ask[r] = Null
    /\ pc[r] \in {"load_student", "insert_relation"} =>
        /\ ask[r] \in [op : {"create_relation"}, student : Persons]
        /\ ask[r].student # token[r].sub
    /\ pc[r] = "insert_relation" => users[ask[r].student] # Null
    /\ pc[r] = "write_archive" =>
        /\ ask[r] \in [op : {"archive"}, relation : RelationIds]
        /\ seen[r] \in RelationRow
        /\ relations[ask[r].relation] # Null
        /\ seen[r].status = "archived" =>
            relations[ask[r].relation].status = "archived"
    /\ (pc[r] \in {"respond", "ok"} /\ ask[r] # Null /\ ask[r].op = "archive") =>
        /\ ask[r].relation \in RelationIds
        /\ relations[ask[r].relation] # Null
        /\ relations[ask[r].relation].status = "archived"

SessionFunctions ==
    /\ ask = [q \in Requests |-> ask[q]]
    /\ seen = [q \in Requests |-> seen[q]]

RelationsTableOK == relations \in [RelationIds -> RelationRow \union {Null}]

\* The inductive invariant: the table and what the requests know of it.
RelationsInv(steps) ==
    /\ AccountsInv(steps)
    /\ SessionFunctions
    /\ RelationsTableOK
    /\ PairUnique
    /\ ParticipantsKnown
    /\ \A r \in Requests : KnowsRelation(r)

\* What a step leaves: a table in order, with every row it had.
RelationsTableAdvances ==
    /\ RelationsTableOK' /\ PairUnique' /\ ParticipantsKnown'
    /\ RelationsAdvance

-----------------------------------------------------------------------------
\* Pairs never disappear from a table that advances.
LEMMA PairsStay ==
    ASSUME RelationsAdvance, NEW t, NEW s, RelationPair(relations, t, s)
    PROVE  RelationPair(relations', t, s)
BY DEF RelationsAdvance, RelationPair

\* The table advances when it is left alone while accounts are added.
LEMMA SameRelationsAdvance ==
    ASSUME NEW steps, RelationsInv(steps), TableAdvances, UNCHANGED relations
    PROVE  RelationsTableAdvances
<1>1. RelationsTableOK' /\ PairUnique' /\ RelationsAdvance
  BY DEF RelationsInv, RelationsTableOK, PairUnique, OneRowPerPair, RelationsAdvance
<1>2. ASSUME NEW i \in RelationIds, relations[i] # Null
      PROVE  relations[i].teacher \in Persons /\ relations[i].student \in Persons
  BY <1>2 DEF RelationsInv, RelationsTableOK, RelationRow
<1>3. ParticipantsKnown'
  BY <1>2 DEF RelationsInv, ParticipantsKnown, ParticipantsInTable, TableAdvances
<1> QED
  BY <1>1, <1>3 DEF RelationsTableAdvances

\* The other requests keep what they know while the tables advance.
LEMMA OthersKeepRelation ==
    ASSUME NEW steps, RelationsInv(steps), TableAdvances, RelationsAdvance,
           NEW q \in Requests,
           pc'[q] = pc[q], token'[q] = token[q],
           ask'[q] = ask[q], seen'[q] = seen[q]
    PROVE  KnowsRelation(q)'
<1>1. KnowsRelation(q)
  BY DEF RelationsInv
<1> QED
  BY <1>1 DEF KnowsRelation, TableAdvances, RelationsAdvance

\* A step of request r preserves the invariant when r knows its relation
\* afterwards.
LEMMA StepKeepsRelations ==
    ASSUME NEW steps, RelationsInv(steps), AccountsInv(steps)', TableAdvances,
           RelationsTableAdvances, NEW r \in Requests,
           NEW step, Goto(r, step), NEW t, token' = [token EXCEPT ![r] = t],
           NEW a, ask' = [ask EXCEPT ![r] = a],
           NEW s, seen' = [seen EXCEPT ![r] = s],
           KnowsRelation(r)'
    PROVE  RelationsInv(steps)' /\ RelationsAdvance
<1>1. /\ DOMAIN pc = Requests /\ DOMAIN token = Requests
      /\ DOMAIN ask = Requests /\ DOMAIN seen = Requests
  BY DEF RelationsInv, AccountsInv, SessionTypeOK, SessionFunctions
<1>2. SessionFunctions'
  BY <1>1 DEF SessionFunctions
<1>3. ASSUME NEW q \in Requests PROVE KnowsRelation(q)'
  <2>1. CASE q = r
    BY <2>1
  <2>2. CASE q # r
    <3>1. /\ pc'[q] = pc[q] /\ token'[q] = token[q]
          /\ ask'[q] = ask[q] /\ seen'[q] = seen[q]
      BY <1>1, <2>2 DEF Goto
    <3> QED
      BY <3>1, OthersKeepRelation DEF RelationsTableAdvances
  <2> QED
    BY <2>1, <2>2
<1> QED
  BY <1>2, <1>3 DEF RelationsInv, RelationsTableAdvances

\* The steps of module Users leave the relations alone and the request with
\* what it knew.
LEMMA UsersStepKeepsRelations ==
    ASSUME NEW steps, StepsOf(steps), RelationsInv(steps),
           NEW r \in Requests, UsersStep(r), UNCHANGED relations
    PROVE  RelationsInv(steps)' /\ RelationsAdvance
<1>1. AccountsInv(steps)' /\ TableAdvances
  BY UsersStepKeepsAccounts DEF RelationsInv
<1>2. RelationsTableAdvances
  BY <1>1, SameRelationsAdvance
<1>3. KnowsRelation(r) /\ SessionFunctions /\ SessionTypeOK(steps)
  BY DEF RelationsInv, AccountsInv
<1>4. /\ ask' = ask => ask' = [ask EXCEPT ![r] = ask[r]]
      /\ seen' = seen => seen' = [seen EXCEPT ![r] = seen[r]]
      /\ token' = token => token' = [token EXCEPT ![r] = token[r]]
      /\ \A a : ask' = [ask EXCEPT ![r] = a] => ask'[r] = a
      /\ \A step : Goto(r, step) => pc'[r] = step
  BY <1>3 DEF SessionFunctions, SessionTypeOK, Goto
<1>5. CASE RejectToken(r) \/ RefuseRole(r) \/ DbFail(r)
  <2>1. PICK step \in {"unauthorized", "bad_request", "forbidden", "db_error"} :
            Goto(r, step)
    BY <1>5 DEF RejectToken, RefuseRole, DbFail
  <2>2. KnowsRelation(r)'
    BY <1>4, <2>1 DEF KnowsRelation, SyncSteps
  <2>3. UNCHANGED <<ask, seen>> /\ \E t : token' = [token EXCEPT ![r] = t]
    BY <1>4, <1>5 DEF RejectToken, RefuseRole, DbFail
  <2> QED
    BY <1>1, <1>2, <1>4, <2>1, <2>2, <2>3, StepKeepsRelations
<1>6. CASE Authenticate(r) \/ InsertUser(r) \/ UpdateUser(r) \/ RefreshUser(r)
  <2>1. ask[r] = Null /\ UNCHANGED <<ask, seen>>
    BY <1>3, <1>6 DEF KnowsRelation, SyncSteps, Authenticate, InsertUser, UpdateUser, RefreshUser
  <2>2. PICK step \in SyncSteps \union {"ready", "server_error"} : Goto(r, step)
    BY <1>6 DEF SyncSteps, Authenticate, InsertUser, UpdateUser, RefreshUser
  <2>3. KnowsRelation(r)'
    BY <1>4, <2>1, <2>2 DEF KnowsRelation, SyncSteps
  <2>4. \E t : token' = [token EXCEPT ![r] = t]
    BY <1>4, <1>6 DEF Authenticate, InsertUser, UpdateUser, RefreshUser
  <2> QED
    BY <1>1, <1>2, <1>4, <2>1, <2>2, <2>3, <2>4, StepKeepsRelations
<1>7. CASE ReturnProfile(r)
  <2>1. pc[r] = "ready" /\ Goto(r, "ok") /\ UNCHANGED <<token, ask, seen>>
    BY <1>7 DEF ReturnProfile, Enter
  <2>2. KnowsRelation(r)'
    BY <1>3, <1>4, <2>1 DEF KnowsRelation, SyncSteps
  <2> QED
    BY <1>1, <1>2, <1>4, <2>1, <2>2, StepKeepsRelations
<1>8. CASE Reply(r)
  <2>1. /\ Goto(r, "idle") /\ token' = [token EXCEPT ![r] = Null]
        /\ ask' = [ask EXCEPT ![r] = Null] /\ seen' = [seen EXCEPT ![r] = Null]
    BY <1>8 DEF Reply
  <2>2. KnowsRelation(r)'
    BY <1>4, <2>1 DEF KnowsRelation
  <2> QED
    BY <1>1, <1>2, <2>1, <2>2, StepKeepsRelations
<1> QED
  BY <1>5, <1>6, <1>7, <1>8 DEF UsersStep

-----------------------------------------------------------------------------
\* A handler's step preserves the invariant when its write advances the table
\* and the request knows its relation afterwards.
LEMMA HandlerKeepsRelations ==
    ASSUME NEW steps, StepsOf(steps), RelationsInv(steps),
           NEW r \in Requests, pc[r] \in steps \ SyncSteps,
           NEW step \in Outcomes \union (steps \ SyncSteps), Goto(r, step),
           UNCHANGED <<users, token, me>>, RelationsTableAdvances,
           NEW a, ask' = [ask EXCEPT ![r] = a],
           NEW s, seen' = [seen EXCEPT ![r] = s],
           KnowsRelation(r)'
    PROVE  RelationsInv(steps)' /\ RelationsAdvance
<1>1. AccountsInv(steps)' /\ TableAdvances
  BY HandlerKeepsAccounts, SameTableAdvances DEF RelationsInv
<1>2. token' = [token EXCEPT ![r] = token[r]]
  BY DEF RelationsInv, AccountsInv, SessionTypeOK
<1> QED
  BY <1>1, <1>2, StepKeepsRelations

\* How the two session variables of a handler's step are read afterwards.
LEMMA SessionReads ==
    ASSUME NEW steps, RelationsInv(steps), NEW r \in Requests
    PROVE  /\ ask' = ask => ask' = [ask EXCEPT ![r] = ask[r]]
           /\ seen' = seen => seen' = [seen EXCEPT ![r] = seen[r]]
           /\ \A a : ask' = [ask EXCEPT ![r] = a] => ask'[r] = a
           /\ \A s : seen' = [seen EXCEPT ![r] = s] => seen'[r] = s
           /\ \A step : Goto(r, step) => pc'[r] = step
BY DEF RelationsInv, AccountsInv, SessionTypeOK, SessionFunctions, Goto

\* A handler's request has a token, and its person an account.
LEMMA HandlersPerson ==
    ASSUME NEW steps, StepsOf(steps), RelationsInv(steps),
           NEW r \in Requests, pc[r] \in steps \ SyncSteps
    PROVE  /\ token[r] \in Tokens /\ token[r].sub \in Persons
           /\ users[token[r].sub] # Null
<1>1. token[r] \in Tokens
  BY DEF RelationsInv, AccountsInv, SessionTypeOK
<1>2. pc[r] \notin {"idle", "insert_user"} \union Outcomes
  BY DEF StepsOf, SyncSteps
<1> QED
  BY <1>1, <1>2, TokenFields DEF RelationsInv, AccountsInv, KnowsRow

\* Each of the five steps of the relation endpoints preserves the invariant.
LEMMA RelationsStepKeepsRelations ==
    ASSUME NEW steps, StepsOf(steps), RelationsSteps \subseteq steps,
           RelationsInv(steps), NEW r \in Requests, RelationsStep(r)
    PROVE  RelationsInv(steps)' /\ RelationsAdvance
<1>1. KnowsRelation(r) /\ RelationsTableOK
  BY DEF RelationsInv
<1>2. {"ready", "respond"} \union HandlerSteps \subseteq steps \ SyncSteps
  BY DEF RelationsSteps, HandlerSteps, UsersSteps, SyncSteps
<1>3. UNCHANGED <<users, token, me>>
  BY DEF RelationsStep, CreateRelation, LoadStudent, InsertRelation, ArchiveRelation,
         WriteArchive, Respond
<1>4. /\ pc[r] \in steps \ SyncSteps
      /\ token[r].sub \in Persons /\ users[token[r].sub] # Null
  <2>1. pc[r] \in {"ready", "respond"} \union HandlerSteps
    BY DEF RelationsStep, CreateRelation, LoadStudent, InsertRelation, ArchiveRelation,
         WriteArchive, Respond, Enter, HandlerSteps
  <2> QED
    BY <1>2, <2>1, HandlersPerson
<1>5. UNCHANGED relations => RelationsTableAdvances
  BY <1>3, SameTableAdvances, SameRelationsAdvance DEF RelationsInv
<1>6. CASE CreateRelation(r)
  <2>1. PICK s \in Persons :
          /\ ask' = [ask EXCEPT ![r] = [op |-> "create_relation", student |-> s]]
          /\ Goto(r, IF s = token[r].sub THEN "bad_request"
                     ELSE IF RelationPair(relations, token[r].sub, s)
                     THEN "conflict"
                     ELSE "load_student")
    BY <1>6 DEF CreateRelation
  <2>2. PICK step \in {"bad_request", "conflict", "load_student"} :
          Goto(r, step) /\ (step = "load_student" => s # token[r].sub)
    BY <2>1
  <2>3. KnowsRelation(r)'
    <3>1. /\ ask'[r] = [op |-> "create_relation", student |-> s]
          /\ pc'[r] = step /\ token'[r] = token[r]
      BY <1>3, <2>1, <2>2, SessionReads
    <3> QED
      BY <2>2, <3>1 DEF KnowsRelation, SyncSteps
  <2>4. step \in Outcomes \union (steps \ SyncSteps)
    BY <1>2, <2>2 DEF Outcomes, HandlerSteps
  <2>5. UNCHANGED <<relations, seen>>
    BY <1>6 DEF CreateRelation
  <2> QED
    BY <1>3, <1>4, <1>5, <2>1, <2>2, <2>3, <2>4, <2>5, SessionReads, HandlerKeepsRelations
<1>7. CASE LoadStudent(r)
  <2>1. /\ pc[r] = "load_student" /\ UNCHANGED <<relations, ask, seen>>
    BY <1>7 DEF LoadStudent
  <2>2. PICK step \in {"not_found", "bad_request", "insert_relation"} :
          Goto(r, step) /\ (step = "insert_relation" => users[ask[r].student] # Null)
    BY <1>7 DEF LoadStudent
  <2>3. KnowsRelation(r)'
    BY <1>1, <1>3, <2>1, <2>2, SessionReads DEF KnowsRelation, SyncSteps
  <2>4. step \in Outcomes \union (steps \ SyncSteps)
    BY <1>2, <2>2 DEF Outcomes, HandlerSteps
  <2> QED
    BY <1>3, <1>4, <1>5, <2>1, <2>2, <2>3, <2>4, SessionReads, HandlerKeepsRelations
<1>8. CASE InsertRelation(r)
  <2> DEFINE row == [teacher |-> token[r].sub, student |-> ask[r].student,
                     status |-> "active"]
  <2>1. pc[r] = "insert_relation" /\ UNCHANGED <<ask, seen>>
    BY <1>8 DEF InsertRelation
  <2>2. /\ ask[r].op = "create_relation" /\ ask[r].student \in Persons
        /\ ask[r].student # token[r].sub /\ users[ask[r].student] # Null
    BY <1>1, <2>1 DEF KnowsRelation
  <2>3. PICK step \in {"server_error", "respond"} : Goto(r, step)
    BY <1>8 DEF InsertRelation
  <2>4. KnowsRelation(r)'
    BY <1>3, <2>1, <2>2, <2>3, SessionReads DEF KnowsRelation, SyncSteps
  <2>5. step \in Outcomes \union (steps \ SyncSteps)
    BY <1>2, <2>3 DEF Outcomes
  <2>6. RelationsTableAdvances
    <3>1. CASE UNCHANGED relations
      BY <1>5, <3>1
    <3>2. CASE /\ ~RelationPair(relations, token[r].sub, ask[r].student)
               /\ \E i \in RelationIds :
                    relations[i] = Null /\ relations' = [relations EXCEPT ![i] = row]
      <4>1. PICK i \in RelationIds :
                relations[i] = Null /\ relations' = [relations EXCEPT ![i] = row]
        BY <3>2
      <4>2. /\ row \in RelationRow /\ row # Null
            /\ row.teacher = token[r].sub /\ row.student = ask[r].student
        BY <1>4, <2>2, NullIsNoRelation DEF RelationRow
      <4>3. /\ RelationsTableOK' /\ relations'[i] = row
            /\ \A j \in RelationIds \ {i} : relations'[j] = relations[j]
        BY <1>1, <4>1, <4>2 DEF RelationsTableOK
      <4>4. RelationsAdvance
        BY <4>1, <4>3 DEF RelationsAdvance
      <4>5. PairUnique'
        BY <3>2, <4>2, <4>3 DEF RelationsInv, PairUnique, OneRowPerPair, RelationPair
      <4>6. ParticipantsKnown'
        BY <1>3, <1>4, <2>2, <4>2, <4>3
           DEF RelationsInv, ParticipantsKnown, ParticipantsInTable
      <4> QED
        BY <4>3, <4>4, <4>5, <4>6 DEF RelationsTableAdvances
    <3> QED
      BY <1>8, <3>1, <3>2 DEF InsertRelation
  <2> QED
    BY <1>3, <1>4, <2>1, <2>3, <2>4, <2>5, <2>6, SessionReads, HandlerKeepsRelations
<1>9. CASE ArchiveRelation(r)
  <2>1. PICK i \in RelationIds :
          /\ ask' = [ask EXCEPT ![r] = [op |-> "archive", relation |-> i]]
          /\ seen' = [seen EXCEPT ![r] = relations[i]]
          /\ Goto(r, IF relations[i] = Null THEN "not_found"
                     ELSE IF token[r].sub \notin
                            {relations[i].teacher, relations[i].student}
                     THEN "forbidden"
                     ELSE "write_archive")
    BY <1>9 DEF ArchiveRelation
  <2>2. PICK step \in {"not_found", "forbidden", "write_archive"} :
          Goto(r, step) /\ (step = "write_archive" => relations[i] # Null)
    BY <2>1
  <2>3. UNCHANGED relations /\ relations[i] \in RelationRow \union {Null}
    BY <1>1, <1>9 DEF ArchiveRelation, RelationsTableOK
  <2>4. KnowsRelation(r)'
    <3>1. /\ ask'[r] = [op |-> "archive", relation |-> i]
          /\ seen'[r] = relations[i] /\ pc'[r] = step
      BY <2>1, <2>2, SessionReads
    <3> QED
      BY <2>2, <2>3, <3>1 DEF KnowsRelation, SyncSteps
  <2>5. step \in Outcomes \union (steps \ SyncSteps)
    BY <1>2, <2>2 DEF Outcomes, HandlerSteps
  <2> QED
    BY <1>3, <1>4, <1>5, <2>1, <2>2, <2>3, <2>4, <2>5, HandlerKeepsRelations
<1>10. CASE WriteArchive(r)
  <2> DEFINE i == ask[r].relation
  <2>1. pc[r] = "write_archive" /\ Goto(r, "respond") /\ UNCHANGED <<ask, seen>>
    BY <1>10 DEF WriteArchive
  <2>2. /\ i \in RelationIds /\ relations[i] \in RelationRow /\ relations[i] # Null
        /\ seen[r].status = "archived" => relations[i].status = "archived"
    BY <1>1, <2>1 DEF KnowsRelation, RelationsTableOK
  <2>3. \/ UNCHANGED relations /\ relations[i].status = "archived"
        \/ relations' = [relations EXCEPT ![i].status = "archived"]
    BY <1>10, <2>2 DEF WriteArchive
  <2>4. /\ RelationsTableOK'
        /\ \A j \in RelationIds \ {i} : relations'[j] = relations[j]
        /\ relations'[i] \in RelationRow
        /\ relations'[i].teacher = relations[i].teacher
        /\ relations'[i].student = relations[i].student
        /\ relations'[i].status = "archived"
    <3>1. CASE UNCHANGED relations /\ relations[i].status = "archived"
      BY <1>1, <2>2, <3>1 DEF RelationsTableOK
    <3>2. CASE relations' = [relations EXCEPT ![i].status = "archived"]
      BY <1>1, <2>2, <3>2 DEF RelationsTableOK, RelationRow
    <3> QED
      BY <2>3, <3>1, <3>2
  <2>5. relations'[i] # Null
    BY <2>4, NullIsNoRelation
  <2> HIDE DEF i
  <2>6. RelationsAdvance
    BY <2>4, <2>5 DEF RelationsAdvance
  <2>7. PairUnique'
    BY <2>2, <2>4 DEF RelationsInv, PairUnique, OneRowPerPair
  <2>8. ParticipantsKnown'
    BY <1>3, <2>2, <2>4 DEF RelationsInv, ParticipantsKnown, ParticipantsInTable
  <2>9. KnowsRelation(r)'
    BY <2>1, <2>2, <2>4, <2>5, SessionReads DEF KnowsRelation, SyncSteps, i
  <2> QED
    BY <1>2, <1>3, <1>4, <2>1, <2>4, <2>6, <2>7, <2>8, <2>9, SessionReads,
       HandlerKeepsRelations DEF RelationsTableAdvances
<1>11. CASE Respond(r)
  <2>1. /\ pc[r] = "respond" /\ Goto(r, "ok") /\ UNCHANGED <<relations, ask, seen>>
        /\ "ok" \in Outcomes
    BY <1>11 DEF Respond, Outcomes
  <2>2. /\ ask' = [ask EXCEPT ![r] = ask[r]] /\ seen' = [seen EXCEPT ![r] = seen[r]]
        /\ pc'[r] = "ok"
    BY <2>1, SessionReads
  <2>3. KnowsRelation(r)'
    BY <1>1, <2>1, <2>2 DEF KnowsRelation, SyncSteps
  <2> QED
    BY <1>3, <1>4, <1>5, <2>1, <2>2, <2>3, HandlerKeepsRelations
<1> QED
  BY <1>6, <1>7, <1>8, <1>9, <1>10, <1>11 DEF RelationsStep

\* Initially the tables are the ones given and no request knows anything.
LEMMA InitHasRelations ==
    ASSUME NEW steps, "idle" \notin steps, RelationsInit
    PROVE  RelationsInv(steps)
<1>1. AccountsInv(steps)
  BY InitHasAccounts DEF RelationsInit
<1>2. RelationsTableOK /\ PairUnique /\ ParticipantsKnown
  BY InitialRelationsAreLegal
     DEF RelationsInit, UsersInit, RelationsTableOK, PairUnique, ParticipantsKnown
<1>3. SessionFunctions /\ \A r \in Requests : KnowsRelation(r)
  BY DEF RelationsInit, UsersInit, SessionInit, SessionFunctions, KnowsRelation
<1> QED
  BY <1>1, <1>2, <1>3 DEF RelationsInv

\* The invariant is about no other variable.
LEMMA StutterKeepsRelations ==
    ASSUME NEW steps, RelationsInv(steps), UNCHANGED relationsVars
    PROVE  RelationsInv(steps)' /\ RelationsAdvance
<1> USE DEF relationsVars, usersVars, sessionVars
<1>1. AccountsInv(steps)' /\ TableAdvances
  BY StutterKeepsAccounts, SameTableAdvances DEF RelationsInv
<1>2. RelationsTableAdvances
  BY <1>1, SameRelationsAdvance
<1>3. SessionFunctions' /\ \A r \in Requests : KnowsRelation(r)'
  BY DEF RelationsInv, SessionFunctions, KnowsRelation
<1> QED
  BY <1>1, <1>2, <1>3 DEF RelationsInv, RelationsTableAdvances

-----------------------------------------------------------------------------
\* The steps of this composition are none of the answers.
LEMMA RelationsStepsAreSteps == StepsOf(RelationsSteps)
BY DEF StepsOf, RelationsSteps, UsersSteps, SyncSteps, Outcomes

\* The invariant holds of any number of requests logging in, creating and
\* archiving at the same time, and every step of theirs advances the table.
LEMMA RelationsInvariant ==
    RelationsSpec => [](RelationsInv(RelationsSteps)) /\ [][RelationsAdvance]_relationsVars
<1>1. RelationsInit => RelationsInv(RelationsSteps)
  BY InitHasRelations, RelationsStepsAreSteps DEF StepsOf
<1>2. RelationsInv(RelationsSteps) /\ [RelationsNext]_relationsVars =>
        RelationsInv(RelationsSteps)' /\ RelationsAdvance
  <2> SUFFICES ASSUME RelationsInv(RelationsSteps), [RelationsNext]_relationsVars
               PROVE  RelationsInv(RelationsSteps)' /\ RelationsAdvance
    OBVIOUS
  <2>1. CASE RelationsNext
    <3>1. PICK r \in Requests : (UsersStep(r) /\ UNCHANGED relations) \/ RelationsStep(r)
      BY <2>1 DEF RelationsNext
    <3> QED
      BY <3>1, UsersStepKeepsRelations, RelationsStepKeepsRelations, RelationsStepsAreSteps
  <2>2. CASE UNCHANGED relationsVars
    BY <2>2, StutterKeepsRelations
  <2> QED
    BY <2>1, <2>2
<1> QED
  BY <1>1, <1>2, PTL DEF RelationsSpec

\* The tables and the in-flight requests keep their types.
THEOREM RelationsTyped == RelationsSpec => []RelationsTypeOK
<1>1. RelationsInv(RelationsSteps) => RelationsTypeOK
  BY DEF RelationsInv, RelationsTableOK, AccountsInv, KnowsRelation, RelationsTypeOK
<1> QED
  BY <1>1, RelationsInvariant, PTL

\* A pair has at most one relation row, however many creates race.
THEOREM RelationsPairUnique == RelationsSpec => []PairUnique
<1>1. RelationsInv(RelationsSteps) => PairUnique
  BY DEF RelationsInv
<1> QED
  BY <1>1, RelationsInvariant, PTL

\* Both people of a relation have accounts and are not the same person.
THEOREM RelationsParticipantsKnown == RelationsSpec => []ParticipantsKnown
<1>1. RelationsInv(RelationsSteps) => ParticipantsKnown
  BY DEF RelationsInv
<1> QED
  BY <1>1, RelationsInvariant, PTL

\* An archive that was answered has archived, and so it stays.
THEOREM RelationsArchivedWhenAnswered == RelationsSpec => []ArchivedWhenAnswered
<1>1. RelationsInv(RelationsSteps) => ArchivedWhenAnswered
  BY DEF RelationsInv, KnowsRelation, ArchivedWhenAnswered
<1> QED
  BY <1>1, RelationsInvariant, PTL

\* A relation keeps its pair, and an archived one is never opened again.
THEOREM RelationsArchiveIsFinal == RelationsSpec => ArchiveIsFinal
<1>1. [RelationsAdvance]_relationsVars => [RelationsAdvance]_relations
  BY DEF relationsVars
<1>2. RelationsSpec => [][RelationsAdvance]_relations
  BY <1>1, RelationsInvariant, PTL
<1> QED
  BY <1>2 DEF ArchiveIsFinal

-----------------------------------------------------------------------------
\* The relation endpoints implement the book of module Registry.
Joined == {p \in Persons : users[p] # Null}

\* The ways a step can change the two tables, as far as the book shows it.
NothingToTell ==
    Joined' = Joined /\ UNCHANGED relations

SomebodyJoins ==
    /\ \E p \in Persons \ Joined : Joined' = Joined \union {p}
    /\ UNCHANGED relations

PairOpens(i) ==
    /\ Joined' = Joined
    /\ relations[i] = Null
    /\ relations'[i] \in RelationRow /\ relations'[i].status = "active"
    /\ ~RelationPair(relations, relations'[i].teacher, relations'[i].student)
    /\ \A j \in RelationIds \ {i} : relations'[j] = relations[j]

PairCloses(i) ==
    /\ Joined' = Joined
    /\ relations[i] # Null /\ relations[i].status = "active"
    /\ relations' = [relations EXCEPT ![i].status = "archived"]

TellsTheBook ==
    \/ NothingToTell \/ SomebodyJoins
    \/ \E i \in RelationIds : PairOpens(i) \/ PairCloses(i)

-----------------------------------------------------------------------------
\* Synchronising a user writes at most that person's row, and no row goes.
LEMMA UsersStepTellsTheBook ==
    ASSUME NEW steps, StepsOf(steps), RelationsInv(steps), NEW r \in Requests,
           UsersStep(r), UNCHANGED relations
    PROVE  TellsTheBook
<1> DEFINE p == token[r].sub
<1>1. PICK row : UNCHANGED users \/ users' = [users EXCEPT ![p] = row]
  BY DEF UsersStep, RejectToken, RefuseRole, Authenticate, InsertUser, UpdateUser,
         RefreshUser, ReturnProfile, DbFail, Reply
<1>2. TableAdvances
  BY UsersStepKeepsAccounts DEF RelationsInv
<1>3. \A q \in Persons \ {p} : users'[q] = users[q]
  BY <1>1 DEF RelationsInv, AccountsInv, SessionTypeOK
<1>4. Joined' = Joined \/ (p \in Persons \ Joined /\ Joined' = Joined \union {p})
  BY <1>2, <1>3 DEF Joined, TableAdvances
<1> QED
  BY <1>4 DEF TellsTheBook, NothingToTell, SomebodyJoins

\* The writes of the relation endpoints open or close one pair.
LEMMA RelationsStepTellsTheBook ==
    ASSUME NEW steps, StepsOf(steps), RelationsSteps \subseteq steps,
           RelationsInv(steps), NEW r \in Requests, RelationsStep(r)
    PROVE  TellsTheBook
<1>1. UNCHANGED users /\ Joined' = Joined
  BY DEF RelationsStep, CreateRelation, LoadStudent, InsertRelation, ArchiveRelation,
         WriteArchive, Respond, Joined
<1>2. CASE UNCHANGED relations
  BY <1>1, <1>2 DEF TellsTheBook, NothingToTell
<1>3. CASE InsertRelation(r)
  <2> DEFINE row == [teacher |-> token[r].sub, student |-> ask[r].student,
                     status |-> "active"]
  <2>1. CASE \E i \in RelationIds :
                /\ relations[i] = Null
                /\ ~RelationPair(relations, token[r].sub, ask[r].student)
                /\ relations' = [relations EXCEPT ![i] = row]
    <3>1. PICK i \in RelationIds :
                /\ relations[i] = Null
                /\ ~RelationPair(relations, token[r].sub, ask[r].student)
                /\ relations' = [relations EXCEPT ![i] = row]
      BY <2>1
    <3>2. row \in RelationRow
      <4>1. pc[r] = "insert_relation"
        BY <1>3 DEF InsertRelation
      <4>2. ask[r].student \in Persons
        BY <4>1 DEF RelationsInv, KnowsRelation
      <4>3. token[r].sub \in Persons
        BY <4>1, HandlersPerson DEF RelationsSteps, UsersSteps, SyncSteps
      <4> QED
        BY <4>2, <4>3 DEF RelationRow
    <3>3. relations'[i] = row /\ \A j \in RelationIds \ {i} : relations'[j] = relations[j]
      BY <3>1 DEF RelationsInv, RelationsTableOK
    <3> QED
      BY <1>1, <3>1, <3>2, <3>3 DEF TellsTheBook, PairOpens
  <2> QED
    BY <1>2, <1>3, <2>1 DEF InsertRelation
<1>4. CASE WriteArchive(r)
  <2> DEFINE i == ask[r].relation
  <2>1. /\ i \in RelationIds /\ relations[i] \in RelationRow
        /\ seen[r].status = "archived" => relations[i].status = "archived"
    BY <1>4 DEF WriteArchive, RelationsInv, KnowsRelation, RelationsTableOK
  <2>2. CASE relations[i].status = "archived"
    <3>1. UNCHANGED relations
      BY <1>4, <2>1, <2>2 DEF WriteArchive, RelationsInv, RelationsTableOK, RelationRow
    <3> QED
      BY <1>2, <3>1
  <2>3. CASE relations[i].status = "active"
    BY <1>1, <1>4, <2>1, <2>3, NullIsNoRelation
       DEF WriteArchive, TellsTheBook, PairCloses
  <2> QED
    BY <2>1, <2>2, <2>3 DEF RelationRow
<1> QED
  BY <1>2, <1>3, <1>4 DEF RelationsStep, CreateRelation, LoadStudent, ArchiveRelation, Respond

-----------------------------------------------------------------------------
\* The pairs in the book are those of the rows.
LEMMA InPairs ==
    ASSUME NEW status, NEW pair
    PROVE  pair \in PairsWith(status) <=>
            \E i \in RelationIds :
                /\ relations[i] # Null /\ relations[i].status = status
                /\ pair = <<relations[i].teacher, relations[i].student>>
BY DEF PairsWith

LEMMA InPairsNext ==
    ASSUME NEW status, NEW pair
    PROVE  pair \in PairsWith(status)' <=>
            \E i \in RelationIds :
                /\ relations'[i] # Null /\ relations'[i].status = status
                /\ pair = <<relations'[i].teacher, relations'[i].student>>
BY DEF PairsWith

\* Opening adds a pair that was in neither set, closing moves one.
LEMMA OpenedPair ==
    ASSUME NEW i \in RelationIds, PairOpens(i)
    PROVE  LET pair == <<relations'[i].teacher, relations'[i].student>> IN
           /\ PairsWith("archived")' = PairsWith("archived")
           /\ PairsWith("active")' = PairsWith("active") \union {pair}
           /\ pair \notin PairsWith("active") \union PairsWith("archived")
<1> DEFINE pair == <<relations'[i].teacher, relations'[i].student>>
<1>1. /\ relations[i] = Null
      /\ relations'[i] # Null /\ relations'[i].status = "active"
      /\ \A j \in RelationIds \ {i} : relations'[j] = relations[j]
  BY NullIsNoRelation DEF PairOpens
<1>2. PairsWith("archived")' = PairsWith("archived")
  <2>1. ASSUME NEW x PROVE x \in PairsWith("archived")' <=> x \in PairsWith("archived")
    BY <1>1, InPairs, InPairsNext
  <2> QED
    BY <2>1
<1>3. PairsWith("active")' = PairsWith("active") \union {pair}
  <2>1. ASSUME NEW x
        PROVE  x \in PairsWith("active")' <=> x \in PairsWith("active") \/ x = pair
    BY <1>1, InPairs, InPairsNext
  <2> QED
    BY <2>1
<1>4. ASSUME NEW status PROVE pair \notin PairsWith(status)
  BY InPairs DEF PairOpens, RelationPair
<1> QED
  BY <1>2, <1>3, <1>4

LEMMA ClosedPair ==
    ASSUME RelationsTableOK, PairUnique, NEW i \in RelationIds, PairCloses(i)
    PROVE  LET pair == <<relations[i].teacher, relations[i].student>> IN
           /\ PairsWith("archived")' = PairsWith("archived") \union {pair}
           /\ PairsWith("active")' = PairsWith("active") \ {pair}
           /\ pair \in PairsWith("active")
<1> DEFINE pair == <<relations[i].teacher, relations[i].student>>
<1>1. /\ relations[i] # Null /\ relations[i].status = "active"
      /\ relations'[i] # Null /\ relations'[i].status = "archived"
      /\ pair = <<relations'[i].teacher, relations'[i].student>>
      /\ \A j \in RelationIds \ {i} : relations'[j] = relations[j]
  BY NullIsNoRelation DEF PairCloses, RelationsTableOK, RelationRow
<1>2. PairsWith("archived")' = PairsWith("archived") \union {pair}
  <2>1. ASSUME NEW x
        PROVE  x \in PairsWith("archived")' <=> x \in PairsWith("archived") \/ x = pair
    BY <1>1, InPairs, InPairsNext
  <2> QED
    BY <2>1
<1>3. PairsWith("active")' = PairsWith("active") \ {pair}
  <2>1. ASSUME NEW j \in RelationIds, relations[j] # Null,
               pair = <<relations[j].teacher, relations[j].student>>
        PROVE  j = i
    BY <1>1, <2>1 DEF PairUnique, OneRowPerPair
  <2>2. ASSUME NEW x
        PROVE  x \in PairsWith("active")' <=> x \in PairsWith("active") /\ x # pair
    BY <1>1, <2>1, InPairs, InPairsNext
  <2> QED
    BY <2>2
<1>4. pair \in PairsWith("active")
  BY <1>1, InPairs
<1> QED
  BY <1>2, <1>3, <1>4

\* The pairs of the book are pairs of people in it, on one side each.
LEMMA BookIsLegal ==
    ASSUME RelationsTableOK, PairUnique, ParticipantsKnown
    PROVE  Book!Init
<1>1. ASSUME NEW status, NEW pair \in PairsWith(status)
      PROVE  pair \in Book!PairsOfPeople
  <2>1. PICK i \in RelationIds :
                /\ relations[i] # Null
                /\ pair = <<relations[i].teacher, relations[i].student>>
    BY <1>1, InPairs
  <2>2. relations[i].teacher \in Joined /\ relations[i].student \in Joined
    BY <2>1 DEF RelationsTableOK, RelationRow, ParticipantsKnown, ParticipantsInTable, Joined
  <2>3. relations[i].teacher # relations[i].student
    BY <2>1 DEF ParticipantsKnown, ParticipantsInTable
  <2> QED
    BY <2>1, <2>2, <2>3 DEF Book!PairsOfPeople, Joined
<1>2. PairsWith("active") \cap PairsWith("archived") = {}
  <2> SUFFICES ASSUME NEW pair \in PairsWith("active"), pair \in PairsWith("archived")
               PROVE  FALSE
    OBVIOUS
  <2>1. PICK i \in RelationIds :
                /\ relations[i] # Null /\ relations[i].status = "active"
                /\ pair = <<relations[i].teacher, relations[i].student>>
    BY InPairs
  <2>2. PICK j \in RelationIds :
                /\ relations[j] # Null /\ relations[j].status = "archived"
                /\ pair = <<relations[j].teacher, relations[j].student>>
    BY InPairs
  <2> QED
    BY <2>1, <2>2 DEF PairUnique, OneRowPerPair
<1> QED
  BY <1>1, <1>2 DEF Book!Init

\* What tells the book is a step of the book or leaves it as it is.
LEMMA BookStep ==
    ASSUME RelationsInv(RelationsSteps), RelationsInv(RelationsSteps)', TellsTheBook
    PROVE  [Book!Next]_(Book!book)
<1>1. CASE NothingToTell
  BY <1>1 DEF NothingToTell, Joined, PairsWith, Book!book
<1>2. CASE SomebodyJoins
  <2>1. UNCHANGED <<PairsWith("active"), PairsWith("archived")>>
    BY <1>2 DEF SomebodyJoins, PairsWith
  <2> QED
    BY <1>2, <2>1 DEF SomebodyJoins, Joined, Book!Next, Book!Join
<1>3. ASSUME NEW i \in RelationIds, PairOpens(i)
      PROVE  Book!Next
  <2> DEFINE pair == <<relations'[i].teacher, relations'[i].student>>
  <2>1. /\ PairsWith("archived")' = PairsWith("archived")
        /\ PairsWith("active")' = PairsWith("active") \union {pair}
        /\ pair \notin PairsWith("active") \union PairsWith("archived")
    BY <1>3, OpenedPair
  <2>2. pair \in Book!PairsOfPeople
    <3>1. relations'[i].teacher \in Joined' /\ relations'[i].student \in Joined'
      BY <1>3, NullIsNoRelation
         DEF PairOpens, RelationRow, RelationsInv, ParticipantsKnown, ParticipantsInTable, Joined
    <3>2. relations'[i].teacher # relations'[i].student
      BY <1>3, NullIsNoRelation
         DEF PairOpens, RelationsInv, ParticipantsKnown, ParticipantsInTable
    <3> QED
      BY <1>3, <3>1, <3>2 DEF PairOpens, Book!PairsOfPeople, Joined
  <2>3. Book!Open(pair)
    BY <1>3, <2>1 DEF PairOpens, Joined, Book!Open
  <2> QED
    BY <2>2, <2>3 DEF Book!Next
<1>4. ASSUME NEW i \in RelationIds, PairCloses(i)
      PROVE  Book!Next
  BY <1>4, ClosedPair DEF RelationsInv, PairCloses, Joined, Book!Next, Book!Close
<1> QED
  BY <1>1, <1>2, <1>3, <1>4 DEF TellsTheBook

-----------------------------------------------------------------------------
\* However requests interleave, the relation endpoints do to the tables what
\* the book allows: they implement module Registry.
THEOREM RelationsImplementRegistry == RelationsSpec => ImplementsRegistry
<1>1. RelationsInit => Book!Init
  <2> SUFFICES ASSUME RelationsInit PROVE Book!Init
    OBVIOUS
  <2>1. RelationsInv(RelationsSteps)
    BY InitHasRelations, RelationsStepsAreSteps DEF StepsOf
  <2> QED
    BY <2>1, BookIsLegal DEF RelationsInv
<1>2. RelationsInv(RelationsSteps) /\ RelationsInv(RelationsSteps)'
        /\ [RelationsNext]_relationsVars => [Book!Next]_(Book!book)
  <2> SUFFICES ASSUME RelationsInv(RelationsSteps), RelationsInv(RelationsSteps)',
                      [RelationsNext]_relationsVars
               PROVE  [Book!Next]_(Book!book)
    OBVIOUS
  <2>1. CASE UNCHANGED relationsVars
    BY <2>1, BookStep DEF relationsVars, usersVars, TellsTheBook, NothingToTell, Joined
  <2>2. CASE RelationsNext
    BY <2>2, BookStep, UsersStepTellsTheBook, RelationsStepTellsTheBook,
       RelationsStepsAreSteps DEF RelationsNext
  <2> QED
    BY <2>1, <2>2
<1>3. RelationsSpec => RelationsInit /\ [][RelationsNext]_relationsVars
  BY DEF RelationsSpec
<1> QED
  BY <1>1, <1>2, <1>3, RelationsInvariant, PTL DEF ImplementsRegistry, Book!Spec
=============================================================================
