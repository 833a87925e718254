---------------------------- MODULE UsersProofs ----------------------------
(***************************************************************************)
(* Type correctness of the session, uniqueness of emails and the account   *)
(* every handler may count on, for any number of requests and tokens.      *)
(*                                                                         *)
(* The lemmas are stated for the steps of any composition, so that the     *)
(* modules with the handlers use them as they are.                         *)
(***************************************************************************)
EXTENDS Users, TLAPS

\* A set of steps a composition may have: the ones of this module and others,
\* none of them the name of an answer.
StepsOf(steps) ==
    /\ UsersSteps \subseteq steps
    /\ steps \cap ({"idle"} \union Outcomes) = {}

\* What a request at its step knows of its person's row.
KnowsRow(r) ==
    /\ pc[r] \notin {"idle", "insert_user"} \union Outcomes =>
        users[token[r].sub] # Null
    /\ pc[r] = "update_user" =>
        /\ me[r] # Null
        /\ me[r].role \in KeycloakRoles =>
            users[token[r].sub].role \in KeycloakRoles
    /\ pc[r] = "refresh_user" => users[token[r].sub].role \in KeycloakRoles
    /\ pc[r] \notin {"idle"} \union Outcomes \union SyncSteps =>
        me[r] # Null /\ me[r].role \in KeycloakRoles

\* The inductive invariant.  A row once written stays, and its role once it is
\* one of the two stays one of the two: that is what carries KnowsRow(q) of
\* every other request q over the step of a request.
AccountsInv(steps) ==
    /\ SessionTypeOK(steps)
    /\ EmailUnique
    /\ \A r \in Requests : KnowsRow(r)

-----------------------------------------------------------------------------
\* What the claims of a token are.
LEMMA TokenFields ==
    ASSUME NEW t \in Tokens
    PROVE  /\ t.sub \in Persons /\ t.email \in Emails
           /\ RoleOf(t) \in KeycloakRoles \union {Null}
           /\ Profile(t).email = t.email /\ Profile(t).role = RoleOf(t)
           /\ RoleOf(t) # Null => Profile(t) \in UserRow
           /\ t # Null
<1>1. t \in Token
  BY TokensAreTokens
<1>2. t.sub \in Persons /\ t.email \in Emails /\ t # Null
  BY <1>1, NullIsNoValue DEF Token
<1>3. RoleOf(t) \in KeycloakRoles \union {Null}
  BY DEF RoleOf, KeycloakRoles
<1>4. Profile(t).email = t.email /\ Profile(t).role = RoleOf(t)
  BY DEF Profile
<1>5. RoleOf(t) # Null => Profile(t) \in UserRow
  BY <1>2, <1>3 DEF Profile, UserRow
<1> QED
  BY <1>2, <1>3, <1>4, <1>5

\* What the columns of a users row are.
LEMMA RowFields ==
    ASSUME NEW row \in UserRow
    PROVE  /\ row.email \in Emails
           /\ row.role \in KeycloakRoles \union {Legacy}
           /\ row.role # Null
           /\ row # Null
BY NullIsNoValue DEF UserRow

\* The row an UPDATE of the net changes leaves: every column is the row's own
\* or the token's.
LEMMA MergedRow ==
    ASSUME NEW row \in UserRow, NEW loaded \in UserRow, NEW t \in Tokens,
           Merge(row, loaded, Profile(t)).role # Null
    PROVE  /\ Merge(row, loaded, Profile(t)) \in UserRow
           /\ \/ Merge(row, loaded, Profile(t)).role = row.role
                 /\ RoleOf(t) = loaded.role
              \/ Merge(row, loaded, Profile(t)).role = RoleOf(t)
<1> DEFINE m == Merge(row, loaded, Profile(t))
<1>1. DOMAIN row = {"email", "role"} /\ DOMAIN Profile(t) = {"email", "role"}
  BY DEF UserRow, Profile
<1>2. /\ m.email = IF Profile(t).email # loaded.email
                   THEN Profile(t).email ELSE row.email
      /\ m.role = IF Profile(t).role # loaded.role
                  THEN Profile(t).role ELSE row.role
  BY <1>1 DEF Merge
<1>3. m.email \in Emails
  BY <1>2, TokenFields, RowFields
<1>4. \/ m.role = row.role /\ RoleOf(t) = loaded.role
      \/ m.role = RoleOf(t)
  BY <1>2, TokenFields
<1>5. m.role \in KeycloakRoles \union {Legacy}
  BY <1>4, TokenFields, RowFields
<1>6. m = [email |-> m.email, role |-> m.role]
  BY <1>1 DEF Merge
<1> QED
  BY <1>3, <1>4, <1>5, <1>6 DEF UserRow

-----------------------------------------------------------------------------
\* The users table only gains rows, and a role never goes back to legacy.
TableAdvances ==
    /\ users' \in [Persons -> UserRow \union {Null}]
    /\ DistinctEmails(users)'
    /\ \A p \in Persons :
        users[p] # Null =>
            /\ users'[p] # Null
            /\ users[p].role \in KeycloakRoles =>
                users'[p].role \in KeycloakRoles

\* A table with the same rows advances.
LEMMA SameTableAdvances ==
    ASSUME NEW steps, AccountsInv(steps), UNCHANGED users
    PROVE  TableAdvances
BY DEF AccountsInv, SessionTypeOK, EmailUnique, DistinctEmails, TableAdvances

\* A row with one of the two roles is written over an absent row or over one
\* it may replace, and nobody else has its email.
LEMMA WriteAdvances ==
    ASSUME NEW steps, AccountsInv(steps),
           NEW p \in Persons, NEW row \in UserRow,
           ~EmailTaken(p, row.email),
           users[p] # Null /\ users[p].role \in KeycloakRoles =>
                row.role \in KeycloakRoles,
           users' = [users EXCEPT ![p] = row]
    PROVE  TableAdvances
<1>1. users \in [Persons -> UserRow \union {Null}]
  BY DEF AccountsInv, SessionTypeOK
<1>2. /\ users' \in [Persons -> UserRow \union {Null}]
      /\ users'[p] = row
      /\ \A q \in Persons \ {p} : users'[q] = users[q]
  BY <1>1
<1>3. DistinctEmails(users)'
  BY <1>2 DEF AccountsInv, EmailUnique, DistinctEmails, EmailTaken
<1>4. row # Null
  BY RowFields
<1> QED
  BY <1>2, <1>3, <1>4 DEF TableAdvances

\* The other requests keep what they know while the table advances.
LEMMA OthersKeepKnowing ==
    ASSUME NEW steps, StepsOf(steps), AccountsInv(steps), TableAdvances,
           NEW q \in Requests,
           pc'[q] = pc[q], token'[q] = token[q], me'[q] = me[q]
    PROVE  KnowsRow(q)'
<1>1. KnowsRow(q)
  BY DEF AccountsInv
<1>2. pc[q] \in {"idle"} \union Outcomes \union steps
  BY DEF AccountsInv, SessionTypeOK
<1>3. pc[q] \in steps => token[q].sub \in Persons
  BY TokenFields DEF AccountsInv, SessionTypeOK
<1> QED
  BY <1>1, <1>2, <1>3 DEF KnowsRow, TableAdvances, SyncSteps, Outcomes

\* A step of request r preserves the invariant when it leaves the session of r
\* well typed and r knows its row afterwards.
LEMMA StepKeepsAccounts ==
    ASSUME NEW steps, StepsOf(steps), AccountsInv(steps), TableAdvances,
           NEW r \in Requests,
           NEW step \in {"idle"} \union Outcomes \union steps,
           NEW t \in Tokens \union {Null}, NEW row \in UserRow \union {Null},
           pc' = [pc EXCEPT ![r] = step],
           token' = [token EXCEPT ![r] = t],
           me' = [me EXCEPT ![r] = row],
           step \in steps => t # Null,
           KnowsRow(r)'
    PROVE  AccountsInv(steps)' /\ TableAdvances
<1>1. SessionTypeOK(steps)
  BY DEF AccountsInv
<1>2. SessionTypeOK(steps)'
  BY <1>1 DEF SessionTypeOK, TableAdvances
<1>3. EmailUnique'
  BY DEF EmailUnique, TableAdvances
<1>4. ASSUME NEW q \in Requests PROVE KnowsRow(q)'
  <2>1. CASE q = r
    BY <2>1
  <2>2. CASE q # r
    <3>1. pc'[q] = pc[q] /\ token'[q] = token[q] /\ me'[q] = me[q]
      BY <1>1, <2>2 DEF SessionTypeOK
    <3> QED
      BY <3>1, OthersKeepKnowing
  <2> QED
    BY <2>1, <2>2
<1> QED
  BY <1>2, <1>3, <1>4 DEF AccountsInv

\* A handler's step: it reads no token and writes no account.
LEMMA HandlerKeepsAccounts ==
    ASSUME NEW steps, StepsOf(steps), AccountsInv(steps),
           NEW r \in Requests, pc[r] \in steps \ SyncSteps,
           NEW step \in Outcomes \union (steps \ SyncSteps), Goto(r, step),
           UNCHANGED <<users, token, me>>
    PROVE  AccountsInv(steps)'
<1>1. SessionTypeOK(steps) /\ KnowsRow(r)
  BY DEF AccountsInv
<1>2. /\ token[r] \in Tokens \union {Null} /\ token[r] # Null
      /\ me[r] \in UserRow \union {Null}
      /\ token' = [token EXCEPT ![r] = token[r]]
      /\ me' = [me EXCEPT ![r] = me[r]]
      /\ pc' = [pc EXCEPT ![r] = step] /\ pc'[r] = step
  BY <1>1 DEF SessionTypeOK, Goto
<1>3. TableAdvances
  BY SameTableAdvances
<1>4. pc[r] \notin {"idle", "insert_user", "update_user", "refresh_user"} \union Outcomes
  BY DEF StepsOf, SyncSteps, Outcomes
<1>5. KnowsRow(r)'
  BY <1>1, <1>2, <1>4 DEF KnowsRow, SyncSteps, Outcomes
<1> QED
  BY <1>2, <1>3, <1>5, StepKeepsAccounts

-----------------------------------------------------------------------------
\* Every step of a request outside the handlers of the other modules preserves
\* the invariant.
LEMMA UsersStepKeepsAccounts ==
    ASSUME NEW steps, StepsOf(steps), AccountsInv(steps),
           NEW r \in Requests, UsersStep(r)
    PROVE  AccountsInv(steps)' /\ TableAdvances
<1>1. SessionTypeOK(steps) /\ KnowsRow(r)
  BY DEF AccountsInv
<1>2. /\ users \in [Persons -> UserRow \union {Null}]
      /\ token[r] \in Tokens \union {Null}
      /\ me[r] \in UserRow \union {Null}
      /\ token' = token => token' = [token EXCEPT ![r] = token[r]]
      /\ me' = me => me' = [me EXCEPT ![r] = me[r]]
      /\ \A step : Goto(r, step) => pc' = [pc EXCEPT ![r] = step] /\ pc'[r] = step
      /\ \A t : token' = [token EXCEPT ![r] = t] => token'[r] = t
      /\ \A row : me' = [me EXCEPT ![r] = row] => me'[r] = row
  BY <1>1 DEF SessionTypeOK, Goto
<1>3. UNCHANGED users => TableAdvances
  BY SameTableAdvances
<1>4. {"ready"} \union SyncSteps \subseteq steps
  BY DEF StepsOf, UsersSteps
<1>5. \A step \in Outcomes \union {"idle"} : step \notin steps
  BY DEF StepsOf
<1>6. CASE RejectToken(r)
  <2>1. PICK step \in {"unauthorized", "bad_request"} : Goto(r, step)
    BY <1>6 DEF RejectToken
  <2>2. step \in Outcomes /\ step \notin steps
    BY <1>5 DEF Outcomes
  <2>3. KnowsRow(r)'
    BY <1>2, <2>1, <2>2 DEF KnowsRow, Outcomes
  <2> QED
    BY <1>2, <1>3, <1>6, <2>1, <2>2, <2>3, StepKeepsAccounts DEF RejectToken
<1>7. CASE RefuseRole(r)
  <2>1. PICK t \in Tokens : token' = [token EXCEPT ![r] = t]
    BY <1>7 DEF RefuseRole
  <2>2. Goto(r, "forbidden") /\ "forbidden" \in Outcomes
    BY <1>7 DEF RefuseRole, Outcomes
  <2>3. KnowsRow(r)'
    BY <1>2, <2>2 DEF KnowsRow, Outcomes
  <2> QED
    BY <1>2, <1>3, <1>5, <1>7, <2>1, <2>2, <2>3, StepKeepsAccounts DEF RefuseRole
<1>8. CASE Authenticate(r)
  <2>1. PICK t \in Tokens :
          /\ token' = [token EXCEPT ![r] = t]
          /\ me' = [me EXCEPT ![r] = users[t.sub]]
          /\ Goto(r, IF users[t.sub] = Null THEN "insert_user"
                     ELSE IF users[t.sub] = Profile(t) THEN "ready"
                     ELSE "update_user")
    BY <1>8 DEF Authenticate
  <2> DEFINE step == IF users[t.sub] = Null THEN "insert_user"
                     ELSE IF users[t.sub] = Profile(t) THEN "ready"
                     ELSE "update_user"
  <2>2. step \in steps /\ step \in {"insert_user", "ready", "update_user"}
    BY <1>4 DEF SyncSteps
  <2>3. /\ users' = users /\ users[t.sub] \in UserRow \union {Null} /\ t # Null
        /\ token'[r] = t /\ me'[r] = users[t.sub] /\ pc'[r] = step
    BY <1>2, <1>8, <2>1, TokenFields DEF Authenticate
  <2>4. step = "ready" => users[t.sub] # Null /\ users[t.sub].role \in KeycloakRoles
    BY <2>3, TokenFields, RowFields
  <2>5. step = "update_user" => users[t.sub] # Null
    OBVIOUS
  <2>6. KnowsRow(r)'
    BY <2>2, <2>3, <2>4, <2>5 DEF KnowsRow, Outcomes, SyncSteps
  <2> HIDE DEF step
  <2> QED
    BY <1>2, <1>3, <2>1, <2>2, <2>3, <2>6, StepKeepsAccounts DEF step
<1>9. CASE InsertUser(r)
  <2> DEFINE p == token[r].sub
  <2>1. pc[r] = "insert_user" /\ token[r] # Null /\ UNCHANGED <<token, me>>
    BY <1>1, <1>4, <1>9 DEF InsertUser, SessionTypeOK, SyncSteps
  <2>2. p \in Persons
    BY <1>2, <2>1, TokenFields
  <2>3. CASE users[p] # Null \/ EmailTaken(p, token[r].email) \/ RoleOf(token[r]) = Null
    <3>1. Goto(r, "server_error") /\ UNCHANGED users
      BY <1>9, <2>3 DEF InsertUser
    <3>2. KnowsRow(r)' /\ "server_error" \in Outcomes
      BY <1>2, <3>1 DEF KnowsRow, Outcomes
    <3> QED
      BY <1>2, <1>3, <1>5, <2>1, <3>1, <3>2, StepKeepsAccounts
  <2>4. CASE ~(users[p] # Null \/ EmailTaken(p, token[r].email) \/ RoleOf(token[r]) = Null)
    <3>1. users' = [users EXCEPT ![p] = Profile(token[r])] /\ Goto(r, "refresh_user")
      BY <1>9, <2>4 DEF InsertUser
    <3>2. /\ Profile(token[r]) \in UserRow
          /\ Profile(token[r]).email = token[r].email
          /\ Profile(token[r]).role \in KeycloakRoles
      BY <1>2, <2>1, <2>4, TokenFields
    <3>3. TableAdvances
      BY <2>2, <2>4, <3>1, <3>2, WriteAdvances
    <3>4. users'[p] = Profile(token[r])
      BY <1>2, <2>2, <3>1
    <3>5. pc'[r] = "refresh_user" /\ token'[r] = token[r] /\ Profile(token[r]) # Null
      BY <1>2, <2>1, <3>1, <3>2, RowFields
    <3>6. KnowsRow(r)'
      BY <3>2, <3>4, <3>5 DEF KnowsRow, Outcomes, SyncSteps
    <3>7. "refresh_user" \in steps
      BY <1>4 DEF SyncSteps
    <3> QED
      BY <1>2, <2>1, <3>1, <3>3, <3>6, <3>7, StepKeepsAccounts
  <2> QED
    BY <2>3, <2>4
<1>10. CASE UpdateUser(r)
  <2> DEFINE p == token[r].sub
             row == Merge(users[p], me[r], Profile(token[r]))
  <2>1. pc[r] = "update_user" /\ token[r] # Null /\ UNCHANGED <<token, me>>
    BY <1>1, <1>4, <1>10 DEF UpdateUser, SessionTypeOK, SyncSteps
  <2>2. p \in Persons
    BY <1>2, <2>1, TokenFields
  <2>3. /\ users[p] \in UserRow /\ me[r] \in UserRow
        /\ users[p] # Null
        /\ me[r].role \in KeycloakRoles => users[p].role \in KeycloakRoles
    BY <1>1, <1>2, <2>1, <2>2 DEF KnowsRow, Outcomes
  <2>4. CASE row.role = Null \/ EmailTaken(p, row.email)
    <3>1. Goto(r, "server_error") /\ UNCHANGED users
      BY <1>10, <2>4 DEF UpdateUser
    <3>2. KnowsRow(r)' /\ "server_error" \in Outcomes
      BY <1>2, <3>1 DEF KnowsRow, Outcomes
    <3> QED
      BY <1>2, <1>3, <1>5, <2>1, <3>1, <3>2, StepKeepsAccounts
  <2>5. CASE ~(row.role = Null \/ EmailTaken(p, row.email))
    <3>1. users' = [users EXCEPT ![p] = row] /\ Goto(r, "refresh_user")
      BY <1>10, <2>5 DEF UpdateUser
    <3>2. /\ row \in UserRow /\ row # Null
          /\ \/ row.role = users[p].role /\ RoleOf(token[r]) = me[r].role
             \/ row.role = RoleOf(token[r])
      BY <1>2, <2>1, <2>3, <2>5, MergedRow, RowFields
    <3>3. row.role \in KeycloakRoles
      BY <1>2, <2>1, <2>3, <2>5, <3>2, TokenFields, RowFields
    <3>4. TableAdvances
      <4> HIDE DEF p, row
      <4> QED
        BY <2>2, <2>5, <3>1, <3>2, <3>3, WriteAdvances
    <3>5. /\ users'[p] = row
          /\ pc'[r] = "refresh_user" /\ token'[r] = token[r]
      BY <1>2, <2>1, <2>2, <3>1
    <3>6. KnowsRow(r)'
      BY <3>2, <3>3, <3>5 DEF KnowsRow, Outcomes, SyncSteps
    <3>7. "refresh_user" \in steps
      BY <1>4 DEF SyncSteps
    <3> QED
      BY <1>2, <2>1, <3>1, <3>4, <3>6, <3>7, StepKeepsAccounts
  <2> QED
    BY <2>4, <2>5
<1>11. CASE RefreshUser(r)
  <2> DEFINE p == token[r].sub
  <2>1. /\ pc[r] = "refresh_user" /\ token[r] # Null /\ UNCHANGED <<users, token>>
        /\ me' = [me EXCEPT ![r] = users[p]] /\ Goto(r, "ready")
    BY <1>1, <1>4, <1>11 DEF RefreshUser, SessionTypeOK, SyncSteps
  <2>2. p \in Persons
    BY <1>2, <2>1, TokenFields
  <2>3. users[p] # Null /\ users[p].role \in KeycloakRoles
    BY <1>1, <2>1 DEF KnowsRow, Outcomes
  <2>4. /\ pc'[r] = "ready" /\ token'[r] = token[r]
        /\ me'[r] = users[p] /\ users[p] \in UserRow \union {Null}
    BY <1>2, <2>1, <2>2
  <2>5. KnowsRow(r)'
    BY <2>1, <2>3, <2>4 DEF KnowsRow, Outcomes, SyncSteps
  <2>6. /\ "ready" \in steps /\ TableAdvances
        /\ pc' = [pc EXCEPT ![r] = "ready"]
        /\ token' = [token EXCEPT ![r] = token[r]]
    BY <1>2, <1>3, <1>4, <2>1
  <2> HIDE DEF p
  <2> QED
    BY <1>2, <2>1, <2>4, <2>5, <2>6, StepKeepsAccounts
<1>12. CASE ReturnProfile(r)
  <2>1. /\ pc[r] = "ready" /\ Goto(r, "ok")
        /\ UNCHANGED <<users, token, me>>
    BY <1>12 DEF ReturnProfile, Enter
  <2>2. pc[r] \in steps \ SyncSteps /\ "ok" \in Outcomes
    BY <1>4, <2>1 DEF SyncSteps, Outcomes
  <2> QED
    BY <1>3, <2>1, <2>2, HandlerKeepsAccounts
<1>13. CASE DbFail(r)
  <2>1. Goto(r, "db_error") /\ "db_error" \in Outcomes /\ UNCHANGED <<users, token, me>>
    BY <1>13 DEF DbFail, Outcomes
  <2>2. KnowsRow(r)'
    BY <1>2, <2>1 DEF KnowsRow, Outcomes
  <2> QED
    BY <1>2, <1>3, <1>5, <2>1, <2>2, StepKeepsAccounts
<1>14. CASE Reply(r)
  <2>1. /\ Goto(r, "idle") /\ UNCHANGED users
        /\ token' = [token EXCEPT ![r] = Null] /\ me' = [me EXCEPT ![r] = Null]
    BY <1>14 DEF Reply
  <2>2. KnowsRow(r)'
    BY <1>2, <2>1 DEF KnowsRow
  <2> QED
    BY <1>3, <1>5, <2>1, <2>2, StepKeepsAccounts DEF Goto
<1> QED
  BY <1>6, <1>7, <1>8, <1>9, <1>10, <1>11, <1>12, <1>13, <1>14 DEF UsersStep

\* Initially no request knows anything and the table is the one given.
LEMMA InitHasAccounts ==
    ASSUME NEW steps, UsersInit, "idle" \notin steps
    PROVE  AccountsInv(steps)
<1>1. SessionTypeOK(steps)
  BY InitialUsersAreLegal DEF UsersInit, SessionInit, SessionTypeOK
<1>2. EmailUnique
  BY InitialUsersAreLegal DEF UsersInit, EmailUnique
<1>3. \A r \in Requests : KnowsRow(r)
  BY DEF UsersInit, SessionInit, KnowsRow
<1> QED
  BY <1>1, <1>2, <1>3 DEF AccountsInv

\* Nothing but the session and the table is in the invariant.
LEMMA StutterKeepsAccounts ==
    ASSUME NEW steps, AccountsInv(steps), UNCHANGED <<users, pc, token, me>>
    PROVE  AccountsInv(steps)'
BY DEF AccountsInv, SessionTypeOK, EmailUnique, DistinctEmails, KnowsRow

-----------------------------------------------------------------------------
\* The module's own steps are the smallest composition.
LEMMA UsersStepsAreSteps == StepsOf(UsersSteps)
BY DEF StepsOf, UsersSteps, SyncSteps, Outcomes

\* The accounts invariant holds of any number of requests authenticating at
\* the same time.
THEOREM UsersAccounts == UsersSpec => []AccountsInv(UsersSteps)
<1>1. UsersInit => AccountsInv(UsersSteps)
  BY InitHasAccounts, UsersStepsAreSteps DEF StepsOf
<1>2. AccountsInv(UsersSteps) /\ [UsersNext]_usersVars => AccountsInv(UsersSteps)'
  <2> SUFFICES ASSUME AccountsInv(UsersSteps), [UsersNext]_usersVars
               PROVE  AccountsInv(UsersSteps)'
    OBVIOUS
  <2>1. CASE UsersNext
    BY <2>1, UsersStepKeepsAccounts, UsersStepsAreSteps DEF UsersNext
  <2>2. CASE UNCHANGED usersVars
    BY <2>2, StutterKeepsAccounts DEF usersVars, sessionVars
  <2> QED
    BY <2>1, <2>2
<1> QED
  BY <1>1, <1>2, PTL DEF UsersSpec

\* The variables keep their types, and a request past authentication has a
\* token.
THEOREM UsersTyped == UsersSpec => []UsersTypeOK
<1>1. AccountsInv(UsersSteps) => UsersTypeOK
  BY DEF AccountsInv, UsersTypeOK
<1> QED
  BY <1>1, UsersAccounts, PTL

\* Two accounts never share an email.
THEOREM UsersEmailUnique == UsersSpec => []EmailUnique
<1>1. AccountsInv(UsersSteps) => EmailUnique
  BY DEF AccountsInv
<1> QED
  BY <1>1, UsersAccounts, PTL

\* A handler runs only for a person with a row and one of the two roles.
THEOREM UsersHandlerHasAccount == UsersSpec => []HandlerHasAccount
<1>1. AccountsInv(UsersSteps) => HandlerHasAccount
  BY DEF AccountsInv, KnowsRow, HandlerHasAccount, Outcomes, SyncSteps
<1> QED
  BY <1>1, UsersAccounts, PTL
=============================================================================
