------------------------------- MODULE Users -------------------------------
(***************************************************************************)
(* The life of one HTTP request up to its handler: the bearer token is     *)
(* decoded, the role guard of the endpoint runs, and the application user  *)
(* is loaded, created or brought in line with the token's claims.          *)
(*                                                                         *)
(* Every request owns one database session; under READ COMMITTED each of   *)
(* its statements sees the rows committed so far, and requests interleave  *)
(* at every await.  A step below is therefore one statement (or one flush  *)
(* and COMMIT) together with the pure code that follows it.                *)
(***************************************************************************)
EXTENDS TLC

CONSTANTS
    Requests,      \* slots for requests in progress
    Persons,       \* Keycloak subjects, the primary key of users
    Emails,
    Tokens,        \* the access tokens clients hold, decoded and validated
    Endpoints,     \* the endpoints clients call
    InitialUsers,  \* the users table at start
    Null           \* SQL NULL, an absent row, a Python None

VARIABLES
    users,   \* the users table
    pc,      \* where each request is
    token,   \* the decoded token of each request
    me,      \* the UserDAO the dependency handed to the handler
    ask,     \* the path and body parameters the handler works on
    seen     \* the ORM object in the request's identity map

sessionVars == <<pc, token, me, ask, seen>>
usersVars == <<users, sessionVars>>

-----------------------------------------------------------------------------
Teacher == "Teacher"
Student == "Student"
KeycloakRoles == {Teacher, Student}
\* Rows added by the migration for references to users that never logged in.
Legacy == "legacy"

UserRow == [email : Emails, role : KeycloakRoles \union {Legacy}]
Token == [sub : Persons, email : Emails, roles : SUBSET KeycloakRoles]

\* Email is UNIQUE in the users table.
DistinctEmails(table) ==
    \A p, q \in Persons :
        (p # q /\ table[p] # Null /\ table[q] # Null)
            => table[p].email # table[q].email

ASSUME NullIsNoValue ==
    /\ Null \notin Persons \union Emails \union UserRow \union Token
    /\ Null \notin KeycloakRoles \union {Legacy}

ASSUME TokensAreTokens == Tokens \subseteq Token

ASSUME InitialUsersAreLegal ==
    /\ InitialUsers \in [Persons -> UserRow \union {Null}]
    /\ DistinctEmails(InitialUsers)

\* What a response can be.  "db_error" is a statement or a connection that
\* failed, "server_error" an exception the code raises and nobody handles,
\* "response_error" a reply lost after the handler's work was committed.
Outcomes == {"ok", "unauthorized", "bad_request", "forbidden", "not_found",
             "conflict", "server_error", "db_error", "response_error"}
SyncSteps == {"insert_user", "update_user", "refresh_user"}
UsersSteps == SyncSteps \union {"ready"}

\* The types of the shared variables, for the steps of a whole composition.
SessionTypeOK(steps) ==
    /\ users \in [Persons -> UserRow \union {Null}]
    /\ pc \in [Requests -> {"idle"} \union Outcomes \union steps]
    /\ token \in [Requests -> Tokens \union {Null}]
    /\ me \in [Requests -> UserRow \union {Null}]
    /\ \A r \in Requests : pc[r] \in steps => token[r] # Null

UsersTypeOK == SessionTypeOK(UsersSteps)

SessionInit ==
    /\ pc = [r \in Requests |-> "idle"]
    /\ token = [r \in Requests |-> Null]
    /\ me = [r \in Requests |-> Null]
    /\ ask = [r \in Requests |-> Null]
    /\ seen = [r \in Requests |-> Null]

UsersInit == users = InitialUsers /\ SessionInit

-----------------------------------------------------------------------------
Goto(r, step) == pc' = [pc EXCEPT ![r] = step]

\* The role of a token: Teacher wins over Student, any other role is none.
RoleOf(t) ==
    IF Teacher \in t.roles THEN Teacher
    ELSE IF Student \in t.roles THEN Student ELSE Null

\* The columns of the users row the token's claims stand for.
Profile(t) == [email |-> t.email, role |-> RoleOf(t)]

EmailTaken(p, email) ==
    \E q \in Persons \ {p} : users[q] # Null /\ users[q].email = email

\* A token that does not validate is answered 401, a payload that is not a
\* user's 400; the database is not reached.
RejectToken(r) ==
    /\ pc[r] = "idle"
    /\ \E answer \in {"unauthorized", "bad_request"} : Goto(r, answer)
    /\ UNCHANGED <<users, token, me, ask, seen>>

\* get_teacher and get_student answer 403 before they touch the database.
RefuseRole(r) ==
    /\ pc[r] = "idle"
    /\ \E t \in Tokens :
        /\ t.roles # KeycloakRoles
        /\ token' = [token EXCEPT ![r] = t]
    /\ Goto(r, "forbidden")
    /\ UNCHANGED <<users, me, ask, seen>>

\* Mutant: a row with the token's email is taken to be in sync.
AuthenticateByEmail(r) ==
    /\ pc[r] = "idle"
    /\ \E t \in Tokens :
        /\ token' = [token EXCEPT ![r] = t]
        /\ me' = [me EXCEPT ![r] = users[t.sub]]
        /\ Goto(r, IF users[t.sub] = Null THEN "insert_user"
                   ELSE IF users[t.sub].email = t.email THEN "ready"
                   ELSE "update_user")
    /\ UNCHANGED <<users, ask, seen>>

\* Mutant: an account that exists is never synchronised.
AuthenticateKnown(r) ==
    /\ pc[r] = "idle"
    /\ \E t \in Tokens :
        /\ token' = [token EXCEPT ![r] = t]
        /\ me' = [me EXCEPT ![r] = users[t.sub]]
        /\ Goto(r, IF users[t.sub] = Null THEN "insert_user" ELSE "ready")
    /\ UNCHANGED <<users, ask, seen>>

\* SELECT the user by the token's subject and decide what the row needs.
Authenticate(r) ==
    /\ pc[r] = "idle"
    /\ \E t \in Tokens :
        /\ token' = [token EXCEPT ![r] = t]
        /\ me' = [me EXCEPT ![r] = users[t.sub]]
        /\ Goto(r, IF users[t.sub] = Null THEN "insert_user"
                   ELSE IF users[t.sub] = Profile(t) THEN "ready"
                   ELSE "update_user")
    /\ UNCHANGED <<users, ask, seen>>

\* Mutant: creation without the unique constraint on users.email.
InsertUserAnyEmail(r) ==
    /\ pc[r] = "insert_user"
    /\ LET p == token[r].sub IN
        IF users[p] # Null \/ RoleOf(token[r]) = Null
        THEN Goto(r, "server_error") /\ UNCHANGED users
        ELSE /\ users' = [users EXCEPT ![p] = Profile(token[r])]
             /\ Goto(r, "refresh_user")
    /\ UNCHANGED <<token, me, ask, seen>>

\* INSERT and COMMIT.  The primary key, the unique email and the NOT NULL role
\* make it fail with an IntegrityError that no handler maps.
InsertUser(r) ==
    /\ pc[r] = "insert_user"
    /\ LET p == token[r].sub IN
        IF \/ users[p] # Null
           \/ EmailTaken(p, token[r].email)
           \/ RoleOf(token[r]) = Null
        THEN Goto(r, "server_error") /\ UNCHANGED users
        ELSE /\ users' = [users EXCEPT ![p] = Profile(token[r])]
             /\ Goto(r, "refresh_user")
    /\ UNCHANGED <<token, me, ask, seen>>

\* The unit of work sends only the columns that differ from the object it
\* loaded: the others keep what the row holds by then.
Merge(row, loaded, new) ==
    [col \in DOMAIN row |->
        IF col \in DOMAIN new /\ new[col] # loaded[col]
        THEN new[col] ELSE row[col]]

\* UPDATE by primary key and COMMIT.
UpdateUser(r) ==
    /\ pc[r] = "update_user"
    /\ LET p == token[r].sub
           row == Merge(users[p], me[r], Profile(token[r]))
       IN IF row.role = Null \/ EmailTaken(p, row.email)
          THEN Goto(r, "server_error") /\ UNCHANGED users
          ELSE /\ users' = [users EXCEPT ![p] = row]
               /\ Goto(r, "refresh_user")
    /\ UNCHANGED <<token, me, ask, seen>>

\* refresh() after the commit reads the row again, whoever wrote it last.
RefreshUser(r) ==
    /\ pc[r] = "refresh_user"
    /\ me' = [me EXCEPT ![r] = users[token[r].sub]]
    /\ Goto(r, "ready")
    /\ UNCHANGED <<users, token, ask, seen>>

\* A statement fails: connection lost, timeout, pool exhausted.  get_db rolls
\* the session back, so whatever was not committed is gone.
DbFail(r) ==
    /\ pc[r] \notin {"idle"} \union Outcomes
    /\ Goto(r, "db_error")
    /\ UNCHANGED <<users, token, me, ask, seen>>

-----------------------------------------------------------------------------
\* The handler of an endpoint starts: its dependency let the token through.
Enter(r, endpoint, roles) ==
    /\ pc[r] = "ready"
    /\ endpoint \in Endpoints
    /\ roles \subseteq token[r].roles

\* GET /users/me
ReturnProfile(r) ==
    /\ Enter(r, "users/me", {})
    /\ Goto(r, "ok")
    /\ UNCHANGED <<users, token, me, ask, seen>>

\* The response is sent and the session is closed.
Reply(r) ==
    /\ pc[r] \in Outcomes
    /\ Goto(r, "idle")
    /\ token' = [token EXCEPT ![r] = Null]
    /\ me' = [me EXCEPT ![r] = Null]
    /\ ask' = [ask EXCEPT ![r] = Null]
    /\ seen' = [seen EXCEPT ![r] = Null]
    /\ UNCHANGED users

\* What a request does outside the handlers of the other modules.
UsersStep(r) ==
    \/ RejectToken(r) \/ RefuseRole(r) \/ Authenticate(r)
    \/ InsertUser(r) \/ UpdateUser(r) \/ RefreshUser(r)
    \/ ReturnProfile(r) \/ DbFail(r) \/ Reply(r)

UsersNext == \E r \in Requests : UsersStep(r)

UsersSpec == UsersInit /\ [][UsersNext]_usersVars

-----------------------------------------------------------------------------
\* Safety
\* Two accounts never share an email, however creations and email changes of
\* different people interleave (the UNIQUE constraint on users.email).
EmailUnique == DistinctEmails(users)

\* A handler runs only for a person whose row is in the table with one of the
\* two roles: the ids handlers write as foreign keys exist.
HandlerHasAccount ==
    \A r \in Requests :
        pc[r] = "ready" =>
            /\ users[token[r].sub] # Null
            /\ me[r] # Null
            /\ me[r].role \in KeycloakRoles

\* With one request at a time the handler is given exactly what the token
\* says, however the row looked before and whichever tokens came before it.
HandlerSeesToken ==
    \A r \in Requests :
        pc[r] = "ready" =>
            me[r] = Profile(token[r]) /\ users[token[r].sub] = me[r]

\* A person Keycloak knows by no application role is served, and is refused
\* only what needs a role, never answered with a server error
\* (tests/test_auth_integration.py: 403 on a homework, 200 on an upload).
RolelessIsServed ==
    \A r \in Requests :
        pc[r] = "server_error" => token[r] = Null \/ token[r].roles # {}
=============================================================================
