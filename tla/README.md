# A TLA+ model of the PDP backend

The backend (FastAPI, SQLAlchemy over PostgreSQL, Keycloak, S3) lets teachers
and students schedule lessons and exchange homework. Its state is four tables.
Every endpoint is a short sequence of SQL statements inside one session at
PostgreSQL's default isolation level, READ COMMITTED, and any number of
requests, in one process or several, interleave between those statements. The
unit tests replace the session by a fake and run one request at a time; this
project is about what happens between the statements, and about what surrounds
them: the processes that serve requests, and the deploy that changes schema and
code under a backend that is running.

Paths below are relative to the repository root.

## Inventory

| Component | Source | State | Operations |
|---|---|---|---|
| Authentication, user synchronisation | `src/auth.py`, `src/dependencies.py`, `src/services/users.py`, `src/routers/Users/` | table `users` | decode the token, role guard, load / create / update / refresh the row, `GET /users/me` |
| Relations | `src/services/relations.py`, `src/routers/Relations/` | table `teachers_students` | create, archive, lists, the guard `ensure_active_relation` |
| Lessons | `src/services/lessons.py`, `src/routers/Lessons/` | table `lessons` | create, update, soft-delete, list |
| Homework | `src/services/homework.py`, `src/routers/Homework/` | table `homeworks`, and `lessons.homework_id` | create and attach, update by role, soft-delete and unlink, list, detail |
| Constraints | `src/models.py` | | UNIQUE, NOT NULL, FOREIGN KEY, CHECK |
| Error answers, middleware | `src/app.py` | | which exception becomes which status; request id, log dump |
| Session, pool, semaphore | `src/database_control/postgres/db.py` | 150 permits, 50 + 100 connections | acquire, yield, close |
| Uploads | `src/routers/Files/`, `src/database_control/s3/db.py` | bucket objects | validate in chunks, store, presign |
| Startup | `src/startup.py` | the bucket | create the bucket if it is missing |
| Request log | `src/logger.py` | three context variables | append, bind, dump |
| Migrations | `alembic/versions/` | the schema and old rows | deduplicate, repair orphans, add constraints |
| Deployment | `scripts/` | containers | build, migrate, replace |

How they interact: every endpoint depends on the user synchronisation, which
commits on its own before the handler starts. Lessons and homework ask relations
for permission. Deleting a lesson writes the homework table, creating and
deleting homework write the lesson table. All of it goes through one session
per request; requests share the database and, inside one process, the semaphore
and the connection pool. A deploy migrates the tables under the running backend
and replaces it afterwards; the backend's container mounts the directory the
deploy pulls into.

What is hard: permission and duplicates are checked in one statement and relied
on in another; an ORM object read earlier keeps its first values even when the
code selects the row again (identity map); an UPDATE goes out by primary key and
carries only the columns that differ from that object; soft deletion means that
"gone" is a column, so a late write can meet a deleted row; a failure after a
commit leaves the work done and the answer lost; permits and connections must
come back on every way out of a request; an upgrade takes exclusive locks table
by table in a transaction that sees what the backend commits meanwhile.

What makes each component correct: one account per email and an account with a
role under every handler; one relation per pair, archived once and for ever; no
lesson for people who are not related, times in order, status transitions final;
no object in the bucket that its own bytes and size do not allow;
one live homework per live lesson, its fields written only by the people of that
lesson; deletions that last and that are complete when they are answered; no
permit lost, no request waiting for ever; legal rows after an upgrade, whatever
they were before and whoever wrote beside it, and no row lost.

## Modules

    Users <- Relations <- Lessons <- Homeworks <- Reads <- School     (EXTENDS)
                 |                                           |
              Registry                                   Classroom    (INSTANCE)
    Uploads                                                     (on its own)
    Server                                                      (on its own)
    Migrations <- Deployment
                  |
               Rollout                                          (INSTANCE)

    MCUsers MCRelations MCSchool MCUploads MCServer MCDeployment (instances for TLC)

    UsersProofs <- RelationsProofs <- SchoolProofs <- AuthorsProofs
                                           ^
                                      SerialProofs
    UploadsProofs
    ServerProofs
    DeploymentProofs

* **Users** - the request. `pc[r]` says which statement request slot `r` runs
  next, or what it was answered; `token` is the decoded token, `me` the
  `UserDAO` given to the handler, `ask` the parameters of the handler, `seen`
  the object in the identity map. `Authenticate` is the SELECT of
  `get_or_create_user_from_keycloak` with the comparison that follows;
  `InsertUser`, `UpdateUser` are flush and commit, with the constraints of the
  table as outcomes; `RefreshUser` reads the row back. `Merge` is the unit of
  work: new values for changed columns, the present row for the others.
  `DbFail` may end any request before any statement.
* **Relations** - `CreateRelation` (look-up of the pair), `LoadStudent`,
  `InsertRelation`; `ArchiveRelation`, `WriteArchive` (whose SELECT is answered
  by the identity map). `ActiveRelation` is the guard the other modules use.
* **Lessons** - `CreateLesson`, `InsertLesson`; `UpdateLesson`, `CheckUpdate`
  (relation of the student in the body, time range, transition), `RereadUpdate`
  (the second SELECT: a fresh WHERE, a stale object), `WriteUpdate`;
  `DeleteLesson`, `WriteLessonDelete`; `RefuseNullTime`, the body that makes the
  schema's own validator fail. The student in the body of an update is not a new
  value: `update_lesson` (`routers/Lessons/crud.py`) has a parameter of that
  name, which takes it out of the fields to set and makes it a filter of the
  second SELECT (`MatchesStudent`). An update that names another student with an
  active relation passes the check, finds no lesson and ends in `None.id`.
* **Homeworks** - `CreateHomework`, `CheckHomework`, `RereadLesson`,
  `InsertHomework`; `UpdateHomework`, `WriteHomework`; `DeleteHomework`,
  `LoadLinkedLesson`, `WriteHomeworkDelete`; `SerializeHomework`, whose reply
  may be lost after the commit.
* **Reads** - `ListRelations`, `ListLessons` and their filters in one statement;
  `ListHomeworks`, `GetHomework` and `LoadLessons`, the second statement of
  both, which follows `homework.lesson` without the filters of the first.
* **School** - all endpoints over all tables, and the properties that relate
  the tables.
* **Registry** - the abstract specification of the relation endpoints: a book
  of `people`, `open` and `closed` pairs, and three steps, `Join`, `Open`,
  `Close`. Every statement of every request of `Relations` is one of them or
  nothing, for any number of requests in progress.
* **Classroom** - the abstract specification of lessons and homework: pairs, a
  timetable, a homework per lesson, and one step per request. `School` with one
  request at a time implements it. It keeps no deleted rows, no link column and
  no loaded objects, and says what the endpoints mean: for instance that a lesson
  stays the lesson of its pair through every change, and that what is passed or
  cancelled may still move in time.
* **Uploads** - `POST /files/file_upload` after the user was let in. `job` holds
  the handler's local variables; `ReadChunk` is one turn of the loop (size, then
  sample and type, then spool), `EndOfFile` the empty chunk, `PutObject`,
  `PutFails` and `Presign` the calls to the storage. It shares no state with the
  tables, so it is a specification of its own.
* **Server** - the processes. `StartWorker`, `ListBuckets`, `CreateBucket`,
  `StorageFails` are the lifespan; `Crash` takes a process with its requests.
  A request passes the middleware and takes or queues for a permit (`Arrive`),
  takes a connection for a statement (`CheckOut`), returns it with a commit
  (`Commit`), leaves the handler (`Return`, `Raise`), is sent (`SendResponse`,
  which also dumps the log), and only then gives session and permit back
  (`CloseSession`). Errors go the other way round: the session is closed first,
  then `AnswerError` (a mapped exception, inside the middleware) or
  `AnswerCrash` (through the middleware to the last handler). `buffer` is the
  log context twice, as the middleware has it and as the copied one of the task.
* **Migrations** - `alembic upgrade head`. `Plan` is the sequence of statements
  of the three revisions; `at` the one the upgrade is at, `db` what is
  committed, `tx` what the upgrade sees, `barred` the locks it holds, `found`
  what its last SELECT returned. `ConvertTimestamps`, `ConvertId`,
  `RenewHomeworkKey` (each an `AlterTable`), `CreateForeignKey`, `CreateUnique`,
  `AddColumns`, `AddChecks` change the schema if the inspector does not find the
  change made; an exclusive lock waits for readers and makes
  new ones wait behind it. The backend that is still running is an open
  transaction that reads tables in any order (`ReadTable`, `EndTransaction`)
  and rows inserted by others (`LogIn`, `AddLink`, `AddLesson`).
* **Deployment** - `scripts/deploy-backend.sh` around that upgrade: `Pull`,
  `Build`, `Migrate`, `MigrateReturns`, `RemovePrevious`, `StartBackend`, each
  with the failures `set -e` turns into an exit; `BackendRestarts` for the
  container's restart policy, which runs whatever code lies in the mounted
  directory; `Redeploy`, `DowngradeByHand`.
* **Rollout** - the abstract specification of the upgrade: people, relations,
  lessons and whether they are migrated; `Join`, `AddLink`, `AddLesson` for what
  others commit, `Migrate` and `Downgrade`, each in one step. `Migrate` says
  what becomes of every row as a function of the committed rows alone, and that
  it waits for keys that repeat to go. No statement, lock, view or failure of
  `Migrations` and no step of the script shows in it but the commit.

In the modules of the tables a step is one SQL statement, or one flush and
COMMIT, with the pure code after it. A commit is one step because its writes
become visible together; the reads before it are steps of their own because
others commit between them. What is refused before the database is reached (an
invalid token, a missing role) is one step without effect. A body that the
schemas answer with 400 changes nothing and is not entered, so the inputs are
the bodies that pass (`BodiesPassSchema`). The constant `Endpoints` selects
which endpoints clients call in a run.

`Server` sees the same requests from outside: which statements they run is
irrelevant there, when they hold a permit or a connection is not.

### Abstractions

* `name` and `surname` are claims like `email` and `role` and are left out; a
  token without any name, which `users.name NOT NULL` would refuse, with them.
* `archived_at`, `created_at`, `updated_at` follow the columns they go with and
  are left out; so are theme and description, the order of a list, indexes.
* The student's fields of a homework (answer, sent files) are one column,
  `answer`, holding who wrote it; the teacher's are `brief`. Which contents were
  written is not modelled, by whom is.
* Times are numbers already in UTC. An unset field is `Null`, an explicit JSON
  null `JsonNull`.
* A new id is any unused one: that ids grow is not used by the endpoints. The
  upgrade does use it, to keep the oldest of several rows, so ids are numbers
  there.
* Tokens are decoded and validated; their signature is Keycloak's business.
* A byte of an upload is one of a few symbols; the four signatures of the code
  are any function from types to patterns with gaps, subject to
  `SignaturesAreDistinct`. Characters are of one byte or of two (`Lead`,
  `Cont`); those that do not print are of one (`Control`). The 95 % of printable
  characters are the constants `Printable` of `Of`, any ratio in the proofs and
  one half in the run: of the 3 bytes of its samples 95 % would be all. Keys
  end in 8 random hex digits and are taken to be new.
* A request of `Server` commits at most twice and reads after each commit, which
  is what the synchronisation and any handler do.
* Rows of `homeworks` are left out of `Migrations`, which never touches them.

## Runs

| Run | Bounds | Question and properties |
|---|---|---|
| RelationsConcurrent | 2 requests, 3 people, 6 tokens, 2 relation rows; one person holds tokens of both roles, some tokens share an email | creation and archiving against each other and against first logins and changed claims: `EmailUnique`, `HandlerHasAccount`, `PairUnique`, `ParticipantsKnown`, `ArchivedWhenAnswered`, `ArchiveIsFinal`, `ImplementsRegistry` |
| LessonsConcurrent | 2 requests, one teacher, two students, 2 lessons, 1 homework, 2 relations of which one is not yet made; patches that name either student or null, one with a status | lessons against relations and against each other: `LessonPairRelated`, `DeletionIsFinal` |
| HomeworksConcurrent | 2 requests, a teacher and two students with a lesson each, one of whom logs in as a student and as a teacher by turns; 2 homeworks; create, update, delete and read homework, delete and list lessons | homework against lessons and roles: `HomeworkLinkedOnce`, `AuthorsOwn`, `RepliesOwn`, `DeletedWhenAnswered` |
| SchoolSerial | 1 request, all writing endpoints, all bodies and patches over 3 times, tokens that change, 1 lesson, 2 homeworks | what every sequence of whole requests keeps: `HandlerSeesToken`, `TimesOrdered`, `HomeworkLivesWithLesson`, `ServerErrorsExplained`, `ImplementsClassroom` (which says more than `StatusTransitions`: a status only changes as allowed) |
| Uploads | 2 uploads, 24 files around the chunk (2), sample (3) and size (5) boundaries, 4 declared types, storage failures | what gets into the bucket, what is refused and answered: `BucketIsClean`, `AnswerMatchesObject`, `RefusalsExplained`, `EveryUploadAnswered` |
| Server | 2 processes of 2 permits and 2 connections, 3 requests, one crash or storage error | what a process owes its requests: `PermitsConserved`, `PoolNeverExhausted`, `AnswersAreLogged`, `EveryRequestAnswered`, `EveryWorkerServes` |
| Deployment | a fresh database, an unstamped one, and first-revision ones with up to two links or two lessons, with orphans, duplicates and a relation of a person with themselves; 2 people, one row inserted beside the upgrade; repeated deploys | what a deploy does to rows and service: `MigratedIsLegal`, `FailureExplained`, `DownOnlyWhenMigrated`, `NothingLost`, `UpgradeEnds`, `ImplementsRollout` |
| UsersRoleless, StatusLostUpdate, HomeworkOrphan, MigrationDuplicates, DeployOrder | as above, 1 or 2 requests | five statements of the repository that the code breaks, see below |

The first four, `Uploads`, `Server` and `Deployment` also check the type
invariant of what they run.

**Why the bounds are enough.** Two requests in progress are what every hazard
of the tables in `PROJECT.json` needs: one request between two statements of
another. A slot is reused after `Reply`, so a run is an unbounded sequence of
requests with at most two overlapping. Rows are bounded by the ids: when none is
left an insert waits, which only `DbFail` ends; two lessons and two homeworks are
what a recycled or overwritten link needs, three times what a write skew needs
(1 < 2 < 3). The token sets are bounded to those that differ in what the code
compares. In `Server` three requests are one more than a process has permits,
so that one waits, and the pool is as small as the semaphore, the tightest it
may be; one fault shows what a death leaves behind in the queue and the race of
two startups. In `Deployment` duplicates need two rows, orphans one missing
person, and the interference that matters is one insert between a SELECT and
what relies on it. Deploys repeat without a bound. Symmetry over request slots
and row ids is used in safety runs only, where no definition tells them apart;
the runs with liveness use none. The initial tables are ones the endpoints, or
earlier revisions, can produce, with a row of a migration (`legacy` role) in
the user runs.

**One request at a time.** The runs named ...Concurrent hold for any
interleaving. `SchoolSerial` states what needs one request at a time: there no
check is separated from its write, an unhandled error has one of four causes,
a live homework hangs on a live lesson, and the whole is `Classroom`. The causes
are those of `ServerErrorsExplained`: a token without a role, an email that is
somebody else's, a time given as null, and an update that names a student who is
not the lesson's. The last two are defects of the code that one request shows
(`src/src/schemas.py:77`, `src/src/services/lessons.py:200`); no line of the
repository says what such an update is answered. Most of
this fails as soon as two requests overlap: two runs below show it for the
status and for the homework, `TimesOrdered` breaks in the same way (one update
moves the start, the other the end), and so does `HomeworkLivesWithLesson`
(homework attached to a lesson that is being deleted).

A lesson can also be inserted after its relation was archived, if the archive
commits between the check and the insert. That is not counted against the code:
the outcome is the one of archiving right after. `LessonPairRelated` is what
remains true then.

### What the repository says otherwise

| Run | What happens |
|---|---|
| UsersRoleless | a valid token without either application role is answered 500, since the row is written with no role before any handler decides; the tests expect 403 and 200 |
| StatusLostUpdate | two updates both read `active`; one commits `passed`, the other then `cancelled` |
| HomeworkOrphan | two creations both attach a homework to one lesson; the first is live and unreachable |
| MigrationDuplicates | the DELETE that removes rows sharing a key is a statement PostgreSQL refuses, so the upgrade fails on the databases it was written for |
| DeployOrder | a process that dies between pull and migration comes back with the new code on the old schema |

`findings` in `PROJECT.json` quotes the lines.

What the runs that pass cannot say is as telling. `Uploads` cannot say that every
text is accepted: a UTF-8 text whose 4096th byte begins a character is refused,
because the sample is decoded on its own, and so is a text with few unprintable
characters of which too many are among its first 4096 bytes; `RefusalsExplained`
states this exception (`Misjudged`) and that it is the only one. Nor can it say that
failed uploads leave nothing: an object stays when the answer of the storage is
lost or signing fails. `AnswersAreLogged` says that nothing a handler records is
printed with its request: the middleware starts the handler with a copy of
its context, and dumps its own. `HandlerSeesToken` allows the handler another
token's profile only where requests overlap.

### Fairness and deadlock

The specifications of the tables state no fairness; their properties are safety
properties. `Reply` is always possible after an answer and `DbFail` before one,
so deadlock is checked too.

* `Server`: weak fairness of the steps of each process and of each request. A
  process that is down is started again (`restart: always`), the event loop
  resumes every coroutine that can go on, and SQL statements and storage calls
  return or raise. Nothing is assumed of clients or of the order of waiters:
  that nobody starves is due to the queue. A crash or storage error is bounded
  by `MaxFaults`, as no promise of liveness survives a process that always dies.
* `Deployment`: weak fairness of the upgrade's next statement, of the end of a
  transaction that waits for nothing, and of PostgreSQL's deadlock detector. The
  script and the people around it may stop anywhere.
* `Uploads`: weak fairness of each handler that was begun, for the same reason
  as in `Server`. Each upload happens once, so that run ends in states without
  successors and is the only one that does not check deadlock.

## Proofs

The theorems listed in `PROJECT.json` hold for every set of people, tokens,
requests, ids, files, processes and numbers that satisfies the assumptions.
They state every invariant and action property the passing runs check, and the
refinements `ImplementsRegistry`, `ImplementsClassroom` and `ImplementsRollout`.

**The tables, any number of requests** (`UsersProofs`, `RelationsProofs`,
`SchoolProofs`, `AuthorsProofs`). A property of the tables is not inductive: a
request acts on what it read earlier. The strengthening says, for each request
and each value of its `pc`, what it still may rely on:

* `KnowsRow(r)`: a request past its synchronisation has a row, and `me` was read
  from the table (`AccountsInv`);
* `KnowsRelation(r)`: before `insert_relation` the target has a row; before
  `write_archive` the relation exists (`RelationsInv`);
* `KnowsLesson(r)`, `KnowsDeleted(r)`: the lesson a handler is about to write
  exists and is its teacher's; the patched row is well typed; a homework about
  to be written exists, and a lesson that links it is among those loaded with
  it; what an answered delete deleted is still deleted, and what it unlinked
  still unlinked (`SchoolInv`);
* `KnowsAuthors(r)`: whoever writes or is shown a homework is the student, or
  the teacher, of every lesson it hangs on by now (`AuthorsInv`).

These facts survive the steps of other requests because tables only advance:
accounts stay, a relation keeps its pair (`RelationsAdvance`), a lesson its
pair and its deletion (`LessonsAdvance`), a homework its row and its deletion
(`HomeworksAdvance`), a link leads to a homework that is new or was linked there
before (`LinksOnlyGo`), a brief keeps its author and a new answer is by the
student of the lesson (`WorkAdvances`, for `AuthorsInv`). So the role a request
was given may be out of date, but the lesson it was let in through is still the
only one the homework can hang on. Each step is shown once to advance the tables and to keep what
its own request knows; the `...Advance` lemmas carry the rest over. That is also
why the properties hold: everything that breaks when requests overlap (times,
status, the link being current, the relation being active) is a fact that
another request can undo.

**The tables, one request at a time** (`SerialProofs`). Under the hypothesis
`OneAtATime` `Fresh(r)` joins the invariant: the object loaded is still the row,
and what was checked still holds, up to the write. `SerialMoves` is what a step
may then do to lessons and homework. `TimesOrdered` and
`HomeworkLivesWithLesson` have themselves as a hypothesis about the initial
tables, since no constraint of the database says so.

**Refinement** (`RelationsProofs`). `RelationsImplementRegistry` maps each
statement to a step of the book or to nothing: a first login is `Join`,
`InsertRelation` is `Open` of a pair that has no row (`UNIQUE`), `WriteArchive`
is `Close` or, when another archive came first, nothing.

**Refinement, one request at a time** (`SerialProofs`).
`SchoolImplementsClassroom` maps the write of each endpoint to its step:
`InsertLesson` to `Schedule`, `WriteUpdate` to `Change`, `WriteLessonDelete` to
`Drop`, `InsertHomework` to `Assign`, a student's `WriteHomework` to `Answer`,
`WriteHomeworkDelete` to `Withdraw`; every other statement, and a teacher's
`WriteHomework`, shows nothing. It needs `Fresh`, because a step of the
classroom asks for what the handler checked some statements before, and
`HomeworkLinkedOnce`, because a step of the classroom is at one lesson.
`TimesOrdered` is its hypothesis about the initial tables.

**The processes** (`ServerProofs`). `ServerInv` adds where each request is
(`Placed`), that the free permits and the requests inside add up and that
nobody queues beside a free permit (`Seated`), and what has been recorded by
each stage (`Recorded`).

**Uploads** (`UploadsProofs`). `UploadsInv` says that sample and spool are
beginnings of the file that was sent, so that only the detection on a beginning
is left. It is settled by lemmas about the detection itself: a signature a
beginning shows the whole shows too and no other (`OneSignature`,
`SignedStays`), a verdict given early is the verdict on the whole sample
(`EnoughIsEnough`), a rejection of the sample is one of the file, but for a text
the sample misjudges (`RefusedForItself`).

**The upgrade** (`DeploymentProofs`). The rows that a statement validated may
have company by the time the constraint is made or the transaction commits, so
`MigratedIsLegal` needs to know where in `Plan` the upgrade is. `DeploymentInv`
consists of:

* `Consistent` of the committed and of the seen database: what PostgreSQL
  enforces of each, and that a revision that is stamped has been run;
* `Follows`: what the upgrade sees has every committed account and constraint,
  the same lessons, and the same relations but for those of one person;
* `Locked`: a constraint that is made and not committed keeps writers out of its
  table, so that an insert is judged by the same constraints as the upgrade;
* `Prepared`: every statement that is behind the upgrade has left its change in
  the seen schema, whether it made it or found it, and, if nobody disturbed it,
  the rows as it repaired them;
* `Scripted`: the script is at "migrating" as long as an upgrade runs, and past
  it only with a committed last revision.

At the end of `Plan` all its changes are in the schema (`Prepared`), and a
`Consistent` database with all of them is legal (`MigratedIsLegal`). An
undisturbed upgrade has no orphan left where it would fail for one, so a key
must repeat, and rows that the upgrade sees repeat a key in the database too
(`FailureExplained`).
`NothingLost` follows from `Follows` at the commit and from what each insert
adds.

**Refinement, the upgrade in one step** (`DeploymentProofs`).
`DeploymentImplementsRollout` maps a commit of the upgrade to `Migrate` and every
other statement to nothing. `Follows` says that the commit loses no row, but not
that it adds nothing and that rows are what they should be; so `Exact` joins the
invariant:

* accounts the upgrade added are those of people a committed row names, and so
  is what it is about to insert;
* until `normalise` has run it sees every committed relation, so a key or a
  foreign key made by then is one that all committed relations keep to, those
  of one person that go later included;
* a status it sees is the committed one if the column was there before, and the
  default if the upgrade added the column.

An insert beside the upgrade keeps this because `Locked` makes the constraints
of its table the committed ones. At the commit all constraints are made
(`PlanDone`), and the two databases determine each other row by row
(`CommitSeen`). The steps of the abstract specification that write a row of
migrated tables ask for a legal one, which is `MigratedIsLegal` after the step.

The lemmas about `Plan` (`KindsAt`, `PlanOrder`, `PlanLength`, ...) say
which statement is where; they are what replaces induction over the sequence.

Assumptions: `NullIsNoValue`, `TokensAreTokens`, `InitialUsersAreLegal`,
`NullIsNoRelation`, `InitialRelationsAreLegal`, `TimesAreNaturals`,
`NullIsNoLesson`, `BodiesPassSchema`, `InitialLessonsAreLegal` for the tables;
`PermitsFitPool`, `NullIsNoWorker`, `RequestsAreFinite` for the processes;
`SizesArePositive`, `FilesAreBytes`, `SignaturesAreDistinct`, `NullIsNoObject`
for uploads; `RowIdsAreOrdered`, `NullIsNoStatus`, `DatabasesAreDatabases`,
`DatabasesAreConsistent` for the upgrade; `NullIsNothing` for the classroom. They say that constants have their types, that the initial tables
satisfy the database's constraints, that the pool is no smaller than the
semaphore and that no two signatures fit one file. TLC evaluates them in every
run of the module that declares them.

Model-checked only: liveness (`EveryRequestAnswered`, `EveryWorkerServes`,
`UpgradeEnds`, `EveryUploadAnswered`), which is out of the prover's reach.

## Not modelled, and what is left

* Configuration and secrets are read once at start and keep no state that
  changes.
* The envelope of an error (its code, texts and headers); the order of lists;
  file names; redaction and wording of the log.
* With the AWS backend the startup skips the bucket, and
  `ensure_aws_credentials_ready` has no caller; neither have `get_db_session`
  and the S3 methods that delete, download or return bytes.
* No property says that an upload whose presigning failed leaves no object: it
  does leave one (`Presign` in `Uploads`), and no text of the repository promises
  otherwise. Nor does one say that homework attached while its lesson is being
  deleted goes with it (it stays), or that the reply to a committed update of
  homework arrives (`SerializeHomework`). These three hazards are listed without
  a property.
