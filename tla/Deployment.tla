----------------------------- MODULE Deployment -----------------------------
(***************************************************************************)
(* scripts/deploy-backend.sh: pull, build, migrate, replace the backend.   *)
(* The backend's container mounts the checked-out repository and is        *)
(* restarted whenever it dies, so the code it runs is the code that lies   *)
(* there when it starts.                                                   *)
(***************************************************************************)
EXTENDS Migrations

VARIABLES
    script,   \* the next step of the script, or how it ended
    code,     \* the version in the working tree
    server    \* the version the backend runs, if any

deployVars == <<script, code, server>>
vars == <<migrationVars, deployVars>>

-----------------------------------------------------------------------------
Steps == {"pull", "build", "migrate", "migrating", "remove", "start"}

DeploymentTypeOK ==
    /\ db \in Database /\ tx \in Database
    /\ at \in 0..Len(Plan) + 1
    /\ barred \subseteq Tables \X {"read", "write"}
    /\ outcome \in {"none", "failed", "done"} /\ disturbed \in BOOLEAN
    /\ held \subseteq Tables /\ wants \in Tables \union {Null}
    /\ script \in Steps \union {"finished", "exited"}
    /\ code \in {"previous", "new"} /\ server \in {"previous", "new", "down"}

DeploymentInit ==
    /\ MigrationsInit
    /\ script = "pull"
    /\ code = "previous"
    /\ server = "previous"

\* git fetch, checkout and pull.  The running container sees the new files.
Pull ==
    /\ script = "pull"
    /\ code' = "new"
    /\ script' = "build"
    /\ UNCHANGED <<migrationVars, server>>

\* The image, the secrets and Keycloak; set -e ends the script when one fails.
Build ==
    /\ script = "build"
    /\ script' \in {"migrate", "exited"}
    /\ UNCHANGED <<migrationVars, code, server>>

\* A container of its own runs the upgrade beside the running backend.
Migrate ==
    /\ script = "migrate"
    /\ StartUpgrade
    /\ script' = "migrating"
    /\ UNCHANGED <<code, server>>

\* Mutant: the exit status of the migration is not looked at.
MigrateReturnsAnyhow ==
    /\ script = "migrating" /\ at = 0
    /\ script' = "remove"
    /\ UNCHANGED <<migrationVars, code, server>>
MigrateReturns ==
    /\ script = "migrating" /\ at = 0
    /\ script' = IF outcome = "done" THEN "remove" ELSE "exited"
    /\ UNCHANGED <<migrationVars, code, server>>

\* A stopped process takes its open transaction with it.
Stop == held' = {} /\ wants' = Null /\ UNCHANGED <<db, upgradeVars, disturbed, writes>>

\* docker compose rm -fsv, whose failure is ignored.
RemovePrevious ==
    /\ script = "remove"
    /\ \/ server' = "down" /\ Stop
       \/ UNCHANGED <<server, migrationVars>>
    /\ script' = "start"
    /\ UNCHANGED code

\* docker compose up -d --force-recreate
StartBackend ==
    /\ script = "start"
    /\ \/ server' = code /\ script' = "finished" /\ Stop
       \/ script' = "exited" /\ UNCHANGED <<server, migrationVars>>
    /\ UNCHANGED code

\* The process dies and "restart: always" starts it again.
BackendRestarts ==
    /\ server # "down"
    /\ server' = code
    /\ Stop
    /\ UNCHANGED <<script, code>>

\* Somebody runs the script again, or takes the last revision back.
Redeploy ==
    /\ script \in {"finished", "exited"}
    /\ script' = "pull"
    /\ UNCHANGED <<migrationVars, code, server>>
DowngradeByHand ==
    /\ script = "finished"
    /\ Downgrade
    /\ UNCHANGED deployVars

DeploymentStep ==
    \/ Pull \/ Build \/ Migrate \/ MigrateReturns
    \/ RemovePrevious \/ StartBackend

DeploymentNext ==
    \/ DeploymentStep
    \/ BackendRestarts \/ Redeploy \/ DowngradeByHand
    \/ UpgradeStep /\ UNCHANGED deployVars
    \/ server # "down" /\ ClientStep /\ UNCHANGED deployVars
    \/ ResolveDeadlock /\ UNCHANGED deployVars

\* An upgrade goes on while nothing holds it up, a transaction of the backend
\* comes to its end, and PostgreSQL looks for deadlocks.
DeploymentFairness ==
    /\ WF_vars(UpgradeStep /\ UNCHANGED deployVars)
    /\ WF_vars(EndTransaction /\ UNCHANGED deployVars)
    /\ WF_vars(ResolveDeadlock /\ UNCHANGED deployVars)

DeploymentSpec == DeploymentInit /\ [][DeploymentNext]_vars /\ DeploymentFairness

-----------------------------------------------------------------------------
\* Once the last revision is committed the rows are what the application's
\* models take for granted, whatever the tables held before and whoever wrote
\* beside the upgrade: known people, one relation per pair of two people with
\* a status, one lesson per homework.
MigratedIsLegal ==
    db.revision = LastRevision =>
        /\ \A row \in db.links \union db.lessons :
            {row.teacher, row.student} \subseteq db.users
        /\ \A row \in db.links :
            /\ row.teacher # row.student
            /\ row.status # Null
            /\ \A other \in db.links :
                (row.teacher = other.teacher /\ row.student = other.student)
                    => row = other
        /\ \A row, other \in db.lessons :
            (row.homework # Null /\ row.homework = other.homework)
                => row = other

\* No commit loses an account, a lesson, its people or its homework, or the
\* relation of two different people.
NothingLost ==
    [][/\ db.users \subseteq db'.users
       /\ db.lessons \subseteq db'.lessons
       /\ \A row \in db.links :
            row.teacher # row.student =>
                \E kept \in db'.links :
                    kept.teacher = row.teacher /\ kept.student = row.student]_db

\* An upgrade nobody disturbed fails only because of rows that share a key.
FailureExplained ==
    (outcome = "failed" /\ ~disturbed) =>
        \E table \in {"links", "lessons"} : Duplicates(db, table) # {}

\* The backend is only taken down when the schema its successor needs is
\* there: a deploy that fails to migrate leaves it serving.
DownOnlyWhenMigrated == server = "down" => db.revision = LastRevision

\* An upgrade that has begun comes to an end: the locks it takes table by
\* table and those of requests that read in another order never leave
\* everyone waiting.
UpgradeEnds == at # 0 ~> at = 0

-----------------------------------------------------------------------------
Seen == INSTANCE Rollout WITH
    None <- Null,
    users <- db.users, links <- db.links, lessons <- db.lessons,
    migrated <- (db.revision = LastRevision)

\* Whatever the upgrade reads, repairs and locks on its way, and however often
\* it fails: whoever looks at the committed tables sees them migrated in one
\* step, with every row that others committed until then.
ImplementsRollout == Seen!Spec

-----------------------------------------------------------------------------
\* What the repository says and the code breaks
\* _deduplicate_teachers_students_pairs and _deduplicate_homework_links run
\* so that "Cannot add unique teacher/student constraint" does not happen.
UndisturbedUpgradeSucceeds == outcome = "failed" => disturbed

\* README.md: production must migrate before the service gets traffic.
ServedCodeHasItsSchema == server = "new" => db.revision = LastRevision
=============================================================================
