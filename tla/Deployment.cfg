\* A deploy beside a running backend.
SPECIFICATION DeploymentSpec
CONSTANTS
    Null = Null
    ann = ann
    sam = sam
    hw1 = hw1
    Persons <- MCPersons
    RowIds = {1, 2}
    HomeworkIds = {hw1}
    Databases <- MCDatabases
    MaxWrites = 1
INVARIANTS
    DeploymentTypeOK
    MigratedIsLegal
    FailureExplained
    DownOnlyWhenMigrated
PROPERTIES
    NothingLost
    UpgradeEnds
    ImplementsRollout
