\* A deploy of rows that share a key.
SPECIFICATION DeploymentSpec
CONSTANTS
    Null = Null
    ann = ann
    sam = sam
    hw1 = hw1
    Persons <- MCPersons
    RowIds = {1, 2}
    HomeworkIds = {hw1}
    Databases <- MCDatabases
    MaxWrites = 1
INVARIANT
    UndisturbedUpgradeSucceeds
