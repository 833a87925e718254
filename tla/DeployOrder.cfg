\* The backend restarts during a deploy.
SPECIFICATION DeploymentSpec
CONSTANTS
    Null = Null
    ann = ann
    sam = sam
    hw1 = hw1
    Persons <- MCPersons
    RowIds = {1, 2}
    HomeworkIds = {hw1}
    Databases <- MCDatabases
    MaxWrites = 1
INVARIANT
    ServedCodeHasItsSchema
