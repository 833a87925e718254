\* Every endpoint, one request at a time.
SPECIFICATION SchoolSpec
CONSTANTS
    Null = Null
    JsonNull = JsonNull
    r1 = r1
    r2 = r2
    ann = ann
    sam = sam
    sue = sue
    rel1 = rel1
    rel2 = rel2
    les1 = les1
    les2 = les2
    hw1 = hw1
    hw2 = hw2
    hw3 = hw3
    Requests = {r1}
    Persons <- MCPersons
    Emails <- MCEmails
    Tokens <- ChangingTokens
    Endpoints = {"lessons/create", "lessons/update", "lessons/delete", "homeworks/create", "homeworks/update", "homeworks/delete", "relations/create", "relations/archive", "relations/list"}
    InitialUsers <- MCUsers
    RelationIds = {rel1, rel2}
    InitialRelations <- TwoRelations
    LessonIds = {les1}
    HomeworkIds = {hw1, hw2}
    Times = {1, 2, 3}
    LessonBodies <- AllBodies
    LessonPatches <- AllPatches
    InitialLessons <- NoLessons
    InitialHomeworks <- NoHomeworks
INVARIANTS
    HandlerSeesToken
    TimesOrdered
    HomeworkLivesWithLesson
    ServerErrorsExplained
PROPERTIES
    ImplementsClassroom
