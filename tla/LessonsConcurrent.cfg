\* Lessons against relations, two requests in progress.
SPECIFICATION SchoolSpec
CONSTANTS
    Null = Null
    JsonNull = JsonNull
    r1 = r1
    r2 = r2
    ann = ann
    sam = sam
    sue = sue
    rel1 = rel1
    rel2 = rel2
    les1 = les1
    les2 = les2
    hw1 = hw1
    hw2 = hw2
    hw3 = hw3
    Requests = {r1, r2}
    Persons <- MCPersons
    Emails <- MCEmails
    Tokens <- MCTokens
    Endpoints = {"lessons/create", "lessons/update", "lessons/delete", "relations/create", "relations/archive", "lessons/list", "homeworks/read"}
    InitialUsers <- MCUsers
    RelationIds = {rel1, rel2}
    InitialRelations <- OneRelation
    LessonIds = {les1, les2}
    HomeworkIds = {hw1}
    Times = {1, 2}
    LessonBodies <- SomeBodies
    LessonPatches <- SomePatches
    InitialLessons <- LessonWithHomework
    InitialHomeworks <- OneHomework
SYMMETRY RequestSymmetry
INVARIANTS
    SchoolTypeOK
    LessonPairRelated
PROPERTIES
    DeletionIsFinal
