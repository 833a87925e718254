\* Homework against lessons, two requests in progress.
SPECIFICATION SchoolSpec
CONSTANTS
    Null = Null
    JsonNull = JsonNull
    r1 = r1
    r2 = r2
    ann = ann
    sam = sam
    sue = sue
    rel1 = rel1
    rel2 = rel2
    les1 = les1
    les2 = les2
    hw1 = hw1
    hw2 = hw2
    hw3 = hw3
    Requests = {r1, r2}
    Persons <- MCPersons
    Emails <- MCEmails
    Tokens <- SamComesOfAge
    Endpoints = {"homeworks/create", "homeworks/update", "homeworks/delete", "homeworks/read", "lessons/delete", "lessons/list"}
    InitialUsers <- MCUsers
    RelationIds = {rel1, rel2}
    InitialRelations <- TwoRelations
    LessonIds = {les1, les2}
    HomeworkIds = {hw1, hw2}
    Times = {1, 2}
    LessonBodies <- SomeBodies
    LessonPatches <- SomePatches
    InitialLessons <- LessonOfEach
    InitialHomeworks <- NoHomeworks
SYMMETRY RequestsAndHomeworks
INVARIANTS
    HomeworkLinkedOnce
    AuthorsOwn
    RepliesOwn
    DeletedWhenAnswered
