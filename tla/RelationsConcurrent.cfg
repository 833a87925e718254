\* Two requests interleave.
SPECIFICATION RelationsSpec
CONSTANTS
    Null = Null
    r1 = r1
    r2 = r2
    ann = ann
    bob = bob
    sid = sid
    rel1 = rel1
    rel2 = rel2
    Requests = {r1, r2}
    Persons <- MCPersons
    Emails <- MCEmails
    Tokens <- MCTokens
    Endpoints = {"users/me", "relations/create", "relations/archive"}
    InitialUsers <- MCInitialUsers
    RelationIds = {rel1, rel2}
    InitialRelations <- NoRelations
SYMMETRY MCSymmetry
INVARIANTS
    RelationsTypeOK
    EmailUnique
    HandlerHasAccount
    PairUnique
    ParticipantsKnown
    ArchivedWhenAnswered
PROPERTIES
    ArchiveIsFinal
    ImplementsRegistry
