\* A roleless token.
SPECIFICATION UsersSpec
CONSTANTS
    Null = Null
    r1 = r1
    r2 = r2
    ann = ann
    bob = bob
    Requests = {r1}
    Persons <- MCPersons
    Emails <- MCEmails
    Tokens <- MCTokens
    Endpoints = {"users/me"}
    InitialUsers <- MCInitialUsers

INVARIANT
    RolelessIsServed
