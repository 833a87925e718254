\* Three requests to two processes of two sessions each, one fault.
SPECIFICATION ServerSpec
CONSTANTS
    Null = Null
    w1 = w1
    w2 = w2
    r1 = r1
    r2 = r2
    r3 = r3
    Workers = {w1, w2}
    Requests = {r1, r2, r3}
    Permits = 2
    PoolMax = 2
    MaxFaults = 1
INVARIANTS
    ServerTypeOK
    PermitsConserved
    PoolNeverExhausted
    AnswersAreLogged
PROPERTIES
    EveryRequestAnswered
    EveryWorkerServes
