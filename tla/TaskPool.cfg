CONSTANTS
    a = a
    b = b
    d = d
    q = q
    p1 = p1
    p2 = p2
    j = j
    c1 = c1
    c2 = c2
    Workers <- MCWorkers
    Callers <- MCCallers
    Tasks <- MCTasks
    Joins <- MCJoins
    Body <- MCBody
    MayFail = {b}
SPECIFICATION Spec
INVARIANTS
    PoolTypeOK
    NothingLost
    InputsFirst
    ReductionComplete
PROPERTIES
    EveryCallReturns
