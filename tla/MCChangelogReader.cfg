\* A consumer polling ReadChanges (PageSize 1, horizon 1, strict cursor)
\* while two Write calls commit.
CONSTANTS
    c1 = c1
    c2 = c2
    p = p
    Calls <- MCCalls
    Conds <- MCConds
    Keys <- MCKeys
    ObjectTypeOf <- MCObjectTypeOf
    ObjectTypeFilters <- MCObjectTypeFilters
    NoRow = NoRow
    NoCond = NoCond
    NoCall = NoCall
    NoToken = NoToken
    BatchSize = 1
    MaxOps = 1
    MaxTime = 1
    Horizon = 1
    ChangesPage = 1
    FromInclusive = FALSE
INIT ReaderInit
NEXT ReaderNext
SYMMETRY Symmetry
INVARIANTS ChangesDeliveredOnce DescListComplete
\* The calls are finite; the consumer polls without end.
CHECK_DEADLOCK FALSE
