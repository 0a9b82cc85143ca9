\* ReadChanges with the cursor semantics spec 4.7 states (ulid >= token):
\* is a change ever returned twice?
CONSTANTS
    c1 = c1
    c2 = c2
    p = p
    Calls <- MCCalls
    Conds <- MCConds
    Keys <- MCKeys
    ObjectTypeOf <- MCObjectTypeOf
    ObjectTypeFilters <- MCObjectTypeFilters
    NoRow = NoRow
    NoCond = NoCond
    NoCall = NoCall
    NoToken = NoToken
    BatchSize = 1
    MaxOps = 1
    MaxTime = 1
    Horizon = 1
    ChangesPage = 1
    FromInclusive = TRUE
INIT ReaderInit
NEXT ReaderNext
SYMMETRY Symmetry
INVARIANT ChangesDeliveredOnce
\* The calls are finite; the consumer polls without end.
CHECK_DEADLOCK FALSE
