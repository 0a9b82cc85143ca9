\* ReadUsersetTuples with a type restriction whose name contains "_",
\* which the LIKE pattern takes as a one-character wildcard.
CONSTANTS
    c1 = c1
    c2 = c2
    p = p
    Calls <- MCCalls
    Conds <- MCConds
    Keys <- MCKeys
    TupleKeyOf <- MCTupleOfUnderscore
    Filters <- MCFilters
    UsersetFilters <- MCUsersetFiltersUnderscore
    StartingWithFilters <- MCStartingWithFilters
    NoRow = NoRow
    NoCond = NoCond
    NoCall = NoCall
    NoToken = NoToken
    BatchSize = 1
    MaxOps = 1
    MaxTime = 0
    PageSize = 1
INIT PagerInit
NEXT PagerNext
SYMMETRY Symmetry
INVARIANT UsersetTuplesExact
\* The scan and the calls are finite: the system stops when all are done.
CHECK_DEADLOCK FALSE
