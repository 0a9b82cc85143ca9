\* One scan with PageSize 1 over three tuples while two Write calls of one
\* operation commit between its pages; the reads without a cursor are
\* checked in every state.
CONSTANTS
    c1 = c1
    c2 = c2
    p = p
    Calls <- MCCalls
    Conds <- MCConds
    Keys <- MCKeys
    TupleKeyOf <- MCTupleOf
    Filters <- MCFilters
    UsersetFilters <- MCUsersetFilters
    StartingWithFilters <- MCStartingWithFilters
    NoRow = NoRow
    NoCond = NoCond
    NoCall = NoCall
    NoToken = NoToken
    BatchSize = 1
    MaxOps = 1
    MaxTime = 0
    PageSize = 1
INIT PagerInit
NEXT PagerNext
SYMMETRY Symmetry
INVARIANTS PagerTypeOK PaginationComplete UsersetTuplesExact ReadsExact
PROPERTIES ScanAdvances
\* The scan and the calls are finite: the system stops when all are done.
CHECK_DEADLOCK FALSE
