\* Liveness and refinement of Write calls: two calls of up to two operations
\* over two keys, one condition payload (condition conflicts do not block
\* anyone); no symmetry, as the properties are temporal.
CONSTANTS
    c1 = c1
    c2 = c2
    p = p
    q = q
    Calls <- MCCalls
    Conds <- MCOneCond
    Keys <- MCKeys
    NoRow = NoRow
    NoCond = NoCond
    NoCall = NoCall
    BatchSize = 1
    MaxOps = 2
    MaxTime = 0
SPECIFICATION Spec
PROPERTIES CallsReturn WriteImplementsTupleLog
\* The calls are finite: the system stops once every call has returned.
CHECK_DEADLOCK FALSE
