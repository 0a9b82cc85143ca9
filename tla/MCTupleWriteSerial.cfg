\* Two concurrent Write calls of up to two operations over two keys.
CONSTANTS
    c1 = c1
    c2 = c2
    p = p
    Calls <- MCCalls
    Conds <- MCConds
    Keys <- MCKeys
    NoRow = NoRow
    NoCond = NoCond
    NoCall = NoCall
    BatchSize = 1
    MaxOps = 2
    MaxTime = 0
SPECIFICATION HSpec
INVARIANT SerializableWrites
\* The calls are finite: the system stops once every call has returned.
CHECK_DEADLOCK FALSE
