\* Two concurrent Write calls, two keys, every request of up to two
\* operations, one row per statement, a clock that ticks once.
CONSTANTS
    c1 = c1
    c2 = c2
    p = p
    q = q
    Calls <- MCCalls
    Conds <- MCConds
    Keys <- MCKeys
    NoRow = NoRow
    NoCond = NoCond
    NoCall = NoCall
    BatchSize = 1
    MaxOps = 2
    MaxTime = 1
SPECIFICATION Spec
SYMMETRY Symmetry
INVARIANTS TypeOK ChangelogReplaysTuples DeleteConflictUnreachable
\* The calls are finite: the system stops once every call has returned.
CHECK_DEADLOCK FALSE
