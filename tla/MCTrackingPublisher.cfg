\* Four tasks of two events each, racing for the first connection.
CONSTANTS
    Task = {t1, t2, t3, t4}
    NoTask = NoTask
    Events = 2
SPECIFICATION ClientSpec
SYMMETRY Symmetry
INVARIANTS
    ClientTypeOK
    MissingExchangeExplained
\* Every task ends; none is ever started again.
CHECK_DEADLOCK FALSE
