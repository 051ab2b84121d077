\* Three calls with two messages, over more than the life of a key.
CONSTANTS
    Call = {c1, c2, c3}
    Message = {m1, m2}
    NoMessage = NoMessage
    Ttl = 2
    Horizon = 3
SPECIFICATION Spec
SYMMETRY Symmetry
INVARIANTS
    TypeOK
    SkipJustified
    SpacedUnlessRaced
\* Every call ends and the clock stops at Horizon.
CHECK_DEADLOCK FALSE
