\* Three requests with two values for each of two columns.
CONSTANTS
    Request = {r1, r2, r3}
    Value = {v1, v2}
    Default = v1
    Unset = Unset
SPECIFICATION Spec
SYMMETRY Symmetry
INVARIANTS
    TypeOK
    NoLostUpdate
    RegisteredOnce
\* Every request ends; none is ever started again.
CHECK_DEADLOCK FALSE
