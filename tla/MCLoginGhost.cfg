\* One login whose mapping write fails.
CONSTANTS
    Request = {r1, r2}
    Person = {p1}
    Source = {mini_program}
    NoUnionid = NoUnionid
    NoUser = NoUser
SPECIFICATION Spec
SYMMETRY Symmetry
INVARIANT AnsweredUserExists
CHECK_DEADLOCK FALSE
