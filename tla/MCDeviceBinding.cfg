\* Four requests of three users for two devices, racing or not.
CONSTANTS
    Request = {r1, r2, r3, r4}
    User = {u1, u2, u3}
    Device = {d1, d2}
    NoUser = NoUser
    NoDevice = NoDevice
SPECIFICATION Spec
SYMMETRY Symmetry
INVARIANTS
    TypeOK
    OneBindingUnlessRaced
    BoundStaysBound
PROPERTY AnswersAreTrue
\* Every request ends; none is ever started again.
CHECK_DEADLOCK FALSE
