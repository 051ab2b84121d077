\* One order whose notification fails to update it.
CONSTANTS
    Order = {o1}
    Notice = {n1}
    NoOrder = NoOrder
SPECIFICATION Spec
SYMMETRY Symmetry
INVARIANT SuccessMeansPaid
\* Every request and every notification ends; none is ever started again.
CHECK_DEADLOCK FALSE
