\* Two orders of any kind and three notifications, all for one order or not.
CONSTANTS
    Order = {o1, o2}
    Notice = {n1, n2, n3}
    NoOrder = NoOrder
SPECIFICATION Spec
SYMMETRY Symmetry
INVARIANTS
    TypeOK
    MissingCreditExplained
PROPERTY LedgerSpec
\* Every request and every notification ends; none is ever started again.
CHECK_DEADLOCK FALSE
