\* Two racing logins, of one person or two, through one source or two.
CONSTANTS
    Request = {r1, r2}
    Person = {p1, p2}
    Source = {mini_program, wx}
    NoUnionid = NoUnionid
    NoUser = NoUser
SPECIFICATION FairSpec
INVARIANTS
    TypeOK
    AtomicRegistration
    TablesAgree
    AccountIsolation
    AnswerIsStored
    StableIdentity
PROPERTIES
    DirectorySpec
    LoginEnds
\* Every request ends; none is ever started again.
CHECK_DEADLOCK FALSE
