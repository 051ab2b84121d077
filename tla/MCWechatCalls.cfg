\* Two coroutines; a reply may use half of the margin, a held loop the rest of it.
CONSTANTS
    Call = {c1, c2}
    c1 = c1
    c2 = c2
    Job <- Jobs
    NoCall = NoCall
    Margin = 1
    Timeout = 1
    Lifetime = 2
    Horizon = 2
SPECIFICATION FairSpec
INVARIANT
    CallsTypeOK
PROPERTIES
    RefusedOnlyWhenSlow
    CallsEnd
