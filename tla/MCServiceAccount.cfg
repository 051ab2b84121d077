\* Three requests about one linked follower: a follow, its repetition, an unfollow.
CONSTANTS
    Request = {r1, r2, r3}
    Openid = {o1}
    Linked = {o1}
    NoOpenid = NoOpenid
SPECIFICATION FairSpec
INVARIANTS
    TypeOK
    RejectedOnlyReturning
    FollowerRemembered
    SomeFollowWins
    GoneStaysGone
PROPERTY RequestEnds
\* Every request ends; none is ever started again.
CHECK_DEADLOCK FALSE
