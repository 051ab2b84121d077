------------------------ MODULE ServiceAccountProofs ------------------------
(***************************************************************************)
(* Proofs about ServiceAccount, for any requests and followers.            *)
(*                                                                         *)
(* The argument: what a request has locked says what the row of its openid *)
(* is and remains.  A gap lock says that there is no row, and the insert   *)
(* waits until nobody else has a gap lock, so that one insert of an openid *)
(* at most is ever under way; a record lock keeps the row as it was read.  *)
(***************************************************************************)
EXTENDS ServiceAccount, TLAPS

\* what the place and the locks of a request say of the row of its openid
Fits(r) ==
    /\ pc[r] # "idle" => openid[r] \in Openid
    /\ held[r] = "nothing" <=> pc[r] \notin {"insert", "commit"}
    /\ held[r] = "gap" => pc[r] = "insert" /\ StateOf(r) = "none"
    /\ held[r] = "inserted" => pc[r] = "commit" /\ StateOf(r) = "none"
    /\ held[r] = "record" /\ pc[r] = "insert" => StateOf(r) = "deleted"
    /\ held[r] = "record" /\ pc[r] = "commit" => StateOf(r) = "active"
    /\ pc[r] \in SavedLabel \cup {"remove"} => StateOf(r) # "none"
    /\ pc[r] \in {"rejected"} \cup Removed => StateOf(r) = "deleted"

\* two requests have not both locked one row
Exclusive ==
    \A q, r \in Request :
        q # r /\ openid[q] = openid[r] /\ held[q] \in {"record", "inserted"}
        => held[r] = "nothing"

Inv ==
    /\ TypeOK
    /\ \A r \in Request : Fits(r)
    /\ Exclusive
    /\ FollowerRemembered
    /\ SomeFollowWins

\* a row that is there stays, and a soft-deleted one stays soft-deleted
RowsStay ==
    \A o \in Openid :
        /\ rows[o].state # "none" => rows'[o].state # "none"
        /\ rows[o].state = "deleted" => rows'[o].state = "deleted"

LEMMA InitInv == Init => Inv
  BY ServiceAssumption
     DEF Init, Inv, TypeOK, Fits, Exclusive, FollowerRemembered, SomeFollowWins,
         InFlightLabel, SaveLabel, SavedLabel, Removed, Answered

LEMMA LabelFacts ==
    /\ SavedLabel = {"unionid", "read_row", "write_unionid", "welcome", "followed"}
    /\ InFlightLabel = {"lock", "insert", "commit", "unionid", "read_row", "write_unionid",
                        "welcome", "read_follower", "remove", "mapping", "row"}
    /\ Removed = {"removed", "remove_unconfirmed"}
  BY DEF SavedLabel, InFlightLabel, SaveLabel, Removed

(* TypeOK is inductive by itself, given that a request under way has an    *)
(* openid.                                                                 *)
LEMMA NextTypeOK ==
    ASSUME TypeOK, \A r \in Request : Fits(r), Next PROVE TypeOK'
<1> USE LabelFacts DEF TypeOK, Goto, Hold, Answered
<1>1. ASSUME NEW r \in Request, NEW o \in Openid,
             NEW label \in {"lock", "read_follower", "mapping", "row"}, Arrive(r, o, label)
      PROVE  TypeOK'
  BY <1>1 DEF Arrive
<1>2. ASSUME NEW r \in Request, Save(r) PROVE TypeOK'
  <2> USE DEF Fits
  <2>1. CASE AlreadyFollower(r)
    BY <2>1 DEF AlreadyFollower
  <2>2. CASE NotFollower(r)
    BY <2>2 DEF NotFollower
  <2>3. CASE Insert(r) \/ Rejected(r) \/ Deadlock(r)
    BY <2>3 DEF Insert, Rejected, Deadlock
  <2>4. CASE Commit(r) \/ CommitUnanswered(r)
    <3>1. [state |-> "active", unionid |-> FALSE] \in Row
      BY DEF Row
    <3>2. rows' \in [Openid -> Row]
      BY <2>4, <3>1 DEF Commit, CommitUnanswered, CommitRow
    <3>3. \E label \in {"unionid", "failed"} : pc' = [pc EXCEPT ![r] = label]
      BY <2>4 DEF Commit, CommitUnanswered
    <3> QED
      BY <2>4, <3>2, <3>3 DEF Commit, CommitUnanswered, CommitRow
  <2> QED
    BY <1>2, <2>1, <2>2, <2>3, <2>4 DEF Save
<1>3. ASSUME NEW r \in Request, AfterSave(r) PROVE TypeOK'
  <2>1. CASE WriteUnionid(r)
    BY <2>1 DEF WriteUnionid, Row
  <2>2. CASE AskUnionid(r) \/ ReadRow(r) \/ UnionidFails(r) \/ Welcome(r)
    BY <2>2 DEF AskUnionid, ReadRow, UnionidFails, Welcome
  <2> QED
    BY <1>3, <2>1, <2>2 DEF AfterSave
<1>4. ASSUME NEW r \in Request, Unfollow(r) PROVE TypeOK'
  <2>1. CASE Remove(r) \/ RemoveUnanswered(r)
    BY <2>1 DEF Remove, RemoveUnanswered, Row
  <2>2. CASE ReadFollower(r) \/ RemoveFails(r)
    BY <2>2 DEF ReadFollower, RemoveFails
  <2> QED
    BY <1>4, <2>1, <2>2 DEF Unfollow
<1>5. ASSUME NEW r \in Request, Lookup(r) PROVE TypeOK'
  BY <1>5 DEF Lookup, ReadMapping, ReadServiceUser, BeginRaises
<1>6. ASSUME NEW r \in Request, Fail(r) PROVE TypeOK'
  BY <1>6 DEF Fail
<1> QED
  BY <1>1, <1>2, <1>3, <1>4, <1>5, <1>6 DEF Next, Handle

-----------------------------------------------------------------------------
(* A step of c that changes no row and takes no lock.                      *)
LEMMA QuietStep ==
    ASSUME Inv, TypeOK', NEW c \in Request,
           UNCHANGED <<rows, openid>>,
           \A r \in Request \ {c} : pc'[r] = pc[r] /\ held'[r] = held[r],
           held'[c] = "nothing", Fits(c)',
           pc[c] \notin Removed,
           pc[c] \notin SavedLabel => pc'[c] \notin SavedLabel,
           held[c] \in {"gap", "inserted"} =>
              pc'[c] = "failed" \/ \E q \in Request \ {c} : held[q] = "gap",
           pc[c] \in SavedLabel => pc'[c] \in SavedLabel \cup {"failed"},
           pc[c] # "failed",
           pc'[c] = "deadlock" => \E q \in Request \ {c} : held[q] = "gap"
    PROVE  Inv'
<1> USE LabelFacts DEF Inv, StateOf
<1>1. \A r \in Request : Fits(r)'
  BY DEF Fits
<1>2. Exclusive'
  BY DEF Exclusive
<1>3. FollowerRemembered'
  BY DEF FollowerRemembered
<1>4. SomeFollowWins'
  <2>1. ASSUME NEW r \in Request, pc'[r] = "deadlock"
        PROVE  \E q \in Request :
                  \/ held'[q] \in {"gap", "inserted"}
                  \/ pc'[q] = "failed"
                  \/ pc'[q] \in SavedLabel /\ rows[openid[q]].state # "none"
    <3>1. CASE r = c
      BY <2>1, <3>1
    <3>2. CASE r # c
      <4>1. PICK q \in Request :
               \/ held[q] \in {"gap", "inserted"}
               \/ pc[q] = "failed"
               \/ pc[q] \in SavedLabel /\ rows[openid[q]].state # "none"
        BY <2>1, <3>2 DEF SomeFollowWins
      <4>2. CASE q = c
        BY <4>1, <4>2
      <4>3. CASE q # c
        BY <4>1, <4>3
      <4> QED
        BY <4>2, <4>3
    <3> QED
      BY <3>1, <3>2
  <2> QED
    BY <2>1 DEF SomeFollowWins
<1> QED
  BY <1>1, <1>2, <1>3, <1>4

(* A step of c that changes no row and locks one, or a gap.                *)
LEMMA LockStep ==
    ASSUME Inv, TypeOK', NEW c \in Request,
           UNCHANGED <<rows, openid>>,
           \A r \in Request \ {c} : pc'[r] = pc[r] /\ held'[r] = held[r],
           pc[c] \in {"lock", "insert"}, pc'[c] \in {"insert", "commit"},
           held[c] = "gap" => held'[c] = "inserted",
           Fits(c)', Exclusive'
    PROVE  Inv'
<1> USE LabelFacts DEF Inv, StateOf
<1>1. \A r \in Request : Fits(r)'
  BY DEF Fits
<1>2. FollowerRemembered'
  BY DEF FollowerRemembered
<1>3. held[c] # "inserted"
  BY DEF Fits
<1>4. SomeFollowWins'
  BY <1>3 DEF SomeFollowWins
<1> QED
  BY <1>1, <1>2, <1>4

(* A step of c that writes the row of its own openid.                      *)
LEMMA WriteStep ==
    ASSUME Inv, TypeOK', NEW c \in Request,
           UNCHANGED <<openid>>, openid[c] \in Openid,
           \A r \in Request \ {c} : pc'[r] = pc[r] /\ held'[r] = held[r],
           \A o \in Openid \ {openid[c]} : rows'[o] = rows[o],
           RowsStay, rows'[openid[c]].state # "none",
           held'[c] = "nothing", Fits(c)',
           \A r \in Request \ {c} : openid[r] = openid[c] /\ held[r] # "nothing" =>
               rows'[openid[c]].state = rows[openid[c]].state,
           held[c] \in {"gap", "inserted"} => pc'[c] \in SavedLabel \cup {"failed"},
           pc[c] \in SavedLabel => pc'[c] \in SavedLabel,
           pc[c] \notin {"failed"} \cup Removed, pc'[c] # "deadlock",
           rows'[openid[c]].state = rows[openid[c]].state
               \/ rows'[openid[c]].state = "active" \/ pc'[c] \in Removed,
           pc'[c] \in SavedLabel => pc[c] \in SavedLabel \/ rows'[openid[c]].state = "active"
    PROVE  Inv'
<1> USE LabelFacts DEF Inv, StateOf, RowsStay
<1>0. \A r \in Request : pc[r] # "idle" => openid[r] \in Openid
  BY DEF Fits
<1>1. ASSUME NEW r \in Request, r # c PROVE Fits(r)'
  <2>1. CASE openid[r] = openid[c]
    BY <1>0, <1>1, <2>1 DEF Fits
  <2>2. CASE openid[r] # openid[c]
    <3>1. pc[r] # "idle" => rows'[openid[r]] = rows[openid[r]]
      BY <1>0, <2>2
    <3>2. CASE pc[r] = "idle"
      BY <1>1, <3>2 DEF Fits
    <3>3. CASE pc[r] # "idle"
      BY <1>1, <3>1, <3>3 DEF Fits
    <3> QED
      BY <3>2, <3>3
  <2> QED
    BY <2>1, <2>2
<1>2. Exclusive'
  BY DEF Exclusive
<1>3. FollowerRemembered'
  <2>1. ASSUME NEW r \in Request, pc'[r] \in SavedLabel
        PROVE  \/ rows'[openid[r]].state = "active"
               \/ \E q \in Request : openid[q] = openid[r] /\ pc'[q] \in Removed
    <3>1. pc[r] \in SavedLabel \/ rows'[openid[r]].state = "active"
      BY <2>1
    <3>2. CASE pc[r] \in SavedLabel
      <4>1. \/ rows[openid[r]].state = "active"
            \/ \E q \in Request : openid[q] = openid[r] /\ pc[q] \in Removed
        BY <3>2 DEF FollowerRemembered
      <4>2. openid[r] \in Openid
        BY <1>0, <3>2
      <4>3. CASE \E q \in Request : openid[q] = openid[r] /\ pc[q] \in Removed
        BY <4>3
      <4>4. CASE rows[openid[r]].state = "active"
        BY <4>2, <4>4
      <4> QED
        BY <4>1, <4>3, <4>4
    <3> QED
      BY <3>1, <3>2
  <2> QED
    BY <2>1 DEF FollowerRemembered
<1>4. SomeFollowWins'
  <2>1. ASSUME NEW r \in Request, pc'[r] = "deadlock"
        PROVE  \E q \in Request :
                  \/ held'[q] \in {"gap", "inserted"}
                  \/ pc'[q] = "failed"
                  \/ pc'[q] \in SavedLabel /\ rows'[openid[q]].state # "none"
    <3>1. PICK q \in Request :
             \/ held[q] \in {"gap", "inserted"}
             \/ pc[q] = "failed"
             \/ pc[q] \in SavedLabel /\ rows[openid[q]].state # "none"
      BY <2>1 DEF SomeFollowWins
    <3>2. CASE q = c
      BY <3>1, <3>2
    <3>3. CASE q # c
      BY <1>0, <3>1, <3>3
    <3> QED
      BY <3>2, <3>3
  <2> QED
    BY <2>1 DEF SomeFollowWins
<1> QED
  BY <1>1, <1>2, <1>3, <1>4

-----------------------------------------------------------------------------
LEMMA ArriveStep ==
    ASSUME Inv, TypeOK', NEW c \in Request, NEW o \in Openid,
           NEW label \in {"lock", "read_follower", "mapping", "row"}, Arrive(c, o, label)
    PROVE  Inv'
<1> USE LabelFacts DEF Inv, TypeOK, StateOf, Arrive, Goto
<1>1. held[c] = "nothing"
  BY DEF Fits
<1>2. \A r \in Request : Fits(r)'
  BY <1>1 DEF Fits
<1>3. Exclusive'
  BY <1>1 DEF Exclusive
<1>4. FollowerRemembered'
  BY DEF FollowerRemembered
<1>5. SomeFollowWins'
  BY DEF SomeFollowWins
<1> QED
  BY <1>2, <1>3, <1>4, <1>5

LEMMA SaveStep == ASSUME Inv, TypeOK', NEW c \in Request, Save(c) PROVE Inv'
<1> USE LabelFacts DEF Inv, TypeOK, StateOf, Goto, Hold
<1>0. pc[c] # "idle" => openid[c] \in Openid
  BY DEF Fits
<1>1. CASE AlreadyFollower(c)
  <2> USE <1>1 DEF AlreadyFollower
  <2>1. Exclusive'
    BY DEF Exclusive, RowFree, Fits
  <2>2. Fits(c)'
    BY <1>0 DEF Fits
  <2> QED
    BY <2>1, <2>2, LockStep DEF Fits
<1>2. CASE NotFollower(c)
  <2> USE <1>2 DEF NotFollower
  <2>0. rows[openid[c]].state \in {"none", "active", "deleted"}
    BY <1>0 DEF Row
  <2>1. Exclusive'
    BY <2>0 DEF Exclusive, RowFree, Fits
  <2>2. Fits(c)'
    BY <1>0, <2>0 DEF Fits
  <2> QED
    BY <2>1, <2>2, LockStep DEF Fits
<1>3. CASE Insert(c)
  <2> USE <1>3 DEF Insert
  <2>1. Exclusive'
    BY DEF Exclusive, RowFree, GapFree, Fits
  <2>2. Fits(c)'
    BY <1>0 DEF Fits
  <2> QED
    BY <2>1, <2>2, LockStep
<1>4. CASE Rejected(c)
  <2> USE <1>4 DEF Rejected
  <2>1. held[c] = "record" /\ rows[openid[c]].state = "deleted"
    BY DEF Fits
  <2>2. Fits(c)'
    BY <1>0, <2>1 DEF Fits
  <2> QED
    BY <2>1, <2>2, QuietStep
<1>5. CASE Deadlock(c)
  <2> USE <1>5 DEF Deadlock
  <2>1. Fits(c)'
    BY <1>0 DEF Fits
  <2> QED
    BY <2>1, QuietStep
<1>6. CASE Commit(c) \/ CommitUnanswered(c)
  <2> USE <1>6 DEF Commit, CommitUnanswered, CommitRow
  <2>1. openid[c] \in Openid /\ held[c] \in {"record", "inserted"}
    BY DEF Fits
  <2>2. \A r \in Request \ {c} : openid[r] = openid[c] => held[r] = "nothing"
    BY <2>1 DEF Exclusive
  <2>3. CASE held[c] = "inserted"
    <3>1. rows[openid[c]].state = "none" /\ rows'[openid[c]].state = "active"
      BY <2>1, <2>3 DEF Fits
    <3>2. RowsStay /\ \A o \in Openid \ {openid[c]} : rows'[o] = rows[o]
      BY <2>1, <2>3, <3>1 DEF RowsStay
    <3>3. Fits(c)'
      BY <2>1, <3>1 DEF Fits
    <3> QED
      BY <2>1, <2>2, <2>3, <3>1, <3>2, <3>3, WriteStep
  <2>4. CASE held[c] = "record"
    <3>1. rows' = rows /\ rows[openid[c]].state = "active"
      BY <2>1, <2>4 DEF Fits
    <3>2. Fits(c)'
      BY <2>1, <3>1 DEF Fits
    <3> QED
      BY <2>1, <2>2, <2>4, <3>1, <3>2, WriteStep DEF RowsStay
  <2> QED
    BY <2>1, <2>3, <2>4
<1> QED
  BY <1>1, <1>2, <1>3, <1>4, <1>5, <1>6 DEF Save

(* An update of the row of one's own openid that leaves the locks alone.   *)
LEMMA OtherStep ==
    ASSUME Inv, TypeOK', NEW c \in Request,
           AfterSave(c) \/ Unfollow(c) \/ Lookup(c) \/ Fail(c)
    PROVE  Inv'
<1> USE LabelFacts DEF Inv, TypeOK, StateOf, Goto, Hold
<1>0. /\ pc[c] # "idle" => openid[c] \in Openid
      /\ pc[c] \notin {"insert", "commit"} => held[c] = "nothing"
  BY DEF Fits
<1>1. CASE AskUnionid(c) \/ ReadRow(c) \/ UnionidFails(c) \/ Welcome(c)
  <2> USE <1>1 DEF AskUnionid, ReadRow, UnionidFails, Welcome
  <2>1. Fits(c)'
    BY <1>0 DEF Fits
  <2> QED
    BY <1>0, <2>1, QuietStep
<1>2. CASE ReadFollower(c) \/ RemoveFails(c) \/ Lookup(c)
  <2> USE <1>2 DEF ReadFollower, RemoveFails, Lookup, ReadMapping, ReadServiceUser, BeginRaises
  <2>1. Fits(c)'
    BY <1>0 DEF Fits
  <2> QED
    BY <1>0, <2>1, QuietStep
<1>3. CASE Fail(c)
  <2> USE <1>3 DEF Fail
  <2>1. Fits(c)'
    BY <1>0 DEF Fits
  <2> QED
    BY <2>1, QuietStep
<1>4. CASE WriteUnionid(c) \/ Remove(c) \/ RemoveUnanswered(c)
  <2> USE <1>4 DEF WriteUnionid, Remove, RemoveUnanswered
  <2>1. openid[c] \in Openid /\ held[c] = "nothing" /\ rows[openid[c]].state # "none"
    BY <1>0 DEF Fits
  <2>2. /\ \A o \in Openid \ {openid[c]} : rows'[o] = rows[o]
        /\ rows'[openid[c]].state =
              IF pc[c] = "remove" THEN "deleted" ELSE rows[openid[c]].state
    BY <2>1 DEF Row
  <2>3. \A r \in Request \ {c} : openid[r] = openid[c] => held[r] = "nothing"
    BY <2>1 DEF RowFree, Fits
  <2>4. RowsStay
    BY <2>1, <2>2 DEF RowsStay
  <2>5. Fits(c)'
    BY <2>1, <2>2 DEF Fits
  <2> QED
    BY <2>1, <2>2, <2>3, <2>4, <2>5, WriteStep
<1> QED
  BY <1>1, <1>2, <1>3, <1>4 DEF AfterSave, Unfollow

LEMMA NextInv == ASSUME Inv, [Next]_vars PROVE Inv'
<1>1. CASE Next
  <2>1. TypeOK'
    BY <1>1, NextTypeOK DEF Inv
  <2> QED
    BY <1>1, <2>1, ArriveStep, SaveStep, OtherStep DEF Next, Handle
<1>2. CASE UNCHANGED vars
  BY <1>2 DEF vars, Inv, TypeOK, Fits, StateOf, Exclusive, FollowerRemembered, SomeFollowWins
<1> QED
  BY <1>1, <1>2

(* Inv holds in every reachable state.                                     *)
THEOREM ServiceInvariant == Spec => []Inv
  BY InitInv, NextInv, PTL DEF Spec

(* Every reachable state of the follower table and its requests is         *)
(* well-typed.                                                             *)
THEOREM ServiceTypeOK == Spec => []TypeOK
  BY ServiceInvariant, PTL DEF Inv

(* The SELECT ... FOR UPDATE of save_service_openid keeps its promise for  *)
(* any number of racing follows: only a returning follower is turned away. *)
THEOREM ServiceRejectedOnlyReturning == Spec => []RejectedOnlyReturning
<1>1. Inv => RejectedOnlyReturning
  BY DEF Inv, Fits, RejectedOnlyReturning
<1> QED
  BY <1>1, ServiceInvariant, PTL

(* A follow that was saved stays in the table until an unfollow removes it.*)
THEOREM ServiceFollowerRemembered == Spec => []FollowerRemembered
  BY ServiceInvariant, PTL DEF Inv

(* However many follows deadlock, not all of them are lost.                *)
THEOREM ServiceSomeFollowWins == Spec => []SomeFollowWins
  BY ServiceInvariant, PTL DEF Inv

(* A follower who left stays out, whatever an earlier follow still does.   *)
THEOREM ServiceGoneStaysGone == Spec => []GoneStaysGone
<1>1. Inv => GoneStaysGone
  BY DEF Inv, Fits, GoneStaysGone
<1> QED
  BY <1>1, ServiceInvariant, PTL

(* The life of a follower has one direction, whatever is retried, late or  *)
(* lost: from no row to a row, and from an unfollow there is no way back.  *)
THEOREM ServiceRowsStay == Spec => [][RowsStay]_vars
<1>1. ASSUME Inv, [Next]_vars PROVE RowsStay \/ UNCHANGED vars
  <2> SUFFICES ASSUME Next PROVE RowsStay
    BY <1>1
  <2>1. CASE UNCHANGED rows
    BY <2>1 DEF RowsStay
  <2>2. ASSUME NEW r \in Request, CommitRow(r) PROVE RowsStay
    <3>1. openid[r] \in Openid /\ (held[r] = "inserted" => rows[openid[r]].state = "none")
      BY <1>1, <2>2 DEF CommitRow, Inv, Fits, StateOf
    <3>2. \A o \in Openid : rows[o].state # "none" => rows'[o] = rows[o]
      BY <1>1, <2>2, <3>1 DEF CommitRow, Inv, TypeOK
    <3> QED
      BY <3>2 DEF RowsStay
  <2>3. ASSUME NEW r \in Request, WriteUnionid(r) \/ Remove(r) \/ RemoveUnanswered(r)
        PROVE  RowsStay
    <3>1. openid[r] \in Openid
      BY <1>1, <2>3 DEF WriteUnionid, Remove, RemoveUnanswered, Inv, Fits
    <3>2. /\ \A o \in Openid \ {openid[r]} : rows'[o] = rows[o]
          /\ rows'[openid[r]].state \in {rows[openid[r]].state, "deleted"}
      BY <1>1, <2>3, <3>1 DEF WriteUnionid, Remove, RemoveUnanswered, Inv, TypeOK, Row
    <3> QED
      BY <1>1, <3>1, <3>2 DEF RowsStay
  <2>4. ASSUME NEW r \in Request,
               \/ \E o \in Openid, label \in {"lock", "read_follower", "mapping", "row"} :
                     Arrive(r, o, label)
               \/ AlreadyFollower(r) \/ NotFollower(r) \/ Insert(r) \/ Rejected(r) \/ Deadlock(r)
               \/ AskUnionid(r) \/ ReadRow(r) \/ UnionidFails(r) \/ Welcome(r)
               \/ ReadFollower(r) \/ RemoveFails(r) \/ Lookup(r) \/ Fail(r)
        PROVE  UNCHANGED rows
    BY <2>4 DEF Arrive, AlreadyFollower, NotFollower, Insert, Rejected, Deadlock, AskUnionid,
                ReadRow, UnionidFails, Welcome, ReadFollower, RemoveFails, Lookup, ReadMapping,
                ReadServiceUser, BeginRaises, Fail
  <2> QED
    BY <2>1, <2>2, <2>3, <2>4 DEF Next, Handle, Save, Commit, CommitUnanswered, AfterSave, Unfollow
<1> QED
  BY ServiceInvariant, <1>1, PTL DEF Spec

-----------------------------------------------------------------------------
(* Waiting for locks, which RequestEnds needs to come to an end.           *)

\* the lock of q is in the way of r
WaitsFor(r, q) ==
    /\ q # r
    /\ \/ /\ pc[r] \in {"lock", "insert", "write_unionid", "remove"}
          /\ openid[q] = openid[r] /\ held[q] \in {"record", "inserted"}
       \/ pc[r] = "insert" /\ held[r] = "gap" /\ held[q] \in {"gap", "inserted"}

\* r has a lock, and a step of Commit, Rejected, Insert or Deadlock to take
CanGiveUp(r) ==
    \/ pc[r] = "commit"
    \/ pc[r] = "insert" /\ RowFree(r) /\ (StateOf(r) # "none" \/ GapFree(r))
    \/ /\ pc[r] = "insert" /\ held[r] = "gap"
       /\ \E q \in Request \ {r} : pc[q] = "insert" /\ held[q] = "gap"

NoWaitCycle ==
    \A r, q \in Request : WaitsFor(r, q) =>
        CanGiveUp(q) \/ \E p \in Request : WaitsFor(q, p) /\ pc[p] = "commit"

(* Row and gap locks never make requests wait in a circle: whoever waits,  *)
(* waits for a request that can go on - to its commit, to the unique key   *)
(* or out of a deadlock - or that waits for one about to commit.           *)
THEOREM ServiceNoWaitCycle == Spec => []NoWaitCycle
<1>1. ASSUME Inv PROVE NoWaitCycle
  <2> SUFFICES ASSUME NEW r \in Request, NEW q \in Request, WaitsFor(r, q), pc[q] # "commit"
               PROVE  CanGiveUp(q) \/ \E p \in Request : WaitsFor(q, p) /\ pc[p] = "commit"
    BY DEF NoWaitCycle, CanGiveUp
  <2>1. pc[q] = "insert" /\ held[q] \in {"record", "gap"}
    BY <1>1 DEF Inv, TypeOK, Fits, WaitsFor
  <2>2. RowFree(q)
    BY <1>1, <2>1 DEF Inv, Exclusive, RowFree
  <2>3. CASE held[q] = "record"
    BY <1>1, <2>1, <2>2, <2>3 DEF Inv, Fits, CanGiveUp
  <2>4. CASE held[q] = "gap"
    <3>1. CASE GapFree(q)
      BY <2>1, <2>2, <3>1 DEF CanGiveUp
    <3>2. CASE ~GapFree(q)
      <4>1. PICK p \in Request \ {q} : held[p] \in {"gap", "inserted"}
        BY <3>2 DEF GapFree
      <4>2. held[p] = "gap" => pc[p] = "insert"
        BY <1>1 DEF Inv, Fits
      <4>3. held[p] = "inserted" => pc[p] = "commit"
        BY <1>1 DEF Inv, Fits
      <4> QED
        BY <2>1, <2>4, <4>1, <4>2, <4>3 DEF CanGiveUp, WaitsFor
    <3> QED
      BY <3>1, <3>2
  <2> QED
    BY <2>1, <2>3, <2>4
<1> QED
  BY <1>1, ServiceInvariant, PTL
=============================================================================
