--------------------------- MODULE ServiceAccount ---------------------------
(***************************************************************************)
(* Followers of the WeChat service account: the follow and unfollow events *)
(* of POST /wx/webhook and the two lookups that go by unionid, over the    *)
(* table wechat_service_users (services/weixin.py).                        *)
(*                                                                         *)
(* A delivery of an event, or a lookup, is a request with a database       *)
(* session of its own; WeChat delivers an event again when it is not       *)
(* answered "success", so any number of requests may carry one event, at   *)
(* one time and in any order.                                              *)
(*                                                                         *)
(* The unique key on service_openid counts soft-deleted rows, so an openid *)
(* has one row.  SELECT ... FOR UPDATE of InnoDB locks that row whether or *)
(* not it is soft-deleted; where there is none it locks the gap, which     *)
(* keeps others from inserting but not from locking the gap as well.       *)
(* Openids that have no row are taken to lie in one gap, the worst case.   *)
(* An openid stands for its follower, unionid and user_id too.             *)
(***************************************************************************)
CONSTANTS
    Request,   \* deliveries of events, and lookups
    Openid,    \* followers
    Linked,    \* those whose user_id has a row in user_unionid_mapping
    NoOpenid   \* a request that has not arrived

ASSUME ServiceAssumption == Linked \subseteq Openid /\ NoOpenid \notin Openid

VARIABLES
    rows,     \* committed rows of wechat_service_users, by openid
    pc,       \* where each request is, and how it was answered
    openid,   \* FromUserName of the event, or the follower looked up
    held,     \* what the transaction of save_service_openid has locked
    session   \* whether execute() has begun a transaction by itself

vars == <<rows, pc, openid, held, session>>

Row == [state : {"none", "active", "deleted"}, unionid : BOOLEAN]

SaveLabel == {"lock", "insert", "commit"}
SavedLabel == {"unionid", "read_row", "write_unionid", "welcome", "followed"}
InFlightLabel == SaveLabel \cup (SavedLabel \ {"followed"})
                 \cup {"read_follower", "remove", "mapping", "row"}
Removed == {"removed", "remove_unconfirmed"}
Answered == {"followed", "rejected", "deadlock", "not_follower", "remove_failed",
             "found", "not_found", "failed"} \cup Removed

TypeOK ==
    /\ rows \in [Openid -> Row]
    /\ pc \in [Request -> {"idle"} \cup InFlightLabel \cup Answered]
    /\ openid \in [Request -> Openid \cup {NoOpenid}]
    /\ held \in [Request -> {"nothing", "record", "gap", "inserted"}]
    /\ session \in [Request -> {"fresh", "begun"}]

Init ==
    /\ rows \in [Openid -> {row \in Row : row.state = "none" => ~row.unionid}]
    /\ pc = [r \in Request |-> "idle"]
    /\ openid = [r \in Request |-> NoOpenid]
    /\ held = [r \in Request |-> "nothing"]
    /\ session = [r \in Request |-> "fresh"]

Goto(r, label) == pc' = [pc EXCEPT ![r] = label]
Hold(r, lock) == held' = [held EXCEPT ![r] = lock]

Arrive(r, o, label) ==
    /\ pc[r] = "idle"
    /\ openid' = [openid EXCEPT ![r] = o]
    /\ Goto(r, label)
    /\ UNCHANGED <<rows, held, session>>

StateOf(r) == rows[openid[r]].state

\* Nobody else has locked the row of r's openid, or inserted it uncommitted.
RowFree(r) ==
    \A q \in Request \ {r} : openid[q] = openid[r] => held[q] \notin {"record", "inserted"}

\* Nobody else has locked the gap.
GapFree(r) == \A q \in Request \ {r} : held[q] \notin {"gap", "inserted"}

-----------------------------------------------------------------------------
(* handle_follow_event: save_service_openid, in one transaction            *)

AlreadyFollower(r) ==
    /\ pc[r] = "lock"
    /\ RowFree(r)
    /\ StateOf(r) = "active"
    /\ Hold(r, "record")
    /\ Goto(r, "commit")
    /\ UNCHANGED <<rows, openid, session>>

\* Mutant: the SELECT takes no lock.
NotFollowerUnlocked(r) ==
    /\ pc[r] = "lock"
    /\ StateOf(r) # "active"
    /\ Goto(r, "insert")
    /\ UNCHANGED <<rows, openid, held, session>>

NotFollower(r) ==
    /\ pc[r] = "lock"
    /\ RowFree(r)
    /\ StateOf(r) # "active"
    /\ Hold(r, IF StateOf(r) = "none" THEN "gap" ELSE "record")
    /\ Goto(r, "insert")
    /\ UNCHANGED <<rows, openid, session>>

Insert(r) ==
    /\ pc[r] = "insert"
    /\ RowFree(r)
    /\ StateOf(r) = "none"
    /\ GapFree(r)
    /\ Hold(r, "inserted")
    /\ Goto(r, "commit")
    /\ UNCHANGED <<rows, openid, session>>

(* The unique key: the exception is raised on and the event answered 500.  *)
Rejected(r) ==
    /\ pc[r] = "insert"
    /\ RowFree(r)
    /\ StateOf(r) # "none"
    /\ Hold(r, "nothing")
    /\ Goto(r, "rejected")
    /\ UNCHANGED <<rows, openid, session>>

(* Two inserts wait for each other's gap lock: InnoDB rolls one of them    *)
(* back, and that event is answered 500.                                   *)
Deadlock(r) ==
    /\ pc[r] = "insert"
    /\ held[r] = "gap"
    /\ \E q \in Request \ {r} : pc[q] = "insert" /\ held[q] = "gap"
    /\ Hold(r, "nothing")
    /\ Goto(r, "deadlock")
    /\ UNCHANGED <<rows, openid, session>>

\* Mutant: the row is flushed and the transaction rolled back.
CommitForgotten(r) ==
    /\ pc[r] = "commit"
    /\ Hold(r, "nothing")
    /\ Goto(r, "unionid")
    /\ UNCHANGED <<rows, openid, session>>

CommitRow(r) ==
    /\ pc[r] = "commit"
    /\ rows' = IF held[r] = "inserted"
               THEN [rows EXCEPT ![openid[r]] = [state |-> "active", unionid |-> FALSE]]
               ELSE rows
    /\ Hold(r, "nothing")
    /\ UNCHANGED <<openid, session>>

Commit(r) == CommitRow(r) /\ Goto(r, "unionid")

\* The commit went through and its acknowledgement is lost: the event is answered 500.
CommitUnanswered(r) == CommitRow(r) /\ Goto(r, "failed")

-----------------------------------------------------------------------------
(* handle_follow_event: try_get_service_user_unionid and the welcome, whose*)
(* failures are swallowed                                                  *)

AskUnionid(r) ==
    /\ pc[r] = "unionid"
    /\ \E label \in {"read_row", "welcome"} : Goto(r, label)
    /\ UNCHANGED <<rows, openid, held, session>>

\* update_unionid reads a snapshot of the active row ...
ReadRow(r) ==
    /\ pc[r] = "read_row"
    /\ Goto(r, IF StateOf(r) = "active" THEN "write_unionid" ELSE "welcome")
    /\ UNCHANGED <<rows, openid, held, session>>

\* Mutant: that the unionid is known is kept as a state of the row.
WriteUnionidAstray(r) ==
    /\ pc[r] = "write_unionid"
    /\ RowFree(r)
    /\ rows' = [rows EXCEPT ![openid[r]].state = "linked"]
    /\ Goto(r, "welcome")
    /\ UNCHANGED <<openid, held, session>>

\* Mutant: the latest row is soft-deleted with the older ones.
WriteUnionidDeletes(r) ==
    /\ pc[r] = "write_unionid"
    /\ RowFree(r)
    /\ rows' = [rows EXCEPT ![openid[r]] = [state |-> "deleted", unionid |-> TRUE]]
    /\ Goto(r, "welcome")
    /\ UNCHANGED <<openid, held, session>>

\* Mutant: the row is written back whole, as it was read.
WriteUnionidWhole(r) ==
    /\ pc[r] = "write_unionid"
    /\ RowFree(r)
    /\ rows' = [rows EXCEPT ![openid[r]] = [state |-> "active", unionid |-> TRUE]]
    /\ Goto(r, "welcome")
    /\ UNCHANGED <<openid, held, session>>

\* ... and updates it by id, whatever has become of it.
WriteUnionid(r) ==
    /\ pc[r] = "write_unionid"
    /\ RowFree(r)
    /\ rows' = [rows EXCEPT ![openid[r]].unionid = TRUE]
    /\ Goto(r, "welcome")
    /\ UNCHANGED <<openid, held, session>>

UnionidFails(r) ==
    /\ pc[r] \in {"read_row", "write_unionid"}
    /\ Goto(r, "welcome")
    /\ UNCHANGED <<rows, openid, held, session>>

Welcome(r) ==
    /\ pc[r] = "welcome"
    /\ Goto(r, "followed")
    /\ UNCHANGED <<rows, openid, held, session>>

-----------------------------------------------------------------------------
(* handle_unfollow_event                                                   *)

ReadFollower(r) ==
    /\ pc[r] = "read_follower"
    /\ Goto(r, IF StateOf(r) = "active" THEN "remove" ELSE "not_follower")
    /\ UNCHANGED <<rows, openid, held, session>>

Remove(r) ==
    /\ pc[r] = "remove"
    /\ RowFree(r)
    /\ rows' = [rows EXCEPT ![openid[r]].state = "deleted"]
    /\ Goto(r, "removed")
    /\ UNCHANGED <<openid, held, session>>

\* The row is removed, and the acknowledgement of the commit is lost.
RemoveUnanswered(r) ==
    /\ pc[r] = "remove"
    /\ RowFree(r)
    /\ rows' = [rows EXCEPT ![openid[r]].state = "deleted"]
    /\ Goto(r, "remove_unconfirmed")
    /\ UNCHANGED <<openid, held, session>>

(* Whatever the database says, WeChat is answered "success".               *)
RemoveFails(r) ==
    /\ pc[r] \in {"read_follower", "remove"}
    /\ Goto(r, "remove_failed")
    /\ UNCHANGED <<rows, openid, held, session>>

-----------------------------------------------------------------------------
(* get_service_openid_by_user_id_via_unionid ("mapping", then "row") and   *)
(* get_service_openid_by_unionid ("row")                                   *)

\* get_by_user_id of the mapping: execute() begins a transaction and leaves it open
ReadMapping(r) ==
    /\ pc[r] = "mapping"
    /\ session' = [session EXCEPT ![r] = "begun"]
    /\ Goto(r, IF openid[r] \in Linked THEN "row" ELSE "not_found")
    /\ UNCHANGED <<rows, openid, held>>

ReadServiceUser(r) ==
    /\ pc[r] = "row"
    /\ session[r] = "fresh"
    /\ Goto(r, IF rows[openid[r]] = [state |-> "active", unionid |-> TRUE]
               THEN "found" ELSE "not_found")
    /\ UNCHANGED <<rows, openid, held, session>>

(* begin() of a session that has begun raises; the lookup catches it.      *)
BeginRaises(r) ==
    /\ pc[r] = "row"
    /\ session[r] = "begun"
    /\ Goto(r, "not_found")
    /\ UNCHANGED <<rows, openid, held, session>>

-----------------------------------------------------------------------------
\* Mutant: the transaction of a failed request is left open.
FailLeavesOpen(r) ==
    /\ pc[r] \in InFlightLabel
    /\ Goto(r, "failed")
    /\ UNCHANGED <<rows, openid, held, session>>

(* A statement of save_service_openid fails, or the pod stops: what the    *)
(* request has not committed is lost, and it is answered 500 or not at all.*)
Fail(r) ==
    /\ pc[r] \in InFlightLabel
    /\ Hold(r, "nothing")
    /\ Goto(r, "failed")
    /\ UNCHANGED <<rows, openid, session>>

Save(r) ==
    \/ AlreadyFollower(r) \/ NotFollower(r) \/ Insert(r) \/ Rejected(r) \/ Deadlock(r)
    \/ Commit(r) \/ CommitUnanswered(r)

AfterSave(r) ==
    AskUnionid(r) \/ ReadRow(r) \/ WriteUnionid(r) \/ UnionidFails(r) \/ Welcome(r)

Unfollow(r) == ReadFollower(r) \/ Remove(r) \/ RemoveUnanswered(r) \/ RemoveFails(r)

Lookup(r) == ReadMapping(r) \/ ReadServiceUser(r) \/ BeginRaises(r)

Handle(r) == Save(r) \/ AfterSave(r) \/ Unfollow(r) \/ Lookup(r)

Next == \E r \in Request :
    \/ \E o \in Openid, label \in {"lock", "read_follower", "mapping", "row"} :
          Arrive(r, o, label)
    \/ Handle(r)
    \/ Fail(r)

Spec == Init /\ [][Next]_vars

(* Ready tasks are run, statements and HTTP calls end, and InnoDB finds    *)
(* deadlocks; nothing arrives or fails by necessity.                       *)
FairSpec == Spec /\ \A r \in Request : WF_vars(Handle(r))

-----------------------------------------------------------------------------
(* save_service_openid promises to prevent concurrent duplicates: of any   *)
(* number of follows of one new follower that race, none ever runs into    *)
(* the unique key.  It only turns away followers that come back.           *)
RejectedOnlyReturning == \A r \in Request : pc[r] = "rejected" => StateOf(r) = "deleted"

(* A follower whose follow event got past save_service_openid is in the    *)
(* table, whatever raced with it, unless an unfollow took the row out.     *)
FollowerRemembered ==
    \A r \in Request : pc[r] \in SavedLabel =>
        \/ StateOf(r) = "active"
        \/ \E q \in Request : openid[q] = openid[r] /\ pc[q] \in Removed

(* A deadlock costs one of the follows, never all of them: somebody is     *)
(* still inserting, or is in the table, or failed for a reason of its own. *)
SomeFollowWins ==
    \A r \in Request : pc[r] = "deadlock" =>
        \E q \in Request :
            \/ held[q] \in {"gap", "inserted"}
            \/ pc[q] = "failed"
            \/ pc[q] \in SavedLabel /\ StateOf(q) # "none"

(* Once an unfollow has removed a follower, nothing that is still under    *)
(* way for an earlier follow - a repeated delivery, the unionid that comes *)
(* late - brings the row back.                                             *)
GoneStaysGone == \A r \in Request : pc[r] \in Removed => StateOf(r) = "deleted"

(* Every request is answered: waiting for a row or a gap somebody else has *)
(* locked never becomes waiting for ever.                                  *)
RequestEnds == \A r \in Request : pc[r] \in InFlightLabel ~> pc[r] \in Answered
=============================================================================
