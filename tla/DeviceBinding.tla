--------------------------- MODULE DeviceBinding ---------------------------
(***************************************************************************)
(* Binding devices to users: bind_device and unbind_device of              *)
(* services/user.py over user_device_map, a table without a unique key.    *)
(*                                                                         *)
(* A bind is up to three transactions: the reads and the soft delete of    *)
(* somebody else's row commit before the new row is inserted, and the row  *)
(* is read back (refresh) once that is committed.  Reads of one            *)
(* transaction see one snapshot, so they are one step; requests of several *)
(* users, or several requests of one, interleave between steps.            *)
(***************************************************************************)
CONSTANTS Request, User, Device,
          NoUser, NoDevice  \* a request that has not arrived has neither

ASSUME BindingAssumption == NoUser \notin User /\ NoDevice \notin Device

VARIABLES
    rows,    \* user_device_map: the row a request inserted, by request
    pc,      \* where each request is, and how it was answered
    user,    \* self.token.user_id
    device,  \* the device_id of the request
    victim,  \* the row the request read and is about to soft-delete
    raced    \* history: devices that had two requests under way at a time

vars == <<rows, pc, user, device, victim, raced>>

\* "failed", "cut_short" and "remove_unconfirmed" are one answer, an error: they only say what
\* is in the table by then.
BindLabel == {"bind", "release", "insert", "inserted", "bound", "cut_short"}
UnbindLabel == {"unbind", "remove", "unbound", "was_not_bound", "remove_unconfirmed"}
InFlightLabel == {"bind", "release", "insert", "inserted", "unbind", "remove"}

TypeOK ==
    /\ rows \in [Request -> {"none", "active", "deleted"}]
    /\ pc \in [Request -> {"idle", "failed"} \cup BindLabel \cup UnbindLabel]
    /\ user \in [Request -> User \cup {NoUser}]
    /\ device \in [Request -> Device \cup {NoDevice}]
    /\ victim \in [Request -> Request]
    /\ raced \in SUBSET Device

Init ==
    /\ rows = [r \in Request |-> "none"]
    /\ pc = [r \in Request |-> "idle"]
    /\ user = [r \in Request |-> NoUser]
    /\ device = [r \in Request |-> NoDevice]
    /\ victim = [r \in Request |-> r]
    /\ raced = {}

Goto(r, label) == pc' = [pc EXCEPT ![r] = label]

InFlight(d) == {q \in Request : pc[q] \in InFlightLabel /\ device[q] = d}

Arrive(r, u, d, label) ==
    /\ pc[r] = "idle"
    /\ user' = [user EXCEPT ![r] = u]
    /\ device' = [device EXCEPT ![r] = d]
    /\ Goto(r, label)
    /\ raced' = IF InFlight(d) = {} THEN raced ELSE raced \cup {d}
    /\ UNCHANGED <<rows, victim>>

\* rows of the device that are not soft-deleted: get_by_device_id
ActiveRows(d) == {q \in Request : rows[q] = "active" /\ device[q] = d}

\* those of one user: get, which takes any one of them (first, no ORDER BY)
RowsOf(u, d) == {q \in ActiveRows(d) : user[q] = u}

-----------------------------------------------------------------------------
(* bind_device                                                             *)

AlreadyBound(r) ==
    /\ pc[r] = "bind"
    /\ RowsOf(user[r], device[r]) # {}
    /\ Goto(r, "bound")
    /\ UNCHANGED <<rows, user, device, victim, raced>>

\* Mutant: a device somebody else has is bound without being released.
BoundToOtherIgnored(r) ==
    /\ pc[r] = "bind"
    /\ RowsOf(user[r], device[r]) = {}
    /\ ActiveRows(device[r]) # {}
    /\ Goto(r, "insert")
    /\ UNCHANGED <<rows, user, device, victim, raced>>

\* soft_delete reads a row of the user get_by_device_id found, in the same snapshot
BoundToOther(r) ==
    /\ pc[r] = "bind"
    /\ RowsOf(user[r], device[r]) = {}
    /\ \E q \in ActiveRows(device[r]) : victim' = [victim EXCEPT ![r] = q]
    /\ Goto(r, "release")
    /\ UNCHANGED <<rows, user, device, raced>>

NotBound(r) ==
    /\ pc[r] = "bind"
    /\ ActiveRows(device[r]) = {}
    /\ Goto(r, "insert")
    /\ UNCHANGED <<rows, user, device, victim, raced>>

\* Mutant: a bind that released somebody else's row believes it is done.
ReleaseAndStop(r) ==
    /\ pc[r] = "release"
    /\ rows' = [rows EXCEPT ![victim[r]] = "deleted"]
    /\ Goto(r, "bound")
    /\ UNCHANGED <<user, device, victim, raced>>

\* soft_delete commits; the UPDATE goes by id, whatever became of the row since
Release(r) ==
    /\ pc[r] = "release"
    /\ rows' = [rows EXCEPT ![victim[r]] = "deleted"]
    /\ Goto(r, "insert")
    /\ UNCHANGED <<user, device, victim, raced>>

\* create commits the row in a transaction of its own
Insert(r) ==
    /\ pc[r] = "insert"
    /\ rows' = [rows EXCEPT ![r] = "active"]
    /\ Goto(r, "inserted")
    /\ UNCHANGED <<user, device, victim, raced>>

\* The refresh reads the row by its id, whatever became of it since.
Refresh(r) ==
    /\ pc[r] = "inserted"
    /\ Goto(r, "bound")
    /\ UNCHANGED <<rows, user, device, victim, raced>>

-----------------------------------------------------------------------------
(* unbind_device                                                           *)

WasNotBound(r) ==
    /\ pc[r] = "unbind"
    /\ RowsOf(user[r], device[r]) = {}
    /\ Goto(r, "was_not_bound")
    /\ UNCHANGED <<rows, user, device, victim, raced>>

\* Mutant: what is remembered is the device, not its row.
FindOwnDevice(r) ==
    /\ pc[r] = "unbind"
    /\ RowsOf(user[r], device[r]) # {}
    /\ victim' = [victim EXCEPT ![r] = device[r]]
    /\ Goto(r, "remove")
    /\ UNCHANGED <<rows, user, device, raced>>

FindOwn(r) ==
    /\ pc[r] = "unbind"
    /\ \E q \in RowsOf(user[r], device[r]) : victim' = [victim EXCEPT ![r] = q]
    /\ Goto(r, "remove")
    /\ UNCHANGED <<rows, user, device, raced>>

\* Mutant: the soft delete is not committed.
RemoveUncommitted(r) ==
    /\ pc[r] = "remove"
    /\ Goto(r, "unbound")
    /\ UNCHANGED <<rows, user, device, victim, raced>>

Remove(r) ==
    /\ pc[r] = "remove"
    /\ rows' = [rows EXCEPT ![victim[r]] = "deleted"]
    /\ Goto(r, "unbound")
    /\ UNCHANGED <<user, device, victim, raced>>

-----------------------------------------------------------------------------
(* A statement fails, the pod stops or the caller goes away: the open      *)
(* transaction is lost, the committed one is not.                          *)
Abort(r) ==
    /\ pc[r] \in InFlightLabel
    /\ Goto(r, IF pc[r] = "insert" THEN "cut_short" ELSE "failed")
    /\ UNCHANGED <<rows, user, device, victim, raced>>

\* A soft delete is committed and its request never learns it.  (Insert and Abort are that
\* of the insert, and of a refresh that fails.)
CommitUnanswered(r) ==
    /\ pc[r] \in {"release", "remove"}
    /\ rows' = [rows EXCEPT ![victim[r]] = "deleted"]
    /\ Goto(r, IF pc[r] = "release" THEN "cut_short" ELSE "remove_unconfirmed")
    /\ UNCHANGED <<user, device, victim, raced>>

Bind(r) ==
    AlreadyBound(r) \/ BoundToOther(r) \/ NotBound(r) \/ Release(r) \/ Insert(r) \/ Refresh(r)
Unbind(r) == WasNotBound(r) \/ FindOwn(r) \/ Remove(r)

Next == \E r \in Request :
    \/ \E u \in User, d \in Device : Arrive(r, u, d, "bind") \/ Arrive(r, u, d, "unbind")
    \/ Bind(r) \/ Unbind(r) \/ Abort(r) \/ CommitUnanswered(r)

Spec == Init /\ [][Next]_vars

-----------------------------------------------------------------------------
(* bind_device releases the device from its user before it binds it, so a  *)
(* device has one binding: true as long as its requests follow each other, *)
(* whatever dies half-way.  Two requests that race may leave it with two.  *)
OneBindingUnlessRaced ==
    \A d \in Device \ raced : \A a, b \in ActiveRows(d) : a = b

(* A bind that is answered "bound" leaves the device its caller's, and     *)
(* nobody else's, unless requests for it raced.                            *)
BindAnswered == \A r \in Request :
    pc[r] # "bound" /\ pc'[r] = "bound" /\ device[r] \notin raced =>
        \E q \in Request : ActiveRows(device[r])' = {q} /\ user'[q] = user[r]

(* An unbind that is answered "unbound" leaves its caller without the      *)
(* device, unless requests for it raced (two binds of one user leave two   *)
(* rows, of which an unbind removes one).                                  *)
UnbindAnswered == \A r \in Request :
    pc[r] # "unbound" /\ pc'[r] = "unbound" /\ device[r] \notin raced =>
        RowsOf(user[r], device[r])' = {}

(* Both answers are true at the moment they are given, although each was   *)
(* decided by rows read in an earlier transaction, or an earlier step: the *)
(* release and the insert of a bind, the read and the soft delete of an    *)
(* unbind, with requests for other devices, and ones that die, in between. *)
AnswersAreTrue == [][BindAnswered /\ UnbindAnswered]_vars

\* A bind that soft-deleted somebody's row and has not inserted its own.
HasReleased(q) == pc[q] \in {"insert", "cut_short"} /\ victim[q] # q

(* Only an unbind, or a bind that dies between its two commits, takes a    *)
(* device from everybody: once a device has been bound it stays bound to   *)
(* somebody, or a bind that has released it is about to insert its own row *)
(* or was cut short of it, unless an unbind removed a row.  Neither races  *)
(* of binds and of unbinds that remove nothing, nor failures anywhere      *)
(* else, lose it.                                                          *)
BoundStaysBound == \A d \in Device :
    /\ \E q \in Request : device[q] = d /\ rows[q] # "none"
    /\ \A q \in Request : device[q] = d => pc[q] \notin {"unbound", "remove_unconfirmed"}
    => \/ ActiveRows(d) # {}
       \/ \E q \in Request : device[q] = d /\ HasReleased(q)
=============================================================================
