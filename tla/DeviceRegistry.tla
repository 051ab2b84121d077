--------------------------- MODULE DeviceRegistry ---------------------------
(***************************************************************************)
(* The registry of devices: create and update of services/device.py over   *)
(* device_info, whose device_id is unique.  Both read the row, and decide  *)
(* what to write by what they read; the write comes an await later, and    *)
(* the answer another one: the row is read back (refresh) once it is       *)
(* committed, and when that fails an error is answered for a stored row.   *)
(*                                                                         *)
(* Rows of different devices never meet, so there is one device here.      *)
(***************************************************************************)
CONSTANTS
    Request,
    Value,    \* of device_name and of mode
    Default,  \* mode = 1
    Unset     \* None

ASSUME RegistryAssumption == Default \in Value /\ Unset \notin Value

VARIABLES
    registered,  \* device_info has the row
    row,         \* what it says
    pc,          \* where each request is, and how it was answered
    input,       \* AddDeviceRequest or UpdateDeviceRequest
    seen,        \* the row as the session of the request has loaded it
    before       \* history: the requests that had ended when this one came

vars == <<registered, row, pc, input, seen, before>>

Field == {"device_name", "mode"}
Columns == [Field -> Value \cup {Unset}]
NoColumns == [f \in Field |-> Unset]

\* An error is answered from "failed" and from the two "unconfirmed" ends, which only say
\* of it what is in the table.
BeforeCommitLabel == {"add", "insert", "update", "write"}
CommittedLabel == {"inserted", "written"}
UnconfirmedLabel == {"create_unconfirmed", "update_unconfirmed"}
EndLabel == {"created", "existing", "updated", "not_found", "failed"} \cup UnconfirmedLabel

Ended == {r \in Request : pc[r] \in EndLabel}

TypeOK ==
    /\ registered \in BOOLEAN
    /\ IF registered THEN row \in [Field -> Value] ELSE row = NoColumns
    /\ pc \in [Request -> {"idle"} \cup BeforeCommitLabel \cup CommittedLabel \cup EndLabel]
    /\ input \in [Request -> Columns]
    /\ seen \in [Request -> Columns]
    /\ before \in [Request -> SUBSET Request]

Init ==
    /\ registered = FALSE
    /\ row = NoColumns
    /\ pc = [r \in Request |-> "idle"]
    /\ input = [r \in Request |-> NoColumns]
    /\ seen = [r \in Request |-> NoColumns]
    /\ before = [r \in Request |-> {}]

Goto(r, label) == pc' = [pc EXCEPT ![r] = label]

\* Mutant: the mode is stored as it came.
ArriveAsIs(r, label, columns) ==
    /\ pc[r] = "idle"
    /\ input' = [input EXCEPT ![r] = columns]
    /\ before' = [before EXCEPT ![r] = Ended]
    /\ Goto(r, label)
    /\ UNCHANGED <<registered, row, seen>>

\* create fills in the mode; update takes None for "leave it as it is"
Arrive(r, label, columns) ==
    /\ pc[r] = "idle"
    /\ input' = [input EXCEPT ![r] =
           IF label = "add" /\ columns["mode"] = Unset
           THEN [columns EXCEPT !["mode"] = Default]
           ELSE columns]
    /\ before' = [before EXCEPT ![r] = Ended]
    /\ Goto(r, label)
    /\ UNCHANGED <<registered, row, seen>>

-----------------------------------------------------------------------------
(* create                                                                  *)

\* Whatever the request says, the row stays as it is.
AlreadyRegistered(r) ==
    /\ pc[r] = "add"
    /\ registered
    /\ Goto(r, "existing")
    /\ UNCHANGED <<registered, row, input, seen, before>>

NotRegistered(r) ==
    /\ pc[r] = "add"
    /\ ~registered
    /\ Goto(r, "insert")
    /\ UNCHANGED <<registered, row, input, seen, before>>

\* Mutant: the row is added to the session and not committed.
InsertUncommitted(r) ==
    /\ pc[r] = "insert"
    /\ ~registered
    /\ input[r]["device_name"] # Unset
    /\ Goto(r, "inserted")
    /\ UNCHANGED <<registered, row, input, seen, before>>

Insert(r) ==
    /\ pc[r] = "insert"
    /\ ~registered
    /\ input[r]["device_name"] # Unset
    /\ registered' = TRUE
    /\ row' = input[r]
    /\ Goto(r, "inserted")
    /\ UNCHANGED <<input, seen, before>>

-----------------------------------------------------------------------------
(* update                                                                  *)

NotFound(r) ==
    /\ pc[r] = "update"
    /\ ~registered
    /\ Goto(r, "not_found")
    /\ UNCHANGED <<registered, row, input, seen, before>>

\* The second get of the same session sees the same snapshot and the same object.
Load(r) ==
    /\ pc[r] = "update"
    /\ registered
    /\ seen' = [seen EXCEPT ![r] = row]
    /\ Goto(r, "write")
    /\ UNCHANGED <<registered, row, input, before>>

\* Mutant: the whole object is written back, as merge() of a new one would.
WriteWholeRow(r) ==
    /\ pc[r] = "write"
    /\ row' = [f \in Field |-> IF input[r][f] = Unset THEN seen[r][f] ELSE input[r][f]]
    /\ Goto(r, "written")
    /\ UNCHANGED <<registered, input, seen, before>>

\* The UPDATE sets the columns whose value differs from the one loaded.
Changes(r, f) == input[r][f] # Unset /\ input[r][f] # seen[r][f]

Write(r) ==
    /\ pc[r] = "write"
    /\ row' = [f \in Field |-> IF Changes(r, f) THEN input[r][f] ELSE row[f]]
    /\ Goto(r, "written")
    /\ UNCHANGED <<registered, input, seen, before>>

-----------------------------------------------------------------------------
(* After the commit, and failures                                          *)

\* The refresh reads the row back; nothing takes it away meanwhile.
Refresh(r) ==
    /\ pc[r] \in CommittedLabel
    /\ Goto(r, IF pc[r] = "inserted" THEN "created" ELSE "updated")
    /\ UNCHANGED <<registered, row, input, seen, before>>

\* The connection is lost before the answer to the COMMIT or to the refresh: an error is
\* answered, and the row keeps what was committed.
RefreshFails(r) ==
    /\ pc[r] \in CommittedLabel
    /\ Goto(r, IF pc[r] = "inserted" THEN "create_unconfirmed" ELSE "update_unconfirmed")
    /\ UNCHANGED <<registered, row, input, seen, before>>

\* A statement before the commit fails - an INSERT on the unique key or on a missing name,
\* any of them on the connection - and the answer is an error.
Fail(r) ==
    /\ pc[r] \in BeforeCommitLabel
    /\ Goto(r, "failed")
    /\ UNCHANGED <<registered, row, input, seen, before>>

Step(r) ==
    \/ \E label \in {"add", "update"}, columns \in Columns : Arrive(r, label, columns)
    \/ AlreadyRegistered(r) \/ NotRegistered(r) \/ Insert(r)
    \/ NotFound(r) \/ Load(r) \/ Write(r)
    \/ Refresh(r) \/ RefreshFails(r) \/ Fail(r)

Next == \E r \in Request : Step(r)

Spec == Init /\ [][Next]_vars

-----------------------------------------------------------------------------
\* The requests whose INSERT was committed, whatever they are answered.
Creators == {r \in Request : pc[r] \in {"inserted", "created", "create_unconfirmed"}}

\* The requests with a value for f whose commit went through, whatever they are answered.
Writers(f) == {r \in Request :
    (r \in Creators \/ pc[r] \in {"written", "updated", "update_unconfirmed"}) /\ input[r][f] # Unset}

(* No update is lost.  Each column holds the value of a request that       *)
(* committed it, and that had not ended before any other request that      *)
(* committed one came: requests that overlap may win over each other,      *)
(* column by column, but a value that was stored, whether its client was   *)
(* told so or got an error from the read after the commit, is only ever    *)
(* replaced by a later one, and never by a stale row.                      *)
NoLostUpdate == registered => \A f \in Field :
    \E w \in Writers(f) : input[w][f] = row[f] /\ \A u \in Writers(f) : w \notin before[u]

(* Of racing registrations one creates the device, and the others fail or  *)
(* are told that it exists; none replaces it.  One that failed on reading  *)
(* back what it created counts: no retry creates the device again.         *)
FirstAddWins == \A a, b \in Creators : a = b

(* An update only misses the device ("Device not found, skip update") if   *)
(* nobody had seen it registered before it came: no request that created   *)
(* it, found it or changed it had ended.                                   *)
RegisteredIsFound == \A r \in Request : pc[r] = "not_found" =>
    \A q \in before[r] : pc[q] \notin {"created", "existing", "updated"} \cup UnconfirmedLabel

(* A device is registered once and for all: one registration creates it,   *)
(* and nobody who comes after one that knew of it is told it is not there. *)
RegisteredOnce == FirstAddWins /\ RegisteredIsFound
=============================================================================
