------------------------ MODULE DeviceBindingProofs ------------------------
(***************************************************************************)
(* Proofs about DeviceBinding, for any requests, users and devices: what   *)
(* racing binds cannot lose, and what a device whose requests follow each  *)
(* other is guaranteed.                                                    *)
(***************************************************************************)
EXTENDS DeviceBinding, TLAPS

\* A request acts on rows of its own device only.
OnItsDevice(r) ==
    /\ pc[r] = "idle" => device[r] = NoDevice /\ rows[r] = "none"
    /\ pc[r] # "idle" => device[r] \in Device
    /\ pc[r] = "bind" => rows[r] = "none"
    /\ pc[r] = "release" => victim[r] # r
    /\ pc[r] \in {"release", "remove"} => device[victim[r]] = device[r] /\ rows[victim[r]] # "none"

Inv ==
    /\ TypeOK
    /\ \A r \in Request : OnItsDevice(r)
    /\ BoundStaysBound

LEMMA InitInv == Init => Inv
  BY DEF Init, Inv, TypeOK, OnItsDevice, BoundStaysBound, HasReleased, BindLabel, UnbindLabel

LEMMA ArriveStep ==
    ASSUME Inv, NEW r \in Request, NEW u \in User, NEW d \in Device,
           NEW label \in {"bind", "unbind"}, Arrive(r, u, d, label)
    PROVE  Inv'
<1> USE DEF Arrive, Goto
<1>1. TypeOK'
  BY DEF Inv, TypeOK, BindLabel, UnbindLabel
<1>2. \A q \in Request : OnItsDevice(q)'
  <2> TAKE q \in Request
  <2>1. victim[q] \in Request
    BY DEF Inv, TypeOK
  <2>2. CASE q = r
    BY <2>2 DEF Inv, TypeOK, OnItsDevice
  <2>3. CASE q # r
    BY <2>1, <2>3, BindingAssumption DEF Inv, TypeOK, OnItsDevice
  <2> QED
    BY <2>2, <2>3
<1>3. BoundStaysBound'
  <2>1. rows[r] = "none" /\ device[r] = NoDevice /\ pc[r] = "idle"
    BY DEF Inv, OnItsDevice
  <2> QED
    BY <2>1, BindingAssumption DEF Inv, TypeOK, BoundStaysBound, HasReleased, ActiveRows, BindLabel
<1> QED
  BY <1>1, <1>2, <1>3 DEF Inv

LEMMA BindStep == ASSUME Inv, NEW r \in Request, Bind(r) PROVE Inv'
<1> USE DEF Goto, ActiveRows, RowsOf
<1>0. device[r] \in Device /\ pc[r] \in {"bind", "release", "insert", "inserted"}
  BY DEF Inv, OnItsDevice, Bind, AlreadyBound, BoundToOther, NotBound, Release, Insert, Refresh
<1>1. CASE AlreadyBound(r)
  BY <1>0, <1>1 DEF AlreadyBound, Inv, TypeOK, OnItsDevice, BoundStaysBound, HasReleased, BindLabel
<1>2. CASE BoundToOther(r)
  <2> USE <1>0, <1>2 DEF BoundToOther
  <2>1. TypeOK'
    BY DEF Inv, TypeOK, BindLabel
  <2>2. \A q \in Request : OnItsDevice(q)'
    BY DEF Inv, TypeOK, OnItsDevice
  <2>3. BoundStaysBound'
    BY DEF Inv, TypeOK, BoundStaysBound, HasReleased, BindLabel
  <2> QED
    BY <2>1, <2>2, <2>3 DEF Inv
<1>3. CASE NotBound(r)
  BY <1>0, <1>3 DEF NotBound, Inv, TypeOK, OnItsDevice, BoundStaysBound, HasReleased, BindLabel
<1>4. CASE Release(r)
  <2> USE <1>0, <1>4 DEF Release
  <2>1. TypeOK'
    BY DEF Inv, TypeOK, BindLabel
  <2>2. \A q \in Request : OnItsDevice(q)'
    BY BindingAssumption DEF Inv, TypeOK, OnItsDevice
  <2>3. /\ device[victim[r]] = device[r] /\ device' = device
        /\ pc'[r] = "insert" /\ victim'[r] # r
        /\ \A q \in Request \ {r} : pc'[q] = pc[q] /\ victim'[q] = victim[q]
    BY DEF Inv, TypeOK, OnItsDevice
  <2>4. \A d \in Device \ {device[r]} : ActiveRows(d)' = ActiveRows(d)
    BY <2>3 DEF Inv, TypeOK
  <2>5. ASSUME NEW d \in Device \ {device[r]}, NEW q \in Request,
               device[q] = d, rows'[q] # "none"
        PROVE  rows[q] # "none"
    BY <2>3, <2>5 DEF Inv, TypeOK
  <2>6. BoundStaysBound'
    BY <2>3, <2>4, <2>5 DEF Inv, BoundStaysBound, HasReleased
  <2> QED
    BY <2>1, <2>2, <2>6 DEF Inv
<1>5. CASE Insert(r)
  <2> USE <1>0, <1>5 DEF Insert
  <2>1. TypeOK'
    BY DEF Inv, TypeOK, BindLabel
  <2>2. \A q \in Request : OnItsDevice(q)'
    BY DEF Inv, TypeOK, OnItsDevice
  <2>3. r \in ActiveRows(device[r])'
    BY DEF Inv, TypeOK
  <2>4. BoundStaysBound'
    BY <2>3 DEF Inv, TypeOK, BoundStaysBound, HasReleased, BindLabel
  <2> QED
    BY <2>1, <2>2, <2>4 DEF Inv
<1>6. CASE Refresh(r)
  BY <1>0, <1>6 DEF Refresh, Inv, TypeOK, OnItsDevice, BoundStaysBound, HasReleased, BindLabel
<1> QED
  BY <1>1, <1>2, <1>3, <1>4, <1>5, <1>6 DEF Bind

LEMMA UnbindStep ==
    ASSUME Inv, NEW r \in Request, Unbind(r) \/ Abort(r) \/ CommitUnanswered(r)
    PROVE  Inv'
<1> USE DEF Goto, ActiveRows, RowsOf
<1>0. device[r] \in Device /\ pc[r] # "idle"
  BY DEF Inv, OnItsDevice, Unbind, WasNotBound, FindOwn, Remove, Abort, CommitUnanswered, InFlightLabel
<1>1. CASE WasNotBound(r)
  BY <1>0, <1>1 DEF WasNotBound, Inv, TypeOK, OnItsDevice, BoundStaysBound, HasReleased, BindLabel, UnbindLabel
<1>2. CASE FindOwn(r)
  <2> USE <1>0, <1>2 DEF FindOwn
  <2>1. TypeOK'
    BY DEF Inv, TypeOK, UnbindLabel
  <2>2. \A q \in Request : OnItsDevice(q)'
    BY DEF Inv, TypeOK, OnItsDevice
  <2>3. BoundStaysBound'
    BY DEF Inv, TypeOK, BoundStaysBound, HasReleased, BindLabel
  <2> QED
    BY <2>1, <2>2, <2>3 DEF Inv
<1>3. CASE Remove(r) \/ CommitUnanswered(r)
  <2> USE <1>0, <1>3 DEF Remove, CommitUnanswered
  <2>1. TypeOK'
    BY DEF Inv, TypeOK, BindLabel, UnbindLabel
  <2>2. \A q \in Request : OnItsDevice(q)'
    BY BindingAssumption DEF Inv, TypeOK, OnItsDevice
  <2>3. /\ device[victim[r]] = device[r] /\ device' = device
        /\ \/ pc'[r] \in {"unbound", "remove_unconfirmed"}
           \/ pc'[r] = "cut_short" /\ victim'[r] # r
    BY DEF Inv, TypeOK, OnItsDevice
  <2>4. \A d \in Device \ {device[r]} : ActiveRows(d)' = ActiveRows(d)
    BY <2>3 DEF Inv, TypeOK
  <2>5. ASSUME NEW d \in Device \ {device[r]}, NEW q \in Request,
               device[q] = d, rows'[q] # "none"
        PROVE  rows[q] # "none"
    BY <2>3, <2>5 DEF Inv, TypeOK
  <2>6. \A q \in Request \ {r} : pc'[q] = pc[q] /\ victim'[q] = victim[q]
    BY DEF Inv, TypeOK
  <2>7. BoundStaysBound'
    BY <2>3, <2>4, <2>5, <2>6 DEF Inv, BoundStaysBound, HasReleased
  <2> QED
    BY <2>1, <2>2, <2>7 DEF Inv
<1>4. CASE Abort(r)
  <2> USE <1>0, <1>4 DEF Abort
  <2>1. TypeOK'
    BY DEF Inv, TypeOK, BindLabel
  <2>2. \A q \in Request : OnItsDevice(q)'
    BY DEF Inv, TypeOK, OnItsDevice
  <2>3. /\ rows' = rows /\ device' = device /\ victim' = victim
        /\ \A q \in Request \ {r} : pc'[q] = pc[q]
        /\ pc[r] = "insert" => pc'[r] = "cut_short"
        /\ pc[r] \notin {"cut_short", "unbound", "remove_unconfirmed"}
    BY DEF Inv, TypeOK, InFlightLabel
  <2>4. BoundStaysBound'
    BY <2>3 DEF Inv, BoundStaysBound, HasReleased
  <2> QED
    BY <2>1, <2>2, <2>4 DEF Inv
<1> QED
  BY <1>1, <1>2, <1>3, <1>4 DEF Unbind

LEMMA InvStep == ASSUME Inv, [Next]_vars PROVE Inv'
<1>1. CASE UNCHANGED vars
  BY <1>1 DEF vars, Inv, TypeOK, OnItsDevice, BoundStaysBound, HasReleased, ActiveRows
<1>2. CASE Next
  BY <1>2, ArriveStep, BindStep, UnbindStep DEF Next
<1> QED
  BY <1>1, <1>2

(* Type correctness of the table and of the requests.                      *)
THEOREM BindingTypeOK == Spec => []TypeOK
<1>1. Inv => TypeOK
  BY DEF Inv
<1> QED
  BY InitInv, InvStep, <1>1, PTL DEF Spec

(* However requests race and fail, only an unbind or a bind cut short      *)
(* between its two commits leaves a bound device with nobody.              *)
THEOREM BindingNeverLost == Spec => []BoundStaysBound
<1>1. Inv => BoundStaysBound
  BY DEF Inv
<1> QED
  BY InitInv, InvStep, <1>1, PTL DEF Spec

-----------------------------------------------------------------------------
(* Devices whose requests follow each other.  The only request under way   *)
(* still sees when it writes what it saw when it read.                     *)
SeesTruth(r) == device[r] \notin raced =>
    /\ pc[r] \in {"release", "remove"} => ActiveRows(device[r]) \subseteq {victim[r]}
    /\ pc[r] = "insert" => ActiveRows(device[r]) = {}
    /\ pc[r] = "inserted" => ActiveRows(device[r]) = {r}

Alone == \A a, b \in Request :
    /\ {pc[a], pc[b]} \subseteq InFlightLabel
    /\ device[a] = device[b]
    /\ device[a] \notin raced
    => a = b

SerialInv ==
    /\ Inv
    /\ Alone
    /\ OneBindingUnlessRaced
    /\ \A r \in Request : SeesTruth(r)

LEMMA InitSerialInv == Init => SerialInv
<1> SUFFICES ASSUME Init PROVE SerialInv
  OBVIOUS
<1>1. Alone /\ OneBindingUnlessRaced /\ \A r \in Request : SeesTruth(r)
  BY DEF Init, Alone, InFlightLabel, OneBindingUnlessRaced, ActiveRows, SeesTruth
<1> QED
  BY <1>1, InitInv DEF SerialInv

(* A request that arrives finds nobody under way, or marks its device.     *)
LEMMA ArriveSerial ==
    ASSUME SerialInv, NEW r \in Request, NEW u \in User, NEW d \in Device,
           NEW label \in {"bind", "unbind"}, Arrive(r, u, d, label)
    PROVE  Alone' /\ OneBindingUnlessRaced' /\ \A q \in Request : SeesTruth(q)'
<1> USE DEF Arrive, Goto
<1>1. rows[r] = "none" /\ pc[r] = "idle" /\ device[r] = NoDevice
  BY DEF SerialInv, Inv, OnItsDevice
<1>2. /\ pc'[r] = label /\ device'[r] = d /\ rows' = rows /\ victim' = victim
      /\ \A q \in Request \ {r} : pc'[q] = pc[q] /\ device'[q] = device[q]
  BY DEF SerialInv, Inv, TypeOK
<1>3. raced \subseteq raced' /\ (InFlight(d) # {} => d \in raced')
  OBVIOUS
<1>4. \A e \in Device : ActiveRows(e)' = ActiveRows(e)
  BY <1>1, <1>2, BindingAssumption DEF ActiveRows
<1>5. Alone'
  BY <1>2, <1>3 DEF SerialInv, Alone, InFlight
<1>6. OneBindingUnlessRaced'
  BY <1>3, <1>4 DEF SerialInv, OneBindingUnlessRaced
<1>7. ASSUME NEW q \in Request PROVE SeesTruth(q)'
  <2>1. CASE q = r
    BY <1>2, <2>1 DEF SeesTruth
  <2>2. CASE q # r
    <3>1. pc[q] # "idle" => device[q] \in Device
      BY DEF SerialInv, Inv, OnItsDevice
    <3>2. pc[q] # "idle" => ActiveRows(device[q])' = ActiveRows(device[q])
      BY <1>1, <1>2, <2>2, <3>1, BindingAssumption DEF ActiveRows
    <3> QED
      BY <1>2, <1>3, <2>2, <3>2 DEF SerialInv, SeesTruth
  <2> QED
    BY <2>1, <2>2
<1> QED
  BY <1>5, <1>6, <1>7

(* A step of a request touches rows of its own device only, and there no   *)
(* other request is under way.                                             *)
LEMMA RequestSerial ==
    ASSUME SerialInv, NEW r \in Request,
           Bind(r) \/ Unbind(r) \/ Abort(r) \/ CommitUnanswered(r)
    PROVE  Alone' /\ OneBindingUnlessRaced' /\ \A q \in Request : SeesTruth(q)'
<1> USE DEF Goto
<1>1. /\ pc[r] \in InFlightLabel /\ device[r] \in Device /\ victim[r] \in Request
      /\ device' = device /\ raced' = raced
      /\ \A q \in Request \ {r} : pc'[q] = pc[q] /\ victim'[q] = victim[q]
      /\ \A q \in Request : device[q] # device[r] => rows'[q] = rows[q]
  BY DEF SerialInv, Inv, TypeOK, OnItsDevice, Bind, AlreadyBound, BoundToOther, NotBound, Release,
         Insert, Refresh, Unbind, WasNotBound, FindOwn, Remove, Abort, CommitUnanswered, InFlightLabel
<1>2. \A d \in Device \ {device[r]} : ActiveRows(d)' = ActiveRows(d)
  BY <1>1 DEF ActiveRows
<1>3. Alone'
  BY <1>1 DEF SerialInv, Alone
<1>4. ASSUME NEW q \in Request \ {r} PROVE SeesTruth(q)'
  <2>1. CASE device[q] = device[r] /\ device[r] \notin raced
    <3>1. pc'[q] \notin InFlightLabel
      BY <1>1, <2>1 DEF SerialInv, Alone
    <3> QED
      BY <3>1 DEF SeesTruth, InFlightLabel
  <2>2. CASE device[q] # device[r]
    <3>1. pc[q] # "idle" => ActiveRows(device[q])' = ActiveRows(device[q])
      BY <1>1, <2>2 DEF ActiveRows
    <3> QED
      BY <1>1, <3>1 DEF SerialInv, SeesTruth
  <2>3. CASE device[q] = device[r] /\ device[r] \in raced
    BY <1>1, <2>3 DEF SeesTruth
  <2> QED
    BY <2>1, <2>2, <2>3
<1>5. SeesTruth(r)' /\ OneBindingUnlessRaced'
  <2> SUFFICES ASSUME device[r] \notin raced
               PROVE  SeesTruth(r)' /\ \A a, b \in ActiveRows(device[r])' : a = b
    BY <1>1, <1>2 DEF SerialInv, SeesTruth, OneBindingUnlessRaced
  <2>0. \A a, b \in ActiveRows(device[r]) : a = b
    BY <1>1 DEF SerialInv, OneBindingUnlessRaced
  <2> USE <1>1 DEF SerialInv, Inv, TypeOK, ActiveRows, RowsOf
  <2>1. CASE AlreadyBound(r) \/ NotBound(r) \/ WasNotBound(r) \/ Abort(r)
    BY <2>0, <2>1 DEF AlreadyBound, NotBound, WasNotBound, Abort, SeesTruth
  <2>2. CASE BoundToOther(r) \/ FindOwn(r)
    BY <2>0, <2>2 DEF BoundToOther, FindOwn, SeesTruth
  <2>3. CASE Release(r) \/ Remove(r) \/ CommitUnanswered(r)
    <3>1. ActiveRows(device[r]) \subseteq {victim[r]}
      BY <2>3 DEF Release, Remove, CommitUnanswered, SeesTruth
    <3>2. ActiveRows(device[r])' = {}
      BY <2>3, <3>1 DEF Release, Remove, CommitUnanswered
    <3> QED
      BY <2>3, <3>2 DEF Release, Remove, CommitUnanswered, SeesTruth
  <2>4. CASE Insert(r)
    <3>1. ActiveRows(device[r]) = {}
      BY <2>4 DEF Insert, SeesTruth
    <3>2. ActiveRows(device[r])' = {r}
      BY <2>4, <3>1 DEF Insert
    <3> QED
      BY <2>4, <3>2 DEF Insert, SeesTruth
  <2>5. CASE Refresh(r)
    <3>1. ActiveRows(device[r]) = {r} /\ ActiveRows(device[r])' = {r}
      BY <2>5 DEF Refresh, SeesTruth
    <3> QED
      BY <2>5, <3>1 DEF Refresh, SeesTruth
  <2> QED
    BY <2>1, <2>2, <2>3, <2>4, <2>5 DEF Bind, Unbind
<1> QED
  BY <1>3, <1>4, <1>5

LEMMA SerialStep == ASSUME SerialInv, [Next]_vars PROVE SerialInv'
<1>1. Inv'
  BY InvStep DEF SerialInv
<1>2. CASE UNCHANGED vars
  BY <1>1, <1>2 DEF SerialInv, vars, Alone, OneBindingUnlessRaced, ActiveRows, SeesTruth
<1>3. CASE Next
  BY <1>1, <1>3, ArriveSerial, RequestSerial DEF Next, SerialInv
<1> QED
  BY <1>2, <1>3

(* Whatever requests die half-way, a device whose requests did not race is *)
(* bound to at most one user, once.                                        *)
THEOREM BindingUnique == Spec => []OneBindingUnlessRaced
<1>1. SerialInv => OneBindingUnlessRaced
  BY DEF SerialInv
<1> QED
  BY InitSerialInv, SerialStep, <1>1, PTL DEF Spec

-----------------------------------------------------------------------------
\* Without races a bind answered "bound" hands the device to its caller.
LEMMA BindIsTrue == ASSUME SerialInv, Next PROVE BindAnswered
<1> SUFFICES ASSUME NEW r \in Request,
                    pc[r] # "bound", pc'[r] = "bound", device[r] \notin raced
             PROVE  \E q \in Request : ActiveRows(device[r])' = {q} /\ user'[q] = user[r]
  BY DEF BindAnswered
<1> USE DEF SerialInv, Inv, TypeOK, Goto
<1>1. AlreadyBound(r) \/ Refresh(r)
  BY DEF Next, Arrive, Bind, AlreadyBound, BoundToOther, NotBound, Release, Insert, Refresh, Unbind,
         WasNotBound, FindOwn, Remove, Abort, CommitUnanswered
<1>2. device[r] \in Device
  BY <1>1 DEF AlreadyBound, Refresh, OnItsDevice
<1>3. CASE AlreadyBound(r)
  <2>1. PICK q \in RowsOf(user[r], device[r]) : TRUE
    BY <1>3 DEF AlreadyBound
  <2>2. q \in Request /\ q \in ActiveRows(device[r]) /\ user[q] = user[r]
    BY <2>1 DEF RowsOf, ActiveRows
  <2>3. ActiveRows(device[r]) = {q}
    BY <1>2, <2>2 DEF OneBindingUnlessRaced
  <2>4. ActiveRows(device[r])' = ActiveRows(device[r])
    BY <1>3 DEF AlreadyBound, ActiveRows
  <2> QED
    BY <1>3, <2>2, <2>3, <2>4 DEF AlreadyBound
<1>4. CASE Refresh(r)
  <2>1. ActiveRows(device[r]) = {r}
    BY <1>4 DEF Refresh, SeesTruth
  <2>2. ActiveRows(device[r])' = {r}
    BY <1>4, <2>1 DEF Refresh, ActiveRows
  <2> QED
    BY <1>4, <2>2 DEF Refresh
<1> QED
  BY <1>1, <1>3, <1>4

\* Without races an unbind answered "unbound" leaves its caller without it.
LEMMA UnbindIsTrue == ASSUME SerialInv, Next PROVE UnbindAnswered
<1> SUFFICES ASSUME NEW r \in Request,
                    pc[r] # "unbound", pc'[r] = "unbound", device[r] \notin raced
             PROVE  RowsOf(user[r], device[r])' = {}
  BY DEF UnbindAnswered
<1> USE DEF SerialInv, Inv, TypeOK, ActiveRows, RowsOf, Goto
<1>1. Remove(r)
  BY DEF Next, Arrive, Bind, AlreadyBound, BoundToOther, NotBound, Release, Insert, Refresh, Unbind,
         WasNotBound, FindOwn, Remove, Abort, CommitUnanswered
<1>2. ActiveRows(device[r]) \subseteq {victim[r]}
  BY <1>1 DEF Remove, SeesTruth
<1> QED
  BY <1>1, <1>2 DEF Remove

(* Without races "bound" and "unbound" are true answers, for any number of *)
(* requests, users and devices.                                            *)
THEOREM BindingAnswersAreTrue == Spec => AnswersAreTrue
<1>1. SerialInv /\ [Next]_vars => [BindAnswered /\ UnbindAnswered]_vars
  BY BindIsTrue, UnbindIsTrue
<1> QED
  BY InitSerialInv, SerialStep, <1>1, PTL DEF Spec, AnswersAreTrue
=============================================================================
