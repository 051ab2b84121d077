------------------------ MODULE DeviceRegistryProofs ------------------------
(***************************************************************************)
(* Proofs about DeviceRegistry, for any requests and values.  What makes   *)
(* NoLostUpdate inductive is that its witness also survives the updates    *)
(* that are about to write: one that loaded a column before the column     *)
(* took its present value came before the witness had ended, and so may    *)
(* leave the column alone without hiding the witness.                      *)
(***************************************************************************)
EXTENDS DeviceRegistry, TLAPS

\* The requests that have seen the row in the table.
Knows(r) == pc[r] \in {"existing", "write", "written", "updated"} \cup UnconfirmedLabel
                     \/ r \in Creators

\* A request that may still end as a writer of a column it does not change.
Stale(u, f) == pc[u] = "write" /\ seen[u][f] # row[f]

Witness(w, f) ==
    /\ w \in Writers(f)
    /\ input[w][f] = row[f]
    /\ \A u \in Request : u \in Writers(f) \/ Stale(u, f) => w \notin before[u]

Inv ==
    /\ TypeOK
    /\ \A r \in Request :
          /\ before[r] \subseteq Ended
          /\ pc[r] \in {"add", "insert"} => input[r]["mode"] # Unset
          /\ Knows(r) => registered
    /\ FirstAddWins
    /\ RegisteredIsFound
    /\ registered => \A f \in Field : \E w \in Request : Witness(w, f)

LEMMA InitInv == Init => Inv
<1> SUFFICES ASSUME Init PROVE Inv
  OBVIOUS
<1>1. NoColumns \in Columns
  BY DEF NoColumns, Columns
<1> QED
  BY <1>1 DEF Init, Inv, TypeOK, FirstAddWins, RegisteredIsFound, Knows, Creators, UnconfirmedLabel

LEMMA ArriveStep ==
    ASSUME Inv, NEW r \in Request, NEW label \in {"add", "update"}, NEW columns \in Columns,
           Arrive(r, label, columns)
    PROVE  Inv'
<1> USE DEF Arrive, Goto
<1>1. /\ pc[r] = "idle" /\ pc'[r] = label
      /\ \A q \in Request \ {r} : pc'[q] = pc[q] /\ input'[q] = input[q] /\ before'[q] = before[q]
      /\ before'[r] = Ended /\ Ended' = Ended
      /\ registered' = registered /\ row' = row /\ seen' = seen
  BY DEF Inv, TypeOK, Ended, EndLabel, UnconfirmedLabel
<1>2. input'[r] \in Columns /\ (label = "add" => input'[r]["mode"] # Unset)
  BY RegistryAssumption DEF Inv, TypeOK, Columns, Field
<1>3. TypeOK'
  BY <1>1, <1>2 DEF Inv, TypeOK, BeforeCommitLabel, Ended
<1>4. ASSUME NEW q \in Request
      PROVE  /\ before'[q] \subseteq Ended'
             /\ pc'[q] \in {"add", "insert"} => input'[q]["mode"] # Unset
             /\ Knows(q)' => registered'
  BY <1>1, <1>2 DEF Inv, Knows, Creators, UnconfirmedLabel
<1>5. FirstAddWins'
  BY <1>1 DEF Inv, FirstAddWins, Creators
<1>6. RegisteredIsFound'
  BY <1>1 DEF Inv, RegisteredIsFound, Ended, UnconfirmedLabel
<1>7. \A f \in Field, w \in Request : Witness(w, f) => Witness(w, f)'
  BY <1>1 DEF Witness, Writers, Creators, Stale
<1> QED
  BY <1>1, <1>3, <1>4, <1>5, <1>6, <1>7 DEF Inv

(* Steps that leave the row and the writers alone.                         *)
LEMMA QuietStep ==
    ASSUME Inv, NEW r \in Request,
           AlreadyRegistered(r) \/ NotRegistered(r) \/ NotFound(r) \/ Load(r)
             \/ Refresh(r) \/ RefreshFails(r) \/ Fail(r)
    PROVE  Inv'
<1> USE DEF Goto, UnconfirmedLabel
<1>1. /\ pc[r] \in BeforeCommitLabel \cup CommittedLabel
      /\ pc'[r] \in {"insert", "write"} \cup EndLabel
      /\ pc'[r] \in {"existing", "write"} => registered
      /\ pc'[r] = "insert" => pc[r] = "add"
      /\ pc'[r] = "not_found" => ~registered
      /\ pc'[r] = "write" => seen'[r] = row
      /\ pc[r] = "inserted" <=> pc'[r] \in {"created", "create_unconfirmed"}
      /\ pc[r] = "written" <=> pc'[r] \in {"updated", "update_unconfirmed"}
      /\ registered' = registered /\ row' = row /\ input' = input /\ before' = before
      /\ \A q \in Request \ {r} : pc'[q] = pc[q] /\ seen'[q] = seen[q]
  BY DEF AlreadyRegistered, NotRegistered, NotFound, Load, Refresh, RefreshFails, Fail, Inv,
         TypeOK, BeforeCommitLabel, CommittedLabel, EndLabel
<1>2. TypeOK'
  <2>1. pc' \in [Request -> {"idle"} \cup BeforeCommitLabel \cup CommittedLabel \cup EndLabel]
    BY <1>1 DEF Inv, TypeOK, BeforeCommitLabel, EndLabel, AlreadyRegistered, NotRegistered,
                NotFound, Load, Refresh, RefreshFails, Fail
  <2>2. registered => row \in Columns
    BY DEF Inv, TypeOK, Columns
  <2>3. seen' \in [Request -> Columns]
    BY <2>2 DEF Inv, TypeOK, AlreadyRegistered, NotRegistered, NotFound, Load, Refresh,
                RefreshFails, Fail
  <2> QED
    BY <1>1, <2>1, <2>3 DEF Inv, TypeOK
<1>3. Ended \subseteq Ended' /\ r \notin Ended
  BY <1>1 DEF Ended, EndLabel, BeforeCommitLabel, CommittedLabel
<1>4. Creators' = Creators /\ \A f \in Field : Writers(f)' = Writers(f)
  BY <1>1 DEF Creators, Writers, BeforeCommitLabel, CommittedLabel, EndLabel
<1>5. ASSUME NEW q \in Request
      PROVE  /\ before'[q] \subseteq Ended'
             /\ pc'[q] \in {"add", "insert"} => input'[q]["mode"] # Unset
             /\ Knows(q)' => registered'
  <2>1. before'[q] \subseteq Ended' /\ (pc'[q] \in {"add", "insert"} => input'[q]["mode"] # Unset)
    BY <1>1, <1>3 DEF Inv, EndLabel
  <2>2. CASE q = r
    <3>1. Knows(r)' => Knows(r) \/ pc'[r] \in {"existing", "write"}
      BY <1>1, <1>4 DEF Knows, Creators, EndLabel, BeforeCommitLabel, CommittedLabel
    <3> QED
      BY <1>1, <2>1, <2>2, <3>1 DEF Inv
  <2>3. CASE q # r
    BY <1>1, <1>4, <2>1, <2>3 DEF Inv, Knows
  <2> QED
    BY <2>2, <2>3
<1>6. FirstAddWins'
  BY <1>4 DEF Inv, FirstAddWins
<1>7. RegisteredIsFound'
  <2> SUFFICES ASSUME NEW p \in Request, pc'[p] = "not_found", NEW q \in before[p]
               PROVE  pc'[q] \notin {"created", "existing", "updated"} \cup UnconfirmedLabel
    BY <1>1 DEF RegisteredIsFound
  <2>1. q \in Ended /\ q \in Request
    BY DEF Inv, Ended
  <2>2. q # r
    BY <1>3, <2>1
  <2>3. CASE p = r
    BY <1>1, <2>1, <2>2, <2>3 DEF Inv, Knows, Creators
  <2>4. CASE p # r
    BY <1>1, <2>1, <2>2, <2>4 DEF Inv, RegisteredIsFound
  <2> QED
    BY <2>3, <2>4
<1>8. \A f \in Field, w \in Request : Witness(w, f) => Witness(w, f)'
  BY <1>1, <1>4 DEF Witness, Stale
<1> QED
  BY <1>1, <1>2, <1>5, <1>6, <1>7, <1>8 DEF Inv

LEMMA InsertStep == ASSUME Inv, NEW r \in Request, Insert(r) PROVE Inv'
<1> USE DEF Insert, Goto
<1>1. /\ pc[r] = "insert" /\ ~registered /\ registered' /\ pc'[r] = "inserted"
      /\ row' = input[r] /\ input' = input /\ before' = before /\ seen' = seen
      /\ \A q \in Request \ {r} : pc'[q] = pc[q]
  BY DEF Inv, TypeOK
<1>2. \A f \in Field : input[r][f] \in Value
  BY DEF Inv, TypeOK, Columns, Field
<1>3. \A q \in Request : ~Knows(q)
  BY <1>1 DEF Inv
<1>4. TypeOK'
  BY <1>1, <1>2 DEF Inv, TypeOK, CommittedLabel, Columns
<1>5. Ended \subseteq Ended' /\ r \notin Ended
  BY <1>1 DEF Ended, EndLabel, UnconfirmedLabel
<1>6. ASSUME NEW q \in Request
      PROVE  /\ before'[q] \subseteq Ended'
             /\ pc'[q] \in {"add", "insert"} => input'[q]["mode"] # Unset
             /\ Knows(q)' => registered'
  BY <1>1, <1>5 DEF Inv
<1>7. FirstAddWins'
  BY <1>1, <1>3 DEF FirstAddWins, Creators, Knows
<1>8. RegisteredIsFound'
  BY <1>1, <1>3, <1>5 DEF Inv, RegisteredIsFound, Ended, Knows, Creators, UnconfirmedLabel
<1>9. \A f \in Field : Witness(r, f)'
  BY <1>1, <1>2, <1>5, RegistryAssumption DEF Inv, Witness, Writers, Creators
<1> QED
  BY <1>4, <1>6, <1>7, <1>8, <1>9 DEF Inv

LEMMA WriteStep == ASSUME Inv, NEW r \in Request, Write(r) PROVE Inv'
<1> USE DEF Write, Goto
<1>1. /\ pc[r] = "write" /\ pc'[r] = "written" /\ registered /\ registered' = registered
      /\ input' = input /\ before' = before /\ seen' = seen
      /\ \A q \in Request \ {r} : pc'[q] = pc[q]
  BY DEF Inv, TypeOK, Knows
<1>2. \A f \in Field : row'[f] = IF Changes(r, f) THEN input[r][f] ELSE row[f]
  OBVIOUS
<1>3. \A f \in Field : row[f] \in Value /\ input[r][f] \in Value \cup {Unset}
  BY <1>1 DEF Inv, TypeOK, Columns
<1>4. row' \in [Field -> Value]
  BY <1>3 DEF Changes
<1>5. TypeOK'
  BY <1>1, <1>4 DEF Inv, TypeOK, CommittedLabel
<1>6. Ended \subseteq Ended' /\ r \notin Ended
  BY <1>1 DEF Ended, EndLabel, UnconfirmedLabel
<1>7. \A q \in Request : r \notin before[q]
  BY <1>6 DEF Inv
<1>8. ASSUME NEW q \in Request
      PROVE  /\ before'[q] \subseteq Ended'
             /\ pc'[q] \in {"add", "insert"} => input'[q]["mode"] # Unset
             /\ Knows(q)' => registered'
  BY <1>1, <1>6 DEF Inv, Knows, Creators, UnconfirmedLabel
<1>9. FirstAddWins' /\ RegisteredIsFound'
  BY <1>1, <1>7 DEF Inv, FirstAddWins, RegisteredIsFound, Creators, UnconfirmedLabel
<1>10. ASSUME NEW f \in Field PROVE \E w \in Request : Witness(w, f)'
  <2>1. CASE input[r][f] # Unset /\ input[r][f] = row'[f]
    <3>1. Witness(r, f)'
      BY <1>1, <1>7, <2>1 DEF Witness, Writers, Creators
    <3> QED
      BY <3>1
  <2>2. CASE ~(input[r][f] # Unset /\ input[r][f] = row'[f])
    <3>1. PICK w \in Request : Witness(w, f)
      BY <1>1 DEF Inv
    <3>2. row'[f] = row[f] /\ (input[r][f] # Unset => Stale(r, f))
      BY <1>1, <1>2, <2>2 DEF Changes, Stale
    <3>3. Witness(w, f)'
      BY <1>1, <3>1, <3>2 DEF Witness, Writers, Creators, Stale
    <3> QED
      BY <3>3
  <2> QED
    BY <2>1, <2>2
<1> QED
  BY <1>5, <1>8, <1>9, <1>10 DEF Inv

LEMMA InvStep == ASSUME Inv, [Next]_vars PROVE Inv'
<1>1. CASE UNCHANGED vars
  BY <1>1 DEF vars, Inv, TypeOK, Ended, FirstAddWins, RegisteredIsFound,
              Witness, Writers, Creators, Knows, Stale
<1>2. CASE Next
  BY <1>2, ArriveStep, QuietStep, InsertStep, WriteStep DEF Next, Step
<1> QED
  BY <1>1, <1>2

(* The inductive invariant of the registry.                                *)
THEOREM RegistryInvariant == Spec => []Inv
  BY InitInv, InvStep, PTL DEF Spec

(* Type correctness: a registered device has all of its columns.           *)
THEOREM RegistryTypeOK == Spec => []TypeOK
<1>1. Inv => TypeOK
  BY DEF Inv
<1> QED
  BY RegistryInvariant, <1>1, PTL

(* However many updates overlap, none is lost to an older one.             *)
THEOREM RegistryNoLostUpdate == Spec => []NoLostUpdate
<1>1. Inv => NoLostUpdate
  BY DEF Inv, NoLostUpdate, Witness, Writers
<1> QED
  BY RegistryInvariant, <1>1, PTL

(* However many registrations race, one creates the device, and the device *)
(* is found from then on.                                                  *)
THEOREM RegistryRegisteredOnce == Spec => []RegisteredOnce
<1>1. Inv => RegisteredOnce
  BY DEF Inv, RegisteredOnce
<1> QED
  BY RegistryInvariant, <1>1, PTL
=============================================================================
