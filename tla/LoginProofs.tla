---------------------------- MODULE LoginProofs ----------------------------
(***************************************************************************)
(* Proofs about Login, for any requests, persons and sources.              *)
(*                                                                         *)
(* The argument: a request's transaction holds nothing, an account that is *)
(* already in the tables, or a new account whose person has no row yet     *)
(* (Holds).  Row locks on an openid exclude each other (LocksExclude), so  *)
(* what a request read or inserted about its person is still true when it  *)
(* commits, and its commit keeps the tables in step.                       *)
(***************************************************************************)
EXTENDS Login, TLAPS

-----------------------------------------------------------------------------
(* The inductive invariant: what a request holds, label by label, and why  *)
(* the rows it is about to commit fit the tables.                          *)

\* an account that only ever existed inside this request's transaction
Ghost(r) == user[r] = r /\ r \notin users

OldAccount(r) ==
    /\ Stored(r)
    /\ txn[r].users = {} /\ txn[r].sources = {}
    /\ txn[r].stamped \subseteq {who[r]}

NewAccount(r) ==
    /\ Ghost(r)
    /\ ~Registered(who[r])
    /\ txn[r].users = {r} /\ txn[r].sources = {NewSource(r)}
    /\ txn[r].stamped = {}

MappingFits(r) ==
    /\ txn[r].mappings \subseteq {[userId |-> user[r], unionid |-> who[r]]}
    /\ txn[r].replaced \subseteq {[userId |-> user[r], unionid |-> NoUnionid]}

Holds(r) ==
    /\ pc[r] \in {"idle", "lookup", "create_user"} =>
          txn[r] = NoWrites /\ r \notin users /\ existing[r] = NoUnionid
    /\ pc[r] \notin {"idle", "failed"} => who[r] \in Person /\ source[r] \in Source
    /\ pc[r] = "create_source" =>
          Ghost(r) /\ txn[r] = [NoWrites EXCEPT !.users = {r}] /\ existing[r] = NoUnionid
    /\ pc[r] = "update_unionid" => Stored(r) /\ txn[r] = NoWrites /\ told[r]
    /\ pc[r] \in {"update_unionid", "ensure_mapping"} => existing[r] \in {NoUnionid, who[r]}
    /\ pc[r] = "ensure_mapping" =>
          /\ told[r] /\ ~txn[r].dead
          /\ txn[r].mappings = {} /\ txn[r].replaced = {}
    /\ pc[r] \in {"ensure_mapping", "commit"} /\ ~txn[r].dead =>
          (OldAccount(r) \/ NewAccount(r)) /\ MappingFits(r)
    /\ pc[r] \in {"commit", "respond", "done"} /\ txn[r].dead =>
          txn[r] = RolledBack /\ (Stored(r) \/ Ghost(r))
    /\ pc[r] \in {"respond", "done"} /\ txn[r].dead => user[r] = r
    /\ pc[r] \in {"respond", "done"} /\ ~txn[r].dead => Stored(r) /\ txn[r] = NoWrites
    /\ pc[r] = "failed" => txn[r] = NoWrites

LocksExclude == \A r, q \in Request : LockedBy(r) \cap LockedBy(q) # {} => r = q

Inv ==
    /\ TypeOK
    /\ AtomicRegistration
    /\ OneAccountPerPerson
    /\ TablesAgree
    /\ LocksExclude
    /\ \A r \in Request : Holds(r)

-----------------------------------------------------------------------------
\* what a step of another request leaves to q
Same(q) ==
    /\ pc'[q] = pc[q] /\ who'[q] = who[q] /\ source'[q] = source[q]
    /\ told'[q] = told[q] /\ user'[q] = user[q] /\ existing'[q] = existing[q]
    /\ txn'[q] = txn[q]

(* Whatever one request does without committing leaves the others alone.   *)
LEMMA QuietStep ==
    ASSUME Inv, TypeOK', NEW r \in Request, UNCHANGED tables,
           \A q \in Request \ {r} : Same(q),
           Holds(r)',
           \A q \in Request \ {r} : LockedBy(r)' \cap LockedBy(q) = {}
    PROVE  Inv'
<1>1. AtomicRegistration' /\ OneAccountPerPerson' /\ TablesAgree'
  BY DEF Inv, AtomicRegistration, OneAccountPerPerson, TablesAgree, tables
<1>2. \A q \in Request \ {r} : Holds(q)'
  BY DEF Inv, Holds, Same, tables, Stored, Ghost, OldAccount, NewAccount, MappingFits,
         Registered, NewSource
<1>3. \A q \in Request \ {r} : LockedBy(q)' = LockedBy(q)
  BY DEF Same, LockedBy
<1>4. LocksExclude'
  BY <1>3 DEF Inv, LocksExclude
<1> QED
  BY <1>1, <1>2, <1>4 DEF Inv

(* A request has locked nothing before its first write.                    *)
LEMMA NoLocks ==
    ASSUME NEW r \in Request, txn[r] = NoWrites \/ txn[r] = RolledBack
    PROVE  LockedBy(r) = {}
  BY DEF LockedBy, NoWrites, RolledBack

LEMMA InitInv == Init => Inv
<1> SUFFICES ASSUME Init PROVE Inv
  OBVIOUS
<1>1. TypeOK
  BY LoginAssumption DEF Init, TypeOK, UserId, SourceRow, MappingRow, Txn, NoWrites, Label
<1>2. AtomicRegistration /\ OneAccountPerPerson /\ TablesAgree
  <2>0. PICK old \in SUBSET Person : \E src \in [old -> Source], uid \in [old -> BOOLEAN] :
          /\ users = old
          /\ userSources = {[openid |-> p, source |-> src[p], userId |-> p,
                             unionid |-> IF uid[p] THEN p ELSE NoUnionid] : p \in old}
    BY DEF Init
  <2>1. PICK src \in [old -> Source], uid \in [old -> BOOLEAN] :
          /\ users = old
          /\ userSources = {[openid |-> p, source |-> src[p], userId |-> p,
                             unionid |-> IF uid[p] THEN p ELSE NoUnionid] : p \in old}
    BY <2>0
  <2>2. \A row \in userSources : row.openid = row.userId
                               /\ row.unionid \in {NoUnionid, row.openid}
                               /\ row.userId \in old
    BY <2>1
  <2>3. \A a, b \in userSources : a.userId = b.userId => a = b
    BY <2>1
  <2>4. users = {row.userId : row \in userSources}
    <3>1. \A p \in old : \E row \in userSources : row.userId = p
      <4> TAKE p \in old
      <4> DEFINE row == [openid |-> p, source |-> src[p], userId |-> p,
                         unionid |-> IF uid[p] THEN p ELSE NoUnionid]
      <4>1. row \in userSources /\ row.userId = p
        BY <2>1
      <4> QED
        BY <4>1
    <3> QED
      BY <2>1, <2>2, <3>1
  <2>5. mappings = {}
    BY DEF Init
  <2> QED
    BY <2>2, <2>3, <2>4, <2>5 DEF AtomicRegistration, OneAccountPerPerson, TablesAgree
<1>3. LocksExclude
  BY DEF Init, LocksExclude, LockedBy, NoWrites
<1>4. \A r \in Request : Holds(r)
  BY LoginAssumption DEF Init, Holds, NoWrites
<1> QED
  BY <1>1, <1>2, <1>3, <1>4 DEF Inv

(* The account a lookup finds is the caller's own.                         *)
LEMMA MappedIsOwn ==
    ASSUME Inv, NEW r \in Request, NEW u \in MappedUsers(r)
    PROVE  /\ u \in UserId
           /\ \E row \in userSources : row.userId = u /\ row.openid = who[r]
  BY DEF Inv, TypeOK, TablesAgree, MappedUsers, MappingRow

LEMMA SourceIsOwn ==
    ASSUME Inv, NEW r \in Request, who[r] \in Person,
           NEW row \in SourcesByUnionid(r) \cup SourcesByOpenid(r)
    PROVE  row \in userSources /\ row.openid = who[r] /\ row.userId \in UserId
  BY LoginAssumption
     DEF Inv, TypeOK, TablesAgree, SourcesByUnionid, SourcesByOpenid, SourceRow

(* update_unionid of the mapping repository is never called from the login:*)
(* the mapping of the account found, if any, names the caller's unionid.   *)
LEMMA MappingNeverRenamed ==
    ASSUME Inv, NEW row \in userSources, NEW e \in ExistingUnionids(row.userId)
    PROVE  e \in {NoUnionid, row.openid}
<1>1. ASSUME NEW m \in mappings, m.userId = row.userId
      PROVE  m.unionid = row.openid
  BY <1>1 DEF Inv, TablesAgree, AtomicRegistration
<1> QED
  BY <1>1 DEF ExistingUnionids

-----------------------------------------------------------------------------
(* One lemma per action: a step of request r preserves the invariant.      *)

LEMMA ArriveStep == ASSUME Inv, NEW r \in Request, Arrive(r) PROVE Inv'
<1>1. ASSUME NEW p \in Person, NEW s \in Source, NEW t \in BOOLEAN, Code2Session(r, p, s, t)
      PROVE  Inv'
  <2> USE <1>1 DEF Code2Session, Goto, tables
  <2>1. TypeOK'
    BY DEF Inv, TypeOK, Label
  <2>2. Holds(r)'
    BY DEF Inv, TypeOK, Holds
  <2>3. \A q \in Request \ {r} : Same(q)
    BY DEF Inv, TypeOK, Same
  <2>4. \A q \in Request \ {r} : LockedBy(r)' \cap LockedBy(q) = {}
    BY NoLocks DEF Inv, Holds, LockedBy
  <2> QED
    BY <2>1, <2>2, <2>3, <2>4, QuietStep
<1>2. ASSUME Code2SessionFails(r)
      PROVE  Inv'
  <2> USE <1>2 DEF Code2SessionFails, Goto, tables, call
  <2>1. TypeOK'
    BY DEF Inv, TypeOK, Label
  <2>2. Holds(r)'
    BY DEF Inv, TypeOK, Holds
  <2>3. \A q \in Request \ {r} : Same(q)
    BY DEF Inv, TypeOK, Same
  <2>4. \A q \in Request \ {r} : LockedBy(r)' \cap LockedBy(q) = {}
    BY NoLocks DEF Inv, Holds, LockedBy
  <2> QED
    BY <2>1, <2>2, <2>3, <2>4, QuietStep
<1> QED
  BY <1>1, <1>2 DEF Arrive

LEMMA LookupStep == ASSUME Inv, NEW r \in Request, Lookup(r) PROVE Inv'
<1>0. /\ pc[r] = "lookup" /\ txn[r] = NoWrites /\ r \notin users
      /\ existing[r] = NoUnionid /\ who[r] \in Person
  BY DEF Inv, Holds, Lookup, FoundByMapping, FoundByUnionid, FoundByOpenid, NotFound
<1>1. ASSUME UNCHANGED <<tables, call, txn>> PROVE LockedBy(r)' = {}
  BY <1>0, <1>1, NoLocks DEF LockedBy
<1>2. CASE FoundByMapping(r)
  <2>1. PICK u \in MappedUsers(r) : user' = [user EXCEPT ![r] = u]
    BY <1>2 DEF FoundByMapping
  <2> USE <1>0, <1>2, <2>1, MappedIsOwn DEF FoundByMapping, Goto, tables, call
  <2>2. TypeOK'
    BY DEF Inv, TypeOK, Label, InTxn
  <2>3. Stored(r)'
    BY DEF Inv, TypeOK, Stored
  <2>4. Holds(r)'
    BY <2>3 DEF Inv, TypeOK, Holds, NoWrites, OldAccount, MappingFits
  <2>5. \A q \in Request \ {r} : Same(q)
    BY DEF Inv, TypeOK, Same
  <2> QED
    BY <1>1, <2>2, <2>4, <2>5, QuietStep
<1>3. ASSUME NEW row \in SourcesByUnionid(r) \cup SourcesByOpenid(r),
             NEW next \in {"update_unionid", "ensure_mapping"},
             Found(r, row.userId, next)
      PROVE  Inv'
  <2>1. PICK e \in ExistingUnionids(row.userId) : existing' = [existing EXCEPT ![r] = e]
    BY <1>3 DEF Found
  <2>2. row \in userSources /\ row.openid = who[r] /\ row.userId \in UserId
    BY <1>0, SourceIsOwn
  <2>3. e \in {NoUnionid, who[r]}
    BY <2>2, MappingNeverRenamed
  <2> USE <1>0, <1>3, <2>1, <2>2, <2>3 DEF Found, Goto, tables, call
  <2>4. TypeOK'
    BY DEF Inv, TypeOK, Label, InTxn
  <2>5. Stored(r)'
    BY DEF Inv, TypeOK, Stored
  <2>6. Holds(r)'
    BY <2>5 DEF Inv, TypeOK, Holds, NoWrites, OldAccount, MappingFits
  <2>7. \A q \in Request \ {r} : Same(q)
    BY DEF Inv, TypeOK, Same
  <2> QED
    BY <1>1, <2>4, <2>6, <2>7, QuietStep
<1>4. CASE FoundByUnionid(r)
  BY <1>3, <1>4 DEF FoundByUnionid
<1>5. CASE FoundByOpenid(r)
  BY <1>3, <1>5 DEF FoundByOpenid
<1>6. CASE NotFound(r)
  <2> USE <1>0, <1>6 DEF NotFound, Goto, tables, call
  <2>1. TypeOK'
    BY DEF Inv, TypeOK, Label, InTxn
  <2>2. Holds(r)'
    BY DEF Inv, TypeOK, Holds
  <2>3. \A q \in Request \ {r} : Same(q)
    BY DEF Inv, TypeOK, Same
  <2> QED
    BY <1>1, <2>1, <2>2, <2>3, QuietStep
<1> QED
  BY <1>2, <1>4, <1>5, <1>6 DEF Lookup

LEMMA WriteStep == ASSUME Inv, NEW r \in Request, Write(r) PROVE Inv'
<1>0. /\ pc[r] \in Label /\ who[r] \in Person /\ source[r] \in Source
      /\ txn[r] \in Txn
  BY DEF Inv, TypeOK, Holds, Write, CreateUser, CreateSource, SourceRejected, UpdateUnionid,
         EnsureMapping, MappingWriteFails, MappingReadFails
<1>1. \A q \in Request \ {r} : LockedBy(r) \cap LockedBy(q) = {}
  BY DEF Inv, LocksExclude
<1>2. ASSUME \/ LockedBy(r)' \subseteq LockedBy(r)
             \/ RowFree(r) /\ LockedBy(r)' \subseteq {who[r]}
      PROVE  \A q \in Request \ {r} : LockedBy(r)' \cap LockedBy(q) = {}
  BY <1>1, <1>2 DEF RowFree
<1>3. CASE CreateUser(r)
  <2> USE <1>0, <1>3 DEF CreateUser, Goto, tables, call
  <2>1. TypeOK'
    BY DEF Inv, TypeOK, Label, InTxn, Txn, UserId
  <2>2. txn[r] = NoWrites /\ r \notin users /\ existing[r] = NoUnionid
    BY DEF Inv, Holds
  <2>3. txn'[r] = [NoWrites EXCEPT !.users = {r}]
    BY <2>2 DEF Inv, TypeOK, NoWrites
  <2>4. Holds(r)'
    BY <2>2, <2>3 DEF Inv, TypeOK, Holds, Ghost
  <2>5. \A q \in Request \ {r} : Same(q)
    BY DEF Inv, TypeOK, Same
  <2>6. LockedBy(r)' = {}
    BY <2>3 DEF LockedBy, NoWrites
  <2> QED
    BY <1>2, <2>1, <2>4, <2>5, <2>6, QuietStep
<1>4. CASE CreateSource(r)
  <2> USE <1>0, <1>4 DEF CreateSource, Goto, tables, call
  <2>1. /\ txn[r] = [NoWrites EXCEPT !.users = {r}] /\ user[r] = r /\ r \notin users
        /\ existing[r] = NoUnionid
    BY DEF Inv, Holds, Ghost
  <2>2. txn'[r] = [[NoWrites EXCEPT !.users = {r}] EXCEPT !.sources = {NewSource(r)}]
    BY <2>1 DEF Inv, TypeOK
  <2>3. NewSource(r) \in SourceRow
    BY <2>1 DEF NewSource, SourceRow, UserId
  <2>4. TypeOK'
    BY <2>3 DEF Inv, TypeOK, Label, InTxn, Txn
  <2>5. NewSource(r)' = NewSource(r)
    BY DEF NewSource
  <2>6. NewAccount(r)' /\ MappingFits(r)'
    <3>1. /\ txn'[r].users = {r} /\ txn'[r].sources = {NewSource(r)} /\ txn'[r].stamped = {}
          /\ txn'[r].mappings = {} /\ txn'[r].replaced = {}
      BY <2>2 DEF NoWrites
    <3>2. ~Registered(who[r])' /\ Ghost(r)'
      BY <2>1 DEF Registered, Ghost
    <3> QED
      BY <2>5, <3>1, <3>2 DEF NewAccount, MappingFits
  <2>7. Holds(r)'
    BY <2>1, <2>2, <2>6 DEF Inv, TypeOK, Holds, NoWrites
  <2>8. \A q \in Request \ {r} : Same(q)
    BY DEF Inv, TypeOK, Same
  <2>9. LockedBy(r)' = {who[r]}
    <3>1. txn'[r].stamped = {} /\ txn'[r].sources = {NewSource(r)}
      BY <2>2 DEF NoWrites
    <3>2. {row.openid : row \in {NewSource(r)}} = {who[r]}
      BY DEF NewSource
    <3> QED
      BY <3>1, <3>2 DEF LockedBy
  <2> QED
    BY <1>2, <2>4, <2>7, <2>8, <2>9, QuietStep
<1>5. CASE SourceRejected(r)
  <2> USE <1>0, <1>5 DEF SourceRejected, Goto, tables, call
  <2>1. TypeOK'
    BY DEF Inv, TypeOK, Label, InTxn, Txn, NoWrites
  <2>2. Holds(r)'
    BY DEF Inv, TypeOK, Holds
  <2>3. \A q \in Request \ {r} : Same(q)
    BY DEF Inv, TypeOK, Same
  <2>4. LockedBy(r)' = {}
    BY DEF Inv, TypeOK, LockedBy, NoWrites
  <2> QED
    BY <1>2, <2>1, <2>2, <2>3, <2>4, QuietStep
<1>6. CASE UpdateUnionid(r)
  <2> USE <1>0, <1>6 DEF UpdateUnionid, Goto, tables, call
  <2>1. /\ Stored(r) /\ txn[r] = NoWrites /\ told[r] /\ existing[r] \in {NoUnionid, who[r]}
    BY DEF Inv, Holds
  <2>2. txn'[r] = [NoWrites EXCEPT !.stamped = {who[r]}]
    BY <2>1 DEF Inv, TypeOK, NoWrites
  <2>3. TypeOK'
    BY DEF Inv, TypeOK, Label, InTxn, Txn
  <2>4. OldAccount(r)' /\ MappingFits(r)'
    BY <2>1, <2>2 DEF OldAccount, Stored, MappingFits, NoWrites
  <2>5. Holds(r)'
    BY <2>1, <2>2, <2>4 DEF Inv, TypeOK, Holds, NoWrites
  <2>6. \A q \in Request \ {r} : Same(q)
    BY DEF Inv, TypeOK, Same
  <2>7. LockedBy(r)' = {who[r]}
    BY <2>2 DEF LockedBy, NoWrites
  <2> QED
    BY <1>2, <2>3, <2>5, <2>6, <2>7, QuietStep
<1>7. CASE EnsureMapping(r)
  <2> USE <1>0, <1>7 DEF EnsureMapping, Goto, tables, call
  <2>1. /\ existing[r] \in {NoUnionid, who[r]} /\ ~txn[r].dead
        /\ txn[r].mappings = {} /\ txn[r].replaced = {}
        /\ OldAccount(r) \/ NewAccount(r)
    BY DEF Inv, Holds
  <2>2. user[r] \in UserId
    BY <2>1 DEF Inv, TypeOK, OldAccount, NewAccount, Stored, Ghost, SourceRow, UserId
  <2>3. /\ txn'[r].users = txn[r].users /\ txn'[r].sources = txn[r].sources
        /\ txn'[r].stamped = txn[r].stamped /\ txn'[r].dead = txn[r].dead
        /\ txn'[r].mappings \subseteq {[userId |-> user[r], unionid |-> who[r]]}
        /\ txn'[r].replaced \subseteq {[userId |-> user[r], unionid |-> NoUnionid]}
    BY <2>1 DEF Inv, TypeOK, Txn
  <2>4. txn'[r] \in Txn
    <3>1. CASE existing[r] = who[r]
      BY <3>1
    <3>2. CASE existing[r] # who[r]
      <4>1. [userId |-> user[r], unionid |-> who[r]] \in MappingRow
        BY <2>2 DEF MappingRow
      <4>2. [userId |-> user[r], unionid |-> existing[r]]
               \in [userId : UserId, unionid : Person \cup {NoUnionid}]
        BY <2>1, <2>2
      <4> QED
        BY <3>2, <4>1, <4>2 DEF Inv, TypeOK, Txn
    <3> QED
      BY <3>1, <3>2
  <2>5. TypeOK'
    BY <2>4 DEF Inv, TypeOK, Label, InTxn
  <2>6. (OldAccount(r) \/ NewAccount(r))' /\ MappingFits(r)'
    BY <2>1, <2>3 DEF OldAccount, NewAccount, Stored, Ghost, Registered, NewSource, MappingFits
  <2>7. Holds(r)'
    BY <2>1, <2>3, <2>6 DEF Inv, TypeOK, Holds
  <2>8. \A q \in Request \ {r} : Same(q)
    BY DEF Inv, TypeOK, Same
  <2>9. LockedBy(r)' = LockedBy(r)
    BY <2>3 DEF LockedBy
  <2> QED
    BY <1>2, <2>5, <2>7, <2>8, <2>9, QuietStep
<1>8. CASE MappingWriteFails(r)
  <2> USE <1>0, <1>8 DEF MappingWriteFails, Goto, tables, call
  <2>1. TypeOK'
    BY DEF Inv, TypeOK, Label, InTxn, Txn, NoWrites, RolledBack
  <2>2. Stored(r) \/ Ghost(r)
    BY DEF Inv, Holds, OldAccount, NewAccount
  <2>3. txn'[r] = RolledBack /\ txn'[r].dead
    BY DEF Inv, TypeOK, RolledBack, NoWrites
  <2>4. Holds(r)'
    BY <2>2, <2>3 DEF Inv, TypeOK, Holds, Stored, Ghost
  <2>5. \A q \in Request \ {r} : Same(q)
    BY DEF Inv, TypeOK, Same
  <2>6. LockedBy(r)' = {}
    BY <2>3 DEF LockedBy, NoWrites, RolledBack
  <2> QED
    BY <1>2, <2>1, <2>4, <2>5, <2>6, QuietStep
<1>9. CASE MappingReadFails(r)
  <2> USE <1>0, <1>9 DEF MappingReadFails, Goto, tables, call
  <2>1. TypeOK'
    BY DEF Inv, TypeOK, Label, InTxn
  <2>2. ~txn[r].dead /\ (OldAccount(r) \/ NewAccount(r)) /\ MappingFits(r)
    BY DEF Inv, Holds
  <2>3. (OldAccount(r) \/ NewAccount(r))' /\ MappingFits(r)'
    BY <2>2 DEF OldAccount, NewAccount, Stored, Ghost, Registered, NewSource, MappingFits
  <2>4. Holds(r)'
    BY <2>2, <2>3 DEF Inv, TypeOK, Holds
  <2>5. \A q \in Request \ {r} : Same(q)
    BY DEF Inv, TypeOK, Same
  <2>6. LockedBy(r)' = LockedBy(r)
    BY DEF LockedBy
  <2> QED
    BY <1>2, <2>1, <2>4, <2>5, <2>6, QuietStep
<1> QED
  BY <1>3, <1>4, <1>5, <1>6, <1>7, <1>8, <1>9 DEF Write

(* What a commit makes of the rows that were there: the same rows, one of  *)
(* them perhaps with its own openid's unionid now.                         *)
LEMMA StampedRows ==
    ASSUME Inv, NEW r \in Request, who[r] \in Person, txn[r].stamped \subseteq {who[r]}
    PROVE  /\ \A row \in StampedSources(r) :
                 /\ row \in SourceRow /\ row.unionid \in {NoUnionid, row.openid}
                 /\ \E old \in userSources :
                       old.openid = row.openid /\ old.userId = row.userId
           /\ \A old \in userSources : \E row \in StampedSources(r) :
                 row.openid = old.openid /\ row.userId = old.userId
           /\ \A a, b \in StampedSources(r) :
                 a.openid = b.openid \/ a.userId = b.userId => a = b
<1> DEFINE new(old) == IF old.openid \in txn[r].stamped
                       THEN [old EXCEPT !.unionid = who[r]] ELSE old
<1>1. StampedSources(r) = {new(old) : old \in userSources}
  BY DEF StampedSources
<1>2. \A old \in userSources :
         /\ old \in SourceRow /\ new(old) \in SourceRow
         /\ new(old).openid = old.openid /\ new(old).userId = old.userId
         /\ new(old).unionid \in {NoUnionid, old.openid}
  BY DEF Inv, TypeOK, TablesAgree, SourceRow
<1>3. \A a, b \in userSources : a.openid = b.openid \/ a.userId = b.userId => a = b
  BY DEF Inv, OneAccountPerPerson, AtomicRegistration
<1> HIDE DEF new
<1> QED
  BY <1>1, <1>2, <1>3

LEMMA CommitStep == ASSUME Inv, NEW r \in Request, Commit(r) PROVE Inv'
<1> USE DEF Commit, Goto, call
<1>0. /\ who[r] \in Person /\ source[r] \in Source /\ txn[r] \in Txn
      /\ OldAccount(r) \/ NewAccount(r)
      /\ MappingFits(r)
  BY DEF Inv, TypeOK, Holds
<1>1. txn[r].stamped \subseteq {who[r]}
  BY <1>0 DEF OldAccount, NewAccount
<1>2. \A q \in Request \ {r} : Same(q)
  BY DEF Inv, TypeOK, Same
<1>3. TypeOK'
  BY <1>0, <1>1, StampedRows DEF Inv, TypeOK, Txn, NoWrites, Label, InTxn
<1>4. \A row \in txn[r].sources :
         /\ row.openid = who[r] /\ row.userId = r /\ row.unionid \in {NoUnionid, who[r]}
         /\ r \notin users /\ ~Registered(who[r])
  BY <1>0 DEF OldAccount, NewAccount, Ghost, NewSource
<1>5. /\ \A row \in userSources' : row.unionid \in {NoUnionid, row.openid}
      /\ \A a, b \in userSources' : a.openid = b.openid \/ a.userId = b.userId => a = b
      /\ \A old \in userSources : \E row \in userSources' :
            row.openid = old.openid /\ row.userId = old.userId
  <2>1. \A row \in StampedSources(r) : row.userId \in users
    BY <1>0, <1>1, StampedRows DEF Inv, AtomicRegistration
  <2>2. \A row \in StampedSources(r) : Registered(row.openid)
    BY <1>0, <1>1, StampedRows DEF Registered
  <2>3. \A a, b \in txn[r].sources : a = b
    BY <1>0 DEF OldAccount, NewAccount
  <2> QED
    BY <1>0, <1>1, <1>4, <2>1, <2>2, <2>3, StampedRows
<1>6. Stored(r)' /\ user[r] \in users'
  <2>1. CASE OldAccount(r)
    BY <1>5, <2>1 DEF OldAccount, Stored, Inv, AtomicRegistration
  <2>2. CASE NewAccount(r)
    <3>1. NewSource(r) \in userSources' /\ r \in users'
      BY <2>2 DEF NewAccount
    <3> QED
      BY <2>2, <3>1 DEF NewAccount, Ghost, Stored, NewSource
  <2> QED
    BY <1>0, <2>1, <2>2
<1>7. users' = {row.userId : row \in userSources'}
  <2>1. \A row \in userSources' : row.userId \in users'
    <3>1. CASE OldAccount(r)
      BY <1>0, <1>1, <3>1, StampedRows DEF OldAccount, Inv, AtomicRegistration
    <3>2. CASE NewAccount(r)
      BY <1>0, <1>1, <1>4, <3>2, StampedRows DEF NewAccount, Inv, AtomicRegistration
    <3> QED
      BY <1>0, <3>1, <3>2
  <2>2. \A u \in users : \E row \in userSources' : row.userId = u
    BY <1>5 DEF Inv, AtomicRegistration
  <2>3. \A u \in txn[r].users : u = user[r]
    BY <1>0 DEF OldAccount, NewAccount, Ghost
  <2>4. \E row \in userSources' : row.userId = user[r]
    BY <1>6 DEF Stored
  <2> QED
    BY <2>1, <2>2, <2>3, <2>4
<1>8. AtomicRegistration' /\ OneAccountPerPerson'
  BY <1>5, <1>7 DEF AtomicRegistration, OneAccountPerPerson
<1>9. TablesAgree'
  <2>1. ASSUME NEW m \in mappings'
        PROVE  \E row \in userSources' : row.userId = m.userId /\ row.openid = m.unionid
    <3>1. CASE m \in mappings
      BY <1>5, <3>1 DEF Inv, TablesAgree
    <3>2. CASE m \in txn[r].mappings
      <4>1. m.userId = user[r] /\ m.unionid = who[r]
        BY <1>0, <3>2 DEF MappingFits
      <4> QED
        BY <1>6, <4>1 DEF Stored
    <3> QED
      BY <3>1, <3>2
  <2> QED
    BY <1>5, <2>1 DEF TablesAgree
<1>10. Holds(r)'
  <2>1. txn'[r] = NoWrites /\ ~txn'[r].dead /\ pc'[r] = "respond"
    BY DEF Inv, TypeOK, NoWrites
  <2> QED
    BY <1>0, <1>6, <2>1 DEF Holds
<1>11. ASSUME NEW q \in Request \ {r} PROVE Holds(q)'
  <2>1. Holds(q) /\ Same(q)
    BY <1>2 DEF Inv
  <2>2. q \notin users => q \notin users'
    BY <1>0 DEF OldAccount, NewAccount
  <2>3. Stored(q) => Stored(q)'
    BY <1>5, <2>1 DEF Stored, Same
  <2>4. Ghost(q) => Ghost(q)'
    BY <2>1, <2>2 DEF Ghost, Same
  <2>5. OldAccount(q) => OldAccount(q)'
    BY <2>1, <2>3 DEF OldAccount, Same
  <2>6. NewAccount(q) => NewAccount(q)'
    <3> HAVE NewAccount(q)
    <3>1. NewSource(q) \in txn[q].sources /\ NewSource(q).openid = who[q]
      BY DEF NewAccount, NewSource
    <3>2. who[q] \in LockedBy(q)
      BY <3>1 DEF LockedBy
    <3>3. who[q] \notin LockedBy(r)
      BY <3>2 DEF Inv, LocksExclude
    <3>4. \A row \in userSources' : row.openid # who[q]
      <4>1. \A row \in StampedSources(r) : row.openid # who[q]
        BY <1>0, <1>1, StampedRows DEF NewAccount, Registered
      <4>2. \A row \in txn[r].sources : row.openid # who[q]
        BY <3>3 DEF LockedBy
      <4> QED
        BY <4>1, <4>2
    <3> QED
      BY <2>1, <2>4, <3>4 DEF NewAccount, Registered, Same, NewSource
  <2>7. MappingFits(q) => MappingFits(q)'
    BY <2>1 DEF MappingFits, Same
  <2> QED
    BY <2>1, <2>2, <2>3, <2>4, <2>5, <2>6, <2>7 DEF Holds, Same
<1>12. LocksExclude'
  <2>1. LockedBy(r)' = {}
    BY DEF Inv, TypeOK, LockedBy, NoWrites
  <2>2. \A q \in Request \ {r} : LockedBy(q)' = LockedBy(q)
    BY <1>2 DEF Same, LockedBy
  <2> QED
    BY <2>1, <2>2 DEF Inv, LocksExclude
<1> QED
  BY <1>3, <1>8, <1>9, <1>10, <1>11, <1>12 DEF Inv

LEMMA FinishStep == ASSUME Inv, NEW r \in Request, CloseInactive(r) \/ Respond(r) PROVE Inv'
<1> USE DEF CloseInactive, Respond, Goto, tables, call
<1>1. TypeOK'
  BY DEF Inv, TypeOK, Label
<1>2. Holds(r)'
  BY DEF Inv, TypeOK, Holds, Stored, Ghost
<1>3. \A q \in Request \ {r} : Same(q)
  BY DEF Inv, TypeOK, Same
<1>4. \A q \in Request \ {r} : LockedBy(r)' \cap LockedBy(q) = {}
  BY DEF Inv, LocksExclude, LockedBy
<1> QED
  BY <1>1, <1>2, <1>3, <1>4, QuietStep

LEMMA AbortStep == ASSUME Inv, NEW r \in Request, Abort(r) \/ ExpiredUser(r) PROVE Inv'
<1>0. /\ txn' = [txn EXCEPT ![r] = NoWrites] /\ pc' = [pc EXCEPT ![r] = "failed"]
      /\ UNCHANGED <<users, userSources, mappings, who, source, told, user, existing>>
  BY DEF Abort, ExpiredUser, Goto, tables, call
<1>1. TypeOK'
  BY <1>0 DEF Inv, TypeOK, Label, InTxn, Txn, NoWrites
<1>2. Holds(r)'
  BY <1>0 DEF Inv, TypeOK, Holds
<1>3. \A q \in Request \ {r} : Same(q)
  BY <1>0 DEF Inv, TypeOK, Same
<1>4. LockedBy(r)' = {}
  BY <1>0 DEF Inv, TypeOK, LockedBy, NoWrites
<1> QED
  BY <1>0, <1>1, <1>2, <1>3, <1>4, QuietStep DEF tables

-----------------------------------------------------------------------------
(* The invariant holds in every state of every behaviour.                  *)
THEOREM LoginInvariant == Spec => []Inv
<1>1. Inv /\ [Next]_vars => Inv'
  <2> SUFFICES ASSUME Inv, [Next]_vars PROVE Inv'
    OBVIOUS
  <2>1. CASE UNCHANGED vars
    <3> USE <2>1 DEF vars
    <3>1. TypeOK' /\ AtomicRegistration' /\ OneAccountPerPerson' /\ TablesAgree'
      BY DEF Inv, TypeOK, AtomicRegistration, OneAccountPerPerson, TablesAgree
    <3>2. LocksExclude'
      BY DEF Inv, LocksExclude, LockedBy
    <3>3. ASSUME NEW r \in Request PROVE Holds(r)'
      BY DEF Inv, Holds, Stored, Ghost, OldAccount, NewAccount, MappingFits, Registered,
             NewSource
    <3> QED
      BY <3>1, <3>2, <3>3 DEF Inv
  <2>2. ASSUME NEW r \in Request,
               Arrive(r) \/ Lookup(r) \/ Write(r) \/ Finish(r) \/ Abort(r)
        PROVE  Inv'
    BY <2>2, ArriveStep, LookupStep, WriteStep, CommitStep, FinishStep, AbortStep DEF Finish
  <2> QED
    BY <2>1, <2>2 DEF Next
<1> QED
  BY InitInv, <1>1, PTL DEF Spec

(* Type correctness.                                                       *)
THEOREM LoginTypeOK == Spec => []TypeOK
<1>1. Inv => TypeOK
  BY DEF Inv
<1> QED
  BY LoginInvariant, <1>1, PTL

(* However logins race or fail, users and user_source hold the same        *)
(* accounts, one row each: registration is all or nothing.                 *)
THEOREM LoginAtomicRegistration == Spec => []AtomicRegistration
<1>1. Inv => AtomicRegistration
  BY DEF Inv
<1> QED
  BY LoginInvariant, <1>1, PTL

(* No number of racing logins gives a person two accounts.                 *)
THEOREM LoginOneAccountPerPerson == Spec => []OneAccountPerPerson
<1>1. Inv => OneAccountPerPerson
  BY DEF Inv
<1> QED
  BY LoginInvariant, <1>1, PTL

(* The mapping table and the unionid column never lead from one person to  *)
(* the account of another.                                                 *)
THEOREM LoginTablesAgree == Spec => []TablesAgree
<1>1. Inv => TablesAgree
  BY DEF Inv
<1> QED
  BY LoginInvariant, <1>1, PTL

(* No login is answered with tokens for an account of somebody else.       *)
THEOREM LoginAccountIsolation == Spec => []AccountIsolation
<1>1. Inv => AccountIsolation
  <2> SUFFICES ASSUME Inv, NEW r \in Request, pc[r] = "done"
               PROVE  /\ \A row \in userSources : row.userId = user[r] => row.openid = who[r]
                      /\ user[r] \in users \/ user[r] = r
    BY DEF AccountIsolation
  <2>1. Stored(r) \/ Ghost(r)
    BY DEF Inv, Holds
  <2>2. users = {row.userId : row \in userSources}
    BY DEF Inv, AtomicRegistration
  <2>3. CASE Stored(r)
    BY <2>2, <2>3 DEF Inv, AtomicRegistration, Stored
  <2>4. CASE Ghost(r)
    BY <2>2, <2>4 DEF Ghost
  <2> QED
    BY <2>1, <2>3, <2>4
<1> QED
  BY LoginInvariant, <1>1, PTL

(* A login answers with a committed account of the caller, unless it is a  *)
(* first one whose mapping write took the new account with it.             *)
THEOREM LoginAnswerIsStored == Spec => []AnswerIsStored
<1>1. Inv => AnswerIsStored
  BY DEF Inv, Holds, AnswerIsStored, Stored
<1> QED
  BY LoginInvariant, <1>1, PTL

(* A person is the same user at every login.                               *)
THEOREM LoginStableIdentity == Spec => []StableIdentity
<1>1. Inv => StableIdentity
  <2>1. Inv => \A r \in Request : pc[r] = "done" /\ ~txn[r].dead => Stored(r)
    BY DEF Inv, Holds
  <2> QED
    BY <2>1 DEF Inv, OneAccountPerPerson, StableIdentity, Stored
<1> QED
  BY LoginInvariant, <1>1, PTL

-----------------------------------------------------------------------------
(* The tables implement AccountDirectory.                                  *)

LEMMA InitDirectory == Init => Directory!Init
<1> SUFFICES ASSUME Init PROVE Directory!Init
  OBVIOUS
<1>1. Inv
  BY InitInv
<1>2. \A p, q \in Person : Accounts[p] \cap Accounts[q] # {} => p = q
  BY <1>1 DEF Inv, AtomicRegistration, Accounts
<1>3. ASSUME NEW p \in Person
      PROVE  Accounts[p] \in {{}} \cup {{u} : u \in UserId}
  <2>1. \A row \in userSources : row.userId \in UserId
    BY <1>1 DEF Inv, TypeOK, SourceRow
  <2>2. CASE \E row \in userSources : row.openid = p
    <3>1. PICK row \in userSources : row.openid = p
      BY <2>2
    <3>2. Accounts[p] = {row.userId}
      BY <1>1, <3>1 DEF Inv, OneAccountPerPerson, Accounts
    <3> QED
      BY <2>1, <3>2
  <2>3. CASE ~ \E row \in userSources : row.openid = p
    BY <2>3 DEF Accounts
  <2> QED
    BY <2>2, <2>3
<1> QED
  BY <1>2, <1>3 DEF Directory!Init, Accounts

LEMMA CommitRegisters ==
    ASSUME Inv, NEW r \in Request, Commit(r)
    PROVE  [Directory!Next]_Accounts
<1> USE DEF Commit
<1>0. /\ who[r] \in Person /\ source[r] \in Source
      /\ OldAccount(r) \/ NewAccount(r)
      /\ txn[r].stamped \subseteq {who[r]}
  BY DEF Inv, TypeOK, Holds, OldAccount, NewAccount
<1> DEFINE of(p, rows) == {row.userId : row \in {x \in rows : x.openid = p}}
<1>1. \A p \in Person : of(p, StampedSources(r)) = of(p, userSources)
  <2> TAKE p \in Person
  <2>1. of(p, StampedSources(r)) \subseteq of(p, userSources)
    BY <1>0, StampedRows
  <2>2. of(p, userSources) \subseteq of(p, StampedSources(r))
    BY <1>0, StampedRows
  <2> QED
    BY <2>1, <2>2
<1>2. CASE OldAccount(r)
  BY <1>1, <1>2 DEF OldAccount, Accounts
<1>3. CASE NewAccount(r)
  <2>1. NewSource(r).openid = who[r] /\ NewSource(r).userId = r
    BY <1>3 DEF NewAccount, Ghost, NewSource
  <2>2. \A p \in Person :
           of(p, userSources') = of(p, userSources) \cup (IF p = who[r] THEN {r} ELSE {})
    <3> TAKE p \in Person
    <3>1. userSources' = StampedSources(r) \cup {NewSource(r)}
      BY <1>3 DEF NewAccount
    <3>2. of(p, {NewSource(r)}) = IF p = who[r] THEN {r} ELSE {}
      BY <2>1
    <3>3. of(p, userSources') = of(p, StampedSources(r)) \cup of(p, {NewSource(r)})
      BY <3>1
    <3> QED
      BY <1>1, <3>2, <3>3
  <2>3. Accounts[who[r]] = {}
    BY <1>0, <1>3 DEF NewAccount, Registered, Accounts
  <2>4. \A p \in Person : r \notin Accounts[p]
    BY <1>3 DEF NewAccount, Ghost, Inv, AtomicRegistration, Accounts
  <2>5. Accounts' = [Accounts EXCEPT ![who[r]] = {r}]
    <3>1. ASSUME NEW p \in Person
          PROVE  Accounts'[p] = [Accounts EXCEPT ![who[r]] = {r}][p]
      BY <1>0, <2>2, <2>3 DEF Accounts
    <3> QED
      BY <3>1 DEF Accounts
  <2>6. Directory!Register(who[r], r)
    BY <2>3, <2>4, <2>5 DEF Directory!Register, Directory!Owners
  <2> QED
    BY <1>0, <2>6 DEF Directory!Next, UserId
<1> QED
  BY <1>0, <1>2, <1>3

(* Whatever the requests do, a person's account is given once, to that     *)
(* person alone, and stays.                                                *)
THEOREM LoginImplementsDirectory == Spec => DirectorySpec
<1>1. Inv /\ [Next]_vars => [Directory!Next]_Accounts
  <2> SUFFICES ASSUME Inv, [Next]_vars PROVE [Directory!Next]_Accounts
    OBVIOUS
  <2>1. CASE userSources' = userSources
    BY <2>1 DEF Accounts
  <2>2. ASSUME NEW r \in Request, Commit(r) PROVE [Directory!Next]_Accounts
    BY <2>2, CommitRegisters
  <2>3. ASSUME NEW r \in Request,
               Arrive(r) \/ Lookup(r) \/ Write(r) \/ CloseInactive(r) \/ ExpiredUser(r)
               \/ Respond(r) \/ Abort(r)
        PROVE  userSources' = userSources
    BY <2>3 DEF Arrive, Code2Session, Code2SessionFails, Lookup, FoundByMapping,
                FoundByUnionid, FoundByOpenid, Found, NotFound, Write, CreateUser,
                CreateSource, SourceRejected, UpdateUnionid, EnsureMapping,
                MappingWriteFails, MappingReadFails, CloseInactive, ExpiredUser, Respond, Abort, tables
  <2> QED
    BY <2>1, <2>2, <2>3 DEF Next, Finish, vars
<1> QED
  BY InitDirectory, LoginInvariant, <1>1, PTL DEF Spec, DirectorySpec, Directory!Spec

-----------------------------------------------------------------------------
(* Waiting for row locks, which LoginEnds needs to come to an end.         *)

\* the lock of q on the row of its person is in the way of r
WaitsFor(r, q) == pc[r] \in {"create_source", "update_unionid"} /\ who[r] \in LockedBy(q)

NoWaitChain ==
    \A r, q \in Request : WaitsFor(r, q) => q # r /\ pc[q] \in {"ensure_mapping", "commit"}

(* The row of user_source is the first lock a login takes, and the last it *)
(* waits for: whoever waits, waits for a login that has left both labels,  *)
(* and has only its mapping and its commit to go.                          *)
THEOREM LoginNoWaitChain == Spec => []NoWaitChain
<1>1. ASSUME Inv PROVE NoWaitChain
  <2> SUFFICES ASSUME NEW r \in Request, NEW q \in Request, WaitsFor(r, q)
               PROVE  q # r /\ pc[q] \in {"ensure_mapping", "commit"}
    BY DEF NoWaitChain
  <2>1. LockedBy(q) # {}
    BY DEF WaitsFor
  <2>2. txn[q] \notin {NoWrites, RolledBack}
    BY <2>1, NoLocks
  <2>3. pc[q] # "create_source"
    <3>1. [NoWrites EXCEPT !.users = {q}].stamped = {}
          /\ [NoWrites EXCEPT !.users = {q}].sources = {}
      BY DEF NoWrites
    <3> QED
      BY <1>1, <2>1, <3>1 DEF Inv, Holds, LockedBy
  <2>4. pc[q] \in {"ensure_mapping", "commit"}
    BY <1>1, <2>2, <2>3 DEF Inv, TypeOK, Label, InTxn, Holds
  <2> QED
    BY <2>4 DEF WaitsFor
<1> QED
  BY <1>1, LoginInvariant, PTL
=============================================================================
