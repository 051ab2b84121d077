------------------------------- MODULE Login -------------------------------
(***************************************************************************)
(* The WeChat login of services/user.py: POST /users/login exchanges a     *)
(* code for the caller's openid (and, when WeChat tells it, unionid),      *)
(* then finds or creates the caller's account in ONE database transaction  *)
(* over three tables, and answers with tokens for that account.            *)
(*                                                                         *)
(* Every request has an AsyncSession, hence a transaction, of its own; the *)
(* requests interleave at every await.  The tables live in InnoDB: a       *)
(* transaction reads the snapshot of its first read, an INSERT checks the  *)
(* unique key against the committed rows, and a write waits for the row    *)
(* locks of other transactions.                                            *)
(*                                                                         *)
(* The mini program has one app_id (WechatService.get_app_config knows no  *)
(* other), so a person has one openid and one unionid: both are named by   *)
(* the person.  A new user_id is a fresh uuid4, named by the request that  *)
(* drew it; an account older than the model is named by its person.        *)
(***************************************************************************)
CONSTANTS
    Request,    \* login requests
    Person,     \* WeChat users: an openid and a unionid each
    Source,     \* login sources, e.g. mini_program and wx
    NoUnionid,  \* the NULL of the union_id column
    NoUser      \* no person, no user_id yet

ASSUME LoginAssumption ==
    /\ Request \cap Person = {}
    /\ NoUnionid \notin Person
    /\ NoUser \notin Request \cup Person

VARIABLES
    users,       \* users.user_id of the committed rows
    userSources, \* committed rows of user_source
    mappings,    \* committed rows of user_unionid_mapping
    pc,          \* where each request is
    who,         \* the person code2session answered
    source,      \* the source field of the request
    told,        \* whether the answer of WeChat holds the unionid
    user,        \* the account the request found or created
    existing,    \* unionid of that account's mapping, as the snapshot has it
    txn          \* uncommitted writes of the request's transaction

vars == <<users, userSources, mappings, pc, who, source, told, user, existing, txn>>
tables == <<users, userSources, mappings>>
call == <<who, source, told>>

UserId == Request \cup Person

SourceRow == [openid : Person, source : Source, userId : UserId,
              unionid : Person \cup {NoUnionid}]

MappingRow == [userId : UserId, unionid : Person]

Txn == [users : SUBSET UserId, sources : SUBSET SourceRow, stamped : SUBSET Person,
        mappings : SUBSET MappingRow,
        replaced : SUBSET [userId : UserId, unionid : Person \cup {NoUnionid}],
        dead : BOOLEAN]

NoWrites == [users |-> {}, sources |-> {}, stamped |-> {}, mappings |-> {},
             replaced |-> {}, dead |-> FALSE]

\* A failed flush rolls everything back and leaves the transaction inactive.
RolledBack == [NoWrites EXCEPT !.dead = TRUE]

InTxn == {"create_user", "create_source", "update_unionid", "ensure_mapping", "commit"}
Label == {"idle", "lookup", "respond", "done", "failed"} \cup InTxn

TypeOK ==
    /\ users \subseteq UserId
    /\ userSources \subseteq SourceRow
    /\ mappings \subseteq MappingRow
    /\ pc \in [Request -> Label]
    /\ who \in [Request -> Person \cup {NoUser}]
    /\ source \in [Request -> Source \cup {NoUser}]
    /\ told \in [Request -> BOOLEAN]
    /\ user \in [Request -> UserId \cup {NoUser}]
    /\ existing \in [Request -> Person \cup {NoUnionid}]
    /\ txn \in [Request -> Txn]

-----------------------------------------------------------------------------
(* Tables older than the mapping table: any persons may have an account,   *)
(* with or without its unionid, and nobody has a mapping.                  *)
Init ==
    /\ \E old \in SUBSET Person :
       \E src \in [old -> Source], uid \in [old -> BOOLEAN] :
          /\ users = old
          /\ userSources = {[openid |-> p, source |-> src[p], userId |-> p,
                             unionid |-> IF uid[p] THEN p ELSE NoUnionid] : p \in old}
    /\ mappings = {}
    /\ pc = [r \in Request |-> "idle"]
    /\ who = [r \in Request |-> NoUser]
    /\ source = [r \in Request |-> NoUser]
    /\ told = [r \in Request |-> FALSE]
    /\ user = [r \in Request |-> NoUser]
    /\ existing = [r \in Request |-> NoUnionid]
    /\ txn = [r \in Request |-> NoWrites]

Goto(r, label) == pc' = [pc EXCEPT ![r] = label]

(* user_login: code2session answers with the identity of the caller ...    *)
Code2Session(r, p, s, t) ==
    /\ pc[r] = "idle"
    /\ who' = [who EXCEPT ![r] = p]
    /\ source' = [source EXCEPT ![r] = s]
    /\ told' = [told EXCEPT ![r] = t]
    /\ Goto(r, "lookup")
    /\ UNCHANGED <<tables, user, existing, txn>>

(* ... or with no openid, and the login is refused.                        *)
Code2SessionFails(r) ==
    /\ pc[r] = "idle"
    /\ Goto(r, "failed")
    /\ UNCHANGED <<tables, call, user, existing, txn>>

-----------------------------------------------------------------------------
(* The reads of get_or_create_user_by_openid_with_unionid all see the      *)
(* snapshot of the first of them, so they are one step, which also reads   *)
(* the mapping _ensure_userid_unionid_mapping will look at.                *)

\* Mutant: the lookup forgets to filter by unionid.
MappedUsersOfAnybody(r) == {m.userId : m \in {x \in mappings : told[r]}}

\* get_by_unionid of the mapping table
MappedUsers(r) == {m.userId : m \in {x \in mappings : told[r] /\ x.unionid = who[r]}}

\* get_by_unionid of user_source: same unionid AND same source
SourcesByUnionid(r) ==
    {row \in userSources : told[r] /\ row.unionid = who[r] /\ row.source = source[r]}

\* get_with_open_id: same openid AND same source
SourcesByOpenid(r) == {row \in userSources : row.openid = who[r] /\ row.source = source[r]}

\* get_by_user_id of the mapping table
ExistingUnionids(u) ==
    LET found == {m \in mappings : m.userId = u}
    IN  IF found = {} THEN {NoUnionid} ELSE {m.unionid : m \in found}

FoundByMapping(r) ==
    /\ pc[r] = "lookup"
    /\ \E u \in MappedUsers(r) : user' = [user EXCEPT ![r] = u]
    /\ Goto(r, "commit")
    /\ UNCHANGED <<tables, call, existing, txn>>

\* The account is known; with a unionid its mapping is ensured next.
Found(r, u, next) ==
    /\ user' = [user EXCEPT ![r] = u]
    /\ \E e \in ExistingUnionids(u) : existing' = [existing EXCEPT ![r] = e]
    /\ Goto(r, IF told[r] THEN next ELSE "commit")
    /\ UNCHANGED <<tables, call, txn>>

FoundByUnionid(r) ==
    /\ pc[r] = "lookup"
    /\ MappedUsers(r) = {}
    /\ \E row \in SourcesByUnionid(r) : Found(r, row.userId, "ensure_mapping")

FoundByOpenid(r) ==
    /\ pc[r] = "lookup"
    /\ MappedUsers(r) = {}
    /\ SourcesByUnionid(r) = {}
    /\ \E row \in SourcesByOpenid(r) :
          Found(r, row.userId,
                IF row.unionid = NoUnionid THEN "update_unionid" ELSE "ensure_mapping")

NotFound(r) ==
    /\ pc[r] = "lookup"
    /\ MappedUsers(r) = {}
    /\ SourcesByUnionid(r) = {}
    /\ SourcesByOpenid(r) = {}
    /\ Goto(r, "create_user")
    /\ UNCHANGED <<tables, call, user, existing, txn>>

-----------------------------------------------------------------------------
(* The writes.  Each is flushed, so each takes its locks when it is made.  *)

\* openids whose row, or whose place in the unique index, q has locked
LockedBy(q) == txn[q].stamped \cup {row.openid : row \in txn[q].sources}

RowFree(r) == \A q \in Request \ {r} : who[r] \notin LockedBy(q)

Registered(p) == \E row \in userSources : row.openid = p

\* the row user_resource_repo.create inserts
NewSource(r) == [openid |-> who[r], source |-> source[r], userId |-> user[r],
                 unionid |-> IF told[r] THEN who[r] ELSE NoUnionid]

\* Mutant: the new user_id is not handed on.
CreateUserUnnamed(r) ==
    /\ pc[r] = "create_user"
    /\ txn' = [txn EXCEPT ![r].users = @ \cup {r}]
    /\ Goto(r, "create_source")
    /\ UNCHANGED <<tables, call, user, existing>>

\* Mutant: the row is committed in a transaction of its own.
CreateUserAutocommit(r) ==
    /\ pc[r] = "create_user"
    /\ user' = [user EXCEPT ![r] = r]
    /\ users' = users \cup {r}
    /\ Goto(r, "create_source")
    /\ UNCHANGED <<userSources, mappings, call, existing, txn>>

CreateUser(r) ==
    /\ pc[r] = "create_user"
    /\ user' = [user EXCEPT ![r] = r]
    /\ txn' = [txn EXCEPT ![r].users = @ \cup {r}]
    /\ Goto(r, "create_source")
    /\ UNCHANGED <<tables, call, existing>>

\* Mutant: openid is unique within a source only.
CreateSourcePerSource(r) ==
    /\ pc[r] = "create_source"
    /\ RowFree(r)
    /\ SourcesByOpenid(r) = {}
    /\ txn' = [txn EXCEPT ![r].sources = {NewSource(r)}]
    /\ Goto(r, IF told[r] THEN "ensure_mapping" ELSE "commit")
    /\ UNCHANGED <<tables, call, user, existing>>

CreateSource(r) ==
    /\ pc[r] = "create_source"
    /\ RowFree(r)
    /\ ~Registered(who[r])
    /\ txn' = [txn EXCEPT ![r].sources = {NewSource(r)}]
    /\ Goto(r, IF told[r] THEN "ensure_mapping" ELSE "commit")
    /\ UNCHANGED <<tables, call, user, existing>>

(* The unique key of openid: the flush fails, and so does the fallback     *)
(* flush of the repository (the transaction is inactive by then).          *)
SourceRejected(r) ==
    /\ pc[r] = "create_source"
    /\ RowFree(r)
    /\ Registered(who[r])
    /\ txn' = [txn EXCEPT ![r] = NoWrites]
    /\ Goto(r, "failed")
    /\ UNCHANGED <<tables, call, user, existing>>

UpdateUnionid(r) ==
    /\ pc[r] = "update_unionid"
    /\ RowFree(r)
    /\ txn' = [txn EXCEPT ![r].stamped = @ \cup {who[r]}]
    /\ Goto(r, "ensure_mapping")
    /\ UNCHANGED <<tables, call, user, existing>>

\* Mutant: the mapping is committed at once, outside the login's transaction.
EnsureMappingAutocommit(r) ==
    /\ pc[r] = "ensure_mapping"
    /\ mappings' = mappings \cup {[userId |-> user[r], unionid |-> who[r]]}
    /\ Goto(r, "commit")
    /\ UNCHANGED <<users, userSources, call, user, existing, txn>>

(* _ensure_userid_unionid_mapping: create the mapping, update it when it   *)
(* names another unionid, leave it alone when it names this one.           *)
EnsureMapping(r) ==
    /\ pc[r] = "ensure_mapping"
    /\ txn' = IF existing[r] = who[r]
              THEN txn
              ELSE [txn EXCEPT
                      ![r].mappings = {[userId |-> user[r], unionid |-> who[r]]},
                      ![r].replaced = {[userId |-> user[r], unionid |-> existing[r]]}]
    /\ Goto(r, "commit")
    /\ UNCHANGED <<tables, call, user, existing>>

(* The write of the mapping fails (deadlock victim, lock wait timeout,     *)
(* lost connection): the session rolls the WHOLE transaction back, and     *)
(* _ensure_userid_unionid_mapping swallows the exception.                  *)
MappingWriteFails(r) ==
    /\ pc[r] = "ensure_mapping"
    /\ existing[r] # who[r]
    /\ txn' = [txn EXCEPT ![r] = RolledBack]
    /\ Goto(r, "commit")
    /\ UNCHANGED <<tables, call, user, existing>>

(* Its read of the mapping fails, and not with the connection: that is     *)
(* swallowed as well, the transaction is as good as before, and the login  *)
(* commits without the mapping.                                            *)
MappingReadFails(r) ==
    /\ pc[r] = "ensure_mapping"
    /\ Goto(r, "commit")
    /\ UNCHANGED <<tables, call, user, existing, txn>>

\* Mutant: the row is deleted to be written again, and is not.
StampedSourcesLost(r) == {row \in userSources : row.openid \notin txn[r].stamped}

StampedSources(r) ==
    {IF row.openid \in txn[r].stamped THEN [row EXCEPT !.unionid = who[r]] ELSE row :
        row \in userSources}

\* Mutant: the transaction is left without a commit.
CommitForgotten(r) ==
    /\ pc[r] = "commit"
    /\ ~txn[r].dead
    /\ txn' = [txn EXCEPT ![r] = NoWrites]
    /\ Goto(r, "respond")
    /\ UNCHANGED <<tables, call, user, existing>>

(* The end of `async with self.db.begin()`.                                *)
Commit(r) ==
    /\ pc[r] = "commit"
    /\ ~txn[r].dead
    /\ users' = users \cup txn[r].users
    /\ userSources' = StampedSources(r) \cup txn[r].sources
    /\ mappings' = (mappings \ txn[r].replaced) \cup txn[r].mappings
    /\ txn' = [txn EXCEPT ![r] = NoWrites]
    /\ Goto(r, "respond")
    /\ UNCHANGED <<call, user, existing>>

(* The same end on an inactive transaction: begin() closes it and raises   *)
(* nothing.  The session has dropped the user the request created, but the *)
(* object still knows its user_id, and the login answers with it.          *)
CloseInactive(r) ==
    /\ pc[r] = "commit"
    /\ txn[r].dead
    /\ user[r] = r
    /\ Goto(r, "respond")
    /\ UNCHANGED <<tables, call, user, existing, txn>>

(* A user that was found is expired by the rollback instead: user.user_id  *)
(* would have to be loaded again, which raises.                            *)
ExpiredUser(r) ==
    /\ pc[r] = "commit"
    /\ txn[r].dead
    /\ user[r] # r
    /\ txn' = [txn EXCEPT ![r] = NoWrites]
    /\ Goto(r, "failed")
    /\ UNCHANGED <<tables, call, user, existing>>

(* user_login goes on to sign tokens for user[r] and answers.              *)
Respond(r) ==
    /\ pc[r] = "respond"
    /\ Goto(r, "done")
    /\ UNCHANGED <<tables, call, user, existing, txn>>

\* Mutant: a failed request leaves its transaction open.
AbortLeavesOpen(r) ==
    /\ pc[r] \in {"lookup", "respond"} \cup InTxn
    /\ Goto(r, "failed")
    /\ UNCHANGED <<tables, call, user, existing, txn>>

(* Any other statement of the transaction fails, COMMIT included, or the   *)
(* pod stops, or the caller goes away: the database drops what the request *)
(* had not committed and the caller has no answer.                         *)
Abort(r) ==
    /\ pc[r] \in {"lookup", "respond"} \cup InTxn
    /\ txn' = [txn EXCEPT ![r] = NoWrites]
    /\ Goto(r, "failed")
    /\ UNCHANGED <<tables, call, user, existing>>

-----------------------------------------------------------------------------
Lookup(r) ==
    FoundByMapping(r) \/ FoundByUnionid(r) \/ FoundByOpenid(r) \/ NotFound(r)

Write(r) ==
    \/ CreateUser(r) \/ CreateSource(r) \/ SourceRejected(r) \/ UpdateUnionid(r)
    \/ EnsureMapping(r) \/ MappingWriteFails(r) \/ MappingReadFails(r)

Finish(r) == Commit(r) \/ CloseInactive(r) \/ ExpiredUser(r) \/ Respond(r)

Arrive(r) ==
    \/ \E p \in Person, s \in Source, t \in BOOLEAN : Code2Session(r, p, s, t)
    \/ Code2SessionFails(r)

Next == \E r \in Request : Arrive(r) \/ Lookup(r) \/ Write(r) \/ Finish(r) \/ Abort(r)

Spec == Init /\ [][Next]_vars

(* The event loop runs every task that is ready and the database answers   *)
(* every statement; nothing makes a login arrive, and nothing fails by     *)
(* necessity.                                                              *)
FairSpec == Spec /\ \A r \in Request : WF_vars(Lookup(r) \/ Write(r) \/ Finish(r))

-----------------------------------------------------------------------------
(* An account is a row of users and a row of user_source that name each    *)
(* other: whatever fails or races in a login, the transaction of           *)
(* get_or_create_user_by_openid_with_unionid leaves both rows or neither,  *)
(* and no two rows of user_source share a user.                            *)
AtomicRegistration ==
    /\ users = {row.userId : row \in userSources}
    /\ \A a, b \in userSources : a.userId = b.userId => a = b

(* Concurrent first logins of one person, through one source or several,   *)
(* leave the person with one account: both read a snapshot without it, and *)
(* only the unique openid keeps the second from committing.                *)
OneAccountPerPerson == \A a, b \in userSources : a.openid = b.openid => a = b

(* The three tables agree on who a unionid is: the unionid a row carries,  *)
(* and the account a mapping leads to, are those of the row's own openid.  *)
TablesAgree ==
    /\ \A row \in userSources : row.unionid \in {NoUnionid, row.openid}
    /\ \A m \in mappings : \E row \in userSources :
          row.userId = m.userId /\ row.openid = m.unionid

(* Nobody is ever given tokens for somebody else's account: the account a  *)
(* login answers with, if it is in the tables at all, is the caller's, and *)
(* if it is not it is the fresh user_id of this very request.              *)
AccountIsolation ==
    \A r \in Request : pc[r] = "done" =>
        /\ \A row \in userSources : row.userId = user[r] => row.openid = who[r]
        /\ user[r] \in users \/ user[r] = r

\* the account r was given is a committed account of its caller
Stored(r) == \E row \in userSources : row.userId = user[r] /\ row.openid = who[r]

(* The user_id in the tokens is committed, with the caller's openid, by    *)
(* the time the login answers; the one exception is a first login whose    *)
(* mapping write failed, which takes the account it created back.          *)
AnswerIsStored == \A r \in Request :
    pc[r] = "done" => Stored(r) \/ (txn[r].dead /\ user[r] = r)

(* All logins of a person that stored what they answered answered the same *)
(* user_id, whichever of the four lookup branches each of them took.       *)
StableIdentity ==
    \A r, q \in Request :
        /\ pc[r] = "done" /\ ~txn[r].dead
        /\ pc[q] = "done" /\ ~txn[q].dead
        /\ who[r] = who[q]
        => user[r] = user[q]

(* What the docstring "get or create the user" and the comment "all        *)
(* operations in one transaction" of the function promise of EVERY login   *)
(* it answers: the user exists.                                            *)
AnsweredUserExists == \A r \in Request : pc[r] = "done" => user[r] \in users

(* A login that reached the database ends: waiting for another login's row *)
(* lock never becomes waiting for ever.                                    *)
LoginEnds == \A r \in Request : pc[r] = "lookup" ~> pc[r] \in {"done", "failed"}

-----------------------------------------------------------------------------
(* The account directory the tables implement: the accounts of a person    *)
(* are the user_ids of the person's rows of user_source.                   *)
Accounts == [p \in Person |-> {row.userId : row \in {x \in userSources : x.openid = p}}]

Directory == INSTANCE AccountDirectory WITH UserId <- UserId, account <- Accounts

(* Every step of a login is a step of the directory: an account, once      *)
(* given, is never changed, moved, shared or withdrawn.                    *)
DirectorySpec == Directory!Spec
=============================================================================
