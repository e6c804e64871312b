------------------------------- MODULE Guild -------------------------------
(***************************************************************************)
(* One server (a guild) of the service, with its roles, members and        *)
(* invites: internal/handler/servers.go, roles.go and invites.go over the  *)
(* tables of migrations/000001_init_schema.up.sql.                      *)
(*                                                                         *)
(* Servers share no rows, so one is enough.  Every HTTP request runs its   *)
(* SQL statements one by one, and statements of other requests come in     *)
(* between; an action is one statement with the Go code up to the next.    *)
(* The database is PostgreSQL at READ COMMITTED: a statement reads what is *)
(* committed, the writes of a transaction become visible together when it  *)
(* commits, and a statement waits for an open transaction that has written *)
(* the same row or the same unique key, or that holds the key-share lock   *)
(* of a foreign key on a row the statement deletes.                        *)
(*                                                                         *)
(* A request that fails in between leaves no trace: its statements outside *)
(* a transaction are single.  Names, colours and positions of roles are    *)
(* left out, except that a role may be named "@everyone".                  *)
(***************************************************************************)
EXTENDS Naturals, FiniteSets

CONSTANTS
    Users,       \* user IDs
    Owner,       \* the user who creates the server
    RoleIds,     \* role IDs
    Everyone,    \* the ID of the role createServer inserts
    Codes,       \* the values of generateCode
    Limits,      \* the values of max_uses in requests; NoLimit is NULL
    Grants,      \* the values of permissions in requests
    Joins,       \* the requests of POST /invites/:code/join
    Requests,    \* the other requests
    NoLimit,
    None

\* The permissions the handlers of this module ask for, and the one above all.
Perms == {"create_invite", "manage_server", "manage_roles", "administrator"}

ASSUME GuildAssumption ==
    /\ Owner \in Users
    /\ Everyone \in RoleIds
    /\ Limits \subseteq Nat \cup {NoLimit}
    /\ NoLimit \notin Nat
    /\ Grants \subseteq SUBSET Perms
    /\ None \notin Users \cup RoleIds \cup Codes \cup Limits
    /\ IsFiniteSet(Joins)

VARIABLES
    \* committed rows
    server,        \* of the servers row: not there yet, there, deleted
    unborn,        \* IDs no row of roles has had so far
    roles,         \* IDs of the rows of roles
    everyone,      \* those of them named "@everyone"
    granted,       \* the permissions of each role
    members,       \* users with a row in members
    memberRoles,   \* rows of member_roles, the member given by its user
    invites,       \* codes of the rows of invites
    limit,         \* max_uses; None for a code not generated yet
    uses,          \* uses
    expired,       \* codes whose expires_at has passed
    \* the requests of joinByInvite
    joinPc, joinUser, joinCode,
    joinRole,      \* everyoneRoleID
    joinAborted,   \* a statement of the transaction has failed
    joinCounted,   \* the transaction holds the row of the invite, uses + 1
    admitted,      \* the transactions that have committed
    \* the other requests
    reqPc, reqOp,
    reqRole,       \* roleId of the path
    reqMember      \* memberID, given by its user

inviteVars == <<invites, limit, uses, expired>>
roleVars == <<unborn, roles, everyone, granted>>
joinVars == <<joinPc, joinUser, joinCode, joinRole, joinAborted, joinCounted,
              admitted>>
reqVars == <<reqPc, reqOp, reqRole, reqMember>>
vars == <<server, roleVars, members, memberRoles, inviteVars, joinVars, reqVars>>

Ops == {"createRole", "updateRole", "deleteRole", "assignRole", "revokeRole",
        "createInvite", "deleteInvite", "deleteServer"}

TypeOK ==
    /\ server \in {"none", "open", "deleted"}
    /\ unborn \in SUBSET RoleIds
    /\ roles \in SUBSET RoleIds
    /\ everyone \in SUBSET RoleIds
    /\ granted \in [RoleIds -> SUBSET Perms]
    /\ members \in SUBSET Users
    /\ memberRoles \in SUBSET (Users \X RoleIds)
    /\ invites \in SUBSET Codes
    /\ limit \in [Codes -> Limits \cup {None}]
    /\ uses \in [Codes -> Nat]
    /\ expired \in SUBSET Codes
    /\ joinPc \in [Joins -> {"idle", "valid", "new", "inserted", "found",
                             "roled", "updated", "joined", "failed"}]
    /\ joinUser \in [Joins -> Users \cup {None}]
    /\ joinCode \in [Joins -> Codes \cup {None}]
    /\ joinRole \in [Joins -> RoleIds \cup {None}]
    /\ joinAborted \in [Joins -> BOOLEAN]
    /\ joinCounted \in [Joins -> BOOLEAN]
    /\ admitted \in SUBSET Joins
    /\ reqPc \in [Requests -> {"idle", "allowed", "checked", "done"}]
    /\ reqOp \in [Requests -> Ops \cup {None}]
    /\ reqRole \in [Requests -> RoleIds \cup {None}]
    /\ reqMember \in [Requests -> Users \cup {None}]

Init ==
    /\ server = "none"
    /\ unborn = RoleIds
    /\ roles = {} /\ everyone = {} /\ granted = [r \in RoleIds |-> {}]
    /\ members = {} /\ memberRoles = {}
    /\ invites = {} /\ expired = {}
    /\ limit = [k \in Codes |-> None]
    /\ uses = [k \in Codes |-> 0]
    /\ joinPc = [j \in Joins |-> "idle"]
    /\ joinUser = [j \in Joins |-> None]
    /\ joinCode = [j \in Joins |-> None]
    /\ joinRole = [j \in Joins |-> None]
    /\ joinAborted = [j \in Joins |-> FALSE]
    /\ joinCounted = [j \in Joins |-> FALSE]
    /\ admitted = {}
    /\ reqPc = [q \in Requests |-> "idle"]
    /\ reqOp = [q \in Requests |-> None]
    /\ reqRole = [q \in Requests |-> None]
    /\ reqMember = [q \in Requests |-> None]

-----------------------------------------------------------------------------
(* Locks.  Only joinByInvite keeps a transaction open across statements.   *)

InTx(j) == joinPc[j] \in {"inserted", "found", "roled", "updated"}

\* A transaction that a failed statement has aborted holds nothing any more.
HoldingLeaked(j) ==  \* mutant: no deferred Rollback
    (InTx(j) \/ joinPc[j] = "failed") /\ ~joinAborted[j]
Holding(j) == InTx(j) /\ ~joinAborted[j]

\* The new row in members locks its unique key and, through the foreign key,
\* the servers row; the new row in member_roles locks its role; the update
\* locks the row of the invite.
KeyFreeIgnored(u) == TRUE  \* mutant: an open transaction is not waited for
KeyFree(u) == \A j \in Joins : Holding(j) => joinUser[j] # u

ServerFreeIgnored == TRUE  \* mutant: members.server_id has no foreign key
ServerFree == \A j \in Joins : ~Holding(j)

RoleFree(r) ==
    \A j \in Joins :
        Holding(j) /\ joinPc[j] \in {"roled", "updated"} => joinRole[j] # r

InviteFreeIgnored(k) == TRUE  \* mutant: an open update does not lock the invite
InviteFree(k) == \A j \in Joins : Holding(j) /\ joinCounted[j] => joinCode[j] # k

-----------------------------------------------------------------------------
(* createServer: one transaction, of which all rows or none appear.  The   *)
(* default category and channels are not part of this module.              *)

createServer ==
    /\ server = "none"
    /\ server' = "open"
    /\ unborn' = RoleIds \ {Everyone}
    /\ roles' = {Everyone}
    /\ everyone' = {Everyone}
    /\ granted' = [granted EXCEPT ![Everyone] = {"create_invite"}]
    /\ members' = {Owner}
    /\ memberRoles' = {<<Owner, Everyone>>}
    /\ UNCHANGED <<inviteVars, joinVars, reqVars>>

-----------------------------------------------------------------------------
(* joinByInvite *)

\* The invite is read, and refused when it is unknown, expired or used up.
UsableOnceMore(k) ==  \* mutant: uses > max_uses
    /\ k \in invites \ expired
    /\ limit[k] = NoLimit \/ uses[k] <= limit[k]
Usable(k) ==
    /\ k \in invites \ expired
    /\ limit[k] = NoLimit \/ uses[k] < limit[k]

joinByInvite(j, u, k) ==
    /\ joinPc[j] = "idle"
    /\ joinPc' = [joinPc EXCEPT ![j] = IF Usable(k) THEN "valid" ELSE "failed"]
    /\ joinUser' = [joinUser EXCEPT ![j] = u]
    /\ joinCode' = [joinCode EXCEPT ![j] = k]
    /\ UNCHANGED <<server, roleVars, members, memberRoles, inviteVars, joinRole,
                   joinAborted, joinCounted, admitted, reqVars>>

\* An error of the query is taken for FALSE.
isMember(j) ==
    /\ joinPc[j] = "valid"
    /\ \/ /\ joinUser[j] \in members
          /\ joinPc' = [joinPc EXCEPT ![j] = "failed"]
       \/ joinPc' = [joinPc EXCEPT ![j] = "new"]
    /\ UNCHANGED <<server, roleVars, members, memberRoles, inviteVars, joinUser,
                   joinCode, joinRole, joinAborted, joinCounted, admitted,
                   reqVars>>

\* The transaction begins, and its first statement waits for another open one
\* with the same key and fails if the key or the server does not allow the row.
InsertMember(j) ==
    /\ joinPc[j] = "new"
    /\ KeyFree(joinUser[j])
    /\ joinPc' = [joinPc EXCEPT ![j] =
                    IF joinUser[j] \notin members /\ server = "open"
                      THEN "inserted" ELSE "failed"]
    /\ UNCHANGED <<server, roleVars, members, memberRoles, inviteVars, joinUser,
                   joinCode, joinRole, joinAborted, joinCounted, admitted,
                   reqVars>>

\* Any role of that name; none is not an error.
SelectEveryone(j) ==
    /\ joinPc[j] = "inserted"
    /\ \/ /\ \E r \in everyone : joinRole' = [joinRole EXCEPT ![j] = r]
          /\ joinPc' = [joinPc EXCEPT ![j] = "found"]
       \/ /\ everyone = {}
          /\ joinPc' = [joinPc EXCEPT ![j] = "roled"]
          /\ UNCHANGED joinRole
    /\ UNCHANGED <<server, roleVars, members, memberRoles, inviteVars, joinUser,
                   joinCode, joinAborted, joinCounted, admitted, reqVars>>

\* The error, when the role is gone, is not looked at but aborts the
\* transaction.
InsertMemberRole(j) ==
    /\ joinPc[j] = "found"
    /\ joinPc' = [joinPc EXCEPT ![j] = "roled"]
    /\ joinAborted' = [joinAborted EXCEPT ![j] = joinRole[j] \notin roles]
    /\ UNCHANGED <<server, roleVars, members, memberRoles, inviteVars, joinUser,
                   joinCode, joinRole, joinCounted, admitted, reqVars>>

\* The new value waits for the commit.
CountAtOnce(k) == uses' = [uses EXCEPT ![k] = @ + 1]  \* mutant: not in the tx
CountAtCommit(k) == UNCHANGED uses

\* UPDATE invites SET uses = uses + 1: waits for the row, finds none if the
\* invite has been deleted, and fails silently in an aborted transaction.
UpdateInvite(j) ==
    LET k == joinCode[j] IN
    /\ joinPc[j] = "roled"
    /\ joinPc' = [joinPc EXCEPT ![j] = "updated"]
    /\ IF k \in invites /\ ~joinAborted[j]
         THEN /\ InviteFree(k)
              /\ CountAtCommit(k)
              /\ joinCounted' = [joinCounted EXCEPT ![j] = TRUE]
         ELSE UNCHANGED <<uses, joinCounted>>
    /\ UNCHANGED <<server, roleVars, members, memberRoles, invites, limit,
                   expired, joinUser, joinCode, joinRole, joinAborted, admitted,
                   reqVars>>

\* What the transaction wrote becomes visible.
NewRolesAlways(j) ==  \* mutant: the error of the SELECT is not looked at
    {<<joinUser[j], joinRole[j]>>}
NewRoles(j) ==
    IF joinRole[j] = None THEN {} ELSE {<<joinUser[j], joinRole[j]>>}

CanCommit(j) == joinPc[j] = "updated" /\ ~joinAborted[j]

Commit(j) ==
    LET u == joinUser[j]
        k == joinCode[j]
    IN
    /\ CanCommit(j)
    /\ members' = members \cup {u}
    /\ memberRoles' = memberRoles \cup NewRoles(j)
    /\ uses' = IF joinCounted[j] THEN [uses EXCEPT ![k] = @ + 1] ELSE uses
    /\ admitted' = admitted \cup {j}
    \* the answer of the commit can be lost: the user is told it has failed
    /\ \E answer \in {"joined", "failed"} : joinPc' = [joinPc EXCEPT ![j] = answer]
    /\ UNCHANGED <<server, roleVars, invites, limit, expired, joinUser,
                   joinCode, joinRole, joinAborted, joinCounted, reqVars>>

\* Commit of an aborted transaction is an error, and the database rolls back.
CommitFails(j) ==
    /\ joinPc[j] = "updated"
    /\ joinAborted[j]
    /\ joinPc' = [joinPc EXCEPT ![j] = "failed"]
    /\ UNCHANGED <<server, roleVars, members, memberRoles, inviteVars, joinUser,
                   joinCode, joinRole, joinAborted, joinCounted, admitted,
                   reqVars>>

\* The connection to the database, or the process, is lost at some statement:
\* the database rolls back, too.
Interrupted(j) ==
    /\ joinPc[j] \in {"valid", "new"} \/ InTx(j)
    /\ joinPc' = [joinPc EXCEPT ![j] = "failed"]
    /\ UNCHANGED <<server, roleVars, members, memberRoles, inviteVars, joinUser,
                   joinCode, joinRole, joinAborted, joinCounted, admitted,
                   reqVars>>

-----------------------------------------------------------------------------
(* The other requests: a permission check, then one or two statements.  A  *)
(* parameter of a request is chosen where the code first uses it.          *)

HasPermission(perms, perm) == perms \cap {"administrator", perm} # {}

\* The owner may do everything, another member what its roles grant together.
hasServerPermission(u, perm) ==
    \/ server = "open" /\ u = Owner
    \/ HasPermission(UNION {granted[r] : r \in {x \in roles : <<u, x>> \in memberRoles}},
                     perm)

Needed(op) ==
    CASE op = "createInvite" -> "create_invite"
      [] op = "deleteInvite" -> "manage_server"
      [] OTHER -> "manage_roles"

\* deleteServer asks whether the user is the owner instead.
Authorized(u, op) ==
    IF op = "deleteServer" THEN server = "open" /\ u = Owner
                           ELSE hasServerPermission(u, Needed(op))

Authorize(q, u, op) ==
    /\ reqPc[q] = "idle"
    /\ Authorized(u, op)
    /\ reqPc' = [reqPc EXCEPT ![q] = "allowed"]
    /\ reqOp' = [reqOp EXCEPT ![q] = op]
    /\ UNCHANGED <<server, roleVars, members, memberRoles, inviteVars, joinVars,
                   reqRole, reqMember>>

At(q, pc, op) == reqPc[q] = pc /\ reqOp[q] = op

Advance(q, pc) ==
    /\ reqPc' = [reqPc EXCEPT ![q] = pc]
    /\ UNCHANGED reqOp

Answer(q) == Advance(q, "done") /\ UNCHANGED <<reqRole, reqMember>>

\* INSERT INTO roles; a foreign key error when the server has gone.
createRole(q, r, named, perms) ==
    /\ At(q, "allowed", "createRole")
    /\ IF server = "open"
         THEN /\ r \in unborn
              /\ unborn' = unborn \ {r}
              /\ roles' = roles \cup {r}
              /\ everyone' = IF named THEN everyone \cup {r} ELSE everyone
              /\ granted' = [granted EXCEPT ![r] = perms]
         ELSE UNCHANGED roleVars
    /\ Answer(q)
    /\ UNCHANGED <<server, members, memberRoles, inviteVars, joinVars>>

\* One UPDATE for each field of the body, here the name or the permissions; a
\* body with both is two requests in a row.
updateRole(q, r, named, perms) ==
    /\ At(q, "allowed", "updateRole")
    /\ IF r \in roles
         THEN \/ /\ everyone' = IF named THEN everyone \cup {r} ELSE everyone \ {r}
                 /\ UNCHANGED granted
              \/ /\ granted' = [granted EXCEPT ![r] = perms]
                 /\ UNCHANGED everyone
         ELSE UNCHANGED <<everyone, granted>>
    /\ Answer(q)
    /\ UNCHANGED <<server, unborn, roles, members, memberRoles, inviteVars,
                   joinVars>>

\* The name of the role is read first, and "@everyone" is refused; an error of
\* the query is taken for any other name.
RefuseEveryone(q, r) ==
    /\ At(q, "allowed", "deleteRole")
    /\ r \notin unborn
    /\ reqRole' = [reqRole EXCEPT ![q] = r]
    /\ \/ r \in everyone /\ Advance(q, "done")
       \/ Advance(q, "checked")
    /\ UNCHANGED <<server, roleVars, members, memberRoles, inviteVars, joinVars,
                   reqMember>>

\* DELETE FROM roles, and the rows of member_roles that refer to it.
WithoutRole(r) == memberRoles \ (Users \X {r})

deleteRole(q) ==
    LET r == reqRole[q] IN
    /\ At(q, "checked", "deleteRole")
    /\ RoleFree(r)
    /\ roles' = roles \ {r}
    /\ everyone' = everyone \ {r}
    /\ memberRoles' = WithoutRole(r)
    /\ Answer(q)
    /\ UNCHANGED <<server, unborn, granted, members, inviteVars, joinVars>>

\* assignRole and revokeRole look up the member of user u first.
FindMember(q, u) ==
    /\ reqPc[q] = "allowed"
    /\ reqOp[q] \in {"assignRole", "revokeRole"}
    /\ reqMember' = [reqMember EXCEPT ![q] = u]
    /\ Advance(q, IF u \in members THEN "checked" ELSE "done")
    /\ UNCHANGED <<server, roleVars, members, memberRoles, inviteVars, joinVars,
                   reqRole>>

\* INSERT INTO member_roles ON CONFLICT DO NOTHING; a foreign key error when
\* the role or the member has gone.
assignRole(q, r) ==
    LET u == reqMember[q] IN
    /\ At(q, "checked", "assignRole")
    /\ memberRoles' = IF u \in members /\ r \in roles
                        THEN memberRoles \cup {<<u, r>>} ELSE memberRoles
    /\ Answer(q)
    /\ UNCHANGED <<server, roleVars, members, inviteVars, joinVars>>

revokeRole(q, r) ==
    /\ At(q, "checked", "revokeRole")
    /\ memberRoles' = memberRoles \ {<<reqMember[q], r>>}
    /\ Answer(q)
    /\ UNCHANGED <<server, roleVars, members, inviteVars, joinVars>>

\* INSERT INTO invites under a code that was not used before; a foreign key
\* error when the server has gone.
createInvite(q, k, max) ==
    /\ At(q, "allowed", "createInvite")
    /\ IF server = "open"
         THEN /\ limit[k] = None
              /\ invites' = invites \cup {k}
              /\ limit' = [limit EXCEPT ![k] = max]
         ELSE UNCHANGED <<invites, limit>>
    /\ Answer(q)
    /\ UNCHANGED <<server, roleVars, members, memberRoles, uses, expired,
                   joinVars>>

\* expires_at, if there is one, passes.
Expire(k) ==
    /\ k \in invites \ expired
    /\ expired' = expired \cup {k}
    /\ UNCHANGED <<server, roleVars, members, memberRoles, invites, limit, uses,
                   joinVars, reqVars>>

\* DELETE FROM invites waits for a transaction that has updated the row.
deleteInvite(q, k) ==
    /\ At(q, "allowed", "deleteInvite")
    /\ InviteFree(k)
    /\ invites' = invites \ {k}
    /\ Answer(q)
    /\ UNCHANGED <<server, roleVars, members, memberRoles, limit, uses, expired,
                   joinVars>>

\* DELETE FROM servers, with everything that refers to the server.
deleteServer(q) ==
    /\ At(q, "allowed", "deleteServer")
    /\ ServerFree
    /\ server' = "deleted"
    /\ roles' = {} /\ everyone' = {}
    /\ members' = {} /\ memberRoles' = {}
    /\ invites' = {}
    /\ Answer(q)
    /\ UNCHANGED <<unborn, granted, limit, uses, expired, joinVars>>

-----------------------------------------------------------------------------
Join(j) ==
    \/ isMember(j)
    \/ InsertMember(j)
    \/ SelectEveryone(j)
    \/ InsertMemberRole(j)
    \/ UpdateInvite(j)
    \/ Commit(j)
    \/ CommitFails(j)

Request(q) ==
    \/ \E r \in RoleIds, named \in BOOLEAN, perms \in Grants :
          createRole(q, r, named, perms) \/ updateRole(q, r, named, perms)
    \/ \E r \in RoleIds : RefuseEveryone(q, r) \/ assignRole(q, r) \/ revokeRole(q, r)
    \/ \E u \in Users : FindMember(q, u)
    \/ \E k \in Codes : deleteInvite(q, k)
    \/ \E k \in Codes, max \in Limits : createInvite(q, k, max)
    \/ deleteRole(q)
    \/ deleteServer(q)

Next ==
    \/ createServer
    \/ \E j \in Joins, u \in Users, k \in Codes : joinByInvite(j, u, k)
    \/ \E j \in Joins : Join(j) \/ Interrupted(j)
    \/ \E q \in Requests, u \in Users, op \in Ops : Authorize(q, u, op)
    \/ \E q \in Requests : Request(q)
    \/ \E k \in Codes : Expire(k)

Spec == Init /\ [][Next]_vars

\* Statements that need not wait are executed; nobody is obliged to send a
\* request, nothing is obliged to fail.
Fairness ==
    /\ \A j \in Joins : WF_vars(Join(j))
    /\ \A q \in Requests : WF_vars(Request(q))

FairSpec == Spec /\ Fairness

-----------------------------------------------------------------------------
(* Properties                                                              *)

\* A role held refers to a member and a role that exist, and nothing of the
\* server outlives it: a join that raced the deletion of its role or of the
\* server leaves no row behind (roles.go:150, servers.go:200, invites.go:126-158).
NoOrphans ==
    /\ memberRoles \subseteq members \X roles
    /\ everyone \subseteq roles
    /\ server # "open" => members = {} /\ roles = {} /\ invites = {}

JoinsOf(u) == {j \in admitted : joinUser[j] = u}

\* Members are the owner and those whose join has committed, each by one join
\* only, although isMember is asked outside the transaction (invites.go:121).
OneJoinEach ==
    server = "open" =>
        /\ members = {Owner} \cup {joinUser[j] : j \in admitted}
        /\ JoinsOf(Owner) = {}
        /\ \A u \in Users : \A i, j \in JoinsOf(u) : i = j

\* invites.uses counts the members who came by that invite: no increment is
\* lost between two joins, or kept by a join that failed (invites.go:153-155).
UsesExact ==
    \A k \in invites : uses[k] = Cardinality({j \in admitted : joinCode[j] = k})

\* Once an invite has brought max_uses members, no join that begins later gets past
\* the check, whatever became of the others: only joins that began before can
\* exceed the limit (invites.go:116, against invites.go:153).
FullRefuses ==
    [][\A j \in Joins :
          joinPc[j] = "idle" /\ joinPc'[j] = "valid" =>
              LET k == joinCode'[j] IN
              limit[k] = NoLimit \/
              Cardinality({i \in admitted : joinCode[i] = k}) < limit[k]]_vars

\* Joining is one step to everybody else: between the statements of joins and of
\* other requests, rows never show a join that is half done or counted twice.
\* Every step does what Admission allows, or leaves its variables alone.
Promise == INSTANCE Admission
ImplementsAdmission == Promise!Spec

\* "invite max uses reached" (invites.go:117): an invite with max_uses does not
\* admit more members than that.
MaxUsesRespected ==
    \A k \in invites : limit[k] # NoLimit => uses[k] <= limit[k]

\* Every join is answered: no lock is waited for in vain.
JoinAnswered ==
    \A j \in Joins : joinPc[j] # "idle" ~> joinPc[j] \in {"joined", "failed"}

\* So are the requests that delete what joins hold locked.
DeleteAnswered ==
    \A q \in Requests :
        /\ reqPc[q] \in {"allowed", "checked"}
        /\ reqOp[q] \in {"deleteRole", "deleteInvite", "deleteServer"}
        ~> reqPc[q] = "done"
=============================================================================
