---------------------------- MODULE Guild_proofs ----------------------------
(***************************************************************************)
(* Proofs about Guild, for any users, roles, codes and requests.           *)
(***************************************************************************)
EXTENDS Guild, FiniteSetTheorems, TLAPS

\* A join that has read its invite names a user and a code that was issued.
Known ==
    \A j \in Joins :
        j \in admitted \/ joinPc[j] \notin {"idle", "failed"} =>
            /\ joinUser[j] \in Users
            /\ joinCode[j] \in Codes
            /\ limit[joinCode[j]] # None

\* Only a code that was issued has a row or has been used.
Issued == \A k \in Codes : k \in invites \/ uses[k] # 0 => limit[k] # None

\* How far a join is, and what it has found and done.
Progress ==
    \A j \in Joins :
        /\ joinPc[j] \in {"idle", "valid", "new", "inserted"} => joinRole[j] = None
        /\ joinPc[j] = "found" => joinRole[j] # None
        /\ joinPc[j] \in {"idle", "valid", "new", "inserted", "found"} =>
              ~joinAborted[j]
        /\ joinPc[j] \in {"idle", "valid", "new", "inserted", "found", "roled"} =>
              ~joinCounted[j]
        /\ j \in admitted => joinPc[j] \in {"joined", "failed"}

\* What the locks of an open transaction protect.
Locked ==
    \A j \in Joins :
        Holding(j) =>
            /\ server = "open"
            /\ joinUser[j] \notin members
            /\ joinPc[j] \in {"roled", "updated"} =>
                  joinRole[j] \in roles \cup {None}
            /\ joinPc[j] = "updated" =>
                  (joinCounted[j] <=> joinCode[j] \in invites)

\* Two open transactions never have the same key.
Keys ==
    \A i, j \in Joins :
        Holding(i) /\ Holding(j) /\ joinUser[i] = joinUser[j] => i = j

\* Nothing is allowed, and nobody admitted, before there is a server.
Asked ==
    server = "none" =>
        /\ admitted = {}
        /\ \A q \in Requests : reqPc[q] \notin {"allowed", "checked"}

Aux == Known /\ Issued /\ Progress /\ Locked /\ Keys /\ Asked

IInv == TypeOK /\ Aux /\ NoOrphans /\ OneJoinEach /\ UsesExact

-----------------------------------------------------------------------------
\* The initial states satisfy the inductive invariant.
LEMMA InitIInv == Init => IInv
<1> SUFFICES ASSUME Init PROVE IInv
  OBVIOUS
<1> USE GuildAssumption DEF Init
<1>1. TypeOK
  BY DEF TypeOK
<1>2. Aux
  BY DEF Aux, Known, Issued, Progress, Locked, Keys, Asked, Holding, InTx
<1>3. NoOrphans /\ OneJoinEach /\ UsesExact
  BY DEF NoOrphans, OneJoinEach, UsesExact
<1> QED
  BY <1>1, <1>2, <1>3 DEF IInv

-----------------------------------------------------------------------------
\* Every step keeps every variable in its type.
LEMMA TypeStep == IInv /\ [Next]_vars => TypeOK'
<1> SUFFICES ASSUME IInv, [Next]_vars PROVE TypeOK'
  OBVIOUS
<1> USE GuildAssumption
        DEF IInv, TypeOK, inviteVars, roleVars, joinVars, reqVars
<1>1. ASSUME createServer
     PROVE  TypeOK'
  <2>1. {"create_invite"} \in SUBSET Perms
    BY DEF Perms
  <2>2. {<<Owner, Everyone>>} \in SUBSET (Users \X RoleIds)
    OBVIOUS
  <2> QED
    BY <1>1, <2>1, <2>2 DEF createServer
<1>2. ASSUME NEW j \in Joins, NEW u \in Users, NEW k \in Codes,
              joinByInvite(j, u, k)
     PROVE  TypeOK'
  BY <1>2 DEF joinByInvite
<1>3. ASSUME NEW j \in Joins, isMember(j)
     PROVE  TypeOK'
  BY <1>3 DEF isMember
<1>4. ASSUME NEW j \in Joins, InsertMember(j)
     PROVE  TypeOK'
  BY <1>4 DEF InsertMember
<1>5. ASSUME NEW j \in Joins, SelectEveryone(j)
     PROVE  TypeOK'
  BY <1>5 DEF SelectEveryone
<1>6. ASSUME NEW j \in Joins, InsertMemberRole(j)
     PROVE  TypeOK'
  BY <1>6 DEF InsertMemberRole
<1>7. ASSUME NEW j \in Joins, UpdateInvite(j)
     PROVE  TypeOK'
  BY <1>7 DEF UpdateInvite, CountAtCommit
<1>8. ASSUME NEW j \in Joins, Commit(j)
     PROVE  TypeOK'
  BY <1>8 DEF Commit, CanCommit, NewRoles, Aux, Known
<1>9. ASSUME NEW j \in Joins, CommitFails(j)
     PROVE  TypeOK'
  BY <1>9 DEF CommitFails
<1>10. ASSUME NEW j \in Joins, Interrupted(j)
     PROVE  TypeOK'
  BY <1>10 DEF Interrupted
<1>11. ASSUME NEW q \in Requests, NEW u \in Users, NEW op \in Ops,
              Authorize(q, u, op)
     PROVE  TypeOK'
  BY <1>11 DEF Authorize
<1>12. ASSUME NEW q \in Requests, NEW r \in RoleIds, NEW named \in BOOLEAN,
              NEW perms \in Grants, createRole(q, r, named, perms)
     PROVE  TypeOK'
  BY <1>12 DEF createRole, Answer, Advance
<1>13. ASSUME NEW q \in Requests, NEW r \in RoleIds, NEW named \in BOOLEAN,
              NEW perms \in Grants, updateRole(q, r, named, perms)
     PROVE  TypeOK'
  BY <1>13 DEF updateRole, Answer, Advance
<1>14. ASSUME NEW q \in Requests, NEW r \in RoleIds, RefuseEveryone(q, r)
     PROVE  TypeOK'
  BY <1>14 DEF RefuseEveryone, Advance
<1>15. ASSUME NEW q \in Requests, deleteRole(q)
     PROVE  TypeOK'
  BY <1>15 DEF deleteRole, Answer, Advance, WithoutRole
<1>16. ASSUME NEW q \in Requests, NEW u \in Users, FindMember(q, u)
     PROVE  TypeOK'
  BY <1>16 DEF FindMember, Advance
<1>17. ASSUME NEW q \in Requests, NEW r \in RoleIds, assignRole(q, r)
     PROVE  TypeOK'
  BY <1>17 DEF assignRole, Answer, Advance
<1>18. ASSUME NEW q \in Requests, NEW r \in RoleIds, revokeRole(q, r)
     PROVE  TypeOK'
  BY <1>18 DEF revokeRole, Answer, Advance
<1>19. ASSUME NEW q \in Requests, NEW k \in Codes, NEW max \in Limits,
              createInvite(q, k, max)
     PROVE  TypeOK'
  BY <1>19 DEF createInvite, Answer, Advance
<1>20. ASSUME NEW k \in Codes, Expire(k)
     PROVE  TypeOK'
  BY <1>20 DEF Expire
<1>21. ASSUME NEW q \in Requests, NEW k \in Codes, deleteInvite(q, k)
     PROVE  TypeOK'
  BY <1>21 DEF deleteInvite, Answer, Advance
<1>22. ASSUME NEW q \in Requests, deleteServer(q)
     PROVE  TypeOK'
  BY <1>22 DEF deleteServer, Answer, Advance
<1>23. CASE UNCHANGED vars
  BY <1>23 DEF vars
<1> HIDE DEF IInv, TypeOK, inviteVars, roleVars, joinVars, reqVars
<1> QED
  BY <1>1, <1>2, <1>3, <1>4, <1>5, <1>6, <1>7, <1>8, <1>9, <1>10, <1>11, <1>12,
     <1>13, <1>14, <1>15, <1>16, <1>17, <1>18, <1>19, <1>20, <1>21, <1>22,
     <1>23
     DEF Next, Join, Request

-----------------------------------------------------------------------------
\* Every step preserves what is known of joins, invites and requests.
LEMMA KnownStep ==
    IInv /\ [Next]_vars => (Known /\ Issued /\ Progress /\ Asked)'
<1> SUFFICES ASSUME IInv, [Next]_vars
             PROVE  (Known /\ Issued /\ Progress /\ Asked)'
  OBVIOUS
<1> USE GuildAssumption
        DEF IInv, TypeOK, inviteVars, roleVars, joinVars, reqVars, Aux, Known,
            Issued, Progress, Asked
<1>1. ASSUME createServer
     PROVE  (Known /\ Issued /\ Progress /\ Asked)'
  BY <1>1 DEF createServer
<1>2. ASSUME NEW j \in Joins, NEW u \in Users, NEW k \in Codes,
              joinByInvite(j, u, k)
     PROVE  (Known /\ Issued /\ Progress /\ Asked)'
  BY <1>2 DEF joinByInvite, Usable
<1>3. ASSUME NEW j \in Joins, isMember(j)
     PROVE  (Known /\ Issued /\ Progress /\ Asked)'
  BY <1>3 DEF isMember
<1>4. ASSUME NEW j \in Joins, InsertMember(j)
     PROVE  (Known /\ Issued /\ Progress /\ Asked)'
  BY <1>4 DEF InsertMember
<1>5. ASSUME NEW j \in Joins, SelectEveryone(j)
     PROVE  (Known /\ Issued /\ Progress /\ Asked)'
  BY <1>5 DEF SelectEveryone
<1>6. ASSUME NEW j \in Joins, InsertMemberRole(j)
     PROVE  (Known /\ Issued /\ Progress /\ Asked)'
  BY <1>6 DEF InsertMemberRole
<1>7. ASSUME NEW j \in Joins, UpdateInvite(j)
     PROVE  (Known /\ Issued /\ Progress /\ Asked)'
  BY <1>7 DEF UpdateInvite, CountAtCommit
<1>8. ASSUME NEW j \in Joins, Commit(j)
     PROVE  (Known /\ Issued /\ Progress /\ Asked)'
  BY <1>8 DEF Commit, CanCommit, Locked, Holding, InTx
<1>9. ASSUME NEW j \in Joins, CommitFails(j)
     PROVE  (Known /\ Issued /\ Progress /\ Asked)'
  BY <1>9 DEF CommitFails
<1>10. ASSUME NEW j \in Joins, Interrupted(j)
     PROVE  (Known /\ Issued /\ Progress /\ Asked)'
  BY <1>10 DEF Interrupted
<1>11. ASSUME NEW q \in Requests, NEW u \in Users, NEW op \in Ops,
              Authorize(q, u, op)
     PROVE  (Known /\ Issued /\ Progress /\ Asked)'
  <2>1. server # "none"
    <3>1. server = "none" => ~Authorized(u, op)
      <4>1. server = "none" => roles = {} BY DEF NoOrphans
      <4> HIDE DEF IInv, TypeOK
      <4>2. HasPermission({}, Needed(op)) = FALSE BY DEF HasPermission
      <4>3. roles = {}
               => UNION {granted[r] : r \in {x \in roles : <<u, x>> \in memberRoles}} = {}
        OBVIOUS
      <4> QED BY <4>1, <4>2, <4>3 DEF Authorized, hasServerPermission
    <3> QED BY <1>11, <3>1 DEF Authorize
  <2> QED BY <1>11, <2>1 DEF Authorize
<1>12. ASSUME NEW q \in Requests, NEW r \in RoleIds, NEW named \in BOOLEAN,
              NEW perms \in Grants, createRole(q, r, named, perms)
     PROVE  (Known /\ Issued /\ Progress /\ Asked)'
  BY <1>12
     DEF createRole, At, Answer, Advance, Locked, NoOrphans, Holding, InTx
<1>13. ASSUME NEW q \in Requests, NEW r \in RoleIds, NEW named \in BOOLEAN,
              NEW perms \in Grants, updateRole(q, r, named, perms)
     PROVE  (Known /\ Issued /\ Progress /\ Asked)'
  BY <1>13
     DEF updateRole, At, Answer, Advance, Locked, NoOrphans, Holding, InTx
<1>14. ASSUME NEW q \in Requests, NEW r \in RoleIds, RefuseEveryone(q, r)
     PROVE  (Known /\ Issued /\ Progress /\ Asked)'
  BY <1>14 DEF RefuseEveryone, At, Advance, Locked, NoOrphans, Holding, InTx
<1>15. ASSUME NEW q \in Requests, deleteRole(q)
     PROVE  (Known /\ Issued /\ Progress /\ Asked)'
  BY <1>15
     DEF deleteRole, At, Answer, Advance, RoleFree, WithoutRole, Locked,
         NoOrphans, Holding, InTx
<1>16. ASSUME NEW q \in Requests, NEW u \in Users, FindMember(q, u)
     PROVE  (Known /\ Issued /\ Progress /\ Asked)'
  BY <1>16 DEF FindMember, Advance, Locked, NoOrphans, Holding, InTx
<1>17. ASSUME NEW q \in Requests, NEW r \in RoleIds, assignRole(q, r)
     PROVE  (Known /\ Issued /\ Progress /\ Asked)'
  BY <1>17
     DEF assignRole, At, Answer, Advance, Locked, NoOrphans, Holding, InTx
<1>18. ASSUME NEW q \in Requests, NEW r \in RoleIds, revokeRole(q, r)
     PROVE  (Known /\ Issued /\ Progress /\ Asked)'
  BY <1>18
     DEF revokeRole, At, Answer, Advance, Locked, NoOrphans, Holding, InTx
<1>19. ASSUME NEW q \in Requests, NEW k \in Codes, NEW max \in Limits,
              createInvite(q, k, max)
     PROVE  (Known /\ Issued /\ Progress /\ Asked)'
  BY <1>19
     DEF createInvite, At, Answer, Advance, Locked, NoOrphans, Holding, InTx
<1>20. ASSUME NEW k \in Codes, Expire(k)
     PROVE  (Known /\ Issued /\ Progress /\ Asked)'
  BY <1>20 DEF Expire, Locked, NoOrphans, Holding, InTx
<1>21. ASSUME NEW q \in Requests, NEW k \in Codes, deleteInvite(q, k)
     PROVE  (Known /\ Issued /\ Progress /\ Asked)'
  BY <1>21
     DEF deleteInvite, At, Answer, Advance, InviteFree, Locked, NoOrphans,
         Holding, InTx
<1>22. ASSUME NEW q \in Requests, deleteServer(q)
     PROVE  (Known /\ Issued /\ Progress /\ Asked)'
  BY <1>22
     DEF deleteServer, At, Answer, Advance, ServerFree, Locked, NoOrphans,
         Holding, InTx
<1>23. CASE UNCHANGED vars
  BY <1>23 DEF vars, Locked, NoOrphans, Holding, InTx
<1> HIDE DEF IInv, TypeOK, inviteVars, roleVars, joinVars, reqVars, Aux, Known,
             Issued, Progress, Asked
<1> QED
  BY <1>1, <1>2, <1>3, <1>4, <1>5, <1>6, <1>7, <1>8, <1>9, <1>10, <1>11, <1>12,
     <1>13, <1>14, <1>15, <1>16, <1>17, <1>18, <1>19, <1>20, <1>21, <1>22,
     <1>23
     DEF Next, Join, Request

-----------------------------------------------------------------------------
\* Every step respects the locks of open transactions.
LEMMA LockedStep == IInv /\ [Next]_vars => (Locked /\ Keys)'
<1> SUFFICES ASSUME IInv, [Next]_vars PROVE (Locked /\ Keys)'
  OBVIOUS
<1> USE GuildAssumption
        DEF IInv, TypeOK, inviteVars, roleVars, joinVars, reqVars, Aux, Known,
            Issued, Progress, Locked, Keys, NoOrphans, Holding, InTx
<1>1. ASSUME createServer
     PROVE  (Locked /\ Keys)'
  BY <1>1 DEF createServer
<1>2. ASSUME NEW j \in Joins, NEW u \in Users, NEW k \in Codes,
              joinByInvite(j, u, k)
     PROVE  (Locked /\ Keys)'
  BY <1>2 DEF joinByInvite, Usable
<1>3. ASSUME NEW j \in Joins, isMember(j)
     PROVE  (Locked /\ Keys)'
  BY <1>3 DEF isMember
<1>4. ASSUME NEW j \in Joins, InsertMember(j)
     PROVE  (Locked /\ Keys)'
  BY <1>4 DEF InsertMember, KeyFree
<1>5. ASSUME NEW j \in Joins, SelectEveryone(j)
     PROVE  (Locked /\ Keys)'
  BY <1>5 DEF SelectEveryone
<1>6. ASSUME NEW j \in Joins, InsertMemberRole(j)
     PROVE  (Locked /\ Keys)'
  <2>1. \A i \in Joins : Holding(i)' => Holding(i)
    BY <1>6 DEF InsertMemberRole
  <2>2. Holding(j)' => joinRole[j] \in roles
    BY <1>6 DEF InsertMemberRole
  <2>3. joinPc'[j] = "roled"
    BY <1>6 DEF InsertMemberRole
  <2>4. Locked'
    BY <1>6, <2>1, <2>2, <2>3 DEF InsertMemberRole
  <2>5. Keys'
    BY <1>6, <2>1 DEF InsertMemberRole
  <2> QED
    BY <2>4, <2>5
<1>7. ASSUME NEW j \in Joins, UpdateInvite(j)
     PROVE  (Locked /\ Keys)'
  BY <1>7 DEF UpdateInvite, CountAtCommit
<1>8. ASSUME NEW j \in Joins, Commit(j)
     PROVE  (Locked /\ Keys)'
  BY <1>8 DEF Commit, CanCommit, NewRoles
<1>9. ASSUME NEW j \in Joins, CommitFails(j)
     PROVE  (Locked /\ Keys)'
  BY <1>9 DEF CommitFails
<1>10. ASSUME NEW j \in Joins, Interrupted(j)
     PROVE  (Locked /\ Keys)'
  BY <1>10 DEF Interrupted
<1>11. ASSUME NEW q \in Requests, NEW u \in Users, NEW op \in Ops,
              Authorize(q, u, op)
     PROVE  (Locked /\ Keys)'
  BY <1>11 DEF Authorize
<1>12. ASSUME NEW q \in Requests, NEW r \in RoleIds, NEW named \in BOOLEAN,
              NEW perms \in Grants, createRole(q, r, named, perms)
     PROVE  (Locked /\ Keys)'
  BY <1>12 DEF createRole, At, Answer, Advance
<1>13. ASSUME NEW q \in Requests, NEW r \in RoleIds, NEW named \in BOOLEAN,
              NEW perms \in Grants, updateRole(q, r, named, perms)
     PROVE  (Locked /\ Keys)'
  BY <1>13 DEF updateRole, At, Answer, Advance
<1>14. ASSUME NEW q \in Requests, NEW r \in RoleIds, RefuseEveryone(q, r)
     PROVE  (Locked /\ Keys)'
  BY <1>14 DEF RefuseEveryone, At, Advance
<1>15. ASSUME NEW q \in Requests, deleteRole(q)
     PROVE  (Locked /\ Keys)'
  BY <1>15 DEF deleteRole, At, Answer, Advance, RoleFree, WithoutRole
<1>16. ASSUME NEW q \in Requests, NEW u \in Users, FindMember(q, u)
     PROVE  (Locked /\ Keys)'
  BY <1>16 DEF FindMember, Advance
<1>17. ASSUME NEW q \in Requests, NEW r \in RoleIds, assignRole(q, r)
     PROVE  (Locked /\ Keys)'
  BY <1>17 DEF assignRole, At, Answer, Advance
<1>18. ASSUME NEW q \in Requests, NEW r \in RoleIds, revokeRole(q, r)
     PROVE  (Locked /\ Keys)'
  BY <1>18 DEF revokeRole, At, Answer, Advance
<1>19. ASSUME NEW q \in Requests, NEW k \in Codes, NEW max \in Limits,
              createInvite(q, k, max)
     PROVE  (Locked /\ Keys)'
  BY <1>19 DEF createInvite, At, Answer, Advance
<1>20. ASSUME NEW k \in Codes, Expire(k)
     PROVE  (Locked /\ Keys)'
  BY <1>20 DEF Expire
<1>21. ASSUME NEW q \in Requests, NEW k \in Codes, deleteInvite(q, k)
     PROVE  (Locked /\ Keys)'
  BY <1>21 DEF deleteInvite, At, Answer, Advance, InviteFree
<1>22. ASSUME NEW q \in Requests, deleteServer(q)
     PROVE  (Locked /\ Keys)'
  BY <1>22 DEF deleteServer, At, Answer, Advance, ServerFree
<1>23. CASE UNCHANGED vars
  BY <1>23 DEF vars
<1> HIDE DEF IInv, TypeOK, inviteVars, roleVars, joinVars, reqVars, Aux, Known,
             Issued, Progress, Locked, Keys, NoOrphans, Holding, InTx
<1> QED
  BY <1>1, <1>2, <1>3, <1>4, <1>5, <1>6, <1>7, <1>8, <1>9, <1>10, <1>11, <1>12,
     <1>13, <1>14, <1>15, <1>16, <1>17, <1>18, <1>19, <1>20, <1>21, <1>22,
     <1>23
     DEF Next, Join, Request

-----------------------------------------------------------------------------
\* Every step preserves NoOrphans.
LEMMA OrphansStep == IInv /\ [Next]_vars => NoOrphans'
<1> SUFFICES ASSUME IInv, [Next]_vars PROVE NoOrphans'
  OBVIOUS
<1> USE GuildAssumption
        DEF IInv, TypeOK, inviteVars, roleVars, joinVars, reqVars, Aux, Locked,
            Asked, NoOrphans, Holding, InTx
<1>1. ASSUME createServer
     PROVE  NoOrphans'
  BY <1>1 DEF createServer
<1>2. ASSUME NEW j \in Joins, NEW u \in Users, NEW k \in Codes,
              joinByInvite(j, u, k)
     PROVE  NoOrphans'
  BY <1>2 DEF joinByInvite, Usable
<1>3. ASSUME NEW j \in Joins, isMember(j)
     PROVE  NoOrphans'
  BY <1>3 DEF isMember
<1>4. ASSUME NEW j \in Joins, InsertMember(j)
     PROVE  NoOrphans'
  BY <1>4 DEF InsertMember, KeyFree
<1>5. ASSUME NEW j \in Joins, SelectEveryone(j)
     PROVE  NoOrphans'
  BY <1>5 DEF SelectEveryone
<1>6. ASSUME NEW j \in Joins, InsertMemberRole(j)
     PROVE  NoOrphans'
  BY <1>6 DEF InsertMemberRole
<1>7. ASSUME NEW j \in Joins, UpdateInvite(j)
     PROVE  NoOrphans'
  BY <1>7 DEF UpdateInvite, CountAtCommit
<1>8. ASSUME NEW j \in Joins, Commit(j)
     PROVE  NoOrphans'
  BY <1>8 DEF Commit, CanCommit, NewRoles
<1>9. ASSUME NEW j \in Joins, CommitFails(j)
     PROVE  NoOrphans'
  BY <1>9 DEF CommitFails
<1>10. ASSUME NEW j \in Joins, Interrupted(j)
     PROVE  NoOrphans'
  BY <1>10 DEF Interrupted
<1>11. ASSUME NEW q \in Requests, NEW u \in Users, NEW op \in Ops,
              Authorize(q, u, op)
     PROVE  NoOrphans'
  BY <1>11 DEF Authorize
<1>12. ASSUME NEW q \in Requests, NEW r \in RoleIds, NEW named \in BOOLEAN,
              NEW perms \in Grants, createRole(q, r, named, perms)
     PROVE  NoOrphans'
  BY <1>12 DEF createRole, At, Answer, Advance
<1>13. ASSUME NEW q \in Requests, NEW r \in RoleIds, NEW named \in BOOLEAN,
              NEW perms \in Grants, updateRole(q, r, named, perms)
     PROVE  NoOrphans'
  BY <1>13 DEF updateRole, At, Answer, Advance
<1>14. ASSUME NEW q \in Requests, NEW r \in RoleIds, RefuseEveryone(q, r)
     PROVE  NoOrphans'
  BY <1>14 DEF RefuseEveryone, At, Advance
<1>15. ASSUME NEW q \in Requests, deleteRole(q)
     PROVE  NoOrphans'
  BY <1>15 DEF deleteRole, At, Answer, Advance, RoleFree, WithoutRole
<1>16. ASSUME NEW q \in Requests, NEW u \in Users, FindMember(q, u)
     PROVE  NoOrphans'
  BY <1>16 DEF FindMember, Advance
<1>17. ASSUME NEW q \in Requests, NEW r \in RoleIds, assignRole(q, r)
     PROVE  NoOrphans'
  BY <1>17 DEF assignRole, At, Answer, Advance
<1>18. ASSUME NEW q \in Requests, NEW r \in RoleIds, revokeRole(q, r)
     PROVE  NoOrphans'
  BY <1>18 DEF revokeRole, At, Answer, Advance
<1>19. ASSUME NEW q \in Requests, NEW k \in Codes, NEW max \in Limits,
              createInvite(q, k, max)
     PROVE  NoOrphans'
  BY <1>19 DEF createInvite, At, Answer, Advance
<1>20. ASSUME NEW k \in Codes, Expire(k)
     PROVE  NoOrphans'
  BY <1>20 DEF Expire
<1>21. ASSUME NEW q \in Requests, NEW k \in Codes, deleteInvite(q, k)
     PROVE  NoOrphans'
  BY <1>21 DEF deleteInvite, At, Answer, Advance, InviteFree
<1>22. ASSUME NEW q \in Requests, deleteServer(q)
     PROVE  NoOrphans'
  BY <1>22 DEF deleteServer, At, Answer, Advance, ServerFree
<1>23. CASE UNCHANGED vars
  BY <1>23 DEF vars
<1> HIDE DEF IInv, TypeOK, inviteVars, roleVars, joinVars, reqVars, Aux,
             Locked, Asked, NoOrphans, Holding, InTx
<1> QED
  BY <1>1, <1>2, <1>3, <1>4, <1>5, <1>6, <1>7, <1>8, <1>9, <1>10, <1>11, <1>12,
     <1>13, <1>14, <1>15, <1>16, <1>17, <1>18, <1>19, <1>20, <1>21, <1>22,
     <1>23
     DEF Next, Join, Request

-----------------------------------------------------------------------------
\* Every step preserves OneJoinEach.
LEMMA OneJoinStep == IInv /\ [Next]_vars => OneJoinEach'
<1> SUFFICES ASSUME IInv, [Next]_vars PROVE OneJoinEach'
  OBVIOUS
<1> USE GuildAssumption
        DEF IInv, TypeOK, inviteVars, roleVars, joinVars, reqVars, Aux, Known,
            Progress, Asked, Locked, OneJoinEach, JoinsOf, Holding, InTx
<1>1. ASSUME createServer
     PROVE  OneJoinEach'
  BY <1>1 DEF createServer
<1>2. ASSUME NEW j \in Joins, NEW u \in Users, NEW k \in Codes,
              joinByInvite(j, u, k)
     PROVE  OneJoinEach'
  BY <1>2 DEF joinByInvite, Usable
<1>3. ASSUME NEW j \in Joins, isMember(j)
     PROVE  OneJoinEach'
  BY <1>3 DEF isMember
<1>4. ASSUME NEW j \in Joins, InsertMember(j)
     PROVE  OneJoinEach'
  BY <1>4 DEF InsertMember, KeyFree
<1>5. ASSUME NEW j \in Joins, SelectEveryone(j)
     PROVE  OneJoinEach'
  BY <1>5 DEF SelectEveryone
<1>6. ASSUME NEW j \in Joins, InsertMemberRole(j)
     PROVE  OneJoinEach'
  BY <1>6 DEF InsertMemberRole
<1>7. ASSUME NEW j \in Joins, UpdateInvite(j)
     PROVE  OneJoinEach'
  BY <1>7 DEF UpdateInvite, CountAtCommit
<1>8. ASSUME NEW j \in Joins, Commit(j)
     PROVE  OneJoinEach'
  BY <1>8 DEF Commit, CanCommit, NewRoles
<1>9. ASSUME NEW j \in Joins, CommitFails(j)
     PROVE  OneJoinEach'
  BY <1>9 DEF CommitFails
<1>10. ASSUME NEW j \in Joins, Interrupted(j)
     PROVE  OneJoinEach'
  BY <1>10 DEF Interrupted
<1>11. ASSUME NEW q \in Requests, NEW u \in Users, NEW op \in Ops,
              Authorize(q, u, op)
     PROVE  OneJoinEach'
  BY <1>11 DEF Authorize
<1>12. ASSUME NEW q \in Requests, NEW r \in RoleIds, NEW named \in BOOLEAN,
              NEW perms \in Grants, createRole(q, r, named, perms)
     PROVE  OneJoinEach'
  BY <1>12 DEF createRole, At, Answer, Advance
<1>13. ASSUME NEW q \in Requests, NEW r \in RoleIds, NEW named \in BOOLEAN,
              NEW perms \in Grants, updateRole(q, r, named, perms)
     PROVE  OneJoinEach'
  BY <1>13 DEF updateRole, At, Answer, Advance
<1>14. ASSUME NEW q \in Requests, NEW r \in RoleIds, RefuseEveryone(q, r)
     PROVE  OneJoinEach'
  BY <1>14 DEF RefuseEveryone, At, Advance
<1>15. ASSUME NEW q \in Requests, deleteRole(q)
     PROVE  OneJoinEach'
  BY <1>15 DEF deleteRole, At, Answer, Advance, RoleFree, WithoutRole
<1>16. ASSUME NEW q \in Requests, NEW u \in Users, FindMember(q, u)
     PROVE  OneJoinEach'
  BY <1>16 DEF FindMember, Advance
<1>17. ASSUME NEW q \in Requests, NEW r \in RoleIds, assignRole(q, r)
     PROVE  OneJoinEach'
  BY <1>17 DEF assignRole, At, Answer, Advance
<1>18. ASSUME NEW q \in Requests, NEW r \in RoleIds, revokeRole(q, r)
     PROVE  OneJoinEach'
  BY <1>18 DEF revokeRole, At, Answer, Advance
<1>19. ASSUME NEW q \in Requests, NEW k \in Codes, NEW max \in Limits,
              createInvite(q, k, max)
     PROVE  OneJoinEach'
  BY <1>19 DEF createInvite, At, Answer, Advance
<1>20. ASSUME NEW k \in Codes, Expire(k)
     PROVE  OneJoinEach'
  BY <1>20 DEF Expire
<1>21. ASSUME NEW q \in Requests, NEW k \in Codes, deleteInvite(q, k)
     PROVE  OneJoinEach'
  BY <1>21 DEF deleteInvite, At, Answer, Advance, InviteFree
<1>22. ASSUME NEW q \in Requests, deleteServer(q)
     PROVE  OneJoinEach'
  BY <1>22 DEF deleteServer, At, Answer, Advance, ServerFree
<1>23. CASE UNCHANGED vars
  BY <1>23 DEF vars
<1> HIDE DEF IInv, TypeOK, inviteVars, roleVars, joinVars, reqVars, Aux, Known,
             Progress, Asked, Locked, OneJoinEach, JoinsOf, Holding, InTx
<1> QED
  BY <1>1, <1>2, <1>3, <1>4, <1>5, <1>6, <1>7, <1>8, <1>9, <1>10, <1>11, <1>12,
     <1>13, <1>14, <1>15, <1>16, <1>17, <1>18, <1>19, <1>20, <1>21, <1>22,
     <1>23
     DEF Next, Join, Request

-----------------------------------------------------------------------------
\* Every step preserves UsesExact.
LEMMA UsesStep == IInv /\ [Next]_vars => UsesExact'
<1> SUFFICES ASSUME IInv, [Next]_vars PROVE UsesExact'
  OBVIOUS
<1> USE GuildAssumption
        DEF IInv, TypeOK, inviteVars, roleVars, joinVars, reqVars, Aux, Known,
            Issued, Progress, UsesExact
<1>1. ASSUME createServer
     PROVE  UsesExact'
  BY <1>1 DEF createServer
<1>2. ASSUME NEW j \in Joins, NEW u \in Users, NEW k \in Codes,
              joinByInvite(j, u, k)
     PROVE  UsesExact'
  BY <1>2 DEF joinByInvite, Usable
<1>3. ASSUME NEW j \in Joins, isMember(j)
     PROVE  UsesExact'
  BY <1>3 DEF isMember
<1>4. ASSUME NEW j \in Joins, InsertMember(j)
     PROVE  UsesExact'
  BY <1>4 DEF InsertMember, KeyFree
<1>5. ASSUME NEW j \in Joins, SelectEveryone(j)
     PROVE  UsesExact'
  BY <1>5 DEF SelectEveryone
<1>6. ASSUME NEW j \in Joins, InsertMemberRole(j)
     PROVE  UsesExact'
  BY <1>6 DEF InsertMemberRole
<1>7. ASSUME NEW j \in Joins, UpdateInvite(j)
     PROVE  UsesExact'
  BY <1>7 DEF UpdateInvite, CountAtCommit
<1>8. ASSUME NEW j \in Joins, Commit(j)
     PROVE  UsesExact'
  <2> DEFINE By(k) == {i \in admitted : joinCode[i] = k}
  <2>1. /\ j \notin admitted
        /\ admitted' = admitted \cup {j}
        /\ UNCHANGED <<invites, joinCode>>
        /\ joinCode[j] \in Codes
    BY <1>8 DEF Commit, CanCommit
  <2> SUFFICES ASSUME NEW k \in invites
               PROVE  uses'[k] = Cardinality({i \in admitted' : joinCode'[i] = k})
    BY <2>1
  <2>2. IsFiniteSet(By(k)) /\ uses[k] = Cardinality(By(k))
    <3>1. By(k) \subseteq Joins
      OBVIOUS
    <3> QED
      BY <3>1, FS_Subset
  <2>3. CASE joinCode[j] = k
    <3>1. {i \in admitted' : joinCode'[i] = k} = By(k) \cup {j}
      BY <2>1, <2>3
    <3>2. Cardinality(By(k) \cup {j}) = Cardinality(By(k)) + 1
      BY <2>1, <2>2, FS_AddElement
    <3>3. joinCounted[j]
      BY <1>8, <2>1, <2>3 DEF Commit, CanCommit, Locked, Holding, InTx
    <3>4. uses'[k] = uses[k] + 1
      BY <1>8, <2>1, <2>3, <3>3 DEF Commit
    <3> QED
      BY <2>2, <3>1, <3>2, <3>4
  <2>4. CASE joinCode[j] # k
    <3>1. {i \in admitted' : joinCode'[i] = k} = By(k)
      BY <2>1, <2>4
    <3>2. uses'[k] = uses[k]
      BY <1>8, <2>1, <2>4 DEF Commit
    <3> QED
      BY <2>2, <3>1, <3>2
  <2> QED
    BY <2>3, <2>4
<1>9. ASSUME NEW j \in Joins, CommitFails(j)
     PROVE  UsesExact'
  BY <1>9 DEF CommitFails
<1>10. ASSUME NEW j \in Joins, Interrupted(j)
     PROVE  UsesExact'
  BY <1>10 DEF Interrupted
<1>11. ASSUME NEW q \in Requests, NEW u \in Users, NEW op \in Ops,
              Authorize(q, u, op)
     PROVE  UsesExact'
  BY <1>11 DEF Authorize
<1>12. ASSUME NEW q \in Requests, NEW r \in RoleIds, NEW named \in BOOLEAN,
              NEW perms \in Grants, createRole(q, r, named, perms)
     PROVE  UsesExact'
  BY <1>12 DEF createRole, At, Answer, Advance
<1>13. ASSUME NEW q \in Requests, NEW r \in RoleIds, NEW named \in BOOLEAN,
              NEW perms \in Grants, updateRole(q, r, named, perms)
     PROVE  UsesExact'
  BY <1>13 DEF updateRole, At, Answer, Advance
<1>14. ASSUME NEW q \in Requests, NEW r \in RoleIds, RefuseEveryone(q, r)
     PROVE  UsesExact'
  BY <1>14 DEF RefuseEveryone, At, Advance
<1>15. ASSUME NEW q \in Requests, deleteRole(q)
     PROVE  UsesExact'
  BY <1>15 DEF deleteRole, At, Answer, Advance, RoleFree, WithoutRole
<1>16. ASSUME NEW q \in Requests, NEW u \in Users, FindMember(q, u)
     PROVE  UsesExact'
  BY <1>16 DEF FindMember, Advance
<1>17. ASSUME NEW q \in Requests, NEW r \in RoleIds, assignRole(q, r)
     PROVE  UsesExact'
  BY <1>17 DEF assignRole, At, Answer, Advance
<1>18. ASSUME NEW q \in Requests, NEW r \in RoleIds, revokeRole(q, r)
     PROVE  UsesExact'
  BY <1>18 DEF revokeRole, At, Answer, Advance
<1>19. ASSUME NEW q \in Requests, NEW k \in Codes, NEW max \in Limits,
              createInvite(q, k, max)
     PROVE  UsesExact'
  <2>1. UNCHANGED <<uses, admitted, joinCode>>
    BY <1>19 DEF createInvite
  <2>2. invites' = invites \/ (invites' = invites \cup {k} /\ limit[k] = None)
    BY <1>19 DEF createInvite
  <2>3. limit[k] = None => {j \in admitted : joinCode[j] = k} = {}
    BY DEF Aux, Known
  <2>4. limit[k] = None => uses[k] = 0
    BY DEF Aux, Issued
  <2> SUFFICES ASSUME NEW c \in invites'
               PROVE  uses'[c] = Cardinality({j \in admitted' : joinCode'[j] = c})
    BY DEF UsesExact
  <2>5. {j \in admitted' : joinCode'[j] = c} = {j \in admitted : joinCode[j] = c}
    BY <2>1
  <2>6. CASE c \in invites
    BY <2>1, <2>5, <2>6
  <2>7. CASE c \notin invites
    <3>1. c = k /\ limit[k] = None
      BY <2>2, <2>7
    <3>2. {j \in admitted' : joinCode'[j] = c} = {}
      BY <2>3, <2>5, <3>1
    <3>3. uses'[c] = 0
      BY <2>1, <2>4, <3>1
    <3> QED
      BY <3>2, <3>3, FS_EmptySet
  <2> QED
    BY <2>6, <2>7
<1>20. ASSUME NEW k \in Codes, Expire(k)
     PROVE  UsesExact'
  BY <1>20 DEF Expire
<1>21. ASSUME NEW q \in Requests, NEW k \in Codes, deleteInvite(q, k)
     PROVE  UsesExact'
  BY <1>21 DEF deleteInvite, At, Answer, Advance, InviteFree
<1>22. ASSUME NEW q \in Requests, deleteServer(q)
     PROVE  UsesExact'
  BY <1>22 DEF deleteServer, At, Answer, Advance, ServerFree
<1>23. CASE UNCHANGED vars
  BY <1>23 DEF vars
<1> HIDE DEF IInv, TypeOK, inviteVars, roleVars, joinVars, reqVars, Aux, Known,
             Issued, Progress, UsesExact
<1> QED
  BY <1>1, <1>2, <1>3, <1>4, <1>5, <1>6, <1>7, <1>8, <1>9, <1>10, <1>11, <1>12,
     <1>13, <1>14, <1>15, <1>16, <1>17, <1>18, <1>19, <1>20, <1>21, <1>22,
     <1>23
     DEF Next, Join, Request

-----------------------------------------------------------------------------
\* Only joinByInvite takes a join from its beginning to the check of its invite.
LEMMA OnlyBegins ==
    ASSUME IInv, [Next]_vars, NEW j \in Joins,
           joinPc[j] = "idle", joinPc'[j] = "valid"
    PROVE  \E u \in Users, k \in Codes : joinByInvite(j, u, k)
<1> USE DEF IInv, TypeOK, inviteVars, roleVars, joinVars, reqVars
<1>1. ASSUME UNCHANGED joinPc PROVE FALSE
  BY <1>1
<1>2. ASSUME NEW i \in Joins, Join(i) \/ Interrupted(i) PROVE FALSE
  BY <1>2 DEF Join, isMember, InsertMember, SelectEveryone, InsertMemberRole,
              UpdateInvite, Commit, CanCommit, CommitFails, Interrupted, InTx
<1>3. ASSUME NEW i \in Joins, NEW u \in Users, NEW k \in Codes,
             joinByInvite(i, u, k), i # j
      PROVE  FALSE
  BY <1>3 DEF joinByInvite
<1>4. ASSUME NEW q \in Requests, Request(q) PROVE UNCHANGED joinPc
  BY <1>4 DEF Request, createRole, updateRole, RefuseEveryone, assignRole,
              revokeRole, FindMember, deleteInvite, createInvite, deleteRole,
              deleteServer
<1>5. createServer => UNCHANGED joinPc
  BY DEF createServer
<1>6. ASSUME NEW q \in Requests, NEW u \in Users, NEW op \in Ops,
             Authorize(q, u, op)
      PROVE  UNCHANGED joinPc
  BY <1>6 DEF Authorize
<1>7. ASSUME NEW k \in Codes, Expire(k) PROVE UNCHANGED joinPc
  BY <1>7 DEF Expire
<1>8. CASE UNCHANGED vars
  BY <1>1, <1>8 DEF vars
<1> HIDE DEF IInv, TypeOK, inviteVars, roleVars, joinVars, reqVars
<1> QED
  BY <1>1, <1>2, <1>3, <1>4, <1>5, <1>6, <1>7, <1>8 DEF Next

\* The inductive invariant holds in every reachable state.
LEMMA Invariance == Spec => []IInv
<1>1. Init => IInv
  BY InitIInv
<1>2. IInv /\ [Next]_vars => IInv'
  <2> SUFFICES ASSUME IInv, [Next]_vars PROVE IInv'
    OBVIOUS
  <2>1. Aux'
    BY KnownStep, LockedStep DEF Aux
  <2> QED
    BY <2>1, TypeStep, OrphansStep, OneJoinStep, UsesStep DEF IInv
<1> QED
  BY <1>1, <1>2, PTL DEF Spec

\* Every variable keeps its type.
THEOREM TypeCorrect == Spec => []TypeOK
BY Invariance, PTL DEF IInv

\* Foreign keys, their locks and the check of Commit's error are enough for a
\* join never to leave a dangling row, whatever is deleted meanwhile.
THEOREM NeverOrphans == Spec => []NoOrphans
BY Invariance, PTL DEF IInv

\* The unique key is enough for a user to join once, although isMember is asked
\* before the transaction and an error of it is taken for no.
THEOREM JoinsOnce == Spec => []OneJoinEach
BY Invariance, PTL DEF IInv

\* The use count of an invite is the number of members it brought.
THEOREM CountsUses == Spec => []UsesExact
BY Invariance, PTL DEF IInv

\* Since the count is exact, an invite that is used up refuses whoever comes later.
THEOREM RefusesWhenFull == Spec => FullRefuses
<1> DEFINE Refused ==
        \A j \in Joins :
            joinPc[j] = "idle" /\ joinPc'[j] = "valid" =>
                LET k == joinCode'[j] IN
                limit[k] = NoLimit \/
                Cardinality({i \in admitted : joinCode[i] = k}) < limit[k]
<1>1. IInv /\ [Next]_vars => [Refused]_vars
  <2> SUFFICES ASSUME IInv, [Next]_vars, NEW j \in Joins,
                      joinPc[j] = "idle", joinPc'[j] = "valid"
               PROVE  LET k == joinCode'[j] IN
                      limit[k] = NoLimit \/
                      Cardinality({i \in admitted : joinCode[i] = k}) < limit[k]
    OBVIOUS
  <2>1. PICK u \in Users, k \in Codes : joinByInvite(j, u, k)
    BY OnlyBegins
  <2>2. Usable(k) /\ joinCode'[j] = k
    BY <2>1 DEF joinByInvite, IInv, TypeOK
  <2>3. uses[k] = Cardinality({i \in admitted : joinCode[i] = k})
    BY <2>2 DEF IInv, UsesExact, Usable
  <2> QED
    BY <2>2, <2>3 DEF Usable
<1> QED
  BY <1>1, Invariance, PTL DEF Spec, FullRefuses

-----------------------------------------------------------------------------
\* Every step is a step of Admission, or leaves its variables alone.
LEMMA StepImplements == IInv /\ [Next]_vars => [Promise!Next]_(Promise!vars)
<1> SUFFICES ASSUME IInv, [Next]_vars PROVE [Promise!Next]_(Promise!vars)
  OBVIOUS
<1> USE GuildAssumption
        DEF IInv, TypeOK, inviteVars, roleVars, joinVars, reqVars
<1>1. ASSUME createServer
     PROVE  [Promise!Next]_(Promise!vars)
  BY <1>1 DEF createServer, Promise!Next, Promise!Open, Aux, NoOrphans
<1>2. ASSUME NEW j \in Joins, NEW u \in Users, NEW k \in Codes,
              joinByInvite(j, u, k)
     PROVE  [Promise!Next]_(Promise!vars)
  BY <1>2 DEF joinByInvite, Promise!vars
<1>3. ASSUME NEW j \in Joins, isMember(j)
     PROVE  [Promise!Next]_(Promise!vars)
  BY <1>3 DEF isMember, Promise!vars
<1>4. ASSUME NEW j \in Joins, InsertMember(j)
     PROVE  [Promise!Next]_(Promise!vars)
  BY <1>4 DEF InsertMember, Promise!vars
<1>5. ASSUME NEW j \in Joins, SelectEveryone(j)
     PROVE  [Promise!Next]_(Promise!vars)
  BY <1>5 DEF SelectEveryone, Promise!vars
<1>6. ASSUME NEW j \in Joins, InsertMemberRole(j)
     PROVE  [Promise!Next]_(Promise!vars)
  BY <1>6 DEF InsertMemberRole, Promise!vars
<1>7. ASSUME NEW j \in Joins, UpdateInvite(j)
     PROVE  [Promise!Next]_(Promise!vars)
  BY <1>7 DEF UpdateInvite, CountAtCommit, Promise!vars
<1>8. ASSUME NEW j \in Joins, Commit(j)
     PROVE  [Promise!Next]_(Promise!vars)
  <2>1. Holding(j)
    BY <1>8 DEF Commit, CanCommit, Holding, InTx
  <2>2. /\ joinUser[j] \in Users /\ joinCode[j] \in Codes
        /\ server = "open" /\ joinUser[j] \notin members
        /\ joinRole[j] \in roles \cup {None}
        /\ joinCounted[j] <=> joinCode[j] \in invites
    BY <1>8, <2>1 DEF Commit, CanCommit, Aux, Known, Locked
  <2>3. \/ \E r \in roles : memberRoles' = memberRoles \cup {<<joinUser[j], r>>}
        \/ UNCHANGED memberRoles
    BY <1>8, <2>2 DEF Commit, NewRoles
  <2>4. Promise!Admit(joinUser[j], joinCode[j])
    BY <1>8, <2>2, <2>3 DEF Commit, Promise!Admit
  <2> QED
    BY <2>2, <2>4 DEF Promise!Next
<1>9. ASSUME NEW j \in Joins, CommitFails(j)
     PROVE  [Promise!Next]_(Promise!vars)
  BY <1>9 DEF CommitFails, Promise!vars
<1>10. ASSUME NEW j \in Joins, Interrupted(j)
     PROVE  [Promise!Next]_(Promise!vars)
  BY <1>10 DEF Interrupted, Promise!vars
<1>11. ASSUME NEW q \in Requests, NEW u \in Users, NEW op \in Ops,
              Authorize(q, u, op)
     PROVE  [Promise!Next]_(Promise!vars)
  BY <1>11 DEF Authorize, Promise!vars
<1>12. ASSUME NEW q \in Requests, NEW r \in RoleIds, NEW named \in BOOLEAN,
              NEW perms \in Grants, createRole(q, r, named, perms)
     PROVE  [Promise!Next]_(Promise!vars)
  <2>1. CASE server = "open"
    <3>1. Promise!AlterRoles
      BY <1>12, <2>1
         DEF createRole, At, Answer, Advance, NoOrphans, Promise!AlterRoles
    <3> QED
      BY <3>1 DEF Promise!Next
  <2>2. CASE server # "open"
    BY <1>12, <2>2 DEF createRole, At, Answer, Advance, NoOrphans, Promise!vars
  <2> QED
    BY <2>1, <2>2
<1>13. ASSUME NEW q \in Requests, NEW r \in RoleIds, NEW named \in BOOLEAN,
              NEW perms \in Grants, updateRole(q, r, named, perms)
     PROVE  [Promise!Next]_(Promise!vars)
  <2>1. CASE server = "open"
    <3>1. Promise!AlterRoles
      BY <1>13, <2>1
         DEF updateRole, At, Answer, Advance, NoOrphans, Promise!AlterRoles
    <3> QED
      BY <3>1 DEF Promise!Next
  <2>2. CASE server # "open"
    BY <1>13, <2>2 DEF updateRole, At, Answer, Advance, NoOrphans, Promise!vars
  <2> QED
    BY <2>1, <2>2
<1>14. ASSUME NEW q \in Requests, NEW r \in RoleIds, RefuseEveryone(q, r)
     PROVE  [Promise!Next]_(Promise!vars)
  BY <1>14 DEF RefuseEveryone, Promise!vars
<1>15. ASSUME NEW q \in Requests, deleteRole(q)
     PROVE  [Promise!Next]_(Promise!vars)
  <2>1. CASE server = "open"
    <3>1. Promise!AlterRoles
      BY <1>15, <2>1
         DEF deleteRole, At, Answer, Advance, RoleFree, WithoutRole, NoOrphans,
             Promise!AlterRoles
    <3> QED
      BY <3>1 DEF Promise!Next
  <2>2. CASE server # "open"
    BY <1>15, <2>2
       DEF deleteRole, At, Answer, Advance, RoleFree, WithoutRole, NoOrphans,
           Promise!vars
  <2> QED
    BY <2>1, <2>2
<1>16. ASSUME NEW q \in Requests, NEW u \in Users, FindMember(q, u)
     PROVE  [Promise!Next]_(Promise!vars)
  BY <1>16 DEF FindMember, Promise!vars
<1>17. ASSUME NEW q \in Requests, NEW r \in RoleIds, assignRole(q, r)
     PROVE  [Promise!Next]_(Promise!vars)
  <2>1. CASE server = "open"
    <3>1. Promise!AlterRoles
      BY <1>17, <2>1
         DEF assignRole, At, Answer, Advance, NoOrphans, Promise!AlterRoles
    <3> QED
      BY <3>1 DEF Promise!Next
  <2>2. CASE server # "open"
    BY <1>17, <2>2 DEF assignRole, At, Answer, Advance, NoOrphans, Promise!vars
  <2> QED
    BY <2>1, <2>2
<1>18. ASSUME NEW q \in Requests, NEW r \in RoleIds, revokeRole(q, r)
     PROVE  [Promise!Next]_(Promise!vars)
  <2>1. CASE server = "open"
    <3>1. Promise!AlterRoles
      BY <1>18, <2>1
         DEF revokeRole, At, Answer, Advance, NoOrphans, Promise!AlterRoles
    <3> QED
      BY <3>1 DEF Promise!Next
  <2>2. CASE server # "open"
    BY <1>18, <2>2 DEF revokeRole, At, Answer, Advance, NoOrphans, Promise!vars
  <2> QED
    BY <2>1, <2>2
<1>19. ASSUME NEW q \in Requests, NEW k \in Codes, NEW max \in Limits,
              createInvite(q, k, max)
     PROVE  [Promise!Next]_(Promise!vars)
  <2>1. CASE server = "open"
    <3>1. uses[k] = 0
      BY <1>19, <2>1 DEF createInvite, Aux, Issued
    <3>2. Promise!Issue(k)
      BY <1>19, <2>1, <3>1 DEF createInvite, Promise!Issue
    <3> QED
      BY <3>2 DEF Promise!Next
  <2>2. CASE server # "open"
    BY <1>19, <2>2 DEF createInvite, Promise!vars
  <2> QED
    BY <2>1, <2>2
<1>20. ASSUME NEW k \in Codes, Expire(k)
     PROVE  [Promise!Next]_(Promise!vars)
  BY <1>20 DEF Expire, Promise!vars
<1>21. ASSUME NEW q \in Requests, NEW k \in Codes, deleteInvite(q, k)
     PROVE  [Promise!Next]_(Promise!vars)
  BY <1>21 DEF deleteInvite, Promise!Next, Promise!Revoke
<1>22. ASSUME NEW q \in Requests, deleteServer(q)
     PROVE  [Promise!Next]_(Promise!vars)
  <2>1. CASE server = "open"
    BY <1>22, <2>1 DEF deleteServer, Promise!Next, Promise!Close
  <2>2. CASE server # "open"
    BY <1>22, <2>2 DEF deleteServer, At, Aux, Asked, NoOrphans, Promise!vars
  <2> QED
    BY <2>1, <2>2
<1>23. CASE UNCHANGED vars
  BY <1>23 DEF vars, Promise!vars
<1> HIDE DEF IInv, TypeOK, inviteVars, roleVars, joinVars, reqVars
<1> QED
  BY <1>1, <1>2, <1>3, <1>4, <1>5, <1>6, <1>7, <1>8, <1>9, <1>10, <1>11, <1>12,
     <1>13, <1>14, <1>15, <1>16, <1>17, <1>18, <1>19, <1>20, <1>21, <1>22,
     <1>23
     DEF Next, Join, Request

\* Guild implements Admission: to other requests a join is one step.
THEOREM Implements == Spec => ImplementsAdmission
<1>1. Init => Promise!Init
  BY DEF Init, Promise!Init
<1> QED
  BY <1>1, Invariance, StepImplements, PTL
     DEF Spec, ImplementsAdmission, Promise!Spec

=============================================================================
