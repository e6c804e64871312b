----------------------------- MODULE Admission -----------------------------
(***************************************************************************)
(* What the handlers of servers.go, roles.go and invites.go promise about  *)
(* who is in a server, without their statements and transactions: a user   *)
(* is admitted in one step, once, with at most one role, and the invite    *)
(* counts it as long as it exists.  max_uses is not part of the promise:   *)
(* Guild shows that it may be exceeded.                                    *)
(***************************************************************************)
EXTENDS Naturals

CONSTANTS Users, Owner, RoleIds, Everyone, Codes

VARIABLES server, roles, members, memberRoles, invites, uses

vars == <<server, roles, members, memberRoles, invites, uses>>

Init ==
    /\ server = "none"
    /\ roles = {} /\ members = {} /\ memberRoles = {} /\ invites = {}
    /\ uses = [k \in Codes |-> 0]

Open ==
    /\ server = "none"
    /\ server' = "open"
    /\ roles' = {Everyone}
    /\ members' = {Owner}
    /\ memberRoles' = {<<Owner, Everyone>>}
    /\ UNCHANGED <<invites, uses>>

Admit(u, k) ==
    /\ server = "open"
    /\ u \notin members
    /\ members' = members \cup {u}
    /\ \/ \E r \in roles : memberRoles' = memberRoles \cup {<<u, r>>}
       \/ UNCHANGED memberRoles
    /\ uses' = IF k \in invites THEN [uses EXCEPT ![k] = @ + 1] ELSE uses
    /\ UNCHANGED <<server, roles, invites>>

\* Roles and who holds them may change in any way that leaves no dangling row.
AlterRoles ==
    /\ server = "open"
    /\ roles' \in SUBSET RoleIds
    /\ memberRoles' \in SUBSET (members \X roles')
    /\ UNCHANGED <<server, members, invites, uses>>

\* A code is never issued again once it has been used.
Issue(k) ==
    /\ server = "open"
    /\ uses[k] = 0
    /\ invites' = invites \cup {k}
    /\ UNCHANGED <<server, roles, members, memberRoles, uses>>

Revoke(k) ==
    /\ invites' = invites \ {k}
    /\ UNCHANGED <<server, roles, members, memberRoles, uses>>

Close ==
    /\ server = "open"
    /\ server' = "deleted"
    /\ roles' = {} /\ members' = {} /\ memberRoles' = {} /\ invites' = {}
    /\ UNCHANGED uses

Next ==
    \/ Open
    \/ \E u \in Users, k \in Codes : Admit(u, k)
    \/ AlterRoles
    \/ \E k \in Codes : Issue(k) \/ Revoke(k)
    \/ Close

Spec == Init /\ [][Next]_vars
=============================================================================
