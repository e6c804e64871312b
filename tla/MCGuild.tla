------------------------------ MODULE MCGuild ------------------------------
(***************************************************************************)
(* Small instances of Guild for TLC.                                       *)
(***************************************************************************)
EXTENDS Guild, TLC

CONSTANTS o, everyoneId

\* Joins and requests are interchangeable, and so are the users who do not own
\* the server.
GuildSymmetry ==
    Permutations(Joins) \cup Permutations(Requests) \cup
    Permutations(Users \ {o})

\* Every set of permissions a request may carry in the small instances: one that
\* grants what "@everyone" does not, and one that grants everything by one bit.
ManageOrAll == {{"manage_roles"}, {"administrator"}}
=============================================================================
