----------------------------- MODULE MCUploads -----------------------------
(***************************************************************************)
(* Small instances of Uploads for TLC.                                     *)
(***************************************************************************)
EXTENDS Uploads, TLC

CONSTANTS message, pack, guild

\* The owners are one message, one pack and one server, or some of them.
KindOf ==
    [o \in Owners |-> CASE o = message -> "attachment"
                        [] o = pack -> "sticker"
                        [] OTHER -> "emoji"]

Symmetry == Permutations(Uploads) \cup Permutations(Names)
=============================================================================
