----------------------------- MODULE MCChannels -----------------------------
(***************************************************************************)
(* Small instances of Channels for TLC.                                    *)
(***************************************************************************)
EXTENDS Channels, TLC

\* A move with a statement after it, and statements for each table.
SomeBodies ==
    {{"category", "position"}, {"name"}}

\* What is written and read is in one channel.
InOneChannel == [x \in Messages \cup Pointers |-> CHOOSE ch \in Channels : TRUE]

\* Requests are interchangeable.
RequestSymmetry == Permutations(Requests)
=============================================================================
