------------------------------- MODULE MCFeed -------------------------------
(***************************************************************************)
(* Small instances of Feed for TLC.                                        *)
(***************************************************************************)
EXTENDS Feed, TLC

Symmetry == Permutations(Requests) \cup Permutations(Messages)

\* The viewer has subscribed before a handler begins, and stays: what it misses
\* while it is not subscribed it may miss as a lost event, too.
SubscribedFirst == channels[Viewer] = {Channel} \/ \A q \in Requests : pc[q] = "idle"
=============================================================================
