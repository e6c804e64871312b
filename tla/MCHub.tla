------------------------------- MODULE MCHub -------------------------------
(***************************************************************************)
(* Small instances of Hub for TLC.                                         *)
(***************************************************************************)
EXTENDS Hub, FiniteSets, TLC

CONSTANTS r1, r2, c1, c2

\* Every connection at replica r1.
HomeOne == [c \in Clients |-> r1]

\* c1 at replica r1, the other connections at r2.
HomeSplit == [c \in Clients |-> IF c = c1 THEN r1 ELSE r2]

\* Calls are interchangeable; so are connections of one replica.
AllSymmetry == Permutations(Calls) \cup Permutations(Clients)

\* Bounds for the runs about ordering: only handlers publish, they start when
\* everyone has subscribed, and a connection stays up unless Run evicts it.
HandlersOnly == \A p \in Calls : caller[p] = None
AllSubscribed ==
    (\E p \in Calls : stage[p] # "idle") => \A c \in Clients : channels[c] # {}
StayUp ==
    \A c \in Clients :
        ~closed[c] => readPc[c] # "unregister" /\ writePc[c] # "done"
OrderBound == HandlersOnly /\ AllSubscribed /\ StayUp

\* The state without `before` and without the order of `given`, which no action
\* reads and no property of hub_calls looks at.
NoHistory ==
    <<hubVars, clients, broadcast, redisVars, inbox, pumpVars, channels, send, closed,
      helpers, stage, origin, topic, caller, missed, panicked,
      [c \in Clients |-> {given[c][i] : i \in DOMAIN given[c]}]>>
=============================================================================
