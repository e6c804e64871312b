------------------------------ MODULE Delivery ------------------------------
(***************************************************************************)
(* What the hub of ws.go promises to connections, without its goroutines,  *)
(* queues and locks.  A call publishes one event on two paths, first       *)
(* "local", to the connections of its own replica, then "redis", to all.   *)
(* A connection is given events of the channels it is subscribed to.  It   *)
(* may miss any of them, but along one path it never goes back: an event   *)
(* comes after everything that was given before it there.  Nothing relates *)
(* the two paths to each other.                                            *)
(***************************************************************************)
EXTENDS Naturals, Sequences

CONSTANTS Calls, Clients, Channels, Replicas, Home, None

Paths == {"local", "redis"}

VARIABLES
    origin, topic,  \* replica and channel of the calls
    published,      \* per path, the calls published there
    before,         \* per path and call, what was published there before it
    channels,       \* the subscriptions of each connection
    given,          \* the events given to each connection
    ended           \* connections that are given nothing any more

vars == <<origin, topic, published, before, channels, given, ended>>

Init ==
    /\ origin = [p \in Calls |-> None]
    /\ topic = [p \in Calls |-> None]
    /\ published = [path \in Paths |-> {}]
    /\ before = [path \in Paths |-> [p \in Calls |-> {}]]
    /\ channels = [c \in Clients |-> {}]
    /\ given = [c \in Clients |-> <<>>]
    /\ ended = {}

Call(p, r, ch) ==
    /\ \A path \in Paths : p \notin published[path]
    /\ origin' = [origin EXCEPT ![p] = r]
    /\ topic' = [topic EXCEPT ![p] = ch]
    /\ UNCHANGED <<published, before, channels, given, ended>>

Publish(p, path) ==
    /\ topic[p] # None
    /\ p \notin published[path]
    /\ path = "redis" => p \in published["local"]
    /\ published' = [published EXCEPT ![path] = @ \cup {p}]
    /\ before' = [before EXCEPT ![path][p] = published[path]]
    /\ UNCHANGED <<origin, topic, channels, given, ended>>

Resubscribe(c) ==
    /\ \E S \in SUBSET Channels : channels' = [channels EXCEPT ![c] = S]
    /\ UNCHANGED <<origin, topic, published, before, given, ended>>

\* p comes after every event c was given along that path.
Follows(p, c, path) ==
    \A i \in DOMAIN given[c] :
        given[c][i].via = path => given[c][i].msg \in before[path][p]

Give(c, p, path) ==
    /\ c \notin ended
    /\ p \in published[path]
    /\ topic[p] \in channels[c]
    /\ path = "local" => origin[p] = Home[c]
    /\ Follows(p, c, path)
    /\ given' = [given EXCEPT ![c] = Append(@, [msg |-> p, via |-> path])]
    /\ UNCHANGED <<origin, topic, published, before, channels, ended>>

End(c) ==
    /\ ended' = ended \cup {c}
    /\ UNCHANGED <<origin, topic, published, before, channels, given>>

Next ==
    \/ \E p \in Calls, r \in Replicas, ch \in Channels : Call(p, r, ch)
    \/ \E p \in Calls, path \in Paths : Publish(p, path)
    \/ \E c \in Clients : Resubscribe(c) \/ End(c)
    \/ \E c \in Clients, p \in Calls, path \in Paths : Give(c, p, path)

Spec == Init /\ [][Next]_vars
=============================================================================
