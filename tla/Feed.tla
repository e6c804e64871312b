-------------------------------- MODULE Feed --------------------------------
(***************************************************************************)
(* The messages of one text channel and the events about them: sendMessage,*)
(* editMessage and deleteMessage of internal/handler/messages.go, composed *)
(* with the hub as Delivery specifies it.                                  *)
(*                                                                         *)
(* Each handler changes the table and then publishes an event on the two   *)
(* paths of the hub; other requests, of this replica and of others, come   *)
(* in between.  A viewer, a connection that may subscribe to the channel   *)
(* and unsubscribe, applies every copy it is given.  A request stands for  *)
(* the content it writes.                                                  *)
(***************************************************************************)
EXTENDS Naturals, Sequences

CONSTANTS
    Requests,   \* the requests to send, edit or delete a message
    Messages,   \* message IDs
    Replicas,   \* the server processes
    Home,       \* the one the viewer is connected to
    Viewer, Channel, None

ASSUME FeedAssumption ==
    /\ None \notin Requests \cup Messages \cup Replicas \cup {Channel}
    /\ Home \in Replicas

Ops == {"send", "edit", "delete"}

VARIABLES
    content,    \* content of the row of each message, None without a row
    unborn,     \* IDs no row has had so far
    pc, op, message,
    wrote,      \* the requests that changed the row of each message, in their order
    untrue,     \* those whose DELETE failed
    view,       \* what the viewer shows of each message
    \* the hub
    origin, topic, published, before, channels, given, ended

Hub == INSTANCE Delivery
    WITH Calls <- Requests, Clients <- {Viewer}, Channels <- {Channel},
         Home <- [c \in {Viewer} |-> Home]

hubVars == <<origin, topic, published, before, channels, given, ended>>
vars == <<content, unborn, pc, op, message, wrote, untrue, view, hubVars>>

Paths == Hub!Paths

\* What the viewer is given.
Copies == [msg : Requests, via : Paths]

TypeOK ==
    /\ content \in [Messages -> Requests \cup {None}]
    /\ unborn \in SUBSET Messages
    /\ pc \in [Requests -> {"idle", "checked", "written", "local", "done"}]
    /\ op \in [Requests -> Ops \cup {None}]
    /\ message \in [Requests -> Messages \cup {None}]
    /\ wrote \in [Messages -> Seq(Requests)]
    /\ untrue \in SUBSET Requests
    /\ view \in [Messages -> Requests \cup {None}]
    /\ origin \in [Requests -> Replicas \cup {None}]
    /\ topic \in [Requests -> {Channel, None}]
    /\ published \in [Paths -> SUBSET Requests]
    /\ before \in [Paths -> [Requests -> SUBSET Requests]]
    /\ channels \in [{Viewer} -> SUBSET {Channel}]
    /\ given \in [{Viewer} -> Seq(Copies)]
    /\ ended \in SUBSET {Viewer}

Init ==
    /\ content = [m \in Messages |-> None]
    /\ unborn = Messages
    /\ pc = [q \in Requests |-> "idle"]
    /\ op = [q \in Requests |-> None]
    /\ message = [q \in Requests |-> None]
    /\ wrote = [m \in Messages |-> <<>>]
    /\ untrue = {}
    /\ view = [m \in Messages |-> None]
    /\ Hub!Init

-----------------------------------------------------------------------------
(* The handlers.                                                           *)

Starts(q, o, m) ==
    /\ pc[q] = "idle"
    /\ op' = [op EXCEPT ![q] = o]
    /\ message' = [message EXCEPT ![q] = m]
    /\ \E r \in Replicas : Hub!Call(q, r, Channel)
    /\ UNCHANGED <<untrue, view>>

\* From here on the handler publishes its event, changed the statement a row or
\* not.
Written(q, m, changed) ==
    /\ pc' = [pc EXCEPT ![q] = "written"]
    /\ wrote' = IF changed THEN [wrote EXCEPT ![m] = Append(@, q)] ELSE wrote

\* The INSERT has committed.  When it fails the handler returns, and nothing
\* has happened.
sendMessage(q, m) ==
    /\ Starts(q, "send", m)
    /\ m \in unborn
    /\ unborn' = unborn \ {m}
    /\ content' = [content EXCEPT ![m] = q]
    /\ Written(q, m, TRUE)

\* editMessage and deleteMessage look up the author first, and return if there
\* is no such message.
Check(q, o, m) ==
    /\ Starts(q, o, m)
    /\ content[m] # None
    /\ pc' = [pc EXCEPT ![q] = "checked"]
    /\ UNCHANGED <<content, unborn, wrote>>

\* The UPDATE; one that finds no row is not an error.
ArgumentsSwapped(q, m) == m  \* mutant: the arguments of UPDATE change places
NewContent(q, m) == q

editMessage(q) ==
    LET m == message[q] IN
    /\ pc[q] = "checked"
    /\ op[q] = "edit"
    /\ content' = IF content[m] = None THEN content
                                       ELSE [content EXCEPT ![m] = NewContent(q, m)]
    /\ Written(q, m, content[m] # None)
    /\ UNCHANGED <<unborn, op, message, untrue, view, hubVars>>

\* The error of the UPDATE ends the request.
AnswerOK(q) == Written(q, message[q], FALSE)  \* mutant: the error is not looked at
AnswerError(q) == pc' = [pc EXCEPT ![q] = "done"] /\ UNCHANGED wrote

EditFails(q) ==
    /\ pc[q] = "checked"
    /\ op[q] = "edit"
    /\ AnswerError(q)
    /\ UNCHANGED <<content, unborn, op, message, untrue, view, hubVars>>

deleteMessage(q) ==
    /\ pc[q] = "checked"
    /\ op[q] = "delete"
    /\ content' = [content EXCEPT ![message[q]] = None]
    /\ Written(q, message[q], content[message[q]] # None)
    /\ UNCHANGED <<unborn, op, message, untrue, view, hubVars>>

\* The error of the DELETE is not looked at.
DeleteFails(q) ==
    /\ pc[q] = "checked"
    /\ op[q] = "delete"
    /\ Written(q, message[q], FALSE)
    /\ untrue' = untrue \cup {q}
    /\ UNCHANGED <<content, unborn, op, message, view, hubVars>>

\* The replica ends; a request it has begun leaves what it has written.
Crash(q) ==
    /\ pc[q] \in {"checked", "written", "local"}
    /\ pc' = [pc EXCEPT ![q] = "done"]
    /\ UNCHANGED <<content, unborn, op, message, wrote, untrue, view, hubVars>>

-----------------------------------------------------------------------------
(* The events.                                                             *)

EnqueueLocal(q) ==
    /\ pc[q] = "written"
    /\ pc' = [pc EXCEPT ![q] = "local"]
    /\ Hub!Publish(q, "local")
    /\ UNCHANGED <<content, unborn, op, message, wrote, untrue, view>>

\* A publication that does not reach Redis is an error nobody looks at.
PublishRedis(q) ==
    /\ pc[q] = "local"
    /\ pc' = [pc EXCEPT ![q] = "done"]
    /\ Hub!Publish(q, "redis") \/ UNCHANGED hubVars
    /\ UNCHANGED <<content, unborn, op, message, wrote, untrue, view>>

\* What the event makes the viewer show; an event of type message_update is
\* about a message it shows, or ignored.
Shown(q, shown) ==
    CASE op[q] = "send" -> q
      [] op[q] = "edit" -> IF shown = None THEN None ELSE q
      [] op[q] = "delete" -> None

\* The viewer is given one copy of the event; it may never be given it.
Receive(q, path) ==
    /\ Hub!Give(Viewer, q, path)
    /\ view' = [view EXCEPT ![message[q]] = Shown(q, @)]
    /\ UNCHANGED <<content, unborn, pc, op, message, wrote, untrue>>

\* The viewer subscribes or unsubscribes.
Subscribe ==
    /\ Hub!Resubscribe(Viewer)
    /\ UNCHANGED <<content, unborn, pc, op, message, wrote, untrue, view>>

Next ==
    \/ \E q \in Requests :
          \/ \E m \in Messages :
                \/ sendMessage(q, m)
                \/ Check(q, "edit", m)
                \/ Check(q, "delete", m)
          \/ editMessage(q) \/ EditFails(q)
          \/ deleteMessage(q) \/ DeleteFails(q)
          \/ EnqueueLocal(q) \/ PublishRedis(q)
          \/ \E path \in Paths : Receive(q, path)
          \/ Crash(q)
    \/ Subscribe

Spec == Init /\ [][Next]_vars

-----------------------------------------------------------------------------
(* Properties                                                              *)

Copy(q, path) == [msg |-> q, via |-> path]

\* The viewer was given the events of all changes of m along a path, on which
\* they were published in the order of the writes.
Complete(m, path) ==
    \A i \in DOMAIN wrote[m] :
        /\ \E k \in DOMAIN given[Viewer] : given[Viewer][k] = Copy(wrote[m][i], path)
        /\ \A j \in 1 .. i - 1 : wrote[m][j] \in before[path][wrote[m][i]]

\* No older change of m came along the other path after the newest came along
\* this one.
Undisturbed(m, path) ==
    LET n == Len(wrote[m])
        events == given[Viewer]
    IN  \A i \in 1 .. n - 1, k \in DOMAIN events :
            events[k].msg = wrote[m][i]
              => \E j \in k .. Len(events) : events[j] = Copy(wrote[m][n], path)

\* A viewer shows a message as the table has it whenever it was given every change
\* along one of the paths, however late the handlers were to publish them and
\* whatever the other path lost, unless that one brings an older change afterwards
\* or a failed DELETE was announced.  In particular neither the second copy of an
\* event nor an edit that is under way while its message is deleted brings back
\* what is gone (messages.go:195-225, 241-258, ws.go:136-150).
ViewAgrees ==
    \A m \in Messages \ unborn, path \in Paths :
        /\ Complete(m, path)
        /\ Undisturbed(m, path)
        /\ \A q \in untrue : message[q] # m
        => view[m] = content[m]
=============================================================================
