-------------------------------- MODULE Hub --------------------------------
(***************************************************************************)
(* The WebSocket hub of internal/handler/ws.go.                            *)
(*                                                                         *)
(* Every replica runs one Hub: the goroutine of Run, which owns the set of *)
(* registered clients, and the goroutine of subscribeRedis, which feeds    *)
(* those clients with what any replica published.  A client is one         *)
(* WebSocket connection: its wsConnect handler, its readPump and its       *)
(* writePump.  A call is one invocation of PublishToChannel, made by an    *)
(* HTTP handler or by a readPump that read a "typing" frame; it stands for *)
(* the event it publishes.                                                 *)
(*                                                                         *)
(* hub.mu and client.mu are not variables.  Run is the only writer of      *)
(* hub.mu, so Lock has to wait for subscribeRedis to finish the loop that  *)
(* holds RLock, and a pending Lock keeps new readers out; both are guards  *)
(* below.  client.mu protects one read or one write of client.channels.    *)
(***************************************************************************)
EXTENDS Naturals, Sequences

CONSTANTS
    Replicas,      \* the replicas of the service, one Hub each
    Clients,       \* the connections; none is used twice
    Channels,      \* channel IDs
    Calls,         \* the invocations of PublishToChannel
    Home,          \* Home[c] is the replica of connection c (client.hub)
    SendCap,       \* capacity of client.send (256 in the code)
    BroadcastCap,  \* capacity of hub.broadcast (256 in the code)
    None

ASSUME HubAssumption ==
    /\ Home \in [Clients -> Replicas]
    /\ SendCap \in Nat \ {0}
    /\ BroadcastCap \in Nat \ {0}
    /\ None \notin Clients
    /\ None \notin Calls
    /\ None \notin Channels

VARIABLES
    \* the goroutine of Hub.Run, one per replica
    hubPc,         \* where Run is: the select, or the case it has entered
    hubClient,     \* the client received from register or unregister
    hubMsg,        \* the message received from broadcast
    hubTodo,       \* clients the broadcast loop has not visited yet
    \* the Hub struct
    clients,       \* hub.clients, all replicas together (c is in Home[c]'s)
    broadcast,     \* hub.broadcast, a buffered channel per replica
    \* the goroutine of subscribeRedis, one per replica
    redisPc, redisMsg, redisTodo,
    inbox,         \* messages Redis has pushed to the replica's subscription
    \* the connections
    wsStage,       \* progress of the wsConnect handler
    readPc,        \* the readPump goroutine
    writePc,       \* the writePump goroutine
    connOpen,      \* this end of client.conn has not been closed
    channels,      \* client.channels
    send,          \* client.send, a buffered channel
    closed,        \* client.send has been closed
    helpers,       \* goroutines started by Run blocked in unregister <- c
    \* the calls of PublishToChannel
    stage, origin, topic, caller,
    \* what an observer sees
    before,        \* what was on a path when a call was published there
    given,         \* events put into client.send, in order
    missed,        \* events dropped because client.send was full
    panicked       \* the Go runtime has panicked on a closed channel

hubVars   == <<hubPc, hubClient, hubMsg, hubTodo>>
redisVars == <<redisPc, redisMsg, redisTodo>>
pumpVars  == <<wsStage, readPc, writePc, connOpen>>
callVars  == <<stage, origin, topic, caller, before>>
vars == <<hubVars, clients, broadcast, redisVars, inbox, pumpVars, channels,
          send, closed, helpers, callVars, given, missed, panicked>>

Paths == {"local", "redis"}
Event == [msg : Calls, via : Paths]

TypeOK ==
    /\ hubPc \in [Replicas -> {"select", "register", "unregister", "broadcast"}]
    /\ hubClient \in [Replicas -> Clients \cup {None}]
    /\ hubMsg \in [Replicas -> Calls \cup {None}]
    /\ hubTodo \in [Replicas -> SUBSET Clients]
    /\ clients \in SUBSET Clients
    /\ broadcast \in [Replicas -> Seq(Calls)]
    /\ redisPc \in [Replicas -> {"receive", "deliver"}]
    /\ redisMsg \in [Replicas -> Calls \cup {None}]
    /\ redisTodo \in [Replicas -> SUBSET Clients]
    /\ inbox \in [Replicas -> Seq(Calls)]
    /\ wsStage \in [Clients -> {"none", "registering", "done"}]
    /\ readPc \in [Clients ->
            {"off", "reading", "publishing", "unregister", "closing", "done"}]
    /\ writePc \in [Clients -> {"off", "running", "done"}]
    /\ connOpen \in [Clients -> BOOLEAN]
    /\ channels \in [Clients -> SUBSET Channels]
    /\ send \in [Clients -> Seq(Event)]
    /\ closed \in [Clients -> BOOLEAN]
    /\ helpers \in [Clients -> Nat]
    /\ stage \in [Calls -> {"idle", "local", "redis", "done"}]
    /\ origin \in [Calls -> Replicas \cup {None}]
    /\ topic \in [Calls -> Channels \cup {None}]
    /\ caller \in [Calls -> Clients \cup {None}]
    /\ before \in [Paths -> [Calls -> SUBSET Calls]]
    /\ given \in [Clients -> Seq(Event)]
    /\ missed \in [Clients -> SUBSET Event]
    /\ panicked \in BOOLEAN

Init ==
    /\ hubPc = [r \in Replicas |-> "select"]
    /\ hubClient = [r \in Replicas |-> None]
    /\ hubMsg = [r \in Replicas |-> None]
    /\ hubTodo = [r \in Replicas |-> {}]
    /\ clients = {}
    /\ broadcast = [r \in Replicas |-> <<>>]
    /\ redisPc = [r \in Replicas |-> "receive"]
    /\ redisMsg = [r \in Replicas |-> None]
    /\ redisTodo = [r \in Replicas |-> {}]
    /\ inbox = [r \in Replicas |-> <<>>]
    /\ wsStage = [c \in Clients |-> "none"]
    /\ readPc = [c \in Clients |-> "off"]
    /\ writePc = [c \in Clients |-> "off"]
    /\ connOpen = [c \in Clients |-> FALSE]
    /\ channels = [c \in Clients |-> {}]
    /\ send = [c \in Clients |-> <<>>]
    /\ closed = [c \in Clients |-> FALSE]
    /\ helpers = [c \in Clients |-> 0]
    /\ stage = [p \in Calls |-> "idle"]
    /\ origin = [p \in Calls |-> None]
    /\ topic = [p \in Calls |-> None]
    /\ caller = [p \in Calls |-> None]
    /\ before = [path \in Paths |-> [p \in Calls |-> {}]]
    /\ given = [c \in Clients |-> <<>>]
    /\ missed = [c \in Clients |-> {}]
    /\ panicked = FALSE

-----------------------------------------------------------------------------
(* wsConnect: the upgraded connection is offered to Run, and the two pumps *)
(* start only when Run has received it.                                    *)

\* The connection is upgraded and the handler blocks in register <- client.
wsConnect(c) ==
    /\ wsStage[c] = "none"
    /\ wsStage' = [wsStage EXCEPT ![c] = "registering"]
    /\ connOpen' = [connOpen EXCEPT ![c] = TRUE]
    /\ UNCHANGED <<hubVars, clients, broadcast, redisVars, inbox, readPc,
                   writePc, channels, send, closed, helpers, callVars, given,
                   missed, panicked>>

\* Run receives the client; the send of the handler completes and it starts
\* the pumps.
HubRecvRegister(c) ==
    LET r == Home[c] IN
    /\ hubPc[r] = "select"
    /\ wsStage[c] = "registering"
    /\ hubPc' = [hubPc EXCEPT ![r] = "register"]
    /\ hubClient' = [hubClient EXCEPT ![r] = c]
    /\ wsStage' = [wsStage EXCEPT ![c] = "done"]
    /\ readPc' = [readPc EXCEPT ![c] = "reading"]
    /\ writePc' = [writePc EXCEPT ![c] = "running"]
    /\ UNCHANGED <<hubMsg, hubTodo, clients, broadcast, redisVars, inbox,
                   connOpen, channels, send, closed, helpers, callVars, given,
                   missed, panicked>>

\* hub.mu.Lock is granted to Run only when subscribeRedis is outside its loop.
LockIgnored(r) == TRUE  \* mutant: the map is written without the lock
LockGranted(r) == redisPc[r] = "receive"

HubRegister(r) ==
    /\ hubPc[r] = "register"
    /\ LockGranted(r)
    /\ clients' = clients \cup {hubClient[r]}
    /\ hubPc' = [hubPc EXCEPT ![r] = "select"]
    /\ hubClient' = [hubClient EXCEPT ![r] = None]
    /\ UNCHANGED <<hubMsg, hubTodo, broadcast, redisVars, inbox, pumpVars,
                   channels, send, closed, helpers, callVars, given, missed,
                   panicked>>

-----------------------------------------------------------------------------
(* unregister: sent by the deferred function of readPump and by the        *)
(* goroutines Run starts for a client whose buffer is full.                *)

HubRecvFromReadPump(c) ==
    LET r == Home[c] IN
    /\ hubPc[r] = "select"
    /\ readPc[c] = "unregister"
    /\ readPc' = [readPc EXCEPT ![c] = "closing"]
    /\ hubPc' = [hubPc EXCEPT ![r] = "unregister"]
    /\ hubClient' = [hubClient EXCEPT ![r] = c]
    /\ UNCHANGED <<hubMsg, hubTodo, clients, broadcast, redisVars, inbox,
                   wsStage, writePc, connOpen, channels, send, closed, helpers,
                   callVars, given, missed, panicked>>

HelperMayWait(c) == TRUE  \* mutant: one helper is received twice
HelperWaits(c) == helpers[c] > 0

HubRecvFromHelper(c) ==
    LET r == Home[c] IN
    /\ hubPc[r] = "select"
    /\ HelperWaits(c)
    /\ helpers' = [helpers EXCEPT ![c] = @ - 1]
    /\ hubPc' = [hubPc EXCEPT ![r] = "unregister"]
    /\ hubClient' = [hubClient EXCEPT ![r] = c]
    /\ UNCHANGED <<hubMsg, hubTodo, clients, broadcast, redisVars, inbox,
                   pumpVars, channels, send, closed, callVars, given, missed,
                   panicked>>

\* A client that is still registered is removed and its send channel closed;
\* closing a closed channel panics.
RemoveHalf(c) ==  \* mutant: the channel is closed, the map entry stays
    /\ closed' = [closed EXCEPT ![c] = TRUE]
    /\ UNCHANGED <<clients, panicked>>
Remove(c) ==
    IF c \in clients
      THEN /\ clients' = clients \ {c}
           /\ closed' = [closed EXCEPT ![c] = TRUE]
           /\ panicked' = (panicked \/ closed[c])
      ELSE UNCHANGED <<clients, closed, panicked>>

HubUnregister(r) ==
    LET c == hubClient[r] IN
    /\ hubPc[r] = "unregister"
    /\ LockGranted(r)
    /\ Remove(c)
    /\ hubPc' = [hubPc EXCEPT ![r] = "select"]
    /\ hubClient' = [hubClient EXCEPT ![r] = None]
    /\ UNCHANGED <<hubMsg, hubTodo, broadcast, redisVars, inbox, pumpVars,
                   channels, send, helpers, callVars, given, missed>>

-----------------------------------------------------------------------------
(* broadcast: Run visits the registered clients in map order, that is in   *)
(* any order, holding RLock.  Reading client.channels and the non-blocking *)
(* send are one step: a change of the subscription between them is the     *)
(* same behaviour as the change right after the send.                      *)

\* A non-blocking send of event e to client c; a send on a closed channel
\* panics.
SendTo(c, e) ==
    /\ Len(send[c]) < SendCap
    /\ send' = [send EXCEPT ![c] = Append(@, e)]
    /\ given' = [given EXCEPT ![c] = Append(@, e)]
    /\ panicked' = (panicked \/ closed[c])

\* The default branch of the select: the event is dropped.
DropFor(c, e) ==
    /\ Len(send[c]) >= SendCap
    /\ missed' = [missed EXCEPT ![c] = @ \cup {e}]
    /\ panicked' = (panicked \/ closed[c])

ReadyForClients(r) ==  \* mutant: nothing is received while nobody is connected
    broadcast[r] # <<>> /\ \E c \in clients : Home[c] = r
BroadcastReady(r) == broadcast[r] # <<>>

HubRecvBroadcast(r) ==
    /\ hubPc[r] = "select"
    /\ BroadcastReady(r)
    /\ hubPc' = [hubPc EXCEPT ![r] = "broadcast"]
    /\ hubMsg' = [hubMsg EXCEPT ![r] = Head(broadcast[r])]
    /\ hubTodo' = [hubTodo EXCEPT ![r] = {c \in clients : Home[c] = r}]
    /\ broadcast' = [broadcast EXCEPT ![r] = Tail(@)]
    /\ UNCHANGED <<hubClient, clients, redisVars, inbox, pumpVars, channels,
                   send, closed, helpers, callVars, given, missed, panicked>>

\* A range over the map yields each client once.
VisitedAgain(todo, c) == todo  \* mutant: a client is visited again
Visited(todo, c) == todo \ {c}

HubVisit(r, c) ==
    /\ hubPc[r] = "broadcast"
    /\ c \in hubTodo[r]
    /\ hubTodo' = [hubTodo EXCEPT ![r] = Visited(@, c)]
    /\ UNCHANGED <<hubPc, hubClient, hubMsg, clients, broadcast, redisVars,
                   inbox, pumpVars, channels, closed, callVars>>

HubSkip(r, c) ==
    /\ HubVisit(r, c)
    /\ topic[hubMsg[r]] \notin channels[c]
    /\ UNCHANGED <<send, given, helpers, missed, panicked>>

HubSend(r, c) ==
    /\ HubVisit(r, c)
    /\ topic[hubMsg[r]] \in channels[c]
    /\ SendTo(c, [msg |-> hubMsg[r], via |-> "local"])
    /\ UNCHANGED <<helpers, missed>>

\* A new goroutine will unregister the client, since Run cannot send to itself.
EvictNobody(c) == UNCHANGED helpers  \* mutant: a full buffer is ignored
EvictInline(c) == FALSE  \* mutant: Run blocks in its own unregister <- c
Evict(c) == helpers' = [helpers EXCEPT ![c] = @ + 1]

HubOverflow(r, c) ==
    /\ HubVisit(r, c)
    /\ topic[hubMsg[r]] \in channels[c]
    /\ DropFor(c, [msg |-> hubMsg[r], via |-> "local"])
    /\ Evict(c)
    /\ UNCHANGED <<send, given>>

LoopLeft(r) == TRUE  \* mutant: a break in the loop body
LoopDone(r) == hubTodo[r] = {}

HubEndBroadcast(r) ==
    /\ hubPc[r] = "broadcast"
    /\ LoopDone(r)
    /\ hubPc' = [hubPc EXCEPT ![r] = "select"]
    /\ hubMsg' = [hubMsg EXCEPT ![r] = None]
    /\ hubTodo' = [hubTodo EXCEPT ![r] = {}]
    /\ UNCHANGED <<hubClient, clients, broadcast, redisVars, inbox,
                   pumpVars, channels, send, closed, helpers, callVars, given,
                   missed, panicked>>

-----------------------------------------------------------------------------
(* subscribeRedis: the same loop for a message that came through Redis,    *)
(* except that a full buffer only drops the message.                       *)

\* RLock is granted unless Run holds or waits for Lock.
RedisReceive(r) ==
    /\ redisPc[r] = "receive"
    /\ inbox[r] # <<>>
    /\ hubPc[r] \notin {"register", "unregister"}
    /\ redisPc' = [redisPc EXCEPT ![r] = "deliver"]
    /\ redisMsg' = [redisMsg EXCEPT ![r] = Head(inbox[r])]
    /\ redisTodo' = [redisTodo EXCEPT ![r] = {c \in clients : Home[c] = r}]
    /\ inbox' = [inbox EXCEPT ![r] = Tail(@)]
    /\ UNCHANGED <<hubVars, clients, broadcast, pumpVars, channels, send,
                   closed, helpers, callVars, given, missed, panicked>>

RedisVisit(r, c) ==
    /\ redisPc[r] = "deliver"
    /\ c \in redisTodo[r]
    /\ redisTodo' = [redisTodo EXCEPT ![r] = Visited(@, c)]
    /\ UNCHANGED <<hubVars, clients, broadcast, redisPc, redisMsg, inbox,
                   pumpVars, channels, closed, helpers, callVars>>

RedisSkip(r, c) ==
    /\ RedisVisit(r, c)
    /\ topic[redisMsg[r]] \notin channels[c]
    /\ UNCHANGED <<send, given, missed, panicked>>

RedisSend(r, c) ==
    /\ RedisVisit(r, c)
    /\ topic[redisMsg[r]] \in channels[c]
    /\ SendTo(c, [msg |-> redisMsg[r], via |-> "redis"])
    /\ UNCHANGED missed

RedisDrop(r, c) ==
    /\ RedisVisit(r, c)
    /\ topic[redisMsg[r]] \in channels[c]
    /\ DropFor(c, [msg |-> redisMsg[r], via |-> "redis"])
    /\ UNCHANGED <<send, given>>

RedisEnd(r) ==
    /\ redisPc[r] = "deliver"
    /\ redisTodo[r] = {}
    /\ redisPc' = [redisPc EXCEPT ![r] = "receive"]
    /\ redisMsg' = [redisMsg EXCEPT ![r] = None]
    /\ UNCHANGED <<hubVars, clients, broadcast, redisTodo, inbox, pumpVars,
                   channels, send, closed, helpers, callVars, given, missed,
                   panicked>>

-----------------------------------------------------------------------------
(* PublishToChannel: first the local queue, then Redis.                    *)

\* hub.broadcast and a Redis subscription deliver in the order of arrival.
Enqueued(q, p) == Append(q, p)

\* An HTTP handler of replica r publishes to channel ch.
StartPublish(p, r, ch) ==
    /\ stage[p] = "idle"
    /\ stage' = [stage EXCEPT ![p] = "local"]
    /\ origin' = [origin EXCEPT ![p] = r]
    /\ topic' = [topic EXCEPT ![p] = ch]
    /\ UNCHANGED <<hubVars, clients, broadcast, redisVars, inbox, pumpVars,
                   channels, send, closed, helpers, caller, before, given,
                   missed, panicked>>

\* readPump has read a "typing" frame: it makes the call itself and reads
\* nothing more until the call returns.
StartTyping(p, c, ch) ==
    /\ stage[p] = "idle"
    /\ readPc[c] = "reading"
    /\ readPc' = [readPc EXCEPT ![c] = "publishing"]
    /\ stage' = [stage EXCEPT ![p] = "local"]
    /\ origin' = [origin EXCEPT ![p] = Home[c]]
    /\ topic' = [topic EXCEPT ![p] = ch]
    /\ caller' = [caller EXCEPT ![p] = c]
    /\ UNCHANGED <<hubVars, clients, broadcast, redisVars, inbox, wsStage,
                   writePc, connOpen, channels, send, closed, helpers, before,
                   given, missed, panicked>>

\* The calls that have been published on a path: every one is put on the local
\* path, then handed to Redis.
Published(path) ==
    {p \in Calls : stage[p] = "done" \/ (path = "local" /\ stage[p] = "redis")}

\* hub.broadcast <- blocks while the queue is full.
EnqueueLocal(p) ==
    /\ stage[p] = "local"
    /\ Len(broadcast[origin[p]]) < BroadcastCap
    /\ broadcast' = [broadcast EXCEPT ![origin[p]] = Enqueued(@, p)]
    /\ stage' = [stage EXCEPT ![p] = "redis"]
    /\ before' = [before EXCEPT !["local"][p] = Published("local")]
    /\ UNCHANGED <<hubVars, clients, redisVars, inbox, pumpVars, channels, send,
                   closed, helpers, origin, topic, caller, given, missed,
                   panicked>>

\* Redis orders the publications and pushes each to the subscriptions of the
\* replicas in Reached; those that are down at the time, the publisher's own
\* included, never see it.  The error of Publish is ignored.
PublishRedis(p, Reached) ==
    LET c == caller[p] IN
    /\ stage[p] = "redis"
    /\ inbox' = [r \in Replicas |->
                    IF r \in Reached THEN Enqueued(inbox[r], p) ELSE inbox[r]]
    /\ stage' = [stage EXCEPT ![p] = "done"]
    /\ before' = [before EXCEPT !["redis"][p] = Published("redis")]
    /\ readPc' = IF c = None THEN readPc ELSE [readPc EXCEPT ![c] = "reading"]
    /\ UNCHANGED <<hubVars, clients, broadcast, redisVars, wsStage, writePc,
                   connOpen, channels, send, closed, helpers, origin, topic,
                   caller, given, missed, panicked>>

-----------------------------------------------------------------------------
(* The pumps of a connection.                                              *)

\* conn.Close()
CloseConn(c) == connOpen' = [connOpen EXCEPT ![c] = FALSE]

Subscribe(c, ch) ==
    /\ readPc[c] = "reading"
    /\ channels' = [channels EXCEPT ![c] = @ \cup {ch}]
    /\ UNCHANGED <<hubVars, clients, broadcast, redisVars, inbox, pumpVars,
                   send, closed, helpers, callVars, given, missed, panicked>>

Unsubscribe(c, ch) ==
    /\ readPc[c] = "reading"
    /\ channels' = [channels EXCEPT ![c] = @ \ {ch}]
    /\ UNCHANGED <<hubVars, clients, broadcast, redisVars, inbox, pumpVars,
                   send, closed, helpers, callVars, given, missed, panicked>>

\* ReadMessage fails: the peer closed, the 60 s deadline passed without a
\* pong, the frame was too large, or this end was closed by writePump.
ReadError(c) ==
    /\ readPc[c] = "reading"
    /\ readPc' = [readPc EXCEPT ![c] = "unregister"]
    /\ UNCHANGED <<hubVars, clients, broadcast, redisVars, inbox, wsStage,
                   writePc, connOpen, channels, send, closed, helpers, callVars,
                   given, missed, panicked>>

\* The second statement of readPump's deferred function.
ReadPumpClose(c) ==
    /\ readPc[c] = "closing"
    /\ readPc' = [readPc EXCEPT ![c] = "done"]
    /\ CloseConn(c)
    /\ UNCHANGED <<hubVars, clients, broadcast, redisVars, inbox, wsStage,
                   writePc, channels, send, closed, helpers, callVars, given,
                   missed, panicked>>

\* A message is taken from the channel and written to the peer.
WriteMessage(c) ==
    /\ writePc[c] = "running"
    /\ connOpen[c]
    /\ send[c] # <<>>
    /\ send' = [send EXCEPT ![c] = Tail(@)]
    /\ UNCHANGED <<hubVars, clients, broadcast, redisVars, inbox, pumpVars,
                   channels, closed, helpers, callVars, given, missed,
                   panicked>>

\* Writing a message or a ping fails, or passes its 10 s deadline: a message
\* in hand is lost and the deferred Close closes the connection.
WriteError(c) ==
    /\ writePc[c] = "running"
    /\ writePc' = [writePc EXCEPT ![c] = "done"]
    /\ CloseConn(c)
    /\ \/ send[c] # <<>> /\ send' = [send EXCEPT ![c] = Tail(@)]
       \/ UNCHANGED send
    /\ UNCHANGED <<hubVars, clients, broadcast, redisVars, inbox, wsStage,
                   readPc, channels, closed, helpers, callVars, given, missed,
                   panicked>>

\* The channel is closed and drained: a close frame, and Close.
WriteClosed(c) ==
    /\ writePc[c] = "running"
    /\ closed[c]
    /\ send[c] = <<>>
    /\ writePc' = [writePc EXCEPT ![c] = "done"]
    /\ CloseConn(c)
    /\ UNCHANGED <<hubVars, clients, broadcast, redisVars, inbox, wsStage,
                   readPc, channels, send, closed, helpers, callVars, given,
                   missed, panicked>>

-----------------------------------------------------------------------------
Run(r) ==
    \/ \E c \in Clients :
          /\ Home[c] = r
          /\ HubRecvRegister(c) \/ HubRecvFromReadPump(c) \/ HubRecvFromHelper(c)
    \/ HubRegister(r)
    \/ HubUnregister(r)
    \/ HubRecvBroadcast(r)
    \/ \E c \in Clients : HubSkip(r, c) \/ HubSend(r, c) \/ HubOverflow(r, c)
    \/ HubEndBroadcast(r)

subscribeRedis(r) ==
    \/ RedisReceive(r)
    \/ \E c \in Clients : RedisSkip(r, c) \/ RedisSend(r, c) \/ RedisDrop(r, c)
    \/ RedisEnd(r)

\* The rest of a call that has started.
PublishToChannel(p) ==
    \/ EnqueueLocal(p)
    \/ \E Reached \in SUBSET Replicas : PublishRedis(p, Reached)

\* What a frame from the peer makes readPump do.
ReadFrame(c) ==
    \/ \E ch \in Channels : Subscribe(c, ch) \/ Unsubscribe(c, ch)
    \/ \E p \in Calls, ch \in Channels : StartTyping(p, c, ch)

writePump(c) == WriteMessage(c) \/ WriteError(c) \/ WriteClosed(c)

Next ==
    \/ \E r \in Replicas : Run(r) \/ subscribeRedis(r)
    \/ \E p \in Calls : PublishToChannel(p)
    \/ \E p \in Calls, r \in Replicas, ch \in Channels : StartPublish(p, r, ch)
    \/ \E c \in Clients :
          \/ wsConnect(c)
          \/ ReadFrame(c)
          \/ ReadError(c)
          \/ ReadPumpClose(c)
          \/ writePump(c)

\* A goroutine that can go on does so.  A peer is never obliged to send, and
\* nobody is obliged to connect or to publish; but reading from a closed
\* connection fails, and a pump that is stuck in a write meets its deadline.
Fairness ==
    /\ \A r \in Replicas : WF_vars(Run(r)) /\ WF_vars(subscribeRedis(r))
    /\ \A p \in Calls : WF_vars(PublishToChannel(p))
    /\ \A c \in Clients :
          /\ WF_vars(~connOpen[c] /\ ReadError(c))
          /\ WF_vars(ReadPumpClose(c))
          /\ WF_vars((~connOpen[c] \/ closed[c] \/ send[c] # <<>>) /\ writePump(c))

Spec == Init /\ [][Next]_vars
FairSpec == Spec /\ Fairness

-----------------------------------------------------------------------------
(* Properties                                                              *)

\* Client c has been given e: it waits in the buffer or has been taken by
\* writePump, which takes and writes in the order of the buffer.
Gets(c, e) == \E i \in DOMAIN given[c] : given[c][i] = e

\* Run is about to unregister c.
Leaving(c) == hubPc[Home[c]] = "unregister" /\ hubClient[Home[c]] = c

\* c is in hub.clients, or Run has received it and is about to put it there.
Registered(c) ==
    \/ c \in clients
    \/ hubPc[Home[c]] = "register" /\ hubClient[Home[c]] = c

\* No goroutine sends on or closes a client.send that is already closed: the
\* two loops, the two sources of unregister and hub.mu never combine into the
\* runtime panic that would end the process (ws.go:80-104 and ws.go:120-132).
NoPanic == ~panicked

\* A connection whose readPump has handed in its unregister leaves nothing behind:
\* either Run is about to remove it, or it is out of hub.clients for good and its
\* channel is closed, without which its writePump would never end.  No client is
\* registered after it was unregistered, and whoever unregistered it first closed
\* the channel (ws.go:275-278 starts the pumps after register, ws.go:171-175 and
\* ws.go:98 unregister).
NoLeak ==
    \A c \in Clients :
        readPc[c] \in {"closing", "done"} =>
            Leaving(c) \/ (closed[c] /\ ~Registered(c))

\* The local broadcast never leaves a silent gap: a client that lost an event
\* to a full buffer and is still registered is about to be disconnected
\* (ws.go:95-101).
LossEvicts ==
    \A c \in clients :
        (\E e \in missed[c] : e.via = "local") => helpers[c] > 0 \/ Leaving(c)

Before(c, d, e) ==
    \E i, j \in DOMAIN given[c] : i < j /\ given[c][i] = d /\ given[c][j] = e

\* Events that came along the same path reach all clients in the same order,
\* whatever was dropped, and none reaches a client twice along one path
\* (take d = e): the queues of ws.go:88 and ws.go:115 have one reader each.
SameOrder ==
    \A c1, c2 \in Clients, p, q \in Calls, path \in Paths :
        LET d == [msg |-> p, via |-> path]
            e == [msg |-> q, via |-> path]
        IN  ~(Before(c1, d, e) /\ Before(c2, e, d))

\* The hub gives every connection, along each of the two paths, a part of what
\* was published there, in the order of publication, and only what the
\* connection is subscribed to at that moment; nothing after client.send is
\* closed.  Queues, loops, locks and goroutines are how it does so.
Promise == INSTANCE Delivery WITH
    Calls <- Calls, Clients <- Clients, Channels <- Channels, Home <- Home,
    Replicas <- Replicas, None <- None, origin <- origin, topic <- topic,
    published <- [path \in Paths |-> Published(path)], before <- before,
    channels <- channels, given <- given,
    ended <- {c \in Clients : closed[c]}
ImplementsDelivery == Promise!Spec

\* "Redis pub/sub for other replicas" (ws.go:146): what comes back through
\* Redis is not given again to clients of the replica that published it.
NoEcho ==
    \A c \in Clients, p \in Calls :
        Gets(c, [msg |-> p, via |-> "redis"]) => origin[p] # Home[c]

\* PublishToChannel always returns: the HTTP handler or readPump that called
\* it is never blocked for good by the queue, by Run or by slow clients.
PublishReturns ==
    []<>(\A p \in Calls : stage[p] \in {"idle", "done"})

TornDown(c) ==
    /\ c \notin clients
    /\ closed[c]
    /\ readPc[c] = "done"
    /\ writePc[c] = "done"

\* Whatever ends first, the peer, readPump, writePump or the patience of Run
\* with a full buffer, the rest of the connection follows: it leaves
\* hub.clients, its channel is closed and both pumps end.
TearDownCompletes ==
    \A c \in Clients :
        \/ readPc[c] = "unregister"
        \/ writePc[c] = "done"
        \/ helpers[c] > 0
        ~> TornDown(c)

\* An event in the local queue is given to every registered subscriber of its
\* channel, unless the client unsubscribes, leaves, or is found full.
SubscribersServed ==
    \A c \in Clients, p \in Calls :
        LET e == [msg |-> p, via |-> "local"] IN
        /\ c \in clients
        /\ \E i \in DOMAIN broadcast[Home[c]] : broadcast[Home[c]][i] = p
        /\ topic[p] \in channels[c]
        ~> \/ Gets(c, e)
           \/ e \in missed[c]
           \/ topic[p] \notin channels[c]
           \/ c \notin clients
=============================================================================
