----------------------------- MODULE Hub_proofs -----------------------------
(***************************************************************************)
(* Proofs about Hub, for any number of replicas, connections, channels and *)
(* calls and for any capacity of the buffers: first what the goroutines    *)
(* keep, then that Hub implements Delivery, of which SameOrder is a        *)
(* consequence.                                                            *)
(***************************************************************************)
EXTENDS Hub, TLAPS

LocalClients(r) == {c \in clients : Home[c] = r}

\* A connection Run has not received yet has left no trace in the hub.
Fresh ==
    \A c \in Clients :
        wsStage[c] # "done" => c \notin clients /\ ~closed[c] /\ missed[c] = {}

\* Nor has the one that Run is about to put into hub.clients.
Arriving ==
    \A r \in Replicas :
        hubPc[r] = "register" =>
            /\ hubClient[r] \in Clients
            /\ Home[hubClient[r]] = r
            /\ wsStage[hubClient[r]] = "done"
            /\ hubClient[r] \notin clients
            /\ ~closed[hubClient[r]]
            /\ missed[hubClient[r]] = {}

\* Run only unregisters connections of its own replica.
Departing ==
    \A r \in Replicas :
        hubPc[r] = "unregister" =>
            hubClient[r] \in Clients /\ Home[hubClient[r]] = r

\* A registered client can be sent to.
Live == \A c \in clients : ~closed[c]

\* The two loops only hold registered clients of their own replica, and hold
\* none when they are over.
HubLoop ==
    \A r \in Replicas :
        /\ hubTodo[r] \subseteq LocalClients(r)
        /\ IF hubPc[r] = "broadcast" THEN hubMsg[r] \in Calls ELSE hubTodo[r] = {}

RedisLoop ==
    \A r \in Replicas :
        /\ redisTodo[r] \subseteq LocalClients(r)
        /\ IF redisPc[r] = "deliver" THEN redisMsg[r] \in Calls
                                     ELSE redisTodo[r] = {}

\* The part of the inductive invariant about who may be sent to.
Membership == Fresh /\ Arriving /\ Departing /\ Live /\ HubLoop /\ RedisLoop

IInv == TypeOK /\ Membership /\ NoPanic /\ LossEvicts

-----------------------------------------------------------------------------
\* Taking from a queue that is not empty yields an element and a queue.
LEMMA QueueTaken ==
    ASSUME NEW S, NEW q \in Seq(S), q # <<>>
    PROVE  Head(q) \in S /\ Tail(q) \in Seq(S)
OBVIOUS

\* Adding to a queue yields a queue.
LEMMA QueueExtended ==
    ASSUME NEW S, NEW q \in Seq(S), NEW e \in S
    PROVE  Append(q, e) \in Seq(S)
OBVIOUS

-----------------------------------------------------------------------------
\* The initial states satisfy the inductive invariant.
LEMMA InitIInv == Init => IInv
<1> SUFFICES ASSUME Init PROVE IInv
  OBVIOUS
<1> USE HubAssumption DEF Init
<1>1. TypeOK
  <2>1. <<>> \in Seq(Calls) /\ <<>> \in Seq(Event)
    OBVIOUS
  <2>2. send \in [Clients -> Seq(Event)] /\ given \in [Clients -> Seq(Event)]
    BY <2>1
  <2>3. /\ broadcast \in [Replicas -> Seq(Calls)]
        /\ inbox \in [Replicas -> Seq(Calls)]
    BY <2>1
  <2> QED
    BY <2>2, <2>3 DEF TypeOK
<1>2. Membership
  BY DEF Membership, Fresh, Arriving, Departing, Live, HubLoop, RedisLoop,
         LocalClients
<1>3. NoPanic /\ LossEvicts
  BY DEF NoPanic, LossEvicts, Registered
<1> QED
  BY <1>1, <1>2, <1>3 DEF IInv

-----------------------------------------------------------------------------
\* Every step keeps every variable in its type.
LEMMA TypeStep == TypeOK /\ Membership /\ [Next]_vars => TypeOK'
<1> SUFFICES ASSUME TypeOK, Membership, [Next]_vars
             PROVE  TypeOK'
  OBVIOUS
<1> USE HubAssumption DEF TypeOK, hubVars, redisVars, pumpVars, callVars
<1>1. ASSUME NEW c \in Clients, wsConnect(c)
      PROVE  TypeOK'
  BY <1>1 DEF wsConnect
<1>2. ASSUME NEW c \in Clients, HubRecvRegister(c)
      PROVE  TypeOK'
  BY <1>2 DEF HubRecvRegister
<1>3. ASSUME NEW r \in Replicas, HubRegister(r)
      PROVE  TypeOK'
  BY <1>3 DEF HubRegister, Membership, Arriving
<1>4. ASSUME NEW c \in Clients, HubRecvFromReadPump(c)
      PROVE  TypeOK'
  BY <1>4 DEF HubRecvFromReadPump
<1>5. ASSUME NEW c \in Clients, HubRecvFromHelper(c)
      PROVE  TypeOK'
  <2>1. helpers' \in [Clients -> Nat]
    <3>1. helpers[c] - 1 \in Nat
      BY <1>5 DEF HubRecvFromHelper, HelperWaits
    <3> QED
      BY <1>5, <3>1 DEF HubRecvFromHelper
  <2> QED
    BY <1>5, <2>1 DEF HubRecvFromHelper
<1>6. ASSUME NEW r \in Replicas, HubUnregister(r)
      PROVE  TypeOK'
  BY <1>6 DEF HubUnregister, Remove
<1>7. ASSUME NEW r \in Replicas, HubRecvBroadcast(r)
      PROVE  TypeOK'
  <2>1. Head(broadcast[r]) \in Calls /\ Tail(broadcast[r]) \in Seq(Calls)
    <3>1. broadcast[r] \in Seq(Calls) /\ broadcast[r] # <<>>
      BY <1>7 DEF HubRecvBroadcast, BroadcastReady
    <3> QED
      BY <3>1, QueueTaken
  <2> QED
    BY <1>7, <2>1 DEF HubRecvBroadcast
<1>8. ASSUME NEW r \in Replicas, NEW c \in Clients, HubSkip(r, c)
      PROVE  TypeOK'
  BY <1>8 DEF HubSkip, HubVisit, Visited
<1>9. ASSUME NEW r \in Replicas, NEW c \in Clients, HubSend(r, c)
      PROVE  TypeOK'
  <2>1. [msg |-> hubMsg[r], via |-> "local"] \in Event
    BY <1>9 DEF HubSend, HubVisit, Membership, HubLoop, Event, Paths
  <2>2. /\ send' \in [Clients -> Seq(Event)]
        /\ given' \in [Clients -> Seq(Event)]
        /\ panicked' \in BOOLEAN
    BY <1>9, <2>1, QueueExtended DEF HubSend, SendTo
  <2> QED
    BY <1>9, <2>2 DEF HubSend, HubVisit, Visited
<1>10. ASSUME NEW r \in Replicas, NEW c \in Clients, HubOverflow(r, c)
       PROVE  TypeOK'
  <2>1. [msg |-> hubMsg[r], via |-> "local"] \in Event
    BY <1>10 DEF HubOverflow, HubVisit, Membership, HubLoop, Event, Paths
  <2>2. missed' \in [Clients -> SUBSET Event] /\ panicked' \in BOOLEAN
    BY <1>10, <2>1 DEF HubOverflow, DropFor
  <2>3. helpers' \in [Clients -> Nat]
    BY <1>10 DEF HubOverflow, Evict
  <2> QED
    BY <1>10, <2>2, <2>3 DEF HubOverflow, HubVisit, Visited
<1>11. ASSUME NEW r \in Replicas, HubEndBroadcast(r)
       PROVE  TypeOK'
  BY <1>11 DEF HubEndBroadcast
<1>12. ASSUME NEW r \in Replicas, RedisReceive(r)
       PROVE  TypeOK'
  <2>1. Head(inbox[r]) \in Calls /\ Tail(inbox[r]) \in Seq(Calls)
    <3>1. inbox[r] \in Seq(Calls) /\ inbox[r] # <<>>
      BY <1>12 DEF RedisReceive
    <3> QED
      BY <3>1, QueueTaken
  <2> QED
    BY <1>12, <2>1 DEF RedisReceive
<1>13. ASSUME NEW r \in Replicas, NEW c \in Clients, RedisSkip(r, c)
       PROVE  TypeOK'
  BY <1>13 DEF RedisSkip, RedisVisit, Visited
<1>14. ASSUME NEW r \in Replicas, NEW c \in Clients, RedisSend(r, c)
       PROVE  TypeOK'
  <2>1. [msg |-> redisMsg[r], via |-> "redis"] \in Event
    BY <1>14 DEF RedisSend, RedisVisit, Membership, RedisLoop, Event, Paths
  <2>2. /\ send' \in [Clients -> Seq(Event)]
        /\ given' \in [Clients -> Seq(Event)]
        /\ panicked' \in BOOLEAN
    BY <1>14, <2>1, QueueExtended DEF RedisSend, SendTo
  <2> QED
    BY <1>14, <2>2 DEF RedisSend, RedisVisit, Visited
<1>15. ASSUME NEW r \in Replicas, NEW c \in Clients, RedisDrop(r, c)
       PROVE  TypeOK'
  <2>1. [msg |-> redisMsg[r], via |-> "redis"] \in Event
    BY <1>15 DEF RedisDrop, RedisVisit, Membership, RedisLoop, Event, Paths
  <2>2. missed' \in [Clients -> SUBSET Event] /\ panicked' \in BOOLEAN
    BY <1>15, <2>1 DEF RedisDrop, DropFor
  <2> QED
    BY <1>15, <2>2 DEF RedisDrop, RedisVisit, Visited
<1>16. ASSUME NEW r \in Replicas, RedisEnd(r)
       PROVE  TypeOK'
  BY <1>16 DEF RedisEnd
<1>17. ASSUME NEW p \in Calls, NEW r \in Replicas, NEW ch \in Channels,
              StartPublish(p, r, ch)
       PROVE  TypeOK'
  BY <1>17 DEF StartPublish
<1>18. ASSUME NEW p \in Calls, NEW c \in Clients, NEW ch \in Channels,
              StartTyping(p, c, ch)
       PROVE  TypeOK'
  BY <1>18 DEF StartTyping
<1>19. ASSUME NEW p \in Calls, EnqueueLocal(p)
       PROVE  TypeOK'
  <2>1. broadcast' \in [Replicas -> Seq(Calls)]
    BY <1>19, QueueExtended DEF EnqueueLocal, Enqueued
  <2>2. before' \in [Paths -> [Calls -> SUBSET Calls]]
    BY <1>19 DEF EnqueueLocal, Published
  <2> QED
    BY <1>19, <2>1, <2>2 DEF EnqueueLocal
<1>20. ASSUME NEW p \in Calls, NEW Reached \in SUBSET Replicas,
              PublishRedis(p, Reached)
       PROVE  TypeOK'
  <2>1. inbox' \in [Replicas -> Seq(Calls)]
    BY <1>20, QueueExtended DEF PublishRedis, Enqueued
  <2>2. before' \in [Paths -> [Calls -> SUBSET Calls]]
    BY <1>20 DEF PublishRedis, Published
  <2> QED
    BY <1>20, <2>1, <2>2 DEF PublishRedis
<1>21. ASSUME NEW c \in Clients, NEW ch \in Channels, Subscribe(c, ch)
       PROVE  TypeOK'
  BY <1>21 DEF Subscribe
<1>22. ASSUME NEW c \in Clients, NEW ch \in Channels, Unsubscribe(c, ch)
       PROVE  TypeOK'
  BY <1>22 DEF Unsubscribe
<1>23. ASSUME NEW c \in Clients, ReadError(c)
       PROVE  TypeOK'
  BY <1>23 DEF ReadError
<1>24. ASSUME NEW c \in Clients, ReadPumpClose(c)
       PROVE  TypeOK'
  BY <1>24 DEF ReadPumpClose, CloseConn
<1>25. ASSUME NEW c \in Clients, WriteMessage(c)
       PROVE  TypeOK'
  <2>1. Head(send[c]) \in Event /\ Tail(send[c]) \in Seq(Event)
    <3>1. send[c] \in Seq(Event) /\ send[c] # <<>>
      BY <1>25 DEF WriteMessage
    <3> QED
      BY <3>1, QueueTaken
  <2> QED
    BY <1>25, <2>1 DEF WriteMessage
<1>26. ASSUME NEW c \in Clients, WriteError(c)
       PROVE  TypeOK'
  <2>1. send' \in [Clients -> Seq(Event)]
    <3>1. CASE UNCHANGED send
      BY <3>1
    <3>2. CASE send[c] # <<>> /\ send' = [send EXCEPT ![c] = Tail(@)]
      <4>1. Tail(send[c]) \in Seq(Event)
        BY <3>2, QueueTaken
      <4> QED
        BY <3>2, <4>1
    <3> QED
      BY <1>26, <3>1, <3>2 DEF WriteError
  <2> QED
    BY <1>26, <2>1 DEF WriteError, CloseConn
<1>27. ASSUME NEW c \in Clients, WriteClosed(c)
       PROVE  TypeOK'
  BY <1>27 DEF WriteClosed, CloseConn
<1>28. CASE UNCHANGED vars
  BY <1>28 DEF vars
<1> HIDE DEF TypeOK, hubVars, redisVars, pumpVars, callVars
<1> QED
  BY <1>1, <1>2, <1>3, <1>4, <1>5, <1>6, <1>7, <1>8, <1>9, <1>10, <1>11, <1>12,
     <1>13, <1>14, <1>15, <1>16, <1>17, <1>18, <1>19, <1>20, <1>21, <1>22,
     <1>23, <1>24, <1>25, <1>26, <1>27, <1>28
     DEF Next, Run, subscribeRedis, PublishToChannel, ReadFrame, writePump
-----------------------------------------------------------------------------
\* The steps of callers and pumps.
CallerOrPumpStep ==
    \/ \E p \in Calls : PublishToChannel(p)
    \/ \E p \in Calls, r \in Replicas, ch \in Channels : StartPublish(p, r, ch)
    \/ \E c \in Clients :
          ReadFrame(c) \/ ReadError(c) \/ ReadPumpClose(c) \/ writePump(c)

\* Callers and pumps leave alone what Run and subscribeRedis keep, and none of
\* their steps makes a readPump hand in its unregister.
LEMMA CallerOrPump ==
    ASSUME TypeOK, CallerOrPumpStep
    PROVE  /\ UNCHANGED <<hubVars, clients, redisVars, wsStage, closed, missed,
                          helpers, panicked>>
           /\ \A c \in Clients :
                 readPc'[c] \in {"closing", "done"} =>
                     readPc[c] \in {"closing", "done"}
BY DEF TypeOK, CallerOrPumpStep, PublishToChannel, EnqueueLocal, PublishRedis,
       StartPublish, ReadFrame, Subscribe, Unsubscribe, StartTyping, ReadError,
       ReadPumpClose, writePump, WriteMessage, WriteError, WriteClosed,
       hubVars, redisVars, pumpVars, callVars

-----------------------------------------------------------------------------
\* Every step preserves who may be sent to, and the safety properties.
LEMMA SafetyStep ==
    IInv /\ [Next]_vars => (Membership /\ NoPanic /\ LossEvicts)'
<1> SUFFICES ASSUME IInv, [Next]_vars
             PROVE  (Membership /\ NoPanic /\ LossEvicts)'
  OBVIOUS
<1>a. /\ Membership /\ NoPanic /\ LossEvicts
      /\ hubPc \in [Replicas ->
                        {"select", "register", "unregister", "broadcast"}]
      /\ hubClient \in [Replicas -> Clients \cup {None}]
      /\ hubMsg \in [Replicas -> Calls \cup {None}]
      /\ hubTodo \in [Replicas -> SUBSET Clients]
      /\ clients \in SUBSET Clients
      /\ broadcast \in [Replicas -> Seq(Calls)]
      /\ redisPc \in [Replicas -> {"receive", "deliver"}]
      /\ redisMsg \in [Replicas -> Calls \cup {None}]
      /\ redisTodo \in [Replicas -> SUBSET Clients]
      /\ inbox \in [Replicas -> Seq(Calls)]
      /\ wsStage \in [Clients -> {"none", "registering", "done"}]
      /\ closed \in [Clients -> BOOLEAN]
      /\ missed \in [Clients -> SUBSET Event]
      /\ helpers \in [Clients -> Nat]
      /\ readPc \in [Clients -> {"off", "reading", "publishing", "unregister",
                                 "closing", "done"}]
      /\ Home \in [Clients -> Replicas]
  BY HubAssumption DEF IInv, TypeOK
<1> USE <1>a DEF hubVars, redisVars, pumpVars, callVars
<1>1. ASSUME NEW c \in Clients, wsConnect(c)
      PROVE  (Membership /\ NoPanic /\ LossEvicts)'
  <2>1. Membership'
    BY <1>1
       DEF wsConnect, Membership, Fresh, Arriving, Departing, Live, HubLoop,
           RedisLoop, LocalClients
  <2>2. (NoPanic /\ LossEvicts)'
    BY <1>1
       DEF wsConnect, NoPanic, LossEvicts, Registered, Leaving,
           Membership, Fresh, Arriving, Departing, Live, HubLoop, RedisLoop,
           LocalClients
  <2> QED
    BY <2>1, <2>2
<1>2. ASSUME NEW c \in Clients, HubRecvRegister(c)
      PROVE  (Membership /\ NoPanic /\ LossEvicts)'
  <2>1. Membership'
    BY <1>2
       DEF HubRecvRegister, Membership, Fresh, Arriving, Departing, Live,
           HubLoop, RedisLoop, LocalClients
  <2>2. (NoPanic /\ LossEvicts)'
    BY <1>2
       DEF HubRecvRegister, NoPanic, LossEvicts, Registered, Leaving,
           Membership, Fresh, Arriving, Departing, Live, HubLoop, RedisLoop,
           LocalClients
  <2> QED
    BY <2>1, <2>2
<1>3. ASSUME NEW r \in Replicas, HubRegister(r)
      PROVE  (Membership /\ NoPanic /\ LossEvicts)'
  <2>1. Membership'
    BY <1>3
       DEF HubRegister, Membership, Fresh, Arriving, Departing, Live, HubLoop,
           RedisLoop, LocalClients
  <2>2. (NoPanic /\ LossEvicts)'
    BY <1>3
       DEF HubRegister, NoPanic, LossEvicts, Registered, Leaving,
           Membership, Fresh, Arriving, Departing, Live, HubLoop, RedisLoop,
           LocalClients
  <2> QED
    BY <2>1, <2>2
<1>4. ASSUME NEW c \in Clients, HubRecvFromReadPump(c)
      PROVE  (Membership /\ NoPanic /\ LossEvicts)'
  <2>1. Membership'
    BY <1>4
       DEF HubRecvFromReadPump, Membership, Fresh, Arriving, Departing, Live,
           HubLoop, RedisLoop, LocalClients
  <2>2. (NoPanic /\ LossEvicts)'
    BY <1>4
       DEF HubRecvFromReadPump, NoPanic, LossEvicts, Registered,
           Leaving, Membership, Fresh, Arriving, Departing, Live, HubLoop,
           RedisLoop, LocalClients
  <2> QED
    BY <2>1, <2>2
<1>5. ASSUME NEW c \in Clients, HubRecvFromHelper(c)
      PROVE  (Membership /\ NoPanic /\ LossEvicts)'
  <2>1. Membership'
    BY <1>5
       DEF HubRecvFromHelper, Membership, Fresh, Arriving, Departing, Live,
           HubLoop, RedisLoop, LocalClients
  <2>2. (NoPanic /\ LossEvicts)'
    BY <1>5
       DEF HubRecvFromHelper, NoPanic, LossEvicts, Registered, Leaving,
           Membership, Fresh, Arriving, Departing, Live, HubLoop, RedisLoop,
           LocalClients
  <2> QED
    BY <2>1, <2>2
<1>6. ASSUME NEW r \in Replicas, HubUnregister(r)
      PROVE  (Membership /\ NoPanic /\ LossEvicts)'
  <2>1. Membership'
    <3> DEFINE d == hubClient[r]
    <3>1. d \in Clients /\ Home[d] = r
      BY <1>6 DEF HubUnregister, Membership, Departing
    <3>2. hubTodo[r] = {} /\ redisTodo[r] = {}
      BY <1>6 DEF HubUnregister, LockGranted, Membership, HubLoop, RedisLoop
    <3>3. clients' \subseteq clients /\ clients \ {d} \subseteq clients'
      BY <1>6 DEF HubUnregister, Remove
    <3>4. \A c \in clients' : ~closed'[c]
      BY <1>6 DEF HubUnregister, Remove, Membership, Live
    <3>5. \A c \in Clients : c \notin clients => closed'[c] = closed[c]
      BY <1>6 DEF HubUnregister, Remove
    <3>6. (Fresh /\ Live)'
      BY <1>6, <3>3, <3>4, <3>5 DEF HubUnregister, Membership, Fresh, Live
    <3>7. (Arriving /\ Departing)'
      BY <1>6, <3>3, <3>5 DEF HubUnregister, Membership, Arriving, Departing
    <3>8. (HubLoop /\ RedisLoop)'
      BY <1>6, <3>1, <3>2, <3>3
         DEF HubUnregister, Membership, HubLoop, RedisLoop, LocalClients
    <3> QED
      BY <3>6, <3>7, <3>8 DEF Membership
  <2>2. (NoPanic /\ LossEvicts)'
    BY <1>6
       DEF HubUnregister, LockGranted, Remove, NoPanic, LossEvicts,
           Registered, Leaving, Membership, Fresh, Arriving, Departing, Live,
           HubLoop, RedisLoop, LocalClients
  <2> QED
    BY <2>1, <2>2
<1>7. ASSUME NEW r \in Replicas, HubRecvBroadcast(r)
      PROVE  (Membership /\ NoPanic /\ LossEvicts)'
  <2>1. Membership'
    BY <1>7
       DEF HubRecvBroadcast, BroadcastReady, Membership, Fresh, Arriving,
           Departing, Live, HubLoop, RedisLoop, LocalClients
  <2>2. (NoPanic /\ LossEvicts)'
    BY <1>7
       DEF HubRecvBroadcast, BroadcastReady, NoPanic, LossEvicts,
           Registered, Leaving, Membership, Fresh, Arriving, Departing, Live,
           HubLoop, RedisLoop, LocalClients
  <2> QED
    BY <2>1, <2>2
<1>8. ASSUME NEW r \in Replicas, NEW c \in Clients, HubSkip(r, c)
      PROVE  (Membership /\ NoPanic /\ LossEvicts)'
  <2>1. Membership'
    BY <1>8
       DEF HubSkip, HubVisit, Visited, Membership, Fresh, Arriving, Departing,
           Live, HubLoop, RedisLoop, LocalClients
  <2>2. (NoPanic /\ LossEvicts)'
    BY <1>8
       DEF HubSkip, HubVisit, Visited, NoPanic, LossEvicts, Registered,
           Leaving, Membership, Fresh, Arriving, Departing, Live, HubLoop,
           RedisLoop, LocalClients
  <2> QED
    BY <2>1, <2>2
<1>9. ASSUME NEW r \in Replicas, NEW c \in Clients, HubSend(r, c)
      PROVE  (Membership /\ NoPanic /\ LossEvicts)'
  <2>1. Membership'
    BY <1>9
       DEF HubSend, HubVisit, Visited, SendTo, Membership, Fresh, Arriving,
           Departing, Live, HubLoop, RedisLoop, LocalClients
  <2>2. (NoPanic /\ LossEvicts)'
    <3>1. ~closed[c]
      BY <1>9 DEF HubSend, HubVisit, Membership, HubLoop, LocalClients, Live
    <3>2. NoPanic'
      BY <1>9, <3>1 DEF HubSend, SendTo, NoPanic
    <3>3. LossEvicts'
      BY <1>9 DEF HubSend, HubVisit, LossEvicts, Registered, Leaving
    <3> QED
      BY <3>2, <3>3
  <2> QED
    BY <2>1, <2>2
<1>10. ASSUME NEW r \in Replicas, NEW c \in Clients, HubOverflow(r, c)
      PROVE  (Membership /\ NoPanic /\ LossEvicts)'
  <2>1. Membership'
    <3>1. c \in clients
      BY <1>10 DEF HubOverflow, HubVisit, Membership, HubLoop, LocalClients
    <3>2. \A d \in Clients \ {c} : missed'[d] = missed[d]
      BY <1>10 DEF HubOverflow, DropFor
    <3>3. UNCHANGED <<hubPc, hubClient, clients, wsStage, closed>>
      BY <1>10 DEF HubOverflow, HubVisit
    <3>4. Fresh'
      BY <3>1, <3>2, <3>3 DEF Membership, Fresh
    <3>5. Arriving'
      <4> SUFFICES ASSUME NEW x \in Replicas, hubPc[x] = "register"
                   PROVE  /\ hubClient[x] \in Clients
                          /\ Home[hubClient[x]] = x
                          /\ wsStage[hubClient[x]] = "done"
                          /\ hubClient[x] \notin clients
                          /\ ~closed[hubClient[x]]
                          /\ missed'[hubClient[x]] = {}
        BY <3>3 DEF Arriving
      <4>1. /\ hubClient[x] \in Clients \ {c}
            /\ Home[hubClient[x]] = x
            /\ wsStage[hubClient[x]] = "done"
            /\ hubClient[x] \notin clients
            /\ ~closed[hubClient[x]]
            /\ missed[hubClient[x]] = {}
        BY <3>1 DEF Membership, Arriving
      <4> QED
        BY <3>2, <4>1
    <3>6. (Departing /\ Live)'
      BY <3>3 DEF Membership, Departing, Live
    <3>7. \A x \in Replicas : hubTodo'[x] \subseteq hubTodo[x]
      BY <1>10 DEF HubOverflow, HubVisit, Visited
    <3>8. (HubLoop /\ RedisLoop)'
      BY <1>10, <3>7
         DEF HubOverflow, HubVisit, Membership, HubLoop, RedisLoop,
             LocalClients
    <3> QED
      BY <3>4, <3>5, <3>6, <3>8 DEF Membership
  <2>2. (NoPanic /\ LossEvicts)'
    BY <1>10
       DEF HubOverflow, HubVisit, Visited, DropFor, Evict, NoPanic,
           LossEvicts, Registered, Leaving, Membership, Fresh, Arriving,
           Departing, Live, HubLoop, RedisLoop, LocalClients
  <2> QED
    BY <2>1, <2>2
<1>11. ASSUME NEW r \in Replicas, HubEndBroadcast(r)
      PROVE  (Membership /\ NoPanic /\ LossEvicts)'
  <2>1. Membership'
    BY <1>11
       DEF HubEndBroadcast, LoopDone, Membership, Fresh, Arriving, Departing,
           Live, HubLoop, RedisLoop, LocalClients
  <2>2. (NoPanic /\ LossEvicts)'
    BY <1>11
       DEF HubEndBroadcast, LoopDone, NoPanic, LossEvicts, Registered,
           Leaving, Membership, Fresh, Arriving, Departing, Live, HubLoop,
           RedisLoop, LocalClients
  <2> QED
    BY <2>1, <2>2
<1>12. ASSUME NEW r \in Replicas, RedisReceive(r)
      PROVE  (Membership /\ NoPanic /\ LossEvicts)'
  <2>1. Membership'
    BY <1>12
       DEF RedisReceive, Membership, Fresh, Arriving, Departing, Live, HubLoop,
           RedisLoop, LocalClients
  <2>2. (NoPanic /\ LossEvicts)'
    BY <1>12
       DEF RedisReceive, NoPanic, LossEvicts, Registered, Leaving,
           Membership, Fresh, Arriving, Departing, Live, HubLoop, RedisLoop,
           LocalClients
  <2> QED
    BY <2>1, <2>2
<1>13. ASSUME NEW r \in Replicas, NEW c \in Clients, RedisSkip(r, c)
      PROVE  (Membership /\ NoPanic /\ LossEvicts)'
  <2>1. Membership'
    BY <1>13
       DEF RedisSkip, RedisVisit, Visited, Membership, Fresh, Arriving,
           Departing, Live, HubLoop, RedisLoop, LocalClients
  <2>2. (NoPanic /\ LossEvicts)'
    BY <1>13
       DEF RedisSkip, RedisVisit, Visited, NoPanic, LossEvicts,
           Registered, Leaving, Membership, Fresh, Arriving, Departing, Live,
           HubLoop, RedisLoop, LocalClients
  <2> QED
    BY <2>1, <2>2
<1>14. ASSUME NEW r \in Replicas, NEW c \in Clients, RedisSend(r, c)
      PROVE  (Membership /\ NoPanic /\ LossEvicts)'
  <2>1. Membership'
    BY <1>14
       DEF RedisSend, RedisVisit, Visited, SendTo, Membership, Fresh, Arriving,
           Departing, Live, HubLoop, RedisLoop, LocalClients
  <2>2. (NoPanic /\ LossEvicts)'
    BY <1>14
       DEF RedisSend, RedisVisit, Visited, SendTo, NoPanic, LossEvicts,
           Registered, Leaving, Membership, Fresh, Arriving, Departing, Live,
           HubLoop, RedisLoop, LocalClients
  <2> QED
    BY <2>1, <2>2
<1>15. ASSUME NEW r \in Replicas, NEW c \in Clients, RedisDrop(r, c)
      PROVE  (Membership /\ NoPanic /\ LossEvicts)'
  <2>1. Membership'
    <3>1. c \in clients
      BY <1>15 DEF RedisDrop, RedisVisit, Membership, RedisLoop, LocalClients
    <3>2. \A d \in Clients \ {c} : missed'[d] = missed[d]
      BY <1>15 DEF RedisDrop, DropFor
    <3>3. UNCHANGED <<hubPc, hubClient, clients, wsStage, closed>>
      BY <1>15 DEF RedisDrop, RedisVisit
    <3>4. Fresh'
      BY <3>1, <3>2, <3>3 DEF Membership, Fresh
    <3>5. Arriving'
      <4> SUFFICES ASSUME NEW x \in Replicas, hubPc[x] = "register"
                   PROVE  /\ hubClient[x] \in Clients
                          /\ Home[hubClient[x]] = x
                          /\ wsStage[hubClient[x]] = "done"
                          /\ hubClient[x] \notin clients
                          /\ ~closed[hubClient[x]]
                          /\ missed'[hubClient[x]] = {}
        BY <3>3 DEF Arriving
      <4>1. /\ hubClient[x] \in Clients \ {c}
            /\ Home[hubClient[x]] = x
            /\ wsStage[hubClient[x]] = "done"
            /\ hubClient[x] \notin clients
            /\ ~closed[hubClient[x]]
            /\ missed[hubClient[x]] = {}
        BY <3>1 DEF Membership, Arriving
      <4> QED
        BY <3>2, <4>1
    <3>6. (Departing /\ Live)'
      BY <3>3 DEF Membership, Departing, Live
    <3>7. \A x \in Replicas : redisTodo'[x] \subseteq redisTodo[x]
      BY <1>15 DEF RedisDrop, RedisVisit, Visited
    <3>8. (HubLoop /\ RedisLoop)'
      BY <1>15, <3>7
         DEF RedisDrop, RedisVisit, Membership, HubLoop, RedisLoop,
             LocalClients
    <3> QED
      BY <3>4, <3>5, <3>6, <3>8 DEF Membership
  <2>2. (NoPanic /\ LossEvicts)'
    BY <1>15
       DEF RedisDrop, RedisVisit, Visited, DropFor, NoPanic,
           LossEvicts, Registered, Leaving, Membership, Fresh, Arriving,
           Departing, Live, HubLoop, RedisLoop, LocalClients
  <2> QED
    BY <2>1, <2>2
<1>16. ASSUME NEW r \in Replicas, RedisEnd(r)
      PROVE  (Membership /\ NoPanic /\ LossEvicts)'
  <2>1. Membership'
    BY <1>16
       DEF RedisEnd, Membership, Fresh, Arriving, Departing, Live, HubLoop,
           RedisLoop, LocalClients
  <2>2. (NoPanic /\ LossEvicts)'
    BY <1>16
       DEF RedisEnd, NoPanic, LossEvicts, Registered, Leaving,
           Membership, Fresh, Arriving, Departing, Live, HubLoop, RedisLoop,
           LocalClients
  <2> QED
    BY <2>1, <2>2
<1>17. ASSUME CallerOrPumpStep
      PROVE  (Membership /\ NoPanic /\ LossEvicts)'
  <2>1. Membership'
    BY <1>17, CallerOrPump
       DEF IInv, Membership, Fresh, Arriving, Departing, Live, HubLoop,
           RedisLoop, LocalClients
  <2>2. (NoPanic /\ LossEvicts)'
    BY <1>17, CallerOrPump
       DEF IInv, NoPanic, LossEvicts, Registered, Leaving
  <2> QED
    BY <2>1, <2>2
<1>18. CASE UNCHANGED vars
  BY <1>18
     DEF vars, Membership, Fresh, Arriving, Departing, Live, HubLoop,
         RedisLoop, LocalClients, NoPanic, LossEvicts, Registered,
         Leaving
<1> QED
  BY <1>1, <1>2, <1>3, <1>4, <1>5, <1>6, <1>7, <1>8, <1>9, <1>10, <1>11, <1>12,
     <1>13, <1>14, <1>15, <1>16, <1>17, <1>18
     DEF Next, Run, subscribeRedis, CallerOrPumpStep

-----------------------------------------------------------------------------
\* A connection that has been received is registered until its channel is closed,
\* and whoever calls PublishToChannel from its readPump has been received.
Kept ==
    \A c \in Clients : readPc[c] # "off" => Registered(c) \/ closed[c]

Calling == \A p \in Calls : caller[p] # None => readPc[caller[p]] # "off"

\* The part of the inductive invariant about connections that end.
LInv == Kept /\ Calling /\ NoLeak

LEMMA LeakInit == Init => LInv
BY HubAssumption DEF Init, LInv, Kept, Calling, NoLeak

\* A step of Run or subscribeRedis that removes and registers nobody.
LEMMA Unmoved ==
    ASSUME LInv,
           UNCHANGED <<readPc, closed, caller>>,
           \A c \in Clients : Registered(c)' = Registered(c),
           \A c \in Clients : Leaving(c) => Leaving(c)'
    PROVE  LInv'
BY DEF LInv, Kept, Calling, NoLeak

LEMMA LeakStep == IInv /\ LInv /\ [Next]_vars => LInv'
<1> SUFFICES ASSUME IInv, LInv, [Next]_vars
             PROVE  LInv'
  OBVIOUS
<1> USE HubAssumption DEF IInv, TypeOK, hubVars, redisVars, pumpVars, callVars
<1>1. ASSUME NEW c \in Clients, wsConnect(c)
      PROVE  LInv'
  BY <1>1, Unmoved DEF wsConnect, Registered, Leaving
<1>2. ASSUME NEW c \in Clients, HubRecvRegister(c)
      PROVE  LInv'
  <2>1. c \notin clients /\ ~closed[c]
    BY <1>2 DEF HubRecvRegister, Membership, Fresh
  <2>2. \A d \in Clients : ~Leaving(d) \/ Home[d] # Home[c]
    BY <1>2 DEF HubRecvRegister, Leaving
  <2>3. Kept'
    BY <1>2 DEF HubRecvRegister, LInv, Kept, Registered
  <2>4. Calling'
    BY <1>2 DEF HubRecvRegister, LInv, Calling
  <2>5. NoLeak'
    BY <1>2, <2>1, <2>2 DEF HubRecvRegister, LInv, NoLeak, Registered, Leaving
  <2> QED
    BY <2>3, <2>4, <2>5 DEF LInv
<1>3. ASSUME NEW r \in Replicas, HubRegister(r)
      PROVE  LInv'
  <2>1. hubClient[r] \in Clients /\ Home[hubClient[r]] = r
    BY <1>3 DEF HubRegister, Membership, Arriving
  <2> QED
    BY <1>3, <2>1, Unmoved DEF HubRegister, Registered, Leaving
<1>4. ASSUME NEW c \in Clients, HubRecvFromReadPump(c)
      PROVE  LInv'
  <2>1. Kept' /\ Calling'
    BY <1>4 DEF HubRecvFromReadPump, LInv, Kept, Calling, Registered
  <2>2. NoLeak'
    BY <1>4 DEF HubRecvFromReadPump, LInv, NoLeak, Registered, Leaving
  <2> QED
    BY <2>1, <2>2 DEF LInv
<1>5. ASSUME NEW c \in Clients, HubRecvFromHelper(c)
      PROVE  LInv'
  BY <1>5, Unmoved DEF HubRecvFromHelper, Registered, Leaving
<1>6. ASSUME NEW r \in Replicas, HubUnregister(r)
      PROVE  LInv'
  <2> DEFINE c == hubClient[r]
  <2>1. c \in Clients /\ Home[c] = r
    BY <1>6 DEF HubUnregister, Membership, Departing
  <2>2. /\ clients' = clients \ {c}
        /\ c \in clients => closed'[c]
        /\ \A d \in Clients : closed[d] => closed'[d]
    <3>1. CASE c \in clients
      <4>1. clients' = clients \ {c} /\ closed' = [closed EXCEPT ![c] = TRUE]
        BY <1>6, <3>1 DEF HubUnregister, Remove
      <4> QED
        BY <2>1, <4>1
    <3>2. CASE c \notin clients
      <4>1. clients' = clients /\ closed' = closed
        BY <1>6, <3>2 DEF HubUnregister, Remove
      <4> QED
        BY <3>2, <4>1
    <3> QED
      BY <3>1, <3>2
  <2>3. \A d \in Clients : Registered(d)' = (Registered(d) /\ d # c)
    BY <1>6, <2>1, <2>2 DEF HubUnregister, Registered
  <2>4. ~Registered(c) \/ c \in clients
    BY <1>6, <2>1 DEF HubUnregister, Registered
  <2>5. \A d \in Clients : d # c => Leaving(d)' = Leaving(d)
    BY <1>6, <2>1 DEF HubUnregister, Leaving
  <2>6. readPc' = readPc /\ caller' = caller
    BY <1>6 DEF HubUnregister
  <2>7. readPc[c] # "off" => closed'[c]
    BY <2>1, <2>2, <2>4 DEF LInv, Kept
  <2> HIDE DEF c
  <2>8. Kept'
    BY <2>1, <2>2, <2>3, <2>6, <2>7 DEF LInv, Kept
  <2>9. Calling'
    BY <2>6 DEF LInv, Calling
  <2>10. NoLeak'
    BY <2>1, <2>2, <2>3, <2>5, <2>6, <2>7 DEF LInv, NoLeak
  <2> QED
    BY <2>8, <2>9, <2>10 DEF LInv
<1>7. ASSUME NEW r \in Replicas,
             \/ HubRecvBroadcast(r)
             \/ \E c \in Clients : HubSkip(r, c) \/ HubSend(r, c) \/ HubOverflow(r, c)
             \/ HubEndBroadcast(r)
             \/ subscribeRedis(r)
      PROVE  LInv'
  <2>1. UNCHANGED <<readPc, closed, caller, clients, hubClient>>
    BY <1>7
       DEF HubRecvBroadcast, HubSkip, HubSend, HubOverflow, HubVisit,
           HubEndBroadcast, subscribeRedis, RedisReceive, RedisSkip, RedisSend,
           RedisDrop, RedisVisit, RedisEnd
  <2>2. \A q \in Replicas :
           hubPc'[q] = hubPc[q]
           \/ {hubPc[q], hubPc'[q]} \subseteq {"select", "broadcast"}
    BY <1>7
       DEF HubRecvBroadcast, HubSkip, HubSend, HubOverflow, HubVisit,
           HubEndBroadcast, subscribeRedis, RedisReceive, RedisSkip, RedisSend,
           RedisDrop, RedisVisit, RedisEnd
  <2>3. \A c \in Clients : Registered(c)' = Registered(c)
    BY <2>1, <2>2 DEF Registered
  <2>4. \A c \in Clients : Leaving(c)' = Leaving(c)
    BY <2>1, <2>2 DEF Leaving
  <2> QED
    BY <2>1, <2>3, <2>4, Unmoved
<1>8. ASSUME CallerOrPumpStep
      PROVE  LInv'
  <2>1. UNCHANGED <<hubPc, hubClient, clients, closed>>
    BY <1>8, CallerOrPump
  <2>2. \A c \in Clients : Registered(c)' = Registered(c) /\ Leaving(c)' = Leaving(c)
    BY <2>1 DEF Registered, Leaving
  <2>3. \A c \in Clients : readPc'[c] = "off" <=> readPc[c] = "off"
    BY <1>8
       DEF CallerOrPumpStep, PublishToChannel, EnqueueLocal, PublishRedis,
           StartPublish, ReadFrame, Subscribe, Unsubscribe, StartTyping,
           ReadError, ReadPumpClose, writePump, WriteMessage, WriteError,
           WriteClosed, LInv, Calling
  <2>4. \A p \in Calls : caller'[p] = caller[p] \/ readPc[caller'[p]] # "off"
    BY <1>8
       DEF CallerOrPumpStep, PublishToChannel, EnqueueLocal, PublishRedis,
           StartPublish, ReadFrame, Subscribe, Unsubscribe, StartTyping,
           ReadError, ReadPumpClose, writePump, WriteMessage, WriteError,
           WriteClosed
  <2>5. caller' \in [Calls -> Clients \cup {None}]
    BY <1>8, TypeStep DEF Next, CallerOrPumpStep
  <2>6. Kept'
    BY <2>1, <2>2, <2>3 DEF LInv, Kept
  <2>7. Calling'
    BY <2>3, <2>4, <2>5 DEF LInv, Calling
  <2>8. NoLeak'
    BY <1>8, <2>1, <2>2, CallerOrPump DEF LInv, NoLeak
  <2> QED
    BY <2>6, <2>7, <2>8 DEF LInv
<1>9. CASE UNCHANGED vars
  BY <1>9, Unmoved DEF vars, Registered, Leaving
<1> QED
  BY <1>1, <1>2, <1>3, <1>4, <1>5, <1>6, <1>7, <1>8, <1>9
     DEF Next, Run, subscribeRedis, CallerOrPumpStep

-----------------------------------------------------------------------------
\* The inductive invariant holds in every reachable state.
LEMMA Invariance == Spec => []IInv
<1>1. Init => IInv
  BY InitIInv
<1>2. IInv /\ [Next]_vars => IInv'
  BY TypeStep, SafetyStep DEF IInv
<1> QED
  BY <1>1, <1>2, PTL DEF Spec

\* Every variable of the hub keeps its type.
THEOREM TypeCorrect == Spec => []TypeOK
BY Invariance, PTL DEF IInv

\* No goroutine ever sends on, or closes, a client.send that is closed: hub.mu,
\* the check of Run before it closes, and register coming before the pumps are
\* enough, whatever the number of goroutines that unregister one client.
THEOREM NeverPanics == Spec => []NoPanic
BY Invariance, PTL DEF IInv

\* A connection whose readPump has handed in its unregister leaves nothing in
\* hub.clients, and no writePump that waits for a channel nobody will close.
THEOREM NeverLeaks == Spec => []NoLeak
<1>1. LInv => NoLeak
  BY DEF LInv
<1> QED
  BY <1>1, Invariance, LeakInit, LeakStep, PTL DEF Spec

\* A client that lost a local event and is still registered has a goroutine of
\* Run waiting to unregister it, or is being unregistered.
THEOREM LossAlwaysEvicts == Spec => []LossEvicts
BY Invariance, PTL DEF IInv

-----------------------------------------------------------------------------
(* Hub implements Delivery.                                                *)

\* The connections of replica r.
LocalIds(r) == {c \in Clients : Home[c] = r}

\* p comes after all that c was given along a path.
Follows(p, c, path) ==
    \A i \in DOMAIN given[c] :
        given[c][i].via = path => given[c][i].msg \in before[path][p]

\* What has started has a replica and a channel.
Addressed ==
    \A p \in Calls :
        stage[p] # "idle" => origin[p] \in Replicas /\ topic[p] \in Channels

\* On each path, before is a strict order of what has been published there.
StrictOrder ==
    \A path \in Paths, p, q \in Calls :
        q \in before[path][p] =>
            /\ p # q
            /\ p \in Published(path)
            /\ q \in Published(path)
            /\ p \notin before[path][q]

\* What has been given has been published, along one path in that order.
GivenInOrder ==
    \A c \in Clients : \A i \in DOMAIN given[c] :
        /\ given[c][i].msg \in Published(given[c][i].via)
        /\ \A j \in DOMAIN given[c] :
              i < j /\ given[c][i].via = given[c][j].via =>
                  given[c][i].msg \in before[given[c][j].via][given[c][j].msg]

\* A queue holds what was published on its path, in that order.
InOrder(queue, path) ==
    /\ \A i \in DOMAIN queue : queue[i] \in Published(path)
    /\ \A i, j \in DOMAIN queue : i < j => queue[i] \in before[path][queue[j]]

\* What waits in hub.broadcast comes after the message in Run's hands and after
\* all that was given; that message comes after all that was given to the
\* clients it has still to visit.
LocalOrder ==
    \A r \in Replicas :
        /\ InOrder(broadcast[r], "local")
        /\ \A i \in DOMAIN broadcast[r] :
              /\ origin[broadcast[r][i]] = r
              /\ \A c \in LocalIds(r) : Follows(broadcast[r][i], c, "local")
              /\ hubPc[r] = "broadcast" =>
                    hubMsg[r] \in before["local"][broadcast[r][i]]
        /\ hubPc[r] = "broadcast" =>
              /\ hubMsg[r] \in Published("local")
              /\ origin[hubMsg[r]] = r
              /\ \A c \in hubTodo[r] : Follows(hubMsg[r], c, "local")

\* The same for the subscription to Redis.
RedisOrder ==
    \A r \in Replicas :
        /\ InOrder(inbox[r], "redis")
        /\ \A i \in DOMAIN inbox[r] :
              /\ \A c \in LocalIds(r) : Follows(inbox[r][i], c, "redis")
              /\ redisPc[r] = "deliver" =>
                    redisMsg[r] \in before["redis"][inbox[r][i]]
        /\ redisPc[r] = "deliver" =>
              /\ redisMsg[r] \in Published("redis")
              /\ \A c \in redisTodo[r] : Follows(redisMsg[r], c, "redis")

OInv == Addressed /\ StrictOrder /\ GivenInOrder /\ LocalOrder /\ RedisOrder

-----------------------------------------------------------------------------
\* The head of a queue precedes the rest, which keeps its order.
LEMMA QueueHead ==
    ASSUME NEW S, NEW queue \in Seq(S), queue # <<>>
    PROVE  /\ 1 \in DOMAIN queue
           /\ Head(queue) = queue[1]
           /\ DOMAIN Tail(queue) = 1..(Len(queue) - 1)
           /\ \A i \in DOMAIN Tail(queue) :
                 /\ i \in Nat
                 /\ i + 1 \in DOMAIN queue
                 /\ 1 < i + 1
                 /\ Tail(queue)[i] = queue[i + 1]
OBVIOUS

\* The elements of a queue with one more at its end.
LEMMA QueueEnd ==
    ASSUME NEW S, NEW queue \in Seq(S), NEW e \in S
    PROVE  /\ DOMAIN Append(queue, e) = DOMAIN queue \cup {Len(queue) + 1}
           /\ Append(queue, e)[Len(queue) + 1] = e
           /\ \A i \in DOMAIN queue : /\ Append(queue, e)[i] = queue[i]
                                     /\ i \in Nat
                                     /\ i < Len(queue) + 1
           /\ Len(queue) + 1 \in Nat
OBVIOUS

\* What is given are events.
LEMMA GivenEvents ==
    ASSUME TypeOK, NEW c \in Clients, NEW i \in DOMAIN given[c]
    PROVE  given[c][i].via \in Paths /\ given[c][i].msg \in Calls
<1>1. given[c] \in Seq(Event)
  BY DEF TypeOK
<1>2. given[c][i] \in Event
  BY <1>1
<1> QED
  BY <1>2 DEF Event

\* The initial states satisfy the invariant.
LEMMA InitOrder == Init => OInv
<1> SUFFICES ASSUME Init PROVE OInv
  OBVIOUS
<1>1. /\ \A c \in Clients : DOMAIN given[c] = {}
      /\ \A r \in Replicas : DOMAIN broadcast[r] = {} /\ DOMAIN inbox[r] = {}
  BY DEF Init
<1>2. \A path \in Paths, p \in Calls : before[path][p] = {}
  BY DEF Init
<1>3. /\ \A r \in Replicas : hubPc[r] = "select" /\ redisPc[r] = "receive"
      /\ \A p \in Calls : stage[p] = "idle"
  BY DEF Init
<1> QED
  BY <1>1, <1>2, <1>3
     DEF OInv, Addressed, StrictOrder, GivenInOrder, LocalOrder, RedisOrder,
         InOrder

-----------------------------------------------------------------------------
\* Steps that publish nothing, give nothing and take nothing from a queue.
QuietStep ==
    /\ UNCHANGED <<stage, origin, topic, before, given, broadcast, inbox>>
    /\ \A r \in Replicas :
          /\ hubPc'[r] = "broadcast" =>
                /\ hubPc[r] = "broadcast"
                /\ hubMsg'[r] = hubMsg[r]
                /\ hubTodo'[r] \subseteq hubTodo[r]
          /\ redisPc'[r] = "deliver" =>
                /\ redisPc[r] = "deliver"
                /\ redisMsg'[r] = redisMsg[r]
                /\ redisTodo'[r] \subseteq redisTodo[r]

\* They disturb no order.
LEMMA QuietOrder == OInv /\ QuietStep => OInv'
<1> SUFFICES ASSUME OInv, QuietStep PROVE OInv'
  OBVIOUS
<1>1. \A path : Published(path)' = Published(path)
  BY DEF QuietStep, Published
<1>2. (Addressed /\ StrictOrder /\ GivenInOrder)'
  BY <1>1 DEF OInv, QuietStep, Addressed, StrictOrder, GivenInOrder
<1>3. \A r \in Replicas : /\ (InOrder(broadcast[r], "local"))'
                          /\ (InOrder(inbox[r], "redis"))'
  BY <1>1 DEF OInv, QuietStep, LocalOrder, RedisOrder, InOrder
<1>4. \A p, c, path : Follows(p, c, path)' = Follows(p, c, path)
  BY DEF QuietStep, Follows
<1>5. LocalOrder'
  BY <1>1, <1>3, <1>4 DEF OInv, QuietStep, LocalOrder
<1>6. RedisOrder'
  BY <1>1, <1>3, <1>4 DEF OInv, QuietStep, RedisOrder
<1> QED
  BY <1>2, <1>5, <1>6 DEF OInv

\* A step is quiet, or it starts a call, publishes, takes from a queue or gives.
LEMMA Steps ==
    ASSUME TypeOK, [Next]_vars
    PROVE  \/ QuietStep
           \/ \E p \in Calls, r \in Replicas, ch \in Channels : StartPublish(p, r, ch)
           \/ \E p \in Calls, c \in Clients, ch \in Channels : StartTyping(p, c, ch)
           \/ \E p \in Calls : EnqueueLocal(p)
           \/ \E p \in Calls, Reached \in SUBSET Replicas : PublishRedis(p, Reached)
           \/ \E r \in Replicas : HubRecvBroadcast(r) \/ RedisReceive(r)
           \/ \E r \in Replicas, c \in Clients : HubSend(r, c) \/ RedisSend(r, c)
<1> USE DEF QuietStep, hubVars, redisVars, pumpVars, callVars
<1>1. /\ hubPc \in [Replicas -> {"select", "register", "unregister", "broadcast"}]
      /\ hubTodo \in [Replicas -> SUBSET Clients]
      /\ redisPc \in [Replicas -> {"receive", "deliver"}]
      /\ redisTodo \in [Replicas -> SUBSET Clients]
      /\ Home \in [Clients -> Replicas]
  BY HubAssumption DEF TypeOK
<1> USE <1>1
<1>2. ASSUME NEW c \in Clients,
             \/ wsConnect(c) \/ HubRecvRegister(c) \/ HubRecvFromReadPump(c)
             \/ HubRecvFromHelper(c)
      PROVE  QuietStep
  BY <1>2 DEF wsConnect, HubRecvRegister, HubRecvFromReadPump,
              HubRecvFromHelper
<1>3. ASSUME NEW r \in Replicas,
             HubRegister(r) \/ HubUnregister(r) \/ HubEndBroadcast(r) \/ RedisEnd(r)
      PROVE  QuietStep
  <2>1. CASE HubRegister(r)
    BY <2>1 DEF HubRegister
  <2>2. CASE HubUnregister(r)
    BY <2>2 DEF HubUnregister
  <2>3. CASE HubEndBroadcast(r)
    BY <2>3 DEF HubEndBroadcast
  <2>4. CASE RedisEnd(r)
    BY <2>4 DEF RedisEnd
  <2> QED
    BY <1>3, <2>1, <2>2, <2>3, <2>4
<1>4. ASSUME NEW r \in Replicas, NEW c \in Clients,
             HubSkip(r, c) \/ HubOverflow(r, c)
      PROVE  QuietStep
  BY <1>4 DEF HubSkip, HubOverflow, HubVisit, Visited
<1>5. ASSUME NEW r \in Replicas, NEW c \in Clients,
             RedisSkip(r, c) \/ RedisDrop(r, c)
      PROVE  QuietStep
  BY <1>5 DEF RedisSkip, RedisDrop, RedisVisit, Visited
<1>6. ASSUME NEW c \in Clients, NEW ch \in Channels,
             Subscribe(c, ch) \/ Unsubscribe(c, ch)
      PROVE  QuietStep
  BY <1>6 DEF Subscribe, Unsubscribe
<1>7. ASSUME NEW c \in Clients,
             \/ ReadError(c) \/ ReadPumpClose(c)
             \/ WriteMessage(c) \/ WriteError(c) \/ WriteClosed(c)
      PROVE  QuietStep
  BY <1>7 DEF ReadError, ReadPumpClose, WriteMessage, WriteError, WriteClosed
<1>8. CASE UNCHANGED vars
  BY <1>8 DEF vars
<1> HIDE DEF QuietStep, hubVars, redisVars, pumpVars, callVars
<1> QED
  BY <1>2, <1>3, <1>4, <1>5, <1>6, <1>7, <1>8
     DEF Next, Run, subscribeRedis, PublishToChannel, ReadFrame, writePump

-----------------------------------------------------------------------------
\* A call that starts has not been published.
LEMMA StartOrder ==
    ASSUME TypeOK, OInv, NEW p \in Calls, NEW r \in Replicas, NEW ch \in Channels,
           stage[p] = "idle",
           stage' = [stage EXCEPT ![p] = "local"],
           origin' = [origin EXCEPT ![p] = r],
           topic' = [topic EXCEPT ![p] = ch],
           UNCHANGED <<hubVars, redisVars, before, given, broadcast, inbox>>
    PROVE  OInv'
<1> USE DEF hubVars, redisVars
<1>1. /\ stage \in [Calls -> {"idle", "local", "redis", "done"}]
      /\ origin \in [Calls -> Replicas \cup {None}]
      /\ topic \in [Calls -> Channels \cup {None}]
  BY DEF TypeOK
<1>2. \A path : Published(path)' = Published(path)
  BY <1>1 DEF Published
<1>3. \A path : p \notin Published(path)
  BY <1>1 DEF Published
<1>4. Addressed'
  BY <1>1 DEF OInv, Addressed
<1>5. (StrictOrder /\ GivenInOrder)'
  BY <1>2 DEF OInv, StrictOrder, GivenInOrder
<1>6. \A x \in Replicas : /\ (InOrder(broadcast[x], "local"))'
                          /\ (InOrder(inbox[x], "redis"))'
  BY <1>2 DEF OInv, LocalOrder, RedisOrder, InOrder
<1>7. \A q, c, path : Follows(q, c, path)' = Follows(q, c, path)
  BY DEF Follows
<1>8. \A q : q \in Published("local") => origin'[q] = origin[q]
  BY <1>1, <1>3 DEF Published
<1>9. LocalOrder'
  BY <1>2, <1>6, <1>7, <1>8 DEF OInv, LocalOrder, InOrder
<1>10. RedisOrder'
  BY <1>2, <1>6, <1>7 DEF OInv, RedisOrder
<1> QED
  BY <1>4, <1>5, <1>9, <1>10 DEF OInv

\* What is published comes after everything published before on the path.
LEMMA EnqueueOrder ==
    ASSUME TypeOK, OInv, NEW p \in Calls, EnqueueLocal(p)
    PROVE  OInv'
<1> USE DEF hubVars, redisVars
<1>1. /\ stage \in [Calls -> {"idle", "local", "redis", "done"}]
      /\ before \in [Paths -> [Calls -> SUBSET Calls]]
      /\ broadcast \in [Replicas -> Seq(Calls)]
      /\ origin \in [Calls -> Replicas \cup {None}]
      /\ given \in [Clients -> Seq(Event)]
      /\ stage[p] = "local"
      /\ stage' = [stage EXCEPT ![p] = "redis"]
      /\ before' = [before EXCEPT !["local"][p] = Published("local")]
      /\ broadcast' = [broadcast EXCEPT ![origin[p]] = Append(@, p)]
      /\ UNCHANGED <<hubVars, redisVars, origin, topic, given, inbox>>
  BY DEF TypeOK, EnqueueLocal, Enqueued
<1>2. /\ Published("local")' = Published("local") \cup {p}
      /\ Published("redis")' = Published("redis")
      /\ p \notin Published("local")
      /\ p \notin Published("redis")
  BY <1>1 DEF Published
<1>3. /\ before'["redis"] = before["redis"]
      /\ before'["local"][p] = Published("local")
      /\ \A q \in Calls : q # p => before'["local"][q] = before["local"][q]
  BY <1>1 DEF Paths
<1>4. Addressed'
  BY <1>1 DEF OInv, Addressed
<1>5. StrictOrder'
  BY <1>2, <1>3 DEF OInv, StrictOrder, Paths
<1>6. \A c \in Clients : \A i \in DOMAIN given[c] :
          /\ given[c][i].via \in Paths
          /\ given[c][i].msg \in Calls
          /\ given[c][i].msg \in Published(given[c][i].via)
  BY GivenEvents DEF OInv, GivenInOrder
<1>7. GivenInOrder'
  <2>1. \A path \in Paths : Published(path) \subseteq Published(path)'
    BY <1>2 DEF Paths
  <2>2. \A c \in Clients : \A j \in DOMAIN given[c] :
            before'[given[c][j].via][given[c][j].msg] =
                before[given[c][j].via][given[c][j].msg]
    BY <1>2, <1>3, <1>6 DEF Paths
  <2>3. given' = given
    BY <1>1
  <2> QED
    BY <1>6, <2>1, <2>2, <2>3 DEF OInv, GivenInOrder
<1>8. /\ \A q, c : Follows(q, c, "redis")' = Follows(q, c, "redis")
      /\ \A q \in Calls, c \in Clients :
            q # p => Follows(q, c, "local")' = Follows(q, c, "local")
      /\ \A c \in Clients : Follows(p, c, "local")'
  BY <1>1, <1>3, <1>6 DEF Follows
<1>9. RedisOrder'
  <2>1. \A r \in Replicas : (InOrder(inbox[r], "redis"))'
    BY <1>1, <1>2, <1>3 DEF OInv, RedisOrder, InOrder
  <2> QED
    BY <1>1, <1>2, <1>3, <1>8, <2>1 DEF OInv, RedisOrder
<1>10. LocalOrder'
  <2> SUFFICES ASSUME NEW r \in Replicas
               PROVE  /\ (InOrder(broadcast[r], "local"))'
                      /\ \A i \in DOMAIN broadcast'[r] :
                            /\ origin'[broadcast'[r][i]] = r
                            /\ \A c \in LocalIds(r) :
                                  Follows(broadcast[r][i], c, "local")'
                            /\ hubPc'[r] = "broadcast" =>
                                  hubMsg'[r] \in before'["local"][broadcast'[r][i]]
                      /\ hubPc'[r] = "broadcast" =>
                            /\ hubMsg'[r] \in Published("local")'
                            /\ origin'[hubMsg'[r]] = r
                            /\ \A c \in hubTodo'[r] :
                                  Follows(hubMsg[r], c, "local")'
    BY DEF LocalOrder, LocalIds
  <2>1. /\ InOrder(broadcast[r], "local")
        /\ \A i \in DOMAIN broadcast[r] :
              /\ broadcast[r][i] \in Calls \ {p}
              /\ origin[broadcast[r][i]] = r
              /\ \A c \in LocalIds(r) : Follows(broadcast[r][i], c, "local")
              /\ hubPc[r] = "broadcast" =>
                    hubMsg[r] \in before["local"][broadcast[r][i]]
        /\ hubPc[r] = "broadcast" =>
              /\ hubMsg[r] \in Published("local")
              /\ hubMsg[r] \in Calls \ {p}
              /\ origin[hubMsg[r]] = r
              /\ \A c \in hubTodo[r] : c \in Clients /\ Follows(hubMsg[r], c, "local")
    <3>1. hubTodo \in [Replicas -> SUBSET Clients]
      BY DEF TypeOK
    <3> QED
      BY <1>2, <3>1 DEF OInv, LocalOrder, InOrder, Published
  <2>2. CASE origin[p] # r
    <3>1. broadcast'[r] = broadcast[r]
      BY <1>1, <2>2
    <3> QED
      BY <1>1, <1>2, <1>3, <1>8, <2>1, <3>1 DEF InOrder, LocalIds
  <2>3. CASE origin[p] = r
    <3> DEFINE n == Len(broadcast[r]) + 1
    <3>1. /\ broadcast'[r] = Append(broadcast[r], p)
          /\ broadcast[r] \in Seq(Calls)
      BY <1>1, <2>3
    <3>2. /\ DOMAIN broadcast'[r] = DOMAIN broadcast[r] \cup {n}
          /\ broadcast'[r][n] = p
          /\ \A i \in DOMAIN broadcast[r] :
                broadcast'[r][i] = broadcast[r][i] /\ i \in Nat /\ i < n
          /\ n \in Nat
      BY <3>1, QueueEnd
    <3> HIDE DEF n
    <3>3. (InOrder(broadcast[r], "local"))'
      BY <1>2, <1>3, <2>1, <3>2 DEF InOrder
    <3>4. \A i \in DOMAIN broadcast'[r] :
            /\ origin'[broadcast'[r][i]] = r
            /\ \A c \in LocalIds(r) : Follows(broadcast[r][i], c, "local")'
            /\ hubPc'[r] = "broadcast" =>
                  hubMsg'[r] \in before'["local"][broadcast'[r][i]]
      BY <1>1, <1>3, <1>8, <2>1, <2>3, <3>2 DEF LocalIds
    <3> QED
      BY <1>1, <1>2, <1>8, <2>1, <3>3, <3>4
  <2> QED
    BY <2>2, <2>3
<1> QED
  BY <1>4, <1>5, <1>7, <1>9, <1>10 DEF OInv

\* The same for Redis, in the inboxes it reaches.
LEMMA RedisPublishOrder ==
    ASSUME TypeOK, OInv, NEW p \in Calls, NEW Reached \in SUBSET Replicas,
           PublishRedis(p, Reached)
    PROVE  OInv'
<1> USE DEF hubVars, redisVars
<1>1. /\ stage \in [Calls -> {"idle", "local", "redis", "done"}]
      /\ before \in [Paths -> [Calls -> SUBSET Calls]]
      /\ inbox \in [Replicas -> Seq(Calls)]
      /\ stage[p] = "redis"
      /\ stage' = [stage EXCEPT ![p] = "done"]
      /\ before' = [before EXCEPT !["redis"][p] = Published("redis")]
      /\ \A r \in Replicas :
            inbox'[r] = IF r \in Reached THEN Append(inbox[r], p) ELSE inbox[r]
      /\ UNCHANGED <<hubVars, redisVars, origin, topic, given, broadcast>>
  BY DEF TypeOK, PublishRedis, Enqueued
<1>2. /\ Published("redis")' = Published("redis") \cup {p}
      /\ Published("local")' = Published("local")
      /\ p \notin Published("redis")
  BY <1>1 DEF Published
<1>3. /\ before'["local"] = before["local"]
      /\ before'["redis"][p] = Published("redis")
      /\ \A q \in Calls : q # p => before'["redis"][q] = before["redis"][q]
  BY <1>1 DEF Paths
<1>4. Addressed'
  BY <1>1 DEF OInv, Addressed
<1>5. StrictOrder'
  BY <1>2, <1>3 DEF OInv, StrictOrder, Paths
<1>6. \A c \in Clients : \A i \in DOMAIN given[c] :
          /\ given[c][i].via \in Paths
          /\ given[c][i].msg \in Calls
          /\ given[c][i].msg \in Published(given[c][i].via)
  BY GivenEvents DEF OInv, GivenInOrder
<1>7. GivenInOrder'
  <2>1. \A path \in Paths : Published(path) \subseteq Published(path)'
    BY <1>2 DEF Paths
  <2>2. \A c \in Clients : \A j \in DOMAIN given[c] :
            before'[given[c][j].via][given[c][j].msg] =
                before[given[c][j].via][given[c][j].msg]
    BY <1>2, <1>3, <1>6 DEF Paths
  <2>3. given' = given
    BY <1>1
  <2> QED
    BY <1>6, <2>1, <2>2, <2>3 DEF OInv, GivenInOrder
<1>8. /\ \A q, c : Follows(q, c, "local")' = Follows(q, c, "local")
      /\ \A q \in Calls, c \in Clients :
            q # p => Follows(q, c, "redis")' = Follows(q, c, "redis")
      /\ \A c \in Clients : Follows(p, c, "redis")'
  BY <1>1, <1>3, <1>6 DEF Follows
<1>9. LocalOrder'
  <2>1. \A r \in Replicas : (InOrder(broadcast[r], "local"))'
    BY <1>1, <1>2, <1>3 DEF OInv, LocalOrder, InOrder
  <2> QED
    BY <1>1, <1>2, <1>3, <1>8, <2>1 DEF OInv, LocalOrder
<1>10. RedisOrder'
  <2> SUFFICES ASSUME NEW r \in Replicas
               PROVE  /\ (InOrder(inbox[r], "redis"))'
                      /\ \A i \in DOMAIN inbox'[r] :
                            /\ \A c \in LocalIds(r) :
                                  Follows(inbox[r][i], c, "redis")'
                            /\ redisPc'[r] = "deliver" =>
                                  redisMsg'[r] \in before'["redis"][inbox'[r][i]]
                      /\ redisPc'[r] = "deliver" =>
                            /\ redisMsg'[r] \in Published("redis")'
                            /\ \A c \in redisTodo'[r] :
                                  Follows(redisMsg[r], c, "redis")'
    BY DEF RedisOrder, LocalIds
  <2>1. /\ InOrder(inbox[r], "redis")
        /\ \A i \in DOMAIN inbox[r] :
              /\ inbox[r][i] \in Calls \ {p}
              /\ \A c \in LocalIds(r) : Follows(inbox[r][i], c, "redis")
              /\ redisPc[r] = "deliver" =>
                    redisMsg[r] \in before["redis"][inbox[r][i]]
        /\ redisPc[r] = "deliver" =>
              /\ redisMsg[r] \in Published("redis")
              /\ redisMsg[r] \in Calls \ {p}
              /\ \A c \in redisTodo[r] : c \in Clients /\ Follows(redisMsg[r], c, "redis")
    <3>1. redisTodo \in [Replicas -> SUBSET Clients]
      BY DEF TypeOK
    <3> QED
      BY <1>2, <3>1 DEF OInv, RedisOrder, InOrder, Published
  <2>2. CASE r \notin Reached
    <3>1. inbox'[r] = inbox[r]
      BY <1>1, <2>2
    <3> QED
      BY <1>1, <1>2, <1>3, <1>8, <2>1, <3>1 DEF InOrder, LocalIds
  <2>3. CASE r \in Reached
    <3> DEFINE n == Len(inbox[r]) + 1
    <3>1. /\ inbox'[r] = Append(inbox[r], p)
          /\ inbox[r] \in Seq(Calls)
      BY <1>1, <2>3
    <3>2. /\ DOMAIN inbox'[r] = DOMAIN inbox[r] \cup {n}
          /\ inbox'[r][n] = p
          /\ \A i \in DOMAIN inbox[r] :
                inbox'[r][i] = inbox[r][i] /\ i \in Nat /\ i < n
          /\ n \in Nat
      BY <3>1, QueueEnd
    <3> HIDE DEF n
    <3>3. (InOrder(inbox[r], "redis"))'
      BY <1>2, <1>3, <2>1, <3>2 DEF InOrder
    <3>4. \A i \in DOMAIN inbox'[r] :
            /\ \A c \in LocalIds(r) : Follows(inbox[r][i], c, "redis")'
            /\ redisPc'[r] = "deliver" =>
                  redisMsg'[r] \in before'["redis"][inbox'[r][i]]
      BY <1>1, <1>3, <1>8, <2>1, <2>3, <3>2 DEF LocalIds
    <3> QED
      BY <1>1, <1>2, <1>8, <2>1, <3>3, <3>4
  <2> QED
    BY <2>2, <2>3
<1> QED
  BY <1>4, <1>5, <1>7, <1>9, <1>10 DEF OInv

-----------------------------------------------------------------------------
\* Run takes the head of its queue: the rest comes after it.
LEMMA TakeLocalOrder ==
    ASSUME TypeOK, Membership, OInv, NEW r \in Replicas, HubRecvBroadcast(r)
    PROVE  OInv'
<1> USE DEF redisVars, callVars
<1>1. /\ broadcast \in [Replicas -> Seq(Calls)]
      /\ hubPc \in [Replicas -> {"select", "register", "unregister", "broadcast"}]
      /\ hubMsg \in [Replicas -> Calls \cup {None}]
      /\ hubTodo \in [Replicas -> SUBSET Clients]
      /\ hubPc[r] = "select"
      /\ broadcast[r] # <<>>
      /\ hubPc' = [hubPc EXCEPT ![r] = "broadcast"]
      /\ hubMsg' = [hubMsg EXCEPT ![r] = Head(broadcast[r])]
      /\ hubTodo' = [hubTodo EXCEPT ![r] = {c \in clients : Home[c] = r}]
      /\ broadcast' = [broadcast EXCEPT ![r] = Tail(@)]
      /\ clients \subseteq Clients
      /\ UNCHANGED <<redisVars, stage, origin, topic, before, given, inbox>>
  BY DEF TypeOK, HubRecvBroadcast, BroadcastReady
<1>2. \A path : Published(path)' = Published(path)
  BY <1>1 DEF Published
<1>3. \A q, c, path : Follows(q, c, path)' = Follows(q, c, path)
  BY <1>1 DEF Follows
<1>4. (Addressed /\ StrictOrder /\ GivenInOrder)'
  BY <1>1, <1>2 DEF OInv, Addressed, StrictOrder, GivenInOrder
<1>5. RedisOrder'
  <2>1. \A x \in Replicas : (InOrder(inbox[x], "redis"))'
    BY <1>1, <1>2 DEF OInv, RedisOrder, InOrder
  <2> QED
    BY <1>1, <1>2, <1>3, <2>1 DEF OInv, RedisOrder
<1>6. /\ 1 \in DOMAIN broadcast[r]
      /\ hubMsg'[r] = broadcast[r][1]
      /\ \A i \in DOMAIN broadcast'[r] :
            /\ i \in Nat
            /\ i + 1 \in DOMAIN broadcast[r]
            /\ 1 < i + 1
            /\ broadcast'[r][i] = broadcast[r][i + 1]
  BY <1>1, QueueHead
<1>7. /\ InOrder(broadcast[r], "local")
      /\ \A i \in DOMAIN broadcast[r] :
            /\ origin[broadcast[r][i]] = r
            /\ \A c \in LocalIds(r) : Follows(broadcast[r][i], c, "local")
  BY DEF OInv, LocalOrder
<1>8. /\ InOrder(broadcast'[r], "local")
      /\ \A i \in DOMAIN broadcast'[r] :
            hubMsg'[r] \in before["local"][broadcast'[r][i]]
  <2>1. ASSUME NEW i \in DOMAIN broadcast'[r], NEW j \in DOMAIN broadcast'[r], i < j
        PROVE  broadcast'[r][i] \in before["local"][broadcast'[r][j]]
    <3>1. i + 1 < j + 1
      BY <1>6, <2>1
    <3> QED
      BY <1>6, <1>7, <3>1 DEF InOrder
  <2> QED
    BY <1>6, <1>7, <2>1 DEF InOrder
<1>9. LocalOrder'
  <2> SUFFICES ASSUME NEW x \in Replicas
               PROVE  /\ InOrder(broadcast'[x], "local")
                      /\ \A i \in DOMAIN broadcast'[x] :
                            /\ origin[broadcast'[x][i]] = x
                            /\ \A c \in LocalIds(x) :
                                  Follows(broadcast'[x][i], c, "local")
                            /\ hubPc'[x] = "broadcast" =>
                                  hubMsg'[x] \in before["local"][broadcast'[x][i]]
                      /\ hubPc'[x] = "broadcast" =>
                            /\ hubMsg'[x] \in Published("local")
                            /\ origin[hubMsg'[x]] = x
                            /\ \A c \in hubTodo'[x] :
                                  Follows(hubMsg'[x], c, "local")
    BY <1>1, <1>2, <1>3 DEF LocalOrder, LocalIds, InOrder, Follows
  <2>1. CASE x # r
    BY <1>1, <2>1 DEF OInv, LocalOrder
  <2>2. CASE x = r
    <3>1. hubTodo'[r] \subseteq LocalIds(r)
      BY <1>1 DEF LocalIds
    <3> QED
      BY <1>6, <1>7, <1>8, <2>2, <3>1 DEF InOrder
  <2> QED
    BY <2>1, <2>2
<1> QED
  BY <1>4, <1>5, <1>9 DEF OInv

\* So does subscribeRedis.
LEMMA TakeRedisOrder ==
    ASSUME TypeOK, Membership, OInv, NEW r \in Replicas, RedisReceive(r)
    PROVE  OInv'
<1> USE DEF hubVars, callVars
<1>1. /\ inbox \in [Replicas -> Seq(Calls)]
      /\ redisPc \in [Replicas -> {"receive", "deliver"}]
      /\ redisMsg \in [Replicas -> Calls \cup {None}]
      /\ redisTodo \in [Replicas -> SUBSET Clients]
      /\ inbox[r] # <<>>
      /\ redisPc' = [redisPc EXCEPT ![r] = "deliver"]
      /\ redisMsg' = [redisMsg EXCEPT ![r] = Head(inbox[r])]
      /\ redisTodo' = [redisTodo EXCEPT ![r] = {c \in clients : Home[c] = r}]
      /\ inbox' = [inbox EXCEPT ![r] = Tail(@)]
      /\ clients \subseteq Clients
      /\ UNCHANGED <<hubVars, stage, origin, topic, before, given, broadcast>>
  BY DEF TypeOK, RedisReceive
<1>2. \A path : Published(path)' = Published(path)
  BY <1>1 DEF Published
<1>3. \A q, c, path : Follows(q, c, path)' = Follows(q, c, path)
  BY <1>1 DEF Follows
<1>4. (Addressed /\ StrictOrder /\ GivenInOrder)'
  BY <1>1, <1>2 DEF OInv, Addressed, StrictOrder, GivenInOrder
<1>5. LocalOrder'
  <2>1. \A x \in Replicas : (InOrder(broadcast[x], "local"))'
    BY <1>1, <1>2 DEF OInv, LocalOrder, InOrder
  <2> QED
    BY <1>1, <1>2, <1>3, <2>1 DEF OInv, LocalOrder
<1>6. /\ 1 \in DOMAIN inbox[r]
      /\ redisMsg'[r] = inbox[r][1]
      /\ \A i \in DOMAIN inbox'[r] :
            /\ i \in Nat
            /\ i + 1 \in DOMAIN inbox[r]
            /\ 1 < i + 1
            /\ inbox'[r][i] = inbox[r][i + 1]
  BY <1>1, QueueHead
<1>7. /\ InOrder(inbox[r], "redis")
      /\ \A i \in DOMAIN inbox[r] :
            \A c \in LocalIds(r) : Follows(inbox[r][i], c, "redis")
  BY DEF OInv, RedisOrder
<1>8. /\ InOrder(inbox'[r], "redis")
      /\ \A i \in DOMAIN inbox'[r] :
            redisMsg'[r] \in before["redis"][inbox'[r][i]]
  <2>1. ASSUME NEW i \in DOMAIN inbox'[r], NEW j \in DOMAIN inbox'[r], i < j
        PROVE  inbox'[r][i] \in before["redis"][inbox'[r][j]]
    <3>1. i + 1 < j + 1
      BY <1>6, <2>1
    <3> QED
      BY <1>6, <1>7, <3>1 DEF InOrder
  <2> QED
    BY <1>6, <1>7, <2>1 DEF InOrder
<1>9. RedisOrder'
  <2> SUFFICES ASSUME NEW x \in Replicas
               PROVE  /\ InOrder(inbox'[x], "redis")
                      /\ \A i \in DOMAIN inbox'[x] :
                            /\ \A c \in LocalIds(x) :
                                  Follows(inbox'[x][i], c, "redis")
                            /\ redisPc'[x] = "deliver" =>
                                  redisMsg'[x] \in before["redis"][inbox'[x][i]]
                      /\ redisPc'[x] = "deliver" =>
                            /\ redisMsg'[x] \in Published("redis")
                            /\ \A c \in redisTodo'[x] :
                                  Follows(redisMsg'[x], c, "redis")
    BY <1>1, <1>2, <1>3 DEF RedisOrder, LocalIds, InOrder, Follows
  <2>1. CASE x # r
    BY <1>1, <2>1 DEF OInv, RedisOrder
  <2>2. CASE x = r
    <3>1. redisTodo'[r] \subseteq LocalIds(r)
      BY <1>1 DEF LocalIds
    <3> QED
      BY <1>6, <1>7, <1>8, <2>2, <3>1 DEF InOrder
  <2> QED
    BY <2>1, <2>2
<1> QED
  BY <1>4, <1>5, <1>9 DEF OInv

-----------------------------------------------------------------------------
\* Run gives its message to a client, which it will not visit again.
LEMMA GiveLocalOrder ==
    ASSUME TypeOK, Membership, OInv, NEW r \in Replicas, NEW c \in Clients,
           HubSend(r, c)
    PROVE  OInv'
<1> DEFINE e == [msg |-> hubMsg[r], via |-> "local"]
           n == Len(given[c]) + 1
<1> USE DEF redisVars, callVars
<1>1. /\ hubTodo \in [Replicas -> SUBSET Clients]
      /\ given \in [Clients -> Seq(Event)]
      /\ hubPc[r] = "broadcast"
      /\ hubMsg[r] \in Calls
      /\ c \in hubTodo[r]
      /\ hubTodo' = [hubTodo EXCEPT ![r] = @ \ {c}]
      /\ given' = [given EXCEPT ![c] = Append(@, e)]
      /\ UNCHANGED <<hubPc, hubMsg, redisVars, stage, origin, topic, before,
                     broadcast, inbox>>
  BY DEF TypeOK, HubSend, HubVisit, Visited, SendTo, Membership, HubLoop
<1>2. /\ \A x \in Replicas : hubTodo[x] \subseteq LocalIds(x)
      /\ \A x \in Replicas : hubTodo'[x] \subseteq hubTodo[x] \ {c}
  <2>1. \A x \in Replicas : hubTodo[x] \subseteq LocalIds(x)
    BY DEF TypeOK, Membership, HubLoop, LocalClients, LocalIds
  <2> QED
    BY <1>1, <2>1 DEF LocalIds
<1>3. /\ DOMAIN given'[c] = DOMAIN given[c] \cup {n}
      /\ given'[c][n] = e
      /\ \A i \in DOMAIN given[c] :
            given'[c][i] = given[c][i] /\ i \in Nat /\ i < n
      /\ n \in Nat
      /\ \A d \in Clients \ {c} : given'[d] = given[d]
  <2>1. given[c] \in Seq(Event) /\ e \in Event
    BY <1>1 DEF Event, Paths
  <2>2. given'[c] = Append(given[c], e)
    BY <1>1
  <2> QED
    BY <1>1, <2>1, <2>2, QueueEnd
<1>4. \A p : Published(p)' = Published(p)
  BY <1>1 DEF Published
<1>5. /\ hubMsg[r] \in Published("local")
      /\ Follows(hubMsg[r], c, "local")
  BY <1>1 DEF OInv, LocalOrder
<1> HIDE DEF n
<1>6. (Addressed /\ StrictOrder)'
  BY <1>1, <1>4 DEF OInv, Addressed, StrictOrder
<1>7. GivenInOrder'
  <2> SUFFICES ASSUME NEW d \in Clients, NEW i \in DOMAIN given'[d]
               PROVE  /\ given'[d][i].msg \in Published(given'[d][i].via)
                      /\ \A j \in DOMAIN given'[d] :
                            i < j /\ given'[d][i].via = given'[d][j].via =>
                                given'[d][i].msg
                                    \in before[given'[d][j].via][given'[d][j].msg]
    BY <1>1, <1>4 DEF GivenInOrder
  <2>1. CASE d # c
    BY <1>3, <2>1 DEF OInv, GivenInOrder
  <2>2. CASE d = c /\ i = n
    <3>1. \A j \in DOMAIN given'[c] : ~(n < j)
      BY <1>3
    <3> QED
      BY <1>3, <1>5, <2>2, <3>1
  <2>3. CASE d = c /\ i # n
    <3>1. i \in DOMAIN given[c] /\ given'[c][i] = given[c][i]
      BY <1>3, <2>3
    <3>2. given[c][i].via = "local" => given[c][i].msg \in before["local"][hubMsg[r]]
      BY <1>5, <3>1 DEF Follows
    <3> QED
      BY <1>3, <2>3, <3>1, <3>2 DEF OInv, GivenInOrder
  <2> QED
    BY <2>1, <2>2, <2>3
<1>8. /\ \A q : \A d \in Clients \ {c} :
            Follows(q, d, "local") => Follows(q, d, "local")'
      /\ \A q : \A d \in Clients :
            Follows(q, d, "redis") => Follows(q, d, "redis")'
      /\ \A q : Follows(q, c, "local") /\ hubMsg[r] \in before["local"][q] =>
            Follows(q, c, "local")'
  BY <1>1, <1>3 DEF Follows
<1>9. RedisOrder'
  <2>1. \A x \in Replicas : (InOrder(inbox[x], "redis"))'
    BY <1>1, <1>4 DEF OInv, RedisOrder, InOrder
  <2>2. \A x \in Replicas : redisTodo[x] \subseteq Clients
    BY DEF TypeOK
  <2> QED
    BY <1>1, <1>4, <1>8, <2>1, <2>2 DEF OInv, RedisOrder, LocalIds
<1>10. LocalOrder'
  <2>1. \A x \in Replicas : (InOrder(broadcast[x], "local"))'
    BY <1>1, <1>4 DEF OInv, LocalOrder, InOrder
  <2>2. \A x \in Replicas : \A i \in DOMAIN broadcast[x] :
            \A d \in LocalIds(x) : Follows(broadcast[x][i], d, "local")'
    <3> SUFFICES ASSUME NEW x \in Replicas, NEW i \in DOMAIN broadcast[x],
                        NEW d \in LocalIds(x)
                 PROVE  Follows(broadcast[x][i], d, "local")'
      BY <1>1
    <3>1. Follows(broadcast[x][i], d, "local") /\ d \in Clients
      BY DEF OInv, LocalOrder, LocalIds
    <3>2. CASE d # c
      BY <1>1, <1>8, <3>1, <3>2
    <3>3. CASE d = c
      <4>1. x = r
        BY <1>1, <1>2, <3>3 DEF LocalIds
      <4>2. hubMsg[r] \in before["local"][broadcast[r][i]]
        BY <1>1, <4>1 DEF OInv, LocalOrder
      <4> QED
        BY <1>1, <1>8, <3>1, <3>3, <4>1, <4>2
    <3> QED
      BY <3>2, <3>3
  <2>3. \A x \in Replicas : hubPc[x] = "broadcast" =>
            \A d \in hubTodo'[x] : Follows(hubMsg[x], d, "local")'
    <3>1. \A x \in Replicas : \A d \in hubTodo'[x] :
              d \in Clients \ {c} /\ d \in hubTodo[x]
      BY <1>1, <1>2
    <3> QED
      BY <1>1, <1>8, <3>1 DEF OInv, LocalOrder
  <2> QED
    BY <1>1, <1>4, <2>1, <2>2, <2>3 DEF OInv, LocalOrder, LocalIds
<1> QED
  BY <1>6, <1>7, <1>9, <1>10 DEF OInv

\* So does subscribeRedis.
LEMMA GiveRedisOrder ==
    ASSUME TypeOK, Membership, OInv, NEW r \in Replicas, NEW c \in Clients,
           RedisSend(r, c)
    PROVE  OInv'
<1> DEFINE e == [msg |-> redisMsg[r], via |-> "redis"]
           n == Len(given[c]) + 1
<1> USE DEF hubVars, callVars
<1>1. /\ redisTodo \in [Replicas -> SUBSET Clients]
      /\ given \in [Clients -> Seq(Event)]
      /\ redisPc[r] = "deliver"
      /\ redisMsg[r] \in Calls
      /\ c \in redisTodo[r]
      /\ redisTodo' = [redisTodo EXCEPT ![r] = @ \ {c}]
      /\ given' = [given EXCEPT ![c] = Append(@, e)]
      /\ UNCHANGED <<redisPc, redisMsg, hubVars, stage, origin, topic, before,
                     broadcast, inbox>>
  BY DEF TypeOK, RedisSend, RedisVisit, Visited, SendTo, Membership, RedisLoop
<1>2. /\ \A x \in Replicas : redisTodo[x] \subseteq LocalIds(x)
      /\ \A x \in Replicas : redisTodo'[x] \subseteq redisTodo[x] \ {c}
  <2>1. \A x \in Replicas : redisTodo[x] \subseteq LocalIds(x)
    BY DEF TypeOK, Membership, RedisLoop, LocalClients, LocalIds
  <2> QED
    BY <1>1, <2>1 DEF LocalIds
<1>3. /\ DOMAIN given'[c] = DOMAIN given[c] \cup {n}
      /\ given'[c][n] = e
      /\ \A i \in DOMAIN given[c] :
            given'[c][i] = given[c][i] /\ i \in Nat /\ i < n
      /\ n \in Nat
      /\ \A d \in Clients \ {c} : given'[d] = given[d]
  <2>1. given[c] \in Seq(Event) /\ e \in Event
    BY <1>1 DEF Event, Paths
  <2>2. given'[c] = Append(given[c], e)
    BY <1>1
  <2> QED
    BY <1>1, <2>1, <2>2, QueueEnd
<1>4. \A p : Published(p)' = Published(p)
  BY <1>1 DEF Published
<1>5. /\ redisMsg[r] \in Published("redis")
      /\ Follows(redisMsg[r], c, "redis")
  BY <1>1 DEF OInv, RedisOrder
<1> HIDE DEF n
<1>6. (Addressed /\ StrictOrder)'
  BY <1>1, <1>4 DEF OInv, Addressed, StrictOrder
<1>7. GivenInOrder'
  <2> SUFFICES ASSUME NEW d \in Clients, NEW i \in DOMAIN given'[d]
               PROVE  /\ given'[d][i].msg \in Published(given'[d][i].via)
                      /\ \A j \in DOMAIN given'[d] :
                            i < j /\ given'[d][i].via = given'[d][j].via =>
                                given'[d][i].msg
                                    \in before[given'[d][j].via][given'[d][j].msg]
    BY <1>1, <1>4 DEF GivenInOrder
  <2>1. CASE d # c
    BY <1>3, <2>1 DEF OInv, GivenInOrder
  <2>2. CASE d = c /\ i = n
    <3>1. \A j \in DOMAIN given'[c] : ~(n < j)
      BY <1>3
    <3> QED
      BY <1>3, <1>5, <2>2, <3>1
  <2>3. CASE d = c /\ i # n
    <3>1. i \in DOMAIN given[c] /\ given'[c][i] = given[c][i]
      BY <1>3, <2>3
    <3>2. given[c][i].via = "redis" => given[c][i].msg \in before["redis"][redisMsg[r]]
      BY <1>5, <3>1 DEF Follows
    <3> QED
      BY <1>3, <2>3, <3>1, <3>2 DEF OInv, GivenInOrder
  <2> QED
    BY <2>1, <2>2, <2>3
<1>8. /\ \A q : \A d \in Clients \ {c} :
            Follows(q, d, "redis") => Follows(q, d, "redis")'
      /\ \A q : \A d \in Clients :
            Follows(q, d, "local") => Follows(q, d, "local")'
      /\ \A q : Follows(q, c, "redis") /\ redisMsg[r] \in before["redis"][q] =>
            Follows(q, c, "redis")'
  BY <1>1, <1>3 DEF Follows
<1>9. LocalOrder'
  <2>1. \A x \in Replicas : (InOrder(broadcast[x], "local"))'
    BY <1>1, <1>4 DEF OInv, LocalOrder, InOrder
  <2>2. \A x \in Replicas : hubTodo[x] \subseteq Clients
    BY DEF TypeOK
  <2> QED
    BY <1>1, <1>4, <1>8, <2>1, <2>2 DEF OInv, LocalOrder, LocalIds
<1>10. RedisOrder'
  <2>1. \A x \in Replicas : (InOrder(inbox[x], "redis"))'
    BY <1>1, <1>4 DEF OInv, RedisOrder, InOrder
  <2>2. \A x \in Replicas : \A i \in DOMAIN inbox[x] :
            \A d \in LocalIds(x) : Follows(inbox[x][i], d, "redis")'
    <3> SUFFICES ASSUME NEW x \in Replicas, NEW i \in DOMAIN inbox[x],
                        NEW d \in LocalIds(x)
                 PROVE  Follows(inbox[x][i], d, "redis")'
      BY <1>1
    <3>1. Follows(inbox[x][i], d, "redis") /\ d \in Clients
      BY DEF OInv, RedisOrder, LocalIds
    <3>2. CASE d # c
      BY <1>1, <1>8, <3>1, <3>2
    <3>3. CASE d = c
      <4>1. x = r
        BY <1>1, <1>2, <3>3 DEF LocalIds
      <4>2. redisMsg[r] \in before["redis"][inbox[r][i]]
        BY <1>1, <4>1 DEF OInv, RedisOrder
      <4> QED
        BY <1>1, <1>8, <3>1, <3>3, <4>1, <4>2
    <3> QED
      BY <3>2, <3>3
  <2>3. \A x \in Replicas : redisPc[x] = "deliver" =>
            \A d \in redisTodo'[x] : Follows(redisMsg[x], d, "redis")'
    <3>1. \A x \in Replicas : \A d \in redisTodo'[x] :
              d \in Clients \ {c} /\ d \in redisTodo[x]
      BY <1>1, <1>2
    <3> QED
      BY <1>1, <1>8, <3>1 DEF OInv, RedisOrder
  <2> QED
    BY <1>1, <1>4, <2>1, <2>2, <2>3 DEF OInv, RedisOrder, LocalIds
<1> QED
  BY <1>6, <1>7, <1>9, <1>10 DEF OInv

-----------------------------------------------------------------------------
\* Every step keeps the queues, the messages in hand and what has been given in
\* the order of publication.
LEMMA OrderStep == IInv /\ OInv /\ [Next]_vars => OInv'
<1> SUFFICES ASSUME IInv, OInv, [Next]_vars PROVE OInv'
  OBVIOUS
<1> USE DEF IInv
<1>1. ASSUME NEW p \in Calls, NEW r \in Replicas, NEW ch \in Channels,
             StartPublish(p, r, ch)
      PROVE  OInv'
  BY <1>1, StartOrder DEF StartPublish
<1>2. ASSUME NEW p \in Calls, NEW c \in Clients, NEW ch \in Channels,
             StartTyping(p, c, ch)
      PROVE  OInv'
  <2>1. Home[c] \in Replicas
    BY HubAssumption
  <2> QED
    BY <1>2, <2>1, StartOrder DEF StartTyping
<1> QED
  BY <1>1, <1>2, Steps, QuietOrder, EnqueueOrder, RedisPublishOrder,
     TakeLocalOrder, TakeRedisOrder, GiveLocalOrder, GiveRedisOrder

\* The order is kept in every reachable state.
LEMMA OrderInvariance == Spec => [](IInv /\ OInv)
<1>1. Init => IInv /\ OInv
  BY InitIInv, InitOrder
<1>2. (IInv /\ OInv) /\ [Next]_vars => (IInv /\ OInv)'
  BY TypeStep, SafetyStep, OrderStep DEF IInv
<1> QED
  BY <1>1, <1>2, PTL DEF Spec

\* Along one path no connection is given an event twice, and no two connections
\* are given two events in opposite orders, whatever was dropped: each of the
\* queues of ws.go has one reader, which gives a message to everyone before it
\* takes the next.
THEOREM Ordered == Spec => []SameOrder
<1>1. IInv /\ OInv => SameOrder
  <2> SUFFICES ASSUME IInv, OInv, NEW c1 \in Clients, NEW c2 \in Clients,
                      NEW p \in Calls, NEW q \in Calls, NEW path \in Paths,
                      Before(c1, [msg |-> p, via |-> path], [msg |-> q, via |-> path]),
                      Before(c2, [msg |-> q, via |-> path], [msg |-> p, via |-> path])
               PROVE  FALSE
    BY DEF SameOrder
  <2>1. p \in before[path][q]
    BY DEF Before, OInv, GivenInOrder
  <2>2. q \in before[path][p]
    BY DEF Before, OInv, GivenInOrder
  <2> QED
    BY <2>1, <2>2 DEF OInv, StrictOrder
<1> QED
  BY <1>1, OrderInvariance, PTL

-----------------------------------------------------------------------------
\* Steps that leave alone what Delivery speaks of.
LEMMA Unseen ==
    UNCHANGED <<stage, origin, topic, before, channels, given, closed>> =>
        UNCHANGED Promise!vars
BY DEF Promise!vars, Published

\* A call that starts is a Call of Delivery.
LEMMA StartRefines ==
    ASSUME TypeOK, NEW p \in Calls, NEW r \in Replicas, NEW ch \in Channels,
           stage[p] = "idle",
           stage' = [stage EXCEPT ![p] = "local"],
           origin' = [origin EXCEPT ![p] = r],
           topic' = [topic EXCEPT ![p] = ch],
           UNCHANGED <<before, channels, given, closed>>
    PROVE  Promise!Next
<1>1. \A path : Published(path)' = Published(path) /\ p \notin Published(path)
  BY DEF TypeOK, Published
<1>2. Promise!Call(p, r, ch)
  BY <1>1 DEF Promise!Call, Promise!Paths, Paths
<1> QED
  BY <1>2 DEF Promise!Next

\* Putting a call on a path is a Publish.
LEMMA PublishRefines ==
    ASSUME TypeOK, Addressed, NEW p \in Calls,
           \/ EnqueueLocal(p)
           \/ \E Reached \in SUBSET Replicas : PublishRedis(p, Reached)
    PROVE  Promise!Next
<1> USE HubAssumption
<1>1. CASE EnqueueLocal(p)
  <2>1. /\ Published("local")' = Published("local") \cup {p}
        /\ Published("redis")' = Published("redis")
        /\ p \notin Published("local")
        /\ topic[p] # None
    BY <1>1 DEF TypeOK, EnqueueLocal, Published, Addressed
  <2>2. [path \in Paths |-> Published(path)]' =
            [[path \in Paths |-> Published(path)] EXCEPT !["local"] = @ \cup {p}]
    BY <2>1 DEF Paths
  <2>3. /\ before' = [before EXCEPT !["local"][p] = Published("local")]
        /\ UNCHANGED <<origin, topic, channels, given, closed>>
    BY <1>1 DEF EnqueueLocal
  <2>4. Promise!Publish(p, "local")
    BY <2>1, <2>2, <2>3 DEF Promise!Publish, Paths
  <2> QED
    BY <2>4 DEF Promise!Next, Promise!Paths
<1>2. CASE \E Reached \in SUBSET Replicas : PublishRedis(p, Reached)
  <2>1. /\ Published("redis")' = Published("redis") \cup {p}
        /\ Published("local")' = Published("local")
        /\ p \notin Published("redis")
        /\ p \in Published("local")
        /\ topic[p] # None
    BY <1>2 DEF TypeOK, PublishRedis, Published, Addressed
  <2>2. [path \in Paths |-> Published(path)]' =
            [[path \in Paths |-> Published(path)] EXCEPT !["redis"] = @ \cup {p}]
    BY <2>1 DEF Paths
  <2>3. /\ before' = [before EXCEPT !["redis"][p] = Published("redis")]
        /\ UNCHANGED <<origin, topic, channels, given, closed>>
    BY <1>2 DEF PublishRedis
  <2>4. Promise!Publish(p, "redis")
    BY <2>1, <2>2, <2>3 DEF Promise!Publish, Paths
  <2> QED
    BY <2>4 DEF Promise!Next, Promise!Paths
<1> QED
  BY <1>1, <1>2

\* Putting an event into client.send is a Give.
LEMMA GiveRefines ==
    ASSUME TypeOK, Membership, LocalOrder, RedisOrder,
           NEW r \in Replicas, NEW c \in Clients,
           HubSend(r, c) \/ RedisSend(r, c)
    PROVE  Promise!Next
<1> USE DEF hubVars, redisVars, pumpVars, callVars, SendTo
<1>1. CASE HubSend(r, c)
  <2>1. c \in clients /\ Home[c] = r /\ hubMsg[r] \in Calls /\ ~closed[c]
    BY <1>1 DEF HubSend, HubVisit, Membership, HubLoop, LocalClients, Live
  <2>2. /\ hubMsg[r] \in Published("local")
        /\ origin[hubMsg[r]] = r
        /\ Follows(hubMsg[r], c, "local")
    BY <1>1 DEF HubSend, HubVisit, LocalOrder
  <2>3. /\ topic[hubMsg[r]] \in channels[c]
        /\ given' = [given EXCEPT ![c] = Append(@, [msg |-> hubMsg[r], via |-> "local"])]
        /\ UNCHANGED <<stage, origin, topic, before, channels, closed>>
    BY <1>1 DEF HubSend, HubVisit
  <2>4. Promise!Give(c, hubMsg[r], "local")
    BY <2>1, <2>2, <2>3
       DEF Promise!Give, Promise!Follows, Follows, Published, Paths
  <2> QED
    BY <2>1, <2>4 DEF Promise!Next, Promise!Paths
<1>2. CASE RedisSend(r, c)
  <2>1. c \in clients /\ redisMsg[r] \in Calls /\ ~closed[c]
    BY <1>2 DEF RedisSend, RedisVisit, Membership, RedisLoop, LocalClients, Live
  <2>2. /\ redisMsg[r] \in Published("redis")
        /\ Follows(redisMsg[r], c, "redis")
    BY <1>2 DEF RedisSend, RedisVisit, RedisOrder
  <2>3. /\ topic[redisMsg[r]] \in channels[c]
        /\ given' = [given EXCEPT ![c] = Append(@, [msg |-> redisMsg[r], via |-> "redis"])]
        /\ UNCHANGED <<stage, origin, topic, before, channels, closed>>
    BY <1>2 DEF RedisSend, RedisVisit
  <2>4. Promise!Give(c, redisMsg[r], "redis")
    BY <2>1, <2>2, <2>3
       DEF Promise!Give, Promise!Follows, Follows, Published, Paths
  <2> QED
    BY <2>1, <2>4 DEF Promise!Next, Promise!Paths
<1> QED
  BY <1>1, <1>2

\* Closing client.send is an End.
LEMMA EndRefines ==
    ASSUME TypeOK, Membership, NEW r \in Replicas, HubUnregister(r)
    PROVE  [Promise!Next]_(Promise!vars)
<1> USE DEF pumpVars, callVars
<1>1. UNCHANGED <<stage, origin, topic, before, channels, given>>
  BY DEF HubUnregister
<1>2. PICK left \in Clients : left = hubClient[r]
  BY DEF HubUnregister, Membership, Departing
<1>3. CASE left \in clients
  <2>1. closed' = [closed EXCEPT ![left] = TRUE] /\ closed \in [Clients -> BOOLEAN]
    BY <1>2, <1>3 DEF TypeOK, HubUnregister, Remove
  <2>2. {c \in Clients : closed[c]}' = {c \in Clients : closed[c]} \cup {left}
    BY <1>1, <2>1
  <2>3. [path \in Paths |-> Published(path)]' = [path \in Paths |-> Published(path)]
    BY <1>1 DEF Published
  <2>4. Promise!End(left)
    BY <1>1, <2>2, <2>3 DEF Promise!End
  <2> QED
    BY <1>1, <2>4 DEF Promise!Next
<1>4. CASE left \notin clients
  BY <1>1, <1>2, <1>4, Unseen DEF HubUnregister, Remove
<1> QED
  BY <1>3, <1>4

\* A frame that subscribes or unsubscribes is a Resubscribe.
LEMMA ResubscribeRefines ==
    ASSUME TypeOK, NEW c \in Clients, NEW ch \in Channels,
           Subscribe(c, ch) \/ Unsubscribe(c, ch)
    PROVE  Promise!Next
<1> USE DEF callVars
<1>1. /\ \E S \in SUBSET Channels : channels' = [channels EXCEPT ![c] = S]
      /\ UNCHANGED <<stage, origin, topic, before, given, closed>>
  BY DEF TypeOK, Subscribe, Unsubscribe
<1>2. Promise!Resubscribe(c)
  BY <1>1 DEF Promise!Resubscribe, Published, Paths
<1> QED
  BY <1>2 DEF Promise!Next

\* Every step of the hub is a step of Delivery or changes nothing it speaks of.
LEMMA StepRefines == IInv /\ OInv /\ [Next]_vars => [Promise!Next]_(Promise!vars)
<1> SUFFICES ASSUME IInv, OInv, [Next]_vars
             PROVE  [Promise!Next]_(Promise!vars)
  OBVIOUS
<1> USE DEF IInv, OInv
<1>1. ASSUME NEW c \in Clients,
             \/ wsConnect(c) \/ HubRecvRegister(c) \/ HubRecvFromReadPump(c)
             \/ HubRecvFromHelper(c) \/ ReadError(c) \/ ReadPumpClose(c)
             \/ WriteMessage(c) \/ WriteError(c) \/ WriteClosed(c)
      PROVE  UNCHANGED Promise!vars
  BY <1>1, Unseen
     DEF wsConnect, HubRecvRegister, HubRecvFromReadPump, HubRecvFromHelper,
         ReadError, ReadPumpClose, WriteMessage, WriteError, WriteClosed,
         callVars
<1>2. ASSUME NEW r \in Replicas,
             \/ HubRegister(r) \/ HubRecvBroadcast(r) \/ HubEndBroadcast(r)
             \/ RedisReceive(r) \/ RedisEnd(r)
      PROVE  UNCHANGED Promise!vars
  BY <1>2, Unseen
     DEF HubRegister, HubRecvBroadcast, HubEndBroadcast, RedisReceive, RedisEnd,
         callVars
<1>3. ASSUME NEW r \in Replicas, NEW c \in Clients,
             \/ HubSkip(r, c) \/ HubOverflow(r, c)
             \/ RedisSkip(r, c) \/ RedisDrop(r, c)
      PROVE  UNCHANGED Promise!vars
  BY <1>3, Unseen
     DEF HubSkip, HubOverflow, HubVisit, RedisSkip, RedisDrop, RedisVisit,
         callVars
<1>4. ASSUME NEW p \in Calls, NEW r \in Replicas, NEW ch \in Channels,
             StartPublish(p, r, ch)
      PROVE  Promise!Next
  BY <1>4, StartRefines DEF StartPublish
<1>5. ASSUME NEW p \in Calls, NEW c \in Clients, NEW ch \in Channels,
             StartTyping(p, c, ch)
      PROVE  Promise!Next
  <2>1. Home[c] \in Replicas
    BY HubAssumption
  <2> QED
    BY <1>5, <2>1, StartRefines DEF StartTyping
<1>6. CASE UNCHANGED vars
  BY <1>6, Unseen DEF vars, callVars
<1> HIDE DEF IInv, OInv
<1>7. TypeOK /\ Membership /\ Addressed /\ LocalOrder /\ RedisOrder
  BY DEF IInv, OInv
<1> QED
  BY <1>1, <1>2, <1>3, <1>4, <1>5, <1>6, <1>7, PublishRefines, GiveRefines,
     EndRefines, ResubscribeRefines
     DEF Next, Run, subscribeRedis, PublishToChannel, ReadFrame, writePump

\* The hub implements Delivery: whatever its queues, locks, evictions and
\* disconnections do, each connection is given, along each path, a part of what
\* was published there in the order of publication, and only what it is
\* subscribed to.
THEOREM Implements == Spec => ImplementsDelivery
<1>1. Init => Promise!Init
  BY DEF Init, Promise!Init, Published, Paths, Promise!Paths
<1> QED
  BY <1>1, OrderInvariance, StepRefines, PTL
     DEF Spec, ImplementsDelivery, Promise!Spec
=============================================================================
