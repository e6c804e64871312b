---------------------------- MODULE Feed_proofs ----------------------------
(***************************************************************************)
(* Proofs about Feed, for any numbers of requests, messages and replicas.  *)
(*                                                                         *)
(* What the viewer shows follows from the events it was given, whatever    *)
(* the table holds (Shows); what the table holds follows from the requests *)
(* that changed it (Row), to which the events are tied by what their       *)
(* handlers have done (Sound); and along one path the events come in the   *)
(* order of their publication (Ordering).  ViewAgrees puts the four        *)
(* together.                                                               *)
(***************************************************************************)
EXTENDS Feed, TLAPS

\* The events the viewer was given.
Events == given[Viewer]

About(k, m, o) == message[Events[k].msg] = m /\ op[Events[k].msg] = o

\* The handler has executed its statement and goes on to publish.
Acted(q) == pc[q] \in {"written", "local"} \/ q \in published["local"]

Last(m) == wrote[m][Len(wrote[m])]

\* The row of a message is as the last write left it.
Row(m) ==
    /\ m \in unborn => wrote[m] = <<>> /\ content[m] = None
    /\ m \notin unborn => wrote[m] # <<>>
    /\ \A i \in DOMAIN wrote[m] :
          /\ message[wrote[m][i]] = m
          /\ pc[wrote[m][i]] \notin {"idle", "checked"}
          /\ op[wrote[m][i]] = "send" <=> i = 1
    /\ content[m] # None => content[m] = Last(m)
    /\ m \notin unborn /\ content[m] = None => op[Last(m)] = "delete"

\* What is known of a request, and what its statement has done.
Sound(q) ==
    /\ pc[q] = "idle" => q \notin published["local"]
    /\ pc[q] = "checked" => op[q] # "send" /\ q \notin published["local"]
    /\ pc[q] # "idle" => op[q] \in Ops /\ message[q] \in Messages \ unborn
    /\ Acted(q) /\ op[q] = "send" => q = wrote[message[q]][1]
    /\ Acted(q) /\ op[q] = "edit" =>
          \/ content[message[q]] = None
          \/ \E i \in DOMAIN wrote[message[q]] : wrote[message[q]][i] = q
    /\ Acted(q) /\ op[q] = "delete" => content[message[q]] = None \/ q \in untrue

\* On each path, before is a strict order of what has been published there, and
\* the viewer was given events in that order.
Ordering ==
    /\ published["redis"] \subseteq published["local"]
    /\ \A path \in Paths, p, q \in Requests :
          q \in before[path][p] =>
              /\ p \in published[path]
              /\ q \in published[path]
              /\ p \notin before[path][q]
    /\ \A i \in DOMAIN Events :
          /\ Events[i].msg \in published[Events[i].via]
          /\ \A j \in DOMAIN Events :
                i < j /\ Events[i].via = Events[j].via =>
                    Events[i].msg \in before[Events[i].via][Events[j].msg]

\* A message that was announced is shown, unless its deletion was, too.
Appears(m) ==
    (\E k \in DOMAIN Events : About(k, m, "send")) =>
        view[m] # None \/ \E k \in DOMAIN Events : About(k, m, "delete")

\* The viewer shows the last event about a message, when the announcement came
\* before it and no deletion ever did.
Latest(m) ==
    \A k \in DOMAIN Events :
        /\ message[Events[k].msg] = m
        /\ \E i \in 1 .. k : About(i, m, "send")
        /\ ~ \E i \in DOMAIN Events : About(i, m, "delete")
        /\ \A j \in k .. Len(Events) :
              message[Events[j].msg] = m => Events[j].msg = Events[k].msg
        => view[m] = Events[k].msg

\* After a deletion only an announcement makes a message appear.
Vanishes(m) ==
    view[m] # None =>
        \A k \in DOMAIN Events :
            About(k, m, "delete") =>
                \E j \in k .. Len(Events) : About(j, m, "send")

Shows(m) == Appears(m) /\ Latest(m) /\ Vanishes(m)

IInv ==
    /\ TypeOK
    /\ Ordering
    /\ \A m \in Messages : Row(m) /\ Shows(m)
    /\ \A q \in Requests : Sound(q)

-----------------------------------------------------------------------------
(* The initial state.                                                      *)

LEMMA InitInv == Init => IInv
  <1> SUFFICES ASSUME Init PROVE IInv OBVIOUS
  <1> USE DEF Init, Hub!Init, Paths, Hub!Paths
  <1>1. Events = <<>> BY DEF Events
  <1>2. TypeOK BY DEF TypeOK
  <1>3. Ordering BY <1>1 DEF Ordering
  <1>4. ASSUME NEW m \in Messages PROVE Row(m) BY DEF Row
  <1>5. ASSUME NEW m \in Messages PROVE Shows(m)
    BY <1>1 DEF Shows, Appears, Latest, Vanishes
  <1>6. ASSUME NEW q \in Requests PROVE Sound(q) BY DEF Sound, Acted
  <1> QED BY <1>2, <1>3, <1>4, <1>5, <1>6 DEF IInv

-----------------------------------------------------------------------------
(* The types.                                                              *)

\* What has been published is the event of a handler that has acted.
LEMMA PublishedActs ==
    ASSUME IInv, NEW q \in Requests, NEW path \in Paths, q \in published[path]
    PROVE  /\ Acted(q) /\ pc[q] \notin {"idle", "checked"}
           /\ op[q] \in Ops /\ message[q] \in Messages \ unborn
  <1>1. q \in published["local"]
    BY DEF IInv, Ordering, Paths, Hub!Paths
  <1> QED BY <1>1 DEF IInv, Sound, Acted

LEMMA ShownCases ==
    ASSUME NEW q, NEW shown
    PROVE  /\ op[q] = "send" => Shown(q, shown) = q
           /\ op[q] = "edit" => Shown(q, shown) = IF shown = None THEN None ELSE q
           /\ op[q] = "delete" => Shown(q, shown) = None
  BY DEF Shown

LEMMA TypeStep == IInv /\ [Next]_vars => TypeOK'
  <1> SUFFICES ASSUME IInv, [Next]_vars PROVE TypeOK' OBVIOUS
  <1>0. TypeOK BY DEF IInv
  <1> USE <1>0 DEF TypeOK
  <1>1. CASE UNCHANGED vars BY <1>1 DEF vars, hubVars
  <1>2. ASSUME NEW q \in Requests, NEW m \in Messages, sendMessage(q, m)
        PROVE  TypeOK'
    BY <1>2 DEF sendMessage, Starts, Written, Hub!Call, Ops
  <1>3. ASSUME NEW q \in Requests, NEW m \in Messages, NEW o \in {"edit", "delete"},
               Check(q, o, m)
        PROVE  TypeOK'
    BY <1>3 DEF Check, Starts, Hub!Call, Ops
  <1>4. ASSUME NEW q \in Requests, editMessage(q) \/ deleteMessage(q) PROVE TypeOK'
    <2>1. message[q] \in Messages
      BY <1>4 DEF IInv, Sound, editMessage, deleteMessage
    <2>2. /\ \E changed \in BOOLEAN : Written(q, message[q], changed)
          /\ \E c \in Requests \cup {None} :
                content' = [content EXCEPT ![message[q]] = c]
          /\ UNCHANGED <<unborn, op, message, untrue, view, hubVars>>
      <3>1. CASE editMessage(q)
        <4>1. content' \in {content, [content EXCEPT ![message[q]] = q]}
          BY <3>1 DEF editMessage, NewContent
        <4>2. content[message[q]] \in Requests \cup {None}
              /\ content = [content EXCEPT ![message[q]] = content[message[q]]]
          BY <2>1
        <4> QED BY <3>1, <4>1, <4>2 DEF editMessage
      <3>2. CASE deleteMessage(q) BY <3>2 DEF deleteMessage
      <3> QED BY <1>4, <3>1, <3>2
    <2>3. content' \in [Messages -> Requests \cup {None}] BY <2>2
    <2>4. wrote' \in [Messages -> Seq(Requests)] BY <2>1, <2>2 DEF Written
    <2>5. pc' \in [Requests -> {"idle", "checked", "written", "local", "done"}]
      BY <2>2 DEF Written
    <2> QED BY <2>2, <2>3, <2>4, <2>5 DEF hubVars
  <1>5. ASSUME NEW q \in Requests, EditFails(q) \/ DeleteFails(q) \/ Crash(q)
        PROVE  TypeOK'
    BY <1>5 DEF EditFails, DeleteFails, Crash, AnswerError, Written, hubVars
  <1>6. ASSUME NEW q \in Requests, EnqueueLocal(q) \/ PublishRedis(q)
        PROVE  TypeOK'
    <2>1. /\ pc' \in [Requests -> {"idle", "checked", "written", "local", "done"}]
          /\ UNCHANGED <<content, unborn, op, message, wrote, untrue, view>>
      BY <1>6 DEF EnqueueLocal, PublishRedis
    <2>2. ASSUME NEW path \in Paths, Hub!Publish(q, path)
          PROVE  /\ published' \in [Paths -> SUBSET Requests]
                 /\ before' \in [Paths -> [Requests -> SUBSET Requests]]
                 /\ UNCHANGED <<origin, topic, channels, given, ended>>
      BY <2>2 DEF Hub!Publish
    <2>3. \/ \E path \in Paths : Hub!Publish(q, path)
          \/ UNCHANGED hubVars
      BY <1>6 DEF EnqueueLocal, PublishRedis, Paths, Hub!Paths
    <2> QED BY <2>1, <2>2, <2>3 DEF hubVars
  <1>7. ASSUME NEW q \in Requests, NEW path \in Paths, Receive(q, path)
        PROVE  TypeOK'
    <2>1. q \in published[path] BY <1>7 DEF Receive, Hub!Give
    <2>2. message[q] \in Messages /\ op[q] \in Ops BY <2>1, PublishedActs
    <2>3. Shown(q, view[message[q]]) \in Requests \cup {None}
      BY <2>2, ShownCases DEF Ops
    <2>4. view' \in [Messages -> Requests \cup {None}] BY <1>7, <2>3 DEF Receive
    <2>5. given' \in [{Viewer} -> Seq(Copies)]
      BY <1>7 DEF Receive, Hub!Give, Copies
    <2> QED BY <1>7, <2>4, <2>5 DEF Receive, Hub!Give
  <1>8. CASE Subscribe BY <1>8 DEF Subscribe, Hub!Resubscribe
  <1> QED BY <1>1, <1>2, <1>3, <1>4, <1>5, <1>6, <1>7, <1>8 DEF Next

-----------------------------------------------------------------------------
(* The order of the events.                                                *)

LEMMA EventsTyped ==
    ASSUME TypeOK
    PROVE  /\ Len(Events) \in Nat
           /\ DOMAIN Events = 1 .. Len(Events)
           /\ \A k \in DOMAIN Events :
                 Events[k].msg \in Requests /\ Events[k].via \in Paths
  <1>1. Events \in Seq(Copies) BY DEF TypeOK, Events
  <1> HIDE DEF Events
  <1>2. Len(Events) \in Nat /\ DOMAIN Events = 1 .. Len(Events) BY <1>1
  <1>3. \A k \in DOMAIN Events : Events[k] \in Copies BY <1>1
  <1> QED BY <1>2, <1>3 DEF Copies

LEMMA OrderKept ==
    ASSUME IInv, UNCHANGED <<published, before, given>>
    PROVE  Ordering'
  BY DEF IInv, Ordering, Events

LEMMA OrderPublish ==
    ASSUME IInv, NEW q \in Requests, NEW path \in Paths, Hub!Publish(q, path)
    PROVE  Ordering'
  <1> USE DEF IInv, TypeOK
  <1>1. /\ q \notin published[path]
        /\ path = "redis" => q \in published["local"]
        /\ published' = [published EXCEPT ![path] = @ \cup {q}]
        /\ before' = [before EXCEPT ![path][q] = published[path]]
        /\ UNCHANGED given
    BY DEF Hub!Publish
  <1>2. "local" \in Paths /\ "redis" \in Paths BY DEF Paths, Hub!Paths
  <1>3. published'["redis"] \subseteq published'["local"]
    BY <1>1, <1>2 DEF Ordering
  <1>4. ASSUME NEW via \in Paths, NEW p \in Requests, NEW s \in Requests,
               s \in before'[via][p]
        PROVE  p \in published'[via] /\ s \in published'[via] /\ p \notin before'[via][s]
    <2>1. CASE via # path
      <3>1. before'[via] = before[via] /\ published'[via] = published[via]
        BY <1>1, <2>1
      <3> QED BY <1>4, <3>1 DEF Ordering
    <2>2. CASE via = path /\ p = q
      <3>1. before'[via][p] = published[path] BY <1>1, <2>2
      <3>2. s # q /\ before'[via][s] = before[path][s] BY <1>1, <1>4, <2>2, <3>1
      <3> QED BY <1>1, <1>4, <2>2, <3>1, <3>2 DEF Ordering
    <2>3. CASE via = path /\ p # q
      <3>1. before'[via][p] = before[path][p] BY <1>1, <2>3
      <3>2. s \in published[path] /\ p \in published[path] /\ p \notin before[path][s]
        BY <1>4, <2>3, <3>1 DEF Ordering
      <3>3. s # q BY <1>1, <3>2
      <3> QED BY <1>1, <2>3, <3>2, <3>3
    <2> QED BY <2>1, <2>2, <2>3
  <1>5. Events' = Events BY <1>1 DEF Events
  <1>6. \A k \in DOMAIN Events : Events[k].msg \in Requests /\ Events[k].via \in Paths
    BY EventsTyped
  <1>7. ASSUME NEW i \in DOMAIN Events
        PROVE  /\ Events[i].msg \in published'[Events[i].via]
               /\ \A j \in DOMAIN Events :
                     i < j /\ Events[i].via = Events[j].via =>
                         Events[i].msg \in before'[Events[i].via][Events[j].msg]
    <2>1. Events[i].via \in Paths /\ Events[i].msg \in Requests BY <1>6
    <2>2. Events[i].msg \in published'[Events[i].via] BY <1>1, <2>1 DEF Ordering
    <2>3. ASSUME NEW j \in DOMAIN Events, i < j, Events[i].via = Events[j].via
          PROVE  Events[i].msg \in before'[Events[i].via][Events[j].msg]
      <3>1. Events[j].via \in Paths /\ Events[j].msg \in Requests BY <1>6
      <3>2. /\ Events[j].msg \in published[Events[j].via]
            /\ Events[i].msg \in before[Events[i].via][Events[j].msg]
        BY <2>3 DEF Ordering
      <3>3. ~(Events[j].via = path /\ Events[j].msg = q) BY <1>1, <3>2
      <3> QED BY <1>1, <2>1, <2>3, <3>1, <3>2, <3>3
    <2> QED BY <2>2, <2>3
  <1> QED BY <1>3, <1>4, <1>5, <1>7 DEF Ordering

\* One more event for the viewer.
LEMMA EventAdded ==
    ASSUME IInv, NEW q \in Requests, NEW path \in Paths, Hub!Give(Viewer, q, path)
    PROVE  /\ Len(Events) \in Nat
           /\ DOMAIN Events = 1 .. Len(Events)
           /\ Len(Events') = Len(Events) + 1
           /\ DOMAIN Events' = 1 .. Len(Events) + 1
           /\ \A k \in DOMAIN Events : Events'[k] = Events[k]
           /\ Events'[Len(Events) + 1] = [msg |-> q, via |-> path]
  <1>1. Events \in Seq(Copies) BY DEF IInv, TypeOK, Events
  <1>2. Events' = Append(Events, [msg |-> q, via |-> path])
    BY DEF IInv, TypeOK, Events, Hub!Give
  <1>3. [msg |-> q, via |-> path] \in Copies BY DEF Copies
  <1> HIDE DEF Events
  <1> QED BY <1>1, <1>2, <1>3

LEMMA OrderGive ==
    ASSUME IInv, NEW q \in Requests, NEW path \in Paths, Hub!Give(Viewer, q, path)
    PROVE  Ordering'
  <1> DEFINE n == Len(Events) + 1
  <1>1. /\ q \in published[path]
        /\ \A i \in DOMAIN Events :
              Events[i].via = path => Events[i].msg \in before[path][q]
        /\ UNCHANGED <<published, before>>
    BY DEF Hub!Give, Hub!Follows, Events
  <1>2. /\ n \in Nat /\ DOMAIN Events = 1 .. n - 1
        /\ DOMAIN Events' = 1 .. n
        /\ \A k \in DOMAIN Events : Events'[k] = Events[k]
        /\ Events'[n] = [msg |-> q, via |-> path]
    BY EventAdded
  <1> HIDE DEF n
  <1>3. ASSUME NEW i \in DOMAIN Events'
        PROVE  Events'[i].msg \in published[Events'[i].via]
    <2>1. CASE i = n BY <1>1, <1>2, <2>1
    <2>2. CASE i \in DOMAIN Events BY <1>2, <2>2 DEF IInv, Ordering
    <2> QED BY <1>2, <2>1, <2>2
  <1>4. ASSUME NEW i \in DOMAIN Events', NEW j \in DOMAIN Events', i < j,
               Events'[i].via = Events'[j].via
        PROVE  Events'[i].msg \in before[Events'[i].via][Events'[j].msg]
    <2>1. i \in DOMAIN Events /\ Events'[i] = Events[i] BY <1>2, <1>4
    <2>2. CASE j = n BY <1>1, <1>2, <1>4, <2>1, <2>2
    <2>3. CASE j \in DOMAIN Events
      BY <1>2, <1>4, <2>1, <2>3 DEF IInv, Ordering
    <2> QED BY <1>2, <2>2, <2>3
  <1> QED BY <1>1, <1>3, <1>4 DEF IInv, Ordering

-----------------------------------------------------------------------------
(* What a step leaves of the other parts.                                  *)

LEMMA WritesTyped ==
    ASSUME TypeOK, NEW m \in Messages
    PROVE  /\ Len(wrote[m]) \in Nat
           /\ DOMAIN wrote[m] = 1 .. Len(wrote[m])
           /\ \A i \in DOMAIN wrote[m] : wrote[m][i] \in Requests
           /\ wrote[m] # <<>> => Len(wrote[m]) \in DOMAIN wrote[m] /\ 1 \in DOMAIN wrote[m]
  <1>1. wrote[m] \in Seq(Requests) BY DEF TypeOK
  <1> QED BY <1>1

\* A request keeps what it is once it has acted.
Settled(q) ==
    pc[q] \notin {"idle", "checked"} =>
        /\ pc'[q] \notin {"idle", "checked"}
        /\ op'[q] = op[q]
        /\ message'[q] = message[q]

LEMMA RowKept ==
    ASSUME IInv, NEW m \in Messages, \A q \in Requests : Settled(q),
           content'[m] = content[m], wrote'[m] = wrote[m],
           m \in unborn' <=> m \in unborn
    PROVE  Row(m)'
  <1>1. Row(m) BY DEF IInv
  <1>2. \A i \in DOMAIN wrote[m] : Settled(wrote[m][i]) BY WritesTyped DEF IInv
  <1>3. wrote[m] # <<>> => Len(wrote[m]) \in DOMAIN wrote[m] BY WritesTyped DEF IInv
  <1> QED BY <1>1, <1>2, <1>3 DEF Row, Settled, Last

LEMMA ShowsKept ==
    ASSUME IInv, NEW m \in Messages, \A q \in Requests : Settled(q),
           UNCHANGED <<given, view>>
    PROVE  Shows(m)'
  <1>1. Shows(m) BY DEF IInv
  <1>2. \A k \in DOMAIN Events : Settled(Events[k].msg)
    BY EventsTyped DEF IInv
  <1>3. \A k \in DOMAIN Events : pc[Events[k].msg] \notin {"idle", "checked"}
    BY EventsTyped, PublishedActs DEF IInv, Ordering
  <1>4. Events' = Events BY DEF Events
  <1>5. \A k \in DOMAIN Events :
           message'[Events[k].msg] = message[Events[k].msg]
    BY <1>2, <1>3 DEF Settled
  <1>6. \A k \in DOMAIN Events, o \in Ops : About(k, m, o)' <=> About(k, m, o)
    BY <1>2, <1>3, <1>4 DEF Settled, About
  <1>7. Len(Events) \in Nat /\ DOMAIN Events = 1 .. Len(Events)
    BY EventsTyped DEF IInv
  <1>8. \A k \in DOMAIN Events :
           1 .. k \subseteq DOMAIN Events /\ k .. Len(Events) \subseteq DOMAIN Events
    BY <1>7
  <1>9. "send" \in Ops /\ "delete" \in Ops BY DEF Ops
  <1>10. Appears(m)' BY <1>1, <1>4, <1>6, <1>9 DEF Shows, Appears
  <1>11. Latest(m)'
    BY <1>1, <1>4, <1>5, <1>6, <1>8, <1>9 DEF Shows, Latest
  <1>12. Vanishes(m)' BY <1>1, <1>4, <1>6, <1>8, <1>9 DEF Shows, Vanishes
  <1> QED BY <1>10, <1>11, <1>12 DEF Shows

\* The table forgets no write, and no ID is used again.
Grows ==
    /\ unborn' \subseteq unborn
    /\ untrue \subseteq untrue'
    /\ \A m \in Messages \ unborn :
          /\ content[m] = None => content'[m] = None
          /\ \A i \in DOMAIN wrote[m] :
                i \in DOMAIN wrote'[m] /\ wrote'[m][i] = wrote[m][i]

LEMMA SoundKept ==
    ASSUME IInv, Grows, NEW q \in Requests,
           pc'[q] = pc[q], op'[q] = op[q], message'[q] = message[q],
           q \in published'["local"] <=> q \in published["local"]
    PROVE  Sound(q)'
  <1>1. Sound(q) BY DEF IInv
  <1>2. Acted(q)' <=> Acted(q) BY DEF Acted
  <1>3. CASE pc[q] = "idle"
    BY <1>1, <1>3 DEF Sound, Acted
  <1>4. CASE pc[q] # "idle"
    <2>1. message[q] \in Messages \ unborn BY <1>1, <1>4 DEF Sound
    <2>2. 1 \in DOMAIN wrote[message[q]]
      BY <2>1, WritesTyped DEF IInv, Row
    <2>3. wrote'[message[q]][1] = wrote[message[q]][1] BY <2>1, <2>2 DEF Grows
    <2>4. /\ pc'[q] = "checked" => op'[q] # "send" /\ q \notin published'["local"]
          /\ op'[q] \in Ops /\ message'[q] \in Messages \ unborn'
      BY <1>1, <1>4 DEF Sound, Grows
    <2>5. Acted(q)' /\ op'[q] = "edit" =>
             \/ content'[message'[q]] = None
             \/ \E i \in DOMAIN wrote'[message'[q]] : wrote'[message'[q]][i] = q
      BY <1>1, <1>2, <2>1 DEF Sound, Grows
    <2>6. Acted(q)' /\ op'[q] = "delete" =>
             content'[message'[q]] = None \/ q \in untrue'
      BY <1>1, <1>2, <2>1 DEF Sound, Grows
    <2>7. Acted(q)' /\ op'[q] = "send" => q = wrote'[message'[q]][1]
      BY <1>1, <1>2, <2>3 DEF Sound
    <2> QED BY <1>4, <2>4, <2>5, <2>6, <2>7 DEF Sound
  <1> QED BY <1>3, <1>4

-----------------------------------------------------------------------------
(* The steps of the handlers.                                              *)

\* A step of q that leaves the table.
LEMMA QuietKeeps ==
    ASSUME IInv, TypeOK', Ordering', NEW q \in Requests, Settled(q), Sound(q)',
           UNCHANGED <<content, unborn, wrote, given, view>>, untrue \subseteq untrue',
           \A p \in Requests \ {q} :
              /\ pc'[p] = pc[p] /\ op'[p] = op[p] /\ message'[p] = message[p]
              /\ p \in published'["local"] <=> p \in published["local"]
    PROVE  IInv'
  <1>1. \A p \in Requests : Settled(p) BY DEF Settled
  <1>2. Grows BY DEF Grows
  <1>3. \A m \in Messages : Row(m)' BY <1>1, RowKept
  <1>4. \A m \in Messages : Shows(m)' BY <1>1, ShowsKept
  <1>5. \A p \in Requests : Sound(p)' BY <1>2, SoundKept
  <1> QED BY <1>3, <1>4, <1>5 DEF IInv

\* A step in which q changes the row of m.
LEMMA WriteKeeps ==
    ASSUME IInv, TypeOK', NEW q \in Requests, NEW m \in Messages, NEW o \in Ops,
           pc[q] \in {"idle", "checked"},
           content[m] # None \/ m \in unborn, o = "send" <=> m \in unborn,
           content' = [content EXCEPT ![m] = IF o = "delete" THEN None ELSE q],
           unborn' = unborn \ {m},
           wrote' = [wrote EXCEPT ![m] = Append(@, q)],
           pc' = [pc EXCEPT ![q] = "written"],
           op'[q] = o, message'[q] = m,
           \A p \in Requests \ {q} : op'[p] = op[p] /\ message'[p] = message[p],
           UNCHANGED <<untrue, view, published, before, given>>
    PROVE  IInv'
  <1> DEFINE n == Len(wrote[m])
  <1>1. /\ pc'[q] = "written" /\ \A p \in Requests \ {q} : pc'[p] = pc[p]
        /\ content'[m] = IF o = "delete" THEN None ELSE q
        /\ \A l \in Messages \ {m} : content'[l] = content[l] /\ wrote'[l] = wrote[l]
    BY DEF IInv, TypeOK
  <1>2. /\ n \in Nat /\ DOMAIN wrote[m] = 1 .. n
        /\ DOMAIN wrote'[m] = 1 .. n + 1 /\ Len(wrote'[m]) = n + 1
        /\ \A i \in 1 .. n : wrote'[m][i] = wrote[m][i]
        /\ wrote'[m][n + 1] = q
    <2>1. wrote[m] \in Seq(Requests) BY DEF IInv, TypeOK
    <2>2. wrote'[m] = Append(wrote[m], q) BY DEF IInv, TypeOK
    <2> QED BY <2>1, <2>2
  <1>3. m \in unborn <=> n = 0
    <2>1. wrote[m] = <<>> <=> n = 0
      <3>1. wrote[m] \in Seq(Requests) BY DEF IInv, TypeOK
      <3> QED BY <3>1
    <2> QED BY <2>1 DEF IInv, Row
  <1> HIDE DEF n
  <1>4. \A p \in Requests : Settled(p) BY <1>1 DEF Settled
  <1>5. Ordering' BY OrderKept
  <1>6. \A l \in Messages : Shows(l)' BY <1>4, ShowsKept
  <1>7. ASSUME NEW l \in Messages PROVE Row(l)'
    <2>1. CASE l # m BY <1>1, <1>4, <2>1, RowKept
    <2>2. CASE l = m
      <3>1. /\ l \notin unborn' /\ wrote'[l] # <<>>
            /\ Last(l)' = q
        BY <1>2, <2>2 DEF Last
      <3>2. ASSUME NEW i \in DOMAIN wrote'[l]
            PROVE  /\ message'[wrote'[l][i]] = l
                   /\ pc'[wrote'[l][i]] \notin {"idle", "checked"}
                   /\ op'[wrote'[l][i]] = "send" <=> i = 1
        <4>1. CASE i = n + 1
          BY <1>1, <1>2, <1>3, <2>2, <4>1
        <4>2. CASE i \in 1 .. n
          <5>1. /\ message[wrote[m][i]] = m
                /\ pc[wrote[m][i]] \notin {"idle", "checked"}
                /\ op[wrote[m][i]] = "send" <=> i = 1
            BY <1>2, <4>2 DEF IInv, Row
          <5>2. wrote[m][i] \in Requests BY <1>2, <4>2, WritesTyped DEF IInv
          <5> QED BY <1>2, <1>4, <2>2, <4>2, <5>1, <5>2 DEF Settled
        <4> QED BY <1>2, <2>2, <3>2, <4>1, <4>2
      <3>3. content'[l] # None => content'[l] = Last(l)' BY <1>1, <2>2, <3>1
      <3>4. content'[l] = None => op'[Last(l)'] = "delete"
        BY <1>1, <2>2, <3>1, FeedAssumption
      <3> QED BY <3>1, <3>2, <3>3, <3>4 DEF Row, Last
    <2> QED BY <2>1, <2>2
  <1>8. ASSUME NEW p \in Requests PROVE Sound(p)'
    <2>1. Grows
      <3> SUFFICES ASSUME NEW l \in Messages \ unborn
                   PROVE  /\ content[l] = None => content'[l] = None
                          /\ \A i \in DOMAIN wrote[l] :
                                i \in DOMAIN wrote'[l] /\ wrote'[l][i] = wrote[l][i]
        BY DEF Grows
      <3>1. CASE l = m BY <1>2, <3>1
      <3>2. CASE l # m BY <1>1, <3>2
      <3> QED BY <3>1, <3>2
    <2>2. CASE p # q BY <1>1, <2>1, <2>2, SoundKept
    <2>3. CASE p = q
      <3>1. o = "send" => wrote'[m][1] = q BY <1>2, <1>3
      <3>2. n + 1 \in DOMAIN wrote'[m] /\ wrote'[m][n + 1] = q BY <1>2
      <3> QED BY <1>1, <2>3, <3>1, <3>2 DEF Sound
    <2> QED BY <2>2, <2>3
  <1> QED BY <1>5, <1>6, <1>7, <1>8 DEF IInv

LEMMA SendKeeps ==
    ASSUME IInv, TypeOK', NEW q \in Requests, NEW m \in Messages, sendMessage(q, m)
    PROVE  IInv'
  <1>1. /\ pc[q] = "idle" /\ m \in unborn
        /\ op' = [op EXCEPT ![q] = "send"] /\ message' = [message EXCEPT ![q] = m]
        /\ content' = [content EXCEPT ![m] = q] /\ unborn' = unborn \ {m}
        /\ pc' = [pc EXCEPT ![q] = "written"]
        /\ wrote' = [wrote EXCEPT ![m] = Append(@, q)]
        /\ UNCHANGED <<untrue, view, published, before, given>>
    BY DEF sendMessage, Starts, Written, Hub!Call
  <1>2. /\ op'[q] = "send" /\ message'[q] = m
        /\ \A p \in Requests \ {q} : op'[p] = op[p] /\ message'[p] = message[p]
    BY <1>1 DEF IInv, TypeOK
  <1>3. "send" \in Ops BY DEF Ops
  <1> QED BY <1>1, <1>2, <1>3, WriteKeeps

LEMMA CheckKeeps ==
    ASSUME IInv, TypeOK', NEW q \in Requests, NEW m \in Messages,
           NEW o \in {"edit", "delete"}, Check(q, o, m)
    PROVE  IInv'
  <1>1. /\ pc[q] = "idle" /\ content[m] # None
        /\ op' = [op EXCEPT ![q] = o] /\ message' = [message EXCEPT ![q] = m]
        /\ pc' = [pc EXCEPT ![q] = "checked"]
        /\ UNCHANGED <<content, unborn, wrote, untrue, view, published, before, given>>
    BY DEF Check, Starts, Hub!Call
  <1>2. /\ pc'[q] = "checked" /\ op'[q] = o /\ message'[q] = m
        /\ \A p \in Requests \ {q} :
              pc'[p] = pc[p] /\ op'[p] = op[p] /\ message'[p] = message[p]
    BY <1>1 DEF IInv, TypeOK
  <1>3. m \notin unborn BY <1>1 DEF IInv, Row
  <1>4. q \notin published["local"] BY <1>1 DEF IInv, Sound
  <1>5. Sound(q)' BY <1>1, <1>2, <1>3, <1>4 DEF Sound, Acted, Ops
  <1>6. Settled(q) BY <1>1 DEF Settled
  <1>7. Ordering' BY <1>1, OrderKept
  <1> QED BY <1>1, <1>2, <1>5, <1>6, <1>7, QuietKeeps

\* A statement that changes nothing, or a step towards the publication.
LEMMA GoesOn ==
    ASSUME IInv, TypeOK', Ordering', NEW q \in Requests,
           pc[q] # "idle", NEW s \in {"written", "local", "done"},
           pc' = [pc EXCEPT ![q] = s],
           UNCHANGED <<content, unborn, op, message, wrote, given, view>>,
           untrue \subseteq untrue',
           Acted(q)' => \/ Acted(q)
                        \/ op[q] # "send" /\ content[message[q]] = None
                        \/ op[q] = "delete" /\ q \in untrue',
           \A p \in Requests \ {q} :
              p \in published'["local"] <=> p \in published["local"]
    PROVE  IInv'
  <1>1. pc'[q] = s /\ \A p \in Requests \ {q} : pc'[p] = pc[p]
    BY DEF IInv, TypeOK
  <1>2. Settled(q) BY <1>1 DEF Settled
  <1>3. Sound(q) BY DEF IInv
  <1>4. message[q] \in Messages \ unborn /\ op[q] \in Ops BY <1>3 DEF Sound
  <1>5. Sound(q)' BY <1>1, <1>3, <1>4 DEF Sound, Acted
  <1> QED BY <1>1, <1>2, <1>5, QuietKeeps

LEMMA StatementKeeps ==
    ASSUME IInv, TypeOK', NEW q \in Requests,
           editMessage(q) \/ EditFails(q) \/ deleteMessage(q) \/ DeleteFails(q)
    PROVE  IInv'
  <1>1. /\ pc[q] = "checked" /\ UNCHANGED <<unborn, op, message, view, hubVars>>
        /\ untrue \subseteq untrue'
    BY DEF editMessage, EditFails, deleteMessage, DeleteFails
  <1>2. UNCHANGED <<published, before, given>> BY <1>1 DEF hubVars
  <1>3. /\ op[q] \in Ops /\ message[q] \in Messages \ unborn
        /\ op[q] # "send" /\ q \notin published["local"]
    BY <1>1 DEF IInv, Sound
  <1>4. Ordering' BY <1>2, OrderKept
  <1>5. CASE editMessage(q) /\ content[message[q]] # None
    <2>1. /\ content' = [content EXCEPT ![message[q]] = q]
          /\ pc' = [pc EXCEPT ![q] = "written"] /\ op[q] = "edit"
          /\ wrote' = [wrote EXCEPT ![message[q]] = Append(@, q)]
          /\ unborn' = unborn \ {message[q]} /\ UNCHANGED untrue
      BY <1>3, <1>5 DEF editMessage, Written, NewContent
    <2> QED BY <1>1, <1>2, <1>3, <1>5, <2>1, WriteKeeps
  <1>6. CASE deleteMessage(q) /\ content[message[q]] # None
    <2>1. /\ content' = [content EXCEPT ![message[q]] = None]
          /\ pc' = [pc EXCEPT ![q] = "written"] /\ op[q] = "delete"
          /\ wrote' = [wrote EXCEPT ![message[q]] = Append(@, q)]
          /\ unborn' = unborn \ {message[q]} /\ UNCHANGED untrue
      BY <1>3, <1>6 DEF deleteMessage, Written
    <2> QED BY <1>1, <1>2, <1>3, <1>6, <2>1, WriteKeeps
  <1>7. CASE (editMessage(q) \/ deleteMessage(q)) /\ content[message[q]] = None
    <2>1. /\ content' = content /\ wrote' = wrote
          /\ pc' = [pc EXCEPT ![q] = "written"]
      BY <1>7 DEF IInv, TypeOK, editMessage, deleteMessage, Written
    <2> QED BY <1>1, <1>2, <1>3, <1>4, <1>7, <2>1, GoesOn
  <1>8. CASE EditFails(q)
    <2>1. pc' = [pc EXCEPT ![q] = "done"] /\ UNCHANGED <<content, wrote, untrue>>
      BY <1>8 DEF EditFails, AnswerError
    <2>2. ~Acted(q)' BY <1>2, <1>3, <2>1 DEF IInv, TypeOK, Acted
    <2> QED BY <1>1, <1>2, <1>4, <2>1, <2>2, GoesOn
  <1>9. CASE DeleteFails(q)
    <2>1. /\ pc' = [pc EXCEPT ![q] = "written"] /\ UNCHANGED <<content, wrote>>
          /\ op[q] = "delete" /\ q \in untrue'
      BY <1>9 DEF DeleteFails, Written
    <2> QED BY <1>1, <1>2, <1>4, <2>1, GoesOn
  <1> QED BY <1>5, <1>6, <1>7, <1>8, <1>9

LEMMA PublishKeeps ==
    ASSUME IInv, TypeOK', NEW q \in Requests, EnqueueLocal(q) \/ PublishRedis(q)
    PROVE  IInv'
  <1>1. /\ pc[q] \in {"written", "local"}
        /\ \E s \in {"local", "done"} : pc' = [pc EXCEPT ![q] = s]
        /\ UNCHANGED <<content, unborn, op, message, wrote, untrue, view>>
    BY DEF EnqueueLocal, PublishRedis
  <1>2. (\E path \in Paths : Hub!Publish(q, path)) \/ UNCHANGED hubVars
    BY DEF EnqueueLocal, PublishRedis, Paths, Hub!Paths
  <1>3. Ordering' BY <1>2, OrderPublish, OrderKept DEF hubVars
  <1>4. /\ UNCHANGED given
        /\ \A p \in Requests \ {q} :
              p \in published'["local"] <=> p \in published["local"]
    <2>1. ASSUME NEW path \in Paths, Hub!Publish(q, path)
          PROVE  /\ UNCHANGED given
                 /\ \A p \in Requests \ {q} :
                       p \in published'["local"] <=> p \in published["local"]
      <3>1. UNCHANGED given /\ published' = [published EXCEPT ![path] = @ \cup {q}]
        BY <2>1 DEF Hub!Publish
      <3>2. published \in [Paths -> SUBSET Requests] BY DEF IInv, TypeOK
      <3>3. published'["local"] \in {published["local"], published["local"] \cup {q}}
        BY <3>1, <3>2 DEF Paths, Hub!Paths
      <3> QED BY <3>1, <3>3
    <2> QED BY <1>2, <2>1 DEF hubVars
  <1>5. Acted(q) BY <1>1 DEF Acted
  <1> QED BY <1>1, <1>3, <1>4, <1>5, GoesOn

LEMMA CrashKeeps ==
    ASSUME IInv, TypeOK', NEW q \in Requests, Crash(q)
    PROVE  IInv'
  <1>1. /\ pc[q] # "idle" /\ pc' = [pc EXCEPT ![q] = "done"]
        /\ UNCHANGED <<content, unborn, op, message, wrote, untrue, view,
                       published, before, given>>
    BY DEF Crash, hubVars
  <1>2. Acted(q)' => Acted(q) BY <1>1 DEF Acted, IInv, TypeOK
  <1>3. Ordering' BY <1>1, OrderKept
  <1> QED BY <1>1, <1>2, <1>3, GoesOn

-----------------------------------------------------------------------------
(* The viewer.                                                             *)

LEMMA ReceiveShows ==
    ASSUME IInv, NEW q \in Requests, NEW path \in Paths, Receive(q, path),
           NEW m \in Messages
    PROVE  Shows(m)'
  <1>0. PICK n : n = Len(Events) + 1 OBVIOUS
  <1>1. /\ q \in published[path] /\ Hub!Give(Viewer, q, path)
        /\ view' = [view EXCEPT ![message[q]] = Shown(q, @)]
        /\ UNCHANGED <<op, message>>
    BY DEF Receive, Hub!Give
  <1>2. /\ n \in Nat /\ DOMAIN Events = 1 .. n - 1
        /\ DOMAIN Events' = 1 .. n /\ Len(Events') = n /\ Len(Events) = n - 1
        /\ \A k \in DOMAIN Events : Events'[k] = Events[k]
        /\ Events'[n] = [msg |-> q, via |-> path]
        /\ Events'[n].msg = q
    BY <1>0, <1>1, EventAdded
  <1>3. op[q] \in Ops /\ message[q] \in Messages BY <1>1, PublishedActs
  <1>4. \A k \in DOMAIN Events, o \in Ops : About(k, m, o)' <=> About(k, m, o)
    BY <1>1, <1>2 DEF About
  <1>5. \A o \in Ops : About(n, m, o)' <=> message[q] = m /\ op[q] = o
    BY <1>1, <1>2 DEF About
  <1>6. "send" \in Ops /\ "delete" \in Ops BY DEF Ops
  <1>7. Appears(m) /\ Latest(m) /\ Vanishes(m) BY DEF IInv, Shows
  <1>8. q # None BY FeedAssumption
  <1>9. CASE message[q] # m
    <2>1. view'[m] = view[m] BY <1>1, <1>9 DEF IInv, TypeOK
    <2>2. \A k \in DOMAIN Events', o \in Ops :
             About(k, m, o)' => k \in DOMAIN Events /\ About(k, m, o)
      BY <1>2, <1>4, <1>5, <1>9
    <2>3. Appears(m)' BY <1>2, <1>4, <1>6, <1>7, <2>1, <2>2 DEF Appears
    <2>4. Latest(m)'
      <3> SUFFICES ASSUME NEW k \in DOMAIN Events',
                          message'[Events'[k].msg] = m,
                          \E i \in 1 .. k : About(i, m, "send")',
                          ~ \E i \in DOMAIN Events' : About(i, m, "delete")',
                          \A j \in k .. Len(Events') :
                             message'[Events'[j].msg] = m => Events'[j].msg = Events'[k].msg
                   PROVE  view'[m] = Events'[k].msg
        BY DEF Latest
      <3>1. k \in DOMAIN Events /\ Events'[k] = Events[k] BY <1>1, <1>2, <1>9
      <3>2. \E i \in 1 .. k : About(i, m, "send") BY <1>2, <1>6, <2>2, <3>1
      <3>3. ~ \E i \in DOMAIN Events : About(i, m, "delete") BY <1>2, <1>4, <1>6
      <3>4. \A j \in k .. Len(Events) :
               message[Events[j].msg] = m => Events[j].msg = Events[k].msg
        BY <1>1, <1>2, <3>1
      <3>5. message[Events[k].msg] = m BY <1>1, <3>1
      <3> QED BY <1>7, <2>1, <3>1, <3>2, <3>3, <3>4, <3>5 DEF Latest
    <2>5. Vanishes(m)'
      <3> SUFFICES ASSUME view'[m] # None, NEW k \in DOMAIN Events',
                          About(k, m, "delete")'
                   PROVE  \E j \in k .. Len(Events') : About(j, m, "send")'
        BY DEF Vanishes
      <3>1. k \in DOMAIN Events /\ About(k, m, "delete") BY <1>6, <2>2
      <3>2. PICK j \in k .. Len(Events) : About(j, m, "send")
        BY <1>7, <2>1, <3>1 DEF Vanishes
      <3> QED BY <1>2, <1>4, <1>6, <3>1, <3>2
    <2> QED BY <2>3, <2>4, <2>5 DEF Shows
  <1>10. CASE message[q] = m
    <2>1. view'[m] = Shown(q, view[m]) BY <1>1, <1>3, <1>10 DEF IInv, TypeOK
    <2>2. /\ op[q] = "send" => view'[m] = q
          /\ op[q] = "edit" => view'[m] = IF view[m] = None THEN None ELSE q
          /\ op[q] = "delete" => view'[m] = None
      BY <2>1, ShownCases
    <2>3. /\ op[q] = "send" => About(n, m, "send")'
          /\ op[q] = "delete" => About(n, m, "delete")'
      BY <1>5, <1>6, <1>10
    <2>4. op[q] \in {"send", "edit", "delete"} BY <1>3 DEF Ops
    <2>5. n \in DOMAIN Events' BY <1>2
    <2>6. Appears(m)'
      <3> SUFFICES ASSUME ~ \E k \in DOMAIN Events' : About(k, m, "delete")',
                          \E k \in DOMAIN Events' : About(k, m, "send")',
                          op[q] = "edit"
                   PROVE  view'[m] # None
        BY <1>8, <2>2, <2>3, <2>4, <2>5 DEF Appears
      <3>1. \E k \in DOMAIN Events : About(k, m, "send")
        BY <1>2, <1>4, <1>5, <1>6
      <3>2. ~ \E k \in DOMAIN Events : About(k, m, "delete")
        BY <1>2, <1>4, <1>6
      <3> QED BY <1>7, <1>8, <2>2, <3>1, <3>2 DEF Appears
    <2>7. Latest(m)'
      <3> SUFFICES ASSUME NEW k \in DOMAIN Events',
                          \E i \in 1 .. k : About(i, m, "send")',
                          ~ \E i \in DOMAIN Events' : About(i, m, "delete")',
                          \A j \in k .. Len(Events') :
                             message'[Events'[j].msg] = m => Events'[j].msg = Events'[k].msg
                   PROVE  view'[m] = Events'[k].msg
        BY DEF Latest
      <3>1. n \in k .. Len(Events') BY <1>2
      <3>2. Events'[k].msg = q BY <1>1, <1>2, <1>10, <3>1
      <3>3. view'[m] # None
        <4>1. 1 .. k \subseteq DOMAIN Events' BY <1>2
        <4> QED BY <2>6, <4>1 DEF Appears
      <3> QED BY <2>2, <2>4, <3>2, <3>3
    <2>8. Vanishes(m)'
      <3> SUFFICES ASSUME view'[m] # None, NEW k \in DOMAIN Events',
                          About(k, m, "delete")'
                   PROVE  \E j \in k .. Len(Events') : About(j, m, "send")'
        BY DEF Vanishes
      <3>1. CASE op[q] = "send"
        <4>1. n \in k .. Len(Events') BY <1>2
        <4> QED BY <2>3, <3>1, <4>1
      <3>2. CASE op[q] = "edit"
        <4>1. view[m] # None BY <2>2, <3>2
        <4>2. k \in DOMAIN Events BY <1>2, <1>5, <1>6, <3>2
        <4>3. PICK j \in k .. Len(Events) : About(j, m, "send")
          BY <1>4, <1>6, <1>7, <4>1, <4>2 DEF Vanishes
        <4>4. j \in DOMAIN Events /\ j \in k .. Len(Events') BY <1>2, <4>2
        <4>5. About(j, m, "send")' BY <1>4, <1>6, <4>3, <4>4
        <4> QED BY <4>4, <4>5
      <3> QED BY <2>2, <2>4, <3>1, <3>2
    <2> QED BY <2>6, <2>7, <2>8 DEF Shows
  <1> QED BY <1>9, <1>10

LEMMA ReceiveKeeps ==
    ASSUME IInv, TypeOK', NEW q \in Requests, NEW path \in Paths, Receive(q, path)
    PROVE  IInv'
  <1>1. /\ Hub!Give(Viewer, q, path)
        /\ UNCHANGED <<content, unborn, pc, op, message, wrote, untrue, published>>
    BY DEF Receive, Hub!Give
  <1>2. Ordering' BY <1>1, OrderGive
  <1>3. \A p \in Requests : Settled(p) BY <1>1 DEF Settled
  <1>4. \A m \in Messages : Row(m)' BY <1>1, <1>3, RowKept
  <1>5. \A m \in Messages : Shows(m)' BY ReceiveShows
  <1>6. Grows BY <1>1 DEF Grows
  <1>7. \A p \in Requests : Sound(p)' BY <1>1, <1>6, SoundKept
  <1> QED BY <1>2, <1>4, <1>5, <1>7 DEF IInv

-----------------------------------------------------------------------------
(* What the viewer shows in the end.                                       *)

\* Along one path, events come in the order of before, and each only once.
LEMMA InOneOrder ==
    ASSUME IInv, NEW i \in DOMAIN Events, NEW j \in DOMAIN Events, i < j,
           Events[i].via = Events[j].via
    PROVE  /\ Events[i].msg # Events[j].msg
           /\ Events[j].msg \notin before[Events[i].via][Events[i].msg]
  <1>1. Events[i].msg \in before[Events[i].via][Events[j].msg]
    BY DEF IInv, Ordering
  <1>2. /\ Events[i].msg \in Requests /\ Events[j].msg \in Requests
        /\ Events[i].via \in Paths
    BY EventsTyped DEF IInv
  <1> QED BY <1>1, <1>2 DEF IInv, Ordering

\* The event of a change that is no deletion is one of those the table knows of.
LEMMA EventOf ==
    ASSUME IInv, NEW k \in DOMAIN Events, NEW m \in Messages, message[Events[k].msg] = m
    PROVE  /\ op[Events[k].msg] \in Ops
           /\ op[Events[k].msg] = "send" => Events[k].msg = wrote[m][1]
           /\ op[Events[k].msg] = "edit" =>
                 \/ content[m] = None
                 \/ \E i \in DOMAIN wrote[m] : wrote[m][i] = Events[k].msg
           /\ op[Events[k].msg] = "delete" =>
                 content[m] = None \/ Events[k].msg \in untrue
  <1>1. Events[k].msg \in Requests /\ Events[k].via \in Paths
    BY EventsTyped DEF IInv
  <1>2. Events[k].msg \in published[Events[k].via] BY DEF IInv, Ordering
  <1>3. Acted(Events[k].msg) /\ op[Events[k].msg] \in Ops BY <1>1, <1>2, PublishedActs
  <1> QED BY <1>1, <1>3 DEF IInv, Sound

LEMMA ViewFollows == IInv => ViewAgrees
  <1> SUFFICES ASSUME IInv, NEW m \in Messages \ unborn, NEW path \in Paths,
                      Complete(m, path), Undisturbed(m, path),
                      \A q \in untrue : message[q] # m
               PROVE  view[m] = content[m]
    BY DEF ViewAgrees
  <1>1. PICK n : n = Len(wrote[m]) OBVIOUS
  <1>2. n \in DOMAIN wrote[m] /\ 1 \in DOMAIN wrote[m] /\ n \in Nat
        /\ DOMAIN wrote[m] = 1 .. n
    BY <1>1, WritesTyped DEF IInv, Row
  <1>3. /\ Len(Events) \in Nat /\ DOMAIN Events = 1 .. Len(Events)
        /\ \A k \in DOMAIN Events : Events[k].msg \in Requests
    BY EventsTyped DEF IInv
  <1>4. /\ \A i \in 1 .. n : message[wrote[m][i]] = m
        /\ \A i \in 1 .. n : op[wrote[m][i]] = "send" <=> i = 1
        /\ content[m] # None => content[m] = wrote[m][n]
        /\ content[m] = None => op[wrote[m][n]] = "delete"
    BY <1>1, <1>2 DEF IInv, Row, Last
  <1>5. PICK k \in DOMAIN Events : Events[k] = Copy(wrote[m][n], path)
    BY <1>2 DEF Complete, Events
  <1>6. Events[k].msg = wrote[m][n] /\ Events[k].via = path BY <1>5 DEF Copy
  \* No older change of m comes after the newest.
  <1>7. ASSUME NEW i \in 1 .. n - 1, NEW j \in k .. Len(Events),
               Events[j].msg = wrote[m][i]
        PROVE  Events[j].msg = Events[k].msg
    <2>1. j \in DOMAIN Events BY <1>3
    <2>2. PICK l \in j .. Len(Events) : Events[l] = Copy(wrote[m][n], path)
      BY <1>1, <1>7, <2>1 DEF Undisturbed, Events
    <2>3. l \in DOMAIN Events /\ Events[l].msg = Events[k].msg
          /\ Events[l].via = Events[k].via
      BY <1>3, <1>6, <2>1, <2>2 DEF Copy
    <2>4. ~(k < l) BY <2>3, InOneOrder
    <2>5. l = j BY <1>3, <2>1, <2>2, <2>3, <2>4
    <2> QED BY <2>3, <2>5
  <1>8. CASE content[m] # None
    <2>1. ~ \E j \in DOMAIN Events : About(j, m, "delete")
      BY <1>8, EventOf DEF About
    <2>2. \E i \in 1 .. k : About(i, m, "send")
      <3>1. CASE n = 1
        <4>1. k \in 1 .. k BY <1>3
        <4> QED BY <1>2, <1>4, <1>6, <3>1, <4>1 DEF About
      <3>2. CASE n # 1
        <4>1. PICK i \in DOMAIN Events : Events[i] = Copy(wrote[m][1], path)
          BY <1>2 DEF Complete, Events
        <4>2. Events[i].msg = wrote[m][1] /\ Events[i].via = path
          BY <4>1 DEF Copy
        <4>3. wrote[m][1] \in before[path][wrote[m][n]]
          <5>1. 1 \in 1 .. n - 1 BY <1>2, <3>2
          <5> QED BY <1>2, <5>1 DEF Complete
        <4>4. wrote[m][n] \notin before[path][wrote[m][1]]
          <5>1. wrote[m][n] \in Requests /\ wrote[m][1] \in Requests
            BY <1>2, WritesTyped DEF IInv
          <5> QED BY <4>3, <5>1 DEF IInv, Ordering
        <4>5. ~(k < i)
          <5>1. k < i => Events[k].msg \in before[path][Events[i].msg]
            BY <1>6, <4>2 DEF IInv, Ordering
          <5> QED BY <1>6, <4>2, <4>4, <5>1
        <4>6. i \in 1 .. k BY <1>3, <4>5
        <4> QED BY <1>2, <1>4, <4>2, <4>6 DEF About
      <3> QED BY <3>1, <3>2
    <2>3. ASSUME NEW j \in k .. Len(Events), message[Events[j].msg] = m
          PROVE  Events[j].msg = Events[k].msg
      <3>1. j \in DOMAIN Events BY <1>3
      <3>2. op[Events[j].msg] \in {"send", "edit"}
        BY <1>8, <2>3, <3>1, EventOf DEF Ops
      <3>3. PICK i \in 1 .. n : wrote[m][i] = Events[j].msg
        BY <1>2, <1>8, <2>3, <3>1, <3>2, EventOf
      <3>4. CASE i = n BY <1>6, <3>3, <3>4
      <3>5. CASE i # n
        <4>1. i \in 1 .. n - 1 BY <1>2, <3>5
        <4> QED BY <1>7, <3>3, <4>1
      <3> QED BY <3>4, <3>5
    <2>4. message[Events[k].msg] = m BY <1>2, <1>4, <1>6
    <2>5. view[m] = Events[k].msg
      BY <2>1, <2>2, <2>3, <2>4 DEF IInv, Shows, Latest
    <2> QED BY <1>4, <1>6, <1>8, <2>5
  <1>9. CASE content[m] = None
    <2> SUFFICES ASSUME view[m] # None PROVE FALSE BY <1>9
    <2>1. op[wrote[m][n]] = "delete" BY <1>4, <1>9
    <2>2. About(k, m, "delete") BY <1>2, <1>4, <1>6, <2>1 DEF About
    <2>3. PICK j \in k .. Len(Events) : About(j, m, "send")
      BY <2>2 DEF IInv, Shows, Vanishes
    <2>4. j \in DOMAIN Events BY <1>3
    <2>5. Events[j].msg = wrote[m][1] /\ op[Events[j].msg] = "send"
      BY <2>3, <2>4, EventOf DEF About
    <2>6. 1 \in 1 .. n - 1
      <3>1. n # 1 BY <1>2, <1>4, <2>1
      <3> QED BY <1>2, <3>1
    <2>7. Events[j].msg = Events[k].msg BY <1>7, <2>5, <2>6
    <2> QED BY <1>6, <2>1, <2>5, <2>7
  <1> QED BY <1>8, <1>9

-----------------------------------------------------------------------------
(* The theorems.                                                           *)

LEMMA StepInv == IInv /\ [Next]_vars => IInv'
  <1> SUFFICES ASSUME IInv, [Next]_vars PROVE IInv' OBVIOUS
  <1>1. TypeOK' BY TypeStep
  <1>2. CASE UNCHANGED vars \/ Subscribe
    <2> USE <1>2 DEF vars, hubVars, Subscribe, Hub!Resubscribe
    <2>1. Ordering' BY OrderKept
    <2>2. \A p \in Requests : Settled(p) BY DEF Settled
    <2>3. \A m \in Messages : Row(m)' /\ Shows(m)' BY <2>2, RowKept, ShowsKept
    <2>4. Grows BY DEF Grows
    <2>5. \A p \in Requests : Sound(p)' BY <2>4, SoundKept
    <2> QED BY <1>1, <2>1, <2>3, <2>5 DEF IInv
  <1>3. ASSUME NEW q \in Requests, NEW m \in Messages,
               sendMessage(q, m) \/ Check(q, "edit", m) \/ Check(q, "delete", m)
        PROVE  IInv'
    BY <1>1, <1>3, SendKeeps, CheckKeeps
  <1> QED
    BY <1>1, <1>2, <1>3, StatementKeeps, PublishKeeps, CrashKeeps, ReceiveKeeps
       DEF Next

LEMMA Invariance == Spec => []IInv
  BY InitInv, StepInv, PTL DEF Spec

\* What a step of the feed does to the hub is a step of Delivery.
LEMMA StepDelivers == [Next]_vars => [Hub!Next]_(Hub!vars)
  <1> SUFFICES ASSUME [Next]_vars PROVE [Hub!Next]_(Hub!vars) OBVIOUS
  <1>1. CASE UNCHANGED hubVars BY <1>1 DEF hubVars, Hub!vars
  <1>2. ASSUME NEW q \in Requests, NEW r \in Replicas, Hub!Call(q, r, Channel)
        PROVE  Hub!Next
    BY <1>2 DEF Hub!Next
  <1>3. ASSUME NEW q \in Requests, NEW m \in Messages,
               sendMessage(q, m) \/ Check(q, "edit", m) \/ Check(q, "delete", m)
        PROVE  Hub!Next
    BY <1>2, <1>3 DEF sendMessage, Check, Starts
  <1>4. ASSUME NEW q \in Requests, EnqueueLocal(q) \/ PublishRedis(q)
        PROVE  Hub!Next \/ UNCHANGED hubVars
    BY <1>4 DEF EnqueueLocal, PublishRedis, Hub!Next, Hub!Paths
  <1>5. ASSUME NEW q \in Requests, NEW path \in Paths, Receive(q, path)
        PROVE  Hub!Next
    BY <1>5 DEF Receive, Paths, Hub!Next
  <1>6. ASSUME NEW q \in Requests,
               \/ editMessage(q) \/ EditFails(q)
               \/ deleteMessage(q) \/ DeleteFails(q)
               \/ Crash(q)
        PROVE  UNCHANGED hubVars
    BY <1>6 DEF editMessage, EditFails, deleteMessage, DeleteFails, Crash
  <1>7. Subscribe => Hub!Next BY DEF Subscribe, Hub!Next
  <1>8. UNCHANGED vars => UNCHANGED hubVars BY DEF vars
  <1> QED BY <1>1, <1>3, <1>4, <1>5, <1>6, <1>7, <1>8 DEF Next

\* Every variable of the feed and of the hub it publishes on keeps its type.
THEOREM TypeCorrect == Spec => []TypeOK
  <1>1. IInv => TypeOK BY DEF IInv
  <1> QED BY Invariance, <1>1, PTL

\* Whoever was given every change of a message along one path shows what the table
\* has, but for the two cases ViewAgrees names.
THEOREM ViewEndsTrue == Spec => []ViewAgrees
  BY Invariance, ViewFollows, PTL

\* The handlers use the hub in no other way than Delivery allows, so that whatever
\* implements Delivery can stand below the feed.
THEOREM UsesDelivery == Spec => Hub!Spec
  <1>1. Init => Hub!Init BY DEF Init
  <1> QED BY <1>1, StepDelivers, PTL DEF Spec, Hub!Spec
=============================================================================
