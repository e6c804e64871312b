-------------------------- MODULE Channels_proofs --------------------------
(***************************************************************************)
(* Proofs about Channels, for any numbers of rows and requests.            *)
(*                                                                         *)
(* The foreign keys hold because of the locks, so the invariant says what  *)
(* a lock is worth (LocksHold): its row is there, and nobody else has a    *)
(* lock that conflicts with it.  What is deleted stays so because a row    *)
(* goes through its states in one direction, which rests on Lifecycle      *)
(* (only the request that chose the ID of a row inserts it) and, for the   *)
(* rows that acks insert, on the deletion of their channel.                *)
(***************************************************************************)
EXTENDS Channels, FiniteSetTheorems, WellFoundedInduction, TLAPS

\* What a request is about fits what it asks for, and it is not yet answered
\* while it has statements left.
Sound(r) ==
    /\ op[r] = None => todo[r] = {} /\ fields[r] = {} /\ answer[r] = None
    /\ op[r] \in {"createChannel", "updateChannel", "deleteChannel"}
          => row[r] \in Channels
    /\ op[r] \in {"createCategory", "deleteCategory"} => row[r] \in Categories
    /\ op[r] = "deleteServer" => row[r] = Server
    /\ op[r] = "ackMessages" => row[r] \in Pointers /\ parent[r] \in Messages
    /\ op[r] # None => row[r] \in Rows
    /\ op[r] = "createChannel" => parent[r] \in Categories \cup {None}
    /\ op[r] \in Creates \cup Deletes \cup {"ackMessages"} => fields[r] = {"row"}
    /\ op[r] \in Updates => "row" \notin fields[r]
    /\ "category" \in fields[r] =>
          op[r] = "updateChannel" /\ parent[r] \in Categories /\ "icon" \notin fields[r]
    /\ todo[r] \subseteq fields[r]
    /\ failed[r] \subseteq fields[r] \ todo[r]
    /\ todo[r] # {} => answer[r] = None
    /\ todo[r] = {} => held[r] = {}
    /\ answer[r] = "deleted" => op[r] \in Deletes
    /\ \A q \in earlier[r] : answer[q] # None
    /\ r \notin earlier[r]

\* The row of an INSERT does not exist before it, every other row was seen.
Lifecycle(r) ==
    /\ op[r] \in Creates /\ todo[r] # {} => state[row[r]] = "unused"
    /\ op[r] \in Updates \cup Deletes => state[row[r]] # "unused"

\* The row of a lock is there, or is being inserted by an ack.
Worth(l) == Live(l[1]) \/ (l[1] \in Pointers /\ l[2] = "update")

LocksHold ==
    /\ \A r \in Requests : \A l \in held[r] : Worth(l)
    /\ \A q, r \in Requests : \A k \in held[q], l \in held[r] :
          q # r /\ k[1] = l[1] => ~Conflict(k[2], l[2])

\* What a request has executed without an error is newer than what was answered
\* when it came.
Newest(r) ==
    \A f \in Fields :
        /\ op[r] \in Updates
        /\ f \in fields[r] \ (todo[r] \cup failed[r])
        /\ Live(row[r])
        => writer[<<row[r], f>>] \in Requests \ earlier[r]

IInv ==
    /\ TypeOK
    /\ \A r \in Requests : Sound(r) /\ Lifecycle(r) /\ Newest(r)
    /\ LocksHold
    /\ RowsBelong
    /\ DeletesAreWhole

-----------------------------------------------------------------------------
(* The initial states.                                                     *)

LEMMA InitInv == Init => IInv
  <1> USE DEF Live, Rows, Statements, Fields
  <1> SUFFICES ASSUME Init PROVE IInv OBVIOUS
  <1>1. PICK S \in SUBSET (Rows \ {Server}) :
           /\ \A x \in S \cap (Messages \cup Pointers) : channelOf[x] \in S
           /\ state = [x \in Rows |->
                          IF x \in S \cup {Server} THEN "live" ELSE "unused"]
           /\ category \in [Channels -> (Categories \cap S) \cup {None}]
           /\ \A ch \in Channels \ S : category[ch] = None
           /\ lastRead \in [Pointers -> (Messages \cap S) \cup {None}]
           /\ \A p \in Pointers \ S : lastRead[p] = None
    BY DEF Init
  <1>2. TypeOK
    <2>1. state \in [Rows -> {"unused", "live", "gone"}] BY <1>1
    <2>2. category \in [Channels -> Categories \cup {None}]
          /\ lastRead \in [Pointers -> Messages \cup {None}]
      BY <1>1
    <2>3. \A q, r \in Requests :
             q # r /\ {op[q], op[r]} \subseteq Creates => row[q] # row[r]
      BY ChannelsAssumption DEF Init, Operations, Creates
    <2> QED BY <2>1, <2>2, <2>3 DEF TypeOK, Init
  <1>3. \A r \in Requests : Sound(r) /\ Lifecycle(r) /\ Newest(r)
    <2> SUFFICES ASSUME NEW r \in Requests
                 PROVE Sound(r) /\ Lifecycle(r) /\ Newest(r)
      OBVIOUS
    <2>1. op[r] = None /\ None \notin Operations /\ None # "deleted"
      BY ChannelsAssumption DEF Init, Answers
    <2>2. Sound(r) BY <2>1 DEF Sound, Init, Operations, Creates, Updates, Deletes
    <2>3. Lifecycle(r) BY <2>1 DEF Lifecycle, Init, Operations
    <2>4. Newest(r) BY <2>1 DEF Newest, Init, Operations
    <2> QED BY <2>2, <2>3, <2>4
  <1>4. LocksHold BY DEF LocksHold, Init
  <1>5. RowsBelong BY <1>1, ChannelsAssumption DEF RowsBelong
  <1>6. DeletesAreWhole
    <2>1. \A x \in Rows : state[x] # "gone" BY <1>1
    <2>2. \A r \in Requests : answer[r] # "deleted"
      BY ChannelsAssumption DEF Init, Answers
    <2> QED BY <2>1, <2>2 DEF DeletesAreWhole
  <1> QED BY <1>2, <1>3, <1>4, <1>5, <1>6 DEF IInv

-----------------------------------------------------------------------------
(* A new request.                                                          *)

\* What the handlers ask for.
Asks(r, o, x, c, F) ==
    /\ Ask(r, o, x, c, F)
    /\ o \in Creates => Fresh(x)
    /\ o \in Updates \cup Deletes => Seen(x)
    /\ o \in {"createChannel", "updateChannel", "deleteChannel"} => x \in Channels
    /\ o \in {"createCategory", "updateCategory", "deleteCategory"} =>
          x \in Categories
    /\ o \in {"updateServer", "deleteServer"} => x = Server
    /\ o = "ackMessages" => x \in Pointers /\ c \in Messages
    /\ o = "createChannel" => c \in Categories \cup {None}
    /\ o \in Creates \cup Deletes \cup {"ackMessages"} => F = {"row"}
    /\ o \in Updates => "row" \notin F /\ F # {}
    /\ "category" \in F => o = "updateChannel" /\ c \in Categories /\ "icon" \notin F

LEMMA AskKeeps ==
    ASSUME IInv, NEW r \in Requests, NEW o \in Operations, NEW x \in Rows,
           NEW c \in Categories \cup Messages \cup {None}, NEW F \in SUBSET Statements,
           Asks(r, o, x, c, F)
    PROVE  IInv'
  <1> USE DEF IInv, Ask, Asks, tables
  <1>1. TypeOK'
    <2>1. \A q, s \in Requests :
             q # s /\ {op[q], op[s]}' \subseteq Creates => row[q]' # row[s]'
      BY DEF TypeOK, Fresh
    <2> QED BY <2>1 DEF TypeOK, Live
  <1>2. ASSUME NEW q \in Requests PROVE Sound(q)'
    <2>1. CASE q = r
      <3>1. op[r]' = o /\ row[r]' = x /\ parent[r]' = c /\ fields[r]' = F
               /\ todo'[r] = F
               /\ earlier'[r] \in {{p \in Requests : answer[p] # None}, earlier[r]}
        BY DEF TypeOK
      <3>2. answer[r] = None /\ held[r] = {} /\ \A p \in earlier[r] : answer[p] # None
        BY DEF Sound
      <3>3. o # None /\ None # "deleted" BY ChannelsAssumption DEF Answers
      <3>4. failed[r] = {} BY DEF Sound
      <3> QED BY <2>1, <3>1, <3>2, <3>3, <3>4 DEF Sound
    <2>2. CASE q # r
      <3>1. earlier'[q] = earlier[q] BY <2>2 DEF TypeOK
      <3> QED BY <2>2, <3>1 DEF TypeOK, Sound
    <2> QED BY <2>1, <2>2
  <1>3. ASSUME NEW q \in Requests PROVE Lifecycle(q)'
    <2>1. CASE q = r
      BY <2>1 DEF TypeOK, Lifecycle, Fresh, Seen, Creates, Updates, Deletes
    <2>2. CASE q # r
      BY <2>2 DEF TypeOK, Lifecycle
    <2> QED BY <2>1, <2>2
  <1>4. ASSUME NEW q \in Requests PROVE Newest(q)'
    <2>1. CASE q = r
      BY <2>1 DEF TypeOK, Newest
    <2>2. CASE q # r
      BY <2>2 DEF TypeOK, Newest, Live
    <2> QED BY <2>1, <2>2
  <1>5. LocksHold' BY DEF LocksHold, Worth, Live
  <1>6. RowsBelong' BY DEF RowsBelong, Live
  <1>7. DeletesAreWhole'
    <2>1. answer[r] = None /\ None # "deleted"
      BY ChannelsAssumption DEF Sound, Answers
    <2>2. \A q \in Requests : answer[q] = "deleted" => row'[q] = row[q]
      BY <2>1 DEF TypeOK
    <2>3. ASSUME NEW q \in Requests, (answer[q] = "deleted" /\ failed[q] = {})'
          PROVE  Whole(row[q])' = Whole(row[q])
      BY <2>2, <2>3 DEF Whole
    <2>4. ASSUME NEW q \in Requests, answer[q] = "deleted"
          PROVE  Whole(row[q])' = Whole(row[q])
      BY <2>2, <2>4 DEF Whole
    <2> QED BY <2>3, <2>4 DEF DeletesAreWhole, Live
  <1> QED BY <1>1, <1>2, <1>3, <1>4, <1>5, <1>6, <1>7

LEMMA RequestAsks ==
    ASSUME NEW r \in Requests, Request(r)
    PROVE  \E o \in Operations, x \in Rows, c \in Categories \cup Messages \cup {None},
              F \in SUBSET Statements : Asks(r, o, x, c, F)
  <1> USE DEF Operations, Creates, Updates, Deletes, Rows, Statements, Fields
  <1>1. CASE createChannel(r)
    <2>1. PICK ch \in Channels, c \in Categories \cup {None} :
             Fresh(ch) /\ Ask(r, "createChannel", ch, c, {"row"})
      BY <1>1 DEF createChannel
    <2>2. Asks(r, "createChannel", ch, c, {"row"}) BY <2>1 DEF Asks
    <2> QED BY <2>2
  <1>2. CASE createCategory(r)
    <2>1. PICK c \in Categories :
             Fresh(c) /\ Ask(r, "createCategory", c, None, {"row"})
      BY <1>2 DEF createCategory
    <2>2. Asks(r, "createCategory", c, None, {"row"}) BY <2>1 DEF Asks
    <2> QED BY <2>2
  <1>3. CASE updateChannel(r)
    <2>1. PICK ch \in Channels, F \in Bodies :
             /\ Seen(ch)
             /\ F \subseteq {"name", "category", "position"}
             /\ IF "category" \in F
                  THEN \E c \in Categories :
                          Seen(c) /\ Ask(r, "updateChannel", ch, c, F)
                  ELSE Ask(r, "updateChannel", ch, None, F)
      BY <1>3 DEF updateChannel
    <2>2. PICK c \in Categories \cup {None} :
             Ask(r, "updateChannel", ch, c, F) /\ ("category" \in F => c \in Categories)
      BY <2>1, ChannelsAssumption
    <2>3. Asks(r, "updateChannel", ch, c, F)
      BY <2>1, <2>2, ChannelsAssumption DEF Asks
    <2> QED BY <2>1, <2>3
  <1>4. CASE updateCategory(r)
    <2>1. PICK c \in Categories, F \in Bodies :
             /\ Seen(c)
             /\ F \subseteq {"name", "position"}
             /\ Ask(r, "updateCategory", c, None, F)
      BY <1>4 DEF updateCategory
    <2>2. Asks(r, "updateCategory", c, None, F)
      BY <2>1, ChannelsAssumption DEF Asks
    <2> QED BY <2>1, <2>2
  <1>5. CASE updateServer(r)
    <2>1. PICK F \in Bodies :
             F \subseteq {"name", "icon"} /\ Ask(r, "updateServer", Server, None, F)
      BY <1>5 DEF updateServer
    <2>2. Seen(Server) BY <2>1 DEF Ask, Live, Seen
    <2>3. Asks(r, "updateServer", Server, None, F)
      BY <2>1, <2>2, ChannelsAssumption DEF Asks
    <2> QED BY <2>1, <2>3
  <1>6. CASE deleteChannel(r)
    <2>1. PICK ch \in Channels :
             Seen(ch) /\ Ask(r, "deleteChannel", ch, None, {"row"})
      BY <1>6 DEF deleteChannel
    <2>2. Asks(r, "deleteChannel", ch, None, {"row"}) BY <2>1 DEF Asks
    <2> QED BY <2>2
  <1>7. CASE deleteCategory(r)
    <2>1. PICK c \in Categories :
             Seen(c) /\ Ask(r, "deleteCategory", c, None, {"row"})
      BY <1>7 DEF deleteCategory
    <2>2. Asks(r, "deleteCategory", c, None, {"row"}) BY <2>1 DEF Asks
    <2> QED BY <2>2
  <1>8. CASE deleteServer(r)
    <2>1. Ask(r, "deleteServer", Server, None, {"row"}) BY <1>8 DEF deleteServer
    <2>2. Seen(Server) BY <2>1 DEF Ask, Live, Seen
    <2>3. Asks(r, "deleteServer", Server, None, {"row"}) BY <2>1, <2>2 DEF Asks
    <2> QED BY <2>3
  <1>9. CASE ackMessages(r)
    <2>1. PICK p \in Pointers, m \in Messages : Ask(r, "ackMessages", p, m, {"row"})
      BY <1>9 DEF ackMessages
    <2>2. Asks(r, "ackMessages", p, m, {"row"}) BY <2>1 DEF Asks
    <2> QED BY <2>2
  <1> QED
    BY <1>1, <1>2, <1>3, <1>4, <1>5, <1>6, <1>7, <1>8, <1>9 DEF Request

LEMMA RequestKeeps ==
    ASSUME IInv, NEW r \in Requests, Request(r)
    PROVE  IInv'
  BY RequestAsks, AskKeeps

-----------------------------------------------------------------------------
(* The locks.                                                              *)

LEMMA KeysTyped ==
    ASSUME IInv, NEW r \in Requests
    PROVE  NewKeys(r) \subseteq Rows \ {Server}
  <1>1. op[r] = "createChannel" => parent[r] \in Categories \cup {None}
    BY DEF IInv, Sound
  <1>2. Executes(r, "category") => parent[r] \in Categories
    BY DEF IInv, Sound, Executes
  <1>3. op[r] = "ackMessages" => row[r] \in Pointers /\ parent[r] \in Messages
    BY DEF IInv, Sound
  <1>4. op[r] = "ackMessages" => channelOf[row[r]] \in Channels
    BY <1>3, ChannelsAssumption
  <1>5. Categories \cup Channels \cup Messages \subseteq Rows \ {Server}
    BY ChannelsAssumption DEF Rows
  <1> QED BY <1>1, <1>2, <1>3, <1>4, <1>5 DEF NewKeys

AllLocks(r) ==
    OwnLocks(r) \cup KeyLocks(r) \cup ChannelLocks(r) \cup MessageLocks(r)
        \cup PointerLocks(r)

\* The order in which a statement goes for its locks.
LEMMA WantedLocks ==
    ASSUME NEW r
    PROVE  /\ Wanted(r) \subseteq AllLocks(r) \ held[r]
           /\ todo[r] # {} /\ Wanted(r) = {} => AllLocks(r) \subseteq held[r]
           /\ ~(OwnLocks(r) \subseteq held[r]) => Wanted(r) \subseteq OwnLocks(r)
           /\ Wanted(r) # {} => todo[r] # {}
  BY DEF Wanted, InOrder, AllLocks

\* What a statement locks that is no deletion.
LEMMA FewLocks ==
    ASSUME NEW r, op[r] \notin Deletes
    PROVE  /\ KeyLocks(r) = Lockable(NewKeys(r), "share")
           /\ ChannelLocks(r) = {} /\ MessageLocks(r) = {} /\ PointerLocks(r) = {}
           /\ AllLocks(r) = OwnLocks(r) \cup Lockable(NewKeys(r), "share")
  <1>1. Doomed(r) = {} /\ op[r] # "deleteServer" /\ op[r] # "deleteCategory"
    BY DEF Doomed, Deletes
  <1>2. Within(Doomed(r)) = {} BY <1>1 DEF Within
  <1>3. \A S, mode : S = {} => Lockable(S, mode) = {} BY DEF Lockable
  <1>4. {p \in Pointers \ {} : lastRead[p] \in {}} = {} OBVIOUS
  <1>5. KeyLocks(r) = Lockable(NewKeys(r), "share") BY <1>1 DEF KeyLocks
  <1>6. ChannelLocks(r) = {} BY <1>1, <1>3 DEF ChannelLocks
  <1>7. MessageLocks(r) = {} BY <1>2, <1>3 DEF MessageLocks
  <1>8. PointerLocks(r) = {} BY <1>2, <1>3, <1>4 DEF PointerLocks
  <1> QED BY <1>5, <1>6, <1>7, <1>8 DEF AllLocks

\* What a statement locks to delete more than its own row.
LEMMA CascadeLocks ==
    ASSUME IInv, NEW r \in Requests
    PROVE  \A l \in ChannelLocks(r) \cup MessageLocks(r) \cup PointerLocks(r) :
              l \in (Channels \cup Messages \cup Pointers) \X {"update", "delete"}
                 /\ Live(l[1])
  <1>1. ASSUME NEW S, NEW mode, NEW l \in Lockable(S, mode)
        PROVE  l \in S \X {mode} /\ Live(l[1])
    BY <1>1 DEF Lockable
  <1>2. ASSUME NEW l \in ChannelLocks(r)
        PROVE  l \in Channels \X {"update", "delete"} /\ Live(l[1])
    <2>1. Doomed(r) \subseteq Channels BY DEF Doomed, IInv, Sound
    <2> QED BY <1>1, <2>1 DEF ChannelLocks
  <1>3. ASSUME NEW l \in MessageLocks(r) \cup PointerLocks(r)
        PROVE  l \in (Messages \cup Pointers) \X {"update", "delete"} /\ Live(l[1])
    BY <1>1 DEF MessageLocks, PointerLocks, Within
  <1> QED BY <1>2, <1>3

LEMMA WantedLive ==
    ASSUME IInv, NEW r \in Requests, NEW l \in Wanted(r)
    PROVE  l \in Rows \X Modes /\ Worth(l)
  <1> DEFINE Good(k) == k \in Rows \X Modes /\ Worth(k)
  <1>1. ASSUME NEW S \in SUBSET Rows, NEW mode \in Modes, NEW k \in Lockable(S, mode)
        PROVE  Good(k)
    BY <1>1 DEF Lockable, Worth
  <1>2. op[r] \in Operations /\ row[r] \in Rows
    BY WantedLocks DEF IInv, TypeOK, Sound
  <1>3. NewKeys(r) \subseteq Rows BY KeysTyped
  <1>4. \A k \in OwnLocks(r) : Good(k)
    <2>1. {Server} \subseteq Rows /\ {row[r]} \subseteq Rows BY <1>2 DEF Rows
    <2>2. CASE op[r] = "ackMessages"
      <3>1. OwnLocks(r) = {<<row[r], "update">>} /\ row[r] \in Pointers
        BY <2>2 DEF OwnLocks, ServerLocks, Creates, Updates, Deletes, IInv, Sound
      <3> QED BY <1>2, <3>1 DEF Worth, Modes
    <2>3. CASE op[r] # "ackMessages"
      BY <1>1, <1>2, <2>1, <2>3 DEF OwnLocks, ServerLocks, Operations, Modes
    <2> QED BY <2>2, <2>3
  <1>5. \A k \in KeyLocks(r) : Good(k)
    <2>1. Categories \subseteq Rows BY DEF Rows
    <2> QED BY <1>1, <1>3, <2>1 DEF KeyLocks, Modes
  <1>6. \A k \in ChannelLocks(r) \cup MessageLocks(r) \cup PointerLocks(r) : Good(k)
    BY CascadeLocks DEF Modes, Rows, Worth
  <1>7. l \in AllLocks(r) BY WantedLocks
  <1> QED BY <1>4, <1>5, <1>6, <1>7 DEF AllLocks

LEMMA LockKeeps ==
    ASSUME IInv, NEW r \in Requests, Lock(r)
    PROVE  IInv'
  <1> USE DEF tables, body
  <1>1. PICK l \in Wanted(r) :
           /\ \A q \in Requests : ~Blocks(q, r, l)
           /\ held' = [held EXCEPT ![r] = @ \cup {l}]
           /\ UNCHANGED <<tables, body, todo, answer, failed>>
    BY DEF Lock, Free
  <1>2. l \in Rows \X Modes /\ Worth(l) BY WantedLive
  <1>3. todo[r] # {} BY WantedLocks
  <1>4. TypeOK' BY <1>1, <1>2 DEF IInv, TypeOK, Live
  <1>5. ASSUME NEW q \in Requests PROVE (Sound(q) /\ Lifecycle(q) /\ Newest(q))'
    <2>1. Sound(q) /\ Lifecycle(q) /\ Newest(q) BY DEF IInv
    <2>2. Sound(q)' BY <1>1, <1>3, <2>1 DEF IInv, TypeOK, Sound
    <2>3. Lifecycle(q)' BY <1>1, <2>1 DEF Lifecycle
    <2>4. Newest(q)' BY <1>1, <2>1 DEF Newest, Live
    <2> QED BY <2>2, <2>3, <2>4
  <1>6. LocksHold'
    <2>1. ASSUME NEW q \in Requests, NEW k \in held'[q] PROVE Worth(k)'
      BY <1>1, <1>2, <2>1 DEF IInv, TypeOK, LocksHold, Worth, Live
    <2>2. ASSUME NEW q \in Requests, NEW s \in Requests,
                 NEW k \in held'[q], NEW m \in held'[s], q # s, k[1] = m[1]
          PROVE  ~Conflict(k[2], m[2])
      <3>1. \A p \in Requests \ {r} : held'[p] = held[p] BY <1>1 DEF IInv, TypeOK
      <3>2. held'[r] = held[r] \cup {l} BY <1>1 DEF IInv, TypeOK
      <3>3. \A p \in Requests \ {r} : \A n \in held[p] :
               n[1] = l[1] => ~Conflict(n[2], l[2])
        BY <1>1 DEF Blocks
      <3>4. CASE k \in held[q] /\ m \in held[s]
        BY <2>2, <3>4 DEF IInv, LocksHold
      <3>5. CASE k \notin held[q]
        BY <2>2, <3>1, <3>2, <3>3, <3>5 DEF Conflict
      <3>6. CASE m \notin held[s]
        BY <2>2, <3>1, <3>2, <3>3, <3>6 DEF Conflict
      <3> QED BY <3>4, <3>5, <3>6
    <2> QED BY <2>1, <2>2 DEF LocksHold
  <1>7. RowsBelong' BY <1>1 DEF IInv, RowsBelong, Live
  <1>8. DeletesAreWhole' BY <1>1 DEF IInv, DeletesAreWhole, Whole, Live
  <1> QED BY <1>4, <1>5, <1>6, <1>7, <1>8 DEF IInv

-----------------------------------------------------------------------------
(* The end of a statement, with or without an error.                       *)

\* A step of a row.
RowStep(r) ==
    \A x \in Rows :
        \/ state'[x] = state[x]
        \/ state[x] = "live" /\ state'[x] = "gone"
        \/ /\ state[x] = "unused" /\ state'[x] = "live"
           /\ x = row[r] /\ op[r] \in Creates \cup {"ackMessages"} /\ todo'[r] = {}

LEMMA SoundKept ==
    ASSUME IInv, NEW r \in Requests, NEW f \in todo[r], NEW says \in Answers,
           Done(r, f, says), held' = [held EXCEPT ![r] = {}],
           failed'[r] \subseteq failed[r] \cup {f},
           \A q \in Requests \ {r} : failed'[q] = failed[q],
           says = "deleted" => op[r] \in Deletes
    PROVE  /\ todo' \in [Requests -> SUBSET Statements]
           /\ answer' \in [Requests -> Answers \cup {None}]
           /\ held' \in [Requests -> SUBSET (Rows \X Modes)]
           /\ \A q \in Requests : Sound(q)'
  <1>1. /\ todo' = [todo EXCEPT ![r] = @ \ {f}]
        /\ answer' = IF todo[r] = {f} THEN [answer EXCEPT ![r] = says] ELSE answer
        /\ UNCHANGED <<op, row, parent, fields, earlier>>
    BY DEF Done, body
  <1>2. says # None BY ChannelsAssumption
  <1>3. ASSUME NEW q \in Requests PROVE Sound(q)'
    <2>1. Sound(q) BY DEF IInv
    <2>2. \A p \in Requests : answer[p] # None => answer'[p] # None
      BY <1>1, <1>2 DEF IInv, TypeOK
    <2>3. earlier[q] \subseteq Requests BY DEF IInv, TypeOK
    <2>4. CASE q = r
      <3>1. todo'[r] = todo[r] \ {f} /\ held'[r] = {} BY <1>1 DEF IInv, TypeOK
      <3>2. todo'[r] # {} => answer'[r] = answer[r] BY <1>1, <3>1
      <3>3. todo'[r] = {} => answer'[r] = says BY <1>1, <3>1 DEF IInv, TypeOK
      <3>4. answer[r] = None BY DEF IInv, Sound
      <3>5. failed'[r] \subseteq fields[r] \ todo'[r]
        BY <2>1, <2>4, <3>1 DEF Sound
      <3>6. None # "deleted" BY ChannelsAssumption DEF Answers
      <3> QED
        BY <1>1, <2>1, <2>2, <2>3, <2>4, <3>1, <3>2, <3>3, <3>4, <3>5, <3>6 DEF Sound
    <2>5. CASE q # r
      <3>1. todo'[q] = todo[q] /\ held'[q] = held[q] /\ answer'[q] = answer[q]
        BY <1>1, <2>5 DEF IInv, TypeOK
      <3> QED BY <1>1, <2>1, <2>2, <2>3, <2>5, <3>1 DEF Sound
    <2> QED BY <2>4, <2>5
  <1> QED BY <1>1, <1>3 DEF IInv, TypeOK

LEMMA StatementKeeps ==
    ASSUME IInv, NEW r \in Requests, NEW f \in todo[r], NEW says \in Answers,
           Done(r, f, says), held' = [held EXCEPT ![r] = {}],
           state' \in [Rows -> {"unused", "live", "gone"}],
           category' \in [Channels -> Categories \cup {None}],
           lastRead' \in [Pointers -> Messages \cup {None}],
           writer' \in [Rows \X Fields -> Requests \cup {None}],
           failed' \in [Requests -> SUBSET Statements],
           RowStep(r),
           \A q \in Requests \ {r} : \A l \in held[q] : Worth(l)',
           RowsBelong',
           \A w \in Rows \X Fields : writer'[w] \in {writer[w], r},
           op[r] \in Updates /\ f \notin failed'[r] /\ Live(row[r])'
              => writer'[<<row[r], f>>] = r,
           failed[r] \subseteq failed'[r], failed'[r] \subseteq failed[r] \cup {f},
           \A q \in Requests \ {r} : failed'[q] = failed[q],
           says = "deleted" =>
              op[r] \in Deletes /\ (failed'[r] = {} => state'[row[r]] # "live"),
           \A x \in Rows : state[x] = "live" /\ state'[x] = "gone" =>
              answer'[r] = "deleted" /\ failed'[r] = {} /\ x \in Whole(row[r])
    PROVE  IInv'
  <1>1. /\ todo' = [todo EXCEPT ![r] = @ \ {f}]
        /\ answer' = IF todo[r] = {f} THEN [answer EXCEPT ![r] = says] ELSE answer
        /\ UNCHANGED <<op, row, parent, fields, earlier>>
    BY DEF Done, body
  <1>2. TypeOK' BY <1>1, SoundKept DEF IInv, TypeOK
  <1>3. op[r] \in Operations /\ row[r] \in Rows BY DEF IInv, TypeOK, Sound
  <1>4. \A q \in Requests \ {r} : {op[q], op[r]} \subseteq Creates => row[q] # row[r]
    BY DEF IInv, TypeOK
  <1>5. ASSUME NEW q \in Requests PROVE Lifecycle(q)'
    <2>1. Lifecycle(q) BY DEF IInv
    <2>2. op[q] \in Operations => row[q] \in Rows
      BY ChannelsAssumption DEF IInv, Sound
    <2>3. todo'[q] \subseteq todo[q] BY <1>1 DEF IInv, TypeOK
    <2>4. (op[q] \in Creates /\ todo[q] # {} => state[row[q]] = "unused")'
      <3> SUFFICES ASSUME op[q] \in Creates, todo'[q] # {}
                   PROVE  state'[row[q]] = "unused"
        BY <1>1
      <3>1. row[q] \in Rows BY <2>2 DEF Operations
      <3>2. state[row[q]] = "unused" BY <2>1, <2>3 DEF Lifecycle
      <3>3. CASE q = r BY <3>1, <3>2, <3>3 DEF RowStep
      <3>4. CASE q # r
        <4>1. row[q] # row[r] \/ op[r] \notin Creates \cup {"ackMessages"}
          <5>1. row[q] \in Categories \cup Channels
            BY DEF IInv, Sound, Creates
          <5>2. op[r] = "ackMessages" => row[r] \in Pointers BY DEF IInv, Sound
          <5> QED BY <1>4, <3>4, <5>1, <5>2, ChannelsAssumption
        <4> QED BY <3>1, <3>2, <4>1 DEF RowStep
      <3> QED BY <3>3, <3>4
    <2>5. (op[q] \in Updates \cup Deletes => state[row[q]] # "unused")'
      BY <1>1, <2>1, <2>2 DEF Lifecycle, Operations, RowStep
    <2> QED BY <2>4, <2>5 DEF Lifecycle
  <1>6. \A x \in Rows : Live(x)' => Live(x) \/ state[x] = "unused"
    BY DEF RowStep, Live
  <1>7. ASSUME NEW q \in Requests PROVE Newest(q)'
    <2> SUFFICES ASSUME NEW g \in Fields, op[q] \in Updates,
                        g \in fields[q] \ (todo'[q] \cup failed'[q]), Live(row[q])'
                 PROVE  writer'[<<row[q], g>>] \in Requests \ earlier[q]
      BY <1>1 DEF Newest, Live
    <2>1. row[q] \in Rows /\ state[row[q]] # "unused"
      BY ChannelsAssumption DEF IInv, Sound, Lifecycle, Operations
    <2>2. Live(row[q]) BY <1>1, <1>6, <2>1 DEF Live
    <2>3. <<row[q], g>> \in Rows \X Fields BY <2>1
    <2>4. r \notin earlier[q]
      <3>1. answer[r] = None BY DEF IInv, Sound
      <3> QED BY <3>1 DEF IInv, Sound
    <2>5. CASE q = r /\ g = f BY <1>1, <2>4, <2>5
    <2>6. CASE ~(q = r /\ g = f)
      <3>1. g \notin todo[q] BY <1>1, <2>6 DEF IInv, TypeOK
      <3>2. g \notin failed[q] OBVIOUS
      <3>3. writer[<<row[q], g>>] \in Requests \ earlier[q]
        BY <2>2, <3>1, <3>2 DEF IInv, Newest
      <3> QED BY <2>3, <2>4, <3>3
    <2> QED BY <2>5, <2>6
  <1>8. LocksHold'
    <2>1. \A q \in Requests : held'[q] \subseteq held[q] BY DEF IInv, TypeOK
    <2>2. held'[r] = {} BY DEF IInv, TypeOK
    <2>3. \A q \in Requests : \A l \in held'[q] : Worth(l)' BY <2>1, <2>2
    <2> QED BY <2>1, <2>3 DEF IInv, LocksHold
  <1>9. answer[r] = None /\ None # "deleted"
    BY ChannelsAssumption DEF IInv, Sound, Answers
  <1>10. \A q \in Requests \ {r} : answer'[q] = answer[q]
    BY <1>1 DEF IInv, TypeOK
  <1>11. DeletesAreWhole'
    <2>1. ASSUME NEW q \in Requests, answer'[q] = "deleted", failed'[q] = {}
          PROVE  /\ row[q] \in {Server} \cup Categories \cup Channels
                 /\ state'[row[q]] # "live"
      <3>1. CASE q = r
        <4>1. says = "deleted" BY <1>1, <1>9, <2>1, <3>1 DEF IInv, TypeOK
        <4> QED BY <2>1, <3>1, <4>1 DEF IInv, Sound, Deletes
      <3>2. CASE q # r
        <4>1. answer[q] = "deleted" /\ failed[q] = {} BY <1>10, <2>1, <3>2
        <4>2. op[q] \in Deletes BY <4>1 DEF IInv, Sound
        <4>3. row[q] \in {Server} \cup Categories \cup Channels /\ row[q] \in Rows
          BY <4>2 DEF IInv, Sound, Deletes, Rows
        <4>4. row[q] \in Whole(row[q]) BY <4>3 DEF Whole
        <4>5. state[row[q]] # "live"
          BY <4>1, <4>4 DEF IInv, DeletesAreWhole, Live
        <4>6. state[row[q]] # "unused" BY <4>2 DEF IInv, Lifecycle
        <4> QED BY <4>3, <4>5, <4>6 DEF RowStep
      <3> QED BY <3>1, <3>2
    <2>2. ASSUME NEW q \in Requests, (answer[q] = "deleted" /\ failed[q] = {})',
                 NEW x \in Whole(row[q])
          PROVE  ~Live(x)'
      <3>1. /\ row[q] \in {Server} \cup Categories \cup Channels
            /\ state'[row[q]] # "live"
        BY <2>1, <2>2
      <3>2. CASE row[q] = Server
        <4>1. x \in Rows BY <2>2, <3>2 DEF Whole
        <4>2. \A y \in Messages \cup Pointers : channelOf[y] \in Channels
          BY ChannelsAssumption
        <4> QED BY <3>1, <3>2, <4>1, <4>2 DEF RowsBelong, Rows, Live
      <3>3. CASE row[q] # Server
        BY <2>2, <3>1, <3>3 DEF Whole, RowsBelong, Live
      <3> QED BY <3>2, <3>3
    <2>3. ASSUME NEW x \in Rows, state'[x] = "gone"
          PROVE  \E q \in Requests : /\ (answer[q] = "deleted" /\ failed[q] = {})'
                                    /\ x \in Whole(row[q])
      <3>1. CASE state[x] = "gone"
        <4>1. PICK q \in Requests : /\ answer[q] = "deleted" /\ failed[q] = {}
                                    /\ x \in Whole(row[q])
          BY <3>1 DEF IInv, DeletesAreWhole
        <4>2. q # r BY <1>9, <4>1
        <4> QED BY <1>10, <4>1, <4>2
      <3>2. CASE state[x] # "gone"
        BY <2>3, <3>2 DEF RowStep
      <3> QED BY <3>1, <3>2
    <2>4. \A q \in Requests : Whole(row[q])' = Whole(row[q])
      BY <1>1 DEF Whole
    <2> QED BY <1>1, <2>2, <2>3, <2>4 DEF DeletesAreWhole
  <1> QED BY <1>2, <1>5, <1>7, <1>8, <1>11, SoundKept DEF IInv

-----------------------------------------------------------------------------
(* The statements.                                                         *)

LEMMA ReadyHolds ==
    ASSUME NEW r, NEW f, Ready(r, f)
    PROVE  /\ f \in todo[r]
           /\ AllLocks(r) \subseteq held[r]
  BY WantedLocks DEF Ready, Executes

LEMMA SuccessTold ==
    ASSUME NEW r, op[r] \in Operations, NEW says \in {Success(r), AfterError(r)}
    PROVE  /\ says \in Answers
           /\ op[r] \in Creates => says \in {"created", "error"}
           /\ op[r] \in Updates => says = "updated"
           /\ op[r] \in Deletes => says = "deleted"
           /\ op[r] = "ackMessages" => says \in {"ok", "error"}
  BY DEF Success, AfterError, Operations, Creates, Updates, Deletes, Answers

\* A row that is locked to be deleted is locked by nobody else.
LEMMA DeletesAlone ==
    ASSUME IInv, NEW r \in Requests, NEW x, Lockable({x}, "delete") \subseteq held[r],
           Live(x), NEW q \in Requests \ {r}, NEW l \in held[q]
    PROVE  l[1] # x
  <1> SUFFICES ASSUME l[1] = x PROVE FALSE OBVIOUS
  <1>1. <<x, "delete">> \in held[r] BY DEF Lockable
  <1> QED BY <1>1 DEF IInv, LocksHold, Conflict

LEMMA UpdateFieldKeeps ==
    ASSUME IInv, NEW r \in Requests, NEW f \in Fields, UpdateField(r, f)
    PROVE  IInv'
  <1>1. /\ op[r] \in Updates /\ f \in todo[r]
        /\ held' = [held EXCEPT ![r] = {}]
        /\ UNCHANGED <<state, category, lastRead, failed>>
        /\ writer' = IF Live(row[r]) THEN [writer EXCEPT ![<<row[r], f>>] = r]
                                     ELSE writer
    BY DEF UpdateField, EndStatement, Writes, Ready, Executes
  <1>2. row[r] \in Rows
    BY <1>1, ChannelsAssumption DEF IInv, Sound, Operations
  <1>3. <<row[r], f>> \in Rows \X Fields BY <1>2
  <1>4. Done(r, f, "updated")
    BY <1>1, SuccessTold DEF UpdateField, EndStatement, Operations
  <1>5. RowsBelong' BY <1>1 DEF IInv, RowsBelong, Live
  <1>6. \A w \in Rows \X Fields : writer'[w] \in {writer[w], r}
    BY <1>1, <1>3 DEF IInv, TypeOK
  <1>7. Live(row[r])' => writer'[<<row[r], f>>] = r
    BY <1>1, <1>3, <1>4 DEF IInv, TypeOK, Live, Done, body
  <1>8. writer' \in [Rows \X Fields -> Requests \cup {None}]
    BY <1>1, <1>3 DEF IInv, TypeOK
  <1>9. \A q \in Requests \ {r} : \A l \in held[q] : Worth(l)'
    BY <1>1 DEF IInv, LocksHold, Worth, Live
  <1>10. RowStep(r) BY <1>1 DEF RowStep
  <1>11. "updated" \in Answers BY DEF Answers
  <1> QED
    BY <1>1, <1>4, <1>5, <1>6, <1>7, <1>8, <1>9, <1>10, <1>11, StatementKeeps
       DEF IInv, TypeOK

\* A moved channel finds its category, which it has locked unless it is there
\* already.
LEMMA MoveFinds ==
    ASSUME IInv, NEW r \in Requests, op[r] = "updateChannel", Ready(r, "category"),
           Live(row[r])
    PROVE  parent[r] \in Categories /\ Live(parent[r])
  <1>1. row[r] \in Channels /\ parent[r] \in Categories
    BY DEF IInv, Sound, TypeOK, Ready, Executes
  <1>2. CASE parent[r] = category[row[r]]
    BY <1>1, <1>2, ChannelsAssumption DEF IInv, RowsBelong, Rows
  <1>3. CASE parent[r] # category[row[r]]
    <2>1. parent[r] \in NewKeys(r) BY <1>3 DEF NewKeys, Ready
    <2>2. <<parent[r], "share">> \in held[r] BY <2>1 DEF Ready, Keys
    <2> QED BY <1>1, <2>2 DEF IInv, LocksHold, Worth
  <1> QED BY <1>1, <1>2, <1>3

LEMMA MoveChannelKeeps ==
    ASSUME IInv, NEW r \in Requests, MoveChannel(r)
    PROVE  IInv'
  <1> DEFINE f == "category"
  <1>1. /\ op[r] = "updateChannel" /\ Ready(r, f)
        /\ held' = [held EXCEPT ![r] = {}]
        /\ UNCHANGED <<state, lastRead, failed>>
        /\ category' = IF Live(row[r]) THEN [category EXCEPT ![row[r]] = parent[r]]
                                        ELSE category
        /\ writer' = IF Live(row[r]) THEN [writer EXCEPT ![<<row[r], f>>] = r]
                                     ELSE writer
    BY DEF MoveChannel, EndStatement, Writes
  <1>2. f \in todo[r] /\ f \in Fields /\ op[r] \in Updates
    BY <1>1 DEF Ready, Executes, Fields, Updates
  <1>3. row[r] \in Channels /\ row[r] \in Rows /\ <<row[r], f>> \in Rows \X Fields
    BY <1>1, <1>2 DEF IInv, Sound, Rows
  <1>4. Done(r, f, "updated") /\ "updated" \in Answers
    BY <1>1, <1>2, SuccessTold DEF MoveChannel, EndStatement, Operations, Answers
  <1>5. parent[r] \in Categories
    BY <1>2 DEF IInv, Sound, TypeOK
  <1>6. Live(row[r]) => Live(parent[r]) BY <1>1, MoveFinds
  <1>7. RowsBelong' BY <1>1, <1>3, <1>6 DEF IInv, TypeOK, RowsBelong, Live
  <1>8. category' \in [Channels -> Categories \cup {None}]
    BY <1>1, <1>3, <1>5 DEF IInv, TypeOK
  <1>9. \A w \in Rows \X Fields : writer'[w] \in {writer[w], r}
    BY <1>1, <1>3 DEF IInv, TypeOK
  <1>10. Live(row[r])' => writer'[<<row[r], f>>] = r
    BY <1>1, <1>3, <1>4 DEF IInv, TypeOK, Live, Done, body
  <1>11. writer' \in [Rows \X Fields -> Requests \cup {None}]
    BY <1>1, <1>3 DEF IInv, TypeOK
  <1>12. \A q \in Requests \ {r} : \A l \in held[q] : Worth(l)'
    BY <1>1 DEF IInv, LocksHold, Worth, Live
  <1>13. RowStep(r) BY <1>1 DEF RowStep
  <1> QED
    BY <1>1, <1>2, <1>4, <1>7, <1>8, <1>9, <1>10, <1>11, <1>12, <1>13, StatementKeeps
       DEF IInv, TypeOK

\* The rows an INSERT refers to are there when it inserts.
LEMMA KeysLive ==
    ASSUME IInv, NEW r \in Requests, Ready(r, "row"), op[r] \in Creates
    PROVE  /\ Live(Server)
           /\ op[r] = "createChannel" /\ parent[r] # None => Live(parent[r])
  <1>1. \A x \in Keys(r) : <<x, "share">> \in held[r] BY DEF Ready
  <1>2. \A x \in Keys(r) : Live(x) BY <1>1 DEF IInv, LocksHold, Worth
  <1>3. ~Executes(r, "category")
    BY DEF IInv, Sound, Executes, Creates, Updates
  <1> QED BY <1>2, <1>3 DEF Keys, NewKeys

LEMMA InsertKeeps ==
    ASSUME IInv, NEW r \in Requests, InsertChannel(r) \/ InsertCategory(r)
    PROVE  IInv'
  <1>1. /\ op[r] \in Creates /\ Ready(r, "row")
        /\ EndStatement(r, "row") /\ held' = [held EXCEPT ![r] = {}]
        /\ UNCHANGED <<lastRead, writer, failed>>
        /\ state' = [state EXCEPT ![row[r]] = "live"]
    BY DEF InsertChannel, InsertCategory, InsertRow, EndStatement, Creates
  <1>2. "row" \in todo[r] /\ fields[r] = {"row"} /\ todo[r] \subseteq fields[r]
    BY <1>1 DEF Ready, Executes, IInv, Sound
  <1>3. row[r] \in Categories \cup Channels /\ row[r] \in Rows
    BY <1>1 DEF IInv, Sound, Creates, Rows
  <1>4. PICK says \in {"created", "error"} : Done(r, "row", says)
    BY <1>1, SuccessTold DEF EndStatement, Operations
  <1>5. op[r] \notin Updates BY <1>1 DEF Creates, Updates
  <1>6. /\ category' \in [Channels -> Categories \cup {None}]
        /\ \A ch \in Channels \ {row[r]} : category'[ch] = category[ch]
        /\ row[r] \in Channels /\ category'[row[r]] # None
              => state[category'[row[r]]] = "live"
    <2>1. CASE InsertChannel(r)
      <3>1. op[r] = "createChannel" /\ category' = [category EXCEPT ![row[r]] = parent[r]]
        BY <2>1 DEF InsertChannel
      <3>2. row[r] \in Channels BY <3>1 DEF IInv, Sound
      <3>3. parent[r] \in Categories \cup {None} BY <3>1 DEF IInv, Sound
      <3>4. parent[r] # None => Live(parent[r]) BY <1>1, <3>1, KeysLive
      <3> QED BY <3>1, <3>2, <3>3, <3>4 DEF IInv, TypeOK, Live
    <2>2. CASE InsertCategory(r)
      <3>1. op[r] = "createCategory" /\ category' = category
        BY <2>2 DEF InsertCategory
      <3>2. row[r] \in Categories BY <3>1 DEF IInv, Sound
      <3> QED BY <3>1, <3>2, ChannelsAssumption DEF IInv, TypeOK
    <2> QED BY <2>1, <2>2
  <1>7. RowsBelong'
    <2>1. Live(Server) BY <1>1, KeysLive
    <2>2. \A x \in Rows : Live(x) => Live(x)' BY <1>1, <1>3 DEF IInv, TypeOK, Live
    <2>3. \A x \in Rows : Live(x)' => Live(x) \/ x = row[r]
      BY <1>1, <1>3 DEF IInv, TypeOK, Live
    <2>4. Server \in Rows /\ Categories \subseteq Rows /\ Channels \subseteq Rows
      BY DEF Rows
    <2>5. ASSUME NEW ch \in Channels, Live(ch)', category'[ch] # None
          PROVE  Live(category[ch])'
      <3>1. category'[ch] \in Rows BY <1>6, <2>4, <2>5
      <3>2. Live(category'[ch])
        <4>1. CASE ch = row[r] BY <1>6, <2>5, <4>1 DEF Live
        <4>2. CASE ch # row[r]
          <5>1. category'[ch] = category[ch] BY <1>6, <4>2
          <5>2. ch \in Rows BY <2>4
          <5>3. state'[ch] = "live" BY <2>5 DEF Live
          <5>4. Live(ch) BY <2>3, <4>2, <5>2, <5>3 DEF Live
          <5>5. Live(category[ch]) BY <2>5, <5>1, <5>4 DEF IInv, RowsBelong
          <5> QED BY <5>1, <5>5
        <4> QED BY <4>1, <4>2
      <3>3. state'[category'[ch]] = "live" BY <2>2, <3>1, <3>2 DEF Live
      <3> QED BY <3>3 DEF Live
    <2>6. \A x \in Messages \cup Pointers : channelOf[x] \in Channels /\ x # row[r]
      BY <1>3, ChannelsAssumption
    <2>7. ASSUME NEW x \in Messages \cup Pointers, Live(x)'
          PROVE  Live(x) /\ Live(channelOf[x])'
      <3>1. x \in Rows /\ channelOf[x] \in Rows BY <2>4, <2>6 DEF Rows
      <3>2. Live(x) BY <2>3, <2>6, <2>7, <3>1
      <3>3. Live(channelOf[x]) BY <3>2 DEF IInv, RowsBelong
      <3> QED BY <2>2, <3>1, <3>2, <3>3 DEF Live
    <2>8. ASSUME NEW p \in Pointers, Live(p)', lastRead'[p] # None
          PROVE  Live(lastRead[p])'
      <3>1. Live(p) BY <2>7, <2>8
      <3>2. Live(lastRead[p]) /\ lastRead[p] \in Rows
        BY <1>1, <2>8, <3>1 DEF IInv, TypeOK, RowsBelong, Rows
      <3>3. state'[lastRead[p]] = "live" BY <2>2, <3>2 DEF Live
      <3> QED BY <1>1, <3>3 DEF Live
    <2> QED BY <2>1, <2>2, <2>4, <2>5, <2>7, <2>8 DEF RowsBelong
  <1>8. state' \in [Rows -> {"unused", "live", "gone"}]
    BY <1>1, <1>3 DEF IInv, TypeOK
  <1>9. \A q \in Requests \ {r} : \A l \in held[q] : Worth(l)'
    <2>1. \A q \in Requests : \A l \in held[q] : l[1] \in Rows /\ Worth(l)
      BY DEF IInv, TypeOK, LocksHold
    <2> QED BY <1>1, <1>3, <2>1 DEF IInv, TypeOK, Worth, Live
  <1>10. RowStep(r)
    <2>1. todo'[r] = {} BY <1>2, <1>4 DEF Done, IInv, TypeOK
    <2>2. state[row[r]] = "unused" BY <1>1, <1>2 DEF IInv, Lifecycle
    <2> QED BY <1>1, <1>3, <2>1, <2>2 DEF IInv, TypeOK, RowStep
  <1>11. \A w \in Rows \X Fields : writer'[w] \in {writer[w], r} BY <1>1
  <1>12. category' \in [Channels -> Categories \cup {None}] BY <1>6
  <1>13. says \in Answers BY DEF Answers
  <1>14. \A x \in Rows : ~(state[x] = "live" /\ state'[x] = "gone")
    BY <1>1, <1>3 DEF IInv, TypeOK
  <1> QED
    BY <1>1, <1>2, <1>4, <1>5, <1>7, <1>8, <1>9, <1>10, <1>11, <1>12, <1>13, <1>14,
       StatementKeeps
       DEF IInv, TypeOK

\* What an ack refers to is there when it writes, and its row, if it is not, never
\* was.
LEMMA AckFinds ==
    ASSUME IInv, NEW r \in Requests, op[r] = "ackMessages", Ready(r, "row")
    PROVE  /\ row[r] \in Pointers /\ parent[r] \in Messages
           /\ Live(parent[r])
           /\ ~Live(row[r]) => Live(channelOf[row[r]]) /\ state[row[r]] = "unused"
  <1>1. row[r] \in Pointers /\ parent[r] \in Messages /\ row[r] \in Rows
    BY DEF IInv, Sound
  <1>2. channelOf[row[r]] \in Channels /\ Channels \subseteq Rows
    BY <1>1, ChannelsAssumption DEF Rows
  <1>3. \A x \in NewKeys(r) : Live(x)
    <2>1. \A x \in NewKeys(r) : <<x, "share">> \in held[r] BY DEF Ready, Keys
    <2> QED BY <2>1 DEF IInv, LocksHold, Worth
  <1>4. ~Executes(r, "category") BY DEF IInv, Sound, Executes
  <1>5. CASE Live(row[r])
    <2>1. NewKeys(r) = {parent[r]} \ {lastRead[row[r]]}
      BY <1>4, <1>5 DEF NewKeys
    <2>2. parent[r] = lastRead[row[r]] => Live(parent[r])
      BY <1>1, <1>5, ChannelsAssumption DEF IInv, RowsBelong, Rows
    <2> QED BY <1>1, <1>3, <1>5, <2>1, <2>2
  <1>6. CASE ~Live(row[r])
    <2>1. NewKeys(r) = {parent[r], channelOf[row[r]]}
      BY <1>4, <1>6 DEF NewKeys
    <2>2. Live(channelOf[row[r]]) BY <1>3, <2>1
    <2>3. state[row[r]] # "gone"
      <3> SUFFICES ASSUME state[row[r]] = "gone" PROVE FALSE OBVIOUS
      <3>1. PICK q \in Requests : /\ answer[q] = "deleted" /\ failed[q] = {}
                                  /\ row[r] \in Whole(row[q])
        BY <1>1 DEF IInv, DeletesAreWhole
      <3>2. \A x \in Whole(row[q]) : ~Live(x) BY <3>1 DEF IInv, DeletesAreWhole
      <3>3. op[q] \in Deletes BY <3>1 DEF IInv, Sound
      <3>4. row[q] \in {Server} \cup Categories \cup Channels
        BY <3>3 DEF IInv, Sound, Deletes
      <3>5. channelOf[row[r]] \in Whole(row[q])
        BY <1>1, <1>2, <3>1, <3>4, ChannelsAssumption DEF Whole
      <3> QED BY <2>2, <3>2, <3>5
    <2>4. state[row[r]] = "unused" BY <1>1, <1>6, <2>3 DEF IInv, TypeOK, Live
    <2> QED BY <1>1, <1>3, <2>1, <2>4
  <1> QED BY <1>5, <1>6

LEMMA UpsertKeeps ==
    ASSUME IInv, NEW r \in Requests, Upsert(r)
    PROVE  IInv'
  <1>1. /\ op[r] = "ackMessages" /\ Ready(r, "row")
        /\ EndStatement(r, "row") /\ held' = [held EXCEPT ![r] = {}]
        /\ UNCHANGED <<category, writer, failed>>
        /\ state' = [state EXCEPT ![row[r]] = "live"]
        /\ lastRead' = [lastRead EXCEPT ![row[r]] = parent[r]]
    BY DEF Upsert, EndStatement
  <1>2. "row" \in todo[r] /\ fields[r] = {"row"} /\ todo[r] \subseteq fields[r]
    BY <1>1 DEF Ready, Executes, IInv, Sound
  <1>3. /\ row[r] \in Pointers /\ parent[r] \in Messages /\ Live(parent[r])
        /\ ~Live(row[r]) => Live(channelOf[row[r]]) /\ state[row[r]] = "unused"
    BY <1>1, AckFinds
  <1>4. PICK says \in {"ok", "error"} : Done(r, "row", says)
    BY <1>1, SuccessTold DEF EndStatement, Operations
  <1>5. op[r] \notin Updates /\ says \in Answers /\ row[r] \in Rows
    BY <1>1, <1>3 DEF Updates, Answers, Rows
  <1>6. /\ state' \in [Rows -> {"unused", "live", "gone"}]
        /\ lastRead' \in [Pointers -> Messages \cup {None}]
    BY <1>1, <1>3, <1>5 DEF IInv, TypeOK
  <1>7. \A x \in Rows \ {row[r]} : state'[x] = state[x]
    BY <1>1 DEF IInv, TypeOK
  <1>8. state'[row[r]] = "live" BY <1>1, <1>5 DEF IInv, TypeOK
  <1>9. RowsBelong'
    <2>1. \A x \in {Server} \cup Categories \cup Channels \cup Messages :
             state'[x] = state[x]
      BY <1>3, <1>7, ChannelsAssumption DEF Rows
    <2>2. \A x \in Messages \cup Pointers : channelOf[x] \in Channels
      BY ChannelsAssumption
    <2>3. \A ch \in Channels : category[ch] \in Categories \cup {None}
      BY DEF IInv, TypeOK
    <2>4. ASSUME NEW x \in Messages \cup Pointers, Live(x)' PROVE Live(channelOf[x])'
      <3>1. Live(channelOf[x])
        <4>1. CASE Live(x) BY <4>1 DEF IInv, RowsBelong
        <4>2. CASE ~Live(x)
          <5>1. x = row[r] BY <1>7, <2>4, <4>2 DEF Live, Rows
          <5> QED BY <1>3, <4>2, <5>1
        <4> QED BY <4>1, <4>2
      <3> QED BY <2>1, <2>2, <3>1 DEF Live
    <2>5. ASSUME NEW p \in Pointers, Live(p)', lastRead'[p] # None
          PROVE  Live(lastRead[p])'
      <3>1. lastRead'[p] \in Messages BY <1>6, <2>5
      <3>2. Live(lastRead'[p])
        <4>1. CASE p = row[r]
          <5>1. lastRead'[p] = parent[r] BY <1>1, <1>3, <4>1 DEF IInv, TypeOK
          <5> QED BY <1>3, <5>1
        <4>2. CASE p # row[r]
          <5>1. lastRead'[p] = lastRead[p] BY <1>1, <4>2 DEF IInv, TypeOK
          <5>2. Live(p) BY <1>7, <2>5, <4>2 DEF Live, Rows
          <5> QED BY <2>5, <5>1, <5>2 DEF IInv, RowsBelong
        <4> QED BY <4>1, <4>2
      <3>3. state'[lastRead'[p]] = "live" BY <2>1, <3>1, <3>2 DEF Live
      <3> QED BY <3>3 DEF Live
    <2>6. \A x \in Categories \cup Channels : Live(x)' => Live(Server)'
      BY <2>1 DEF IInv, RowsBelong, Live
    <2>7. \A ch \in Channels : Live(ch)' /\ category'[ch] # None => Live(category[ch])'
      BY <1>1, <2>1, <2>3 DEF IInv, RowsBelong, Live
    <2> QED BY <2>4, <2>5, <2>6, <2>7 DEF RowsBelong
  <1>10. \A q \in Requests \ {r} : \A l \in held[q] : Worth(l)'
    <2>1. \A q \in Requests : \A l \in held[q] : l[1] \in Rows /\ Worth(l)
      BY DEF IInv, TypeOK, LocksHold
    <2> QED BY <1>7, <1>8, <2>1 DEF Worth, Live
  <1>11. RowStep(r)
    <2>1. todo'[r] = {} BY <1>2, <1>4 DEF Done, IInv, TypeOK
    <2> QED BY <1>1, <1>3, <1>7, <1>8, <2>1 DEF RowStep, Live
  <1>12. \A x \in Rows : ~(state[x] = "live" /\ state'[x] = "gone")
    BY <1>7, <1>8
  <1>13. \A w \in Rows \X Fields : writer'[w] \in {writer[w], r} BY <1>1
  <1> QED
    BY <1>1, <1>2, <1>4, <1>5, <1>6, <1>9, <1>10, <1>11, <1>12, <1>13, StatementKeeps
       DEF IInv, TypeOK

\* A deletion that has locked the whole of what it removes.
LEMMA RemoveKeeps ==
    ASSUME IInv, NEW r \in Requests, op[r] \in Deletes, Ready(r, "row"),
           NEW S, S = Whole(row[r]), Remove(S), EndStatement(r, "row"),
           Lockable(S, "delete") \subseteq held[r],
           category' \in [Channels -> Categories \cup {None}],
           writer' \in [Rows \X Fields -> Requests \cup {None}],
           \A w \in Rows \X Fields : writer'[w] \in {writer[w], r},
           RowsBelong'
    PROVE  IInv'
  <1>1. /\ held' = [held EXCEPT ![r] = {}]
        /\ failed' = failed
        /\ state' = [x \in Rows |-> IF x \in S /\ Live(x) THEN "gone" ELSE state[x]]
        /\ lastRead' = [p \in Pointers |->
                           IF lastRead[p] \in S THEN None ELSE lastRead[p]]
    BY DEF EndStatement, Remove
  <1>2. Done(r, "row", "deleted") /\ "deleted" \in Answers
    BY SuccessTold DEF EndStatement, Operations, Answers
  <1>3. /\ "row" \in todo[r] /\ todo[r] = {"row"}
        /\ row[r] \in Rows /\ row[r] \in S /\ op[r] \notin Updates
    BY DEF Ready, Executes, IInv, Sound, Whole, Deletes, Updates
  <1>4. /\ state' \in [Rows -> {"unused", "live", "gone"}]
        /\ lastRead' \in [Pointers -> Messages \cup {None}]
    BY <1>1 DEF IInv, TypeOK
  <1>5. RowStep(r) BY <1>1 DEF RowStep, Live
  <1>6. state'[row[r]] # "live" BY <1>1, <1>3 DEF Live
  <1>7. ASSUME NEW q \in Requests \ {r}, NEW l \in held[q] PROVE Worth(l)'
    <2>1. l[1] \in Rows /\ Worth(l) BY DEF IInv, TypeOK, LocksHold
    <2>2. CASE Live(l[1])
      <3>1. CASE l[1] \in S
        <4>1. Lockable({l[1]}, "delete") \subseteq held[r] BY <3>1 DEF Lockable
        <4> QED BY <2>2, <4>1, DeletesAlone
      <3>2. CASE l[1] \notin S
        BY <1>1, <2>1, <2>2, <3>2 DEF Worth, Live
      <3> QED BY <3>1, <3>2
    <2>3. CASE ~Live(l[1])
      BY <2>1, <2>3 DEF Worth
    <2> QED BY <2>2, <2>3
  <1>8. failed[r] = {}
    BY <1>3 DEF IInv, Sound
  <1>9. answer'[r] = "deleted" BY <1>2, <1>3 DEF Done, IInv, TypeOK
  <1>10. \A x \in Rows : state[x] = "live" /\ state'[x] = "gone" => x \in Whole(row[r])
    BY <1>1
  <1> QED
    BY <1>1, <1>2, <1>3, <1>4, <1>5, <1>6, <1>7, <1>8, <1>9, <1>10, StatementKeeps
       DEF IInv, TypeOK

LEMMA DeleteChannelKeeps ==
    ASSUME IInv, NEW r \in Requests, DeleteChannel(r)
    PROVE  IInv'
  <1> DEFINE S == {row[r]} \cup Within({row[r]})
  <1>1. /\ op[r] = "deleteChannel" /\ op[r] \in Deletes /\ Ready(r, "row")
        /\ EndStatement(r, "row") /\ Remove(S)
        /\ UNCHANGED <<category, writer>>
    BY DEF DeleteChannel, Match, Deletes
  <1>2. row[r] \in Channels /\ row[r] # Server
    BY <1>1, ChannelsAssumption DEF IInv, Sound
  <1>3. S = Whole(row[r]) BY <1>2 DEF Whole, Within
  <1>4. Lockable(S, "delete") \subseteq held[r]
    <2>1. OwnLocks(r) = Lockable({row[r]}, "delete")
      BY <1>1 DEF OwnLocks, ServerLocks, Creates, Updates, Deletes
    <2>2. Doomed(r) = {row[r]} BY <1>1 DEF Doomed
    <2>3. /\ Lockable(Within({row[r]}) \cap Messages, "delete") \subseteq AllLocks(r)
          /\ Lockable(Within({row[r]}) \cap Pointers, "delete") \subseteq AllLocks(r)
      BY <2>2 DEF AllLocks, MessageLocks, PointerLocks
    <2>4. Within({row[r]}) = (Within({row[r]}) \cap Messages)
                                \cup (Within({row[r]}) \cap Pointers)
      BY DEF Within
    <2>5. OwnLocks(r) \subseteq AllLocks(r) BY DEF AllLocks
    <2>6. AllLocks(r) \subseteq held[r] BY <1>1, ReadyHolds
    <2>7. ASSUME NEW l \in Lockable(S, "delete") PROVE l \in held[r]
      <3>1. PICK x \in S : Live(x) /\ l = <<x, "delete">> BY DEF Lockable
      <3>2. x \in {row[r]} \cup (Within({row[r]}) \cap Messages)
                   \cup (Within({row[r]}) \cap Pointers)
        BY <2>4
      <3> QED BY <2>1, <2>3, <2>5, <2>6, <3>1, <3>2 DEF Lockable
    <2> QED BY <2>7
  <1>5. RowsBelong'
    <2>1. /\ state' = [x \in Rows |-> IF x \in S /\ Live(x) THEN "gone" ELSE state[x]]
          /\ lastRead' = [p \in Pointers |->
                             IF lastRead[p] \in S THEN None ELSE lastRead[p]]
      BY <1>1 DEF Remove
    <2>2. \A x \in Rows : Live(x)' <=> Live(x) /\ x \notin S BY <2>1 DEF Live
    <2>3. \A x \in {Server} \cup Categories : x \in Rows /\ x \notin S
      BY <1>2, ChannelsAssumption DEF Rows, Within
    <2>4. \A x \in Channels : x \in Rows /\ (x \in S => x = row[r])
      BY ChannelsAssumption DEF Rows, Within
    <2>5. \A x \in Messages \cup Pointers :
             /\ x \in Rows /\ channelOf[x] \in Channels
             /\ x \notin S => channelOf[x] # row[r]
      BY ChannelsAssumption DEF Rows, Within
    <2>6. \A x \in Categories \cup Channels : Live(x)' => Live(Server)'
      BY <2>2, <2>3, <2>4 DEF IInv, RowsBelong
    <2>7. \A ch \in Channels : Live(ch)' /\ category'[ch] # None => Live(category[ch])'
      <3>1. \A ch \in Channels : category[ch] \in Categories \cup {None}
        BY DEF IInv, TypeOK
      <3> QED BY <1>1, <2>1, <2>2, <2>3, <2>4, <3>1 DEF IInv, RowsBelong, Live
    <2>8. \A x \in Messages \cup Pointers : Live(x)' => Live(channelOf[x])'
      BY <2>1, <2>2, <2>4, <2>5 DEF IInv, RowsBelong, Live
    <2>9. ASSUME NEW p \in Pointers, Live(p)', lastRead'[p] # None
          PROVE  Live(lastRead[p])'
      <3>1. lastRead'[p] = lastRead[p] /\ lastRead[p] \notin S BY <2>1, <2>9
      <3>2. lastRead[p] \in Rows BY <2>9, <3>1 DEF IInv, TypeOK, Rows
      <3>3. Live(lastRead[p]) BY <2>2, <2>5, <2>9, <3>1 DEF IInv, RowsBelong
      <3>4. state'[lastRead[p]] = "live" BY <2>1, <3>1, <3>2, <3>3 DEF Live
      <3> QED BY <3>1, <3>4 DEF Live
    <2> QED BY <2>6, <2>7, <2>8, <2>9 DEF RowsBelong
  <1>6. \A w \in Rows \X Fields : writer'[w] \in {writer[w], r} BY <1>1
  <1> HIDE DEF S
  <1> QED BY <1>1, <1>3, <1>4, <1>5, <1>6, RemoveKeeps DEF IInv, TypeOK

LEMMA DeleteCategoryKeeps ==
    ASSUME IInv, NEW r \in Requests, DeleteCategory(r)
    PROVE  IInv'
  <1>1. PICK D : D = Detached(row[r]) OBVIOUS
  <1>2. /\ op[r] = "deleteCategory" /\ op[r] \in Deletes /\ Ready(r, "row")
        /\ EndStatement(r, "row") /\ Remove({row[r]})
        /\ category' = [ch \in Channels |-> IF ch \in D THEN None ELSE category[ch]]
        /\ writer' = [w \in Rows \X Fields |->
                         IF w \in D \X {"category"} THEN r ELSE writer[w]]
    BY <1>1 DEF DeleteCategory, Deletes
  <1>3. row[r] \in Categories BY <1>2 DEF IInv, Sound
  <1>4. {row[r]} = Whole(row[r]) BY <1>3, ChannelsAssumption DEF Whole
  <1>5. Lockable({row[r]}, "delete") \subseteq held[r]
    <2>1. OwnLocks(r) = Lockable({row[r]}, "delete")
      BY <1>2 DEF OwnLocks, ServerLocks, Creates, Updates, Deletes
    <2> QED BY <1>2, <2>1, ReadyHolds DEF AllLocks
  <1>6. /\ category' \in [Channels -> Categories \cup {None}]
        /\ writer' \in [Rows \X Fields -> Requests \cup {None}]
        /\ \A w \in Rows \X Fields : writer'[w] \in {writer[w], r}
    BY <1>2 DEF IInv, TypeOK
  <1>7. RowsBelong'
    <2>1. /\ state' = [x \in Rows |->
                          IF x \in {row[r]} /\ Live(x) THEN "gone" ELSE state[x]]
          /\ lastRead' = [p \in Pointers |->
                             IF lastRead[p] \in {row[r]} THEN None ELSE lastRead[p]]
      BY <1>2 DEF Remove
    <2>2. \A x \in {Server} \cup Channels \cup Messages \cup Pointers :
             state'[x] = state[x]
      BY <1>3, <2>1, ChannelsAssumption DEF Rows
    <2>3. \A x \in Categories : x # row[r] => state'[x] = state[x]
      BY <2>1 DEF Rows
    <2>4. state'[row[r]] # "live" BY <1>3, <2>1 DEF Live, Rows
    <2>5. \A x \in Categories \cup Channels : Live(x)' => Live(Server)'
      BY <2>2, <2>3, <2>4 DEF IInv, RowsBelong, Live
    <2>6. ASSUME NEW ch \in Channels, Live(ch)', category'[ch] # None
          PROVE  Live(category[ch])'
      <3>1. Live(ch) BY <2>2, <2>6 DEF Live
      <3>2. ch \notin D /\ category'[ch] = category[ch] BY <1>2, <2>6
      <3>3. category[ch] # row[r] BY <1>1, <3>1, <3>2 DEF Detached
      <3>4. Live(category[ch]) BY <2>6, <3>1, <3>2 DEF IInv, RowsBelong
      <3>5. category[ch] \in Categories BY <2>6, <3>2 DEF IInv, TypeOK
      <3>6. state'[category'[ch]] = "live" BY <2>3, <3>2, <3>3, <3>4, <3>5 DEF Live
      <3> QED BY <3>6 DEF Live
    <2>7. \A x \in Messages \cup Pointers : channelOf[x] \in Channels
      BY ChannelsAssumption
    <2>8. \A x \in Messages \cup Pointers : Live(x)' => Live(channelOf[x])'
      BY <2>2, <2>7 DEF IInv, RowsBelong, Live
    <2>9. ASSUME NEW p \in Pointers, Live(p)', lastRead'[p] # None
          PROVE  Live(lastRead[p])'
      <3>1. lastRead'[p] = lastRead[p] BY <2>1, <2>9
      <3>2. lastRead[p] \in Messages BY <2>9, <3>1 DEF IInv, TypeOK
      <3>3. Live(lastRead[p]) BY <2>2, <2>9, <3>1 DEF IInv, RowsBelong, Live
      <3>4. state'[lastRead'[p]] = "live" BY <2>2, <3>1, <3>2, <3>3 DEF Live
      <3> QED BY <3>4 DEF Live
    <2> QED BY <2>5, <2>6, <2>8, <2>9 DEF RowsBelong
  <1> QED BY <1>2, <1>4, <1>5, <1>6, <1>7, RemoveKeeps

LEMMA DeleteServerKeeps ==
    ASSUME IInv, NEW r \in Requests, DeleteServer(r)
    PROVE  IInv'
  <1>1. /\ op[r] = "deleteServer" /\ op[r] \in Deletes /\ Ready(r, "row")
        /\ EndStatement(r, "row") /\ Remove(Rows)
        /\ UNCHANGED <<category, writer>>
    BY DEF DeleteServer, Deletes
  <1>2. row[r] = Server BY <1>1 DEF IInv, Sound
  <1>3. Rows = Whole(row[r]) BY <1>2 DEF Whole
  <1>4. Lockable(Rows, "delete") \subseteq held[r]
    <2>1. OwnLocks(r) = Lockable({Server}, "delete")
      BY <1>1, <1>2 DEF OwnLocks, ServerLocks, Creates, Updates, Deletes
    <2>2. KeyLocks(r) = Lockable(Categories, "delete") BY <1>1 DEF KeyLocks
    <2>3. Doomed(r) = Channels BY <1>1 DEF Doomed
    <2>4. Within(Channels) = Messages \cup Pointers
      BY ChannelsAssumption DEF Within
    <2>5. ChannelLocks(r) = Lockable(Channels, "delete")
      BY <1>1, <2>3 DEF ChannelLocks
    <2>6. MessageLocks(r) = Lockable(Messages, "delete")
      BY <2>3, <2>4, ChannelsAssumption DEF MessageLocks, Lockable
    <2>7. Lockable(Pointers, "delete") \subseteq PointerLocks(r)
      BY <2>3, <2>4, ChannelsAssumption DEF PointerLocks, Lockable
    <2>8. ASSUME NEW l \in Lockable(Rows, "delete") PROVE l \in held[r]
      <3>1. PICK x \in Rows : Live(x) /\ l = <<x, "delete">> BY DEF Lockable
      <3>2. l \in Lockable({Server}, "delete") \cup Lockable(Categories, "delete")
                   \cup Lockable(Channels, "delete") \cup Lockable(Messages, "delete")
                   \cup Lockable(Pointers, "delete")
        BY <3>1 DEF Lockable, Rows
      <3>3. l \in AllLocks(r)
        BY <2>1, <2>2, <2>5, <2>6, <2>7, <3>2 DEF AllLocks
      <3> QED BY <1>1, <3>3, ReadyHolds
    <2> QED BY <2>8
  <1>5. RowsBelong'
    <2>1. \A x \in Rows : ~Live(x)' BY <1>1 DEF Remove, Live
    <2> QED BY <2>1 DEF RowsBelong, Rows
  <1>6. \A w \in Rows \X Fields : writer'[w] \in {writer[w], r} BY <1>1
  <1> QED BY <1>1, <1>3, <1>4, <1>5, <1>6, RemoveKeeps DEF IInv, TypeOK

LEMMA FailKeeps ==
    ASSUME IInv, NEW r \in Requests, NEW f \in Statements, Fail(r, f)
    PROVE  IInv'
  <1>1. /\ f \in todo[r]
        /\ Done(r, f, AfterError(r)) /\ held' = [held EXCEPT ![r] = {}]
        /\ UNCHANGED <<state, category, lastRead, writer>>
        /\ failed' = [failed EXCEPT ![r] = @ \cup {f}]
    BY DEF Fail, Released, Executes, tables
  <1>2. op[r] \in Operations BY <1>1 DEF IInv, TypeOK, Sound
  <1>3. AfterError(r) \in Answers /\ (AfterError(r) = "deleted" => op[r] \in Deletes)
    BY <1>2, SuccessTold DEF Operations
  <1>4. /\ f \in failed'[r] /\ failed[r] \subseteq failed'[r]
        /\ failed'[r] \subseteq failed[r] \cup {f}
        /\ \A q \in Requests \ {r} : failed'[q] = failed[q]
        /\ failed' \in [Requests -> SUBSET Statements]
    BY <1>1 DEF IInv, TypeOK
  <1>5. RowsBelong' BY <1>1 DEF IInv, RowsBelong, Live
  <1>6. RowStep(r) BY <1>1 DEF RowStep
  <1>7. \A q \in Requests \ {r} : \A l \in held[q] : Worth(l)'
    BY <1>1 DEF IInv, LocksHold, Worth, Live
  <1>8. \A w \in Rows \X Fields : writer'[w] \in {writer[w], r} BY <1>1
  <1> QED
    BY <1>1, <1>3, <1>4, <1>5, <1>6, <1>7, <1>8, StatementKeeps
       DEF IInv, TypeOK

-----------------------------------------------------------------------------
(* Who waits for whom.                                                     *)

\* The lock of its own row comes before any other.
OwnFirst(r) == op[r] # None /\ held[r] # {} => OwnLocks(r) \subseteq held[r]

\* The creation of a channel has the locks of two foreign keys at most.
Shares(r) ==
    op[r] = "createChannel" =>
        held[r] \subseteq {<<Server, "share">>, <<parent[r], "share">>}

WInv == \A r \in Requests : OwnFirst(r) /\ Shares(r)

\* A row that comes to be there is that of an INSERT.
LEMMA StatementRows ==
    ASSUME IInv, NEW r \in Requests, Statement(r), NEW x \in Rows, Live(x)'
    PROVE  Live(x) \/ (x # Server /\ state[x] = "unused")
  <1>1. CASE UNCHANGED state BY <1>1 DEF Live
  <1>2. CASE \E S : Remove(S) BY <1>2 DEF Remove, Live
  <1>3. CASE InsertChannel(r) \/ InsertCategory(r)
    <2>1. /\ op[r] \in {"createChannel", "createCategory"} /\ "row" \in todo[r]
          /\ state' = [state EXCEPT ![row[r]] = "live"]
      BY <1>3 DEF InsertChannel, InsertCategory, InsertRow, Ready, Executes
    <2>2. row[r] # Server /\ state[row[r]] = "unused"
      BY <2>1, ChannelsAssumption DEF IInv, Sound, Lifecycle, Creates
    <2> QED BY <2>1, <2>2 DEF IInv, TypeOK, Live
  <1>4. CASE Upsert(r)
    <2>1. /\ op[r] = "ackMessages" /\ Ready(r, "row")
          /\ state' = [state EXCEPT ![row[r]] = "live"]
      BY <1>4 DEF Upsert
    <2>2. row[r] # Server /\ (~Live(row[r]) => state[row[r]] = "unused")
      BY <2>1, AckFinds, ChannelsAssumption
    <2> QED BY <2>1, <2>2 DEF IInv, TypeOK, Live
  <1> QED
    BY <1>1, <1>2, <1>3, <1>4
       DEF Statement, UpdateField, MoveChannel, DeleteChannel, DeleteCategory,
           DeleteServer, ForeignKeyError, DeadlockError, OtherError, Fail, tables

\* Nobody waits in a circle for whom only those wait that hold nothing.
LEMMA NoCircle ==
    ASSUME NEW r \in Requests,
           \A q \in Requests : r \in WaitsFor(q) => held[q] = {}
    PROVE  ~InCircle(r)
  <1> DEFINE S == {q \in Requests : q # r /\ r \notin WaitsFor(q)}
  <1>1. ASSUME NEW q \in Requests, r \notin WaitsFor(q) \/ q = r
        PROVE  WaitsFor(q) \subseteq S
    <2> SUFFICES ASSUME NEW p \in WaitsFor(q) PROVE p \in S OBVIOUS
    <2>1. p \in Requests /\ p # q /\ held[p] # {} BY DEF WaitsFor, Blocks
    <2> QED BY <1>1, <2>1
  <1>2. S \in SUBSET Requests /\ r \notin S OBVIOUS
  <1>3. WaitsFor(r) \subseteq S /\ \A q \in S : WaitsFor(q) \subseteq S BY <1>1
  <1> HIDE DEF S
  <1> QED BY <1>2, <1>3 DEF InCircle

\* To create a row or to change a field that refers to nothing waits in no circle.
LEMMA OthersWaitInLine ==
    ASSUME IInv, WInv, NEW r \in Requests, NEW f \in Statements,
           Executes(r, f), f # "category", op[r] \notin Deletes \cup {"ackMessages"}
    PROVE  ~InCircle(r)
  <1> SUFFICES ASSUME InCircle(r) PROVE FALSE OBVIOUS
  <1>1. op[r] \in Creates \cup Updates
    BY DEF Executes, IInv, TypeOK, Sound, Operations
  <1>2. held[r] # {}
    <2>1. \E q \in Requests : r \in WaitsFor(q) /\ held[r] # {}
      <3>1. PICK q \in Requests : r \in WaitsFor(q) /\ held[q] # {} BY NoCircle
      <3> QED BY <3>1 DEF WaitsFor, Blocks
    <2> QED BY <2>1
  <1>3. Wanted(r) # {}
    <2>1. WaitsFor(r) # {}
      <3> SUFFICES ASSUME WaitsFor(r) = {} PROVE ~InCircle(r) OBVIOUS
      <3>1. {} \in SUBSET Requests OBVIOUS
      <3> QED BY <3>1 DEF InCircle
    <2> QED BY <2>1 DEF WaitsFor
  <1>4. OwnLocks(r) \subseteq held[r]
    <2>1. op[r] # None BY <1>1, ChannelsAssumption DEF Operations
    <2> QED BY <1>2, <2>1 DEF WInv, OwnFirst
  <1>5. PICK l \in Lockable(NewKeys(r), "share") : l \notin held[r]
    <2>1. op[r] \notin Deletes OBVIOUS
    <2>2. AllLocks(r) = OwnLocks(r) \cup Lockable(NewKeys(r), "share")
      BY <2>1, FewLocks
    <2>3. Wanted(r) \subseteq AllLocks(r) \ held[r] BY WantedLocks
    <2> QED BY <1>3, <1>4, <2>2, <2>3
  <1>6. NewKeys(r) # {} BY <1>5 DEF Lockable
  <1>7. ~Executes(r, "category")
    <2>1. CASE "category" \in todo[r]
      <3>1. f \in Fields \ {"category", "icon"}
        BY <1>1, <2>1
           DEF Executes, IInv, Sound, Statements, Creates, Updates
      <3>2. f = "name"
        <4>1. "category" \in Before["position"] BY DEF Before
        <4> QED BY <2>1, <3>1, <4>1 DEF Executes, Fields
      <3> QED BY <3>2 DEF Executes, Before
    <2> QED BY <2>1 DEF Executes
  <1>8. op[r] = "createChannel" BY <1>6, <1>7 DEF NewKeys
  <1>9. held[r] \subseteq {<<Server, "share">>}
    <2>1. l = <<parent[r], "share">> BY <1>5, <1>8 DEF NewKeys, Lockable
    <2> QED BY <1>5, <1>8, <2>1 DEF WInv, Shares
  <1>10. ASSUME NEW q \in Requests, r \in WaitsFor(q) PROVE held[q] = {}
    <2>1. PICK k \in Wanted(q) : Blocks(r, q, k) BY <1>10 DEF WaitsFor
    <2>2. k[1] = Server BY <1>9, <2>1 DEF Blocks
    <2>3. op[q] # None BY WantedLocks DEF IInv, Sound
    <2>4. k \notin KeyLocks(q)
      <3>1. \A S, mode : k \in Lockable(S, mode) => Server \in S
        BY <2>2 DEF Lockable
      <3> QED BY <3>1, KeysTyped, ChannelsAssumption DEF KeyLocks
    <2>5. k \notin ChannelLocks(q) \cup MessageLocks(q) \cup PointerLocks(q)
      BY <2>2, CascadeLocks, ChannelsAssumption
    <2>6. k \in AllLocks(q) \ held[q] BY WantedLocks
    <2>7. k \in OwnLocks(q) \ held[q] BY <2>4, <2>5, <2>6 DEF AllLocks
    <2> QED BY <2>3, <2>7 DEF WInv, OwnFirst
  <1> QED BY <1>10, NoCircle

LEMMA WaitsInit == Init => WInv
  BY DEF Init, WInv, OwnFirst, Shares

LEMMA OwnOne ==
    ASSUME IInv, NEW r \in Requests, op[r] # None
    PROVE  /\ op[r] \in Operations
           /\ op[r] \in Creates => OwnLocks(r) = Lockable({Server}, "share")
           /\ op[r] \in Updates => OwnLocks(r) = Lockable({row[r]}, "update")
           /\ op[r] \in Deletes => OwnLocks(r) = Lockable({row[r]}, "delete")
           /\ op[r] = "ackMessages" => OwnLocks(r) = {<<row[r], "update">>}
           /\ \A k, l \in OwnLocks(r) : k = l
  <1>1. op[r] \in Operations BY DEF IInv, TypeOK
  <1>2. /\ op[r] \in Creates => OwnLocks(r) = Lockable({Server}, "share")
        /\ op[r] \in Updates => OwnLocks(r) = Lockable({row[r]}, "update")
        /\ op[r] \in Deletes => OwnLocks(r) = Lockable({row[r]}, "delete")
        /\ op[r] = "ackMessages" => OwnLocks(r) = {<<row[r], "update">>}
    BY DEF OwnLocks, ServerLocks, Creates, Updates, Deletes
  <1>3. ASSUME NEW x, NEW mode, NEW k \in Lockable({x}, mode) PROVE k = <<x, mode>>
    BY DEF Lockable
  <1>4. CASE op[r] = "ackMessages" BY <1>1, <1>2, <1>4
  <1>5. CASE op[r] # "ackMessages"
    <2>1. PICK x, mode : OwnLocks(r) = Lockable({x}, mode)
      BY <1>1, <1>2, <1>5 DEF Operations
    <2>2. \A k \in OwnLocks(r) : k = <<x, mode>> BY <1>3, <2>1
    <2> QED BY <1>1, <1>2, <2>2
  <1> QED BY <1>4, <1>5

LEMMA WaitsStep == IInv /\ WInv /\ IInv' /\ [Next]_vars => WInv'
  <1> SUFFICES ASSUME IInv, WInv, IInv', [Next]_vars PROVE WInv' OBVIOUS
  <1>1. CASE UNCHANGED vars
    BY <1>1 DEF vars, tables, body, WInv, OwnFirst, Shares, OwnLocks, ServerLocks,
                Lockable, Live
  <1>2. ASSUME NEW r \in Requests, Request(r) PROVE WInv'
    <2>1. /\ op[r] = None
          /\ UNCHANGED <<state, held>>
          /\ \A q \in Requests \ {r} :
                op'[q] = op[q] /\ row'[q] = row[q] /\ parent'[q] = parent[q]
      BY <1>2 DEF Request, createChannel, updateChannel, deleteChannel, createCategory,
                  updateCategory, deleteCategory, updateServer, deleteServer,
                  ackMessages, Ask, tables, IInv, TypeOK
    <2>2. held'[r] = {} BY <2>1 DEF IInv, Sound
    <2>3. ASSUME NEW q \in Requests PROVE (OwnFirst(q) /\ Shares(q))'
      <3>1. CASE q = r BY <2>2, <3>1 DEF OwnFirst, Shares
      <3>2. CASE q # r
        BY <2>1, <3>2 DEF WInv, OwnFirst, Shares, OwnLocks, ServerLocks, Lockable,
                          Live
      <3> QED BY <3>1, <3>2
    <2> QED BY <2>3 DEF WInv
  <1>3. ASSUME NEW r \in Requests, Lock(r) PROVE WInv'
    <2>1. PICK l \in Wanted(r) :
             /\ held' = [held EXCEPT ![r] = @ \cup {l}]
             /\ UNCHANGED <<tables, body, todo, answer, failed>>
      BY <1>3 DEF Lock
    <2>2. op[r] # None BY WantedLocks DEF IInv, Sound
    <2>3. ASSUME NEW q \in Requests PROVE OwnFirst(q)'
      <3>1. OwnLocks(q)' = OwnLocks(q)
        BY <2>1 DEF tables, body, OwnLocks, ServerLocks, Lockable, Live
      <3>2. op'[q] = op[q] BY <2>1 DEF body
      <3>3. CASE q # r
        <4>1. held'[q] = held[q] BY <2>1, <3>3 DEF IInv, TypeOK
        <4> QED BY <3>1, <3>2, <4>1 DEF WInv, OwnFirst
      <3>4. CASE q = r
        <4>1. held'[r] = held[r] \cup {l} BY <2>1 DEF IInv, TypeOK
        <4>2. ~(OwnLocks(r) \subseteq held[r]) => l \in OwnLocks(r)
          BY WantedLocks
        <4>3. OwnLocks(r) \subseteq held'[r] BY <2>2, <4>1, <4>2, OwnOne
        <4> QED BY <3>1, <3>4, <4>3 DEF OwnFirst
      <3> QED BY <3>3, <3>4
    <2>4. ASSUME NEW q \in Requests PROVE Shares(q)'
      <3>1. CASE q # r
        BY <2>1, <3>1 DEF IInv, TypeOK, WInv, Shares, body
      <3>2. CASE q = r
        <4> SUFFICES ASSUME op[r] = "createChannel"
                     PROVE  l \in {<<Server, "share">>, <<parent[r], "share">>}
          BY <2>1, <3>2 DEF IInv, TypeOK, WInv, Shares, body
        <4>1. OwnLocks(r) \subseteq {<<Server, "share">>}
          BY <2>2, OwnOne DEF Creates, Lockable
        <4>2. Lockable(NewKeys(r), "share") \subseteq {<<parent[r], "share">>}
          BY DEF NewKeys, Lockable
        <4>3. AllLocks(r) = OwnLocks(r) \cup Lockable(NewKeys(r), "share")
          BY FewLocks DEF Deletes
        <4> QED BY <4>1, <4>2, <4>3, WantedLocks
      <3> QED BY <3>1, <3>2
    <2> QED BY <2>3, <2>4 DEF WInv
  <1>4. ASSUME NEW r \in Requests, Statement(r) PROVE WInv'
    <2>1. /\ held' = [held EXCEPT ![r] = {}]
          /\ UNCHANGED <<op, row, parent>>
      <3>1. CASE \E f \in Statements : EndStatement(r, f)
        BY <3>1 DEF EndStatement, Done, body
      <3>2. CASE \E f \in Statements : Fail(r, f)
        BY <3>2 DEF Fail, Released, Done, body
      <3> QED
        BY <1>4, <3>1, <3>2
           DEF Statement, UpdateField, MoveChannel, InsertChannel, InsertCategory,
               InsertRow, Upsert, DeleteChannel, DeleteCategory, DeleteServer,
               ForeignKeyError, DeadlockError, OtherError, Statements, Fields
    <2>2. ASSUME NEW q \in Requests PROVE OwnFirst(q)'
      <3>1. CASE q = r
        <4>1. held'[q] = {} BY <2>1, <3>1 DEF IInv, TypeOK
        <4> QED BY <4>1 DEF OwnFirst
      <3>2. CASE q # r
        <4> SUFFICES ASSUME op[q] # None, held[q] # {}
                     PROVE  OwnLocks(q)' \subseteq held[q]
          BY <2>1, <3>2 DEF IInv, TypeOK, OwnFirst
        <4>1. OwnLocks(q) \subseteq held[q] BY DEF WInv, OwnFirst
        <4>2. OwnLocks(q)' \subseteq OwnLocks(q)
          <5>1. Server \in Rows /\ (Live(Server)' => Live(Server))
            BY <1>4, StatementRows DEF Rows
          <5>2. op[q] \in Updates \cup Deletes => (Live(row[q])' => Live(row[q]))
            <6>1. row[q] \in Rows BY DEF IInv, Sound
            <6>2. op[q] \in Updates \cup Deletes => state[row[q]] # "unused"
              BY DEF IInv, Lifecycle
            <6> QED BY <1>4, <2>1, <6>1, <6>2, StatementRows DEF Live
          <5>3. op[q] \in Creates \cup Updates \cup Deletes \cup {"ackMessages"}
            BY DEF IInv, TypeOK, Operations
          <5>4. /\ op[q] \in Creates => OwnLocks(q)' = Lockable({Server}, "share")'
                /\ op[q] \in Updates => OwnLocks(q)' = Lockable({row[q]}, "update")'
                /\ op[q] \in Deletes => OwnLocks(q)' = Lockable({row[q]}, "delete")'
                /\ op[q] = "ackMessages" => OwnLocks(q)' = {<<row[q], "update">>}
            BY <2>1 DEF OwnLocks, ServerLocks, Creates, Updates, Deletes, Lockable,
                        Live
          <5>5. CASE op[q] \in Creates
            <6>1. OwnLocks(q)' = Lockable({Server}, "share")' BY <5>4, <5>5
            <6>2. OwnLocks(q) = Lockable({Server}, "share") BY <5>5, OwnOne
            <6> QED BY <5>1, <6>1, <6>2 DEF Lockable
          <5>6. CASE op[q] \in Updates
            <6>1. OwnLocks(q)' = Lockable({row[q]}, "update")' BY <5>4, <5>6
            <6>2. OwnLocks(q) = Lockable({row[q]}, "update") BY <5>6, OwnOne
            <6> QED BY <2>1, <5>2, <5>6, <6>1, <6>2 DEF Lockable
          <5>7. CASE op[q] \in Deletes
            <6>1. OwnLocks(q)' = Lockable({row[q]}, "delete")' BY <5>4, <5>7
            <6>2. OwnLocks(q) = Lockable({row[q]}, "delete") BY <5>7, OwnOne
            <6> QED BY <2>1, <5>2, <5>7, <6>1, <6>2 DEF Lockable
          <5>8. CASE op[q] = "ackMessages"
            <6>1. OwnLocks(q)' = {<<row[q], "update">>} BY <5>4, <5>8
            <6>2. OwnLocks(q) = {<<row[q], "update">>} BY <5>8, OwnOne
            <6> QED BY <6>1, <6>2
          <5> QED BY <5>3, <5>5, <5>6, <5>7, <5>8
        <4> QED BY <4>1, <4>2
      <3> QED BY <3>1, <3>2
    <2>3. ASSUME NEW q \in Requests PROVE Shares(q)'
      BY <2>1 DEF IInv, TypeOK, WInv, Shares
    <2> QED BY <2>2, <2>3 DEF WInv
  <1> QED BY <1>1, <1>2, <1>3, <1>4 DEF Next

-----------------------------------------------------------------------------
(* Nobody waits for ever.                                                  *)

LEMMA SomeStatement ==
    ASSUME IInv, NEW r \in Requests, todo[r] # {}
    PROVE  \E f \in Statements : Executes(r, f)
  <1>1. todo[r] \subseteq Statements BY DEF IInv, TypeOK
  <1>2. CASE "row" \in todo[r]
    BY <1>2 DEF Executes, Before, Statements
  <1>3. CASE "name" \in todo[r]
    BY <1>3 DEF Executes, Before, Statements, Fields
  <1>4. CASE "name" \notin todo[r] /\ "category" \in todo[r]
    BY <1>4 DEF Executes, Before, Statements, Fields
  <1>5. CASE todo[r] \cap {"name", "category"} = {} /\ "position" \in todo[r]
    BY <1>5 DEF Executes, Before, Statements, Fields
  <1>6. CASE todo[r] \cap {"name", "category"} = {} /\ "icon" \in todo[r]
    BY <1>6 DEF Executes, Before, Statements, Fields
  <1> QED BY <1>1, <1>2, <1>3, <1>4, <1>5, <1>6 DEF Statements, Fields

\* A request that cannot go on waits for another.
LEMMA StuckWaits ==
    ASSUME IInv, NEW r \in Requests, todo[r] # {}, ~CanGoOn(r)
    PROVE  WaitsFor(r) # {}
  <1> SUFFICES ASSUME WaitsFor(r) = {} PROVE FALSE OBVIOUS
  <1>1. PICK f \in Statements : Executes(r, f) BY SomeStatement
  <1>2. Wanted(r) = {}
    <2> SUFFICES ASSUME NEW l \in Wanted(r) PROVE FALSE OBVIOUS
    <2>1. Free(r, l) BY DEF WaitsFor, Free
    <2> QED BY <2>1 DEF CanGoOn
  <1>3. OwnLocks(r) \subseteq held[r] /\ KeyLocks(r) \subseteq held[r]
    BY <1>2, WantedLocks DEF AllLocks
  <1>4. \A x \in Keys(r) : Live(x) BY <1>1, <1>3 DEF CanGoOn, Dangles
  <1>5. ASSUME NEW x \in Keys(r) PROVE <<x, "share">> \in held[r]
    <2>1. CASE x \in NewKeys(r)
      <3>1. op[r] # "deleteServer"
        BY <2>1 DEF NewKeys, Executes, IInv, Sound
      <3> QED BY <1>3, <1>4, <2>1, <3>1 DEF KeyLocks, Lockable
    <2>2. CASE x = Server /\ op[r] \in Creates
      <3>1. OwnLocks(r) = Lockable({Server}, "share")
        BY <2>2 DEF OwnLocks, ServerLocks, Creates, Updates, Deletes
      <3> QED BY <1>3, <1>4, <2>2, <3>1 DEF Lockable
    <2> QED BY <2>1, <2>2 DEF Keys
  <1>6. Ready(r, f) BY <1>1, <1>2, <1>5 DEF Ready
  <1> QED BY <1>6 DEF CanGoOn

LEMMA BlockersWork ==
    ASSUME IInv, NEW r \in Requests, NEW q \in WaitsFor(r)
    PROVE  q \in Requests /\ todo[q] # {}
  BY DEF WaitsFor, Blocks, IInv, Sound

\* Those r waits for, directly or through others.
Behind(r) ==
    {q \in Requests :
        \A S \in SUBSET Requests :
            WaitsFor(r) \subseteq S /\ (\A p \in S : WaitsFor(p) \subseteq S)
            => q \in S}

LEMMA BehindShrinks ==
    ASSUME NEW r \in Requests, NEW q \in WaitsFor(r), ~InCircle(q)
    PROVE  <<Behind(q), Behind(r)>> \in StrictSubsetOrdering(Requests)
  <1>1. q \in Requests BY DEF WaitsFor
  <1>2. Behind(q) \in SUBSET Requests /\ Behind(r) \in SUBSET Requests BY DEF Behind
  <1>3. q \in Behind(r) BY <1>1 DEF Behind
  <1>4. q \notin Behind(q) BY <1>1 DEF Behind, InCircle
  <1>5. Behind(q) \subseteq Behind(r)
    <2> SUFFICES ASSUME NEW p \in Behind(q), NEW S \in SUBSET Requests,
                        WaitsFor(r) \subseteq S, \A s \in S : WaitsFor(s) \subseteq S
                 PROVE  p \in S
      BY <1>2 DEF Behind
    <2>1. WaitsFor(q) \subseteq S OBVIOUS
    <2> QED BY <2>1 DEF Behind
  <1> QED BY <1>2, <1>3, <1>4, <1>5 DEF StrictSubsetOrdering

LEMMA SomeoneGoesOn == IInv => NeverStuck
  <1> SUFFICES ASSUME IInv, NEW r \in Requests, NEW S \in SUBSET Requests,
                      todo[r] # {}, r \in S, \A q \in S : WaitsFor(q) \subseteq S,
                      \A q \in S : ~CanGoOn(q)
               PROVE  FALSE
    BY DEF NeverStuck
  <1> DEFINE T == {q \in S : todo[q] # {}}
             B == {Behind(q) : q \in T}
  <1>1. IsWellFoundedOn(StrictSubsetOrdering(Requests), SUBSET Requests)
    <2>1. IsFiniteSet(Requests) BY ChannelsAssumption
    <2> QED BY <2>1, FS_StrictSubsetOrderingWellFounded, FS_FiniteSubsetsOfFinite
  <1>2. B \subseteq SUBSET Requests BY DEF Behind
  <1>3. B # {} OBVIOUS
  <1> HIDE DEF B
  <1>4. PICK X \in B : \A Y \in B : <<Y, X>> \notin StrictSubsetOrdering(Requests)
    BY <1>1, <1>2, <1>3, WFMin
  <1>5. PICK q \in T : X = Behind(q) BY DEF B
  <1>6. PICK p \in WaitsFor(q) : TRUE BY StuckWaits
  <1>7. p \in T BY <1>6, BlockersWork
  <1>8. ~InCircle(p) BY <1>7 DEF CanGoOn
  <1>9. <<Behind(p), X>> \in StrictSubsetOrdering(Requests)
    BY <1>5, <1>6, <1>8, BehindShrinks
  <1> QED BY <1>4, <1>7, <1>9 DEF B

-----------------------------------------------------------------------------
(* Channels implements Catalog: the locks are how each statement happens   *)
(* at one moment.                                                          *)

LEMMA PromiseInit == Init => Promise!Init
  <1> SUFFICES ASSUME Init PROVE Promise!Init OBVIOUS
  <1>1. PICK S \in SUBSET (Rows \ {Server}) :
           /\ \A x \in S \cap (Messages \cup Pointers) : channelOf[x] \in S
           /\ state = [x \in Rows |->
                          IF x \in S \cup {Server} THEN "live" ELSE "unused"]
           /\ category \in [Channels -> (Categories \cap S) \cup {None}]
           /\ \A ch \in Channels \ S : category[ch] = None
           /\ lastRead \in [Pointers -> (Messages \cap S) \cup {None}]
           /\ \A p \in Pointers \ S : lastRead[p] = None
    BY DEF Init
  <1>2. /\ state \in [Rows -> {"unused", "live"}]
        /\ state[Server] = "live"
        /\ category \in [Channels -> Categories \cup {None}]
        /\ lastRead \in [Pointers -> Messages \cup {None}]
    BY <1>1 DEF Rows
  <1>3. \A ch \in Channels : category[ch] # None => state[category[ch]] = "live"
    BY <1>1 DEF Rows
  <1>4. \A p \in Pointers : lastRead[p] # None => state[lastRead[p]] = "live"
    BY <1>1 DEF Rows
  <1>5. \A x \in Messages \cup Pointers :
           state[x] = "live" => state[channelOf[x]] = "live"
    <2>1. \A x \in Messages \cup Pointers :
             x \in Rows /\ x # Server /\ channelOf[x] \in Rows
      BY ChannelsAssumption DEF Rows
    <2> QED BY <1>1, <2>1
  <1> QED
    BY <1>2, <1>3, <1>4, <1>5
       DEF Init, Rows, Fields, Promise!Init, Promise!Rows, Promise!Fields, Promise!Live

LEMMA RequestComes ==
    ASSUME NEW r \in Requests, Request(r)
    PROVE  Promise!Come(r)
  <1>1. PICK o \in Operations, x \in Rows, c \in Categories \cup Messages \cup {None},
             F \in SUBSET Statements : Asks(r, o, x, c, F)
    BY RequestAsks
  <1>2. /\ op[r] = None /\ Promise!Live(Server)
        /\ op' = [op EXCEPT ![r] = o] /\ row' = [row EXCEPT ![r] = x]
        /\ parent' = [parent EXCEPT ![r] = c] /\ todo' = [todo EXCEPT ![r] = F]
        /\ UNCHANGED <<state, category, lastRead, writer, failed, answer>>
    BY <1>1 DEF Asks, Ask, Live, tables, Promise!Live
  <1>3. x \in Promise!RowsOf(o)
    BY <1>1 DEF Asks, Promise!RowsOf, Operations, Creates, Updates, Deletes
  <1>4. IF o \in Creates THEN state[x] = "unused" /\ \A q \in Requests : row[q] # x
                         ELSE state[x] # "unused" \/ o = "ackMessages"
    BY <1>1 DEF Asks, Fresh, Seen, Operations
  <1>5. F \in (SUBSET IF o \in Updates THEN Fields ELSE {"row"}) \ {{}}
    BY <1>1 DEF Asks, Statements, Operations
  <1> QED
    BY <1>2, <1>3, <1>4, <1>5
       DEF Promise!Come, Promise!tables, Promise!Creates, Promise!Updates,
           Promise!Deletes, Promise!Fields, Operations, Creates, Updates, Deletes,
           Fields

LEMMA SameAnswers ==
    ASSUME NEW r
    PROVE  /\ Promise!Success(r) = Success(r)
           /\ Promise!AfterError(r) = AfterError(r)
  BY DEF Success, AfterError, Promise!Success, Promise!AfterError, Creates, Updates,
         Deletes, Promise!Creates, Promise!Updates, Promise!Deletes

LEMMA DoneEnds ==
    ASSUME NEW r \in Requests, NEW f \in todo[r], NEW says, Done(r, f, says)
    PROVE  Promise!Ends(r, f, says)
  BY DEF Done, body, Promise!Ends

LEMMA EndSucceeds ==
    ASSUME NEW r \in Requests, NEW f \in todo[r], EndStatement(r, f),
           \A x \in Promise!Refers(r, f) : Promise!Live(x)
    PROVE  Promise!Succeeds(r, f)
  <1>1. PICK says \in {Success(r), AfterError(r)} : Done(r, f, says)
    BY DEF EndStatement
  <1>2. Promise!Ends(r, f, says) BY <1>1, DoneEnds
  <1> QED BY <1>2, SameAnswers DEF EndStatement, Promise!Succeeds

LEMMA UpdateImplements ==
    ASSUME IInv, NEW r \in Requests,
           NEW f \in Fields,
           UpdateField(r, f) \/ (f = "category" /\ MoveChannel(r))
    PROVE  Promise!Update(r, f)
  <1>1. /\ op[r] \in Updates /\ f \in todo[r] /\ Ready(r, f)
        /\ EndStatement(r, f)
        /\ UNCHANGED <<state, lastRead>>
        /\ writer' = IF Live(row[r]) THEN [writer EXCEPT ![<<row[r], f>>] = r]
                                     ELSE writer
        /\ category' = IF f = "category" /\ Live(row[r])
                         THEN [category EXCEPT ![row[r]] = parent[r]] ELSE category
    BY DEF UpdateField, MoveChannel, Writes, Ready, Executes, Updates
  <1>2. ASSUME NEW x \in Promise!Refers(r, f) PROVE Promise!Live(x)
    <2>1. op[r] = "updateChannel" /\ f = "category" /\ Live(row[r]) /\ x = parent[r]
      BY <1>1, <1>2 DEF Promise!Refers, Promise!Live, Live, Updates
    <2> QED BY <1>1, <2>1, MoveFinds DEF Live, Promise!Live
  <1>3. Promise!Succeeds(r, f) BY <1>1, <1>2, EndSucceeds
  <1> QED
    BY <1>1, <1>3
       DEF Promise!Update, Promise!Live, Live, Promise!Updates, Updates

LEMMA InsertImplements ==
    ASSUME IInv, NEW r \in Requests, InsertChannel(r) \/ InsertCategory(r)
    PROVE  Promise!Insert(r)
  <1>1. /\ op[r] \in Creates /\ Ready(r, "row") /\ "row" \in todo[r]
        /\ EndStatement(r, "row")
        /\ UNCHANGED <<lastRead, writer>>
        /\ state' = [state EXCEPT ![row[r]] = "live"]
        /\ category' = IF op[r] = "createChannel"
                         THEN [category EXCEPT ![row[r]] = parent[r]] ELSE category
    BY DEF InsertChannel, InsertCategory, InsertRow, Ready, Executes, Creates
  <1>2. \A x \in Promise!Refers(r, "row") : Promise!Live(x)
    BY <1>1, KeysLive DEF Creates, Live, Promise!Refers, Promise!Live
  <1>3. Promise!Succeeds(r, "row") BY <1>1, <1>2, EndSucceeds
  <1> QED BY <1>1, <1>3 DEF Promise!Insert, Promise!Creates, Creates

LEMMA AckImplements ==
    ASSUME IInv, NEW r \in Requests, Upsert(r)
    PROVE  Promise!Ack(r)
  <1>1. /\ op[r] = "ackMessages" /\ Ready(r, "row") /\ "row" \in todo[r]
        /\ EndStatement(r, "row")
        /\ UNCHANGED <<category, writer>>
        /\ state' = [state EXCEPT ![row[r]] = "live"]
        /\ lastRead' = [lastRead EXCEPT ![row[r]] = parent[r]]
    BY DEF Upsert, Ready, Executes
  <1>2. \A x \in Promise!Refers(r, "row") : Promise!Live(x)
    BY <1>1, AckFinds DEF Live, Promise!Refers, Promise!Live
  <1>3. Promise!Succeeds(r, "row") BY <1>1, <1>2, EndSucceeds
  <1> QED BY <1>1, <1>3 DEF Promise!Ack

LEMMA DeleteImplements ==
    ASSUME IInv, NEW r \in Requests,
           DeleteChannel(r) \/ DeleteCategory(r) \/ DeleteServer(r)
    PROVE  Promise!Delete(r)
  <1> DEFINE detached == {ch \in Channels : Live(ch) /\ category[ch] = row[r]}
             removed == IF row[r] = Server THEN Rows
                        ELSE {row[r]} \cup
                             {x \in Messages \cup Pointers : channelOf[x] = row[r]}
  <1>1. op[r] \in Deletes /\ "row" \in todo[r] /\ EndStatement(r, "row")
    BY DEF DeleteChannel, DeleteCategory, DeleteServer, Ready, Executes, Deletes
  <1>2. Promise!Refers(r, "row") = {}
    BY <1>1 DEF Promise!Refers, Deletes
  <1>3. Promise!Succeeds(r, "row") BY <1>1, <1>2, EndSucceeds
  <1>4. category \in [Channels -> Categories \cup {None}]
        /\ writer = [w \in Rows \X Fields |-> writer[w]]
    BY DEF IInv, TypeOK
  <1>5. /\ Remove(removed)
        /\ category' = [ch \in Channels |->
                           IF ch \in detached THEN None ELSE category[ch]]
        /\ writer' = [w \in Rows \X Fields |->
                         IF w \in detached \X {"category"} THEN r ELSE writer[w]]
    <2>1. CASE DeleteCategory(r)
      <3>1. row[r] \in Categories BY <2>1 DEF DeleteCategory, IInv, Sound
      <3>2. removed = {row[r]} BY <3>1, ChannelsAssumption
      <3>3. Remove({row[r]}) BY <2>1 DEF DeleteCategory
      <3> QED BY <2>1, <3>2, <3>3 DEF DeleteCategory, Detached
    <2>2. CASE DeleteChannel(r) \/ DeleteServer(r)
      <3>1. row[r] \notin Categories \cup {None}
        BY <2>2, ChannelsAssumption DEF DeleteChannel, DeleteServer, IInv, Sound, Rows
      <3>2. detached = {} BY <1>4, <3>1
      <3>3. UNCHANGED <<category, writer>>
        BY <2>2 DEF DeleteChannel, DeleteServer
      <3>4. Remove(removed)
        <4>1. CASE DeleteChannel(r)
          <5>1. row[r] # Server /\ Remove({row[r]} \cup Within({row[r]}))
            BY <4>1, ChannelsAssumption DEF DeleteChannel, Match, IInv, Sound
          <5>2. removed = {row[r]} \cup Within({row[r]}) BY <5>1 DEF Within
          <5> QED BY <5>1, <5>2
        <4>2. CASE DeleteServer(r)
          <5>1. row[r] = Server /\ Remove(Rows)
            BY <4>2 DEF DeleteServer, IInv, Sound
          <5> QED BY <5>1
        <4> QED BY <2>2, <4>1, <4>2
      <3> QED BY <1>4, <3>2, <3>3, <3>4
    <2> QED BY <2>1, <2>2
  <1> QED
    BY <1>1, <1>3, <1>5
       DEF Remove, Live, Rows, Fields, Deletes, Promise!Delete, Promise!Live,
           Promise!Rows, Promise!Fields, Promise!Deletes

LEMMA FailImplements ==
    ASSUME NEW r \in Requests, NEW f \in Statements, Fail(r, f)
    PROVE  Promise!Fails(r, f)
  <1>1. f \in todo[r] /\ Done(r, f, AfterError(r)) BY DEF Fail, Executes
  <1>2. Promise!Ends(r, f, AfterError(r)) BY <1>1, DoneEnds
  <1> QED BY <1>2, SameAnswers DEF Fail, tables, Promise!Fails, Promise!tables

LEMMA StepImplements ==
    IInv /\ [Next]_vars => [Promise!Next]_(Promise!vars)
  <1> SUFFICES ASSUME IInv, [Next]_vars
               PROVE  [Promise!Next]_(Promise!vars)
    OBVIOUS
  <1>1. ASSUME NEW r \in Requests, Request(r) PROVE Promise!Next
    BY <1>1, RequestComes DEF Promise!Next
  <1>2. ASSUME NEW r \in Requests, Lock(r) PROVE UNCHANGED Promise!vars
    BY <1>2 DEF Lock, tables, body, Promise!vars, Promise!tables
  <1>3. ASSUME NEW r \in Requests, Statement(r) PROVE Promise!Next
    <2>1. ASSUME NEW f \in Fields,
                 UpdateField(r, f) \/ (f = "category" /\ MoveChannel(r))
          PROVE  Promise!Next
      BY <2>1, UpdateImplements DEF Fields, Promise!Fields, Promise!Next
    <2>2. CASE InsertChannel(r) \/ InsertCategory(r)
      BY <2>2, InsertImplements DEF Promise!Next
    <2>3. CASE DeleteChannel(r) \/ DeleteCategory(r) \/ DeleteServer(r)
      BY <2>3, DeleteImplements DEF Promise!Next
    <2>4. CASE Upsert(r)
      BY <2>4, AckImplements DEF Promise!Next
    <2>5. ASSUME NEW f \in Statements, Fail(r, f)
          PROVE  Promise!Next
      BY <2>5, FailImplements DEF Statements, Fields, Promise!Fields, Promise!Next
    <2>6. CASE \E f \in Fields : UpdateField(r, f)
      BY <2>1, <2>6
    <2>7. CASE MoveChannel(r)
      <3>1. "category" \in Fields BY DEF Fields
      <3> QED BY <2>1, <2>7, <3>1
    <2>8. CASE \E f \in Statements :
                  ForeignKeyError(r, f) \/ DeadlockError(r, f) \/ OtherError(r, f)
      BY <2>5, <2>8 DEF ForeignKeyError, DeadlockError, OtherError
    <2> QED BY <1>3, <2>2, <2>3, <2>4, <2>6, <2>7, <2>8 DEF Statement
  <1>4. CASE UNCHANGED vars
    BY <1>4 DEF vars, tables, body, Promise!vars, Promise!tables
  <1> QED BY <1>1, <1>2, <1>3, <1>4 DEF Next

-----------------------------------------------------------------------------
(* The theorems.                                                           *)

LEMMA StepInv == IInv /\ [Next]_vars => IInv'
  <1> SUFFICES ASSUME IInv, [Next]_vars PROVE IInv' OBVIOUS
  <1>1. CASE UNCHANGED vars
    <2> USE <1>1 DEF vars, tables, body, Live
    <2>1. TypeOK' BY DEF IInv, TypeOK
    <2>2. ASSUME NEW r \in Requests PROVE (Sound(r) /\ Lifecycle(r) /\ Newest(r))'
      <3>1. Sound(r)' BY DEF IInv, Sound
      <3>2. Lifecycle(r)' BY DEF IInv, Lifecycle
      <3>3. Newest(r)' BY DEF IInv, Newest
      <3> QED BY <3>1, <3>2, <3>3
    <2>3. LocksHold' BY DEF IInv, LocksHold, Worth
    <2>4. RowsBelong' BY DEF IInv, RowsBelong
    <2>5. DeletesAreWhole' BY DEF IInv, DeletesAreWhole, Whole
    <2> QED BY <2>1, <2>2, <2>3, <2>4, <2>5 DEF IInv
  <1>2. ASSUME NEW r \in Requests, Request(r) PROVE IInv'
    BY <1>2, RequestKeeps
  <1>3. ASSUME NEW r \in Requests, Lock(r) PROVE IInv'
    BY <1>3, LockKeeps
  <1>4. ASSUME NEW r \in Requests, Statement(r) PROVE IInv'
    BY <1>4, UpdateFieldKeeps, MoveChannelKeeps, InsertKeeps, UpsertKeeps,
       DeleteChannelKeeps, DeleteCategoryKeeps, DeleteServerKeeps, FailKeeps
       DEF Statement, ForeignKeyError, DeadlockError, OtherError
  <1> QED BY <1>1, <1>2, <1>3, <1>4 DEF Next

LEMMA Invariance == Spec => []IInv
  BY InitInv, StepInv, PTL DEF Spec

\* Every variable of the channels keeps its type, and no two creations take one
\* row.
THEOREM TypeCorrect == Spec => []TypeOK
  <1>1. IInv => TypeOK BY DEF IInv
  <1> QED BY Invariance, <1>1, PTL

\* No order of the statements of the handlers, and of the locks they take,
\* leaves a row that refers to one that is gone.
THEOREM NeverDangles == Spec => []RowsBelong
  <1>1. IInv => RowsBelong BY DEF IInv
  <1> QED BY Invariance, <1>1, PTL

\* What a deletion without an error was to remove is gone for good, with all that
\* belongs to it, and nothing is gone for another reason.
THEOREM RemovesAllOrNothing == Spec => []DeletesAreWhole
  <1>1. IInv => DeletesAreWhole BY DEF IInv
  <1> QED BY Invariance, <1>1, PTL

\* A field that an answered update has written holds no older value.
THEOREM UpdatesLast == Spec => []NoLostUpdate
  <1>1. IInv => NoLostUpdate
    <2> SUFFICES ASSUME IInv, NEW x \in Rows, NEW f \in Fields, NEW q \in Requests,
                        Live(x), row[q] = x, f \in fields[q] \ failed[q],
                        answer[q] = "updated"
                 PROVE  writer[<<x, f>>] \in Requests \ earlier[q]
      BY DEF NoLostUpdate
    <2>1. todo[q] = {}
      BY ChannelsAssumption DEF IInv, Sound, Answers
    <2>2. op[q] \in Updates
      <3>1. op[q] \in Operations BY ChannelsAssumption DEF IInv, TypeOK, Sound, Answers
      <3>2. f # "row" BY DEF Fields
      <3> QED BY <3>1, <3>2 DEF IInv, Sound, Operations
    <2> QED BY <2>1, <2>2 DEF IInv, Newest
  <1> QED BY Invariance, <1>1, PTL

LEMMA WaitsInvariance == Spec => [](IInv /\ WInv)
  <1>1. Init => IInv /\ WInv BY InitInv, WaitsInit
  <1>2. (IInv /\ WInv) /\ [Next]_vars => (IInv /\ WInv)' BY StepInv, WaitsStep
  <1> QED BY <1>1, <1>2, PTL DEF Spec

\* Creating and renaming waits in no circle: what the deadlock check fails is a
\* move of a channel, an ack or a deletion.
THEOREM CirclesNeedMoves == Spec => []OthersNeverDeadlock
  <1>1. IInv /\ WInv => OthersNeverDeadlock
    BY OthersWaitInLine DEF OthersNeverDeadlock
  <1> QED BY WaitsInvariance, <1>1, PTL

\* However many requests wait for each other, one of those at the end of the
\* chain can go on.
THEOREM WaitsEnd == Spec => []NeverStuck
  BY Invariance, SomeoneGoesOn, PTL

\* The row locks implement the promise without locks: every statement happens at
\* one moment, with all it refers to there and all it is to remove, or it has an
\* error and changes nothing.
THEOREM Implements == Spec => ImplementsCatalog
  BY PromiseInit, StepImplements, Invariance, PTL
     DEF Spec, ImplementsCatalog, Promise!Spec
=============================================================================
