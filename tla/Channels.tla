------------------------------ MODULE Channels ------------------------------
(***************************************************************************)
(* The channels and categories of one server: the handlers of channels.go  *)
(* and categories.go, of servers.go where they touch the same rows, and    *)
(* ackMessages of notifications.go, which meets the deletion of a channel  *)
(* at the messages and read_states that go with the channel.               *)
(*                                                                         *)
(* No handler has a transaction: each statement is one of its own, and the *)
(* errors of UPDATE and DELETE are not looked at.  PostgreSQL executes a   *)
(* statement by locking rows one after another: its own row first, then    *)
(* what a new foreign key refers to or what a deletion reaches.  A lock is *)
(* held until the statement ends.  Of transactions that wait for each      *)
(* other in a circle the database fails one.  Any statement may have       *)
(* another error at any time, a lost connection say, and the reply to one  *)
(* that has taken effect may be lost.                                      *)
(*                                                                         *)
(* Messages are sent before, and other rows of a cascade (attachments,     *)
(* message_mentions, permission_overrides) are left out.                   *)
(***************************************************************************)
EXTENDS Naturals, FiniteSets

CONSTANTS
    Server,      \* the row of the server
    Categories,  \* rows of categories
    Channels,    \* rows of channels
    Messages,    \* rows of messages
    Pointers,    \* rows of read_states, one for a user in a channel
    channelOf,   \* the channel_id of messages and read_states
    Requests,    \* the requests
    Bodies,      \* the combinations of fields that requests update
    None

Rows == {Server} \cup Categories \cup Channels \cup Messages \cup Pointers
Fields == {"name", "category", "position", "icon"}

Creates == {"createChannel", "createCategory"}
Updates == {"updateChannel", "updateCategory", "updateServer"}
Deletes == {"deleteChannel", "deleteCategory", "deleteServer"}
Operations == Creates \cup Updates \cup Deletes \cup {"ackMessages"}
Statements == Fields \cup {"row"}
Modes == {"share", "update", "delete"}
Answers == {"created", "updated", "deleted", "ok", "error"}

ASSUME ChannelsAssumption ==
    /\ Server \notin Categories \cup Channels \cup Messages \cup Pointers
    /\ Categories \cap (Channels \cup Messages \cup Pointers) = {}
    /\ Channels \cap (Messages \cup Pointers) = {}
    /\ Messages \cap Pointers = {}
    /\ channelOf \in [Messages \cup Pointers -> Channels]
    /\ None \notin Rows \cup Operations \cup Answers \cup Requests
    /\ IsFiniteSet(Requests)
    /\ Bodies \subseteq (SUBSET Fields) \ {{}}

VARIABLES
    \* the tables
    state,     \* of each row: not yet inserted, there, deleted
    category,  \* channels.category_id
    lastRead,  \* read_states.last_message_id
    writer,    \* of each field of a row, the request that wrote its value
    \* the requests
    op,        \* what a request asks for
    row,       \* the row it is about
    parent,    \* the category_id or message_id in its body
    fields,    \* the statements it consists of
    todo,      \* those it has not executed
    held,      \* the locks of the statement it executes
    answer,
    \* what an observer knows
    earlier,   \* the requests that had been answered when an update came
    failed     \* the statements of a request that had an error, and no effect

tables == <<state, category, lastRead, writer>>
body == <<op, row, parent, fields, earlier>>
vars == <<tables, body, todo, held, answer, failed>>

Live(x) == state[x] = "live"

TypeOK ==
    /\ state \in [Rows -> {"unused", "live", "gone"}]
    /\ category \in [Channels -> Categories \cup {None}]
    /\ lastRead \in [Pointers -> Messages \cup {None}]
    /\ writer \in [Rows \X Fields -> Requests \cup {None}]
    /\ op \in [Requests -> Operations \cup {None}]
    /\ row \in [Requests -> Rows \cup {None}]
    /\ parent \in [Requests -> Categories \cup Messages \cup {None}]
    /\ fields \in [Requests -> SUBSET Statements]
    /\ todo \in [Requests -> SUBSET Statements]
    /\ held \in [Requests -> SUBSET (Rows \X Modes)]
    /\ answer \in [Requests -> Answers \cup {None}]
    /\ earlier \in [Requests -> SUBSET Requests]
    /\ failed \in [Requests -> SUBSET Statements]
    /\ \A q, r \in Requests :
          q # r /\ {op[q], op[r]} \subseteq Creates => row[q] # row[r]

\* A server with some categories and channels and what was written and read in
\* them, as createServer and settled requests leave it.
Init ==
    /\ \E S \in SUBSET (Rows \ {Server}) :
          /\ \A x \in S \cap (Messages \cup Pointers) : channelOf[x] \in S
          /\ state = [x \in Rows |->
                         IF x \in S \cup {Server} THEN "live" ELSE "unused"]
          /\ category \in [Channels -> (Categories \cap S) \cup {None}]
          /\ \A ch \in Channels \ S : category[ch] = None
          /\ lastRead \in [Pointers -> (Messages \cap S) \cup {None}]
          /\ \A p \in Pointers \ S : lastRead[p] = None
    /\ writer = [f \in Rows \X Fields |-> None]
    /\ op = [r \in Requests |-> None]
    /\ row = [r \in Requests |-> None]
    /\ parent = [r \in Requests |-> None]
    /\ fields = [r \in Requests |-> {}]
    /\ todo = [r \in Requests |-> {}]
    /\ held = [r \in Requests |-> {}]
    /\ answer = [r \in Requests |-> None]
    /\ earlier = [r \in Requests |-> {}]
    /\ failed = [r \in Requests |-> {}]

-----------------------------------------------------------------------------
(* The requests up to their first statement.                               *)

\* The permission check, which fails once the server with its owner and roles
\* is gone, and the parsing of the body.
Ask(r, o, x, c, F) ==
    /\ op[r] = None
    /\ Live(Server)
    /\ op' = [op EXCEPT ![r] = o]
    /\ row' = [row EXCEPT ![r] = x]
    /\ parent' = [parent EXCEPT ![r] = c]
    /\ fields' = [fields EXCEPT ![r] = F]
    /\ todo' = [todo EXCEPT ![r] = F]
    /\ earlier' = IF o \in Updates
                    THEN [earlier EXCEPT ![r] = {q \in Requests : answer[q] # None}]
                    ELSE earlier
    /\ UNCHANGED <<tables, held, answer, failed>>

\* An ID a client can know: the row is or was there.
Seen(x) == state[x] # "unused"

\* An ID for a new row, used once.
FreshNow(x) == ~Seen(x)  \* mutant: the ID is the next free number
Fresh(x) == ~Seen(x) /\ \A q \in Requests : row[q] # x

createChannel(r) ==
    \E ch \in Channels, c \in {d \in Categories : Seen(d)} \cup {None} :
        Fresh(ch) /\ Ask(r, "createChannel", ch, c, {"row"})

createCategory(r) ==
    \E c \in Categories :
        Fresh(c) /\ Ask(r, "createCategory", c, None, {"row"})

updateChannel(r) ==
    \E ch \in Channels, F \in Bodies :
        /\ Seen(ch)
        /\ F \subseteq {"name", "category", "position"}
        /\ IF "category" \in F
             THEN \E c \in Categories : Seen(c) /\ Ask(r, "updateChannel", ch, c, F)
             ELSE Ask(r, "updateChannel", ch, None, F)

updateCategory(r) ==
    \E c \in Categories, F \in Bodies :
        /\ Seen(c)
        /\ F \subseteq {"name", "position"}
        /\ Ask(r, "updateCategory", c, None, F)

updateServer(r) ==
    \E F \in Bodies :
        /\ F \subseteq {"name", "icon"}
        /\ Ask(r, "updateServer", Server, None, F)

deleteChannel(r) ==
    \E ch \in Channels : Seen(ch) /\ Ask(r, "deleteChannel", ch, None, {"row"})

deleteCategory(r) ==
    \E c \in Categories : Seen(c) /\ Ask(r, "deleteCategory", c, None, {"row"})

deleteServer(r) == Ask(r, "deleteServer", Server, None, {"row"})

\* A user acknowledges a message; nobody looks whether it is one of the channel.
ackMessages(r) ==
    \E p \in Pointers, m \in Messages :
        Seen(channelOf[p]) /\ Seen(m) /\ Ask(r, "ackMessages", p, m, {"row"})

-----------------------------------------------------------------------------
(* The locks of a statement.                                               *)

\* The statements of an update come in this order.
Before == [name |-> {}, category |-> {"name"}, position |-> {"name", "category"},
           icon |-> {"name"}, row |-> {}]

\* r is executing statement f.
Executes(r, f) == f \in todo[r] /\ Before[f] \cap todo[r] = {}

\* What a new version of a row refers to.  The database looks at the foreign key
\* of an UPDATE only if its value changes; ON CONFLICT an ack is an UPDATE.
UnheldKeys(r) == {}  \* mutant: category_id and last_message_id without REFERENCES
NewKeys(r) ==
    CASE op[r] = "createChannel" -> {parent[r]} \ {None}
      [] Executes(r, "category") /\ Live(row[r]) -> {parent[r]} \ {category[row[r]]}
      [] op[r] = "ackMessages" /\ Live(row[r]) -> {parent[r]} \ {lastRead[row[r]]}
      [] op[r] = "ackMessages" /\ ~Live(row[r]) -> {parent[r], channelOf[row[r]]}
      [] OTHER -> {}

\* The channels that go with a deletion, and what was written in channels.
Doomed(r) ==
    CASE op[r] = "deleteChannel" -> {row[r]}
      [] op[r] = "deleteServer" -> Channels
      [] OTHER -> {}
Within(S) == {x \in Messages \cup Pointers : channelOf[x] \in S}

Lockable(S, mode) == {x \in S : Live(x)} \X {mode}

CategoryFirst(r) ==  \* mutant: category_id is declared before server_id
    LET first == Lockable(NewKeys(r), "share") IN
    IF first \subseteq held[r] THEN Lockable({Server}, "share") ELSE first
ServerLocks(r) == Lockable({Server}, "share")

\* The row of the statement, or the server a new row belongs to.  Of two INSERTs
\* with one key the second waits as if for a row.
OwnLocks(r) ==
    CASE op[r] \in Creates -> ServerLocks(r)
      [] op[r] \in Updates -> Lockable({row[r]}, "update")
      [] op[r] = "ackMessages" -> {<<row[r], "update">>}
      [] op[r] \in Deletes -> Lockable({row[r]}, "delete")

\* Then what it refers to, or the categories it deletes.
KeyLocks(r) ==
    IF op[r] = "deleteServer" THEN Lockable(Categories, "delete")
                              ELSE Lockable(NewKeys(r), "share")

\* Then the channels it deletes or detaches.
ChannelLocks(r) ==
    IF op[r] = "deleteCategory"
      THEN Lockable({ch \in Channels : category[ch] = row[r]}, "update")
      ELSE Lockable(Doomed(r), "delete")

\* Then the messages it deletes with them.
MessageLocks(r) == Lockable(Within(Doomed(r)) \cap Messages, "delete")

\* Then what was read in these channels, or points to these messages.
PointerLocks(r) ==
    LET S == Within(Doomed(r)) IN
    Lockable(S \cap Pointers, "delete")
        \cup Lockable({p \in Pointers \ S : lastRead[p] \in S}, "update")

\* The locks a statement goes for next.
InOrder(own, keys, rest) ==
    IF own # {} THEN own ELSE IF keys # {} THEN keys ELSE rest

Wanted(r) ==
    IF todo[r] = {} THEN {}
    ELSE InOrder(OwnLocks(r) \ held[r], KeyLocks(r) \ held[r],
                 InOrder(ChannelLocks(r) \ held[r], MessageLocks(r) \ held[r],
                         PointerLocks(r) \ held[r]))

\* FOR KEY SHARE, FOR NO KEY UPDATE and FOR UPDATE.
Conflict(m, n) == "delete" \in {m, n} \/ (m = "update" /\ n = "update")

\* q holds a lock that keeps r from taking lock l.
Blocks(q, r, l) ==
    q # r /\ \E k \in held[q] : k[1] = l[1] /\ Conflict(k[2], l[2])

Free(r, l) == \A q \in Requests : ~Blocks(q, r, l)

Lock(r) ==
    \E l \in Wanted(r) :
        /\ Free(r, l)
        /\ held' = [held EXCEPT ![r] = @ \cup {l}]
        /\ UNCHANGED <<tables, body, todo, answer, failed>>

WaitsFor(r) == {q \in Requests : \E l \in Wanted(r) : Blocks(q, r, l)}

\* r waits, directly or through others, for itself.
InCircle(r) ==
    \A S \in SUBSET Requests :
        WaitsFor(r) \subseteq S /\ (\A q \in S : WaitsFor(q) \subseteq S) => r \in S

-----------------------------------------------------------------------------
(* The statements.                                                         *)

\* The rows the foreign keys of the statement refer to.
Keys(r) == NewKeys(r) \cup (IF op[r] \in Creates THEN {Server} ELSE {})

\* Statement f of r has all its locks.
Ready(r, f) ==
    /\ Executes(r, f)
    /\ Wanted(r) = {}
    /\ Keys(r) \X {"share"} \subseteq held[r]

Success(r) ==
    CASE op[r] \in Creates -> "created"
      [] op[r] \in Updates -> "updated"
      [] op[r] \in Deletes -> "deleted"
      [] op[r] = "ackMessages" -> "ok"

\* An error of an INSERT is answered; one of an UPDATE or a DELETE is ignored.
AfterError(r) ==
    IF op[r] \in Creates \cup {"ackMessages"} THEN "error" ELSE Success(r)

\* r goes on after statement f; after the last it is answered.
DoneFirst(r, f, says) ==  \* mutant: answered after the first statement
    /\ todo' = [todo EXCEPT ![r] = @ \ {f}]
    /\ answer' = [answer EXCEPT ![r] = says]
    /\ UNCHANGED body
Done(r, f, says) ==
    /\ todo' = [todo EXCEPT ![r] = @ \ {f}]
    /\ answer' = IF todo[r] = {f} THEN [answer EXCEPT ![r] = says] ELSE answer
    /\ UNCHANGED body

\* The statement has taken effect, and its reply comes or is lost.
EndStatement(r, f) ==
    /\ \E says \in {Success(r), AfterError(r)} : Done(r, f, says)
    /\ held' = [held EXCEPT ![r] = {}]
    /\ UNCHANGED failed

Writes(r, f) ==
    writer' = IF Live(row[r]) THEN [writer EXCEPT ![<<row[r], f>>] = r]
                              ELSE writer

\* UPDATE of a column nothing refers to; a row that is gone is not found.
UpdateField(r, f) ==
    /\ op[r] \in Updates
    /\ f # "category"
    /\ Ready(r, f)
    /\ Writes(r, f)
    /\ EndStatement(r, f)
    /\ UNCHANGED <<state, category, lastRead>>

MoveChannel(r) ==
    /\ op[r] = "updateChannel"
    /\ Ready(r, "category")
    /\ Writes(r, "category")
    /\ category' = IF Live(row[r]) THEN [category EXCEPT ![row[r]] = parent[r]]
                                   ELSE category
    /\ EndStatement(r, "category")
    /\ UNCHANGED <<state, lastRead>>

InsertRow(r) ==
    /\ Ready(r, "row")
    /\ state' = [state EXCEPT ![row[r]] = "live"]
    /\ EndStatement(r, "row")
    /\ UNCHANGED <<lastRead, writer>>

InsertChannel(r) ==
    /\ op[r] = "createChannel"
    /\ InsertRow(r)
    /\ category' = [category EXCEPT ![row[r]] = parent[r]]

InsertCategory(r) ==
    /\ op[r] = "createCategory"
    /\ InsertRow(r)
    /\ UNCHANGED category

\* INSERT ... ON CONFLICT (user_id, channel_id) DO UPDATE
Upsert(r) ==
    /\ op[r] = "ackMessages"
    /\ Ready(r, "row")
    /\ state' = [state EXCEPT ![row[r]] = "live"]
    /\ lastRead' = [lastRead EXCEPT ![row[r]] = parent[r]]
    /\ EndStatement(r, "row")
    /\ UNCHANGED <<category, writer>>

\* Rows that are gone already are not found.  ON DELETE CASCADE has been followed
\* to S; pointers to what is in S are SET NULL.
Remove(S) ==
    /\ state' = [x \in Rows |-> IF x \in S /\ Live(x) THEN "gone" ELSE state[x]]
    /\ lastRead' = [p \in Pointers |-> IF lastRead[p] \in S THEN None ELSE lastRead[p]]

\* WHERE id = $1 AND server_id = $2
NoneMatch(r) == {}  \* mutant: the two arguments are swapped
Match(r) == {row[r]}

DeleteChannel(r) ==
    /\ op[r] = "deleteChannel"
    /\ Ready(r, "row")
    /\ Remove(Match(r) \cup Within(Match(r)))
    /\ EndStatement(r, "row")
    /\ UNCHANGED <<category, writer>>

\* ON DELETE SET NULL
Detached(c) == {ch \in Channels : Live(ch) /\ category[ch] = c}

DeleteCategory(r) ==
    LET S == Detached(row[r]) IN
    /\ op[r] = "deleteCategory"
    /\ Ready(r, "row")
    /\ Remove({row[r]})
    /\ category' = [ch \in Channels |-> IF ch \in S THEN None ELSE category[ch]]
    /\ writer' = [w \in Rows \X Fields |->
                     IF w \in S \X {"category"} THEN r ELSE writer[w]]
    /\ EndStatement(r, "row")

DeleteServer(r) ==
    /\ op[r] = "deleteServer"
    /\ Ready(r, "row")
    /\ Remove(Rows)
    /\ EndStatement(r, "row")
    /\ UNCHANGED <<category, writer>>

KeptLocks(r) == held[r]  \* mutant: a failed statement keeps its locks
Released(r) == {}

\* A statement has an error and no effect.
Fail(r, f) ==
    /\ Executes(r, f)
    /\ Done(r, f, AfterError(r))
    /\ held' = [held EXCEPT ![r] = Released(r)]
    /\ failed' = [failed EXCEPT ![r] = @ \cup {f}]
    /\ UNCHANGED tables

\* A foreign key is looked up when the row itself is locked.
Dangles(r, f) ==
    /\ Executes(r, f)
    /\ OwnLocks(r) \subseteq held[r]
    /\ \E x \in Keys(r) : ~Live(x)

ForeignKeyError(r, f) ==
    /\ Dangles(r, f)
    /\ Fail(r, f)

DeadlockError(r, f) ==
    /\ Executes(r, f)
    /\ InCircle(r)
    /\ Fail(r, f)

\* Any other error, at any point of the statement.
OtherError(r, f) == Fail(r, f)

-----------------------------------------------------------------------------
Request(r) ==
    \/ createChannel(r) \/ updateChannel(r) \/ deleteChannel(r)
    \/ createCategory(r) \/ updateCategory(r) \/ deleteCategory(r)
    \/ updateServer(r) \/ deleteServer(r)
    \/ ackMessages(r)

Statement(r) ==
    \/ \E f \in Fields : UpdateField(r, f)
    \/ MoveChannel(r)
    \/ InsertChannel(r) \/ InsertCategory(r) \/ Upsert(r)
    \/ DeleteChannel(r) \/ DeleteCategory(r) \/ DeleteServer(r)
    \/ \E f \in Statements :
          ForeignKeyError(r, f) \/ DeadlockError(r, f) \/ OtherError(r, f)

Next == \E r \in Requests : Request(r) \/ Lock(r) \/ Statement(r)

Spec == Init /\ [][Next]_vars

-----------------------------------------------------------------------------
(* Properties                                                              *)

\* No row refers to one that is gone, whatever statements overlap: no channel
\* is created in or moved into a category that is deleted meanwhile, none is
\* created in a deleted server, and no ack keeps a deleted message or outlives its
\* channel (channels.go:46, channels.go:115, categories.go:42, notifications.go:29,
\* against channels.go:134, categories.go:124 and servers.go:200).
RowsBelong ==
    /\ \A x \in Categories \cup Channels : Live(x) => Live(Server)
    /\ \A ch \in Channels : Live(ch) /\ category[ch] # None => Live(category[ch])
    /\ \A x \in Messages \cup Pointers : Live(x) => Live(channelOf[x])
    /\ \A p \in Pointers : Live(p) /\ lastRead[p] # None => Live(lastRead[p])

\* An answered update that had no error is not undone by an older one: no field
\* has the value of a request that was answered before that update came
\* (channels.go:111-119, categories.go:104-109, servers.go:175-180).
NoLostUpdate ==
    \A x \in Rows, f \in Fields, q \in Requests :
        /\ Live(x)
        /\ row[q] = x
        /\ f \in fields[q] \ failed[q]
        /\ answer[q] = "updated"
        => writer[<<x, f>>] \in Requests \ earlier[q]

\* What a deletion is to remove: a row and what belongs to it.
Whole(x) ==
    IF x = Server THEN Rows
    ELSE {x} \cup {y \in Messages \cup Pointers : channelOf[y] = x}

\* A DELETE removes all or nothing, though its error is not looked at and its
\* cascade meets other statements on the way: once one without an error is answered,
\* nothing of what it was to remove is there, whatever was inserted meanwhile; and
\* what is gone was removed by such a one, never by one that had an error.  (An
\* answer "deleted" after an error says nothing; channels.go:134, categories.go:124,
\* servers.go:200.)
DeletesAreWhole ==
    LET Deleted(r) == answer[r] = "deleted" /\ failed[r] = {} IN
    /\ \A r \in Requests : Deleted(r) => \A x \in Whole(row[r]) : ~Live(x)
    /\ \A x \in Rows : state[x] = "gone" =>
          \E r \in Requests : Deleted(r) /\ x \in Whole(row[r])

\* To create or to rename never waits in a circle, so the deadlock check fails no
\* such statement: it fails moves of a channel, acks and deletions (channels.go:115
\* against categories.go:124 and servers.go:200; notifications.go:29 against
\* channels.go:134, whose cascade comes to the message before the read_states).
OthersNeverDeadlock ==
    \A r \in Requests, f \in Statements :
        Executes(r, f) /\ InCircle(r) =>
            \/ f = "category"
            \/ op[r] \in Deletes \cup {"ackMessages"}

\* What lets r go on: a lock nobody keeps from it, a statement that has all its
\* locks, a foreign key to a row that is gone, or the deadlock check.
CanGoOn(r) ==
    \/ \E l \in Wanted(r) : Free(r, l)
    \/ \E f \in Statements : Ready(r, f) \/ Dangles(r, f)
    \/ InCircle(r)

\* No request waits for ever: one with statements left can go on itself, or whoever
\* follows the chain of those that wait for each other comes to one that can.  As a
\* request has finitely many statements and locks, every request is answered (no
\* of these statements keeps its locks).  Errors other than those of foreign keys and
\* of the deadlock check are not needed for it.
NeverStuck ==
    \A r \in Requests :
        todo[r] # {} =>
            \/ CanGoOn(r)
            \/ \A S \in SUBSET Requests :
                  r \in S /\ (\A q \in S : WaitsFor(q) \subseteq S)
                  => \E q \in S : CanGoOn(q)

\* The locks of rows are how each statement happens at one moment: whatever others
\* do while it waits, it finds what it refers to or has an error and no effect, and
\* its cascade reaches all rows that refer to what it deletes (channels.go:46,
\* channels.go:115, notifications.go:29, channels.go:134, categories.go:124,
\* servers.go:200).
Promise == INSTANCE Catalog
ImplementsCatalog == Promise!Spec
=============================================================================
