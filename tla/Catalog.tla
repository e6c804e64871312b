------------------------------ MODULE Catalog ------------------------------
(***************************************************************************)
(* What the handlers of channels.go, categories.go and servers.go, and     *)
(* ackMessages, promise about the rows of one server, without row locks:   *)
(* each statement happens at one moment, at which the rows it refers to    *)
(* are there, and reaches all that refers to what it deletes, or it has an *)
(* error and changes nothing.  Why a statement has an error, and in which  *)
(* order an update executes its statements, is not part of the promise.    *)
(***************************************************************************)
CONSTANTS Server, Categories, Channels, Messages, Pointers, channelOf, Requests, None

VARIABLES state, category, lastRead, writer, op, row, parent, todo, failed, answer

tables == <<state, category, lastRead, writer>>
vars == <<tables, op, row, parent, todo, failed, answer>>

Rows == {Server} \cup Categories \cup Channels \cup Messages \cup Pointers
Fields == {"name", "category", "position", "icon"}

Creates == {"createChannel", "createCategory"}
Updates == {"updateChannel", "updateCategory", "updateServer"}
Deletes == {"deleteChannel", "deleteCategory", "deleteServer"}

RowsOf(o) ==
    CASE o \in {"createChannel", "updateChannel", "deleteChannel"} -> Channels
      [] o \in {"createCategory", "updateCategory", "deleteCategory"} -> Categories
      [] o \in {"updateServer", "deleteServer"} -> {Server}
      [] o = "ackMessages" -> Pointers

Live(x) == state[x] = "live"

Init ==
    /\ state \in [Rows -> {"unused", "live"}]
    /\ Live(Server)
    /\ category \in [Channels -> Categories \cup {None}]
    /\ \A ch \in Channels : category[ch] # None => Live(category[ch])
    /\ lastRead \in [Pointers -> Messages \cup {None}]
    /\ \A p \in Pointers : lastRead[p] # None => Live(lastRead[p])
    /\ \A x \in Messages \cup Pointers : Live(x) => Live(channelOf[x])
    /\ writer = [f \in Rows \X Fields |-> None]
    /\ op = [r \in Requests |-> None]
    /\ row = [r \in Requests |-> None]
    /\ parent = [r \in Requests |-> None]
    /\ todo = [r \in Requests |-> {}]
    /\ failed = [r \in Requests |-> {}]
    /\ answer = [r \in Requests |-> None]

\* The ID of a new row is chosen once; other requests are about rows that are or
\* were there.  A user's first ack in a channel makes the row of read_states.
Come(r) ==
    /\ op[r] = None
    /\ Live(Server)
    /\ \E o \in Creates \cup Updates \cup Deletes \cup {"ackMessages"} :
          /\ op' = [op EXCEPT ![r] = o]
          /\ \E F \in (SUBSET IF o \in Updates THEN Fields ELSE {"row"}) \ {{}} :
                todo' = [todo EXCEPT ![r] = F]
          /\ \E x \in RowsOf(o) :
                /\ IF o \in Creates
                     THEN state[x] = "unused" /\ \A q \in Requests : row[q] # x
                     ELSE state[x] # "unused" \/ o = "ackMessages"
                /\ row' = [row EXCEPT ![r] = x]
          /\ \E c \in Categories \cup Messages \cup {None} :
                parent' = [parent EXCEPT ![r] = c]
    /\ UNCHANGED <<tables, failed, answer>>

-----------------------------------------------------------------------------
\* The rows that the statement makes a row refer to anew.
Refers(r, f) ==
    CASE op[r] = "createChannel" -> {Server, parent[r]} \ {None}
      [] op[r] = "createCategory" -> {Server}
      [] op[r] = "updateChannel" /\ f = "category" /\ Live(row[r]) ->
            {parent[r]} \ {category[row[r]]}
      [] op[r] = "ackMessages" -> IF Live(row[r]) THEN {parent[r]} \ {lastRead[row[r]]}
                                  ELSE {channelOf[row[r]], parent[r]}
      [] OTHER -> {}

Success(r) ==
    CASE op[r] \in Creates -> "created"
      [] op[r] \in Updates -> "updated"
      [] op[r] \in Deletes -> "deleted"
      [] op[r] = "ackMessages" -> "ok"

\* The error of an UPDATE or a DELETE is not told.
AfterError(r) ==
    IF op[r] \in Creates \cup {"ackMessages"} THEN "error" ELSE Success(r)

Ends(r, f, says) ==
    /\ f \in todo[r]
    /\ todo' = [todo EXCEPT ![r] = @ \ {f}]
    /\ answer' = IF todo[r] = {f} THEN [answer EXCEPT ![r] = says] ELSE answer
    /\ UNCHANGED <<op, row, parent>>

\* The reply may be lost, which looks like an error.
Succeeds(r, f) ==
    /\ \E says \in {Success(r), AfterError(r)} : Ends(r, f, says)
    /\ \A x \in Refers(r, f) : Live(x)
    /\ UNCHANGED failed

Insert(r) ==
    /\ op[r] \in Creates
    /\ Succeeds(r, "row")
    /\ state' = [state EXCEPT ![row[r]] = "live"]
    /\ category' = IF op[r] = "createChannel"
                     THEN [category EXCEPT ![row[r]] = parent[r]] ELSE category
    /\ UNCHANGED <<lastRead, writer>>

Ack(r) ==
    /\ op[r] = "ackMessages"
    /\ Succeeds(r, "row")
    /\ state' = [state EXCEPT ![row[r]] = "live"]
    /\ lastRead' = [lastRead EXCEPT ![row[r]] = parent[r]]
    /\ UNCHANGED <<category, writer>>

Update(r, f) ==
    /\ op[r] \in Updates
    /\ Succeeds(r, f)
    /\ IF Live(row[r])
         THEN /\ writer' = [writer EXCEPT ![<<row[r], f>>] = r]
              /\ category' = IF f = "category"
                               THEN [category EXCEPT ![row[r]] = parent[r]] ELSE category
         ELSE UNCHANGED <<writer, category>>
    /\ UNCHANGED <<state, lastRead>>

\* What belongs to a server or a channel goes with it; what was in a category stays.
Delete(r) ==
    LET removed == IF row[r] = Server THEN Rows
                   ELSE {row[r]} \cup
                        {x \in Messages \cup Pointers : channelOf[x] = row[r]}
        detached == {ch \in Channels : Live(ch) /\ category[ch] = row[r]}
    IN
    /\ op[r] \in Deletes
    /\ Succeeds(r, "row")
    /\ state' = [x \in Rows |-> IF x \in removed /\ Live(x) THEN "gone" ELSE state[x]]
    /\ lastRead' = [p \in Pointers |->
                       IF lastRead[p] \in removed THEN None ELSE lastRead[p]]
    /\ category' = [ch \in Channels |-> IF ch \in detached THEN None ELSE category[ch]]
    /\ writer' = [w \in Rows \X Fields |->
                     IF w \in detached \X {"category"} THEN r ELSE writer[w]]

\* An error undoes the statement.
Fails(r, f) ==
    /\ Ends(r, f, AfterError(r))
    /\ failed' = [failed EXCEPT ![r] = @ \cup {f}]
    /\ UNCHANGED tables

Next ==
    \E r \in Requests :
        \/ Come(r)
        \/ Insert(r)
        \/ Ack(r)
        \/ Delete(r)
        \/ \E f \in Fields : Update(r, f)
        \/ \E f \in Fields \cup {"row"} : Fails(r, f)

Spec == Init /\ [][Next]_vars
=============================================================================
