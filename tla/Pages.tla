------------------------------- MODULE Pages -------------------------------
(***************************************************************************)
(* The history of one text channel, read page by page: getMessages of      *)
(* internal/handler/messages.go, while messages are sent and deleted.      *)
(*                                                                         *)
(* A reader asks for the newest page, then for the page before the oldest  *)
(* message it has, and so on until a page is not full.  created_at is the  *)
(* time at which the INSERT starts; the row shows when it commits.         *)
(***************************************************************************)
EXTENDS Naturals, FiniteSets, SequencesExt

CONSTANTS
    Messages,   \* message IDs, one for each call of sendMessage
    Limits,     \* the values of the "limit" parameter (1 to 100 in the code)
    MaxTime,    \* bound on the clock of the database
    None

ASSUME PagesAssumption ==
    /\ Limits \subseteq Nat \ {0}
    /\ MaxTime \in Nat
    /\ None \notin Messages
    /\ IsFiniteSet(Messages)

VARIABLES
    now,       \* the clock of the database
    rows,      \* the messages of the channel in the table
    created,   \* created_at
    sendPc,    \* progress of sendMessage
    history,   \* what the reader has, in chronological order
    reader,    \* "off", "reading", or "done" after a page that was not full
    present,   \* messages in the table from the first page on
    cutOff,    \* a page was asked for before a message deleted meanwhile
    broken     \* the rows of a page broke off

tableVars == <<now, rows, created, sendPc>>
vars == <<tableVars, history, reader, present, cutOff, broken>>

TypeOK ==
    /\ now \in 0..MaxTime
    /\ rows \in SUBSET Messages
    /\ created \in [Messages -> 0..MaxTime]
    /\ sendPc \in [Messages -> {"idle", "inserting", "done"}]
    /\ history \in Seq(Messages)
    /\ reader \in {"off", "reading", "done"}
    /\ present \in SUBSET Messages
    /\ cutOff \in BOOLEAN
    /\ broken \in BOOLEAN

Init ==
    /\ now = 0
    /\ rows = {}
    /\ created = [m \in Messages |-> 0]
    /\ sendPc = [m \in Messages |-> "idle"]
    /\ history = <<>>
    /\ reader = "off"
    /\ present = {}
    /\ cutOff = FALSE
    /\ broken = FALSE

-----------------------------------------------------------------------------
(* The table *)

Tick ==
    /\ now < MaxTime
    /\ now' = now + 1
    /\ UNCHANGED <<rows, created, sendPc, history, reader, present, cutOff, broken>>

StampAhead == now + 1  \* mutant: a default that rounds up
Stamp == now

\* The INSERT starts: NOW() is taken.
sendMessage(m) ==
    /\ sendPc[m] = "idle"
    /\ sendPc' = [sendPc EXCEPT ![m] = "inserting"]
    /\ created' = [created EXCEPT ![m] = Stamp]
    /\ UNCHANGED <<now, rows, history, reader, present, cutOff, broken>>

\* The INSERT commits; one that fails is as good as one that never does.
Insert(m) ==
    /\ sendPc[m] = "inserting"
    /\ sendPc' = [sendPc EXCEPT ![m] = "done"]
    /\ rows' = rows \cup {m}
    /\ UNCHANGED <<now, created, history, reader, present, cutOff, broken>>

deleteMessage(m) ==
    /\ m \in rows
    /\ rows' = rows \ {m}
    /\ present' = present \ {m}
    /\ UNCHANGED <<now, created, sendPc, history, reader, cutOff, broken>>

-----------------------------------------------------------------------------
(* getMessages *)

\* The "before" parameter: the oldest message the reader has.
before == IF history = <<>> THEN None ELSE Head(history)

\* created_at < (SELECT created_at ... WHERE id = before); the inner SELECT of
\* a message that is gone is NULL, and nothing is smaller than NULL.
NotAfter(m) == created[m] <= created[before]  \* mutant: <= for <
Earlier(m) == created[m] < created[before]

Matching ==
    CASE before = None -> rows
      [] before \in rows -> {m \in rows : Earlier(m)}
      [] OTHER -> {}

\* The LIMIT first rows by created_at, descending; rows of the same time come
\* in any order.
OldestFirst(page, rest) ==  \* mutant: the LIMIT takes the oldest rows
    \A m \in page, n \in rest : created[m] <= created[n]
NewestFirst(page, rest) ==
    \A m \in page, n \in rest : created[n] <= created[m]

Selected(limit) ==
    {page \in SUBSET Matching :
        /\ Cardinality(page) = IF Cardinality(Matching) < limit
                                 THEN Cardinality(Matching) ELSE limit
        /\ NewestFirst(page, Matching \ page)}

\* What comes of a page: all of it, or the rows before the result breaks off.
Shown(page) == {shown \in SUBSET page : NewestFirst(shown, page \ shown)}

Descending(page) ==
    {s \in [1..Cardinality(page) -> page] :
        /\ IsInjective(s)
        /\ \A i, j \in DOMAIN s : i < j => created[s[j]] <= created[s[i]]}

\* The rows are turned into chronological order.
Chronological(s) == Reverse(s)

\* One statement reads the page; the reader puts it before what it has.  The
\* loop ends when Next says so and never asks for an error, so a page that broke
\* off is answered like a whole one; a query refused at once changes nothing.
getMessages(limit) ==
    /\ reader # "done"
    /\ \E page \in Selected(limit) : \E shown \in Shown(page) :
          /\ \E s \in Descending(shown) : history' = Chronological(s) \o history
          /\ reader' = IF Cardinality(shown) < limit THEN "done" ELSE "reading"
          /\ broken' = (broken \/ shown # page)
    /\ present' = IF reader = "off" THEN rows ELSE present
    /\ cutOff' = (cutOff \/ before \notin rows \cup {None})
    /\ UNCHANGED tableVars

-----------------------------------------------------------------------------
Next ==
    \/ Tick
    \/ \E m \in Messages : sendMessage(m) \/ Insert(m) \/ deleteMessage(m)
    \/ \E limit \in Limits : getMessages(limit)

Spec == Init /\ [][Next]_vars

-----------------------------------------------------------------------------
(* Properties                                                              *)

\* The pages put together are in chronological order and show no message twice,
\* whatever is sent or deleted between two requests (messages.go:59, 111-114).
InOrderOnce ==
    \A i, j \in DOMAIN history :
        i < j => /\ history[i] # history[j]
                 /\ created[history[i]] <= created[history[j]]

\* What the reader has leaves no gap: a message that was there all the time is
\* one it has, or as old as one it has (rows that share created_at with the last
\* row of a page are skipped), or still to come.  At the end nothing is to come,
\* unless a page broke off: then the reader takes a short page for the end, and
\* what it misses is older than all it has.  The message that marked the place
\* may be deleted; nothing is said of what comes then (messages.go:59, 93-114).
CompleteButTies ==
    reader # "off" /\ ~cutOff =>
        \A m \in present :
            \/ \E i \in DOMAIN history : created[history[i]] = created[m]
            \/ /\ reader = "reading" \/ broken
               /\ \A i \in DOMAIN history : created[m] < created[history[i]]
=============================================================================
