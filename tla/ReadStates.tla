----------------------------- MODULE ReadStates -----------------------------
(***************************************************************************)
(* What users have read of one text channel: ackMessages and               *)
(* getUnreadCounts of internal/handler/notifications.go, the mention loop  *)
(* of sendMessage and the DELETE of deleteMessage in messages.go, over the *)
(* tables messages, message_mentions and read_states of the migrations.    *)
(*                                                                         *)
(* created_at is NOW(), the time at which the INSERT starts; the row shows *)
(* when the INSERT commits.  Two INSERTs may run at once, so rows need not *)
(* show in the order of created_at, and may share it.                      *)
(*                                                                         *)
(* The mention loop goes over IDs as clients wrote them.  The database     *)
(* reads several spellings of an ID (upper case, other hyphens) as one     *)
(* user, the map of the loop keeps them apart.  An ID of nobody is like    *)
(* one for which both statements of the loop have an error.                *)
(***************************************************************************)
EXTENDS Naturals, FiniteSets

CONSTANTS
    Users,      \* the readers of the channel, who may be mentioned
    Spellings,  \* the ways to write the ID of a user
    Messages,   \* message IDs, one for each call of sendMessage
    MaxTime,    \* bound on the clock of the database
    MaxIDs,     \* bound on the IDs in one message
    MaxLost,    \* bound on the upserts that have an error
    None

\* The IDs as written.
Keys == Users \X Spellings
UserOf(k) == k[1]

ASSUME ReadStatesAssumption ==
    /\ MaxTime \in Nat /\ MaxIDs \in Nat /\ MaxLost \in Nat
    /\ None \notin Messages \cup Keys
    /\ IsFiniteSet(Messages) /\ IsFiniteSet(Users) /\ IsFiniteSet(Spellings)

VARIABLES
    now,           \* the clock of the database
    rows,          \* messages in the table
    created,       \* created_at
    mentions,      \* rows of message_mentions
    lastRead,      \* read_states.last_message_id; None is NULL or no row
    mentionCount,  \* read_states.mention_count; 0 if there is no row
    sendPc,        \* progress of sendMessage
    mentionedIDs,  \* the IDs the mention loop goes over
    left,          \* those it is not done with
    mentioned,     \* the ID it is at, between its two statements
    \* what an observer knows
    ackedAt,       \* the time of the last ack of each user
    settled,       \* its mentions that had been counted at that ack
    lost           \* the mentions whose upsert had an error

vars == <<now, rows, created, mentions, lastRead, mentionCount, sendPc,
          mentionedIDs, left, mentioned, ackedAt, settled, lost>>

TypeOK ==
    /\ now \in 0..MaxTime
    /\ rows \in SUBSET Messages
    /\ created \in [Messages -> 0..MaxTime]
    /\ mentions \in SUBSET (Messages \X Users)
    /\ lastRead \in [Users -> Messages \cup {None}]
    /\ mentionCount \in [Users -> Nat]
    /\ sendPc \in [Messages -> {"idle", "inserting", "mentioning", "failed", "done"}]
    /\ mentionedIDs \in [Messages -> SUBSET Keys]
    /\ left \in [Messages -> SUBSET Keys]
    /\ mentioned \in [Messages -> Keys \cup {None}]
    /\ ackedAt \in [Users -> 0..MaxTime]
    /\ settled \in [Users -> Nat]
    /\ lost \in SUBSET (Messages \X Keys)

Init ==
    /\ now = 0
    /\ rows = {}
    /\ created = [m \in Messages |-> 0]
    /\ mentions = {}
    /\ lastRead = [u \in Users |-> None]
    /\ mentionCount = [u \in Users |-> 0]
    /\ sendPc = [m \in Messages |-> "idle"]
    /\ mentionedIDs = [m \in Messages |-> {}]
    /\ left = [m \in Messages |-> {}]
    /\ mentioned = [m \in Messages |-> None]
    /\ ackedAt = [u \in Users |-> 0]
    /\ settled = [u \in Users |-> 0]
    /\ lost = {}

Tick ==
    /\ now < MaxTime
    /\ now' = now + 1
    /\ UNCHANGED <<rows, created, mentions, lastRead, mentionCount, sendPc,
                   mentionedIDs, left, mentioned, ackedAt, settled, lost>>

-----------------------------------------------------------------------------
(* sendMessage *)

\* NOW() is when the transaction of the INSERT starts.
StampAhead == now + 1  \* mutant: a default that rounds up
Stamp == now

\* The INSERT starts.  The IDs from the content and from the list of the body
\* will be the keys of one map.
sendMessage(m, ids) ==
    /\ sendPc[m] = "idle"
    /\ Cardinality(ids) <= MaxIDs
    /\ sendPc' = [sendPc EXCEPT ![m] = "inserting"]
    /\ created' = [created EXCEPT ![m] = Stamp]
    /\ mentionedIDs' = [mentionedIDs EXCEPT ![m] = ids]
    /\ left' = [left EXCEPT ![m] = ids]
    /\ UNCHANGED <<now, rows, mentions, lastRead, mentionCount, mentioned,
                   ackedAt, settled, lost>>

\* The INSERT commits.
Insert(m) ==
    /\ sendPc[m] = "inserting"
    /\ sendPc' = [sendPc EXCEPT ![m] = "mentioning"]
    /\ rows' = rows \cup {m}
    /\ UNCHANGED <<now, created, mentions, lastRead, mentionCount, mentionedIDs,
                   left, mentioned, ackedAt, settled, lost>>

\* The INSERT fails, or its reply is lost, and the handler returns.
InsertFails(m) ==
    /\ sendPc[m] = "inserting"
    /\ sendPc' = [sendPc EXCEPT ![m] = "failed"]
    /\ \/ UNCHANGED rows
       \/ rows' = rows \cup {m}
    /\ UNCHANGED <<now, created, mentions, lastRead, mentionCount, mentionedIDs,
                   left, mentioned, ackedAt, settled, lost>>

\* INSERT INTO message_mentions ... ON CONFLICT DO NOTHING.  Its error is ignored,
\* the one when the message has been deleted and any other.
InsertMention(m, k) ==
    /\ sendPc[m] = "mentioning"
    /\ mentioned[m] = None
    /\ k \in left[m]
    /\ mentioned' = [mentioned EXCEPT ![m] = k]
    /\ \/ UNCHANGED mentions
       \/ m \in rows /\ mentions' = mentions \cup {<<m, UserOf(k)>>}
    /\ UNCHANGED <<now, rows, created, lastRead, mentionCount, sendPc,
                   mentionedIDs, left, ackedAt, settled, lost>>

\* After an error the loop goes on.
StopLoop(ids, k) == {}  \* mutant: the first mention that has an error ends the loop
GoOn(ids, k) == ids \ {k}

\* The upsert of read_states that adds one to mention_count.
CountMention(m) ==
    LET k == mentioned[m] IN
    /\ k # None
    /\ mentionCount' = [mentionCount EXCEPT ![UserOf(k)] = @ + 1]
    /\ left' = [left EXCEPT ![m] = @ \ {k}]
    /\ mentioned' = [mentioned EXCEPT ![m] = None]
    /\ UNCHANGED <<now, rows, created, mentions, lastRead, sendPc, mentionedIDs,
                   ackedAt, settled, lost>>

\* Its error is ignored.
CountFails(m) ==
    LET k == mentioned[m] IN
    /\ k # None
    /\ Cardinality(lost) < MaxLost
    /\ left' = [left EXCEPT ![m] = GoOn(@, k)]
    /\ mentioned' = [mentioned EXCEPT ![m] = None]
    /\ lost' = lost \cup {<<m, k>>}
    /\ UNCHANGED <<now, rows, created, mentions, lastRead, mentionCount, sendPc,
                   mentionedIDs, ackedAt, settled>>

\* The message is published and the request answered.
Sent(m) ==
    /\ sendPc[m] = "mentioning"
    /\ left[m] = {}
    /\ sendPc' = [sendPc EXCEPT ![m] = "done"]
    /\ UNCHANGED <<now, rows, created, mentions, lastRead, mentionCount,
                   mentionedIDs, left, mentioned, ackedAt, settled, lost>>

-----------------------------------------------------------------------------
\* The mentions of a user that the loops are done with, without an error.
Counted(u) ==
    {p \in (Messages \X Keys) \ lost :
        UserOf(p[2]) = u /\ p[2] \in mentionedIDs[p[1]] \ left[p[1]]}

\* The upsert of ackMessages; a foreign key error if the message is not there.
ackMessages(u, m) ==
    /\ m \in rows
    /\ lastRead' = [lastRead EXCEPT ![u] = m]
    /\ mentionCount' = [mentionCount EXCEPT ![u] = 0]
    /\ ackedAt' = [ackedAt EXCEPT ![u] = now]
    /\ settled' = [settled EXCEPT ![u] = Cardinality(Counted(u))]
    /\ UNCHANGED <<now, rows, created, mentions, sendPc, mentionedIDs, left,
                   mentioned, lost>>

\* DELETE FROM messages: the mentions of the message go with it, and what
\* refers to it as the last one read is set to NULL.  The check of the author
\* before it changes nothing, and a DELETE that finds no row neither.
KeepPointers(m) == lastRead  \* mutant: last_message_id is no foreign key
ClearPointers(m) == [u \in Users |-> IF lastRead[u] = m THEN None ELSE lastRead[u]]

deleteMessage(m) ==
    /\ m \in rows
    /\ rows' = rows \ {m}
    /\ mentions' = mentions \ ({m} \X Users)
    /\ lastRead' = ClearPointers(m)
    /\ UNCHANGED <<now, created, mentionCount, sendPc, mentionedIDs, left,
                   mentioned, ackedAt, settled, lost>>

\* unread_count of getUnreadCounts.
UnreadIfAny(u) ==  \* mutant: a NULL pointer is compared with
    {m \in rows : lastRead[u] # None /\ created[m] > created[lastRead[u]]}
Unread(u) ==
    IF lastRead[u] = None THEN rows
    ELSE {m \in rows : created[m] > created[lastRead[u]]}

-----------------------------------------------------------------------------
sending(m) ==
    \/ Insert(m)
    \/ InsertFails(m)
    \/ \E k \in Keys : InsertMention(m, k)
    \/ CountMention(m)
    \/ CountFails(m)
    \/ Sent(m)

Next ==
    \/ Tick
    \/ \E m \in Messages, ids \in SUBSET Keys : sendMessage(m, ids)
    \/ \E m \in Messages : sending(m)
    \/ \E u \in Users, m \in Messages : ackMessages(u, m)
    \/ \E m \in Messages : deleteMessage(m)

Spec == Init /\ [][Next]_vars

-----------------------------------------------------------------------------
(* Properties                                                              *)

\* The tables stay consistent under deletes that come between the statements of
\* a send: no mention and no pointer refers to a deleted message, so the inner
\* SELECT of getUnreadCounts never yields NULL (notifications.go:57).
NoDangling ==
    /\ mentions \subseteq rows \X Users
    /\ \A u \in Users : lastRead[u] # None => lastRead[u] \in rows

\* mention_count is exact, whatever sends, acks and deletes run at the same time:
\* it has every mention whose turn came after the last ack, and no other, and none
\* twice.  A mention is an ID of one message as it was written: a message that
\* spells the ID of a user in two ways counts twice.  It lacks what had an error,
\* which the loop ignores, and only that: the loop still comes to the others
\* (messages.go:151-167, notifications.go:29).
MentionsCountedOnce ==
    \A u \in Users :
        mentionCount[u] + settled[u] = Cardinality(Counted(u))

\* An ack hides no message whose send began in a later instant, whatever
\* becomes of the message acknowledged: until the next ack it is counted as
\* unread as soon as it shows.  (Of messages sent in the same instant or before,
\* some may show after the ack and never be counted; notifications.go:52-57.)
LaterIsUnread ==
    \A u \in Users : \A m \in rows :
        created[m] > ackedAt[u] => m \in Unread(u)
=============================================================================
