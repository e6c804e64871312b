-------------------------- MODULE ReadStates_proofs --------------------------
(***************************************************************************)
(* Proofs about ReadStates: its tables stay consistent and no mention is   *)
(* counted twice or forgotten, for any numbers of users, spellings and     *)
(* messages.                                                               *)
(***************************************************************************)
EXTENDS ReadStates, FiniteSetTheorems, TLAPS

\* The mention loop is at an ID it is not done with, and a loop that has not begun
\* is done with none; an upsert that had an error belongs to one the loop is done
\* with.
Looping ==
    \A m \in Messages :
        /\ mentioned[m] # None => mentioned[m] \in left[m]
        /\ mentioned[m] # None => sendPc[m] = "mentioning"
        /\ left[m] \subseteq mentionedIDs[m]
        /\ sendPc[m] = "idle" => mentionedIDs[m] = {}

LostIsOver == \A p \in lost : p[2] \in mentionedIDs[p[1]] \ left[p[1]]

\* A row shows only after its INSERT has started.
Shown == \A m \in rows : sendPc[m] \notin {"idle", "inserting"}

\* The clock has reached every created_at and every ack, and an ack is not
\* earlier than the message it is about.
Timed ==
    /\ \A m \in Messages : created[m] <= now
    /\ \A u \in Users :
          /\ ackedAt[u] <= now
          /\ lastRead[u] # None => created[lastRead[u]] <= ackedAt[u]

IInv ==
    /\ TypeOK
    /\ NoDangling
    /\ MentionsCountedOnce
    /\ Looping
    /\ LostIsOver
    /\ Shown
    /\ Timed

\* There are finitely many mentions.
LEMMA CountedFinite ==
    ASSUME NEW u
    PROVE  IsFiniteSet(Counted(u)) /\ Cardinality(Counted(u)) \in Nat
  <1>1. IsFiniteSet(Messages \X Keys)
    BY FS_Product, ReadStatesAssumption DEF Keys
  <1>2. Counted(u) \subseteq Messages \X Keys BY DEF Counted
  <1> QED BY <1>1, <1>2, FS_Subset, FS_CardinalityType

LEMMA InitIInv == Init => IInv
  <1> SUFFICES ASSUME Init PROVE IInv OBVIOUS
  <1>1. \A u : Counted(u) = {} BY DEF Init, Counted
  <1>2. MentionsCountedOnce
    BY <1>1, FS_EmptySet DEF Init, MentionsCountedOnce
  <1> QED
    BY <1>2, ReadStatesAssumption
       DEF Init, IInv, TypeOK, NoDangling, Looping, LostIsOver, Shown, Timed

\* A step after which the same mentions have been counted.
LEMMA CountsKept ==
    ASSUME MentionsCountedOnce, mentionCount' = mentionCount, settled' = settled,
           \A u \in Users : Counted(u)' = Counted(u)
    PROVE  MentionsCountedOnce'
  BY DEF MentionsCountedOnce

LEMMA NextIInv == IInv /\ [Next]_vars => IInv'
<1> SUFFICES ASSUME IInv, [Next]_vars PROVE IInv'
  OBVIOUS
<1> DEFINE Rest == TypeOK /\ NoDangling /\ Looping /\ LostIsOver /\ Shown /\ Timed
<1>0. SUFFICES Rest' /\ MentionsCountedOnce'
  BY DEF IInv
<1> USE ReadStatesAssumption
<1>1. CASE Tick
  <2>1. Rest'
    BY <1>1 DEF Tick, IInv, TypeOK, NoDangling, Looping, LostIsOver, Shown, Timed
  <2>2. MentionsCountedOnce'
    BY <1>1, CountsKept DEF Tick, IInv, Counted
  <2> QED BY <2>1, <2>2
<1>2. ASSUME NEW m \in Messages, NEW ids \in SUBSET Keys, sendMessage(m, ids)
      PROVE  Rest' /\ MentionsCountedOnce'
  <2>1. Rest'
    BY <1>2 DEF sendMessage, Stamp, IInv, TypeOK, NoDangling, Looping, LostIsOver,
                Shown, Timed
  <2>2. mentionedIDs[m] = {}
    BY <1>2 DEF sendMessage, IInv, Looping
  <2>3. \A n \in Messages : mentionedIDs'[n] \ left'[n] = mentionedIDs[n] \ left[n]
    BY <1>2, <2>2 DEF sendMessage, IInv, TypeOK
  <2>4. \A u \in Users : Counted(u)' = Counted(u)
    BY <1>2, <2>3 DEF sendMessage, Counted
  <2>5. MentionsCountedOnce'
    BY <1>2, <2>4, CountsKept DEF sendMessage, IInv
  <2> QED BY <2>1, <2>5
<1>3. ASSUME NEW m \in Messages, Insert(m) \/ InsertFails(m)
      PROVE  Rest' /\ MentionsCountedOnce'
  <2>1. Rest'
    BY <1>3 DEF Insert, InsertFails, IInv, TypeOK, NoDangling, Looping, LostIsOver,
                Shown, Timed
  <2>2. MentionsCountedOnce'
    BY <1>3, CountsKept DEF Insert, InsertFails, IInv, Counted
  <2> QED BY <2>1, <2>2
<1>4. ASSUME NEW m \in Messages, NEW k \in Keys, InsertMention(m, k)
      PROVE  Rest' /\ MentionsCountedOnce'
  <2>1. UserOf(k) \in Users
    BY DEF Keys, UserOf
  <2>2. Rest'
    BY <1>4, <2>1 DEF InsertMention, IInv, TypeOK, NoDangling, Looping, LostIsOver,
                      Shown, Timed
  <2>3. MentionsCountedOnce'
    BY <1>4, CountsKept DEF InsertMention, IInv, Counted
  <2> QED BY <2>2, <2>3
<1>5. ASSUME NEW m \in Messages, CountMention(m)
      PROVE  Rest' /\ MentionsCountedOnce'
  <2>k. PICK k \in Keys : k = mentioned[m]
    BY <1>5 DEF CountMention, IInv, TypeOK
  <2>v. PICK v \in Users : v = UserOf(k)
    BY DEF Keys, UserOf
  <2>1. k \in left[m] /\ k \in mentionedIDs[m]
    BY <1>5, <2>k DEF CountMention, IInv, TypeOK, Looping
  <2>2. Rest'
    BY <1>5, <2>k, <2>v, <2>1 DEF CountMention, IInv, TypeOK, NoDangling, Looping,
                                  LostIsOver, Shown, Timed
  <2>3. <<m, k>> \notin lost /\ <<m, k>> \notin Counted(v)
    BY <2>1 DEF IInv, LostIsOver, Counted
  <2>4. /\ lost' = lost /\ mentionedIDs' = mentionedIDs
        /\ left'[m] = left[m] \ {k}
        /\ \A n \in Messages \ {m} : left'[n] = left[n]
    BY <1>5, <2>k DEF CountMention, IInv, TypeOK
  <2>5. Counted(v)' = Counted(v) \cup {<<m, k>>}
    <3>1. \A p \in Messages \X Keys :
             p[2] \in mentionedIDs'[p[1]] \ left'[p[1]]
                <=> p[2] \in mentionedIDs[p[1]] \ left[p[1]] \/ p = <<m, k>>
      BY <2>1, <2>4
    <3> QED BY <2>v, <2>1, <2>3, <2>4, <3>1 DEF Counted
  <2>6. ASSUME NEW u \in Users \ {v} PROVE Counted(u)' = Counted(u)
    <3>1. \A p \in Messages \X Keys : UserOf(p[2]) = u =>
             (p[2] \in mentionedIDs'[p[1]] \ left'[p[1]]
                <=> p[2] \in mentionedIDs[p[1]] \ left[p[1]])
      BY <2>v, <2>4, <2>6
    <3> QED BY <2>4, <3>1 DEF Counted
  <2>7. Cardinality(Counted(v) \cup {<<m, k>>}) = Cardinality(Counted(v)) + 1
    BY <2>3, CountedFinite, FS_AddElement
  <2>8. /\ mentionCount'[v] = mentionCount[v] + 1
        /\ \A u \in Users \ {v} : mentionCount'[u] = mentionCount[u]
        /\ settled' = settled
    BY <1>5, <2>k, <2>v DEF CountMention, IInv, TypeOK
  <2>9. ASSUME NEW u \in Users
        PROVE  mentionCount'[u] + settled'[u] = Cardinality(Counted(u)')
    <3>1. /\ mentionCount[u] + settled[u] = Cardinality(Counted(u))
          /\ mentionCount[u] \in Nat /\ settled[u] \in Nat
      BY DEF IInv, MentionsCountedOnce, TypeOK
    <3>2. CASE u = v
      <4>1. mentionCount'[u] = mentionCount[u] + 1 /\ settled'[u] = settled[u]
        BY <2>8, <3>2
      <4>2. Cardinality(Counted(u)') = Cardinality(Counted(u)) + 1
        BY <2>5, <2>7, <3>2
      <4>3. Cardinality(Counted(u)) \in Nat BY CountedFinite
      <4> QED BY <3>1, <4>1, <4>2, <4>3
    <3>3. CASE u # v BY <2>6, <2>8, <3>1, <3>3
    <3> QED BY <3>2, <3>3
  <2> QED BY <2>2, <2>9 DEF MentionsCountedOnce
<1>6. ASSUME NEW m \in Messages, CountFails(m)
      PROVE  Rest' /\ MentionsCountedOnce'
  <2> DEFINE k == mentioned[m]
  <2>1. k \in Keys /\ k \in left[m] /\ k \in mentionedIDs[m]
    BY <1>6 DEF CountFails, IInv, TypeOK, Looping
  <2>2. Rest'
    BY <1>6, <2>1 DEF CountFails, GoOn, IInv, TypeOK, NoDangling, Looping, LostIsOver,
                      Shown, Timed
  <2>3. /\ lost' = lost \cup {<<m, k>>} /\ mentionedIDs' = mentionedIDs
        /\ left'[m] = left[m] \ {k}
        /\ \A n \in Messages \ {m} : left'[n] = left[n]
    BY <1>6 DEF CountFails, GoOn, IInv, TypeOK
  <2>4. \A p \in (Messages \X Keys) \ {<<m, k>>} :
           p[2] \in mentionedIDs'[p[1]] \ left'[p[1]]
              <=> p[2] \in mentionedIDs[p[1]] \ left[p[1]]
    BY <2>3
  <2>5. \A u \in Users : Counted(u)' = Counted(u)
    BY <2>1, <2>3, <2>4 DEF Counted
  <2>6. MentionsCountedOnce'
    BY <1>6, <2>5, CountsKept DEF CountFails, IInv
  <2> QED BY <2>2, <2>6
<1>7. ASSUME NEW m \in Messages, Sent(m)
      PROVE  Rest' /\ MentionsCountedOnce'
  <2>1. Rest'
    BY <1>7 DEF Sent, IInv, TypeOK, NoDangling, Looping, LostIsOver, Shown, Timed
  <2>2. MentionsCountedOnce'
    BY <1>7, CountsKept DEF Sent, IInv, Counted
  <2> QED BY <2>1, <2>2
<1>8. ASSUME NEW u \in Users, NEW m \in Messages, ackMessages(u, m)
      PROVE  Rest' /\ MentionsCountedOnce'
  <2>1. Cardinality(Counted(u)) \in Nat
    BY CountedFinite
  <2>2. Rest'
    BY <1>8, <2>1 DEF ackMessages, IInv, TypeOK, NoDangling, Looping, LostIsOver,
                      Shown, Timed
  <2>3. \A w \in Users : Counted(w)' = Counted(w)
    BY <1>8 DEF ackMessages, Counted
  <2>4. /\ mentionCount'[u] = 0 /\ settled'[u] = Cardinality(Counted(u))
        /\ \A w \in Users \ {u} :
              mentionCount'[w] = mentionCount[w] /\ settled'[w] = settled[w]
    BY <1>8 DEF ackMessages, IInv, TypeOK
  <2>5. MentionsCountedOnce'
    BY <2>1, <2>3, <2>4 DEF IInv, MentionsCountedOnce
  <2> QED BY <2>2, <2>5
<1>9. ASSUME NEW m \in Messages, deleteMessage(m)
      PROVE  Rest' /\ MentionsCountedOnce'
  <2>1. Rest'
    BY <1>9 DEF deleteMessage, ClearPointers, IInv, TypeOK, NoDangling, Looping,
                LostIsOver, Shown, Timed
  <2>2. MentionsCountedOnce'
    BY <1>9, CountsKept DEF deleteMessage, IInv, Counted
  <2> QED BY <2>1, <2>2
<1>10. CASE UNCHANGED vars
  <2>1. Rest'
    BY <1>10 DEF vars, IInv, TypeOK, NoDangling, Looping, LostIsOver, Shown, Timed
  <2>2. MentionsCountedOnce'
    BY <1>10, CountsKept DEF vars, IInv, Counted
  <2> QED BY <2>1, <2>2
<1> HIDE DEF Rest
<1> QED
  BY <1>1, <1>2, <1>3, <1>4, <1>5, <1>6, <1>7, <1>8, <1>9, <1>10
     DEF Next, sending

\* The invariant holds in every reachable state.
LEMMA Invariance == Spec => []IInv
  BY InitIInv, NextIInv, PTL DEF Spec

\* Every variable keeps its type.
THEOREM TypeCorrect == Spec => []TypeOK
<1>1. IInv => TypeOK
  BY DEF IInv
<1> QED
  BY <1>1, Invariance, PTL

\* No delete, whenever it comes, leaves a mention or a last read message that
\* refers to a message that is gone.
THEOREM NeverDangles == Spec => []NoDangling
<1>1. IInv => NoDangling
  BY DEF IInv
<1> QED
  BY <1>1, Invariance, PTL

\* mention_count has each mention of the user since the last ack once, but those
\* whose upsert had an error, however many sends, acks and deletes run at the same
\* time.
THEOREM CountsMentionsOnce == Spec => []MentionsCountedOnce
<1>1. IInv => MentionsCountedOnce
  BY DEF IInv
<1> QED
  BY <1>1, Invariance, PTL

\* No ack, of whatever message, hides one whose send began in a later instant.
THEOREM LaterStaysUnread == Spec => []LaterIsUnread
<1>1. IInv => LaterIsUnread
  <2> SUFFICES ASSUME IInv, NEW u \in Users, NEW m \in rows,
                      created[m] > ackedAt[u]
               PROVE  m \in Unread(u)
    BY DEF LaterIsUnread
  <2>1. CASE lastRead[u] = None
    BY <2>1 DEF Unread
  <2>2. CASE lastRead[u] # None
    <3>1. created[lastRead[u]] <= ackedAt[u]
      BY <2>2 DEF IInv, Timed
    <3>2. /\ created[m] \in Nat
          /\ created[lastRead[u]] \in Nat
          /\ ackedAt[u] \in Nat
      BY <2>2, ReadStatesAssumption DEF IInv, TypeOK
    <3> QED
      BY <2>2, <3>1, <3>2 DEF Unread
  <2> QED
    BY <2>1, <2>2
<1> QED
  BY <1>1, Invariance, PTL
=============================================================================
