---------------------------- MODULE Pages_proofs ----------------------------
(***************************************************************************)
(* Proofs about Pages, for any number of messages, any limits and however  *)
(* long the clock runs.                                                    *)
(*                                                                         *)
(* CompleteButTies carries itself over a page, given that what shows was   *)
(* sent (Sent), that the oldest message the reader has comes first         *)
(* (InOrderOnce), and that whoever goes on has one to go on from (Going).  *)
(***************************************************************************)
EXTENDS Pages, FiniteSetTheorems, TLAPS

\* What shows was sent, and so was what the reader has.
Sent ==
    /\ \A m \in rows : sendPc[m] = "done"
    /\ \A i \in DOMAIN history : sendPc[history[i]] = "done"
    /\ present \subseteq rows
    /\ reader = "off" => history = <<>> /\ present = {}

\* Whoever goes on reading has something to go on from.
Going == reader = "reading" => history # <<>>

IInv == TypeOK /\ Sent /\ InOrderOnce /\ CompleteButTies /\ Going

-----------------------------------------------------------------------------
LEMMA InitInv == Init => IInv
  <1> SUFFICES ASSUME Init PROVE IInv OBVIOUS
  <1>1. TypeOK
    <2>1. <<>> \in Seq(Messages) OBVIOUS
    <2>2. 0 \in 0..MaxTime BY PagesAssumption
    <2> QED BY <2>1, <2>2 DEF Init, TypeOK
  <1>2. Sent /\ InOrderOnce /\ CompleteButTies /\ Going
    BY DEF Init, Sent, InOrderOnce, CompleteButTies, Going
  <1> QED BY <1>1, <1>2 DEF IInv

\* What is shown of a page are the newest of the rows that match.  If it is not
\* full and nothing broke off it is all of them, and if it is full it is not empty.
LEMMA PageSize ==
    ASSUME TypeOK, NEW limit \in Limits,
           NEW page \in Selected(limit), NEW shown \in Shown(page)
    PROVE  /\ shown \subseteq Matching /\ Matching \subseteq rows
           /\ Cardinality(shown) \in Nat /\ IsFiniteSet(shown)
           /\ Cardinality(shown) < limit => shown # page \/ shown = Matching
           /\ Cardinality(shown) >= limit => Cardinality(shown) # 0
           /\ \A m \in shown, n \in Matching \ shown : created[n] <= created[m]
  <1>1. Matching \subseteq rows BY DEF Matching
  <1>2. IsFiniteSet(Matching) /\ Cardinality(Matching) \in Nat
    <2>1. Matching \in SUBSET Messages BY <1>1 DEF TypeOK
    <2> QED BY <2>1, PagesAssumption, FS_Subset, FS_CardinalityType
  <1>3. page \in SUBSET Matching BY DEF Selected
  <1>4. Cardinality(page) = IF Cardinality(Matching) < limit
                              THEN Cardinality(Matching) ELSE limit
    BY DEF Selected
  <1>5. limit \in Nat \ {0} BY PagesAssumption
  <1>6. IsFiniteSet(page) /\ Cardinality(page) \in Nat
    BY <1>2, <1>3, FS_Subset, FS_CardinalityType
  <1>7. Cardinality(page) = Cardinality(Matching) => page = Matching
    BY <1>2, <1>3, FS_Subset
  <1>8. shown \subseteq page /\ NewestFirst(shown, page \ shown) BY DEF Shown
  <1>9. IsFiniteSet(shown) /\ Cardinality(shown) \in Nat
    BY <1>6, <1>8, FS_Subset, FS_CardinalityType
  <1>10. ASSUME NEW m \in shown, NEW n \in Matching \ shown
         PROVE  created[n] <= created[m]
    <2>1. CASE n \in page BY <1>8, <2>1 DEF NewestFirst
    <2>2. CASE n \notin page BY <1>8, <2>2 DEF Selected, NewestFirst
    <2> QED BY <2>1, <2>2
  <1>11. Cardinality(shown) < limit => shown # page \/ shown = Matching
    BY <1>2, <1>4, <1>5, <1>7
  <1> QED BY <1>1, <1>3, <1>5, <1>8, <1>9, <1>10, <1>11

\* The rows as fetched have each message of the page once.
LEMMA Fetched ==
    ASSUME NEW page, IsFiniteSet(page), Cardinality(page) \in Nat,
           NEW s \in Descending(page)
    PROVE  \A m \in page : \E i \in 1..Cardinality(page) : s[i] = m
  <1>1. s \in Injection(1..Cardinality(page), page)
    BY DEF Descending, Injection, IsInjective
  <1>2. Cardinality(1..Cardinality(page)) = Cardinality(page) BY FS_Interval
  <1>3. s \in Surjection(1..Cardinality(page), page) BY <1>1, <1>2, FS_Injection
  <1> QED BY <1>3 DEF Surjection

\* The history after a page: the page backwards, then what was there before.
LEMMA Joined ==
    ASSUME NEW page \in SUBSET Messages, Cardinality(page) \in Nat,
           NEW s \in Descending(page), NEW h \in Seq(Messages)
    PROVE  LET k == Cardinality(page)
               new == Chronological(s) \o h
           IN  /\ new \in Seq(Messages)
               /\ Len(new) = k + Len(h)
               /\ \A i \in 1..k : new[i] = s[k - i + 1]
               /\ \A i \in k + 1 .. k + Len(h) : new[i] = h[i - k]
  <1> DEFINE k == Cardinality(page)
  <1>1. s \in [1..k -> Messages] BY DEF Descending
  <1>2. s \in Seq(Messages) /\ Len(s) = k BY <1>1
  <1>3. Chronological(s) = [i \in 1..k |-> s[(k - i) + 1]]
    BY <1>2 DEF Chronological, Reverse
  <1>4. Chronological(s) \in Seq(Messages) /\ Len(Chronological(s)) = k
    <2>1. \A i \in 1..k : (k - i) + 1 \in 1..k OBVIOUS
    <2>2. [i \in 1..k |-> s[(k - i) + 1]] \in [1..k -> Messages] BY <1>1, <2>1
    <2> DEFINE r == [i \in 1..k |-> s[(k - i) + 1]]
    <2>3. r \in [1..k -> Messages] /\ k \in Nat BY <2>2
    <2> HIDE DEF r, k
    <2>4. r \in Seq(Messages) /\ Len(r) = k BY <2>3
    <2> QED BY <1>3, <2>4 DEF r
  <1> DEFINE c == Chronological(s)
             new == c \o h
  <1>5. new \in Seq(Messages) /\ Len(new) = k + Len(h) BY <1>4
  <1>6. \A i \in 1..k : new[i] = c[i] BY <1>4
  <1>7. \A i \in k + 1 .. k + Len(h) : new[i] = h[i - k] BY <1>4
  <1>8. \A i \in 1..k : c[i] = s[k - i + 1] BY <1>3
  <1> QED BY <1>5, <1>6, <1>7, <1>8

\* A page keeps the order, and brings the reader as far back as its oldest row.
LEMMA PageKeeps ==
    ASSUME IInv, NEW limit \in Limits, getMessages(limit)
    PROVE  IInv'
  <1> USE DEF IInv, tableVars
  <1>0. PICK whole \in Selected(limit) : \E page \in Shown(whole) :
           /\ \E s \in Descending(page) : history' = Chronological(s) \o history
           /\ reader' = IF Cardinality(page) < limit THEN "done" ELSE "reading"
           /\ broken' = (broken \/ page # whole)
    BY DEF getMessages
  <1>1. PICK page \in Shown(whole) :
           /\ \E s \in Descending(page) : history' = Chronological(s) \o history
           /\ reader' = IF Cardinality(page) < limit THEN "done" ELSE "reading"
           /\ broken' = (broken \/ page # whole)
    BY <1>0
  <1>a. PICK s \in Descending(page) : history' = Chronological(s) \o history
    BY <1>1
  <1> DEFINE k == Cardinality(page)
  <1>2. /\ reader # "done"
        /\ present' = IF reader = "off" THEN rows ELSE present
        /\ cutOff' = (cutOff \/ before \notin rows \cup {None})
        /\ UNCHANGED <<now, rows, created, sendPc>>
    BY DEF getMessages
  <1>3. /\ page \subseteq Matching /\ Matching \subseteq rows
        /\ k \in Nat /\ IsFiniteSet(page)
        /\ k < limit => page # whole \/ page = Matching
        /\ k >= limit => k # 0
        /\ \A m \in page, n \in Matching \ page : created[n] <= created[m]
    BY PageSize
  <1>4. rows \subseteq Messages /\ history \in Seq(Messages)
        /\ created \in [Messages -> Nat] /\ limit \in Nat \ {0}
    BY PagesAssumption DEF TypeOK
  <1>5. page \in SUBSET Messages BY <1>3, <1>4
  <1>6. /\ history' \in Seq(Messages)
        /\ Len(history') = k + Len(history)
        /\ \A i \in 1..k : history'[i] = s[k - i + 1]
        /\ \A i \in k + 1 .. k + Len(history) : history'[i] = history[i - k]
    BY <1>a, <1>3, <1>4, <1>5, Joined
  <1>7. /\ s \in [1..k -> page]
        /\ \A i, j \in 1..k : s[i] = s[j] => i = j
        /\ \A i, j \in 1..k : i < j => created[s[j]] <= created[s[i]]
    BY DEF Descending, IsInjective
  <1>8. \A m \in page : \E i \in 1..k : history'[i] = m
    <2>1. ASSUME NEW m \in page PROVE \E i \in 1..k : history'[i] = m
      <3>1. PICK j \in 1..k : s[j] = m BY <1>3, Fetched
      <3>2. k - j + 1 \in 1..k /\ k - (k - j + 1) + 1 = j BY <1>3
      <3> QED BY <1>6, <3>1, <3>2
    <2> QED BY <2>1
  <1>9. \A i \in 1..k : history'[i] \in page
    <2>1. \A i \in 1..k : k - i + 1 \in 1..k BY <1>3
    <2> QED BY <1>6, <1>7, <2>1
  <1>10. DOMAIN history = 1..Len(history) /\ DOMAIN history' = 1..k + Len(history)
         /\ Len(history) \in Nat
    BY <1>4, <1>6
  <1>11. TypeOK'
    <2>1. cutOff' \in BOOLEAN /\ broken' \in BOOLEAN BY <1>1, <1>2 DEF TypeOK
    <2>2. reader' \in {"off", "reading", "done"} BY <1>1
    <2>3. present' \in SUBSET Messages BY <1>2, <1>4 DEF TypeOK
    <2> QED BY <1>2, <1>6, <2>1, <2>2, <2>3 DEF TypeOK
  <1>12. Sent'
    <2>1. \A i \in DOMAIN history' : sendPc[history'[i]] = "done"
      <3> SUFFICES ASSUME NEW i \in 1..k + Len(history)
                   PROVE  sendPc[history'[i]] = "done"
        BY <1>10
      <3>1. CASE i \in 1..k BY <1>3, <1>9, <3>1 DEF Sent
      <3>2. CASE i \in k + 1 .. k + Len(history)
        <4>1. i - k \in DOMAIN history BY <1>3, <1>10, <3>2
        <4> QED BY <1>6, <3>2, <4>1 DEF Sent
      <3> QED BY <1>3, <1>10, <3>1, <3>2
    <2>2. present' \subseteq rows BY <1>2 DEF Sent
    <2>3. reader' # "off" BY <1>1
    <2> QED BY <1>2, <2>1, <2>2, <2>3 DEF Sent
  <1>13. \A i \in DOMAIN history, m \in Matching : created[m] < created[history[i]]
    <2> SUFFICES ASSUME NEW i \in DOMAIN history, NEW m \in Matching
                 PROVE  created[m] < created[history[i]]
      OBVIOUS
    <2>1. history # <<>> BY <1>10
    <2>2. before = history[1] /\ before # None /\ 1 \in DOMAIN history
      BY <1>4, <1>10, <2>1, PagesAssumption DEF before
    <2>3. created[m] < created[before] BY <1>3, <2>2 DEF Matching, Earlier
    <2>4. created[before] <= created[history[i]]
      BY <1>4, <1>10, <2>2 DEF InOrderOnce
    <2>5. history[i] \in Messages /\ before \in Messages /\ m \in Messages
      BY <1>3, <1>4, <1>10, <2>2
    <2> QED BY <1>4, <2>3, <2>4, <2>5
  <1>14. InOrderOnce'
    <2> SUFFICES ASSUME NEW i \in 1..k + Len(history), NEW j \in 1..k + Len(history), i < j
                 PROVE  /\ history'[i] # history'[j]
                        /\ created[history'[i]] <= created[history'[j]]
      BY <1>2, <1>10 DEF InOrderOnce
    <2>1. CASE i \in 1..k /\ j \in 1..k
      <3>1. k - i + 1 \in 1..k /\ k - j + 1 \in 1..k /\ k - j + 1 < k - i + 1
        BY <1>3, <2>1
      <3> QED BY <1>6, <1>7, <2>1, <3>1
    <2>2. CASE i \in 1..k /\ j \in k + 1 .. k + Len(history)
      <3>1. j - k \in DOMAIN history BY <1>3, <1>10, <2>2
      <3>2. created[history'[i]] < created[history[j - k]] BY <1>3, <1>9, <1>13, <2>2, <3>1
      <3>3. history'[j] = history[j - k] BY <1>6, <2>2
      <3>4. history'[i] \in Messages /\ history[j - k] \in Messages
        BY <1>4, <1>5, <1>9, <1>10, <2>2, <3>1
      <3> QED BY <1>4, <3>2, <3>3, <3>4
    <2>3. CASE i \in k + 1 .. k + Len(history) /\ j \in k + 1 .. k + Len(history)
      <3>1. i - k \in DOMAIN history /\ j - k \in DOMAIN history /\ i - k < j - k
        BY <1>3, <1>10, <2>3
      <3> QED BY <1>6, <2>3, <3>1 DEF InOrderOnce
    <2> QED BY <1>3, <1>10, <2>1, <2>2, <2>3
  <1>15. Going' /\ (reader' = "reading" => k # 0)
    <2>1. reader' = "reading" => k # 0 BY <1>1, <1>3, <1>4
    <2>2. k # 0 => history' # <<>> BY <1>3, <1>6, <1>10
    <2> QED BY <2>1, <2>2 DEF Going
  <1>16. CompleteButTies'
    <2> SUFFICES ASSUME ~cutOff', NEW m \in present'
                 PROVE  \/ \E i \in DOMAIN history' : created[history'[i]] = created[m]
                        \/ /\ reader' = "reading" \/ broken'
                           /\ \A i \in DOMAIN history' : created[m] < created[history'[i]]
      BY <1>2 DEF CompleteButTies
    <2>1. m \in rows /\ m \in Messages BY <1>2, <1>4 DEF Sent
    <2>2. before \in rows \cup {None} /\ ~cutOff BY <1>2
    <2>3. CASE \E i \in DOMAIN history : created[history[i]] = created[m]
      <3>1. PICK i \in DOMAIN history : created[history[i]] = created[m] BY <2>3
      <3> DEFINE j == i + k
      <3>2. j \in k + 1 .. k + Len(history) /\ j - k = i BY <1>3, <1>10
      <3> HIDE DEF j
      <3>3. history'[j] = history[i] BY <1>6, <3>2
      <3>4. j \in DOMAIN history' BY <1>3, <1>10, <3>2
      <3> QED BY <3>1, <3>3, <3>4
    <2>4. CASE ~ \E i \in DOMAIN history : created[history[i]] = created[m]
      <3>1. m \in Matching
        <4>1. CASE reader = "off"
          <5>1. before = None BY <4>1 DEF before, Sent
          <5>2. before \notin rows BY <1>4, <5>1, PagesAssumption
          <5> QED BY <2>1, <5>1, <5>2 DEF Matching
        <4>2. CASE reader # "off"
          <5>1. reader = "reading" BY <1>2, <4>2 DEF TypeOK
          <5>2. m \in present BY <1>2, <4>2
          <5>3. history # <<>> /\ 1 \in DOMAIN history /\ Head(history) = history[1]
            BY <1>4, <5>1 DEF Going
          <5>4. before = history[1] /\ before \in Messages /\ created[m] < created[before]
            BY <1>4, <2>2, <2>4, <5>1, <5>2, <5>3 DEF CompleteButTies, before
          <5>5. before \in rows BY <2>2, <5>4, PagesAssumption
          <5> QED BY <2>1, <5>3, <5>4, <5>5, PagesAssumption DEF Matching, Earlier
        <4> QED BY <4>1, <4>2
      <3>2. CASE m \in page
        <4>1. PICK i \in 1..k : history'[i] = m BY <1>8, <3>2
        <4> QED BY <1>3, <1>10, <4>1
      <3>3. CASE m \notin page
        <4>1. reader' = "reading" \/ broken' BY <1>1, <1>3, <1>4, <3>1, <3>3
        <4>2. CASE \E i \in DOMAIN history' : created[history'[i]] = created[m] BY <4>2
        <4>3. CASE ~ \E i \in DOMAIN history' : created[history'[i]] = created[m]
          <5>1. ASSUME NEW i \in 1..k + Len(history) PROVE created[m] < created[history'[i]]
            <6>1. CASE i \in 1..k
              <7>1. history'[i] \in page /\ history'[i] \in Messages BY <1>5, <1>9, <6>1
              <7>2. created[m] <= created[history'[i]] BY <1>3, <3>1, <3>3, <7>1
              <7> QED BY <1>4, <1>10, <2>1, <4>3, <7>1, <7>2
            <6>2. CASE i \in k + 1 .. k + Len(history)
              <7>1. i - k \in DOMAIN history /\ history'[i] = history[i - k]
                BY <1>3, <1>6, <1>10, <6>2
              <7>2. history[i - k] \in Messages BY <1>4, <1>10, <7>1
              <7>3. created[m] < created[history[i - k]] BY <1>13, <3>1, <7>1
              <7> QED BY <7>1, <7>3
            <6> QED BY <1>3, <1>10, <6>1, <6>2
          <5> QED BY <1>10, <4>1, <5>1
        <4> QED BY <4>2, <4>3
      <3> QED BY <3>2, <3>3
    <2> QED BY <2>3, <2>4
  <1> QED BY <1>11, <1>12, <1>14, <1>15, <1>16

LEMMA StepInv == IInv /\ [Next]_vars => IInv'
  <1> SUFFICES ASSUME IInv, [Next]_vars PROVE IInv' OBVIOUS
  <1> USE DEF IInv, tableVars
  <1>1. CASE Tick
    BY <1>1, PagesAssumption DEF Tick, TypeOK, Sent, InOrderOnce, CompleteButTies, Going
  <1>2. ASSUME NEW m \in Messages, sendMessage(m) PROVE IInv'
    <2>1. TypeOK' BY <1>2 DEF sendMessage, Stamp, TypeOK
    <2>2. \A i \in DOMAIN history : history[i] \in Messages /\ history[i] # m
      BY <1>2 DEF sendMessage, Sent, TypeOK
    <2>3. \A x \in Messages \ {m} : created'[x] = created[x] /\ sendPc'[x] = sendPc[x]
      BY <1>2 DEF sendMessage, TypeOK
    <2>4. m \notin rows /\ present \subseteq rows /\ rows \subseteq Messages
      BY <1>2 DEF sendMessage, Sent, TypeOK
    <2>5. Sent' /\ InOrderOnce' /\ Going'
      BY <1>2, <2>2, <2>3, <2>4 DEF sendMessage, Sent, InOrderOnce, Going
    <2>6. CompleteButTies' BY <1>2, <2>2, <2>3, <2>4 DEF sendMessage, CompleteButTies
    <2> QED BY <2>1, <2>5, <2>6
  <1>3. ASSUME NEW m \in Messages, Insert(m) PROVE IInv'
    <2>1. TypeOK' BY <1>3 DEF Insert, TypeOK
    <2>2. Sent' BY <1>3 DEF Insert, Sent, TypeOK
    <2> QED BY <1>3, <2>1, <2>2 DEF Insert, InOrderOnce, CompleteButTies, Going
  <1>4. ASSUME NEW m \in Messages, deleteMessage(m) PROVE IInv'
    <2>1. TypeOK' BY <1>4 DEF deleteMessage, TypeOK
    <2> QED BY <1>4, <2>1 DEF deleteMessage, Sent, InOrderOnce, CompleteButTies, Going
  <1>5. CASE UNCHANGED vars
    BY <1>5 DEF vars, TypeOK, Sent, InOrderOnce, CompleteButTies, Going
  <1> HIDE DEF IInv, tableVars
  <1> QED BY <1>1, <1>2, <1>3, <1>4, <1>5, PageKeeps DEF Next

LEMMA Invariance == Spec => []IInv
  BY InitInv, StepInv, PTL DEF Spec

\* Every variable of the walk keeps its type.
THEOREM TypeCorrect == Spec => []TypeOK
  <1>1. IInv => TypeOK BY DEF IInv
  <1> QED BY Invariance, <1>1, PTL

\* The pages put together are in order and show nothing twice.
THEOREM ReadsInOrder == Spec => []InOrderOnce
  <1>1. IInv => InOrderOnce BY DEF IInv
  <1> QED BY Invariance, <1>1, PTL

\* What the reader has leaves no gap but for ties, and a walk that ended with no
\* page broken off shows all that was there all the time.
THEOREM ReadsAll == Spec => []CompleteButTies
  <1>1. IInv => CompleteButTies BY DEF IInv
  <1> QED BY Invariance, <1>1, PTL
=============================================================================
