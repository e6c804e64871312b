-------------------------- MODULE Accounts_proofs --------------------------
(***************************************************************************)
(* Proofs about Accounts, for any numbers of clients, requests and faults. *)
(*                                                                         *)
(* TokenIsOwn is not inductive alone: that a comparison which succeeds     *)
(* finds the row of the client itself rests on Owned, that a client asks   *)
(* for one name and one email only.                                        *)
(***************************************************************************)
EXTENDS Accounts, TLAPS

\* The account of a client has the name and email it wants.
Owned ==
    \A u \in users : u.name = name[u.password] /\ u.email = email[u.password]

IInv == TypeOK /\ Owned /\ OneAccountEach /\ TokenIsOwn

-----------------------------------------------------------------------------
LEMMA InitInv == Init => IInv
  <1> SUFFICES ASSUME Init PROVE IInv OBVIOUS
  <1>1. TypeOK BY AccountsAssumption DEF Init, TypeOK, Working
  <1>2. Owned /\ OneAccountEach BY DEF Init, Owned, OneAccountEach
  <1>3. TokenIsOwn
    <2>1. \A e \in Emails : e # None BY AccountsAssumption
    <2> QED BY <2>1 DEF Init, TokenIsOwn, Runs
  <1> QED BY <1>1, <1>2, <1>3 DEF IInv

\* No handler changes a row, so what a token names stays there.
LEMMA RunKeeps ==
    ASSUME IInv, NEW c \in Clients, NEW s \in Slots, NEW from, NEW to,
           NEW u \in Emails \cup {None},
           to \in Working \cup Answers,
           Goes(<<c, s>>, from, to, u),
           users' = users, faults' \in 0 .. MaxFaults,
           to \in {"sign", "welcome"} /\ u # None
              => [name |-> name[c], email |-> u, password |-> c] \in users
    PROVE  IInv'
  <1> USE DEF IInv, Goes, clients
  <1>1. <<c, s>> \in Runs BY DEF Runs
  <1>2. TypeOK' BY <1>1 DEF TypeOK
  <1>3. Owned' BY DEF Owned
  <1>4. OneAccountEach' BY DEF OneAccountEach
  <1>5. TokenIsOwn'
    <2> SUFFICES ASSUME NEW d \in Clients, NEW e \in Emails,
                        \/ token[d] = e
                        \/ \E z \in Slots : /\ user'[<<d, z>>] = e
                                            /\ at'[<<d, z>>] \in {"sign", "welcome"}
                 PROVE  [name |-> name[d], email |-> e, password |-> d] \in users
      BY DEF TokenIsOwn
    <2>1. e # None BY AccountsAssumption
    <2>2. CASE token[d] = e BY <2>2 DEF TokenIsOwn
    <2>3. ASSUME NEW z \in Slots, user'[<<d, z>>] = e,
                 at'[<<d, z>>] \in {"sign", "welcome"}
          PROVE  [name |-> name[d], email |-> e, password |-> d] \in users
      <3>1. <<d, z>> \in Runs BY DEF Runs
      <3>2. CASE <<d, z>> = <<c, s>>
        BY <1>1, <2>1, <2>3, <3>2 DEF TypeOK
      <3>3. CASE <<d, z>> # <<c, s>>
        <4>1. user[<<d, z>>] = e /\ at[<<d, z>>] \in {"sign", "welcome"}
          BY <2>3, <3>1, <3>3 DEF TypeOK
        <4> QED BY <4>1 DEF TokenIsOwn
      <3> QED BY <3>2, <3>3
    <2> QED BY <2>2, <2>3
  <1> QED BY <1>2, <1>3, <1>4, <1>5

LEMMA InsertKeeps ==
    ASSUME IInv, NEW c \in Clients, NEW s \in Slots, NEW to, NEW u,
           ~Taken(c), users' = users \cup {NewUser(c)},
           \/ to = "sign" /\ u = email[c]
           \/ to = "conflict" /\ u = None,
           Goes(<<c, s>>, "insert", to, u), faults' \in 0 .. MaxFaults
    PROVE  IInv'
  <1> USE DEF IInv, Goes, clients, NewUser
  <1>1. <<c, s>> \in Runs BY DEF Runs
  <1>2. NewUser(c) \in [name : Names, email : Emails, password : Clients] BY DEF TypeOK
  <1>3. TypeOK' BY <1>1, <1>2 DEF TypeOK, Working, Answers
  <1>4. Owned' BY DEF Owned
  <1>5. \A v \in users : v.name # name[c] /\ v.email # email[c] /\ v.password # c
    <2>1. \A v \in users : v.name # name[c] /\ v.email # email[c] BY DEF Taken
    <2> QED BY <2>1 DEF Owned
  <1>6. OneAccountEach' BY <1>5 DEF OneAccountEach
  <1>7. TokenIsOwn'
    <2> SUFFICES ASSUME NEW d \in Clients, NEW e \in Emails,
                        \/ token[d] = e
                        \/ \E z \in Slots : /\ user'[<<d, z>>] = e
                                            /\ at'[<<d, z>>] \in {"sign", "welcome"}
                 PROVE  [name |-> name[d], email |-> e, password |-> d] \in users'
      BY DEF TokenIsOwn
    <2>1. CASE token[d] = e BY <2>1 DEF TokenIsOwn
    <2>2. ASSUME NEW z \in Slots, user'[<<d, z>>] = e,
                 at'[<<d, z>>] \in {"sign", "welcome"}
          PROVE  [name |-> name[d], email |-> e, password |-> d] \in users'
      <3>1. <<d, z>> \in Runs BY DEF Runs
      <3>2. CASE <<d, z>> = <<c, s>>
        <4>1. d = c BY <3>2
        <4>2. e = email[c] BY <1>1, <2>2, <3>2 DEF TypeOK
        <4> QED BY <4>1, <4>2
      <3>3. CASE <<d, z>> # <<c, s>>
        <4>1. user[<<d, z>>] = e /\ at[<<d, z>>] \in {"sign", "welcome"}
          BY <2>2, <3>1, <3>3 DEF TypeOK
        <4> QED BY <4>1 DEF TokenIsOwn
      <3> QED BY <3>2, <3>3
    <2> QED BY <2>1, <2>2
  <1> QED BY <1>3, <1>4, <1>6, <1>7

LEMMA HandlerKeeps ==
    ASSUME IInv, NEW c \in Clients, NEW s \in Slots,
           register(c, s) \/ login(c, s) \/ sign(c, s)
    PROVE  IInv'
  <1>1. faults \in 0 .. MaxFaults /\ (Fault => faults' \in 0 .. MaxFaults)
    BY AccountsAssumption DEF IInv, TypeOK, Fault
  <1>2. CASE InsertUser(c, s)
    BY <1>1, <1>2, InsertKeeps DEF InsertUser, Succeeds
  <1>3. CASE UserExists(c, s)
    BY <1>1, <1>3, RunKeeps DEF UserExists, Succeeds, Working, Answers
  <1>4. CASE InsertFails(c, s)
    <2>1. Goes(<<c, s>>, "insert", "conflict", None) /\ faults' \in 0 .. MaxFaults
      BY <1>1, <1>4 DEF InsertFails, Fails
    <2>2. CASE UNCHANGED users BY <2>1, <2>2, RunKeeps DEF Working, Answers
    <2>3. CASE ~Taken(c) /\ users' = users \cup {NewUser(c)}
      BY <2>1, <2>3, InsertKeeps
    <2> QED BY <1>4, <2>2, <2>3 DEF InsertFails
  <1>5. CASE SelectUser(c, s)
    <2>1. PICK u \in users :
             u \in RowsOf(c) /\ Succeeds(<<c, s>>, "select", "compare", u.email)
      BY <1>5 DEF SelectUser, RowsOf
    <2>2. u.email \in Emails BY DEF IInv, TypeOK
    <2> QED BY <1>1, <1>5, <2>1, <2>2, RunKeeps DEF SelectUser, Succeeds, Working, Answers
  <1>6. CASE NoSuchUser(c, s)
    BY <1>1, <1>6, RunKeeps DEF NoSuchUser, Succeeds, Working, Answers
  <1>7. CASE SelectFails(c, s)
    BY <1>1, <1>7, RunKeeps DEF SelectFails, Fails, Working, Answers
  <1>8. CASE CompareHash(c, s)
    <2>1. PICK u \in users :
             IF Matches(c, u)
               THEN Succeeds(<<c, s>>, "compare", "sign", u.email)
               ELSE Succeeds(<<c, s>>, "compare", "refused", None)
      BY <1>8 DEF CompareHash
    <2>2. users' = users BY <1>8 DEF CompareHash
    <2>3. u.email \in Emails BY DEF IInv, TypeOK
    <2>4. CASE Matches(c, u)
      <3>1. [name |-> name[c], email |-> u.email, password |-> c] = u
        BY <2>4 DEF IInv, TypeOK, Owned, Matches
      <3> QED
        BY <1>1, <2>1, <2>2, <2>3, <2>4, <3>1, RunKeeps DEF Succeeds, Working, Answers
    <2>5. CASE ~Matches(c, u)
      BY <1>1, <2>1, <2>2, <2>5, RunKeeps DEF Succeeds, Working, Answers
    <2> QED BY <2>4, <2>5
  <1>9. CASE GenerateToken(c, s)
    <2>1. Succeeds(<<c, s>>, "sign", "welcome", user[<<c, s>>]) /\ users' = users
      BY <1>9 DEF GenerateToken, Claims
    <2>2. <<c, s>> \in Runs /\ user[<<c, s>>] \in Emails \cup {None}
      BY DEF IInv, TypeOK, Runs
    <2>3. user[<<c, s>>] # None
             => [name |-> name[c], email |-> user[<<c, s>>], password |-> c] \in users
      BY <2>1, <2>2 DEF IInv, TokenIsOwn, Succeeds, Goes
    <2> QED BY <1>1, <2>1, <2>2, <2>3, RunKeeps DEF Succeeds, Working, Answers
  <1>10. CASE GenerateFails(c, s)
    BY <1>1, <1>10, RunKeeps DEF GenerateFails, Fails, Working, Answers
  <1>11. CASE HashFails(c, s)
    BY <1>1, <1>11, RunKeeps DEF HashFails, Fails, Succeeds, Working, Answers
  <1> QED
    BY <1>2, <1>3, <1>4, <1>5, <1>6, <1>7, <1>8, <1>9, <1>10, <1>11
       DEF register, login, sign

\* A client changes no row, takes over only the token of its own answer, and
\* moves no request to a point where it has a user.
LEMMA Taking ==
    ASSUME IInv, users' = users, UNCHANGED <<name, email>>,
           \A c \in Clients :
              \/ token'[c] \in {token[c], None}
              \/ \E s \in Slots : at[<<c, s>>] = "welcome" /\ token'[c] = user[<<c, s>>],
           \A run \in Runs : at'[run] \in {"sign", "welcome"}
                                => at'[run] = at[run] /\ user'[run] = user[run]
    PROVE  Owned' /\ OneAccountEach' /\ TokenIsOwn'
  <1> USE DEF IInv
  <1>1. Owned' BY DEF Owned
  <1>2. OneAccountEach' BY DEF OneAccountEach
  <1>3. TokenIsOwn'
    <2> SUFFICES ASSUME NEW d \in Clients, NEW e \in Emails,
                        \/ token'[d] = e
                        \/ \E z \in Slots : /\ user'[<<d, z>>] = e
                                            /\ at'[<<d, z>>] \in {"sign", "welcome"}
                 PROVE  [name |-> name[d], email |-> e, password |-> d] \in users
      BY DEF TokenIsOwn
    <2>1. e # None BY AccountsAssumption
    <2>2. CASE token'[d] = e BY <2>1, <2>2 DEF TokenIsOwn
    <2>3. ASSUME NEW z \in Slots, user'[<<d, z>>] = e,
                 at'[<<d, z>>] \in {"sign", "welcome"}
          PROVE  [name |-> name[d], email |-> e, password |-> d] \in users
      <3>1. <<d, z>> \in Runs BY DEF Runs
      <3>2. user[<<d, z>>] = e /\ at[<<d, z>>] \in {"sign", "welcome"} BY <2>3, <3>1
      <3> QED BY <3>2 DEF TokenIsOwn
    <2> QED BY <2>2, <2>3
  <1> QED BY <1>1, <1>2, <1>3

LEMMA SendKeeps == ASSUME IInv, NEW c \in Clients, Send(c) PROVE IInv'
  <1>1. PICK s \in Slots :
           /\ at' = [at EXCEPT ![<<c, s>>] = IF intent[c] = "register" THEN "insert"
                                                                     ELSE "select"]
           /\ waiting' = [waiting EXCEPT ![c] = s]
           /\ UNCHANGED <<users, user, name, email, refused, intent, token, faults>>
    BY DEF Send
  <1>2. <<c, s>> \in Runs BY DEF Runs
  <1>3. TypeOK' BY <1>1, <1>2 DEF IInv, TypeOK, Working
  <1>4. \A run \in Runs : at'[run] \in {"sign", "welcome"}
                           => at'[run] = at[run] /\ user'[run] = user[run]
    BY <1>1, <1>2 DEF IInv, TypeOK
  <1>5. Owned' /\ OneAccountEach' /\ TokenIsOwn' BY <1>1, <1>4, Taking
  <1> QED BY <1>3, <1>5 DEF IInv

LEMMA ReceiveKeeps ==
    ASSUME IInv, NEW c \in Clients, NEW s \in Slots, Receive(c, s) PROVE IInv'
  <1>1. <<c, s>> \in Runs /\ user[<<c, s>>] \in Emails \cup {None}
    BY DEF IInv, TypeOK, Runs
  <1>2. /\ at' = [at EXCEPT ![<<c, s>>] = "free"]
        /\ user' = [user EXCEPT ![<<c, s>>] = None]
        /\ UNCHANGED <<users, name, email, refused, faults>>
    BY DEF Receive
  <1>3. /\ waiting' \in [Clients -> Slots \cup {None}]
        /\ token' \in [Clients -> Emails \cup {None}]
        /\ intent' \in [Clients -> {"register", "login"}]
        /\ \A d \in Clients :
              \/ token'[d] = token[d]
              \/ \E z \in Slots : at[<<d, z>>] = "welcome" /\ token'[d] = user[<<d, z>>]
    <2>1. CASE Awaited(<<c, s>>)
      <3>1. /\ waiting' = [waiting EXCEPT ![c] = None]
            /\ token' = [token EXCEPT ![c] = IF at[<<c, s>>] = "welcome"
                                               THEN user[<<c, s>>] ELSE @]
            /\ intent' = [intent EXCEPT ![c] = CASE at[<<c, s>>] = "conflict" -> "login"
                                                 [] at[<<c, s>>] = "refused" -> "register"
                                                 [] OTHER -> @]
        BY <2>1 DEF Receive
      <3>2. waiting' \in [Clients -> Slots \cup {None}] BY <3>1 DEF IInv, TypeOK
      <3>3. token' \in [Clients -> Emails \cup {None}] BY <1>1, <3>1 DEF IInv, TypeOK
      <3>4. intent' \in [Clients -> {"register", "login"}]
        <4>1. CASE at[<<c, s>>] = "conflict" BY <3>1, <4>1 DEF IInv, TypeOK
        <4>2. CASE at[<<c, s>>] = "refused" BY <3>1, <4>2 DEF IInv, TypeOK
        <4>3. CASE at[<<c, s>>] \notin {"conflict", "refused"}
          BY <3>1, <4>3 DEF IInv, TypeOK
        <4> QED BY <4>1, <4>2, <4>3
      <3> QED BY <3>1, <3>2, <3>3, <3>4 DEF IInv, TypeOK
    <2>2. CASE ~Awaited(<<c, s>>) BY <2>2 DEF Receive, IInv, TypeOK
    <2> QED BY <2>1, <2>2
  <1>4. TypeOK' BY <1>1, <1>2, <1>3 DEF IInv, TypeOK
  <1>5. \A run \in Runs : at'[run] \in {"sign", "welcome"}
                           => at'[run] = at[run] /\ user'[run] = user[run]
    BY <1>1, <1>2 DEF IInv, TypeOK
  <1>6. Owned' /\ OneAccountEach' /\ TokenIsOwn' BY <1>2, <1>3, <1>5, Taking
  <1> QED BY <1>4, <1>6 DEF IInv

LEMMA CrashKeeps ==
    ASSUME IInv, NEW c \in Clients, NEW s \in Slots, Crash(<<c, s>>) PROVE IInv'
  <1>1. <<c, s>> \in Runs BY DEF Runs
  <1>2. /\ at' = [at EXCEPT ![<<c, s>>] = "free"]
        /\ user' = [user EXCEPT ![<<c, s>>] = None]
        /\ UNCHANGED <<users, name, email, refused, intent, token>>
    BY DEF Crash
  <1>3. waiting' \in [Clients -> Slots \cup {None}]
    <2>1. CASE Awaited(<<c, s>>)
      <3>1. waiting' = [waiting EXCEPT ![c] = None] BY <2>1 DEF Crash
      <3> QED BY <3>1 DEF IInv, TypeOK
    <2>2. CASE ~Awaited(<<c, s>>) BY <2>2 DEF Crash, IInv, TypeOK
    <2> QED BY <2>1, <2>2
  <1>4. faults' \in 0 .. MaxFaults BY AccountsAssumption DEF Crash, Fault, IInv, TypeOK
  <1>5. TypeOK' BY <1>1, <1>2, <1>3, <1>4 DEF IInv, TypeOK
  <1>6. \A run \in Runs : at'[run] \in {"sign", "welcome"}
                           => at'[run] = at[run] /\ user'[run] = user[run]
    BY <1>1, <1>2 DEF IInv, TypeOK
  <1>7. Owned' /\ OneAccountEach' /\ TokenIsOwn' BY <1>2, <1>6, Taking
  <1> QED BY <1>5, <1>7 DEF IInv

LEMMA TimeOutKeeps ==
    ASSUME IInv, NEW c \in Clients, TimeOut(c) \/ AuthRequired(c) PROVE IInv'
  <1> USE DEF IInv, TypeOK, handlers
  <1>1. CASE TimeOut(c)
    <2>1. faults' \in 0 .. MaxFaults BY <1>1, AccountsAssumption DEF TimeOut, Fault
    <2>2. TypeOK' BY <1>1, <2>1 DEF TimeOut
    <2>3. Owned' /\ OneAccountEach' /\ TokenIsOwn' BY <1>1, Taking DEF TimeOut
    <2> QED BY <2>2, <2>3
  <1>2. CASE AuthRequired(c)
    <2>1. TypeOK' BY <1>2 DEF AuthRequired
    <2>2. Owned' /\ OneAccountEach' /\ TokenIsOwn' BY <1>2, Taking DEF AuthRequired
    <2> QED BY <2>1, <2>2
  <1> QED BY <1>1, <1>2

LEMMA StepInv == IInv /\ [Next]_vars => IInv'
  <1> SUFFICES ASSUME IInv, [Next]_vars PROVE IInv' OBVIOUS
  <1>1. CASE UNCHANGED vars
    BY <1>1 DEF vars, handlers, clients, IInv, TypeOK, Owned, OneAccountEach, TokenIsOwn
  <1>2. CASE Next
    BY <1>2, HandlerKeeps, SendKeeps, ReceiveKeeps, CrashKeeps, TimeOutKeeps DEF Next
  <1> QED BY <1>1, <1>2

LEMMA Invariance == Spec => []IInv
  BY InitInv, StepInv, PTL DEF Spec

\* Every variable of the accounts keeps its type.
THEOREM TypeCorrect == Spec => []TypeOK
  <1>1. IInv => TypeOK BY DEF IInv
  <1> QED BY Invariance, <1>1, PTL

\* No order of registrations, retries and faults gives two accounts one name,
\* one email or one owner.
THEOREM NoDoubles == Spec => []OneAccountEach
  <1>1. IInv => OneAccountEach BY DEF IInv
  <1> QED BY Invariance, <1>1, PTL

\* A token names an account with the password of the client that has it.
THEOREM TokensMatch == Spec => []TokenIsOwn
  <1>1. IInv => TokenIsOwn BY DEF IInv
  <1> QED BY Invariance, <1>1, PTL
=============================================================================
