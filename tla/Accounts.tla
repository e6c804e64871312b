------------------------------ MODULE Accounts ------------------------------
(***************************************************************************)
(* Accounts and tokens: register and login of auth.go, GenerateToken and   *)
(* AuthRequired of internal/middleware/auth.go over the table users.       *)
(*                                                                         *)
(* A client wants one name and one email and has a password of its own     *)
(* that differs from others in its first 72 bytes, those bcrypt compares.  *)
(* It may stop waiting for an answer; the handler goes on while the client *)
(* sends its next request.  After a conflict it logs in, after "invalid    *)
(* credentials" it registers.  The database and jwt may fail, and a        *)
(* replica may end.  No handler changes or deletes a row of users.  Some   *)
(* clients want what the binding accepts and a later call never does.      *)
(***************************************************************************)
EXTENDS Naturals

CONSTANTS
    Clients,
    Names, Emails,
    Slots,      \* the requests of a client that can be under way at once
    MaxFaults,  \* a bound on failures, ends of replicas and lost answers
    None

ASSUME AccountsAssumption ==
    /\ MaxFaults \in Nat
    /\ None \notin Emails \cup Slots

VARIABLES
    users,      \* the rows: username, email and whose password it is
    \* the requests, by client and slot
    at,         \* where the handler is, or its answer
    user,       \* the ID of the row it has found or inserted
    \* the clients
    name, email,
    refused,    \* the call that never accepts what it wants, or "never" one
    intent,     \* what it will send next
    waiting,    \* the slot of the request it waits for
    token,      \* the user its token names
    faults      \* how many there were so far

handlers == <<users, at, user>>
clients == <<name, email, refused, intent, waiting, token>>
vars == <<handlers, clients, faults>>

Runs == Clients \X Slots
Working == {"insert", "select", "compare", "sign"}
Answers == {"welcome", "conflict", "refused", "error"}

\* An email is UNIQUE and never changes, so it stands for the ID of its row.
TypeOK ==
    /\ users \subseteq [name : Names, email : Emails, password : Clients]
    /\ at \in [Runs -> Working \cup Answers \cup {"free"}]
    /\ user \in [Runs -> Emails \cup {None}]
    /\ name \in [Clients -> Names]
    /\ email \in [Clients -> Emails]
    /\ refused \in [Clients -> {"hash", "insert", "never"}]
    /\ intent \in [Clients -> {"register", "login"}]
    /\ waiting \in [Clients -> Slots \cup {None}]
    /\ token \in [Clients -> Emails \cup {None}]
    /\ faults \in 0 .. MaxFaults

Init ==
    /\ users = {}
    /\ at = [run \in Runs |-> "free"]
    /\ user = [run \in Runs |-> None]
    /\ name \in [Clients -> Names]
    /\ email \in [Clients -> Emails]
    /\ refused \in [Clients -> {"hash", "insert", "never"}]
    /\ intent = [c \in Clients |-> "register"]
    /\ waiting = [c \in Clients |-> None]
    /\ token = [c \in Clients |-> None]
    /\ faults = 0

-----------------------------------------------------------------------------
(* The handlers.                                                           *)

Fault == faults < MaxFaults /\ faults' = faults + 1

\* Request run goes from one point to another, with the row of user u.
Goes(run, from, to, u) ==
    /\ at[run] = from
    /\ at' = [at EXCEPT ![run] = to]
    /\ user' = [user EXCEPT ![run] = u]
    /\ UNCHANGED clients

Succeeds(run, from, to, u) == Goes(run, from, to, u) /\ UNCHANGED faults
Fails(run, from, to) == Goes(run, from, to, None) /\ Fault

\* username and email are both UNIQUE.
EmailTaken(c) == \E u \in users : u.email = email[c]  \* mutant: no UNIQUE username
Taken(c) == \E u \in users : u.name = name[c] \/ u.email = email[c]

NewUser(c) == [name |-> name[c], email |-> email[c], password |-> c]

\* bcrypt never takes a password of more than 72 bytes, and register asks for
\* no maximum; any other failure goes away.
HashFails(c, s) ==
    /\ \/ Fails(<<c, s>>, "insert", "error")
       \/ refused[c] = "hash" /\ Succeeds(<<c, s>>, "insert", "error", None)
    /\ UNCHANGED users

InsertUser(c, s) ==
    /\ refused[c] = "never" /\ ~Taken(c)
    /\ users' = users \cup {NewUser(c)}
    /\ Succeeds(<<c, s>>, "insert", "sign", email[c])

\* The INSERT meets a row that is there, or never takes what the client wants:
\* an email longer than its column.
UserExists(c, s) ==
    /\ \/ refused[c] = "never" /\ Taken(c)
       \/ refused[c] = "insert"
    /\ Succeeds(<<c, s>>, "insert", "conflict", None)
    /\ UNCHANGED users

\* Any error of the INSERT is answered as a conflict, also when the row was
\* committed and only the reply of the database is lost.
InsertFails(c, s) ==
    /\ refused[c] # "hash"
    /\ \/ UNCHANGED users
       \/ /\ refused[c] = "never" /\ ~Taken(c)
          /\ users' = users \cup {NewUser(c)}
    /\ Fails(<<c, s>>, "insert", "conflict")

\* WHERE email = $1
RowsByName(c) == {u \in users : u.name = email[c]}  \* mutant: WHERE username = $1
RowsOf(c) == {u \in users : u.email = email[c]}

SelectUser(c, s) ==
    /\ \E u \in RowsOf(c) : Succeeds(<<c, s>>, "select", "compare", u.email)
    /\ UNCHANGED users

NoSuchUser(c, s) ==
    /\ RowsOf(c) = {}
    /\ Succeeds(<<c, s>>, "select", "refused", None)
    /\ UNCHANGED users

\* Any error of the SELECT is answered like a missing row.
SelectFails(c, s) == Fails(<<c, s>>, "select", "refused") /\ UNCHANGED users

\* The hash that was read, of the password of the row.
AnyPassword(c, u) == TRUE  \* mutant: the result is not looked at
Matches(c, u) == u.password = c

CompareHash(c, s) ==
    /\ \E u \in users :
          /\ u.email = user[<<c, s>>]
          /\ IF Matches(c, u)
               THEN Succeeds(<<c, s>>, "compare", "sign", u.email)
               ELSE Succeeds(<<c, s>>, "compare", "refused", None)
    /\ UNCHANGED users

\* The user_id of the claims.
ClaimsSwapped(c, s) == name[c]  \* mutant: user ID and username change places
Claims(c, s) == user[<<c, s>>]

GenerateToken(c, s) ==
    /\ Succeeds(<<c, s>>, "sign", "welcome", Claims(c, s))
    /\ UNCHANGED users

GenerateFails(c, s) == Fails(<<c, s>>, "sign", "error") /\ UNCHANGED users

\* Somebody waits for request run.
Awaited(run) == waiting[run[1]] = run[2]

\* The replica ends, and with it the connection.
Crash(run) ==
    /\ at[run] \in Working \cup Answers
    /\ at' = [at EXCEPT ![run] = "free"]
    /\ user' = [user EXCEPT ![run] = None]
    /\ waiting' = IF Awaited(run) THEN [waiting EXCEPT ![run[1]] = None] ELSE waiting
    /\ Fault
    /\ UNCHANGED <<users, name, email, refused, intent, token>>

-----------------------------------------------------------------------------
(* The clients.                                                            *)

Send(c) ==
    \E s \in Slots :
        /\ waiting[c] = None
        /\ token[c] = None
        /\ at[<<c, s>>] = "free"
        /\ at' = [at EXCEPT ![<<c, s>>] = IF intent[c] = "register" THEN "insert"
                                                                ELSE "select"]
        /\ waiting' = [waiting EXCEPT ![c] = s]
        /\ UNCHANGED <<users, user, name, email, refused, intent, token, faults>>

\* An answer nobody waits for has no effect.
Receive(c, s) ==
    /\ at[<<c, s>>] \in Answers
    /\ at' = [at EXCEPT ![<<c, s>>] = "free"]
    /\ user' = [user EXCEPT ![<<c, s>>] = None]
    /\ IF Awaited(<<c, s>>)
         THEN /\ waiting' = [waiting EXCEPT ![c] = None]
              /\ token' = [token EXCEPT ![c] = IF at[<<c, s>>] = "welcome"
                                                 THEN user[<<c, s>>] ELSE @]
              /\ intent' = [intent EXCEPT ![c] = CASE at[<<c, s>>] = "conflict" -> "login"
                                                   [] at[<<c, s>>] = "refused" -> "register"
                                                   [] OTHER -> @]
         ELSE UNCHANGED <<waiting, token, intent>>
    /\ UNCHANGED <<users, name, email, refused, faults>>

TimeOut(c) ==
    /\ waiting[c] # None
    /\ waiting' = [waiting EXCEPT ![c] = None]
    /\ Fault
    /\ UNCHANGED <<handlers, name, email, refused, intent, token>>

\* 72 hours later AuthRequired refuses the token, and the client logs in again.
AuthRequired(c) ==
    /\ token[c] # None
    /\ token' = [token EXCEPT ![c] = None]
    /\ intent' = [intent EXCEPT ![c] = "login"]
    /\ UNCHANGED <<handlers, name, email, refused, waiting, faults>>

-----------------------------------------------------------------------------
register(c, s) ==
    HashFails(c, s) \/ InsertUser(c, s) \/ UserExists(c, s) \/ InsertFails(c, s)
login(c, s) ==
    SelectUser(c, s) \/ NoSuchUser(c, s) \/ SelectFails(c, s) \/ CompareHash(c, s)
sign(c, s) == GenerateToken(c, s) \/ GenerateFails(c, s)

Next ==
    \/ \E c \in Clients, s \in Slots :
          register(c, s) \/ login(c, s) \/ sign(c, s) \/ Receive(c, s) \/ Crash(<<c, s>>)
    \/ \E c \in Clients : Send(c) \/ TimeOut(c) \/ AuthRequired(c)

Spec == Init /\ [][Next]_vars

\* Handlers come to an end, their answers arrive, and clients keep trying.
Fairness ==
    \A c \in Clients :
        /\ WF_vars(Send(c))
        /\ \A s \in Slots :
              WF_vars(register(c, s) \/ login(c, s) \/ sign(c, s) \/ Receive(c, s))

FairSpec == Spec /\ Fairness

-----------------------------------------------------------------------------
(* Properties                                                              *)

\* No two accounts share a name, an email or an owner, although registrations
\* overlap and clients register again when an answer is lost (auth.go:39-46).
OneAccountEach ==
    \A u, v \in users :
        u.name = v.name \/ u.email = v.email \/ u.password = v.password => u = v

\* A token, in the hands of a client or on the way to one, names an account with
\* the password of that client, so me finds the user (auth.go:62-97, 99-107).
TokenIsOwn ==
    \A c \in Clients, e \in Emails :
        \/ token[c] = e
        \/ \E s \in Slots : user[<<c, s>>] = e /\ at[<<c, s>>] \in {"sign", "welcome"}
        => [name |-> name[c], email |-> e, password |-> c] \in users

Rival(c) ==
    \E u \in users :
        u.password # c /\ (u.name = name[c] \/ u.email = email[c])

\* A client whose name and email nobody else takes gets a token again and again,
\* although its account may exist without its knowing, its token expires, and a
\* database error is answered as a conflict (auth.go:43-46, auth.go:49-52);
\* unless bcrypt or the INSERT never accepts what it wants (auth.go:30-34).
Enters ==
    \A c \in Clients : []<>(token[c] # None \/ Rival(c) \/ refused[c] # "never")
=============================================================================
