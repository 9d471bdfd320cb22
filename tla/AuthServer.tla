----------------------------- MODULE AuthServer -----------------------------
(***************************************************************************)
(* The AuthServer (components/AuthServer/src/auth.c): a table of users and *)
(* a counter from which every login takes a new token.                     *)
(*                                                                         *)
(* Both operations are RPC handlers of a component with one caller, so     *)
(* each runs from its first line to its return without interference.       *)
(* next_token_id is a C int that grows with every login and is never reset:*)
(* it keeps its width here, IntMin..IntMax, and wraps round (on the ARM   *)
(* target the increment is one add instruction).                          *)
(***************************************************************************)
EXTENDS Integers, Sequences

CONSTANTS
  Names,      \* what a client may pass as user
  Pins,       \* what a client may pass as pin
  MAX_USERS,  \* size of the user table
  BaseToken,  \* initial value of next_token_id
  IntMax,     \* the greatest value of an int
  MaxLogins   \* bound: successful logins stop after this many

IntMin    == -IntMax - 1      \* the least value of an int
IntValues == 2 * (IntMax + 1)  \* how many values an int has

ASSUME TableAssumption == MAX_USERS \in Nat
ASSUME IntAssumption   == IntMax \in Nat /\ BaseToken \in 0..IntMax
\* Counting further than once round the counter would show nothing new.
ASSUME BoundAssumption == MaxLogins \in 0..IntValues

VARIABLES
  users,          \* the filled part of the user table
  next_token_id,  \* the token issued last
  reply,          \* the call answered last and its result
  registered,     \* history: the credentials whose registration was accepted
  issued          \* history: the tokens returned by logins, in order

vars == <<users, next_token_id, reply, registered, issued>>

Credentials == [user : Names, pin : Pins]
Ints == IntMin..IntMax
Failure == -1

\* Defect: the counter saturates instead of moving on.
SaturatingIncrement(n) == IF n = IntMax THEN IntMax ELSE n + 1

\* n++ on an int.
Increment(n) == IF n = IntMax THEN IntMin ELSE n + 1

\* Defect: the user name alone is compared.
MatchesNameOnly(c) == \E i \in 1..Len(users) : users[i].user = c.user

\* The loop of auth_login finds a record with this name and this pin.
Matches(c) == \E i \in 1..Len(users) : users[i] = c

\* Defect: the test for a full table is off by one.
auth_register_userOffByOne(c) ==
  /\ IF Len(users) > MAX_USERS
       THEN /\ reply' = [op |-> "register", cred |-> c, result |-> Failure]
            /\ UNCHANGED <<users, registered>>
       ELSE /\ reply' = [op |-> "register", cred |-> c, result |-> 0]
            /\ users' = Append(users, c)
            /\ registered' = registered \cup {c}
  /\ UNCHANGED <<next_token_id, issued>>

\* A full table refuses; otherwise the record is added, even when the name is
\* in the table already.
auth_register_user(c) ==
  /\ IF Len(users) >= MAX_USERS
       THEN /\ reply' = [op |-> "register", cred |-> c, result |-> Failure]
            /\ UNCHANGED <<users, registered>>
       ELSE /\ reply' = [op |-> "register", cred |-> c, result |-> 0]
            /\ users' = Append(users, c)
            /\ registered' = registered \cup {c}
  /\ UNCHANGED <<next_token_id, issued>>

\* A matching record makes the counter move on and its new value the token.
auth_login(c) ==
  /\ IF Matches(c)
       THEN /\ Len(issued) < MaxLogins
            /\ next_token_id' = Increment(next_token_id)
            /\ reply'  = [op |-> "login", cred |-> c, result |-> next_token_id']
            /\ issued' = Append(issued, next_token_id')
       ELSE /\ reply'  = [op |-> "login", cred |-> c, result |-> Failure]
            /\ UNCHANGED <<next_token_id, issued>>
  /\ UNCHANGED <<users, registered>>

Init ==
  /\ users         = << >>
  /\ next_token_id = BaseToken
  /\ reply         = [op |-> "none"]
  /\ registered    = {}
  /\ issued        = << >>

Next == \E c \in Credentials : auth_register_user(c) \/ auth_login(c)

Spec == Init /\ [][Next]_vars

-----------------------------------------------------------------------------
(* Properties.                                                             *)

\* Every variable has its type and the table never outgrows its array.
TypeOK ==
  /\ users \in Seq(Credentials) /\ Len(users) <= MAX_USERS
  /\ next_token_id \in Ints
  /\ reply \in [op : {"none"}]
             \cup [op : {"register", "login"}, cred : Credentials, result : Ints]
  /\ registered \subseteq Credentials
  /\ issued \in Seq(Ints) /\ Len(issued) <= MaxLogins

\* No token is issued twice, not even when the counter wraps round: a token
\* identifies one login over the whole range of an int.
TokensDistinct ==
  \A i, j \in 1..Len(issued) : i # j => issued[i] # issued[j]

\* The counter has not yet passed the greatest int.
CounterFresh == Len(issued) <= IntMax - BaseToken

\* While the counter is fresh, a login is answered with a token the Ledger
\* will honour exactly when an earlier registration of these very credentials
\* was answered with 0, in whatever order registrations and logins came, and
\* whether or not the table has filled up since.
LoginMeansRegistered ==
  (reply.op = "login" /\ CounterFresh) =>
    (reply.result > BaseToken <=> reply.cred \in registered)

=============================================================================
