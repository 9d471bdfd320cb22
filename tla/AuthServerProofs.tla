-------------------------- MODULE AuthServerProofs --------------------------
(***************************************************************************)
(* Proofs about AuthServer, for every table size and every width of int.   *)
(***************************************************************************)
EXTENDS AuthServer, TLAPS

\* The value of the counter after n logins.
TokenOf(n) ==
  IF BaseToken + n <= IntMax THEN BaseToken + n ELSE BaseToken + n - IntValues

\* The history in terms of the state: the n-th login got the n-th value of the
\* counter, and the registered credentials are those in the table.
HistoryInv ==
  /\ next_token_id = TokenOf(Len(issued))
  /\ \A i \in 1..Len(issued) : issued[i] = TokenOf(i)
  /\ registered = {users[i] : i \in 1..Len(users)}

IInv == TypeOK /\ HistoryInv /\ LoginMeansRegistered

-----------------------------------------------------------------------------
(* The counter as a function of the number of logins.                      *)

\* Up to once round the counter, every value is an int and the next value is
\* what ++ makes of it.
LEMMA TokenOfNext ==
  ASSUME NEW n \in Nat, n < IntValues
  PROVE  /\ TokenOf(n) \in Ints
         /\ TokenOf(n + 1) \in Ints
         /\ TokenOf(n + 1) = Increment(TokenOf(n))
  BY IntAssumption DEF TokenOf, Increment, Ints, IntMin, IntValues

\* Within once round the counter no value comes twice.
LEMMA TokenOfInjective ==
  ASSUME NEW i \in 1..IntValues, NEW j \in 1..IntValues, i # j
  PROVE  TokenOf(i) # TokenOf(j)
  BY IntAssumption DEF TokenOf, IntValues

\* A token beats BaseToken as long as the counter has not wrapped.
LEMMA TokenOfFresh ==
  ASSUME NEW n \in Nat \ {0}, n <= IntMax - BaseToken
  PROVE  TokenOf(n) > BaseToken
  BY IntAssumption DEF TokenOf

-----------------------------------------------------------------------------
(* The inductive invariant.                                                *)

LEMMA InvInit == Init => IInv
  <1> SUFFICES ASSUME Init PROVE IInv
    OBVIOUS
  <1> USE DEF Init
  <1>1. TypeOK
    BY IntAssumption, BoundAssumption, TableAssumption DEF TypeOK, Ints, IntMin
  <1>2. HistoryInv
    BY IntAssumption DEF HistoryInv, TokenOf
  <1>3. LoginMeansRegistered
    BY DEF LoginMeansRegistered
  <1>4. QED
    BY <1>1, <1>2, <1>3 DEF IInv

\* A registration keeps the invariant: the table and the history of accepted
\* credentials grow together or not at all.
LEMMA RegisterStep ==
  ASSUME IInv, NEW c \in Credentials, auth_register_user(c)
  PROVE  IInv'
  <1> USE DEF IInv
  <1>1. UNCHANGED <<next_token_id, issued>>
    BY DEF auth_register_user
  <1>2. reply' \in [op : {"register", "login"}, cred : Credentials, result : Ints]
        /\ reply'.op = "register"
    BY IntAssumption DEF auth_register_user, Failure, Ints, IntMin
  <1>3. CASE Len(users) >= MAX_USERS
    <2>1. UNCHANGED <<users, registered>>
      BY <1>3 DEF auth_register_user
    <2>2. QED
      BY <1>1, <1>2, <2>1 DEF TypeOK, HistoryInv, LoginMeansRegistered
  <1>4. CASE ~(Len(users) >= MAX_USERS)
    <2>1. users' = Append(users, c) /\ registered' = registered \cup {c}
      BY <1>4 DEF auth_register_user
    <2>2. users \in Seq(Credentials) /\ Len(users) \in Nat
      BY DEF TypeOK
    <2>3. /\ Len(users') = Len(users) + 1
          /\ users'[Len(users) + 1] = c
          /\ \A i \in 1..Len(users) : users'[i] = users[i]
      BY <2>1, <2>2
    <2>4. registered' = {users'[i] : i \in 1..Len(users')}
      BY <2>1, <2>2, <2>3 DEF HistoryInv
    <2>5. TypeOK'
      BY <1>1, <1>2, <1>4, <2>1, <2>2, <2>3, TableAssumption DEF TypeOK
    <2>6. QED
      BY <1>1, <1>2, <2>4, <2>5 DEF HistoryInv, LoginMeansRegistered
  <1>5. QED
    BY <1>3, <1>4

\* A login keeps the invariant: it is answered with the next value of the
\* counter when the table holds the credentials, and with -1 otherwise.
LEMMA LoginStep ==
  ASSUME IInv, NEW c \in Credentials, auth_login(c)
  PROVE  IInv'
  <1> DEFINE n == Len(issued)
  <1> USE DEF IInv
  <1>1. UNCHANGED <<users, registered>>
    BY DEF auth_login
  <1>2. Matches(c) <=> c \in registered
    BY DEF Matches, HistoryInv
  <1>3. issued \in Seq(Ints) /\ n \in Nat
    BY DEF TypeOK
  <1>4. CASE Matches(c)
    <2>1. /\ n < MaxLogins
          /\ next_token_id' = Increment(next_token_id)
          /\ reply' = [op |-> "login", cred |-> c, result |-> next_token_id']
          /\ issued' = Append(issued, next_token_id')
      BY <1>4 DEF auth_login
    <2>2. n < IntValues /\ n + 1 <= MaxLogins
      BY <1>3, <2>1, BoundAssumption, IntAssumption DEF IntValues
    <2>3. next_token_id' = TokenOf(n + 1) /\ next_token_id' \in Ints
      BY <1>3, <2>1, <2>2, TokenOfNext DEF HistoryInv
    <2>4. /\ Len(issued') = n + 1
          /\ issued'[n + 1] = next_token_id'
          /\ \A i \in 1..n : issued'[i] = issued[i]
      BY <1>3, <2>1
    <2>5. TypeOK'
      BY <1>1, <1>3, <2>1, <2>2, <2>3, <2>4 DEF TypeOK
    <2>6. HistoryInv'
      BY <1>1, <1>3, <2>3, <2>4 DEF HistoryInv
    <2>7. LoginMeansRegistered'
      <3>1. ASSUME n + 1 <= IntMax - BaseToken PROVE next_token_id' > BaseToken
        BY <1>3, <2>3, <3>1, TokenOfFresh
      <3>2. QED
        BY <1>1, <1>2, <1>4, <2>1, <2>4, <3>1
        DEF LoginMeansRegistered, CounterFresh
    <2>8. QED
      BY <2>5, <2>6, <2>7
  <1>5. CASE ~Matches(c)
    <2>1. /\ reply' = [op |-> "login", cred |-> c, result |-> Failure]
          /\ UNCHANGED <<next_token_id, issued>>
      BY <1>5 DEF auth_login
    <2>2. Failure \in Ints /\ ~(Failure > BaseToken)
      BY IntAssumption DEF Failure, Ints, IntMin
    <2>3. QED
      BY <1>1, <1>2, <1>5, <2>1, <2>2
      DEF TypeOK, HistoryInv, LoginMeansRegistered
  <1>6. QED
    BY <1>4, <1>5

LEMMA InvStep == IInv /\ [Next]_vars => IInv'
  <1> SUFFICES ASSUME IInv, [Next]_vars PROVE IInv'
    OBVIOUS
  <1>1. ASSUME NEW c \in Credentials, auth_register_user(c) PROVE IInv'
    BY <1>1, RegisterStep
  <1>2. ASSUME NEW c \in Credentials, auth_login(c) PROVE IInv'
    BY <1>2, LoginStep
  <1>3. CASE UNCHANGED vars
    BY <1>3 DEF vars, IInv, TypeOK, HistoryInv, LoginMeansRegistered, CounterFresh
  <1>4. QED
    BY <1>1, <1>2, <1>3 DEF Next

-----------------------------------------------------------------------------
\* TypeOK is an invariant: the table stays within its array and the counter
\* within an int.
THEOREM TypeCorrect == Spec => []TypeOK
  <1>1. IInv => TypeOK
    BY DEF IInv
  <1>2. QED
    BY <1>1, InvInit, InvStep, PTL DEF Spec

\* TokensDistinct is an invariant: auth_login never returns a token twice
\* before the int has gone once round.
THEOREM TokensUnique == Spec => []TokensDistinct
  <1>1. IInv => TokensDistinct
    <2> SUFFICES ASSUME IInv,
                        NEW i \in 1..Len(issued), NEW j \in 1..Len(issued), i # j
                 PROVE  issued[i] # issued[j]
      BY DEF TokensDistinct
    <2>1. i \in 1..IntValues /\ j \in 1..IntValues
      BY BoundAssumption, IntAssumption DEF IInv, TypeOK, IntValues
    <2>2. QED
      BY <2>1, TokenOfInjective DEF IInv, HistoryInv
  <1>2. QED
    BY <1>1, InvInit, InvStep, PTL DEF Spec

\* LoginMeansRegistered is an invariant: as long as the counter is fresh, a
\* login yields a token exactly when its credentials were registered.
THEOREM LoginCorrect == Spec => []LoginMeansRegistered
  <1>1. IInv => LoginMeansRegistered
    BY DEF IInv
  <1>2. QED
    BY <1>1, InvInit, InvStep, PTL DEF Spec

=============================================================================
