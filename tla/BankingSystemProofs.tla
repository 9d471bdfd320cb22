------------------------ MODULE BankingSystemProofs ------------------------
(***************************************************************************)
(* Proofs about BankingSystem: the AuthServer's invariants survive its use *)
(* by the Gateway, and its tokens are honoured by the Ledger.              *)
(***************************************************************************)
EXTENDS BankingSystem, AuthServerProofs, TLAPS

\* A login about to be answered carries a failure or a token over BaseToken.
LoginInv ==
  (gpc = "reply" /\ request \in AuthRequests /\ request.cmd = "login" /\ CounterFresh) =>
    answer = Result(Failure) \/ (\E t \in Ints : t > BaseToken /\ answer = Result(t))

\* So do the tokens that clients have been told.
GrantedInv == \A t \in granted : t > BaseToken

\* A transaction is answered by a Ledger that serves, and only the database
\* makes it fail once its token has passed the threshold.
BankInv ==
  (gpc = "reply" /\ request \in BankRequests) =>
    /\ ledger = "serving"
    /\ request.token >= MinToken /\ sound => answer = Result(0)

SystemInv == IInv /\ SystemTypeOK /\ LoginInv /\ GrantedInv /\ BankInv

-----------------------------------------------------------------------------
(* The AuthServer within the system.                                       *)

\* Whatever the system does, the AuthServer does one of its operations or
\* nothing.
LEMMA AuthStep == SystemTypeOK /\ [SystemNext]_systemVars => [Next]_vars
  <1> SUFFICES ASSUME SystemTypeOK, [SystemNext]_systemVars PROVE [Next]_vars
    OBVIOUS
  <1>1. CASE AuthAnswers
    <2>1. request \in AuthRequests /\ request.cred \in Credentials
      BY <1>1 DEF AuthAnswers, SystemTypeOK, AuthRequests
    <2>2. QED
      BY <1>1, <2>1 DEF AuthAnswers, Next
  <1>2. CASE ~AuthAnswers
    BY <1>2 DEF SystemNext, systemVars, Gateway, Boot, Receive, CallAuth, CallBank,
                Refuse, Reply, PreInit, PreInitHalts, DatabaseFails, BankAnswers
  <1>3. QED
    BY <1>1, <1>2

\* A login that is answered while the counter is fresh yields a failure or a
\* token over BaseToken.
LEMMA FreshToken ==
  ASSUME IInv, IInv', NEW c \in Credentials, auth_login(c), CounterFresh'
  PROVE  reply'.result = Failure \/ reply'.result > BaseToken
  <1>1. CASE Matches(c)
    <2>1. reply' = [op |-> "login", cred |-> c, result |-> next_token_id']
          /\ registered' = registered
      BY <1>1 DEF auth_login
    <2>2. c \in registered
      BY <1>1 DEF Matches, IInv, HistoryInv
    <2>3. reply'.op = "login" /\ reply'.cred \in registered'
      BY <2>1, <2>2
    <2>4. LoginMeansRegistered'
      BY DEF IInv
    <2>5. QED
      BY <2>3, <2>4 DEF LoginMeansRegistered
  <1>2. CASE ~Matches(c)
    BY <1>2 DEF auth_login
  <1>3. QED
    BY <1>1, <1>2

-----------------------------------------------------------------------------
(* The inductive invariant.                                                *)

LEMMA SystemInvInit == SystemInit => SystemInv
  <1> SUFFICES ASSUME SystemInit PROVE SystemInv
    OBVIOUS
  <1>1. IInv
    BY InvInit DEF SystemInit
  <1>2. [cmd |-> ""] \in Requests
    BY DEF Requests, Incomplete
  <1>3. QED
    BY <1>1, <1>2
    DEF SystemInit, SystemInv, SystemTypeOK, LoginInv, GrantedInv, BankInv, IInv, NoAnswer

\* The kinds of answer differ, and so do requests to different services.
LEMMA Kinds ==
  /\ NoAnswer # Usage
  /\ \A n : Result(n) # NoAnswer /\ Result(n) # Usage
  /\ \A n, m : Result(n) = Result(m) => n = m
  BY DEF NoAnswer, Usage, Result

LEMMA Separate ==
  ASSUME NEW r
  PROVE  /\ r \in AuthRequests => r.cmd \in {"login", "register"} /\ Complete(r)
         /\ r \in BankRequests => r.cmd = "tx" /\ Complete(r) /\ r.token \in Int
         /\ Complete(r) => r \in AuthRequests \/ r \in BankRequests
  BY ThresholdAssumption DEF AuthRequests, BankRequests, Complete

\* A system step in which the AuthServer has no part.
LEMMA AuthIdle ==
  ASSUME IInv, UNCHANGED vars
  PROVE  IInv' /\ TypeOK' /\ (CounterFresh' <=> CounterFresh)
  BY DEF vars, IInv, TypeOK, HistoryInv, LoginMeansRegistered, CounterFresh

LEMMA SystemInvStep == SystemInv /\ [SystemNext]_systemVars => SystemInv'
  <1> SUFFICES ASSUME SystemInv, [SystemNext]_systemVars PROVE SystemInv'
    OBVIOUS
  <1> USE DEF SystemInv
  <1>0. IInv' /\ TypeOK'
    BY AuthStep, InvStep DEF IInv
  <1>1. ASSUME NEW r \in Requests, Receive(r) PROVE SystemInv'
    BY <1>0, <1>1
    DEF Receive, bank, SystemTypeOK, LoginInv, GrantedInv, BankInv
  <1>2. CASE CallAuth
    <2>1. request \in AuthRequests
      BY <1>2, Separate DEF CallAuth
    <2>2. QED
      BY <1>0, <1>2, <2>1
      DEF CallAuth, bank, SystemTypeOK, LoginInv, GrantedInv, BankInv
  <1>3. CASE CallBank
    <2>1. request \in BankRequests
      BY <1>3, Separate DEF CallBank
    <2>2. QED
      BY <1>0, <1>3, <2>1
      DEF CallBank, bank, SystemTypeOK, LoginInv, GrantedInv, BankInv
  <1>4. CASE Refuse
    <2>1. request \notin AuthRequests /\ request \notin BankRequests
      BY <1>4, Separate DEF Refuse
    <2>2. QED
      BY <1>0, <1>4, <2>1, Kinds
      DEF Refuse, bank, SystemTypeOK, LoginInv, GrantedInv, BankInv
  <1>5. CASE Reply
    <2>1. gpc' = "wait" /\ UNCHANGED <<request, answer, ledger, sound>>
      BY <1>5 DEF Reply, bank
    <2>2. CASE /\ Complete(request) /\ request.cmd = "login"
               /\ answer # Result(Failure) /\ CounterFresh
      <3>1. request \in AuthRequests
        BY <2>2, Separate
      <3>2. PICK t \in Ints : t > BaseToken /\ answer = Result(t)
        BY <1>5, <2>2, <3>1 DEF Reply, LoginInv
      <3>3. granted' = granted \cup {t}
        BY <1>5, <2>2, <3>2 DEF Reply, Result
      <3>4. QED
        BY <1>0, <2>1, <3>2, <3>3 DEF SystemTypeOK, LoginInv, GrantedInv, BankInv
    <2>3. CASE ~(/\ Complete(request) /\ request.cmd = "login"
                 /\ answer # Result(Failure) /\ CounterFresh)
      <3>1. granted' = granted
        BY <1>5, <2>3 DEF Reply
      <3>2. QED
        BY <1>0, <2>1, <3>1 DEF SystemTypeOK, LoginInv, GrantedInv, BankInv
    <2>4. QED
      BY <2>2, <2>3
  <1>6. CASE AuthAnswers
    <2>1. request \in AuthRequests /\ request.cred \in Credentials
      BY <1>6 DEF AuthAnswers, SystemTypeOK, AuthRequests
    <2>2. /\ answer' = Result(reply'.result) /\ gpc' = "reply"
          /\ UNCHANGED <<request, ledger, sound, granted>>
      BY <1>6 DEF AuthAnswers, bank
    <2>3. reply'.result \in Ints
      BY <1>0, <1>6 DEF AuthAnswers, auth_login, auth_register_user, TypeOK
    <2>4. SystemTypeOK'
      BY <1>0, <2>1, <2>2, <2>3, Kinds DEF SystemTypeOK
    <2>5. LoginInv'
      <3> SUFFICES ASSUME request.cmd = "login", CounterFresh'
                   PROVE  answer' = Result(Failure)
                          \/ \E t \in Ints : t > BaseToken /\ answer' = Result(t)
        BY <2>2 DEF LoginInv
      <3>1. auth_login(request.cred)
        BY <1>6 DEF AuthAnswers
      <3>2. reply'.result = Failure \/ reply'.result > BaseToken
        BY <1>0, <2>1, <3>1, FreshToken
      <3>3. QED
        BY <2>2, <2>3, <3>2
    <2>6. BankInv'
      BY <2>1, <2>2, Separate DEF BankInv
    <2>7. QED
      BY <1>0, <2>2, <2>4, <2>5, <2>6 DEF GrantedInv
  <1>7. CASE PreInit \/ PreInitHalts
    BY <1>0, <1>7, AuthIdle
    DEF PreInit, PreInitHalts, gateway, SystemTypeOK, LoginInv, GrantedInv, BankInv
  <1>8. CASE DatabaseFails
    BY <1>0, <1>8, AuthIdle
    DEF DatabaseFails, gateway, SystemTypeOK, LoginInv, GrantedInv, BankInv
  <1>9. CASE BankAnswers
    <2>1. request \in BankRequests /\ request.cmd = "tx" /\ request \notin AuthRequests
      BY <1>9, Separate DEF BankAnswers, SystemTypeOK
    <2>2. /\ gpc' = "reply" /\ ledger = "serving"
          /\ UNCHANGED <<request, ledger, sound, granted>>
      BY <1>9 DEF BankAnswers, bank
    <2>3. answer' \in {Result(0), Result(-1)} /\ 0 \in Ints /\ -1 \in Ints
      BY <1>9, IntAssumption DEF BankAnswers, Ints, IntMin
    <2>4. request.token >= MinToken /\ sound => answer' = Result(0)
      <3>1. request.token \in Int /\ MinToken \in Int
        BY <2>1, Separate, ThresholdAssumption
      <3>2. QED
        BY <1>9, <3>1 DEF BankAnswers, TokenPassed
    <2>5. answer' \in {NoAnswer, Usage} \cup {Result(n) : n \in Ints} /\ answer' # NoAnswer
      BY <2>3, Kinds
    <2>6. QED
      BY <1>0, <2>1, <2>2, <2>4, <2>5 DEF SystemTypeOK, LoginInv, GrantedInv, BankInv
  <1>10. CASE UNCHANGED systemVars
    BY <1>0, <1>10, AuthIdle
    DEF systemVars, gateway, bank, SystemTypeOK, LoginInv, GrantedInv, BankInv
  <1>11. QED
    BY <1>1, <1>2, <1>3, <1>4, <1>5, <1>6, <1>7, <1>8, <1>9, <1>10
    DEF SystemNext, Gateway, Boot

-----------------------------------------------------------------------------
LEMMA SystemInvariant == SystemSpec => []SystemInv
  BY SystemInvInit, SystemInvStep, PTL DEF SystemSpec

\* SystemTypeOK is an invariant of the composed services.
THEOREM SystemTypeCorrect == SystemSpec => []SystemTypeOK
  <1>1. SystemInv => SystemTypeOK
    BY DEF SystemInv
  <1>2. QED
    BY <1>1, SystemInvariant, PTL

\* The composed services implement the AuthServer alone: what is proved of any
\* sequence of its calls holds of those the Gateway makes.
THEOREM AuthServerWithin == SystemSpec => Spec
  <1>1. SystemInit => Init
    BY DEF SystemInit
  <1>2. SystemInv /\ [SystemNext]_systemVars => [Next]_vars
    BY AuthStep DEF SystemInv
  <1>3. QED
    BY <1>1, <1>2, SystemInvariant, PTL DEF SystemSpec, Spec

\* TokensHonoured is an invariant: whatever the constants, as long as the
\* Ledger's threshold is not above the first token, a token told to a client is
\* good at the Ledger.
THEOREM HonouredAlways == SystemSpec => []TokensHonoured
  <1>1. SystemInv => TokensHonoured
    <2> SUFFICES ASSUME SystemInv, gpc = "reply", request \in BankRequests,
                        request.token \in granted, sound
                 PROVE  answer = Result(0)
      BY DEF TokensHonoured
    <2>1. request.token > BaseToken /\ request.token \in Int
      BY Separate DEF SystemInv, GrantedInv
    <2>2. request.token >= MinToken
      BY <2>1, IntAssumption, ThresholdAssumption
    <2>3. QED
      BY <2>2 DEF SystemInv, BankInv
  <1>2. QED
    BY <1>1, SystemInvariant, PTL

=============================================================================
