---------------------------- MODULE BankingSystem ----------------------------
(***************************************************************************)
(* The services together: the APIGateway (components/APIGateway/src/       *)
(* gateway.c) takes a request text, calls the AuthServer or the Ledger     *)
(* over RPC, and writes the answer.                                        *)
(*                                                                         *)
(* The AuthServer is module AuthServer as it stands.  Of the Ledger only   *)
(* what its callers can tell matters here: whether pre_init ends, and what *)
(* bank_execute_transaction returns (see Ledger and Bank for what it       *)
(* does).  Requests come from anywhere; how they travel through the shared *)
(* buffer is the subject of module Bridge.                                 *)
(***************************************************************************)
EXTENDS AuthServer

CONSTANTS
  Tokens,   \* what atoi can make of the token a client passes
  MinToken  \* the least token the Ledger lets through (1000 in the source)

\* BaseToken is 1000 as well: the two constants stand in different components.
ASSUME ThresholdAssumption ==
  Tokens \subseteq Int /\ MinToken \in Int /\ MinToken <= BaseToken + 1

VARIABLES
  gpc,      \* where the Gateway's loop is
  request,  \* the request in service, parsed
  answer,   \* what the reply will say
  ledger,   \* the Ledger: in pre_init, serving, or stopped for good
  sound,    \* its database has not failed
  granted   \* history: tokens told to clients while the counter was fresh

gateway    == <<gpc, request, answer>>
bank       == <<ledger, sound>>
systemVars == <<vars, gateway, bank, granted>>

NoAnswer  == [kind |-> "none"]
Usage     == [kind |-> "error"]
Result(n) == [kind |-> "result", value |-> n]

\* A text that names a command without all its words has no arguments here; the
\* empty text and unknown commands have none either.
AuthRequests == [cmd : {"login", "register"}, cred : Credentials]
BankRequests == [cmd : {"tx"}, token : Tokens]
Incomplete   == [cmd : {"login", "register", "tx", "", "unknown"}]
Requests     == AuthRequests \cup BankRequests \cup Incomplete

Complete(r) == r \in AuthRequests \cup BankRequests

-----------------------------------------------------------------------------
(* The Gateway.                                                            *)

\* data_ready_wait returns, and the text is copied out and parsed.
Receive(r) ==
  /\ gpc = "wait"
  /\ r.cmd = "login" => Len(issued) < MaxLogins
  /\ request' = r
  /\ answer'  = NoAnswer
  /\ gpc'     = "dispatch"
  /\ UNCHANGED <<vars, bank, granted>>

CallAuth ==
  /\ gpc = "dispatch"
  /\ Complete(request) /\ request.cmd \in {"login", "register"}
  /\ gpc' = "auth"
  /\ UNCHANGED <<vars, request, answer, bank, granted>>

CallBank ==
  /\ gpc = "dispatch"
  /\ Complete(request) /\ request.cmd = "tx"
  /\ gpc' = "bank"
  /\ UNCHANGED <<vars, request, answer, bank, granted>>

\* Defect: a text that makes no sense ends the loop.
RefuseAndLeave ==
  /\ gpc = "dispatch"
  /\ ~Complete(request)
  /\ answer' = Usage
  /\ gpc'    = "left"
  /\ UNCHANGED <<vars, request, bank, granted>>

\* Defect: a text that makes no sense gets no reply text.
RefuseSilently ==
  /\ gpc = "dispatch"
  /\ ~Complete(request)
  /\ gpc' = "reply"
  /\ UNCHANGED <<vars, request, answer, bank, granted>>

\* Empty, unknown, or words are missing: nobody is called.
Refuse ==
  /\ gpc = "dispatch"
  /\ ~Complete(request)
  /\ answer' = Usage
  /\ gpc'    = "reply"
  /\ UNCHANGED <<vars, request, bank, granted>>

\* The reply goes into the buffer, and the loop starts again.
Reply ==
  /\ gpc = "reply"
  /\ granted' = IF /\ Complete(request) /\ request.cmd = "login"
                   /\ answer # Result(Failure) /\ CounterFresh
                  THEN granted \cup {answer.value}
                  ELSE granted
  /\ gpc' = "wait"
  /\ UNCHANGED <<vars, request, answer, bank>>

-----------------------------------------------------------------------------
(* The services.                                                           *)

\* The AuthServer has nothing to initialise and always answers.
AuthAnswers ==
  /\ gpc = "auth"
  /\ \/ request.cmd = "login" /\ auth_login(request.cred)
     \/ request.cmd = "register" /\ auth_register_user(request.cred)
  /\ answer' = Result(reply'.result)
  /\ gpc'    = "reply"
  /\ UNCHANGED <<request, bank, granted>>

\* pre_init returns, with a schema or without one ...
PreInit ==
  /\ ledger = "pre_init"
  /\ ledger' = "serving"
  /\ sound' \in BOOLEAN
  /\ UNCHANGED <<vars, gateway, granted>>

\* ... or it cannot open the database, and never returns.
PreInitHalts ==
  /\ ledger = "pre_init"
  /\ ledger' = "halted"
  /\ UNCHANGED <<vars, gateway, sound, granted>>

\* Memory or the disk gives out.
DatabaseFails ==
  /\ ledger = "serving" /\ sound
  /\ sound' = FALSE
  /\ UNCHANGED <<vars, gateway, ledger, granted>>

\* Defect: the words are passed in another order; a name is no number to atoi.
TokenPassedFromName(r) == 0

\* The argument token of bank_execute_transaction.
TokenPassed(r) == r.token

\* A call that arrives before pre_init is over waits.  A token below the
\* threshold is refused; any other depends on the database alone.
BankAnswers ==
  /\ gpc = "bank" /\ ledger = "serving"
  /\ answer' \in IF TokenPassed(request) < MinToken THEN {Result(-1)}
                 ELSE IF sound THEN {Result(0)} ELSE {Result(0), Result(-1)}
  /\ gpc' = "reply"
  /\ UNCHANGED <<vars, request, bank, granted>>

-----------------------------------------------------------------------------
SystemInit ==
  /\ Init
  /\ gpc = "wait" /\ request = [cmd |-> ""] /\ answer = NoAnswer
  /\ ledger = "pre_init" /\ sound = TRUE
  /\ granted = {}

Gateway == CallAuth \/ CallBank \/ Refuse \/ Reply
Boot    == PreInit \/ PreInitHalts

SystemNext ==
  \/ \E r \in Requests : Receive(r)
  \/ Gateway \/ AuthAnswers \/ Boot \/ DatabaseFails \/ BankAnswers

SystemSpec == SystemInit /\ [][SystemNext]_systemVars

\* Every component has a thread of its own, and the scheduler is fair to all.
\* Clients owe nothing.
FairSystemSpec ==
  /\ SystemSpec
  /\ WF_systemVars(Gateway) /\ WF_systemVars(AuthAnswers)
  /\ WF_systemVars(Boot) /\ WF_systemVars(BankAnswers)

-----------------------------------------------------------------------------
(* Properties.                                                             *)

\* Every variable has its type, and a reply is sent only when there is one.
SystemTypeOK ==
  /\ TypeOK
  /\ gpc \in {"wait", "dispatch", "auth", "bank", "reply"}
  /\ request \in Requests
  /\ answer \in {NoAnswer, Usage} \cup {Result(n) : n \in Ints}
  /\ gpc = "reply" => answer # NoAnswer
  /\ gpc = "auth" => request \in AuthRequests
  /\ gpc = "bank" => request \in BankRequests
  /\ ledger \in {"pre_init", "serving", "halted"} /\ sound \in BOOLEAN
  /\ granted \subseteq Ints

\* A token that a client was told while the AuthServer's counter was fresh is
\* honoured by the Ledger for ever, whatever was registered, issued or refused
\* since, as long as the database is sound.
TokensHonoured ==
  (gpc = "reply" /\ request \in BankRequests /\ request.token \in granted /\ sound) =>
    answer = Result(0)

\* ledger.c:185 "Check against dynamically issued tokens (> 1000)": a transaction
\* succeeds only with a token that the AuthServer has issued.  With a sound
\* database, so that the answer is the Ledger's judgement of the token alone.
OnlyIssuedHonoured ==
  (gpc = "reply" /\ request \in BankRequests /\ sound /\ answer = Result(0)) =>
    \E i \in 1..Len(issued) : issued[i] = request.token

\* Every request is answered, unless it is a transaction and the Ledger has
\* stopped: then the Gateway waits for ever.  Until that first transaction a
\* stopped Ledger takes nothing with it.
ServesOn ==
  /\ (gpc = "dispatch" /\ request \notin BankRequests) ~> (gpc = "wait")
  /\ (gpc = "dispatch") ~> (gpc = "wait" \/ (gpc = "bank" /\ ledger = "halted"))

=============================================================================
