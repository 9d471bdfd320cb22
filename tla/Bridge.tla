------------------------------- MODULE Bridge -------------------------------
(***************************************************************************)
(* The shared-memory bridge between the Client and the APIGateway          *)
(* (components/Client/src/client.c, components/APIGateway/src/gateway.c).  *)
(*                                                                         *)
(* The two components share one dataport, net_buffer, in both directions:  *)
(* the Client copies a request into it and signals the notification        *)
(* data_ready; the Gateway copies the request out, serves it, and copies   *)
(* its reply over the same bytes.  Nothing signals the Client back: it     *)
(* yields a fixed number of times and then reads whatever the buffer holds.*)
(*                                                                         *)
(* The buffer is a row of three cells, the unit that one store of a memcpy *)
(* changes.  A request ends in the third cell, a "TX_RESULT" reply in the  *)
(* second (it is shorter than every request), an "ERROR" reply not before  *)
(* the third.  A cell remembers which message its bytes come from, so that *)
(* two requests of the same text can be told apart.                        *)
(***************************************************************************)
EXTENDS Naturals, Sequences

CONSTANT MaxRequests  \* bound: the Client stops after this many requests

ASSUME MaxRequestsAssumption == MaxRequests \in Nat

VARIABLES
  buf,       \* net_buffer: the content of each cell
  signal,    \* the notification word of data_ready (seL4 keeps one bit)
  cpc,       \* where the Client's loop is
  cleft,     \* cells of the request that its memcpy has not stored yet
  sent,      \* number of the Client's current request
  response,  \* what the Client last printed as its response
  gpc,       \* where the Gateway's loop is
  local,     \* local_buf: the Gateway's copy of the request
  at,        \* the next cell its strncpy reads
  reply,     \* the message the Gateway is answering with
  gleft,     \* cells of the reply that its memcpy has not stored yet
  executed,  \* history: the request texts given to execute_transaction
  hurried    \* history: the yields were over once before the Gateway was done

clientVars  == <<cpc, cleft, sent, response, hurried>>
gatewayVars == <<gpc, local, at, reply, gleft, executed>>
vars        == <<buf, signal, clientVars, gatewayVars>>

Cells == 1..3

(***************************************************************************)
(* Contents.  The id of a request is its number, the id of a result is the *)
(* number of the request whose first cell was served; 0 where neither is.  *)
(***************************************************************************)
Zero       == [kind |-> "zero",    id |-> 0]
Request(k) == [kind |-> "request", id |-> k]
Result(k)  == [kind |-> "result",  id |-> k]
Error      == [kind |-> "error",   id |-> 0]

\* Defect: the reply is copied without its NUL (strlen instead of strlen + 1).
ExtentWithoutNul(m) == IF m.kind = "result" THEN {1} ELSE Cells

\* The cells a message covers: strlen + 1 bytes of it.
Extent(m) == IF m.kind = "result" THEN 1..2 ELSE Cells

\* Defect: the copy out of the buffer is not limited to local_buf.
TerminatesUnlimited(c, m) == m.kind = "zero" \/ (m.kind = "result" /\ c = 2)

\* The NUL of a message lies in the last cell it covers.
Terminates(c, m) == m.kind = "zero" \/ c = 3 \/ (m.kind = "result" /\ c = 2)

\* The C string that starts at cell 1 of b: everything after its NUL is void.
String(b) ==
  [c \in Cells |-> IF \E d \in 1..(c - 1) : Terminates(d, b[d])
                     THEN Zero ELSE b[c]]

\* The text is a request's from end to end.
IsRequest(b) == \A c \in Cells : b[c].kind = "request"

\* The text can parse as "tx" with all five arguments: its command word comes
\* from a request and no NUL cuts it before the end.  The words behind may come
\* from a request or from an error reply: "tx 1001 " followed by the tail of
\* "ERROR: Usage: tx <token> <src> <dest> <type> <amt>" has five of them.  A
\* mixed text may also have fewer, depending on where the cells divide it.
MayParse(b) == b[1].kind = "request" /\ b[3].kind \in {"request", "error"}

-----------------------------------------------------------------------------
(* The Client (client.c, run).                                             *)

\* read_input fills the local buffer; the next memcpy starts.
ReadInput ==
  /\ cpc = "input"
  /\ sent < MaxRequests
  /\ sent'  = sent + 1
  /\ cleft' = Cells
  /\ cpc'   = "write"
  /\ UNCHANGED <<buf, signal, response, hurried, gatewayVars>>

\* One store of memcpy(net_buffer, input_buffer, ...); C orders none of them.
WriteRequest(c) ==
  /\ cpc = "write"
  /\ c \in cleft
  /\ buf'   = [buf EXCEPT ![c] = Request(sent)]
  /\ cleft' = cleft \ {c}
  /\ cpc'   = IF cleft' = {} THEN "emit" ELSE "write"
  /\ UNCHANGED <<signal, sent, response, hurried, gatewayVars>>

\* Defect: a signal sent while nobody waits for it is dropped.
EmitUnlatched ==
  /\ cpc = "emit"
  /\ signal' = (gpc = "wait")
  /\ cpc'    = "poll"
  /\ UNCHANGED <<buf, cleft, sent, response, hurried, gatewayVars>>

\* data_ready_emit: a second signal before the first is waited for is absorbed.
Emit ==
  /\ cpc = "emit"
  /\ signal' = TRUE
  /\ cpc'    = "poll"
  /\ UNCHANGED <<buf, cleft, sent, response, hurried, gatewayVars>>

\* Defect: a pending signal does not count as work.
GatewayAsleepUnlessBusy == gpc = "wait"

GatewayAsleep == gpc = "wait" /\ ~signal

\* The 100000 yields are over: print the buffer and go round again.  Nothing
\* in the code makes the Gateway finish first; hurried remembers that it did not.
ReadResponse ==
  /\ cpc = "poll"
  /\ response' = String(buf)
  /\ hurried'  = (hurried \/ ~GatewayAsleep)
  /\ cpc'      = "input"
  /\ UNCHANGED <<buf, signal, cleft, sent, gatewayVars>>

-----------------------------------------------------------------------------
(* The APIGateway (gateway.c, run).                                        *)

\* data_ready_wait returns and clears the notification.
Wake ==
  /\ gpc = "wait"
  /\ signal
  /\ signal' = FALSE
  /\ local'  = [c \in Cells |-> Zero]
  /\ at'     = 1
  /\ gpc'    = "copy"
  /\ UNCHANGED <<buf, clientVars, reply, gleft, executed>>

\* strncpy reads upwards until the NUL and pads the rest with zeros.
CopyRequest ==
  /\ gpc = "copy"
  /\ local' = [local EXCEPT ![at] = buf[at]]
  /\ IF Terminates(at, buf[at])
       THEN gpc' = "dispatch" /\ at' = at
       ELSE gpc' = "copy"     /\ at' = at + 1
  /\ UNCHANGED <<buf, signal, clientVars, reply, gleft, executed>>

\* strtok and strcmp: a complete "tx" is passed to the Ledger.
DispatchTransaction ==
  /\ gpc = "dispatch"
  /\ MayParse(local)
  /\ executed' = Append(executed, local)
  /\ gpc'      = "rpc"
  /\ UNCHANGED <<buf, signal, clientVars, local, at, reply, gleft>>

\* An empty, unknown or incomplete command is answered without a call.
DispatchError ==
  /\ gpc = "dispatch"
  /\ ~IsRequest(local)
  /\ reply' = Error
  /\ gleft' = Extent(Error)
  /\ gpc'   = "reply"
  /\ UNCHANGED <<buf, signal, clientVars, local, at, executed>>

\* bank_execute_transaction returns its result.
TransactionReturns ==
  /\ gpc = "rpc"
  /\ reply' = Result(local[1].id)
  /\ gleft' = Extent(reply')
  /\ gpc'   = "reply"
  /\ UNCHANGED <<buf, signal, clientVars, local, at, executed>>

\* Defect: the reply goes to a buffer of its own and the request stays.
WriteReplyAside(c) ==
  /\ gpc = "reply"
  /\ c \in gleft
  /\ gleft' = gleft \ {c}
  /\ gpc'   = IF gleft' = {} THEN "wait" ELSE "reply"
  /\ UNCHANGED <<buf, signal, clientVars, local, at, reply, executed>>

\* One store of memcpy(net_buffer, reply, strlen(reply) + 1).
WriteReply(c) ==
  /\ gpc = "reply"
  /\ c \in gleft
  /\ buf'   = [buf EXCEPT ![c] = reply]
  /\ gleft' = gleft \ {c}
  /\ gpc'   = IF gleft' = {} THEN "wait" ELSE "reply"
  /\ UNCHANGED <<signal, clientVars, local, at, reply, executed>>

-----------------------------------------------------------------------------
Init ==
  /\ buf      = [c \in Cells |-> Zero]
  /\ signal   = FALSE
  /\ cpc      = "input"
  /\ cleft    = {}
  /\ sent     = 0
  /\ response = [c \in Cells |-> Zero]
  /\ gpc      = "wait"
  /\ local    = [c \in Cells |-> Zero]
  /\ at       = 1
  /\ reply    = Zero
  /\ gleft    = {}
  /\ executed = << >>
  /\ hurried  = FALSE

Client ==
  \/ ReadInput
  \/ \E c \in Cells : WriteRequest(c)
  \/ Emit
  \/ ReadResponse

Gateway ==
  \/ Wake
  \/ CopyRequest
  \/ DispatchTransaction
  \/ DispatchError
  \/ TransactionReturns
  \/ \E c \in Cells : WriteReply(c)

\* The bound is reached and every component is at rest.
Exhausted ==
  /\ cpc = "input" /\ sent = MaxRequests
  /\ GatewayAsleep
  /\ UNCHANGED vars

Next == Client \/ Gateway \/ Exhausted

Spec == Init /\ [][Next]_vars

\* Both threads run at the same priority and the Client yields while it polls,
\* so each is scheduled again and again; the RPC is assumed to return.
FairSpec == Spec /\ WF_vars(Client) /\ WF_vars(Gateway)

-----------------------------------------------------------------------------
(* Properties.                                                             *)

Content ==
  {Zero, Error} \cup {Request(k) : k \in 1..sent} \cup {Result(k) : k \in 1..sent}

\* Every variable has its type; a message never carries a future number.
TypeOK ==
  /\ buf \in [Cells -> Content]
  /\ signal \in BOOLEAN
  /\ cpc \in {"input", "write", "emit", "poll"}
  /\ cleft \in SUBSET Cells
  /\ sent \in 0..MaxRequests
  /\ response \in [Cells -> Content]
  /\ gpc \in {"wait", "copy", "dispatch", "rpc", "reply"}
  /\ local \in [Cells -> Content]
  /\ at \in Cells
  /\ reply \in Content
  /\ gleft \in SUBSET Cells
  /\ executed \in Seq([Cells -> Content])
  /\ hurried \in BOOLEAN

\* However late the Gateway is, no request text is given to the Ledger twice
\* and none overtakes an earlier one: the first cell of each executed text
\* comes from a later request than the one before.  The Gateway relies on its
\* reply having overwritten what it served before it waits again.
InOrder ==
  \A i, j \in 1..Len(executed) : i < j => executed[i][1].id < executed[j][1].id

\* No lost wakeup: when the Gateway sleeps with no signal pending and the
\* Client is not in the middle of sending, the buffer holds no request that
\* nobody has looked at.
NoSleepingRequest ==
  (GatewayAsleep /\ cpc \in {"input", "poll"}) => buf[1].kind # "request"

\* As long as the Client's yields have outlasted the Gateway's work, every
\* request has been executed exactly once, whole and in the order it was sent,
\* when the Client starts on the next one.
ExactlyOnce ==
  (cpc = "input" /\ ~hurried) =>
    executed = [i \in 1..sent |-> [c \in Cells |-> Request(i)]]

Answer(k) == [c \in Cells |-> IF c \in Extent(Result(k)) THEN Result(k) ELSE Zero]

\* What the Client prints as its response is the result of its own request
\* (client.c:39 "We assume the Gateway puts the result back in the same buffer",
\* client.c:46 "Read result from Shared Memory").
ClientReadsItsResult == (cpc = "input" /\ sent > 0) => response = Answer(sent)

\* It is, and nothing of an older or a longer text shows behind it, as long as
\* the yields have outlasted the Gateway's work.
PatientReadsItsResult == ~hurried => ClientReadsItsResult

\* A signalled request does not lie unread for ever, whatever becomes of it:
\* the Gateway takes it or the Client replaces it.
Consumed ==
  \A k \in 1..MaxRequests :
    (cpc = "poll" /\ buf[1] = Request(k)) ~> (buf[1] # Request(k))

=============================================================================
