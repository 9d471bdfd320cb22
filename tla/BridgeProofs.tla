---------------------------- MODULE BridgeProofs ----------------------------
(***************************************************************************)
(* Proofs about Bridge, for every number of requests and any relative      *)
(* speed of the Client and the Gateway.                                    *)
(***************************************************************************)
EXTENDS Bridge, SequenceTheorems, TLAPS

-----------------------------------------------------------------------------
(* Type correctness.                                                       *)

\* The contents a buffer can have only grow while requests are numbered.
LEMMA ContentGrows ==
  ASSUME sent \in Nat, sent' \in Nat, sent <= sent'
  PROVE  Content \subseteq Content'
  BY DEF Content, Request, Result, Zero, Error

\* What a client step stores: a request with the current number.
LEMMA RequestIsContent ==
  ASSUME sent \in Nat, sent > 0
  PROVE  Request(sent) \in Content
  BY DEF Content

\* Every variable of the bridge keeps its type (TypeOK), and a Client that is
\* writing has numbered its request.
NumberedInv == cpc \in {"write", "emit", "poll"} => sent > 0

\* A dispatched text starts with a request of a past or present number.
TypeInv == TypeOK /\ NumberedInv /\ (gpc = "rpc" => local[1].kind = "request")

LEMMA TypeInit == Init => TypeInv
  <1> SUFFICES ASSUME Init PROVE TypeInv
    OBVIOUS
  <1> USE DEF Init
  <1>1. Zero \in Content
    BY DEF Content
  <1>2. sent \in 0..MaxRequests
    BY MaxRequestsAssumption
  <1>3. executed \in Seq([Cells -> Content])
    OBVIOUS
  <1>4. [c \in Cells |-> Zero] \in [Cells -> Content]
    BY <1>1
  <1>5. signal \in BOOLEAN /\ hurried \in BOOLEAN
    OBVIOUS
  <1>6. QED
    BY <1>1, <1>2, <1>3, <1>4, <1>5 DEF TypeInv, TypeOK, NumberedInv, Cells

LEMMA TypeStep == TypeInv /\ [Next]_vars => TypeInv'
  <1> SUFFICES ASSUME TypeInv, [Next]_vars PROVE TypeInv'
    OBVIOUS
  <1> USE MaxRequestsAssumption DEF TypeInv, TypeOK, NumberedInv, Cells
  <1>1. CASE ReadInput
    <2>1. Content \subseteq Content'
      BY <1>1, ContentGrows DEF ReadInput
    <2>2. QED
      BY <1>1, <2>1 DEF ReadInput, gatewayVars
  <1>2. ASSUME NEW c \in Cells, WriteRequest(c) PROVE TypeInv'
    <2>1. Request(sent) \in Content /\ Content' = Content
      BY <1>2, RequestIsContent DEF WriteRequest, Content
    <2>2. QED
      BY <1>2, <2>1 DEF WriteRequest, gatewayVars
  <1>3. CASE Emit
    BY <1>3 DEF Emit, gatewayVars, Content
  <1>4. CASE ReadResponse
    <2>1. Zero \in Content
      BY DEF Content
    <2>2. ASSUME NEW c \in Cells
          PROVE  (IF \E d \in 1..(c - 1) : Terminates(d, buf[d])
                    THEN Zero ELSE buf[c]) \in Content
      BY <2>1
    <2>3. String(buf) \in [Cells -> Content]
      BY <2>2 DEF String
    <2>4. hurried' \in BOOLEAN
      BY <1>4 DEF ReadResponse
    <2>5. response' \in [Cells -> Content'] /\ cpc' = "input"
      BY <1>4, <2>3 DEF ReadResponse, Content
    <2>6. UNCHANGED <<buf, signal, cleft, sent, gatewayVars>> /\ Content' = Content
      BY <1>4 DEF ReadResponse, Content
    <2>7. QED
      BY <2>4, <2>5, <2>6 DEF gatewayVars
  <1>5. CASE Wake
    <2>1. Zero \in Content /\ Content' = Content
      BY <1>5 DEF Wake, clientVars, Content
    <2>2. [c \in Cells |-> Zero] \in [Cells -> Content]
      BY <2>1
    <2>3. signal' \in BOOLEAN /\ local' \in [Cells -> Content']
      BY <1>5, <2>1, <2>2 DEF Wake
    <2>4. UNCHANGED <<buf, cpc, cleft, sent, response, hurried, reply, gleft, executed>>
      BY <1>5 DEF Wake, clientVars
    <2>5. at' \in Cells /\ gpc' = "copy"
      BY <1>5 DEF Wake
    <2>6. QED
      BY <2>1, <2>3, <2>4, <2>5
  <1>6. CASE CopyRequest
    <2>1. Content' = Content
      BY <1>6 DEF CopyRequest, clientVars, Content
    <2>2. at = 3 => Terminates(at, buf[at])
      BY DEF Terminates
    <2>3. QED
      BY <1>6, <2>1, <2>2 DEF CopyRequest, clientVars
  <1>7. CASE DispatchTransaction
    <2>1. Content' = Content
      BY <1>7 DEF DispatchTransaction, clientVars, Content
    <2>2. QED
      BY <1>7, <2>1 DEF DispatchTransaction, clientVars, MayParse
  <1>8. CASE DispatchError
    <2>1. Error \in Content /\ Content' = Content
      BY <1>8 DEF DispatchError, clientVars, Content
    <2>2. QED
      BY <1>8, <2>1 DEF DispatchError, clientVars, Extent
  <1>9. CASE TransactionReturns
    <2>1. Content' = Content
      BY <1>9 DEF TransactionReturns, clientVars, Content
    <2>2. \E k \in 1..sent : local[1] = Request(k)
      BY <1>9 DEF TransactionReturns, Content, Zero, Error, Request, Result
    <2>3. Result(local[1].id) \in Content
      BY <2>2 DEF Content, Request
    <2>4. QED
      BY <1>9, <2>1, <2>3 DEF TransactionReturns, clientVars, Extent
  <1>10. ASSUME NEW c \in Cells, WriteReply(c) PROVE TypeInv'
    <2>1. Content' = Content
      BY <1>10 DEF WriteReply, clientVars, Content
    <2>2. QED
      BY <1>10, <2>1 DEF WriteReply, clientVars
  <1>11. CASE UNCHANGED vars
    BY <1>11 DEF vars, clientVars, gatewayVars, Content
  <1>12. QED
    BY <1>1, <1>2, <1>3, <1>4, <1>5, <1>6, <1>7, <1>8, <1>9, <1>10, <1>11
    DEF Next, Client, Gateway, Exhausted

\* TypeOK is an invariant of the bridge for every MaxRequests.
THEOREM TypeCorrect == Spec => []TypeOK
  <1>1. TypeInv => TypeOK
    BY DEF TypeInv
  <1>2. QED
    BY <1>1, TypeInit, TypeStep, PTL DEF Spec

-----------------------------------------------------------------------------
(* No lost wakeup.                                                         *)

\* While a request lies in the first cell, somebody will still deal with it: a
\* signal is pending or about to be sent, or the Gateway is serving and its
\* reply has yet to overwrite the cell.
WatchedInv ==
  /\ buf[1].kind = "request" =>
       \/ signal
       \/ cpc \in {"write", "emit"}
       \/ gpc \in {"copy", "dispatch", "rpc"}
       \/ gpc = "reply" /\ 1 \in gleft
  /\ gpc = "reply" => reply.kind # "request"

LEMMA WatchedInit == Init => WatchedInv
  BY DEF Init, WatchedInv, Zero, Cells

LEMMA WatchedStep == TypeInv /\ WatchedInv /\ [Next]_vars => WatchedInv'
  <1> SUFFICES ASSUME TypeOK, WatchedInv, [Next]_vars PROVE WatchedInv'
    BY DEF TypeInv
  <1> USE DEF WatchedInv, Cells
  <1>1. CASE ReadInput
    BY <1>1 DEF ReadInput, gatewayVars
  <1>2. ASSUME NEW c \in Cells, WriteRequest(c) PROVE WatchedInv'
    BY <1>2 DEF WriteRequest, gatewayVars
  <1>3. CASE Emit
    BY <1>3 DEF Emit, gatewayVars
  <1>4. CASE ReadResponse
    BY <1>4 DEF ReadResponse, gatewayVars
  <1>5. CASE Wake
    BY <1>5 DEF Wake, clientVars
  <1>6. CASE CopyRequest
    BY <1>6 DEF CopyRequest, clientVars
  <1>7. CASE DispatchTransaction
    BY <1>7 DEF DispatchTransaction, clientVars
  <1>8. CASE DispatchError
    BY <1>8 DEF DispatchError, clientVars, Extent, Error
  <1>9. CASE TransactionReturns
    BY <1>9 DEF TransactionReturns, clientVars, Extent, Result
  <1>10. ASSUME NEW c \in Cells, WriteReply(c) PROVE WatchedInv'
    <2>1. CASE c = 1
      BY <1>10, <2>1 DEF WriteReply, clientVars, TypeOK
    <2>2. CASE c # 1
      BY <1>10, <2>2 DEF WriteReply, clientVars, TypeOK
    <2>3. QED
      BY <2>1, <2>2
  <1>11. CASE UNCHANGED vars
    BY <1>11 DEF vars, clientVars, gatewayVars
  <1>12. QED
    BY <1>1, <1>2, <1>3, <1>4, <1>5, <1>6, <1>7, <1>8, <1>9, <1>10, <1>11
    DEF Next, Client, Gateway, Exhausted

\* NoSleepingRequest holds whatever the interleaving: the Gateway never sleeps
\* on a request that the Client has finished sending.
THEOREM NoLostWakeup == Spec => []NoSleepingRequest
  <1>1. TypeInv /\ WatchedInv => NoSleepingRequest
    BY DEF WatchedInv, NoSleepingRequest, GatewayAsleep
  <1>2. QED
    BY <1>1, TypeInit, TypeStep, WatchedInit, WatchedStep, PTL DEF Spec

-----------------------------------------------------------------------------
(* Requests are executed in order and at most once.                        *)

\* The number of the request whose text was executed last.
Last == IF executed = << >> THEN 0 ELSE executed[Len(executed)][1].id

\* A request in the buffer is newer than every executed one, except the one
\* being served until the reply has overwritten it.
BufferInv ==
  buf[1].kind = "request" =>
    /\ Last <= buf[1].id
    /\ gpc = "rpc" \/ (gpc = "reply" /\ 1 \in gleft) \/ Last < buf[1].id

\* A request the Gateway has copied is newer than every executed one and not
\* newer than what the buffer holds now.
CopyInv ==
  (gpc \in {"copy", "dispatch"} /\ local[1].kind = "request") =>
    /\ Last < local[1].id
    /\ buf[1].kind = "request" => local[1].id <= buf[1].id

\* The request the Client is about to store is newer than all of them.
StoreInv ==
  (cpc = "write" /\ 1 \in cleft) =>
    /\ Last < sent
    /\ buf[1].kind = "request" => buf[1].id < sent
    /\ (gpc \in {"copy", "dispatch"} /\ local[1].kind = "request")
         => local[1].id < sent

OrderInv == InOrder /\ Last <= sent /\ BufferInv /\ CopyInv /\ StoreInv

\* Content carries numbers up to that of the current request.
LEMMA ContentNumbers ==
  ASSUME sent \in Nat, NEW m \in Content
  PROVE  m.id \in 0..sent
  BY DEF Content, Zero, Error, Request, Result

\* What the type invariant says of the numbers that are compared.
LEMMA NumbersTyped ==
  ASSUME TypeOK
  PROVE  /\ sent \in Nat /\ Last \in Nat
         /\ buf[1].id \in 0..sent /\ local[1].id \in 0..sent
         /\ \A i \in 1..Len(executed) : executed[i][1].id \in 0..sent
  <1>1. sent \in Nat
    BY MaxRequestsAssumption DEF TypeOK
  <1>2. buf[1] \in Content /\ local[1] \in Content
    BY DEF TypeOK, Cells
  <1>3. ASSUME NEW i \in 1..Len(executed)
        PROVE  executed[i][1].id \in 0..sent
    <2>1. executed[i] \in [Cells -> Content]
      BY DEF TypeOK
    <2>2. executed[i][1] \in Content
      BY <2>1 DEF Cells
    <2>3. QED
      BY <1>1, <2>2, ContentNumbers
  <1>4. Last \in Nat
    <2>1. CASE executed = << >>
      BY <2>1 DEF Last
    <2>2. CASE executed # << >>
      <3>1. Len(executed) \in 1..Len(executed)
        BY <2>2 DEF TypeOK
      <3>2. QED
        BY <1>1, <1>3, <2>2, <3>1 DEF Last
    <2>3. QED
      BY <2>1, <2>2
  <1>5. QED
    BY <1>1, <1>2, <1>3, <1>4, ContentNumbers

\* Executing a text that is newer than the last one keeps the order.
LEMMA ExecuteNewer ==
  ASSUME TypeOK, InOrder, Last < local[1].id,
         executed' = Append(executed, local)
  PROVE  InOrder' /\ Last' = local[1].id
  <1> DEFINE n == Len(executed)
  <1>1. executed \in Seq([Cells -> Content]) /\ local \in [Cells -> Content] /\ n \in Nat
    BY DEF TypeOK
  <1>2. /\ Len(executed') = n + 1
        /\ executed'[n + 1] = local
        /\ \A i \in 1..n : executed'[i] = executed[i]
    BY <1>1
  <1>3. Last' = local[1].id
    BY <1>1, <1>2 DEF Last
  <1>4. ASSUME NEW i \in 1..n PROVE executed[i][1].id <= Last
    <2>1. executed # << >> /\ n \in 1..n
      BY <1>1, <1>4
    <2>2. Last = executed[n][1].id
      BY <2>1 DEF Last
    <2>3. i < n => executed[i][1].id < executed[n][1].id
      BY <2>1 DEF InOrder
    <2>4. executed[i][1].id \in Nat /\ executed[n][1].id \in Nat
      BY <2>1, NumbersTyped
    <2>5. i = n \/ i < n
      BY <1>1
    <2>6. QED
      BY <2>2, <2>3, <2>4, <2>5
  <1>5. ASSUME NEW i \in 1..(n + 1), NEW j \in 1..(n + 1), i < j
        PROVE  executed'[i][1].id < executed'[j][1].id
    <2>1. i \in 1..n
      BY <1>1, <1>5
    <2>2. CASE j = n + 1
      <3>1. executed[i][1].id \in Nat /\ Last \in Nat /\ local[1].id \in Nat
        BY <2>1, NumbersTyped
      <3>2. executed[i][1].id <= Last /\ Last < local[1].id
        BY <1>4, <2>1
      <3>3. executed'[i] = executed[i] /\ executed'[j] = local
        BY <1>2, <2>1, <2>2
      <3>4. QED
        BY <3>1, <3>2, <3>3
    <2>3. CASE j # n + 1
      <3>1. j \in 1..n
        BY <1>1, <2>3
      <3>2. QED
        BY <1>2, <1>5, <2>1, <3>1 DEF InOrder
    <2>4. QED
      BY <2>2, <2>3
  <1>6. InOrder'
    BY <1>2, <1>5 DEF InOrder
  <1>7. QED
    BY <1>3, <1>6

LEMMA OrderInit == Init => OrderInv
  BY MaxRequestsAssumption
  DEF Init, OrderInv, InOrder, Last, BufferInv, CopyInv, StoreInv, Zero, Cells

\* A step that executes nothing leaves InOrder and Last alone.
LEMMA NothingExecuted ==
  ASSUME UNCHANGED executed
  PROVE  Last' = Last /\ (InOrder => InOrder')
  BY DEF Last, InOrder

LEMMA OrderStep == TypeInv /\ WatchedInv /\ OrderInv /\ [Next]_vars => OrderInv'
  <1> SUFFICES ASSUME TypeOK, WatchedInv, OrderInv, [Next]_vars PROVE OrderInv'
    BY DEF TypeInv
  <1>0. /\ sent \in Nat /\ Last \in Nat
        /\ buf[1].id \in 0..sent /\ local[1].id \in 0..sent
        /\ buf \in [Cells -> Content] /\ local \in [Cells -> Content]
        /\ at \in Cells /\ gleft \subseteq Cells
    BY NumbersTyped DEF TypeOK
  <1> USE <1>0 DEF OrderInv, BufferInv, CopyInv, StoreInv, Cells
  <1>1. CASE ReadInput
    <2>1. Last' = Last /\ InOrder'
      BY <1>1, NothingExecuted DEF ReadInput, gatewayVars
    <2>2. QED
      BY <1>1, <2>1 DEF ReadInput, gatewayVars
  <1>2. ASSUME NEW c \in Cells, WriteRequest(c) PROVE OrderInv'
    <2>1. Last' = Last /\ InOrder'
      BY <1>2, NothingExecuted DEF WriteRequest, gatewayVars
    <2>2. CASE c = 1
      <3>1. buf'[1] = Request(sent) /\ 1 \notin cleft'
        BY <1>2, <2>2 DEF WriteRequest
      <3>2. QED
        BY <1>2, <2>1, <2>2, <3>1 DEF WriteRequest, gatewayVars, Request
    <2>3. CASE c # 1
      <3>1. buf'[1] = buf[1] /\ (1 \in cleft' => 1 \in cleft)
        BY <1>2, <2>3 DEF WriteRequest
      <3>2. QED
        BY <1>2, <2>1, <2>3, <3>1 DEF WriteRequest, gatewayVars
    <2>4. QED
      BY <2>2, <2>3
  <1>3. CASE Emit
    <2>1. Last' = Last /\ InOrder'
      BY <1>3, NothingExecuted DEF Emit, gatewayVars
    <2>2. QED
      BY <1>3, <2>1 DEF Emit, gatewayVars
  <1>4. CASE ReadResponse
    <2>1. Last' = Last /\ InOrder'
      BY <1>4, NothingExecuted DEF ReadResponse, gatewayVars
    <2>2. QED
      BY <1>4, <2>1 DEF ReadResponse, gatewayVars
  <1>5. CASE Wake
    <2>1. Last' = Last /\ InOrder'
      BY <1>5, NothingExecuted DEF Wake
    <2>2. local'[1].kind # "request"
      BY <1>5 DEF Wake, Zero
    <2>3. QED
      BY <1>5, <2>1, <2>2 DEF Wake, clientVars
  <1>6. CASE CopyRequest
    <2>1. Last' = Last /\ InOrder'
      BY <1>6, NothingExecuted DEF CopyRequest
    <2>2. CASE at = 1
      <3>1. local'[1] = buf[1]
        BY <1>6, <2>2 DEF CopyRequest
      <3>2. QED
        BY <1>6, <2>1, <3>1 DEF CopyRequest, clientVars
    <2>3. CASE at # 1
      <3>1. local'[1] = local[1]
        BY <1>6, <2>3 DEF CopyRequest
      <3>2. QED
        BY <1>6, <2>1, <3>1 DEF CopyRequest, clientVars
    <2>4. QED
      BY <2>2, <2>3
  <1>7. CASE DispatchTransaction
    <2>1. local[1].kind = "request" /\ Last < local[1].id
      BY <1>7 DEF DispatchTransaction, MayParse
    <2>2. InOrder' /\ Last' = local[1].id
      BY <1>7, <2>1, ExecuteNewer DEF DispatchTransaction
    <2>3. QED
      BY <1>7, <2>1, <2>2 DEF DispatchTransaction, clientVars
  <1>8. CASE DispatchError
    <2>1. Last' = Last /\ InOrder'
      BY <1>8, NothingExecuted DEF DispatchError
    <2>2. QED
      BY <1>8, <2>1 DEF DispatchError, clientVars
  <1>9. CASE TransactionReturns
    <2>1. Last' = Last /\ InOrder'
      BY <1>9, NothingExecuted DEF TransactionReturns
    <2>2. 1 \in gleft'
      BY <1>9 DEF TransactionReturns, Extent, Result
    <2>3. QED
      BY <1>9, <2>1, <2>2 DEF TransactionReturns, clientVars
  <1>10. ASSUME NEW c \in Cells, WriteReply(c) PROVE OrderInv'
    <2>1. Last' = Last /\ InOrder'
      BY <1>10, NothingExecuted DEF WriteReply
    <2>2. CASE c = 1
      <3>1. buf'[1] = reply /\ reply.kind # "request"
        BY <1>10, <2>2 DEF WriteReply, WatchedInv
      <3>2. QED
        BY <1>10, <2>1, <3>1 DEF WriteReply, clientVars
    <2>3. CASE c # 1
      <3>1. buf'[1] = buf[1]
        BY <1>10, <2>3 DEF WriteReply
      <3>2. 1 \in gleft => gpc' = "reply" /\ 1 \in gleft'
        BY <1>10, <2>3 DEF WriteReply
      <3>3. QED
        BY <1>10, <2>1, <3>1, <3>2 DEF WriteReply, clientVars
    <2>4. QED
      BY <2>2, <2>3
  <1>11. CASE UNCHANGED vars
    <2>1. Last' = Last /\ InOrder'
      BY <1>11, NothingExecuted DEF vars, gatewayVars
    <2>2. QED
      BY <1>11, <2>1 DEF vars, clientVars, gatewayVars
  <1>12. QED
    BY <1>1, <1>2, <1>3, <1>4, <1>5, <1>6, <1>7, <1>8, <1>9, <1>10, <1>11
    DEF Next, Client, Gateway, Exhausted

\* InOrder holds whatever the interleaving: no request text is executed twice
\* and none overtakes an earlier one.
THEOREM ExecutedInOrder == Spec => []InOrder
  <1>1. OrderInv => InOrder
    BY DEF OrderInv
  <1>2. QED
    BY <1>1, TypeInit, TypeStep, WatchedInit, WatchedStep, OrderInit, OrderStep,
       PTL DEF Spec

-----------------------------------------------------------------------------
(* A patient Client is served correctly.                                   *)

\* The executed texts are the first n requests.
Done(n) == executed = [i \in 1..n |-> [c \in Cells |-> Request(i)]]

\* The cells D of b are of the request in service, or of its result.
Filled(b, D, m) == \A c \in D : b[c] = m

\* Where the two are while the request with the number sent is served.
ServiceInv ==
  \/ /\ gpc = "wait" /\ signal
     /\ Filled(buf, Cells, Request(sent)) /\ Done(sent - 1)
  \/ /\ gpc = "copy" /\ ~signal
     /\ Filled(buf, Cells, Request(sent)) /\ Done(sent - 1)
     /\ Filled(local, 1..(at - 1), Request(sent))
  \/ /\ gpc = "dispatch" /\ ~signal
     /\ Filled(local, Cells, Request(sent)) /\ Done(sent - 1)
  \/ /\ gpc = "rpc" /\ ~signal
     /\ Filled(local, Cells, Request(sent)) /\ Done(sent)
  \/ /\ gpc = "reply" /\ ~signal
     /\ reply = Result(sent) /\ gleft \subseteq 1..2 /\ Done(sent)
     /\ Filled(buf, (1..2) \ gleft, Result(sent))
  \/ /\ gpc = "wait" /\ ~signal
     /\ Filled(buf, 1..2, Result(sent)) /\ Done(sent)

\* As long as the Client has been patient, one of the two always waits for the
\* other.
PatientInv ==
  ~hurried =>
    /\ cpc = "input" => GatewayAsleep /\ Done(sent) /\ (sent > 0 => response = Answer(sent))
    /\ cpc \in {"write", "emit"} =>
         /\ GatewayAsleep /\ Done(sent - 1)
         /\ Filled(buf, Cells \ cleft, Request(sent))
    /\ cpc = "emit" => cleft = {}
    /\ cpc = "poll" => ServiceInv

\* What a string of one result, or of one request, reads as.
LEMMA ResultReads ==
  ASSUME NEW b, NEW k, Filled(b, 1..2, Result(k))
  PROVE  String(b) = Answer(k)
  <1>1. b[1].kind = "result" /\ b[2].kind = "result" /\ b[2] = Result(k) /\ b[1] = Result(k)
    BY DEF Filled, Result
  <1>2. ~Terminates(1, b[1]) /\ Terminates(2, b[2])
    BY <1>1 DEF Terminates
  <1>3. Extent(Result(k)) = 1..2
    BY DEF Extent, Result
  <1>4. ASSUME NEW c \in Cells
        PROVE  (IF \E d \in 1..(c - 1) : Terminates(d, b[d]) THEN Zero ELSE b[c])
             = (IF c \in Extent(Result(k)) THEN Result(k) ELSE Zero)
    <2>1. CASE c = 1
      BY <1>1, <1>3, <2>1
    <2>2. CASE c = 2
      <3>1. \A d \in 1..(c - 1) : d = 1
        BY <2>2
      <3>2. QED
        BY <1>1, <1>2, <1>3, <2>2, <3>1
    <2>3. CASE c = 3
      <3>1. 2 \in 1..(c - 1) /\ 3 \notin 1..2
        BY <2>3
      <3>2. QED
        BY <1>2, <1>3, <2>3, <3>1
    <2>4. QED
      BY <2>1, <2>2, <2>3 DEF Cells
  <1>5. QED
    BY <1>4 DEF String, Answer

\* The request in service is complete, so it is passed on.
LEMMA WholeRequest ==
  ASSUME NEW b, NEW k, Filled(b, Cells, Request(k))
  PROVE  IsRequest(b) /\ MayParse(b) /\ b[1].id = k
  BY DEF Filled, IsRequest, MayParse, Request, Cells

\* Executing the request in service adds it to what is done.
LEMMA OneMore ==
  ASSUME TypeOK, sent > 0, Done(sent - 1), Filled(local, Cells, Request(sent)),
         executed' = Append(executed, local), sent' = sent
  PROVE  Done(sent)'
  <1> DEFINE whole(i) == [c \in Cells |-> Request(i)]
  <1>1. sent \in Nat /\ sent - 1 \in Nat /\ local \in [Cells -> Content]
    BY MaxRequestsAssumption DEF TypeOK
  <1>2. local = whole(sent)
    BY <1>1 DEF Filled
  <1>3. executed = [i \in 1..(sent - 1) |-> whole(i)]
    BY DEF Done
  <1>4. executed \in Seq([Cells -> Content]) /\ Len(executed) = sent - 1
    BY <1>1, <1>3 DEF TypeOK
  <1> HIDE DEF whole
  <1>5. Append(executed, local) = [i \in 1..sent |-> whole(i)]
    <2> DEFINE s == Append(executed, local)
    <2>1. s \in Seq([Cells -> Content]) /\ Len(s) = sent
      BY <1>1, <1>4
    <2>2. ASSUME NEW i \in 1..sent PROVE s[i] = whole(i)
      <3>1. CASE i = sent
        BY <1>1, <1>2, <1>4, <3>1
      <3>2. CASE i # sent
        <4>1. i \in 1..(sent - 1)
          BY <1>1, <3>2
        <4>2. s[i] = executed[i]
          BY <1>4, <4>1
        <4>3. QED
          BY <1>3, <4>1, <4>2
      <3>3. QED
        BY <3>1, <3>2
    <2>3. s \in [1..sent -> [Cells -> Content]]
      BY <2>1, LenProperties
    <2>4. QED
      BY <2>1, <2>2, <2>3
  <1> USE DEF whole
  <1>6. executed' = [i \in 1..sent' |-> [c \in Cells |-> Request(i)]]
    BY <1>5
  <1>7. QED
    BY <1>6 DEF Done

LEMMA PatientInit == Init => PatientInv
  BY MaxRequestsAssumption
  DEF Init, PatientInv, GatewayAsleep, Done, ServiceInv

LEMMA PatientStep == TypeInv /\ PatientInv /\ [Next]_vars => PatientInv'
  <1> SUFFICES ASSUME TypeInv, PatientInv, [Next]_vars, ~hurried' PROVE PatientInv'
    BY DEF PatientInv
  <1>0. /\ sent \in Nat /\ TypeOK /\ (cpc \in {"write", "emit", "poll"} => sent > 0)
        /\ buf \in [Cells -> Content] /\ local \in [Cells -> Content]
        /\ cpc \in {"input", "write", "emit", "poll"} /\ at \in Cells
        /\ gpc \in {"wait", "copy", "dispatch", "rpc", "reply"}
        /\ gleft \subseteq Cells /\ cleft \subseteq Cells
    BY MaxRequestsAssumption DEF TypeInv, TypeOK, NumberedInv
  <1>a. ~hurried
    BY DEF Next, Client, Gateway, Exhausted, ReadInput, WriteRequest, Emit, ReadResponse,
           Wake, CopyRequest, DispatchTransaction, DispatchError, TransactionReturns,
           WriteReply, clientVars, vars
  <1> USE <1>0, <1>a DEF PatientInv
  \* The Client's steps: the Gateway sleeps through all but the last.
  <1>1. CASE ReadInput
    BY <1>1 DEF ReadInput, gatewayVars, GatewayAsleep, Filled, Done
  <1>2. ASSUME NEW c \in Cells, WriteRequest(c) PROVE PatientInv'
    BY <1>2 DEF WriteRequest, gatewayVars, GatewayAsleep, Filled, Done
  <1>3. CASE Emit
    BY <1>3 DEF Emit, gatewayVars, GatewayAsleep, Filled, Done, ServiceInv
  <1>4. CASE ReadResponse
    <2>1. GatewayAsleep
      BY <1>4 DEF ReadResponse
    <2>2. Filled(buf, 1..2, Result(sent)) /\ Done(sent)
      BY <1>4, <2>1 DEF ReadResponse, GatewayAsleep, ServiceInv
    <2>3. response' = Answer(sent)
      BY <1>4, <2>2, ResultReads DEF ReadResponse
    <2>4. QED
      BY <1>4, <2>1, <2>2, <2>3 DEF ReadResponse, gatewayVars, GatewayAsleep, Done, Answer
  \* The Gateway's steps: the Client waits through all of them.
  <1>b. CASE Gateway
    <2>1. cpc = "poll" /\ ServiceInv
      BY <1>b DEF Gateway, Wake, CopyRequest, DispatchTransaction, DispatchError,
                  TransactionReturns, WriteReply, GatewayAsleep
    <2>2. UNCHANGED clientVars /\ cpc' = "poll" /\ sent' = sent /\ sent > 0
      BY <1>b, <2>1 DEF Gateway, Wake, CopyRequest, DispatchTransaction, DispatchError,
                  TransactionReturns, WriteReply, clientVars
    <2> SUFFICES ServiceInv'
      BY <2>2
    <2>3. CASE Wake
      BY <2>1, <2>2, <2>3 DEF Wake, ServiceInv, Filled, Done
    <2>4. CASE CopyRequest
      <3>1. /\ gpc = "copy" /\ ~signal /\ Filled(buf, Cells, Request(sent)) /\ Done(sent - 1)
            /\ Filled(local, 1..(at - 1), Request(sent))
        BY <2>1, <2>4 DEF CopyRequest, ServiceInv
      <3>2. Terminates(at, buf[at]) <=> at = 3
        BY <3>1 DEF Terminates, Filled, Request
      <3>3. UNCHANGED <<buf, signal, executed>> /\ local' = [local EXCEPT ![at] = Request(sent)]
        BY <2>4, <3>1 DEF CopyRequest, Filled
      <3>4. Filled(local', 1..at, Request(sent))
        BY <3>1, <3>3 DEF Filled, Cells
      <3>5. CASE at = 3
        BY <2>2, <2>4, <3>1, <3>2, <3>3, <3>4, <3>5 DEF CopyRequest, ServiceInv, Filled, Done, Cells
      <3>6. CASE at # 3
        BY <2>2, <2>4, <3>1, <3>2, <3>3, <3>4, <3>6 DEF CopyRequest, ServiceInv, Filled, Done, Cells
      <3>7. QED
        BY <3>5, <3>6
    <2>5. CASE DispatchTransaction
      <3>1. ~signal /\ Filled(local, Cells, Request(sent)) /\ Done(sent - 1)
        BY <2>1, <2>5 DEF DispatchTransaction, ServiceInv
      <3>2. Done(sent)'
        BY <2>2, <2>5, <3>1, OneMore DEF DispatchTransaction
      <3>3. QED
        BY <2>2, <2>5, <3>1, <3>2 DEF DispatchTransaction, ServiceInv, Filled
    <2>6. CASE DispatchError
      BY <2>1, <2>6, WholeRequest DEF DispatchError, ServiceInv
    <2>7. CASE TransactionReturns
      <3>1. ~signal /\ Filled(local, Cells, Request(sent)) /\ Done(sent)
        BY <2>1, <2>7 DEF TransactionReturns, ServiceInv
      <3>2. reply' = Result(sent) /\ gleft' = 1..2
        BY <2>7, <3>1, WholeRequest DEF TransactionReturns, Extent, Result
      <3>3. QED
        BY <2>2, <2>7, <3>1, <3>2 DEF TransactionReturns, ServiceInv, Filled, Done
    <2>8. ASSUME NEW c \in Cells, WriteReply(c) PROVE ServiceInv'
      <3>1. /\ ~signal /\ reply = Result(sent) /\ gleft \subseteq 1..2 /\ Done(sent)
            /\ Filled(buf, (1..2) \ gleft, Result(sent)) /\ c \in gleft
        BY <2>1, <2>8 DEF WriteReply, ServiceInv
      <3>2. Filled(buf', (1..2) \ gleft', Result(sent)) /\ gleft' \subseteq 1..2
        BY <2>8, <3>1 DEF WriteReply, Filled
      <3>3. Done(sent)' /\ ~signal' /\ reply' = Result(sent)'
        BY <2>2, <2>8, <3>1 DEF WriteReply, Done, Result
      <3>4. CASE gleft' = {}
        BY <2>2, <2>8, <3>2, <3>3, <3>4 DEF WriteReply, ServiceInv, Filled
      <3>5. CASE gleft' # {}
        BY <2>2, <2>8, <3>2, <3>3, <3>5 DEF WriteReply, ServiceInv, Filled
      <3>6. QED
        BY <3>4, <3>5
    <2>9. QED
      BY <1>b, <2>3, <2>4, <2>5, <2>6, <2>7, <2>8 DEF Gateway
  <1>5. CASE UNCHANGED vars
    BY <1>5 DEF vars, clientVars, gatewayVars, GatewayAsleep, Filled, Done, ServiceInv
  <1>6. QED
    BY <1>1, <1>2, <1>3, <1>4, <1>b, <1>5 DEF Next, Client, Exhausted

\* ExactlyOnce holds for any number of requests: a Client that is patient has
\* each of its requests executed once, whole and in order.
THEOREM PatientExecutes == Spec => []ExactlyOnce
  <1>1. PatientInv => ExactlyOnce
    BY DEF PatientInv, ExactlyOnce, Done
  <1>2. QED
    BY <1>1, TypeInit, TypeStep, PatientInit, PatientStep, PTL DEF Spec

\* PatientReadsItsResult holds for any number of requests: what a patient
\* Client reads is the result of its own request, and nothing behind it.
THEOREM PatientReads == Spec => []PatientReadsItsResult
  <1>1. PatientInv => PatientReadsItsResult
    BY DEF PatientInv, PatientReadsItsResult, ClientReadsItsResult
  <1>2. QED
    BY <1>1, TypeInit, TypeStep, PatientInit, PatientStep, PTL DEF Spec

=============================================================================
