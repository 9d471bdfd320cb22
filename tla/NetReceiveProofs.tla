-------------------------- MODULE NetReceiveProofs --------------------------
(***************************************************************************)
(* Proofs about NetReceive: for every size of the ring and every width of  *)
(* its indices, and any number of packets.                                 *)
(*                                                                         *)
(* The indices wrap, the histories do not: with as many packets arrived as *)
(* arrived says and as many buffers returned as Returned says, each index  *)
(* is one of these numbers, modulo IdxMod.                                 *)
(***************************************************************************)
EXTENDS NetReceive, RingIndices

Running  == boot \in {"started", "up"}
Holding  == hpc \in {"signal", "give", "crashed"}
Returned == IF Holding THEN Len(handled) - 1 ELSE Len(handled)

\* Where the indices are.
IndexInv ==
  /\ dev_idx     = arrived % IdxMod
  /\ used_idx    = arrived % IdxMod
  /\ last_rx_idx = Returned % IdxMod
  /\ avail_idx   = IF Running THEN (Returned + RING_SIZE) % IdxMod ELSE 0

\* The device is ahead of the driver by a ring at most.
CountInv ==
  /\ Returned \in Nat /\ Len(handled) <= arrived
  /\ arrived <= IF Running THEN Returned + RING_SIZE ELSE 0

\* Buffers come back in the order in which they went, so that a buffer is
\* always at its own place in either ring.
RingInv ==
  /\ Running => \A s \in Slots : avail_ring[s] = s
  /\ \A j \in Returned..(arrived - 1) :
       used_ring[j % RING_SIZE] = j % RING_SIZE /\ rx_buffer[j % RING_SIZE] = j + 1
  /\ Holding => id = Returned % RING_SIZE

\* A flag that is set, and a delivery whose flag is yet to be set, are
\* deliveries that nobody has been woken for.
WakeInv ==
  /\ wpc = "reset" => data_available
  /\ woken + (IF data_available THEN 1 ELSE 0) + (IF hpc = "signal" THEN 1 ELSE 0) <= delivered

RingOrder == IndexInv /\ CountInv /\ RingInv /\ ArrivalOrder

IInv == TypeOK /\ RingOrder /\ WakeInv

-----------------------------------------------------------------------------
(* Types.                                                                  *)

\* Neither the ring nor its index is empty, and an index passes the ring a
\* whole number of times, at least twice, before it wraps.
LEMMA Sizes ==
  /\ RING_SIZE \in Nat \ {0} /\ IdxMod \in Nat \ {0} /\ RING_SIZE < IdxMod
  /\ \E k \in Nat \ {0} : IdxMod = k * RING_SIZE
  <1>1. PICK k \in 2..IdxMod : IdxMod = k * RING_SIZE
    BY RingAssumption
  <1>2. RING_SIZE \in Nat \ {0} /\ IdxMod \in Nat
    BY RingAssumption
  <1>3. k * RING_SIZE >= 2 * RING_SIZE
    BY <1>1, <1>2
  <1>4. k \in Nat \ {0} /\ RING_SIZE < IdxMod
    BY <1>1, <1>2, <1>3
  <1>5. QED
    BY <1>1, <1>2, <1>4

\* An index modulo the size of the ring is a place in it.
LEMMA SlotOf == ASSUME NEW a \in Int PROVE a % RING_SIZE \in Slots
  BY Sizes, DivMod DEF Slots

\* The types hold at the start.
LEMMA TypeInit == Init => TypeOK
  <1> SUFFICES ASSUME Init PROVE TypeOK
    OBVIOUS
  <1>1. 0 \in Slots /\ 0 \in Indices
    BY Sizes DEF Slots, Indices
  <1>2. 0 \in 0..arrived /\ handled \in Seq(0..arrived) /\ Len(handled) = 0
    BY DEF Init
  <1>3. arrived \in 0..MaxPackets /\ configs \in 0..MaxConfigs
    BY BoundAssumption DEF Init
  <1>4. data_available \in BOOLEAN
    BY DEF Init
  <1>5. QED
    BY <1>1, <1>2, <1>3, <1>4 DEF Init, TypeOK, Causes

\* Every step keeps the types.
LEMMA TypeStep ==
  ASSUME TypeOK, [Next]_vars
  PROVE  TypeOK'
  <1>0. 0 \in Slots /\ RING_SIZE \in Indices /\ \A i \in Indices : i \in Int /\ Succ(i) \in Indices
    BY Sizes, DivMod DEF Slots, Indices, Succ
  <1>1. CASE Control
    BY <1>0, <1>1 DEF Control, MapRegisters, DeviceMissing, StartDevice, AddInterface, TypeOK,
                      device, given, handler, waiter
  <1>2. CASE Arrive
    <2> DEFINE b == avail_ring[dev_idx % RING_SIZE]
    <2>1. b \in Slots /\ used_idx % RING_SIZE \in Slots
      BY <1>0, SlotOf DEF TypeOK
    <2>2. /\ arrived' = arrived + 1 /\ arrived' \in 0..MaxPackets
          /\ 0..arrived \subseteq 0..arrived' /\ arrived + 1 \in 0..arrived'
      BY <1>2, BoundAssumption DEF Arrive, TypeOK
    <2>3. rx_buffer' \in [Slots -> 0..arrived'] /\ used_ring' \in [Slots -> Slots]
      BY <1>2, <2>1, <2>2 DEF Arrive, TypeOK
    <2>4. handled' \in Seq(0..arrived')
      BY <1>2, <2>2 DEF Arrive, TypeOK, handler
    <2>5. dev_idx' \in Indices /\ used_idx' \in Indices /\ status' \subseteq Causes
      BY <1>0, <1>2 DEF Arrive, TypeOK, Causes
    <2>6. QED
      BY <1>2, <2>2, <2>3, <2>4, <2>5 DEF Arrive, TypeOK, given, handler, waiter
  <1>3. CASE ConfigChange
    BY <1>3, BoundAssumption DEF ConfigChange, TypeOK, Causes, given, handler, waiter
  <1>4. CASE Interrupt
    BY <1>4 DEF Interrupt, TypeOK, device, given, waiter
  <1>5. CASE ReadStatus
    BY <1>5 DEF ReadStatus, TypeOK, device, given, waiter
  <1>6. CASE TakePacket
    <2>1. id' \in Slots
      BY <1>0, <1>6, SlotOf DEF TakePacket, TypeOK
    <2>2. handled' \in Seq(0..arrived) /\ Len(handled') = Len(handled) + 1 /\ Len(handled) \in Nat
      BY <1>6, <2>1 DEF TakePacket, TypeOK
    <2>3. delivered' \in 0..Len(handled')
      BY <1>6, <2>2 DEF TakePacket, TypeOK
    <2>4. QED
      BY <1>6, <2>1, <2>2, <2>3 DEF TakePacket, TypeOK, device, given, waiter
  <1>7. CASE GiveBack
    <2>1. avail_idx % RING_SIZE \in Slots
      BY <1>0, SlotOf DEF TypeOK
    <2>2. QED
      BY <1>0, <1>7, <2>1 DEF GiveBack, TypeOK, device, waiter
  <1>8. CASE SignalData \/ Drained \/ AcknowledgeDevice \/ AcknowledgeInterrupt
    <2>1. CASE SignalData
      BY <2>1 DEF SignalData, TypeOK, device, given, waiter
    <2>2. CASE Drained \/ AcknowledgeInterrupt
      BY <2>2 DEF Drained, AcknowledgeInterrupt, TypeOK, device, given, waiter
    <2>3. CASE AcknowledgeDevice
      BY <2>3 DEF AcknowledgeDevice, TypeOK, given, waiter
    <2>4. QED
      BY <1>8, <2>1, <2>2, <2>3
  <1>9. CASE CallWait \/ SeeData \/ ResetFlag
    <2>1. CASE CallWait
      BY <2>1 DEF CallWait, TypeOK, device, given, handler
    <2>2. CASE SeeData
      <3>1. /\ wpc' = "reset"
            /\ UNCHANGED <<boot, device, given, handler, data_available, woken>>
        BY <2>2 DEF SeeData
      <3>2. QED
        BY <3>1 DEF TypeOK, device, given, handler
    <2>3. CASE ResetFlag
      <3>4. woken \in Nat
        BY DEF TypeOK
      <3>5. woken' = woken + 1 /\ wpc' = "out"
        BY <2>3 DEF ResetFlag
      <3>6. data_available' \in BOOLEAN
        BY <2>3, Zenon DEF ResetFlag
      <3>1. data_available' \in BOOLEAN /\ wpc' = "out" /\ woken' \in Nat
        BY <3>4, <3>5, <3>6
      <3>2. UNCHANGED <<boot, device, given, handler>>
        BY <2>3 DEF ResetFlag
      <3>3. QED
        BY <3>1, <3>2 DEF TypeOK, device, given, handler
    <2>4. QED
      BY <1>9, <2>1, <2>2, <2>3
  <1>10. CASE Yield \/ UNCHANGED vars
    <2>1. UNCHANGED vars
      BY <1>10 DEF Yield
    <2>2. QED
      BY <2>1 DEF TypeOK, vars, device, given, handler, waiter
  <1>11. QED
    BY <1>1, <1>2, <1>3, <1>4, <1>5, <1>6, <1>7, <1>8, <1>9, <1>10
    DEF Next, Device, Handler, Waiter

\* Whatever the parties do in whatever order, no index leaves its width and no
\* buffer number the ring.
THEOREM TypeCorrect == Spec => []TypeOK
  BY TypeInit, TypeStep, PTL DEF Spec
-----------------------------------------------------------------------------
(* Indices and places.                                                     *)

\* A ring entry is found by the index as it would be by the running number.
LEMMA Place ==
  ASSUME NEW a \in Int, NEW b \in Int
  PROVE  /\ ((a % IdxMod) + b) % RING_SIZE = (a + b) % RING_SIZE
         /\ (a % IdxMod) % RING_SIZE = a % RING_SIZE
  <1>1. PICK k \in Nat \ {0} : IdxMod = k * RING_SIZE
    BY Sizes
  <1>2. RING_SIZE \in Nat \ {0}
    BY Sizes
  <1>3. ((a % (k * RING_SIZE)) + b) % RING_SIZE = (a + b) % RING_SIZE
    BY <1>2, IndexPlace
  <1>4. (a % (k * RING_SIZE)) % RING_SIZE = a % RING_SIZE
    BY <1>2, ModMod
  <1>5. QED
    BY <1>1, <1>3, <1>4

\* The index after that of a running number is that of the next number.
LEMMA SuccOf ==
  ASSUME NEW a \in Int
  PROVE  Succ(a % IdxMod) = (a + 1) % IdxMod
  BY Sizes, ModAdd DEF Succ

\* Numbers not more than a ring apart have indices of their own.
LEMMA SameIndex ==
  ASSUME NEW a \in Int, NEW b \in Int, a <= b, b <= a + RING_SIZE, a % IdxMod = b % IdxMod
  PROVE  a = b
  <1>1. b < a + IdxMod
    BY Sizes
  <1>2. QED
    BY <1>1, Sizes, ModInjective

\* Numbers less than a ring apart have places of their own.
LEMMA SamePlace ==
  ASSUME NEW a \in Int, NEW b \in Int, a <= b, b < a + RING_SIZE,
         a % RING_SIZE = b % RING_SIZE
  PROVE  a = b
  BY Sizes, ModInjective

\* The counts are numbers, and the device is ahead of the driver by a ring at
\* most.
LEMMA Counts ==
  ASSUME TypeOK, CountInv
  PROVE  /\ Returned \in Nat /\ arrived \in Nat /\ Len(handled) \in Nat
         /\ Returned <= Len(handled) /\ Len(handled) <= arrived
         /\ arrived <= Returned + RING_SIZE
         /\ handled \in Seq(Nat)
  <1>1. handled \in Seq(0..arrived) /\ arrived \in Nat
    BY BoundAssumption DEF TypeOK
  <1>2. handled \in Seq(Nat) /\ Len(handled) \in Nat
    BY <1>1
  <1>3. QED
    BY <1>1, <1>2, Sizes DEF CountInv, Returned

-----------------------------------------------------------------------------
(* One step.                                                               *)

\* Steps of others than the device and the receive loop.
LEMMA Undisturbed ==
  ASSUME RingOrder, Running' <=> Running, Holding' <=> Holding,
         UNCHANGED <<rx_buffer, used_ring, used_idx, dev_idx, arrived, given, id,
                     last_rx_idx, handled>>
  PROVE  RingOrder'
  <1>1. Returned' = Returned
    BY DEF Returned
  <1>2. IndexInv' /\ CountInv'
    BY <1>1 DEF RingOrder, IndexInv, CountInv, given
  <1>3. RingInv' /\ ArrivalOrder'
    BY <1>1 DEF RingOrder, RingInv, ArrivalOrder, given
  <1>4. QED
    BY <1>2, <1>3 DEF RingOrder

\* At the start the whole ring is the device's.
LEMMA StartStep ==
  ASSUME TypeOK, RingOrder, StartDevice
  PROVE  RingOrder'
  <1>1. /\ ~Running /\ Running' /\ arrived' = arrived /\ handled' = handled
        /\ Holding' <=> Holding
        /\ UNCHANGED <<rx_buffer, used_ring, used_idx, dev_idx, id, last_rx_idx>>
        /\ avail_ring' = [s \in Slots |-> s] /\ avail_idx' = RING_SIZE
    BY DEF StartDevice, Running, Holding, device, handler
  <1>2. Returned' = Returned /\ Returned = 0 /\ arrived = 0
    <2>1. arrived <= 0
      BY <1>1 DEF RingOrder, CountInv
    <2>2. QED
      BY <1>1, <2>1, Counts DEF RingOrder, Returned
  <1>3. (0 + RING_SIZE) % IdxMod = RING_SIZE
    BY Sizes, ModSmall
  <1>4. IndexInv'
    BY <1>1, <1>2, <1>3 DEF RingOrder, IndexInv
  <1>5. CountInv'
    BY <1>1, <1>2, Sizes DEF RingOrder, CountInv
  <1>6. RingInv' /\ ArrivalOrder'
    BY <1>1, <1>2 DEF RingOrder, RingInv, ArrivalOrder
  <1>7. QED
    BY <1>4, <1>5, <1>6 DEF RingOrder

\* The device fills the next buffer of its own, which holds no packet that the
\* driver has yet to read.
LEMMA ArriveStep ==
  ASSUME TypeOK, RingOrder, Arrive
  PROVE  RingOrder'
  <1> DEFINE b == arrived % RING_SIZE
  <1>1. /\ Running /\ Running' /\ Returned' = Returned
        /\ Holding' <=> Holding
        /\ arrived' = arrived + 1 /\ handled' = handled
        /\ UNCHANGED <<avail_ring, avail_idx, id, last_rx_idx>>
    BY DEF Arrive, Running, Holding, Returned, given, handler
  <1>2. /\ Returned \in Nat /\ arrived \in Nat /\ Len(handled) \in Nat
        /\ Len(handled) <= arrived /\ Returned <= arrived /\ RING_SIZE \in Nat
    BY Counts, Sizes DEF RingOrder
  <1>3. arrived < Returned + RING_SIZE
    <2>1. arrived <= Returned + RING_SIZE
      BY Counts DEF RingOrder
    <2>2. arrived % IdxMod # (Returned + RING_SIZE) % IdxMod
      BY <1>1 DEF RingOrder, IndexInv, Arrive
    <2>3. QED
      BY <1>2, <2>1, <2>2
  <1>4. IndexInv'
    <2>1. dev_idx' = (arrived + 1) % IdxMod /\ used_idx' = (arrived + 1) % IdxMod
      BY <1>2, SuccOf DEF RingOrder, IndexInv, Arrive
    <2>2. QED
      BY <1>1, <2>1 DEF RingOrder, IndexInv
  <1>5. CountInv'
    BY <1>1, <1>2, <1>3 DEF RingOrder, CountInv
  <1>6. b \in Slots /\ dev_idx % RING_SIZE = b /\ used_idx % RING_SIZE = b /\ avail_ring[b] = b
    <2>1. b \in Slots
      BY <1>2, SlotOf
    <2>2. (arrived % IdxMod) % RING_SIZE = b
      BY <1>2, Place
    <2>3. QED
      BY <1>1, <2>1, <2>2 DEF RingOrder, IndexInv, RingInv
  <1>7. /\ rx_buffer' = [rx_buffer EXCEPT ![b] = arrived + 1]
        /\ used_ring' = [used_ring EXCEPT ![b] = b]
    BY <1>6 DEF Arrive
  <1>8. ASSUME NEW j \in Returned..arrived
        PROVE  used_ring'[j % RING_SIZE] = j % RING_SIZE /\ rx_buffer'[j % RING_SIZE] = j + 1
    <2>1. CASE j = arrived
      BY <1>6, <1>7, <2>1 DEF TypeOK
    <2>2. CASE j # arrived
      <3>1. j \in Int /\ j <= arrived /\ arrived < j + RING_SIZE /\ j \in Returned..(arrived - 1)
        BY <1>2, <1>3, <2>2
      <3>2. j % RING_SIZE # b
        <4>1. arrived \in Int /\ j \in Int /\ j <= arrived /\ arrived < j + RING_SIZE
          BY <1>2, <3>1
        <4>2. j % RING_SIZE = arrived % RING_SIZE => j = arrived
          BY <4>1, SamePlace
        <4>3. QED
          BY <2>2, <4>2
      <3>3. used_ring[j % RING_SIZE] = j % RING_SIZE /\ rx_buffer[j % RING_SIZE] = j + 1
        BY <3>1 DEF RingOrder, RingInv
      <3>4. j % RING_SIZE \in Slots
        BY <3>1, SlotOf
      <3> HIDE DEF b
      <3>5. QED
        BY <1>7, <3>2, <3>3, <3>4 DEF TypeOK
    <2>3. QED
      BY <2>1, <2>2
  <1>9. RingInv'
    BY <1>1, <1>2, <1>8 DEF RingOrder, RingInv
  <1>10. ArrivalOrder'
    BY <1>1 DEF RingOrder, ArrivalOrder
  <1>11. QED
    BY <1>4, <1>5, <1>9, <1>10 DEF RingOrder

\* The handler takes the next packet in order.
LEMMA TakeStep ==
  ASSUME TypeOK, RingOrder, TakePacket
  PROVE  RingOrder'
  <1>1. /\ Running' <=> Running
        /\ ~Holding /\ Holding'
        /\ UNCHANGED <<rx_buffer, used_ring, used_idx, dev_idx, arrived, avail_ring,
                       avail_idx, last_rx_idx>>
        /\ Returned = Len(handled)
    BY DEF TakePacket, Running, Holding, Returned, device, given
  <1>2. /\ Returned \in Nat /\ arrived \in Nat /\ Len(handled) \in Nat
        /\ Returned <= arrived /\ RING_SIZE \in Nat /\ arrived <= Returned + RING_SIZE
        /\ handled \in Seq(Nat)
    BY Counts, Sizes DEF RingOrder
  <1>3. Returned < arrived
    BY <1>2 DEF RingOrder, IndexInv, TakePacket
  <1>4. last_rx_idx % RING_SIZE = Returned % RING_SIZE
    BY <1>2, Place DEF RingOrder, IndexInv
  <1>5. id' = Returned % RING_SIZE /\ rx_buffer[id'] = Returned + 1
    BY <1>2, <1>3, <1>4 DEF RingOrder, RingInv, TakePacket
  <1>6. handled' = Append(handled, Returned + 1)
    BY <1>5 DEF TakePacket
  <1>7. Len(handled') = Len(handled) + 1 /\ Returned' = Returned
    BY <1>1, <1>2, <1>6 DEF Returned
  <1>8. ArrivalOrder'
    BY <1>1, <1>2, <1>6, <1>7 DEF RingOrder, ArrivalOrder
  <1>9. IndexInv' /\ CountInv'
    BY <1>1, <1>2, <1>3, <1>7 DEF RingOrder, IndexInv, CountInv
  <1>10. RingInv'
    BY <1>1, <1>5, <1>7 DEF RingOrder, RingInv
  <1>11. QED
    BY <1>8, <1>9, <1>10 DEF RingOrder

\* The buffer goes back to the place it came from.
LEMMA GiveStep ==
  ASSUME TypeOK, RingOrder, GiveBack
  PROVE  RingOrder'
  <1>1. /\ Running' <=> Running
        /\ Holding /\ ~Holding'
        /\ UNCHANGED <<rx_buffer, used_ring, used_idx, dev_idx, arrived, id, handled>>
        /\ Returned = Len(handled) - 1 /\ Returned' = Len(handled)
    BY DEF GiveBack, Running, Holding, Returned, device
  <1>2. /\ Returned \in Nat /\ arrived \in Nat /\ Returned' = Returned + 1
        /\ Len(handled) <= arrived /\ arrived <= Returned + RING_SIZE /\ RING_SIZE \in Nat
    BY <1>1, Counts, Sizes DEF RingOrder
  <1>3. Running
    BY <1>1, <1>2 DEF RingOrder, CountInv
  <1>4. /\ last_rx_idx' = (Returned + 1) % IdxMod
        /\ avail_idx' = ((Returned + RING_SIZE) + 1) % IdxMod
    <2>1. Returned + RING_SIZE \in Int /\ Returned \in Int
      BY <1>2
    <2>2. QED
      BY <1>3, <2>1, SuccOf DEF RingOrder, IndexInv, GiveBack
  <1>5. IndexInv'
    <2>1. (Returned + RING_SIZE) + 1 = (Returned + 1) + RING_SIZE
      BY <1>2
    <2>2. QED
      BY <1>1, <1>2, <1>3, <1>4, <2>1 DEF RingOrder, IndexInv
  <1>6. CountInv'
    BY <1>1, <1>2, <1>3 DEF RingOrder, CountInv
  <1>7. avail_idx % RING_SIZE = id
    <2>1. Returned + RING_SIZE \in Int /\ Returned \in Int
      BY <1>2
    <2>2. ((Returned + RING_SIZE) % IdxMod) % RING_SIZE = (Returned + RING_SIZE) % RING_SIZE
      BY <2>1, Place
    <2>3. (Returned + RING_SIZE * 1) % RING_SIZE = Returned % RING_SIZE
      <3>1. 1 \in Int /\ RING_SIZE \in Nat \ {0}
        BY Sizes
      <3> HIDE DEF Returned
      <3>2. QED
        BY ONLY <2>1, <3>1, ModPeriod
    <2>4. RING_SIZE * 1 = RING_SIZE
      BY <1>2
    <2>5. QED
      BY <1>1, <1>3, <2>2, <2>3, <2>4 DEF RingOrder, IndexInv, RingInv
  <1>8. \A s \in Slots : avail_ring'[s] = s
    BY <1>3, <1>7 DEF RingOrder, RingInv, GiveBack, TypeOK
  <1>9. RingInv'
    <2>1. \A j \in Returned'..(arrived' - 1) : j \in Returned..(arrived - 1)
      BY <1>1, <1>2
    <2>2. QED
      BY <1>1, <1>8, <2>1 DEF RingOrder, RingInv
  <1>10. ArrivalOrder'
    BY <1>1 DEF RingOrder, ArrivalOrder
  <1>11. QED
    BY <1>5, <1>6, <1>9, <1>10 DEF RingOrder

\* Nothing has arrived at the start.
LEMMA RingInit == Init => RingOrder
  <1> SUFFICES ASSUME Init PROVE RingOrder
    OBVIOUS
  <1>1. Len(handled) = 0 /\ Returned = 0 /\ ~Holding /\ ~Running
    BY DEF Init, Returned, Holding, Running
  <1>2. 0 % IdxMod = 0
    BY Sizes, ModSmall
  <1>3. IndexInv /\ CountInv
    BY <1>1, <1>2 DEF Init, IndexInv, CountInv
  <1>4. RingInv /\ ArrivalOrder
    BY <1>1 DEF Init, RingInv, ArrivalOrder
  <1>5. QED
    BY <1>3, <1>4 DEF RingOrder

\* Every step keeps the rings in order.
LEMMA RingStep ==
  ASSUME TypeOK, RingOrder, [Next]_vars
  PROVE  RingOrder'
  <1>1. CASE StartDevice
    BY <1>1, StartStep
  <1>2. CASE Arrive
    BY <1>2, ArriveStep
  <1>3. CASE TakePacket
    BY <1>3, TakeStep
  <1>4. CASE GiveBack
    BY <1>4, GiveStep
  <1>5. CASE MapRegisters \/ DeviceMissing \/ AddInterface
    BY <1>5, Undisturbed DEF MapRegisters, DeviceMissing, AddInterface, Running, Holding,
                             device, given, handler
  <1>6. CASE ConfigChange \/ Interrupt \/ ReadStatus
    BY <1>6, Undisturbed DEF ConfigChange, Interrupt, ReadStatus, Running, Holding,
                             device, given, handler
  <1>7. CASE SignalData \/ Drained \/ AcknowledgeDevice \/ AcknowledgeInterrupt
    BY <1>7, Undisturbed DEF SignalData, Drained, AcknowledgeDevice, AcknowledgeInterrupt,
                             Running, Holding, device, given, handler
  <1>8. CASE Waiter \/ UNCHANGED vars
    BY <1>8, Undisturbed DEF Waiter, CallWait, Yield, SeeData, ResetFlag, vars, Running,
                             Holding, device, given, handler
  <1>9. QED
    BY <1>1, <1>2, <1>3, <1>4, <1>5, <1>6, <1>7, <1>8 DEF Next, Control, Device, Handler

\* The rings are always in order.
LEMMA RingInvariant == Spec => [](TypeOK /\ RingOrder)
  BY TypeInit, TypeStep, RingInit, RingStep, PTL DEF Spec

-----------------------------------------------------------------------------
(* What follows from it.                                                   *)

\* No packet is read twice, out of turn or after a later one has taken its
\* buffer, however the indices wrap and whenever the device fills a buffer.
THEOREM ReadInOrder == Spec => []ArrivalOrder
  <1>1. RingOrder => ArrivalOrder
    BY DEF RingOrder
  <1>2. QED
    BY <1>1, RingInvariant, PTL

\* The two stretches of the rings that are in use make one round.
LEMMA OwnersFollow == TypeOK /\ RingOrder => OneOwner
  <1> SUFFICES ASSUME TypeOK, RingOrder, Running
               PROVE  /\ Distance(dev_idx, avail_idx) + Distance(last_rx_idx, used_idx) = RING_SIZE
                      /\ Entries(avail_ring, dev_idx, avail_idx)
                           \cup Entries(used_ring, last_rx_idx, used_idx) = Slots
    BY DEF OneOwner, Running
  <1> DEFINE lead == Returned + RING_SIZE
  <1>1. /\ Returned \in Int /\ arrived \in Int /\ Returned <= arrived /\ arrived <= lead
        /\ RING_SIZE \in Nat /\ RING_SIZE < IdxMod /\ IdxMod \in Nat \ {0} /\ lead \in Int
    BY Counts, Sizes DEF RingOrder
  <1>2. /\ dev_idx = arrived % IdxMod /\ used_idx = arrived % IdxMod
        /\ last_rx_idx = Returned % IdxMod /\ avail_idx = lead % IdxMod
    BY DEF RingOrder, IndexInv
  <1>3. Distance(dev_idx, avail_idx) = lead - arrived
    <2>1. lead < arrived + IdxMod
      BY <1>1
    <2> HIDE DEF lead
    <2>2. QED
      BY <1>1, <1>2, <2>1, IndexDistance DEF Distance
  <1>4. Distance(last_rx_idx, used_idx) = arrived - Returned
    <2>1. arrived < Returned + IdxMod
      BY <1>1
    <2> HIDE DEF Returned
    <2>2. QED
      BY <1>1, <1>2, <2>1, IndexDistance DEF Distance
  <1>5. ASSUME NEW s \in Slots
        PROVE  s \in Entries(avail_ring, dev_idx, avail_idx)
                       \cup Entries(used_ring, last_rx_idx, used_idx)
    <2>1. PICK j \in Returned..(Returned + RING_SIZE - 1) : j % RING_SIZE = s
      BY <1>1, Sizes, EveryPlace DEF Slots
    <2>2. CASE j < arrived
      <3>1. j - Returned \in 0..(arrived - Returned - 1) /\ j - Returned \in Int
        BY <1>1, <2>2
      <3>2. ((Returned % IdxMod) + (j - Returned)) % RING_SIZE = s
        <4>1. ((Returned % IdxMod) + (j - Returned)) % RING_SIZE
                = (Returned + (j - Returned)) % RING_SIZE
          BY <1>1, <3>1, Place
        <4>2. Returned + (j - Returned) = j
          BY <1>1
        <4>3. QED
          BY <2>1, <4>1, <4>2
      <3>3. used_ring[s] = s
        <4>1. j \in Returned..(arrived - 1)
          BY <1>1, <2>1, <2>2
        <4>2. used_ring[j % RING_SIZE] = j % RING_SIZE
          BY <4>1 DEF RingOrder, RingInv
        <4>3. QED
          BY <2>1, <4>2
      <3>4. s = used_ring[(last_rx_idx + (j - Returned)) % RING_SIZE]
        BY <1>2, <3>2, <3>3
      <3>5. QED
        BY <1>4, <3>1, <3>4 DEF Entries
    <2>3. CASE j >= arrived
      <3>1. j - arrived \in 0..(lead - arrived - 1) /\ j - arrived \in Int
        BY <1>1, <2>3
      <3>2. ((arrived % IdxMod) + (j - arrived)) % RING_SIZE = s
        <4>1. ((arrived % IdxMod) + (j - arrived)) % RING_SIZE
                = (arrived + (j - arrived)) % RING_SIZE
          BY <1>1, <3>1, Place
        <4>2. arrived + (j - arrived) = j
          BY <1>1
        <4>3. QED
          BY <2>1, <4>1, <4>2
      <3>3. s = avail_ring[(dev_idx + (j - arrived)) % RING_SIZE]
        BY <1>2, <3>2 DEF RingOrder, RingInv
      <3>4. QED
        BY <1>3, <3>1, <3>3 DEF Entries
    <2>4. QED
      BY <1>1, <2>2, <2>3
  <1>6. ASSUME NEW s \in Entries(avail_ring, dev_idx, avail_idx)
                          \cup Entries(used_ring, last_rx_idx, used_idx)
        PROVE  s \in Slots
    <2>1. dev_idx \in Int /\ last_rx_idx \in Int
      BY DEF TypeOK, Indices
    <2>2. ASSUME NEW k \in Int
          PROVE  (dev_idx + k) % RING_SIZE \in Slots /\ (last_rx_idx + k) % RING_SIZE \in Slots
      <3>1. dev_idx + k \in Int /\ last_rx_idx + k \in Int
        BY <2>1
      <3>2. QED
        BY <3>1, SlotOf
    <2>3. /\ \A k \in 0..(Distance(dev_idx, avail_idx) - 1) : k \in Int
          /\ \A k \in 0..(Distance(last_rx_idx, used_idx) - 1) : k \in Int
      BY <1>1, <1>3, <1>4
    <2>4. QED
      BY <2>2, <2>3 DEF TypeOK, Entries
  <1>7. QED
    BY <1>1, <1>3, <1>4, <1>5, <1>6

\* No buffer is lost and none is owned twice, across every wrap and with the
\* device filling buffers while the handler returns others.
THEOREM OwnersAlways == Spec => []OneOwner
  BY RingInvariant, OwnersFollow, PTL

-----------------------------------------------------------------------------
(* Who is woken.                                                           *)

\* Every step keeps the account of deliveries and wakeups.
LEMMA WakeStep ==
  ASSUME TypeOK, WakeInv, [Next]_vars
  PROVE  WakeInv'
  <1>0. woken \in Nat /\ delivered \in Nat
    BY DEF TypeOK
  <1>1. CASE TakePacket
    BY <1>0, <1>1 DEF TakePacket, WakeInv, waiter
  <1>2. CASE SignalData
    BY <1>0, <1>2 DEF SignalData, WakeInv, waiter
  <1>3. CASE ResetFlag
    BY <1>0, <1>3 DEF ResetFlag, WakeInv, handler
  <1>4. CASE CallWait \/ Yield \/ SeeData \/ UNCHANGED vars
    BY <1>0, <1>4 DEF CallWait, Yield, SeeData, WakeInv, handler, vars, waiter
  <1>5. CASE Control \/ Device
    BY <1>0, <1>5 DEF Control, MapRegisters, DeviceMissing, StartDevice, AddInterface,
                      Device, Arrive, ConfigChange, WakeInv, handler, waiter
  <1>6. CASE Interrupt \/ ReadStatus \/ GiveBack \/ Drained \/ AcknowledgeDevice
             \/ AcknowledgeInterrupt
    BY <1>0, <1>6 DEF Interrupt, ReadStatus, GiveBack, Drained, AcknowledgeDevice,
                      AcknowledgeInterrupt, WakeInv, waiter
  <1>7. QED
    BY <1>1, <1>2, <1>3, <1>4, <1>5, <1>6 DEF Next, Handler, Waiter

\* The flag is set and cleared by two threads without a lock, yet every return
\* of net_wait_for_data is paid for by a packet of its own.
THEOREM WakeupsPaid == Spec => []WakeupsPaidFor
  <1>1. Init => WakeInv
    BY DEF Init, WakeInv
  <1>2. TypeOK /\ WakeInv => WakeupsPaidFor
    BY DEF TypeOK, WakeInv, WakeupsPaidFor
  <1>3. QED
    BY <1>1, <1>2, TypeCorrect, WakeStep, PTL DEF Spec

=============================================================================
