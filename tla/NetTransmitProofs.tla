------------------------- MODULE NetTransmitProofs -------------------------
(***************************************************************************)
(* Proofs about NetTransmit: for every size of the ring and every width of *)
(* its indices, either layout of the registers, every kind of device and   *)
(* any number of frames.                                                   *)
(*                                                                         *)
(* The handshake is followed write by write: what the device knows is a    *)
(* function of how many registers are written.  The frames are followed in *)
(* two ways.  Whatever threads have overlapped before, the frames of the   *)
(* time since are each in one place (StageInv).  And if none ever has, the *)
(* indices are the numbers of frames copied, offered, counted and sent,    *)
(* modulo their width, and each frame is where its number says (OrderInv). *)
(***************************************************************************)
EXTENDS NetTransmit, RingIndices, SequenceTheorems, FiniteSetTheorems

-----------------------------------------------------------------------------
(* The invariants.                                                         *)

\* What the driver writes into the registers for the addresses.
Addresses == {<< >>} \cup (Queues \X {"desc", "avail", "used"})

QueueInv ==
  /\ queue \in [Queues -> [ready : BOOLEAN, at : [Places -> Addresses]]]
  /\ boot \in {"added", "up"} => written = Len(Handshake)

TypeInv == TypeOK /\ QueueInv

\* How far the handshake is when n registers are written: Status, QueueSel,
\* and for each register of a queue the write that sets it.
StatusAt(n) ==
  IF n <= 1 THEN {} ELSE IF n = 2 THEN {1} ELSE IF n <= 5 THEN {1, 2}
  ELSE IF n < Len(Handshake) THEN {1, 2, 8} ELSE {1, 2, 4, 8}
SelAt(n)   == IF n < 16 THEN 0 ELSE 1
Ready(q)   == 15 + 9 * q
Low(q)     == [QueueDescLow  |-> 9 + 9 * q,  QueueAvailLow |-> 11 + 9 * q,
               QueueUsedLow  |-> 13 + 9 * q]
Ring       == [QueueDescLow |-> "desc", QueueAvailLow |-> "avail", QueueUsedLow |-> "used"]

\* What the device knows, as far as the writes have come.
FollowInv ==
  /\ status = StatusAt(written)
  /\ sel = SelAt(written)
  /\ \A q \in Queues :
       /\ queue[q].ready <=> written >= Ready(q)
       /\ \A p \in Places :
            queue[q].at[p] = IF p \in DOMAIN Ring /\ written >= Low(q)[p]
                               THEN <<q, Ring[p]>> ELSE << >>

\* A lenient device follows the writes where they reach it.  The others miss
\* something for ever: VERSION_1, the queues, or the writes of Status.
HandshakeInv ==
  /\ layout = "commented" /\ device = "lenient" => FollowInv
  /\ accepted \subseteq {0}
  /\ device = "strict" => 8 \notin status
  /\ device = "legacy" => \A q \in Queues : ~queue[q].ready
  /\ layout = "struct" => status = {}

\* Frames are numbered as they are handed over.
NumberInv ==
  /\ \A s \in Slots : tx_buffer[s] <= handed
  /\ \A i \in 1..Len(sent) : sent[i] <= handed
  /\ \A t \in Threads : frame[t] <= handed
  /\ overlap <= handed

\* Thread t has a frame whose index it has yet to advance.
Working(t) == tpc[t] \in {"copy", "offer", "index"}

\* Since the last overlap there is one thread inside at most, and it has the
\* last frame.
AloneInv ==
  /\ handed > overlap =>
       /\ \A t, u \in Threads : tpc[t] # "out" /\ tpc[u] # "out" => t = u
       /\ \A t \in Threads : tpc[t] # "out" => frame[t] = handed
       /\ \A t \in Threads : tpc[t] = "index" => idx[t] = avail_idx
  /\ handed = 0 => \A t \in Threads : tpc[t] = "out"

\* What is in the k-th buffer that the device has yet to send.
Ahead      == Distance(dev_idx, avail_idx)
Waiting(k) == tx_buffer[avail_ring[(dev_idx + k) % RING_SIZE]]

Never(f) == \A i \in 1..Len(sent) : sent[i] # f
Once(f)  == \E i \in 1..Len(sent) : sent[i] = f /\ \A j \in 1..Len(sent) : sent[j] = f => j = i
Nowhere(f) == \A k \in 0..(Ahead - 1) : Waiting(k) # f
AtOne(f)   == \E k \in 0..(Ahead - 1) :
                Waiting(k) = f /\ \A l \in 0..(Ahead - 1) : Waiting(l) = f => l = k

\* A frame that no thread works on any more, up to the index, is waiting in one
\* place or has been sent once.
Settled(f) == (Never(f) /\ AtOne(f)) \/ (Once(f) /\ Nowhere(f))
Due(f)     == \A t \in Threads : Working(t) => frame[t] # f

\* What thread t, alone inside, has in its hands.
InHand(t) ==
  /\ Never(handed) /\ Nowhere(handed)
  /\ tpc[t] = "copy"  => \A s \in Slots : tx_buffer[s] # handed
  /\ tpc[t] # "copy"  => tx_buffer[desc_idx[t]] = handed
  /\ tpc[t] = "index" => Ahead < RING_SIZE /\ avail_ring[avail_idx % RING_SIZE] = desc_idx[t]

\* Where the frames are that came after the last overlap.
StageInv ==
  ~lapped =>
    /\ \A f \in (overlap + 1)..handed : Due(f) => Settled(f)
    /\ \A t \in Threads : handed > overlap /\ Working(t) => InHand(t)

\* Without any overlap: how many frames are copied, offered and counted.
Busy(places) == \E t \in Threads : tpc[t] \in places
Copied  == IF Busy({"copy"}) THEN handed - 1 ELSE handed
Offered == IF Busy({"copy", "offer", "index"}) THEN handed - 1 ELSE handed
Counted == IF \E t \in Threads : tpc[t] # "out" THEN handed - 1 ELSE handed

\* Each index is one of these numbers.
CountOrder ==
  /\ avail_idx = Offered % IdxMod /\ tx_idx = Counted % IdxMod
  /\ dev_idx = Len(sent) % IdxMod /\ Len(sent) <= Offered

\* What thread t, alone inside, works with.
HandOrder(t) ==
  /\ tpc[t] # "out"   => desc_idx[t] = (handed - 1) % RING_SIZE
  /\ tpc[t] = "index" => avail_ring[Offered % RING_SIZE] = Offered % RING_SIZE
  /\ tpc[t] = "store" => idx[t] = tx_idx

\* A buffer is at its own place in the ring, and has one of the frames whose
\* turn it was to be there, none older than the last that was copied there.
AvailOrder  == \A j \in 0..(Offered - 1) : avail_ring[j % RING_SIZE] = j % RING_SIZE
BufferOrder ==
  /\ \A s \in Slots : tx_buffer[s] # 0 => (tx_buffer[s] - 1) % RING_SIZE = s
  /\ \A f \in 1..Copied : tx_buffer[(f - 1) % RING_SIZE] >= f

\* Before the first lap no frame that waits has been overwritten.
FreshOrder ==
  /\ Offered - Len(sent) <= RING_SIZE
  /\ Busy({"index"}) => Offered - Len(sent) < RING_SIZE
  /\ \A j \in Len(sent)..(Copied - 1) : tx_buffer[j % RING_SIZE] = j + 1

OrderInv ==
  overlap = 0 =>
    /\ CountOrder /\ AvailOrder /\ BufferOrder
    /\ \A t \in Threads : HandOrder(t)
    /\ ~lapped => FreshOrder


-----------------------------------------------------------------------------
(* The registers and the handshake.                                        *)

\* The structure has 31 fields.
LEMMA FieldCount == Len(Fields) = 31
  BY DEF Fields

\* The length of each field in words: one, except for the reserved stretches.
LEMMA FieldWords ==
  \A i \in 1..31 : Fields[i][2] = (IF i \in {7, 10, 16, 21, 26, 29} THEN 2
                                   ELSE IF i \in {14, 18, 23} THEN 3 ELSE 1)
  BY DEF Fields

\* A table that satisfies the equation by which Offset is defined, so that
\* there is such a function.
Table == [i \in 1..31 |->
  IF i <= 7 THEN 4 * (i - 1)
  ELSE IF i <= 10 THEN 4 * i
  ELSE IF i <= 14 THEN 4 * (i + 1)
  ELSE IF i <= 16 THEN 4 * (i + 3)
  ELSE IF i <= 18 THEN 4 * (i + 4)
  ELSE IF i <= 21 THEN 4 * (i + 6)
  ELSE IF i <= 23 THEN 4 * (i + 7)
  ELSE IF i <= 26 THEN 4 * (i + 9)
  ELSE IF i <= 29 THEN 4 * (i + 10)
  ELSE 4 * (i + 11)]

\* Where the registers that matter here lie in the structure: from QueueReady
\* on, one word further than the comments beside them say.
LEMMA Offsets ==
  /\ Offset[5] = 16   /\ Offset[6] = 20   /\ Offset[8] = 32
  /\ Offset[11] = 48  /\ Offset[13] = 56  /\ Offset[15] = 72  /\ Offset[17] = 84
  /\ Offset[22] = 116 /\ Offset[24] = 132 /\ Offset[25] = 136 /\ Offset[27] = 148
  /\ Offset[28] = 152 /\ Offset[30] = 164 /\ Offset[31] = 168
  <1> DEFINE Equation(f) ==
               f = [i \in 1..Len(Fields) |->
                      IF i = 1 THEN 0 ELSE f[i - 1] + 4 * Fields[i - 1][2]]
  <1>1. Equation(Table)
    <2>1. ASSUME NEW i \in 1..31
          PROVE Table[i] = IF i = 1 THEN 0 ELSE Table[i - 1] + 4 * Fields[i - 1][2]
      BY FieldWords DEF Table
    <2>2. Table = [i \in 1..31 |-> Table[i]]
      BY DEF Table
    <2>3. QED
      BY <2>1, <2>2, FieldCount
  <1>2. Equation(Offset)
    BY <1>1 DEF Offset
  <1>3. /\ Offset[1] = 0
        /\ \A i \in 1..30 : Offset[i + 1] = Offset[i] + 4 * Fields[i][2]
    <2>1. \A i \in 1..31 : Offset[i] = IF i = 1 THEN 0 ELSE Offset[i - 1] + 4 * Fields[i - 1][2]
      BY <1>2, FieldCount
    <2>2. ASSUME NEW i \in 1..30 PROVE Offset[i + 1] = Offset[i] + 4 * Fields[i][2]
      <3>1. i + 1 \in 1..31 /\ i + 1 # 1 /\ (i + 1) - 1 = i
        OBVIOUS
      <3>2. QED
        BY <2>1, <3>1
    <2>3. QED
      BY <2>1, <2>2
  <1>9. Offset[5] = 16 /\ Offset[6] = 20 /\ Offset[8] = 32
    BY <1>3, FieldWords
  <1>4. Offset[11] = 48
    BY <1>3, <1>9, FieldWords
  <1>5. Offset[13] = 56 /\ Offset[15] = 72 /\ Offset[17] = 84
    BY <1>3, <1>4, FieldWords
  <1>6. Offset[22] = 116 /\ Offset[24] = 132 /\ Offset[25] = 136
    BY <1>3, <1>5, FieldWords
  <1>7. Offset[27] = 148 /\ Offset[28] = 152 /\ Offset[30] = 164 /\ Offset[31] = 168
    BY <1>3, <1>6, FieldWords
  <1>8. QED
    BY <1>4, <1>5, <1>6, <1>7, <1>9

\* Each register that matters here is one field of the structure.
LEMMA FieldNames ==
  \A i \in 1..31 :
    /\ Fields[i][1] = "DeviceFeatures" <=> i = 5
    /\ Fields[i][1] = "DeviceFeaturesSel" <=> i = 6
    /\ Fields[i][1] = "DriverFeatures" <=> i = 8
    /\ Fields[i][1] = "QueueSel" <=> i = 11
    /\ Fields[i][1] = "QueueNum" <=> i = 13
    /\ Fields[i][1] = "QueueReady" <=> i = 15
    /\ Fields[i][1] = "QueueNotify" <=> i = 17
    /\ Fields[i][1] = "Status" <=> i = 22
    /\ Fields[i][1] = "QueueDescLow" <=> i = 24
    /\ Fields[i][1] = "QueueDescHigh" <=> i = 25
    /\ Fields[i][1] = "QueueAvailLow" <=> i = 27
    /\ Fields[i][1] = "QueueAvailHigh" <=> i = 28
    /\ Fields[i][1] = "QueueUsedLow" <=> i = 30
    /\ Fields[i][1] = "QueueUsedHigh" <=> i = 31
  BY DEF Fields

\* The registers of the device that the handshake uses.
RegisterNames == {"DeviceFeatures", "DeviceFeaturesSel", "DriverFeatures",
                  "QueueSel", "QueueNum", "QueueReady", "QueueNotify", "Status",
                  "QueueDescLow", "QueueDescHigh", "QueueAvailLow", "QueueAvailHigh",
                  "QueueUsedLow", "QueueUsedHigh"}

\* The registers that matter here.
LEMMA RegistersAre == Registers = RegisterNames
  BY DEF Registers, Commented, RegisterNames

\* The number of the field with a name.
FieldNo(f) == CHOOSE k \in 1..Len(Fields) : Fields[k][1] = f

\* Their numbers among the fields.
LEMMA FieldPlace ==
  /\ FieldNo("DeviceFeatures") = 5
  /\ FieldNo("DeviceFeaturesSel") = 6
  /\ FieldNo("DriverFeatures") = 8
  /\ FieldNo("QueueSel") = 11
  /\ FieldNo("QueueNum") = 13
  /\ FieldNo("QueueReady") = 15
  /\ FieldNo("QueueNotify") = 17
  /\ FieldNo("Status") = 22
  /\ FieldNo("QueueDescLow") = 24
  /\ FieldNo("QueueDescHigh") = 25
  /\ FieldNo("QueueAvailLow") = 27
  /\ FieldNo("QueueAvailHigh") = 28
  /\ FieldNo("QueueUsedLow") = 30
  /\ FieldNo("QueueUsedHigh") = 31
  BY FieldNames, FieldCount DEF FieldNo

\* The register that the device has at an offset.
DeviceAt(offset) ==
  LET here == {r \in Registers : Commented[r] = offset}
  IN  IF here = {} THEN "none" ELSE CHOOSE r \in here : TRUE

\* Where an access through the structure ends up is decided by the offset.
LEMMA StructAt == \A f \in Registers : InStruct[f] = DeviceAt(Offset[FieldNo(f)])
  BY DEF InStruct, DeviceAt, FieldNo

\* At its own offset the device has a register, and between them none.
LEMMA DeviceHas ==
  /\ \A r \in Registers : DeviceAt(Commented[r]) = r
  /\ \A o \in {72, 84, 116, 136, 152, 168} : DeviceAt(o) = "none"
  <1>1. ASSUME NEW r \in Registers PROVE {s \in Registers : Commented[s] = Commented[r]} = {r}
    BY RegistersAre DEF Commented, RegisterNames
  <1>2. ASSUME NEW r \in Registers PROVE DeviceAt(Commented[r]) = r
    BY <1>1 DEF DeviceAt
  <1>3. ASSUME NEW o \in {72, 84, 116, 136, 152, 168}
        PROVE  {s \in Registers : Commented[s] = o} = {}
    BY RegistersAre DEF Commented, RegisterNames
  <1>4. ASSUME NEW o \in {72, 84, 116, 136, 152, 168} PROVE DeviceAt(o) = "none"
    BY <1>3 DEF DeviceAt
  <1>5. QED
    BY <1>2, <1>4

\* The registers that lie where their comments say in the structure as well.
Reachable == {"DeviceFeatures", "DeviceFeaturesSel", "DriverFeatures", "QueueSel", "QueueNum"}

\* Through the structure, the registers before QueueReady are reached, each low
\* word of an address lands in the high one, and everything else in no register.
LEMMA StructReach ==
  InStruct = [f \in Registers |->
                CASE f \in Reachable -> f
                  [] f = "QueueDescLow"  -> "QueueDescHigh"
                  [] f = "QueueAvailLow" -> "QueueAvailHigh"
                  [] f = "QueueUsedLow"  -> "QueueUsedHigh"
                  [] OTHER               -> "none"]
  <1> DEFINE reach(f) == CASE f \in Reachable -> f
                           [] f = "QueueDescLow"  -> "QueueDescHigh"
                           [] f = "QueueAvailLow" -> "QueueAvailHigh"
                           [] f = "QueueUsedLow"  -> "QueueUsedHigh"
                           [] OTHER               -> "none"
  <1>1. /\ DeviceAt(16) = "DeviceFeatures" /\ DeviceAt(20) = "DeviceFeaturesSel"
        /\ DeviceAt(32) = "DriverFeatures"
        /\ DeviceAt(48) = "QueueSel" /\ DeviceAt(56) = "QueueNum"
        /\ DeviceAt(132) = "QueueDescHigh" /\ DeviceAt(148) = "QueueAvailHigh"
        /\ DeviceAt(164) = "QueueUsedHigh"
    <2>1. \A r \in RegisterNames : DeviceAt(Commented[r]) = r
      BY DeviceHas, RegistersAre
    <2>2. QED
      BY <2>1 DEF Commented, RegisterNames
  <1>2. ASSUME NEW f \in Registers PROVE InStruct[f] = reach(f)
    <2>1. f \in RegisterNames
      BY RegistersAre
    <2>2. InStruct[f] = DeviceAt(Offset[FieldNo(f)])
      BY StructAt
    <2>3. CASE f \in Reachable
      BY <1>1, <2>2, <2>3, FieldPlace, Offsets DEF Reachable
    <2>4. CASE f \in {"QueueDescLow", "QueueAvailLow", "QueueUsedLow"}
      BY <1>1, <2>2, <2>4, FieldPlace, Offsets DEF Reachable
    <2>5. CASE f \in {"QueueReady", "QueueNotify", "Status",
                      "QueueDescHigh", "QueueAvailHigh", "QueueUsedHigh"}
      BY <2>2, <2>5, FieldPlace, Offsets, DeviceHas DEF Reachable
    <2>6. QED
      BY <2>1, <2>3, <2>4, <2>5 DEF RegisterNames, Reachable
  <1>3. InStruct = [f \in Registers |-> InStruct[f]]
    BY DEF InStruct
  <1>4. QED
    BY <1>2, <1>3

\* The writes that concern one queue, in order.
LEMMA SetupIs ==
  ASSUME NEW q
  PROVE  /\ Len(Setup(q)) = 9 /\ Setup(q) \in Seq({Setup(q)[i] : i \in 1..9})
         /\ Setup(q)[1] = <<"QueueSel", q>>
         /\ Setup(q)[2] = <<"QueueNum", RING_SIZE>>
         /\ Setup(q)[3] = <<"QueueDescLow", <<q, "desc">> >>
         /\ Setup(q)[4] = <<"QueueDescHigh", << >> >>
         /\ Setup(q)[5] = <<"QueueAvailLow", <<q, "avail">> >>
         /\ Setup(q)[6] = <<"QueueAvailHigh", << >> >>
         /\ Setup(q)[7] = <<"QueueUsedLow", <<q, "used">> >>
         /\ Setup(q)[8] = <<"QueueUsedHigh", << >> >>
         /\ Setup(q)[9] = <<"QueueReady", 1>>
  BY DEF Setup

\* All writes of the handshake, in order.
LEMMA HandshakeIs ==
  /\ Len(Handshake) = 26
  /\ Handshake[1] = <<"Status", 0>> /\ Handshake[2] = <<"|", 1>>
  /\ Handshake[3] = <<"|", 2>> /\ Handshake[4] = <<"DeviceFeaturesSel", 0>>
  /\ Handshake[5] = <<"DriverFeatures", "read">> /\ Handshake[6] = <<"|", 8>>
  /\ \A i \in 1..9 : Handshake[6 + i] = Setup(0)[i] /\ Handshake[15 + i] = Setup(1)[i]
  /\ Handshake[25] = <<"QueueNotify", 0>> /\ Handshake[26] = <<"|", 4>>
  <1> DEFINE a == << <<"Status", 0>>, <<"|", 1>>, <<"|", 2>>,
                     <<"DeviceFeaturesSel", 0>>, <<"DriverFeatures", "read">>, <<"|", 8>> >>
             b == << <<"QueueNotify", 0>>, <<"|", 4>> >>
             x == Setup(0)
             y == Setup(1)
  <1>1. /\ Len(a) = 6 /\ Len(b) = 2 /\ a[1] = <<"Status", 0>> /\ a[2] = <<"|", 1>>
        /\ a[3] = <<"|", 2>> /\ a[4] = <<"DeviceFeaturesSel", 0>>
        /\ a[5] = <<"DriverFeatures", "read">> /\ a[6] = <<"|", 8>>
        /\ b[1] = <<"QueueNotify", 0>> /\ b[2] = <<"|", 4>>
    OBVIOUS
  <1>2. \E S : a \in Seq(S) /\ b \in Seq(S) /\ x \in Seq(S) /\ y \in Seq(S)
    <2> DEFINE S == {a[i] : i \in 1..6} \cup {b[i] : i \in 1..2}
                      \cup {x[i] : i \in 1..9} \cup {y[i] : i \in 1..9}
    <2>1. a \in Seq({a[i] : i \in 1..6}) /\ b \in Seq({b[i] : i \in 1..2})
      OBVIOUS
    <2>2. x \in Seq({x[i] : i \in 1..9}) /\ y \in Seq({y[i] : i \in 1..9})
      BY SetupIs
    <2>3. a \in Seq(S) /\ b \in Seq(S) /\ x \in Seq(S) /\ y \in Seq(S)
      BY <2>1, <2>2
    <2> HIDE DEF S
    <2>4. QED
      BY <2>3
  <1>3. Handshake = ((a \o x) \o y) \o b
    BY DEF Handshake
  <1>5. Len(x) = 9 /\ Len(y) = 9
    BY SetupIs
  <1> HIDE DEF a, b, x, y
  <1>4. PICK S : a \in Seq(S) /\ b \in Seq(S) /\ x \in Seq(S) /\ y \in Seq(S)
    BY <1>2
  <1> DEFINE c == a \o x
             d == c \o y
  <1>6. /\ c \in Seq(S) /\ Len(c) = 15 /\ \A i \in 1..6 : c[i] = a[i]
        /\ \A i \in 1..9 : c[6 + i] = x[i]
    <2>1. /\ c \in Seq(S) /\ Len(c) = Len(a) + Len(x)
          /\ \A i \in 1..(Len(a) + Len(x)) :
               c[i] = IF i <= Len(a) THEN a[i] ELSE x[i - Len(a)]
      BY <1>4, ConcatProperties
    <2> HIDE DEF c
    <2>2. QED
      BY <1>1, <1>5, <2>1
  <1> HIDE DEF c
  <1>7. /\ d \in Seq(S) /\ Len(d) = 24 /\ \A i \in 1..15 : d[i] = c[i]
        /\ \A i \in 1..9 : d[15 + i] = y[i]
    <2>1. /\ d \in Seq(S) /\ Len(d) = Len(c) + Len(y)
          /\ \A i \in 1..(Len(c) + Len(y)) :
               d[i] = IF i <= Len(c) THEN c[i] ELSE y[i - Len(c)]
      BY <1>4, <1>6, ConcatProperties
    <2> HIDE DEF d
    <2>2. /\ Len(d) = 24
          /\ \A i \in 1..24 : d[i] = IF i <= 15 THEN c[i] ELSE y[i - 15]
      <3>1. Len(c) = 15 /\ Len(y) = 9
        BY <1>5, <1>6
      <3>2. QED
        BY ONLY <2>1, <3>1
    <2>3. ASSUME NEW i \in 1..9 PROVE d[15 + i] = y[i]
      <3>1. 15 + i \in 1..24 /\ ~(15 + i <= 15) /\ (15 + i) - 15 = i
        OBVIOUS
      <3>2. QED
        BY <2>2, <3>1
    <2>4. \A i \in 1..15 : d[i] = c[i]
      BY <2>2
    <2>5. QED
      BY <2>1, <2>2, <2>3, <2>4
  <1> HIDE DEF d
  <1>8. /\ Len(Handshake) = 26 /\ \A i \in 1..24 : Handshake[i] = d[i]
        /\ Handshake[25] = b[1] /\ Handshake[26] = b[2]
    <2>1. Handshake = d \o b
      BY <1>3 DEF c, d
    <2>2. /\ Len(d \o b) = Len(d) + Len(b)
          /\ \A i \in 1..(Len(d) + Len(b)) :
               (d \o b)[i] = IF i <= Len(d) THEN d[i] ELSE b[i - Len(d)]
      BY <1>4, <1>7, ConcatProperties
    <2>3. /\ Len(Handshake) = 26
          /\ \A i \in 1..26 : Handshake[i] = IF i <= 24 THEN d[i] ELSE b[i - 24]
      <3>1. Len(d) = 24 /\ Len(b) = 2
        BY <1>1, <1>7
      <3>2. Len(d) + Len(b) = 26
        BY <3>1
      <3>3. QED
        BY ONLY <2>1, <2>2, <3>1, <3>2
    <2>4. 25 - 24 = 1 /\ 26 - 24 = 2
      OBVIOUS
    <2>5. Handshake[25] = b[25 - 24] /\ Handshake[26] = b[26 - 24]
      BY <2>3
    <2>6. QED
      BY <2>3, <2>4, <2>5
  <1>9. \A i \in 1..6 : Handshake[i] = a[i]
    <2>1. ASSUME NEW i \in 1..6 PROVE Handshake[i] = a[i]
      <3>1. i \in 1..15 /\ i \in 1..24
        OBVIOUS
      <3>2. QED
        BY <1>6, <1>7, <1>8, <3>1
    <2>2. QED
      BY <2>1
  <1>10. ASSUME NEW i \in 1..9
         PROVE  Handshake[6 + i] = Setup(0)[i] /\ Handshake[15 + i] = Setup(1)[i]
    <2>1. 6 + i \in 1..15 /\ 6 + i \in 1..24 /\ 15 + i \in 1..24
      OBVIOUS
    <2>2. Handshake[6 + i] = x[i] /\ Handshake[15 + i] = y[i]
      BY <1>6, <1>7, <1>8, <2>1
    <2>3. QED
      BY <2>2 DEF x, y
  <1>11. /\ Handshake[1] = a[1] /\ Handshake[2] = a[2] /\ Handshake[3] = a[3]
         /\ Handshake[4] = a[4] /\ Handshake[5] = a[5] /\ Handshake[6] = a[6]
    BY <1>9
  <1>12. QED
    BY <1>1, <1>8, <1>10, <1>11

\* The n-th write of the handshake that concerns queue q.
LEMMA QueueWrite ==
  ASSUME NEW q \in Queues, NEW i \in 1..9
  PROVE  Handshake[6 + 9 * q + i] = Setup(q)[i]
  <1>1. CASE q = 0
    BY <1>1, HandshakeIs
  <1>2. CASE q = 1
    BY <1>2, HandshakeIs
  <1>3. QED
    BY <1>1, <1>2 DEF Queues

\* A write of the handshake is one of Status, or the notification, or it
\* concerns one of the queues.
LEMMA WhichWrite ==
  ASSUME NEW n \in 1..26
  PROVE  n \in {1, 2, 3, 4, 5, 6, 25, 26} \/ \E q \in Queues, i \in 1..9 : n = 6 + 9 * q + i
  <1>1. CASE n \in 7..15
    <2>1. n - 6 \in 1..9 /\ n = 6 + 9 * 0 + (n - 6) /\ 0 \in Queues
      BY <1>1 DEF Queues
    <2>2. QED
      BY <2>1
  <1>2. CASE n \in 16..24
    <2>1. n - 15 \in 1..9 /\ n = 6 + 9 * 1 + (n - 15) /\ 1 \in Queues
      BY <1>2 DEF Queues
    <2>2. QED
      BY <2>1
  <1>3. QED
    BY <1>1, <1>2

-----------------------------------------------------------------------------
(* Types.                                                                  *)

\* Neither the ring nor its index is empty, and an index passes the ring a
\* whole number of times, at least twice, before it wraps.
LEMMA Sizes ==
  /\ RING_SIZE \in Nat \ {0} /\ IdxMod \in Nat \ {0} /\ RING_SIZE < IdxMod
  /\ \E k \in Nat \ {0} : IdxMod = k * RING_SIZE
  <1>1. PICK k \in 2..IdxMod : IdxMod = k * RING_SIZE
    BY RingAssumption
  <1>2. RING_SIZE \in Nat \ {0} /\ IdxMod \in Nat
    BY RingAssumption
  <1>3. k * RING_SIZE >= 2 * RING_SIZE
    BY <1>1, <1>2
  <1>4. k \in Nat \ {0} /\ RING_SIZE < IdxMod
    BY <1>1, <1>2, <1>3
  <1>5. QED
    BY <1>1, <1>2, <1>4

\* An index modulo the size of the ring is a place in it.
LEMMA SlotOf == ASSUME NEW a \in Int PROVE a % RING_SIZE \in Slots
  BY Sizes, DivMod DEF Slots

\* The type of the device's registers, which three actions write.
DeviceType ==
  /\ status \subseteq {1, 2, 4, 8} /\ sel \in Queues /\ notified \subseteq Queues
  /\ offer \in {0, 1} /\ accepted \subseteq {0, 1} /\ broken \in BOOLEAN
  /\ queue \in [Queues -> [ready : BOOLEAN, at : [Places -> Addresses]]]

\* A value of its own type to a register of the device, or one to none.
LEMMA WriteType ==
  ASSUME DeviceType, NEW r, NEW v, DeviceWrite(r, v),
         r = "Status" => v \subseteq {1, 2, 4, 8},
         r \in {"QueueSel", "QueueNotify"} => v \in Queues,
         r = "DeviceFeaturesSel" => v \in {0, 1},
         r \in Places => v \in Addresses
  PROVE  DeviceType'
  <1> DEFINE KnobsType == /\ status' \subseteq {1, 2, 4, 8} /\ sel' \in Queues
                          /\ notified' \subseteq Queues /\ offer' \in {0, 1}
                          /\ accepted' \subseteq {0, 1} /\ broken' \in BOOLEAN
  <1>1. KnobsType
    <2>1. status' \subseteq {1, 2, 4, 8} /\ sel' \in Queues /\ notified' \subseteq Queues
      BY DEF DeviceType, DeviceWrite
    <2>2. offer' \in {0, 1} /\ accepted' \subseteq {0, 1}
      BY DEF DeviceType, DeviceWrite
    <2>3. broken' \in BOOLEAN
      BY DEF DeviceType, DeviceWrite
    <2>4. QED
      BY <2>1, <2>2, <2>3
  <1>2. << >> \in Addresses
    BY DEF Addresses
  <1>3. CASE r = "Status" /\ v = {}
    BY <1>1, <1>2, <1>3 DEF DeviceType, DeviceWrite, FreshQueue
  <1>4. CASE r = "QueueReady" /\ r \notin Ignored
    <2>1. (v = 1) \in BOOLEAN
      OBVIOUS
    <2>2. queue' = [queue EXCEPT ![sel].ready = (v = 1)]
      BY <1>4 DEF DeviceWrite
    <2> DEFINE b == (v = 1)
    <2>3. b \in BOOLEAN /\ queue' = [queue EXCEPT ![sel].ready = b]
      BY <2>1, <2>2
    <2> HIDE DEF b
    <2>4. queue' \in [Queues -> [ready : BOOLEAN, at : [Places -> Addresses]]]
      BY <2>3 DEF DeviceType
    <2>5. QED
      BY <1>1, <2>4 DEF DeviceType
  <1>5. CASE r \in Places /\ r \notin Ignored
    <2>1. r # "QueueReady" /\ r # "Status"
      BY <1>5 DEF Places
    <2>2. queue' = [queue EXCEPT ![sel].at[r] = v]
      BY <1>5, <2>1 DEF DeviceWrite
    <2>3. queue' \in [Queues -> [ready : BOOLEAN, at : [Places -> Addresses]]]
      BY <1>5, <2>2 DEF DeviceType
    <2>4. QED
      BY <1>1, <2>3 DEF DeviceType
  <1>6. CASE /\ ~(r = "Status" /\ v = {})
             /\ r \in Ignored \/ (r # "QueueReady" /\ r \notin Places)
    <2>1. queue' = queue
      BY <1>6 DEF DeviceWrite
    <2>2. QED
      BY <1>1, <2>1 DEF DeviceType
  <1>7. QED
    BY <1>3, <1>4, <1>5, <1>6

\* Where a write of the driver goes, in either layout.
LEMMA Reaches ==
  ASSUME layout \in Layouts, NEW f \in Registers
  PROVE  /\ Reached(f) = "Status" => f = "Status"
         /\ Reached(f) \in {"QueueSel", "QueueNotify", "DeviceFeaturesSel"} => f = Reached(f)
         /\ Reached(f) \in Places => f \in Places
  <1>1. CASE layout = "commented"
    BY <1>1 DEF Reached
  <1>2. CASE layout = "struct"
    <2>1. f \in RegisterNames
      BY RegistersAre
    <2>2. Reached(f) = InStruct[f]
      BY <1>2 DEF Reached
    <2>3. Reached(f) \in {"QueueSel", "DeviceFeaturesSel"} => f = Reached(f)
      BY <2>1, <2>2, StructReach, RegistersAre DEF RegisterNames, Reachable
    <2>4. Reached(f) \notin {"Status", "QueueNotify"}
      BY <2>1, <2>2, StructReach, RegistersAre DEF RegisterNames, Reachable
    <2>5. Reached(f) \in Places => f \in Places
      BY <2>1, <2>2, StructReach, RegistersAre DEF RegisterNames, Places, Reachable
    <2>6. QED
      BY <2>3, <2>4, <2>5
  <1>3. QED
    BY <1>1, <1>2, LayoutAssumption

\* Every write of the handshake keeps the type of the device's registers, in
\* the right place or the wrong one.
LEMMA HandshakeType ==
  ASSUME TypeInv, WriteRegister
  PROVE  DeviceType'
  <1> DEFINE w == Handshake[written + 1]
  <1>0. DeviceType /\ layout \in Layouts
    BY DEF TypeInv, TypeOK, QueueInv, DeviceType
  <1>1. /\ w[1] = "|" => DeviceWrite(Reached("Status"), StatusRead \cup {w[2]})
        /\ w[1] = "Status" => DeviceWrite(Reached("Status"), {})
        /\ w[1] = "DriverFeatures" => DeviceWrite(Reached("DriverFeatures"), FeaturesRead)
        /\ w[1] \notin {"|", "Status", "DriverFeatures"} => DeviceWrite(Reached(w[1]), w[2])
    BY DEF WriteRegister
  <1>2. written + 1 \in 1..26
    <2>1. written < Len(Handshake)
      BY DEF WriteRegister
    <2>2. written \in 0..Len(Handshake)
      BY DEF TypeInv, TypeOK
    <2>3. QED
      BY <2>1, <2>2, HandshakeIs
  <1>3. "Status" \in Registers /\ Reached("Status") \notin
                                    {"QueueSel", "QueueNotify", "DeviceFeaturesSel"} \cup Places
    <2>1. "Status" \in Registers /\ "Status" \notin Places
      BY RegistersAre DEF RegisterNames, Places
    <2>2. QED
      BY <1>0, <2>1, Reaches
  <1>4. CASE w[1] = "|" /\ w[2] \in {1, 2, 4, 8}
    <2>1. StatusRead \cup {w[2]} \subseteq {1, 2, 4, 8}
      BY <1>0, <1>4 DEF StatusRead, DeviceType
    <2> HIDE DEF w
    <2>2. QED
      BY <1>0, <1>1, <1>3, <1>4, <2>1, WriteType
  <1>5. CASE w[1] = "Status"
    BY <1>0, <1>1, <1>3, <1>5, WriteType
  <1>10. CASE w[1] = "DriverFeatures"
    <2>1. "DriverFeatures" \in Registers \ Places
      BY RegistersAre DEF RegisterNames, Places
    <2>2. Reached("DriverFeatures") \notin
            {"Status", "QueueSel", "QueueNotify", "DeviceFeaturesSel"} \cup Places
      BY <1>0, <2>1, Reaches
    <2> HIDE DEF w
    <2>3. DeviceWrite(Reached("DriverFeatures"), FeaturesRead)
      BY <1>1, <1>10
    <2>4. QED
      BY <1>0, <2>2, <2>3, WriteType
  <1>6. CASE /\ w[1] \in Registers \ {"Status", "DriverFeatures"}
             /\ w[1] \in {"QueueSel", "QueueNotify"} => w[2] \in Queues
             /\ w[1] = "DeviceFeaturesSel" => w[2] \in {0, 1}
             /\ w[1] \in Places => w[2] \in Addresses
    <2>1. w[1] \notin {"|", "Status", "DriverFeatures"} /\ w[1] \in Registers
      BY <1>6, RegistersAre DEF RegisterNames
    <2> HIDE DEF w
    <2>2. DeviceWrite(Reached(w[1]), w[2])
      BY <1>1, <2>1
    <2>3. /\ Reached(w[1]) # "Status"
          /\ Reached(w[1]) \in {"QueueSel", "QueueNotify"} => w[2] \in Queues
          /\ Reached(w[1]) = "DeviceFeaturesSel" => w[2] \in {0, 1}
          /\ Reached(w[1]) \in Places => w[2] \in Addresses
      BY <1>0, <1>6, <2>1, Reaches
    <2>4. QED
      BY <1>0, <2>2, <2>3, WriteType
  <1>7. CASE written + 1 \in {1, 2, 3, 4, 5, 6, 25, 26}
    <2>1. w \in {<<"Status", 0>>, <<"|", 1>>, <<"|", 2>>, <<"|", 8>>, <<"|", 4>>,
                 <<"DeviceFeaturesSel", 0>>, <<"DriverFeatures", "read">>, <<"QueueNotify", 0>>}
      BY <1>7, HandshakeIs
    <2>2. CASE w = <<"QueueNotify", 0>> \/ w = <<"DeviceFeaturesSel", 0>>
      <3>1. w[1] \in {"QueueNotify", "DeviceFeaturesSel"} /\ w[2] = 0
        BY <2>2
      <3>2. /\ {"QueueNotify", "DeviceFeaturesSel"}
                  \subseteq Registers \ {"Status", "DriverFeatures"}
            /\ "QueueNotify" \notin Places /\ "DeviceFeaturesSel" \notin Places /\ 0 \in Queues
        BY RegistersAre DEF RegisterNames, Places, Queues
      <3> HIDE DEF w
      <3>3. QED
        BY <1>6, <3>1, <3>2
    <2>3. CASE w = <<"DriverFeatures", "read">>
      BY <1>10, <2>3
    <2>4. CASE w \in {<<"Status", 0>>, <<"|", 1>>, <<"|", 2>>, <<"|", 8>>, <<"|", 4>>}
      BY <1>4, <1>5, <2>4
    <2>5. QED
      BY <2>1, <2>2, <2>3, <2>4
  <1>8. ASSUME NEW q \in Queues, NEW i \in 1..9, written + 1 = 6 + 9 * q + i
        PROVE  DeviceType'
    <2>1. w = Setup(q)[i]
      BY <1>8, QueueWrite
    <2>2. \/ w[1] = "QueueSel" /\ w[2] = q
          \/ w[1] = "QueueNum" \/ w[1] = "QueueReady"
          \/ w[1] \in Places /\ w[2] \in {<< >>, <<q, "desc">>, <<q, "avail">>, <<q, "used">>}
      <3> DEFINE s == Setup(q)
      <3>1. /\ s[1] = <<"QueueSel", q>> /\ s[2] = <<"QueueNum", RING_SIZE>>
            /\ s[3] = <<"QueueDescLow", <<q, "desc">> >> /\ s[4] = <<"QueueDescHigh", << >> >>
            /\ s[5] = <<"QueueAvailLow", <<q, "avail">> >> /\ s[6] = <<"QueueAvailHigh", << >> >>
            /\ s[7] = <<"QueueUsedLow", <<q, "used">> >> /\ s[8] = <<"QueueUsedHigh", << >> >>
            /\ s[9] = <<"QueueReady", 1>>
        BY SetupIs
      <3>2. w = s[i]
        BY <2>1
      <3> HIDE DEF s, w
      <3>3. CASE i = 1 \/ i = 2 \/ i = 9
        BY <3>1, <3>2, <3>3
      <3>4. CASE i = 3 \/ i = 5 \/ i = 7
        BY <3>1, <3>2, <3>4 DEF Places
      <3>5. CASE i = 4 \/ i = 6 \/ i = 8
        BY <3>1, <3>2, <3>5 DEF Places
      <3>6. QED
        BY <3>3, <3>4, <3>5
    <2>3. w[1] \in Registers \ {"Status", "DriverFeatures", "DeviceFeaturesSel"}
      BY <2>2, RegistersAre DEF RegisterNames, Places
    <2>4. w[1] \in {"QueueSel", "QueueNotify"} => w[2] \in Queues
      BY <2>2 DEF Places
    <2>5. w[1] \in Places => w[2] \in Addresses
      <3>1. {<< >>, <<q, "desc">>, <<q, "avail">>, <<q, "used">>} \subseteq Addresses
        BY DEF Addresses
      <3>2. QED
        BY <2>2, <3>1 DEF Places
    <2>6. QED
      BY <1>6, <2>3, <2>4, <2>5
  <1>9. QED
    BY <1>2, <1>7, <1>8, WhichWrite

\* The notification goes to QueueNotify, or nowhere.
LEMMA NotifyWrite ==
  ASSUME layout \in Layouts, NEW t, Notify(t)
  PROVE  /\ UNCHANGED <<status, sel, queue, features, broken>>
         /\ notified' = IF layout = "commented" THEN notified \cup {1} ELSE notified
  <1>1. DeviceWrite(Reached("QueueNotify"), 1)
    BY DEF Notify
  <1>2. Reached("QueueNotify") = IF layout = "commented" THEN "QueueNotify" ELSE "none"
    BY StructReach, RegistersAre DEF Reached, RegisterNames, Reachable
  <1>3. Reached("QueueNotify") \notin
          Places \cup {"Status", "QueueSel", "QueueReady", "DeviceFeaturesSel", "DriverFeatures"}
    BY <1>2 DEF Places
  <1>4. QED
    BY <1>1, <1>2, <1>3, LayoutAssumption DEF DeviceWrite, features

\* The types hold at the start.
LEMMA TypeInit == Init => TypeInv
  <1> SUFFICES ASSUME Init PROVE TypeInv
    OBVIOUS
  <1>1. 0 \in Slots /\ 0 \in 0..(IdxMod - 1) /\ 0 \in 0..MaxFrames /\ 0 \in 0..Len(Handshake)
    BY Sizes, BoundAssumption, HandshakeIs DEF Slots
  <1>2. << >> \in Seq(0..MaxFrames) /\ 0 \in Queues /\ << >> \in Addresses
    BY DEF Queues, Addresses
  <1>3. lapped \in BOOLEAN
    BY DEF Init
  <1>4. queue \in [Queues -> [ready : BOOLEAN, at : [Places -> Addresses]]]
    BY <1>2 DEF Init, FreshQueue
  <1>5. \A q \in Queues : queue[q].ready \in BOOLEAN
    BY <1>4
  <1>6. TypeOK
    BY <1>1, <1>2, <1>3, <1>5 DEF Init, TypeOK
  <1>7. QED
    BY <1>4, <1>6 DEF Init, TypeInv, QueueInv

\* Every step keeps the types.
LEMMA TypeStep ==
  ASSUME TypeInv, [Next]_vars
  PROVE  TypeInv'
  <1> USE DEF TypeInv, TypeOK, QueueInv, setup, features, registers, ring, locals, history
  <1>0. \A i \in 0..(IdxMod - 1) : /\ i \in Int /\ Succ(i) \in 0..(IdxMod - 1)
                                   /\ i % RING_SIZE \in Slots
    <2>1. ASSUME NEW i \in 0..(IdxMod - 1)
          PROVE  i \in Int /\ i + 1 \in Int
      BY Sizes
    <2>2. QED
      BY <2>1, Sizes, SlotOf, DivMod DEF Succ
  <1>1. CASE WriteRegister
    <2>1. DeviceType'
      BY <1>1, HandshakeType
    <2>2. written' = written + 1 /\ written < Len(Handshake) /\ boot' = "init"
      BY <1>1 DEF WriteRegister
    <2>3. written' \in 0..Len(Handshake)
      <3>1. Len(Handshake) = 26 /\ written \in 0..Len(Handshake)
        BY HandshakeIs
      <3>2. QED
        BY ONLY <2>2, <3>1
    <2>4. UNCHANGED <<layout, device, ring, locals, dev_idx, sent, history>>
      BY <1>1 DEF WriteRegister
    <2>5. queue' \in [Queues -> [ready : BOOLEAN, at : [Places -> Addresses]]]
      BY <2>1 DEF DeviceType
    <2>6. QED
      BY <2>1, <2>2, <2>3, <2>4, <2>5 DEF DeviceType
  <1>2. CASE DeviceMissing \/ AddInterface
    BY <1>2 DEF DeviceMissing, AddInterface
  <1>3. ASSUME NEW t \in Threads, Enter(t), boot' \in {boot, "up"}, boot \in {"added", "up"}
        PROVE  TypeInv'
    <2>1. handed' \in 0..MaxFrames /\ tx_idx % RING_SIZE \in Slots
      BY <1>0, <1>3, BoundAssumption DEF Enter
    <2>2. overlap' \in 0..MaxFrames
      BY <1>3, <2>1 DEF Enter
    <2>3. QED
      BY <1>3, <2>1, <2>2 DEF Enter
  <1>4. CASE Announce
    <2>1. "control" \in Threads
      BY DEF Threads
    <2>2. CASE boot = "added"
      BY <1>3, <1>4, <2>1, <2>2 DEF Announce
    <2>3. CASE boot # "added"
      BY <1>4, <2>3 DEF Announce
    <2>4. QED
      BY <2>2, <2>3
  <1>5. CASE Reply
    <2>1. "irq" \in Threads
      BY DEF Threads
    <2>2. QED
      BY <1>3, <1>5, <2>1 DEF Reply
  <1>6. ASSUME NEW t \in Threads, Copy(t) PROVE TypeInv'
    <2>1. lapped' \in BOOLEAN
      BY <1>6, Zenon DEF Copy
    <2>2. QED
      BY <1>6, <2>1 DEF Copy
  <1>7. ASSUME NEW t \in Threads, Offer(t) PROVE TypeInv'
    <2>1. lapped' \in BOOLEAN
      BY <1>7, Zenon DEF Offer
    <2>2. avail_idx % RING_SIZE \in Slots
      BY <1>0
    <2>3. QED
      BY <1>7, <2>1, <2>2 DEF Offer
  <1>8. ASSUME NEW t \in Threads, Reload(t) \/ Advance(t) \/ Load(t) \/ Count(t)
        PROVE  TypeInv'
    <2>1. CASE Reload(t)
      BY <2>1 DEF Reload
    <2>2. CASE Advance(t)
      <3>1. Succ(idx[t]) \in 0..(IdxMod - 1)
        <4>1. idx[t] \in 0..(IdxMod - 1)
          OBVIOUS
        <4>2. QED
          BY ONLY <1>0, <4>1
      <3>2. QED
        BY <2>2, <3>1 DEF Advance
    <2>3. CASE Load(t)
      BY <2>3 DEF Load
    <2>4. CASE Count(t)
      <3>1. Succ(idx[t]) \in 0..(IdxMod - 1)
        <4>1. idx[t] \in 0..(IdxMod - 1)
          OBVIOUS
        <4>2. QED
          BY ONLY <1>0, <4>1
      <3>2. QED
        BY <2>4, <3>1 DEF Count
    <2>5. QED
      BY <1>8, <2>1, <2>2, <2>3, <2>4
  <1>9. ASSUME NEW t \in Threads, Notify(t) PROVE TypeInv'
    <2>1. UNCHANGED <<status, sel, queue, features, broken>> /\ notified' \subseteq Queues
      <3>1. layout \in Layouts /\ notified \subseteq Queues /\ 1 \in Queues
        BY DEF Queues
      <3>2. QED
        BY <1>9, <3>1, NotifyWrite
    <2>2. /\ tpc' = [tpc EXCEPT ![t] = "count"]
          /\ UNCHANGED <<setup, ring, desc_idx, idx, frame, dev_idx, sent, history>>
      BY <1>9 DEF Notify
    <2>3. QED
      BY <2>1, <2>2
  <1>10. CASE Transmit
    <2>1. tx_buffer[avail_ring[dev_idx % RING_SIZE]] \in 0..MaxFrames
      BY <1>0
    <2>2. sent' \in Seq(0..MaxFrames)
      BY <1>10, <2>1 DEF Transmit
    <2>3. dev_idx' \in 0..(IdxMod - 1)
      BY <1>0, <1>10 DEF Transmit
    <2>4. UNCHANGED <<setup, registers, ring, locals, history>>
      BY <1>10 DEF Transmit
    <2>5. QED
      BY <2>2, <2>3, <2>4
  <1>11. CASE Break \/ Rest \/ UNCHANGED vars
    <2>1. CASE Rest
      BY <2>1 DEF Rest
    <2>4. CASE Break
      BY <2>4 DEF Break
    <2>2. CASE UNCHANGED vars
      BY <2>2 DEF vars
    <2>3. QED
      BY <1>11, <2>1, <2>2, <2>4
  <1> QED
    BY <1>1, <1>2, <1>4, <1>5, <1>6, <1>7, <1>8, <1>9, <1>10, <1>11
    DEF Next, Control, Output, Device

\* Whatever the two threads do to each other's indices, no thread works on a
\* buffer outside the ring, and no index leaves its width.
THEOREM TypeCorrect == Spec => []TypeOK
  <1>1. TypeInv => TypeOK
    BY DEF TypeInv
  <1>2. QED
    BY <1>1, TypeInit, TypeStep, PTL DEF Spec

-----------------------------------------------------------------------------
(* The handshake.                                                          *)

\* The writes of the handshake that put a ring in its place or make a queue
\* ready, by their number.
LEMMA Thresholds ==
  /\ DOMAIN Ring = {"QueueDescLow", "QueueAvailLow", "QueueUsedLow"}
  /\ Ready(0) = 15 /\ Ready(1) = 24
  /\ Low(0)["QueueDescLow"] = 9  /\ Low(0)["QueueAvailLow"] = 11 /\ Low(0)["QueueUsedLow"] = 13
  /\ Low(1)["QueueDescLow"] = 18 /\ Low(1)["QueueAvailLow"] = 20 /\ Low(1)["QueueUsedLow"] = 22
  /\ Ring["QueueDescLow"] = "desc" /\ Ring["QueueAvailLow"] = "avail"
  /\ Ring["QueueUsedLow"] = "used"
  BY DEF Ring, Ready, Low

\* A queue, when n registers are written.
QueueAt(k, q, n) ==
  /\ k.ready <=> n >= Ready(q)
  /\ \A p \in Places :
       k.at[p] = IF p \in DOMAIN Ring /\ n >= Low(q)[p] THEN <<q, Ring[p]>> ELSE << >>

\* The last writes of one queue leave it as it is.
LEMMA QueueStays ==
  ASSUME NEW q \in Queues, NEW k, NEW n \in 1..26,
         n \notin {9, 11, 13, 15, 18, 20, 22, 24},
         QueueAt(k, q, n - 1)
  PROVE  QueueAt(k, q, n)
  <1>1. n >= Ready(q) <=> n - 1 >= Ready(q)
    BY Thresholds DEF Queues
  <1>2. ASSUME NEW p \in DOMAIN Ring PROVE n >= Low(q)[p] <=> n - 1 >= Low(q)[p]
    BY Thresholds DEF Queues
  <1>3. QED
    BY <1>1, <1>2 DEF QueueAt

\* One write that concerns a queue, where it reaches a lenient device.
LEMMA QueueStep ==
  ASSUME TypeInv, WriteRegister, HandshakeInv, layout = "commented", device = "lenient",
         NEW q \in Queues, NEW i \in 1..9, written + 1 = 6 + 9 * q + i
  PROVE  /\ status' = status
         /\ sel' = IF i = 1 THEN q ELSE sel
         /\ \A c \in Queues : QueueAt(queue'[c], c, written + 1)
  <1> DEFINE s == Setup(q)
             w == Handshake[written + 1]
             n == written + 1
  <1>1. /\ s[1] = <<"QueueSel", q>> /\ s[2] = <<"QueueNum", RING_SIZE>>
        /\ s[3] = <<"QueueDescLow", <<q, "desc">> >> /\ s[4] = <<"QueueDescHigh", << >> >>
        /\ s[5] = <<"QueueAvailLow", <<q, "avail">> >> /\ s[6] = <<"QueueAvailHigh", << >> >>
        /\ s[7] = <<"QueueUsedLow", <<q, "used">> >> /\ s[8] = <<"QueueUsedHigh", << >> >>
        /\ s[9] = <<"QueueReady", 1>>
    BY SetupIs
  <1>2. w = s[i]
    BY QueueWrite
  <1>3. w[1] \notin {"|", "Status", "DriverFeatures"} => DeviceWrite(w[1], w[2])
    BY DEF WriteRegister, Reached
  <1>13. Ignored = {}
    BY DEF Ignored
  <1>4. \A c \in Queues : QueueAt(queue[c], c, n - 1)
    <2>1. n - 1 = written
      BY DEF TypeInv, TypeOK
    <2>2. QED
      BY <2>1 DEF HandshakeInv, FollowInv, QueueAt
  <1>5. n \in 1..26 /\ n = 6 + 9 * q + i
    <2>1. 6 + 9 * q + i \in 1..26
      BY DEF Queues
    <2>2. QED
      BY <2>1
  <1>6. queue \in [Queues -> [ready : BOOLEAN, at : [Places -> Addresses]]]
    BY DEF TypeInv, QueueInv
  <1>7. i # 1 => sel = q
    <2>1. sel = SelAt(written) /\ written \in Int
      BY DEF HandshakeInv, FollowInv, TypeInv, TypeOK
    <2>2. QED
      BY <2>1 DEF SelAt, Queues
  <1> HIDE DEF s, w
  <1>8. CASE i \in {1, 2}
    <2>1. \/ i = 1 /\ w[1] = "QueueSel" /\ w[2] = q
          \/ i = 2 /\ w[1] = "QueueNum"
      <3>1. i = 1 => w[1] = "QueueSel" /\ w[2] = q
        BY <1>1, <1>2
      <3>2. i = 2 => w[1] = "QueueNum"
        BY <1>1, <1>2
      <3>3. QED
        BY <1>8, <3>1, <3>2
    <2>2. /\ status' = status /\ queue' = queue
          /\ sel' = IF i = 1 THEN q ELSE sel
      <3>1. CASE i = 1
        <4>1. DeviceWrite("QueueSel", q)
          BY <1>3, <2>1, <3>1
        <4>2. QED
          BY <1>13, <3>1, <4>1 DEF DeviceWrite, Places
      <3>2. CASE i = 2
        <4>1. DeviceWrite("QueueNum", w[2])
          BY <1>3, <2>1, <3>2
        <4>2. QED
          BY <1>13, <3>2, <4>1 DEF DeviceWrite, Places
      <3>3. QED
        BY <1>8, <3>1, <3>2
    <2>3. n \notin {9, 11, 13, 15, 18, 20, 22, 24}
      BY <1>5, <1>8 DEF Queues
    <2> HIDE DEF n
    <2>4. \A c \in Queues : QueueAt(queue[c], c, n)
      BY <1>4, <1>5, <2>3, QueueStays
    <2>5. QED
      BY <2>2, <2>4 DEF n
  <1>9. CASE i \in {3, 5, 7}
    <2>1. PICK p \in DOMAIN Ring : w = <<p, <<q, Ring[p]>> >> /\ n = Low(q)[p]
      <3>1. CASE i = 3
        BY <1>1, <1>2, <1>5, <3>1, Thresholds DEF Queues
      <3>2. CASE i = 5
        BY <1>1, <1>2, <1>5, <3>2, Thresholds DEF Queues
      <3>3. CASE i = 7
        BY <1>1, <1>2, <1>5, <3>3, Thresholds DEF Queues
      <3>4. QED
        BY <1>9, <3>1, <3>2, <3>3
    <2>2. /\ w[1] = p /\ w[2] = <<q, Ring[p]>> /\ p \in Places
          /\ p \notin {"|", "Status", "DriverFeatures", "QueueSel", "QueueReady"}
      BY <2>1, Thresholds DEF Places
    <2>3. /\ status' = status /\ sel' = sel
          /\ queue' = [queue EXCEPT ![q].at[p] = <<q, Ring[p]>>]
      <3>1. DeviceWrite(p, <<q, Ring[p]>>)
        BY <1>3, <2>2
      <3>2. sel = q
        BY <1>7, <1>9
      <3>3. status' = status /\ sel' = sel /\ queue' = [queue EXCEPT ![sel].at[p] = <<q, Ring[p]>>]
        BY <1>13, <2>2, <3>1, Zenon DEF DeviceWrite
      <3>4. QED
        BY <3>2, <3>3
    <2>4. ASSUME NEW c \in Queues PROVE QueueAt(queue'[c], c, n)
      <3>1. /\ queue'[c].ready = queue[c].ready
            /\ \A r \in Places : queue'[c].at[r] =
                 IF c = q /\ r = p THEN <<q, Ring[p]>> ELSE queue[c].at[r]
        BY <1>6, <2>2, <2>3
      <3>2. n >= Ready(c) <=> n - 1 >= Ready(c)
        BY <1>5, <1>9, Thresholds DEF Queues
      <3>3. ASSUME NEW r \in DOMAIN Ring, ~(c = q /\ r = p)
            PROVE  n >= Low(c)[r] <=> n - 1 >= Low(c)[r]
        <4>1. Low(c)[r] # Low(q)[p]
          BY <3>3, Thresholds DEF Queues
        <4>2. Low(c)[r] \in Int
          BY Thresholds DEF Queues
        <4>3. QED
          BY <1>5, <2>1, <4>1, <4>2
      <3>4. c = q => n >= Low(c)[p]
        BY <1>5, <2>1
      <3>5. QED
        BY <1>4, <2>1, <2>2, <3>1, <3>2, <3>3, <3>4 DEF QueueAt
    <2>5. QED
      BY <1>9, <2>3, <2>4
  <1>10. CASE i \in {4, 6, 8}
    <2>1. PICK p \in Places \ DOMAIN Ring : w = <<p, << >> >>
      BY <1>1, <1>2, <1>10, Thresholds DEF Places
    <2>2. /\ w[1] = p /\ w[2] = << >> /\ p \in Places
          /\ p \notin {"|", "Status", "DriverFeatures", "QueueSel", "QueueReady"}
      BY <2>1 DEF Places
    <2>3. /\ status' = status /\ sel' = sel
          /\ queue' = [queue EXCEPT ![q].at[p] = << >>]
      <3>1. DeviceWrite(p, << >>)
        BY <1>3, <2>2
      <3>2. sel = q
        BY <1>7, <1>10
      <3>3. status' = status /\ sel' = sel /\ queue' = [queue EXCEPT ![sel].at[p] = << >>]
        BY <1>13, <2>2, <3>1, Zenon DEF DeviceWrite
      <3>4. QED
        BY <3>2, <3>3
    <2>4. n \notin {9, 11, 13, 15, 18, 20, 22, 24}
      BY <1>5, <1>10 DEF Queues
    <2>5. ASSUME NEW c \in Queues PROVE QueueAt(queue'[c], c, n)
      <3> HIDE DEF n
      <3>1. QueueAt(queue[c], c, n)
        BY <1>4, <1>5, <2>4, QueueStays
      <3>2. /\ queue'[c].ready = queue[c].ready
            /\ \A r \in Places : queue'[c].at[r] =
                 IF c = q /\ r = p THEN << >> ELSE queue[c].at[r]
        BY <1>6, <2>2, <2>3
      <3>3. QED
        BY <2>1, <3>1, <3>2 DEF QueueAt
    <2>6. QED
      BY <1>10, <2>3, <2>5
  <1>11. CASE i = 9
    <2>1. w[1] = "QueueReady" /\ w[2] = 1
      BY <1>1, <1>2, <1>11
    <2>2. /\ status' = status /\ sel' = sel
          /\ queue' = [queue EXCEPT ![q].ready = TRUE]
      <3>1. DeviceWrite("QueueReady", 1)
        BY <1>3, <2>1
      <3>2. status' = status /\ sel' = sel
        BY <3>1 DEF DeviceWrite
      <3>3. queue' = [queue EXCEPT ![sel].ready = (1 = 1)]
        BY <1>13, <3>1 DEF DeviceWrite
      <3>4. (1 = 1) = TRUE
        BY Zenon
      <3>5. queue' = [queue EXCEPT ![sel].ready = TRUE]
        BY <3>3, <3>4, Zenon
      <3>6. QED
        BY <1>7, <1>11, <3>2, <3>5
    <2>3. n = Ready(q)
      BY <1>5, <1>11, Thresholds DEF Queues
    <2>4. ASSUME NEW c \in Queues PROVE QueueAt(queue'[c], c, n)
      <3>1. /\ queue'[c].ready <=> (c = q \/ queue[c].ready)
            /\ queue'[c].at = queue[c].at
        BY <1>6, <2>2
      <3>2. \A r \in DOMAIN Ring : n >= Low(c)[r] <=> n - 1 >= Low(c)[r]
        BY <1>5, <1>11, Thresholds DEF Queues
      <3>3. c # q => (n >= Ready(c) <=> n - 1 >= Ready(c))
        BY <1>5, <1>11, Thresholds DEF Queues
      <3>4. c = q => n >= Ready(c)
        BY <1>5, <2>3
      <3>5. QED
        BY <1>4, <3>1, <3>2, <3>3, <3>4 DEF QueueAt
    <2>5. i # 1
      BY <1>11
    <2>6. QED
      BY <2>2, <2>4, <2>5
  <1>12. QED
    BY <1>8, <1>9, <1>10, <1>11

\* The invariant, in the words of QueueAt.
LEMMA InTermsOfQueueAt ==
  /\ FollowInv <=>
       status = StatusAt(written) /\ sel = SelAt(written)
         /\ \A q \in Queues : QueueAt(queue[q], q, written)
  /\ FollowInv' <=>
       status' = StatusAt(written') /\ sel' = SelAt(written')
         /\ \A q \in Queues : QueueAt(queue'[q], q, written')
  BY DEF FollowInv, QueueAt

\* The other writes: Status, the features, and the notification at the end.
LEMMA StatusStep ==
  ASSUME TypeInv, WriteRegister, HandshakeInv, layout = "commented", device = "lenient",
         written + 1 \in {1, 2, 3, 4, 5, 6, 25, 26}
  PROVE  /\ status' = StatusAt(written + 1)
         /\ sel' = SelAt(written + 1)
         /\ \A c \in Queues : QueueAt(queue'[c], c, written + 1)
  <1> DEFINE w == Handshake[written + 1]
             n == written + 1
  <1>1. /\ n = 1  => w[1] = "Status"
        /\ n = 2  => w[1] = "|" /\ w[2] = 1
        /\ n = 3  => w[1] = "|" /\ w[2] = 2
        /\ n = 4  => w[1] = "DeviceFeaturesSel"
        /\ n = 5  => w[1] = "DriverFeatures"
        /\ n = 6  => w[1] = "|" /\ w[2] = 8
        /\ n = 25 => w[1] = "QueueNotify" /\ w[2] = 0
        /\ n = 26 => w[1] = "|" /\ w[2] = 4
    BY HandshakeIs
  <1>10. Ignored = {} /\ Refused = {}
    BY DEF Ignored, Refused
  <1>2. /\ w[1] = "|" => DeviceWrite("Status", status \cup {w[2]})
        /\ w[1] = "DeviceFeaturesSel" => DeviceWrite("DeviceFeaturesSel", w[2])
        /\ w[1] = "DriverFeatures" => DeviceWrite("DriverFeatures", FeaturesRead)
        /\ w[1] = "Status" => DeviceWrite("Status", {})
        /\ w[1] = "QueueNotify" => DeviceWrite("QueueNotify", w[2])
    BY DEF WriteRegister, Reached, StatusRead
  <1>3. /\ written \in Int /\ status = StatusAt(n - 1) /\ sel = SelAt(n - 1)
        /\ \A c \in Queues : QueueAt(queue[c], c, n - 1)
    <2>1. written \in Int /\ n - 1 = written
      BY DEF TypeInv, TypeOK
    <2>2. QED
      BY <2>1, InTermsOfQueueAt DEF HandshakeInv
  <1>4. Len(Handshake) = 26
    BY HandshakeIs
  <1> HIDE DEF w, n
  <1>5. n \in 1..26 /\ n \notin {9, 11, 13, 15, 18, 20, 22, 24} /\ n \in {1, 2, 3, 4, 5, 6, 25, 26}
    BY DEF n
  <1>6. sel' = sel /\ SelAt(n) = SelAt(n - 1)
    <2>1. \E r \in Registers : \E v : r # "QueueSel" /\ DeviceWrite(r, v)
      <3>1. {"Status", "DeviceFeaturesSel", "DriverFeatures", "QueueNotify"} \subseteq Registers
        BY RegistersAre DEF RegisterNames
      <3>2. CASE n = 1
        BY <1>1, <1>2, <3>1, <3>2
      <3>3. CASE n \in {2, 3, 6, 26}
        BY <1>1, <1>2, <3>1, <3>3
      <3>4. CASE n \in {4, 5, 25}
        BY <1>1, <1>2, <3>1, <3>4
      <3>5. QED
        BY <1>5, <3>2, <3>3, <3>4
    <2>2. sel' = sel
      BY <2>1 DEF DeviceWrite
    <2>3. SelAt(n) = SelAt(n - 1)
      BY <1>5 DEF SelAt
    <2>4. QED
      BY <2>2, <2>3
  <1>7. CASE n = 1
    <2>1. status' = {} /\ queue' = [q \in Queues |-> FreshQueue]
      BY <1>1, <1>2, <1>7, <1>10 DEF DeviceWrite
    <2>2. ASSUME NEW c \in Queues PROVE QueueAt(queue'[c], c, n)
      <3>1. ~ (n >= Ready(c)) /\ \A p \in DOMAIN Ring : ~ (n >= Low(c)[p])
        BY <1>7, Thresholds DEF Queues
      <3>2. QED
        BY <2>1, <3>1 DEF QueueAt, FreshQueue
    <2>3. QED
      BY <1>3, <1>6, <1>7, <2>1, <2>2 DEF StatusAt, n
  <1>8. CASE n # 1
    <2>1. queue' = queue
      BY <1>1, <1>2, <1>5, <1>8, <1>10 DEF DeviceWrite, Places
    <2>2. \A c \in Queues : QueueAt(queue'[c], c, n)
      BY <1>3, <1>5, <2>1, QueueStays
    <2>3. status' = StatusAt(n)
      <3>1. CASE n \in {2, 3, 6, 26}
        <4>1. /\ w[1] = "|"
              /\ w[2] = (IF n = 2 THEN 1 ELSE IF n = 3 THEN 2 ELSE IF n = 6 THEN 8 ELSE 4)
          BY <1>1, <3>1
        <4>2. status' = status \cup {w[2]}
          BY <1>2, <1>10, <4>1 DEF DeviceWrite
        <4>3. StatusAt(n) = StatusAt(n - 1) \cup {w[2]}
          BY <1>4, <3>1, <4>1 DEF StatusAt
        <4>4. QED
          BY <1>3, <4>2, <4>3
      <3>2. CASE n \in {4, 5, 25}
        <4>1. status' = status
          BY <1>1, <1>2, <3>2 DEF DeviceWrite
        <4>2. StatusAt(n) = StatusAt(n - 1)
          BY <1>4, <3>2 DEF StatusAt
        <4>3. QED
          BY <1>3, <4>1, <4>2
      <3>3. QED
        BY <1>5, <1>8, <3>1, <3>2
    <2>4. QED
      BY <1>3, <1>6, <2>2, <2>3 DEF n
  <1>9. QED
    BY <1>7, <1>8

\* Whatever is written wherever, a strict device does not get VERSION_1, and a
\* legacy device not its queues.
LEMMA AnyWrite ==
  ASSUME TypeInv, HandshakeInv, UNCHANGED device, NEW r, NEW v, DeviceWrite(r, v)
  PROVE  /\ accepted' \subseteq {0}
         /\ device' = "strict" => 8 \notin status'
         /\ device' = "legacy" => \A q \in Queues : ~queue'[q].ready
  <1>1. accepted' \subseteq {0}
    BY DEF HandshakeInv, DeviceWrite
  <1>2. ASSUME device = "strict" PROVE 8 \notin status'
    <2>1. Refused = {8} /\ 8 \notin status
      BY <1>2 DEF HandshakeInv, Refused
    <2>2. QED
      BY <2>1 DEF DeviceWrite
  <1>3. ASSUME device = "legacy", NEW q \in Queues PROVE ~queue'[q].ready
    <2>1. Ignored = Places \cup {"QueueReady"} /\ ~queue[q].ready
      BY <1>3 DEF HandshakeInv, Ignored
    <2>2. queue' = queue \/ queue' = [c \in Queues |-> FreshQueue]
      BY <2>1 DEF DeviceWrite
    <2>3. QED
      BY <2>1, <2>2 DEF FreshQueue
  <1>4. QED
    BY <1>1, <1>2, <1>3

\* Every step leaves the device as far as the writes have come.
LEMMA HandshakeStep ==
  ASSUME TypeInv, HandshakeInv, [Next]_vars
  PROVE  HandshakeInv'
  <1> USE DEF setup, features, registers, ring, locals, history
  <1>0. layout \in Layouts /\ written \in 0..26
    BY HandshakeIs DEF TypeInv, TypeOK
  <1>1. ASSUME WriteRegister PROVE HandshakeInv'
    <2>1. /\ written' = written + 1 /\ layout' = layout /\ device' = device
          /\ written + 1 \in 1..26
      BY <1>0, <1>1, HandshakeIs DEF WriteRegister
    <2>2. ASSUME layout = "commented", device = "lenient" PROVE FollowInv'
      <3>1. ASSUME NEW q \in Queues, NEW i \in 1..9, written + 1 = 6 + 9 * q + i
            PROVE  FollowInv'
        <4>1. /\ status' = status
              /\ sel' = IF i = 1 THEN q ELSE sel
              /\ \A c \in Queues : QueueAt(queue'[c], c, written + 1)
          BY <1>1, <2>2, <3>1, QueueStep
        <4>2. status = StatusAt(written) /\ sel = SelAt(written)
          BY <2>2 DEF HandshakeInv, FollowInv
        <4>6. written \in 6..23 /\ written + 1 \in 7..24
          BY <1>0, <3>1 DEF Queues
        <4>3. StatusAt(written + 1) = StatusAt(written)
          BY <4>6, HandshakeIs DEF StatusAt
        <4>7. q = 0 \/ q = 1
          BY DEF Queues
        <4>4. SelAt(written + 1) = IF i = 1 THEN q ELSE SelAt(written)
          BY <1>0, <3>1, <4>7 DEF SelAt
        <4>5. QED
          BY <2>1, <2>2, <4>1, <4>2, <4>3, <4>4, InTermsOfQueueAt
      <3>2. CASE written + 1 \in {1, 2, 3, 4, 5, 6, 25, 26}
        BY <1>1, <2>1, <2>2, <3>2, StatusStep, InTermsOfQueueAt
      <3>3. QED
        BY <2>1, <3>1, <3>2, WhichWrite
    <2>5. PICK r, v : DeviceWrite(r, v)
      BY <1>1 DEF WriteRegister
    <2>6. /\ accepted' \subseteq {0}
          /\ device' = "strict" => 8 \notin status'
          /\ device' = "legacy" => \A q \in Queues : ~queue'[q].ready
      BY <2>1, <2>5, AnyWrite
    <2>3. ASSUME layout = "struct" PROVE status' = {}
      <3> DEFINE w == Handshake[written + 1]
      <3>1. /\ w[1] \in {"|", "Status"} => \E u : DeviceWrite(Reached("Status"), u)
            /\ w[1] \notin {"|", "Status"} => \E u : DeviceWrite(Reached(w[1]), u)
        BY <1>1 DEF WriteRegister
      <3>2. w[1] \in {"|", "Status"} \/ w[1] \in Registers \ {"Status"}
        <4>1. CASE written + 1 \in {1, 2, 3, 4, 5, 6, 25, 26}
          <5>1. w[1] \in {"|", "Status", "DeviceFeaturesSel", "DriverFeatures", "QueueNotify"}
            BY <4>1, HandshakeIs
          <5>2. QED
            BY <5>1, RegistersAre DEF RegisterNames
        <4>2. ASSUME NEW q \in Queues, NEW i \in 1..9, written + 1 = 6 + 9 * q + i
              PROVE  w[1] \in Registers \ {"Status"}
          <5> DEFINE s == Setup(q)
          <5>1. w = s[i]
            BY <4>2, QueueWrite
          <5>2. /\ s[1][1] = "QueueSel" /\ s[2][1] = "QueueNum"
                /\ s[3][1] = "QueueDescLow"  /\ s[4][1] = "QueueDescHigh"
                /\ s[5][1] = "QueueAvailLow" /\ s[6][1] = "QueueAvailHigh"
                /\ s[7][1] = "QueueUsedLow"  /\ s[8][1] = "QueueUsedHigh"
                /\ s[9][1] = "QueueReady"
            <6>1. /\ s[1] = <<"QueueSel", q>> /\ s[2] = <<"QueueNum", RING_SIZE>>
                  /\ s[3] = <<"QueueDescLow", <<q, "desc">> >>
                  /\ s[4] = <<"QueueDescHigh", << >> >>
                  /\ s[5] = <<"QueueAvailLow", <<q, "avail">> >>
                  /\ s[6] = <<"QueueAvailHigh", << >> >>
                  /\ s[7] = <<"QueueUsedLow", <<q, "used">> >>
                  /\ s[8] = <<"QueueUsedHigh", << >> >>
                  /\ s[9] = <<"QueueReady", 1>>
              BY SetupIs
            <6> HIDE DEF s
            <6>2. QED
              BY <6>1
          <5> HIDE DEF s, w
          <5>3. w[1] \in RegisterNames \ {"Status"}
            BY <5>1, <5>2 DEF RegisterNames
          <5>4. QED
            BY <5>3, RegistersAre
        <4>3. QED
          BY <2>1, <4>1, <4>2, WhichWrite
      <3>3. \E p, u : DeviceWrite(p, u) /\ p # "Status"
        <4>1. CASE w[1] \in {"|", "Status"}
          <5>1. Reached("Status") = "none"
            BY <2>3, StructReach, RegistersAre DEF Reached, RegisterNames, Reachable
          <5>2. QED
            BY <3>1, <4>1, <5>1
        <4>2. CASE w[1] \in Registers \ {"Status"}
          <5> HIDE DEF w
          <5>1. Reached(w[1]) # "Status"
            BY <1>0, <4>2, Reaches
          <5>2. w[1] \notin {"|", "Status"}
            BY <4>2, RegistersAre DEF RegisterNames
          <5>3. QED
            BY <3>1, <5>1, <5>2
        <4>3. QED
          BY <3>2, <4>1, <4>2
      <3>4. status' = status
        BY <3>3 DEF DeviceWrite
      <3>5. QED
        BY <2>3, <3>4 DEF HandshakeInv
    <2>4. QED
      BY <2>1, <2>2, <2>3, <2>6 DEF HandshakeInv
  <1>2. ASSUME UNCHANGED <<layout, device, written, status, sel, queue, features>>
        PROVE  HandshakeInv'
    BY <1>2, InTermsOfQueueAt DEF HandshakeInv
  <1>3. CASE DeviceMissing \/ AddInterface \/ Announce \/ Reply
    BY <1>2, <1>3 DEF DeviceMissing, AddInterface, Announce, Reply, Enter
  <1>4. ASSUME NEW t \in Threads, Output(t) PROVE HandshakeInv'
    <2>1. CASE Notify(t)
      <3>1. UNCHANGED <<layout, device, written>>
        BY <2>1 DEF Notify
      <3>2. QED
        BY <1>0, <1>2, <2>1, <3>1, NotifyWrite
    <2>2. CASE ~ Notify(t)
      BY <1>2, <1>4, <2>2 DEF Output, Copy, Offer, Reload, Advance, Load, Count
    <2>3. QED
      BY <2>1, <2>2
  <1>5. CASE Device \/ UNCHANGED vars
    BY <1>2, <1>5 DEF Device, Transmit, Break, Rest, vars
  <1>6. QED
    BY <1>1, <1>3, <1>4, <1>5 DEF Next, Control

\* Nothing is written at the start.
LEMMA HandshakeInit == Init => HandshakeInv
  <1> SUFFICES ASSUME Init PROVE HandshakeInv
    OBVIOUS
  <1>1. ASSUME NEW q \in Queues PROVE QueueAt(queue[q], q, 0)
    <2>1. ~ (0 >= Ready(q)) /\ \A p \in DOMAIN Ring : ~ (0 >= Low(q)[p])
      BY Thresholds DEF Queues
    <2>2. QED
      BY <2>1 DEF Init, QueueAt, FreshQueue
  <1>2. StatusAt(0) = {} /\ SelAt(0) = 0
    BY DEF StatusAt, SelAt
  <1>3. FollowInv
    BY <1>1, <1>2, InTermsOfQueueAt DEF Init
  <1>4. QED
    BY <1>3 DEF Init, HandshakeInv, FreshQueue

\* The device always is as far as the writes have come.
LEMMA HandshakeInvariant == Spec => [](TypeInv /\ HandshakeInv)
  BY TypeInit, TypeStep, HandshakeInit, HandshakeStep, PTL DEF Spec

\* The handshake complete, a device that has not broken has both queues live
\* exactly if it is lenient and reached.
LEMMA HandshakeEnds == TypeInv /\ HandshakeInv => HandshakeSuffices
  <1> SUFFICES ASSUME TypeInv, HandshakeInv, boot = "up", NEW q \in Queues
               PROVE  Live(q) <=> (layout = "commented" /\ device = "lenient" /\ ~broken)
    BY DEF HandshakeSuffices
  <1>1. written = 26 /\ layout \in Layouts /\ device \in Devices
    BY HandshakeIs DEF TypeInv, TypeOK, QueueInv
  <1>2. ASSUME layout = "commented", device = "lenient" PROVE Live(q) <=> ~broken
    <2>0. FollowInv
      BY <1>2 DEF HandshakeInv
    <2>1. status = {1, 2, 4, 8}
      BY <1>1, <2>0, HandshakeIs DEF FollowInv, StatusAt
    <2>2. QueueAt(queue[q], q, 26)
      BY <1>1, <2>0, InTermsOfQueueAt
    <2>3. queue[q].ready
      BY <2>2, Thresholds DEF QueueAt, Queues
    <2>4. \A p \in Places : queue[q].at[p] = IF p \in DOMAIN Ring THEN <<q, Ring[p]>> ELSE << >>
      BY <2>2, Thresholds DEF QueueAt, Queues
    <2>5. DOMAIN queue[q].at = Places /\ queue[q].at = [p \in Places |-> queue[q].at[p]]
      BY DEF TypeInv, QueueInv
    <2>6. Placed(q)
      <3> DEFINE at(p) == CASE p = "QueueDescLow"  -> <<q, "desc">>
                            [] p = "QueueAvailLow" -> <<q, "avail">>
                            [] p = "QueueUsedLow"  -> <<q, "used">>
                            [] OTHER               -> << >>
      <3>1. ASSUME NEW p \in Places PROVE queue[q].at[p] = at(p)
        BY <2>4, Thresholds DEF Places
      <3>2. queue[q].at = [p \in Places |-> at(p)]
        BY <2>5, <3>1
      <3>3. QED
        BY <3>2 DEF Placed
    <2>7. QED
      BY <2>1, <2>3, <2>6 DEF Live
  <1>3. ASSUME layout = "struct" \/ device = "strict" PROVE ~Live(q)
    <2>1. 8 \notin status
      BY <1>3 DEF HandshakeInv
    <2>2. QED
      BY <2>1 DEF Live
  <1>4. ASSUME device = "legacy" PROVE ~Live(q)
    BY <1>4 DEF HandshakeInv, Live
  <1>5. QED
    BY <1>1, <1>2, <1>3, <1>4, LayoutAssumption, DeviceAssumption

\* The 26 writes of the handshake suffice for exactly one kind of device and one
\* layout of the registers, whatever the size of the ring: a lenient device that
\* has them where the comments say has both queues, where the driver has put
\* them, until it breaks.  A device that insists on VERSION_1, one that knows its
\* queues by other registers, and one behind the structure has neither.
THEOREM HandshakeResult == Spec => []HandshakeSuffices
  BY HandshakeInvariant, HandshakeEnds, PTL

-----------------------------------------------------------------------------
(* Indices and places.                                                     *)

\* A ring entry is found by the index as it would be by the running number.
LEMMA Place ==
  ASSUME NEW a \in Int, NEW b \in Int
  PROVE  /\ ((a % IdxMod) + b) % RING_SIZE = (a + b) % RING_SIZE
         /\ (a % IdxMod) % RING_SIZE = a % RING_SIZE
  <1>1. PICK k \in Nat \ {0} : IdxMod = k * RING_SIZE
    BY Sizes
  <1>2. RING_SIZE \in Nat \ {0}
    BY Sizes
  <1>3. ((a % (k * RING_SIZE)) + b) % RING_SIZE = (a + b) % RING_SIZE
    BY <1>2, IndexPlace
  <1>4. (a % (k * RING_SIZE)) % RING_SIZE = a % RING_SIZE
    BY <1>2, ModMod
  <1>5. QED
    BY <1>1, <1>3, <1>4

\* The index after that of a running number is that of the next number.
LEMMA SuccOf ==
  ASSUME NEW a \in Int
  PROVE  Succ(a % IdxMod) = (a + 1) % IdxMod
  BY Sizes, ModAdd DEF Succ

\* Numbers less than a ring apart have places of their own.
LEMMA SamePlace ==
  ASSUME NEW a \in Int, NEW b \in Int, a <= b, b < a + RING_SIZE,
         a % RING_SIZE = b % RING_SIZE
  PROVE  a = b
  BY Sizes, ModInjective

\* What every proof about the frames starts from.
LEMMA Typed ==
  ASSUME TypeInv
  PROVE  /\ handed \in Nat /\ overlap \in Nat
         /\ sent \in Seq(Nat) /\ Len(sent) \in Nat
         /\ \A i \in 1..Len(sent) : sent[i] \in Nat
         /\ \A s \in Slots : tx_buffer[s] \in Nat /\ avail_ring[s] \in Slots
         /\ \A t \in Threads : frame[t] \in Nat /\ desc_idx[t] \in Slots
                               /\ idx[t] \in 0..(IdxMod - 1)
         /\ avail_idx \in 0..(IdxMod - 1) /\ tx_idx \in 0..(IdxMod - 1)
         /\ dev_idx \in 0..(IdxMod - 1)
         /\ tpc \in [Threads -> {"out", "copy", "offer", "index", "notify", "count", "store"}]
         /\ tx_buffer \in [Slots -> Nat] /\ avail_ring \in [Slots -> Slots]
         /\ frame \in [Threads -> Nat] /\ desc_idx \in [Threads -> Slots]
         /\ idx \in [Threads -> 0..(IdxMod - 1)]
         /\ lapped \in BOOLEAN
  <1>1. MaxFrames \in Nat /\ sent \in Seq(0..MaxFrames)
    BY BoundAssumption DEF TypeInv, TypeOK
  <1>2. sent \in Seq(Nat) /\ Len(sent) \in Nat /\ \A i \in 1..Len(sent) : sent[i] \in Nat
    BY <1>1
  <1>3. QED
    BY <1>1, <1>2 DEF TypeInv, TypeOK

-----------------------------------------------------------------------------
(* Frames and threads.                                                     *)

\* The steps that touch neither a frame nor a thread.
Apart == UNCHANGED <<tx_buffer, avail_ring, avail_idx, tx_idx, tpc, desc_idx, idx, frame,
                     dev_idx, handed, sent, overlap, lapped>>

\* Every step is one that touches neither a frame nor a thread, or the entry
\* of a thread, or a step of a thread inside, or the device sends a frame.
LEMMA Steps ==
  ASSUME [Next]_vars
  PROVE  Apart \/ (\E t \in Threads : Enter(t) \/ Output(t)) \/ Transmit
  <1> USE DEF registers, ring, locals, history
  <1>1. CASE WriteRegister \/ DeviceMissing \/ AddInterface
    BY <1>1 DEF WriteRegister, DeviceMissing, AddInterface, Apart
  <1>2. CASE Announce \/ Reply
    <2>1. "control" \in Threads /\ "irq" \in Threads
      BY DEF Threads
    <2>2. QED
      BY <1>2, <2>1 DEF Announce, Reply, Apart
  <1>3. CASE Break \/ Rest \/ UNCHANGED vars
    BY <1>3 DEF Break, Rest, vars, Apart
  <1>4. QED
    BY <1>1, <1>2, <1>3 DEF Next, Control, Device

\* No step brings up a frame that was not handed over.
LEMMA NumberStep ==
  ASSUME TypeInv, NumberInv, [Next]_vars
  PROVE  NumberInv'
  <1> USE DEF registers, ring, locals, history
  <1>0. TypeInv'
    BY TypeStep
  <1>1. CASE Apart
    BY <1>1 DEF Apart, NumberInv
  <1>2. ASSUME NEW t \in Threads, Enter(t) PROVE NumberInv'
    <2>1. /\ handed' = handed + 1 /\ frame' = [frame EXCEPT ![t] = handed']
          /\ overlap' = handed' \/ overlap' = overlap
          /\ UNCHANGED <<tx_buffer, sent>>
      BY <1>2 DEF Enter
    <2>2. /\ \A s \in Slots : tx_buffer[s] <= handed + 1
          /\ \A i \in 1..Len(sent) : sent[i] <= handed + 1
          /\ overlap <= handed + 1
      BY Typed DEF NumberInv
    <2>3. \A u \in Threads : frame'[u] <= handed + 1
      BY <2>1, Typed DEF NumberInv
    <2>4. QED
      BY <2>1, <2>2, <2>3, Typed DEF NumberInv
  <1>3. ASSUME NEW t \in Threads, Copy(t) PROVE NumberInv'
    BY <1>3, Typed DEF Copy, NumberInv
  <1>4. ASSUME NEW t \in Threads, Output(t), ~ Copy(t) PROVE NumberInv'
    BY <1>4 DEF Output, Offer, Reload, Advance, Notify, Load, Count, NumberInv
  <1>5. CASE Transmit
    <2> DEFINE f == tx_buffer[avail_ring[dev_idx % RING_SIZE]]
    <2>1. f \in Nat /\ f <= handed
      <3>1. dev_idx % RING_SIZE \in Slots
        BY Typed, Sizes, SlotOf
      <3>2. QED
        BY <3>1, Typed DEF NumberInv
    <2>2. sent' = Append(sent, f) /\ UNCHANGED <<ring, locals, history>>
      BY <1>5 DEF Transmit
    <2> HIDE DEF f
    <2>3. \A i \in 1..Len(sent') : sent'[i] <= handed
      BY <2>1, <2>2, Typed DEF NumberInv
    <2>4. QED
      BY <2>2, <2>3 DEF NumberInv
  <1>6. QED
    BY <1>1, <1>2, <1>3, <1>4, <1>5, Steps

\* A thread that enters while another is inside counts as an overlap, so that
\* after the last one there is at most one thread inside.
LEMMA AloneStep ==
  ASSUME TypeInv, NumberInv, AloneInv, [Next]_vars
  PROVE  AloneInv'
  <1> USE DEF registers, ring, locals, history
  <1>1. CASE Apart \/ Transmit
    BY <1>1 DEF Apart, Transmit, AloneInv
  <1>2. ASSUME NEW t \in Threads, Enter(t) PROVE AloneInv'
    <2>1. /\ handed' = handed + 1 /\ frame' = [frame EXCEPT ![t] = handed']
          /\ tpc' = [tpc EXCEPT ![t] = "copy"] /\ idx' = idx /\ avail_idx' = avail_idx
          /\ overlap' = IF \E u \in Threads : tpc[u] # "out" THEN handed' ELSE overlap
      BY <1>2 DEF Enter
    <2>2. CASE \E u \in Threads : tpc[u] # "out"
      <3>1. handed' = handed + 1 /\ overlap' = handed + 1 /\ handed \in Nat
        BY <2>1, <2>2, Typed
      <3>2. ~ (handed' > overlap') /\ handed' # 0
        BY <3>1
      <3>3. QED
        BY <3>2 DEF AloneInv
    <2>3. CASE \A u \in Threads : tpc[u] = "out"
      BY <2>1, <2>3, Typed DEF AloneInv
    <2>4. QED
      BY <2>2, <2>3
  <1>3. ASSUME NEW t \in Threads, Output(t) PROVE AloneInv'
    <2>1. /\ handed' = handed /\ overlap' = overlap /\ frame' = frame
          /\ tpc[t] # "out" /\ \E p : tpc' = [tpc EXCEPT ![t] = p]
      <3>1. CASE Reload(t)
        BY <3>1, Typed DEF Reload
      <3>2. CASE ~ Reload(t)
        BY <1>3, <3>2 DEF Output, Copy, Offer, Advance, Notify, Load, Count
      <3>3. QED
        BY <3>1, <3>2
    <2>2. handed # 0
      BY <2>1 DEF AloneInv
    <2>3. ASSUME handed > overlap
          PROVE  /\ \A v, u \in Threads : tpc'[v] # "out" /\ tpc'[u] # "out" => v = u
                 /\ \A v \in Threads : tpc'[v] # "out" => frame[v] = handed
                 /\ \A v \in Threads : tpc'[v] = "index" => idx'[v] = avail_idx'
      <3>1. \A u \in Threads : tpc[u] # "out" => u = t
        BY <2>1, <2>3 DEF AloneInv
      <3>2. \A u \in Threads : tpc'[u] # "out" => u = t
        BY <2>1, <3>1, Typed
      <3>3. frame[t] = handed
        BY <2>1, <2>3 DEF AloneInv
      <3>4. tpc'[t] = "index" => idx'[t] = avail_idx'
        <4>1. CASE Offer(t) \/ Reload(t)
          BY <4>1, Typed DEF Offer, Reload
        <4>2. CASE Copy(t) \/ Advance(t) \/ Notify(t) \/ Load(t) \/ Count(t)
          BY <4>2, Typed DEF Copy, Advance, Notify, Load, Count
        <4>3. QED
          BY <1>3, <4>1, <4>2 DEF Output
      <3>5. QED
        BY <3>2, <3>3, <3>4
    <2>4. QED
      BY <2>1, <2>2, <2>3 DEF AloneInv
  <1>4. QED
    BY <1>1, <1>2, <1>3, Steps

\* At the start there is no frame, and no thread inside.
LEMMA FrameInit == Init => NumberInv /\ AloneInv
  <1> SUFFICES ASSUME Init PROVE NumberInv /\ AloneInv
    OBVIOUS
  <1>1. Len(sent) = 0
    BY DEF Init
  <1>2. QED
    BY <1>1 DEF Init, NumberInv, AloneInv

-----------------------------------------------------------------------------
(* What waits for the device.                                              *)

\* How far one index is behind another.
LEMMA DistanceIs ==
  ASSUME NEW a \in 0..(IdxMod - 1), NEW b \in 0..(IdxMod - 1)
  PROVE  Distance(a, b) = IF a <= b THEN b - a ELSE b + IdxMod - a
  <1>1. a \in Int /\ b \in Int /\ IdxMod \in Nat \ {0} /\ a % IdxMod = a /\ b % IdxMod = b
    BY Sizes, ModSmall
  <1>2. CASE a <= b
    <2>1. b < a + IdxMod
      BY <1>1
    <2>2. ((b % IdxMod) + IdxMod - (a % IdxMod)) % IdxMod = b - a
      BY <1>1, <1>2, <2>1, IndexDistance
    <2>3. QED
      BY <1>1, <1>2, <2>2 DEF Distance
  <1>3. CASE b < a
    <2>1. b + IdxMod - a \in 0..(IdxMod - 1)
      BY <1>1, <1>3
    <2>2. QED
      BY <1>1, <1>3, <2>1, ModSmall DEF Distance
  <1>4. QED
    BY <1>1, <1>2, <1>3

\* The distance leads from the one index to the other, and the place after the
\* last buffer that waits is the one at the index.
LEMMA DistanceLeads ==
  ASSUME NEW a \in 0..(IdxMod - 1), NEW b \in 0..(IdxMod - 1)
  PROVE  /\ Distance(a, b) \in 0..(IdxMod - 1)
         /\ Distance(a, b) = 0 <=> a = b
         /\ (a + Distance(a, b)) % RING_SIZE = b % RING_SIZE
  <1>1. a \in Int /\ b \in Int /\ IdxMod \in Nat \ {0}
    BY Sizes
  <1>2. Distance(a, b) \in 0..(IdxMod - 1) /\ (Distance(a, b) = 0 <=> a = b)
    BY <1>1, DistanceIs
  <1>3. (b + IdxMod) % RING_SIZE = b % RING_SIZE
    <2>1. PICK k \in Nat \ {0} : IdxMod = k * RING_SIZE
      BY Sizes
    <2>2. RING_SIZE \in Nat \ {0} /\ IdxMod = RING_SIZE * k
      BY <2>1, Sizes
    <2>3. (b + RING_SIZE * k) % RING_SIZE = b % RING_SIZE
      <3>1. b \in Int /\ k \in Int /\ RING_SIZE \in Nat \ {0}
        BY <1>1, <2>2
      <3>2. QED
        BY ONLY <3>1, ModPeriod
    <2>4. QED
      BY <2>2, <2>3
  <1>4. a + Distance(a, b) = b \/ a + Distance(a, b) = b + IdxMod
    BY <1>1, DistanceIs
  <1>5. QED
    BY <1>2, <1>3, <1>4

\* One step of either index.
LEMMA DistanceStep ==
  ASSUME NEW a \in 0..(IdxMod - 1), NEW b \in 0..(IdxMod - 1)
  PROVE  /\ Distance(a, b) < IdxMod - 1 => Distance(a, Succ(b)) = Distance(a, b) + 1
         /\ a # b => Distance(Succ(a), b) = Distance(a, b) - 1
  <1>1. a \in Int /\ b \in Int /\ IdxMod \in Nat \ {0} /\ IdxMod > 1
    BY Sizes
  <1>2. ASSUME NEW i \in 0..(IdxMod - 1)
        PROVE  Succ(i) = IF i = IdxMod - 1 THEN 0 ELSE i + 1
    <2>1. CASE i = IdxMod - 1
      <3>1. i + 1 = IdxMod * 1 + 0 /\ 0 \in 0..(IdxMod - 1) /\ i + 1 \in Int /\ 1 \in Int
        BY <1>1, <2>1
      <3>2. QED
        BY <1>1, <2>1, <3>1, ModUnique DEF Succ
    <2>2. CASE i # IdxMod - 1
      <3>1. i + 1 \in 0..(IdxMod - 1)
        BY <1>1, <2>2
      <3>2. QED
        BY <1>1, <2>2, <3>1, ModSmall DEF Succ
    <2>3. QED
      BY <2>1, <2>2
  <1>3. Succ(a) \in 0..(IdxMod - 1) /\ Succ(b) \in 0..(IdxMod - 1)
    BY <1>1, <1>2
  <1>4. Distance(a, b) < IdxMod - 1 => Distance(a, Succ(b)) = Distance(a, b) + 1
    <2>1. Distance(a, b) = IF a <= b THEN b - a ELSE b + IdxMod - a
      BY DistanceIs
    <2>2. Distance(a, Succ(b)) = IF a <= Succ(b) THEN Succ(b) - a ELSE Succ(b) + IdxMod - a
      BY <1>3, DistanceIs
    <2>3. Succ(b) = IF b = IdxMod - 1 THEN 0 ELSE b + 1
      BY <1>2
    <2>4. QED
      BY ONLY <1>1, <2>1, <2>2, <2>3, a \in 0..(IdxMod - 1), b \in 0..(IdxMod - 1)
  <1>5. a # b => Distance(Succ(a), b) = Distance(a, b) - 1
    <2>1. Distance(a, b) = IF a <= b THEN b - a ELSE b + IdxMod - a
      BY DistanceIs
    <2>2. Distance(Succ(a), b) = IF Succ(a) <= b THEN b - Succ(a) ELSE b + IdxMod - Succ(a)
      BY <1>3, DistanceIs
    <2>3. Succ(a) = IF a = IdxMod - 1 THEN 0 ELSE a + 1
      BY <1>2
    <2>4. QED
      BY ONLY <1>1, <2>1, <2>2, <2>3, a \in 0..(IdxMod - 1), b \in 0..(IdxMod - 1)
  <1>6. QED
    BY <1>4, <1>5

\* The k-th buffer that waits is the one before it, once the device is a step
\* further.
LEMMA PlaceStep ==
  ASSUME NEW a \in 0..(IdxMod - 1), NEW k \in Int
  PROVE  (Succ(a) + k) % RING_SIZE = (a + (k + 1)) % RING_SIZE
  <1>1. a \in Int /\ a + 1 \in Int
    BY Sizes
  <1>2. (((a + 1) % IdxMod) + k) % RING_SIZE = ((a + 1) + k) % RING_SIZE
    BY <1>1, Place
  <1>3. (a + 1) + k = a + (k + 1)
    BY <1>1
  <1>4. QED
    BY <1>2, <1>3 DEF Succ

\* Each entry of the rings that is looked at is one.
LEMMA WaitingType ==
  ASSUME TypeInv
  PROVE  /\ Ahead \in 0..(IdxMod - 1)
         /\ Ahead = 0 <=> dev_idx = avail_idx
         /\ (dev_idx + Ahead) % RING_SIZE = avail_idx % RING_SIZE
         /\ \A k \in Int : (dev_idx + k) % RING_SIZE \in Slots
         /\ \A k \in 0..(Ahead - 1) : k \in Int
  <1>1. dev_idx \in 0..(IdxMod - 1) /\ avail_idx \in 0..(IdxMod - 1) /\ dev_idx \in Int
    BY Typed
  <1>2. /\ Ahead \in 0..(IdxMod - 1)
        /\ Ahead = 0 <=> dev_idx = avail_idx
        /\ (dev_idx + Ahead) % RING_SIZE = avail_idx % RING_SIZE
    BY <1>1, DistanceLeads DEF Ahead
  <1>3. ASSUME NEW k \in Int PROVE (dev_idx + k) % RING_SIZE \in Slots
    <2>1. dev_idx + k \in Int
      BY <1>1
    <2>2. QED
      BY <2>1, SlotOf
  <1>4. \A k \in 0..(Ahead - 1) : k \in Int
    BY <1>2
  <1>5. QED
    BY <1>2, <1>3, <1>4

-----------------------------------------------------------------------------
(* Where each frame is.                                                    *)

\* While nothing is sent and the same frames wait, every frame is where it was.
LEMMA StillThere ==
  ASSUME sent' = sent, Ahead' = Ahead, \A k \in 0..(Ahead - 1) : Waiting(k)' = Waiting(k), NEW f
  PROVE  /\ Settled(f)' <=> Settled(f)
         /\ Never(f)' <=> Never(f)
         /\ Nowhere(f)' <=> Nowhere(f)
  BY DEF Settled, Never, Once, Nowhere, AtOne

\* Nothing waits that was not handed over.
LEMMA WaitingNumber ==
  ASSUME TypeInv, NumberInv, NEW k \in 0..(Ahead - 1)
  PROVE  Waiting(k) \in Nat /\ Waiting(k) <= handed
  <1>1. (dev_idx + k) % RING_SIZE \in Slots
    BY WaitingType
  <1>2. QED
    BY <1>1, Typed DEF Waiting, NumberInv

\* Steps of a thread that has advanced its index, and steps of no thread.
LEMMA StageUndisturbed ==
  ASSUME StageInv,
         UNCHANGED <<tx_buffer, avail_ring, avail_idx, desc_idx, frame, dev_idx, sent, handed,
                     overlap, lapped>>,
         \/ tpc' = tpc
         \/ \A u \in Threads : /\ Working(u)' <=> Working(u)
                               /\ Working(u) => tpc'[u] = tpc[u]
  PROVE  StageInv'
  <1>1. Ahead' = Ahead /\ \A k \in 0..(Ahead - 1) : Waiting(k)' = Waiting(k)
    BY DEF Ahead, Waiting
  <1>2. \A u \in Threads : (Working(u)' <=> Working(u)) /\ (Working(u) => tpc'[u] = tpc[u])
    BY DEF Working
  <1>3. ASSUME NEW f PROVE (Due(f)' <=> Due(f)) /\ (Settled(f)' <=> Settled(f))
    BY <1>1, <1>2, StillThere DEF Due
  <1>4. ASSUME NEW u \in Threads, Working(u), InHand(u) PROVE InHand(u)'
    BY <1>1, <1>2, <1>4, StillThere DEF InHand
  <1>5. QED
    BY <1>2, <1>3, <1>4 DEF StageInv

\* The frame of a thread that enters is in no buffer and was never sent.
LEMMA StageEnter ==
  ASSUME TypeInv, NumberInv, StageInv, NEW t \in Threads, Enter(t)
  PROVE  StageInv'
  <1>1. /\ handed' = handed + 1 /\ frame' = [frame EXCEPT ![t] = handed']
        /\ tpc' = [tpc EXCEPT ![t] = "copy"]
        /\ overlap' = IF \E u \in Threads : tpc[u] # "out" THEN handed' ELSE overlap
        /\ UNCHANGED <<tx_buffer, avail_ring, avail_idx, dev_idx, sent, lapped>>
    BY DEF Enter, ring
  <1>2. /\ handed \in Nat /\ overlap \in Nat
        /\ tpc \in [Threads -> {"out", "copy", "offer", "index", "notify", "count", "store"}]
    BY Typed
  <1>3. CASE \E u \in Threads : tpc[u] # "out"
    <2>1. overlap' = handed + 1 /\ handed' = handed + 1
      BY <1>1, <1>3
    <2>2. (overlap' + 1)..handed' = {} /\ ~ (handed' > overlap')
      BY <1>2, <2>1
    <2>3. QED
      BY <2>2 DEF StageInv
  <1>4. CASE \A u \in Threads : tpc[u] = "out"
    <2>1. overlap' = overlap
      BY <1>1, <1>4
    <2>2. Ahead' = Ahead /\ \A k \in 0..(Ahead - 1) : Waiting(k)' = Waiting(k)
      BY <1>1 DEF Ahead, Waiting
    <2>3. \A u \in Threads : Working(u)' => u = t
      BY <1>1, <1>2, <1>4 DEF Working
    <2>4. ASSUME ~lapped, NEW f \in (overlap' + 1)..handed', Due(f)' PROVE Settled(f)'
      <3>1. f # handed + 1
        <4>1. Working(t)' /\ frame'[t] = handed + 1
          BY <1>1, <1>2, Typed DEF Working
        <4>2. QED
          BY <2>4, <4>1 DEF Due
      <3>2. f \in (overlap + 1)..handed
        BY <1>1, <1>2, <2>1, <3>1
      <3>3. Due(f)
        BY <1>4 DEF Due, Working
      <3>4. QED
        BY <1>1, <2>2, <2>4, <3>2, <3>3, StillThere DEF StageInv
    <2>5. ASSUME NEW u \in Threads, Working(u)' PROVE InHand(u)'
      <3>1. u = t /\ tpc'[u] = "copy"
        BY <1>1, <1>2, <2>3, <2>5
      <3>2. \A s \in Slots : tx_buffer[s] # handed + 1
        BY <1>2, Typed DEF NumberInv
      <3>3. PICK n : n = handed + 1
        OBVIOUS
      <3>4. Never(n)
        BY <1>2, <3>3, Typed DEF NumberInv, Never
      <3>5. Nowhere(n)
        BY <1>2, <3>3, WaitingNumber DEF Nowhere
      <3>6. Never(handed)' /\ Nowhere(handed)'
        <4>1. Never(n)' /\ Nowhere(n)' /\ handed' = n
          BY <1>1, <2>2, <3>3, <3>4, <3>5, StillThere
        <4>2. QED
          BY <4>1 DEF Never, Nowhere
      <3>7. QED
        BY <1>1, <3>1, <3>2, <3>6 DEF InHand
    <2>6. QED
      BY <1>1, <2>4, <2>5 DEF StageInv
  <1>5. QED
    BY <1>3, <1>4

\* A buffer that waits is filled again only where that is noted.
LEMMA StageCopy ==
  ASSUME TypeInv, NumberInv, AloneInv, StageInv, NEW t \in Threads, Copy(t)
  PROVE  StageInv'
  <1> SUFFICES ASSUME ~lapped'
               PROVE  /\ \A f \in (overlap' + 1)..handed' : Due(f)' => Settled(f)'
                      /\ \A u \in Threads : handed' > overlap' /\ Working(u)' => InHand(u)'
    BY DEF StageInv
  <1>1. /\ tpc[t] = "copy" /\ tpc' = [tpc EXCEPT ![t] = "offer"]
        /\ tx_buffer' = [tx_buffer EXCEPT ![desc_idx[t]] = frame[t]]
        /\ UNCHANGED <<avail_ring, avail_idx, desc_idx, frame, dev_idx, sent, handed, overlap>>
        /\ ~lapped /\ desc_idx[t] \notin Unsent
    BY DEF Copy
  <1>2. Ahead' = Ahead /\ \A k \in 0..(Ahead - 1) : Waiting(k)' = Waiting(k)
    <2>1. Ahead' = Ahead
      BY <1>1 DEF Ahead
    <2>2. ASSUME NEW k \in 0..(Ahead - 1) PROVE Waiting(k)' = Waiting(k)
      <3> DEFINE s == avail_ring[(dev_idx + k) % RING_SIZE]
      <3>1. s \in Unsent
        BY DEF Unsent, Ahead
      <3>2. s \in Slots
        BY WaitingType, Typed
      <3>3. tx_buffer'[s] = tx_buffer[s]
        BY <1>1, <3>1, <3>2, Typed
      <3>4. QED
        BY <1>1, <3>3 DEF Waiting
    <2>3. QED
      BY <2>1, <2>2
  <1>3. \A u \in Threads : Working(u)' <=> Working(u)
    BY <1>1, Typed DEF Working
  <1>4. \A f : (Due(f)' <=> Due(f)) /\ (Settled(f)' <=> Settled(f))
    BY <1>1, <1>2, <1>3, StillThere DEF Due
  <1>5. ASSUME NEW u \in Threads, handed > overlap, Working(u) PROVE InHand(u)'
    <2>1. u = t /\ frame[t] = handed
      BY <1>1, <1>5 DEF AloneInv, Working
    <2>2. Never(handed) /\ Nowhere(handed)
      BY <1>1, <1>5 DEF StageInv, InHand
    <2>3. Never(handed)' /\ Nowhere(handed)'
      BY <1>1, <1>2, <2>2 DEF Never, Nowhere
    <2>4. tpc'[t] = "offer" /\ tx_buffer'[desc_idx[t]] = handed
      BY <1>1, <2>1, Typed
    <2>5. QED
      BY <1>1, <2>1, <2>3, <2>4 DEF InHand
  <1>6. QED
    BY <1>1, <1>3, <1>4, <1>5 DEF StageInv

\* The entry that is written is not one of those that wait.
LEMMA StageOffer ==
  ASSUME TypeInv, NumberInv, AloneInv, StageInv, NEW t \in Threads, Offer(t)
  PROVE  StageInv'
  <1> SUFFICES ASSUME ~lapped'
               PROVE  /\ \A f \in (overlap' + 1)..handed' : Due(f)' => Settled(f)'
                      /\ \A u \in Threads : handed' > overlap' /\ Working(u)' => InHand(u)'
    BY DEF StageInv
  <1> DEFINE p == avail_idx % RING_SIZE
  <1>1. /\ tpc[t] = "offer" /\ tpc' = [tpc EXCEPT ![t] = "index"]
        /\ avail_ring' = [avail_ring EXCEPT ![p] = desc_idx[t]]
        /\ UNCHANGED <<tx_buffer, avail_idx, desc_idx, frame, dev_idx, sent, handed, overlap>>
        /\ ~lapped /\ ~ (Ahead >= RING_SIZE)
    BY DEF Offer, Ahead
  <1>0. /\ Ahead \in Nat /\ Ahead < RING_SIZE /\ RING_SIZE \in Nat
        /\ dev_idx \in Int /\ p \in Slots
        /\ (dev_idx + Ahead) % RING_SIZE = p
    <2>1. avail_idx \in Int /\ dev_idx \in Int /\ RING_SIZE \in Nat /\ IdxMod \in Nat
      BY Typed, Sizes
    <2>2. QED
      BY <1>1, <2>1, WaitingType, SlotOf
  <1> HIDE DEF p
  <1>2. Ahead' = Ahead /\ \A k \in 0..(Ahead - 1) : Waiting(k)' = Waiting(k)
    <2>1. Ahead' = Ahead
      BY <1>1 DEF Ahead
    <2>2. ASSUME NEW k \in 0..(Ahead - 1) PROVE Waiting(k)' = Waiting(k)
      <3>1. (dev_idx + k) % RING_SIZE # p
        <4>1. /\ dev_idx + k \in Int /\ dev_idx + Ahead \in Int /\ dev_idx + k < dev_idx + Ahead
              /\ dev_idx + Ahead < (dev_idx + k) + RING_SIZE
          BY <1>0
        <4>2. (dev_idx + k) % RING_SIZE # (dev_idx + Ahead) % RING_SIZE
          BY <4>1, SamePlace
        <4>3. QED
          BY <1>0, <4>2
      <3>2. (dev_idx + k) % RING_SIZE \in Slots
        BY WaitingType
      <3>3. QED
        BY <1>0, <1>1, <3>1, <3>2, Typed DEF Waiting
    <2>3. QED
      BY <2>1, <2>2
  <1>3. \A u \in Threads : Working(u)' <=> Working(u)
    BY <1>1, Typed DEF Working
  <1>4. \A f : (Due(f)' <=> Due(f)) /\ (Settled(f)' <=> Settled(f))
    BY <1>1, <1>2, <1>3, StillThere DEF Due
  <1>5. ASSUME NEW u \in Threads, handed > overlap, Working(u) PROVE InHand(u)'
    <2>1. u = t
      BY <1>1, <1>5 DEF AloneInv, Working
    <2>2. Never(handed) /\ Nowhere(handed) /\ tx_buffer[desc_idx[t]] = handed
      BY <1>1, <1>5, <2>1 DEF StageInv, InHand
    <2>3. Never(handed)' /\ Nowhere(handed)'
      BY <1>1, <1>2, <2>2 DEF Never, Nowhere
    <2>4. tpc'[t] = "index" /\ avail_ring'[avail_idx' % RING_SIZE] = desc_idx[t]
      BY <1>0, <1>1, Typed DEF p
    <2>5. QED
      BY <1>0, <1>1, <1>2, <2>1, <2>2, <2>3, <2>4 DEF InHand
  <1>6. QED
    BY <1>1, <1>3, <1>4, <1>5 DEF StageInv

\* The buffer that the index passes is the next that waits.
LEMMA StageAdvance ==
  ASSUME TypeInv, NumberInv, AloneInv, StageInv, NEW t \in Threads, Advance(t)
  PROVE  StageInv'
  <1> SUFFICES ASSUME ~lapped'
               PROVE  /\ \A f \in (overlap' + 1)..handed' : Due(f)' => Settled(f)'
                      /\ \A u \in Threads : handed' > overlap' /\ Working(u)' => InHand(u)'
    BY DEF StageInv
  <1>1. /\ tpc[t] = "index" /\ tpc' = [tpc EXCEPT ![t] = "notify"] /\ avail_idx' = Succ(idx[t])
        /\ UNCHANGED <<tx_buffer, avail_ring, desc_idx, frame, dev_idx, sent, handed, overlap>>
        /\ ~lapped
    BY DEF Advance, history
  <1>2. handed \in Nat /\ overlap \in Nat
    BY Typed
  <1>3. CASE ~ (handed > overlap)
    BY <1>1, <1>2, <1>3
  <1>4. CASE handed > overlap
    <2>1. /\ idx[t] = avail_idx /\ frame[t] = handed
          /\ \A u \in Threads : tpc[u] # "out" => u = t
      BY <1>1, <1>4 DEF AloneInv
    <2>2. InHand(t)
      BY <1>1, <1>4 DEF StageInv, Working
    <2>3. Ahead \in Nat /\ Ahead' = Ahead + 1
      <3>1. /\ dev_idx \in 0..(IdxMod - 1) /\ avail_idx \in 0..(IdxMod - 1)
            /\ RING_SIZE \in Nat /\ IdxMod \in Nat /\ RING_SIZE < IdxMod
        BY Typed, Sizes
      <3>2. Ahead \in Nat /\ Ahead < IdxMod - 1
        BY <1>1, <2>2, <3>1, WaitingType DEF InHand
      <3>3. Distance(dev_idx, Succ(avail_idx)) = Distance(dev_idx, avail_idx) + 1
        BY <3>1, <3>2, DistanceStep DEF Ahead
      <3>4. QED
        BY <1>1, <2>1, <3>2, <3>3 DEF Ahead
    <2>4. \A k : Waiting(k)' = Waiting(k)
      BY <1>1 DEF Waiting
    <2>5. Waiting(Ahead) = handed
      BY <1>1, <2>2, WaitingType DEF InHand, Waiting
    <2>6. \A u \in Threads : ~ Working(u)'
      BY <1>1, <2>1, Typed DEF Working
    <2>7. PICK n : n = Ahead
      OBVIOUS
    <2>8. /\ n \in Nat /\ Ahead = n /\ Ahead' = n + 1 /\ Waiting(n) = handed
          /\ \A k \in 0..n : k \in 0..(n - 1) \/ k = n
          /\ \A k \in 0..(n - 1) : k \in 0..n
      BY <2>3, <2>5, <2>7
    <2>9. ASSUME NEW f \in (overlap + 1)..handed PROVE Settled(f)'
      <3>1. /\ Never(f)' <=> Never(f)
            /\ Once(f)' <=> Once(f)
        BY <1>1 DEF Never, Once
      <3>2. CASE f = handed
        <4>1. Never(f)' /\ Nowhere(f)
          BY <2>2, <3>1, <3>2 DEF InHand
        <4>2. \A l \in 0..n : Waiting(l) = f <=> l = n
          BY <2>8, <3>2, <4>1 DEF Nowhere
        <4>3. AtOne(f)'
          <5>1. n \in 0..((n + 1) - 1) /\ (n + 1) - 1 = n
            BY <2>8
          <5>2. QED
            BY <2>4, <2>8, <4>2, <5>1 DEF AtOne
        <4>4. QED
          BY <4>1, <4>3 DEF Settled
      <3>3. CASE f # handed
        <4>1. Settled(f)
          BY <1>1, <2>1, <3>3 DEF StageInv, Due, Working
        <4>2. (n + 1) - 1 = n
          BY <2>8
        <4>3. Nowhere(f) => Nowhere(f)'
          BY <2>4, <2>8, <3>3, <4>2 DEF Nowhere
        <4>4. AtOne(f) => AtOne(f)'
          BY <2>4, <2>8, <3>3, <4>2 DEF AtOne
        <4>5. QED
          BY <3>1, <4>1, <4>3, <4>4 DEF Settled
      <3>4. QED
        BY <3>2, <3>3
    <2>10. QED
      BY <1>1, <2>6, <2>9
  <1>5. QED
    BY <1>3, <1>4

\* The first frame that waits has now been sent, and the others wait a place
\* nearer.
LEMMA StageTransmit ==
  ASSUME TypeInv, NumberInv, AloneInv, StageInv, Transmit
  PROVE  StageInv'
  <1> SUFFICES ASSUME ~lapped'
               PROVE  /\ \A f \in (overlap' + 1)..handed' : Due(f)' => Settled(f)'
                      /\ \A u \in Threads : handed' > overlap' /\ Working(u)' => InHand(u)'
    BY DEF StageInv
  <1>1. /\ UNCHANGED <<tx_buffer, avail_ring, avail_idx, tpc, desc_idx, frame, handed, overlap>>
        /\ ~lapped /\ dev_idx # avail_idx /\ dev_idx' = Succ(dev_idx)
        /\ sent' = Append(sent, tx_buffer[avail_ring[dev_idx % RING_SIZE]])
    BY DEF Transmit, ring, locals, history
  <1>2. /\ dev_idx \in 0..(IdxMod - 1) /\ avail_idx \in 0..(IdxMod - 1) /\ dev_idx \in Int
        /\ IdxMod \in Nat \ {0} /\ sent \in Seq(Nat) /\ Len(sent) \in Nat
    BY Typed, Sizes
  <1>3. PICK n : n = Ahead
    OBVIOUS
  <1>4. n \in Nat \ {0} /\ Ahead' = n - 1
    <2>1. Ahead \in Nat \ {0}
      BY <1>1, <1>2, WaitingType
    <2>2. QED
      BY <1>1, <1>2, <1>3, <2>1, DistanceStep DEF Ahead
  <1>5. ASSUME NEW k \in Int PROVE Waiting(k)' = Waiting(k + 1)
    <2>1. (Succ(dev_idx) + k) % RING_SIZE = (dev_idx + (k + 1)) % RING_SIZE
      BY <1>2, PlaceStep
    <2>2. QED
      BY <1>1, <2>1 DEF Waiting
  <1>6. PICK g : g = Waiting(0)
    OBVIOUS
  <1>7. sent' = Append(sent, g) /\ g \in Nat
    <2>1. dev_idx + 0 = dev_idx /\ 0 \in 0..(Ahead - 1)
      BY <1>2, <1>3, <1>4
    <2>2. g \in Nat
      BY <1>6, <2>1, WaitingNumber
    <2>3. QED
      BY <1>1, <1>6, <2>1, <2>2 DEF Waiting
  <1>8. /\ Len(sent') = Len(sent) + 1 /\ sent'[Len(sent) + 1] = g
        /\ \A i \in 1..Len(sent) : sent'[i] = sent[i]
        /\ \A i \in 1..Len(sent') : i \in 1..Len(sent) \/ i = Len(sent) + 1
    BY <1>2, <1>7
  <1>9. ASSUME NEW f, g # f
        PROVE  /\ Never(f)' <=> Never(f)
               /\ Once(f) => Once(f)'
               /\ Nowhere(f) => Nowhere(f)'
               /\ AtOne(f) => AtOne(f)'
    <2>1. /\ Never(f)' <=> Never(f)
          /\ Once(f) => Once(f)'
      BY <1>2, <1>8, <1>9 DEF Never, Once
    <2>2. \A k \in 0..(n - 2) : k + 1 \in 0..(n - 1) /\ k \in Int
      BY <1>4
    <2>3. (n - 1) - 1 = n - 2
      BY <1>4
    <2>4. Nowhere(f) => Nowhere(f)'
      BY <1>3, <1>4, <1>5, <2>2, <2>3 DEF Nowhere
    <2>5. ASSUME AtOne(f) PROVE AtOne(f)'
      <3>1. PICK k \in 0..(n - 1) : Waiting(k) = f /\ \A l \in 0..(n - 1) : Waiting(l) = f => l = k
        BY <1>3, <2>5 DEF AtOne
      <3>2. k # 0 /\ k \in Int
        BY <1>4, <1>6, <1>9, <3>1
      <3>3. PICK m \in 0..(n - 2) : k = m + 1
        <4>1. k - 1 \in 0..(n - 2) /\ k = (k - 1) + 1
          BY <1>4, <3>1, <3>2
        <4>2. QED
          BY <4>1
      <3>4. Waiting(m)' = f
        BY <1>5, <2>2, <3>1, <3>3
      <3>5. ASSUME NEW l \in 0..(n - 2), Waiting(l)' = f PROVE l = m
        <4>1. Waiting(l + 1) = f
          BY <1>5, <2>2, <3>5
        <4>2. l + 1 = k
          BY <2>2, <3>1, <4>1
        <4>3. l \in Int /\ m \in Int
          BY <2>2
        <4>4. QED
          BY <3>3, <4>2, <4>3
      <3>6. QED
        BY <1>4, <2>3, <3>4, <3>5 DEF AtOne
    <2>6. QED
      BY <2>1, <2>4, <2>5
  <1>10. ASSUME NEW f \in (overlap + 1)..handed, Due(f) PROVE Settled(f)'
    <2>1. Settled(f)
      BY <1>1, <1>10 DEF StageInv
    <2>2. CASE g # f
      BY <1>9, <2>1, <2>2 DEF Settled
    <2>3. CASE g = f
      <3>1. 0 \in 0..(n - 1) /\ Waiting(0) = f
        BY <1>4, <1>6, <2>3
      <3>2. Never(f) /\ AtOne(f)
        BY <1>3, <2>1, <3>1 DEF Settled, Nowhere
      <3>3. Once(f)'
        <4>1. Len(sent) + 1 \in 1..Len(sent')
          BY <1>2, <1>8
        <4>2. ASSUME NEW j \in 1..Len(sent'), sent'[j] = f PROVE j = Len(sent) + 1
          BY <1>8, <3>2, <4>2 DEF Never
        <4>3. sent'[Len(sent) + 1] = f
          BY <1>8, <2>3
        <4>4. QED
          BY <4>1, <4>2, <4>3 DEF Once
      <3>4. ASSUME NEW l \in 0..(n - 2) PROVE Waiting(l)' # f
        <4>1. l \in Int /\ l + 1 \in 0..(n - 1) /\ l + 1 # 0
          BY <1>4
        <4>2. Waiting(l + 1) # f
          BY <1>3, <3>1, <3>2, <4>1 DEF AtOne
        <4>3. QED
          BY <1>5, <4>1, <4>2
      <3>5. (n - 1) - 1 = n - 2
        BY <1>4
      <3>6. QED
        BY <1>4, <3>3, <3>4, <3>5 DEF Settled, Nowhere
    <2>4. QED
      BY <2>2, <2>3
  <1>11. ASSUME NEW u \in Threads, handed > overlap, Working(u) PROVE InHand(u)'
    <2>1. InHand(u)
      BY <1>1, <1>11 DEF StageInv
    <2>2. PICK h : h = handed
      OBVIOUS
    <2>3. g # h
      <3>1. 0 \in 0..(Ahead - 1)
        BY <1>3, <1>4
      <3>2. QED
        BY <1>6, <2>1, <2>2, <3>1 DEF InHand, Nowhere
    <2>4. Never(h)' /\ Nowhere(h)' /\ handed' = h
      BY <1>1, <1>9, <2>1, <2>2, <2>3 DEF InHand
    <2>5. Never(handed)' /\ Nowhere(handed)'
      BY <2>4 DEF Never, Nowhere
    <2>6. tpc[u] = "index" => Ahead' < RING_SIZE
      BY <1>3, <1>4, <2>1, Sizes DEF InHand
    <2>7. QED
      BY <1>1, <2>1, <2>5, <2>6 DEF InHand
  <1>12. \A f : Due(f)' <=> Due(f)
    BY <1>1 DEF Due, Working
  <1>13. QED
    BY <1>1, <1>10, <1>11, <1>12 DEF Working

\* Every step keeps each frame where it can still be accounted for.
LEMMA StageStep ==
  ASSUME TypeInv, NumberInv, AloneInv, StageInv, [Next]_vars
  PROVE  StageInv'
  <1>1. CASE Apart
    BY <1>1, StageUndisturbed DEF Apart
  <1>2. ASSUME NEW t \in Threads, Enter(t) PROVE StageInv'
    BY <1>2, StageEnter
  <1>3. ASSUME NEW t \in Threads, Output(t) PROVE StageInv'
    <2>1. CASE Copy(t)
      BY <2>1, StageCopy
    <2>2. CASE Offer(t)
      BY <2>2, StageOffer
    <2>3. CASE Advance(t)
      BY <2>3, StageAdvance
    <2>4. CASE Reload(t)
      BY <2>4, StageUndisturbed DEF Reload, ring, history
    <2>5. CASE Notify(t) \/ Load(t) \/ Count(t)
      <3>1. /\ UNCHANGED <<tx_buffer, avail_ring, avail_idx, desc_idx, frame, dev_idx, sent,
                           handed, overlap, lapped>>
            /\ tpc[t] \in {"notify", "count", "store"}
            /\ \E p \in {"count", "store", "out"} : tpc' = [tpc EXCEPT ![t] = p]
        BY <2>5 DEF Notify, Load, Count, ring, history
      <3>2. \A u \in Threads : (Working(u)' <=> Working(u)) /\ (Working(u) => tpc'[u] = tpc[u])
        BY <3>1, Typed DEF Working
      <3>3. QED
        BY <3>1, <3>2, StageUndisturbed
    <2>6. QED
      BY <1>3, <2>1, <2>2, <2>3, <2>4, <2>5 DEF Output
  <1>4. CASE Transmit
    BY <1>4, StageTransmit
  <1>5. QED
    BY <1>1, <1>2, <1>3, <1>4, Steps

\* Each frame after the last overlap can always be accounted for.
LEMMA StageInvariant == Spec => [](TypeInv /\ NumberInv /\ AloneInv /\ StageInv)
  <1>1. Init => StageInv
    <2> SUFFICES ASSUME Init PROVE StageInv
      OBVIOUS
    <2>1. (overlap + 1)..handed = {}
      BY DEF Init
    <2>2. \A t \in Threads : ~ Working(t)
      BY DEF Init, Working
    <2>3. QED
      BY <2>1, <2>2 DEF StageInv
  <1>2. QED
    BY <1>1, TypeInit, TypeStep, FrameInit, NumberStep, AloneStep, StageStep, PTL DEF Spec

\* With no thread inside and nothing waiting, a settled frame has been sent.
LEMMA SettledAreSent ==
  ASSUME TypeInv, StageInv, Quiet, dev_idx = avail_idx, ~lapped,
         NEW f \in (overlap + 1)..handed
  PROVE  Times(f) = 1
  <1>1. Due(f)
    BY DEF Quiet, Due, Working
  <1>2. Ahead = 0
    BY WaitingType
  <1>3. 0..(Ahead - 1) = {}
    BY <1>2
  <1>4. ~ AtOne(f)
    BY <1>3 DEF AtOne
  <1>5. Once(f)
    BY <1>1, <1>4 DEF StageInv, Settled
  <1>6. PICK i : {j \in 1..Len(sent) : sent[j] = f} = {i}
    BY <1>5 DEF Once
  <1>7. QED
    BY <1>6, FS_Singleton DEF Times

-----------------------------------------------------------------------------
(* The order of the frames.                                                *)

\* What the counts are with thread t alone inside.
LEMMA Inside ==
  ASSUME TypeInv, AloneInv, overlap = 0, NEW t \in Threads, tpc[t] # "out"
  PROVE  /\ handed \in Nat \ {0} /\ frame[t] = handed
         /\ \A u \in Threads : u # t => tpc[u] = "out"
         /\ Copied  = IF tpc[t] = "copy" THEN handed - 1 ELSE handed
         /\ Offered = IF Working(t) THEN handed - 1 ELSE handed
         /\ Counted = handed - 1
         /\ Busy({"index"}) <=> tpc[t] = "index"
         /\ tpc[t] = "index" => idx[t] = avail_idx
  <1>1. handed \in Nat \ {0}
    BY Typed DEF AloneInv
  <1>2. handed > overlap
    BY <1>1
  <1>3. /\ frame[t] = handed
        /\ \A u \in Threads : u # t => tpc[u] = "out"
        /\ tpc[t] = "index" => idx[t] = avail_idx
    BY <1>2 DEF AloneInv
  <1>4. QED
    BY <1>1, <1>3 DEF Copied, Offered, Counted, Busy, Working

\* And after a step of that thread.
LEMMA InsideAfter ==
  ASSUME TypeInv, AloneInv, overlap = 0, NEW t \in Threads, tpc[t] # "out",
         NEW p, tpc' = [tpc EXCEPT ![t] = p], handed' = handed
  PROVE  /\ Copied'  = IF p = "copy" THEN handed - 1 ELSE handed
         /\ Offered' = IF p \in {"copy", "offer", "index"} THEN handed - 1 ELSE handed
         /\ Counted' = IF p = "out" THEN handed ELSE handed - 1
         /\ Busy({"index"})' <=> p = "index"
         /\ tpc'[t] = p
         /\ \A u \in Threads : u # t => tpc'[u] = "out"
  <1>1. /\ tpc'[t] = p
        /\ \A u \in Threads : u # t => tpc'[u] = "out"
    BY Inside, Typed
  <1>2. QED
    BY <1>1 DEF Copied, Offered, Counted, Busy

\* How many buffers wait, as long as none has been lapped.
LEMMA AheadIs ==
  ASSUME TypeInv, CountOrder, Offered \in Nat, Offered - Len(sent) <= RING_SIZE
  PROVE  Ahead = Offered - Len(sent)
  <1>1. /\ Len(sent) \in Int /\ Offered \in Int /\ RING_SIZE \in Nat /\ IdxMod \in Nat \ {0}
        /\ RING_SIZE < IdxMod /\ Len(sent) <= Offered
    BY Typed, Sizes DEF CountOrder
  <1>2. Offered < Len(sent) + IdxMod
    BY <1>1
  <1>3. ((Offered % IdxMod) + IdxMod - (Len(sent) % IdxMod)) % IdxMod = Offered - Len(sent)
    BY <1>1, <1>2, IndexDistance
  <1>4. QED
    BY <1>3 DEF Ahead, Distance, CountOrder

\* The first thread to enter takes the buffer of its frame.
LEMMA OrderEnter ==
  ASSUME TypeInv, AloneInv, OrderInv, NEW t \in Threads, Enter(t)
  PROVE  OrderInv'
  <1> SUFFICES ASSUME overlap' = 0
               PROVE  /\ CountOrder' /\ AvailOrder' /\ BufferOrder'
                      /\ \A u \in Threads : HandOrder(u)'
                      /\ ~lapped' => FreshOrder'
    BY DEF OrderInv
  <1>1. /\ handed' = handed + 1 /\ tpc[t] = "out" /\ tpc' = [tpc EXCEPT ![t] = "copy"]
        /\ desc_idx' = [desc_idx EXCEPT ![t] = tx_idx % RING_SIZE]
        /\ overlap' = IF \E u \in Threads : tpc[u] # "out" THEN handed' ELSE overlap
        /\ UNCHANGED <<tx_buffer, avail_ring, avail_idx, tx_idx, dev_idx, sent, lapped>>
    BY DEF Enter, ring
  <1>2. handed \in Nat
    BY Typed
  <1>3. overlap = 0 /\ \A u \in Threads : tpc[u] = "out"
    BY <1>1, <1>2
  <1>4. /\ tpc'[t] = "copy"
        /\ \A u \in Threads : u # t => tpc'[u] = "out"
    BY <1>1, <1>3, Typed
  <1>5. Copied = handed /\ Offered = handed /\ Counted = handed
    BY <1>3 DEF Copied, Offered, Counted, Busy
  <1>6. Copied' = handed /\ Offered' = handed /\ Counted' = handed /\ ~ Busy({"index"})'
    <2>1. Copied' = handed' - 1 /\ Offered' = handed' - 1 /\ Counted' = handed' - 1
      BY <1>4 DEF Copied, Offered, Counted, Busy
    <2>2. ~ Busy({"index"})'
      BY <1>4 DEF Busy
    <2>3. QED
      BY <1>1, <1>2, <2>1, <2>2
  <1>7. CountOrder' /\ AvailOrder' /\ BufferOrder'
    BY <1>1, <1>3, <1>5, <1>6 DEF OrderInv, CountOrder, AvailOrder, BufferOrder
  <1>8. ASSUME NEW u \in Threads PROVE HandOrder(u)'
    <2>1. (handed % IdxMod) % RING_SIZE = handed % RING_SIZE
      BY <1>2, Place
    <2>2. tx_idx = handed % IdxMod
      BY <1>3, <1>5 DEF OrderInv, CountOrder
    <2>3. desc_idx'[t] = handed % RING_SIZE /\ handed' - 1 = handed
      BY <1>1, <1>2, <2>1, <2>2, Typed
    <2>4. QED
      BY <1>4, <2>3 DEF HandOrder
  <1>9. ~lapped' => FreshOrder'
    BY <1>1, <1>3, <1>5, <1>6 DEF OrderInv, FreshOrder
  <1>10. QED
    BY <1>7, <1>8, <1>9

\* A frame is copied where its turn is; what it overwrites either has been
\* sent or is noted as lapped.
LEMMA OrderCopy ==
  ASSUME TypeInv, AloneInv, OrderInv, NEW t \in Threads, Copy(t)
  PROVE  OrderInv'
  <1> SUFFICES ASSUME overlap' = 0
               PROVE  /\ CountOrder' /\ AvailOrder' /\ BufferOrder'
                      /\ \A u \in Threads : HandOrder(u)'
                      /\ ~lapped' => FreshOrder'
    BY DEF OrderInv
  <1>1. /\ tpc[t] = "copy" /\ tpc' = [tpc EXCEPT ![t] = "offer"]
        /\ tx_buffer' = [tx_buffer EXCEPT ![desc_idx[t]] = frame[t]]
        /\ UNCHANGED <<avail_ring, avail_idx, tx_idx, desc_idx, idx, dev_idx, sent, handed,
                       overlap>>
        /\ lapped' = (lapped \/ desc_idx[t] \in Unsent)
    BY DEF Copy
  <1>2. /\ overlap = 0 /\ handed \in Nat \ {0} /\ frame[t] = handed
        /\ Copied = handed - 1 /\ Offered = handed - 1 /\ Counted = handed - 1
    BY <1>1, Inside DEF Working
  <1>3. /\ Copied' = handed /\ Offered' = handed - 1 /\ Counted' = handed - 1
        /\ ~ Busy({"index"})' /\ tpc'[t] = "offer"
        /\ \A u \in Threads : u # t => tpc'[u] = "out"
    BY <1>1, <1>2, InsideAfter
  <1> DEFINE d == (handed - 1) % RING_SIZE
  <1>4. d \in Slots /\ desc_idx[t] = d
    <2>1. handed - 1 \in Int
      BY <1>2
    <2>2. QED
      BY <1>1, <1>2, <2>1, SlotOf DEF OrderInv, HandOrder
  <1>5. \A s \in Slots : tx_buffer'[s] = IF s = d THEN handed ELSE tx_buffer[s]
    BY <1>1, <1>2, <1>4, Typed
  <1>6. CountOrder' /\ AvailOrder'
    BY <1>1, <1>2, <1>3 DEF OrderInv, CountOrder, AvailOrder
  <1>7. \A s \in Slots : tx_buffer'[s] # 0 => (tx_buffer'[s] - 1) % RING_SIZE = s
    BY <1>2, <1>5 DEF OrderInv, BufferOrder
  <1>8. ASSUME NEW f \in 1..handed PROVE tx_buffer'[(f - 1) % RING_SIZE] >= f
    <2>1. (f - 1) % RING_SIZE \in Slots
      <3>1. f - 1 \in Int
        BY <1>2
      <3>2. QED
        BY <3>1, SlotOf
    <2>2. f \in 1..(handed - 1) \/ f = handed
      BY <1>2
    <2>3. handed >= f
      BY <1>2
    <2>4. f \in 1..(handed - 1) => tx_buffer[(f - 1) % RING_SIZE] >= f
      BY <1>2 DEF OrderInv, BufferOrder
    <2> HIDE DEF d
    <2>5. f = handed => (f - 1) % RING_SIZE = d
      BY DEF d
    <2>6. QED
      BY <1>5, <2>1, <2>2, <2>3, <2>4, <2>5
  <1>9. ASSUME NEW u \in Threads PROVE HandOrder(u)'
    BY <1>1, <1>3, <1>4 DEF HandOrder
  <1>10. ASSUME ~lapped' PROVE FreshOrder'
    <2>1. ~lapped /\ d \notin Unsent
      BY <1>1, <1>4, <1>10
    <2>2. CountOrder /\ AvailOrder /\ FreshOrder
      BY <1>2, <2>1 DEF OrderInv
    <2>3. Ahead = (handed - 1) - Len(sent)
      BY <1>2, <2>2, AheadIs DEF FreshOrder
    <2>4. ASSUME NEW j \in Len(sent)..(handed - 1) PROVE tx_buffer'[j % RING_SIZE] = j + 1
      <3>1. j \in Int /\ Len(sent) \in Int /\ j % RING_SIZE \in Slots
        BY <1>2, Typed, SlotOf
      <3>2. CASE j = handed - 1
        BY <1>2, <1>4, <1>5, <3>2
      <3>3. CASE j # handed - 1
        <4>1. j \in Len(sent)..((handed - 1) - 1) /\ j \in 0..((handed - 1) - 1)
          BY <1>2, <3>3, Typed
        <4>2. tx_buffer[j % RING_SIZE] = j + 1 /\ avail_ring[j % RING_SIZE] = j % RING_SIZE
          BY <1>2, <2>2, <4>1 DEF FreshOrder, AvailOrder
        <4>3. j - Len(sent) \in 0..(Ahead - 1) /\ j - Len(sent) \in Int
          BY <1>2, <2>3, <3>1, <4>1
        <4>4. (dev_idx + (j - Len(sent))) % RING_SIZE = j % RING_SIZE
          <5>1. ((Len(sent) % IdxMod) + (j - Len(sent))) % RING_SIZE
                  = (Len(sent) + (j - Len(sent))) % RING_SIZE
            BY <3>1, <4>3, Place
          <5>2. Len(sent) + (j - Len(sent)) = j
            BY <3>1
          <5>3. QED
            BY <2>2, <5>1, <5>2 DEF CountOrder
        <4>5. j % RING_SIZE \in Unsent
          BY <4>2, <4>3, <4>4 DEF Unsent, Ahead
        <4>6. QED
          BY <1>5, <2>1, <3>1, <4>2, <4>5
      <3>4. QED
        BY <3>2, <3>3
    <2>5. QED
      BY <1>1, <1>2, <1>3, <2>2, <2>4 DEF FreshOrder
  <1> HIDE DEF d
  <1>11. BufferOrder'
    BY <1>3, <1>7, <1>8 DEF BufferOrder
  <1>12. QED
    BY <1>6, <1>9, <1>10, <1>11

\* A buffer goes into the ring at its own place.
LEMMA OrderOffer ==
  ASSUME TypeInv, AloneInv, OrderInv, NEW t \in Threads, Offer(t)
  PROVE  OrderInv'
  <1> SUFFICES ASSUME overlap' = 0
               PROVE  /\ CountOrder' /\ AvailOrder' /\ BufferOrder'
                      /\ \A u \in Threads : HandOrder(u)'
                      /\ ~lapped' => FreshOrder'
    BY DEF OrderInv
  <1>1. /\ tpc[t] = "offer" /\ tpc' = [tpc EXCEPT ![t] = "index"]
        /\ avail_ring' = [avail_ring EXCEPT ![avail_idx % RING_SIZE] = desc_idx[t]]
        /\ UNCHANGED <<tx_buffer, avail_idx, tx_idx, desc_idx, dev_idx, sent, handed, overlap>>
        /\ lapped' = (lapped \/ Ahead >= RING_SIZE)
    BY DEF Offer, Ahead
  <1>2. /\ overlap = 0 /\ handed \in Nat \ {0}
        /\ Copied = handed /\ Offered = handed - 1 /\ Counted = handed - 1
    BY <1>1, Inside DEF Working
  <1>3. /\ Copied' = handed /\ Offered' = handed - 1 /\ Counted' = handed - 1
        /\ tpc'[t] = "index"
        /\ \A u \in Threads : u # t => tpc'[u] = "out"
    BY <1>1, <1>2, InsideAfter
  <1> DEFINE d == (handed - 1) % RING_SIZE
  <1>4. d \in Slots /\ desc_idx[t] = d /\ avail_idx % RING_SIZE = d
    <2>1. handed - 1 \in Int
      BY <1>2
    <2>2. ((handed - 1) % IdxMod) % RING_SIZE = d
      BY <2>1, Place
    <2>3. QED
      BY <1>1, <1>2, <2>1, <2>2, SlotOf DEF OrderInv, HandOrder, CountOrder
  <1> HIDE DEF d
  <1>5. \A s \in Slots : avail_ring'[s] = IF s = d THEN d ELSE avail_ring[s]
    BY <1>1, <1>4, Typed
  <1>6. CountOrder' /\ BufferOrder'
    BY <1>1, <1>2, <1>3 DEF OrderInv, CountOrder, BufferOrder
  <1>7. ASSUME NEW j \in 0..(handed - 2) PROVE avail_ring'[j % RING_SIZE] = j % RING_SIZE
    <2>1. j \in Int /\ j \in 0..((handed - 1) - 1)
      BY <1>2
    <2>2. j % RING_SIZE \in Slots
      BY <2>1, SlotOf
    <2>3. avail_ring[j % RING_SIZE] = j % RING_SIZE
      BY <1>2, <2>1 DEF OrderInv, AvailOrder
    <2>4. QED
      BY <1>5, <2>2, <2>3
  <1>8. AvailOrder'
    <2>1. (handed - 1) - 1 = handed - 2
      BY <1>2
    <2>2. QED
      BY <1>3, <1>7, <2>1 DEF AvailOrder
  <1>9. ASSUME NEW u \in Threads PROVE HandOrder(u)'
    <2>1. avail_ring'[d] = d
      BY <1>4, <1>5
    <2>2. QED
      BY <1>1, <1>3, <1>4, <2>1 DEF HandOrder, d
  <1>10. ASSUME ~lapped' PROVE FreshOrder'
    <2>1. ~lapped /\ ~ (Ahead >= RING_SIZE)
      BY <1>1, <1>10
    <2>2. CountOrder /\ FreshOrder
      BY <1>2, <2>1 DEF OrderInv
    <2>3. Ahead = (handed - 1) - Len(sent) /\ Len(sent) \in Nat /\ RING_SIZE \in Nat
      BY <1>2, <2>2, AheadIs, Typed, Sizes DEF FreshOrder
    <2>4. (handed - 1) - Len(sent) < RING_SIZE
      BY <1>2, <2>1, <2>3
    <2>5. QED
      BY <1>1, <1>2, <1>3, <2>2, <2>4 DEF FreshOrder
  <1>11. QED
    BY <1>6, <1>8, <1>9, <1>10

\* The index of the ring passes the frame's buffer.
LEMMA OrderAdvance ==
  ASSUME TypeInv, AloneInv, OrderInv, NEW t \in Threads, Advance(t)
  PROVE  OrderInv'
  <1> SUFFICES ASSUME overlap' = 0
               PROVE  /\ CountOrder' /\ AvailOrder' /\ BufferOrder'
                      /\ \A u \in Threads : HandOrder(u)'
                      /\ ~lapped' => FreshOrder'
    BY DEF OrderInv
  <1>1. /\ tpc[t] = "index" /\ tpc' = [tpc EXCEPT ![t] = "notify"] /\ avail_idx' = Succ(idx[t])
        /\ UNCHANGED <<tx_buffer, avail_ring, tx_idx, desc_idx, dev_idx, sent, handed,
                       overlap, lapped>>
    BY DEF Advance, history
  <1>2. /\ overlap = 0 /\ handed \in Nat \ {0} /\ idx[t] = avail_idx
        /\ Copied = handed /\ Offered = handed - 1 /\ Counted = handed - 1 /\ Busy({"index"})
    BY <1>1, Inside DEF Working
  <1>3. /\ Copied' = handed /\ Offered' = handed /\ Counted' = handed - 1 /\ ~ Busy({"index"})'
        /\ tpc'[t] = "notify"
        /\ \A u \in Threads : u # t => tpc'[u] = "out"
    BY <1>1, <1>2, InsideAfter
  <1>4. avail_idx' = handed % IdxMod
    <2>1. Succ((handed - 1) % IdxMod) = ((handed - 1) + 1) % IdxMod
      <3>1. handed - 1 \in Int
        BY <1>2
      <3>2. QED
        BY <3>1, SuccOf
    <2>2. (handed - 1) + 1 = handed
      BY <1>2
    <2>3. QED
      BY <1>1, <1>2, <2>1, <2>2 DEF OrderInv, CountOrder
  <1>5. Len(sent) <= handed - 1 /\ Len(sent) \in Nat
    BY <1>2, Typed DEF OrderInv, CountOrder
  <1>6. CountOrder' /\ BufferOrder'
    <2>1. Len(sent) <= handed
      BY <1>2, <1>5
    <2>2. QED
      BY <1>1, <1>2, <1>3, <1>4, <2>1 DEF OrderInv, CountOrder, BufferOrder
  <1>7. AvailOrder'
    <2>1. ASSUME NEW j \in 0..(handed - 1) PROVE avail_ring[j % RING_SIZE] = j % RING_SIZE
      <3>1. j = handed - 1 \/ j \in 0..((handed - 1) - 1)
        BY <1>2
      <3>2. QED
        BY <1>1, <1>2, <3>1 DEF OrderInv, AvailOrder, HandOrder
    <2>2. QED
      BY <1>1, <1>3, <2>1 DEF AvailOrder
  <1>8. \A u \in Threads : HandOrder(u)'
    BY <1>1, <1>2, <1>3 DEF OrderInv, HandOrder
  <1>9. ~lapped' => FreshOrder'
    <2>1. ~lapped => handed - Len(sent) <= RING_SIZE
      BY <1>2, <1>5, Sizes DEF OrderInv, FreshOrder
    <2>2. QED
      BY <1>1, <1>2, <1>3, <2>1 DEF OrderInv, FreshOrder
  <1>10. QED
    BY <1>6, <1>7, <1>8, <1>9

\* The steps after that one: tx_idx is read before it is written, and no
\* other thread has come in between.
LEMMA OrderCount ==
  ASSUME TypeInv, AloneInv, OrderInv, NEW t \in Threads, Notify(t) \/ Load(t) \/ Count(t)
  PROVE  OrderInv'
  <1> SUFFICES ASSUME overlap' = 0
               PROVE  /\ CountOrder' /\ AvailOrder' /\ BufferOrder'
                      /\ \A u \in Threads : HandOrder(u)'
                      /\ ~lapped' => FreshOrder'
    BY DEF OrderInv
  <1>1. /\ tpc[t] \in {"notify", "count", "store"}
        /\ UNCHANGED <<tx_buffer, avail_ring, avail_idx, desc_idx, dev_idx, sent, handed,
                       overlap, lapped>>
    BY DEF Notify, Load, Count, ring, history
  <1>2. PICK p \in {"count", "store", "out"} :
          /\ tpc' = [tpc EXCEPT ![t] = p]
          /\ p = "store" => idx' = [idx EXCEPT ![t] = tx_idx]
          /\ IF p = "out" THEN tpc[t] = "store" /\ tx_idx' = Succ(idx[t]) ELSE tx_idx' = tx_idx
    BY DEF Notify, Load, Count, ring
  <1>3. /\ overlap = 0 /\ handed \in Nat \ {0}
        /\ Copied = handed /\ Offered = handed /\ Counted = handed - 1
    BY <1>1, Inside DEF Working
  <1>4. /\ Copied' = handed /\ Offered' = handed /\ ~ Busy({"index"})'
        /\ Counted' = IF p = "out" THEN handed ELSE handed - 1
        /\ tpc'[t] = p
        /\ \A u \in Threads : u # t => tpc'[u] = "out"
    BY <1>1, <1>2, <1>3, InsideAfter
  <1>5. tx_idx' = Counted' % IdxMod
    <2>1. Succ((handed - 1) % IdxMod) = ((handed - 1) + 1) % IdxMod
      <3>1. handed - 1 \in Int
        BY <1>3
      <3>2. QED
        BY <3>1, SuccOf
    <2>2. (handed - 1) + 1 = handed
      BY <1>3
    <2>3. tpc[t] = "store" => idx[t] = tx_idx
      BY <1>3 DEF OrderInv, HandOrder
    <2>4. tx_idx = (handed - 1) % IdxMod
      BY <1>3 DEF OrderInv, CountOrder
    <2>5. QED
      BY <1>2, <1>4, <2>1, <2>2, <2>3, <2>4
  <1>6. CountOrder' /\ AvailOrder' /\ BufferOrder'
    BY <1>1, <1>3, <1>4, <1>5 DEF OrderInv, CountOrder, AvailOrder, BufferOrder
  <1>7. ASSUME NEW u \in Threads PROVE HandOrder(u)'
    <2>1. desc_idx'[t] = (handed - 1) % RING_SIZE
      BY <1>1, <1>3 DEF OrderInv, HandOrder
    <2>2. p = "store" => idx'[t] = tx_idx'
      BY <1>2, Typed
    <2>3. QED
      BY <1>1, <1>2, <1>4, <2>1, <2>2 DEF HandOrder
  <1>8. ~lapped' => FreshOrder'
    BY <1>1, <1>3, <1>4 DEF OrderInv, FreshOrder
  <1>9. QED
    BY <1>6, <1>7, <1>8

\* The device sends the next frame, or a later one that took its buffer.
LEMMA OrderTransmit ==
  ASSUME TypeInv, AloneInv, OrderInv, InOrderUnlessLapped, Transmit
  PROVE  OrderInv' /\ InOrderUnlessLapped'
  <1>1. /\ UNCHANGED <<tx_buffer, avail_ring, avail_idx, tx_idx, tpc, desc_idx, idx, frame,
                       handed, overlap, lapped>>
        /\ dev_idx # avail_idx /\ dev_idx' = Succ(dev_idx)
        /\ sent' = Append(sent, tx_buffer[avail_ring[dev_idx % RING_SIZE]])
    BY DEF Transmit, ring, locals, history
  <1>2. CASE overlap # 0
    BY <1>1, <1>2 DEF OrderInv, InOrderUnlessLapped
  <1>3. CASE overlap = 0
    <2> DEFINE l == Len(sent)
               v == tx_buffer[avail_ring[dev_idx % RING_SIZE]]
    <2>1. CountOrder /\ AvailOrder /\ BufferOrder /\ (~lapped => FreshOrder)
      BY <1>3 DEF OrderInv
    <2>2. l \in Nat /\ handed \in Nat /\ sent \in Seq(Nat) /\ v \in Nat
      <3>1. dev_idx % RING_SIZE \in Slots
        BY Typed, Sizes, SlotOf
      <3>2. QED
        BY <3>1, Typed
    <2>3. /\ sent' = Append(sent, v) /\ Len(sent') = l + 1 /\ sent'[l + 1] = v
          /\ \A i \in 1..l : sent'[i] = sent[i]
          /\ \A i \in 1..Len(sent') : i \in 1..l \/ i = l + 1
      BY <1>1, <2>2
    <2>4. l < Offered /\ Offered <= Copied /\ Offered \in Int /\ Copied \in Int
      <3>1. l <= Offered /\ l # Offered
        BY <1>1, <2>1 DEF CountOrder
      <3>2. Offered \in Int /\ Copied \in Int
        BY <2>2 DEF Offered, Copied
      <3>3. Offered <= Copied
        BY <2>2 DEF Offered, Copied, Busy
      <3>4. QED
        BY <2>2, <3>1, <3>2, <3>3
    <2>5. dev_idx % RING_SIZE = l % RING_SIZE /\ l % RING_SIZE \in Slots
      <3>1. (l % IdxMod) % RING_SIZE = l % RING_SIZE /\ l % RING_SIZE \in Slots
        BY <2>2, Place, SlotOf
      <3>2. QED
        BY <2>1, <3>1 DEF CountOrder
    <2>6. v = tx_buffer[l % RING_SIZE]
      <3>1. l \in 0..(Offered - 1)
        BY <2>2, <2>4
      <3>2. avail_ring[l % RING_SIZE] = l % RING_SIZE
        BY <2>1, <3>1 DEF AvailOrder
      <3>3. QED
        BY <2>5, <3>2
    <2>7. v >= l + 1
      <3>1. l + 1 \in 1..Copied /\ (l + 1) - 1 = l
        BY <2>2, <2>4
      <3>2. tx_buffer[((l + 1) - 1) % RING_SIZE] >= l + 1
        BY <2>1, <3>1 DEF BufferOrder
      <3>3. QED
        BY <2>6, <3>1, <3>2
    <2>8. ~lapped => v = l + 1
      <3>1. l \in l..(Copied - 1)
        BY <2>2, <2>4
      <3>2. QED
        BY <2>1, <2>6, <3>1 DEF FreshOrder
    <2> HIDE DEF v
    <2>9. v % RING_SIZE = (l + 1) % RING_SIZE
      <3>1. (v - 1) % RING_SIZE = l % RING_SIZE
        <4>1. v # 0
          BY <2>2, <2>7
        <4>2. QED
          BY <2>1, <2>5, <2>6, <4>1 DEF BufferOrder
      <3>2. v - 1 \in Int /\ l \in Int /\ 1 \in Int /\ RING_SIZE \in Nat \ {0}
        BY <2>2, Sizes
      <3>3. (((v - 1) % RING_SIZE) + 1) % RING_SIZE = ((v - 1) + 1) % RING_SIZE
        BY <3>2, ModAdd
      <3>4. ((l % RING_SIZE) + 1) % RING_SIZE = (l + 1) % RING_SIZE
        BY <3>2, ModAdd
      <3>5. (v - 1) + 1 = v
        BY <2>2
      <3>6. QED
        BY <3>1, <3>3, <3>4, <3>5
    <2>10. dev_idx' = (l + 1) % IdxMod
      <3>1. Succ(l % IdxMod) = (l + 1) % IdxMod
        BY <2>2, SuccOf
      <3>2. QED
        BY <1>1, <2>1, <3>1 DEF CountOrder
    <2>11. /\ Copied' = Copied /\ Offered' = Offered /\ Counted' = Counted
           /\ Busy({"index"})' <=> Busy({"index"})
      BY <1>1 DEF Copied, Offered, Counted, Busy
    <2> HIDE DEF l
    <2>12. CountOrder'
      BY <1>1, <2>1, <2>2, <2>3, <2>4, <2>10, <2>11 DEF CountOrder
    <2>13. AvailOrder' /\ BufferOrder' /\ \A u \in Threads : HandOrder(u)'
      BY <1>1, <1>3, <2>11 DEF OrderInv, AvailOrder, BufferOrder, HandOrder
    <2>14. ~lapped' => FreshOrder'
      <3> SUFFICES ASSUME ~lapped PROVE FreshOrder'
        BY <1>1
      <3>1. /\ Offered - l <= RING_SIZE
            /\ Busy({"index"}) => Offered - l < RING_SIZE
            /\ \A j \in l..(Copied - 1) : tx_buffer[j % RING_SIZE] = j + 1
        BY <2>1 DEF FreshOrder, l
      <3>2. /\ Offered - (l + 1) <= RING_SIZE
            /\ Busy({"index"}) => Offered - (l + 1) < RING_SIZE
            /\ \A j \in (l + 1)..(Copied - 1) : j \in l..(Copied - 1)
        BY <2>2, <2>4, <3>1, Sizes
      <3>3. QED
        BY <1>1, <2>3, <2>11, <3>1, <3>2 DEF FreshOrder
    <2>15. ASSUME NEW i \in 1..Len(sent')
           PROVE  sent'[i] = i \/ (lapped /\ sent'[i] > i /\ sent'[i] % RING_SIZE = i % RING_SIZE)
      <3>1. CASE i \in 1..l
        BY <1>3, <2>3, <3>1 DEF InOrderUnlessLapped, l
      <3>2. CASE i = l + 1
        <4>1. v = l + 1 \/ (lapped /\ v > l + 1)
          BY <2>2, <2>7, <2>8
        <4>2. QED
          BY <2>3, <2>9, <3>2, <4>1
      <3>3. QED
        BY <2>3, <3>1, <3>2
    <2>16. QED
      BY <1>1, <1>3, <2>12, <2>13, <2>14, <2>15 DEF OrderInv, InOrderUnlessLapped
  <1>4. QED
    BY <1>2, <1>3

\* Steps that touch neither a frame nor an index in use.
LEMMA OrderUndisturbed ==
  ASSUME OrderInv,
         UNCHANGED <<tx_buffer, avail_ring, avail_idx, tx_idx, tpc, desc_idx, dev_idx, handed,
                     sent, overlap, lapped>>,
         \A u \in Threads : tpc[u] = "store" => idx'[u] = idx[u]
  PROVE  OrderInv'
  <1>1. /\ Copied' = Copied /\ Offered' = Offered /\ Counted' = Counted
        /\ Busy({"index"})' <=> Busy({"index"})
    BY DEF Copied, Offered, Counted, Busy
  <1>2. CASE overlap = 0
    <2>1. CountOrder' /\ AvailOrder' /\ BufferOrder' /\ (~lapped' => FreshOrder')
      BY <1>1, <1>2 DEF OrderInv, CountOrder, AvailOrder, BufferOrder, FreshOrder
    <2>2. \A u \in Threads : HandOrder(u)'
      BY <1>1, <1>2 DEF OrderInv, HandOrder
    <2>3. QED
      BY <2>1, <2>2 DEF OrderInv
  <1>3. CASE overlap # 0
    BY <1>3 DEF OrderInv
  <1>4. QED
    BY <1>2, <1>3

\* What the threads do sends nothing, and what has gone wrong stays on record.
LEMMA HistoryStep ==
  ASSUME TypeInv, NEW t \in Threads, Enter(t) \/ Output(t)
  PROVE  sent' = sent /\ (lapped => lapped') /\ (overlap' = 0 => overlap = 0)
  <1>1. CASE Enter(t)
    <2>1. /\ handed' = handed + 1 /\ sent' = sent /\ lapped' = lapped
          /\ overlap' = handed' \/ overlap' = overlap
      BY <1>1 DEF Enter
    <2>2. handed' # 0
      BY <2>1, Typed
    <2>3. QED
      BY <2>1, <2>2
  <1>2. CASE Output(t)
    <2>1. CASE Copy(t) \/ Offer(t)
      BY <2>1 DEF Copy, Offer
    <2>2. CASE Reload(t) \/ Advance(t) \/ Notify(t) \/ Load(t) \/ Count(t)
      BY <2>2 DEF Reload, Advance, Notify, Load, Count, history
    <2>3. QED
      BY <1>2, <2>1, <2>2 DEF Output
  <1>3. QED
    BY <1>1, <1>2

\* Every step keeps the order.
LEMMA OrderStep ==
  ASSUME TypeInv, AloneInv, OrderInv, InOrderUnlessLapped, [Next]_vars
  PROVE  OrderInv' /\ InOrderUnlessLapped'
  <1>1. CASE Transmit
    BY <1>1, OrderTransmit
  <1>2. CASE Apart
    BY <1>2, OrderUndisturbed DEF Apart, InOrderUnlessLapped
  <1>3. ASSUME NEW t \in Threads, Enter(t) \/ Output(t) PROVE OrderInv' /\ InOrderUnlessLapped'
    <2>1. InOrderUnlessLapped'
      <3>1. sent' = sent /\ (lapped => lapped') /\ (overlap' = 0 => overlap = 0)
        BY <1>3, HistoryStep
      <3>2. QED
        BY <3>1 DEF InOrderUnlessLapped
    <2>2. CASE Reload(t)
      <3>1. /\ UNCHANGED <<tx_buffer, avail_ring, avail_idx, tx_idx, tpc, desc_idx, dev_idx, handed,
                           sent, overlap, lapped>>
            /\ tpc[t] = "index" /\ idx' = [idx EXCEPT ![t] = avail_idx]
        BY <2>2 DEF Reload, ring, history
      <3>2. \A u \in Threads : tpc[u] = "store" => idx'[u] = idx[u]
        BY <3>1, Typed
      <3>3. QED
        BY <2>1, <3>1, <3>2, OrderUndisturbed
    <2>3. CASE Enter(t)
      BY <2>1, <2>3, OrderEnter
    <2>4. CASE Copy(t) \/ Offer(t) \/ Advance(t)
      BY <2>1, <2>4, OrderCopy, OrderOffer, OrderAdvance
    <2>5. CASE Notify(t) \/ Load(t) \/ Count(t)
      BY <2>1, <2>5, OrderCount
    <2>6. QED
      BY <1>3, <2>2, <2>3, <2>4, <2>5 DEF Output
  <1>4. QED
    BY <1>1, <1>2, <1>3, Steps

\* The order holds at the start.
LEMMA OrderInit == Init => OrderInv /\ InOrderUnlessLapped
  <1> SUFFICES ASSUME Init PROVE OrderInv /\ InOrderUnlessLapped
    OBVIOUS
  <1>1. /\ Len(sent) = 0 /\ handed = 0 /\ ~ Busy({"index"})
        /\ Copied = 0 /\ Offered = 0 /\ Counted = 0
    BY DEF Init, Copied, Offered, Counted, Busy
  <1>2. 0 % IdxMod = 0
    BY Sizes, ModSmall
  <1>3. CountOrder /\ AvailOrder /\ BufferOrder
    BY <1>1, <1>2 DEF Init, CountOrder, AvailOrder, BufferOrder
  <1>4. FreshOrder
    BY <1>1, Sizes DEF FreshOrder
  <1>5. \A t \in Threads : HandOrder(t)
    BY DEF Init, HandOrder
  <1>6. QED
    BY <1>1, <1>3, <1>4, <1>5 DEF OrderInv, InOrderUnlessLapped

\* As long as one thread at a time sends, the i-th frame that goes out is the
\* i-th that was handed over or, once the driver has lapped the device, a later
\* one that took its buffer a whole number of rings later; for every size of
\* the ring, however the indices wrap and whenever the device looks.
THEOREM SentInOrder == Spec => []InOrderUnlessLapped
  <1>1. Spec => [](TypeInv /\ NumberInv /\ AloneInv /\ OrderInv /\ InOrderUnlessLapped)
    BY TypeInit, TypeStep, FrameInit, NumberStep, AloneStep, OrderInit, OrderStep, PTL DEF Spec
  <1>2. QED
    BY <1>1, PTL

-----------------------------------------------------------------------------
(* What the damage does.                                                   *)

\* The device has found its ring out of order only where the driver had already
\* gone wrong.
SoundInv == broken => overlap # 0 \/ lapped

\* As long as the order holds, no more is available than the ring has room for.
LEMMA BreakNeedsDamage ==
  ASSUME TypeInv, AloneInv, OrderInv, Break
  PROVE  overlap # 0 \/ lapped
  <1> SUFFICES ASSUME overlap = 0, ~lapped PROVE FALSE
    OBVIOUS
  <1>1. CountOrder /\ Offered - Len(sent) <= RING_SIZE
    BY DEF OrderInv, FreshOrder
  <1>2. Offered \in Nat
    <2>1. handed \in Nat
      BY Typed
    <2>2. Busy({"copy", "offer", "index"}) => handed # 0
      BY DEF AloneInv, Busy
    <2>3. QED
      BY <2>1, <2>2 DEF Offered
  <1>3. Ahead <= RING_SIZE
    <2>1. Ahead = Offered - Len(sent)
      BY <1>1, <1>2, AheadIs
    <2>2. QED
      BY <1>1, <2>1
  <1>4. Ahead > RING_SIZE
    BY DEF Break, Ahead
  <1>5. Ahead \in Int /\ RING_SIZE \in Int
    BY WaitingType, Sizes
  <1>6. QED
    BY <1>3, <1>4, <1>5

\* A write of the driver never breaks the device.
LEMMA WriteIsSound ==
  ASSUME NEW r, NEW v, DeviceWrite(r, v), broken'
  PROVE  broken
  BY DEF DeviceWrite

\* Every step keeps the device sound until the driver goes wrong.
LEMMA SoundStep ==
  ASSUME TypeInv, AloneInv, OrderInv, SoundInv, [Next]_vars
  PROVE  SoundInv'
  <1>1. CASE Break
    BY <1>1, BreakNeedsDamage DEF Break, history, SoundInv
  <1>2. ASSUME NEW t \in Threads, Enter(t) \/ Output(t) PROVE SoundInv'
    <2>1. (lapped => lapped') /\ (overlap' = 0 => overlap = 0)
      BY <1>2, HistoryStep
    <2>2. broken' => broken
      <3>1. CASE Notify(t)
        BY <3>1, WriteIsSound DEF Notify
      <3>2. CASE ~Notify(t)
        BY <1>2, <3>2 DEF Enter, Output, Copy, Offer, Reload, Advance, Load, Count, registers
      <3>3. QED
        BY <3>1, <3>2
    <2>3. QED
      BY <2>1, <2>2 DEF SoundInv
  <1>3. CASE WriteRegister
    <2>1. PICK r, v : DeviceWrite(r, v)
      BY <1>3 DEF WriteRegister
    <2>2. broken' => broken
      BY <2>1, WriteIsSound
    <2>3. QED
      BY <1>3, <2>2 DEF WriteRegister, history, SoundInv
  <1>4. CASE DeviceMissing \/ AddInterface \/ Transmit \/ Rest \/ UNCHANGED vars
    BY <1>4 DEF DeviceMissing, AddInterface, Transmit, Rest, vars, registers, history, SoundInv
  <1>5. CASE Announce \/ Reply
    <2>1. "control" \in Threads /\ "irq" \in Threads
      BY DEF Threads
    <2>2. CASE Enter("control") \/ Enter("irq")
      BY <1>2, <2>1, <2>2
    <2>3. CASE UNCHANGED <<registers, history>>
      BY <2>3 DEF registers, history, SoundInv
    <2>4. QED
      BY <1>5, <2>2, <2>3 DEF Announce, Reply
  <1>6. QED
    BY <1>1, <1>2, <1>3, <1>4, <1>5 DEF Next, Control, Device

\* Two threads that send at once may lose or repeat their own frames, and leave
\* tx_idx and avail->idx apart for ever; or the device stops on the index one of
\* them has put back.  It stops on nothing else, unless the driver laps it, and
\* while it has not, the frames handed over afterwards go out exactly once each.
THEOREM DamageConfined == Spec => []DamageStopsOrPasses
  <1>1. Init => SoundInv
    BY DEF Init, SoundInv
  <1>2. Spec => [](TypeInv /\ AloneInv /\ NumberInv /\ StageInv /\ SoundInv)
    BY <1>1, TypeInit, TypeStep, FrameInit, NumberStep, AloneStep, OrderInit, OrderStep,
       StageInvariant, SoundStep, PTL DEF Spec
  <1>3. TypeInv /\ StageInv /\ SoundInv => DamageStopsOrPasses
    <2> SUFFICES ASSUME TypeInv, StageInv, SoundInv PROVE DamageStopsOrPasses
      OBVIOUS
    <2>1. ASSUME Quiet, dev_idx = avail_idx, ~lapped, NEW f \in (overlap + 1)..handed
          PROVE  Times(f) = 1
      BY <2>1, SettledAreSent
    <2>2. QED
      BY <2>1 DEF DamageStopsOrPasses, SoundInv
  <1>4. QED
    BY <1>2, <1>3, PTL

=============================================================================
