---------------------------- MODULE NetTransmit ----------------------------
(***************************************************************************)
(* The NetworkStack (components/NetworkStack/src/network_stack.c) from the *)
(* first register it writes to the frames it sends: virtio_init_hardware   *)
(* and low_level_output.                                                   *)
(*                                                                         *)
(* The registers are fields of a C structure (virtio_mmio.h).  Where a     *)
(* field lies follows from the fields before it; what the device has there *)
(* follows from the virtio specification, which the comments quote.  The   *)
(* driver looks at the magic value and at nothing else before it starts,   *)
(* so that several kinds of device may be behind the registers.            *)
(*                                                                         *)
(* Two threads call low_level_output: the control thread, once, when       *)
(* netif_set_up announces the interface, and the interrupt thread whenever *)
(* lwIP answers a packet.  Nothing keeps them apart, and nothing asks      *)
(* whether the device has sent a buffer before it is filled again.         *)
(***************************************************************************)
EXTENDS Integers, Sequences, FiniteSets

CONSTANTS
  RING_SIZE,  \* buffers of the ring
  IdxMod,     \* values of a uint16_t index
  Layouts,    \* where the registers may lie: "struct", "commented"
  Devices,    \* what may be behind them: "lenient", "strict", "legacy"
  MaxFrames   \* bound: frames handed to low_level_output

ASSUME RingAssumption ==
  /\ RING_SIZE \in Nat \ {0} /\ IdxMod \in Nat
  /\ \E k \in 2..IdxMod : IdxMod = k * RING_SIZE
ASSUME LayoutAssumption == Layouts # {} /\ Layouts \subseteq {"struct", "commented"}
ASSUME DeviceAssumption == Devices # {} /\ Devices \subseteq {"lenient", "strict", "legacy"}
ASSUME BoundAssumption == MaxFrames \in Nat

VARIABLES
  layout,       \* where the registers lie
  device,       \* the kind of device behind them
  boot,         \* where the control thread is in its run
  written,      \* how many register writes of the handshake are done
  status, sel, notified,  \* device: Status, QueueSel, queues to look at
  queue,        \* device: what it knows of each queue
  offer,        \* device: DeviceFeaturesSel, the word of features it shows
  accepted,     \* device: the words of features that the driver has taken over
  broken,       \* device: it has found a ring out of order and stopped
  tx_buffer,    \* the frame in each buffer; 0 if none
  avail_ring, avail_idx,  \* tx_ring.avail
  tx_idx,       \* the next buffer to be filled
  tpc,          \* by thread: where it is in low_level_output
  desc_idx, idx,          \* by thread: the buffer and the index it works with
  frame,        \* by thread: the frame it was handed
  dev_idx,      \* how much of the available ring the device has consumed
  handed,       \* history: frames handed over so far
  sent,         \* history: what the device has sent, in order
  overlap,      \* history: the last frame handed over while two threads were inside
  lapped        \* history: the driver wrote where the device had yet to send, or
                \* its index was a ring or more from the device's when it did

setup     == <<layout, device, boot, written>>
features  == <<offer, accepted>>
registers == <<status, sel, notified, queue, features, broken>>
ring      == <<tx_buffer, avail_ring, avail_idx, tx_idx>>
locals    == <<tpc, desc_idx, idx, frame>>
history   == <<handed, overlap, lapped>>
vars      == <<setup, registers, ring, locals, dev_idx, sent, history>>

Slots   == 0..(RING_SIZE - 1)
Threads == {"control", "irq"}
Queues  == {0, 1}   \* receive, transmit

Succ(i)        == (i + 1) % IdxMod
Distance(a, b) == (b + IdxMod - a) % IdxMod

-----------------------------------------------------------------------------
(* The register layout.                                                    *)

\* The structure: its fields in order, each with its length in words.
Fields ==
  << <<"MagicValue", 1>>, <<"Version", 1>>, <<"DeviceID", 1>>, <<"VendorID", 1>>,
     <<"DeviceFeatures", 1>>, <<"DeviceFeaturesSel", 1>>, <<"_reserved1", 2>>,
     <<"DriverFeatures", 1>>, <<"DriverFeaturesSel", 1>>, <<"_reserved2", 2>>,
     <<"QueueSel", 1>>, <<"QueueNumMax", 1>>, <<"QueueNum", 1>>, <<"_reserved3", 3>>,
     <<"QueueReady", 1>>, <<"_reserved4", 2>>, <<"QueueNotify", 1>>, <<"_reserved5", 3>>,
     <<"InterruptStatus", 1>>, <<"InterruptACK", 1>>, <<"_reserved6", 2>>,
     <<"Status", 1>>, <<"_reserved7", 3>>,
     <<"QueueDescLow", 1>>, <<"QueueDescHigh", 1>>, <<"_reserved8", 2>>,
     <<"QueueAvailLow", 1>>, <<"QueueAvailHigh", 1>>, <<"_reserved9", 2>>,
     <<"QueueUsedLow", 1>>, <<"QueueUsedHigh", 1>> >>

\* The offsets in the comments beside them, of the registers that matter here.
Commented ==
  [DeviceFeatures |-> 16, DeviceFeaturesSel |-> 20, DriverFeatures |-> 32,
   Status |-> 112, QueueSel |-> 48, QueueNum |-> 56, QueueReady |-> 68, QueueNotify |-> 80,
   QueueDescLow  |-> 128, QueueDescHigh  |-> 132,
   QueueAvailLow |-> 144, QueueAvailHigh |-> 148,
   QueueUsedLow  |-> 160, QueueUsedHigh  |-> 164]

Registers == DOMAIN Commented
Places    == {"QueueDescLow", "QueueDescHigh", "QueueAvailLow", "QueueAvailHigh",
              "QueueUsedLow", "QueueUsedHigh"}

\* The offset of each field of the structure: four bytes for every word before.
Offset[i \in 1..Len(Fields)] ==
  IF i = 1 THEN 0 ELSE Offset[i - 1] + 4 * Fields[i - 1][2]

\* The register that the device has where the structure has field f.
InStruct ==
  [f \in Registers |->
     LET i    == CHOOSE k \in 1..Len(Fields) : Fields[k][1] = f
         here == {r \in Registers : Commented[r] = Offset[i]}
     IN  IF here = {} THEN "none" ELSE CHOOSE r \in here : TRUE]

\* The register of the device that an access to field f reaches.
Reached(f) == IF layout = "commented" THEN f ELSE InStruct[f]

-----------------------------------------------------------------------------
(* virtio_init_hardware.                                                   *)

\* One queue: its rings, by address, then QueueReady.
Setup(q) ==
  << <<"QueueSel", q>>, <<"QueueNum", RING_SIZE>>,
     <<"QueueDescLow",  <<q, "desc">> >>,  <<"QueueDescHigh",  << >> >>,
     <<"QueueAvailLow", <<q, "avail">> >>, <<"QueueAvailHigh", << >> >>,
     <<"QueueUsedLow",  <<q, "used">> >>,  <<"QueueUsedHigh",  << >> >>,
     <<"QueueReady", 1>> >>

\* Defect: the driver never says that it is there.
HandshakeUnfinished ==
  << <<"Status", 0>>, <<"|", 1>>, <<"|", 2>>,
     <<"DeviceFeaturesSel", 0>>, <<"DriverFeatures", "read">>, <<"|", 8>> >>
    \o Setup(0) \o Setup(1) \o << <<"QueueNotify", 0>> >>

\* The register writes in order; "|" sets a bit of Status, and DriverFeatures
\* gets what DeviceFeatures reads as.  That Status keeps the 8 is never checked.
Handshake ==
  << <<"Status", 0>>, <<"|", 1>>, <<"|", 2>>,
     <<"DeviceFeaturesSel", 0>>, <<"DriverFeatures", "read">>, <<"|", 8>> >>
    \o Setup(0) \o Setup(1)
    \o << <<"QueueNotify", 0>>, <<"|", 4>> >>

FreshQueue == [ready |-> FALSE, at |-> [p \in Places |-> << >>]]

\* VERSION_1 is a feature of word 1.  A strict device takes back FEATURES_OK, the
\* 8 of Status, from a driver that has not accepted it.
Refused == IF device = "strict" /\ 1 \notin accepted THEN {8} ELSE {}

\* A legacy device learns of its queues by registers this driver does not know,
\* and has none for their parts.
Ignored == IF device = "legacy" THEN Places \cup {"QueueReady"} ELSE {}

\* The device: what a write of v to its register r does.  DriverFeaturesSel is
\* never written, so that DriverFeatures is the word 0 of what is accepted.
DeviceWrite(r, v) ==
  LET reset == r = "Status" /\ v = {}
  IN  /\ status'   = IF r = "Status" THEN v \ Refused ELSE status
      /\ sel'      = IF r = "QueueSel" THEN v ELSE sel
      /\ notified' = IF r = "QueueNotify" THEN notified \cup {v} ELSE notified
      /\ offer'    = IF r = "DeviceFeaturesSel" THEN v ELSE offer
      /\ accepted' = IF reset THEN {} ELSE IF r = "DriverFeatures" THEN v \cap {0} ELSE accepted
      /\ broken'   = IF reset THEN FALSE ELSE broken
      /\ queue'    = IF reset THEN [q \in Queues |-> FreshQueue]
                     ELSE IF r \in Ignored    THEN queue
                     ELSE IF r = "QueueReady" THEN [queue EXCEPT ![sel].ready = (v = 1)]
                     ELSE IF r \in Places     THEN [queue EXCEPT ![sel].at[r] = v]
                     ELSE queue

\* Reading back: nothing there reads as zero.
StatusRead   == IF Reached("Status") = "Status" THEN status ELSE {}
FeaturesRead == IF Reached("DeviceFeatures") = "DeviceFeatures" THEN {offer} ELSE {}

WriteRegister ==
  /\ boot = "init" /\ written < Len(Handshake)
  /\ LET w == Handshake[written + 1]
     IN  CASE w[1] = "|"      -> DeviceWrite(Reached("Status"), StatusRead \cup {w[2]})
           [] w[1] = "Status" -> DeviceWrite(Reached("Status"), {})
           [] w[1] = "DriverFeatures" -> DeviceWrite(Reached("DriverFeatures"), FeaturesRead)
           [] OTHER           -> DeviceWrite(Reached(w[1]), w[2])
  /\ written' = written + 1
  /\ UNCHANGED <<layout, device, boot, ring, locals, dev_idx, sent, history>>

\* Neither a device nor, then, a ring: virtio_init_hardware just returns.
DeviceMissing ==
  /\ boot = "init" /\ written = 0
  /\ boot' = "absent"
  /\ UNCHANGED <<layout, device, written, registers, ring, locals, dev_idx, sent, history>>

\* netif_add; from here on lwIP answers packets.
AddInterface ==
  /\ boot = "init" /\ written = Len(Handshake)
  /\ boot' = "added"
  /\ UNCHANGED <<layout, device, written, registers, ring, locals, dev_idx, sent, history>>

-----------------------------------------------------------------------------
(* low_level_output.                                                       *)

\* Defect: the running index itself is the buffer.
EnterUnreduced(t) ==
  /\ tpc[t] = "out" /\ handed < MaxFrames
  /\ handed'   = handed + 1
  /\ frame'    = [frame EXCEPT ![t] = handed']
  /\ desc_idx' = [desc_idx EXCEPT ![t] = tx_idx]
  /\ tpc'      = [tpc EXCEPT ![t] = "copy"]
  /\ overlap'  = IF \E u \in Threads : tpc[u] # "out" THEN handed' ELSE overlap
  /\ UNCHANGED <<layout, device, written, registers, ring, idx, dev_idx, sent, lapped>>

\* lwIP hands a frame to thread t, which takes the buffer at tx_idx.
Enter(t) ==
  /\ tpc[t] = "out" /\ handed < MaxFrames
  /\ handed'   = handed + 1
  /\ frame'    = [frame EXCEPT ![t] = handed']
  /\ desc_idx' = [desc_idx EXCEPT ![t] = tx_idx % RING_SIZE]
  /\ tpc'      = [tpc EXCEPT ![t] = "copy"]
  /\ overlap'  = IF \E u \in Threads : tpc[u] # "out" THEN handed' ELSE overlap
  /\ UNCHANGED <<layout, device, written, registers, ring, idx, dev_idx, sent, lapped>>

\* netif_set_up: a gratuitous ARP.  There is one, whether or not there is a
\* device; without the device the ring is at address zero.
Announce ==
  /\ boot \in {"added", "absent"}
  /\ IF boot = "added"
       THEN Enter("control") /\ boot' = "up"
       ELSE /\ boot' = "crashed"
            /\ UNCHANGED <<layout, device, written, registers, ring, locals, dev_idx, sent,
                            history>>

\* The interrupt thread has passed a packet to lwIP, which answers it.
Reply == boot \in {"added", "up"} /\ Enter("irq") /\ UNCHANGED boot

\* The buffers that the device has yet to send.
Unsent == {avail_ring[(dev_idx + k) % RING_SIZE] : k \in 0..(Distance(dev_idx, avail_idx) - 1)}

\* The frame into the buffer, the buffer into its descriptor.
Copy(t) ==
  /\ tpc[t] = "copy"
  /\ tx_buffer' = [tx_buffer EXCEPT ![desc_idx[t]] = frame[t]]
  /\ lapped'    = (lapped \/ desc_idx[t] \in Unsent)
  /\ tpc'       = [tpc EXCEPT ![t] = "offer"]
  /\ UNCHANGED <<setup, registers, avail_ring, avail_idx, tx_idx, desc_idx, idx,
                 frame, dev_idx, sent, handed, overlap>>

\* Defect: one index serves the buffers and the available ring.
OfferAtBuffer(t) ==
  /\ tpc[t] = "offer"
  /\ idx'        = [idx EXCEPT ![t] = avail_idx]
  /\ avail_ring' = [avail_ring EXCEPT ![tx_idx % RING_SIZE] = desc_idx[t]]
  /\ lapped'     = (lapped \/ Distance(dev_idx, avail_idx) >= RING_SIZE)
  /\ tpc'        = [tpc EXCEPT ![t] = "index"]
  /\ UNCHANGED <<setup, registers, tx_buffer, avail_idx, tx_idx, desc_idx, frame,
                 dev_idx, sent, handed, overlap>>

\* The descriptor into the available ring.
Offer(t) ==
  /\ tpc[t] = "offer"
  /\ idx'        = [idx EXCEPT ![t] = avail_idx]
  /\ avail_ring' = [avail_ring EXCEPT ![avail_idx % RING_SIZE] = desc_idx[t]]
  /\ lapped'     = (lapped \/ Distance(dev_idx, avail_idx) >= RING_SIZE)
  /\ tpc'        = [tpc EXCEPT ![t] = "index"]
  /\ UNCHANGED <<setup, registers, tx_buffer, avail_idx, tx_idx, desc_idx, frame,
                 dev_idx, sent, handed, overlap>>

\* avail->idx++ starts from the value read for the ring or, where the compiler
\* has it read again, from a newer one.
Reload(t) ==
  /\ tpc[t] = "index" /\ idx[t] # avail_idx
  /\ idx' = [idx EXCEPT ![t] = avail_idx]
  /\ UNCHANGED <<setup, registers, ring, tpc, desc_idx, frame, dev_idx, sent, history>>

Advance(t) ==
  /\ tpc[t] = "index"
  /\ avail_idx' = Succ(idx[t])
  /\ tpc' = [tpc EXCEPT ![t] = "notify"]
  /\ UNCHANGED <<setup, registers, tx_buffer, avail_ring, tx_idx, desc_idx, idx,
                 frame, dev_idx, sent, history>>

\* Defect: the other queue is notified.
NotifyReceive(t) ==
  /\ tpc[t] = "notify"
  /\ DeviceWrite(Reached("QueueNotify"), 0)
  /\ tpc' = [tpc EXCEPT ![t] = "count"]
  /\ UNCHANGED <<setup, ring, desc_idx, idx, frame, dev_idx, sent, history>>

\* The barrier, then QueueNotify.
Notify(t) ==
  /\ tpc[t] = "notify"
  /\ DeviceWrite(Reached("QueueNotify"), 1)
  /\ tpc' = [tpc EXCEPT ![t] = "count"]
  /\ UNCHANGED <<setup, ring, desc_idx, idx, frame, dev_idx, sent, history>>

\* tx_idx++ reads ...
Load(t) ==
  /\ tpc[t] = "count"
  /\ idx' = [idx EXCEPT ![t] = tx_idx]
  /\ tpc' = [tpc EXCEPT ![t] = "store"]
  /\ UNCHANGED <<setup, registers, ring, desc_idx, frame, dev_idx, sent, history>>

\* Defect: tx_idx stays.
CountNever(t) ==
  /\ tpc[t] = "store"
  /\ tpc' = [tpc EXCEPT ![t] = "out"]
  /\ UNCHANGED <<setup, registers, ring, desc_idx, idx, frame, dev_idx, sent, history>>

\* ... and writes.
Count(t) ==
  /\ tpc[t] = "store"
  /\ tx_idx' = Succ(idx[t])
  /\ tpc'    = [tpc EXCEPT ![t] = "out"]
  /\ UNCHANGED <<setup, registers, tx_buffer, avail_ring, avail_idx, desc_idx, idx,
                 frame, dev_idx, sent, history>>

-----------------------------------------------------------------------------
(* The device.                                                             *)

Placed(q) ==
  queue[q].at = [p \in Places |->
                   CASE p = "QueueDescLow"  -> <<q, "desc">>
                     [] p = "QueueAvailLow" -> <<q, "avail">>
                     [] p = "QueueUsedLow"  -> <<q, "used">>
                     [] OTHER               -> << >>]

\* The driver is there, the queue is where the driver has put it, and the device
\* has not stopped.
Live(q) == status = {1, 2, 4, 8} /\ ~broken /\ queue[q].ready /\ Placed(q)

\* Notified, the device works through the ring.
Transmit ==
  /\ Live(1) /\ 1 \in notified
  /\ dev_idx # avail_idx /\ Distance(dev_idx, avail_idx) <= RING_SIZE
  /\ sent'    = Append(sent, tx_buffer[avail_ring[dev_idx % RING_SIZE]])
  /\ dev_idx' = Succ(dev_idx)
  /\ UNCHANGED <<setup, registers, ring, locals, history>>

\* More available than the ring has room for: the index has run too far ahead of
\* the device, or gone back behind it.  The device stops; nothing in the driver
\* looks, or resets it.
Break ==
  /\ Live(1) /\ 1 \in notified
  /\ Distance(dev_idx, avail_idx) > RING_SIZE
  /\ broken' = TRUE
  /\ UNCHANGED <<setup, status, sel, notified, queue, features, ring, locals, dev_idx,
                 sent, history>>

\* Nothing left: it waits for the next notification.
Rest ==
  /\ Live(1) /\ 1 \in notified
  /\ dev_idx = avail_idx
  /\ notified' = notified \ {1}
  /\ UNCHANGED <<setup, status, sel, queue, features, broken, ring, locals, dev_idx,
                 sent, history>>

-----------------------------------------------------------------------------
Init ==
  /\ layout \in Layouts /\ device \in Devices
  /\ boot = "init" /\ written = 0
  /\ status = {} /\ sel = 0 /\ notified = {} /\ queue = [q \in Queues |-> FreshQueue]
  /\ offer = 0 /\ accepted = {} /\ broken = FALSE
  /\ tx_buffer  = [s \in Slots |-> 0]
  /\ avail_ring = [s \in Slots |-> 0] /\ avail_idx = 0
  /\ tx_idx = 0
  /\ tpc      = [t \in Threads |-> "out"]
  /\ desc_idx = [t \in Threads |-> 0] /\ idx = [t \in Threads |-> 0]
  /\ frame    = [t \in Threads |-> 0]
  /\ dev_idx = 0
  /\ handed = 0 /\ sent = << >> /\ overlap = 0 /\ lapped = FALSE

Control   == WriteRegister \/ DeviceMissing \/ AddInterface \/ Announce
Output(t) ==
  Copy(t) \/ Offer(t) \/ Reload(t) \/ Advance(t) \/ Notify(t) \/ Load(t) \/ Count(t)
Device    == Transmit \/ Break \/ Rest

Next == Control \/ Reply \/ (\E t \in Threads : Output(t)) \/ Device

Spec == Init /\ [][Next]_vars

\* A thread in low_level_output goes on, and a device that was notified works.
FairSpec == Spec /\ WF_vars(Device) /\ \A t \in Threads : WF_vars(Output(t))

-----------------------------------------------------------------------------
(* Properties.                                                             *)

\* Every variable has its type; in particular no thread works on a buffer
\* outside the ring.
TypeOK ==
  /\ layout \in Layouts /\ device \in Devices /\ written \in 0..Len(Handshake)
  /\ boot \in {"init", "absent", "added", "up", "crashed"}
  /\ status \subseteq {1, 2, 4, 8} /\ sel \in Queues /\ notified \subseteq Queues
  /\ \A q \in Queues : queue[q].ready \in BOOLEAN
  /\ offer \in {0, 1} /\ accepted \subseteq {0, 1} /\ broken \in BOOLEAN
  /\ tx_buffer \in [Slots -> 0..MaxFrames] /\ avail_ring \in [Slots -> Slots]
  /\ {avail_idx, tx_idx, dev_idx} \subseteq 0..(IdxMod - 1)
  /\ tpc \in [Threads -> {"out", "copy", "offer", "index", "notify", "count", "store"}]
  /\ desc_idx \in [Threads -> Slots] /\ idx \in [Threads -> 0..(IdxMod - 1)]
  /\ frame \in [Threads -> 0..MaxFrames]
  /\ handed \in 0..MaxFrames /\ overlap \in 0..MaxFrames
  /\ sent \in Seq(0..MaxFrames) /\ lapped \in BOOLEAN

\* The 26 writes of the handshake are complete and in order for a device that
\* does not insist on VERSION_1, where the registers lie as their comments say:
\* it has both queues, where the driver has put them, until it breaks.  For no
\* other device and no other layout is any queue live, and the driver, which
\* reads neither Version nor Status before it goes on, cannot tell.
HandshakeSuffices ==
  boot = "up" =>
    \A q \in Queues : Live(q) <=> (layout = "commented" /\ device = "lenient" /\ ~broken)

\* As long as one thread at a time sends, what goes out i-th is the i-th frame
\* - or, once the ring has been lapped, a later one that took its buffer, a
\* whole number of rings later: never a frame of before, never a mixture of
\* positions, whatever the moment the device looks.
InOrderUnlessLapped ==
  overlap = 0 =>
    \A i \in 1..Len(sent) :
      \/ sent[i] = i
      \/ lapped /\ sent[i] > i /\ sent[i] % RING_SIZE = i % RING_SIZE

Quiet == \A t \in Threads : tpc[t] = "out"
Times(f) == Cardinality({i \in 1..Len(sent) : sent[i] = f})

\* What two threads in low_level_output do to each other's frames either stops
\* the device for good, or passes: a device breaks only if threads have overlapped
\* or the ring was lapped, and while it has not, the frames handed over after the
\* last overlap go out exactly once each, though tx_idx and avail->idx may have
\* moved apart for ever.
DamageStopsOrPasses ==
  /\ broken => overlap # 0 \/ lapped
  /\ (Quiet /\ Live(1) /\ dev_idx = avail_idx /\ ~lapped) =>
       \A f \in (overlap + 1)..handed : Times(f) = 1

\* A frame that no other thread interferes with goes out: the notification
\* comes after the index, so the device cannot rest on it.
FramesGoOut ==
  \A n \in 1..MaxFrames :
    (Live(1) /\ handed = n) ~> (Len(sent) >= n \/ overlap # 0 \/ lapped)

=============================================================================
