----------------------------- MODULE NetReceive -----------------------------
(***************************************************************************)
(* The receive path of the NetworkStack                                    *)
(* (components/NetworkStack/src/network_stack.c): four parties that run    *)
(* concurrently on the receive ring and two flags.                         *)
(*                                                                         *)
(*   - the control thread, run, which starts the device and then the lwIP  *)
(*     interface;                                                          *)
(*   - the interrupt thread, hardware_irq_handle;                          *)
(*   - the RPC thread, net_wait_for_data;                                  *)
(*   - the virtio device (external), which fills buffers and interrupts.   *)
(*                                                                         *)
(* Ring indices are uint16_t that run freely and wrap; IdxMod stands for   *)
(* 2^16.  The registers are taken to lie where virtio_mmio.h's comments    *)
(* say.                                                                    *)
(***************************************************************************)
EXTENDS Naturals, Sequences, FiniteSets

CONSTANTS
  RING_SIZE,   \* buffers of the ring
  IdxMod,      \* values of an index
  MaxPackets,  \* bound: packets the device delivers
  MaxConfigs   \* bound: configuration changes the device reports

\* 256 divides 2^16: a ring entry is found by index % RING_SIZE across a wrap.
ASSUME RingAssumption ==
  /\ RING_SIZE \in Nat \ {0} /\ IdxMod \in Nat
  /\ \E k \in 2..IdxMod : IdxMod = k * RING_SIZE
ASSUME BoundAssumption == MaxPackets \in Nat /\ MaxConfigs \in Nat

VARIABLES
  boot,            \* how far the control thread is
  status,          \* InterruptStatus: the causes pending in the device
  rx_buffer,       \* the packet in each buffer; 0 if none
  avail_ring, avail_idx,  \* rx_ring.avail: buffers given to the device
  used_ring, used_idx,    \* rx_ring.used: buffers the device has filled
  dev_idx,         \* how much of the available ring the device has consumed
  arrived,         \* packets the device has put into the ring
  configs,         \* configuration changes reported
  hpc, isr, id,    \* the interrupt thread: place, isr, id
  last_rx_idx,     \* how much of the used ring the driver has processed
  data_available,  \* the flag for net_wait_for_data
  wpc,             \* where the RPC thread is
  handled,         \* history: the packets read from the ring, in order
  delivered,       \* history: how many of them went to netif.input
  woken            \* history: how often net_wait_for_data returned

device  == <<status, rx_buffer, used_ring, used_idx, dev_idx, arrived, configs>>
given   == <<avail_ring, avail_idx>>
handler == <<hpc, isr, id, last_rx_idx, handled, delivered>>
waiter  == <<wpc, woken>>
vars    == <<boot, device, given, handler, data_available, waiter>>

Slots == 0..(RING_SIZE - 1)

\* Defect: the index is wider than the ring's and does not wrap with it.
SuccWide(i) == i + 1

\* Defect: the index is kept below RING_SIZE instead of running freely.
SuccWithinRing(i) == (i + 1) % RING_SIZE

\* ++ on a ring index.
Succ(i) == (i + 1) % IdxMod

-----------------------------------------------------------------------------
(* The control thread.                                                     *)

\* regs is set before anything else is.
MapRegisters ==
  /\ boot = "off"
  /\ boot' = "mapped"
  /\ UNCHANGED <<device, given, handler, data_available, waiter>>

\* What lies there is no virtio device: run goes on with an interface that no
\* packet will ever reach.
DeviceMissing ==
  /\ boot = "mapped"
  /\ boot' = "absent"
  /\ UNCHANGED <<device, given, handler, data_available, waiter>>

\* The rings are filled with empty buffers and DRIVER_OK starts the device.
StartDevice ==
  /\ boot = "mapped"
  /\ boot'       = "started"
  /\ avail_ring' = [s \in Slots |-> s]
  /\ avail_idx'  = RING_SIZE
  /\ UNCHANGED <<device, handler, data_available, waiter>>

\* netif_add sets netif.input.
AddInterface ==
  /\ boot = "started"
  /\ boot' = "up"
  /\ UNCHANGED <<device, given, handler, data_available, waiter>>

-----------------------------------------------------------------------------
(* The device.                                                             *)

\* A packet goes into the next available buffer; without one it is dropped
\* before it is seen here.
Arrive ==
  /\ boot \in {"started", "up"}
  /\ arrived < MaxPackets
  /\ dev_idx # avail_idx
  /\ LET b == avail_ring[dev_idx % RING_SIZE]
     IN  /\ rx_buffer' = [rx_buffer EXCEPT ![b] = arrived + 1]
         /\ used_ring' = [used_ring EXCEPT ![used_idx % RING_SIZE] = b]
  /\ dev_idx'  = Succ(dev_idx)
  /\ used_idx' = Succ(used_idx)
  /\ arrived'  = arrived + 1
  /\ status'   = status \cup {"used"}
  /\ UNCHANGED <<boot, configs, given, handler, data_available, waiter>>

\* The device reports a change of its configuration.
ConfigChange ==
  /\ boot \in {"started", "up"}
  /\ configs < MaxConfigs
  /\ configs' = configs + 1
  /\ status'  = status \cup {"config"}
  /\ UNCHANGED <<boot, rx_buffer, used_ring, used_idx, dev_idx, arrived,
                 given, handler, data_available, waiter>>

-----------------------------------------------------------------------------
(* The interrupt thread.                                                   *)

\* The interrupt is unmasked: it is delivered while a cause is pending, and
\* may be delivered spuriously.
Interrupt ==
  /\ hpc = "idle"
  /\ hpc' = "entry"
  /\ UNCHANGED <<boot, device, given, isr, id, last_rx_idx, handled, delivered,
                 data_available, waiter>>

\* Without registers there is nothing to read; without the used bit nothing to
\* do, and nothing is acknowledged to the device.
ReadStatus ==
  /\ hpc = "entry"
  /\ isr' = IF boot = "off" THEN {} ELSE status
  /\ hpc' = IF "used" \in isr' THEN "drain" ELSE "done"
  /\ UNCHANGED <<boot, device, given, id, last_rx_idx, handled, delivered,
                 data_available, waiter>>

\* The next used buffer is copied into a pbuf and passed to netif.input, if a
\* pbuf can be had.  netif.input is NULL until the interface is added.
TakePacket ==
  /\ hpc = "drain"
  /\ last_rx_idx # used_idx
  /\ id'      = used_ring[last_rx_idx % RING_SIZE]
  /\ handled' = Append(handled, rx_buffer[id'])
  /\ \/ /\ hpc' = IF boot = "up" THEN "signal" ELSE "crashed"
        /\ delivered' = delivered + 1
     \/ /\ hpc' = "give"
        /\ delivered' = delivered
  /\ UNCHANGED <<boot, device, given, isr, last_rx_idx, data_available, waiter>>

\* data_available = true follows the delivery.
SignalData ==
  /\ hpc = "signal"
  /\ data_available' = TRUE
  /\ hpc'            = "give"
  /\ UNCHANGED <<boot, device, given, isr, id, last_rx_idx, handled, delivered, waiter>>

\* Defect: the index moves on before the entry is written.
GiveBackLate ==
  /\ hpc = "give"
  /\ avail_ring'  = [avail_ring EXCEPT ![(avail_idx + 1) % RING_SIZE] = id]
  /\ avail_idx'   = Succ(avail_idx)
  /\ last_rx_idx' = Succ(last_rx_idx)
  /\ hpc'         = "drain"
  /\ UNCHANGED <<boot, device, isr, id, handled, delivered, data_available, waiter>>

\* The buffer goes back to the device.
GiveBack ==
  /\ hpc = "give"
  /\ avail_ring'  = [avail_ring EXCEPT ![avail_idx % RING_SIZE] = id]
  /\ avail_idx'   = Succ(avail_idx)
  /\ last_rx_idx' = Succ(last_rx_idx)
  /\ hpc'         = "drain"
  /\ UNCHANGED <<boot, device, isr, id, handled, delivered, data_available, waiter>>

\* Defect: the causes are acknowledged although the ring was not drained.
DrainedAfterOne ==
  /\ hpc = "drain"
  /\ last_rx_idx = used_idx \/ handled # << >>
  /\ hpc' = "ack"
  /\ UNCHANGED <<boot, device, given, isr, id, last_rx_idx, handled, delivered,
                 data_available, waiter>>

\* The loop finds nothing more; the device is notified (it looks at the ring
\* anyway).
Drained ==
  /\ hpc = "drain"
  /\ last_rx_idx = used_idx
  /\ hpc' = "ack"
  /\ UNCHANGED <<boot, device, given, isr, id, last_rx_idx, handled, delivered,
                 data_available, waiter>>

\* InterruptACK clears the causes that were read at the start.
AcknowledgeDevice ==
  /\ hpc = "ack"
  /\ status' = status \ isr
  /\ hpc'    = "done"
  /\ UNCHANGED <<boot, rx_buffer, used_ring, used_idx, dev_idx, arrived, configs,
                 given, isr, id, last_rx_idx, handled, delivered, data_available,
                 waiter>>

\* hardware_irq_acknowledge unmasks the interrupt.
AcknowledgeInterrupt ==
  /\ hpc = "done"
  /\ hpc' = "idle"
  /\ UNCHANGED <<boot, device, given, isr, id, last_rx_idx, handled, delivered,
                 data_available, waiter>>

-----------------------------------------------------------------------------
(* The RPC thread.                                                         *)

\* A caller waits (the assembly connects two, the code has none).
CallWait ==
  /\ wpc = "out"
  /\ wpc' = "poll"
  /\ UNCHANGED <<boot, device, given, handler, data_available, woken>>

\* seL4_Yield.
Yield == wpc = "poll" /\ ~data_available /\ UNCHANGED vars

SeeData ==
  /\ wpc = "poll"
  /\ data_available
  /\ wpc' = "reset"
  /\ UNCHANGED <<boot, device, given, handler, data_available, woken>>

\* Defect: the flag is left for the next caller.
KeepFlag ==
  /\ wpc = "reset"
  /\ wpc'   = "out"
  /\ woken' = woken + 1
  /\ UNCHANGED <<boot, device, given, handler, data_available>>

\* The flag is cleared, whoever has set it since, and the call returns.
ResetFlag ==
  /\ wpc = "reset"
  /\ data_available' = FALSE
  /\ wpc'   = "out"
  /\ woken' = woken + 1
  /\ UNCHANGED <<boot, device, given, handler>>

-----------------------------------------------------------------------------
Init ==
  /\ boot = "off"
  /\ status = {}
  /\ rx_buffer  = [s \in Slots |-> 0]
  /\ avail_ring = [s \in Slots |-> 0] /\ avail_idx = 0
  /\ used_ring  = [s \in Slots |-> 0] /\ used_idx = 0
  /\ dev_idx = 0 /\ arrived = 0 /\ configs = 0
  /\ hpc = "idle" /\ isr = {} /\ id = 0 /\ last_rx_idx = 0
  /\ data_available = FALSE
  /\ wpc = "out"
  /\ handled = << >> /\ delivered = 0 /\ woken = 0

Control == MapRegisters \/ DeviceMissing \/ StartDevice \/ AddInterface
Device  == Arrive \/ ConfigChange
Handler ==
  \/ ReadStatus \/ TakePacket \/ SignalData \/ GiveBack \/ Drained
  \/ AcknowledgeDevice \/ AcknowledgeInterrupt
Waiter  == CallWait \/ Yield \/ SeeData \/ ResetFlag

Next == Control \/ Device \/ Interrupt \/ Handler \/ Waiter

Spec == Init /\ [][Next]_vars

\* The threads have the same priority and each is scheduled again and again; a
\* pending cause is delivered.  The device owes nothing.
FairSpec ==
  /\ Spec
  /\ WF_vars(Control)
  /\ WF_vars(Handler)
  /\ WF_vars(status # {} /\ Interrupt)

-----------------------------------------------------------------------------
(* Properties.                                                             *)

Causes  == {"used", "config"}
Indices == 0..(IdxMod - 1)

\* Every variable has its type.
TypeOK ==
  /\ boot \in {"off", "mapped", "absent", "started", "up"}
  /\ status \subseteq Causes
  /\ rx_buffer \in [Slots -> 0..arrived]
  /\ avail_ring \in [Slots -> Slots] /\ avail_idx \in Indices
  /\ used_ring \in [Slots -> Slots]  /\ used_idx \in Indices
  /\ dev_idx \in Indices
  /\ arrived \in 0..MaxPackets
  /\ configs \in 0..MaxConfigs
  /\ hpc \in {"idle", "entry", "drain", "signal", "give", "ack", "done", "crashed"}
  /\ isr \subseteq Causes
  /\ id \in Slots
  /\ last_rx_idx \in Indices
  /\ data_available \in BOOLEAN
  /\ wpc \in {"out", "poll", "reset"}
  /\ handled \in Seq(0..arrived)
  /\ delivered \in 0..Len(handled)
  /\ woken \in Nat

\* How many steps lead from index a to index b.
Distance(a, b) == (b + IdxMod - a) % IdxMod

\* The ring entries from index a up to, but not including, index b.
Entries(ring, a, b) == {ring[(a + k) % RING_SIZE] : k \in 0..(Distance(a, b) - 1)}

\* At any moment every buffer has one owner: it waits for the device, or it
\* has been filled and the driver has not returned it.  This holds across the
\* wrap of the indices and with the device filling buffers while the handler
\* returns others.
OneOwner ==
  boot \in {"started", "up"} =>
    /\ Distance(dev_idx, avail_idx) + Distance(last_rx_idx, used_idx) = RING_SIZE
    /\ Entries(avail_ring, dev_idx, avail_idx)
         \cup Entries(used_ring, last_rx_idx, used_idx) = Slots

\* Packets are read from the ring once each and in the order of their arrival,
\* and none is overwritten before it has been read.
ArrivalOrder == handled = [i \in 1..Len(handled) |-> i]

\* net_wait_for_data does not return more often than packets have been
\* delivered: every return is paid for by a packet of its own.
WakeupsPaidFor == woken <= delivered

\* A packet that lies in the ring when its interrupt is still to be served is
\* handled in the end.
Announced ==
  \A n \in 1..MaxPackets :
    (boot = "up" /\ hpc = "idle" /\ "used" \in status /\ arrived >= n)
      ~> (Len(handled) >= n)

\* network_stack.c:218 "Process all used descriptors": when the handler has
\* run and no interrupt is coming, the ring holds no packet.
AllProcessed ==
  (boot = "up" /\ hpc = "idle" /\ "used" \notin status) => last_rx_idx = used_idx

\* network_stack.c:207 "CRITICAL: Prevent NULL pointer dereference if IRQ fires
\* during or before init".
NoNullCall == hpc # "crashed"

=============================================================================
