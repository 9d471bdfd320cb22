# Verification of the seL4 banking system

TLA+ models, TLC runs and TLAPS proofs for the banking system in `src/`: seven
CAmkES components on the seL4 microkernel that pass a bank transaction from a
client to an SQLite ledger. `client.c` stands for
`src/components/Client/src/client.c`, and so on.

1. [Inventory](#1-inventory) - the components, how they interact, what is hard
2. [The modules](#2-the-modules) - what models what
3. [The runs](#3-the-runs) - questions, bounds, results
4. [Fairness](#4-fairness)
5. [Findings](#5-findings)
6. [The proofs](#6-the-proofs)
7. [What is not modelled](#7-what-is-not-modelled)
8. [Plan](#8-plan)
9. [Running it](#9-running-it)

## 1. Inventory

### Components

| Component | State | Operations | Talks to |
|---|---|---|---|
| Client (`client.c`) | its loop, `input_buffer` | write a request into the shared buffer, signal, yield, read the response | Gateway: dataport `net_buffer`, notification `data_ready`. The RPC connections to AuthServer, Ledger and NetworkStack exist in the assembly and are never called |
| APIGateway (`gateway.c`) | its loop, `local_buf`, `reply` | wait, copy the request out, parse, call a service, copy the reply in | Client (above); AuthServer and Ledger by RPC. Its NetworkStack connection is never called |
| AuthServer (`auth.c`) | `users`, `num_users`, `next_token_id` | `auth_register_user`, `auth_login` | called by the Gateway alone |
| Ledger (`ledger.c`) | the database `db` | `pre_init`, `bank_execute_transaction`, the VFS methods SQLite calls | called by the Gateway; calls Storage by RPC |
| Storage (`storage.c`) | `physical_disk`, `current_file_size` | read, write, size; open, close, sync do nothing | called by the Ledger |
| NetworkStack (`network_stack.c`) | the two virtio rings, their indices, `data_available` | initialise, handle the interrupt, `net_wait_for_data`, `low_level_output`; `net_send` only prints | virtio device (registers, rings, interrupt); nobody calls its RPC interface |
| lwIP port (`sys_arch.h`) | semaphores, mailboxes | new, signal, wait, post, fetch | not compiled in: `lwipopts.h` sets `NO_SYS` to 1 |
| SQLite, VirtioHardware, assembly | | | vendored code and declarations |

### How they interact

- **Client and Gateway** share one dataport in both directions and one
  notification in one direction. The Client stores a request and signals; the
  Gateway copies it out, serves it and stores its reply over the same bytes.
  Nothing signals the Client: it yields 100000 times (`client.c:44`) and reads
  the buffer. The assembly connects `gateway.net_buffer` twice
  (`banking_system.camkes:36` and `:44`); the models take the second connection,
  the one both loops are written for.
- **Gateway and services** talk by synchronous RPC. The Gateway is single
  threaded and the only caller, so `auth.c` and `ledger.c` handle one call at a
  time, from the first line to the return.
- **Ledger and SQLite** meet in `sqlite3_exec`: a call hands over up to three
  texts, one after another, and there is no `BEGIN`, so every statement commits
  on its own. SQLite reaches the disk through the VFS methods of `ledger.c`, which
  call Storage by RPC. The VFS knows one file: whatever name SQLite opens, it
  gets the same bytes.
- **NetworkStack and device** share the rings. The control thread initialises,
  a thread of its own serves the interrupt, and a third one serves the RPC; the
  three and the device run concurrently and share the ring indices and
  `data_available` without a lock.

### What is hard

| Where | What can go wrong | Checked by |
|---|---|---|
| shared buffer | either side overwrites the other's bytes; late replies; coalesced signals; a served request served again | `InOrder`, `NoSleepingRequest`, `Consumed`, `ExactlyOnce`, `PatientReadsItsResult`, `ClientReadsItsResult` |
| token counter | an `int` that is never reset | `TokensDistinct`, `LoginMeansRegistered` |
| two thresholds | the AuthServer's first token and the Ledger's least token are constants of two components, and no more than them tells an issued token from any other integer | `TokensHonoured`, `OnlyIssuedHonoured` |
| user table | full table, duplicate names | `TypeOK`, `LoginMeansRegistered` |
| a Ledger that never gets out of `pre_init` | who hangs with it | `ServesOn` |
| statement lists | a list stops half-way, two results of three are ignored, `sql` is stale for an unknown type; five commits have to look like one | `ImplementsBank`, `BooksBalance`, `AuditComplete`, `DriftBounded`, `AuditGap` |
| start-up of the Ledger | the VFS lacks a method, the schema does not fit the statements | `StubsNotNeeded`; theorem `ColumnRefusesAll` |
| journal in the database's bytes | a journal spoils committed pages, is still there for the next statement, is hot by accident, cannot be found for a rollback | `CacheServes`, `EffectsOnlyFromCommit`, `NothingForgotten`, `RefusedForGood`, `Returns`, `CommittedOnDisk` |
| receive ring | free-running indices wrap; the device fills while the handler returns; cause acknowledged late; interrupts before the interface is up | `OneOwner`, `ArrivalOrder`, `Announced`, `AllProcessed`, `NoNullCall` |
| `data_available` | set by one thread, cleared by another | `WakeupsPaidFor` |
| transmit ring | the producer never looks at what has been sent; two threads are in it at once; an index they put back stops the device; the device goes to rest | `InOrderUnlessLapped`, `DamageStopsOrPasses`, `FramesGoOut` |
| handshake | a C structure that is not where its comments say; nobody asks what kind of device is there, or whether it took the features | `HandshakeSuffices` |

`PROJECT.json` lists each hazard at its line.

### What makes each component correct

- **Bridge:** every request reaches the Ledger unchanged and once, in order; the
  response the Client reads is the answer to what it sent; no signalled request
  sleeps.
- **AuthServer:** a token identifies one login; a login succeeds exactly for
  registered credentials.
- **Gateway and services:** every text is answered; what the AuthServer issues
  the Ledger honours.
- **Ledger:** a call looks like one step; accounts and audit log agree; a call's
  result, its token and its row agree; failures underneath cost a bounded
  deviation.
- **Storage under SQLite:** a statement reads what was committed last; a failed
  statement has no effect.
- **Receive path:** buffers are neither lost nor owned twice; packets are handled
  once, in order, and in the end.
- **Transmit path:** frames go out once, in order, and in the end; the handshake
  tells the device where the rings are.

## 2. The modules

| Module | Models | Kind |
|---|---|---|
| `Bridge` | Client and Gateway around the shared buffer | state machine |
| `AuthServer` | both RPC handlers, the counter at its width | state machine |
| `BankingSystem` | Gateway, AuthServer and the Ledger as its callers see it | composition: EXTENDS `AuthServer` |
| `Ledger` | `pre_init` and `bank_execute_transaction`, statement by statement | state machine; implements `Bank` |
| `Bank` | what the Ledger promises its callers | abstract specification |
| `Storage` | the pager of SQLite over the VFS and the disk, write by write | state machine |
| `NetReceive` | three threads and the device on the receive ring | state machine |
| `NetTransmit` | the virtio handshake, then two threads and the device on the transmit ring | state machine |
| `BridgeProofs`, `AuthServerProofs`, `BankingSystemProofs`, `LedgerProofs`, `StorageProofs`, `NetReceiveProofs`, `NetTransmitProofs` | | proofs only |
| `RingIndices` | indices that wrap, as lemmas for the proofs about the two rings | lemmas only |

The granularity grows downwards. `BankingSystem` takes a call of the Ledger as one
step; `Ledger` takes it apart into statements and shows, as a refinement of
`Bank`, that nobody can tell; `Storage` takes a statement apart into single reads and
writes and justifies what `Ledger` assumes a failing statement can leave behind.

Definitions whose comment starts with "Defect:" are not part of a specification.
Each is a variant of the definition that follows it, with a plausible bug;
`PROJECT.json` lists, under "mutants", which property refutes it.

### Bridge

| Model | Code |
|---|---|
| `buf` | `net_buffer`, as three cells; a cell is what one store of a `memcpy` changes, and remembers the message its bytes come from |
| `signal` | the notification word behind `data_ready`: one bit, set by `emit`, cleared by `wait` |
| `cpc`, `cleft`, `sent`, `response` | the Client's loop: `input` (`client.c:28`), `write` (`:34`), `emit` (`:36`), `poll` (`:44-47`) |
| `gpc`, `local`, `at`, `reply`, `gleft` | the Gateway's loop: `wait` (`gateway.c:11`), `copy` (`:22`), `dispatch` (`:24-70`), `rpc`, `reply` (`:72`) |
| `WriteRequest(c)`, `WriteReply(c)` | one store of a `memcpy`; C does not order them, so neither does the model |
| `CopyRequest` | one step of `strncpy`: it reads upwards and stops at the NUL |
| `DispatchTransaction`, `DispatchError` | the parse. A text that is a request from end to end is a `tx`; a text put together from several messages may or may not have its five arguments, depending on where the bytes divide, so both actions are open to it: the tail of an error reply (`ERROR: Usage: tx <token> <src> <dest> <type> <amt>`, `gateway.c:64`) gives a request's head arguments as well as the tail of a request does. The tail of a result has too few |
| `executed`, `hurried` | history: the texts given to the Ledger; the Client has read a response before the Gateway was done |

Three cells are enough to tell the lengths apart that matter: a request
(`tx 1001 Alice Bob TRANSFER 100`) is longer than the answer `TX_RESULT: 0`, so
the tail of an old request lies behind a new answer, and the NUL of the answer
is what hides it. An error reply is at least as long as the request.

`hurried` decides nothing: the steps are the same with and without it. Nothing in
the code makes the Gateway finish before the yields are over, and `hurried`
remembers that it did not, so that one specification answers both questions:
what holds whatever the timing, and what holds until the first early read.

### AuthServer

`users` is the filled part of the array (its length is `num_users`);
`next_token_id` is an `int` at its width, and `Increment` wraps. The handlers are
atomic because the component has one caller. `registered` and `issued` are
history, which only properties read. The RPC's strings are members of `Names` and
`Pins`; their lengths are not modelled.

### BankingSystem

| Model | Code |
|---|---|
| `gpc`, `request`, `answer` | the Gateway's loop, without the buffer: `Receive` (`gateway.c:11-24`), `CallAuth`, `CallBank`, `Refuse` (`:26-70`), `Reply` (`:72`) |
| `AuthAnswers` | one call of `auth_login` or `auth_register_user`, as in `AuthServer` |
| `PreInit`, `PreInitHalts` | `pre_init` returns, with a schema or without (`ledger.c:168-171`), or stays in its loop (`:157`) |
| `BankAnswers`, `DatabaseFails` | what a caller of `bank_execute_transaction` can tell: below the threshold -1, otherwise 0 unless the database has failed |
| `granted` | history: tokens told to clients while the counter was fresh |

Requests come from anywhere and in any order: complete ones of all three kinds,
incomplete ones, the empty text, unknown commands. `BankingSystem` keeps every
variable and every step of `AuthServer`; that each of its steps is one of
`AuthServer`'s or leaves it alone is proved. Whether `pre_init` leaves a sound
database is open in this module; that the one in the source never does is the
subject of `ledger_randomness` and of the theorem `LedgerProofs!ColumnRefusesAll`.

### Ledger and Bank

| Model | Code |
|---|---|
| `tables`, `balance`, `log` | the database: which tables exist, `accounts`, `transactions` |
| `todo`, `rc` | the statements left in the text that `sqlite3_exec` is working on, and its result |
| `pc` | `boot`, `schema` (`pre_init`, `ledger.c:144-172`); `idle`; `jit` (`:194-198`), `business` (`:200-212`), `approved` (`:213-219`), `blocked` (`:185-191`); `halted` (`:157`), `crashed` |
| `Statement`, `StatementRejected`, `StatementFaults` | what SQLite does with the next statement: take it, refuse it because it does not compile, fail underneath |
| `Begin` ... `Finish` | `bank_execute_transaction` between two `sqlite3_exec` |
| `booked`, `answered` | history: what the APPROVED rows add up to; the calls answered |

`Business` keeps one detail on purpose: for a type that is none of the three, `sql`
still holds the text that created the accounts, and that text is executed again
(`ledger.c:212`) and approved. `dump_live_contents` only reads and prints.

A fault has the three outcomes that `Storage` shows possible: the statement is
undone; its effect stays although it is reported as failed (a late write of the
database fails, and the rollback finds page 1 where its journal header was); the
database is none any more (a write of the journal fails, and the unfinished
header stays in page 1's place), so that no later statement compiles.

Two constants describe the build, because the code as it is never gets as far as
a transaction: `HasRandomness` (`FALSE` in the source, `ledger.c:105`) and
`KeyColumn` (`"username"` in the source, `ledger.c:162`, against `user` in every
other statement). The run `ledger_randomness` and the theorems
`NothingWithoutRandomness` and `ColumnRefusesAll` show what either value of the source
does. The passing run takes both as the rest of the file needs them, so what it shows is shown of the transaction logic and holds of the
component once those two lines are put right. The theorems cover all four
combinations.

`Bank` is what `Bank.idl4` promises: `Submit`, then `Execute` or `Block` at once
together with the row, then `Answer`. After the first failure (`Broken`) the accounts may
hold anything, but rows and answers stay. The mapping (`Promise` in `Ledger`) says
when a call happens: when its row is written. The updates that come before are
subtracted again (`Ahead`): the effect of the call less what its list has still
to add. `healthy` is `faults = 0 /\ KeyColumn = "user"`.

### Storage

The disk is an array of slots of a page each. The database's page k is slot k;
the journal's header is slot 1; the journal's record i, a page number, a page and
a checksum, is eight bytes longer than a page: it fills slot i+2 from byte 8i on and
the first 8(i+1) bytes of slot i+3. Two cells per slot, the first bytes and the
rest, tell apart what overwrites what:

    slot              1        2                 3                 4
    cell              all      first   rest      first   rest      first
    database page     1        2       2         3       3         4
    journal           header   rec 0   rec 0     rec 0   rec 1     rec 1

| Model | Code |
|---|---|
| `disk`, `Put` | `physical_disk`; `disk_write` (`storage.c`) through `sel4_xWrite` |
| `cache`, `dbFileVers`, `eState`, `dirty` | the fields of SQLite's pager |
| `HasHotJournal`, `CheckVersion`, `GetPage1`, `NotADatabase` | `hasHotJournal`, `sqlite3PagerSharedLock`, `lockBtree` |
| `FetchPage`, `FetchJunk` | `readDbPage` of what the b-tree wants |
| `OpenJournal`, `JournalPage`, `SyncJournal` | `pager_open_journal`, `pagerAddPageToRollbackJournal`, `syncJournal` |
| `WritePage`, `Commit` | `pager_write_pagelist`, `pager_end_transaction`, whose delete is the empty `sel4_xDelete` |
| `PlaybackHeader` ... `Replayed` | `pager_playback`, for a hot journal and for a rollback |
| `EarlyFault` ... `PlaybackFault` | a `disk_read` whose `malloc` fails, a `disk_write` without room (`storage.c:48`), wherever one is made |

A page is the number of the statement that wrote it. `committed` and `begun` are
history. `Statements` gives, for each statement of the Ledger, the pages it reads and
the pages it changes, in the order in which it changes them; `LedgerStatements` has them
for a database of five pages (schema, accounts and its index, transactions and
`sqlite_sequence`). Any set will do that reads a page before it changes it and changes
page 1, which holds the change counter, last.

### NetReceive

| Model | Code |
|---|---|
| `avail_ring`, `avail_idx`, `used_ring`, `used_idx`, `rx_buffer` | `rx_ring` and its buffers (`network_stack.c:28-29`) |
| `dev_idx`, `status`, `arrived`, `configs` | the device: what it has consumed, `InterruptStatus`, how much it has sent |
| `boot` | the control thread: `regs` set, no device found (`:141-150`), device started (`:153-201`), interface added (`:305`) |
| `hpc`, `isr`, `id`, `last_rx_idx` | `hardware_irq_handle` (`:206-254`) |
| `wpc`, `data_available` | `net_wait_for_data` (`:268-282`) |
| `handled`, `delivered`, `woken` | history |

`IdxMod` stands for the 2^16 values of a `uint16_t` and `RING_SIZE` for 256; the
assumption `RingAssumption` keeps the one fact that matters, that the ring size
divides the number of index values at least twice. `TakePacket` includes the
failure of `pbuf_alloc`: the packet is dropped and its buffer returned. lwIP
itself is external. Ring accesses are sequentially consistent: the model does not
ask whether the barriers of `network_stack.c` suffice on ARM. `NetReceive` starts
from a handshake that has reached the device.

### NetTransmit

| Model | Code |
|---|---|
| `layout`, `Fields`, `Commented`, `Offset`, `InStruct`, `Reached` | `virtio_mmio.h`: the fields with their lengths, the offsets of the comments, and which device register an access to a field therefore reaches |
| `Handshake`, `WriteRegister`, `written` | the 26 register writes of `virtio_init_hardware` (`network_stack.c:153-201`), in order, the two of the feature negotiation (`:157-158`) included |
| `device`, `Refused`, `Ignored` | what may be behind the registers, which the driver does not ask: a `"lenient"` device takes FEATURES_OK without VERSION_1; a `"strict"` one takes it back from a driver that has not accepted VERSION_1, a feature of word 1, which this driver never selects; a `"legacy"` one (Version 1, QEMU's default) has no registers where this driver puts the rings' addresses and QueueReady |
| `status`, `sel`, `notified`, `queue`, `offer`, `accepted`, `Live` | the device's side of it |
| `boot`, `DeviceMissing`, `AddInterface`, `Announce` | the control thread (`:141-150`, `:305`); `netif_set_up` sends a gratuitous ARP |
| `Enter` ... `Count`, by thread | `low_level_output` (`:79-98`), each access to a shared variable a step |
| `Reload` | `avail->idx++` may read the index again, or not, as the compiler has it |
| `Transmit`, `Rest` | the device: sends while notified, and goes to rest |
| `Break`, `broken` | the device finds more available than the ring has room for, because the index has run ahead of it or gone back behind it, and stops until a reset that never comes |
| `handed`, `sent`, `overlap`, `lapped` | history: frames handed over and sent; the last frame handed over while both threads were inside; a buffer was filled before it was sent |

## 3. The runs

| Run | Module | Question | Bounds | Distinct states |
|---|---|---|---|---|
| `bridge_race` | `Bridge` | Do order, wakeups and progress survive every interleaving, and is the bridge correct until the Client first reads too early? | 3 requests | 58103 |
| `system` | `BankingSystem` | Are tokens distinct, logins honest and granted tokens honoured; is every request answered, whoever has stopped? | 2 names, 2 pins, table of 2, an `int` of 10 values (-5..4), 10 logins, tokens below, at and above the threshold | 309222 |
| `ledger` | `Ledger` | Does the Ledger implement `Bank`, do accounts and audit log agree, and how far can faults part them? Does a refused call move nothing, whatever fails? | 2 names, tokens on both sides of the threshold, amounts -1..1, 2 calls, 2 faults | 1381784 |
| `storage` | `Storage` | What does a statement read and leave behind, when journal and database are the same bytes and reads and writes fail? | 5 pages, 4 statements, 2 faults | 137809 |
| `net_receive` | `NetReceive` | Are buffers and packets neither lost, doubled nor reordered, and do announced ones get handled? | ring of 2, indices modulo 4, 5 packets, 1 configuration change | 18217 |
| `net_transmit` | `NetTransmit` | For which device does the handshake suffice, do frames go out once, in order and in the end, and what do two threads do to each other? | both layouts, three kinds of device, ring of 2, indices modulo 4, 4 frames | 149222 |
| `bridge_result`, `ledger_randomness`, `system_tokens`, `storage_disk`, `net_stranded`, `net_early` | | the findings of section 5 | | |

Why the bounds are enough:

- **Three requests** let a request be overwritten while it is copied, its
  replacement be absorbed into its signal, and a third meet the leftovers of
  both. `MaxRequests` and `executed` grow together, so more requests only repeat
  this; the theorems remove the bound.
- **A table of two** is full after two of four credentials (and may hold the same
  one twice); **ten logins** are once round an `int` of -5..4 from `BaseToken =
  2`, so the counter wraps and comes back to its first value without yet repeating a token.
- **Two names** let source and destination be the same or differ; amounts of both
  signs and zero cover `atoi`; **two calls** are the least in which a first call's
  accounts, fault or drift meet a second one; **two faults** can hit one call
  twice or two calls once.
- **Five pages** give every statement of the Ledger its pages, and the longest
  journal (three records) reaches over all of them. **Four statements**: one whose
  journal spoils the pages of an earlier one, one that fails and leaves a journal behind,
  one that meets it, and one after that. **Two faults** let the rollback of a
  failed statement fail, too.
- **Five packets** and **four frames** on indices modulo 4 wrap the indices, and the
  ring of 2 fills; four frames are also enough for an overlap of both threads and
  two frames after it. An index that is put back by one looks to the device like three
  available buffers, more than the ring has, so that it breaks; put back by two, like two,
  so that it goes on; a 16-bit index would have to be put back by 65280 for that. The theorems hold
  for any `IdxMod`.

What the properties say is stated next to each in its module. In short, what the
passing runs show:

- `InOrder`: requests may be lost or mixed up in the race, but none is executed
  twice and none overtakes an earlier one. This rests on the reply overwriting the
  request before the Gateway waits again, including its terminating NUL.
- `NoSleepingRequest`, `Consumed`: the one-bit notification loses no wakeup.
- `ExactlyOnce`, `PatientReadsItsResult`: until the Client first reads too early
  the bridge is a correct request-response channel. Conversely a text nobody sent
  can reach the Ledger, and a response can be another's, only after an early read.
- `TokensDistinct`, `LoginMeansRegistered`, `TokensHonoured`: see the bounds above.
  The last two are stated while the counter has not passed the greatest `int`;
  beyond it tokens are negative and the Ledger refuses them.
- `ServesOn`: logins, registrations and nonsense are answered even when the Ledger
  has stopped; the first transaction then takes the Gateway with it.
- `ImplementsBank`, `BooksBalance`, `AuditComplete`: without faults, a call of up to
  five commits looks like one step, and accounts, rows, results and
  tokens agree for every sequence of calls, unknown types and transfers to oneself
  included.
- `DriftBounded`, `AuditGap`: each fault parts accounts and audit log by at most one
  call's amount, and costs at most one audit row; see the module for what an
  APPROVED row still means. Both are stated for a complete schema.
- `RefusedMovesNothing`: whatever fails, a call that the Ledger refuses moves no account,
  is not booked and is answered -1. Which calls it refuses is another matter, see
  `system_tokens` in section 5.
- `CacheServes`: without faults the page cache hides that journal and database are
  the same bytes. It holds because page 1 shares its place with the journal's
  header alone and is written back by every commit, so the change counter in the
  file is the one the pager saw last, and it has no reason to read anything again.
- `EffectsOnlyFromCommit`, `NothingForgotten`: with faults, a statement that failed
  before it wrote to the database leaves nothing behind, and no page in the cache
  is older than the last success that wrote it. A statement that failed
  later may keep its effect. `RefusedForGood`: an unfinished journal header in
  page 1's place ends the database. `Returns`: no journal, however damaged, keeps a
  statement from returning.
- `OneOwner`, `ArrivalOrder`, `WakeupsPaidFor`, `Announced`: see the module.
- `HandshakeSuffices`: the handshake brings both queues to life if and only if the
  registers lie where the comments of `virtio_mmio.h` say - which in the structure
  they do not - and the device neither insists on VERSION_1 nor has the legacy
  registers; and they live until the device breaks.
- `InOrderUnlessLapped`: a device that is too slow sends a later frame in place of
  an earlier one, never an earlier one in place of a later. `DamageStopsOrPasses`: what
  two threads in `low_level_output` do to each other either makes the device stop for
  good, or ends with the last frame of the overlap; and nothing but an overlap or a lap
  makes it stop. `FramesGoOut`: the device cannot rest on an offered frame.

Deadlock is checked in every run but two. `Bridge`'s `Exhausted`, `Ledger`'s
`Stopped` and `Storage`'s `Exhausted` stutter where the bound is reached or the component is in
its endless loop, so any other state without a step would be reported. `system`
and `net_transmit` turn the check off because their systems may really come to
rest: a transaction at a Ledger that has halted waits for ever, and a NetworkStack
with nothing to send, or whose control thread has written through a ring at address zero,
does nothing more. There `ServesOn` and `FramesGoOut` say what must not be left undone.

## 4. Fairness

- `Bridge!FairSpec`: weak fairness of the Client and of the Gateway. The
  components run at the same priority under seL4's round-robin scheduler, and the
  Client yields while it polls (`client.c:19`, `:44`), so neither starves the
  other. It includes that `bank_execute_transaction` returns; `BankingSystem` is
  where it may not.
- `BankingSystem!FairSystemSpec`: weak fairness of the Gateway, of the AuthServer's
  answer, of `pre_init` and of the Ledger's answer, each a thread of its own.
  `pre_init` may choose its endless loop. Clients owe nothing.
- `Storage!FairSpec`: weak fairness of the statement in execution: the Ledger's
  thread does nothing else before `sqlite3_exec` returns. Faults are never owed.
- `NetReceive!FairSpec`: weak fairness of the control thread and of the interrupt
  handler, and of delivering the interrupt while a cause is pending (the line is
  level triggered and unmasked by `hardware_irq_acknowledge`). The device owes
  nothing: packets need not arrive. No fairness is assumed of callers of
  `net_wait_for_data`.
- `NetTransmit!FairSpec`: weak fairness of each thread inside `low_level_output`, and
  of a device that has been notified. lwIP owes no frames.

`Ledger` has no liveness property: that a statement returns is `Storage!Returns`, and
the rest of a call has no loop.

## 5. Findings

Each is a statement the repository makes and a run that refutes it.

| Run | Statement | What the code does |
|---|---|---|
| `bridge_result` | "Read result from Shared Memory" (`client.c:46`), "We assume the Gateway puts the result back in the same buffer" (`:39`) | nothing makes the Gateway finish before the yields are over; the Client prints its own request as the response |
| `ledger_randomness` | "VFS features we don't need on seL4" (`ledger.c:94`) | `xRandomness` is NULL (`:105`); SQLite's first journal header calls it, in `pre_init`'s first `CREATE TABLE` |
| `system_tokens` | "Check against dynamically issued tokens (> 1000)" (`ledger.c:185`), "catches the invalid token and blocks the transfer" (`src/README.md:143`) | the Ledger compares with 1000 (`:186`) and knows nothing of what was issued: 1000, which `auth_login` never returns, and every greater integer pass, the 1001 of `client.c:11`, which nobody has logged in for, among them. (With schema and VFS mended; in the build as it is no transaction succeeds at all) |
| `storage_disk` | "persisting ledger adjustments to a permanent backend" (`src/README.md:44`) | `xOpen` ignores the name (`ledger.c:87`): the journal of the next statement overwrites pages that the last one committed, and only the page cache still has them |
| `net_stranded` | "Process all used descriptors" (`network_stack.c:218`) | a packet that arrives between the end of the loop and the acknowledgement at `:249` has its cause cleared with the old one and waits for the next packet |
| `net_early` | "CRITICAL: Prevent NULL pointer dereference if IRQ fires during or before init" (`network_stack.c:207`) | the guard looks at `regs` only; the device starts (`:201`) before `netif_add` (`:305`) sets `netif.input`, which `:229` calls |

Further disagreements show in passing runs and in theorems:

- `ColumnRefusesAll`: the Ledger "authorizes the transfer, updates state in SQLite"
  (`src/README.md:145`), but `accounts` has the column `username` (`ledger.c:162`), and the
  statements say `user`: every transaction is answered -1.
- `HandshakeSuffices`: `QueueReady`, "Offset 0x044" by its comment
  (`virtio_mmio.h:21`), is at 0x048 in the structure, and every register behind it
  is late as well, so the handshake of the build leaves no queue live. With the
  structure mended it still would not for a device that insists on VERSION_1 or has the
  legacy registers, though `network_stack.c:203` prints "VirtIO initialized".
- `DamageStopsOrPasses`: `tx_ring.avail->idx++` (`network_stack.c:92`) by two threads can
  put the index back behind the device, which then sends nothing more.
- `ExactlyOnce` needs `~hurried`: once the Client has read early, a request written
  while the Gateway copies or answers can reach the Ledger as a text nobody sent,
  although the Gateway "routes networking payloads" (`src/README.md:42`).
- `EffectsOnlyFromCommit` cannot be made stronger: a statement can be reported as
  failed and keep its effect, and `bank_execute_transaction` then returns -1 for a
  transfer that has moved the money.

## 6. The proofs

All are checked by TLAPS from the constants' named assumptions alone, which TLC
evaluates in the runs. No bound of a run appears in them: `MaxRequests`, `MaxCalls`,
`MaxFaults`, `MaxPackets` and `MaxFrames` are any natural numbers, and `MaxLogins`
any number up to once round an `int`. Nor do the sizes of the rings: `RING_SIZE` is
any number of buffers, and an index wraps at any `IdxMod` of which the ring size is a
proper divisor, as 256 is of 65536.

| Theorem | States | Argument |
|---|---|---|
| `BridgeProofs!TypeCorrect` | `TypeOK` | `TypeInv`: also, a Client that writes has numbered its request, and a text at the Ledger begins with one |
| `BridgeProofs!NoLostWakeup` | `NoSleepingRequest` | `WatchedInv`: while a request lies in the first cell, a signal is pending or about to be sent, or the Gateway is serving and has yet to overwrite the cell |
| `BridgeProofs!ExecutedInOrder` | `InOrder` | `OrderInv`: what the buffer holds, what the Gateway copied and what the Client is about to store are each newer than what was executed last, with the exception of the request in service |
| `BridgeProofs!PatientExecutes` | `ExactlyOnce` | `PatientInv`: until the first early read the two loops take turns, so `PatientInv` can say for each place of the pair what is in the buffer, what has been copied of it, and what has been executed |
| `BridgeProofs!PatientReads` | `PatientReadsItsResult` | the same, and that the NUL of a result hides the tail of the request behind it (`ResultReads`) |
| `AuthServerProofs!TypeCorrect` | `TypeOK` | `IInv` |
| `AuthServerProofs!TokensUnique` | `TokensDistinct` | `HistoryInv`: the n-th login got the n-th value of the counter; the values are distinct once round |
| `AuthServerProofs!LoginCorrect` | `LoginMeansRegistered` | `HistoryInv`: the accepted registrations are the table |
| `BankingSystemProofs!SystemTypeCorrect` | `SystemTypeOK` | `SystemInv`: `AuthServer`'s `IInv`, this type invariant, and what the answer to a login and to a transaction can be (`LoginInv`, `BankInv`) |
| `BankingSystemProofs!AuthServerWithin` | `SystemSpec => Spec` | each step of the composition is one of `AuthServer` or leaves it alone, so its theorems hold inside |
| `BankingSystemProofs!HonouredAlways` | `TokensHonoured` | `GrantedInv`: every granted token is above `BaseToken`, hence at least `MinToken` by `ThresholdAssumption`; it rests on `LoginInv` for the token about to be told, and on `HistoryInv` of the AuthServer for its value |
| `LedgerProofs!TypeCorrect` | `TypeOK` | `TypeInv`: also, in the middle of a call `call` holds its arguments |
| `LedgerProofs!BooksCorrect` | `BooksBalance` | `IInv`: an account is ahead of the books by the effect of the call less what its list has yet to add (`BooksInv`). This needs that the accounts of the call exist when its updates run (`AccountsInv`), since an `UPDATE` of a missing row is silent; that needs a complete schema (`SchemaInv`); and both need to know which statements each part of a call holds (`ShapeInv`) |
| `LedgerProofs!AuditCorrect` | `AuditComplete` | `AuditInv` on top of `IInv`: the log is one row longer than the answers exactly between the row and the return, and that row is the call's |
| `LedgerProofs!DriftIsBounded` | `DriftBounded` | `DriftInv`: in the middle of a call an account is off by what the list has done to it so far (`Part`) and by what the faults before the call account for; the number k of those is in the invariant as a witness, and while no fault has hit the call, its accounts exist (`AccountsThere`). A fault that hits leaves a part of the list done, never more than one amount on either side, and by then k is below the number of faults. `ListInv` keeps the order of the statements, `SlackFacts` the arithmetic |
| `LedgerProofs!GapIsBounded` | `AuditGap` | `GapInv`: a call whose row is written or has failed to be written is due one answer; each row, each answer and each lost row moves one side by one (`CountOne`) |
| `LedgerProofs!Refinement` | `ImplementsBank` | a healthy step that writes a row is `Execute` or `Block` (`RowStep`), a return is `Answer`, a beginning is `Submit`, and every other healthy step stutters because of `BooksInv` (`HiddenStep`); once something has failed every step is `Broken`, since log and answers only grow (`HistoryGrows`) |
| `LedgerProofs!RefusedStay` | `RefusedMovesNothing` | `ShapeInv` says which statements a call of either kind can have in its list, and that a call past `Begin` has the token for them; only those of one that was let through touch accounts or books (`TakenForToken`) |
| `LedgerProofs!ColumnRefusesAll` | `NoneLetThrough`, if `KeyColumn = "username"` | the build of the source: with `ListInv`, no call comes to its row, since no statement with `user` compiles; the rest is `TakenAnyway` and `Refusals` |
| `LedgerProofs!NothingWithoutRandomness` | `NothingServed`, if `~HasRandomness` | the build of the source: `UnservedInv`; the schema compiles, so it ends in the crash unless a fault ends it before, and without a schema no later statement compiles |
| `StorageProofs!TypeCorrect` | `TypeOK` | `TypeInv`: also, the pages to be changed are among those read, which are in the cache when the journal is opened (`ListInv`); and until page 1 is written the journal's header stands in its place (`HeaderInv`) |
| `StorageProofs!Refused` | `RefusedForGood` | `RefusedInv`: with such a header a statement goes no further than page 1, and there only without it in the cache, because the change counter it compares lies under the header |
| `StorageProofs!Served` | `CacheServes` | `ServesInv`: without a fault, outside a transaction the cache is what was committed, and `dbFileVers` and page 1 on the disk agree with it (`CurrentInv`); inside one, the cache is ahead by the pages changed so far, and the database is behind until page 1 is written (`AheadInv`) |
| `StorageProofs!OnlyCommits` | `EffectsOnlyFromCommit` | `EffectsInv`: a cached page is the work of a statement that came to write, or of the current one and then its old content is in the journal (`JournalInv`) and, once the rollback has begun, before the first damaged record of it (`ReplayInv`). It rests on where records lie: record i is not touched by record j, and not by the header (`RecordsApart`) |
| `StorageProofs!NothingIsForgotten` | `NothingForgotten` | `KeptInv`: every page is at least as new as its last commit, in the cache and in its place on the disk (`PagesInv`), and so is all that a playback with the nonce of the header on the disk, or of the one in progress, would restore (`RestoreInv`). A new header cannot vouch for old records, since no record has its nonce yet (`NonceInv`); and a commit, which makes old records too old, has just written page 1 over the header (`ChangedInv`, `CounterInv`). It builds on `EffectsInv` for the nonce of the header that is synced |
| `NetReceiveProofs!TypeCorrect` | `TypeOK` | inductive as it stands |
| `NetReceiveProofs!OwnersAlways`, `NetReceiveProofs!ReadInOrder` | `OneOwner`, `ArrivalOrder` | `RingOrder`: each of the wrapping indices is a running number modulo `IdxMod` (`IndexInv`), the device is at most a ring ahead of the driver (`CountInv`), so that the difference of two indices tells the difference of the numbers; and each buffer waits, is used or is in hand at its own place of the ring (`RingInv`) |
| `NetReceiveProofs!WakeupsPaid` | `WakeupsPaidFor` | `WakeInv`: a flag that is set, and a delivery whose flag is yet to be set, each stand for an interrupt that no wakeup has been counted for |
| `NetTransmitProofs!TypeCorrect` | `TypeOK` | `TypeInv`, with the typed queues of the device (`QueueInv`) |
| `NetTransmitProofs!HandshakeResult` | `HandshakeSuffices` | `HandshakeInv`: what a lenient device behind the layout of the comments knows is a function of the number of registers written (`FollowInv`); a strict one never keeps FEATURES_OK, because word 1 of the features is never accepted, and a legacy one never has a queue, whatever is written (`AnyWrite`); with the layout of the structure the status stays empty, since only the features, the queue's selector and its size are reached, low words land in high words, and the rest lands nowhere (`StructReach`) |
| `NetTransmitProofs!SentInOrder` | `InOrderUnlessLapped` | `OrderInv`: until two threads overlap, the indices are the numbers of the frames copied, offered, counted and sent, modulo `IdxMod`, and the places between them hold these frames in order (`AvailOrder`, `BufferOrder`, `FreshOrder`) |
| `NetTransmitProofs!DamageConfined` | `DamageStopsOrPasses` | `AloneInv`, `NumberInv` and `StageInv`: every frame begun after the last overlap waits in exactly one place, or has been sent once. `SoundInv`: the device has not broken without an overlap or a lap, because by `OrderInv` the two indices are then the numbers of the frames offered and sent, never more than a ring apart (`BreakNeedsDamage`) |

Each inductive invariant was checked with TLC on the instance of its run before
it was proved. The theorems about `Ledger` hold for either value of `KeyColumn` and
`HasRandomness`; with the values of the source, `AuditComplete` is vacuous, as its
statement says, and `ImplementsBank` promises only that rows and answers stay.
What those values do amount to is stated by two theorems of their own,
`ColumnRefusesAll` and `NothingWithoutRandomness`: the second is the finding
`ledger_randomness`, the first a disagreement of the same kind, for all names, tokens,
amounts and any number of calls and faults.

Model-checked only:

- liveness (`Consumed`, `ServesOn`, `Returns`, `Announced`, `FramesGoOut`): TLAPS does
  not do fairness here.

## 7. What is not modelled

- **SQLite** beyond its pager. The two vendored files are 236833 of the
  repository's 237820 lines; the models follow them where the Ledger's VFS makes a
  difference (rollback journal, hot journal, page cache, change counter) and take
  the SQL compiler, the b-tree and the rest as "a statement reads these pages and
  changes those". A share of all lines is therefore no measure of what is covered:
  the lines that matter are the 987 others. Also left out
  of the pager: evicting pages (the cache is larger than the disk), growing the
  database in the middle of a statement, and savepoints.
- **An INSERT of which one page is undone and another is not**, after a failed
  rollback: `Storage` has it, `Ledger` does not, because a half-changed b-tree has
  no meaning at the level of rows.
- **The lwIP port** (`sys_arch.h`): with `NO_SYS` 1 no line of the build calls its
  semaphores and mailboxes, so a model of them would be of no program.
- **The configuration interrupt** is never acknowledged to the device
  (`network_stack.c:215`) and is delivered again and again. `NetReceive` contains it;
  there is no property, because nothing promises that it stops.
- **Memory layout**: where the used ring of 256 entries lies behind a buffer that
  ends before it (`network_stack.c:38`); the models give it its own place.
- **Features of word 0.** The driver accepts whatever the device offers there
  (`network_stack.c:158`), EVENT_IDX or a larger packet header among it, and honours none of
  it; nor does it put the header of a virtio network device before its frames. Which
  frame a device makes of the bytes it sends is not modelled.
- **Devices other than a network device**: `DeviceID` is never read, and what another kind
  of device would do with the two rings is not modelled. A transport with the right magic
  value and no device behind it is covered by the device kinds that have no queue.
- **Sizes**: lengths of strings and frames, pbuf chains (`network_stack.c:86` copies the first
  segment), the text of SQL statements.
- **The order in which the ARM makes ring accesses visible**, and lwIP's handling of
  a packet.
- **Restart**: the disk is memory of the Storage component and is as young as the
  Ledger's page cache; no component is restarted on its own.

## 8. Plan

Every safety property of a passing run has its theorem. What is left:

1. The pager's way of evicting pages, should the database outgrow the cache:
   `CacheServes` and `NothingForgotten` rest on a cache that holds every page it was
   given, and the disk alone does not have them (`storage_disk`).
2. Keeping the maps and the proofs true when the code changes. Two of the findings are one
   line each to mend (`username`, `xRandomness`); the theorems about `Ledger` already
   cover the program with either or both of them mended.

## 9. Running it

    tlc -config ledger.cfg Ledger          # any run: module and cfg as in PROJECT.json
    tlapm LedgerProofs.tla                 # any *Proofs module, and RingIndices
