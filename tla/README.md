# Verification of the Adrastea middleware

TLA+ models of the middleware of the Adrastea module (`src/middleware`): the
ALTCOM library, which exchanges commands, responses and events between the
application MCU and the modem (the MAP), and the services below it. The models
are checked with TLC on small instances; the theorems are proved with TLAPS for
every value of the constants.

## 1. The system

| component | state it keeps | operations | talks to |
|---|---|---|---|
| API modules (`altcom/api`) | none across calls | build a command, send it, decode the response; event handlers | gateway, buffer pool |
| API command gateway (`gw/apicmdgw.c`) | gate state, table of waiting calls, transaction counter, postponed events | `apicmdgw_init/fin/send`, `allocbuff/freebuff`, receive task, echo task, `altcom_app_ready` | HAL below; API modules, dispatcher above |
| Gateway HALs (`gw/hal_*.c`) | abort request | send, recv, abortrecv, lock | serial wrapper, gateway |
| UART reception (`serial`, `DRV_UART.c`) | ring buffer, the read in progress, task flags | `serial_read`, `abort_read`, receive interrupt | HAL, UART |
| Event dispatcher (`evtdisp/evtdisp.c`) | list of handlers (constant) | dispatch | gateway, thread pool |
| Thread pool (`util/thrdpool.c`) | queue of jobs, state of each worker | runjob, delete | dispatcher |
| Buffer pool (`util/buffpool.c`) | free and used list of each size, one semaphore | alloc (blocking), free | everybody in ALTCOM |
| Builder (`altcom/builder`, `util/director.c`) | initialized / finalized | build and destroy the parts in order | all of ALTCOM |
| OSAL (`osal/Source/freertos_osal.c`) | condition variables: a queue of tokens and a counter | wait, timed wait, signal, broadcast; thin wrappers otherwise | FreeRTOS |
| Key-value store (`kvpfs`) | mirror of a bank in RAM, list of pending entries, two flash banks | `set_env`, `get_env`, `save_env`, `save_env_to_gpm`, `kvpfs_init` | flash driver |
| Host interface (`hifc`) | handshake state, timers, line levels | suspend, resume, edge interrupt, time-out | modem lines, power manager |
| emux (`emux`) | parser state; for each port a ring buffer, the read in progress, a function | `MUX_Init/DeInit`, `MUX_Send`, `MUX_Receive*`, event callback, receive task | serial driver, the HAL `hal_emux_alt125x`, applications |
| Logger (`sfplogger`) | log buffers, lock flags | log, print, clear, resize | all |
| Power manager (`pwrmanager`, `DRV_PM.c`) | configuration, reasons to stay awake, masked interrupts, the image of the memory | configure, tickless idle, hibernate, wake up | kernel, drivers, hifc, PMP |

### What is hard in it

* **The gateway.** Application threads, an echo task, the receive task and the
  thread that finalizes share one table of waiting calls. Responses are late,
  lost, reordered; a time-out races the response; `apicmdgw_fin` wakes the
  callers with the semaphore a response uses, and destroys what they may still
  use. A first call is held back until an echo was answered; events are held
  back until the application is ready and replayed then.
* **The buffer pool.** One binary semaphore serves the waiters of all sizes, and
  the search releases the lock between sizes.
* **The key-value store.** NOR flash is written in two banks and the power may
  fail at any byte; entries are deleted by zeroing them in place; a compaction
  needs an erasure first.
* **The path of an event.** The receive task blocks in the buffer pool and in the
  job queue; the workers that would free both may wait for an answer that only
  the receive task can read; `lte_destroy` takes all of it down meanwhile.
* **The UART.** An interrupt handler fills either a ring buffer or the buffer of
  the read in progress; a full ring turns the interrupt off; an abort from
  another task races the completion.
* **The power manager.** The way into a deep sleep changes settings, interrupts,
  drivers and the memory itself, is downgraded or given up at several places,
  and each of them must be undone. The heap is compressed onto itself.
* **The multiplexer.** One task finds frames in a stream that may lose bytes, and
  delivers them to ports whose users read with time-outs, take bytes by callback,
  block the delivery while they send, and go away meanwhile.
* **The host interface, the logger.** An interrupt that races a timer; a lock that
  is a flag.

`PROJECT.json` lists each of these as a hazard, at its line, with the properties
that would catch it going wrong.

### What makes each component correct

* Gateway: a successful call returns the answer of its own command; the table
  holds exactly the waiting calls; nothing passes the gate before the echo;
  every call with a finite time-out returns; finalization ends and joins the
  receive task; events keep their order and are neither early nor lost.
* Buffer pool: blocks are conserved; no thread sleeps beside a block that fits.
* Key-value store: `get_env` reads what `set_env` wrote; a power loss leaves the
  old map or the new one; a bank is never overfilled.
* Thread pool: every job handed over before the deletion is run; the deletion
  ends, after the last worker let go of the shared data; the condition variable
  counts its waiters exactly.
* Event path: every event is handled, its block is freed by whoever has it last,
  the destruction ends.
* UART reception: the bytes reach the reader in order and none is lost; a read
  ends by completion or by abort and not by both; frames are recognized; every
  abort is noticed.
* Multiplexer: what the line did not damage is delivered once and in order; a port is
  one stream whatever reads of it end or time out; a user that went away is not
  called; the gateway's receive task misses neither a byte nor an abort.
* Power manager: no deep sleep with the link up; after the wake-up the memory, the
  settings, the interrupts and the drivers are as before; every cycle ends.
* hifc: the H2M line tells the state of the interface, every wait for the modem
  has a running time-out, a suspend ends only by agreement, a sender is served,
  the modem can wake the host while the link is down.

## 2. The modules

| module | what it is |
|---|---|
| `ApiCmdGw` | the gateway; `MCApiCmdGw` its instances |
| `SyncCall` | abstract: what a synchronous call promises; implemented by `ApiCmdGw` |
| `ApiCmdGw_proofs` | invariants of the gateway; the refinement |
| `BuffPool`, `MCBuffPool`, `BuffPool_proofs` | the buffer pool |
| `KvStore` | abstract: one map in RAM, one that survives; implemented by `Kvpfs` |
| `Kvpfs`, `MCKvpfs`, `Kvpfs_proofs` | the key-value store on two NOR banks |
| `Hifc`, `MCHifc`, `Hifc_proofs` | the host interface in mode b |
| `CondVar` | the condition variable of the OSAL, on tokens |
| `ThrdPool` | the thread pool, on `CondVar`; what it promises its users |
| `EventPath`, `MCEventPath`, `EventPath_proofs` | receive task, pool, dispatcher, workers, callbacks, `lte_destroy`; composed with `ThrdPool` and shown to implement it; the proofs are about both |
| `SerialRx`, `MCSerialRx`, `SerialRx_proofs` | UART interrupt, ring buffer, `serial_read`, abort, framing |
| `Emux`, `MCEmux`, `Emux_proofs` | parser and ports of the multiplexer, an application's port, the HAL of the gateway on another |
| `Hibernate` | the memory, its compressed image and the flash |
| `Sleep`, `MCSleep`, `Sleep_proofs` | the cycle of the tickless idle, on `Hibernate` |

### ApiCmdGw

A frame is a record (kind, command id, transaction id). `tbl` is the block list
`g_blkinfotbl` (a thread stands for its block table), `sem` and `result` are the
fields of the block tables, `gwState` is `g_apicmdgwState`, `isinit` is
`g_isinit` (with `altcom`'s own flag, which the builder sets with it), `live`
says that the mutexes and `g_hal_if` exist. `pc` follows a thread through
`apicmdgw_send` and `__apicmdgw_send` from one point where another task can get
in between to the next: `Gate`, `Send`, `AddTable`, `Transmit`, `Wake` or
`WaitTimeout`, `TakeResult`, `RemTable`, `Return`. The echo task is `EchoTry`,
`EchoDone`, `EchoEnd` around the same sending steps. The receive task is
`RecvLoop` (postponed events), `RecvFrame`, `RecvBad`, `WriteTable` or
`HandleEvent`, `RecvAgain`, `RecvTerminate`. `apicmdgw_fin` is `FinStart` ...
`FinDelete`, one action between two points where it can be overtaken.
`altcom_app_ready` is `AppReady` and `RecvAgainRequest`. `got`, `issued`,
`answered`, `sessions` and `disp` are ghosts.

Assumptions and abstractions:

* A critical section that does not block inside is one step. The receive task
  has a higher priority than its creator.
* The application initializes again only when its own calls returned; an echo
  task of the session before may still be asleep, and is in the model.
* Frames are lost only through bad checksums (`RecvBad`) or because the modem
  does not answer. A `-EAGAIN` in the middle of a frame keeps what was read, so
  reading a frame is one step.
* After `apicmdgw_fin` deleted a mutex, locking it succeeds or hangs; sending
  through the cleared `g_hal_if` is a fault (`hung`, `fault`).
* A time-out of 0 in the gate waits for ever, as `__alt_osal_thread_cond_wait`
  does with 0 ticks. A broadcast wakes every waiter.
* An allocation from the pool in the gateway always succeeds, since the pool
  blocks; the waiting itself is modelled in `BuffPool` and, for the receive task
  and the callbacks, in `EventPath`.
* The response of an asynchronous command reaches the application as an event.

### BuffPool

Blocks are pairs (class, number), classes in ascending size. `Alloc`,
`TakeBlock`, `NextClass` are the search of `buffpool_getbuffer`, which locks the
pool once per class; `wait` is the semaphore, `Retry` the new search. `Free` and
`Post` are the two halves of `buffpool_free`. Threads free what they allocated.
A request larger than every block returns NULL and changes nothing.

### Kvpfs

A bank and the mirror are sequences of slots: an entry, the zeros of a deleted
entry, the CRC entry, blank. Every entry fills one slot. A checksum stands for
the slots it covers, so that it is right exactly when they are unchanged. The
operations run under `kvpfs_mtx`; they are one step up to their accesses to the
flash, which are then done one by one (`jobs`, `FlashAccess`). `PowerLoss`
may hit between two accesses or in the middle of one: a write stops after any
slot or inside one (`Junk`), an erasure leaves the old contents, junk or a blank
bank. `Program` is what NOR flash does: bits are only cleared.

`cur`, the tail pointer of the list, is `linked`: false when it points to an
element that was freed. `orphans` counts elements that `ldt_info` knows and the
list does not hold. The magic entry never changes and is not shown.

Two constants keep known defects out of the instances where the rest is
checked: with `CrashBetween = FALSE` the power does not fail between the writing
of the two banks, with `UnsetPending = FALSE` the application does not delete
the last of several pending keys. `kvpfs_between` is the first with `TRUE`. The
second with `TRUE` in `kvpfs_store.cfg` makes TLC show `SetIsRead` violated; it is
described under "Known defects".

### Hifc

`hi` holds what the code keeps in `gHifc_struct` (the interface state and the
state of its state machine), the H2M line, the mode of the M2H interrupt (off,
on the level, on the fall) and whether the two timers run; `mdm` is the modem,
which decides the level of M2H; `fell` is the pending status of an awaited fall.
`hifc_modem_resume_sm`, `hifc_host_suspend_sm`, `hifc_host_resume_sm` and
`hifc_m2h_level_change_callback` are functions from the host's state to the next.

Who preempts whom decides where a handler is cut. The M2H interrupt (`M2hIsr`)
preempts every task, so no task takes a step while it is pending; the timer task
runs `hifc_protocol_timeout_isr` (`TimeoutMark` ... `TimeoutDown`, cut between
marking the time-out, reading the state and acting on it) and
`hifc_inactivity_timeout_isr`; the console and the senders run below it.
`request_to_send` is a critical section (`RequestGranted`, `RequestResumes`);
`force_host_suspend`, `force_host_resume` and `set_inactivity_timer` are not, and
are cut where another task can get in between. `DRV_UART_Send_Block` tries again
until it is granted, which is `snd = "want"`. The modem is external: it answers a
rise and a fall of H2M, and raises M2H when it wants the link.

Two races are in the model and no property denies them, since nothing in the
source promises otherwise: a sender that resumes the link in the middle of
`force_host_resume` lets the console go to `IfUp` without an answer of the modem;
`set_inactivity_timer` can stop the inactivity timer of a link that the modem
has just woken.

### CondVar, ThrdPool and EventPath

`CondVar` follows `__alt_osal_thread_cond_wait` and `alt_osal_signal_thread_cond`
from one blocking point to the next: count, unlock, take a token, lock again,
count back. `mtx` is the mutex of the users, `cmtx` the internal one while a
sender that found the queue of tokens full keeps it. Waits with a time-out and
the broadcast are not in it: the thread pool uses neither.

`ThrdPool` has the queue of jobs, the `state` of each worker and the two loops:
`Recv`, `JobReturns`, `LockToEnd`, `Terminate`, `SignalEnd`, `UnlockGone` are
`thrdpool_thrdmain`; `DeleteSend` ... `DeleteFree` are `thrdpool_delete`. Who hands
over jobs is open: any task may until the deletion starts. `PoolSpec` is so the
contract between the pool and the library, and `EventPath` is shown to keep it.

`EventPath` adds the receive task (`rpc`), the free blocks (`free`), the report data
of a handler (`report`), the API call a callback makes (`call`) and `lte_destroy`
(`fpc`). `RxAlloc` blocks until there is a block, `RxDispatch` while the job queue is
full. `ReportAlloc` and `ReportFree` are the block a report handler takes for its own
data before the callback and gives back after it. `CallStart` ... `CallReturns` are
the call of a callback, with every allocation a place of its own at which it can
block: the command and the response, the check of `g_isinit`, then in
`__apicmdgw_send` the entry of the block table and the memory of its semaphore
(`CallAllocTable`), the wait, the free of these two (`CallRemove`), and the free of
the first two. Handlers that take several blocks of their own (SMS) are not among
those modelled. `FinStart` ... `FinBuffers` are the order of
`lte_destroy`: clear `g_isinit`, abort the receive, join, release the callers,
delete the workers, delete the buffers. Some handlers return early when no
callback is registered (`Unregistered`) and keep their block; events no handler
accepts are freed by the receive task.

### SerialRx

`IsrDirect`, `IsrStore`, `IsrFull` are the three cases of the receive interrupt;
`RxCheck`, `RxReadAll`, `RxReadWait`, `RxWake` are a read of the receive task, with
the ring drained under disabled interrupts; `Parse` is the framing of
`apicmdgw_recvtask` (idle, magic number, header, data) on the bytes the read gave
it, with the parts of an aborted read kept. `Ask`, `AbortRead`, `AbortTell` are
`hal_uart_alt125x`'s abort: the type is set, `DRV_UART_Abort_Receive` takes the
read away, the reader gets the flag. A byte is a frame and a place in it, so that
a byte lost, doubled or overtaken shows.

`Preempting = FALSE` says that the aborting task does not run between the receive
task's check of the abort request and the start of its read: the receive task
has the higher priority (`ALT_OSAL_TASK_PRIO_HIGH`, `apicmdgw.c:1134`). With
`TRUE`, TLC finds `TerminateEnds` violated, as the code relies on the priority.

### Emux

The constants say which frames the modem sends; a byte is a frame and a place in
it, and `FlagLike` are the bytes inside of frames that look like a flag. `preamble`,
`header`, `toRead`, `data` are the static variables of `muxReceiveCallback_MUX_0`
(`headerRead` is the length of `header`, `idx` that of `data`). `RxByte` is one call
of it: `ReadData` with `Complete` at the last byte, `SkipFlag`, `ReadHeader`,
`FindFlag`. `LineLoses` drops a byte; `Escape` is an escape sequence of the modem
between two frames. `found`, `blind`, `damaged` are ghosts: the frames that were
recognized, began unseen, or lost a byte.

With `rxpc = "deliver"` the receive task holds the port's `rxSem` and has `data` left
to deliver. On the port "app", `MUX_PortReceiveCallback` gives each byte to the
read in progress (`AppFill`) or to the ring buffer (`AppStore`); `AppRead` is
`MUX_ReceiveTimeout` up to its wait or `MUX_Receive_NonBlock`; `AppWoken` and
`AppTimeout` end the wait, and `AppEnd` is what follows under the mutex again, so
that bytes may come in between. On the port "hal", `HalByte` calls
`hal_emux_alt125x_recv_callback`, which waits for `objintmtx` (`HalDiscard`,
`HalStore`); `HalCheck`, `HalLook`, `HalWake`, `HalCopy` are the read of the gateway;
`SendStart` and `SendEnd` hold the mutex as `hal_emux_alt125x_send` does; `AbortAsk`
and `AbortPost` are the two halves of the abort; `DelStop`, `DelUnbind`, `DelFree`
are the deletion. `unread` is a ghost: what each port accepted and no read
returned yet.

Assumptions and abstractions:

* The checksum detects a damaged frame. What the parser reads as a length from bytes
  that are none is any number up to `MaxMisread`.
* The second byte of a frame is not in `FlagLike`: `mux_util.c:125` makes the address
  from the number of the serial and the EA and C/R bits (`mux_util.c:36`), which gives
  the flag 0xf9 for serial 62 only, and there are four (`hal_mux.h:33`). Behind a flag
  the parser skips further flags (`SkipFlag`), so the proof that frames are recognized
  needs it.
* The look at `rxEventCB` and the call of it are one step: the receive task has the
  higher priority (`ALT_OSAL_TASK_PRIO_HIGH`), so nobody clears it in between.
* The HAL is deleted when the receive task of the gateway was joined, no abort is in
  progress, and nobody is in a send at the end (`DelStop`, `DelFree`).
* The escape sequence is seen as a whole or not at all.

### Hibernate and Sleep

`Hibernate` counts the GPM in cells. `place[m]` is the block whose contents lie in
the place of block m; `recs` is the compressed image, from the front of the GPM,
each record with its end and the contents it was made from. `Compress` destroys
the heap blocks it reaches, `PutBack` the records it covers. `GiveUp` is the
fallback when there is no room, with the address the code passes.
`PrepareFlash` and `ToFlash` are the erasure and the writing of the image for the
shutdown; the erase loop steps as the code does, in words.

`Sleep` is `vPortSuppressTicksAndSleep` with the functions of the power manager it
calls: `IdleEnter`, `CheckAllow`, `Confirm`, `PreSleep`, `HibernateBlock` (one per
block), `EnterSleep`, `WakeUp`, `Boot`, `UnpackBlock`, `PostSleep`, `Leave`.
Interrupt handlers run between the steps in which interrupts are on and enabled in
`nvic`: `M2hIsr` raises the link and starts a timer, which makes the timer task
ready; `UartIsr` is a character; `BusyIsr` sets a device busy or free, `"busy"` with a
task made ready, `"quiet"` without. Tasks change the configuration and the reasons
to stay awake only at `"tasks"`. A reset after STANDBY or SHUTDOWN clears the
memory outside the image, and returns into the middle of the idle task. When the
memory put back is not what was compressed, the model stops at `"lost"`: nothing
can be said of the program any more.

### SyncCall and KvStore

`SyncCall` says what `gw/apicmdgw.h` lets a caller rely on: a call is numbered,
returns once, and if it waits and succeeds its data are the modem's answer to
that number. `ApiCmdGw!Promise` maps the phase of `pc`, the command and `got`.
`KvStore` has a map in RAM, a map that survives and a flag `saving`; a power loss
leaves the old durable map or, during a save, the new one. `Kvpfs!Store` maps
`get_env`'s view and the map the next `kvpfs_init` would find (`Recovered`).

## 3. The runs

| run | instance | shows |
|---|---|---|
| `gw_live` | 1 caller, 2 echo tasks, 3 commands, 2 sessions, fair | own answer, exact table, refinement of `SyncCall`, echo gate, opens on an answered echo only, calls return |
| `gw_events` | 1 caller, 2 events, one postponable, 2 sessions, fair | order, hold-back, replay, join of the receive task |
| `buffpool_wake` | 3 threads, 3 classes of 1 block, requests of every size | conservation, no lost wake-up for a block that fits all requests |
| `event_path` | 2 workers, 5 events (2 with report data, one of them calls; 1 unheard, 1 unknown, 1 plain), 10 blocks, a queue of 1 job, fair | blocks accounted, events handled, destruction ends, refinement of `PoolSpec` (jobs come only before the deletion) |
| `serial_recv` | 4 frames of 5 to 7 bytes, a ring of 2 bytes, a FIFO of 2, 1 abort to go on, 1 to terminate, fair | bytes in order, frames recognized, aborts noticed |
| `emux_recv` | 3 frames of 7 to 9 bytes for 2 ports; both ports on a good line, or one with a lost byte and escape sequences; a ring of 1 and a HAL buffer of 2 bytes; fair | streams in order, reads whole, frames delivered, deleted HAL unused, receive task woken |
| `hifc_link` | 2 senders, 2 console commands of 3, 2 late answers, fair | line and state, timed waits, agreed suspend, senders served |
| `kvpfs_store` | 2 keys, 2 values, banks of 5 slots, 2 power losses | one value per key, a valid bank, refinement of `KvStore`, a set is read |
| `sleep_cycle` | 2 + 2 + 1 blocks of 2 cells that compress to 1 or 3, all modes, fair | the memory comes back or the loss is explained, no deep sleep with the link up or a waking device busy, everything undone, cycles end |
| `gw_gated` | violation | the receive task waits for an answer only it can receive |
| `kvpfs_between` | violation | a power loss between the banks, then a second one, loses everything |
| `hifc_wake` | violation | after a failed resume the modem's request is refused and M2H stays off |

Why the bounds are enough.

* *Gateway.* A caller and two echo tasks are three users of the table: a
  response can be foreign, late (its caller gone, another one waiting under a
  newer id) or race a time-out or the release of all waiters; a third command
  lets the caller call again while its old response is on the way. Two sessions
  and two echo tasks let an echo task of the old session act in the new one.
  More callers are the matter of the proofs, which hold for any number.
  `EchoRetryCnt` 2 has a first, a last and an exceeded try. Two events, one of
  each kind, are enough to overtake each other and to be held while the receive
  task is blocked.
* *Buffer pool.* Three threads and three blocks of different sizes: one post can
  matter to two waiters, of the same and of different sizes, with a block that
  fits both, one or none, and with two frees that post once.
* *Event path.* Two workers can both be in a call while a third event waits in the
  queue; the deletion waits for one worker while the other still runs. `QueCap`
  1 lets a worker block in the signal. With ten blocks and a queue of one job
  everybody is blocked at some time: the receive task in the pool and in the full
  queue, a handler for its report data, a caller for each of its four blocks, each
  also while another call waits and while `lte_destroy` joins. Ten are the fewest
  blocks with which `EventsHandled` holds here, six of them for the event whose
  callback reports and calls; with nine TLC shows the deadlock: the receive task is
  blocked in the pool and the callback waits for the pool or for an answer only the
  receive task can read. The same happens when every worker waits for an answer and
  the queue is full; one event calls here, so that one worker is left. The library
  itself has one worker (`altcombuilder.c:98`) and 16 places. So `EventsHandled` is
  true of a library with enough of both for its calls in progress, and only then.
* *UART.* The ring is smaller than a header, so that it fills, turns the interrupt
  off and is drained in the middle of a frame; a frame without data is among
  four, and the last two follow the damage an abort may do. `MaxAgain` is 1,
  since `altcom_app_ready` asks once. The buffer `BuffMax` is larger than the
  longest frame: with less room, `rcvptr` runs ahead of `totallen` by a byte per
  abort in a magic number and may leave the buffer earlier than the check of
  `totallen` sees.
* *Multiplexer.* The second frame has a length of two bytes, the first a data byte that
  looks like a flag. A lost byte may be any one of the 24: a flag, a length, a
  checksum; what follows is misread, and the last frame shows whether the parser
  found its place again. The ring buffer and the buffer of the HAL are smaller
  than what arrives, so that both fill, shift and discard. Both ports together
  run on a good line, where their interplay is the question; faults come with one
  port each, since the parser meets them in the same way for every port.
* *kvpfs.* Banks of five slots hold two entries, the CRC and room for one deleted or
  pending entry, so that a save appends, compacts, or follows a compaction; two
  power losses are needed to hurt a repair or a save that follows a repair.
* *hifc.* A second sender and a second command are needed to resume or suspend in
  the middle of the first; two late answers let a time-out follow one that was
  handled in the middle of another handler.
* *Power manager.* The sizes 1 and 3 around the block size 2 let an image fit, or
  fail at the first block of a region and inside one; with sectors of 4 cells an
  image takes one sector or several. The times include a sleep shorter than its
  own overhead and one below the threshold of the shutdown.

Counters of ids, events, sessions and power losses (`MaxCmds`, `MaxEvents`,
`MaxSessions`, `MaxCrashes`, `MaxHold`, `MaxLate`, `MaxCommands`, `MaxAgain`,
`MaxSends`, `MaxMisread` and the numbers in `Uses`) are bounds of the models. `CHECK_DEADLOCK FALSE` except in hifc: the other models stop at the end
of their bounds, after `lte_destroy`, when the receive task is gone, or when the
memory is lost or a sleep without time is never ended; the host interface always
has a next step.

Every property of a passing run has a mutant in its module, beside the
definition it replaces, which breaks it. The types of the gateway, the buffer pool, the
host interface, the thread pool, the event path, the key-value store and the power
manager are proved and not checked in a run, and so are `WaitingExact`, `FreedAfterLast`, `JobsBeforeDelete`
and `RunOnce` of the thread pool.

### Fairness

`ApiCmdGw!Fairness` is weak fairness of each task of the library: FreeRTOS runs
every ready task in the end, since none of them spins, and a finite time-out
fires. There is no fairness for the modem (it may never answer), for the
application's next call, or for the start of a finalization. `CallReturns`
excepts threads that hang on or fault at an object `apicmdgw_fin` destroyed, and
calls with `ALT_OSAL_TIMEO_FEVR`. `FinEnds` excepts an `altcom_app_ready` in
progress, whose abort request replaces the one of the finalization, and, as
`PostponedReplayed`, a receive task halted by an assertion of `apicmdgw_errind`. The pool
and the store are checked for safety only.

`EventPath!Fairness` and `SerialRx!Fairness` are weak fairness of the tasks and of
an enabled interrupt. In `EventPath` the modem answers a call while it is read
(`RxAnswer`): the callbacks call without time-out, and a modem that never answers
would block them whatever the library does. There is none for the arrival of an
event, for a byte of the modem, for an abort or for the start of `lte_destroy`.
`Emux!Fairness` is weak fairness of the delivery and of the gateway's receive task,
of the end of a send (`serial_write` ends) and of the second half of an abort;
there is none for the line, the application, a send or the deletion.

`Hifc!FairSpec`: interrupts and ready tasks run, running timers expire, the modem
answers a fall of H2M (weak fairness). Three assumptions are strong, each about a
race one side would have to lose again and again: a polling sender finds the
link up at some time (it polls in a loop much shorter than the 50 ms and more of
the inactivity timer); the modem does not miss every one of repeated rises of
H2M; M2H does not rise again before the interrupt of its fall reads the level,
each time. `MaxLate` bounds how often a time-out beats the modem.

`Sleep!FairSpec`: the idle task goes on with a cycle it has begun, and a sleep ends
when it was asked for with a time, since the timer of the PMP (or the tick timer
in mode SLEEP) expires. Without a time nothing has to wake the MCU.

### Findings

Three of the runs show where the code disagrees with its own comments;
`PROJECT.json` quotes the lines: the receive task uses the gated send; two valid
banks that differ are not reconciled; a resume of the host that timed out leaves
a state machine that refuses the modem.

### Known defects

Seen while modelling. The models show those marked (m), by an exception named in
a property or by a constant that excludes them; the others are outside the
models, for the reason given.

* `apicmdgw.c:1033`: an echo answered at the last try is counted as exceeded, and
  the gate is closed (m, `GateOpensOnEcho` is the direction that holds).
* `apicmdgw.c:303`, `:316`, `:323`: an error indication of the receive task after
  `g_isinit` was cleared gets no buffer, cannot be sent or its buffer not freed;
  each is asserted, which halts the receive task in a build with assertions, and
  `apicmdgw_fin` waits for it (m, `fault` in `ApiCmdGw`, excepted by `FinEnds` and
  `PostponedReplayed`).
* `apicmdgw.c:880`: a caller without time-out that passed the check of `g_isinit`
  enters the block table after everyone was released; a callback that does so
  keeps `lte_destroy` from ending (m, `Late` in `EventPath`; `CallReturns`).
* `apicmdgw.c:1218`: `apicmdgw_fin` deletes the mutex of the table and clears the HAL
  while callers it woke still use them (m, `hung` and `fault` in `ApiCmdGw`).
* `apicmdgw.c:1435`: `apicmdgw_freebuff` does nothing once `g_isinit` is cleared: the
  blocks are left to `buffpool_delete` (m, `Frees` in `EventPath`).
* `apicmdgw.c:774`: the receive task blocks in the pool or in the job queue while
  callbacks wait for answers only it can read (m, with `NBlocks` 9).
* `apicmdgw.c:736`: an abort in the middle of a magic number loses that frame and the
  next (m, `Damaged` in `SerialRx`; the comment at 1049 says that the receive goes on).
  Each such abort also leaves `rcvptr` a byte ahead of `totallen`, which is what the
  check of the room looks at (m, `ReadFits` in `SerialRx_proofs`).
* `apicmdhdlr_repquality.c:67` and the other report handlers: without callback they
  return before the free of their block (m, `Unregistered` in `EventPath`; the
  comment at 106 says the block is freed by the worker).
* `hal_uart_alt125x.c:178`: the abort between the check and the start of the read is
  lost unless the receive task has the higher priority (m, `Preempting`).
* `emux.c:292`: a read whose last byte comes between its time-out and the lock reports
  the time-out although it is complete, and no read that timed out says how many
  bytes it got (m: `SuccessIsWhole` is the direction that holds).
* `emux.c:235`: `rxDoneCB` is called with `rxMutex` held, and `emux.c:86` clears it after
  the call: a callback that starts the next read blocks, or loses its callback.
  `emux.c:82`: a read of `MUX_Receive_NonBlock` without callback leaves the port busy
  for ever (`AppRead` has the use with callback).
* `mux_util.c:315`: a frame that lost its last flag takes the first flag of the next one
  for it and is delivered; the next frame then begins without flag and is lost,
  though the line did not damage it (m, `blind`).
* `mux_util.c:268`: `strstr` reads a history that has no terminator when it is full, and
  a 0 byte shortly before an escape sequence hides it (not modelled).
* `ring_buffer.c:80`: the indices wrap with a mask of `buf_size - 1`, which is right for
  powers of two only; `MUX_Init` accepts any size. `emux.c:193`: the length of
  `MUX_Send` is cut to 16 bits (neither is modelled).
* `buffpool.c:620`: with requests of several sizes a post for a small block may wake
  the waiter for a large one only, and the waiter for the small one sleeps on
  beside it (m: `NotStranded` is about blocks that fit every request under way,
  `FitsAll`; `altcombuilder.c:113` builds a pool of mixed sizes).
* `linkedlist.c:89`: deleting the last of several pending keys leaves the tail pointer
  on freed memory, and the next key is lost (m, `UnsetPending`: with `TRUE` TLC shows
  `SetIsRead` violated; `kvpfs_api.h:35` says that a key that is not there is added).
* `kvpfs.c:161`: `get_env(NULL, ...)` without memory returns with the mutex locked;
  `kvpfs.c:222`: the start from retained memory drops the list of pending keys
  (neither is modelled).
* `flash_mirror.c:367`: `flash_write` is given `env_size - 1` bytes, one too few for a
  bank full to the last byte; `flash_mirror.c:363`: the results of the flash
  accesses are ignored (byte lengths and failing accesses are not modelled).
* `freertos_osal.c:1451`: a timed wait with time-out 0 waits for ever (m, in `ApiCmdGw`).
* `sleep_mngr.c:323`: a device that is set busy by an interrupt handler after
  `pwr_mngr_check_allow2sleep` and before `cpsid` does not keep the MCU from a deep
  sleep, unless the handler also makes a task ready (m, `quiet` in `Sleep`: with
  `"quiet" \notin hold` in `LinkDownAsleep` TLC shows the sleep; the comment at 319
  says that the call avoids it, the one at 331 that interrupt handlers call it).
* `hibernate.c:467`: `DecompressPartial` gets the address of the block that did not fit,
  less one block: what was compressed of that region is put back one block too
  low, unless the block was the first of its region (m, `PutBackLow`; the comments
  there say "into its original location" and "Should always be able to reconstruct
  original memory").
* `alt125x_tickless_sleep.c`: after a failed hibernation the cycle goes on in the stop
  mode with the mailbox interrupt masked, the drivers suspended and the IO
  latched as for the standby: the wait for an interrupt may not end (m,
  `FellBack`).
* `alt125x_tickless_sleep.c:298`: the duration that was configured is replaced by the
  expected sleep time and only comes back if the mode was changed; it shrinks
  from cycle to cycle, down to 0, which is no limit (m, `SleepIsTimed`: added as
  an INVARIANT to `sleep_cycle.cfg` TLC shows the cycles; the comment at 287 says
  that 0 must not be set).
* `hibernate.c:386`: the erase loop advances a pointer to words by the bytes of a
  sector: it erases every fourth sector, and reaches beyond the image (m,
  `SpoiltImage`; what it erases beyond is not modelled).
* `ALT125x_flash.ld:357`: the assertion of the linker script asks for one block of free
  GPM, while the compression of the heap onto itself needs what its blocks may
  grow by (the assumption `HibernateAssumption`).

## 4. The proofs

All of them hold for every value of the constants that meets the named
assumptions of the modules.

**Gateway** (`ApiCmdGw_proofs`). `TypeOK`, `AnswerIsOwn`, `TableMatchesWaiters` are not
inductive: that a success is the caller's own answer depends on what frames are
on the way. The inductive invariant `IInv` adds: the transaction id and the
command number go together (`IdsFollow`, `CmdsFollow`); a response on the way is
the answer to the command it is numbered for, in `rx`, `cur` and the postponed
events (`FramesOK`); a posted semaphore of a waiter comes with its own answer, an
error, or from a finalization, which cleared `isinit` before
(`PostedWithResult`, `FinClosed`); a call that left the wait with success has its
own answer (`SuccessIsOwn`); and bookkeeping about the echo task's counter and
the receive task's own calls. `Invariance` proves `Spec => []IInv`; `TypeCorrect`,
`AnswerCorrect`, `TableCorrect` follow. `EchoGateCorrect`, `GateOpensCorrect` and
`FinJoinsCorrect` have small invariants of their own. `OrderCorrect` (events of one
kind are dispatched in order) and `HeldCorrect` (a postponable event is not
dispatched before `altcom_app_ready`) follow from `EventInv`, which lines up the
places an event may be in: dispatched, in hand, postponed, in hand, received. Each
place is behind the one before it as far as events of one kind go, and while the
postponed events are replayed the one in hand comes before those that are left.

The id argument needs that no transaction id is used twice while an old response
may still arrive: `BoundAssumption` (`MaxCmds <= MaxTransId`). In the code the
counter has 16 bits; a response delayed by 65535 commands is outside the proof.

**Refinement** (the end of `ApiCmdGw_proofs`). `Implements`: `Spec => PromiseSpec`. Each action
is a step of `SyncCall` or leaves what the callers see alone; `Succeed` uses
`SuccessIsOwn`, and `RetSet` says that a call that is done has a result.

**Buffer pool** (`BuffPool_proofs`). `TypeCorrect` and `ConservedCorrect` for any pool.
`NotStrandedCorrect` for any pool and requests of any sizes, along `WakeInv`: a free
block that fits every request under way and that a thread has already passed in its
search is attended: the semaphore is posted, or somebody will post it or will look
at that class. Whoever takes the post starts at a class the block is not below. When
the one request it was too small for gets a block, that thread is awake and has a
block to free. For blocks that are too small for some request it is false.

**Key-value store** (`Kvpfs_proofs`). For any keys, values, size of a bank and number of
power losses `TypeCorrect`, `OneValueCorrect` (no key twice in the mirror and the list
together, so that `get_env` finds no stale value), `OneBankCorrect` (once a save has
completed, `kvpfs_init` finds a valid bank whenever the power fails), `StoreCorrect`
(the refinement of `KvStore`) and `SetCorrect` (what was set is read).

The inductive invariant `KvInv` says what the flash holds at each point: with the power
off, every bank that looks valid is what a save left, two valid ones are equal, and
one is valid if a save ever completed (`OffInv`); during the repair of `kvpfs_init` and
during a save, which accesses are still to be made and that the bank not being
written is good (`BootInv`, `SaveInv`); in between the banks agree, and the mirror can
be written over them without an erasure unless `do_erase` is set (`IdleInv`, `Covers`:
NOR flash only clears bits). `Closed` is a mirror that can be written: entries, zeros,
the CRC entry at the end. A write cut at any slot leaves a bank that is invalid, or
complete, or what it was (`CutWriteValid`). The proof works slot by slot: the
compaction keeps exactly the entries, once and in order (`Ranked`, `CompactFacts`), and
what a sequence of slots maps a key to is determined by which entries it holds when
no key is there twice (`MapOfHolds`, `SameMap`), so no induction over it is needed.

All of them assume `CrashBetween = FALSE`: with a power loss between the banks
both are valid and differ, and a second loss may take both (`kvpfs_between`).
`StoreCorrect` and `SetCorrect` also assume `UnsetPending = FALSE`, which gives
`LinkInv`: the tail pointer is the tail. Both hypotheses exclude known defects, and
TLC shows that `OneBankCorrect` is false without the first and `SetCorrect` without
the second.

**Thread pool** (first part of `EventPath_proofs`). `FreedCorrect` and `JobsCorrect` for any
number of workers and jobs, along `IInv`: a worker holds the mutex from its lock to its
last step (`EndInv`), so that a deletion that holds it and sees every worker
TERMINATING sees workers that are gone; the elements without a job are all behind
the jobs (`JobInv`), so that none is left when a worker took one. `WaitingCorrect`
needs that only the deletion waits (`CondInv`). `OnceCorrect` says that a job is in one
element of the queue, with one worker, or done. The assumption
`Cardinality(Workers) <= QueCap + 1` is where the proof found the condition
variable's limit: with more, two workers can block each other in the signal.

**Event path** (`EventPath_proofs`). `ImplementsPool`: the library uses the pool as
`PoolSpec` asks, since `lte_destroy` joins the receive task before it deletes the
workers (`OrderInv`). `LibraryFreed` and `LibraryJobs` carry the theorems of the
pool over to the library. `BlocksCorrect` says for any number of blocks, events and
workers that while the library is up every block that is not free is with the
receive task, in the queue, with a worker, in a handler's report data, in one of the
four blocks of a call, or lost by a handler without callback. It counts
cardinalities, so each step needs that an event leaves one of these places as it
enters the next (`RunOnce`), and that a worker's report data and call are counted in
and out one at a time. `BlockInv` adds what holds after `g_isinit` was cleared, when
frees do nothing, which `EventTypeCorrect` (never more free blocks than were made)
rests on.

**UART** (`SerialRx_proofs`). `ReadProtocolCorrect` for any frames, ring, FIFO and
number of aborts, with or without `Preempting`, along `Handshake`: the reader waits
exactly while its read is in progress, has completed, is being aborted or was
aborted, and these exclude each other.

`FramesCorrect` says that as long as no abort split a magic number (`split = {}`) every
frame is recognized, once and in order, no byte is lost, doubled or overtaken
(`BytesInOrder`), and no read is started beyond the end of the buffer (`ReadFits`), for
any number of aborts elsewhere. The order of the bytes goes along `BytesInv`: the
bytes already consumed, those in the reader's buffer, in the ring and in the FIFO
are consecutive pieces of the wire, and the ring is empty while a read lacks bytes.
It needs `ReadFits`, which the code does not check: it compares `totallen` with the
size, and `rcvptr` runs ahead of it by a byte at each abort in a magic number; so
nothing is claimed of the bytes for every number of such aborts. The invariant
`Unsplit` has
`ParseInv`: the frames up to some k are recognized and the buffer holds the start of
frame k + 1. Where frames begin (`End`) is a recursive function, so facts about all
frames need an induction; it is done by the least element of a set of numbers
(`Least`, `SetInduction`), which the library states without operator parameter.

**Multiplexer** (`Emux_proofs`). `StreamsCorrect`, `WholeCorrect` and `UnusedCorrect` for any
frames and losses, any use of the ports and any sizes, along `IInv`. `StreamsInOrder`
alone is not inductive: a byte that goes straight to a read would overtake those in
the ring buffer. `ReadInv` excludes that (a read lacks bytes only while it is in
progress and the ring buffer is empty), and says that the event flag is set only for a
read that has all its bytes, which `SuccessIsWhole` rests on. `DeliveryInv` says that
the receive task has bytes left whenever it delivers, and that once the HAL is unbound
it delivers to none. The shift of the HAL's buffer and its reads are lemmas about the
end of a sequence (`Suffix`, `SuffixAppend`, `SuffixOfSuffix`).

`FramesCorrect` says for any frames, losses and escape sequences that a frame which
has arrived whole and did not begin inside of what the parser took for another is
recognized, once and in order, and that only a frame after a damaged one begins so,
and none after an escape sequence. Its invariant `FrameInv`: inside of such a frame
the parser holds exactly the bytes so far (`InStep`, `InFrame`); before a frame it is at
the start unless one before was damaged (`Between`) or an escape sequence came
(`EscapesPast`). The order needs more, since the parser may also be misled: a header
begins behind the address of every frame that was found (`FoundPast`), so no frame is
found again or after a later one, whatever lengths are misread. Bytes tell their
place, which is what the checksum stands for: `StartOwn` says that only the bytes of
a frame are the start of that frame. `TypeCorrect` uses that each byte of the wire
belongs to a frame (`WireType`), by the same induction as for the UART; it includes
that the ring keeps a byte free, that the HAL's buffer is never overfilled, and that
a header has at most four bytes.

**Host interface** (`Hifc_proofs`). `TypeCorrect`, `LineCorrect` and `SuspendCorrect` for
any number of senders, console commands and late answers, along `IInv`.
`LineTellsState` alone is not inductive: a time-out is handled in several steps,
and the interrupt may run between them. `TimeoutInv` says why that is harmless:
from the mark on, the state machine is in `timeout` or `error` and cannot
complete, so the state the handler has read is still there when it acts
(`FailedStays`). `FsmInv` says that only a link that is up has completed, and that
the console finds an approved resume only in `IfResuming`. `SuspendCorrect` splits
the steps: only the interrupt ends a suspend, and it has read M2H low
(`SuspendIsr`, `SuspendOthers`). `WaitCorrect` says that the host never waits for the
modem without a running time-out, along `WaitInv`: the timer runs, or its time-out is
being handled, or the console is about to start it; and where the console turned a
suspend into `approve`, in which the fall of M2H would stop the timer and go on
waiting, the fall is not awaited.

**Power manager** (`Sleep_proofs`). `TypeCorrect`, `LossCorrect`, `LinkDownCorrect` and
`BackCorrect` for any memory, sizes and times, along `IInv` = `SleepTypeOK`,
`CycleInv` (what each step of the idle task finds of the settings, the interrupts
and the reasons to sleep) and `MemInv` (what it finds of the memory and the
image). `LossCorrect` says that the memory is lost only by the two defects above:
the heap is compressed onto itself, and the record of block n never reaches block
n + 1 before it was read (`Growth`), which is where `HibernateAssumption` is
needed; on the way back a block is put over none of the records still to come
(`PutBackGood`).

**Only model-checked**: liveness under fairness (`CallReturns`, `FinEnds`,
`PostponedReplayed`, `EventsHandled`, `DestroyEnds`, `AllBytesRead`, `TerminateEnds`,
`SenderServed`, `CycleEnds`, `RecvWakes`), which is out of the prover's reach. Every
invariant, every action property and every refinement that a passing run checks is
also proved, with one restriction on the UART: `FramesRecognized` and `BytesInOrder` are
proved as long as no abort split a magic number; `serial_recv` checks both beyond
that on its instance (then `FramesRecognized` says which frames are lost).

## 5. Not modelled

* The byte formats of commands and events, and the API modules' marshalling.
* kvpfs: the start from retained memory, failing flash accesses, byte lengths.
* The OSAL's timed wait and broadcast beyond what the gateway's model has of them,
  and its thin wrappers.
* `serial_write`, line errors and breaks, the SPI HAL.
* emux: its creation, sending (a loop under a mutex), the U-Boot mode, how the escape
  sequence is recognized.
* `sfplogger`: a lock that is a flag, log sectors in flash.
* Power manager: the lists of registered devices and callbacks, standby without
  state, partial last blocks of a region, failing flash writes, a power loss in
  a sleep, `hibernate_to_flash` that fails (the MCU then starts anew).
* hifc: modes a and c, whose pins have no driver in this port, its counters and
  its reset indication.
* Console, printf, fastlz, and the library's helpers.

The repository counts some 300,000 lines, of which the larger part are register
headers of the chip, CMSIS, FreeRTOS, startup code, drivers for demonstration
boards and examples. None of that is this program's own logic, and it is not
modelled; the share of all lines that the models stand for is therefore small,
while the state-changing code of `src/middleware` is covered except for the list
above.

## 6. Plan

In this order:

1. `sfplogger`: the lock flags of the log buffers and the sectors of the flash.
2. `Emux`: the creation of ports beside the delivery, and the U-Boot mode.
3. `Kvpfs`: the stateful start, flash accesses that fail.
4. `CondVar`: the timed wait and the broadcast, with the abstract condition variable
   (a signal unblocks at least one of the threads blocked at that time) compared
   with it; a thread that begins to wait after the signal may take the token.
5. Proofs: `FramesRecognized` of the UART with split magic numbers, along an invariant
   that says how far `rcvptr` is ahead of `totallen`.

A run with several questions is preferred to several runs; the instances of one
component can be merged.
