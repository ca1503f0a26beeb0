# nupanet over XDMA: TLA+ specifications and proofs

nupanet makes a network interface out of a PCIe endpoint of an FPGA-based CXL
switch. Two virtual machines each own one endpoint. A frame is written by DMA
into FPGA memory, a descriptor in a BAR that both machines map tells the other
side about it, and the other side fetches it by DMA. The DMA work is done by the
Xilinx XDMA library that the driver contains.

Paths below are relative to the repository root; line numbers are the ones of
`src/libxdma.c` and `src/nupanet_main.c` unless another file is named.

## 1. The system

| Part | Where | Concurrency it lives with | Model |
|---|---|---|---|
| Descriptor ring in the shared BAR | `fetch_packet_desc`, `nupanet_xmit_frame`, `nupa_data_available`, `xdma_receive_data`, `nupanet_poll` | two kernels, no common lock | `NupaRing`, `NupaChannel` |
| Driver removal and probe | `adapter_free`, `adapter_info_init` | the peer keeps transmitting | `NupaRestart` |
| Engine and synchronous transfers | `xdma_xfer_submit`, `xdma_xfer_aperture`, `transfer_*`, `engine_*`, `xdma_channel_irq` | callers, interrupt, work queue, hardware, resets | `XdmaEngine` |
| Offline / online | `xdma_device_offline`, `xdma_device_online`, the PCI error handlers | callers inside a transfer | `XdmaEngine` |
| Request splitting | `xdma_init_request`, `transfer_init`, `transfer_build`, `xdma_xfer_aperture`, `xdma_get_next_adj` | none | `XdmaRequest` |
| Asynchronous transfers | `xdma_xfer_submit_nowait`, `xdma_xfer_completion`, `engine_service_resume` | several requests on one list and one descriptor array | `XdmaAsync` |
| Polled mode, completion threads | `xdma_thread.c`, `engine_service_poll`, `engine_service_wb_monitor` | threads, callers, devices that come and go | `XdmaThread` |
| Open, close, vectors, interrupt lines | `xdma_device_open`, `xdma_device_close`, `irq_setup`, `irq_teardown`, `xdma_isr`, `xdma_channel_irq` | interrupts and queued work against close and reset | `XdmaDevice` |
| Driver life cycle, NAPI, hold switch, debug device | `probe_one`, `remove_one`, `adapter_free`, the PCI handlers, `nupanet_poll`, `nupanet_poll_thread`, `debug.c` | the stack, the poll thread, softirqs, ioctls | `NupaDriver`, over `XdmaDevice` |
| Transmit dispatch, dumps, descriptor bit layout, performance counters | | | left out (section 5) |

How they interact: `nupanet_xmit_frame` reserves a descriptor of the peer's ring,
calls `xdma_xfer_submit` on the H2C engine (through `xdma_send_data` and
`xdma_transfer_data`) and marks the descriptor SETTLED. `nupanet_poll` takes a
SETTLED descriptor out of its own ring, calls `xdma_xfer_submit` on the C2H
engine and hands the result to the stack. The ring model sees a DMA transfer as
two steps, begin and end, with an outcome in `DmaOutcomes`; the engine model says
how such a transfer comes to its outcome. `NupaDriver` is the composition at the
level of the life cycle: it EXTENDS `XdmaDevice`, runs a call into the library as
that module's steps, and lets everyone who uses the adapter run in between.

## 2. Modules

### NupaRing: one direction of the link

State: `head`, `tail`, `ready` are the fields of `packets_info`; `descPos`,
`descOffset`, `descLength`, `descStatus` those of the `packet_desc` array; `ddr`
is the receiver's part of the FPGA memory, one block per descriptor. `tx*` and
`rx*` are the locals and the program counters of the two sides. `stored` is a
history variable: the frame last published at a descriptor.

Each load or store of shared memory is an action: `FetchHead` ... `FetchOffset`
are `fetch_packet_desc` statement by statement, `SendData`, `SendDone`, `Settle`
the rest of `nupanet_xmit_frame`; `AvailableHead` ... `AvailableAdvance` are
`nupa_data_available`, `ReceiveDesc` ... `ReceiveDone` `xdma_receive_data`,
`Release` and `Deliver` the rest of the poll loop. A DMA write turns a block to
garbage when it begins and to the frame when it ends; a DMA read yields the frame
only if the block is the same at both ends. The uninitialised `total_len` of
`fetch_packet_desc` is a free choice to refuse the frame.

Abstractions: a frame is a model value with a length; an offset is a block
number; the memory is sequentially consistent (the BAR is mapped
write-combining, which the model does not show).
`MaskAssumption` states what the code relies on where it mixes
`& (MAX_DESC_NUM - 1)` with `% MAX_DESC_NUM`.

### NupaChannel: what the ring promises

A bounded FIFO of whole frames that may refuse a new frame and may lose the
oldest one (the receiver's failed `kmalloc`), but never duplicates, reorders or
damages one. `NupaRing` implements it under the mapping that puts the frame being
received in front of the published ones.

### NupaRestart: the receiver goes away and comes back

`NupaRing` plus `AdapterFree` and the four stages of `adapter_info_init`, in the
code's order: clear, ready, clear the descriptors, number them one by one. `Quiet`
selects whether the peer may be transmitting meanwhile.

### XdmaEngine: one engine in MSI-X mode

State: `running`, `shutdown`, `transferList`, `descDequeued`, `descIdx`,
`descUsed`, `descLock` are fields of `struct xdma_engine`; `xfer[c]` is
`req->tfer[0]` of caller `c`; `swDescCnt`, `nents`, `done`, `rv`, `pc` are the
callers' locals; `offline` is `XDEV_FLAG_OFFLINE`. `hw*` is the hardware: RUN,
BUSY, the completed count, the latched status, the chain it works on. `moved`
is a history variable that counts the descriptors really moved for a transfer.

What runs under `engine->lock` is one action, except for the service: it reads
and clears the status (`ServiceStatus`) and reads the count later
(`ServiceCount`), and the hardware moves on in between; `serving` says that the
service holds the lock. `InitRequest`, `TransferInit`, `QueueCheck`,
`TransferQueue`, `Wake`, `Finish`, `Reap` are the body of `xdma_xfer_submit` and
`xdma_xfer_aperture`, which differ in how they wait; `ChannelIrq` is the
interrupt; `FinalTransfer` and `ServiceResume` are the functions of those names;
the `Offline*` and `Online*` actions are the stages of `xdma_device_offline` and
`xdma_device_online`.

The hardware (external) is assumed to behave as the driver uses it: a rising RUN
clears the count and starts the new chain, the last descriptor latches
DESC_COMPLETED and DESC_STOPPED (one element, `"DONE"`), an error stops the
engine, a cleared RUN lets at most the current descriptor finish, status bits
stay until read by the service, and the interrupt is level triggered on them. A
descriptor of an aborted chain that is still in flight when the next chain starts
is not counted for the next one.

### XdmaThread: polled mode

State: `threadPc`, `schedule`, `workList` are a `struct xdma_kthread`, `shouldStop`
is `kthread_stop`'s bit, `todo`, `transfer`, `expected`, `descWb` are locals of the
loops; `xdevList` and `xdevMutex` are the device list and its lock; `cmplthp` is
`engine->cmplthp`; `wb` is the writeback word. The `Thread*` actions are
`xthread_main` step by step (`ThreadPend` is `xthread_work_pending`, one engine at
a time; `ThreadProc` reads the first pointer of the engine's list and `ThreadFirst`
the threshold behind it; `ThreadMonitor` and `ThreadAck` read and clear the word in
a turn of `engine_service_wb_monitor`; `ThreadService` is `engine_service`).
Nothing keeps a call from being aborted between the two reads: `Finish` then frees
the transfer under the thread (`transfer` becomes `"freed"`), and the threshold is
any of `Junk`. `Queue`, `Wakeup`, `Woken`, `Finish` are the caller; `ListAdd` ...
`AddAttach` and `RemoveDetach` ... `StopJoin` are open and close with
`xdma_thread_add_work`, `xdma_thread_remove_work`, `xdma_threads_create` and
`xdma_threads_destroy`. What holds `thp->lock` (`Locked`) keeps the others out.

### XdmaRequest: from scatter-gather lists to descriptors

Sequential, and computed to the byte. A step is one turn of a loop, and `pc` says
of which. `InitEntry`, `InitPiece` and `InitDone` are the loops of
`xdma_init_request`, which writes `sdesc` (allocated for `SdescRoom` elements);
`TransferInit`, `TransferBuild` and `TransferDone` are `transfer_init` with
`transfer_build`. `ApertureTransfer` begins a turn of `xdma_xfer_aperture`'s loop,
`FillEntry`, `FillPiece` and `FillNext` are its two inner loops, and `FillDone` ends
the turn. `NextAdj` is `xdma_get_next_adj`. `built` collects the descriptors of a
request, `chain` is the last transfer in the descriptor array, and `misled` records
that an entry was taken for another. `Wanted` is the reference: which host byte
goes to which end point address. The `unsigned int`s wrap at `Wrap`. A list is
shorter than `Wrap` bytes in all, since `total_len` is one of them, and an entry so
short that the sum in line 3117 does not wrap: the callers (`xdma_transfer_data`,
`src/debug.c`) put at most a page in an entry. Addresses are 64 bits wide in the
code and are not made to wrap.

### XdmaAsync: several requests at once

`slots` is the descriptor array slot by slot, so that a request can overwrite the
descriptors of another. `Submit`, `TransferInit`, `TransferQueue` are
`xdma_xfer_submit_nowait`, `Service` is interrupt and bottom half in one step with
the restart branch of `engine_service_resume`, `Completion` is
`xdma_xfer_completion`. `disorder` and `crossed` are history variables for uses
that nothing in the code prevents: more descriptors outstanding than the array
has, completion out of order, two requests that take descriptors in turns.

### XdmaDevice: the life of a device

`step` is the place in `xdma_device_open` (or at one of its error labels),
`xdma_device_close`, `xdma_device_offline` or `xdma_device_online`; `held` is what
was taken from the kernel, `engines` those with memory, `lines` the requested
interrupt lines, `blockOn` and `engOn` the two interrupt masks, `work` the queued
work items. `OpenTake(s)` is one acquiring step with its failure, `ErrLabel` the
label it jumps to. `ChannelIrq`, `Isr`, `ServiceWork` take an interrupt from the
hardware's numbering (`HwBit`) to the engine the driver's numbering (`IrqBit`,
`ChannelVector`) leads to. `misuse`, `irqFailed`, `redone` are history variables.

### NupaDriver: the driver on its device

`drv` is the place in `probe_one`, `adapter_free` or a PCI handler, which the PCI
core serialises. `Xmit`, `DebugIo`, `HoldIc` and `Poll` run at any time. NAPI
(external) is its SCHED bit and the number of lists it is on; `nupanet_poll` is
`SoftIrq` (with the hold test), `PollFrame`, `PollEnd` and `PollFault`. The ring
is the number of frames that wait. A NULL pointer met by a user ends the behaviour
(`oops`). A second probe waits until the queued work, the NAPI listing and the
interrupt lines that the first life left behind are gone, and it does not happen
while a debug device is left.

## 3. What is model-checked

| Run | Checks | Size |
|---|---|---|
| `ring` | `TypeOK`, `SlotExclusive`, `PayloadIntact`, `ChannelSpec` (refinement), `PublishedIsConsumed` | 704,448 states |
| `restart_quiet` | `CleanFirst`, `PayloadIntact` | 983,821 states |
| `engine` | seven safety properties and `CallReturns`, under signals, errors and resets | 216,319 states |
| `thread` | `TypeOK`, `WakeTargetAlive`, `NeverServesDestroyed`, `PolledIsMoved`, `PolledCallReturns` | 361,277 states |
| `request` | `TypeOK`, `DescriptorsInBounds`, `MovesWhatIsWanted`, `FetchesInChain`, `OneEntryIsSafe` | 347,298 states |
| `async` | `TypeOK`, `ChainsIntact`, `AsyncIsMoved`, `CallbackAfterAll`, `TwoSufficeUncrossed`, `LeftBehindOnlyByError`, `RequestIsReported` | 117,353 states |
| `driver` | `TypeOK`, `ClosedHoldsNothing`, `HandlerFindsItsEngine`, `UndoneOnce`, `NoInterruptLost`, `UsersFindTheirDevice`, `ScheduledIsListed`, `ListedOnce` | 4,329,864 states |

Several properties name exceptions, and the exceptions are part of the result:
they are what the code does not guarantee. Polled mode may credit the writeback
of an aborted chain to the next transfer (`PolledIsMoved`). A request of
`xdma_xfer_aperture` with several entries that is split starts over with its
first entry, and may then overrun the descriptor array (`OneEntryIsSafe`).
Asynchronous requests may overwrite each other's descriptors
(`ChainsIntact`). A failed `irq_setup` leaves lines behind whose engines are freed,
and a device whose regions are taken stays enabled (`ClosedHoldsNothing`). Closing
a device that is offline frees its lines and disables it twice (`UndoneOnce`). A
device with an engine that could not be initialised may lose interrupts
(`NoInterruptLost`). Removal pulls device and area away from under its users, and
a failed probe step makes the driver use an area that is not mapped
(`UsersFindTheirDevice`). A poll under hold ends polling for good
(`ScheduledIsListed`), and one that goes over its budget may put NAPI on two lists
(`ListedOnce`).

Bounds. The ring has four descriptors, the smallest power of two with room for the
free one, the one being received, the one being filled and a settled one between
them; indices wrap many times because the behaviours are endless. Two frames of
different lengths tell contents and lengths apart. The engine has two descriptors
and requests of three, so a request is always split, and as `desc_idx` moves on its
pieces are one or two long, end at the end of the array or before it, and begin at
both of its places. Resets may begin at any point of a call. A refused transfer
leaks its share of `desc_used`; the leak grows without end, so no reset begins once
more than `UsedBound` has leaked. One caller of each kind is enough to meet every
race of an aborted transfer with its successor, since `desc_lock` admits one at a
time. Two devices share one completion thread, so that one is opened, closed and
served while the thread is inside the other, and either may be the last. With one
thread the choice that `xdma_thread_add_work` makes between threads is trivial;
more threads are not model-checked, but the proofs of section 4 are for any number.
A threshold read from a freed transfer is one that skips the loop (0) or one that
no chain reaches (3). Lists of four entries on an array of ten descriptors, in
fetch blocks of four and pages of eight, meet every boundary of the code's 64 and
128; the lengths are below, at and above the longest descriptor. Two asynchronous
requests of up to four descriptors on an array of three wrap, are split and ask for
too much. The driver has two H2C engines and one C2H engine, so that a channel
skipped behind a failed one shifts the numbering of the other direction, MSI-X and
legacy interrupts, up to two failing steps in a life (`FaultMax`), a budget of one
and one waiting frame at a time, which is enough for a poll below, at and above its
budget.

`thread`, `request`, `async` and `driver` do not check for deadlock, because these
systems do stop: in the close that `thread_stop` is about, after an overrun, with
all requests overflown or stalled, after an `oops`. What must go on has liveness
properties in `thread` and `async`.

Fairness. In the ring both sides keep stepping: a transmission that has begun
runs to its end in the sender's kernel, and the poll thread schedules the
receiver for ever; nothing forces a new frame to be sent. In the engine callers
run (weak), the mutex is handed over (strong, on taking it), the hardware moves
on, interrupts arrive, the work queue serves them, and `xdma_device_offline` and
`xdma_device_online` run to their end once called. Signals, timeouts, errors and
resets may happen and are never owed, nor is coming back online. `CallReturns`
names the one exception: a caller of `xdma_xfer_aperture` whose engine an error
or a reset stopped waits, with `desc_lock`, for its timeout or a signal
(`Stranded`). In polled mode threads, callers and a close that has begun run, the
hardware goes on, and the monitor is left in the end (strong), because it has a
deadline. Asynchronous submissions, hardware and service run; clients owe nothing.
`driver` checks safety only and assumes no fairness.

### Disagreements between code and comments

Each has a run that TLC refutes.

* `ring_dma_failure`: `nupanet_xmit_frame` settles a descriptor whose DMA write
  failed (427-430); the receiver trusts "data settled" (142).
* `restart_race`: `adapter_info_init` sets `ready` (345) before it clears the
  descriptors (348), after promising to "clean my shm space first" (340).
* `engine_blocking`: `xdma_xfer_submit` is "a blocking call"
  (`src/libxdma_api.h:121`), but its wait (3607) ends at once, and it aborts and
  frees what the hardware executes.
* `thread_stop`: `xdma_kthread_stop` (`src/xdma_thread.c:191`) sets the schedule
  flag before `kthread_stop` sets its bit; a thread that runs in between clears the
  flag and sleeps for good, and the close of the last device never returns.
* `async_split`: "Use two transfers in case single request needs to be split"
  (`src/libxdma.h:479`); two requests that take descriptors in turns can make one
  of them need a third (3985).

Four more configurations of `MCXdmaEngine` are not in the list of runs and are for
use by hand. TLC refutes the property of each:

* `MCXdmaEngineHalfway.cfg`, `FailedMeansStopped`: the late interrupt of an aborted
  transfer makes the service fail the running successor as "stopped half-way"
  (957-988).
* `MCXdmaEngineError.cfg`, `FaultIsDetected`: an error on the first descriptor is
  read, cleared and forgotten (1163), so the waiter of `xdma_xfer_aperture` sleeps
  until a signal or timeout.
* `MCXdmaEngineUsed.cfg`, `DescUsedExact`: a refused transfer keeps its share of
  `desc_used` (3590-3594); `src/libxdma.h:550` calls it "total descriptors used".
* `MCXdmaEngineOffline.cfg`, `OfflineIsIdle`: "wait for all engines to be idle"
  (4620) waits for nothing.

In view of `engine_blocking`, the properties of the ring that suppose successful
DMA (`PayloadIntact`, `ChannelSpec`) speak of the ring protocol, and not of the
link as built with `USE_WAKE_UP 0`. `SlotExclusive` needs no such assumption.

## 4. What is proved

### The ring

`NupaRing_proofs`, for every number of descriptors (at least two), every set of
frames and every length function (`RingAssumption`; `MaskAssumption` is not used):

* `TypeCorrect`: `Spec => []TypeOK`.
* `ProtocolCorrect`: `Spec => []Protocol`, the inductive invariant.
* `SlotsExclusive`: `Spec => []SlotExclusive`, for every DMA outcome.
* `PayloadsIntact`: `Spec => []PayloadIntact`, when `DmaOutcomes = {"done"}`.
* `RingImplementsChannel`: `Spec => ChannelSpec`, when `DmaOutcomes = {"done"}`.

`SlotExclusive` is not inductive: it says nothing about how the two sides came to
their descriptors. `Protocol` adds three things. The sender's copy of the head is
exact, because nobody else moves it, and the occupancy it computed from an old
tail is an upper bound, so between the test and the publication at least two
descriptors are unpublished (`SenderInv`). The receiver's copy of the tail is
exact, the head it saw is a lower bound, and while it receives, the tail is just
past its descriptor (`ReceiverInv`). Every published descriptor is SETTLED except
the one being filled (`RingInv`), which makes the receiver's choice stable. The
receiver's descriptor is then at distance `MAX_DESC_NUM - 1` from the tail, and
the sender's always at a smaller one. `OccupancyFacts` holds all the arithmetic.
`Contents` carries the payload along: position, offset, block and length of each
settled descriptor, and what each side has copied of it. Both invariants were
model-checked on the `ring` instance before they were proved.

The refinement maps the ring to the sequence `Queue`: the frame being received,
then the published ones from `tail` to `head`. Moving `head` appends a frame (there
is room, by `SenderInv`). Moving `tail` takes a frame from the published ones but
leaves it in `Queue`, as the one being received. `Deliver` takes it out, and by
`Contents` it is the one that was put in; a failed `kmalloc` loses it. All other
steps stutter.

### Removal and probe of the receiver

`NupaRestart_proofs`, under the same assumptions and `Quiet`: the other host has
no transmission under way when `adapter_free` clears the area, nor from the moment
`ready` is set until the descriptors are numbered. (Without it `restart_race`
refutes the first.)

* `RestartCorrect`: `RSpec => []RestartInv`, the inductive invariant.
* `RestartIsClean`: `RSpec => []CleanFirst`.
* `RestartSlotsExclusive`: `RSpec => []SlotExclusive`.
* `RestartPayloadsIntact`: `RSpec => []PayloadIntact`, when
  `DmaOutcomes = {"done"}`.

`RestartInv` is `Protocol` and `AwayInv`: while the driver is away the ring is
empty, nothing is received, and a transmission that begins finds `ready` cleared
and gives up. The ring therefore comes back in a state in which `Protocol` holds
as it does for an empty ring (`RestingProtocol`), and each step of the ring keeps
it by the lemmas of `NupaRing_proofs`.

### The driver

`NupaDriver_proofs`, for every sequence of engines, every set of interrupt modes
and of steps that may fail, every number of failures in the life of a device
(`FaultMax`), every budget and ring size (`DeviceAssumption`, `PollAssumption`):

* `DriverCorrect`: `Spec => []DriverInv`, the inductive invariant.
* `NothingLeftHeld`: `Spec => []ClosedHoldsNothing`.
* `HandlersFindEngines`: `Spec => []HandlerFindsItsEngine`.
* `NothingUndoneTwice`: `Spec => []UndoneOnce`.
* `UsersAreSafe`: `Spec => []UsersFindTheirDevice`.
* `PollingGoesOn`: `Spec => []ScheduledIsListed`.
* `ListedTwiceOnlyOverBudget`: `Spec => []ListedOnce`.

None of the six properties is inductive: each speaks of an end (the device is
closed, a handler runs, a pointer is NULL) and not of the way there. `DriverInv`
has five parts. `HeldInv` says for each resource at which steps of open and close
it is not held; it needs the life cycle at one point, since only because its area
was never mapped does a device with foreign regions not reach a second probe.
`LineInv` says that engines, registers and vectors exist at every step at which
lines may be requested, and that the lines are the wanted ones or gone.
`UndoInv` says that a device is enabled wherever `pci_disable_device` may follow,
but for one that a slot reset has left disabled; that one is offline, so its close
counts as a second tear-down. `NapiInv` ties the SCHED bit to lists, polls and the
poll thread, and says that nothing is polled during a probe; `AdapterInv` uses
this to show that a user who finds nothing finds it after `adapter_free` began.
Most actions touch nothing these speak of (`StepsSplit`, `ProbesKeep`,
`FreesKeep`, `TrafficKeeps`). The five parts were model-checked on the `driver`
instance before they were proved.

About interrupts and types, in the same module and from the same assumptions:

* `MasksCorrect`: `Spec => []MaskInv`, inductive relative to `LineInv`.
* `InterruptsReachTheirEngine`: `Spec => []NoInterruptLost`.
* `DriverTypes`: `Spec => []TypeOK`.

`MaskInv` says that on a device with all its engines an engine is unmasked in both
masks, or the handler that masked it has queued the work that unmasks it. Work
outlives a reset but not a close. That an interrupt leads to the engine that
raised it is a matter of counting: hardware numbers the channels it has, the
driver those it initialised, and with none missing the two agree.

### The engine

`XdmaEngine_proofs`, for every number of callers of either kind, every size of
the descriptor array, all request sizes and all faults (`EngineAssumption`):

* `EngineCorrect`: `Spec => []EngineInv`, the inductive invariant.
* `EngineTypes`: `Spec => []TypeOK`.
* `ListedTransfersAlive`: `Spec => []ListedIsAlive`.
* `RunningIsTruthful`: `Spec => []RunningHasTransfer`.
* `ShutdownHolds`: `Spec => []NoStartInShutdown`.
* `CountStaysInHead`: `Spec => []NeverPastHead`.
* `CompletedWasMoved`: `Spec => []CompletedIsTransferred`.
* `SuccessWasWhole`: `Spec => []SuccessIsWhole`.

All of these rest on `desc_lock`, which is held over a whole call. `CallInv` says
who is inside and which states its transfer can have there; `ListInv` that the
list is empty or holds just that transfer. `RunInv` says that an engine which
runs or is being served works on it with nothing dequeued, and that one which was
shut down does neither, which is what makes the flag test before the lock
harmless. `HwInv` splits the transfer the hardware works on into what was moved
and what is left: a chain that was aborted belongs to its transfer until `Reap`
and to none afterwards. That starting the next chain drops what is still in flight
of an aborted one is the assumption on the hardware stated in section 2.
`CountInv` splits a request into done, in the transfer at hand, and to come.
`Chunk` enters only through `ChunkBounds`. A step that leaves callers, list and
chain alone is dealt with once (`QuietKeeps`). Before it was proved the invariant
was model-checked with two submitting callers, a waiting one, all faults and
requests of one and three descriptors (14,031,764 states).

### Completion threads

`XdmaThread_proofs`, for every number of threads and of devices, all chain lengths,
all faults and whatever a freed transfer holds (`ThreadAssumption`):

* `ThreadCorrect`: `Spec => []ThreadInv`, the inductive invariant.
* `ThreadTypes`: `Spec => []TypeOK`.
* `WakeupsReachThreads`: `Spec => []WakeTargetAlive`.
* `DestroyedNeverServed`: `Spec => []NeverServesDestroyed`.
* `PolledTransfersAreMoved`: `Spec => []PolledIsMoved`.

The mutex around the device list gives `ListInv`: while a device is listed all
threads live and none was asked to end, and who destroys them holds the mutex with
the list empty. `LinkInv` says that an engine is, from `xdma_thread_add_work` to
`xdma_thread_remove_work`, in the list of the one thread it was given, and once.
`WalkInv` says that a thread which holds its lock walks over engines of its list;
removal needs that lock, so none of them is destroyed meanwhile. `TransferInv`
follows the writeback word: on an engine on which nothing was aborted a chain
writes one word, after its last descriptor or an error, and only the engine's one
thread consumes it, before the next chain is started. A thread that took the list's
first pointer for a transfer finds it still listed (`Waits`), so a threshold from a
freed transfer is met only after an abort. That
`xdma_thread_add_work` finds a least loaded thread, however many there are, is
shown with a least element (`LeastOf`). The invariant was model-checked on the
`thread` instance before it was proved.

### Asynchronous requests

`XdmaAsyncSubmit_proofs` (invariant, submission, hardware) and `XdmaAsync_proofs`
(bottom half, completion, theorems), for every number of requests, every
`desc_max`, all request sizes, with and without errors of the hardware
(`AsyncAssumption`):

* `AsyncCorrect`: `Spec => []AsyncInv`, the inductive invariant.
* `AsyncTypes`: `Spec => []TypeOK`.
* `ChainsStayIntact`: `Spec => []ChainsIntact`.
* `AsyncTransfersAreMoved`: `Spec => []AsyncIsMoved`.
* `CallbackComesLast`: `Spec => []CallbackAfterAll`.
* `TwoTransfersSufficeUncrossed`: `Spec => []TwoSufficeUncrossed`.
* `StallOnlyByError`: `Spec => LeftBehindOnlyByError`, an action property.

The code hands out the descriptor array as a ring without keeping a tail; that a
slot is free follows from the order of requests alone. `OrderInv` says so: as
long as slots are given back in the order in which they were handed out and no
more are outstanding than there are (`~disorder`), the slots from any outstanding
transfer on add up to the distance from its first one to `desc_idx`, modulo
`desc_max`. New slots begin at `desc_idx` and end before the oldest ones. Then
each slot names its transfer and knows whether it is the last (`SlotInv`), and the
hardware, started at the first transfer of the list, moves that one and stops at
its end (`MoveInv`). `RequestInv` and `ListInv` need no order: the transfers of a
request add up to it, and the list holds the submitted ones, those of a request
in their order, so that the last is ended last. These give `CallbackAfterAll` in
disorder too. The sums over sequences are recursive functions; what is needed of
them (sums are natural, split at any place, and grow) is proved by taking a least
counterexample. The bound in `Submit` is not used by the proofs. The invariant was
model-checked on the `async` instance before it was proved.

### Request splitting

`XdmaRequest_proofs`, for lists of any number of entries with any addresses, every
`desc_blen_max` and `desc_max`, every aperture that is a power of two and pages of
whole fetch blocks (`RequestAssumption`):

* `RequestCorrect`: `Spec => []RequestInv`, the inductive invariant.
* `RequestTypes`: `Spec => []TypeOK`.
* `RequestBounds`: `Spec => []DescriptorsInBounds`.
* `RequestMoves`: `Spec => []MovesWhatIsWanted`.
* `RequestFetches`: `Spec => []FetchesInChain`.
* `RequestOneEntry`: `Spec => []OneEntryIsSafe`.

The properties speak of the descriptors that are there, and not of where a loop
stands between two of them. `CutInv` says so for `xdma_init_request`: the pieces
and the rest of the entry at hand add up to the entries so far, and the room for
the entries so far has space for as many pieces as the rest needs. The room is
more than enough for a long entry, and just enough for a short one. `BuildInv`
says that the descriptors are the first of these pieces and that the end point
address has moved on by their sum; a transfer may end anywhere, and the next one
goes on there. `FillInv` holds in `xdma_xfer_aperture` however it takes its
entries: the end point address lies in the aperture or just behind it. `PlaceInv`
holds as long as it takes the right ones: `offset`, the entry with `sg_offset`, and
the end point address name one place, that of the next byte. Together with
`ChainInv` (a chain ends with the array) it excludes a transfer without descriptors,
since a turn begins only with bytes left and a free descriptor. `Types` and
`IdleInv` give types and what a new request finds.

Places are sums of lengths, and end points are remainders modulo the aperture.
That sums are natural, grow, and depend only on the elements summed, and that a
remainder moves on with its number up to the end of the aperture, are lemmas of
their own; those about sums take a least counterexample. A step that appends a
descriptor leaves the places of the others alone. That the fetch blocks lie
between block boundaries needs that a page consists of whole blocks. The
invariant was model-checked on the `request` instance before it was proved.

### Only model-checked

Liveness, which is outside the proof system: `PublishedIsConsumed`, `CallReturns`,
`PolledCallReturns`, `RequestIsReported`.

Every other property of a passing run is proved for all values of the constants
that the named assumptions admit.

## 5. Not modelled

* Transmit dispatch (MAC address to host, broadcast, length check): comparisons
  without state.
* Dumps, logging, descriptor bit layout, which BAR is which, PCI capabilities.
* Performance counters, cyclic transfers, user interrupts: nothing in the
  repository calls them. Streaming engines: nupanet uses memory mapped ones.
* The order in which write-combined stores to the BAR (681) reach the peer: the
  ring's memory is sequentially consistent. The code has no barriers, so the
  results about the ring hold only where stores arrive in order.
* `packets_info.total_len` (310), updated without a lock: nothing reads it. The
  uninitialised local of that name is modelled.
* `napi_alloc_skb` returning NULL (236) and the `kmalloc` of `xdma_send_data` (263),
  which the code does not test.
* A poll that begins behind `netif_napi_del` and is under way when `adapter_free`
  clears the area: it goes on in memory that is unmapped next, which
  `NupaDriver` has as `PollFault`; the ring of `NupaRestart` does not follow it.
* A debug file that is still open after `delete_debug_cdev`. A build with
  `XDMA_CONFIG_BAR_NUM`, in which a failing `map_bars` unmaps nothing.
* A second asynchronous transfer that `transfer_queue` refuses (3979), and a client
  that calls `xdma_xfer_completion` before `io_done`.
* A completion thread that cannot be created (`src/xdma_thread.c:315`): the
  clean-up frees what running threads use.
* A failed register read while a transfer is being aborted (3651).
* Of a work item that runs after its engine was destroyed (1245, 4583), only the
  zeroed magic number is modelled.
* The ring over the engine's real outcomes, with writes that arrive late, is not
  composed: `NupaRing` takes outcomes from `DmaOutcomes`.
