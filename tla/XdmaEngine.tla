----------------------------- MODULE XdmaEngine -----------------------------
(***************************************************************************)
(* One XDMA engine in interrupt mode: the callers of xdma_xfer_submit and  *)
(* xdma_xfer_aperture, the engine's transfer list, the FPGA's DMA engine,  *)
(* the channel interrupt with its bottom half engine_service_work, and     *)
(* xdma_device_offline / xdma_device_online.                               *)
(*                                                                         *)
(* What the code does under engine->lock is one step, except for the       *)
(* service, whose two reads of the hardware are apart.  desc_lock is held  *)
(* over a whole call, so a request's transfers (req->tfer[0], one at a     *)
(* time) are named after their caller.  A data buffer is known only by the *)
(* number of its descriptors.                                              *)
(*                                                                         *)
(* Left out: streaming engines (eop_flush, credits), cyclic transfers and  *)
(* polled mode; nupanet moves frames through memory mapped engines and     *)
(* poll_mode is off unless the module parameter sets it.                   *)
(***************************************************************************)
EXTENDS Integers, Sequences

CONSTANTS
  Submitters,  \* callers of xdma_xfer_submit
  Aperture,    \* callers of xdma_xfer_aperture
  NoCaller,
  DescMax,     \* engine->desc_max
  ReqSizes,    \* numbers of descriptors a request may need
  Faults,      \* which of "signal", "error" and "reset" may happen
  UsedBound    \* no reset begins once desc_used has leaked more than this

Callers == Submitters \cup Aperture

ASSUME EngineAssumption ==
  /\ NoCaller \notin Callers /\ Submitters \cap Aperture = {}
  /\ DescMax \in Nat \ {0}
  /\ ReqSizes \subseteq Nat \ {0}
  /\ Faults \subseteq {"signal", "error", "reset"}
  /\ UsedBound \in Nat

VARIABLES
  running, shutdown, transferList,        \* struct xdma_engine
  descDequeued, descIdx, descUsed,
  descLock,                               \* holder of engine->desc_lock
  xfer,                                   \* req->tfer[0] of each caller
  pc, swDescCnt, nents, done, rv,         \* the callers' locals
  offline, admin,                         \* XDEV_FLAG_OFFLINE, its setter
  irqOn, irqEnable, work,                 \* irq requested, mask, work pending
  serving, status,                        \* engine_service past its first read
  hwRun, hwBusy, hwCount, hwStat,         \* control, status, completed count
  hwLeft, hwXfer,                         \* descriptors left, whose they are
  moved                                   \* history: descriptors of xfer moved

engine == <<running, shutdown, transferList, descDequeued>>
ring   == <<descIdx, descUsed>>
locals == <<pc, swDescCnt, nents, done, rv>>
dev    == <<offline, admin>>
irq    == <<irqOn, irqEnable, work>>
svc    == <<serving, status>>
hw     == <<hwRun, hwBusy, hwCount, hwStat, hwLeft, hwXfer>>
vars   == <<engine, ring, descLock, xfer, locals, dev, irq, svc, hw, moved>>

NoXfer == [state |-> "NEW", num |-> 0]
NoStatus == [busy |-> FALSE, err |-> FALSE]
States == {"NEW", "SUBMITTED", "COMPLETED", "FAILED", "ABORTED"}

Init ==
  /\ running = FALSE /\ shutdown = {} /\ transferList = <<>>
  /\ descDequeued = 0 /\ descIdx = 0 /\ descUsed = 0
  /\ descLock = NoCaller
  /\ xfer = [c \in Callers |-> NoXfer]
  /\ pc = [c \in Callers |-> "idle"] /\ nents = [c \in Callers |-> 0]
  /\ swDescCnt = [c \in Callers |-> 0]
  /\ done = [c \in Callers |-> 0] /\ rv = [c \in Callers |-> "ok"]
  /\ offline = FALSE /\ admin = "online"
  /\ irqOn = TRUE /\ irqEnable = TRUE /\ work = FALSE
  /\ serving = FALSE /\ status = NoStatus
  /\ hwRun = FALSE /\ hwBusy = FALSE /\ hwCount = 0 /\ hwStat = {}
  /\ hwLeft = 0 /\ hwXfer = NoCaller
  /\ moved = [c \in Callers |-> 0]

-----------------------------------------------------------------------------
(* Starting and stopping the engine, always under engine->lock.            *)

EngineStartKeepsDequeued(c) ==
  /\ running' = TRUE /\ shutdown' = {} /\ descDequeued' = descDequeued
  /\ hwRun' = TRUE /\ hwBusy' = TRUE /\ hwCount' = 0
  /\ hwLeft' = xfer'[c].num /\ hwXfer' = c

\* A rising RUN bit clears completed_desc_count; the status bits stay.
EngineStart(c) ==
  /\ running' = TRUE /\ shutdown' = {} /\ descDequeued' = 0
  /\ hwRun' = TRUE /\ hwBusy' = TRUE /\ hwCount' = 0
  /\ hwLeft' = xfer'[c].num /\ hwXfer' = c

EngineStopKeepsRunning == running' = running /\ hwRun' = FALSE

\* RUN is cleared and nothing is waited for: the hardware finishes the
\* descriptor it is working on in its own time.
EngineStop == running' = FALSE /\ hwRun' = FALSE

-----------------------------------------------------------------------------
(* xdma_xfer_submit and xdma_xfer_aperture.                                *)

Goto(c, from, to) == pc[c] = from /\ pc' = [pc EXCEPT ![c] = to]

\* xdma_init_request cuts the buffer into descriptors.
InitRequest(c) ==
  /\ \E n \in ReqSizes : swDescCnt' = [swDescCnt EXCEPT ![c] = n]
  /\ nents' = [nents EXCEPT ![c] = swDescCnt'[c]]

\* An offline device returns -EBUSY at once.
Submit(c) ==
  /\ Goto(c, "idle", "lock")
  /\ ~offline
  /\ InitRequest(c)
  /\ done' = [done EXCEPT ![c] = 0] /\ rv' = [rv EXCEPT ![c] = "ok"]
  /\ UNCHANGED <<engine, ring, descLock, xfer, dev, irq, svc, hw, moved>>

LockDesc(c) ==
  /\ Goto(c, "lock", "init")
  /\ descLock = NoCaller /\ descLock' = c
  /\ UNCHANGED <<engine, ring, xfer, swDescCnt, nents, done, rv, dev, irq,
                 svc, hw, moved>>

ChunkWhole(n, idx) == n

\* The descriptors a transfer gets: what is left of the request, or of the
\* engine's descriptor array.
Chunk(n, idx) ==
  LET most == IF n < DescMax THEN n ELSE DescMax
  IN  IF idx + most >= DescMax THEN DescMax - idx ELSE most

TransferInit(c) ==
  LET k == Chunk(nents[c], descIdx) IN
  /\ Goto(c, "init", "queue")
  /\ xfer' = [xfer EXCEPT ![c] = [state |-> "NEW", num |-> k]]
  /\ nents' = [nents EXCEPT ![c] = @ - k]
  /\ descIdx' = (descIdx + k) % DescMax
  /\ descUsed' = descUsed + k
  /\ moved' = [moved EXCEPT ![c] = 0]
  /\ UNCHANGED <<engine, descLock, swDescCnt, done, rv, dev, irq, svc, hw>>

\* goto unmap_sgl: the lock is dropped, the request is freed.
Return(c) ==
  /\ pc' = [pc EXCEPT ![c] = "idle"]
  /\ nents' = [nents EXCEPT ![c] = 0]
  /\ descLock' = NoCaller
  /\ xfer' = [xfer EXCEPT ![c] = NoXfer]
  /\ moved' = [moved EXCEPT ![c] = 0]

QueueFails(c) ==
  /\ Return(c)
  /\ rv' = [rv EXCEPT ![c] = "EBUSY"]
  /\ UNCHANGED <<engine, ring, swDescCnt, done, dev, irq, svc, hw>>

\* transfer_queue reads the device flag before it takes the engine lock.
QueueCheck(c) ==
  \/ /\ pc[c] = "queue" /\ offline
     /\ QueueFails(c)
  \/ /\ Goto(c, "queue", "locked") /\ ~offline
     /\ UNCHANGED <<engine, ring, descLock, xfer, swDescCnt, nents, done, rv,
                    dev, irq, svc, hw, moved>>

AcceptingAlways == TRUE

\* An engine that is being shut down does not accept new transfers.
Accepting == "REQUEST" \notin shutdown

TransferQueue(c) ==
  \/ /\ pc[c] = "locked" /\ ~serving /\ ~Accepting
     /\ QueueFails(c)
  \/ /\ Goto(c, "locked", "wait") /\ ~serving /\ Accepting
     /\ xfer' = [xfer EXCEPT ![c].state = "SUBMITTED"]
     /\ transferList' = Append(transferList, c)
     /\ IF running
        THEN UNCHANGED <<running, shutdown, descDequeued, hw>>
        ELSE EngineStart(Head(transferList')) /\ UNCHANGED hwStat
     /\ UNCHANGED <<ring, descLock, swDescCnt, nents, done, rv, dev, irq, svc,
                    moved>>

\* With USE_WAKE_UP 0 xdma_xfer_submit spins only while the state is NEW,
\* which it no longer is; xdma_xfer_aperture waits for the completion.
Wake(c) ==
  /\ Goto(c, "wait", "finish")
  /\ xfer[c].state # IF c \in Aperture THEN "SUBMITTED" ELSE "NEW"
  /\ UNCHANGED <<engine, ring, descLock, xfer, swDescCnt, nents, done, rv,
                 dev, irq, svc, hw, moved>>

\* A signal or the timeout ends the wait.
Interrupted(c) ==
  /\ Goto(c, "wait", "finish")
  /\ "signal" \in Faults
  /\ c \in Aperture /\ xfer[c].state = "SUBMITTED"
  /\ UNCHANGED <<engine, ring, descLock, xfer, swDescCnt, nents, done, rv,
                 dev, irq, svc, hw, moved>>

TransferAbortKeeps(c) ==
  /\ transferList' = transferList
  /\ xfer' = [xfer EXCEPT ![c].state = "ABORTED"]

\* transfer_abort unlinks the transfer only when it heads the list.
TransferAbort(c) ==
  /\ transferList' = IF transferList # <<>> /\ Head(transferList) = c
                     THEN Tail(transferList) ELSE transferList
  /\ xfer' = [xfer EXCEPT ![c].state = "ABORTED"]

\* The switch on the transfer's state.
Finish(c) ==
  /\ Goto(c, "finish", "reap") /\ ~serving
  /\ CASE xfer[c].state = "COMPLETED" ->
            /\ done' = [done EXCEPT ![c] = @ + xfer[c].num]
            /\ UNCHANGED <<rv, xfer, engine, hwRun>>
       [] xfer[c].state = "FAILED" ->
            /\ rv' = [rv EXCEPT ![c] = "EIO"]
            /\ UNCHANGED <<done, xfer, engine, hwRun>>
       [] OTHER ->
            /\ TransferAbort(c) /\ EngineStop
            /\ rv' = [rv EXCEPT ![c] = "ERESTARTSYS"]
            /\ UNCHANGED <<done, shutdown, descDequeued>>
  /\ UNCHANGED <<ring, descLock, swDescCnt, nents, dev, irq, svc, hwBusy,
                 hwCount, hwStat, hwLeft, hwXfer, moved>>

LastTransferAlways(c) == TRUE

\* The loop over the request's transfers ends.
LastTransfer(c) == rv[c] # "ok" \/ nents[c] = 0

\* desc_used is given back, the descriptors are zeroed (transfer_destroy) and
\* the loop goes on with the next transfer or leaves.  A chain the hardware
\* is still working on belongs to no transfer from here on.
Reap(c) ==
  /\ pc[c] = "reap"
  /\ descUsed' = descUsed - xfer[c].num
  /\ hwXfer' = IF hwXfer = c THEN NoCaller ELSE hwXfer
  /\ IF LastTransfer(c)
     THEN Return(c)
     ELSE pc' = [pc EXCEPT ![c] = "init"]
          /\ UNCHANGED <<nents, descLock, xfer, moved>>
  /\ UNCHANGED <<engine, descIdx, swDescCnt, done, rv, dev, irq, svc, hwRun,
                 hwBusy, hwCount, hwStat, hwLeft>>

CallStep(c) ==
  \/ LockDesc(c) \/ TransferInit(c) \/ QueueCheck(c) \/ TransferQueue(c)
  \/ Wake(c) \/ Finish(c) \/ Reap(c)

-----------------------------------------------------------------------------
(* The FPGA's DMA engine, as the driver relies on it.                      *)

HwUnchanged ==
  UNCHANGED <<engine, ring, descLock, xfer, locals, dev, irq, svc>>

\* One more descriptor moved.  The last one of a chain stops the engine and
\* latches DESC_COMPLETED and DESC_STOPPED; a cleared RUN bit stops it too.
HwDescriptor ==
  /\ hwBusy /\ hwLeft > 0
  /\ hwLeft' = hwLeft - 1 /\ hwCount' = hwCount + 1
  /\ moved' = [c \in Callers |-> IF c = hwXfer THEN moved[c] + 1 ELSE moved[c]]
  /\ hwBusy' = (hwRun /\ hwLeft > 1)
  /\ hwStat' = IF hwLeft = 1 THEN hwStat \cup {"DONE"} ELSE hwStat
  /\ UNCHANGED <<hwRun, hwXfer>> /\ HwUnchanged

\* A descriptor, magic, bus or alignment error stops the engine.
HwError ==
  /\ "error" \in Faults
  /\ hwBusy /\ hwRun
  /\ hwBusy' = FALSE /\ hwStat' = hwStat \cup {"ERR"}
  /\ UNCHANGED <<hwRun, hwCount, hwLeft, hwXfer, moved>> /\ HwUnchanged

\* RUN was cleared between two descriptors.
HwIdle ==
  /\ hwBusy /\ ~hwRun
  /\ hwBusy' = FALSE
  /\ UNCHANGED <<hwRun, hwCount, hwStat, hwLeft, hwXfer, moved>> /\ HwUnchanged

-----------------------------------------------------------------------------
(* The channel interrupt and its bottom half.                              *)

\* xdma_channel_irq: mask the channel, schedule the work.
ChannelIrq ==
  /\ irqOn /\ irqEnable /\ hwStat # {}
  /\ irqEnable' = FALSE /\ work' = TRUE
  /\ UNCHANGED <<engine, ring, descLock, xfer, locals, dev, irqOn, svc, hw,
                 moved>>

\* engine_status_read with clear set.
ReadStatus ==
  /\ status' = [busy |-> hwBusy, err |-> "ERR" \in hwStat]
  /\ hwStat' = {}

\* engine_service_shutdown; nobody sleeps on the queue it wakes.
ServiceShutdown == EngineStop

\* engine_service up to the reading of the count: an engine that is no longer
\* busy is stopped.
ServiceStatus ==
  /\ work /\ work' = FALSE
  /\ running /\ ~serving /\ serving' = TRUE
  /\ ReadStatus
  /\ IF status'.busy THEN UNCHANGED <<running, hwRun>> ELSE ServiceShutdown
  /\ UNCHANGED <<shutdown, transferList, descDequeued, ring, descLock, xfer,
                 locals, dev, irqOn, irqEnable, hwBusy, hwCount, hwLeft,
                 hwXfer, moved>>

FinalStateNoCount(c, completed) == IF status.err THEN "FAILED" ELSE "COMPLETED"

\* The state engine_service_final_transfer leaves the head of the list in.
FinalState(c, completed) ==
  IF status.err \/ completed < xfer[c].num THEN "FAILED" ELSE "COMPLETED"

\* engine_service_resume, with the engine's running flag and list.
ServiceResume(live, rest, dequeued) ==
  IF ~live /\ rest # <<>>
  THEN EngineStart(Head(rest))
  ELSE /\ descDequeued' = dequeued
       /\ shutdown' = IF ~live /\ "REQUEST" \in shutdown
                      THEN shutdown \cup {"IDLE"} ELSE shutdown
       /\ IF live /\ rest # <<>> THEN UNCHANGED <<running, hwRun>>
                                ELSE ServiceShutdown
       /\ UNCHANGED <<hwBusy, hwCount, hwLeft, hwXfer>>

\* The descriptors that engine_service_transfer_list leaves to the final
\* transfer.  Transfers are not chained, so the count never exceeds the head's
\* (NeverPastHead) and its loop finds nothing to dequeue.
Completed == hwCount - descDequeued

\* engine_err_handle stops the engine and leaves desc_dequeued alone.
FinalTransfer ==
  LET c == Head(transferList)
      rest == Tail(transferList)
  IN
  /\ xfer' = [xfer EXCEPT ![c].state = FinalState(c, Completed)]
  /\ transferList' = rest
  /\ ServiceResume(running /\ ~status.err, rest,
                   descDequeued + IF status.err THEN 0 ELSE xfer[c].num)

UnmaskNever == irqEnable' = irqEnable

\* The write to interrupt_enable_mask_w1s.
Unmask == irqEnable' = TRUE

\* The rest of engine_service: a count of zero ends it before any transfer is
\* looked at.  A running engine's list is not empty (RunningHasTransfer).
ServiceCount ==
  /\ serving /\ serving' = FALSE /\ status' = NoStatus
  /\ IF hwCount = 0
     THEN UNCHANGED <<engine, xfer, hwRun, hwBusy, hwCount, hwLeft, hwXfer>>
     ELSE FinalTransfer
  /\ Unmask
  /\ UNCHANGED <<ring, descLock, locals, dev, irqOn, work, hwStat, moved>>

\* An engine that is not running only has its status cleared.
ServiceIdle ==
  /\ work /\ work' = FALSE
  /\ ~running /\ ~serving
  /\ hwStat' = {}
  /\ Unmask
  /\ UNCHANGED <<engine, ring, descLock, xfer, locals, dev, irqOn, svc, hwRun,
                 hwBusy, hwCount, hwLeft, hwXfer, moved>>

\* engine_service_work: serve the engine, then unmask the channel.
ServiceWork == ServiceStatus \/ ServiceCount \/ ServiceIdle

-----------------------------------------------------------------------------
(* xdma_device_offline and xdma_device_online, called by the PCI error and *)
(* reset handlers.                                                         *)

Admin(from, to) == admin = from /\ admin' = to

\* What refused transfers have left behind in desc_used.
Leaked ==
  IF descLock # NoCaller /\ pc[descLock] # "init"
  THEN descUsed - xfer[descLock].num ELSE descUsed

OfflineFlag ==
  /\ "reset" \in Faults /\ Leaked <= UsedBound
  /\ Admin("online", "flagged") /\ offline' = TRUE
  /\ UNCHANGED <<engine, ring, descLock, xfer, locals, irq, svc, hw, moved>>

OfflineEngine ==
  /\ Admin("flagged", "stopped") /\ ~serving
  /\ shutdown' = shutdown \cup {"REQUEST"} /\ EngineStop
  /\ UNCHANGED <<transferList, descDequeued, ring, descLock, xfer, locals,
                 offline, irq, svc, hwBusy, hwCount, hwStat, hwLeft, hwXfer,
                 moved>>

\* The interrupt block is masked and the vectors are freed; the engine's own
\* mask register is left as it is.
OfflineIrq ==
  /\ Admin("stopped", "offline")
  /\ irqOn' = FALSE
  /\ UNCHANGED <<engine, ring, descLock, xfer, locals, offline, irqEnable,
                 work, svc, hw, moved>>

\* The slot or function reset that comes between the two.
HwReset ==
  /\ Admin("offline", "reset")
  /\ hwRun' = FALSE /\ hwBusy' = FALSE /\ hwCount' = 0 /\ hwStat' = {}
  /\ hwLeft' = 0 /\ hwXfer' = NoCaller /\ irqEnable' = FALSE
  /\ UNCHANGED <<engine, ring, descLock, xfer, locals, offline, irqOn, work,
                 svc, moved>>

\* engine_init_regs writes the interrupt mask before REQUEST is withdrawn.
OnlineEngine ==
  /\ Admin("reset", "started") /\ ~serving
  /\ irqEnable' = TRUE
  /\ shutdown' = shutdown \ {"REQUEST"}
  /\ UNCHANGED <<running, transferList, descDequeued, ring, descLock, xfer,
                 locals, offline, irqOn, work, svc, hw, moved>>

OnlineIrq ==
  /\ Admin("started", "irqs")
  /\ irqOn' = TRUE
  /\ UNCHANGED <<engine, ring, descLock, xfer, locals, offline, irqEnable,
                 work, svc, hw, moved>>

OnlineFlag ==
  /\ Admin("irqs", "online") /\ offline' = FALSE
  /\ UNCHANGED <<engine, ring, descLock, xfer, locals, irq, svc, hw, moved>>

DeviceReset ==
  \/ OfflineFlag \/ OfflineEngine \/ OfflineIrq \/ HwReset
  \/ OnlineEngine \/ OnlineIrq \/ OnlineFlag

-----------------------------------------------------------------------------

Next ==
  \/ \E c \in Callers : Submit(c) \/ CallStep(c) \/ Interrupted(c)
  \/ HwDescriptor \/ HwError \/ HwIdle
  \/ ChannelIrq \/ ServiceWork
  \/ DeviceReset

Spec == Init /\ [][Next]_vars

\* Callers run, the mutex is handed over, the hardware moves on, interrupts
\* arrive and the work queue serves them.  xdma_device_offline and _online run
\* to their end; signals, timeouts, errors and resets may happen and need not,
\* and a device that went offline may stay so.
FairSpec ==
  /\ Spec
  /\ \A c \in Callers : WF_vars(CallStep(c)) /\ SF_vars(LockDesc(c))
  /\ WF_vars(HwDescriptor \/ HwIdle)
  /\ WF_vars(ChannelIrq) /\ WF_vars(ServiceWork)
  /\ WF_vars(OfflineEngine \/ OfflineIrq \/ OnlineIrq \/ OnlineFlag)

-----------------------------------------------------------------------------

CallPcs == {"idle", "lock", "init", "queue", "locked", "wait", "finish",
            "reap"}
Results == {"ok", "EBUSY", "EIO", "ERESTARTSYS"}
AdminPcs == {"online", "flagged", "stopped", "offline", "reset", "started",
             "irqs"}

\* Every variable stays in its range; desc_idx stays inside the descriptor
\* array and no transfer is longer than the array.
TypeOK ==
  /\ running \in BOOLEAN /\ shutdown \subseteq {"REQUEST", "IDLE"}
  /\ transferList \in Seq(Callers)
  /\ descDequeued \in Nat /\ descIdx \in 0 .. DescMax - 1 /\ descUsed \in Nat
  /\ descLock \in Callers \cup {NoCaller}
  /\ xfer \in [Callers -> [state : States, num : 0 .. DescMax]]
  /\ pc \in [Callers -> CallPcs] /\ swDescCnt \in [Callers -> Nat]
  /\ nents \in [Callers -> Nat] /\ done \in [Callers -> Nat]
  /\ rv \in [Callers -> Results]
  /\ offline \in BOOLEAN /\ admin \in AdminPcs
  /\ irqOn \in BOOLEAN /\ irqEnable \in BOOLEAN /\ work \in BOOLEAN
  /\ serving \in BOOLEAN /\ status \in [busy : BOOLEAN, err : BOOLEAN]
  /\ hwRun \in BOOLEAN /\ hwBusy \in BOOLEAN /\ hwCount \in Nat
  /\ hwStat \subseteq {"DONE", "ERR"} /\ hwLeft \in Nat
  /\ hwXfer \in Callers \cup {NoCaller}
  /\ moved \in [Callers -> Nat]

\* The list holds only transfers whose caller is still inside the call and
\* will look at them: xdma_request_free never frees a listed transfer, which
\* engine_start or engine_service would later dereference.
ListedIsAlive ==
  \A i \in 1 .. Len(transferList) :
    LET c == transferList[i] IN
    /\ pc[c] \in {"wait", "finish"} /\ xfer[c].state = "SUBMITTED"
    /\ descLock = c

\* engine->running tells the truth about the list: a running engine works on
\* the transfer that heads it, so the service never credits one transfer with
\* another one's descriptors.
RunningHasTransfer ==
  running => transferList # <<>> /\ hwXfer = Head(transferList)

\* Once xdma_device_offline has stopped the engine nothing starts it again
\* until xdma_device_online withdraws the shutdown request, although a caller
\* may have passed the test of the offline flag before it was set and
\* engine_start itself resets engine->shutdown.
NoStartInShutdown ==
  admin \in {"stopped", "offline", "reset"} =>
    "REQUEST" \in shutdown /\ ~running /\ ~hwRun

\* WARN_ON(*pdesc_completed > transfer->desc_num): the hardware never reports
\* more descriptors than the transfer at the head of the list has.
NeverPastHead ==
  (running \/ serving) /\ transferList # <<>> =>
    hwCount - descDequeued \in 0 .. xfer[Head(transferList)].num

\* A transfer marked COMPLETED has had every descriptor moved, in spite of
\* stale interrupts of an aborted predecessor, errors and resets.
CompletedIsTransferred ==
  \A c \in Callers : xfer[c].state = "COMPLETED" => moved[c] = xfer[c].num

\* A call whose loop ends without an error has counted the whole request as
\* done, however often it had to be split at the end of the descriptor array.
\* Only after an error is the shorter count of "done ? done : rv" returned.
SuccessIsWhole ==
  \A c \in Callers : pc[c] = "idle" /\ rv[c] = "ok" => done[c] = swDescCnt[c]

\* A caller of xdma_xfer_aperture whose engine was stopped under it: only its
\* timeout or a signal ends the wait.
Stranded(c) ==
  /\ c \in Aperture /\ xfer[c].state = "SUBMITTED" /\ pc[c] = "wait"
  /\ ~running /\ ~serving

\* Every call returns: a waiting caller is woken, desc_lock is released on
\* every path, and the channel interrupt is unmasked after every service.
\* Nothing but a stranded waiter, which keeps desc_lock, can prevent it.
CallReturns ==
  \A c \in Callers :
    pc[c] # "idle" ~> (pc[c] = "idle" \/ \E a \in Callers : Stranded(a))

\* libxdma_api.h calls xdma_xfer_submit "a blocking call": when it gives the
\* buffer and the descriptors back the hardware no longer works on them.
BlockingCall == hwBusy => hwXfer # NoCaller

\* libxdma.h describes desc_used as "total descriptors used": with no call
\* under way none is.
DescUsedExact ==
  (\A c \in Callers : pc[c] \in {"idle", "lock"}) => descUsed = 0

\* "the engine stopped on current transfer?": a transfer is marked FAILED only
\* when the hardware has stopped.
FailedMeansStopped ==
  [][\A c \in Callers :
       xfer[c].state # "FAILED" /\ xfer'[c].state = "FAILED" => ~hwBusy]_vars

\* engine_service's final step "includes checks of number of descriptors to
\* detect faulty completion": an error the hardware reports ends the transfer
\* it hit, so that its caller is woken.
FaultIsDetected ==
  "ERR" \in hwStat ~> \A c \in Callers : xfer[c].state # "SUBMITTED"

\* xdma_device_offline's "wait for all engines to be idle".
OfflineIsIdle == admin = "offline" => ~hwBusy

=============================================================================
