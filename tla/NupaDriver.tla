----------------------------- MODULE NupaDriver -----------------------------
(***************************************************************************)
(* The nupanet driver on its XDMA device: probe_one, remove_one and        *)
(* adapter_free, the PCI error and reset handlers, and those who use the   *)
(* adapter meanwhile: nupanet_xmit_frame, the debug device, and the poll   *)
(* thread with NAPI and nupanet_poll.                                      *)
(*                                                                         *)
(* The life cycle is one thread (`drv'), since the PCI core serialises     *)
(* probe, remove and the handlers; a call into the library runs as the     *)
(* steps of XdmaDevice.  The ring itself is NupaRing's subject: here it is *)
(* the number of frames that wait.  NAPI (external) is modelled as the     *)
(* driver uses it: SCHED admits one napi_schedule, a poll that returns the *)
(* whole budget is put back on the list, one that returns less is not.     *)
(*                                                                         *)
(* A user that finds a NULL device or an unmapped area ends the story      *)
(* (`oops').  The driver is not probed again before what an earlier life   *)
(* has left behind (queued work, listed NAPI) is gone.                     *)
(***************************************************************************)
EXTENDS XdmaDevice

CONSTANTS
  Budget,     \* the weight given to netif_napi_add
  RingSize    \* frames the ring can hold

ASSUME PollAssumption == Budget \in Nat \ {0} /\ RingSize \in Nat \ {0}

VARIABLES
  drv,                    \* where the life cycle is
  adapter,                \* the net_device and its private part exist
  xdev, shm,              \* adapter->xdev set, shm_info.vaddr mapped
  cdev, hold,             \* the debug device, debug.hold_ic_ctl
  netdev,                 \* registered with the network stack
  thread,                 \* nupanet_poll_thread runs
  sched, listed,          \* NAPI_STATE_SCHED, poll lists napi is on
  poll, workDone,         \* nupanet_poll's place and work_done
  frames,                 \* settled descriptors that wait
  oops,                   \* history: who ran into a NULL pointer
  failed,                 \* history: a step of this probe failed
  heldPoll, overran       \* history: polled under hold; over budget
                          \* since napi was last taken from a list

life == <<drv, adapter, xdev, shm, cdev, netdev, thread, failed>>
napi == <<sched, listed, poll, workDone, frames, heldPoll, overran>>
vars == <<devVars, life, hold, napi, oops>>

NapiInit ==
  /\ sched = TRUE /\ listed = 0 /\ poll = "no" /\ workDone = 0 /\ frames = 0
  /\ heldPoll = FALSE /\ overran = FALSE

Init ==
  /\ DevInit /\ NapiInit
  /\ drv = "unbound" /\ adapter = FALSE /\ xdev = FALSE /\ shm = FALSE
  /\ cdev = "none" /\ hold = FALSE /\ netdev = FALSE /\ thread = FALSE
  /\ oops = "none" /\ failed = FALSE

Drv(from, to) == oops = "none" /\ drv = from /\ drv' = to

-----------------------------------------------------------------------------
(* probe_one.                                                              *)

LeftOver == work # {} \/ listed # 0 \/ poll # "no" \/ lines # {}

\* adapter_alloc, then xdma_device_open begins.
ProbeOpen ==
  /\ Drv("unbound", "opening") /\ ~LeftOver /\ cdev = "none"
  /\ adapter' = TRUE /\ failed' = FALSE
  /\ Open
  /\ UNCHANGED <<xdev, shm, cdev, netdev, thread, hold, napi, oops>>

\* xdma_device_open returns NULL: err_out.
ProbeNoDevice ==
  /\ Drv("opening", "free") /\ step = "closed"
  /\ failed' = TRUE
  /\ UNCHANGED <<devVars, adapter, xdev, shm, cdev, netdev, thread, hold, napi,
                 oops>>

ProbeXdevForgotten ==
  /\ Drv("opening", "shm") /\ step = "open"
  /\ UNCHANGED <<devVars, adapter, xdev, shm, cdev, netdev, thread, failed,
                 hold, napi, oops>>

\* xdma_user_isr_enable and the look into the device list cannot fail on a
\* device that was just listed.  Nobody registers a user handler.
ProbeXdev ==
  /\ Drv("opening", "shm") /\ step = "open"
  /\ xdev' = TRUE
  /\ UNCHANGED <<devVars, adapter, shm, cdev, netdev, thread, failed, hold,
                 napi, oops>>

\* A step that may fail leaves the device alone.
DevKept == UNCHANGED <<step, dev, irq, hw, misuse, irqFailed, redone>>

\* The result of pci_ioremap_wc_bar is not looked at.
ProbeShm ==
  /\ Drv("shm", "cdev")
  /\ \/ shm' = TRUE /\ UNCHANGED <<failed, faults>>
     \/ Fails("shm") /\ shm' = FALSE /\ failed' = TRUE
  /\ UNCHANGED <<adapter, xdev, cdev, netdev, thread, hold, napi, oops>>
  /\ DevKept

\* Nor that of create_debug_cdev, which frees what it has made and keeps the
\* pointers.
ProbeCdev ==
  /\ Drv("cdev", "info")
  /\ \/ cdev' = "up" /\ UNCHANGED <<failed, faults>>
     \/ Fails("cdev") /\ cdev' = "failed" /\ failed' = TRUE
  /\ hold' = FALSE
  /\ UNCHANGED <<adapter, xdev, shm, netdev, thread, napi, oops>> /\ DevKept

\* adapter_info_init writes to the area (NupaRestart), netif_napi_add leaves
\* napi scheduled and on no list.
ProbeInfo ==
  /\ drv = "info" /\ oops = "none"
  /\ IF shm THEN drv' = "register" /\ UNCHANGED oops
            ELSE drv' = "dead" /\ oops' = "driver"
  /\ sched' = TRUE /\ frames' = 0 /\ heldPoll' = FALSE /\ overran' = FALSE
  /\ UNCHANGED <<devVars, adapter, xdev, shm, cdev, netdev, thread, failed,
                 hold, listed, poll, workDone>>

ProbeRegister ==
  /\ drv = "register" /\ oops = "none"
  /\ \/ drv' = "start" /\ netdev' = TRUE /\ UNCHANGED <<failed, faults>>
     \/ Fails("register") /\ drv' = "free" /\ failed' = TRUE
        /\ UNCHANGED netdev
  /\ UNCHANGED <<adapter, xdev, shm, cdev, thread, hold, napi, oops>> /\ DevKept

PollStartDisabled == sched' = sched /\ thread' = TRUE

\* nupanet_poll_start: napi_enable clears SCHED, then the thread runs.
PollStart == sched' = FALSE /\ thread' = TRUE

ProbeStart ==
  /\ Drv("start", "bound") /\ PollStart
  /\ UNCHANGED <<devVars, adapter, xdev, shm, cdev, netdev, failed, hold,
                 listed, poll, workDone, frames, heldPoll, overran, oops>>

-----------------------------------------------------------------------------
(* remove_one and adapter_free.                                            *)

\* delete_debug_cdev frees once more what a failed create_debug_cdev freed.
RemoveOne ==
  /\ Drv("bound", "free") /\ step \in {"open", "down"}
  /\ misuse' = IF cdev = "failed" THEN misuse \cup {"cdev"} ELSE misuse
  /\ cdev' = "none"
  /\ UNCHANGED <<step, dev, irq, hw, irqFailed, redone, faults, adapter, xdev, shm,
                 netdev, thread, failed, hold, napi, oops>>

\* adapter->xdev = NULL, then xdma_device_close, which returns at once
\* without a device.
FreeClose ==
  /\ Drv("free", "closing")
  /\ xdev' = FALSE
  /\ IF xdev THEN Close ELSE UNCHANGED devVars
  /\ UNCHANGED <<adapter, shm, cdev, netdev, thread, failed, hold, napi, oops>>

\* netif_napi_del stops napi->thread.  napi was not disabled: a poll that is
\* listed or running goes on.
FreeNapi ==
  /\ Drv("closing", "wipe") /\ step = "closed"
  /\ thread' = FALSE
  /\ UNCHANGED <<devVars, adapter, xdev, shm, cdev, netdev, failed, hold, napi,
                 oops>>

\* The host's own information is cleared and the area unmapped.
FreeShm ==
  /\ drv = "wipe" /\ oops = "none"
  /\ IF shm THEN drv' = "unregister" /\ UNCHANGED oops
            ELSE drv' = "dead" /\ oops' = "driver"
  /\ shm' = FALSE
  /\ UNCHANGED <<devVars, adapter, xdev, cdev, netdev, thread, failed, hold,
                 napi>>

FreeNetdev ==
  /\ Drv("unregister", "unbound")
  /\ netdev' = FALSE /\ adapter' = FALSE
  /\ UNCHANGED <<devVars, xdev, shm, cdev, thread, failed, hold, napi, oops>>

-----------------------------------------------------------------------------
(* The PCI error and reset handlers.                                       *)

HandlerUnchanged ==
  UNCHANGED <<adapter, xdev, shm, cdev, netdev, thread, failed, hold, napi,
              oops>>

\* xdma_error_detected with a frozen channel; the other states change nothing.
ErrorFrozen == Drv("bound", "frozen") /\ Offline /\ HandlerUnchanged

\* Its pci_disable_device.
ErrorDisable ==
  /\ Drv("frozen", "slot") /\ step = "down"
  /\ held' = held \ {"enable"}
  /\ misuse' = IF "enable" \in held THEN misuse ELSE misuse \cup {"disable"}
  /\ UNCHANGED <<step, regionsInUse, offline, mode, h2cMax, c2hMax, engines,
                 irq, hw, irqFailed, redone, faults>>
  /\ HandlerUnchanged

\* xdma_slot_reset after the reset.  If the device cannot be enabled, or the
\* core gives up before, it stays offline.
SlotReset ==
  \/ /\ Drv("slot", "resuming") /\ HwReset
     /\ held' = held \cup {"enable"} /\ HandlerUnchanged
  \/ Drv("slot", "bound") /\ UNCHANGED devVars /\ HandlerUnchanged

\* xdma_reset_prepare and xdma_reset_done around a function reset.
ResetPrepare == Drv("bound", "resetting") /\ Offline /\ HandlerUnchanged

ResetDone ==
  /\ Drv("resetting", "resuming") /\ HwReset
  /\ UNCHANGED held /\ HandlerUnchanged

\* xdma_device_online has run to its end.
Resumed ==
  /\ Drv("resuming", "bound") /\ step = "open"
  /\ UNCHANGED devVars /\ HandlerUnchanged

-----------------------------------------------------------------------------
(* Those who use the adapter.                                              *)

\* The engine of channel 0; xdma_xfer_submit refuses a channel not in use and
\* a device that is offline.
UseEngine(dir) ==
  IF dir # <<>> /\ ~offline /\ dir[1] \in engines
  THEN Submit(dir[1]) /\ UNCHANGED <<step, dev, irq, raised, hist>>
  ELSE UNCHANGED devVars

\* Every user reads adapter->xdev, and all but the debug device the shared
\* area.
UseAdapter(dir, sound) ==
  IF sound THEN UseEngine(dir) /\ UNCHANGED oops
           ELSE oops' = "user" /\ UNCHANGED devVars

\* nupanet_xmit_frame; under hold it returns before it touches anything.
Xmit ==
  /\ netdev /\ ~hold /\ oops = "none"
  /\ UseAdapter(H2C, adapter /\ shm /\ xdev)
  /\ UNCHANGED <<life, hold, napi>>

\* debug_read, debug_write and the raw ioctls: dma_xfer_data.  A file that stays
\* open when delete_debug_cdev has run is left out.
DebugIo ==
  /\ cdev = "up" /\ oops = "none"
  /\ \E dir \in {H2C, C2H} : UseAdapter(dir, adapter /\ xdev)
  /\ UNCHANGED <<life, hold, napi>>

\* IOCTL_HOLD_IC_ON and IOCTL_HOLD_IC_OFF.
HoldIc ==
  /\ cdev = "up" /\ oops = "none"
  /\ hold' = ~hold
  /\ UNCHANGED <<devVars, life, napi, oops>>

\* The peer settles a descriptor.
FrameArrives ==
  /\ drv = "bound" /\ frames < RingSize
  /\ frames' = frames + 1
  /\ UNCHANGED <<devVars, life, hold, sched, listed, poll, workDone, heldPoll,
                 overran, oops>>

-----------------------------------------------------------------------------
(* NAPI and nupanet_poll.  A napi_struct on two lists is beyond NAPI's     *)
(* definition, so nothing more happens to it.                              *)

NapiUnchanged == oops = "none" /\ UNCHANGED <<devVars, life, hold, oops>>

\* nupanet_poll_thread calls napi_schedule all the time; only with SCHED clear
\* does that put napi on a list.
ThreadSchedule ==
  /\ thread /\ ~sched /\ listed < 2
  /\ sched' = TRUE /\ listed' = listed + 1
  /\ UNCHANGED <<poll, workDone, frames, heldPoll, overran>> /\ NapiUnchanged

\* net_rx_action takes napi from the list and polls it if SCHED is set.  Under
\* hold nupanet_poll returns 0 and does not call napi_complete_done.
SoftIrq ==
  /\ listed = 1 /\ poll = "no" /\ adapter
  /\ listed' = 0 /\ overran' = FALSE
  /\ poll' = IF sched /\ ~hold THEN "loop" ELSE "no"
  /\ heldPoll' = (heldPoll \/ (sched /\ hold))
  /\ UNCHANGED <<sched, workDone, frames>> /\ NapiUnchanged

OverBudgetNever(n) == FALSE

\* if (++work_done > budget) break
OverBudget(n) == n > Budget

\* One frame is received and given to the stack.
PollFrame ==
  /\ poll = "loop" /\ frames > 0 /\ oops = "none"
  /\ adapter /\ shm /\ ~OverBudget(workDone)
  /\ frames' = frames - 1 /\ workDone' = workDone + 1
  /\ UseAdapter(C2H, xdev)
  /\ UNCHANGED <<life, hold, sched, listed, poll, heldPoll, overran>>

RelistCompleted == poll' = "no" /\ listed' = 1 /\ sched' = FALSE

\* A poll that used its budget exactly stays scheduled and is put back on the
\* list.
Relist == poll' = "no" /\ listed' = 1 /\ sched' = sched

\* A poll that did more has completed, and is put back as well, unless the
\* thread has scheduled it in between.
RelistOver == poll' = "no" /\ listed' = 1 /\ sched' \in {FALSE, thread}

\* napi_complete_done.
Complete == poll' = "no" /\ sched' = FALSE /\ UNCHANGED listed

\* The loop ends: over budget, without a frame, or with one for which there is
\* no memory and which is lost.
PollEnd ==
  /\ poll = "loop" /\ adapter /\ shm
  /\ \/ (frames = 0 \/ OverBudget(workDone)) /\ UNCHANGED frames
     \/ frames > 0 /\ ~OverBudget(workDone) /\ frames' = frames - 1
  /\ CASE workDone = Budget -> Relist
       [] workDone > Budget -> RelistOver
       [] OTHER -> Complete
  /\ workDone' = 0 /\ overran' = (workDone > Budget)
  /\ UNCHANGED heldPoll /\ NapiUnchanged

\* The poll reads the adapter, and in its loop the shared area, first.
PollFault ==
  /\ oops = "none"
  /\ \/ listed = 1 /\ poll = "no" /\ ~adapter
     \/ poll = "loop" /\ ~(adapter /\ shm)
  /\ oops' = "user"
  /\ UNCHANGED <<devVars, life, hold, napi>>

Poll == ThreadSchedule \/ SoftIrq \/ PollFrame \/ PollEnd \/ PollFault

-----------------------------------------------------------------------------

ProbeStep ==
  \/ ProbeNoDevice \/ ProbeXdev \/ ProbeShm \/ ProbeCdev \/ ProbeInfo
  \/ ProbeRegister \/ ProbeStart

FreeStep == FreeClose \/ FreeNapi \/ FreeShm \/ FreeNetdev

ErrorHandler ==
  \/ ErrorFrozen \/ ErrorDisable \/ SlotReset \/ ResetPrepare \/ ResetDone
  \/ Resumed

Library == oops = "none" /\ UNCHANGED <<life, hold, napi, oops>>

Next ==
  \/ ProbeOpen \/ ProbeStep \/ RemoveOne \/ FreeStep \/ ErrorHandler
  \/ DevStep /\ Library
  \/ Interrupt /\ Library
  \/ \E e \in Channels : (HwDone(e) \/ ServiceWork(e)) /\ Library
  \/ Xmit \/ DebugIo \/ HoldIc \/ FrameArrives
  \/ Poll

Spec == Init /\ [][Next]_vars

-----------------------------------------------------------------------------

\* adapter_free has begun, or a probe has failed or not begun.
Leaving ==
  drv \in {"unbound", "free", "closing", "wipe", "unregister", "dead"}

\* Every variable stays in its range.
TypeOK ==
  /\ held \subseteq Resources /\ engines \subseteq Used
  /\ lines \subseteq Channels \cup {"user", "dev"}
  /\ blockOn \subseteq Channels /\ engOn \subseteq Channels
  /\ busy \subseteq Channels /\ raised \subseteq Channels
  /\ work \subseteq Channels
  /\ h2cMax \in 0 .. Len(H2C) /\ c2hMax \in 0 .. Len(C2H)
  /\ listed \in 0 .. 2 /\ frames \in 0 .. RingSize
  /\ workDone \in 0 .. Budget + 1
  /\ poll \in {"no", "loop"}
  /\ cdev \in {"none", "up", "failed"} /\ oops \in {"none", "user", "driver"}

\* However far xdma_device_open came before it failed, and however a device
\* ended, nothing of it stays with the kernel, but for two things: a device
\* whose regions were taken stays enabled, and the lines of an irq_setup that
\* failed halfway stay requested.
ClosedHoldsNothing ==
  step = "closed" =>
    /\ held \subseteq (IF regionsInUse THEN {"enable"} ELSE {})
    /\ engines = {}
    /\ lines = {} \/ irqFailed

\* A handler that may run finds what it works on: the engine whose address it
\* was given, the mapped registers, the vectors.  The lines are gone before
\* close or an error label takes any of it away; again only a failed
\* irq_setup breaks this.
HandlerFindsItsEngine ==
  lines # {} /\ ~irqFailed =>
    /\ "bars" \in held /\ lines \cap Channels \subseteq engines
    /\ mode # "legacy" => "vectors" \in held

\* free_irq, pci_disable_device and the removal of the debug device each undo
\* something that was done, unless a device that is offline is closed or taken
\* offline once more, or a failure went unnoticed before.
UndoneOnce == misuse # {} => redone \/ irqFailed \/ failed

\* No engine of this device failed in engine_init.
Whole == h2cMax = Len(H2C) /\ c2hMax = Len(C2H)

\* The handler that the interrupt of e calls queues the work of e.
LeadsHome(e) ==
  IF mode = "msix" THEN UsedSeq[ChannelVector(e) + 1] = e /\ e \in lines
                   ELSE IrqBit(e) = HwBit(e) /\ "dev" \in lines

\* While a device is up no interrupt is lost: the work of an engine that has
\* raised one is queued, or neither mask keeps it back and its handler leads
\* to this engine.  So it is after a reset, and after a close and an open with
\* a status left latched.  It takes all engines and an irq_setup that
\* succeeded.
NoInterruptLost ==
  step = "open" /\ ~offline /\ Whole /\ ~irqFailed =>
    \A e \in raised :
      e \in work \/ (e \in engOn \cap blockOn /\ LeadsHome(e))

\* From register_netdev to the removal of the driver no user of the adapter
\* meets a NULL device or an unmapped area, through resets and errors; and
\* the driver itself meets one only after a step of its probe has failed.
UsersFindTheirDevice ==
  /\ oops = "user" => Leaving
  /\ oops = "driver" => failed

\* NAPI_STATE_SCHED is set only while napi is on a list or polled, so that the
\* thread's next napi_schedule counts.  A poll under hold breaks this for good.
ScheduledIsListed ==
  thread /\ sched => listed > 0 \/ poll # "no" \/ heldPoll

\* napi is never on two lists, unless a poll did more than its budget and was
\* both completed and put back.
ListedOnce == listed = 2 => overran

=============================================================================
