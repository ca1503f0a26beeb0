------------------------- MODULE NupaDriver_proofs -------------------------
(***************************************************************************)
(* Proofs about the driver's life cycle, for every set of engines, every   *)
(* set of steps that may fail and every number of them that do in the life *)
(* of a device, every NAPI budget and ring size.                           *)
(*                                                                         *)
(* The invariant has five parts: NapiInv for NAPI's own state, AdapterInv  *)
(* for what the users of the adapter rely on, HeldInv for what is held at  *)
(* each step of open and close, LineInv for engines and interrupt lines,   *)
(* UndoInv for what is undone.  Each is kept by every action; AdapterInv   *)
(* leans on NapiInv, and UndoInv on AdapterInv and LineInv.                *)
(*                                                                         *)
(* No interrupt is lost while a device is up: an engine is unmasked in     *)
(* both masks, or the handler that has masked it has queued its work,      *)
(* which will unmask it again (MaskInv).  That the handler of an interrupt *)
(* queues the work of the engine that raised it is a matter of counting:   *)
(* with all engines in use the position of an engine in UsedSeq, which     *)
(* numbers vectors and lines, is its position among the hardware's         *)
(* channels.                                                               *)
(*                                                                         *)
(* With the ranges of the remaining variables this also gives the driver's *)
(* type correctness.                                                       *)
(***************************************************************************)
EXTENDS NupaDriver, TLAPS

-----------------------------------------------------------------------------
(* NAPI.                                                                   *)

\* The places of drv within probe_one, and those of a driver in service.
Probing == {"opening", "shm", "cdev", "info", "register", "start"}
Serving == {"bound", "frozen", "slot", "resetting", "resuming"}

\* The poll thread exists only between nupanet_poll_start and netif_napi_del;
\* a poll in its loop holds SCHED and is on no list; a completed poll is on a
\* list only after it went over its budget.
NapiInv ==
  /\ listed \in 0 .. 2 /\ poll \in {"no", "loop"}
  /\ sched \in BOOLEAN /\ thread \in BOOLEAN
  /\ overran \in BOOLEAN /\ heldPoll \in BOOLEAN
  /\ workDone \in Nat /\ frames \in Nat
  /\ thread => drv \in Serving \cup {"free", "closing"}
  /\ drv \in Probing => listed = 0 /\ poll = "no"
  /\ poll = "loop" => sched /\ listed = 0
  /\ listed > 0 /\ ~sched => overran
  /\ ScheduledIsListed /\ ListedOnce

\* NAPI as netif_napi_add will leave it.
LEMMA NapiInitially == Init => NapiInv
<1> SUFFICES ASSUME Init PROVE NapiInv
  OBVIOUS
<1>1. /\ sched /\ ~thread /\ ~overran /\ ~heldPoll
      /\ sched \in BOOLEAN /\ thread \in BOOLEAN
      /\ overran \in BOOLEAN /\ heldPoll \in BOOLEAN
      /\ listed = 0 /\ poll = "no" /\ workDone = 0 /\ frames = 0
  BY Zenon DEF Init, NapiInit
<1> QED
  BY <1>1 DEF NapiInv, ScheduledIsListed, ListedOnce

\* What the comparison of work_done with the budget leaves in overran.
LEMMA OverranFacts ==
  ASSUME workDone \in Nat, overran' = (workDone > Budget)
  PROVE  /\ overran' \in BOOLEAN
         /\ workDone > Budget => overran'
         /\ ~(workDone > Budget) => ~overran'
<1>1. Budget \in Nat
  BY PollAssumption
<1>2. overran' \in BOOLEAN
  BY <1>1
<1>3. ASSUME workDone > Budget PROVE overran'
  BY <1>1, <1>3
<1>4. ASSUME ~(workDone > Budget) PROVE ~overran'
  BY <1>1, <1>4
<1> QED
  BY <1>2, <1>3, <1>4

\* Every step keeps NapiInv; nupanet_poll's end is split by work_done.
LEMMA NapiKept == NapiInv /\ [Next]_vars => NapiInv'
<1> SUFFICES ASSUME NapiInv, [Next]_vars PROVE NapiInv'
  OBVIOUS
<1> USE DEF NapiInv, Probing, Serving, ScheduledIsListed, ListedOnce
<1>1. ASSUME drv' = drv \/ drv' \notin Probing,
             thread' \in BOOLEAN, thread' => thread,
             thread' => drv' \in Serving \cup {"free", "closing"},
             UNCHANGED napi
      PROVE  NapiInv'
  BY <1>1 DEF napi
<1>2. CASE ProbeOpen
  BY <1>2 DEF ProbeOpen, LeftOver, Drv, napi
<1>3. CASE ProbeStep
  <2>1. CASE ProbeNoDevice
    BY <2>1 DEF ProbeNoDevice, Drv, napi
  <2>2. CASE ProbeXdev
    BY <2>2 DEF ProbeXdev, Drv, napi
  <2>3. CASE ProbeShm
    BY <2>3 DEF ProbeShm, Drv, napi
  <2>4. CASE ProbeCdev
    BY <2>4 DEF ProbeCdev, Drv, napi
  <2>5. CASE ProbeInfo
    <3>1. /\ sched' /\ ~overran' /\ ~heldPoll'
          /\ sched' \in BOOLEAN /\ overran' \in BOOLEAN
          /\ heldPoll' \in BOOLEAN
      BY <2>5, Zenon DEF ProbeInfo
    <3>2. /\ drv' \in {"register", "dead"} /\ drv = "info"
          /\ UNCHANGED <<listed, poll, workDone, thread>> /\ frames' = 0
      BY <2>5 DEF ProbeInfo
    <3> QED
      BY <3>1, <3>2
  <2>6. CASE ProbeRegister
    BY <2>6 DEF ProbeRegister, napi
  <2>7. CASE ProbeStart
    <3>1. /\ ~sched' /\ sched' \in BOOLEAN
          /\ thread' /\ thread' \in BOOLEAN
      BY <2>7, Zenon DEF ProbeStart, PollStart
    <3>2. /\ drv = "start" /\ drv' = "bound"
          /\ UNCHANGED <<listed, poll, workDone, frames, heldPoll, overran>>
      BY <2>7 DEF ProbeStart, Drv
    <3> QED
      BY <3>1, <3>2
  <2> QED
    BY <1>3, <2>1, <2>2, <2>3, <2>4, <2>5, <2>6, <2>7 DEF ProbeStep
<1>4. CASE RemoveOne
  BY <1>4 DEF RemoveOne, Drv, napi
<1>5. CASE FreeStep
  BY <1>1, <1>5 DEF FreeStep, FreeClose, FreeNapi, FreeShm, FreeNetdev, Drv, napi
<1>6. CASE ErrorHandler
  <2>1. drv \in Serving /\ drv' \in Serving /\ HandlerUnchanged
    BY <1>6 DEF ErrorHandler, ErrorFrozen, ErrorDisable, SlotReset,
                ResetPrepare, ResetDone, Resumed, Drv
  <2> QED
    BY <2>1 DEF HandlerUnchanged, napi
<1>7. CASE Library
  BY <1>7, <1>1 DEF Library, life
<1>8. CASE Xmit \/ DebugIo \/ HoldIc
  BY <1>8, <1>1 DEF Xmit, DebugIo, HoldIc, life
<1>9. CASE FrameArrives
  BY <1>9 DEF FrameArrives, life
<1>10. CASE Poll
  <2>1. CASE ThreadSchedule
    BY <2>1 DEF ThreadSchedule, NapiUnchanged, life
  <2>2. CASE SoftIrq
    <3>1. /\ ~overran' /\ overran' \in BOOLEAN /\ heldPoll' \in BOOLEAN
          /\ heldPoll => heldPoll'
          /\ sched /\ hold => heldPoll'
      BY <2>2, Zenon DEF SoftIrq
    <3>2. /\ listed = 1 /\ listed' = 0 /\ UNCHANGED <<sched, workDone, frames>>
          /\ UNCHANGED life /\ poll' \in {"no", "loop"}
      BY <2>2 DEF SoftIrq, NapiUnchanged
    <3>3. /\ sched /\ ~hold => poll' = "loop"
          /\ poll' = "loop" => sched
      BY <2>2, Zenon DEF SoftIrq
    <3> QED
      BY <3>1, <3>2, <3>3 DEF life
  <2>3. CASE PollFrame
    BY <2>3 DEF PollFrame, life
  <2>4. CASE PollEnd
    <3>1. Budget \in Nat
      BY PollAssumption
    <3>2. UNCHANGED life /\ frames' \in Nat /\ workDone' = 0
          /\ heldPoll' = heldPoll
          /\ poll = "loop"
      BY <2>4 DEF PollEnd, NapiUnchanged
    <3>6. /\ overran' \in BOOLEAN
          /\ workDone > Budget => overran'
          /\ ~(workDone > Budget) => ~overran'
      BY <2>4, OverranFacts DEF PollEnd
    <3>3. CASE workDone = Budget
      <4>1. Relist
        BY <2>4, <3>1, <3>3 DEF PollEnd
      <4> QED
        <5>1. ~overran' /\ overran' \in BOOLEAN
          BY <3>1, <3>3, <3>6
        <5> QED
          BY <4>1, <5>1, <3>2 DEF Relist, life
    <3>4. CASE workDone > Budget
      <4>1. RelistOver
        BY <2>4, <3>1, <3>4 DEF PollEnd
      <4> QED
        <5>1. overran' /\ overran' \in BOOLEAN
          BY <3>6, <3>4
        <5>2. sched' \in BOOLEAN /\ (sched' => thread)
          <6>1. sched' = FALSE \/ sched' = thread
            BY <4>1 DEF RelistOver
          <6>2. CASE sched' = FALSE
            BY <6>2, Zenon
          <6>3. CASE sched' = thread
            BY <6>3, Zenon
          <6> QED
            BY <6>1, <6>2, <6>3
        <5> QED
          BY <4>1, <5>1, <5>2, <3>2 DEF RelistOver, life
    <3>5. CASE workDone # Budget /\ ~(workDone > Budget)
      <4>1. Complete
        BY <2>4, <3>1, <3>5 DEF PollEnd
      <4> QED
        <5>1. ~overran' /\ overran' \in BOOLEAN
          BY <3>6, <3>5
        <5>2. ~sched' /\ sched' \in BOOLEAN
          BY <4>1, Zenon DEF Complete
        <5> QED
          BY <4>1, <5>1, <5>2, <3>2 DEF Complete, life
    <3> QED
      BY <3>3, <3>4, <3>5
  <2>5. CASE PollFault
    BY <2>5, <1>1 DEF PollFault, life
  <2> QED
    BY <1>10, <2>1, <2>2, <2>3, <2>4, <2>5 DEF Poll
<1>11. CASE UNCHANGED vars
  BY <1>11, <1>1 DEF vars, life
<1> QED
  BY <1>2, <1>3, <1>4, <1>5, <1>6, <1>7, <1>8, <1>9, <1>10, <1>11 DEF Next

-----------------------------------------------------------------------------
(* The adapter and its users.                                              *)

\* What probe_one has set up by each of its places, and what adapter_free has
\* not yet taken away.
AdapterInv ==
  /\ oops \in {"none", "user", "driver"} /\ cdev \in {"none", "up", "failed"}
  /\ drv \in Probing \cup Serving
            \cup {"unbound", "free", "closing", "wipe", "unregister", "dead"}
  /\ netdev => drv \notin {"unbound", "opening", "shm", "cdev", "info", "register"}
  /\ drv \in {"opening", "shm", "cdev"} => cdev = "none"
  /\ drv \in Probing \cup Serving => adapter
  /\ drv \in (Probing \ {"opening"}) \cup Serving => xdev
  /\ drv \in {"register", "start"} \cup Serving => shm
  /\ drv \in {"cdev", "info", "free", "closing", "wipe"} /\ ~shm => failed
  /\ cdev = "failed" /\ drv # "unbound" => failed
  /\ UsersFindTheirDevice

\* Before the first probe nobody uses an adapter.
LEMMA AdapterInitially == Init => AdapterInv
<1> SUFFICES ASSUME Init PROVE AdapterInv
  OBVIOUS
<1>1. ~netdev /\ oops = "none" /\ cdev = "none" /\ drv = "unbound"
  BY Zenon DEF Init
<1> QED
  BY <1>1 DEF AdapterInv, UsersFindTheirDevice, Probing, Serving

\* A user that meets a NULL pointer does so outside probe_one and service.
LEMMA AdapterKept == NapiInv /\ AdapterInv /\ [Next]_vars => AdapterInv'
<1> SUFFICES ASSUME NapiInv, AdapterInv, [Next]_vars PROVE AdapterInv'
  OBVIOUS
<1> USE DEF AdapterInv, Probing, Serving, UsersFindTheirDevice, Leaving
<1>1. ASSUME UNCHANGED life, UNCHANGED oops PROVE AdapterInv'
  BY <1>1 DEF life
<1>2. ASSUME UNCHANGED life, oops' = "user", Leaving PROVE AdapterInv'
  BY <1>2 DEF life
<1>3. CASE ProbeOpen
  <2>1. adapter' /\ ~failed'
    BY <1>3, Zenon DEF ProbeOpen
  <2> QED
    BY <1>3, <2>1 DEF ProbeOpen, Drv
<1>4. CASE ProbeStep
  <2>1. CASE ProbeNoDevice
    <3>1. failed'
      BY <2>1, Zenon DEF ProbeNoDevice
    <3> QED
      BY <2>1, <3>1 DEF ProbeNoDevice, Drv
  <2>2. CASE ProbeXdev
    <3>1. xdev'
      BY <2>2, Zenon DEF ProbeXdev
    <3> QED
      BY <2>2, <3>1 DEF ProbeXdev, Drv
  <2>3. CASE ProbeShm
    <3>1. shm' \/ failed'
      BY <2>3, Zenon DEF ProbeShm
    <3>2. failed => failed'
      BY <2>3, Zenon DEF ProbeShm
    <3> QED
      BY <2>3, <3>1, <3>2 DEF ProbeShm, Drv
  <2>4. CASE ProbeCdev
    <3>1. (cdev' = "failed" => failed') /\ (failed => failed')
      BY <2>4 DEF ProbeCdev
    <3> QED
      BY <2>4, <3>1 DEF ProbeCdev, Drv
  <2>5. CASE ProbeInfo
    BY <2>5 DEF ProbeInfo
  <2>6. CASE ProbeRegister
    <3>1. (drv' = "free" => failed' /\ ~netdev') /\ (failed => failed')
      BY <2>6 DEF ProbeRegister
    <3> QED
      BY <2>6, <3>1 DEF ProbeRegister
  <2>7. CASE ProbeStart
    BY <2>7 DEF ProbeStart, Drv
  <2> QED
    BY <1>4, <2>1, <2>2, <2>3, <2>4, <2>5, <2>6, <2>7 DEF ProbeStep
<1>5. CASE RemoveOne
  BY <1>5 DEF RemoveOne, Drv
<1>6. CASE FreeStep
  <2>1. CASE FreeClose
    BY <2>1 DEF FreeClose, Drv
  <2>2. CASE FreeNapi
    BY <2>2 DEF FreeNapi, Drv
  <2>3. CASE FreeShm
    BY <2>3 DEF FreeShm
  <2>4. CASE FreeNetdev
    <3>1. ~netdev'
      BY <2>4, Zenon DEF FreeNetdev
    <3> QED
      BY <2>4, <3>1 DEF FreeNetdev, Drv
  <2> QED
    BY <1>6, <2>1, <2>2, <2>3, <2>4 DEF FreeStep
<1>7. CASE ErrorHandler
  <2>1. drv \in Serving /\ drv' \in Serving /\ HandlerUnchanged /\ oops = "none"
    BY <1>7 DEF ErrorHandler, ErrorFrozen, ErrorDisable, SlotReset,
                ResetPrepare, ResetDone, Resumed, Drv
  <2> QED
    BY <2>1 DEF HandlerUnchanged
<1>8. CASE Library
  BY <1>8, <1>1 DEF Library
<1>9. CASE Xmit
  BY <1>9, <1>1, <1>2 DEF Xmit, UseAdapter
<1>10. CASE DebugIo
  BY <1>10, <1>1, <1>2 DEF DebugIo, UseAdapter
<1>11. CASE HoldIc \/ FrameArrives
  BY <1>11, <1>1 DEF HoldIc, FrameArrives
<1>12. CASE Poll
  <2>1. CASE ThreadSchedule \/ SoftIrq \/ PollEnd
    BY <2>1, <1>1 DEF ThreadSchedule, SoftIrq, PollEnd, NapiUnchanged
  <2>2. CASE PollFrame \/ PollFault
    <3>1. poll = "loop" \/ listed = 1
      BY <2>2 DEF PollFrame, PollFault
    <3>2. drv \notin Probing
      BY <3>1 DEF NapiInv
    <3>3. UNCHANGED life /\ (oops' = oops \/ oops' = "user")
      BY <2>2 DEF PollFrame, PollFault, UseAdapter
    <3>4. oops' = oops \/ ~(adapter /\ shm /\ xdev)
      BY <2>2 DEF PollFrame, PollFault, UseAdapter
    <3> QED
      BY <3>2, <3>3, <3>4, <1>1, <1>2
  <2> QED
    BY <1>12, <2>1, <2>2 DEF Poll
<1>13. CASE UNCHANGED vars
  BY <1>13, <1>1 DEF vars
<1> QED
  BY <1>3, <1>4, <1>5, <1>6, <1>7, <1>8, <1>9, <1>10, <1>11, <1>12, <1>13 DEF Next

-----------------------------------------------------------------------------
(* The device.                                                             *)

\* At which steps of open and close each resource is not held.  A device whose
\* regions are in use never gets as far as a second probe: its area was not
\* mapped, and adapter_free stumbles over that.
HeldInv ==
  /\ held \subseteq Resources
  /\ "list" \in held => step \notin {"closed", "list"}
  /\ "enable" \in held =>
       step \notin {"closed", "list", "enable", "unlist"} \/ regionsInUse
  /\ "regions" \in held =>
       step \notin {"closed", "list", "enable", "regions", "disable", "unlist"}
  /\ "bars" \in held =>
       step \notin {"closed", "list", "enable", "regions", "bars", "release",
                    "disable", "unlist"}
  /\ "vectors" \in held =>
       step \notin {"closed", "list", "enable", "regions", "bars", "mask",
                    "probe", "vectors", "remove", "unmap", "release",
                    "disable", "unlist"}
  /\ regionsInUse => /\ step \in {"disable", "unlist", "closed"}
                     /\ drv \in {"opening", "free", "closing", "wipe", "dead"}
                     /\ ~shm
  /\ step \in {"list", "enable", "regions"} => drv = "opening"
  /\ drv \in {"unbound", "opening", "unregister"} => ~shm

\* The steps at which interrupt lines may be requested.
Wired == {"up", "open", "stop", "quiet"}

\* Engines, registers and vectors are there as long as a line may be; the lines
\* are the wanted ones, or gone because the device is torn down once more.
LineInv ==
  /\ h2cMax \in 0 .. Len(H2C) /\ c2hMax \in 0 .. Len(C2H)
  /\ step \in Wired \cup {"vectors", "irqs", "down", "reset", "online"} =>
       engines = Used
  /\ step \in {"closed", "list", "enable", "regions", "bars", "mask", "probe",
               "unmap", "release", "disable", "unlist"} => engines = {}
  /\ step \in Wired \cup {"mask", "probe", "vectors", "irqs", "down", "reset",
                         "online"} => "bars" \in held
  /\ step \in Wired \cup {"irqs", "down", "reset", "online"} =>
       (mode # "legacy" => "vectors" \in held)
  /\ step \in {"list", "enable", "regions", "bars", "mask", "probe", "vectors",
               "irqs"} => lines = {}
  /\ step \notin Wired => lines = {} \/ irqFailed
  /\ step \in Wired =>
       lines = Range(Wanted) \/ (lines = {} /\ redone) \/ irqFailed
  /\ step \in {"stop", "down", "reset", "online"} => offline

\* The device is enabled wherever pci_disable_device may follow, but for one
\* that a slot reset has left disabled.
UndoInv ==
  /\ step \notin {"closed", "list", "enable", "unlist"} =>
       \/ "enable" \in held \/ redone
       \/ step = "down" /\ drv \notin {"frozen", "resetting", "resuming"}
  /\ UndoneOnce

\* What HeldInv, LineInv and UndoInv speak of; most actions leave it alone.
kernel == <<step, dev, lines, misuse, irqFailed, redone>>

\* The steps of probe_one after xdma_device_open.
Probes ==
  \/ ProbeNoDevice \/ ProbeXdev \/ ProbeShm \/ ProbeCdev \/ ProbeInfo
  \/ ProbeRegister \/ ProbeStart

\* The steps of adapter_free outside xdma_device_close.
Frees == FreeNapi \/ FreeShm \/ FreeNetdev \/ (FreeClose /\ UNCHANGED devVars)

\* Frames, polls, interrupts and their service.
Traffic ==
  \/ Xmit \/ DebugIo \/ HoldIc \/ FrameArrives \/ Poll
  \/ Interrupt /\ Library
  \/ \E e \in Channels : (HwDone(e) \/ ServiceWork(e)) /\ Library

\* The steps that leave the kernel's view of the device alone.
Bystander == Probes \/ Frees \/ Resumed \/ Traffic

\* The PCI error handlers that do not.
Handlers ==
  ErrorFrozen \/ ErrorDisable \/ SlotReset \/ ResetPrepare \/ ResetDone

\* probe_one takes nothing from the kernel once the device is open.
LEMMA ProbesKeep == Probes => UNCHANGED kernel
BY DEF Probes, ProbeNoDevice, ProbeXdev, ProbeShm, ProbeCdev, ProbeInfo,
       ProbeRegister, ProbeStart, DevKept, kernel, devVars, irq, hist

\* adapter_free gives device resources back only in xdma_device_close.
LEMMA FreesKeep == Frees => UNCHANGED kernel
BY DEF Frees, FreeNapi, FreeShm, FreeNetdev, kernel, devVars, irq, hist

\* Transfers and interrupts leave resources and life cycle alone.
LEMMA TrafficKeeps == Traffic => UNCHANGED <<kernel, life>>
<1> SUFFICES ASSUME Traffic PROVE UNCHANGED <<kernel, life>>
  OBVIOUS
<1> USE DEF kernel, irq, hist
<1>1. ASSUME NEW dir, NEW P, UseAdapter(dir, P) PROVE UNCHANGED kernel
  BY <1>1 DEF UseAdapter, UseEngine, devVars
<1>2. CASE Xmit \/ DebugIo
  BY <1>1, <1>2 DEF Xmit, DebugIo
<1>3. CASE HoldIc \/ FrameArrives
  BY <1>3 DEF HoldIc, FrameArrives, devVars
<1>4. CASE Poll
  BY <1>1, <1>4 DEF Poll, ThreadSchedule, SoftIrq, PollFrame, PollEnd,
     PollFault, NapiUnchanged, devVars
<1>5. CASE Interrupt /\ Library
  BY <1>5 DEF Interrupt, ChannelIrq, Isr, Library
<1>6. CASE \E e \in Channels : (HwDone(e) \/ ServiceWork(e)) /\ Library
  BY <1>6 DEF HwDone, ServiceWork, Library
<1> QED
  BY <1>2, <1>3, <1>4, <1>5, <1>6 DEF Traffic

\* Every step is a bystander's or one of those treated one by one below.
LEMMA StepsSplit ==
  Next => \/ Bystander \/ Handlers \/ ProbeOpen \/ RemoveOne
          \/ FreeClose /\ xdev /\ Close
          \/ DevStep /\ Library
BY DEF Next, Bystander, Probes, Frees, Traffic, Handlers, ProbeStep, FreeStep,
       FreeClose, ErrorHandler

\* A driver not yet bound holds nothing.
LEMMA HeldInitially == Init => HeldInv
<1> SUFFICES ASSUME Init PROVE HeldInv
  OBVIOUS
<1>1. ~regionsInUse /\ ~shm /\ held = {} /\ step = "closed"
  BY Zenon DEF Init, DevInit
<1> QED
  BY <1>1 DEF HeldInv

\* Each step of open takes one resource, each label gives one back.
LEMMA HeldKept == HeldInv /\ [Next]_vars => HeldInv'
<1> SUFFICES ASSUME HeldInv, [Next]_vars PROVE HeldInv'
  OBVIOUS
<1> USE DEF HeldInv, Resources
<1>1. CASE Probes
  <2>1. UNCHANGED <<step, held, regionsInUse>>
    BY <1>1, ProbesKeep DEF kernel, dev
  <2>2. CASE ProbeNoDevice \/ ProbeXdev
    BY <2>1, <2>2 DEF ProbeNoDevice, ProbeXdev, Drv
  <2>3. CASE ~(ProbeNoDevice \/ ProbeXdev)
    <3>1. /\ drv \in {"shm", "cdev", "info", "register", "start"}
          /\ drv' \notin {"unbound", "opening", "unregister"}
      BY <1>1, <2>3 DEF Probes, ProbeShm, ProbeCdev, ProbeInfo, ProbeRegister,
                        ProbeStart, Drv
    <3> QED
      BY <2>1, <3>1
  <2> QED
    BY <2>2, <2>3
<1>2. CASE Frees
  <2>1. UNCHANGED <<step, held, regionsInUse>>
    BY <1>2, FreesKeep DEF kernel, dev
  <2>2. CASE FreeShm
    <3>1. ~shm'
      BY <2>2, Zenon DEF FreeShm
    <3> QED
      BY <2>1, <2>2, <3>1 DEF FreeShm
  <2>3. CASE FreeNapi \/ FreeNetdev \/ FreeClose
    BY <2>1, <2>3 DEF FreeNapi, FreeNetdev, FreeClose, Drv
  <2> QED
    BY <1>2, <2>2, <2>3 DEF Frees
<1>3. CASE Traffic
  <2>1. UNCHANGED <<step, held, regionsInUse, drv, shm>>
    BY <1>3, TrafficKeeps DEF kernel, dev, life
  <2> QED
    BY <2>1
<1>4. CASE Resumed
  BY <1>4 DEF Resumed, Drv, HandlerUnchanged, devVars, dev
<1>5. CASE Handlers
  <2>1. /\ drv \in {"bound", "frozen", "slot", "resetting"}
        /\ drv' \in {"bound", "frozen", "slot", "resetting", "resuming"}
        /\ UNCHANGED <<regionsInUse, shm>>
        /\ held' \subseteq held \cup {"enable"}
        /\ step' = step \/ step' \in {"stop", "reset"}
        /\ "enable" \in held' => "enable" \in held \/ step' = "reset"
    BY <1>5 DEF Handlers, ErrorFrozen, ErrorDisable, SlotReset, ResetPrepare,
                ResetDone, Offline, HwReset, HandlerUnchanged, Drv, Goto,
                devVars, dev
  <2> QED
    BY <2>1
<1>6. CASE ProbeOpen
  <2>1. ~regionsInUse'
    BY <1>6, Zenon DEF ProbeOpen, Open
  <2> QED
    BY <1>6, <2>1 DEF ProbeOpen, Open, Drv, Goto
<1>7. CASE RemoveOne
  BY <1>7 DEF RemoveOne, Drv, dev
<1>8. CASE FreeClose /\ xdev /\ Close
  BY <1>8 DEF FreeClose, Drv, Close, dev
<1>9. CASE DevStep /\ Library
  <2>1. UNCHANGED <<drv, shm>>
    BY <1>9 DEF Library, life
  <2>2. CASE \E s \in {"list", "enable", "regions", "bars", "mask"} : OpenTake(s)
    <3>1. PICK s \in {"list", "enable", "regions", "bars", "mask"} : OpenTake(s)
      BY <2>2
    <3>2. CASE step' = Following(s) /\ held' = held \cup ({s} \cap Resources)
               /\ UNCHANGED regionsInUse
      BY <2>1, <3>1, <3>2 DEF OpenTake, Following
    <3>3. CASE s # "list" /\ step' = ErrLabel(s) /\ UNCHANGED held
               /\ regionsInUse' = (s = "regions")
      <4>1. regionsInUse' => s = "regions"
        BY <3>3
      <4>2. s = "regions" => regionsInUse'
        BY <3>3
      <4> QED
        BY <2>1, <3>1, <3>3, <4>1, <4>2 DEF OpenTake, ErrLabel
    <3> QED
      BY <3>1, <3>2, <3>3 DEF OpenTake
  <2>3. CASE ProbeEngines \/ EnableVectors \/ OpenIrqs \/ OpenDone
    <3>1. /\ step \in {"probe", "vectors", "irqs", "up"}
          /\ step' \in {"vectors", "irqs", "remove", "novectors", "up", "open"}
          /\ step' = "vectors" => step = "probe"
          /\ UNCHANGED regionsInUse
      BY <2>3 DEF ProbeEngines, EnableVectors, OpenIrqs, OpenDone, Goto, dev
    <3>2. UNCHANGED held \/ (held' = held \cup {"vectors"} /\ step' = "irqs")
      BY <2>3 DEF ProbeEngines, EnableVectors, OpenIrqs, OpenDone, Goto, dev
    <3>3. step' = "remove" => step = "vectors" /\ UNCHANGED held
      BY <2>3 DEF ProbeEngines, EnableVectors, OpenIrqs, OpenDone, Goto, dev
    <3> QED
      BY <2>1, <3>1, <3>2, <3>3
  <2>4. CASE CloseQuiet \/ DisableVectors \/ RemoveEngines
    <3>1. /\ \/ step = "quiet" /\ step' = "novectors" /\ UNCHANGED held
             \/ step = "novectors" /\ step' = "remove"
                /\ held' = held \ {"vectors"}
             \/ step = "remove" /\ step' = "unmap" /\ UNCHANGED held
          /\ UNCHANGED regionsInUse
      BY <2>4 DEF CloseQuiet, DisableVectors, RemoveEngines, Goto, dev
    <3> QED
      BY <2>1, <3>1
  <2>5. CASE \E s \in {"unmap", "release", "unlist"} : Unwind(s)
    BY <2>1, <2>5 DEF Unwind, Unwinding, Goto
  <2>6. CASE Disable
    BY <2>1, <2>6 DEF Disable, Goto
  <2>7. CASE OfflineQuiet \/ OnlineEngines \/ OnlineIrqs
    <3>1. /\ step \in {"stop", "reset", "online"}
          /\ step' \in {"down", "online", "up"}
          /\ UNCHANGED <<held, regionsInUse>>
      BY <2>7 DEF OfflineQuiet, OnlineEngines, OnlineIrqs, Goto, dev
    <3> QED
      BY <2>1, <3>1
  <2> QED
    BY <1>9, <2>2, <2>3, <2>4, <2>5, <2>6, <2>7 DEF DevStep, OpenStep, CloseStep
<1>10. CASE UNCHANGED vars
  BY <1>10 DEF vars, devVars, dev, life
<1> QED
  BY <1>1, <1>2, <1>3, <1>4, <1>5, <1>6, <1>7, <1>8, <1>9, <1>10, StepsSplit
     DEF Bystander

\* The lines irq_setup wants depend on the mode and the channels in use.
LEMMA WantedKept ==
  UNCHANGED <<mode, h2cMax, c2hMax>> => UNCHANGED <<Used, Wanted>>
BY DEF Used, Wanted, UsedSeq

\* No engine and no line before the first open.
LEMMA LinesInitially == Init => LineInv
BY DEF Init, DevInit, LineInv, Wired

\* irq_setup comes after the engines, irq_teardown before they go.
LEMMA LinesKept == LineInv /\ [Next]_vars => LineInv'
<1> SUFFICES ASSUME LineInv, [Next]_vars PROVE LineInv'
  OBVIOUS
<1> USE DEF LineInv, Wired
<1>1. ASSUME UNCHANGED <<step, dev, lines, irqFailed, redone>> PROVE LineInv'
  <2>1. UNCHANGED <<Used, Wanted>>
    BY <1>1, WantedKept DEF dev
  <2> QED
    BY <1>1, <2>1 DEF dev
<1>2. CASE Bystander
  <2>1. UNCHANGED kernel
    BY <1>2, ProbesKeep, FreesKeep, TrafficKeeps
       DEF Bystander, Resumed, kernel, devVars, irq, hist
  <2> QED
    BY <1>1, <2>1 DEF kernel
<1>3. CASE ProbeOpen
  <2>1. ~irqFailed' /\ ~redone' /\ offline'
    BY <1>3, Zenon DEF ProbeOpen, Open
  <2>2. /\ step = "closed" /\ step' = "list" /\ lines = {}
        /\ UNCHANGED <<engines, lines, held>>
    BY <1>3 DEF ProbeOpen, LeftOver, Open, Goto, irq
  <2>3. h2cMax' \in 0 .. Len(H2C) /\ c2hMax' \in 0 .. Len(C2H)
    BY <1>3, DeviceAssumption DEF ProbeOpen, Open
  <2> QED
    BY <2>1, <2>2, <2>3
<1>4. CASE RemoveOne
  BY <1>1, <1>4 DEF RemoveOne, irq
<1>5. CASE FreeClose /\ xdev /\ Close
  <2>1. /\ step \in {"open", "down"} /\ step' = "quiet"
        /\ UNCHANGED <<dev, lines, irqFailed>>
    BY <1>5 DEF Close, irq
  <2>2. (redone => redone') /\ (offline => redone')
    BY <1>5, Zenon DEF Close
  <2>3. UNCHANGED <<Used, Wanted>>
    BY <2>1, WantedKept DEF dev
  <2> QED
    BY <2>1, <2>2, <2>3 DEF dev
<1>6. CASE Handlers
  <2>1. CASE ErrorFrozen \/ ResetPrepare
    <3>1. /\ step \in {"open", "down"} /\ step' = "stop"
          /\ UNCHANGED <<held, mode, h2cMax, c2hMax, engines, lines, irqFailed>>
      BY <2>1 DEF ErrorFrozen, ResetPrepare, Offline, irq
    <3>2. (redone => redone') /\ (offline => redone') /\ offline'
      BY <2>1, Zenon DEF ErrorFrozen, ResetPrepare, Offline
    <3>3. UNCHANGED <<Used, Wanted>>
      BY <3>1, WantedKept
    <3> QED
      BY <3>1, <3>2, <3>3
  <2>2. CASE ErrorDisable
    <3>1. /\ step = "down" /\ UNCHANGED step /\ held' = held \ {"enable"}
          /\ UNCHANGED <<offline, mode, h2cMax, c2hMax, engines, lines,
                         irqFailed, redone>>
      BY <2>2 DEF ErrorDisable, irq
    <3>2. UNCHANGED <<Used, Wanted>>
      BY <3>1, WantedKept
    <3> QED
      BY <3>1, <3>2
  <2>3. CASE SlotReset \/ ResetDone
    <3>1. CASE UNCHANGED devVars
      BY <1>1, <3>1 DEF devVars, irq, hist
    <3>2. CASE HwReset /\ (UNCHANGED held \/ held' = held \cup {"enable"})
      <4>1. /\ step = "down" /\ step' = "reset" /\ held \subseteq held'
            /\ UNCHANGED <<offline, mode, h2cMax, c2hMax, engines, lines,
                           irqFailed, redone>>
        BY <3>2 DEF HwReset, Goto, hist
      <4>2. UNCHANGED <<Used, Wanted>>
        BY <4>1, WantedKept
      <4> QED
        BY <4>1, <4>2
    <3> QED
      BY <2>3, <3>1, <3>2 DEF SlotReset, ResetDone
  <2> QED
    BY <1>6, <2>1, <2>2, <2>3 DEF Handlers
<1>7. CASE DevStep
  <2>1. CASE \E s \in {"list", "enable", "regions", "bars", "mask"} : OpenTake(s)
    <3>1. PICK s \in {"list", "enable", "regions", "bars", "mask"} : OpenTake(s)
      BY <2>1
    <3>2. /\ step = s /\ UNCHANGED <<offline, mode, h2cMax, c2hMax, engines,
                                     lines, irqFailed, redone>>
          /\ \/ step' = Following(s) /\ held' = held \cup ({s} \cap Resources)
             \/ s # "list" /\ step' = ErrLabel(s)
      BY <3>1 DEF OpenTake, irq
    <3>3. \/ step' \in {"enable", "regions", "bars"}
          \/ step' = "mask" /\ "bars" \in held'
          \/ step' = "probe" /\ "bars" \in held'
          \/ step' \in {"unlist", "disable", "release", "unmap"}
      BY <3>2 DEF Following, ErrLabel, Resources
    <3> QED
      BY <3>2, <3>3
  <2>2. CASE ProbeEngines
    <3>1. /\ step = "probe" /\ step' = "vectors" /\ engines' = Used'
          /\ UNCHANGED <<held, offline, mode, lines, irqFailed, redone>>
          /\ h2cMax' \in 0 .. Len(H2C) /\ c2hMax' \in 0 .. Len(C2H)
      BY <2>2 DEF ProbeEngines, Goto
    <3> QED
      BY <3>1
  <2>3. CASE EnableVectors
    <3>1. /\ step = "vectors"
          /\ \/ step' = "irqs" /\ held' = held
                /\ mode' = "legacy"
             \/ step' = "irqs" /\ held' = held \cup {"vectors"}
             \/ step' = "remove" /\ held' = held
          /\ UNCHANGED <<offline, h2cMax, c2hMax, engines, lines, irqFailed,
                         redone>>
      BY <2>3 DEF EnableVectors, irq
    <3>2. UNCHANGED Used
      BY <3>1 DEF Used, UsedSeq
    <3> QED
      BY <3>1, <3>2
  <2>4. CASE OpenIrqs \/ OnlineIrqs
    <3>1. /\ step \in {"irqs", "online"} /\ step' \in {"up", "novectors"}
          /\ UNCHANGED <<dev, redone>>
          /\ step' = "novectors" => irqFailed'
      BY <2>4 DEF OpenIrqs, OnlineIrqs, Goto
    <3>2. lines' = Range(Wanted) \/ irqFailed'
      BY <2>4, Zenon DEF OpenIrqs, OnlineIrqs, IrqSetup
    <3>3. UNCHANGED <<Used, Wanted>>
      BY <3>1, WantedKept DEF dev
    <3> QED
      BY <3>1, <3>2, <3>3 DEF dev
  <2>5. CASE OpenDone
    <3>1. /\ step = "up" /\ step' = "open"
          /\ UNCHANGED <<held, mode, h2cMax, c2hMax, engines, lines, irqFailed,
                         redone>>
      BY <2>5 DEF OpenDone, Goto, hist
    <3>2. UNCHANGED <<Used, Wanted>>
      BY <3>1, WantedKept
    <3> QED
      BY <3>1, <3>2
  <2>6. CASE CloseQuiet \/ OfflineQuiet
    <3>1. /\ \/ step = "quiet" /\ step' = "novectors"
             \/ step = "stop" /\ step' = "down"
          /\ lines' = {} /\ UNCHANGED <<dev, irqFailed, redone>>
      BY <2>6 DEF CloseQuiet, OfflineQuiet, Goto, IrqTeardown
    <3>2. UNCHANGED <<Used, Wanted>>
      BY <3>1, WantedKept DEF dev
    <3> QED
      BY <3>1, <3>2 DEF dev
  <2>7. CASE OnlineEngines
    <3>1. /\ step = "reset" /\ step' = "online"
          /\ UNCHANGED <<dev, lines, irqFailed, redone>>
      BY <2>7 DEF OnlineEngines, Goto, hist
    <3>2. UNCHANGED <<Used, Wanted>>
      BY <3>1, WantedKept DEF dev
    <3> QED
      BY <3>1, <3>2 DEF dev
  <2>8. CASE DisableVectors \/ RemoveEngines \/ Disable
             \/ \E s \in {"unmap", "release", "unlist"} : Unwind(s)
    <3>1. /\ step \in {"novectors", "remove", "unmap", "release", "disable",
                       "unlist"}
          /\ step' \in {"remove", "unmap", "release", "disable", "unlist",
                        "closed"}
          /\ step' = "remove" \/ engines' = {}
          /\ UNCHANGED <<h2cMax, c2hMax, lines, irqFailed>>
      BY <2>8 DEF DisableVectors, RemoveEngines, Disable, Unwind, Unwinding,
                  Goto, irq, hist
    <3> QED
      BY <3>1
  <2> QED
    BY <1>7, <2>1, <2>2, <2>3, <2>4, <2>5, <2>6, <2>7, <2>8
       DEF DevStep, OpenStep, CloseStep
<1>8. CASE UNCHANGED vars
  BY <1>1, <1>8 DEF vars, devVars, irq, hist
<1> QED
  BY <1>2, <1>3, <1>4, <1>5, <1>6, <1>7, <1>8, StepsSplit

\* Nothing is undone before the first open.
LEMMA UndoInitially == Init => UndoInv
BY DEF Init, DevInit, UndoInv, UndoneOnce

\* A tear-down finds its lines and an enabled device, or it is a second one.
LEMMA UndoKept == AdapterInv /\ LineInv /\ UndoInv /\ [Next]_vars => UndoInv'
<1> SUFFICES ASSUME AdapterInv, LineInv, UndoInv, [Next]_vars PROVE UndoInv'
  OBVIOUS
<1> USE DEF UndoInv, UndoneOnce
<1>1. ASSUME UNCHANGED <<step, held, misuse, irqFailed, redone>>,
             failed => failed',
             step = "down" =>
               drv' \notin {"frozen", "resetting", "resuming"} \/ drv' = drv
      PROVE  UndoInv'
  BY <1>1
<1>2. CASE Bystander
  <2>1. UNCHANGED <<step, held, misuse, irqFailed, redone>>
    BY <1>2, ProbesKeep, FreesKeep, TrafficKeeps
       DEF Bystander, Resumed, kernel, dev, devVars, irq, hist
  <2>2. CASE Probes
    <3>1. failed => failed'
      BY <2>2 DEF Probes, ProbeNoDevice, ProbeXdev, ProbeShm, ProbeCdev,
         ProbeInfo, ProbeRegister, ProbeStart
    <3>2. drv' \notin {"frozen", "resetting", "resuming"}
      BY <2>2 DEF Probes, ProbeNoDevice, ProbeXdev, ProbeShm, ProbeCdev,
         ProbeInfo, ProbeRegister, ProbeStart, Drv
    <3> QED
      BY <1>1, <2>1, <3>1, <3>2
  <2>3. CASE Frees \/ Resumed
    <3>1. failed' = failed /\ drv' \notin {"frozen", "resetting", "resuming"}
      BY <2>3 DEF Frees, FreeNapi, FreeShm, FreeNetdev, FreeClose, Resumed,
                  HandlerUnchanged, Drv
    <3> QED
      BY <1>1, <2>1, <3>1
  <2>4. CASE Traffic
    BY <1>1, <2>1, <2>4, TrafficKeeps DEF life
  <2> QED
    BY <1>2, <2>2, <2>3, <2>4 DEF Bystander
<1>3. CASE ProbeOpen
  BY <1>3 DEF ProbeOpen, Open, Goto
<1>4. CASE RemoveOne
  <2>1. /\ drv = "bound" /\ drv' = "free"
        /\ UNCHANGED <<step, held, irqFailed, redone, failed>>
        /\ misuse' = misuse \/ cdev = "failed"
    BY <1>4 DEF RemoveOne, Drv, dev
  <2> QED
    BY <2>1 DEF AdapterInv
<1>5. CASE FreeClose /\ xdev /\ Close
  <2>1. /\ step \in {"open", "down"} /\ step' = "quiet"
        /\ UNCHANGED <<held, misuse, irqFailed, failed>>
    BY <1>5 DEF FreeClose, Close, dev
  <2>2. (redone => redone') /\ (offline => redone')
    BY <1>5, Zenon DEF Close
  <2> QED
    BY <2>1, <2>2 DEF LineInv
<1>6. CASE Handlers
  <2>1. UNCHANGED <<failed, irqFailed>>
    BY <1>6 DEF Handlers, ErrorFrozen, ErrorDisable, SlotReset, ResetPrepare,
                ResetDone, HandlerUnchanged, Offline, HwReset, devVars, hist
  <2>2. CASE ErrorFrozen \/ ResetPrepare
    <3>1. /\ step \in {"open", "down"} /\ step' = "stop"
          /\ UNCHANGED <<held, misuse>>
      BY <2>2 DEF ErrorFrozen, ResetPrepare, Offline
    <3>2. (redone => redone') /\ (offline => redone')
      BY <2>2, Zenon DEF ErrorFrozen, ResetPrepare, Offline
    <3> QED
      BY <2>1, <3>1, <3>2 DEF LineInv
  <2>3. CASE ErrorDisable
    <3>1. /\ step = "down" /\ step' = "down" /\ drv = "frozen" /\ drv' = "slot"
          /\ UNCHANGED redone /\ (misuse' = misuse \/ "enable" \notin held)
      BY <2>3 DEF ErrorDisable, Drv
    <3> QED
      BY <2>1, <3>1
  <2>4. CASE SlotReset \/ ResetDone
    <3>1. CASE drv' = "bound" /\ UNCHANGED devVars
      BY <2>1, <3>1, <1>1 DEF devVars, dev, hist
    <3>2. CASE HwReset /\ \/ drv = "slot" /\ held' = held \cup {"enable"}
                          \/ drv = "resetting" /\ UNCHANGED held
      BY <2>1, <3>2 DEF HwReset, Goto, hist
    <3> QED
      BY <2>4, <3>1, <3>2 DEF SlotReset, ResetDone, Drv
  <2> QED
    BY <1>6, <2>2, <2>3, <2>4 DEF Handlers
<1>7. CASE DevStep /\ Library
  <2>1. UNCHANGED <<drv, failed>>
    BY <1>7 DEF Library, life
  <2>2. CASE \E s \in {"list", "enable", "regions", "bars", "mask"} : OpenTake(s)
    <3>1. PICK s \in {"list", "enable", "regions", "bars", "mask"} : OpenTake(s)
      BY <2>2
    <3>2. /\ step = s /\ UNCHANGED <<misuse, irqFailed, redone>>
          /\ \/ step' = Following(s) /\ held' = held \cup ({s} \cap Resources)
             \/ s # "list" /\ step' = ErrLabel(s) /\ UNCHANGED held
      BY <3>1 DEF OpenTake
    <3>3. /\ s = "list" => step' = "enable"
          /\ s = "enable" => step' = "unlist" \/ "enable" \in held'
          /\ held \subseteq held' /\ step' # "down"
      BY <3>2 DEF Following, ErrLabel, Resources
    <3> QED
      BY <2>1, <3>2, <3>3
  <2>3. CASE ProbeEngines \/ EnableVectors \/ OpenDone \/ OnlineEngines
    <3>1. /\ step \in {"probe", "vectors", "up", "reset"} /\ step' # "down"
          /\ UNCHANGED <<misuse, irqFailed, redone>>
          /\ "enable" \in held => "enable" \in held'
      BY <2>3 DEF ProbeEngines, EnableVectors, OpenDone, OnlineEngines, Goto,
                  hist, dev
    <3> QED
      BY <2>1, <3>1
  <2>4. CASE OpenIrqs \/ OnlineIrqs
    <3>1. /\ step \in {"irqs", "online"} /\ step' \in {"up", "novectors"}
          /\ UNCHANGED <<misuse, redone, held>>
      BY <2>4 DEF OpenIrqs, OnlineIrqs, Goto, dev
    <3>2. irqFailed => irqFailed'
      BY <2>4, Zenon DEF OpenIrqs, OnlineIrqs, IrqSetup
    <3> QED
      BY <2>1, <3>1, <3>2
  <2>5. CASE CloseQuiet \/ OfflineQuiet
    <3>1. /\ \/ step = "quiet" /\ step' = "novectors"
             \/ step = "stop" /\ step' = "down"
          /\ UNCHANGED <<held, irqFailed, redone>>
          /\ misuse' = misuse \/ ~(Range(Wanted) \subseteq lines)
      BY <2>5 DEF CloseQuiet, OfflineQuiet, Goto, IrqTeardown, dev
    <3>2. misuse' = misuse \/ redone \/ irqFailed
      BY <3>1 DEF LineInv, Wired
    <3> QED
      BY <2>1, <3>1, <3>2
  <2>6. CASE DisableVectors \/ RemoveEngines
             \/ \E s \in {"unmap", "release", "unlist"} : Unwind(s)
    <3>1. /\ step \in {"novectors", "remove", "unmap", "release", "unlist"}
          /\ step = "unlist" => step' = "closed"
          /\ step' # "down" /\ UNCHANGED <<misuse, irqFailed, redone>>
          /\ step = "unlist" \/ ("enable" \in held => "enable" \in held')
      BY <2>6 DEF DisableVectors, RemoveEngines, Unwind, Unwinding, Goto, hist
    <3> QED
      BY <2>1, <3>1
  <2>7. CASE Disable
    <3>1. /\ step = "disable" /\ step' = "unlist"
          /\ UNCHANGED <<irqFailed, redone>>
          /\ misuse' = misuse \/ "enable" \notin held
      BY <2>7 DEF Disable, Goto
    <3> QED
      BY <2>1, <3>1
  <2> QED
    BY <1>7, <2>2, <2>3, <2>4, <2>5, <2>6, <2>7 DEF DevStep, OpenStep, CloseStep
<1>8. CASE UNCHANGED vars
  BY <1>8 DEF vars, devVars, dev, hist, life
<1> QED
  BY <1>2, <1>3, <1>4, <1>5, <1>6, <1>7, <1>8, StepsSplit

\* A line that belongs to an engine belongs to one in use.
LEMMA WantedLeadsToUsed == LineInv => Range(Wanted) \cap Channels \subseteq Used
<1> SUFFICES ASSUME LineInv PROVE Range(Wanted) \cap Channels \subseteq Used
  OBVIOUS
<1>1. "user" \notin Channels /\ "dev" \notin Channels
  BY DeviceAssumption
<1>2. UsedSeq \in Seq(Channels)
  <2>1. /\ SubSeq(H2C, 1, h2cMax) \in Seq(Channels)
        /\ SubSeq(C2H, 1, c2hMax) \in Seq(Channels)
    BY DeviceAssumption DEF LineInv
  <2> QED
    BY <2>1 DEF UsedSeq
<1>3. CASE mode = "msix"
  <2>1. Wanted = Append(UsedSeq, "user")
    BY <1>3 DEF Wanted
  <2>2. Range(Append(UsedSeq, "user")) \subseteq Range(UsedSeq) \cup {"user"}
    BY <1>2 DEF Range
  <2> QED
    BY <1>1, <2>1, <2>2 DEF Used
<1>4. CASE mode # "msix"
  <2>1. Wanted = <<"dev">>
    BY <1>4 DEF Wanted
  <2>2. Range(<<"dev">>) = {"dev"}
    BY DEF Range
  <2> QED
    BY <1>1, <2>1, <2>2
<1> QED
  BY <1>3, <1>4

-----------------------------------------------------------------------------

\* The inductive invariant.
DriverInv == NapiInv /\ AdapterInv /\ HeldInv /\ LineInv /\ UndoInv

\* The five invariants hold together, through every probe that fails halfway,
\* every removal, error and reset.
THEOREM DriverCorrect == Spec => []DriverInv
<1>1. Init => DriverInv
  BY NapiInitially, AdapterInitially, HeldInitially, LinesInitially,
     UndoInitially DEF DriverInv
<1>2. DriverInv /\ [Next]_vars => DriverInv'
  BY NapiKept, AdapterKept, HeldKept, LinesKept, UndoKept DEF DriverInv
<1> QED
  BY <1>1, <1>2, PTL DEF Spec

\* xdma_device_open, however it fails, and xdma_device_close give back what was
\* taken, for every set of engines, every subset of steps that may fail and any
\* number of failures.
THEOREM NothingLeftHeld == Spec => []ClosedHoldsNothing
<1>1. DriverInv => ClosedHoldsNothing
  BY DEF DriverInv, HeldInv, LineInv, Wired, Resources, ClosedHoldsNothing
<1> QED
  BY <1>1, DriverCorrect, PTL

\* xdma_channel_irq and xdma_isr never run for an engine, registers or vectors
\* that close or an error label has taken away, while irq_setup succeeds.
THEOREM HandlersFindEngines == Spec => []HandlerFindsItsEngine
<1>1. DriverInv => HandlerFindsItsEngine
  <2> SUFFICES ASSUME DriverInv, lines # {}, ~irqFailed
               PROVE  /\ "bars" \in held /\ lines \cap Channels \subseteq engines
                      /\ mode # "legacy" => "vectors" \in held
    BY DEF HandlerFindsItsEngine
  <2>1. LineInv
    BY DEF DriverInv
  <2>2. step \in Wired
    BY <2>1 DEF LineInv
  <2>3. lines = Range(Wanted)
    BY <2>1, <2>2 DEF LineInv
  <2>4. engines = Used /\ "bars" \in held /\ (mode # "legacy" => "vectors" \in held)
    BY <2>1, <2>2 DEF LineInv
  <2> QED
    BY <2>1, <2>3, <2>4, WantedLeadsToUsed
<1> QED
  BY <1>1, DriverCorrect, PTL

\* free_irq, pci_disable_device and delete_debug_cdev undo nothing twice in a
\* life without a failure that the driver overlooks or a second tear-down.
THEOREM NothingUndoneTwice == Spec => []UndoneOnce
<1>1. DriverInv => UndoneOnce
  BY DEF DriverInv, UndoInv
<1> QED
  BY <1>1, DriverCorrect, PTL

\* nupanet_xmit_frame, nupanet_poll and the debug device meet no NULL device and
\* no unmapped area before adapter_free has begun.
THEOREM UsersAreSafe == Spec => []UsersFindTheirDevice
<1>1. DriverInv => UsersFindTheirDevice
  BY DEF DriverInv, AdapterInv
<1> QED
  BY <1>1, DriverCorrect, PTL

\* NAPI_STATE_SCHED never stays set while napi is on no list, unless a poll came
\* under hold_ic_ctl, for every budget and ring size.
THEOREM PollingGoesOn == Spec => []ScheduledIsListed
<1>1. DriverInv => ScheduledIsListed
  BY DEF DriverInv, NapiInv
<1> QED
  BY <1>1, DriverCorrect, PTL

\* Only nupanet_poll's one frame over the budget can put napi on two lists.
THEOREM ListedTwiceOnlyOverBudget == Spec => []ListedOnce
<1>1. DriverInv => ListedOnce
  BY DEF DriverInv, NapiInv
<1> QED
  BY <1>1, DriverCorrect, PTL

-----------------------------------------------------------------------------
(* Interrupts.                                                             *)


\* The steps of open before irq_setup has requested a line.
Opening ==
  {"list", "enable", "regions", "bars", "mask", "probe", "vectors", "irqs"}

\* The masks.  Work that a handler has queued is gone before the next open,
\* but not before the end of a reset.
MaskInv ==
  /\ raised \subseteq Channels /\ work \subseteq Channels
  /\ engOn \subseteq Channels /\ blockOn \subseteq Channels
  /\ step \in Opening => work = {}
  /\ step \in {"vectors", "irqs"} /\ Whole => Channels \subseteq engOn
  /\ step \in {"online", "up", "open"} /\ Whole =>
       \A e \in Channels : e \in engOn \/ (mode = "msix" /\ e \in work)
  /\ step \in {"up", "open"} => lines = Range(Wanted) \/ irqFailed
  /\ step = "open" /\ Whole =>
       \A e \in Channels : e \in blockOn \/ (mode # "msix" /\ e \in work)

\* What MaskInv speaks of.
masks == <<step, h2cMax, c2hMax, mode, lines, irqFailed, raised, work, engOn,
           blockOn>>

-----------------------------------------------------------------------------
(* Positions.                                                              *)

\* The channels the hardware has.
LEMMA AllChannels ==
  /\ H2C \o C2H \in Seq(Channels)
  /\ Len(H2C \o C2H) = Len(H2C) + Len(C2H)
  /\ Len(H2C) \in Nat /\ Len(C2H) \in Nat
  /\ \A e \in Channels : \E i \in 1 .. Len(H2C \o C2H) : (H2C \o C2H)[i] = e
  /\ \A i, j \in 1 .. Len(H2C \o C2H) :
       (H2C \o C2H)[i] = (H2C \o C2H)[j] => i = j
<1> DEFINE all == H2C \o C2H
<1>1. H2C \in Seq(Channels) /\ C2H \in Seq(Channels) /\ IsInjective(all)
  BY DeviceAssumption
<1>2. /\ all \in Seq(Channels) /\ Len(all) = Len(H2C) + Len(C2H)
      /\ Len(H2C) \in Nat /\ Len(C2H) \in Nat
  BY <1>1
<1>3. DOMAIN all = 1 .. Len(all)
  BY <1>2
<1>4. \A e \in Channels : \E i \in DOMAIN all : all[i] = e
  BY Zenon DEF Channels, Range
<1>5. \A i, j \in DOMAIN all : all[i] = all[j] => i = j
  BY <1>1, Zenon DEF IsInjective
<1> QED
  BY <1>2, <1>3, <1>4, <1>5, Zenon

\* The engines in use are channels of the hardware.
LEMMA UsedAreChannels ==
  ASSUME h2cMax \in 0 .. Len(H2C), c2hMax \in 0 .. Len(C2H)
  PROVE  UsedSeq \in Seq(Channels) /\ Used \subseteq Channels
<1>1. /\ SubSeq(H2C, 1, h2cMax) \in Seq(Channels)
      /\ SubSeq(C2H, 1, c2hMax) \in Seq(Channels)
  BY DeviceAssumption
<1>2. UsedSeq \in Seq(Channels)
  BY <1>1 DEF UsedSeq
<1> QED
  BY <1>2 DEF Used, Range

\* With all engines in use every channel is.
LEMMA WholeUsesAll ==
  ASSUME Whole PROVE UsedSeq = H2C \o C2H /\ Used = Channels
<1>1. SubSeq(H2C, 1, Len(H2C)) = H2C /\ SubSeq(C2H, 1, Len(C2H)) = C2H
  BY DeviceAssumption
<1>2. UsedSeq = H2C \o C2H
  BY <1>1, Zenon DEF UsedSeq, Whole
<1> QED
  BY <1>2, Zenon DEF Used, Channels

\* The hardware's number of a channel is its position.
LEMMA HwBitIsPosition ==
  ASSUME NEW e \in Channels
  PROVE  /\ HwBit(e) \in 0 .. Len(H2C \o C2H) - 1
         /\ (H2C \o C2H)[HwBit(e) + 1] = e
<1> DEFINE n == Len(H2C \o C2H)
<1>1. PICK i \in 1 .. n : (H2C \o C2H)[i] = e
  BY AllChannels, Zenon
<1>2. n \in Nat
  BY AllChannels
<1>3. i - 1 \in 0 .. n - 1 /\ i - 1 + 1 = i
  BY <1>1, <1>2
<1>4. \E k \in 0 .. n - 1 : (H2C \o C2H)[k + 1] = e
  BY <1>1, <1>3, Zenon
<1> QED
  BY <1>4, Zenon DEF HwBit

\* So is engine->irq_bitmask, if no engine_init has failed.
LEMMA IrqBitIsHwBit ==
  ASSUME Whole, NEW e \in Channels
  PROVE  IrqBit(e) = HwBit(e)
<1> DEFINE all == H2C \o C2H
           i == CHOOSE i \in 1 .. Len(UsedSeq) : UsedSeq[i] = e
<1>1. UsedSeq = all
  BY WholeUsesAll
<1>2. i \in 1 .. Len(all) /\ all[i] = e
  BY <1>1, AllChannels, Zenon
<1>3. IrqBit(e) = i - 1
  BY Zenon DEF IrqBit, Whole
<1>4. Len(all) \in Nat
  BY AllChannels
<1>5. HwBit(e) + 1 \in 1 .. Len(all) /\ all[HwBit(e) + 1] = e
  BY <1>4, HwBitIsPosition
<1>6. i = HwBit(e) + 1
  BY <1>2, <1>5, AllChannels, Zenon
<1>7. HwBit(e) \in Int
  BY HwBitIsPosition, <1>4
<1> QED
  <2> HIDE DEF i
  <2> QED
    BY <1>3, <1>6, <1>7

\* With every line requested an interrupt leads to the engine that raised it.
LEMMA HandlerIsOwn ==
  ASSUME Whole, lines = Range(Wanted), NEW e \in Channels
  PROVE  LeadsHome(e)
<1> DEFINE all == H2C \o C2H
<1>1. UsedSeq = all /\ all \in Seq(Channels) /\ Len(all) \in Nat
  BY WholeUsesAll, AllChannels
<1>2. HwBit(e) \in 0 .. Len(all) - 1 /\ all[HwBit(e) + 1] = e
  BY HwBitIsPosition
<1>3. HwBit(e) < Len(all) /\ HwBit(e) + 1 \in 1 .. Len(all)
  BY <1>1, <1>2
<1>4. CASE mode = "msix"
  <2>1. ChannelVector(e) = HwBit(e)
    BY <1>1, <1>3, Zenon DEF ChannelVector
  <2>2. Wanted = Append(all, "user")
    BY <1>1, <1>4, Zenon DEF Wanted
  <2>3. e \in Range(Append(all, "user"))
    <3>1. /\ HwBit(e) + 1 \in DOMAIN Append(all, "user")
          /\ Append(all, "user")[HwBit(e) + 1] = all[HwBit(e) + 1]
      BY <1>1, <1>3
    <3> QED
      BY <1>2, <3>1, Zenon DEF Range
  <2> QED
    BY <1>1, <1>2, <1>4, <2>1, <2>2, <2>3, Zenon DEF LeadsHome
<1>5. CASE mode # "msix"
  <2>1. Wanted = <<"dev">>
    BY <1>5, Zenon DEF Wanted
  <2>2. "dev" \in Range(<<"dev">>)
    BY DEF Range
  <2> QED
    BY <1>5, <2>1, <2>2, IrqBitIsHwBit, Zenon DEF LeadsHome
<1> QED
  BY <1>4, <1>5

-----------------------------------------------------------------------------

\* No interrupt before the first open.
LEMMA MasksInitially == Init => MaskInv
BY Zenon DEF Init, DevInit, MaskInv, Opening

\* Transfers, frames and polls touch neither masks nor lines.
LEMMA UsersKeepMasks ==
  ASSUME Xmit \/ DebugIo \/ HoldIc \/ FrameArrives \/ Poll
  PROVE  UNCHANGED masks
<1> USE DEF masks, dev, irq, hist, devVars
<1>1. ASSUME NEW dir, NEW P, UseAdapter(dir, P) PROVE UNCHANGED masks
  BY <1>1, Zenon DEF UseAdapter, UseEngine, Submit, hw
<1>2. CASE Xmit \/ DebugIo
  BY <1>1, <1>2, Zenon DEF Xmit, DebugIo
<1>3. CASE HoldIc \/ FrameArrives
  BY <1>3, Zenon DEF HoldIc, FrameArrives, hw
<1>4. CASE Poll
  BY <1>1, <1>4, Zenon
     DEF Poll, ThreadSchedule, SoftIrq, PollFrame, PollEnd, PollFault,
         NapiUnchanged, hw
<1> QED
  BY <1>2, <1>3, <1>4

\* Nor do the steps of probe and removal outside the library.
LEMMA DriverKeepsMasks ==
  ASSUME Probes \/ Frees \/ Resumed \/ RemoveOne \/ ErrorDisable
  PROVE  UNCHANGED masks
BY ZenonT(30)
DEF Probes, ProbeNoDevice, ProbeXdev, ProbeShm, ProbeCdev, ProbeInfo,
    ProbeRegister, ProbeStart, DevKept, Frees, FreeNapi, FreeShm, FreeNetdev,
    Resumed, RemoveOne, ErrorDisable, masks, dev, irq, hw, hist, devVars

\* A handler masks an engine and queues the work of the same engine.
LEMMA MasksInterrupt ==
  ASSUME LineInv, MaskInv, Interrupt PROVE MaskInv'
<1> USE DEF MaskInv
<1>1. h2cMax \in 0 .. Len(H2C) /\ c2hMax \in 0 .. Len(C2H)
  BY Zenon DEF LineInv
<1>2. UsedSeq \in Seq(Channels) /\ Used \subseteq Channels
  BY <1>1, UsedAreChannels, Zenon
<1>3. lines # {} => step \notin Opening
  BY Zenon DEF LineInv, Opening
<1>4. ASSUME NEW e \in Channels, ChannelIrq(e) PROVE MaskInv'
  <2> DEFINE k == ChannelVector(e) + 1
             t == UsedSeq[k]
  <2>1. /\ mode = "msix" /\ UsedSeq # <<>> /\ t \in lines
        /\ engOn' = engOn \ {t} /\ work' = work \cup {t}
        /\ UNCHANGED <<step, dev, lines, blockOn, raised, irqFailed>>
    BY <1>4, Zenon DEF ChannelIrq, hw, hist
  <2>2. t \in Channels
    <3>1. HwBit(e) \in Nat
      BY AllChannels, HwBitIsPosition
    <3>2. Len(UsedSeq) \in Nat /\ Len(UsedSeq) > 0
      BY <1>2, <2>1
    <3>3. k \in 1 .. Len(UsedSeq)
      BY <3>1, <3>2 DEF ChannelVector
    <3> QED
      BY <1>2, <3>3
  <2>3. UNCHANGED <<Whole, Wanted, mode>>
    BY <2>1, WantedKept, Zenon DEF dev, Whole
  <2>4. step \notin Opening
    BY <1>3, <2>1, Zenon
  <2>5. step \notin {"vectors", "irqs"}
    BY <2>4, Zenon DEF Opening
  <2> HIDE DEF k, t
  <2> QED
    BY <2>1, <2>2, <2>3, <2>4, <2>5, Zenon
<1>5. CASE Isr
  <2> DEFINE fired == raised \cap engOn \cap blockOn
             called == {u \in Used : \E e \in fired : IrqBit(u) = HwBit(e)}
  <2>1. /\ mode # "msix" /\ "dev" \in lines
        /\ blockOn' = blockOn \ fired /\ work' = work \cup called
        /\ UNCHANGED <<step, dev, lines, engOn, raised, irqFailed>>
    BY <1>5, Zenon DEF Isr, hw, hist
  <2>2. Whole => fired \subseteq called
    BY WholeUsesAll, IrqBitIsHwBit, Zenon
  <2>3. called \subseteq Channels
    BY <1>2, Zenon
  <2>4. UNCHANGED <<Whole, Wanted, mode>>
    BY <2>1, WantedKept, Zenon DEF dev, Whole
  <2>5. step \notin Opening
    BY <1>3, <2>1, Zenon
  <2>6. step \notin {"vectors", "irqs"}
    BY <2>5, Zenon DEF Opening
  <2> HIDE DEF fired, called
  <2> QED
    BY <2>1, <2>2, <2>3, <2>4, <2>5, <2>6, Zenon
<1> QED
  BY <1>4, <1>5, Zenon DEF Interrupt

\* The work of an engine lifts the mask its handler has used.
LEMMA MasksService ==
  ASSUME LineInv, MaskInv, NEW e \in Channels, ServiceWork(e) PROVE MaskInv'
<1> USE DEF MaskInv
<1>1. /\ e \in work /\ work' = work \ {e}
      /\ UNCHANGED <<step, dev, lines, irqFailed>>
  BY Zenon DEF ServiceWork, hist
<1>2. UNCHANGED <<Whole, Wanted, mode>>
  BY <1>1, WantedKept, Zenon DEF dev, Whole
<1>3. step \notin Opening
  BY <1>1, Zenon
<1>4. step \notin {"vectors", "irqs"}
  BY <1>3, Zenon DEF Opening
<1>5. raised' \subseteq raised
  BY Zenon DEF ServiceWork
<1>6. /\ engOn \subseteq engOn' /\ blockOn \subseteq blockOn'
      /\ engOn' \subseteq engOn \cup {e} /\ blockOn' \subseteq Channels
  BY Zenon DEF ServiceWork, Unmask
<1>7. ASSUME Whole, step \in {"online", "up", "open"}
      PROVE  IF mode = "msix" THEN e \in engOn' ELSE e \in blockOn'
  <2>1. e \in engines
    BY <1>7, WholeUsesAll, Zenon DEF LineInv, Wired
  <2>2. HwBit(e) = IrqBit(e)
    BY <1>7, IrqBitIsHwBit, Zenon
  <2> QED
    BY <2>1, <2>2, Zenon DEF ServiceWork, Unmask
<1> QED
  BY <1>1, <1>2, <1>3, <1>4, <1>5, <1>6, <1>7, ZenonT(30)

\* A call that leaves the device down, or on its way there, has nothing to keep.
LEMMA MasksDown ==
  ASSUME MaskInv, step' \notin Opening \cup {"online", "up", "open"},
         work' = work, raised' \subseteq raised,
         engOn' \subseteq engOn, blockOn' \subseteq blockOn
  PROVE  MaskInv'
<1>1. step' \notin {"vectors", "irqs"}
  BY Zenon DEF Opening
<1> QED
  BY <1>1, Zenon DEF MaskInv

\* open and online unmask every engine before the lines are requested, and the
\* channels after it.
LEMMA MasksDevStep ==
  ASSUME LineInv, MaskInv, DevStep PROVE MaskInv'
<1> USE DEF MaskInv
<1>1. CASE \E s \in {"list", "enable", "regions", "bars", "mask"} : OpenTake(s)
  <2>1. PICK s \in {"list", "enable", "regions", "bars", "mask"} : OpenTake(s)
    BY <1>1, Zenon
  <2>2. /\ step = s /\ UNCHANGED <<irq, hw>>
        /\ step' = Following(s) \/ (s # "list" /\ step' = ErrLabel(s))
    BY <2>1, Zenon DEF OpenTake
  <2>3. \/ step' \in {"enable", "regions", "bars", "mask", "probe"}
        \/ step' \in {"unlist", "disable", "release", "unmap"}
    BY <2>2 DEF Following, ErrLabel
  <2>4. work' = {} /\ UNCHANGED <<raised, engOn, blockOn>>
    BY <2>2, Zenon DEF irq, hw, Opening
  <2> QED
    BY <2>3, <2>4
<1>2. CASE ProbeEngines
  <2>1. /\ step = "probe" /\ step' = "vectors" /\ engOn' = Used'
        /\ blockOn' = {} /\ UNCHANGED <<hw, work>>
    BY <1>2, Zenon DEF ProbeEngines, Goto
  <2>2. h2cMax' \in 0 .. Len(H2C) /\ c2hMax' \in 0 .. Len(C2H)
    BY <1>2, Zenon DEF ProbeEngines
  <2>3. Used' \subseteq Channels
    <3>1. /\ SubSeq(H2C, 1, h2cMax') \in Seq(Channels)
          /\ SubSeq(C2H, 1, c2hMax') \in Seq(Channels)
      BY <2>2, DeviceAssumption
    <3>2. UsedSeq' \in Seq(Channels)
      BY <3>1 DEF UsedSeq
    <3> QED
      BY <3>2 DEF Used, Range
  <2>4. Whole' => Used' = Channels
    <3>1. SubSeq(H2C, 1, Len(H2C)) = H2C /\ SubSeq(C2H, 1, Len(C2H)) = C2H
      BY DeviceAssumption
    <3> QED
      BY <3>1, Zenon DEF Used, UsedSeq, Channels, Whole
  <2>5. work = {}
    BY <2>1, Zenon DEF Opening
  <2> QED
    BY <2>1, <2>3, <2>4, <2>5 DEF hw, Opening
<1>3. CASE EnableVectors
  <2>1. /\ step = "vectors" /\ step' \in {"irqs", "remove"}
        /\ UNCHANGED <<h2cMax, c2hMax, irq, hw>>
    BY <1>3, Zenon DEF EnableVectors
  <2>2. UNCHANGED <<Whole, raised, work, engOn, blockOn>> /\ work = {}
    BY <2>1, Zenon DEF Whole, irq, hw, Opening
  <2> QED
    BY <2>1, <2>2
<1>4. CASE OpenIrqs \/ OnlineIrqs
  <2>1. /\ step \in {"irqs", "online"} /\ step' \in {"up", "novectors"}
        /\ UNCHANGED <<dev, blockOn, engOn, hw, work>>
    BY <1>4, Zenon DEF OpenIrqs, OnlineIrqs, Goto
  <2>2. lines' = Range(Wanted) \/ irqFailed'
    BY <1>4, Zenon DEF OpenIrqs, OnlineIrqs, IrqSetup
  <2>3. UNCHANGED <<Whole, Wanted, mode, raised>>
    BY <2>1, WantedKept, Zenon DEF Whole, dev, hw
  <2>4. step' \notin Opening \cup {"vectors", "irqs", "open"}
    BY <2>1 DEF Opening
  <2>5. Whole =>
          \A e \in Channels : e \in engOn \/ (mode = "msix" /\ e \in work)
    BY <2>1, Zenon
  <2> QED
    BY <2>1, <2>2, <2>3, <2>4, <2>5, Zenon
<1>5. CASE OpenDone
  <2>1. /\ step = "up" /\ step' = "open" /\ blockOn' = Channels
        /\ UNCHANGED <<mode, h2cMax, c2hMax, lines, engOn, raised, work,
                       irqFailed>>
    BY <1>5, Zenon DEF OpenDone, Goto, hw, hist
  <2>2. UNCHANGED <<Whole, Wanted>>
    BY <2>1, WantedKept, Zenon DEF Whole
  <2>3. step' \notin Opening \cup {"vectors", "irqs"}
    BY <2>1 DEF Opening
  <2> QED
    BY <2>1, <2>2, <2>3, Zenon
<1>6. CASE CloseQuiet \/ OfflineQuiet
  <2>1. /\ step' \in {"novectors", "down"}
        /\ blockOn' = {} /\ UNCHANGED <<engOn, raised, work>>
    BY <1>6, Zenon DEF CloseQuiet, OfflineQuiet, Goto, hw
  <2>2. step' \notin Opening \cup {"online", "up", "open"}
    BY <2>1 DEF Opening
  <2> QED
    BY <2>1, <2>2, MasksDown, Zenon
<1>7. CASE OnlineEngines
  <2>1. /\ step = "reset" /\ step' = "online" /\ engOn' = engines
        /\ UNCHANGED <<dev, blockOn, raised, work>>
    BY <1>7, Zenon DEF OnlineEngines, Goto, hw
  <2>2. engines = Used /\ Used \subseteq Channels
    BY <2>1, UsedAreChannels, Zenon DEF LineInv
  <2>3. UNCHANGED Whole /\ (Whole => Used = Channels)
    BY <2>1, WholeUsesAll, Zenon DEF Whole, dev
  <2>4. step' \notin Opening \cup {"vectors", "irqs", "up", "open"}
    BY <2>1 DEF Opening
  <2> QED
    BY <2>1, <2>2, <2>3, <2>4, Zenon
<1>8. CASE DisableVectors \/ RemoveEngines \/ Disable
           \/ \E s \in {"unmap", "release", "unlist"} : Unwind(s)
  <2>1. /\ step' \in {"remove", "unmap", "release", "disable", "unlist",
                      "closed"}
        /\ engOn' = engOn \/ engOn' = {}
        /\ UNCHANGED <<blockOn, raised, work>>
    BY <1>8 DEF DisableVectors, RemoveEngines, Disable, Unwind, Unwinding,
                Goto, irq, hw
  <2>2. step' \notin Opening \cup {"online", "up", "open"}
    BY <2>1 DEF Opening
  <2> QED
    BY <2>1, <2>2, MasksDown, Zenon
<1> QED
  BY <1>1, <1>2, <1>3, <1>4, <1>5, <1>6, <1>7, <1>8, Zenon
     DEF DevStep, OpenStep, CloseStep

\* Every step keeps MaskInv.
LEMMA MasksKept == LineInv /\ MaskInv /\ [Next]_vars => MaskInv'
<1> SUFFICES ASSUME LineInv, MaskInv, [Next]_vars PROVE MaskInv'
  OBVIOUS
<1>1. ASSUME UNCHANGED masks PROVE MaskInv'
  <2>1. UNCHANGED <<Whole, Wanted>>
    BY <1>1, WantedKept, Zenon DEF masks, Whole
  <2> QED
    BY <1>1, <2>1, Zenon DEF masks, MaskInv
<1>2. CASE Bystander
  <2>1. ASSUME NEW e \in Channels, HwDone(e) PROVE MaskInv'
    <3>1. /\ raised' = raised \cup {e}
          /\ UNCHANGED <<step, dev, irq, irqFailed>>
      BY <2>1, Zenon DEF HwDone, hist
    <3>2. UNCHANGED <<Whole, Wanted>>
      BY <3>1, WantedKept, Zenon DEF dev, Whole
    <3> QED
      BY <3>1, <3>2, Zenon DEF dev, irq, MaskInv
  <2> QED
    BY <1>1, <1>2, <2>1, DriverKeepsMasks, UsersKeepMasks, MasksInterrupt,
       MasksService, Zenon DEF Bystander, Traffic
<1>3. CASE RemoveOne \/ ErrorDisable
  BY <1>1, <1>3, DriverKeepsMasks, Zenon
<1>4. CASE ProbeOpen
  <2>1. step' = "list" /\ work' = {} /\ UNCHANGED <<raised, engOn, blockOn>>
    BY <1>4, Zenon DEF ProbeOpen, LeftOver, Open, Goto, irq, hw
  <2> QED
    BY <2>1 DEF MaskInv
<1>5. CASE (FreeClose /\ xdev /\ Close) \/ ErrorFrozen \/ ResetPrepare
  <2>1. /\ step' \in {"quiet", "stop"}
        /\ UNCHANGED <<work, raised, engOn, blockOn>>
    BY <1>5, Zenon DEF Close, ErrorFrozen, ResetPrepare, Offline, irq, hw
  <2>2. step' \notin Opening \cup {"online", "up", "open"}
    BY <2>1 DEF Opening
  <2> QED
    BY <2>1, <2>2, MasksDown, Zenon
<1>6. CASE SlotReset \/ ResetDone
  <2>1. CASE HwReset
    <3>1. /\ step' = "reset" /\ work' = work
          /\ raised' = {} /\ engOn' = {} /\ blockOn' = {}
      BY <2>1, Zenon DEF HwReset, Goto
    <3>2. step' \notin Opening \cup {"online", "up", "open"}
      BY <3>1 DEF Opening
    <3> QED
      BY <3>1, <3>2, MasksDown, Zenon
  <2>2. CASE UNCHANGED devVars
    BY <1>1, <2>2, Zenon DEF devVars, masks, dev, irq, hw, hist
  <2> QED
    BY <1>6, <2>1, <2>2, Zenon DEF SlotReset, ResetDone
<1>7. CASE DevStep
  BY <1>7, MasksDevStep, Zenon
<1>8. CASE UNCHANGED vars
  BY <1>1, <1>8, Zenon DEF vars, devVars, masks, dev, irq, hw, hist
<1> QED
  BY <1>2, <1>3, <1>4, <1>5, <1>6, <1>7, <1>8, StepsSplit, Zenon DEF Handlers

-----------------------------------------------------------------------------

\* The masks are as MaskInv says through every open, close, error and reset.
THEOREM MasksCorrect == Spec => []MaskInv
<1>1. LineInv /\ MaskInv /\ [Next]_vars => MaskInv'
  BY MasksKept
<1>2. DriverInv => LineInv
  BY DEF DriverInv
<1> QED
  BY <1>1, <1>2, MasksInitially, DriverCorrect, PTL DEF Spec

\* While a device is up, with all its engines and all its lines, an interrupt
\* that an engine has raised is served: its work is queued, or neither mask
\* holds it back and its handler, xdma_channel_irq or xdma_isr, will queue the
\* work of this engine and no other's.
THEOREM InterruptsReachTheirEngine == Spec => []NoInterruptLost
<1>1. MaskInv => NoInterruptLost
  <2> SUFFICES ASSUME MaskInv, step = "open", Whole, ~irqFailed,
                      NEW e \in raised
               PROVE  e \in work \/ (e \in engOn \cap blockOn /\ LeadsHome(e))
    BY Zenon DEF NoInterruptLost
  <2>1. e \in Channels /\ lines = Range(Wanted)
    BY Zenon DEF MaskInv
  <2>2. LeadsHome(e)
    BY <2>1, HandlerIsOwn, Zenon
  <2> QED
    BY <2>1, <2>2, Zenon DEF MaskInv
<1> QED
  BY <1>1, MasksCorrect, PTL

-----------------------------------------------------------------------------
(* The ranges of the other variables.                                      *)

\* Engines and lines belong to channels the hardware has; the ring and the
\* budget bound the frames.
RangeInv ==
  /\ engines \subseteq Used /\ lines \subseteq Channels \cup {"user", "dev"}
  /\ busy \subseteq Channels
  /\ frames <= RingSize /\ workDone <= Budget + 1

\* The lines irq_setup may come to hold.
LEMMA LinesInRange ==
  ASSUME LineInv, NEW k \in 0 .. Len(Wanted)
  PROVE  Range(SubSeq(Wanted, 1, k)) \subseteq Channels \cup {"user", "dev"}
<1> DEFINE all == Channels \cup {"user", "dev"}
<1>1. UsedSeq \in Seq(Channels)
  BY UsedAreChannels, Zenon DEF LineInv
<1>2. UsedSeq \in Seq(all)
  BY <1>1
<1>3. Wanted \in Seq(all)
  <2>1. CASE mode = "msix"
    <3>1. Wanted = Append(UsedSeq, "user")
      BY <2>1, Zenon DEF Wanted
    <3> QED
      BY <1>2, <3>1
  <2>2. CASE mode # "msix"
    <3>1. Wanted = <<"dev">>
      BY <2>2, Zenon DEF Wanted
    <3> QED
      BY <3>1
  <2> QED
    BY <2>1, <2>2
<1> HIDE DEF all
<1>4. SubSeq(Wanted, 1, k) \in Seq(all)
  BY <1>3
<1>5. Range(SubSeq(Wanted, 1, k)) \subseteq all
  BY <1>4 DEF Range
<1> QED
  BY <1>5 DEF all

\* And what it holds in the end, whether or not a request fails.
LEMMA SetupInRange ==
  ASSUME LineInv, IrqSetup
  PROVE  lines' \subseteq Channels \cup {"user", "dev"}
<1>1. Wanted \in Seq(Range(Wanted))
  <2>1. UsedSeq \in Seq(Channels)
    BY UsedAreChannels, Zenon DEF LineInv
  <2>2. \E S : Wanted \in Seq(S)
    <3>1. CASE mode = "msix"
      <4>1. Append(UsedSeq, "user") \in Seq(Channels \cup {"user"})
        BY <2>1
      <4> QED
        BY <3>1, <4>1, Zenon DEF Wanted
    <3>2. CASE mode # "msix"
      <4>1. <<"dev">> \in Seq({"dev"})
        OBVIOUS
      <4> QED
        BY <3>2, <4>1, Zenon DEF Wanted
    <3> QED
      BY <3>1, <3>2, Zenon
  <2> QED
    BY <2>2 DEF Range
<1>2. /\ SubSeq(Wanted, 1, Len(Wanted)) = Wanted
      /\ Len(Wanted) \in 0 .. Len(Wanted)
      /\ 0 .. Len(Wanted) - 1 \subseteq 0 .. Len(Wanted)
  BY <1>1
<1>3. \E k \in 0 .. Len(Wanted) : lines' = Range(SubSeq(Wanted, 1, k))
  BY <1>2, Zenon DEF IrqSetup
<1> QED
  BY <1>3, LinesInRange, Zenon

\* Steps of the library.
LEMMA RangesLibrary ==
  ASSUME LineInv, RangeInv, DevStep
  PROVE  /\ engines' \subseteq Used' /\ busy' \subseteq Channels
         /\ lines' \subseteq Channels \cup {"user", "dev"}
<1> USE DEF RangeInv
<1>1. UNCHANGED <<h2cMax, c2hMax>> => UNCHANGED Used
  BY Zenon DEF Used, UsedSeq
<1>2. CASE OpenStep
  <2>1. CASE ProbeEngines
    BY <2>1, Zenon DEF ProbeEngines, hw
  <2>2. CASE OpenIrqs
    BY <1>1, <2>2, SetupInRange, Zenon DEF OpenIrqs, dev, hw
  <2>3. CASE \/ \E s \in {"list", "enable", "regions", "bars", "mask"} :
                  OpenTake(s)
             \/ EnableVectors \/ OpenDone
    BY <1>1, <2>3, Zenon DEF OpenTake, EnableVectors, OpenDone, irq, hw
  <2> QED
    BY <1>2, <2>1, <2>2, <2>3, Zenon DEF OpenStep
<1>3. CASE CloseStep \/ OfflineQuiet \/ OnlineEngines
  <2>1. UNCHANGED <<h2cMax, c2hMax>> /\ (engines' = engines \/ engines' = {})
    BY <1>3, Zenon DEF CloseStep, CloseQuiet, DisableVectors, RemoveEngines,
       Unwind, Disable, OfflineQuiet, OnlineEngines, dev
  <2>2. (lines' = lines \/ lines' = {}) /\ (busy' = busy \/ busy' = {})
    BY <1>3, Zenon DEF CloseStep, CloseQuiet, DisableVectors, RemoveEngines,
       Unwind, Disable, OfflineQuiet, OnlineEngines, IrqTeardown, irq, hw
  <2> QED
    BY <1>1, <2>1, <2>2, Zenon
<1>4. CASE OnlineIrqs
  BY <1>1, <1>4, SetupInRange, Zenon DEF OnlineIrqs, dev, hw
<1> QED
  BY <1>2, <1>3, <1>4, Zenon DEF DevStep

\* Every step keeps the ranges: a frame that arrives finds room in the ring,
\* and nupanet_poll stops at one frame over its budget.
LEMMA RangesKept ==
  NapiInv /\ LineInv /\ RangeInv /\ [Next]_vars => RangeInv'
<1> SUFFICES ASSUME NapiInv, LineInv, RangeInv, [Next]_vars PROVE RangeInv'
  OBVIOUS
<1> DEFINE Device == /\ engines' \subseteq Used' /\ busy' \subseteq Channels
                     /\ lines' \subseteq Channels \cup {"user", "dev"}
           Counters == frames' <= RingSize /\ workDone' <= Budget + 1
<1>1. /\ UNCHANGED <<h2cMax, c2hMax>> => UNCHANGED Used
      /\ engines \subseteq Channels
  BY UsedAreChannels, Zenon DEF RangeInv, LineInv, Used, UsedSeq
<1>2. ASSUME UNCHANGED <<h2cMax, c2hMax, engines, lines>>,
             busy' \subseteq busy \cup Channels
      PROVE  Device
  BY <1>1, <1>2, Zenon DEF RangeInv
<1>3. ASSUME UNCHANGED napi PROVE Counters
  BY <1>3, Zenon DEF RangeInv, napi
<1>4. CASE Probes \/ Frees \/ Resumed
  <2>1. /\ UNCHANGED <<kernel, busy, workDone>>
        /\ frames' = frames \/ frames' = 0
    BY <1>4, ProbesKeep, FreesKeep, ZenonT(30)
    DEF Probes, ProbeNoDevice, ProbeXdev, ProbeShm, ProbeCdev, ProbeInfo,
        ProbeRegister, ProbeStart, DevKept, Frees, FreeNapi, FreeShm,
        FreeNetdev, FreeClose, Resumed, HandlerUnchanged, kernel, irq, hw, hist,
        devVars, napi
  <2>2. Counters
    BY <2>1, PollAssumption DEF RangeInv
  <2> QED
    BY <1>2, <2>1, <2>2, Zenon DEF kernel, dev, RangeInv
<1>5. CASE Traffic
  <2>1. UNCHANGED kernel
    BY <1>5, TrafficKeeps, Zenon
  <2>2. busy' \subseteq busy \cup Channels
    <3>1. ASSUME NEW dir, NEW P, UseAdapter(dir, P)
          PROVE  busy' \subseteq busy \cup Channels
      BY <1>1, <3>1, Zenon DEF UseAdapter, UseEngine, Submit, devVars, hw
    <3>2. CASE Xmit \/ DebugIo \/ HoldIc \/ FrameArrives
      BY <3>1, <3>2, Zenon DEF Xmit, DebugIo, HoldIc, FrameArrives, devVars, hw
    <3>3. CASE Poll
      BY <3>1, <3>3, Zenon DEF Poll, ThreadSchedule, SoftIrq, PollFrame,
         PollEnd, PollFault, NapiUnchanged, devVars, hw
    <3>4. CASE \/ Interrupt
               \/ \E e \in Channels : HwDone(e) \/ ServiceWork(e)
      BY <3>4, Zenon DEF Interrupt, ChannelIrq, Isr, HwDone, ServiceWork, hw
    <3> QED
      BY <1>5, <3>2, <3>3, <3>4, Zenon DEF Traffic
  <2>3. Counters
    <3> USE PollAssumption DEF RangeInv
    <3>1. frames \in Nat /\ workDone \in Nat
      BY DEF NapiInv
    <3>2. CASE UNCHANGED <<frames, workDone>>
      BY <3>2, Zenon
    <3>3. CASE FrameArrives
      BY <3>1, <3>3 DEF FrameArrives
    <3>4. CASE PollFrame
      BY <3>1, <3>4 DEF PollFrame, OverBudget
    <3>5. CASE PollEnd
      BY <3>1, <3>5 DEF PollEnd
    <3> QED
      BY <1>5, <3>2, <3>3, <3>4, <3>5, Zenon
      DEF Traffic, Xmit, DebugIo, HoldIc, Poll, ThreadSchedule, SoftIrq,
          PollFault, Library, napi
  <2> QED
    BY <1>2, <2>1, <2>2, <2>3, Zenon DEF kernel, dev, RangeInv
<1>6. CASE ProbeOpen
  <2>1. /\ step = "closed" /\ UNCHANGED <<engines, lines, busy, napi>>
    BY <1>6, Zenon DEF ProbeOpen, Open, Goto, irq, hw
  <2>2. engines = {}
    BY <2>1 DEF LineInv
  <2> QED
    BY <1>3, <2>1, <2>2, Zenon DEF RangeInv
<1>7. CASE RemoveOne \/ Handlers \/ (FreeClose /\ xdev /\ Close)
  <2>1. /\ UNCHANGED <<h2cMax, c2hMax, engines, lines, napi>>
        /\ busy' = busy \/ busy' = {}
    BY <1>7, Zenon DEF RemoveOne, FreeClose, Close, Handlers, ErrorFrozen,
       ErrorDisable, SlotReset, ResetPrepare, ResetDone, HandlerUnchanged,
       Offline, HwReset, dev, irq, hw, devVars
  <2> QED
    BY <1>2, <1>3, <2>1, Zenon DEF RangeInv
<1>8. CASE DevStep /\ Library
  BY <1>3, <1>8, RangesLibrary, Zenon DEF Library, RangeInv
<1>9. CASE UNCHANGED vars
  BY <1>2, <1>3, <1>9, Zenon DEF vars, devVars, dev, irq, hw, RangeInv
<1> QED
  BY <1>4, <1>5, <1>6, <1>7, <1>8, <1>9, StepsSplit, Zenon DEF Bystander

\* Every variable stays in its range.
THEOREM DriverTypes == Spec => []TypeOK
<1>1. Init => RangeInv
  <2>1. 0 <= RingSize /\ 0 <= Budget + 1
    BY PollAssumption
  <2> QED
    BY <2>1, Zenon DEF Init, DevInit, NapiInit, RangeInv
<1>2. NapiInv /\ LineInv /\ RangeInv /\ [Next]_vars => RangeInv'
  BY RangesKept
<1>3. DriverInv => NapiInv /\ LineInv
  BY DEF DriverInv
<1>4. DriverInv /\ MaskInv /\ RangeInv => TypeOK
  <2> SUFFICES ASSUME DriverInv, MaskInv, RangeInv PROVE TypeOK
    OBVIOUS
  <2>1. frames \in 0 .. RingSize /\ workDone \in 0 .. Budget + 1
    BY PollAssumption DEF DriverInv, NapiInv, RangeInv
  <2> QED
    BY <2>1, Zenon DEF DriverInv, NapiInv, AdapterInv, HeldInv, LineInv,
       MaskInv, RangeInv, TypeOK
<1> QED
  BY <1>1, <1>2, <1>3, <1>4, DriverCorrect, MasksCorrect, PTL DEF Spec

=============================================================================
