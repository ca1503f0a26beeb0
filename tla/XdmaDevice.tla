----------------------------- MODULE XdmaDevice -----------------------------
(***************************************************************************)
(* The life of one xdma_dev: xdma_device_open with its error labels,       *)
(* xdma_device_close, xdma_device_offline and xdma_device_online, the      *)
(* interrupt lines they request and free, and the way of an interrupt from *)
(* the hardware channel through its handler to the engine's work.          *)
(*                                                                         *)
(* The calls come from one thread at a time (the PCI core holds the device *)
(* lock); `step' says where the call under way has come to.  What an       *)
(* engine does with a transfer is XdmaEngine's subject: here a transfer    *)
(* only makes the engine busy and, in the end, raises its interrupt.       *)
(* Polled mode (XdmaThread) is left out.                                   *)
(***************************************************************************)
EXTENDS Integers, Sequences, Functions

CONSTANTS
  H2C, C2H,   \* the engines the hardware has, in channel order
  Modes,      \* the kinds of interrupts the device may turn out to have
  Failures,   \* the steps that may fail
  FaultMax    \* how many do in the life of a device

Channels == Range(H2C \o C2H)

\* "user" and "dev" are the lines that belong to no engine.
ASSUME DeviceAssumption ==
  /\ Modes \subseteq {"msix", "msi", "legacy"} /\ Modes # {}
  /\ H2C \in Seq(Channels) /\ C2H \in Seq(Channels)
  /\ IsInjective(H2C \o C2H) /\ {"user", "dev"} \cap Channels = {}
  /\ FaultMax \in Nat

VARIABLES
  step,                 \* where the call under way is
  held,                 \* what open has acquired from the kernel
  regionsInUse,         \* xdev->regions_in_use
  offline,              \* XDEV_FLAG_OFFLINE
  mode,                 \* msix_enabled, msi_enabled or neither
  h2cMax, c2hMax,       \* channels in use
  engines,              \* engines with their memory and MAGIC_ENGINE
  lines,                \* interrupt lines requested from the kernel
  blockOn, engOn,       \* channel enable mask, the engines' own masks
  busy, raised,         \* engines with a chain in flight, a latched status
  work,                 \* engines whose work item is queued
  misuse,               \* history: calls the kernel complains about
  irqFailed, redone,    \* history: irq_setup failed, torn down twice
  faults                \* history: steps that have failed

dev == <<held, regionsInUse, offline, mode, h2cMax, c2hMax, engines>>
irq == <<lines, blockOn, engOn, work>>
hw == <<busy, raised>>
hist == <<misuse, irqFailed, redone, faults>>
devVars == <<step, dev, irq, hw, hist>>

DevInit ==
  /\ step = "closed" /\ held = {} /\ regionsInUse = FALSE /\ offline = FALSE
  /\ mode = "legacy" /\ h2cMax = 0 /\ c2hMax = 0 /\ engines = {}
  /\ lines = {} /\ blockOn = {} /\ engOn = {}
  /\ busy = {} /\ raised = {} /\ work = {}
  /\ misuse = {} /\ irqFailed = FALSE /\ redone = FALSE
  /\ faults = 0

Goto(from, to) == step = from /\ step' = to

\* The step s fails.
Fails(s) == s \in Failures /\ faults < FaultMax /\ faults' = faults + 1

-----------------------------------------------------------------------------
(* xdma_device_open.                                                       *)

\* alloc_dev_instance zeroes the structure, whose fields the history follows.
Open ==
  /\ Goto("closed", "list")
  /\ regionsInUse' = FALSE /\ irqFailed' = FALSE /\ redone' = FALSE
  /\ offline' = TRUE /\ misuse' = {} /\ faults' = 0 /\ mode' = "legacy"
  /\ h2cMax' = Len(H2C) /\ c2hMax' = Len(C2H)
  /\ UNCHANGED <<held, engines, irq, hw>>

Resources == {"list", "enable", "regions", "bars", "vectors"}

\* The step after s.
Following(s) ==
  CASE s = "list" -> "enable" [] s = "enable" -> "regions"
    [] s = "regions" -> "bars" [] s = "bars" -> "mask" [] s = "mask" -> "probe"

ErrLabelShort(s) ==
  CASE s = "enable" -> "unlist" [] s = "regions" -> "disable"
    [] s = "bars" -> "release" [] s = "mask" -> "release"

ErrLabelEarly(s) ==
  CASE s = "enable" -> "disable" [] s = "regions" -> "disable"
    [] s = "bars" -> "release" [] s = "mask" -> "unmap"

\* Where the unwinding begins when s fails: err_enable, err_regions, err_map,
\* err_mask.
ErrLabel(s) ==
  CASE s = "enable" -> "unlist" [] s = "regions" -> "disable"
    [] s = "bars" -> "release" [] s = "mask" -> "unmap"

\* xdev_list_add, pci_enable_device, request_regions, map_bars (which unmaps
\* what it has mapped when it fails, in a build without XDMA_CONFIG_BAR_NUM),
\* set_dma_mask.
OpenTake(s) ==
  /\ step = s
  /\ \/ /\ step' = Following(s) /\ held' = held \cup ({s} \cap Resources)
        /\ UNCHANGED <<regionsInUse, faults>>
     \/ /\ s # "list" /\ Fails(s)
        /\ step' = ErrLabel(s) /\ UNCHANGED held
        /\ regionsInUse' = (s = "regions")
  /\ UNCHANGED <<offline, mode, h2cMax, c2hMax, engines, irq, hw, misuse,
                 irqFailed, redone>>

\* The engines in use, in the order of their interrupt vectors.
UsedSeq == SubSeq(H2C, 1, h2cMax) \o SubSeq(C2H, 1, c2hMax)
Used == Range(UsedSeq)

\* probe_engines never fails.  An engine is found for every channel the
\* hardware has; engine_init fails when memory is short, and the channels of
\* this direction are not used from there on.
ProbeEngines ==
  /\ Goto("probe", "vectors")
  /\ \E h \in 0 .. Len(H2C), c \in 0 .. Len(C2H) :
       /\ h2cMax' = h /\ c2hMax' = c
       /\ \/ h = Len(H2C) /\ c = Len(C2H) /\ UNCHANGED faults
          \/ (h < Len(H2C) \/ c < Len(C2H)) /\ Fails("probe")
  /\ engines' = Used' /\ engOn' = Used' /\ blockOn' = {}
  /\ UNCHANGED <<held, regionsInUse, offline, mode, lines, hw, work, misuse,
                 irqFailed, redone>>

\* enable_msi_msix sets msix_enabled or msi_enabled also when it fails.
EnableVectors ==
  /\ step = "vectors"
  /\ mode' \in Modes
  /\ \/ /\ step' = "irqs"
        /\ held' = held \cup (IF mode' = "legacy" THEN {} ELSE {"vectors"})
        /\ UNCHANGED faults
     \/ /\ mode' # "legacy" /\ Fails("vectors")
        /\ step' = "remove" /\ UNCHANGED held
  /\ UNCHANGED <<regionsInUse, offline, h2cMax, c2hMax, engines, irq, hw,
                 misuse, irqFailed, redone>>

\* The lines irq_setup requests, in order.
Wanted == IF mode = "msix" THEN Append(UsedSeq, "user") ELSE <<"dev">>

\* irq_setup.  A request that fails ends it; irq_msix_channel_setup keeps the
\* lines it has.
IrqSetup ==
  \/ lines' = Range(Wanted) /\ UNCHANGED <<irqFailed, faults>>
  \/ /\ Fails("irqs")
     /\ \E k \in 0 .. Len(Wanted) - 1 : lines' = Range(SubSeq(Wanted, 1, k))
     /\ irqFailed' = TRUE

OpenIrqs ==
  /\ step = "irqs" /\ IrqSetup
  /\ step' = IF irqFailed' THEN "novectors" ELSE "up"
  /\ UNCHANGED <<dev, blockOn, engOn, hw, work, misuse, redone>>

\* channel_interrupts_enable(~0), then the device is no longer offline.
OpenDone ==
  /\ Goto("up", "open")
  /\ blockOn' = Channels /\ offline' = FALSE
  /\ UNCHANGED <<held, regionsInUse, mode, h2cMax, c2hMax, engines, lines,
                 engOn, hw, work, hist>>

-----------------------------------------------------------------------------
(* xdma_device_close and the error labels, whose order it shares.          *)

\* irq_teardown frees the lines the structure remembers; nothing makes it
\* forget them.
IrqTeardown ==
  /\ lines' = {}
  /\ misuse' = IF Range(Wanted) \subseteq lines THEN misuse
               ELSE misuse \cup {"free_irq"}

Close ==
  /\ step \in {"open", "down"} /\ step' = "quiet"
  /\ redone' = (redone \/ offline)
  /\ UNCHANGED <<dev, irq, hw, misuse, irqFailed, faults>>

CloseQuietUnordered ==
  /\ Goto("quiet", "novectors")
  /\ blockOn' = {} /\ lines' = lines /\ misuse' = misuse
  /\ UNCHANGED <<dev, engOn, hw, work, irqFailed, redone, faults>>

\* Both masks are zeroed, then the lines are freed; free_irq waits for a
\* handler that runs, nobody waits for the work it has queued.
CloseQuiet ==
  /\ Goto("quiet", "novectors")
  /\ blockOn' = {} /\ IrqTeardown
  /\ UNCHANGED <<dev, engOn, hw, work, irqFailed, redone, faults>>

\* disable_msi_msix: from here on the work of an engine lifts the block's mask.
DisableVectors ==
  /\ Goto("novectors", "remove")
  /\ held' = held \ {"vectors"} /\ mode' = "legacy"
  /\ UNCHANGED <<regionsInUse, offline, h2cMax, c2hMax, engines, irq, hw,
                 hist>>

\* remove_engines: every engine is masked and its memory freed.  No engine is
\* stopped.
RemoveEngines ==
  /\ Goto("remove", "unmap")
  /\ engines' = {} /\ engOn' = {}
  /\ UNCHANGED <<held, regionsInUse, offline, mode, h2cMax, c2hMax, lines,
                 blockOn, hw, work, hist>>

Unwinding(s) ==
  CASE s = "unmap" -> <<"bars", "release">> [] s = "release" -> <<"regions", "disable">>
    [] s = "unlist" -> <<"list", "closed">>

\* unmap_bars, pci_release_regions if they were got, xdev_list_remove.
Unwind(s) ==
  /\ Goto(s, Unwinding(s)[2])
  /\ held' = held \ {Unwinding(s)[1]}
  /\ UNCHANGED <<regionsInUse, offline, mode, h2cMax, c2hMax, engines, irq, hw,
                 hist>>

\* pci_disable_device, unless the regions were somebody else's.  Without bus
\* mastering no chain goes on.
Disable ==
  /\ Goto("disable", "unlist")
  /\ IF regionsInUse THEN UNCHANGED <<held, busy, misuse>>
     ELSE /\ held' = held \ {"enable"} /\ busy' = {}
          /\ misuse' = IF "enable" \in held THEN misuse
                       ELSE misuse \cup {"disable"}
  /\ UNCHANGED <<regionsInUse, offline, mode, h2cMax, c2hMax, engines, irq,
                 raised, irqFailed, redone, faults>>

-----------------------------------------------------------------------------
(* xdma_device_offline and xdma_device_online.                             *)

Offline ==
  /\ step \in {"open", "down"} /\ step' = "stop"
  /\ redone' = (redone \/ offline) /\ offline' = TRUE
  /\ UNCHANGED <<held, regionsInUse, mode, h2cMax, c2hMax, engines, irq, hw,
                 misuse, irqFailed, faults>>

\* The engines are told to stop; then as in xdma_device_close.
OfflineQuiet ==
  /\ Goto("stop", "down")
  /\ blockOn' = {} /\ IrqTeardown
  /\ UNCHANGED <<dev, engOn, hw, work, irqFailed, redone, faults>>

\* The slot or function reset: every register has its reset value.  Whether
\* the kernel has the device enabled afterwards is for the caller to say.
HwReset ==
  /\ Goto("down", "reset")
  /\ busy' = {} /\ raised' = {} /\ blockOn' = {} /\ engOn' = {}
  /\ UNCHANGED <<regionsInUse, offline, mode, h2cMax, c2hMax, engines, lines,
                 work, hist>>

OnlineEngines ==
  /\ Goto("reset", "online")
  /\ engOn' = engines
  /\ UNCHANGED <<dev, lines, blockOn, hw, work, hist>>

\* What irq_setup returns is not looked at.
OnlineIrqs ==
  /\ Goto("online", "up") /\ IrqSetup
  /\ UNCHANGED <<dev, blockOn, engOn, hw, work, misuse, redone>>

-----------------------------------------------------------------------------
(* Transfers and their interrupts.                                         *)

\* A transfer that xdma_xfer_submit accepts.
Submit(e) ==
  /\ ~offline /\ e \in engines
  /\ busy' = busy \cup {e}

\* The chain ends, or an error ends it.
HwDone(e) ==
  /\ e \in busy /\ "enable" \in held
  /\ busy' = busy \ {e} /\ raised' = raised \cup {e}
  /\ UNCHANGED <<step, dev, irq, hist>>

\* The hardware numbers the interrupts of its channels in this order.
HwBit(e) == CHOOSE i \in 0 .. Len(H2C \o C2H) - 1 : (H2C \o C2H)[i + 1] = e

\* Once every line is requested, prog_irq_msix_channel writes vector i for
\* interrupt i of those in use; the others keep the reset value 0.
ChannelVector(e) ==
  IF Range(Wanted) \subseteq lines /\ HwBit(e) < Len(UsedSeq)
  THEN HwBit(e) ELSE 0

\* xdma_channel_irq masks the engine whose line it is and queues its work.
ChannelIrq(e) ==
  LET t == UsedSeq[ChannelVector(e) + 1] IN
  /\ mode = "msix" /\ UsedSeq # <<>>
  /\ e \in raised \cap engOn \cap blockOn /\ t \in lines
  /\ engOn' = engOn \ {t} /\ work' = work \cup {t}
  /\ UNCHANGED <<step, dev, lines, blockOn, hw, hist>>

\* engine->irq_bitmask counts the engines initialised before, a failed one
\* included.
IrqBit(e) ==
  LET i == CHOOSE i \in 1 .. Len(UsedSeq) : UsedSeq[i] = e
  IN  IF i <= h2cMax \/ h2cMax = Len(H2C) THEN i - 1 ELSE i

\* xdma_isr masks every channel that fired and queues the work of the engines
\* whose bit is among them.
Isr ==
  LET fired == raised \cap engOn \cap blockOn IN
  /\ mode # "msix" /\ "dev" \in lines /\ fired # {}
  /\ blockOn' = blockOn \ fired
  /\ work' = work \cup {u \in Used : \E e \in fired : IrqBit(u) = HwBit(e)}
  /\ UNCHANGED <<step, dev, lines, engOn, hw, hist>>

UnmaskMsixOnly(e) ==
  IF mode = "msix" THEN engOn' = engOn \cup {e} /\ UNCHANGED blockOn
                   ELSE UNCHANGED <<engOn, blockOn>>

\* The end of engine_service_work: the mask the handler has used is lifted.
Unmask(e) ==
  IF mode = "msix"
  THEN engOn' = engOn \cup {e} /\ UNCHANGED blockOn
  ELSE blockOn' = blockOn \cup {c \in Channels : HwBit(c) = IrqBit(e)}
       /\ UNCHANGED engOn

\* engine_service clears the status.  Of an engine that is gone only the magic
\* number is looked at.
ServiceWork(e) ==
  /\ e \in work /\ work' = work \ {e}
  /\ IF e \in engines
     THEN raised' = raised \ {e} /\ Unmask(e)
     ELSE UNCHANGED <<raised, engOn, blockOn>>
  /\ UNCHANGED <<step, dev, lines, busy, hist>>

-----------------------------------------------------------------------------

OpenStep ==
  \/ \E s \in {"list", "enable", "regions", "bars", "mask"} : OpenTake(s)
  \/ ProbeEngines \/ EnableVectors \/ OpenIrqs \/ OpenDone

CloseStep ==
  \/ CloseQuiet \/ DisableVectors \/ RemoveEngines
  \/ \E s \in {"unmap", "release", "unlist"} : Unwind(s)
  \/ Disable

DevStep == OpenStep \/ CloseStep \/ OfflineQuiet \/ OnlineEngines \/ OnlineIrqs

Interrupt == (\E e \in Channels : ChannelIrq(e)) \/ Isr

=============================================================================
