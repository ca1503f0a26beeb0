----------------------------- MODULE NupaRestart -----------------------------
(***************************************************************************)
(* NupaRing whose receiving host removes the driver (adapter_free clears   *)
(* its INFO area) and probes it again (adapter_info_init), while the other *)
(* host may be in the middle of a transmission.  The memset of a whole     *)
(* area is one step; the stores around it are steps of their own.          *)
(***************************************************************************)
EXTENDS NupaRing

\* Quiet: no transmission is under way when the driver is removed or when it
\* sets ready, and none begins from then until the descriptors are set up.
CONSTANT Quiet
ASSUME QuietAssumption == Quiet \in BOOLEAN

VARIABLES life, initPos   \* the receiving driver's state, the loop's pos

rvars == <<vars, life, initPos>>

RInit == Init /\ life = "up" /\ initPos = 0

ZeroDescs ==
  /\ descPos' = [s \in Slots |-> 0] /\ descOffset' = [s \in Slots |-> 0]
  /\ descLength' = [s \in Slots |-> 0]
  /\ descStatus' = [s \in Slots |-> "INIT"]

LifeStep(from, to) ==
  /\ life = from /\ life' = to
  /\ UNCHANGED <<ddr, txVars, rxVars, rcvd, stored, initPos>>

\* netif_napi_del waits for a poll under way before the area is cleared.  A poll
\* that begins behind it and is still under way when the area is cleared goes
\* on in an area that is then unmapped (PollFault in NupaDriver), and is left
\* out.
AdapterFree ==
  /\ rxPc = "head"
  /\ Quiet => txPc = "idle"
  /\ LifeStep("up", "down")
  /\ head' = 0 /\ tail' = 0 /\ ready' = FALSE /\ ZeroDescs

InfoClear ==
  /\ LifeStep("down", "cleared")
  /\ head' = 0 /\ tail' = 0 /\ ready' = FALSE /\ ZeroDescs

InfoReady ==
  /\ Quiet => txPc = "idle"
  /\ LifeStep("cleared", "ready")
  /\ ready' = TRUE
  /\ UNCHANGED <<head, tail, desc>>

InfoDescs ==
  /\ LifeStep("ready", "positions")
  /\ ZeroDescs
  /\ UNCHANGED info

InfoPosSkipped ==
  /\ life = "positions" /\ life' = "up"
  /\ UNCHANGED <<vars, initPos>>

InfoPos ==
  /\ life = "positions"
  /\ descPos' = [descPos EXCEPT ![initPos] = initPos]
  /\ IF initPos + 1 < MAX_DESC_NUM
     THEN initPos' = initPos + 1 /\ life' = life
     ELSE initPos' = 0 /\ life' = "up"
  /\ UNCHANGED <<info, descOffset, descLength, descStatus, ddr, txVars, rxVars,
                 rcvd, stored>>

Lifecycle == AdapterFree \/ InfoClear \/ InfoReady \/ InfoDescs \/ InfoPos

\* A sender polls nothing: whether the receiver is there, only ready tells.
RNext ==
  \/ /\ Quiet => life \in {"up", "down", "cleared"}
     /\ (\E f \in Frames : XmitFrame(f)) /\ UNCHANGED <<life, initPos>>
  \/ TxStep /\ UNCHANGED <<life, initPos>>
  \/ life = "up" /\ RxStep /\ UNCHANGED <<life, initPos>>
  \/ Lifecycle

RSpec == RInit /\ [][RNext]_rvars

\* adapter_info_init's "clean my shm space first": when the descriptors are
\* cleaned none of them holds a frame that the other host has published.
CleanFirst ==
  life = "ready" => \A s \in Slots : descStatus[s] \notin {"FREEZING", "SETTLED"}

=============================================================================
