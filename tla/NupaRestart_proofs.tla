-------------------------- MODULE NupaRestart_proofs --------------------------
(***************************************************************************)
(* Proofs about removing and probing the receiving driver while the other  *)
(* host is quiet, for every number of descriptors and every set of frames. *)
(*                                                                         *)
(* The argument is that nothing is in the ring from adapter_free to the    *)
(* end of adapter_info_init: a transmission that begins while the driver   *)
(* is away reads ready as 0 and is refused, and one that began before has  *)
(* ended.  So the ring comes back in a state in which its own protocol     *)
(* (NupaRing_proofs) holds.                                                *)
(***************************************************************************)
EXTENDS NupaRestart, NupaRing_proofs

Lives == {"up", "down", "cleared", "ready", "positions"}

\* While the driver is away the ring is empty, no descriptor is in use, and a
\* transmission does not get past its look at ready; adapter_info_init numbers
\* the descriptors below initPos.
AwayInv ==
  /\ life \in Lives /\ initPos \in Slots
  /\ life # "positions" => initPos = 0
  /\ life # "up" =>
       /\ head = 0 /\ tail = 0 /\ rxPc = "head"
       /\ \A s \in Slots : descStatus[s] = "INIT"
  /\ life \in {"down", "cleared"} =>
       ~ready /\ txPc \in {"idle", "head", "tail", "ready"}
  /\ life \in {"ready", "positions"} => txPc = "idle"
  /\ life = "positions" =>
       \A s \in Slots : s < initPos => descPos[s] = s

RestartInv == Protocol /\ AwayInv

-----------------------------------------------------------------------------

\* The driver starts up, with an empty ring.
LEMMA RestartInit == RInit => RestartInv
<1> SUFFICES ASSUME RInit PROVE RestartInv
  OBVIOUS
<1>1. Protocol
  BY ProtocolInit DEF RInit
<1>2. 0 \in Slots
  BY RingAssumption DEF Slots
<1> QED
  BY <1>1, <1>2 DEF RInit, RestartInv, AwayInv, Lives

\* An empty ring with both sides at rest satisfies the ring's protocol.
LEMMA RestingProtocol ==
  ASSUME TypeOK', head' = 0, tail' = 0, rxPc' = "head",
         txPc' \in {"idle", "head", "tail", "ready"},
         txPc' \in {"tail", "ready"} => txHead' = 0
  PROVE  Protocol'
<1>1. \A s \in Slots : ~InRing(s)'
  <2> TAKE s \in Slots
  <2>1. Occupancy(0, 0) = 0 /\ Occupancy(s, 0) \in Nat
    BY RingAssumption DEF Occupancy, Slots
  <2> QED
    BY <2>1 DEF InRing
<1>2. SenderInv'
  <2>1. Occupancy(0, 0) = 0 /\ Occupancy(txHead', txTail') \in Nat
    BY OccupancyFacts, RingAssumption DEF TypeOK, Slots
  <2> QED
    BY <2>1 DEF SenderInv, Filling
<1>3. ReceiverInv'
  BY DEF ReceiverInv, Receiving
<1>4. RingInv'
  BY <1>1 DEF RingInv
<1> QED
  BY <1>2, <1>3, <1>4 DEF Protocol

\* The sender and the receiver keep the invariant: while the driver is away
\* only the first steps of a transmission happen.
LEMMA TrafficKeepsRestart ==
  ASSUME Quiet, RestartInv, UNCHANGED <<life, initPos>>,
         \/ life \in {"up", "down", "cleared"} /\ \E f \in Frames : XmitFrame(f)
         \/ TxStep
         \/ life = "up" /\ RxStep
  PROVE  RestartInv'
<1>1. Protocol'
  BY ProtocolStep DEF RestartInv, Next
<1>2. CASE life = "up"
  BY <1>1, <1>2 DEF RestartInv, AwayInv
<1>3. CASE life # "up"
  <2>1. /\ head = 0 /\ tail = 0 /\ rxPc = "head"
        /\ \A s \in Slots : descStatus[s] = "INIT"
        /\ life \in {"down", "cleared"} =>
             ~ready /\ txPc \in {"idle", "head", "tail", "ready"}
        /\ life \in {"ready", "positions"} => txPc = "idle"
        /\ life \in {"down", "cleared", "ready", "positions"}
    BY <1>3 DEF RestartInv, AwayInv, Lives
  <2>2. life \in {"down", "cleared"}
    BY <2>1, <1>3 DEF TxStep, FetchHead, FetchTail, FetchReady, FetchFreeze,
       FetchLength, FetchPublish, FetchOffset, SendData, SendDone, Settle, TxGoto
  <2>3. (\E f \in Frames : XmitFrame(f)) \/ FetchHead \/ FetchTail \/ FetchReady
    BY <2>1, <2>2, <1>3 DEF TxStep, FetchFreeze, FetchLength, FetchPublish,
       FetchOffset, SendData, SendDone, Settle, TxGoto
  <2>4. /\ UNCHANGED <<head, tail, ready, descStatus, rxPc>>
        /\ txPc' \in {"idle", "head", "tail", "ready"}
    BY <2>1, <2>2, <2>3 DEF XmitFrame, FetchHead, FetchTail, FetchReady, TxGoto,
       TxReturn, CanPost, info, desc, rxVars
  <2> QED
    BY <1>1, <1>3, <2>1, <2>2, <2>4 DEF RestartInv, AwayInv
<1> QED
  BY <1>2, <1>3

\* So do the removal and every stage of adapter_info_init.
LEMMA LifecycleKeepsRestart ==
  ASSUME Quiet, RestartInv, Lifecycle
  PROVE  RestartInv'
<1>1. TypeOK /\ 0 \in Slots
  BY RingAssumption DEF RestartInv, Protocol, Slots
<1>2. /\ life \in Lives /\ initPos \in Slots
      /\ life # "positions" => initPos = 0
  BY DEF RestartInv, AwayInv
<1>3. ASSUME life # "up" \/ (rxPc = "head" /\ txPc = "idle"),
             UNCHANGED <<ddr, txVars, rxVars, rcvd, stored>>,
             head' = 0, tail' = 0, TypeOK'
      PROVE  Protocol'
  <2>1. /\ rxPc' = "head" /\ txPc' = txPc /\ txHead' = txHead
        /\ txPc \in {"idle", "head", "tail", "ready"}
        /\ life # "up" => head = 0
        /\ txPc \in {"tail", "ready"} => txHead = head /\ life # "up"
    BY <1>2, <1>3 DEF RestartInv, AwayInv, Lives, Protocol, SenderInv, txVars,
       rxVars
  <2> QED
    BY <1>3, <2>1, RestingProtocol
<1>4. ASSUME ZeroDescs
      PROVE  /\ descPos' \in [Slots -> Slots] /\ descOffset' \in [Slots -> Slots]
             /\ descLength' \in [Slots -> Nat] /\ descStatus' \in [Slots -> Status]
             /\ \A s \in Slots : descStatus'[s] = "INIT"
  BY <1>1, <1>4 DEF ZeroDescs, Status
<1>5. CASE AdapterFree
  <2>1. TypeOK'
    BY <1>1, <1>4, <1>5, Zenon
    DEF AdapterFree, LifeStep, TypeOK, txVars, rxVars
  <2>2. Protocol'
    BY <1>3, <1>5, <2>1 DEF AdapterFree, LifeStep
  <2> QED
    BY <1>1, <1>2, <1>4, <1>5, <2>2
    DEF AdapterFree, LifeStep, RestartInv, AwayInv, Lives, txVars, rxVars
<1>6. CASE InfoClear
  <2>1. TypeOK'
    BY <1>1, <1>4, <1>6, Zenon
    DEF InfoClear, LifeStep, TypeOK, txVars, rxVars
  <2>2. Protocol'
    BY <1>3, <1>6, <2>1 DEF InfoClear, LifeStep
  <2> QED
    BY <1>1, <1>2, <1>4, <1>6, <2>2
    DEF InfoClear, LifeStep, RestartInv, AwayInv, Lives, txVars, rxVars
<1>7. CASE InfoReady
  <2>1. TypeOK'
    BY <1>1, <1>7 DEF InfoReady, LifeStep, TypeOK, txVars, rxVars, desc
  <2>2. Protocol'
    BY <1>3, <1>7, <2>1 DEF InfoReady, LifeStep, RestartInv, AwayInv
  <2> QED
    BY <1>1, <1>2, <1>7, <2>2
    DEF InfoReady, LifeStep, RestartInv, AwayInv, Lives, txVars, rxVars, desc
<1>8. CASE InfoDescs
  <2>1. TypeOK'
    BY <1>1, <1>4, <1>8 DEF InfoDescs, LifeStep, TypeOK, txVars, rxVars, info
  <2>2. Protocol'
    BY <1>3, <1>8, <2>1 DEF InfoDescs, LifeStep, RestartInv, AwayInv, info
  <2> QED
    BY <1>1, <1>2, <1>4, <1>8, <2>2
    DEF InfoDescs, LifeStep, RestartInv, AwayInv, Lives, Slots, txVars, rxVars,
        info
<1>9. CASE InfoPos
  <2>1. TypeOK'
    BY <1>1, <1>2, <1>9 DEF InfoPos, TypeOK, txVars, rxVars, info
  <2>2. Protocol'
    BY <1>3, <1>9, <2>1 DEF InfoPos, RestartInv, AwayInv, info
  <2>3. initPos' \in Slots
    BY <1>1, <1>2, <1>9, RingAssumption DEF InfoPos, Slots
  <2>4. \A s \in Slots : s < initPos' => descPos'[s] = s
    BY <1>1, <1>2, <1>9 DEF InfoPos, RestartInv, AwayInv, TypeOK, Slots
  <2> QED
    BY <1>1, <1>2, <1>9, <2>2, <2>3, <2>4
    DEF InfoPos, RestartInv, AwayInv, Lives, txVars, rxVars, info
<1> QED
  BY <1>5, <1>6, <1>7, <1>8, <1>9 DEF Lifecycle

\* The two together.
LEMMA RestartStep == Quiet /\ RestartInv /\ [RNext]_rvars => RestartInv'
<1> SUFFICES ASSUME Quiet, RestartInv, [RNext]_rvars PROVE RestartInv'
  OBVIOUS
<1>1. CASE Lifecycle
  BY <1>1, LifecycleKeepsRestart
<1>2. CASE RNext /\ ~Lifecycle
  BY <1>2, TrafficKeepsRestart, Zenon DEF RNext
<1>3. CASE UNCHANGED rvars
  <2>1. Protocol'
    BY <1>3, ProtocolStep DEF rvars, RestartInv
  <2> QED
    BY <1>3, <2>1 DEF rvars, vars, info, desc, txVars, rxVars, RestartInv, AwayInv
<1> QED
  BY <1>1, <1>2, <1>3

\* The ring's protocol survives every removal and probe of the receiving driver
\* while the other host is quiet.
THEOREM RestartCorrect ==
  ASSUME Quiet
  PROVE  RSpec => []RestartInv
<1>1. RestartInv /\ [RNext]_rvars => RestartInv'
  BY RestartStep
<1> QED
  BY <1>1, RestartInit, PTL DEF RSpec

\* When adapter_info_init clears the descriptors, the other host has published
\* nothing in them, for every number of descriptors: as long as it is quiet, it
\* does no harm that ready is set before the descriptors are cleared.
THEOREM RestartIsClean ==
  ASSUME Quiet
  PROVE  RSpec => []CleanFirst
<1>1. RestartInv => CleanFirst
  BY DEF RestartInv, AwayInv, CleanFirst
<1> QED
  BY <1>1, RestartCorrect, PTL

\* Sender and receiver keep apart over removals and probes, too: a transmission
\* that read the indices of the earlier life never writes a descriptor of the
\* later one.
THEOREM RestartSlotsExclusive ==
  ASSUME Quiet
  PROVE  RSpec => []SlotExclusive
<1>1. RestartInv => SlotExclusive
  BY ProtocolExcludes DEF RestartInv
<1> QED
  BY <1>1, RestartCorrect, PTL

-----------------------------------------------------------------------------

\* What the frames of a driver that is up look like.
UpContents == life = "up" => Contents

\* The end of adapter_info_init leaves nothing that Contents speaks of.
LEMMA UpContentsStep ==
  ASSUME Quiet, DmaOutcomes = {"done"}, RestartInv, RestartInv', UpContents,
         [RNext]_rvars
  PROVE  UpContents'
<1>1. CASE life = "up" /\ [Next]_vars
  BY <1>1, ContentsStep DEF UpContents, RestartInv
<1>2. CASE life # "up" /\ UNCHANGED life
  BY <1>2 DEF UpContents
<1>3. CASE Lifecycle
  <2>1. CASE life' # "up"
    BY <2>1 DEF UpContents
  <2>2. CASE life' = "up"
    <3>1. InfoPos
      BY <1>3, <2>2
      DEF Lifecycle, AdapterFree, InfoClear, InfoReady, InfoDescs, LifeStep
    <3>2. /\ life = "positions" /\ initPos \in Slots
          /\ descPos \in [Slots -> Slots]
      BY <3>1 DEF InfoPos, RestartInv, AwayInv, Protocol, TypeOK
    <3>3. ~(initPos + 1 < MAX_DESC_NUM)
      BY <3>1, <2>2 DEF InfoPos
    <3>4. initPos = MAX_DESC_NUM - 1
      BY <3>2, <3>3, RingAssumption DEF Slots
    <3>5. descPos' = [s \in Slots |-> s]
      <4>1. \A s \in Slots : s < initPos => descPos[s] = s
        BY <3>2 DEF RestartInv, AwayInv
      <4>2. descPos' = [descPos EXCEPT ![initPos] = initPos]
        BY <3>1 DEF InfoPos
      <4>3. \A s \in Slots : s < initPos \/ s = initPos
        BY <3>2, <3>4, RingAssumption DEF Slots
      <4> QED
        BY <3>2, <4>1, <4>2, <4>3, Zenon
    <3>6. head' = 0 /\ tail' = 0 /\ rxPc' = "head" /\ txPc' = "idle"
      BY <3>1 DEF InfoPos, RestartInv, AwayInv, info, txVars, rxVars
    <3>7. \A s \in Slots : ~InRing(s)'
      <4> TAKE s \in Slots
      <4>1. Occupancy(0, 0) = 0 /\ Occupancy(s, 0) \in Nat
        BY RingAssumption DEF Occupancy, Slots
      <4> QED
        BY <3>6, <4>1 DEF InRing
    <3> QED
      BY <3>5, <3>6, <3>7 DEF UpContents, Contents, Filling
  <2> QED
    BY <2>1, <2>2
<1> QED
  BY <1>1, <1>2, <1>3 DEF RNext, rvars, Next

\* With DMA transfers that succeed, every frame that nupanet_poll hands to the
\* stack is whole and has its own length, in every life of the receiving driver.
THEOREM RestartPayloadsIntact ==
  ASSUME Quiet, DmaOutcomes = {"done"}
  PROVE  RSpec => []PayloadIntact
<1>1. RestartInv /\ UpContents => PayloadIntact
  BY DEF RestartInv, AwayInv, UpContents, Contents, PayloadIntact
<1>2. RestartInv /\ RestartInv' /\ UpContents /\ [RNext]_rvars => UpContents'
  BY UpContentsStep
<1>3. RInit => UpContents
  BY ContentsInit DEF RInit, UpContents
<1> QED
  BY <1>1, <1>2, <1>3, RestartCorrect, PTL DEF RSpec

=============================================================================
