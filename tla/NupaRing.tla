------------------------------ MODULE NupaRing ------------------------------
(***************************************************************************)
(* One direction of the nupanet link: the packet descriptor ring in the    *)
(* receiving host's INFO area of the shared BAR, filled by the other       *)
(* host's nupanet_xmit_frame and drained by the receiving host's           *)
(* nupanet_poll.  Every access to the shared area is a step of its own,    *)
(* because the two hosts share nothing but that memory: there is no lock.  *)
(*                                                                         *)
(* The hosts' own kernels give each side one thread: the transmit queue    *)
(* lock runs one ndo_start_xmit at a time, and NAPI runs one poll at a     *)
(* time.  With MAX_AGENT_NUM = 2 there is one sender per ring, and the     *)
(* ring of the other direction lies in disjoint memory.                    *)
(*                                                                         *)
(* Left out: packets_info.total_len, which both hosts write and neither    *)
(* reads (the test in fetch_packet_desc reads an uninitialised local).     *)
(***************************************************************************)
EXTENDS Integers, Sequences

CONSTANTS
  MAX_DESC_NUM,       \* descriptors in a ring
  DESC_MAX_DMA_SIZE,  \* bytes of FPGA memory behind one descriptor
  Frames,             \* payloads the sender's network stack may hand over
  FrameLen,           \* skb_headlen of each of them
  Garbage,            \* memory contents that are no whole frame
  DmaOutcomes         \* what xdma_transfer_data may do: "done", "failed"

ASSUME RingAssumption ==
  /\ MAX_DESC_NUM \in Nat \ {0, 1}
  /\ DESC_MAX_DMA_SIZE \in Nat
  /\ Garbage \notin Frames
  /\ FrameLen \in [Frames -> Nat]
  /\ DmaOutcomes \subseteq {"done", "failed"}

\* The ring's index arithmetic masks with MAX_DESC_NUM - 1 in one place and
\* takes the remainder in two others; the two agree on powers of two.
ASSUME MaskAssumption == \E k \in 1..31 : MAX_DESC_NUM = 2^k

VARIABLES
  head, tail, ready,                           \* packets_info
  descPos, descOffset, descLength, descStatus, \* packet_desc[MAX_DESC_NUM]
  ddr,         \* the receiver's part of the FPGA memory, by descriptor
  txPc, txSkb, txHead, txTail,                 \* nupanet_xmit_frame
  rxPc, rxHead, rxTail, rxOffset, rxLength, rxBuf, \* nupanet_poll
  rcvd,        \* the last skb handed to napi_gro_receive
  stored       \* history: the frame last published at each descriptor

info   == <<head, tail, ready>>
desc   == <<descPos, descOffset, descLength, descStatus>>
txVars == <<txPc, txSkb, txHead, txTail>>
rxVars == <<rxPc, rxHead, rxTail, rxOffset, rxLength, rxBuf>>
vars   == <<info, desc, ddr, txVars, rxVars, rcvd, stored>>

Slots  == 0 .. MAX_DESC_NUM - 1
Data   == Frames \cup {Garbage}
Status == {"INIT", "FREEZING", "SETTLED", "RELEASED"}
Skbs   == [data : Data, len : Nat]

OffsetOfFirst(pos) == 0

\* An offset is the number of the DESC_MAX_DMA_SIZE block it points to in
\* the receiver's AGENT_TOTAL_DMA_SIZE bytes.
OffsetOf(pos) == pos

NextSlotNoWrap(s) == s + 1

NextSlot(s) == (s + 1) % MAX_DESC_NUM

TxPcs == {"idle", "head", "tail", "ready", "freeze", "length", "publish",
          "offset", "send", "sending", "settle"}
RxPcs == {"head", "tail", "spin", "settled", "advance", "desc", "receive",
          "receiving", "release", "deliver"}

\* The area as adapter_info_init leaves it, both hosts idle.
Init ==
  /\ head = 0 /\ tail = 0 /\ ready = TRUE
  /\ descPos = [s \in Slots |-> s]
  /\ descOffset = [s \in Slots |-> 0]
  /\ descLength = [s \in Slots |-> 0]
  /\ descStatus = [s \in Slots |-> "INIT"]
  /\ ddr = [s \in Slots |-> Garbage]
  /\ txPc = "idle" /\ txSkb = Garbage /\ txHead = 0 /\ txTail = 0
  /\ rxPc = "head" /\ rxHead = 0 /\ rxTail = 0
  /\ rxOffset = 0 /\ rxLength = 0 /\ rxBuf = Garbage
  /\ rcvd = [data |-> Garbage, len |-> 0]
  /\ stored = [s \in Slots |-> Garbage]

-----------------------------------------------------------------------------
(* The sender: nupanet_xmit_frame, fetch_packet_desc, xdma_send_data.      *)

TxGoto(from, to) == txPc = from /\ txPc' = to

\* dev_kfree_skb and return NETDEV_TX_OK; the locals are dead.
TxReturn ==
  /\ txPc' = "idle" /\ txSkb' = Garbage /\ txHead' = 0 /\ txTail' = 0

\* A frame longer than a block is freed on the spot and touches nothing.
XmitFrame(f) ==
  /\ TxGoto("idle", "head")
  /\ FrameLen[f] <= DESC_MAX_DMA_SIZE
  /\ txSkb' = f
  /\ UNCHANGED <<info, desc, ddr, txHead, txTail, rxVars, rcvd, stored>>

FetchHead ==
  /\ TxGoto("head", "tail")
  /\ txHead' = head
  /\ UNCHANGED <<info, desc, ddr, txSkb, txTail, rxVars, rcvd, stored>>

FetchTail ==
  /\ TxGoto("tail", "ready")
  /\ txTail' = tail
  /\ UNCHANGED <<info, desc, ddr, txSkb, txHead, rxVars, rcvd, stored>>

RingFullNever(h, t) == FALSE

RingFull(h, t) == NextSlot(h) = t

CanPostUnready(h, t) == ~RingFull(h, t)

CanPost(h, t) == ready /\ ~RingFull(h, t)

\* The local total_len is uninitialised, so "Agent data full" may be taken
\* whatever the ring holds: the first disjunct needs no reason.
FetchReady ==
  /\ txPc = "ready"
  /\ \/ TxReturn
     \/ /\ CanPost(txHead, txTail)
        /\ txPc' = "freeze" /\ UNCHANGED <<txSkb, txHead, txTail>>
  /\ UNCHANGED <<info, desc, ddr, rxVars, rcvd, stored>>

FetchFreeze ==
  /\ TxGoto("freeze", "length")
  /\ descStatus' = [descStatus EXCEPT ![txHead] = "FREEZING"]
  /\ UNCHANGED <<info, descPos, descOffset, descLength, ddr, txSkb, txHead,
                 txTail, rxVars, rcvd, stored>>

FetchLength ==
  /\ TxGoto("length", "publish")
  /\ descLength' = [descLength EXCEPT ![txHead] = FrameLen[txSkb]]
  /\ UNCHANGED <<info, descPos, descOffset, descStatus, ddr, txSkb, txHead,
                 txTail, rxVars, rcvd, stored>>

FetchPublish ==
  /\ TxGoto("publish", "offset")
  /\ head' = NextSlot(txHead)
  /\ stored' = [stored EXCEPT ![txHead] = txSkb]
  /\ UNCHANGED <<tail, ready, desc, ddr, txSkb, txHead, txTail, rxVars, rcvd>>

FetchOffset ==
  /\ TxGoto("offset", "send")
  /\ descOffset' = [descOffset EXCEPT ![txHead] = OffsetOf(descPos[txHead])]
  /\ UNCHANGED <<info, descPos, descLength, descStatus, ddr, txSkb, txHead,
                 txTail, rxVars, rcvd, stored>>

\* The DMA write overwrites the block piece by piece: it is garbage from the
\* first byte until the last one has landed.
SendData ==
  /\ TxGoto("send", "sending")
  /\ ddr' = [ddr EXCEPT ![descOffset[txHead]] = Garbage]
  /\ UNCHANGED <<info, desc, txSkb, txHead, txTail, rxVars, rcvd, stored>>

\* desc->length bytes of the skb are copied and sent.  The result of
\* xdma_send_data is ignored: a failed write settles like any other.
SendDone ==
  /\ TxGoto("sending", "settle")
  /\ \E o \in DmaOutcomes :
       ddr' = IF o = "done" /\ descLength[txHead] = FrameLen[txSkb]
              THEN [ddr EXCEPT ![descOffset[txHead]] = txSkb]
              ELSE ddr
  /\ UNCHANGED <<info, desc, txSkb, txHead, txTail, rxVars, rcvd, stored>>

SettleForgotten ==
  /\ txPc = "settle"
  /\ TxReturn
  /\ UNCHANGED <<info, desc, ddr, rxVars, rcvd, stored>>

Settle ==
  /\ txPc = "settle"
  /\ descStatus' = [descStatus EXCEPT ![txHead] = "SETTLED"]
  /\ TxReturn
  /\ UNCHANGED <<info, descPos, descOffset, descLength, ddr, rxVars, rcvd,
                 stored>>

\* The steps of a transmission under way; a new one starts at will.
TxStep ==
  \/ FetchHead \/ FetchTail \/ FetchReady \/ FetchFreeze \/ FetchLength
  \/ FetchPublish \/ FetchOffset \/ SendData \/ SendDone \/ Settle

-----------------------------------------------------------------------------
(* The receiver: the loop of nupanet_poll, nupa_data_available and         *)
(* xdma_receive_data.  Its budget and the NAPI state are not modelled      *)
(* here: whatever ends the loop, the next poll resumes at its top.         *)

RxGoto(from, to) == rxPc = from /\ rxPc' = to

RxReturn ==
  /\ rxPc' = "head" /\ rxHead' = 0 /\ rxTail' = 0
  /\ rxOffset' = 0 /\ rxLength' = 0 /\ rxBuf' = Garbage

AvailableHead ==
  /\ RxGoto("head", "tail")
  /\ rxHead' = head
  /\ UNCHANGED <<info, desc, ddr, txVars, rxTail, rxOffset, rxLength, rxBuf,
                 rcvd, stored>>

AvailableTail ==
  /\ rxPc = "tail"
  /\ \/ /\ rxHead = tail
        /\ RxReturn
     \/ /\ rxHead # tail
        /\ rxPc' = "spin" /\ rxTail' = tail
        /\ UNCHANGED <<rxHead, rxOffset, rxLength, rxBuf>>
  /\ UNCHANGED <<info, desc, ddr, txVars, rcvd, stored>>

\* while (desc->status == PACKET_FREEZING): a busy wait on the sender.
AvailableSpin ==
  /\ RxGoto("spin", "settled")
  /\ descStatus[rxTail] # "FREEZING"
  /\ UNCHANGED <<info, desc, ddr, txVars, rxHead, rxTail, rxOffset, rxLength,
                 rxBuf, rcvd, stored>>

\* A descriptor that is neither SETTLED, INIT nor RELEASED passes both tests
\* and would be received without moving the tail.
AvailableSettled ==
  /\ rxPc = "settled"
  /\ IF descStatus[rxTail] \in {"INIT", "RELEASED"}
     THEN RxReturn
     ELSE /\ rxPc' = IF descStatus[rxTail] = "SETTLED" THEN "advance" ELSE "desc"
          /\ UNCHANGED <<rxHead, rxTail, rxOffset, rxLength, rxBuf>>
  /\ UNCHANGED <<info, desc, ddr, txVars, rcvd, stored>>

AdvanceForgotten ==
  /\ RxGoto("advance", "desc")
  /\ UNCHANGED <<info, desc, ddr, txVars, rxHead, rxTail, rxOffset, rxLength,
                 rxBuf, rcvd, stored>>

\* The slot is given back before its payload has been read.
AvailableAdvance ==
  /\ RxGoto("advance", "desc")
  /\ tail' = NextSlot(rxTail)
  /\ UNCHANGED <<head, ready, desc, ddr, txVars, rxHead, rxTail, rxOffset,
                 rxLength, rxBuf, rcvd, stored>>

\* kmalloc may fail: the loop ends and the descriptor is never released.
ReceiveDesc ==
  /\ rxPc = "desc"
  /\ \/ RxReturn
     \/ /\ rxPc' = "receive"
        /\ rxOffset' = descOffset[rxTail] /\ rxLength' = descLength[rxTail]
        /\ UNCHANGED <<rxHead, rxTail, rxBuf>>
  /\ UNCHANGED <<info, desc, ddr, txVars, rcvd, stored>>

ReceiveData ==
  /\ RxGoto("receive", "receiving")
  /\ rxBuf' = ddr[rxOffset]
  /\ UNCHANGED <<info, desc, ddr, txVars, rxHead, rxTail, rxOffset, rxLength,
                 rcvd, stored>>

\* A block that changed while it was read, or a failed read, leaves garbage
\* in the buffer, which becomes an skb all the same.
ReceiveDone ==
  /\ RxGoto("receiving", "release")
  /\ \E o \in DmaOutcomes :
       rxBuf' = IF o = "done" /\ ddr[rxOffset] = rxBuf THEN rxBuf ELSE Garbage
  /\ UNCHANGED <<info, desc, ddr, txVars, rxHead, rxTail, rxOffset, rxLength,
                 rcvd, stored>>

Release ==
  /\ RxGoto("release", "deliver")
  /\ descStatus' = [descStatus EXCEPT ![rxTail] = "RELEASED"]
  /\ UNCHANGED <<info, descPos, descOffset, descLength, ddr, txVars, rxHead,
                 rxTail, rxOffset, rxLength, rxBuf, rcvd, stored>>

Deliver ==
  /\ rxPc = "deliver"
  /\ rcvd' = [data |-> rxBuf, len |-> rxLength]
  /\ RxReturn
  /\ UNCHANGED <<info, desc, ddr, txVars, stored>>

RxStep ==
  \/ AvailableHead \/ AvailableTail \/ AvailableSpin \/ AvailableSettled
  \/ AvailableAdvance \/ ReceiveDesc \/ ReceiveData \/ ReceiveDone
  \/ Release \/ Deliver

-----------------------------------------------------------------------------

Next == (\E f \in Frames : XmitFrame(f)) \/ TxStep \/ RxStep

Spec == Init /\ [][Next]_vars

\* A transmission that has begun runs in the sender's kernel to its end, and
\* the poll thread keeps scheduling the receiver's poll.
FairSpec == Spec /\ WF_vars(TxStep) /\ WF_vars(RxStep)

-----------------------------------------------------------------------------

\* Every variable stays in its range: indices are descriptors, statuses and
\* lengths are ones the code writes.
TypeOK ==
  /\ head \in Slots /\ tail \in Slots /\ ready \in BOOLEAN
  /\ descPos \in [Slots -> Slots] /\ descOffset \in [Slots -> Slots]
  /\ descLength \in [Slots -> Nat] /\ descStatus \in [Slots -> Status]
  /\ ddr \in [Slots -> Data]
  /\ txPc \in TxPcs /\ txSkb \in Data /\ txHead \in Slots /\ txTail \in Slots
  /\ txPc # "idle" => txSkb \in Frames
  /\ rxPc \in RxPcs /\ rxHead \in Slots /\ rxTail \in Slots
  /\ rxOffset \in Slots /\ rxLength \in Nat /\ rxBuf \in Data
  /\ rcvd \in Skbs
  /\ stored \in [Slots -> Data]

\* The number of published descriptors from t up to h.
Occupancy(h, t) == IF h >= t THEN h - t ELSE h + MAX_DESC_NUM - t

\* Descriptor s is published and not yet given back.
InRing(s) == Occupancy(s, tail) < Occupancy(head, tail)

\* From the first write to its descriptor to the last, the sender owns it.
TxOwns(s) ==
  /\ txHead = s
  /\ txPc \in {"freeze", "length", "publish", "offset", "send", "sending",
               "settle"}

\* The receiver still reads the descriptor or its block, or will write it.
RxOwns(s) ==
  /\ rxTail = s
  /\ rxPc \in {"advance", "desc", "receive", "receiving", "release"}

\* nupa_data_available moves the tail before xdma_receive_data has read the
\* payload and before the descriptor is RELEASED; the sender nevertheless
\* never writes a descriptor, or the block behind it, that the receiver has
\* not finished with.
SlotExclusive == \A s \in Slots : ~(TxOwns(s) /\ RxOwns(s))

\* The skb that nupanet_poll is about to hand to the stack is the whole frame
\* the sender published in that descriptor, with that frame's length.
PayloadIntact ==
  rxPc \in {"release", "deliver"} =>
    /\ rxBuf = stored[rxTail]
    /\ rxBuf \in Frames /\ rxLength = FrameLen[rxBuf]

\* What the receiver takes as settled ("only cope with data settled") is the
\* frame that was published there: its block holds the frame's bytes.
SettledIsData ==
  \A s \in Slots : InRing(s) /\ descStatus[s] = "SETTLED" =>
    ddr[descOffset[s]] = stored[s]

\* Every published descriptor is given back in the end: the busy wait on a
\* FREEZING descriptor ends, and the poll never stays on one descriptor.  The
\* tail gives descriptors back in order, so it is enough that it never stays
\* for ever at one place of a ring that is never empty again.
PublishedIsConsumed == []<>(head = tail) \/ []<><<tail' # tail>>_tail

\* The frames under way, oldest first: the one being received, whose
\* descriptor has left the ring already, then the published ones.
Receiving == rxPc \in {"desc", "receive", "receiving", "release", "deliver"}
Published == [i \in 1 .. Occupancy(head, tail) |->
                stored[(tail + i - 1) % MAX_DESC_NUM]]
Queue == IF Receiving THEN <<stored[rxTail]>> \o Published ELSE Published
Channel == INSTANCE NupaChannel WITH Capacity <- MAX_DESC_NUM, queue <- Queue

\* The ring implements the bounded lossy FIFO: no frame is duplicated,
\* reordered, damaged or delivered with a wrong length, whatever the
\* interleaving of the two hosts' accesses.
ChannelSpec == Channel!Spec

=============================================================================
