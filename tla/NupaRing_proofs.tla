--------------------------- MODULE NupaRing_proofs ---------------------------
(***************************************************************************)
(* Proofs about the ring of NupaRing for every number of descriptors and   *)
(* every set of frames.                                                    *)
(*                                                                         *)
(* The argument is about two stale reads.  The sender decides that the     *)
(* ring has room from a tail it read earlier, the receiver that it is not  *)
(* empty from a head it read earlier.  Both are conservative: since the    *)
(* sender alone moves the head and the receiver alone moves the tail, the  *)
(* true occupancy can only be smaller than the one the sender computed and *)
(* larger than the one the receiver computed.  The descriptor kept free    *)
(* (the ring is full at MAX_DESC_NUM - 1) is then exactly the one that the *)
(* receiver has taken out of the ring and still reads.                     *)
(***************************************************************************)
EXTENDS NupaRing, SequenceTheorems, TLAPS

\* The sender has published its descriptor and has not settled it.
Filling == txPc \in {"offset", "send", "sending", "settle"}

\* The sender's copy of the head, and the room it found.
SenderInv ==
  /\ txPc \in {"tail", "ready", "freeze", "length", "publish"} => txHead = head
  /\ txPc = "ready" => Occupancy(head, tail) <= Occupancy(txHead, txTail)
  /\ txPc \in {"freeze", "length", "publish"} =>
       Occupancy(head, tail) <= MAX_DESC_NUM - 2
  /\ txPc \in {"length", "publish"} \/ Filling => descStatus[txHead] = "FREEZING"
  /\ Filling => InRing(txHead)

\* The receiver's copies of the head and the tail, and the descriptor it has
\* chosen.
ReceiverInv ==
  /\ rxPc = "tail" => Occupancy(rxHead, tail) <= Occupancy(head, tail)
  /\ rxPc \in {"spin", "settled", "advance"} => rxTail = tail /\ head # tail
  /\ rxPc \in {"settled", "advance"} => descStatus[rxTail] = "SETTLED"
  /\ Receiving => tail = NextSlot(rxTail)

\* Every published descriptor is settled but the one being filled.
RingInv ==
  \A s \in Slots : InRing(s) =>
    descStatus[s] = "SETTLED" \/ (Filling /\ s = txHead)

Protocol == TypeOK /\ SenderInv /\ ReceiverInv /\ RingInv

\* The frame in descriptor s is complete: its bytes, its length, its place.
Holds(s) ==
  /\ descOffset[s] = s /\ ddr[s] = stored[s]
  /\ stored[s] \in Frames /\ descLength[s] = FrameLen[stored[s]]

\* What each side knows of the frame it is working on.
Contents ==
  /\ descPos = [s \in Slots |-> s]
  /\ txPc = "publish" \/ Filling => descLength[txHead] = FrameLen[txSkb]
  /\ Filling => stored[txHead] = txSkb
  /\ txPc \in {"send", "sending", "settle"} => descOffset[txHead] = txHead
  /\ txPc = "settle" => ddr[txHead] = txSkb
  /\ \A s \in Slots : InRing(s) /\ descStatus[s] = "SETTLED" => Holds(s)
  /\ rxPc = "desc" => Holds(rxTail)
  /\ rxPc \in {"receive", "receiving"} =>
       ddr[rxTail] = stored[rxTail] /\ rxOffset = rxTail
  /\ rxPc \in {"receive", "receiving", "release", "deliver"} =>
       stored[rxTail] \in Frames /\ rxLength = FrameLen[stored[rxTail]]
  /\ rxPc \in {"receiving", "release", "deliver"} => rxBuf = stored[rxTail]

-----------------------------------------------------------------------------

\* The ring's index arithmetic, free of the remainder: the successor of the
\* last descriptor is the first one.
LEMMA NextSlotWraps ==
  \A s \in Slots :
    /\ NextSlot(s) = IF s = MAX_DESC_NUM - 1 THEN 0 ELSE s + 1
    /\ NextSlot(s) \in Slots
BY RingAssumption DEF Slots, NextSlot

\* The ring as adapter_info_init leaves it is well typed.
LEMMA TypeInit == Init => TypeOK
<1> SUFFICES ASSUME Init PROVE TypeOK
  OBVIOUS
<1>1. 0 \in Slots /\ 0 \in Nat
  BY RingAssumption DEF Slots
<1>2. ready \in BOOLEAN
  BY Zenon DEF Init
<1> QED
  BY <1>1, <1>2 DEF Init, TypeOK, Data, Status, Skbs, TxPcs, RxPcs

\* Every step of the sender and of the receiver keeps every variable in its
\* range.
LEMMA TypeStep == TypeOK /\ [Next]_vars => TypeOK'
<1> SUFFICES ASSUME TypeOK, [Next]_vars PROVE TypeOK'
  OBVIOUS
<1> USE NextSlotWraps, RingAssumption DEF TypeOK, Data, Status, TxPcs, RxPcs
<1>0. 0 \in Slots
  BY DEF Slots
<1>1. ASSUME NEW f \in Frames, XmitFrame(f) PROVE TypeOK'
  BY <1>1 DEF XmitFrame, TxGoto, info, desc, rxVars
<1>2. CASE FetchHead
  BY <1>0, <1>2 DEF FetchHead, TxGoto, info, desc, rxVars
<1>3. CASE FetchTail
  BY <1>0, <1>3 DEF FetchTail, TxGoto, info, desc, rxVars
<1>4. CASE FetchReady
  BY <1>0, <1>4 DEF FetchReady, TxReturn, info, desc, rxVars
<1>5. CASE FetchFreeze
  BY <1>0, <1>5 DEF FetchFreeze, TxGoto, info, rxVars
<1>6. CASE FetchLength
  BY <1>0, <1>6 DEF FetchLength, TxGoto, info, rxVars
<1>7. CASE FetchPublish
  BY <1>0, <1>7 DEF FetchPublish, TxGoto, desc, rxVars
<1>8. CASE FetchOffset
  BY <1>0, <1>8 DEF FetchOffset, TxGoto, OffsetOf, info, rxVars
<1>9. CASE SendData
  BY <1>0, <1>9 DEF SendData, TxGoto, info, desc, rxVars
<1>10. CASE SendDone
  BY <1>0, <1>10 DEF SendDone, TxGoto, info, desc, rxVars
<1>11. CASE Settle
  BY <1>0, <1>11 DEF Settle, TxReturn, info, rxVars
<1>12. CASE AvailableHead
  BY <1>0, <1>12 DEF AvailableHead, RxGoto, info, desc, txVars
<1>13. CASE AvailableTail
  BY <1>0, <1>13 DEF AvailableTail, RxReturn, info, desc, txVars
<1>14. CASE AvailableSpin
  BY <1>0, <1>14 DEF AvailableSpin, RxGoto, info, desc, txVars
<1>15. CASE AvailableSettled
  BY <1>0, <1>15 DEF AvailableSettled, RxReturn, info, desc, txVars
<1>16. CASE AvailableAdvance
  BY <1>0, <1>16 DEF AvailableAdvance, RxGoto, desc, txVars
<1>17. CASE ReceiveDesc
  BY <1>0, <1>17 DEF ReceiveDesc, RxReturn, info, desc, txVars
<1>18. CASE ReceiveData
  BY <1>0, <1>18 DEF ReceiveData, RxGoto, info, desc, txVars
<1>19. CASE ReceiveDone
  BY <1>0, <1>19 DEF ReceiveDone, RxGoto, info, desc, txVars
<1>20. CASE Release
  BY <1>0, <1>20 DEF Release, RxGoto, info, txVars
<1>21. CASE Deliver
  BY <1>0, <1>21 DEF Deliver, RxReturn, Skbs, info, desc, txVars
<1>22. CASE UNCHANGED vars
  BY <1>22 DEF vars, info, desc, txVars, rxVars
<1>. QED
  BY <1>1, <1>2, <1>3, <1>4, <1>5, <1>6, <1>7, <1>8, <1>9, <1>10, <1>11,
     <1>12, <1>13, <1>14, <1>15, <1>16, <1>17, <1>18, <1>19,
     <1>20, <1>21, <1>22, Zenon
  DEF Next, TxStep, RxStep

\* Every variable of the ring keeps its type, whatever the number of
\* descriptors and however the two hosts' accesses interleave.
THEOREM TypeCorrect == Spec => []TypeOK
BY TypeInit, TypeStep, PTL DEF Spec

-----------------------------------------------------------------------------

\* How the occupancy of the ring moves with the head and with the tail.
LEMMA OccupancyFacts ==
  ASSUME NEW h \in Slots, NEW t \in Slots
  PROVE  /\ Occupancy(h, t) \in 0 .. MAX_DESC_NUM - 1
         /\ Occupancy(h, t) = 0 <=> h = t
         /\ RingFull(h, t) <=> Occupancy(h, t) = MAX_DESC_NUM - 1
         /\ Occupancy(h, t) <= MAX_DESC_NUM - 2 =>
              Occupancy(NextSlot(h), t) = Occupancy(h, t) + 1
         /\ h # t => Occupancy(h, NextSlot(t)) = Occupancy(h, t) - 1
         /\ Occupancy(t, NextSlot(t)) = MAX_DESC_NUM - 1
         /\ \A s \in Slots : Occupancy(s, t) = Occupancy(h, t) => s = h
BY NextSlotWraps, RingAssumption DEF Occupancy, RingFull, Slots

\* The ring starts empty, both sides idle.
LEMMA ProtocolInit == Init => Protocol
BY TypeInit, RingAssumption
DEF Init, Protocol, SenderInv, ReceiverInv, RingInv, Filling, Receiving, InRing,
    Occupancy, Slots

\* How the set of published descriptors moves with the head and the tail.
LEMMA InRingMoves ==
  ASSUME Protocol, NEW s \in Slots
  PROVE  /\ FetchPublish => (InRing(s)' <=> InRing(s) \/ s = txHead)
         /\ AvailableAdvance => (InRing(s)' => InRing(s))
         /\ InRing(tail) <=> head # tail
         /\ ~InRing(head)
<1> USE RingAssumption DEF Protocol, SenderInv, ReceiverInv, TypeOK, InRing
<1>1. FetchPublish => (InRing(s)' <=> InRing(s) \/ s = txHead)
  <2> SUFFICES ASSUME FetchPublish PROVE InRing(s)' <=> InRing(s) \/ s = txHead
    OBVIOUS
  <2>1. /\ txHead = head /\ tail' = tail /\ head' = NextSlot(head)
        /\ Occupancy(head, tail) <= MAX_DESC_NUM - 2
    BY DEF FetchPublish, TxGoto
  <2>2. Occupancy(head', tail') = Occupancy(head, tail) + 1
    BY <2>1, OccupancyFacts
  <2>3. Occupancy(s, tail) = Occupancy(head, tail) <=> s = head
    BY OccupancyFacts
  <2>4. Occupancy(s, tail) \in Nat /\ Occupancy(head, tail) \in Nat
    BY OccupancyFacts
  <2>. QED
    BY <2>1, <2>2, <2>3, <2>4
<1>2. AvailableAdvance => (InRing(s)' => InRing(s))
  BY OccupancyFacts DEF AvailableAdvance, RxGoto
<1>3. (InRing(tail) <=> head # tail) /\ ~InRing(head)
  <2>1. head \in Slots /\ tail \in Slots
    OBVIOUS
  <2>2. Occupancy(tail, tail) = 0 /\ Occupancy(head, tail) \in Nat
        /\ (Occupancy(head, tail) = 0 <=> head = tail)
    BY <2>1, OccupancyFacts
  <2> QED
    BY <2>2
<1>. QED
  BY <1>1, <1>2, <1>3

\* No access of either host disturbs the protocol.
LEMMA ProtocolStep == Protocol /\ [Next]_vars => Protocol'
<1> SUFFICES ASSUME Protocol, [Next]_vars PROVE Protocol'
  OBVIOUS
<1>t. TypeOK /\ TypeOK'
  BY TypeStep DEF Protocol
<1> USE <1>t, RingAssumption
    DEF Protocol, SenderInv, ReceiverInv, RingInv, Filling, Receiving, InRing,
        TypeOK, TxPcs, RxPcs, Status
<1>1. ASSUME NEW f \in Frames, XmitFrame(f) PROVE Protocol'
  BY <1>1 DEF XmitFrame, TxGoto, info, desc, rxVars
<1>2. CASE FetchHead
  BY <1>2 DEF FetchHead, TxGoto, info, desc, rxVars
<1>3. CASE FetchTail
  BY OccupancyFacts, <1>3 DEF FetchTail, TxGoto, info, desc, rxVars
<1>4. CASE FetchReady
  BY OccupancyFacts, <1>4 DEF FetchReady, CanPost, TxReturn, info, desc, rxVars
<1>5. CASE FetchFreeze
  BY OccupancyFacts, <1>5 DEF FetchFreeze, TxGoto, info, rxVars
<1>6. CASE FetchLength
  BY <1>6 DEF FetchLength, TxGoto, info, rxVars
<1>7. CASE FetchPublish
  <2> USE <1>7 DEF FetchPublish, TxGoto, desc, rxVars
  <2>1. /\ txHead = head /\ head \in Slots /\ tail' = tail /\ tail \in Slots
        /\ Occupancy(head, tail) \in 0 .. MAX_DESC_NUM - 2
        /\ Occupancy(head', tail) = Occupancy(head, tail) + 1
    BY OccupancyFacts
  <2>2. \A s \in Slots : InRing(s)' <=> InRing(s) \/ s = txHead
    BY InRingMoves
  <2>3. SenderInv'
    BY <2>1
  <2>4. ReceiverInv'
    BY <2>1, OccupancyFacts
  <2>5. RingInv'
    BY <2>2
  <2>. QED
    BY <2>3, <2>4, <2>5
<1>8. CASE FetchOffset
  BY <1>8 DEF FetchOffset, TxGoto, info, rxVars
<1>9. CASE SendData
  BY <1>9 DEF SendData, TxGoto, info, desc, rxVars
<1>10. CASE SendDone
  BY <1>10 DEF SendDone, TxGoto, info, desc, rxVars
<1>11. CASE Settle
  BY OccupancyFacts, <1>11 DEF Settle, TxReturn, info, rxVars
<1>12. CASE AvailableHead
  BY OccupancyFacts, <1>12 DEF AvailableHead, RxGoto, info, desc, txVars
<1>13. CASE AvailableTail
  BY OccupancyFacts, <1>13 DEF AvailableTail, RxReturn, info, desc, txVars
<1>14. CASE AvailableSpin
  BY OccupancyFacts, <1>14 DEF AvailableSpin, RxGoto, info, desc, txVars
<1>15. CASE AvailableSettled
  BY <1>15 DEF AvailableSettled, RxReturn, info, desc, txVars
<1>16. CASE AvailableAdvance
  BY OccupancyFacts, <1>16 DEF AvailableAdvance, RxGoto, desc, txVars
<1>17. CASE ReceiveDesc
  BY <1>17 DEF ReceiveDesc, RxReturn, info, desc, txVars
<1>18. CASE ReceiveData
  BY <1>18 DEF ReceiveData, RxGoto, info, desc, txVars
<1>19. CASE ReceiveDone
  BY <1>19 DEF ReceiveDone, RxGoto, info, desc, txVars
<1>20. CASE Release
  BY OccupancyFacts, <1>20 DEF Release, RxGoto, info, txVars
<1>21. CASE Deliver
  BY <1>21 DEF Deliver, RxReturn, info, desc, txVars
<1>22. CASE UNCHANGED vars
  BY <1>22 DEF vars, info, desc, txVars, rxVars
<1>. QED
  BY <1>1, <1>2, <1>3, <1>4, <1>5, <1>6, <1>7, <1>8, <1>9, <1>10, <1>11,
     <1>12, <1>13, <1>14, <1>15, <1>16, <1>17, <1>18, <1>19,
     <1>20, <1>21, <1>22, Zenon
  DEF Next, TxStep, RxStep

\* While the protocol holds the two sides never work on the same descriptor.
LEMMA ProtocolExcludes == Protocol => SlotExclusive
<1> SUFFICES ASSUME Protocol, NEW s \in Slots, TxOwns(s), RxOwns(s) PROVE FALSE
  BY DEF SlotExclusive
<1> USE DEF Protocol, SenderInv, ReceiverInv, TxOwns, RxOwns, TypeOK, Filling,
            Receiving, InRing
<1>1. CASE rxPc = "advance"
  BY <1>1
<1>2. CASE rxPc # "advance"
  <2>1. tail = NextSlot(s) /\ Occupancy(s, tail) = MAX_DESC_NUM - 1
    BY <1>2, OccupancyFacts
  <2>2. CASE Filling
    BY <2>1, <2>2, OccupancyFacts, RingAssumption
  <2>3. CASE ~Filling
    BY <2>1, <2>3, RingAssumption
  <2>. QED
    BY <2>2, <2>3
<1>. QED
  BY <1>1, <1>2

\* The protocol holds in every reachable state.
THEOREM ProtocolCorrect == Spec => []Protocol
BY ProtocolInit, ProtocolStep, PTL DEF Spec

\* For every number of descriptors and whatever the DMA transfers do, the
\* sender never writes a descriptor or a block of FPGA memory that the
\* receiver still reads, although nupa_data_available gives the descriptor
\* back before xdma_receive_data has read its payload.
THEOREM SlotsExclusive == Spec => []SlotExclusive
BY ProtocolCorrect, ProtocolExcludes, PTL

-----------------------------------------------------------------------------

\* The descriptor being received has left the ring, and the sender is not at
\* it.
LEMMA ReceivingApart ==
  ASSUME Protocol, Receiving
  PROVE  /\ ~InRing(rxTail)
         /\ txPc \in {"freeze", "length", "publish"} \/ Filling => txHead # rxTail
<1> USE DEF Protocol, SenderInv, ReceiverInv, TypeOK, Filling, InRing
<1>1. Occupancy(rxTail, tail) = MAX_DESC_NUM - 1
  BY OccupancyFacts
<1>2. Occupancy(head, tail) \in 0 .. MAX_DESC_NUM - 1
  BY OccupancyFacts
<1>3. ~InRing(rxTail)
  BY <1>1, <1>2, RingAssumption
<1>. QED
  BY <1>1, <1>3, RingAssumption

\* Before the first frame there is nothing to say about frames.
LEMMA ContentsInit == Init => Contents
<1> SUFFICES ASSUME Init PROVE Contents
  OBVIOUS
<1>1. \A s \in Slots : ~InRing(s)
  BY RingAssumption DEF Init, InRing, Occupancy, Slots
<1> QED
  BY <1>1 DEF Init, Contents, Filling

\* With DMA transfers that do what they were asked, no access of either host
\* damages a frame that is under way.
LEMMA ContentsStep ==
  ASSUME DmaOutcomes = {"done"}, Protocol, Protocol', Contents, [Next]_vars
  PROVE  Contents'
<1>t. TypeOK /\ TypeOK'
  BY DEF Protocol
<1>a. /\ Receiving => ~InRing(rxTail)
      /\ Receiving /\ (txPc \in {"freeze", "length", "publish"} \/ Filling) =>
           txHead # rxTail
  BY ReceivingApart, SMTT(20)
<1>b. /\ txPc \in {"tail", "ready", "freeze", "length", "publish"} =>
           txHead = head /\ ~InRing(txHead)
      /\ txPc \in {"length", "publish"} \/ Filling =>
           descStatus[txHead] = "FREEZING"
  BY InRingMoves, <1>t, SMTT(20) DEF Protocol, SenderInv, TypeOK
<1>c. rxPc \in {"settled", "advance"} =>
        InRing(rxTail) /\ descStatus[rxTail] = "SETTLED"
  BY InRingMoves, <1>t, SMTT(20) DEF Protocol, ReceiverInv, TypeOK
<1> USE <1>t, <1>a, <1>b, <1>c, RingAssumption
    DEF Contents, Holds, Filling, Receiving, TypeOK, TxPcs, RxPcs
<1>1. ASSUME NEW f \in Frames, XmitFrame(f) PROVE Contents'
  BY <1>1 DEF XmitFrame, TxGoto, InRing, info, desc, rxVars
<1>2. CASE FetchHead
  BY <1>2 DEF FetchHead, InRing, TxGoto, info, desc, rxVars
<1>3. CASE FetchTail
  BY <1>3 DEF FetchTail, InRing, TxGoto, info, desc, rxVars
<1>4. CASE FetchReady
  BY <1>4, SMTT(20)
  DEF FetchReady, InRing, CanPost, TxReturn, info, desc, rxVars
<1>5. CASE FetchFreeze
  BY <1>5 DEF FetchFreeze, InRing, TxGoto, info, rxVars
<1>6. CASE FetchLength
  BY <1>6, SMTT(20) DEF FetchLength, InRing, TxGoto, info, rxVars
<1>7. CASE FetchPublish
  BY InRingMoves, <1>7 DEF FetchPublish, TxGoto, desc, rxVars
<1>8. CASE FetchOffset
  BY <1>8 DEF FetchOffset, InRing, TxGoto, info, rxVars, OffsetOf
<1>9. CASE SendData
  BY <1>9, SMTT(20) DEF SendData, InRing, TxGoto, info, desc, rxVars
<1>10. CASE SendDone
  BY <1>10 DEF SendDone, InRing, TxGoto, info, desc, rxVars
<1>11. CASE Settle
  BY <1>11 DEF Settle, InRing, TxReturn, info, rxVars
<1>12. CASE AvailableHead
  BY <1>12 DEF AvailableHead, InRing, RxGoto, info, desc, txVars
<1>13. CASE AvailableTail
  BY <1>13 DEF AvailableTail, InRing, RxReturn, info, desc, txVars
<1>14. CASE AvailableSpin
  BY <1>14 DEF AvailableSpin, InRing, RxGoto, info, desc, txVars
<1>15. CASE AvailableSettled
  BY <1>15, SMTT(20) DEF AvailableSettled, InRing, RxReturn, info, desc, txVars
<1>16. CASE AvailableAdvance
  BY InRingMoves, <1>16 DEF AvailableAdvance, RxGoto, desc, txVars
<1>17. CASE ReceiveDesc
  BY <1>17 DEF ReceiveDesc, InRing, RxReturn, info, desc, txVars
<1>18. CASE ReceiveData
  BY <1>18, SMTT(20) DEF ReceiveData, InRing, RxGoto, info, desc, txVars
<1>19. CASE ReceiveDone
  BY <1>19, SMTT(20) DEF ReceiveDone, InRing, RxGoto, info, desc, txVars
<1>20. CASE Release
  BY <1>20 DEF Release, InRing, RxGoto, info, txVars
<1>21. CASE Deliver
  BY <1>21, SMTT(20) DEF Deliver, InRing, RxReturn, info, desc, txVars
<1>22. CASE UNCHANGED vars
  BY <1>22 DEF InRing, vars, info, desc, txVars, rxVars
<1>. QED
  BY <1>1, <1>2, <1>3, <1>4, <1>5, <1>6, <1>7, <1>8, <1>9, <1>10, <1>11,
     <1>12, <1>13, <1>14, <1>15, <1>16, <1>17, <1>18, <1>19,
     <1>20, <1>21, <1>22, Zenon
  DEF Next, TxStep, RxStep

\* When the DMA transfers succeed, the skb that nupanet_poll hands to the
\* stack is the whole frame that the other host published, with its length,
\* for every number of descriptors and every set of frames.
THEOREM PayloadsIntact ==
  ASSUME DmaOutcomes = {"done"}
  PROVE  Spec => []PayloadIntact
<1>1. Protocol /\ Contents => PayloadIntact
  BY DEF Contents, PayloadIntact
<1>2. Protocol /\ Protocol' /\ Contents /\ [Next]_vars => Contents'
  BY ContentsStep
<1>. QED
  BY <1>1, <1>2, ContentsInit, ProtocolCorrect, PTL DEF Spec

-----------------------------------------------------------------------------
(* The refinement.                                                         *)

\* The frames st of the descriptors from t up to h, as a sequence.
FramesIn(h, t, st) == [i \in 1 .. Occupancy(h, t) |->
                         st[(t + i - 1) % MAX_DESC_NUM]]

\* The descriptor i - 1 behind t, free of the remainder, is the one at that
\* distance.
LEMMA Behind ==
  ASSUME NEW t \in Slots, NEW i \in 1 .. MAX_DESC_NUM
  PROVE  /\ (t + i - 1) % MAX_DESC_NUM \in Slots
         /\ Occupancy((t + i - 1) % MAX_DESC_NUM, t) = i - 1
         /\ i = 1 => (t + i - 1) % MAX_DESC_NUM = t
         /\ i # MAX_DESC_NUM => (NextSlot(t) + i - 1) % MAX_DESC_NUM
                                  = (t + (i + 1) - 1) % MAX_DESC_NUM
<1>1. /\ MAX_DESC_NUM \in Nat /\ t \in Nat /\ t < MAX_DESC_NUM
      /\ i \in Nat /\ i >= 1 /\ i <= MAX_DESC_NUM
  BY RingAssumption DEF Slots
<1>2. ASSUME NEW k \in Nat, k < 2 * MAX_DESC_NUM
      PROVE  k % MAX_DESC_NUM =
               IF k < MAX_DESC_NUM THEN k ELSE k - MAX_DESC_NUM
  BY <1>1, <1>2, SMTT(30)
<1>3. (t + i - 1) % MAX_DESC_NUM =
        IF t + i - 1 < MAX_DESC_NUM THEN t + i - 1 ELSE t + i - 1 - MAX_DESC_NUM
  BY <1>1, <1>2
<1>4. /\ (t + i - 1) % MAX_DESC_NUM \in Slots
      /\ Occupancy((t + i - 1) % MAX_DESC_NUM, t) = i - 1
      /\ i = 1 => (t + i - 1) % MAX_DESC_NUM = t
  BY <1>1, <1>3 DEF Slots, Occupancy
<1>5. ASSUME i # MAX_DESC_NUM
      PROVE  (NextSlot(t) + i - 1) % MAX_DESC_NUM
               = (t + (i + 1) - 1) % MAX_DESC_NUM
  <2>1. NextSlot(t) = IF t = MAX_DESC_NUM - 1 THEN 0 ELSE t + 1
    BY NextSlotWraps
  <2>2. CASE t = MAX_DESC_NUM - 1
    <3>1. NextSlot(t) + i - 1 = i - 1 /\ t + (i + 1) - 1 = i - 1 + MAX_DESC_NUM
      BY <1>1, <2>1, <2>2
    <3>2. i - 1 \in Nat /\ i - 1 < MAX_DESC_NUM
      BY <1>1
    <3>3. (i - 1) % MAX_DESC_NUM = i - 1
      BY <1>1, <1>2, <3>2
    <3>4. (i - 1 + MAX_DESC_NUM) % MAX_DESC_NUM = i - 1
      BY <1>1, <1>2, <3>2
    <3> QED
      BY <3>1, <3>3, <3>4
  <2>3. CASE t # MAX_DESC_NUM - 1
    <3>1. NextSlot(t) + i - 1 = t + (i + 1) - 1
      BY <1>1, <2>1, <2>3
    <3> QED
      BY <3>1
  <2> QED
    BY <2>2, <2>3
<1> QED
  BY <1>4, <1>5

\* The published frames are as many as the occupancy says.
LEMMA FramesType ==
  ASSUME NEW h \in Slots, NEW t \in Slots, NEW st \in [Slots -> Data]
  PROVE  /\ FramesIn(h, t, st) \in Seq(Data)
         /\ Len(FramesIn(h, t, st)) = Occupancy(h, t)
<1>1. Occupancy(h, t) \in Nat /\ Occupancy(h, t) < MAX_DESC_NUM
  BY OccupancyFacts, RingAssumption
<1>2. ASSUME NEW i \in 1 .. Occupancy(h, t)
      PROVE  st[(t + i - 1) % MAX_DESC_NUM] \in Data
  <2>1. i \in 1 .. MAX_DESC_NUM
    BY <1>1, RingAssumption
  <2>2. (t + i - 1) % MAX_DESC_NUM \in Slots
    BY <2>1, Behind
  <2> QED
    BY <2>2
<1> QED
  BY <1>1, <1>2 DEF FramesIn

\* Publishing a frame at the head appends it and touches no other.
LEMMA FramesAppend ==
  ASSUME NEW h \in Slots, NEW t \in Slots, NEW st \in [Slots -> Data],
         NEW f \in Data, Occupancy(h, t) <= MAX_DESC_NUM - 2
  PROVE  FramesIn(NextSlot(h), t, [st EXCEPT ![h] = f])
           = Append(FramesIn(h, t, st), f)
<1> DEFINE n == Occupancy(h, t)
           at(i) == (t + i - 1) % MAX_DESC_NUM
           stn == [st EXCEPT ![h] = f]
<1>1. /\ n \in Nat /\ n + 1 < MAX_DESC_NUM
      /\ Occupancy(NextSlot(h), t) = n + 1
  BY OccupancyFacts, RingAssumption
<1>2. ASSUME NEW i \in 1 .. n + 1
      PROVE  at(i) \in Slots /\ Occupancy(at(i), t) = i - 1
  <2>1. i \in 1 .. MAX_DESC_NUM
    BY <1>1, RingAssumption
  <2> QED
    BY <2>1, Behind
<1>3. at(n + 1) = h
  BY <1>1, <1>2, OccupancyFacts
<1>4. stn[at(n + 1)] = f
  BY <1>3
<1>5. ASSUME NEW i \in 1 .. n PROVE stn[at(i)] = st[at(i)]
  <2>1. at(i) \in Slots /\ at(i) # h
    BY <1>1, <1>2
  <2> QED
    BY <2>1
<1>6. FramesIn(NextSlot(h), t, stn) = [i \in 1 .. n + 1 |-> stn[at(i)]]
  BY <1>1 DEF FramesIn
<1>7. /\ FramesIn(h, t, st) = [i \in 1 .. n |-> st[at(i)]]
      /\ FramesIn(h, t, st) \in Seq(Data) /\ Len(FramesIn(h, t, st)) = n
  BY FramesType DEF FramesIn
<1> DEFINE longer == Append(FramesIn(h, t, st), f)
<1> HIDE DEF at, stn, n
<1>8. longer \in Seq(Data) /\ Len(longer) = n + 1
  BY <1>1, <1>7
<1>9. ASSUME NEW i \in 1 .. n + 1 PROVE longer[i] = stn[at(i)]
  BY <1>1, <1>4, <1>5, <1>7
<1>10. /\ FramesIn(NextSlot(h), t, stn) \in Seq(Data)
       /\ Len(FramesIn(NextSlot(h), t, stn)) = n + 1
  <2>1. stn \in [Slots -> Data] /\ NextSlot(h) \in Slots
    BY NextSlotWraps DEF stn
  <2> QED
    BY <1>1, <2>1, FramesType
<1>11. FramesIn(NextSlot(h), t, stn) = longer
  <2>1. \A i \in 1 .. n + 1 : FramesIn(NextSlot(h), t, stn)[i] = longer[i]
    BY <1>6, <1>9, Zenon
  <2> QED
    BY <1>8, <1>10, <2>1, SeqEqual, Zenon
<1> QED
  BY <1>11, Zenon DEF stn

\* Moving the tail takes the first frame off.
LEMMA FramesTail ==
  ASSUME NEW h \in Slots, NEW t \in Slots, NEW st \in [Slots -> Data], h # t
  PROVE  FramesIn(h, t, st) = <<st[t]>> \o FramesIn(h, NextSlot(t), st)
<1> DEFINE n == Occupancy(h, t)
           at(i) == (t + i - 1) % MAX_DESC_NUM
           rest == FramesIn(h, NextSlot(t), st)
<1>1. /\ n \in Nat /\ n # 0 /\ n < MAX_DESC_NUM
      /\ Occupancy(h, NextSlot(t)) = n - 1 /\ NextSlot(t) \in Slots
  BY OccupancyFacts, NextSlotWraps, RingAssumption
<1>2. rest \in Seq(Data) /\ Len(rest) = n - 1
  BY <1>1, FramesType
<1>3. ASSUME NEW i \in 1 .. n - 1 PROVE rest[i] = st[at(i + 1)]
  <2>1. i \in 1 .. MAX_DESC_NUM /\ i # MAX_DESC_NUM
    BY <1>1, RingAssumption
  <2>2. rest[i] = st[(NextSlot(t) + i - 1) % MAX_DESC_NUM]
    BY <1>1 DEF FramesIn
  <2> QED
    BY <2>1, <2>2, Behind
<1>4. at(1) = t
  <2>1. 1 \in 1 .. MAX_DESC_NUM
    BY RingAssumption
  <2> QED
    BY <2>1, Behind
<1>5. /\ FramesIn(h, t, st) = [i \in 1 .. n |-> st[at(i)]]
      /\ FramesIn(h, t, st) \in Seq(Data) /\ Len(FramesIn(h, t, st)) = n
  BY FramesType DEF FramesIn
<1> HIDE DEF at, rest, n
<1>6. Len(<<st[t]>> \o rest) = n /\ <<st[t]>> \o rest \in Seq(Data)
  BY <1>1, <1>2
<1>7. ASSUME NEW i \in 1 .. n PROVE (<<st[t]>> \o rest)[i] = st[at(i)]
  <2>1. CASE i = 1
    BY <1>1, <1>2, <1>4, <2>1
  <2>2. CASE i # 1
    <3>1. i - 1 \in 1 .. n - 1 /\ (i - 1) + 1 = i
      BY <1>1, <2>2
    <3>2. (<<st[t]>> \o rest)[i] = rest[i - 1]
      BY <1>1, <1>2, <2>2
    <3> QED
      BY <1>3, <3>1, <3>2, Zenon
  <2> QED
    BY <2>1, <2>2, Zenon
<1> QED
  BY <1>1, <1>5, <1>6, <1>7 DEF rest

-----------------------------------------------------------------------------

\* Appending behind a first element.
LEMMA AppendBehind ==
  ASSUME NEW S, NEW x \in S, NEW s \in Seq(S), NEW y \in S
  PROVE  <<x>> \o Append(s, y) = Append(<<x>> \o s, y)
BY <<x>> \in Seq(S), <<y>> \in Seq(S), ConcatAssociative, AppendIsConcat,
   ConcatProperties

\* What the mapping shows of a well-typed ring.
LEMMA QueueType ==
  ASSUME Protocol
  PROVE  /\ Published = FramesIn(head, tail, stored)
         /\ Published \in Seq(Data) /\ Len(Published) = Occupancy(head, tail)
         /\ Occupancy(head, tail) \in Nat
         /\ stored[rxTail] \in Data
<1>1. Published = FramesIn(head, tail, stored)
  BY DEF Published, FramesIn
<1>2. head \in Slots /\ tail \in Slots /\ stored \in [Slots -> Data]
      /\ rxTail \in Slots
  BY DEF Protocol, TypeOK
<1> QED
  BY <1>1, <1>2, FramesType, OccupancyFacts

\* FetchPublish is the sending of its frame.
LEMMA PublishSends ==
  ASSUME Protocol, FetchPublish
  PROVE  /\ txSkb \in Frames /\ Len(Queue) < MAX_DESC_NUM
         /\ Queue' = Append(Queue, txSkb) /\ rcvd' = rcvd
<1>1. /\ txHead = head /\ head \in Slots /\ tail \in Slots
      /\ tail' = tail /\ head' = NextSlot(head)
      /\ stored' = [stored EXCEPT ![head] = txSkb]
      /\ stored \in [Slots -> Data]
      /\ Occupancy(head, tail) <= MAX_DESC_NUM - 2
      /\ txSkb \in Frames /\ txSkb \in Data
      /\ rxPc' = rxPc /\ rxTail' = rxTail /\ rcvd' = rcvd /\ rxTail \in Slots
  BY DEF Protocol, SenderInv, TypeOK, FetchPublish, TxGoto, rxVars, Data
<1>2. Published' = Append(Published, txSkb)
  <2>1. Published' = FramesIn(head', tail', stored')
    BY DEF Published, FramesIn
  <2>2. Published = FramesIn(head, tail, stored)
    BY QueueType
  <2>3. FramesIn(NextSlot(head), tail, [stored EXCEPT ![head] = txSkb])
          = Append(FramesIn(head, tail, stored), txSkb)
    BY <1>1, FramesAppend, Zenon
  <2> QED
    BY <1>1, <2>1, <2>2, <2>3, Zenon
<1>3. /\ Published \in Seq(Data) /\ Len(Published) = Occupancy(head, tail)
      /\ Occupancy(head, tail) \in Nat /\ stored[rxTail] \in Data
  BY QueueType
<1>4. Receiving' = Receiving
  BY <1>1 DEF Receiving
<1>5. CASE Receiving
  <2>1. txHead # rxTail
    BY <1>5, ReceivingApart DEF FetchPublish, TxGoto
  <2>2. stored'[rxTail'] = stored[rxTail]
    BY <1>1, <2>1
  <2>3. Queue = <<stored[rxTail]>> \o Published
    BY <1>5 DEF Queue
  <2>4. Queue' = <<stored[rxTail]>> \o Append(Published, txSkb)
    BY <1>2, <1>4, <1>5, <2>2 DEF Queue
  <2>5. Queue' = Append(Queue, txSkb)
    <3>1. <<stored[rxTail]>> \o Append(Published, txSkb)
            = Append(<<stored[rxTail]>> \o Published, txSkb)
      BY <1>1, <1>3, AppendBehind
    <3> QED
      BY <2>3, <2>4, <3>1, Zenon
  <2>6. Len(Queue) < MAX_DESC_NUM
    BY <1>1, <1>3, <2>3, RingAssumption
  <2> QED
    BY <1>1, <2>5, <2>6
<1>6. CASE ~Receiving
  <2>1. Queue = Published /\ Queue' = Published'
    BY <1>4, <1>6 DEF Queue
  <2> QED
    BY <1>1, <1>2, <1>3, <2>1, RingAssumption
<1> QED
  BY <1>5, <1>6

\* nupa_data_available, moving the tail, takes the first published frame into
\* the receiver's hands: the channel notices nothing.
LEMMA AdvanceStutters ==
  ASSUME Protocol, AvailableAdvance
  PROVE  Queue' = Queue /\ rcvd' = rcvd
<1>1. /\ rxTail = tail /\ head # tail /\ head \in Slots /\ tail \in Slots
      /\ stored \in [Slots -> Data]
      /\ tail' = NextSlot(tail) /\ head' = head /\ stored' = stored
      /\ rxTail' = rxTail /\ rcvd' = rcvd /\ ~Receiving /\ Receiving'
  BY DEF Protocol, ReceiverInv, TypeOK, AvailableAdvance, RxGoto, Receiving
<1>2. Published = FramesIn(head, tail, stored)
      /\ Published' = FramesIn(head', tail', stored')
  BY DEF Published, FramesIn
<1>3. Queue = Published /\ Queue' = <<stored[tail]>> \o Published'
  BY <1>1 DEF Queue
<1> QED
  BY <1>1, <1>2, <1>3, FramesTail

\* A step that leaves the ring's indices, the published frames and the
\* receiver's descriptor alone is no step of the channel.
LEMMA QuietStutters ==
  ASSUME UNCHANGED <<head, tail, stored, rcvd>>,
         Receiving' = Receiving, Receiving => rxTail' = rxTail
  PROVE  Queue' = Queue /\ rcvd' = rcvd
<1>1. Published' = Published
  BY DEF Published, Occupancy
<1> QED
  BY <1>1, Zenon DEF Queue

\* A frame that is given up or delivered is the first one.
LEMMA FirstLeaves ==
  ASSUME Protocol, Receiving, ~Receiving', UNCHANGED <<head, tail, stored>>
  PROVE  /\ Queue # <<>> /\ Head(Queue) = stored[rxTail]
         /\ Queue' = Tail(Queue)
<1>1. Published' = Published
  BY DEF Published, Occupancy
<1>2. Queue = <<stored[rxTail]>> \o Published /\ Queue' = Published
  BY <1>1 DEF Queue
<1>3. Published \in Seq(Data) /\ stored[rxTail] \in Data
  BY QueueType
<1> QED
  BY <1>2, <1>3

\* Every step of the two hosts is one of the channel or none.
LEMMA ChannelStep ==
  ASSUME Protocol, Contents, [Next]_vars
  PROVE  [Channel!Next]_<<Queue, rcvd>>
<1>1. ASSUME UNCHANGED <<head, tail, stored, rcvd>>,
             Receiving' = Receiving, Receiving => rxTail' = rxTail
      PROVE  [Channel!Next]_<<Queue, rcvd>>
  BY <1>1, QuietStutters, Zenon
<1>2. ASSUME NEW f \in Frames, XmitFrame(f)
      PROVE  [Channel!Next]_<<Queue, rcvd>>
  <2>1. UNCHANGED <<head, tail, stored, rcvd, rxPc, rxTail>>
    BY <1>2 DEF XmitFrame, info, rxVars
  <2> QED
    BY <1>1, <2>1 DEF Receiving
<1>3. CASE TxStep /\ ~FetchPublish
  <2>1. UNCHANGED <<head, tail, stored, rcvd, rxPc, rxTail>>
    BY <1>3 DEF TxStep, FetchHead, FetchTail, FetchReady, FetchFreeze,
       FetchLength, FetchOffset, SendData, SendDone, Settle, info, rxVars
  <2> QED
    BY <1>1, <2>1 DEF Receiving
<1>4. CASE FetchPublish
  BY <1>4, PublishSends, Zenon DEF Channel!Next, Channel!Send
<1>5. CASE AvailableAdvance
  BY <1>5, AdvanceStutters, Zenon
<1>6. CASE AvailableHead \/ AvailableTail \/ AvailableSpin \/ AvailableSettled
  <2>1. rxPc = "settled" => descStatus[rxTail] = "SETTLED"
    BY DEF Protocol, ReceiverInv
  <2>2. ~Receiving /\ ~Receiving' /\ UNCHANGED <<head, tail, stored, rcvd>>
    BY <1>6, <2>1 DEF AvailableHead, AvailableTail, AvailableSpin,
       AvailableSettled, RxGoto, RxReturn, info, Receiving
  <2> QED
    BY <1>1, <2>2 DEF Receiving
<1>7. CASE ReceiveData \/ ReceiveDone \/ Release
  <2>1. /\ Receiving /\ Receiving' /\ rxTail' = rxTail
        /\ UNCHANGED <<head, tail, stored, rcvd>>
    BY <1>7 DEF ReceiveData, ReceiveDone, Release, RxGoto, info, Receiving
  <2> QED
    BY <1>1, <2>1, Zenon
<1>8. CASE ReceiveDesc
  <2>1. /\ Receiving /\ rxPc' \in {"head", "receive"}
        /\ rxPc' = "receive" => rxTail' = rxTail
        /\ UNCHANGED <<head, tail, stored, rcvd>>
    BY <1>8 DEF ReceiveDesc, RxReturn, info, Receiving
  <2>2. CASE rxPc' = "receive"
    BY <1>1, <2>1, <2>2 DEF Receiving
  <2>3. CASE rxPc' = "head"
    <3>1. ~Receiving'
      BY <2>3 DEF Receiving
    <3> QED
      BY <2>1, <3>1, FirstLeaves, Zenon DEF Channel!Next, Channel!Lose
  <2> QED
    BY <2>1, <2>2, <2>3
<1>9. CASE Deliver
  <2>1. /\ Receiving /\ ~Receiving' /\ UNCHANGED <<head, tail, stored>>
        /\ rcvd' = [data |-> rxBuf, len |-> rxLength]
    BY <1>9 DEF Deliver, RxReturn, info, Receiving
  <2>2. rxBuf = stored[rxTail] /\ rxLength = FrameLen[stored[rxTail]]
    BY <1>9 DEF Deliver, Contents
  <2> QED
    BY <2>1, <2>2, FirstLeaves, Zenon DEF Channel!Next, Channel!Deliver
<1>10. CASE UNCHANGED vars
  <2>1. UNCHANGED <<head, tail, stored, rcvd, rxPc, rxTail>>
    BY <1>10 DEF vars, info, rxVars
  <2> QED
    BY <1>1, <2>1 DEF Receiving
<1> QED
  BY <1>2, <1>3, <1>4, <1>5, <1>6, <1>7, <1>8, <1>9, <1>10
  DEF Next, RxStep

\* When the DMA transfers succeed, the ring implements the bounded FIFO of
\* NupaChannel for every number of descriptors and every set of frames: however
\* the two hosts' accesses interleave, no frame is duplicated, reordered,
\* damaged or delivered with another one's length.
THEOREM RingImplementsChannel ==
  ASSUME DmaOutcomes = {"done"}
  PROVE  Spec => ChannelSpec
<1>1. Init => Channel!Init
  BY RingAssumption
  DEF Init, Channel!Init, Queue, Receiving, Published, Occupancy
<1>2. Protocol /\ Contents /\ [Next]_vars => [Channel!Next]_<<Queue, rcvd>>
  BY ChannelStep
<1>3. Protocol /\ Protocol' /\ Contents /\ [Next]_vars => Contents'
  BY ContentsStep
<1> QED
  BY <1>1, <1>2, <1>3, ContentsInit, ProtocolCorrect, PTL
  DEF Spec, ChannelSpec, Channel!Spec

=============================================================================
