------------------------- MODULE XdmaEngine_proofs -------------------------
(***************************************************************************)
(* Safety of one engine, for every set of callers, every descriptor array, *)
(* all request sizes and all faults.                                       *)
(*                                                                         *)
(* desc_lock makes the list at most one transfer long: that of the holder. *)
(* ListInv and CallInv say so; RunInv ties engine->running and a service   *)
(* under way to that transfer; HwInv accounts for every descriptor of the  *)
(* chain the hardware works on; CountInv for every descriptor of a request.*)
(***************************************************************************)
EXTENDS XdmaEngine, TLAPS

\* The places between mutex_lock and mutex_unlock of desc_lock.
Inside == {"init", "queue", "locked", "wait", "finish", "reap"}

\* Who holds desc_lock, and what state its transfer can be in where.
CallInv ==
  \A c \in Callers :
    /\ pc[c] \in Inside <=> descLock = c
    /\ pc[c] \in {"queue", "locked"} => xfer[c].state = "NEW"
    /\ pc[c] \in {"wait", "finish"} =>
         xfer[c].state \in {"SUBMITTED", "COMPLETED", "FAILED"}
    /\ xfer[c].state = "SUBMITTED" =>
         pc[c] \in {"wait", "finish"} /\ transferList = <<c>>

\* The list is empty or has the one transfer of desc_lock's holder.
ListInv ==
  transferList # <<>> =>
    /\ descLock \in Callers /\ transferList = <<descLock>>
    /\ xfer[descLock].state = "SUBMITTED"

\* A running or served engine works on the head of the list, of which nothing
\* has been dequeued; an engine that was shut down does neither.
RunInv ==
  /\ running \/ serving =>
       transferList # <<>> /\ hwXfer = descLock /\ descDequeued = 0
  /\ admin \in {"stopped", "offline", "reset"} =>
       "REQUEST" \in shutdown /\ ~running /\ ~hwRun /\ ~serving

\* What the hardware has moved of its chain, and what is left, make up the
\* transfer it belongs to.
HwInv ==
  /\ \A c \in Callers : hwXfer = c =>
       /\ pc[c] \in {"wait", "finish", "reap"}
       /\ hwCount + hwLeft = xfer[c].num /\ moved[c] = hwCount
  /\ \A c \in Callers : pc[c] \in {"queue", "locked"} => moved[c] = 0
  /\ CompletedIsTransferred

\* Done, in the transfer at hand, and not yet in a transfer: the request.
CountInv ==
  \A c \in Callers :
    /\ pc[c] = "idle" /\ rv[c] = "ok" => done[c] = swDescCnt[c]
    /\ pc[c] \in {"lock", "init"} =>
         rv[c] = "ok" /\ nents[c] # 0 /\ done[c] + nents[c] = swDescCnt[c]
    /\ pc[c] \in {"queue", "locked", "wait", "finish"} =>
         rv[c] = "ok" /\ done[c] + xfer[c].num + nents[c] = swDescCnt[c]
    /\ pc[c] = "reap" /\ rv[c] = "ok" => done[c] + nents[c] = swDescCnt[c]
    /\ pc[c] \in {"queue", "locked", "wait", "finish", "reap"} =>
         xfer[c].num <= descUsed

\* TypeOK in two parts: what the callers' steps work on, and the rest.
CallTypes ==
  /\ transferList \in Seq(Callers)
  /\ descIdx \in 0 .. DescMax - 1 /\ descUsed \in Nat
  /\ descLock \in Callers \cup {NoCaller}
  /\ xfer \in [Callers -> [state : States, num : 0 .. DescMax]]
  /\ pc \in [Callers -> CallPcs] /\ swDescCnt \in [Callers -> Nat]
  /\ nents \in [Callers -> Nat] /\ done \in [Callers -> Nat]
  /\ rv \in [Callers -> Results] /\ moved \in [Callers -> Nat]

DeviceTypes ==
  /\ running \in BOOLEAN /\ shutdown \subseteq {"REQUEST", "IDLE"}
  /\ descDequeued \in Nat /\ offline \in BOOLEAN /\ admin \in AdminPcs
  /\ irqOn \in BOOLEAN /\ irqEnable \in BOOLEAN /\ work \in BOOLEAN
  /\ serving \in BOOLEAN /\ status \in [busy : BOOLEAN, err : BOOLEAN]
  /\ hwRun \in BOOLEAN /\ hwBusy \in BOOLEAN /\ hwCount \in Nat
  /\ hwStat \subseteq {"DONE", "ERR"} /\ hwLeft \in Nat
  /\ hwXfer \in Callers \cup {NoCaller}

EngineInv == TypeOK /\ CallInv /\ ListInv /\ RunInv /\ HwInv /\ CountInv

-----------------------------------------------------------------------------
(* Helpers.                                                                *)

\* transfer_init takes at least one descriptor, no more than the request
\* still needs, and none past the end of the descriptor array.
LEMMA ChunkBounds ==
  ASSUME NEW n \in Nat \ {0}, NEW i \in 0 .. DescMax - 1
  PROVE  Chunk(n, i) \in 1 .. n /\ i + Chunk(n, i) \in 1 .. DescMax
BY EngineAssumption DEF Chunk

\* The next free descriptor after such a step is inside the array.
LEMMA IdxWraps ==
  ASSUME NEW i \in 1 .. DescMax
  PROVE  i % DescMax \in 0 .. DescMax - 1
BY EngineAssumption

LEMMA NoCallerIsNone == NoCaller \notin Callers
BY EngineAssumption

\* A list of one transfer.
LEMMA OneTransfer ==
  ASSUME NEW c \in Callers
  PROVE  /\ Append(<<>>, c) = <<c>> /\ <<c>> # <<>>
         /\ Head(<<c>>) = c /\ Tail(<<c>>) = <<>>
         /\ <<c>> \in Seq(Callers) /\ <<>> \in Seq(Callers)
         /\ Len(<<c>>) = 1 /\ <<c>>[1] = c
OBVIOUS

LEMMA TypeParts == TypeOK <=> CallTypes /\ DeviceTypes
BY Zenon DEF TypeOK, CallTypes, DeviceTypes

\* Setting transfer->state leaves the rest of the transfers alone.
LEMMA StateSet ==
  ASSUME TypeOK, NEW c \in Callers, NEW s \in States,
         xfer' = [xfer EXCEPT ![c].state = s]
  PROVE  /\ xfer'[c].state = s /\ xfer'[c].num = xfer[c].num
         /\ \A d \in Callers \ {c} : xfer'[d] = xfer[d]
         /\ xfer' \in [Callers -> [state : States, num : 0 .. DescMax]]
<1> DEFINE Xfers == [state : States, num : 0 .. DescMax]
<1>1. xfer \in [Callers -> Xfers]
  BY DEF TypeOK
<1>2. /\ [xfer[c] EXCEPT !.state = s] \in Xfers
      /\ [xfer[c] EXCEPT !.state = s].state = s
      /\ [xfer[c] EXCEPT !.state = s].num = xfer[c].num
  BY <1>1
<1>3. xfer' = [xfer EXCEPT ![c] = [xfer[c] EXCEPT !.state = s]]
  OBVIOUS
<1> HIDE DEF Xfers
<1>4. /\ xfer' \in [Callers -> Xfers]
      /\ xfer'[c] = [xfer[c] EXCEPT !.state = s]
      /\ \A d \in Callers \ {c} : xfer'[d] = xfer[d]
  BY <1>1, <1>2, <1>3, Zenon
<1> QED
  BY <1>2, <1>4 DEF Xfers

\* The number of descriptors of a transfer is a number.
LEMMA NumIsNat ==
  ASSUME TypeOK, NEW c \in Callers
  PROVE  xfer[c].num \in Nat
BY EngineAssumption DEF TypeOK

LEMMA Initially == Init => EngineInv
<1> SUFFICES ASSUME Init PROVE EngineInv
  OBVIOUS
<1> USE EngineAssumption
<1>1. /\ running \in BOOLEAN /\ offline \in BOOLEAN /\ irqOn \in BOOLEAN
      /\ irqEnable \in BOOLEAN /\ work \in BOOLEAN /\ serving \in BOOLEAN
      /\ hwRun \in BOOLEAN /\ hwBusy \in BOOLEAN /\ ~running /\ ~serving
  BY Zenon DEF Init
<1>2. status \in [busy : BOOLEAN, err : BOOLEAN]
  BY DEF Init, NoStatus
<1>3. TypeOK
  BY <1>1, <1>2 DEF Init, TypeOK, NoXfer, States, CallPcs, Results, AdminPcs
<1>4. CallInv /\ ListInv
  BY DEF Init, CallInv, ListInv, Inside, NoXfer
<1>5. RunInv
  BY <1>1, Zenon DEF Init, RunInv
<1>6. HwInv
  BY DEF Init, HwInv, CompletedIsTransferred, NoXfer
<1>7. CountInv
  BY DEF Init, CountInv
<1> QED
  BY <1>3, <1>4, <1>5, <1>6, <1>7 DEF EngineInv

-----------------------------------------------------------------------------
(* The callers' steps.                                                     *)

LEMMA SubmitKeeps ==
  ASSUME EngineInv, NEW c \in Callers, Submit(c)
  PROVE  EngineInv'
<1> USE NoCallerIsNone
<1>1. UNCHANGED <<running, shutdown, transferList, descDequeued, descIdx,
                  descUsed, descLock, xfer, offline, admin, irqOn, irqEnable,
                  work, serving, status, hwRun, hwBusy, hwCount, hwStat,
                  hwLeft, hwXfer, moved>>
  BY DEF Submit, engine, ring, dev, irq, svc, hw
<1>2. PICK n \in ReqSizes :
        /\ pc[c] = "idle" /\ pc' = [pc EXCEPT ![c] = "lock"]
        /\ swDescCnt' = [swDescCnt EXCEPT ![c] = n]
        /\ nents' = [nents EXCEPT ![c] = swDescCnt'[c]]
        /\ done' = [done EXCEPT ![c] = 0] /\ rv' = [rv EXCEPT ![c] = "ok"]
  BY Zenon DEF Submit, Goto, InitRequest
<1>3. n \in Nat \ {0}
  BY EngineAssumption
<1>4. TypeOK'
  <2>1. /\ pc' \in [Callers -> CallPcs] /\ rv' \in [Callers -> Results]
        /\ swDescCnt' \in [Callers -> Nat] /\ nents' \in [Callers -> Nat]
        /\ done' \in [Callers -> Nat]
    BY <1>2, <1>3 DEF EngineInv, TypeOK, CallPcs, Results
  <2>2. CallTypes'
    BY <1>1, <2>1, Zenon DEF EngineInv, TypeOK, CallTypes
  <2>3. DeviceTypes'
    BY <1>1, ZenonT(60) DEF EngineInv, TypeOK, DeviceTypes
  <2> QED
    BY <2>2, <2>3, TypeParts, PTL
<1>5. CallInv' /\ ListInv'
  BY <1>1, <1>2 DEF EngineInv, TypeOK, CallInv, ListInv, Inside
<1>6. RunInv'
  BY <1>1, Zenon DEF EngineInv, RunInv
<1>7. HwInv'
  BY <1>1, <1>2, ZenonT(40) DEF EngineInv, TypeOK, HwInv, CompletedIsTransferred
<1>8. CountInv'
  BY <1>1, <1>2, <1>3 DEF EngineInv, TypeOK, CountInv
<1> QED
  BY <1>4, <1>5, <1>6, <1>7, <1>8 DEF EngineInv

LEMMA TransferInitKeeps ==
  ASSUME EngineInv, NEW c \in Callers, TransferInit(c)
  PROVE  EngineInv'
<1> USE NoCallerIsNone
<1> DEFINE k == Chunk(nents[c], descIdx)
<1>1. UNCHANGED <<running, shutdown, transferList, descDequeued, descLock,
                  swDescCnt, done, rv, offline, admin, irqOn, irqEnable, work,
                  serving, status, hwRun, hwBusy, hwCount, hwStat, hwLeft,
                  hwXfer>>
  BY DEF TransferInit, engine, dev, irq, svc, hw
<1>2. /\ pc[c] = "init" /\ pc' = [pc EXCEPT ![c] = "queue"]
      /\ xfer' = [xfer EXCEPT ![c] = [state |-> "NEW", num |-> k]]
      /\ nents' = [nents EXCEPT ![c] = nents[c] - k]
      /\ descIdx' = (descIdx + k) % DescMax /\ descUsed' = descUsed + k
      /\ moved' = [moved EXCEPT ![c] = 0]
  BY DEF TransferInit, Goto
<1>3. nents[c] \in Nat \ {0} /\ descIdx \in 0 .. DescMax - 1
  BY <1>2 DEF EngineInv, TypeOK, CountInv
<1>4. k \in 1 .. nents[c] /\ descIdx + k \in 1 .. DescMax
  BY <1>3, ChunkBounds, Zenon
<1>5. descIdx' \in 0 .. DescMax - 1
  BY <1>2, <1>4, IdxWraps
<1>6. k \in 0 .. DescMax /\ nents[c] - k \in Nat
  BY <1>3, <1>4, EngineAssumption
<1> HIDE DEF k
<1>7. /\ xfer'[c].state = "NEW" /\ xfer'[c].num = k
      /\ \A d \in Callers \ {c} : xfer'[d] = xfer[d]
  BY <1>2 DEF EngineInv, TypeOK
<1>8. xfer' \in [Callers -> [state : States, num : 0 .. DescMax]]
  BY <1>2, <1>6 DEF EngineInv, TypeOK, States
<1>9. /\ pc' \in [Callers -> CallPcs] /\ nents' \in [Callers -> Nat]
      /\ moved' \in [Callers -> Nat] /\ descUsed' \in Nat
  <2>1. pc' \in [Callers -> CallPcs] /\ moved' \in [Callers -> Nat]
    BY <1>2 DEF EngineInv, TypeOK, CallPcs
  <2>2. nents' \in [Callers -> Nat]
    BY <1>2, <1>6 DEF EngineInv, TypeOK
  <2>3. descUsed' \in Nat
    BY <1>2, <1>6 DEF EngineInv, TypeOK
  <2> QED
    BY <2>1, <2>2, <2>3
<1>10. TypeOK'
  <2>1. CallTypes'
    BY <1>1, <1>5, <1>8, <1>9, Zenon DEF EngineInv, TypeOK, CallTypes
  <2>2. DeviceTypes'
    BY <1>1, ZenonT(60) DEF EngineInv, TypeOK, DeviceTypes
  <2> QED
    BY <2>1, <2>2, TypeParts, PTL
<1>11. CallInv' /\ ListInv'
  BY <1>1, <1>2, ZenonT(40) DEF EngineInv, TypeOK, CallInv, ListInv, Inside
<1>12. RunInv'
  BY <1>1, Zenon DEF EngineInv, RunInv
<1>13. HwInv'
  BY <1>1, <1>2, <1>6, <1>7, ZenonT(60)
  DEF EngineInv, TypeOK, HwInv, CompletedIsTransferred
<1>14. CountInv'
  <2>1. /\ pc'[c] = "queue" /\ \A d \in Callers \ {c} : pc'[d] = pc[d]
        /\ nents'[c] = nents[c] - k
        /\ \A d \in Callers \ {c} : nents'[d] = nents[d]
    BY <1>2 DEF EngineInv, TypeOK
  <2>2. \A d \in Callers \ {c} : pc[d] \in {"idle", "lock"}
    BY <1>2 DEF EngineInv, TypeOK, CallInv, Inside, CallPcs
  <2> SUFFICES ASSUME NEW d \in Callers PROVE CountInv!(d)'
    BY Zenon DEF CountInv
  <2>3. CASE d = c
    <3>1. /\ rv[c] = "ok" /\ done[c] + nents[c] = swDescCnt[c]
          /\ done[c] \in Nat /\ descUsed \in Nat
      BY <1>2, ZenonT(60) DEF EngineInv, TypeOK, CountInv
    <3>2. /\ done[c] + k + (nents[c] - k) = swDescCnt[c]
          /\ k <= descUsed + k
      BY <1>3, <1>6, <3>1
    <3>3. /\ rv'[c] = "ok"
          /\ done'[c] + xfer'[c].num + nents'[c] = swDescCnt'[c]
          /\ xfer'[c].num <= descUsed'
      BY <1>1, <1>2, <1>7, <2>1, <3>1, <3>2, Zenon
    <3> QED
      BY <2>1, <2>3, <3>3
  <2>4. CASE d # c
    BY <1>1, <2>1, <2>2, <2>4, ZenonT(60) DEF EngineInv, CountInv
  <2> QED
    BY <2>3, <2>4, Zenon
<1> QED
  BY <1>10, <1>11, <1>12, <1>13, <1>14 DEF EngineInv

\* A step that only moves a caller on, with all else its invariants speak of
\* left alone.
LEMMA MoveKeeps ==
  ASSUME EngineInv, NEW c \in Callers, NEW p \in CallPcs,
         pc' = [pc EXCEPT ![c] = p],
         \/ pc[c] = "lock" /\ p = "init" /\ descLock = NoCaller /\ descLock' = c
         \/ pc[c] = "queue" /\ p = "locked" /\ descLock' = descLock
         \/ pc[c] = "wait" /\ p = "finish" /\ descLock' = descLock,
         UNCHANGED <<running, shutdown, transferList, descDequeued, descIdx,
                     descUsed, xfer, swDescCnt, nents, done, rv, offline,
                     admin, irqOn, irqEnable, work, serving, status, hwRun,
                     hwBusy, hwCount, hwStat, hwLeft, hwXfer, moved>>
  PROVE  EngineInv'
<1> USE NoCallerIsNone
<1>1. TypeOK'
  <2>1. pc' \in [Callers -> CallPcs] /\ descLock' \in Callers \cup {NoCaller}
    BY DEF EngineInv, TypeOK
  <2>2. CallTypes'
    BY <2>1, Zenon DEF EngineInv, TypeOK, CallTypes
  <2>3. DeviceTypes'
    BY ZenonT(60) DEF EngineInv, TypeOK, DeviceTypes
  <2> QED
    BY <2>2, <2>3, TypeParts, PTL
<1>2. pc'[c] = p /\ \A d \in Callers \ {c} : pc'[d] = pc[d]
  BY DEF EngineInv, TypeOK
<1>3. CallInv'
  BY DEF EngineInv, TypeOK, CallInv, Inside
<1>4. descLock' = descLock \/ transferList = <<>>
  BY DEF EngineInv, ListInv
<1>5. ListInv'
  BY <1>4, Zenon DEF EngineInv, ListInv
<1>6. RunInv'
  BY <1>4, Zenon DEF EngineInv, RunInv
<1>7. HwInv'
  BY <1>2 DEF EngineInv, HwInv, CompletedIsTransferred
<1>8. CountInv'
  BY <1>2 DEF EngineInv, CountInv
<1> QED
  BY <1>1, <1>3, <1>5, <1>6, <1>7, <1>8 DEF EngineInv

LEMMA MovesKeep ==
  ASSUME EngineInv, NEW c \in Callers,
         LockDesc(c) \/ Wake(c) \/ Interrupted(c)
  PROVE  EngineInv'
<1>1. UNCHANGED <<running, shutdown, transferList, descDequeued, descIdx,
                  descUsed, xfer, swDescCnt, nents, done, rv, offline,
                  admin, irqOn, irqEnable, work, serving, status, hwRun,
                  hwBusy, hwCount, hwStat, hwLeft, hwXfer, moved>>
  BY DEF LockDesc, Wake, Interrupted, engine, ring, dev, irq, svc, hw
<1>2. CASE LockDesc(c)
  BY <1>1, <1>2, MoveKeeps, Zenon DEF LockDesc, Goto, CallPcs
<1>3. CASE Wake(c) \/ Interrupted(c)
  BY <1>1, <1>3, MoveKeeps, SMTT(30) DEF Wake, Interrupted, Goto, CallPcs
<1> QED
  BY <1>2, <1>3

\* Leaving the call with a transfer that is not listed, as QueueFails and the
\* last Reap do.  The hardware may no longer be the caller's.
LEMMA ReturnKeeps ==
  ASSUME EngineInv, NEW c \in Callers, Return(c),
         pc[c] \in {"queue", "locked", "reap"},
         rv' \in [Callers -> Results],
         \A d \in Callers \ {c} : rv'[d] = rv[d],
         rv'[c] = "ok" => done[c] = swDescCnt[c],
         hwXfer' = IF hwXfer = c THEN NoCaller ELSE hwXfer,
         descUsed' \in Nat,
         UNCHANGED <<running, shutdown, transferList, descDequeued, descIdx,
                     swDescCnt, done, offline, admin, irqOn, irqEnable, work,
                     serving, status, hwRun, hwBusy, hwCount, hwStat, hwLeft>>
  PROVE  EngineInv'
<1> USE NoCallerIsNone
<1>1. /\ pc' = [pc EXCEPT ![c] = "idle"]
      /\ nents' = [nents EXCEPT ![c] = 0]
      /\ descLock' = NoCaller /\ xfer' = [xfer EXCEPT ![c] = NoXfer]
      /\ moved' = [moved EXCEPT ![c] = 0]
  BY DEF Return
<1>2. /\ xfer'[c].state = "NEW" /\ xfer'[c].num = 0
      /\ \A d \in Callers \ {c} : xfer'[d] = xfer[d]
  BY <1>1 DEF EngineInv, TypeOK, NoXfer
<1>3. xfer' \in [Callers -> [state : States, num : 0 .. DescMax]]
  BY <1>1, EngineAssumption DEF EngineInv, TypeOK, States, NoXfer
<1>4. /\ pc'[c] = "idle" /\ \A d \in Callers \ {c} : pc'[d] = pc[d]
      /\ moved'[c] = 0 /\ \A d \in Callers \ {c} : moved'[d] = moved[d]
  BY <1>1 DEF EngineInv, TypeOK
<1>5. descLock = c /\ transferList = <<>>
  BY DEF EngineInv, CallInv, ListInv, Inside
<1>6. ~running /\ ~serving
  BY <1>5, Zenon DEF EngineInv, RunInv
<1>7. TypeOK'
  <2>1. /\ pc' \in [Callers -> CallPcs] /\ nents' \in [Callers -> Nat]
        /\ moved' \in [Callers -> Nat]
    BY <1>1 DEF EngineInv, TypeOK, CallPcs
  <2>2. hwXfer' \in Callers \cup {NoCaller} /\ descLock' \in {NoCaller}
    BY <1>1 DEF EngineInv, TypeOK
  <2>3. CallTypes'
    BY <1>3, <2>1, <2>2, Zenon DEF EngineInv, TypeOK, CallTypes
  <2>4. DeviceTypes'
    BY <2>2, Zenon DEF EngineInv, TypeOK, DeviceTypes
  <2> QED
    BY <2>3, <2>4, TypeParts, PTL
<1>8. CallInv' /\ ListInv'
  BY <1>1, <1>2, <1>5, ZenonT(60)
  DEF EngineInv, TypeOK, CallInv, ListInv, Inside
<1>9. RunInv'
  BY <1>6, Zenon DEF EngineInv, RunInv
<1>10. HwInv'
  <2>1. hwXfer' # c /\ (hwXfer' \in Callers => hwXfer' = hwXfer)
    OBVIOUS
  <2>2. ASSUME NEW d \in Callers, hwXfer' = d
        PROVE  /\ pc'[d] \in {"wait", "finish", "reap"}
               /\ hwCount + hwLeft = xfer'[d].num /\ moved'[d] = hwCount
    BY <1>2, <1>4, <2>1, <2>2, ZenonT(60) DEF EngineInv, HwInv
  <2>3. ASSUME NEW d \in Callers, pc'[d] \in {"queue", "locked"}
        PROVE  moved'[d] = 0
    BY <1>4, <2>3, ZenonT(60) DEF EngineInv, HwInv
  <2>4. ASSUME NEW d \in Callers, xfer'[d].state = "COMPLETED"
        PROVE  moved'[d] = xfer'[d].num
    BY <1>2, <1>4, <2>4, ZenonT(60) DEF EngineInv, HwInv, CompletedIsTransferred
  <2> QED
    BY <2>2, <2>3, <2>4, Zenon DEF HwInv, CompletedIsTransferred
<1>11. \A d \in Callers \ {c} : pc[d] \in {"idle", "lock"}
  BY <1>5 DEF EngineInv, TypeOK, CallInv, Inside, CallPcs
<1>12. CountInv'
  <2> SUFFICES ASSUME NEW d \in Callers PROVE CountInv!(d)'
    BY DEF CountInv
  <2>1. CASE d = c
    BY <1>1, <2>1 DEF EngineInv, TypeOK
  <2>2. CASE d # c
    BY <1>1, <1>11, <2>2, ZenonT(60) DEF EngineInv, TypeOK, CountInv
  <2> QED
    BY <2>1, <2>2, ZenonT(60)
<1> QED
  BY <1>7, <1>8, <1>9, <1>10, <1>12 DEF EngineInv

LEMMA QueueFailsKeeps ==
  ASSUME EngineInv, NEW c \in Callers, QueueFails(c),
         pc[c] \in {"queue", "locked"}
  PROVE  EngineInv'
<1>1. UNCHANGED <<running, shutdown, transferList, descDequeued, descIdx,
                  descUsed, swDescCnt, done, offline, admin, irqOn, irqEnable,
                  work, serving, status, hwRun, hwBusy, hwCount, hwStat,
                  hwLeft, hwXfer>>
  BY DEF QueueFails, engine, ring, dev, irq, svc, hw
<1>2. Return(c) /\ rv' = [rv EXCEPT ![c] = "EBUSY"]
  BY DEF QueueFails
<1>3. hwXfer # c /\ descUsed' \in Nat
  BY <1>1 DEF EngineInv, TypeOK, HwInv
<1>4. /\ rv' \in [Callers -> Results] /\ rv'[c] # "ok"
      /\ \A d \in Callers \ {c} : rv'[d] = rv[d]
  BY <1>2 DEF EngineInv, TypeOK, Results
<1> QED
  BY <1>1, <1>2, <1>3, <1>4, ReturnKeeps, ZenonT(60)

LEMMA QueueCheckKeeps ==
  ASSUME EngineInv, NEW c \in Callers, QueueCheck(c)
  PROVE  EngineInv'
<1>1. CASE pc[c] = "queue" /\ QueueFails(c)
  BY <1>1, QueueFailsKeeps
<1>2. CASE /\ Goto(c, "queue", "locked")
           /\ UNCHANGED <<engine, ring, descLock, xfer, swDescCnt, nents, done,
                          rv, dev, irq, svc, hw, moved>>
  <2>1. UNCHANGED <<running, shutdown, transferList, descDequeued, descIdx,
                    descUsed, descLock, xfer, swDescCnt, nents, done, rv,
                    offline, admin, irqOn, irqEnable, work, serving, status,
                    hwRun, hwBusy, hwCount, hwStat, hwLeft, hwXfer, moved>>
    BY <1>2 DEF engine, ring, dev, irq, svc, hw
  <2> QED
    BY <1>2, <2>1, MoveKeeps, Zenon DEF Goto, CallPcs
<1> QED
  BY <1>1, <1>2 DEF QueueCheck

LEMMA TransferQueueKeeps ==
  ASSUME EngineInv, NEW c \in Callers, TransferQueue(c)
  PROVE  EngineInv'
<1> USE NoCallerIsNone
<1>1. CASE pc[c] = "locked" /\ QueueFails(c)
  BY <1>1, QueueFailsKeeps
<1>2. ASSUME Goto(c, "locked", "wait"), ~serving, Accepting,
             xfer' = [xfer EXCEPT ![c].state = "SUBMITTED"],
             transferList' = Append(transferList, c),
             IF running
             THEN UNCHANGED <<running, shutdown, descDequeued, hw>>
             ELSE EngineStart(Head(transferList')) /\ UNCHANGED hwStat,
             UNCHANGED <<ring, descLock, swDescCnt, nents, done, rv, dev, irq,
                         svc, moved>>
      PROVE  EngineInv'
  <2>1. pc[c] = "locked" /\ pc' = [pc EXCEPT ![c] = "wait"]
    BY <1>2 DEF Goto
  <2>2. UNCHANGED <<descIdx, descUsed, descLock, swDescCnt, nents, done, rv,
                    offline, admin, irqOn, irqEnable, work, serving, status,
                    moved>>
    BY <1>2 DEF ring, dev, irq, svc
  <2>3. descLock = c /\ transferList = <<>>
    BY <2>1 DEF EngineInv, CallInv, ListInv, Inside
  <2>4. ~running
    BY <2>3, Zenon DEF EngineInv, RunInv
  <2>5. transferList' = <<c>> /\ Head(transferList') = c
    BY <1>2, <2>3, OneTransfer
  <2>6. EngineStart(c) /\ hwStat' = hwStat
    BY <1>2, <2>4, <2>5
  <2>7. /\ running' \in BOOLEAN /\ hwRun' \in BOOLEAN /\ hwBusy' \in BOOLEAN
        /\ running'
    BY <2>6, Zenon DEF EngineStart
  <2>8. /\ shutdown' = {} /\ descDequeued' = 0 /\ hwCount' = 0
        /\ hwLeft' = xfer'[c].num /\ hwXfer' = c
    BY <2>6 DEF EngineStart
  <2>9. /\ xfer'[c].state = "SUBMITTED" /\ xfer'[c].num = xfer[c].num
        /\ \A d \in Callers \ {c} : xfer'[d] = xfer[d]
    BY <1>2, StateSet, Zenon DEF EngineInv, States
  <2>10. xfer' \in [Callers -> [state : States, num : 0 .. DescMax]]
    BY <1>2, StateSet, Zenon DEF EngineInv, States
  <2>11. xfer[c].num \in Nat
    BY NumIsNat DEF EngineInv
  <2>12. TypeOK'
    <3>1. transferList' \in Seq(Callers)
      BY <2>5, OneTransfer
    <3>2. hwLeft' \in Nat
      BY <2>8, <2>9, <2>11
    <3>3. pc' \in [Callers -> CallPcs]
      BY <2>1 DEF EngineInv, TypeOK, CallPcs
    <3>4. CallTypes'
      BY <2>2, <2>10, <3>1, <3>3, Zenon DEF EngineInv, TypeOK, CallTypes
    <3>5. /\ shutdown' \subseteq {"REQUEST", "IDLE"} /\ descDequeued' \in Nat
          /\ hwCount' \in Nat /\ hwXfer' \in Callers \cup {NoCaller}
      BY <2>8
    <3>6. DeviceTypes'
      BY <2>2, <2>6, <2>7, <3>2, <3>5, ZenonT(60)
      DEF EngineInv, TypeOK, DeviceTypes
    <3> QED
      BY <3>4, <3>6, TypeParts, PTL
  <2>13. CallInv' /\ ListInv'
    BY <2>1, <2>2, <2>3, <2>5, <2>9, ZenonT(60)
    DEF EngineInv, TypeOK, CallInv, ListInv, Inside
  <2>14. RunInv'
    <3>1. transferList' # <<>>
      BY <2>5, OneTransfer
    <3>2. admin' \notin {"stopped", "offline", "reset"}
      BY <1>2, <2>2, Zenon DEF EngineInv, RunInv, Accepting
    <3> QED
      BY <2>2, <2>3, <2>8, <3>1, <3>2, Zenon DEF RunInv
  <2>15. pc'[c] = "wait" /\ \A d \in Callers \ {c} : pc'[d] = pc[d]
    BY <2>1 DEF EngineInv, TypeOK
  <2>16. HwInv'
    <3>1. pc'[c] = "wait" /\ moved'[c] = 0 /\ hwCount' + hwLeft' = xfer'[c].num
      <4>1. moved[c] = 0
        BY <2>1 DEF EngineInv, HwInv
      <4>2. hwCount' + hwLeft' = xfer'[c].num
        <5>1. /\ hwCount' = 0 /\ hwLeft' = xfer[c].num
              /\ xfer'[c].num = xfer[c].num
          BY <2>8, <2>9, ZenonT(60)
        <5> QED
          BY <2>11, <5>1
      <4> QED
        BY <2>2, <2>15, <4>1, <4>2
    <3>2. \A d \in Callers : pc'[d] \in {"queue", "locked"} => moved'[d] = 0
      BY <2>2, <2>15 DEF EngineInv, HwInv
    <3>3. CompletedIsTransferred'
      BY <2>2, <2>9 DEF EngineInv, HwInv, CompletedIsTransferred
    <3>4. ASSUME NEW d \in Callers, hwXfer' = d PROVE d = c
      BY <2>8, <3>4
    <3>5. hwCount' = 0
      BY <2>8
    <3> QED
      BY <3>1, <3>2, <3>3, <3>4, <3>5, Zenon DEF HwInv
  <2>17. CountInv'
    <3> SUFFICES ASSUME NEW d \in Callers PROVE CountInv!(d)'
      BY DEF CountInv
    <3>1. CASE d = c
      BY <2>1, <2>2, <2>9, <2>15, <3>1 DEF EngineInv, CountInv
    <3>2. CASE d # c
      BY <2>2, <2>9, <2>15, <3>2 DEF EngineInv, CountInv
    <3> QED
      BY <3>1, <3>2, Zenon
  <2> QED
    BY <2>12, <2>13, <2>14, <2>16, <2>17 DEF EngineInv
<1> QED
  BY <1>1, <1>2 DEF TransferQueue

LEMMA FinishKeeps ==
  ASSUME EngineInv, NEW c \in Callers, Finish(c)
  PROVE  EngineInv'
<1> USE NoCallerIsNone
<1>1. pc[c] = "finish" /\ pc' = [pc EXCEPT ![c] = "reap"] /\ ~serving
  BY DEF Finish, Goto
<1>2. UNCHANGED <<descIdx, descUsed, descLock, swDescCnt, nents, offline, admin,
                  irqOn, irqEnable, work, serving, status, hwBusy, hwCount,
                  hwStat, hwLeft, hwXfer, moved>>
  BY DEF Finish, ring, dev, irq, svc
<1>3. /\ pc'[c] = "reap" /\ \A d \in Callers \ {c} : pc'[d] = pc[d]
  BY <1>1 DEF EngineInv, TypeOK
<1>4. pc' \in [Callers -> CallPcs]
  BY <1>1, ZenonT(60) DEF EngineInv, TypeOK, CallPcs
<1>5. /\ rv[c] = "ok" /\ xfer[c].num <= descUsed
      /\ done[c] + xfer[c].num + nents[c] = swDescCnt[c]
  BY <1>1 DEF EngineInv, CountInv
<1>6. /\ descLock = c
      /\ xfer[c].state \in {"SUBMITTED", "COMPLETED", "FAILED"}
  BY <1>1, Zenon DEF EngineInv, CallInv, Inside
<1>7. xfer[c].num \in Nat
  BY NumIsNat DEF EngineInv
<1>8. CASE xfer[c].state \in {"COMPLETED", "FAILED"}
  <2>1. UNCHANGED <<xfer, running, shutdown, transferList, descDequeued, hwRun>>
    BY <1>8 DEF Finish, engine
  <2>2. \/ done' = [done EXCEPT ![c] = done[c] + xfer[c].num] /\ rv' = rv
        \/ done' = done /\ rv' = [rv EXCEPT ![c] = "EIO"]
    BY <1>8 DEF Finish
  <2>3. /\ done' \in [Callers -> Nat] /\ rv' \in [Callers -> Results]
        /\ \A d \in Callers \ {c} : done'[d] = done[d] /\ rv'[d] = rv[d]
        /\ rv'[c] = "ok" => done'[c] = done[c] + xfer[c].num
    <3>1. done \in [Callers -> Nat] /\ rv \in [Callers -> Results]
      BY Zenon DEF EngineInv, TypeOK
    <3>2. done[c] + xfer[c].num \in Nat
      BY <1>7, <3>1
    <3>3. CASE done' = [done EXCEPT ![c] = done[c] + xfer[c].num] /\ rv' = rv
      BY <3>1, <3>3, <3>2
    <3>4. CASE done' = done /\ rv' = [rv EXCEPT ![c] = "EIO"]
      BY <3>1, <3>4 DEF Results
    <3> QED
      BY <2>2, <3>3, <3>4
  <2>4. TypeOK'
    <3>1. CallTypes'
      BY <1>2, <1>4, <2>1, <2>3, Zenon DEF EngineInv, TypeOK, CallTypes
    <3>2. DeviceTypes'
      BY <1>2, <2>1, ZenonT(60) DEF EngineInv, TypeOK, DeviceTypes
    <3> QED
      BY <3>1, <3>2, TypeParts, PTL
  <2>5. CallInv' /\ ListInv'
    BY <1>1, <1>2, <1>3, <1>8, <2>1
    DEF EngineInv, CallInv, ListInv, Inside
  <2>6. RunInv'
    BY <1>2, <2>1, Zenon DEF EngineInv, RunInv
  <2>7. HwInv'
    BY <1>2, <1>3, <2>1 DEF EngineInv, HwInv, CompletedIsTransferred
  <2>8. CountInv'
    <3> SUFFICES ASSUME NEW d \in Callers PROVE CountInv!(d)'
      BY DEF CountInv
    <3>1. CASE d = c
      <4>1. /\ rv'[c] = "ok" => done'[c] + nents'[c] = swDescCnt'[c]
            /\ xfer'[c].num <= descUsed'
        <5>1. rv'[c] = "ok" => done'[c] = done[c] + xfer[c].num
          BY <2>3, Zenon
        <5>2. UNCHANGED <<nents, swDescCnt, xfer, descUsed>>
          BY <1>2, <2>1, ZenonT(60)
        <5> QED
          BY <1>5, <5>1, <5>2, Zenon
      <4> QED
        BY <1>3, <3>1, <4>1
    <3>2. CASE d # c
      BY <1>2, <1>3, <2>1, <2>3, <3>2 DEF EngineInv, CountInv
    <3> QED
      BY <3>1, <3>2, Zenon
  <2> QED
    BY <2>4, <2>5, <2>6, <2>7, <2>8 DEF EngineInv
<1>9. CASE xfer[c].state = "SUBMITTED"
  <2>1. /\ TransferAbort(c) /\ EngineStop
        /\ rv' = [rv EXCEPT ![c] = "ERESTARTSYS"]
        /\ UNCHANGED <<done, shutdown, descDequeued>>
    BY <1>9 DEF Finish
  <2>2. /\ ~running' /\ ~hwRun' /\ running' \in BOOLEAN /\ hwRun' \in BOOLEAN
    BY <2>1, Zenon DEF EngineStop
  <2>3. transferList = <<c>>
    BY <1>9 DEF EngineInv, CallInv
  <2>4. transferList' = <<>> /\ <<>> \in Seq(Callers)
    BY <2>1, <2>3, OneTransfer DEF TransferAbort
  <2>5. /\ xfer'[c].state = "ABORTED" /\ xfer'[c].num = xfer[c].num
        /\ \A d \in Callers \ {c} : xfer'[d] = xfer[d]
    BY <2>1, StateSet, Zenon DEF EngineInv, TransferAbort, States
  <2>6. xfer' \in [Callers -> [state : States, num : 0 .. DescMax]]
    BY <2>1, StateSet, Zenon DEF EngineInv, TransferAbort, States
  <2>7. /\ rv' \in [Callers -> Results] /\ rv'[c] # "ok"
        /\ \A d \in Callers \ {c} : rv'[d] = rv[d]
    BY <2>1 DEF EngineInv, TypeOK, Results
  <2>8. TypeOK'
    <3>1. CallTypes'
      BY <1>2, <1>4, <2>1, <2>4, <2>6, <2>7, Zenon
      DEF EngineInv, TypeOK, CallTypes
    <3>2. DeviceTypes'
      BY <1>2, <2>1, <2>2, ZenonT(60) DEF EngineInv, TypeOK, DeviceTypes
    <3> QED
      BY <3>1, <3>2, TypeParts, PTL
  <2>9. ListInv'
    BY <2>4 DEF ListInv
  <2>10. CallInv'
    <3> SUFFICES ASSUME NEW d \in Callers PROVE CallInv!(d)'
      BY DEF CallInv
    <3>1. CASE d = c
      <4>1. pc'[d] \in Inside /\ descLock' = d
        BY <1>2, <1>3, <1>6, <3>1 DEF Inside
      <4>2. pc'[d] = "reap" /\ xfer'[d].state = "ABORTED"
        BY <1>3, <2>5, <3>1, Zenon
      <4> QED
        BY <4>1, <4>2
    <3>2. CASE d # c
      BY <1>2, <1>3, <1>6, <2>3, <2>5, <3>2, ZenonT(60)
      DEF EngineInv, CallInv, Inside
    <3> QED
      BY <3>1, <3>2, Zenon
  <2>11. RunInv'
    BY <1>1, <1>2, <2>1, <2>2, Zenon DEF EngineInv, RunInv
  <2>12. HwInv'
    <3>1. \A d \in Callers : xfer'[d].num = xfer[d].num
      BY <2>5
    <3>2. ASSUME NEW d \in Callers, hwXfer = d
          PROVE  /\ pc'[d] \in {"wait", "finish", "reap"}
                 /\ hwCount + hwLeft = xfer'[d].num /\ moved[d] = hwCount
      BY <1>3, <3>1, <3>2 DEF EngineInv, HwInv
    <3>3. ASSUME NEW d \in Callers, pc'[d] \in {"queue", "locked"}
          PROVE  moved[d] = 0
      BY <1>3, <3>3 DEF EngineInv, HwInv
    <3>4. ASSUME NEW d \in Callers, xfer'[d].state = "COMPLETED"
          PROVE  moved[d] = xfer'[d].num
      BY <2>5, <3>4, ZenonT(60) DEF EngineInv, HwInv, CompletedIsTransferred
    <3> QED
      BY <1>2, <3>2, <3>3, <3>4, Zenon DEF HwInv, CompletedIsTransferred
  <2>13. CountInv'
    <3> SUFFICES ASSUME NEW d \in Callers PROVE CountInv!(d)'
      BY DEF CountInv
    <3>1. CASE d = c
      <4>1. rv'[c] # "ok" /\ xfer'[c].num <= descUsed'
        BY <1>2, <1>5, <2>5, <2>7
      <4> QED
        BY <1>3, <3>1, <4>1
    <3>2. CASE d # c
      BY <1>2, <1>3, <2>1, <2>5, <2>7, <3>2, ZenonT(60) DEF EngineInv, CountInv
    <3> QED
      BY <3>1, <3>2, Zenon
  <2> QED
    BY <2>8, <2>9, <2>10, <2>11, <2>12, <2>13 DEF EngineInv
<1> QED
  BY <1>6, <1>8, <1>9

LEMMA ReapKeeps ==
  ASSUME EngineInv, NEW c \in Callers, Reap(c)
  PROVE  EngineInv'
<1> USE NoCallerIsNone
<1>1. /\ pc[c] = "reap" /\ descUsed' = descUsed - xfer[c].num
      /\ hwXfer' = IF hwXfer = c THEN NoCaller ELSE hwXfer
  BY Zenon DEF Reap
<1>2. UNCHANGED <<running, shutdown, transferList, descDequeued, descIdx,
                  swDescCnt, done, rv, offline, admin, irqOn, irqEnable, work,
                  serving, status, hwRun, hwBusy, hwCount, hwStat, hwLeft>>
  BY DEF Reap, engine, dev, irq, svc
<1>3. descUsed' \in Nat
  <2>1. xfer[c].num \in Nat /\ xfer[c].num <= descUsed
    BY <1>1, NumIsNat DEF EngineInv, CountInv
  <2> QED
    <3>1. descUsed \in Nat
      BY Zenon DEF EngineInv, TypeOK
    <3> QED
      BY <1>1, <2>1, <3>1
<1>4. CASE LastTransfer(c)
  <2>1. Return(c)
    BY <1>4, Zenon DEF Reap
  <2>2. rv' \in [Callers -> Results] /\ \A d \in Callers \ {c} : rv'[d] = rv[d]
    BY <1>2, ZenonT(60) DEF EngineInv, TypeOK
  <2>3. rv'[c] = "ok" => done[c] = swDescCnt[c]
    <3>1. /\ rv[c] = "ok" => done[c] + nents[c] = swDescCnt[c]
          /\ rv[c] # "ok" \/ nents[c] = 0
      BY <1>1, <1>2, <1>4 DEF EngineInv, CountInv, LastTransfer
    <3>2. done[c] \in Nat /\ rv' = rv
      BY <1>2 DEF EngineInv, TypeOK
    <3> QED
      BY <3>1, <3>2, SMTT(30)
  <2> QED
    BY <1>1, <1>2, <1>3, <2>1, <2>2, <2>3, ReturnKeeps, Zenon
<1>5. CASE ~LastTransfer(c)
  <2>1. /\ pc' = [pc EXCEPT ![c] = "init"]
        /\ UNCHANGED <<nents, descLock, xfer, moved>>
    BY <1>5, Zenon DEF Reap
  <2>2. /\ pc'[c] = "init" /\ \A d \in Callers \ {c} : pc'[d] = pc[d]
    BY <2>1 DEF EngineInv, TypeOK
  <2>3. pc' \in [Callers -> CallPcs]
    BY <2>1 DEF EngineInv, TypeOK, CallPcs
  <2>4. hwXfer' \in Callers \cup {NoCaller} /\ hwXfer' # c
    BY <1>1 DEF EngineInv, TypeOK
  <2>5. descLock = c /\ transferList = <<>>
    BY <1>1, Zenon DEF EngineInv, CallInv, ListInv, Inside
  <2>6. ~running /\ ~serving
    BY <2>5, Zenon DEF EngineInv, RunInv
  <2>7. TypeOK'
    <3>1. CallTypes'
      BY <1>2, <1>3, <2>1, <2>3, Zenon DEF EngineInv, TypeOK, CallTypes
    <3>2. DeviceTypes'
      BY <1>2, <2>4, ZenonT(60) DEF EngineInv, TypeOK, DeviceTypes
    <3> QED
      BY <3>1, <3>2, TypeParts, PTL
  <2>8. CallInv' /\ ListInv'
    BY <1>1, <1>2, <2>1, <2>2, Zenon DEF EngineInv, CallInv, ListInv, Inside
  <2>9. RunInv'
    BY <1>2, <2>6, Zenon DEF EngineInv, RunInv
  <2>10. HwInv'
    BY <1>1, <1>2, <2>1, <2>2, ZenonT(60)
    DEF EngineInv, HwInv, CompletedIsTransferred
  <2>11. \A d \in Callers \ {c} : pc[d] \in {"idle", "lock"}
    BY <2>5 DEF EngineInv, TypeOK, CallInv, Inside, CallPcs
  <2>12. CountInv'
    <3> SUFFICES ASSUME NEW d \in Callers PROVE CountInv!(d)'
      BY DEF CountInv
    <3>1. CASE d = c
      BY <1>1, <1>2, <1>5, <2>1, <2>2, <3>1, ZenonT(40)
      DEF EngineInv, CountInv, LastTransfer
    <3>2. CASE d # c
      BY <1>2, <2>1, <2>2, <2>11, <3>2, ZenonT(40) DEF EngineInv, CountInv
    <3> QED
      BY <3>1, <3>2, Zenon
  <2> QED
    BY <2>7, <2>8, <2>9, <2>10, <2>12 DEF EngineInv
<1> QED
  BY <1>4, <1>5

-----------------------------------------------------------------------------
(* The hardware, the interrupt and its service, the reset.                 *)

\* A step that leaves the callers, the list and the chain alone.
LEMMA QuietKeeps ==
  ASSUME EngineInv, DeviceTypes', RunInv',
         UNCHANGED <<transferList, descIdx, descUsed, descLock, xfer, pc,
                     swDescCnt, nents, done, rv, hwCount, hwLeft, hwXfer,
                     moved>>
  PROVE  EngineInv'
<1>1. CallTypes'
  BY Zenon DEF EngineInv, TypeOK, CallTypes
<1>2. TypeOK'
  BY <1>1, TypeParts, PTL
<1>3. CallInv' /\ ListInv'
  BY ZenonT(60) DEF EngineInv, CallInv, ListInv
<1>4. HwInv'
  BY Zenon DEF EngineInv, HwInv, CompletedIsTransferred
<1>5. CountInv'
  BY ZenonT(60) DEF EngineInv, CountInv
<1> QED
  BY <1>2, <1>3, <1>4, <1>5 DEF EngineInv

LEMMA HwStopsKeep ==
  ASSUME EngineInv, HwError \/ HwIdle
  PROVE  EngineInv'
<1>1. UNCHANGED <<running, shutdown, transferList, descDequeued, descIdx,
                  descUsed, descLock, xfer, pc, swDescCnt, nents, done, rv,
                  offline, admin, irqOn, irqEnable, work, serving, status,
                  hwRun, hwCount, hwLeft, hwXfer, moved>>
  BY DEF HwError, HwIdle, HwUnchanged, engine, ring, locals, dev, irq, svc
<1>2. hwBusy' \in BOOLEAN
  BY Zenon DEF HwError, HwIdle
<1>3. hwStat' \subseteq {"DONE", "ERR"}
  BY Zenon DEF HwError, HwIdle, EngineInv, TypeOK
<1>4. DeviceTypes'
  BY <1>1, <1>2, <1>3, ZenonT(60) DEF EngineInv, TypeOK, DeviceTypes
<1>5. RunInv'
  BY <1>1, Zenon DEF EngineInv, RunInv
<1> QED
  BY <1>1, <1>4, <1>5, QuietKeeps

\* One more descriptor of the chain, and one less to go.
LEMMA HwDescriptorKeeps ==
  ASSUME EngineInv, HwDescriptor
  PROVE  EngineInv'
<1> USE NoCallerIsNone
<1>1. UNCHANGED <<running, shutdown, transferList, descDequeued, descIdx,
                  descUsed, descLock, xfer, pc, swDescCnt, nents, done, rv,
                  offline, admin, irqOn, irqEnable, work, serving, status,
                  hwRun, hwXfer>>
  BY DEF HwDescriptor, HwUnchanged, engine, ring, locals, dev, irq, svc
<1>2. /\ hwLeft > 0 /\ hwLeft' = hwLeft - 1 /\ hwCount' = hwCount + 1
      /\ moved' = [c \in Callers |->
                     IF c = hwXfer THEN moved[c] + 1 ELSE moved[c]]
  BY DEF HwDescriptor
<1>3. hwLeft \in Nat /\ hwCount \in Nat /\ moved \in [Callers -> Nat]
  BY DEF EngineInv, TypeOK
<1>4. hwLeft' \in Nat /\ hwCount' \in Nat /\ moved' \in [Callers -> Nat]
  BY <1>2, <1>3
<1>5. hwBusy' \in BOOLEAN
  BY Zenon DEF HwDescriptor
<1>6. hwStat' \subseteq {"DONE", "ERR"}
  BY DEF HwDescriptor, EngineInv, TypeOK
<1>7. TypeOK'
  <2>1. CallTypes'
    BY <1>1, <1>4, Zenon DEF EngineInv, TypeOK, CallTypes
  <2>2. DeviceTypes'
    BY <1>1, <1>4, <1>5, <1>6, ZenonT(60) DEF EngineInv, TypeOK, DeviceTypes
  <2> QED
    BY <2>1, <2>2, TypeParts, PTL
<1>8. CallInv' /\ ListInv'
  BY <1>1, Zenon DEF EngineInv, CallInv, ListInv
<1>9. RunInv'
  BY <1>1, ZenonT(40) DEF EngineInv, RunInv
<1>10. HwInv'
  <2>1. ASSUME NEW c \in Callers, hwXfer = c
        PROVE  /\ pc[c] \in {"wait", "finish", "reap"}
               /\ hwCount' + hwLeft' = xfer[c].num /\ moved'[c] = hwCount'
    <3>1. /\ pc[c] \in {"wait", "finish", "reap"}
          /\ hwCount + hwLeft = xfer[c].num /\ moved[c] = hwCount
      BY <2>1, ZenonT(60) DEF EngineInv, HwInv
    <3>2. moved'[c] = moved[c] + 1
      BY <1>2, <2>1
    <3>3. xfer[c].num \in Nat
      BY NumIsNat DEF EngineInv
    <3> QED
      BY <1>2, <1>3, <3>1, <3>2, <3>3
  <2>2. ASSUME NEW c \in Callers, hwXfer # c
        PROVE  moved'[c] = moved[c]
    BY <1>2, <2>2
  <2>3. ASSUME NEW c \in Callers, pc[c] \in {"queue", "locked"}
        PROVE  moved'[c] = 0
    <3>1. hwXfer # c /\ moved[c] = 0
      BY <2>3 DEF EngineInv, HwInv
    <3> QED
      BY <2>2, <3>1
  <2>4. ASSUME NEW c \in Callers, xfer[c].state = "COMPLETED"
        PROVE  moved'[c] = xfer[c].num
    <3>1. moved[c] = xfer[c].num
      BY <2>4 DEF EngineInv, HwInv, CompletedIsTransferred
    <3>2. hwXfer # c
      <4>1. ASSUME hwXfer = c PROVE hwCount + hwLeft = hwCount
        BY <3>1, <4>1, Zenon DEF EngineInv, HwInv
      <4> QED
        BY <1>2, <1>3, <4>1
    <3> QED
      BY <2>2, <3>1, <3>2
  <2> QED
    BY <1>1, <2>1, <2>3, <2>4, Zenon DEF HwInv, CompletedIsTransferred
<1>11. CountInv'
  BY <1>1 DEF EngineInv, CountInv
<1> QED
  BY <1>7, <1>8, <1>9, <1>10, <1>11 DEF EngineInv

LEMMA IrqsKeep ==
  ASSUME EngineInv, ChannelIrq \/ ServiceIdle
  PROVE  EngineInv'
<1>1. UNCHANGED <<running, shutdown, transferList, descDequeued, descIdx,
                  descUsed, descLock, xfer, pc, swDescCnt, nents, done, rv,
                  offline, admin, irqOn, serving, status, hwRun, hwBusy,
                  hwCount, hwLeft, hwXfer, moved>>
  BY DEF ChannelIrq, ServiceIdle, engine, ring, locals, dev, svc, hw
<1>2. irqEnable' \in BOOLEAN /\ work' \in BOOLEAN
  BY Zenon DEF ChannelIrq, ServiceIdle, Unmask
<1>3. hwStat' \subseteq {"DONE", "ERR"}
  BY ZenonT(40) DEF ChannelIrq, ServiceIdle, EngineInv, TypeOK, hw
<1>4. DeviceTypes'
  BY <1>1, <1>2, <1>3, ZenonT(60) DEF EngineInv, TypeOK, DeviceTypes
<1>5. RunInv'
  BY <1>1, Zenon DEF EngineInv, RunInv
<1> QED
  BY <1>1, <1>4, <1>5, QuietKeeps

LEMMA ServiceStatusKeeps ==
  ASSUME EngineInv, ServiceStatus
  PROVE  EngineInv'
<1>1. UNCHANGED <<shutdown, transferList, descDequeued, descIdx, descUsed,
                  descLock, xfer, pc, swDescCnt, nents, done, rv, offline,
                  admin, irqOn, irqEnable, hwBusy, hwCount, hwLeft, hwXfer,
                  moved>>
  BY DEF ServiceStatus, ring, locals, dev
<1>2. running /\ work' \in BOOLEAN /\ serving' \in BOOLEAN
  BY Zenon DEF ServiceStatus
<1>3. \/ running' = running /\ hwRun' = hwRun
      \/ running' = FALSE /\ hwRun' = FALSE
  BY Zenon DEF ServiceStatus, ServiceShutdown, EngineStop
<1>4. running' \in BOOLEAN /\ hwRun' \in BOOLEAN
  <2>1. running \in BOOLEAN /\ hwRun \in BOOLEAN
    BY DEF EngineInv, TypeOK
  <2> QED
    BY <1>3, <2>1, Zenon
<1>5. status' \in [busy : BOOLEAN, err : BOOLEAN]
  <2>1. hwBusy \in BOOLEAN
    BY Zenon DEF EngineInv, TypeOK
  <2>2. ("ERR" \in hwStat) \in BOOLEAN
    OBVIOUS
  <2>3. status' = [busy |-> hwBusy, err |-> "ERR" \in hwStat]
    BY ZenonT(60) DEF ServiceStatus, ReadStatus
  <2> QED
    BY <2>1, <2>3, <2>2, Zenon
<1>6. hwStat' \subseteq {"DONE", "ERR"}
  BY DEF ServiceStatus, ReadStatus
<1>7. DeviceTypes'
  BY <1>1, <1>2, <1>4, <1>5, <1>6, Zenon DEF EngineInv, TypeOK, DeviceTypes
<1>8. RunInv'
  BY <1>1, <1>2, Zenon DEF EngineInv, RunInv
<1> QED
  BY <1>1, <1>7, <1>8, QuietKeeps

\* engine_service's second part: no descriptor yet, or the end of the transfer
\* at the head of the list, which is the only one.
LEMMA ServiceCountKeeps ==
  ASSUME EngineInv, ServiceCount
  PROVE  EngineInv'
<1> USE NoCallerIsNone
<1>1. UNCHANGED <<descIdx, descUsed, descLock, pc, swDescCnt, nents, done, rv,
                  offline, admin, irqOn, work, hwStat, moved>>
  BY DEF ServiceCount, ring, locals, dev
<1>2. serving /\ ~serving' /\ serving' \in BOOLEAN /\ irqEnable' \in BOOLEAN
  BY Zenon DEF ServiceCount, Unmask
<1>3. status' \in [busy : BOOLEAN, err : BOOLEAN]
  BY DEF ServiceCount, NoStatus
<1>4. CASE hwCount = 0
  <2>1. UNCHANGED <<running, shutdown, transferList, descDequeued, xfer, hwRun,
                    hwBusy, hwCount, hwLeft, hwXfer>>
    BY <1>4 DEF ServiceCount, engine
  <2>2. DeviceTypes'
    BY <1>1, <1>2, <1>3, <2>1, Zenon DEF EngineInv, TypeOK, DeviceTypes
  <2>3. RunInv'
    BY <1>1, <1>2, <2>1, Zenon DEF EngineInv, RunInv
  <2> QED
    BY <1>1, <2>1, <2>2, <2>3, QuietKeeps
<1>5. CASE hwCount # 0
  <2> DEFINE c == descLock
             s == FinalState(c, Completed)
  <2>1. transferList # <<>> /\ hwXfer = c /\ descDequeued = 0
    BY <1>2, Zenon DEF EngineInv, RunInv
  <2>2. c \in Callers /\ transferList = <<c>> /\ xfer[c].state = "SUBMITTED"
    BY <2>1 DEF EngineInv, ListInv
  <2>3. /\ Head(transferList) = c /\ Tail(transferList) = <<>>
        /\ <<>> \in Seq(Callers)
    BY <2>2, OneTransfer
  <2>4. /\ xfer' = [xfer EXCEPT ![c].state = s] /\ transferList' = <<>>
        /\ ServiceResume(running /\ ~status.err, <<>>,
                         descDequeued + IF status.err THEN 0 ELSE xfer[c].num)
    BY <1>5, <2>3, Zenon DEF ServiceCount, FinalTransfer
  <2>5. s \in {"COMPLETED", "FAILED"} /\ s \in States
    BY DEF FinalState, States
  <2>6. xfer[c].num \in Nat /\ hwCount \in Nat /\ hwLeft \in Nat
    <3>1. hwCount \in Nat /\ hwLeft \in Nat
      BY Zenon DEF EngineInv, TypeOK
    <3>2. xfer[c].num \in Nat
      BY <2>2, NumIsNat, Zenon DEF EngineInv
    <3> QED
      BY <3>1, <3>2, Zenon
  <2>7. s = "COMPLETED" => moved[c] = xfer[c].num
    <3>1. hwCount + hwLeft = xfer[c].num /\ moved[c] = hwCount
      BY <2>1, <2>2 DEF EngineInv, HwInv
    <3>2. s = "COMPLETED" => ~(hwCount - 0 < xfer[c].num)
      BY <2>1 DEF FinalState, Completed
    <3> QED
      BY <2>6, <3>1, <3>2
  <2> HIDE DEF s
  <2>8. /\ xfer'[c].state = s /\ xfer'[c].num = xfer[c].num
        /\ \A d \in Callers \ {c} : xfer'[d] = xfer[d]
    BY <2>2, <2>4, <2>5, StateSet, Zenon DEF EngineInv
  <2>9. xfer' \in [Callers -> [state : States, num : 0 .. DescMax]]
    BY <2>2, <2>4, <2>5, StateSet, Zenon DEF EngineInv
  <2>10. /\ EngineStop /\ UNCHANGED <<hwBusy, hwCount, hwLeft, hwXfer>>
         /\ descDequeued' = descDequeued + IF status.err THEN 0 ELSE xfer[c].num
         /\ shutdown' = shutdown \/ shutdown' = shutdown \cup {"IDLE"}
    BY <2>4 DEF ServiceResume, ServiceShutdown
  <2>11. ~running' /\ ~hwRun' /\ running' \in BOOLEAN /\ hwRun' \in BOOLEAN
    BY <2>10, Zenon DEF EngineStop
  <2>12. TypeOK'
    <3>1. descDequeued' \in Nat /\ shutdown' \subseteq {"REQUEST", "IDLE"}
      <4>1. descDequeued' \in Nat
        BY <2>1, <2>6, <2>10
      <4>2. shutdown \subseteq {"REQUEST", "IDLE"}
        BY DEF EngineInv, TypeOK
      <4>3. shutdown' \subseteq {"REQUEST", "IDLE"}
        BY <2>10, <4>2, Zenon
      <4> QED
        BY <4>1, <4>3
    <3>2. CallTypes'
      BY <1>1, <2>3, <2>4, <2>9, Zenon DEF EngineInv, TypeOK, CallTypes
    <3>3. DeviceTypes'
      BY <1>1, <1>2, <1>3, <2>10, <2>11, <3>1, Zenon
      DEF EngineInv, TypeOK, DeviceTypes
    <3> QED
      BY <3>2, <3>3, TypeParts, PTL
  <2>13. ListInv'
    BY <2>4 DEF ListInv
  <2>14. CallInv'
    <3> SUFFICES ASSUME NEW d \in Callers PROVE CallInv!(d)'
      BY Zenon DEF CallInv
    <3>1. CASE d = c
      <4>1. /\ pc'[c] \in Inside <=> descLock' = c
            /\ pc'[c] \in {"wait", "finish"}
        BY <1>1, <2>2, Zenon DEF EngineInv, CallInv
      <4>2. /\ xfer'[c].state \in {"COMPLETED", "FAILED"}
        BY <2>5, <2>8, Zenon
      <4> QED
        BY <3>1, <4>1, <4>2
    <3>2. CASE d # c
      BY <1>1, <2>2, <2>8, <3>2, ZenonT(40) DEF EngineInv, CallInv, Inside
    <3> QED
      BY <3>1, <3>2
  <2>15. RunInv'
    BY <1>1, <1>2, <2>10, <2>11, Zenon DEF EngineInv, RunInv
  <2>16. HwInv'
    <3>1. \A d \in Callers : xfer'[d].num = xfer[d].num
      BY <2>8
    <3>2. ASSUME NEW d \in Callers, hwXfer = d
          PROVE  /\ pc[d] \in {"wait", "finish", "reap"}
                 /\ hwCount + hwLeft = xfer'[d].num /\ moved[d] = hwCount
      BY <3>1, <3>2 DEF EngineInv, HwInv
    <3>3. ASSUME NEW d \in Callers, pc[d] \in {"queue", "locked"}
          PROVE  moved[d] = 0
      BY <3>3 DEF EngineInv, HwInv
    <3>4. ASSUME NEW d \in Callers, xfer'[d].state = "COMPLETED"
          PROVE  moved[d] = xfer'[d].num
      <4>1. CASE d = c
        BY <2>7, <2>8, <3>4, <4>1
      <4>2. CASE d # c
        BY <2>8, <3>4, <4>2, Zenon DEF EngineInv, HwInv, CompletedIsTransferred
      <4> QED
        BY <4>1, <4>2
    <3> QED
      BY <1>1, <2>10, <3>2, <3>3, <3>4, Zenon DEF HwInv, CompletedIsTransferred
  <2>17. CountInv'
    <3>1. \A d \in Callers : xfer'[d].num = xfer[d].num
      BY <2>8
    <3> QED
      BY <1>1, <3>1, ZenonT(60) DEF EngineInv, CountInv
  <2> QED
    BY <2>12, <2>13, <2>14, <2>15, <2>16, <2>17 DEF EngineInv
<1> QED
  BY <1>4, <1>5

\* The steps of xdma_device_offline and _online that leave the chain alone.
LEMMA ResetStepsKeep ==
  ASSUME EngineInv,
         \/ OfflineFlag \/ OfflineEngine \/ OfflineIrq
         \/ OnlineEngine \/ OnlineIrq \/ OnlineFlag
  PROVE  EngineInv'
<1>1. UNCHANGED <<transferList, descDequeued, descIdx, descUsed, descLock, xfer,
                  pc, swDescCnt, nents, done, rv, work, serving, status,
                  hwBusy, hwCount, hwStat, hwLeft, hwXfer, moved>>
  BY DEF OfflineFlag, OfflineEngine, OfflineIrq, OnlineEngine, OnlineIrq,
         OnlineFlag, engine, ring, locals, irq, svc, hw
<1>2. offline' \in BOOLEAN /\ irqOn' \in BOOLEAN /\ irqEnable' \in BOOLEAN
  <2>1. offline \in BOOLEAN /\ irqOn \in BOOLEAN /\ irqEnable \in BOOLEAN
    BY DEF EngineInv, TypeOK
  <2> QED
    BY <2>1, Zenon
    DEF OfflineFlag, OfflineEngine, OfflineIrq, OnlineEngine, OnlineIrq,
        OnlineFlag, irq
<1>3. admin' \in AdminPcs
  BY DEF OfflineFlag, OfflineEngine, OfflineIrq, OnlineEngine, OnlineIrq,
         OnlineFlag, Admin, AdminPcs
<1>4. CASE OfflineEngine
  <2>1. /\ ~running' /\ ~hwRun' /\ running' \in BOOLEAN /\ hwRun' \in BOOLEAN
        /\ ~serving'
    BY <1>1, <1>4, Zenon DEF OfflineEngine, EngineStop
  <2>2. shutdown' \subseteq {"REQUEST", "IDLE"} /\ "REQUEST" \in shutdown'
    BY <1>4 DEF OfflineEngine, EngineInv, TypeOK
  <2>3. DeviceTypes'
    BY <1>1, <1>2, <1>3, <2>1, <2>2, Zenon DEF EngineInv, TypeOK, DeviceTypes
  <2>4. RunInv'
    BY <2>1, <2>2, ZenonT(60) DEF RunInv
  <2> QED
    BY <1>1, <2>3, <2>4, QuietKeeps
<1>5. CASE OfflineFlag \/ OfflineIrq \/ OnlineIrq \/ OnlineFlag
  <2>1. UNCHANGED <<running, shutdown, hwRun>>
    BY <1>5 DEF OfflineFlag, OfflineIrq, OnlineIrq, OnlineFlag, engine, hw
  <2>2. DeviceTypes'
    BY <1>1, <1>2, <1>3, <2>1, ZenonT(60) DEF EngineInv, TypeOK, DeviceTypes
  <2>3. admin' \in {"stopped", "offline", "reset"} => admin = "stopped"
    BY <1>5 DEF OfflineFlag, OfflineIrq, OnlineIrq, OnlineFlag, Admin
  <2>4. RunInv'
    BY <1>1, <2>1, <2>3, Zenon DEF EngineInv, RunInv
  <2> QED
    BY <1>1, <2>2, <2>4, QuietKeeps
<1>6. CASE OnlineEngine
  <2>1. UNCHANGED <<running, hwRun>>
    BY <1>6, SMTT(30) DEF OnlineEngine, hw
  <2>2. shutdown' \subseteq {"REQUEST", "IDLE"}
    BY <1>6 DEF OnlineEngine, EngineInv, TypeOK
  <2>3. DeviceTypes'
    BY <1>1, <1>2, <1>3, <2>1, <2>2, Zenon DEF EngineInv, TypeOK, DeviceTypes
  <2>4. admin' \notin {"stopped", "offline", "reset"}
    BY <1>6 DEF OnlineEngine, Admin
  <2>5. RunInv'
    BY <1>1, <2>1, <2>4, Zenon DEF EngineInv, RunInv
  <2> QED
    BY <1>1, <2>3, <2>5, QuietKeeps
<1> QED
  BY <1>4, <1>5, <1>6, SMTT(30)

LEMMA HwResetKeeps ==
  ASSUME EngineInv, HwReset
  PROVE  EngineInv'
<1> USE NoCallerIsNone
<1>1. UNCHANGED <<running, shutdown, transferList, descDequeued, descIdx,
                  descUsed, descLock, xfer, pc, swDescCnt, nents, done, rv,
                  offline, irqOn, work, serving, status, moved>>
  BY DEF HwReset, engine, ring, locals, svc
<1>2. /\ hwRun' \in BOOLEAN /\ hwBusy' \in BOOLEAN /\ irqEnable' \in BOOLEAN
      /\ ~hwRun'
  BY Zenon DEF HwReset
<1>3. /\ hwCount' = 0 /\ hwStat' = {} /\ hwLeft' = 0 /\ hwXfer' = NoCaller
      /\ admin = "offline" /\ admin' = "reset"
  BY DEF HwReset, Admin
<1>4. TypeOK'
  <2>1. CallTypes'
    BY <1>1, ZenonT(60) DEF EngineInv, TypeOK, CallTypes
  <2>2. DeviceTypes'
    BY <1>1, <1>2, <1>3, SMTT(30) DEF EngineInv, TypeOK, DeviceTypes, AdminPcs
  <2> QED
    BY <2>1, <2>2, TypeParts, PTL
<1>5. CallInv' /\ ListInv'
  BY <1>1, Zenon DEF EngineInv, CallInv, ListInv
<1>6. RunInv'
  <2>1. "REQUEST" \in shutdown /\ ~running /\ ~serving
    BY <1>3, ZenonT(40) DEF EngineInv, RunInv
  <2> QED
    BY <1>1, <1>2, <2>1, Zenon DEF RunInv
<1>7. HwInv'
  BY <1>1, <1>3, ZenonT(60) DEF EngineInv, HwInv, CompletedIsTransferred
<1>8. CountInv'
  BY <1>1, ZenonT(60) DEF EngineInv, CountInv
<1> QED
  BY <1>4, <1>5, <1>6, <1>7, <1>8 DEF EngineInv

LEMMA StutterKeeps ==
  ASSUME EngineInv, UNCHANGED vars
  PROVE  EngineInv'
<1>1. UNCHANGED <<running, shutdown, transferList, descDequeued, descIdx,
                  descUsed, descLock, xfer, pc, swDescCnt, nents, done, rv,
                  offline, admin, irqOn, irqEnable, work, serving, status,
                  hwRun, hwBusy, hwCount, hwStat, hwLeft, hwXfer, moved>>
  BY DEF vars, engine, ring, locals, dev, irq, svc, hw
<1>2. DeviceTypes'
  BY <1>1, ZenonT(60) DEF EngineInv, TypeOK, DeviceTypes
<1>3. RunInv'
  BY <1>1, Zenon DEF EngineInv, RunInv
<1> QED
  BY <1>1, <1>2, <1>3, QuietKeeps

LEMMA Kept ==
  ASSUME EngineInv, [Next]_vars
  PROVE  EngineInv'
<1>1. ASSUME NEW c \in Callers, Submit(c) \/ CallStep(c) \/ Interrupted(c)
      PROVE  EngineInv'
  BY <1>1, SubmitKeeps, MovesKeep, TransferInitKeeps, QueueCheckKeeps,
     TransferQueueKeeps, FinishKeeps, ReapKeeps, Zenon DEF CallStep
<1>2. CASE HwDescriptor \/ HwError \/ HwIdle
  BY <1>2, HwDescriptorKeeps, HwStopsKeep, Zenon
<1>3. CASE ChannelIrq \/ ServiceWork
  BY <1>3, IrqsKeep, ServiceStatusKeeps, ServiceCountKeeps, Zenon
  DEF ServiceWork
<1>4. CASE DeviceReset
  BY <1>4, ResetStepsKeep, HwResetKeeps, Zenon DEF DeviceReset
<1>5. CASE UNCHANGED vars
  BY <1>5, StutterKeeps
<1> QED
  BY <1>1, <1>2, <1>3, <1>4, <1>5, Zenon DEF Next

-----------------------------------------------------------------------------
(* The theorems.                                                           *)

\* The engine's invariant holds through every interleaving of the callers, the
\* hardware, the interrupt service and a device reset; TypeOK is part of it.
THEOREM EngineCorrect == Spec => []EngineInv
<1>1. Init => EngineInv
  BY Initially
<1>2. EngineInv /\ [Next]_vars => EngineInv'
  BY Kept
<1> QED
  BY <1>1, <1>2, PTL DEF Spec

\* Every field of the engine, the transfers and the registers keeps its type.
THEOREM EngineTypes == Spec => []TypeOK
<1>1. EngineInv => TypeOK
  BY DEF EngineInv
<1> QED
  BY <1>1, EngineCorrect, PTL

\* xdma_request_free never frees a transfer that engine->transfer_list holds:
\* every listed transfer belongs to a caller still inside its call, whether
\* the wait ended by completion, signal, timeout or at once.
THEOREM ListedTransfersAlive == Spec => []ListedIsAlive
<1>1. EngineInv => ListedIsAlive
  <2> SUFFICES ASSUME EngineInv, NEW i \in 1 .. Len(transferList)
               PROVE  /\ pc[transferList[i]] \in {"wait", "finish"}
                      /\ xfer[transferList[i]].state = "SUBMITTED"
                      /\ descLock = transferList[i]
    BY Zenon DEF ListedIsAlive
  <2>1. transferList # <<>>
    <3>1. Len(<<>>) = 0 /\ 1 .. 0 = {}
      OBVIOUS
    <3> QED
      BY <3>1, Zenon
  <2>2. /\ descLock \in Callers /\ transferList = <<descLock>>
        /\ xfer[descLock].state = "SUBMITTED"
    BY <2>1, ZenonT(30) DEF EngineInv, ListInv
  <2>3. transferList[i] = descLock
    BY <2>2
  <2>4. pc[descLock] \in {"wait", "finish"}
    BY <2>2 DEF EngineInv, CallInv
  <2> QED
    BY <2>2, <2>3, <2>4, Zenon
<1> QED
  BY <1>1, EngineCorrect, PTL

\* engine->running is never set without a transfer at the head of the list,
\* and the chain the hardware works on is that transfer's.
THEOREM RunningIsTruthful == Spec => []RunningHasTransfer
<1>1. EngineInv => RunningHasTransfer
  <2> SUFFICES ASSUME EngineInv, running
               PROVE  transferList # <<>> /\ hwXfer = Head(transferList)
    BY DEF RunningHasTransfer
  <2>1. transferList # <<>> /\ hwXfer = descLock
    BY Zenon DEF EngineInv, RunInv
  <2>2. descLock \in Callers /\ transferList = <<descLock>>
    BY <2>1 DEF EngineInv, ListInv
  <2> QED
    BY <2>1, <2>2, OneTransfer
<1> QED
  BY <1>1, EngineCorrect, PTL

\* Between xdma_device_offline's stop and xdma_device_online nothing starts
\* the engine, whatever a caller had tested before.
THEOREM ShutdownHolds == Spec => []NoStartInShutdown
<1>1. EngineInv => NoStartInShutdown
  BY Zenon DEF EngineInv, RunInv, NoStartInShutdown
<1> QED
  BY <1>1, EngineCorrect, PTL

\* The WARN_ON of engine_service_transfer_list never fires: the count read
\* from the hardware stays within the transfer at the head of the list.
THEOREM CountStaysInHead == Spec => []NeverPastHead
<1>1. EngineInv => NeverPastHead
  <2> SUFFICES ASSUME EngineInv, running \/ serving, transferList # <<>>
               PROVE  hwCount - descDequeued
                        \in 0 .. xfer[Head(transferList)].num
    BY DEF NeverPastHead
  <2>1. hwXfer = descLock /\ descDequeued = 0
    BY Zenon DEF EngineInv, RunInv
  <2>2. descLock \in Callers /\ transferList = <<descLock>>
    BY DEF EngineInv, ListInv
  <2>3. Head(transferList) = descLock
    BY <2>2, OneTransfer
  <2>4. hwCount + hwLeft = xfer[descLock].num
    BY <2>1, <2>2 DEF EngineInv, HwInv
  <2>5. hwCount \in Nat /\ hwLeft \in Nat
    BY Zenon DEF EngineInv, TypeOK
  <2> QED
    BY <2>1, <2>3, <2>4, <2>5
<1> QED
  BY <1>1, EngineCorrect, PTL

\* engine_service_final_transfer marks a transfer COMPLETED only when the
\* hardware has moved all its descriptors.
THEOREM CompletedWasMoved == Spec => []CompletedIsTransferred
<1>1. EngineInv => CompletedIsTransferred
  BY ZenonT(60) DEF EngineInv, HwInv
<1> QED
  BY <1>1, EngineCorrect, PTL

\* A call of xdma_xfer_submit or xdma_xfer_aperture that ends without an error
\* has done the whole request, however it was split.
THEOREM SuccessWasWhole == Spec => []SuccessIsWhole
<1>1. EngineInv => SuccessIsWhole
  BY DEF EngineInv, CountInv, SuccessIsWhole
<1> QED
  BY <1>1, EngineCorrect, PTL

=============================================================================
