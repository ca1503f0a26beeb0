----------------------------- MODULE XdmaAsync -----------------------------
(***************************************************************************)
(* Asynchronous requests on one engine: xdma_xfer_submit_nowait cuts a     *)
(* request into transfers and queues them all, engine_service calls        *)
(* io_done after the last one, and the client then calls                   *)
(* xdma_xfer_completion.  None of this holds desc_lock, so that several    *)
(* requests use the engine's descriptor array at once.                     *)
(*                                                                         *)
(* The array is modelled slot by slot: a slot is empty (zeroed) or holds a *)
(* descriptor, which belongs to a transfer and may end its chain.  The     *)
(* interrupt and the bottom half are one step here (XdmaEngine has them    *)
(* apart): the hardware has stopped whenever it interrupts.  desc_used is  *)
(* left out: only streaming engines read it.  Clients call                 *)
(* xdma_xfer_completion after io_done.                                     *)
(***************************************************************************)
EXTENDS Integers, Sequences, FiniteSets, Functions

CONSTANTS
  Requests,
  DescMax,     \* engine->desc_max
  ReqSizes,    \* numbers of descriptors a request may need
  HwFaults     \* TRUE if the hardware may fail

ASSUME AsyncAssumption ==
  /\ DescMax \in Nat \ {0} /\ ReqSizes \subseteq Nat \ {0}
  /\ HwFaults \in BOOLEAN

VARIABLES
  pc,            \* of xdma_xfer_submit_nowait and of the client
  size, nents,   \* sw_desc_cnt, descriptors not yet in a transfer
  tfer,          \* req->tfer
  transferList, running, descIdx,        \* struct xdma_engine
  slots,                                 \* engine->desc
  hwRun, hwBusy, hwIdx, hwCount, hwStat,
  ioDone,        \* history: calls of io_done
  disorder,      \* history: slots were handed out or given back too early
  alloc,         \* history: transfers in the order they got their slots, while
                 \* not in disorder
  crossed        \* history: slots went to others between a request's transfers

reqs   == <<pc, size, nents, tfer>>
engine == <<transferList, running, descIdx, slots>>
hw     == <<hwRun, hwBusy, hwIdx, hwCount, hwStat>>
hist   == <<ioDone, alloc, disorder, crossed>>
vars   == <<reqs, engine, hw, hist>>

Slots == 0 .. DescMax - 1
Empty == [xfer |-> <<>>, last |-> FALSE]

Init ==
  /\ pc = [r \in Requests |-> "idle"] /\ size = [r \in Requests |-> 0]
  /\ nents = [r \in Requests |-> 0] /\ tfer = [r \in Requests |-> <<>>]
  /\ transferList = <<>> /\ running = FALSE /\ descIdx = 0
  /\ slots = [i \in Slots |-> Empty]
  /\ hwRun = FALSE /\ hwBusy = FALSE /\ hwIdx = 0 /\ hwCount = 0 /\ hwStat = {}
  /\ ioDone = [r \in Requests |-> 0] /\ alloc = <<>> /\ disorder = FALSE
  /\ crossed = [r \in Requests |-> FALSE]

\* A transfer is named <<request, index>>.
Xfer(x) == tfer[x[1]][x[2]]
SlotsOf(t) == t.first .. t.first + t.num - 1
Sum(seq) ==
  LET upto[n \in 0 .. Len(seq)] == IF n = 0 THEN 0 ELSE upto[n - 1] + seq[n]
  IN  upto[Len(seq)]
Outstanding(seq) == Sum([i \in DOMAIN seq |-> Xfer(seq[i]).num])

-----------------------------------------------------------------------------
(* xdma_xfer_submit_nowait.                                                *)

\* Bound: none is submitted while slots are in disorder or after an overflow,
\* which the properties except.
Submit(r) ==
  /\ ~disorder /\ \A q \in Requests : pc[q] # "overflow"
  /\ pc[r] = "idle" /\ pc' = [pc EXCEPT ![r] = "init"]
  /\ \E n \in ReqSizes : /\ size' = [size EXCEPT ![r] = n]
                         /\ nents' = [nents EXCEPT ![r] = n]
  /\ UNCHANGED <<tfer, engine, hw, hist>>

ChunkShort(n) ==
  LET most == IF n < DescMax THEN n ELSE DescMax
  IN  IF descIdx + most >= DescMax THEN 1 ELSE most

ChunkPastEnd(n) == IF n < DescMax THEN n ELSE DescMax

\* The room up to the end of the array; nothing asks whether it is free.
Chunk(n) ==
  LET most == IF n < DescMax THEN n ELSE DescMax
  IN  IF descIdx + most >= DescMax THEN DescMax - descIdx ELSE most

LastInRequestFirst(r, k) == tfer[r] = <<>>

LastInRequestWhole(r, k) == size[r] = k

\* xfer->last_in_request
LastInRequest(r, k) == nents[r] = k

\* transfer_init, under the engine lock.
TransferInit(r) ==
  LET k == Chunk(nents[r])
      x == <<r, Len(tfer[r]) + 1>>
      t == [state |-> "NEW", first |-> descIdx, num |-> k, moved |-> 0,
            lastInRequest |-> LastInRequest(r, k)]
  IN
  /\ pc[r] = "init" /\ Len(tfer[r]) < 2
  /\ pc' = [pc EXCEPT ![r] = "queue"]
  /\ nents' = [nents EXCEPT ![r] = @ - k]
  /\ tfer' = [tfer EXCEPT ![r] = Append(@, t)]
  /\ slots' = [i \in Slots |-> IF i \in SlotsOf(t)
                 THEN [xfer |-> x, last |-> i = t.first + k - 1] ELSE slots[i]]
  /\ descIdx' = (descIdx + k) % DescMax
  /\ alloc' = Append(alloc, x)
  /\ disorder' = (disorder \/ Outstanding(alloc) + k > DescMax)
  /\ crossed' = [q \in Requests |->
       crossed[q] \/ (q # r /\ tfer[q] # <<>> /\ nents[q] > 0)]
  /\ UNCHANGED <<size, transferList, running, hw, ioDone>>

\* A third transfer: req->tfer has two, and what lies behind is overwritten.
TferOverflow(r) ==
  /\ pc[r] = "init" /\ Len(tfer[r]) = 2
  /\ pc' = [pc EXCEPT ![r] = "overflow"]
  /\ UNCHANGED <<size, nents, tfer, engine, hw, hist>>

EngineStart(x) ==
  /\ running' = TRUE /\ hwRun' = TRUE /\ hwBusy' = TRUE /\ hwCount' = 0
  /\ hwIdx' = Xfer(x).first

Restarted(t, x) == [t EXCEPT ![x[1]][x[2]].moved = 0]

\* transfer_queue starts an idle engine with the head of the list.
TransferQueue(r) ==
  LET k == Len(tfer[r]) IN
  /\ pc[r] = "queue"
  /\ pc' = [pc EXCEPT ![r] = IF nents[r] = 0 THEN "pending" ELSE "init"]
  /\ transferList' = Append(transferList, <<r, k>>)
  /\ LET queued == [tfer EXCEPT ![r][k].state = "SUBMITTED"] IN
     IF running THEN tfer' = queued
                     /\ UNCHANGED <<running, hwRun, hwBusy, hwIdx, hwCount>>
     ELSE /\ EngineStart(Head(transferList'))
          /\ tfer' = Restarted(queued, Head(transferList'))
  /\ UNCHANGED <<size, nents, descIdx, slots, hwStat, hist>>

-----------------------------------------------------------------------------
(* The FPGA's DMA engine.  It fetches a descriptor when it gets to it.      *)

HwDescriptor ==
  LET s == slots[hwIdx] IN
  /\ hwBusy /\ s # Empty
  /\ tfer' = IF s.xfer[2] \in DOMAIN tfer[s.xfer[1]]
             THEN [tfer EXCEPT ![s.xfer[1]][s.xfer[2]].moved =
                     IF @ < Xfer(s.xfer).num THEN @ + 1 ELSE @]
             ELSE tfer
  /\ hwCount' = hwCount + 1
  /\ hwBusy' = ~s.last /\ hwIdx' = IF s.last THEN 0 ELSE hwIdx + 1
  /\ hwStat' = IF s.last THEN hwStat \cup {"DONE"} ELSE hwStat
  /\ UNCHANGED <<pc, size, nents, engine, hwRun, hist>>

\* A zeroed descriptor has no magic word; other errors come at any time.
HwError ==
  /\ hwBusy /\ (HwFaults \/ slots[hwIdx] = Empty)
  /\ hwBusy' = FALSE /\ hwIdx' = 0 /\ hwStat' = hwStat \cup {"ERR"}
  /\ UNCHANGED <<reqs, engine, hwRun, hwCount, hist>>

-----------------------------------------------------------------------------
(* The bottom half.                                                        *)

\* The transfers that the count takes engine_service_transfer_list past.
Past ==
  Cardinality({i \in DOMAIN transferList :
    Outstanding(SubSeq(transferList, 1, i)) < hwCount})

FinalStateNoCount(left, x) == "COMPLETED"

FinalState(left, x) ==
  IF "ERR" \in hwStat \/ left < Xfer(x).num THEN "FAILED" ELSE "COMPLETED"

GoesOnNever(rest) == FALSE

\* engine_service_resume: the list is not empty.
GoesOn(rest) == rest # <<>>

\* engine_service: the transfers passed are completed, the next one is judged,
\* the engine goes on with the rest.  A count of zero ends it early.
Service ==
  LET taken == IF hwCount = 0 THEN 0
               ELSE IF Past < Len(transferList) THEN Past + 1 ELSE Past
      ended == SubSeq(transferList, 1, taken)
      rest == SubSeq(transferList, taken + 1, Len(transferList))
      left == hwCount - Outstanding(SubSeq(transferList, 1, Past))
      final(x) == IF Past < taken /\ x = transferList[taken]
                  THEN FinalState(left, x) ELSE "COMPLETED"
      judged == [r \in Requests |-> [k \in DOMAIN tfer[r] |->
                  IF <<r, k>> \in Range(ended)
                  THEN [tfer[r][k] EXCEPT !.state = final(<<r, k>>)]
                  ELSE tfer[r][k]]]
      told(r) == \E x \in Range(ended) : x[1] = r /\ Xfer(x).lastInRequest
  IN
  /\ hwStat # {} /\ hwStat' = {}
  /\ transferList' = rest
  /\ ioDone' = [r \in Requests |-> IF told(r) THEN ioDone[r] + 1 ELSE ioDone[r]]
  /\ IF taken > 0 /\ GoesOn(rest)
     THEN EngineStart(Head(rest)) /\ tfer' = Restarted(judged, Head(rest))
     ELSE /\ running' = FALSE /\ hwRun' = FALSE /\ hwCount' = 0
          /\ tfer' = judged /\ UNCHANGED <<hwBusy, hwIdx>>
  /\ UNCHANGED <<pc, size, nents, descIdx, slots, alloc, disorder, crossed>>

-----------------------------------------------------------------------------
(* xdma_xfer_completion, called once io_done has told the client.          *)

\* The loop leaves with the first transfer that has failed.
Reaped(r) ==
  LET failed == {k \in DOMAIN tfer[r] : tfer[r][k].state # "COMPLETED"}
  IN  {k \in DOMAIN tfer[r] : \A f \in failed : k <= f}

FreedOneMore(r) ==
  UNION {SlotsOf(tfer[r][k]) \cup {tfer[r][k].first + tfer[r][k].num} :
           k \in Reaped(r)}

\* The descriptors that transfer_destroy zeroes.
Freed(r) == UNION {SlotsOf(tfer[r][k]) : k \in Reaped(r)}

Completion(r) ==
  LET n == Len(tfer[r])
      \* The request that got its slots first gives them back first.
      ordered == ~disorder /\ \A i \in DOMAIN alloc : alloc[i][1] = r <=> i <= n
      alone == \A q \in Requests \ {r} : tfer[q] = <<>>
  IN
  /\ pc[r] = "pending" /\ ioDone[r] > 0
  /\ pc' = [pc EXCEPT ![r] = "idle"] /\ size' = [size EXCEPT ![r] = 0]
  /\ nents' = [nents EXCEPT ![r] = 0] /\ tfer' = [tfer EXCEPT ![r] = <<>>]
  /\ slots' = [i \in Slots |-> IF i \in Freed(r) THEN Empty ELSE slots[i]]
  /\ ioDone' = [ioDone EXCEPT ![r] = 0]
  /\ alloc' = IF ordered THEN SubSeq(alloc, n + 1, Len(alloc)) ELSE <<>>
  /\ disorder' = (~ordered /\ ~alone)
  /\ crossed' = [crossed EXCEPT ![r] = FALSE]
  /\ UNCHANGED <<transferList, running, descIdx, hw>>

Next ==
  \/ \E r \in Requests :
       Submit(r) \/ TransferInit(r) \/ TferOverflow(r) \/ TransferQueue(r)
       \/ Completion(r)
  \/ HwDescriptor \/ HwError \/ Service

Spec == Init /\ [][Next]_vars

FairSpec ==
  /\ Spec
  /\ \A r \in Requests : WF_vars(TransferInit(r) \/ TransferQueue(r))
  /\ WF_vars(HwDescriptor \/ HwError) /\ WF_vars(Service)

-----------------------------------------------------------------------------
(* Properties.                                                             *)

States == {"NEW", "SUBMITTED", "COMPLETED", "FAILED"}

\* Every field has its type, and the transfers of a request add up to it.
TypeOK ==
  /\ pc \in [Requests -> {"idle", "init", "queue", "pending", "overflow"}]
  /\ \A r \in Requests : \A k \in DOMAIN tfer[r] :
       tfer[r][k].state \in States /\ SlotsOf(tfer[r][k]) \subseteq Slots
  /\ \A r \in Requests :
       size[r] = nents[r] + Sum([k \in DOMAIN tfer[r] |-> tfer[r][k].num])
  /\ descIdx \in Slots /\ hwIdx \in Slots /\ hwCount \in Nat
  /\ hwStat \subseteq {"DONE", "ERR"}

\* The descriptors of a queued transfer stay its own until it has been served,
\* whatever other requests are built and completed meanwhile.  Nothing in the
\* code keeps clients from having more than desc_max descriptors outstanding,
\* or from completing requests out of order; both are excepted.
ChainsIntact ==
  \A x \in Range(transferList) : \A i \in SlotsOf(Xfer(x)) :
    slots[i] = [xfer |-> x, last |-> i = Xfer(x).first + Xfer(x).num - 1]
    \/ disorder

\* A transfer ends as COMPLETED only when all its descriptors were moved.
AsyncIsMoved ==
  \A r \in Requests : \A k \in DOMAIN tfer[r] :
    tfer[r][k].state = "COMPLETED" => tfer[r][k].moved = tfer[r][k].num
                                      \/ disorder

\* io_done comes once for a request, after its last transfer has been queued
\* and none of them is left on the engine's list: the client may free what the
\* engine would still use.
CallbackAfterAll ==
  \A r \in Requests : ioDone[r] > 0 =>
    /\ ioDone[r] = 1 /\ nents[r] = 0
    /\ \A k \in DOMAIN tfer[r] :
         /\ <<r, k>> \notin Range(transferList)
         /\ tfer[r][k].state \in {"COMPLETED", "FAILED"}

\* An error before the first descriptor leaves the engine stopped with work in
\* its list, until the next request is queued.
Stalled == ~running /\ transferList # <<>>

\* No other step leaves a transfer on the list of a stopped engine: one that is
\* queued while the engine is being served is started with it.
LeftBehindOnlyByError ==
  [][~Stalled /\ Stalled' => hwCount = 0 /\ "ERR" \in hwStat]_vars

\* Every accepted request is reported to its client, unless the engine stalls
\* or the descriptor array is in disorder.
RequestIsReported ==
  \A r \in Requests :
    pc[r] = "pending" ~> ioDone[r] > 0 \/ pc[r] = "idle" \/ Stalled \/ disorder
                         \/ \E q \in Requests : pc[q] = "overflow"

\* A request of at most desc_max + 1 descriptors that gets its slots with no
\* other request in between fits into the two transfers of struct
\* xdma_request_cb.
TwoSufficeUncrossed ==
  \A r \in Requests :
    pc[r] = "overflow" => size[r] > DescMax + 1 \/ crossed[r]

\* "Use two transfers in case single request needs to be split": no request
\* that fits into the descriptor array needs a third one.
TwoTransfersSuffice ==
  \A r \in Requests : pc[r] = "overflow" => size[r] > DescMax
====
