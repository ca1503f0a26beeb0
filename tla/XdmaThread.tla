----------------------------- MODULE XdmaThread -----------------------------
(***************************************************************************)
(* Polled mode (module parameter poll_mode): the completion threads of     *)
(* xdma_thread.c, the devices that create, use and destroy them, the       *)
(* waiting callers of xdma_xfer_aperture, and the writeback word through   *)
(* which the hardware reports a finished chain.                            *)
(*                                                                         *)
(* Every device has one engine and one caller; desc_lock admits one call   *)
(* at a time, so a list holds at most the caller's transfer.  What runs    *)
(* under engine->lock is one step.  thp->lock is held by a thread that is  *)
(* between lock_thread and unlock_thread (Locked); the other users of the  *)
(* lock hold it for one step.  Callers have returned before a device is    *)
(* closed.                                                                 *)
(***************************************************************************)
EXTENDS Integers, Sequences, FiniteSets, Functions

CONSTANTS
  Devices,
  ThreadNum,  \* threads that xdma_threads_create starts
  Sizes,      \* numbers of descriptors a device's transfers may have
  Faults,     \* which of "signal", "error" and "slow" a device may meet
  Junk        \* what may be read from a transfer that was freed

Threads == 1 .. ThreadNum
NoThread == 0

Nobody == "nobody"

ASSUME ThreadAssumption ==
  /\ ThreadNum \in Nat \ {0}
  /\ Nobody \notin Devices
  /\ Sizes \in [Devices -> SUBSET (Nat \ {0})]
  /\ Faults \in [Devices -> SUBSET {"signal", "error", "slow"}]
  /\ Junk \subseteq Nat

VARIABLES
  threadPc, schedule, shouldStop,  \* a thread, its flag, kthread_stop's bit
  workList, todo,                  \* its engines, those left in the loop
  transfer, expected, descWb,      \* locals of the loop's body
  xdevList, xdevMutex, stopIdx,    \* device list, its lock, thread to stop
  devPc, pick, cmplthp,            \* open and close of a device
  callPc, state, num, listed,      \* the caller and its transfer
  running, status,                 \* engine->running, error in ->status
  hwRun, hwBusy, hwLeft, hwCount, hwErr, hwLive,
  wb,                              \* the writeback word
  moved, aborted                   \* history: descriptors moved, an abort

threads == <<threadPc, schedule, shouldStop, workList, todo>>
locals  == <<transfer, expected, descWb>>
list    == <<xdevList, xdevMutex, stopIdx>>
devs    == <<devPc, pick, cmplthp>>
calls   == <<callPc, state, num, listed, aborted>>
engine  == <<running, status>>
hw      == <<hwRun, hwBusy, hwLeft, hwCount, hwErr, hwLive, wb, moved>>
vars    == <<threads, locals, list, devs, calls, engine, hw>>

NoWb == [n |-> 0, err |-> FALSE]

Init ==
  /\ threadPc = [t \in Threads |-> "none"]
  /\ schedule = [t \in Threads |-> FALSE]
  /\ shouldStop = [t \in Threads |-> FALSE]
  /\ workList = [t \in Threads |-> <<>>] /\ todo = [t \in Threads |-> <<>>]
  /\ transfer = [t \in Threads |-> "none"]
  /\ expected = [t \in Threads |-> 0] /\ descWb = [t \in Threads |-> NoWb]
  /\ xdevList = {} /\ xdevMutex = Nobody /\ stopIdx = 0
  /\ devPc = [d \in Devices |-> "closed"]
  /\ pick = [d \in Devices |-> NoThread]
  /\ cmplthp = [d \in Devices |-> NoThread]
  /\ callPc = [d \in Devices |-> "idle"] /\ state = [d \in Devices |-> "NEW"]
  /\ num = [d \in Devices |-> 0] /\ listed = [d \in Devices |-> FALSE]
  /\ aborted = [d \in Devices |-> FALSE]
  /\ running = [d \in Devices |-> FALSE] /\ status = [d \in Devices |-> FALSE]
  /\ hwRun = [d \in Devices |-> FALSE] /\ hwBusy = [d \in Devices |-> FALSE]
  /\ hwLeft = [d \in Devices |-> 0] /\ hwCount = [d \in Devices |-> 0]
  /\ hwErr = [d \in Devices |-> FALSE] /\ hwLive = [d \in Devices |-> FALSE]
  /\ wb = [d \in Devices |-> NoWb] /\ moved = [d \in Devices |-> 0]

-----------------------------------------------------------------------------
(* xthread_main.                                                           *)

Locked(t) ==
  threadPc[t] \in {"pend", "clear", "proc", "first", "monitor", "ack", "service"}

Step(t, from, to) ==
  /\ threadPc[t] = from /\ threadPc' = [threadPc EXCEPT ![t] = to]

ThreadTop(t) ==
  /\ Step(t, "top", IF shouldStop[t] THEN "dead" ELSE "pend")
  /\ todo' = [todo EXCEPT ![t] = IF shouldStop[t] THEN <<>> ELSE workList[t]]
  /\ UNCHANGED <<schedule, shouldStop, workList, locals, list, devs, calls,
                 engine, hw>>

ThreadPendClears(t) ==
  /\ Step(t, "pend", IF todo[t] = <<>> THEN "sleep"
                     ELSE IF listed[Head(todo[t])] THEN "clear" ELSE "pend")
  /\ todo' = [todo EXCEPT ![t] = IF @ = <<>> THEN @ ELSE Tail(@)]
  /\ schedule' = [schedule EXCEPT ![t] = @ /\ todo[t] # <<>>]
  /\ UNCHANGED <<shouldStop, workList, locals, list, devs, calls, engine, hw>>

\* xthread_work_pending asks one engine after the other.
ThreadPend(t) ==
  /\ Step(t, "pend", IF todo[t] = <<>> THEN "sleep"
                     ELSE IF listed[Head(todo[t])] THEN "clear" ELSE "pend")
  /\ todo' = [todo EXCEPT ![t] = IF @ = <<>> THEN @ ELSE Tail(@)]
  /\ UNCHANGED <<schedule, shouldStop, workList, locals, list, devs, calls,
                 engine, hw>>

\* What xthread_reschedule waits for; thp->timeout is 0.
WakeCondition(t) == schedule[t]

ThreadSleep(t) ==
  /\ WakeCondition(t)
  /\ Step(t, "sleep", "clear")
  /\ UNCHANGED <<schedule, shouldStop, workList, todo, locals, list, devs,
                 calls, engine, hw>>

ThreadClear(t) ==
  /\ Step(t, "clear", "proc")
  /\ schedule' = [schedule EXCEPT ![t] = FALSE]
  /\ todo' = [todo EXCEPT ![t] = workList[t]]
  /\ UNCHANGED <<shouldStop, workList, locals, list, devs, calls, engine, hw>>

\* xdma_thread_cmpl_status_proc of the next engine reads transfer_list.next
\* without the engine's lock.
ThreadProc(t) ==
  /\ Step(t, "proc", IF todo[t] = <<>> THEN "top" ELSE "first")
  /\ transfer' = [transfer EXCEPT ![t] =
                    IF todo[t] = <<>> THEN "none"
                    ELSE IF listed[Head(todo[t])] THEN "queued" ELSE "head"]
  /\ UNCHANGED <<schedule, shouldStop, workList, todo, expected, descWb, list,
                 devs, calls, engine, hw>>

\* Its desc_cmpl_th, which is anything when the call was aborted and has freed
\* its request meanwhile.  On an empty list the list head is taken for a
\* transfer, and what is read is the word of the idle lock in
\* engine->shutdown_wq.
Threshold(t) ==
  CASE transfer[t] = "queued" -> {num[Head(todo[t])]}
    [] transfer[t] = "freed" -> Junk
    [] OTHER -> {0}

\* A threshold of zero skips the loop of engine_service_wb_monitor.
ThreadFirst(t) ==
  /\ \E cnt \in Threshold(t) :
       /\ Step(t, "first", IF cnt = 0 THEN "proc" ELSE "monitor")
       /\ todo' = IF cnt = 0 THEN [todo EXCEPT ![t] = Tail(@)] ELSE todo
       /\ expected' = [expected EXCEPT ![t] = cnt]
  /\ transfer' = [transfer EXCEPT ![t] = "none"]
  /\ UNCHANGED <<schedule, shouldStop, workList, descWb, list, devs, calls,
                 engine, hw>>

\* A turn of the loop that finds a word.
ThreadMonitor(t) ==
  LET d == Head(todo[t]) IN
  /\ Step(t, "monitor", "ack") /\ wb[d] # NoWb
  /\ descWb' = [descWb EXCEPT ![t] = wb[d]]
  /\ UNCHANGED <<schedule, shouldStop, workList, todo, transfer, expected, list,
                 devs, calls, engine, hw>>

\* The word is cleared, whatever it holds by now; a count below the expected
\* one is returned only by the turn that finds the time over.
ThreadAck(t) ==
  LET d == Head(todo[t])
      ends == descWb[t].err \/ descWb[t].n >= expected[t]
  IN
  /\ \E timeOver \in BOOLEAN :
       /\ Step(t, "ack", IF ends \/ timeOver THEN "service" ELSE "monitor")
       /\ descWb' = [descWb EXCEPT ![t] = IF ends \/ timeOver THEN @ ELSE NoWb]
  /\ wb' = [wb EXCEPT ![d] = NoWb]
  /\ UNCHANGED <<schedule, shouldStop, workList, todo, transfer, expected, list,
                 devs, calls, engine, hwRun, hwBusy, hwLeft, hwCount, hwErr,
                 hwLive, moved>>

\* POLL_TIMEOUT_SECONDS have passed with nothing to read: the hardware is slow
\* or has nothing more to report.
ThreadTimeout(t) ==
  LET d == Head(todo[t]) IN
  /\ threadPc[t] = "monitor" /\ wb[d] = NoWb
  /\ "slow" \in Faults[d] \/ ~hwBusy[d]
  /\ Step(t, "monitor", "proc")
  /\ todo' = [todo EXCEPT ![t] = Tail(@)]
  /\ expected' = [expected EXCEPT ![t] = 0]
  /\ UNCHANGED <<schedule, shouldStop, workList, transfer, descWb, list, devs,
                 calls, engine, hw>>

EngineStop(d) ==
  /\ running' = [running EXCEPT ![d] = FALSE]
  /\ hwRun' = [hwRun EXCEPT ![d] = FALSE]

FinalStateAlways(d, count, err) == "COMPLETED"

\* What engine_service_transfer_list and engine_service_final_transfer make of
\* the one transfer on the list.
FinalState(d, count, err) ==
  IF count <= num[d] /\ (err \/ count < num[d]) THEN "FAILED" ELSE "COMPLETED"

\* engine_service with a writeback: without an error in it the status is the
\* one engine_start has read.  The list is empty afterwards, so the engine is
\* stopped unless it is busy and has counted nothing.
ThreadService(t) ==
  LET d == Head(todo[t])
      w == descWb[t]
      reads == w.err \/ w.n = 0 \/ ~running[d]
      err == IF reads THEN hwErr[d] ELSE status[d]
      count == IF w.n = 0 THEN hwCount[d] ELSE w.n
  IN
  /\ Step(t, "service", "proc")
  /\ todo' = [todo EXCEPT ![t] = Tail(@)]
  /\ expected' = [expected EXCEPT ![t] = 0]
  /\ descWb' = [descWb EXCEPT ![t] = NoWb]
  /\ status' = [status EXCEPT ![d] = running[d] /\ err]
  /\ hwErr' = IF reads THEN [hwErr EXCEPT ![d] = FALSE] ELSE hwErr
  /\ IF running[d] /\ ~(count = 0 /\ hwBusy[d])
     THEN EngineStop(d) ELSE UNCHANGED <<running, hwRun>>
  /\ IF running[d] /\ count # 0 /\ listed[d]
     THEN /\ listed' = [listed EXCEPT ![d] = FALSE]
          /\ state' = [state EXCEPT ![d] = FinalState(d, count, err)]
     ELSE UNCHANGED <<listed, state>>
  /\ UNCHANGED <<schedule, shouldStop, workList, transfer, list, devs, callPc,
                 num, aborted, hwBusy, hwLeft, hwCount, hwLive, wb, moved>>

ThreadStep(t) ==
  \/ ThreadTop(t) \/ ThreadPend(t) \/ ThreadSleep(t) \/ ThreadClear(t)
  \/ ThreadProc(t) \/ ThreadFirst(t) \/ ThreadMonitor(t) \/ ThreadAck(t)
  \/ ThreadTimeout(t) \/ ThreadService(t)

-----------------------------------------------------------------------------
(* A caller of xdma_xfer_aperture.                                         *)

CallStepTo(d, from, to) ==
  callPc[d] = from /\ callPc' = [callPc EXCEPT ![d] = to]

\* transfer_queue: the list was empty and the engine idle, so it is started.
Queue(d) ==
  /\ devPc[d] = "open" /\ CallStepTo(d, "idle", "queued")
  /\ \E n \in Sizes[d] : /\ num' = [num EXCEPT ![d] = n]
                          /\ hwLeft' = [hwLeft EXCEPT ![d] = n]
  /\ state' = [state EXCEPT ![d] = "SUBMITTED"]
  /\ listed' = [listed EXCEPT ![d] = TRUE]
  /\ moved' = [moved EXCEPT ![d] = 0]
  /\ running' = [running EXCEPT ![d] = TRUE]
  /\ status' = [status EXCEPT ![d] = hwErr[d]]
  /\ hwRun' = [hwRun EXCEPT ![d] = TRUE] /\ hwBusy' = [hwBusy EXCEPT ![d] = TRUE]
  /\ hwCount' = [hwCount EXCEPT ![d] = 0]
  /\ hwLive' = [hwLive EXCEPT ![d] = TRUE]
  /\ UNCHANGED <<threads, locals, list, devs, aborted, hwErr, wb>>

\* xdma_kthread_wakeup(engine->cmplthp), outside any lock.
Wakeup(d) ==
  /\ CallStepTo(d, "queued", "wait")
  /\ schedule' = [schedule EXCEPT ![cmplthp[d]] = TRUE]
  /\ UNCHANGED <<threadPc, shouldStop, workList, todo, locals, list, devs,
                 state, num, listed, aborted, engine, hw>>

EndWait(d) ==
  /\ CallStepTo(d, "wait", "finish")
  /\ UNCHANGED <<threads, locals, list, devs, state, num, listed, aborted,
                 engine, hw>>

Woken(d) == state[d] # "SUBMITTED" /\ EndWait(d)

\* A signal or the timeout ends the wait.
Interrupted(d) ==
  "signal" \in Faults[d] /\ state[d] = "SUBMITTED" /\ EndWait(d)

\* The switch on the state, and the end of the call, which frees the request: a
\* transfer that is still submitted is aborted and the engine stopped.  A
\* hardware that has stopped is not asked for its count and status again before
\* the next start.
Finish(d) ==
  /\ CallStepTo(d, "finish", "idle")
  /\ IF state[d] = "SUBMITTED"
     THEN /\ listed' = [listed EXCEPT ![d] = FALSE] /\ EngineStop(d)
          /\ aborted' = [aborted EXCEPT ![d] = TRUE]
     ELSE UNCHANGED <<listed, running, hwRun, aborted>>
  /\ state' = [state EXCEPT ![d] = "NEW"] /\ num' = [num EXCEPT ![d] = 0]
  /\ hwLive' = [hwLive EXCEPT ![d] = FALSE]
  /\ moved' = [moved EXCEPT ![d] = 0]
  /\ status' = [status EXCEPT ![d] = FALSE]
  /\ hwLeft' = [hwLeft EXCEPT ![d] = IF hwBusy[d] THEN @ ELSE 0]
  /\ hwCount' = [hwCount EXCEPT ![d] = IF hwBusy[d] THEN @ ELSE 0]
  /\ transfer' = [t \in Threads |->
                    IF transfer[t] = "queued" /\ Head(todo[t]) = d THEN "freed"
                    ELSE transfer[t]]
  /\ UNCHANGED <<threads, expected, descWb, list, devs, hwBusy, hwErr, wb>>

CallStep(d) == Wakeup(d) \/ Woken(d) \/ Finish(d)

-----------------------------------------------------------------------------
(* The FPGA's DMA engine with POLL_MODE_WB set.                            *)

HwUnchanged == UNCHANGED <<threads, locals, list, devs, calls, engine>>

\* The last descriptor of the chain carries COMPLETED and has the count
\* written back; a cleared RUN bit stops the engine between descriptors.
HwDescriptor(d) ==
  /\ hwBusy[d] /\ hwLeft[d] > 0
  /\ hwLeft' = [hwLeft EXCEPT ![d] = @ - 1]
  /\ hwCount' = [hwCount EXCEPT ![d] = @ + 1]
  /\ moved' = [moved EXCEPT ![d] = IF hwLive[d] THEN @ + 1 ELSE @]
  /\ hwBusy' = [hwBusy EXCEPT ![d] = hwRun[d] /\ hwLeft[d] > 1]
  /\ wb' = IF hwLeft[d] = 1
           THEN [wb EXCEPT ![d] = [n |-> hwCount'[d], err |-> FALSE]] ELSE wb
  /\ UNCHANGED <<hwRun, hwErr, hwLive>> /\ HwUnchanged

HwError(d) ==
  /\ "error" \in Faults[d] /\ hwBusy[d] /\ hwRun[d]
  /\ hwBusy' = [hwBusy EXCEPT ![d] = FALSE]
  /\ hwErr' = [hwErr EXCEPT ![d] = TRUE]
  /\ wb' = [wb EXCEPT ![d] = [n |-> hwCount[d], err |-> TRUE]]
  /\ UNCHANGED <<hwRun, hwLeft, hwCount, hwLive, moved>> /\ HwUnchanged

HwIdle(d) ==
  /\ hwBusy[d] /\ ~hwRun[d]
  /\ hwBusy' = [hwBusy EXCEPT ![d] = FALSE]
  /\ hwLeft' = [hwLeft EXCEPT ![d] = 0]
  /\ UNCHANGED <<hwRun, hwCount, hwErr, hwLive, wb, moved>>
  /\ HwUnchanged

-----------------------------------------------------------------------------
(* Opening and closing a device.                                           *)

DevStep(d, from, to) == devPc[d] = from /\ devPc' = [devPc EXCEPT ![d] = to]

\* xdma_threads_create.
ThreadsCreate ==
  /\ threadPc' = [t \in Threads |-> "top"]
  /\ schedule' = [t \in Threads |-> FALSE]
  /\ shouldStop' = [t \in Threads |-> FALSE]
  /\ workList' = [t \in Threads |-> <<>>]
  /\ todo' = [t \in Threads |-> <<>>]

\* xdev_list_add: the first device creates the threads.
ListAdd(d) ==
  /\ xdevMutex = Nobody
  /\ DevStep(d, "closed", "listed")
  /\ IF xdevList = {} THEN ThreadsCreate ELSE UNCHANGED threads
  /\ xdevList' = xdevList \cup {d}
  /\ UNCHANGED <<locals, xdevMutex, stopIdx, pick, cmplthp, calls, engine, hw>>

PickThreadPastEnd == ThreadNum + 1

\* The thread that the scan of xdma_thread_add_work picks: the first idle one
\* behind the first thread, else the last one with less work than the first.
PickThread ==
  LET cnt(t) == Len(workList[t])
      idle == {t \in Threads \ {1} : cnt(t) = 0}
      less == {t \in Threads \ {1} : cnt(t) < cnt(1)}
  IN  IF idle # {} THEN CHOOSE t \in idle : \A u \in idle : t <= u
      ELSE IF less # {} THEN CHOOSE t \in less : \A u \in less : u <= t
      ELSE 1

\* engine_init: the writeback word is cleared, a thread is looked for.
AddScan(d) ==
  /\ DevStep(d, "listed", "adding")
  /\ pick' = [pick EXCEPT ![d] = PickThread]
  /\ wb' = [wb EXCEPT ![d] = NoWb]
  /\ aborted' = [aborted EXCEPT ![d] = @ /\ hwBusy[d]]
  /\ UNCHANGED <<threads, locals, list, cmplthp, callPc, state, num, listed,
                 engine, hwRun, hwBusy, hwLeft, hwCount, hwErr, hwLive, moved>>

AddInsert(d) ==
  /\ DevStep(d, "adding", "added")
  /\ ~Locked(pick[d])
  /\ workList' = [workList EXCEPT ![pick[d]] = Append(@, d)]
  /\ UNCHANGED <<threadPc, schedule, shouldStop, todo, locals, list, pick,
                 cmplthp, calls, engine, hw>>

AddAttach(d) ==
  /\ DevStep(d, "added", "open")
  /\ cmplthp' = [cmplthp EXCEPT ![d] = pick[d]]
  /\ UNCHANGED <<threads, locals, list, pick, calls, engine, hw>>

\* xdma_thread_remove_work takes the thread out of the engine ...
RemoveDetach(d) ==
  /\ callPc[d] = "idle"
  /\ DevStep(d, "open", "removing")
  /\ cmplthp' = [cmplthp EXCEPT ![d] = NoThread]
  /\ UNCHANGED <<threads, locals, list, pick, calls, engine, hw>>

\* list_del of the engine's own node.
ListDel(q, d) ==
  LET i == CHOOSE j \in DOMAIN q : q[j] = d
  IN  SubSeq(q, 1, i - 1) \o SubSeq(q, i + 1, Len(q))

RemoveUnlinkUnlocked(d) ==
  /\ DevStep(d, "removing", "removed")
  /\ workList' = [workList EXCEPT ![pick[d]] = ListDel(@, d)]
  /\ UNCHANGED <<threadPc, schedule, shouldStop, todo, locals, list, pick,
                 cmplthp, calls, engine, hw>>

\* ... and the engine out of its list, under the thread's lock; engine_destroy
\* then frees what the engine holds and zeroes it.
RemoveUnlink(d) ==
  /\ DevStep(d, "removing", "removed")
  /\ ~Locked(pick[d])
  /\ workList' = [workList EXCEPT ![pick[d]] = ListDel(@, d)]
  /\ UNCHANGED <<threadPc, schedule, shouldStop, todo, locals, list, pick,
                 cmplthp, calls, engine, hw>>

LastDeviceFirst(d) == d \in xdevList

\* The list is empty without d.
LastDevice(d) == xdevList = {d}

\* xdev_list_remove: the last device destroys the threads, under the mutex.
ListRemove(d) ==
  /\ xdevMutex = Nobody
  /\ DevStep(d, "removed", IF LastDevice(d) THEN "stopping" ELSE "closed")
  /\ xdevList' = xdevList \ {d}
  /\ IF LastDevice(d) THEN xdevMutex' = d /\ stopIdx' = 1
     ELSE UNCHANGED <<xdevMutex, stopIdx>>
  /\ UNCHANGED <<threads, locals, pick, cmplthp, calls, engine, hw>>

\* xdma_kthread_stop: thp->schedule = 1, which wakes nobody and holds no lock,
StopFlag(d) ==
  /\ DevStep(d, "stopping", "flagged")
  /\ schedule' = [schedule EXCEPT ![stopIdx] = TRUE]
  /\ UNCHANGED <<threadPc, shouldStop, workList, todo, locals, list, pick,
                 cmplthp, calls, engine, hw>>

\* then kthread_stop sets its bit, wakes the thread and waits for its end.
StopRequest(d) ==
  /\ DevStep(d, "flagged", "joining")
  /\ shouldStop' = [shouldStop EXCEPT ![stopIdx] = TRUE]
  /\ UNCHANGED <<threadPc, schedule, workList, todo, locals, list, pick,
                 cmplthp, calls, engine, hw>>

StopJoin(d) ==
  /\ devPc[d] = "joining" /\ threadPc[stopIdx] = "dead"
  /\ IF stopIdx < ThreadNum
     THEN /\ DevStep(d, "joining", "stopping")
          /\ stopIdx' = stopIdx + 1
          /\ UNCHANGED <<xdevMutex, threadPc>>
     ELSE /\ DevStep(d, "joining", "closed")
          /\ stopIdx' = 0 /\ xdevMutex' = Nobody
          /\ threadPc' = [t \in Threads |-> "none"]
  /\ UNCHANGED <<schedule, shouldStop, workList, todo, locals, xdevList, pick,
                 cmplthp, calls, engine, hw>>

OpenStep(d) == ListAdd(d) \/ AddScan(d) \/ AddInsert(d) \/ AddAttach(d)

CloseStep(d) ==
  \/ RemoveUnlink(d) \/ ListRemove(d)
  \/ StopFlag(d) \/ StopRequest(d) \/ StopJoin(d)

Next ==
  \/ \E t \in Threads : ThreadStep(t)
  \/ \E d \in Devices :
       \/ Queue(d) \/ CallStep(d) \/ Interrupted(d)
       \/ HwDescriptor(d) \/ HwError(d) \/ HwIdle(d)
       \/ OpenStep(d) \/ RemoveDetach(d) \/ CloseStep(d)

Spec == Init /\ [][Next]_vars

\* The deadline ends the writeback monitor, whatever the word holds meanwhile.
LeaveMonitor(t) ==
  /\ ThreadAck(t) \/ ThreadTimeout(t)
  /\ threadPc'[t] # "monitor"

\* Threads and callers are scheduled, the hardware finishes what it works on,
\* and a close that has begun goes on.
FairSpec ==
  /\ Spec
  /\ \A t \in Threads : WF_vars(ThreadStep(t)) /\ SF_vars(LeaveMonitor(t))
  /\ \A d \in Devices :
       /\ WF_vars(CallStep(d)) /\ WF_vars(CloseStep(d))
       /\ WF_vars(HwDescriptor(d) \/ HwIdle(d))

-----------------------------------------------------------------------------
(* Properties.                                                             *)

States == {"NEW", "SUBMITTED", "COMPLETED", "FAILED"}

Words == [n : Nat, err : BOOLEAN]

\* Every field has its type, and a thread's loop only visits its own engines.
TypeOK ==
  /\ threadPc \in [Threads -> {"none", "top", "pend", "clear", "sleep", "proc",
                                "first", "monitor", "ack", "service", "dead"}]
  /\ schedule \in [Threads -> BOOLEAN] /\ shouldStop \in [Threads -> BOOLEAN]
  /\ \A t \in Threads : Range(workList[t]) \cup Range(todo[t]) \subseteq Devices
  /\ xdevList \subseteq Devices /\ xdevMutex \in Devices \cup {Nobody}
  /\ stopIdx \in 0 .. ThreadNum
  /\ transfer \in [Threads -> {"none", "queued", "head", "freed"}]
  /\ pick \in [Devices -> Threads \cup {NoThread}]
  /\ cmplthp \in [Devices -> Threads \cup {NoThread}]
  /\ state \in [Devices -> States] /\ listed \in [Devices -> BOOLEAN]
  /\ wb \in [Devices -> Words] /\ descWb \in [Threads -> Words]
  /\ \A d \in Devices : moved[d] + hwLeft[d] <= num[d] \/ ~hwLive[d]

\* xdma_kthread_wakeup(engine->cmplthp) runs without a lock, and so must never
\* reach a thread that has ended or was never started: an attached engine's
\* thread is alive and has the engine in its list, whatever other devices are
\* opened and closed meanwhile.
WakeTargetAlive ==
  \A d \in Devices : cmplthp[d] # NoThread =>
    /\ threadPc[cmplthp[d]] \notin {"none", "dead"}
    /\ d \in Range(workList[cmplthp[d]])

\* A thread that walks its list meets no engine that engine_destroy has freed:
\* xdma_thread_remove_work waits for the thread's lock, over the sleeping
\* writeback monitor too.
NeverServesDestroyed ==
  \A t \in Threads : Locked(t) =>
    \A d \in Range(todo[t]) : devPc[d] \in {"added", "open", "removing"}

\* A transfer that ends as COMPLETED has had all its descriptors moved, until
\* a call on the engine was aborted: the writeback of an aborted chain stays
\* behind and is credited to the next transfer.
PolledIsMoved ==
  \A d \in Devices :
    state[d] = "COMPLETED" => moved[d] = num[d] \/ aborted[d]

\* An error before the first descriptor: the engine is stopped, the transfer
\* stays on the list.
Stranded(d) == listed[d] /\ ~running[d]

\* Every call of xdma_xfer_aperture returns in polled mode: no wakeup falls
\* between the thread's look at its list and its sleep.  Excepted are an error
\* before the first descriptor, and engines on which a call was aborted.
PolledCallReturns ==
  \A d \in Devices :
    callPc[d] = "queued" ~> callPc[d] = "idle" \/ Stranded(d) \/ aborted[d]

\* xdma_threads_destroy ends every thread it has created: closing the last
\* device comes to its end.
StopReturns ==
  \A d \in Devices : devPc[d] = "stopping" ~> devPc[d] = "closed"
====
