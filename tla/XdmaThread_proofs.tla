-------------------------- MODULE XdmaThread_proofs --------------------------
(***************************************************************************)
(* Proofs about the completion threads, for every number of devices and of *)
(* threads and every chain length.                                         *)
(*                                                                         *)
(* Three arguments carry them.  The mutex around the list of devices keeps *)
(* threads alive as long as a device is listed (ListInv).  The lock of a   *)
(* thread keeps every engine that its loop will still visit in its list    *)
(* (LinkInv, WalkInv), so that only one thread ever serves an engine.  And *)
(* a chain that was not aborted writes one word, after its last            *)
(* descriptor or its error, which that thread reads before the next chain  *)
(* is started (TransferInv).                                               *)
(***************************************************************************)
EXTENDS XdmaThread, SequenceTheorems, WellFoundedInduction, TLAPS

DevPcs == {"closed", "listed", "adding", "added", "open", "removing", "removed",
           "stopping", "flagged", "joining"}

\* In xdma_threads_destroy.
Destroying == {"stopping", "flagged", "joining"}

\* In xdma_thread_cmpl_status_proc.
Serving == {"first", "monitor", "ack", "service"}

USE DEF Serving

\* In the work_list of a thread.
Linked == {"added", "open", "removing"}

Types ==
  /\ threadPc \in [Threads -> {"none", "top", "pend", "clear", "sleep", "proc",
                                "first", "monitor", "ack", "service", "dead"}]
  /\ schedule \in [Threads -> BOOLEAN] /\ shouldStop \in [Threads -> BOOLEAN]
  /\ workList \in [Threads -> Seq(Devices)]
  /\ todo \in [Threads -> Seq(Devices)]
  /\ transfer \in [Threads -> {"none", "queued", "head", "freed"}]
  /\ expected \in [Threads -> Nat] /\ descWb \in [Threads -> Words]
  /\ xdevList \subseteq Devices /\ xdevMutex \in Devices \cup {Nobody}
  /\ stopIdx \in 0 .. ThreadNum
  /\ devPc \in [Devices -> DevPcs]
  /\ pick \in [Devices -> Threads \cup {NoThread}]
  /\ cmplthp \in [Devices -> Threads \cup {NoThread}]
  /\ callPc \in [Devices -> {"idle", "queued", "wait", "finish"}]
  /\ state \in [Devices -> States] /\ listed \in [Devices -> BOOLEAN]
  /\ num \in [Devices -> Nat] /\ aborted \in [Devices -> BOOLEAN]
  /\ running \in [Devices -> BOOLEAN] /\ status \in [Devices -> BOOLEAN]
  /\ hwRun \in [Devices -> BOOLEAN] /\ hwBusy \in [Devices -> BOOLEAN]
  /\ hwLeft \in [Devices -> Nat] /\ hwCount \in [Devices -> Nat]
  /\ hwErr \in [Devices -> BOOLEAN] /\ hwLive \in [Devices -> BOOLEAN]
  /\ wb \in [Devices -> Words] /\ moved \in [Devices -> Nat]

\* While a device is listed the threads live and nobody has asked them to end;
\* who destroys them holds the mutex, and the list is empty until it is done.
ListInv ==
  /\ xdevList = {d \in Devices : devPc[d] \notin Destroying \cup {"closed"}}
  /\ \A d \in Devices : devPc[d] \in Destroying =>
       xdevMutex = d /\ xdevList = {} /\ stopIdx \in Threads
  /\ xdevList # {} =>
       \A t \in Threads : threadPc[t] \notin {"none", "dead"} /\ ~shouldStop[t]

\* An engine is in the list of the one thread it was given, once, from
\* xdma_thread_add_work to xdma_thread_remove_work.
LinkInv ==
  /\ \A d \in Devices :
       devPc[d] \in Linked \cup {"adding"} => pick[d] \in Threads
  /\ \A d \in Devices :
       cmplthp[d] = IF devPc[d] = "open" THEN pick[d] ELSE NoThread
  /\ \A t \in Threads, d \in Devices :
       d \in Range(workList[t]) <=> devPc[d] \in Linked /\ pick[d] = t
  /\ \A t \in Threads : IsInjective(workList[t])

\* A thread that holds its lock walks over engines that are in its list.
WalkInv ==
  \A t \in Threads :
    /\ Locked(t) => Range(todo[t]) \subseteq Range(workList[t])
    /\ threadPc[t] = "sleep" => todo[t] = <<>>
    /\ threadPc[t] \in Serving => todo[t] # <<>>

\* A call and its transfer.
CallOf(d) ==
  /\ callPc[d] # "idle" => devPc[d] = "open" /\ hwLive[d]
  /\ callPc[d] = "idle" => state[d] = "NEW" /\ ~hwLive[d]
  /\ listed[d] <=> state[d] = "SUBMITTED"
  /\ hwLive[d] => moved[d] + hwLeft[d] <= num[d]

\* On an engine on which no call was aborted: the hardware works on the chain of
\* the listed transfer, and a word in memory is the count of that chain, its
\* last; a chain that stopped early has an error in it.
ChainOf(d) ==
  ~aborted[d] =>
    /\ hwLive[d] => moved[d] = hwCount[d] /\ moved[d] + hwLeft[d] = num[d]
    /\ hwBusy[d] => hwRun[d] /\ hwLeft[d] > 0 /\ listed[d] /\ wb[d] = NoWb
    /\ wb[d] # NoWb => listed[d] /\ wb[d].n = hwCount[d]
    /\ state[d] = "COMPLETED" => moved[d] = num[d]

\* The thread has a transfer, and not the list's head, to wait for.
Waits(t) == threadPc[t] = "first" => transfer[t] # "head"

\* A thread that has a transfer to wait for has the listed one; the word it has
\* read is the chain's count, and the last the chain writes.
ServeOf(t) ==
  LET d == Head(todo[t]) IN
    /\ threadPc[t] \in Serving /\ Waits(t) /\ ~aborted[d] => listed[d]
    /\ threadPc[t] \in {"ack", "service"} /\ ~aborted[d] =>
         descWb[t].n = hwCount[d] /\ ~hwBusy[d]
    /\ threadPc[t] = "service" /\ ~aborted[d] => wb[d] = NoWb

TransferInv ==
  /\ \A d \in Devices : CallOf(d) /\ ChainOf(d)
  /\ \A t \in Threads : ServeOf(t)

ThreadInv == Types /\ ListInv /\ LinkInv /\ WalkInv /\ TransferInv

-----------------------------------------------------------------------------

\* A set of naturals that is not empty has a least element ...
LEMMA LeastOf ==
  ASSUME NEW S \in SUBSET Nat, S # {}
  PROVE  \E t \in S : \A u \in S : t <= u
<1>1. PICK t \in S : \A u \in S : ~(<<u, t>> \in OpToRel(<, Nat))
  BY NatLessThanWellFounded, WFMin, Zenon
<1>2. \A u \in S : ~(u < t)
  <2> TAKE u \in S
  <2>1. <<u, t>> \in Nat \X Nat /\ <<u, t>>[1] = u /\ <<u, t>>[2] = t
    OBVIOUS
  <2>2. u < t => <<u, t>> \in OpToRel(<, Nat)
    BY <2>1, Zenon DEF OpToRel
  <2> QED
    BY <1>1, <2>2, Zenon
<1>3. \A u \in S : t <= u
  BY <1>2
<1> QED
  BY <1>3, Zenon

\* ... and one with a bound has a greatest.
LEMMA GreatestOf ==
  ASSUME NEW n \in Nat, NEW S \in SUBSET (0 .. n), S # {}
  PROVE  \E t \in S : \A u \in S : u <= t
<1> DEFINE T == {n - u : u \in S}
<1>1. T \in SUBSET Nat
  OBVIOUS
<1>2. T # {}
  BY Zenon
<1>3. PICK m \in T : \A u \in T : m <= u
  BY <1>1, <1>2, LeastOf, Zenon
<1>4. PICK t \in S : m = n - t
  OBVIOUS
<1>5. \A u \in S : n - t <= n - u
  BY <1>3, <1>4
<1> QED
  BY <1>4, <1>5

\* The scan of xdma_thread_add_work always finds a thread.
LEMMA PickThreadType == PickThread \in Threads
<1>1. ASSUME NEW S \in SUBSET Threads, S # {}
      PROVE  /\ (CHOOSE t \in S : \A u \in S : t <= u) \in Threads
             /\ (CHOOSE t \in S : \A u \in S : u <= t) \in Threads
  <2>1. S \in SUBSET Nat /\ S \in SUBSET (0 .. ThreadNum)
    BY ThreadAssumption DEF Threads
  <2>2. \E t \in S : \A u \in S : t <= u
    BY <1>1, <2>1, LeastOf
  <2>3. \E t \in S : \A u \in S : u <= t
    BY <1>1, <2>1, GreatestOf, ThreadAssumption, Zenon
  <2> QED
    BY <2>2, <2>3
<1>2. 1 \in Threads
  BY ThreadAssumption DEF Threads
<1> DEFINE cnt(t) == Len(workList[t])
           idle == {t \in Threads \ {1} : cnt(t) = 0}
           less == {t \in Threads \ {1} : cnt(t) < cnt(1)}
<1>3. idle # {} => (CHOOSE t \in idle : \A u \in idle : t <= u) \in Threads
  BY <1>1, Zenon
<1>4. less # {} => (CHOOSE t \in less : \A u \in less : u <= t) \in Threads
  BY <1>1, Zenon
<1> QED
  BY <1>2, <1>3, <1>4 DEF PickThread

\* What the model's operations on sequences do to the set of their elements.
LEMMA EmptyHasNone == Range(<<>>) = {}
BY DEF Range

\* The first element and the rest of a list.
LEMMA HeadAndTail ==
  ASSUME NEW S, NEW q \in Seq(S), q # <<>>
  PROVE  /\ Head(q) \in S /\ Head(q) \in Range(q)
         /\ Tail(q) \in Seq(S) /\ Range(Tail(q)) \subseteq Range(q)
<1>1. /\ Len(q) \in Nat /\ Len(q) > 0 /\ Head(q) = q[1]
      /\ DOMAIN q = 1 .. Len(q)
      /\ Head(q) \in S
  OBVIOUS
<1>2. /\ Tail(q) \in Seq(S) /\ DOMAIN Tail(q) = 1 .. Len(q) - 1
      /\ \A i \in 1 .. Len(q) - 1 : Tail(q)[i] = q[i + 1]
  BY <1>1
<1>3. Head(q) \in Range(q)
  BY <1>1 DEF Range
<1>4. ASSUME NEW e \in Range(Tail(q)) PROVE e \in Range(q)
  <2>1. PICK i \in 1 .. Len(q) - 1 : e = Tail(q)[i]
    BY <1>2 DEF Range
  <2>2. e = q[i + 1] /\ i + 1 \in DOMAIN q
    BY <1>1, <1>2, <2>1
  <2> QED
    BY <2>2 DEF Range
<1> QED
  BY <1>1, <1>2, <1>3, <1>4

\* list_add_tail of an element that is not in the list.
LEMMA AppendAdds ==
  ASSUME NEW S, NEW q \in Seq(S), NEW e \in S
  PROVE  /\ Append(q, e) \in Seq(S)
         /\ Range(Append(q, e)) = Range(q) \cup {e}
         /\ IsInjective(q) /\ e \notin Range(q) => IsInjective(Append(q, e))
<1> DEFINE a == Append(q, e)
<1>1. /\ a \in Seq(S) /\ Len(q) \in Nat /\ DOMAIN q = 1 .. Len(q)
      /\ DOMAIN a = 1 .. Len(q) + 1 /\ a[Len(q) + 1] = e
      /\ \A i \in 1 .. Len(q) : a[i] = q[i]
  OBVIOUS
<1> HIDE DEF a
<1>2. Range(a) \subseteq Range(q) \cup {e}
  BY <1>1 DEF Range
<1>3. Range(q) \cup {e} \subseteq Range(a)
  BY <1>1 DEF Range
<1>4. IsInjective(q) /\ e \notin Range(q) => IsInjective(a)
  BY <1>1 DEF Range, IsInjective
<1> QED
  BY <1>1, <1>2, <1>3, <1>4 DEF a

\* The elements of a part of a sequence, and of one without its k-th element.
LEMMA SubSeqGives ==
  ASSUME NEW S, NEW q \in Seq(S), NEW m \in Int, NEW n \in Int,
         1 <= m, m <= n + 1, n <= Len(q)
  PROVE  /\ SubSeq(q, m, n) \in Seq(S) /\ Len(SubSeq(q, m, n)) = n + 1 - m
         /\ \A i \in 1 .. n + 1 - m : SubSeq(q, m, n)[i] = q[m + i - 1]
<1>1. \A i \in m .. n : q[i] \in S
  OBVIOUS
<1>2. /\ SubSeq(q, m, n) \in Seq(S)
      /\ Len(SubSeq(q, m, n)) = IF m <= n THEN n - m + 1 ELSE 0
      /\ \A i \in 1 .. n - m + 1 : SubSeq(q, m, n)[i] = q[m + i - 1]
  BY <1>1, SubSeqProperties, SMTT(20)
<1> DEFINE b == SubSeq(q, m, n)
<1> HIDE DEF b
<1>3. /\ b \in Seq(S)
      /\ Len(b) = IF m <= n THEN n - m + 1 ELSE 0
      /\ \A i \in 1 .. n - m + 1 : b[i] = q[m + i - 1]
  BY <1>2, Zenon DEF b
<1>4. n - m + 1 = n + 1 - m /\ (~(m <= n) => n + 1 - m = 0)
  OBVIOUS
<1>5. Len(b) = n + 1 - m
  BY <1>3, <1>4
<1>6. \A i \in 1 .. n + 1 - m : b[i] = q[m + i - 1]
  BY <1>3, <1>4
<1> QED
  BY <1>3, <1>5, <1>6, Zenon DEF b

\* A sequence without its k-th element.
Without(q, k) == SubSeq(q, 1, k - 1) \o SubSeq(q, k + 1, Len(q))

\* It is shorter by one, and the elements behind move up.
LEMMA WithoutGives ==
  ASSUME NEW S, NEW q \in Seq(S), NEW k \in 1 .. Len(q)
  PROVE  /\ Without(q, k) \in Seq(S) /\ Len(Without(q, k)) = Len(q) - 1
         /\ \A i \in 1 .. Len(q) - 1 :
              Without(q, k)[i] = IF i < k THEN q[i] ELSE q[i + 1]
<1> DEFINE a == SubSeq(q, 1, k - 1)
           b == SubSeq(q, k + 1, Len(q))
           r == Without(q, k)
<1>1. Len(q) \in Nat /\ k \in Int /\ 1 <= k /\ k <= Len(q)
  OBVIOUS
<1>2. r = a \o b
  BY DEF Without
<1>3. /\ a \in Seq(S) /\ Len(a) = k - 1 + 1 - 1
      /\ \A i \in 1 .. k - 1 + 1 - 1 : a[i] = q[1 + i - 1]
  <2>1. /\ 1 \in Int /\ k - 1 \in Int
        /\ 1 <= 1 /\ 1 <= k - 1 + 1 /\ k - 1 <= Len(q)
    BY <1>1
  <2> QED
    BY <2>1, SubSeqGives, Zenon
<1>4. /\ b \in Seq(S) /\ Len(b) = Len(q) + 1 - (k + 1)
      /\ \A i \in 1 .. Len(q) + 1 - (k + 1) : b[i] = q[k + 1 + i - 1]
  <2>1. /\ k + 1 \in Int /\ Len(q) \in Int
        /\ 1 <= k + 1 /\ k + 1 <= Len(q) + 1 /\ Len(q) <= Len(q)
    BY <1>1
  <2> QED
    BY <2>1, SubSeqGives, SMTT(20)
<1> HIDE DEF a, b, r
<1>5. /\ r \in Seq(S) /\ Len(r) = Len(a) + Len(b)
      /\ \A i \in 1 .. Len(a) + Len(b) :
           r[i] = IF i <= Len(a) THEN a[i] ELSE b[i - Len(a)]
  BY <1>2, <1>3, <1>4, ConcatProperties, Zenon
<1>6. Len(a) = k - 1 /\ Len(b) = Len(q) - k /\ Len(r) = Len(q) - 1
  BY <1>1, <1>3, <1>4, <1>5
<1>7. ASSUME NEW i \in 1 .. Len(q) - 1
      PROVE  r[i] = IF i < k THEN q[i] ELSE q[i + 1]
  <2>1. i \in 1 .. Len(a) + Len(b)
    BY <1>1, <1>6
  <2>2. r[i] = IF i <= Len(a) THEN a[i] ELSE b[i - Len(a)]
    BY <1>5, <2>1, Zenon
  <2>3. CASE i < k
    <3>1. i <= Len(a) /\ i \in 1 .. k - 1 + 1 - 1 /\ 1 + i - 1 = i
      BY <1>1, <1>6, <2>3
    <3>2. a[i] = q[i]
      BY <1>3, <3>1
    <3> QED
      BY <2>2, <2>3, <3>1, <3>2, Zenon
  <2>4. CASE ~(i < k)
    <3> DEFINE j == i - Len(a)
    <3>1. /\ ~(i <= Len(a)) /\ j \in 1 .. Len(q) + 1 - (k + 1)
          /\ k + 1 + j - 1 = i + 1
      BY <1>1, <1>6, <2>4
    <3>2. b[j] = q[i + 1]
      BY <1>4, <3>1, Zenon
    <3> QED
      BY <2>2, <2>4, <3>1, <3>2, Zenon
  <2> QED
    BY <2>3, <2>4
<1> QED
  BY <1>5, <1>6, <1>7, Zenon DEF r

\* list_del takes out the one node it is given.
LEMMA ListDelRemoves ==
  ASSUME NEW S, NEW q \in Seq(S), IsInjective(q), NEW e \in Range(q)
  PROVE  /\ ListDel(q, e) \in Seq(S)
         /\ Range(ListDel(q, e)) = Range(q) \ {e}
         /\ IsInjective(ListDel(q, e))
<1> DEFINE k == CHOOSE i \in DOMAIN q : q[i] = e
           r == ListDel(q, e)
<1>1. k \in 1 .. Len(q) /\ q[k] = e /\ Len(q) \in Nat /\ DOMAIN q = 1 .. Len(q)
  <2>1. \E i \in DOMAIN q : q[i] = e
    BY DEF Range
  <2>2. k \in DOMAIN q /\ q[k] = e
    BY <2>1
  <2> QED
    BY <2>2
<1>2. r = Without(q, k)
  BY DEF ListDel, Without
<1> HIDE DEF k, r
<1>3. /\ r \in Seq(S) /\ Len(r) = Len(q) - 1
      /\ \A i \in 1 .. Len(q) - 1 : r[i] = IF i < k THEN q[i] ELSE q[i + 1]
  BY <1>1, <1>2, WithoutGives, Zenon
<1>4. DOMAIN r = 1 .. Len(q) - 1
  BY <1>3
<1>5. \A i, j \in 1 .. Len(q) : q[i] = q[j] => i = j
  BY <1>1 DEF IsInjective
<1>6. Range(r) \subseteq Range(q) \ {e}
  <2> SUFFICES ASSUME NEW f \in Range(r) PROVE f \in Range(q) /\ f # e
    BY Zenon
  <2>1. PICK i \in 1 .. Len(q) - 1 : f = r[i]
    BY <1>4, Zenon DEF Range
  <2>2. PICK j \in 1 .. Len(q) : f = q[j] /\ j # k
    <3>1. CASE i < k
      BY <1>1, <1>3, <2>1, <3>1
    <3>2. CASE ~(i < k)
      <4>1. f = q[i + 1] /\ i + 1 \in 1 .. Len(q) /\ i + 1 # k
        BY <1>1, <1>3, <2>1, <3>2
      <4> QED
        BY <4>1
    <3> QED
      BY <3>1, <3>2
  <2> QED
    BY <1>1, <1>5, <2>2, Zenon DEF Range
<1>7. Range(q) \ {e} \subseteq Range(r)
  <2> SUFFICES ASSUME NEW f \in Range(q) \ {e} PROVE f \in Range(r)
    OBVIOUS
  <2>1. PICK i \in 1 .. Len(q) : f = q[i] /\ i # k
    BY <1>1 DEF Range
  <2>2. CASE i < k
    <3>1. i \in DOMAIN r /\ r[i] = f
      BY <1>1, <1>3, <1>4, <2>1, <2>2
    <3> QED
      BY <3>1 DEF Range
  <2>3. CASE i > k
    <3>1. i - 1 \in DOMAIN r /\ r[i - 1] = f
      BY <1>1, <1>3, <1>4, <2>1, <2>3
    <3> QED
      BY <3>1 DEF Range
  <2> QED
    BY <1>1, <2>1, <2>2, <2>3
<1>8. IsInjective(r)
  BY <1>1, <1>3, <1>4, <1>5 DEF IsInjective
<1> QED
  BY <1>3, <1>4, <1>6, <1>7, <1>8 DEF r

-----------------------------------------------------------------------------
\* Every step keeps the types: the engine a thread is at is a device;
LEMMA HeadOfTodo ==
  ASSUME Types, NEW t \in Threads, todo[t] # <<>>
  PROVE  Head(todo[t]) \in Devices /\ Tail(todo[t]) \in Seq(Devices)
BY HeadAndTail DEF Types

\* ... a thread's steps,
LEMMA TypesThread ==
  ASSUME Types, WalkInv, NEW t \in Threads, ThreadStep(t)
  PROVE  Types'
<1> USE DEF threads, locals, list, devs, calls, engine, hw, Step
<1>1. NoWb \in Words /\ <<>> \in Seq(Devices) /\ 0 \in Nat
  BY DEF NoWb, Words
<1>2. workList[t] \in Seq(Devices) /\ todo[t] \in Seq(Devices)
  BY DEF Types
<1>3. CASE ThreadTop(t)
  BY <1>1, <1>2, <1>3, Zenon DEF ThreadTop, Types
<1>4. CASE ThreadPend(t)
  <2>1. (IF todo[t] = <<>> THEN todo[t] ELSE Tail(todo[t])) \in Seq(Devices)
    BY <1>2, HeadOfTodo
  <2> QED
    BY <1>4, <2>1, ZenonT(30) DEF ThreadPend, Types
<1>5. CASE ThreadSleep(t)
  BY <1>5, Zenon DEF ThreadSleep, Types
<1>6. CASE ThreadClear(t)
  BY <1>2, <1>6, ZenonT(30) DEF ThreadClear, Types
<1>7. CASE ThreadProc(t)
  BY <1>7, Zenon DEF ThreadProc, Types
<1>11. CASE ThreadFirst(t)
  <2>1. Head(todo[t]) \in Devices /\ Tail(todo[t]) \in Seq(Devices)
    BY <1>11, HeadOfTodo DEF ThreadFirst, WalkInv
  <2>2. Threshold(t) \subseteq Nat
    <3>1. num[Head(todo[t])] \in Nat /\ 0 \in Nat /\ Junk \subseteq Nat
      BY <2>1, ThreadAssumption, Zenon DEF Types
    <3> QED
      BY <3>1, Zenon DEF Threshold
  <2>3. PICK cnt \in Threshold(t) :
          /\ threadPc' = [threadPc EXCEPT ![t] = IF cnt = 0 THEN "proc"
                                                ELSE "monitor"]
          /\ todo' = IF cnt = 0 THEN [todo EXCEPT ![t] = Tail(todo[t])]
                     ELSE todo
          /\ expected' = [expected EXCEPT ![t] = cnt]
    BY <1>11, Zenon DEF ThreadFirst
  <2>4. cnt \in Nat
    BY <2>2, Zenon
  <2> QED
    BY <1>11, <2>1, <2>3, <2>4, Zenon DEF ThreadFirst, Types
<1>8. CASE ThreadMonitor(t)
  <2>1. wb[Head(todo[t])] \in Words
    BY <1>8, HeadOfTodo, Zenon DEF ThreadMonitor, WalkInv, Types
  <2> QED
    BY <1>8, <2>1, Zenon DEF ThreadMonitor, Types
<1>12. CASE ThreadAck(t)
  <2>1. Head(todo[t]) \in Devices
    BY <1>12, HeadOfTodo DEF ThreadAck, WalkInv
  <2>2. PICK to \in {"service", "monitor"}, w \in Words :
          /\ threadPc' = [threadPc EXCEPT ![t] = to]
          /\ descWb' = [descWb EXCEPT ![t] = w]
    <3>1. descWb[t] \in Words
      BY DEF Types
    <3> QED
      BY <1>1, <1>12, <3>1, Zenon DEF ThreadAck
  <2>3. wb' \in [Devices -> Words]
    BY <1>1, <1>12, <2>1, Zenon DEF ThreadAck, Types
  <2> QED
    BY <1>12, <2>2, <2>3, ZenonT(30) DEF ThreadAck, Types
<1>9. CASE ThreadTimeout(t)
  <2>1. Tail(todo[t]) \in Seq(Devices)
    BY <1>9, HeadOfTodo DEF ThreadTimeout, WalkInv
  <2> QED
    BY <1>9, <2>1, Zenon DEF ThreadTimeout, Types
<1>10. CASE ThreadService(t)
  <2>1. Head(todo[t]) \in Devices /\ Tail(todo[t]) \in Seq(Devices)
    BY <1>10, HeadOfTodo DEF ThreadService, WalkInv
  <2>2. /\ threadPc' = [threadPc EXCEPT ![t] = "proc"]
        /\ todo' \in [Threads -> Seq(Devices)]
        /\ expected' \in [Threads -> Nat] /\ descWb' \in [Threads -> Words]
    BY <1>1, <1>10, <2>1, Zenon DEF ThreadService, Types
  <2>3. /\ running' \in [Devices -> BOOLEAN] /\ hwRun' \in [Devices -> BOOLEAN]
    BY <1>10, <2>1, Zenon DEF ThreadService, EngineStop, Types
  <2>4. /\ status' \in [Devices -> BOOLEAN] /\ hwErr' \in [Devices -> BOOLEAN]
        /\ listed' \in [Devices -> BOOLEAN]
    BY <1>10, <2>1, Zenon DEF ThreadService, Types
  <2>5. state' \in [Devices -> States]
    BY <1>10, <2>1, Zenon DEF ThreadService, FinalState, States, Types
  <2> QED
    BY <1>10, <2>2, <2>3, <2>4, <2>5, Zenon DEF ThreadService, Types
<1> QED
  BY <1>3, <1>4, <1>5, <1>6, <1>7, <1>8, <1>9, <1>10, <1>11, <1>12
  DEF ThreadStep

\* ... those of callers and hardware,
LEMMA TypesDevice ==
  ASSUME Types, NEW d \in Devices,
         \/ Queue(d) \/ CallStep(d) \/ Interrupted(d)
         \/ HwDescriptor(d) \/ HwError(d) \/ HwIdle(d)
  PROVE  Types'
<1> USE DEF threads, locals, list, devs, calls, engine, hw, CallStepTo
<1>1. Sizes[d] \subseteq Nat /\ 0 \in Nat
  BY ThreadAssumption
<1>2. CASE Queue(d)
  <2>1. num' \in [Devices -> Nat] /\ hwLeft' \in [Devices -> Nat]
    <3>1. PICK n \in Sizes[d] : /\ num' = [num EXCEPT ![d] = n]
                                /\ hwLeft' = [hwLeft EXCEPT ![d] = n]
      BY <1>2, Zenon DEF Queue
    <3> QED
      BY <1>1, <3>1, Zenon DEF Types
  <2>2. /\ state' \in [Devices -> States] /\ listed' \in [Devices -> BOOLEAN]
        /\ moved' \in [Devices -> Nat] /\ hwCount' \in [Devices -> Nat]
    BY <1>1, <1>2, Zenon DEF Queue, Types, States
  <2>3. /\ running' \in [Devices -> BOOLEAN] /\ status' \in [Devices -> BOOLEAN]
        /\ hwRun' \in [Devices -> BOOLEAN] /\ hwBusy' \in [Devices -> BOOLEAN]
        /\ hwLive' \in [Devices -> BOOLEAN]
    BY <1>2, Zenon DEF Queue, Types
  <2>4. /\ callPc' = [callPc EXCEPT ![d] = "queued"]
        /\ UNCHANGED <<threads, locals, list, devs, aborted, hwErr, wb>>
    BY <1>2, Zenon DEF Queue
  <2> QED
    BY <2>1, <2>2, <2>3, <2>4, Zenon DEF Types
<1>3. CASE Wakeup(d)
  BY <1>3, Zenon DEF Wakeup, Types
<1>4. CASE Woken(d) \/ Interrupted(d)
  BY <1>4, Zenon DEF Woken, Interrupted, EndWait, Types
<1>5. CASE Finish(d)
  <2>1. /\ listed' \in [Devices -> BOOLEAN] /\ aborted' \in [Devices -> BOOLEAN]
        /\ running' \in [Devices -> BOOLEAN] /\ hwRun' \in [Devices -> BOOLEAN]
        /\ hwLive' \in [Devices -> BOOLEAN] /\ status' \in [Devices -> BOOLEAN]
    BY <1>5, Zenon DEF Finish, EngineStop, Types
  <2>2. /\ num' \in [Devices -> Nat] /\ moved' \in [Devices -> Nat]
        /\ hwLeft' \in [Devices -> Nat] /\ hwCount' \in [Devices -> Nat]
        /\ state' \in [Devices -> States]
    BY <1>1, <1>5, Zenon DEF Finish, Types, States
  <2>3. transfer' \in [Threads -> {"none", "queued", "head", "freed"}]
    BY <1>5, Zenon DEF Finish, Types
  <2> QED
    BY <1>5, <2>1, <2>2, <2>3, Zenon DEF Finish, Types
<1>6. CASE HwDescriptor(d)
  <2>1. /\ hwLeft' \in [Devices -> Nat] /\ hwCount' \in [Devices -> Nat]
        /\ moved' \in [Devices -> Nat]
    BY <1>6, SMTT(20) DEF HwDescriptor, Types
  <2>2. hwBusy' \in [Devices -> BOOLEAN]
    BY <1>6, Zenon DEF HwDescriptor, Types
  <2>3. wb' \in [Devices -> Words]
    <3>1. [n |-> hwCount'[d], err |-> FALSE] \in Words
      BY <2>1 DEF Words
    <3> QED
      BY <1>6, <3>1, Zenon DEF HwDescriptor, Types
  <2> QED
    BY <1>6, <2>1, <2>2, <2>3, Zenon DEF HwDescriptor, HwUnchanged, Types
<1>7. CASE HwError(d)
  <2>1. [n |-> hwCount[d], err |-> TRUE] \in Words
    BY DEF Types, Words
  <2> QED
    BY <1>7, <2>1, Zenon DEF HwError, HwUnchanged, Types
<1>8. CASE HwIdle(d)
  BY <1>1, <1>8, Zenon DEF HwIdle, HwUnchanged, Types
<1> QED
  BY <1>2, <1>3, <1>4, <1>5, <1>6, <1>7, <1>8 DEF CallStep

\* ... and those of open and close.
LEMMA TypesOpen ==
  ASSUME Types, LinkInv, NEW d \in Devices,
         OpenStep(d) \/ RemoveDetach(d) \/ CloseStep(d)
  PROVE  Types'
<1> USE DEF threads, locals, list, devs, calls, engine, hw, DevStep, DevPcs
<1>1. ThreadNum \in Nat \ {0} /\ NoWb \in Words
  BY ThreadAssumption DEF NoWb, Words
<1>2. CASE ListAdd(d)
  <2>1. /\ threadPc' \in [Threads -> {"none", "top", "pend", "clear", "sleep",
                                       "proc", "first", "monitor", "ack",
                                       "service", "dead"}]
        /\ schedule' \in [Threads -> BOOLEAN]
        /\ shouldStop' \in [Threads -> BOOLEAN]
        /\ workList' \in [Threads -> Seq(Devices)]
        /\ todo' \in [Threads -> Seq(Devices)]
    <3>1. CASE xdevList = {}
      <4>1. <<>> \in Seq(Devices)
        OBVIOUS
      <4> QED
        BY <1>2, <3>1, <4>1, Zenon DEF ListAdd, ThreadsCreate
    <3>2. CASE xdevList # {}
      BY <1>2, <3>2, Zenon DEF ListAdd, Types
    <3> QED
      BY <3>1, <3>2
  <2>2. devPc' \in [Devices -> DevPcs] /\ xdevList' \subseteq Devices
    BY <1>2, Zenon DEF ListAdd, Types
  <2> QED
    BY <1>2, <2>1, <2>2, Zenon DEF ListAdd, Types
<1>3. CASE AddScan(d)
  BY <1>1, <1>3, PickThreadType, Zenon DEF AddScan, Types
<1>4. CASE AddInsert(d)
  <2>1. pick[d] \in Threads /\ workList[pick[d]] \in Seq(Devices)
    BY <1>4 DEF AddInsert, LinkInv, Types
  <2>2. Append(workList[pick[d]], d) \in Seq(Devices)
    BY <2>1, AppendAdds
  <2> QED
    BY <1>4, <2>1, <2>2, Zenon DEF AddInsert, Types
<1>5. CASE AddAttach(d)
  BY <1>5, Zenon DEF AddAttach, Types
<1>6. CASE RemoveDetach(d)
  BY <1>6, Zenon DEF RemoveDetach, Types
<1>7. CASE RemoveUnlink(d)
  <2>1. /\ pick[d] \in Threads /\ workList[pick[d]] \in Seq(Devices)
        /\ IsInjective(workList[pick[d]]) /\ d \in Range(workList[pick[d]])
    BY <1>7 DEF RemoveUnlink, LinkInv, Types, Linked
  <2>2. ListDel(workList[pick[d]], d) \in Seq(Devices)
    BY <2>1, ListDelRemoves, Zenon
  <2> QED
    BY <1>7, <2>1, <2>2, Zenon DEF RemoveUnlink, Types
<1>8. CASE ListRemove(d)
  <2>1. stopIdx' \in 0 .. ThreadNum
    <3>1. 1 \in 0 .. ThreadNum
      BY <1>1
    <3> QED
      BY <1>8, <3>1, Zenon DEF ListRemove, Types
  <2> QED
    BY <1>8, <2>1, Zenon DEF ListRemove, Types
<1>9. CASE StopFlag(d)
  BY <1>9, Zenon DEF StopFlag, Types
<1>10. CASE StopRequest(d)
  BY <1>10, Zenon DEF StopRequest, Types
<1>11. CASE StopJoin(d)
  <2>1. /\ stopIdx \in 0 .. ThreadNum /\ 0 \in 0 .. ThreadNum
        /\ stopIdx < ThreadNum => stopIdx + 1 \in 0 .. ThreadNum
    BY <1>1 DEF Types
  <2>2. \/ threadPc' = threadPc \/ threadPc' = [t \in Threads |-> "none"]
    BY <1>11, Zenon DEF StopJoin
  <2>3. /\ stopIdx' \in 0 .. ThreadNum /\ xdevMutex' \in Devices \cup {Nobody}
        /\ devPc' \in [Devices -> DevPcs]
    BY <1>11, <2>1, Zenon DEF StopJoin, Types
  <2>4. UNCHANGED <<schedule, shouldStop, workList, todo, locals, xdevList,
                    pick, cmplthp, calls, engine, hw>>
    BY <1>11, Zenon DEF StopJoin
  <2> QED
    BY <2>2, <2>3, <2>4, Zenon DEF Types
<1> QED
  BY <1>2, <1>3, <1>4, <1>5, <1>6, <1>7, <1>8, <1>9, <1>10, <1>11
  DEF OpenStep, CloseStep

-----------------------------------------------------------------------------
\* The threads' steps touch neither the list of devices nor their stages, and a
\* thread ends only when it was asked to.
LEMMA ListThread ==
  ASSUME Types, ListInv, NEW t \in Threads, ThreadStep(t)
  PROVE  ListInv'
<1>1. UNCHANGED <<shouldStop, list, devs>>
  BY Zenon
  DEF ThreadStep, ThreadTop, ThreadPend, ThreadSleep, ThreadClear, ThreadProc,
      ThreadFirst, ThreadMonitor, ThreadAck, ThreadTimeout, ThreadService
<1>2. PICK to \in {"top", "pend", "clear", "sleep", "proc", "first", "monitor",
                   "ack", "service", "dead"} :
        /\ threadPc' = [threadPc EXCEPT ![t] = to]
        /\ to = "dead" => shouldStop[t]
  BY Zenon
  DEF ThreadStep, ThreadTop, ThreadPend, ThreadSleep, ThreadClear, ThreadProc,
      ThreadFirst, ThreadMonitor, ThreadAck, ThreadTimeout, ThreadService, Step
<1>3. ASSUME xdevList # {}, NEW u \in Threads
      PROVE  threadPc'[u] \notin {"none", "dead"}
  <2>1. threadPc[u] \notin {"none", "dead"} /\ ~shouldStop[t]
    BY <1>3, Zenon DEF ListInv
  <2>2. threadPc'[u] = IF u = t THEN to ELSE threadPc[u]
    BY <1>2, Zenon DEF Types
  <2> QED
    BY <1>2, <2>1, <2>2, Zenon
<1> QED
  BY <1>1, <1>3 DEF ListInv, list, devs

\* Callers and hardware do not touch the list of devices.
LEMMA ListDevice ==
  ASSUME Types, ListInv, NEW d \in Devices,
         \/ Queue(d) \/ CallStep(d) \/ Interrupted(d)
         \/ HwDescriptor(d) \/ HwError(d) \/ HwIdle(d)
  PROVE  ListInv'
<1>1. UNCHANGED <<threadPc, shouldStop, list, devs>>
  BY ZenonT(30)
  DEF CallStep, Queue, Wakeup, Woken, Interrupted, EndWait, Finish,
      HwDescriptor, HwError, HwIdle, HwUnchanged, threads
<1> QED
  BY <1>1, Zenon DEF ListInv, list, devs

\* Open and close do, under the mutex.
LEMMA ListOpen ==
  ASSUME Types, ListInv, NEW d \in Devices,
         OpenStep(d) \/ RemoveDetach(d) \/ CloseStep(d)
  PROVE  ListInv'
<1> USE DEF Destroying
<1> devPc \in [Devices -> DevPcs]
  BY DEF Types
<1>1. CASE ListAdd(d)
  <2>1. /\ devPc[d] = "closed" /\ devPc' = [devPc EXCEPT ![d] = "listed"]
        /\ xdevList' = xdevList \cup {d}
        /\ xdevMutex = Nobody /\ UNCHANGED <<xdevMutex, stopIdx>>
    BY <1>1 DEF ListAdd, DevStep
  <2>2. \A e \in Devices : devPc[e] \notin Destroying
    BY <2>1, ThreadAssumption DEF ListInv
  <2>3. ASSUME NEW t \in Threads
        PROVE  threadPc'[t] \notin {"none", "dead"} /\ ~shouldStop'[t]
    <3>1. CASE xdevList = {}
      BY <1>1, <3>1 DEF ListAdd, ThreadsCreate
    <3>2. CASE xdevList # {}
      BY <1>1, <3>2 DEF ListAdd, threads, ListInv
    <3> QED
      BY <3>1, <3>2
  <2>4. xdevList' =
          {e \in Devices : devPc'[e] \notin Destroying \cup {"closed"}}
    BY <2>1 DEF ListInv
  <2> QED
    BY <2>1, <2>2, <2>3, <2>4 DEF ListInv
<1>2. CASE \/ AddScan(d) \/ AddInsert(d) \/ AddAttach(d)
           \/ RemoveDetach(d) \/ RemoveUnlink(d)
  <2>1. PICK to \in {"adding", "added", "open", "removing", "removed"} :
          /\ devPc[d] \in {"listed", "adding", "added", "open", "removing"}
          /\ devPc' = [devPc EXCEPT ![d] = to]
    BY <1>2, ZenonT(30)
    DEF AddScan, AddInsert, AddAttach, RemoveDetach, RemoveUnlink, DevStep
  <2>2. UNCHANGED <<threadPc, shouldStop, xdevList, xdevMutex, stopIdx>>
    BY <1>2, ZenonT(30)
    DEF AddScan, AddInsert, AddAttach, RemoveDetach, RemoveUnlink, threads, list
  <2>3. xdevList = {e \in Devices : devPc'[e] \notin Destroying \cup {"closed"}}
    BY <2>1 DEF ListInv
  <2>4. \A e \in Devices : devPc'[e] \in Destroying => devPc[e] \in Destroying
    BY <2>1
  <2> QED
    BY <2>2, <2>3, <2>4, Zenon DEF ListInv
<1>3. CASE ListRemove(d)
  <2>1. /\ devPc[d] = "removed" /\ xdevMutex = Nobody
        /\ xdevList' = xdevList \ {d} /\ UNCHANGED threads
        /\ devPc' = [devPc EXCEPT ![d] = IF xdevList = {d} THEN "stopping"
                                         ELSE "closed"]
        /\ IF xdevList = {d} THEN xdevMutex' = d /\ stopIdx' = 1
           ELSE UNCHANGED <<xdevMutex, stopIdx>>
    BY <1>3 DEF ListRemove, DevStep, LastDevice
  <2>2. \A e \in Devices : devPc[e] \notin Destroying
    BY <2>1, ThreadAssumption DEF ListInv
  <2>3. xdevList' =
          {e \in Devices : devPc'[e] \notin Destroying \cup {"closed"}}
    BY <2>1 DEF ListInv
  <2>4. 1 \in Threads
    BY ThreadAssumption DEF Threads
  <2>5. \A e \in Devices : devPc'[e] \in Destroying =>
          xdevMutex' = e /\ xdevList' = {} /\ stopIdx' \in Threads
    BY <2>1, <2>2, <2>4
  <2> QED
    BY <2>1, <2>3, <2>5 DEF ListInv, threads
<1>4. CASE StopFlag(d) \/ StopRequest(d) \/ StopJoin(d)
  <2>1. /\ devPc[d] \in Destroying /\ xdevList = {} /\ xdevList' = xdevList
        /\ xdevMutex = d /\ stopIdx \in Threads
    BY <1>4 DEF StopFlag, StopRequest, StopJoin, DevStep, ListInv, list
  <2>2. \A e \in Devices : e # d => devPc[e] = "closed"
    BY <2>1 DEF ListInv
  <2>3. PICK to \in Destroying \cup {"closed"} :
          /\ devPc' = [devPc EXCEPT ![d] = to]
          /\ to # "closed" => xdevMutex' = xdevMutex /\ stopIdx' \in Threads
    <3>1. stopIdx < ThreadNum => stopIdx + 1 \in Threads
      BY <2>1, ThreadAssumption DEF Threads
    <3> QED
      BY <1>4, <2>1, <3>1, Zenon
      DEF StopFlag, StopRequest, StopJoin, DevStep, list
  <2>4. \A e \in Devices : devPc'[e] \in Destroying \cup {"closed"}
    BY <2>2, <2>3
  <2>5. \A e \in Devices : devPc'[e] \in Destroying =>
          xdevMutex' = e /\ stopIdx' \in Threads
    BY <2>1, <2>2, <2>3
  <2> QED
    BY <2>1, <2>4, <2>5 DEF ListInv
<1> QED
  BY <1>1, <1>2, <1>3, <1>4 DEF OpenStep, CloseStep

-----------------------------------------------------------------------------
\* Only opening and closing a device changes who has which engine.
LEMMA LinkThread ==
  ASSUME LinkInv, NEW t \in Threads, ThreadStep(t)
  PROVE  LinkInv'
<1>1. UNCHANGED <<workList, devs>>
  BY Zenon
  DEF ThreadStep, ThreadTop, ThreadPend, ThreadSleep, ThreadClear, ThreadProc,
      ThreadFirst, ThreadMonitor, ThreadAck, ThreadTimeout, ThreadService
<1> QED
  BY <1>1, Zenon DEF LinkInv, devs

\* Callers and hardware do not touch the lists of work.
LEMMA LinkDevice ==
  ASSUME LinkInv, NEW d \in Devices,
         \/ Queue(d) \/ CallStep(d) \/ Interrupted(d)
         \/ HwDescriptor(d) \/ HwError(d) \/ HwIdle(d)
  PROVE  LinkInv'
<1>1. UNCHANGED <<workList, devs>>
  BY ZenonT(30)
  DEF CallStep, Queue, Wakeup, Woken, Interrupted, EndWait, Finish,
      HwDescriptor, HwError, HwIdle, HwUnchanged, threads
<1> QED
  BY <1>1, Zenon DEF LinkInv, devs

\* Open adds the engine to one list, close takes it out again.
LEMMA LinkOpen ==
  ASSUME Types, ListInv, LinkInv, NEW d \in Devices,
         OpenStep(d) \/ RemoveDetach(d) \/ CloseStep(d)
  PROVE  LinkInv'
<1> USE DEF Linked
<1>0. /\ devPc \in [Devices -> DevPcs] /\ workList \in [Threads -> Seq(Devices)]
      /\ pick \in [Devices -> Threads \cup {NoThread}]
      /\ cmplthp \in [Devices -> Threads \cup {NoThread}]
  BY DEF Types
<1>1. ASSUME NEW to \in DevPcs \ (Linked \cup {"adding"}),
             devPc[d] \notin Linked, devPc' = [devPc EXCEPT ![d] = to],
             UNCHANGED <<workList, pick, cmplthp>>
      PROVE  LinkInv'
  BY <1>0, <1>1 DEF LinkInv
<1>2. CASE ListAdd(d)
  <2>1. /\ devPc[d] = "closed" /\ devPc' = [devPc EXCEPT ![d] = "listed"]
        /\ UNCHANGED <<pick, cmplthp>>
    BY <1>2 DEF ListAdd, DevStep
  <2>2. CASE xdevList = {}
    <3>1. \A t \in Threads : workList'[t] = <<>>
      BY <1>2, <2>2 DEF ListAdd, ThreadsCreate
    <3>2. \A e \in Devices : devPc'[e] \notin Linked \cup {"adding"}
      BY <1>0, <2>1, <2>2 DEF ListInv, Destroying
    <3>3. \A e \in Devices : cmplthp'[e] = NoThread
      BY <2>1, <2>2 DEF ListInv, LinkInv, Destroying
    <3>4. \A t \in Threads :
            Range(workList'[t]) = {} /\ IsInjective(workList'[t])
      BY <3>1 DEF Range, IsInjective
    <3> QED
      BY <3>2, <3>3, <3>4 DEF LinkInv
  <2>3. CASE xdevList # {}
    BY <1>1, <1>2, <2>1, <2>3, Zenon DEF ListAdd, threads, DevPcs
  <2> QED
    BY <2>2, <2>3
<1>3. CASE AddScan(d)
  <2>1. /\ devPc[d] = "listed" /\ devPc' = [devPc EXCEPT ![d] = "adding"]
        /\ pick' = [pick EXCEPT ![d] = PickThread]
        /\ UNCHANGED <<workList, cmplthp>>
    BY <1>3 DEF AddScan, DevStep, threads
  <2> QED
    BY <1>0, <2>1, PickThreadType DEF LinkInv
<1>4. CASE AddInsert(d)
  <2> DEFINE p == pick[d]
  <2>1. /\ devPc[d] = "adding" /\ devPc' = [devPc EXCEPT ![d] = "added"]
        /\ workList' = [workList EXCEPT ![p] = Append(workList[p], d)]
        /\ UNCHANGED <<pick, cmplthp>>
    BY <1>4 DEF AddInsert, DevStep
  <2>2. /\ p \in Threads /\ workList[p] \in Seq(Devices)
        /\ IsInjective(workList[p]) /\ d \notin Range(workList[p])
    BY <1>0, <2>1 DEF LinkInv
  <2>3. /\ Range(Append(workList[p], d)) = Range(workList[p]) \cup {d}
        /\ IsInjective(Append(workList[p], d))
    BY <2>2, AppendAdds
  <2>4. \A t \in Threads :
          /\ Range(workList'[t]) = Range(workList[t]) \cup {e \in {d} : t = p}
          /\ IsInjective(workList'[t])
    BY <1>0, <2>1, <2>2, <2>3 DEF LinkInv
  <2> HIDE DEF p
  <2> QED
    BY <1>0, <2>1, <2>2, <2>4 DEF LinkInv, p
<1>5. CASE AddAttach(d)
  <2>1. /\ devPc[d] = "added" /\ devPc' = [devPc EXCEPT ![d] = "open"]
        /\ cmplthp' = [cmplthp EXCEPT ![d] = pick[d]]
        /\ UNCHANGED <<workList, pick>>
    BY <1>5 DEF AddAttach, DevStep, threads
  <2> QED
    BY <1>0, <2>1 DEF LinkInv
<1>6. CASE RemoveDetach(d)
  <2>1. /\ devPc[d] = "open" /\ devPc' = [devPc EXCEPT ![d] = "removing"]
        /\ cmplthp' = [cmplthp EXCEPT ![d] = NoThread]
        /\ UNCHANGED <<workList, pick>>
    BY <1>6 DEF RemoveDetach, DevStep, threads
  <2> QED
    BY <1>0, <2>1 DEF LinkInv
<1>7. CASE RemoveUnlink(d)
  <2> DEFINE p == pick[d]
  <2>1. /\ devPc[d] = "removing" /\ devPc' = [devPc EXCEPT ![d] = "removed"]
        /\ workList' = [workList EXCEPT ![p] = ListDel(workList[p], d)]
        /\ UNCHANGED <<pick, cmplthp>>
    BY <1>7 DEF RemoveUnlink, DevStep
  <2>2. /\ p \in Threads /\ workList[p] \in Seq(Devices)
        /\ IsInjective(workList[p]) /\ d \in Range(workList[p])
    BY <1>0, <2>1 DEF LinkInv
  <2>3. /\ Range(ListDel(workList[p], d)) = Range(workList[p]) \ {d}
        /\ IsInjective(ListDel(workList[p], d))
    BY <2>2, ListDelRemoves, Zenon
  <2>4. \A t \in Threads :
          /\ Range(workList'[t]) = Range(workList[t]) \ {e \in {d} : t = p}
          /\ IsInjective(workList'[t])
    BY <1>0, <2>1, <2>2, <2>3 DEF LinkInv
  <2> HIDE DEF p
  <2> QED
    BY <1>0, <2>1, <2>2, <2>4 DEF LinkInv, p
<1>8. CASE ListRemove(d) \/ StopFlag(d) \/ StopRequest(d) \/ StopJoin(d)
  <2>1. PICK to \in {"closed", "stopping", "flagged", "joining"} :
          /\ devPc[d] \in {"removed", "stopping", "flagged", "joining"}
          /\ devPc' = [devPc EXCEPT ![d] = to]
          /\ UNCHANGED <<workList, pick, cmplthp>>
    BY <1>8, Zenon
    DEF ListRemove, StopFlag, StopRequest, StopJoin, DevStep, threads
  <2> QED
    BY <1>1, <2>1, Zenon DEF DevPcs
<1> QED
  BY <1>2, <1>3, <1>4, <1>5, <1>6, <1>7, <1>8 DEF OpenStep, CloseStep

-----------------------------------------------------------------------------
\* A step of one thread, seen by its loop.
LEMMA WalkMove ==
  ASSUME Types, WalkInv, NEW t \in Threads, NEW to, NEW q,
         threadPc' = [threadPc EXCEPT ![t] = to],
         todo' = [todo EXCEPT ![t] = q], UNCHANGED workList,
         to \in {"pend", "clear", "proc"} \cup Serving =>
           Range(q) \subseteq Range(workList[t]),
         to = "sleep" => q = <<>>,
         to \in Serving => q # <<>>
  PROVE  WalkInv'
<1>1. threadPc'[t] = to /\ todo'[t] = q
  BY DEF Types
<1>2. \A u \in Threads :
        u # t => threadPc'[u] = threadPc[u] /\ todo'[u] = todo[u]
  BY DEF Types
<1> QED
  BY <1>1, <1>2, Zenon DEF WalkInv, Locked

\* A thread's loop drops engines from what is left of its walk, or starts over.
LEMMA WalkThread ==
  ASSUME Types, WalkInv, NEW t \in Threads, ThreadStep(t)
  PROVE  WalkInv'
<1>1. Range(<<>>) = {}
  BY EmptyHasNone
<1>2. /\ todo[t] \in Seq(Devices)
      /\ todo = [todo EXCEPT ![t] = todo[t]]
  BY DEF Types
<1>3. /\ Locked(t) => Range(todo[t]) \subseteq Range(workList[t])
      /\ threadPc[t] \in Serving => todo[t] # <<>>
      /\ threadPc[t] = "sleep" => todo[t] = <<>>
  BY Zenon DEF WalkInv
<1>4. todo[t] # <<>> => Range(Tail(todo[t])) \subseteq Range(todo[t])
  BY <1>2, HeadAndTail
<1>5. CASE ThreadTop(t)
  <2>1. /\ threadPc' = [threadPc EXCEPT ![t] = IF shouldStop[t] THEN "dead"
                                               ELSE "pend"]
        /\ todo' = [todo EXCEPT ![t] = IF shouldStop[t] THEN <<>>
                                       ELSE workList[t]]
        /\ UNCHANGED workList
    BY <1>5, Zenon DEF ThreadTop, Step
  <2>2. CASE shouldStop[t]
    BY <2>1, <2>2, WalkMove, Zenon
  <2>3. CASE ~shouldStop[t]
    BY <2>1, <2>3, WalkMove, Zenon
  <2> QED
    BY <2>2, <2>3
<1>6. CASE ThreadPend(t)
  <2>1. PICK to \in {"sleep", "clear", "pend"} :
          /\ threadPc[t] = "pend" /\ threadPc' = [threadPc EXCEPT ![t] = to]
          /\ to = "sleep" => todo[t] = <<>>
    BY <1>6, Zenon DEF ThreadPend, Step
  <2>2. PICK q :
          /\ todo' = [todo EXCEPT ![t] = q] /\ UNCHANGED workList
          /\ q = IF todo[t] = <<>> THEN todo[t] ELSE Tail(todo[t])
    BY <1>6, Zenon DEF ThreadPend
  <2>3. Range(q) \subseteq Range(workList[t])
    BY <1>3, <1>4, <2>1, <2>2, Zenon DEF Locked
  <2> QED
    BY <2>1, <2>2, <2>3, WalkMove, Zenon
<1>7. CASE ThreadSleep(t)
  <2>1. /\ threadPc' = [threadPc EXCEPT ![t] = "clear"]
        /\ todo' = todo /\ UNCHANGED workList /\ todo[t] = <<>>
    BY <1>3, <1>7, Zenon DEF ThreadSleep, Step
  <2> QED
    BY <1>1, <1>2, <2>1, WalkMove, Zenon
<1>8. CASE ThreadClear(t)
  <2>1. /\ threadPc' = [threadPc EXCEPT ![t] = "proc"]
        /\ todo' = [todo EXCEPT ![t] = workList[t]] /\ UNCHANGED workList
    BY <1>8, Zenon DEF ThreadClear, Step
  <2> QED
    BY <2>1, WalkMove, Zenon
<1>9. CASE ThreadProc(t) \/ ThreadMonitor(t) \/ ThreadAck(t)
  <2>1. PICK to \in {"top"} \cup Serving :
          /\ Locked(t) /\ threadPc' = [threadPc EXCEPT ![t] = to]
          /\ to # "top" => todo[t] # <<>>
          /\ todo' = todo /\ UNCHANGED workList
    BY <1>3, <1>9, Zenon DEF ThreadProc, ThreadMonitor, ThreadAck, Step, Locked
  <2> QED
    BY <1>2, <1>3, <2>1, WalkMove, Zenon
<1>10. CASE ThreadFirst(t)
  <2>1. PICK to \in {"proc", "monitor"} :
          /\ threadPc[t] = "first" /\ threadPc' = [threadPc EXCEPT ![t] = to]
          /\ \/ todo' = todo
             \/ to = "proc" /\ todo' = [todo EXCEPT ![t] = Tail(todo[t])]
          /\ UNCHANGED workList
    BY <1>10, Zenon DEF ThreadFirst, Step
  <2>2. Range(todo[t]) \subseteq Range(workList[t]) /\ todo[t] # <<>>
    BY <1>3, <2>1, Zenon DEF Locked
  <2>3. CASE todo' = todo
    BY <1>2, <2>1, <2>2, <2>3, WalkMove, Zenon
  <2>4. CASE to = "proc" /\ todo' = [todo EXCEPT ![t] = Tail(todo[t])]
    <3>1. Range(Tail(todo[t])) \subseteq Range(workList[t])
      BY <1>4, <2>2, Zenon
    <3> QED
      BY <2>1, <2>4, <3>1, WalkMove, Zenon
  <2> QED
    BY <2>1, <2>3, <2>4
<1>11. CASE ThreadTimeout(t) \/ ThreadService(t)
  <2>1. /\ threadPc[t] \in Serving
        /\ threadPc' = [threadPc EXCEPT ![t] = "proc"]
        /\ todo' = [todo EXCEPT ![t] = Tail(todo[t])] /\ UNCHANGED workList
    BY <1>11, Zenon DEF ThreadTimeout, ThreadService, Step
  <2>2. Range(Tail(todo[t])) \subseteq Range(workList[t])
    BY <1>3, <1>4, <2>1, Zenon DEF Locked
  <2> QED
    BY <2>1, <2>2, WalkMove, Zenon
<1> QED
  BY <1>5, <1>6, <1>7, <1>8, <1>9, <1>10, <1>11, Zenon DEF ThreadStep

\* Callers and hardware do not touch the walk.
LEMMA WalkDevice ==
  ASSUME WalkInv, NEW d \in Devices,
         \/ Queue(d) \/ CallStep(d) \/ Interrupted(d)
         \/ HwDescriptor(d) \/ HwError(d) \/ HwIdle(d)
  PROVE  WalkInv'
<1>1. UNCHANGED <<threadPc, todo, workList>>
  BY ZenonT(30)
  DEF CallStep, Queue, Wakeup, Woken, Interrupted, EndWait, Finish,
      HwDescriptor, HwError, HwIdle, HwUnchanged, threads
<1> QED
  BY <1>1, Zenon DEF WalkInv, Locked

\* Open and close change the list of a thread only when it holds no lock.
LEMMA WalkOpen ==
  ASSUME Types, LinkInv, WalkInv, NEW d \in Devices,
         OpenStep(d) \/ RemoveDetach(d) \/ CloseStep(d)
  PROVE  WalkInv'
<1>1. CASE UNCHANGED <<threadPc, todo, workList>>
  BY <1>1, Zenon DEF WalkInv, Locked
<1>2. CASE \A t \in Threads : threadPc'[t] \in {"top", "none"}
  BY <1>2, Zenon DEF WalkInv, Locked
<1>3. CASE AddInsert(d) \/ RemoveUnlink(d)
  <2>1. /\ ~Locked(pick[d]) /\ UNCHANGED <<threadPc, todo>>
        /\ \E q : workList' = [workList EXCEPT ![pick[d]] = q]
    BY <1>3, Zenon DEF AddInsert, RemoveUnlink
  <2>2. \A t \in Threads : Locked(t) => workList'[t] = workList[t]
    BY <2>1, Zenon DEF Types
  <2> QED
    BY <2>1, <2>2, Zenon DEF WalkInv, Locked
<1>4. CASE ListAdd(d)
  BY <1>1, <1>2, <1>4, Zenon DEF ListAdd, ThreadsCreate, threads
<1>5. CASE StopJoin(d)
  BY <1>1, <1>2, <1>5, Zenon DEF StopJoin
<1> QED
  BY <1>1, <1>3, <1>4, <1>5, ZenonT(30)
  DEF OpenStep, CloseStep, AddScan, AddAttach, RemoveDetach, ListRemove,
      StopFlag, StopRequest, threads

-----------------------------------------------------------------------------
\* What an engine, and what a thread, keeps in a step that is not about it.
SameEngine(d) ==
  /\ callPc'[d] = callPc[d] /\ hwLive'[d] = hwLive[d] /\ state'[d] = state[d]
  /\ listed'[d] = listed[d] /\ num'[d] = num[d] /\ aborted'[d] = aborted[d]
  /\ moved'[d] = moved[d] /\ hwLeft'[d] = hwLeft[d] /\ hwCount'[d] = hwCount[d]
  /\ hwBusy'[d] = hwBusy[d] /\ hwRun'[d] = hwRun[d] /\ wb'[d] = wb[d]

SameThread(t) ==
  /\ threadPc'[t] = threadPc[t] /\ todo'[t] = todo[t] /\ descWb'[t] = descWb[t]
  /\ transfer'[t] = "head" <=> transfer[t] = "head"

Serves(t, d) == threadPc[t] \in Serving /\ Head(todo[t]) = d

\* What holds of an engine still holds when the engine did not change ...
LEMMA EngineFrame ==
  ASSUME NEW d \in Devices, SameEngine(d), devPc'[d] = devPc[d],
         CallOf(d), ChainOf(d)
  PROVE  CallOf(d)' /\ ChainOf(d)'
BY ZenonT(30) DEF SameEngine, CallOf, ChainOf

\* ... and so does what holds of a thread.
LEMMA ThreadFrame ==
  ASSUME NEW t \in Threads, SameThread(t), SameEngine(Head(todo[t])), ServeOf(t)
  PROVE  ServeOf(t)'
BY ZenonT(30) DEF SameEngine, SameThread, ServeOf, Waits

\* A served engine is in the list of the thread that serves it, and so only one
\* thread does.
LEMMA ServedIsLinked ==
  ASSUME Types, LinkInv, WalkInv, NEW t \in Threads,
         threadPc[t] \in Serving
  PROVE  /\ todo[t] # <<>> /\ Head(todo[t]) \in Devices
         /\ devPc[Head(todo[t])] \in Linked /\ pick[Head(todo[t])] = t
<1>1. /\ todo[t] # <<>> /\ todo[t] \in Seq(Devices)
      /\ Range(todo[t]) \subseteq Range(workList[t])
  BY Zenon DEF WalkInv, Locked, Types
<1>2. Head(todo[t]) \in Devices /\ Head(todo[t]) \in Range(todo[t])
  BY <1>1, HeadAndTail
<1> QED
  BY <1>1, <1>2, Zenon DEF LinkInv

\* A step that changes one engine only: it remains to look at that engine and at
\* the thread that serves it.
LEMMA OneEngine ==
  ASSUME Types, LinkInv, WalkInv, TransferInv, NEW d \in Devices,
         \A e \in Devices \ {d} : SameEngine(e), UNCHANGED devPc,
         \A t \in Threads : SameThread(t),
         CallOf(d)', ChainOf(d)',
         \A t \in Threads : Serves(t, d) => ServeOf(t)'
  PROVE  TransferInv'
<1>1. ASSUME NEW e \in Devices PROVE CallOf(e)' /\ ChainOf(e)'
  <2>1. CASE e = d
    BY <2>1
  <2>2. CASE e # d
    BY <2>2, EngineFrame DEF TransferInv
  <2> QED
    BY <2>1, <2>2
<1>2. ASSUME NEW t \in Threads PROVE ServeOf(t)'
  <2>1. CASE threadPc[t] \in Serving /\ Head(todo[t]) # d
    BY <2>1, ServedIsLinked, ThreadFrame, Zenon DEF TransferInv
  <2>2. CASE threadPc[t] \notin Serving
    <3>1. threadPc'[t] \notin Serving
      BY <2>2 DEF SameThread
    <3> QED
      BY <3>1 DEF ServeOf
  <2> QED
    BY <2>1, <2>2, Zenon DEF Serves
<1> QED
  BY <1>1, <1>2, Zenon DEF TransferInv

\* A step of one thread that leaves every engine alone.
LEMMA OneThread ==
  ASSUME Types, LinkInv, WalkInv, TransferInv, NEW t \in Threads,
         UNCHANGED <<devPc, calls, hwRun, hwBusy, hwLeft, hwCount, hwLive, wb,
                     moved>>,
         \A u \in Threads \ {t} : SameThread(u),
         ServeOf(t)'
  PROVE  TransferInv'
<1>1. \A d : SameEngine(d)
  BY Zenon DEF SameEngine, calls
<1>2. ASSUME NEW d \in Devices PROVE CallOf(d)' /\ ChainOf(d)'
  BY <1>1, EngineFrame, Zenon DEF TransferInv
<1>3. ASSUME NEW u \in Threads, u # t PROVE ServeOf(u)'
  BY <1>1, <1>3, ThreadFrame, Zenon DEF TransferInv
<1> QED
  BY <1>2, <1>3 DEF TransferInv

\* What a thread does to the transfers: it reads the word of the chain it waits
\* for, and ends the transfer with the count in it.
LEMMA TransferThread ==
  ASSUME Types, LinkInv, WalkInv, TransferInv, NEW t \in Threads, ThreadStep(t)
  PROVE  TransferInv'
<1> PICK d : d = Head(todo[t])
  OBVIOUS
<1>1. ASSUME NEW to, threadPc' = [threadPc EXCEPT ![t] = to],
             NEW q, todo' = [todo EXCEPT ![t] = q],
             NEW f, transfer' = [transfer EXCEPT ![t] = f],
             NEW w, descWb' = [descWb EXCEPT ![t] = w]
      PROVE  /\ \A u \in Threads \ {t} : SameThread(u)
             /\ threadPc'[t] = to /\ todo'[t] = q /\ transfer'[t] = f
             /\ descWb'[t] = w
  BY <1>1, Zenon DEF SameThread, Types
<1>2. /\ todo = [todo EXCEPT ![t] = todo[t]]
      /\ transfer = [transfer EXCEPT ![t] = transfer[t]]
      /\ descWb = [descWb EXCEPT ![t] = descWb[t]]
  BY DEF Types
<1>3. CASE \/ ThreadTop(t) \/ ThreadPend(t) \/ ThreadSleep(t) \/ ThreadClear(t)
           \/ ThreadTimeout(t)
  <2>1. UNCHANGED <<transfer, descWb, devs, calls, hw>>
    BY <1>3, Zenon DEF ThreadTop, ThreadPend, ThreadSleep, ThreadClear,
       ThreadTimeout, locals
  <2>2. \E to \in {"dead", "pend", "sleep", "clear", "proc"} :
          threadPc' = [threadPc EXCEPT ![t] = to]
    BY <1>3, Zenon DEF ThreadTop, ThreadPend, ThreadSleep, ThreadClear,
       ThreadTimeout, Step
  <2>3. \E q : todo' = [todo EXCEPT ![t] = q]
    BY <1>2, <1>3, Zenon DEF ThreadTop, ThreadPend, ThreadSleep, ThreadClear,
       ThreadTimeout
  <2>4. /\ \A u \in Threads \ {t} : SameThread(u)
        /\ threadPc'[t] \notin Serving
    <3>1. /\ transfer' = [transfer EXCEPT ![t] = transfer[t]]
          /\ descWb' = [descWb EXCEPT ![t] = descWb[t]]
      BY <1>2, <2>1, Zenon
    <3> QED
      BY <1>1, <2>2, <2>3, <3>1, Zenon
  <2>5. ServeOf(t)'
    BY <2>4, Zenon DEF ServeOf
  <2> QED
    BY <2>1, <2>4, <2>5, OneThread, Zenon DEF devs, hw
<1>4. CASE ThreadProc(t)
  <2>1. UNCHANGED <<todo, descWb, devs, calls, hw>>
    BY <1>4, Zenon DEF ThreadProc
  <2>2. PICK to \in {"top", "first"}, f \in {"none", "queued", "head"} :
          /\ threadPc' = [threadPc EXCEPT ![t] = to]
          /\ transfer' = [transfer EXCEPT ![t] = f]
          /\ to = "first" /\ f # "head" => listed[d]
    BY <1>4, Zenon DEF ThreadProc, Step
  <2>3. /\ \A u \in Threads \ {t} : SameThread(u)
        /\ threadPc'[t] = to /\ todo'[t] = todo[t] /\ transfer'[t] = f
    <3>1. /\ todo' = [todo EXCEPT ![t] = todo[t]]
          /\ descWb' = [descWb EXCEPT ![t] = descWb[t]]
      BY <1>2, <2>1, Zenon
    <3> QED
      BY <1>1, <2>2, <3>1, Zenon
  <2>4. ServeOf(t)'
    BY <2>1, <2>2, <2>3, Zenon DEF ServeOf, Waits, calls
  <2> QED
    BY <2>1, <2>3, <2>4, OneThread, Zenon DEF devs, hw
<1>7. CASE ThreadFirst(t)
  <2>1. threadPc[t] = "first" /\ UNCHANGED <<descWb, devs, calls, hw>>
    BY <1>7, Zenon DEF ThreadFirst, Step
  <2>2. PICK to \in {"proc", "monitor"} :
          /\ threadPc' = [threadPc EXCEPT ![t] = to]
          /\ transfer' = [transfer EXCEPT ![t] = "none"]
          /\ to = "monitor" => transfer[t] # "head" /\ todo' = todo
          /\ \E q : todo' = [todo EXCEPT ![t] = q]
    BY <1>2, <1>7, Zenon DEF ThreadFirst, Threshold, Step
  <2>3. /\ \A u \in Threads \ {t} : SameThread(u)
        /\ threadPc'[t] = to
    <3>1. descWb' = [descWb EXCEPT ![t] = descWb[t]]
      BY <1>2, <2>1, Zenon
    <3> QED
      BY <1>1, <2>2, <3>1, Zenon
  <2>4. ServeOf(t)
    BY Zenon DEF TransferInv
  <2>5. ServeOf(t)'
    BY <2>1, <2>2, <2>3, <2>4, Zenon DEF ServeOf, Waits, calls
  <2> QED
    BY <2>1, <2>3, <2>5, OneThread, Zenon DEF devs, hw
<1>8. CASE ThreadMonitor(t)
  <2>1. /\ threadPc[t] = "monitor" /\ wb[d] # NoWb
        /\ threadPc' = [threadPc EXCEPT ![t] = "ack"]
        /\ descWb' = [descWb EXCEPT ![t] = wb[d]]
        /\ UNCHANGED <<todo, transfer, devs, calls, hw>>
    BY <1>8, Zenon DEF ThreadMonitor, Step
  <2>2. /\ \A u \in Threads \ {t} : SameThread(u)
        /\ threadPc'[t] = "ack" /\ todo'[t] = todo[t] /\ descWb'[t] = wb[d]
    <3>1. /\ todo' = [todo EXCEPT ![t] = todo[t]]
          /\ transfer' = [transfer EXCEPT ![t] = transfer[t]]
      BY <1>2, <2>1, Zenon
    <3> QED
      BY <1>1, <2>1, <3>1, Zenon
  <2>3. d \in Devices
    BY <2>1, ServedIsLinked, Zenon
  <2>4. ~aborted[d] => listed[d] /\ wb[d].n = hwCount[d] /\ ~hwBusy[d]
    <3>1. ChainOf(d) /\ ServeOf(t)
      BY <2>3, Zenon DEF TransferInv
    <3> QED
      BY <2>1, <3>1, Zenon DEF ChainOf
  <2>5. ServeOf(t)'
    BY <2>1, <2>2, <2>4, Zenon DEF ServeOf, calls, hw
  <2> QED
    BY <2>1, <2>2, <2>5, OneThread, Zenon DEF devs, hw
<1>5. CASE ThreadAck(t)
  <2>1. /\ threadPc[t] = "ack" /\ wb' = [wb EXCEPT ![d] = NoWb]
        /\ UNCHANGED <<todo, transfer, devs, calls, hwRun, hwBusy, hwLeft,
                       hwCount, hwLive, moved>>
    BY <1>5, Zenon DEF ThreadAck, Step
  <2>0. PICK to \in {"monitor", "service"} :
          /\ threadPc' = [threadPc EXCEPT ![t] = to]
          /\ \E w : /\ descWb' = [descWb EXCEPT ![t] = w]
                    /\ to = "service" => w = descWb[t]
    BY <1>5, ZenonT(30) DEF ThreadAck, Step
  <2>2. PICK w : /\ descWb' = [descWb EXCEPT ![t] = w]
                 /\ to = "service" => w = descWb[t]
    BY <2>0, Zenon
  <2>3. d \in Devices /\ devPc[d] \in Linked /\ pick[d] = t
    BY <2>1, ServedIsLinked, Zenon
  <2>4. /\ \A u \in Threads \ {t} : SameThread(u)
        /\ threadPc'[t] = to /\ todo'[t] = todo[t] /\ descWb'[t] = w
    <3>1. /\ todo' = [todo EXCEPT ![t] = todo[t]]
          /\ transfer' = [transfer EXCEPT ![t] = transfer[t]]
      BY <1>2, <2>1, Zenon
    <3> QED
      BY <1>1, <2>0, <2>2, <3>1, Zenon
  <2>5. /\ wb'[d] = NoWb
        /\ \A e \in Devices : e # d => wb'[e] = wb[e]
    BY <2>1, <2>3, Zenon DEF Types
  <2>6. \A e \in Devices : e # d => SameEngine(e)
    BY <2>1, <2>5, Zenon DEF SameEngine, calls
  <2>7. CallOf(d) /\ ChainOf(d) /\ ServeOf(t)
    BY <2>3, Zenon DEF TransferInv
  <2>8. CallOf(d)' /\ ChainOf(d)'
    BY <2>1, <2>5, <2>7, Zenon DEF CallOf, ChainOf, calls, devs
  <2>9. ServeOf(t)'
    <3>1. ~aborted[d] =>
            listed[d] /\ descWb[t].n = hwCount[d] /\ ~hwBusy[d]
      BY <2>1, <2>7, Zenon DEF ServeOf, Waits
    <3> QED
      BY <2>1, <2>2, <2>4, <2>5, <3>1, Zenon DEF ServeOf, calls
  <2>10. ASSUME NEW e \in Devices PROVE CallOf(e)' /\ ChainOf(e)'
    <3>1. CASE e = d
      BY <2>8, <3>1
    <3>2. CASE e # d
      BY <2>1, <2>6, <3>2, EngineFrame, Zenon DEF TransferInv, devs
    <3> QED
      BY <3>1, <3>2
  <2>11. ASSUME NEW u \in Threads, u # t PROVE ServeOf(u)'
    <3>1. CASE threadPc[u] \in Serving
      <4>1. Head(todo[u]) \in Devices /\ Head(todo[u]) # d
        BY <2>3, <2>11, <3>1, ServedIsLinked, Zenon
      <4> QED
        BY <2>4, <2>6, <2>11, <4>1, ThreadFrame, Zenon DEF TransferInv
    <3>2. CASE threadPc[u] \notin Serving
      BY <2>4, <2>11, <3>2, Zenon DEF ServeOf, SameThread
    <3> QED
      BY <3>1, <3>2
  <2> QED
    BY <2>9, <2>10, <2>11 DEF TransferInv
<1>6. CASE ThreadService(t)
  <2> PICK count : count = IF descWb[t].n = 0 THEN hwCount[d] ELSE descWb[t].n
    OBVIOUS
  <2> PICK err : err = IF descWb[t].err \/ descWb[t].n = 0 \/ ~running[d]
                       THEN hwErr[d] ELSE status[d]
    OBVIOUS
  <2> DEFINE ends == running[d] /\ count # 0 /\ listed[d]
  <2>1. /\ threadPc[t] = "service"
        /\ threadPc' = [threadPc EXCEPT ![t] = "proc"]
        /\ todo' = [todo EXCEPT ![t] = Tail(todo[t])]
        /\ descWb' = [descWb EXCEPT ![t] = NoWb]
        /\ UNCHANGED <<transfer, devs, callPc, num, aborted, hwBusy, hwLeft,
                       hwCount, hwLive, wb, moved>>
    BY <1>6, Zenon DEF ThreadService, Step
  <2>2. d \in Devices /\ devPc[d] \in Linked /\ pick[d] = t
    BY <2>1, ServedIsLinked, Zenon
  <2>3. /\ \A u \in Threads \ {t} : SameThread(u)
        /\ threadPc'[t] = "proc"
    <3>1. transfer' = [transfer EXCEPT ![t] = transfer[t]]
      BY <1>2, <2>1, Zenon
    <3> QED
      BY <1>1, <2>1, <3>1, Zenon
  <2>4. \A e \in Devices : e # d =>
          hwRun'[e] = hwRun[e] /\ listed'[e] = listed[e] /\ state'[e] = state[e]
    <3>1. \/ UNCHANGED hwRun
          \/ hwRun' = [hwRun EXCEPT ![d] = FALSE]
      BY <1>6, Zenon DEF ThreadService, EngineStop
    <3>2. \/ UNCHANGED <<listed, state>>
          \/ /\ listed' = [listed EXCEPT ![d] = FALSE]
             /\ \E x : state' = [state EXCEPT ![d] = x]
      BY <1>6, Zenon DEF ThreadService
    <3> QED
      BY <2>2, <3>1, <3>2, Zenon DEF Types
  <2>5. \A e \in Devices : e # d => SameEngine(e)
    BY <2>1, <2>4, Zenon DEF SameEngine
  <2>6. CallOf(d) /\ ChainOf(d) /\ ServeOf(t)
    BY <2>2, Zenon DEF TransferInv
  <2>7. \/ ~ends /\ listed'[d] = listed[d] /\ state'[d] = state[d]
        \/ /\ ends /\ ~listed'[d]
           /\ state'[d] = FinalState(d, count, err)
    <3>1. CASE ends
      <4>1. /\ listed' = [listed EXCEPT ![d] = FALSE]
            /\ state' = [state EXCEPT ![d] = FinalState(d, count, err)]
        BY <1>6, <3>1, Zenon DEF ThreadService
      <4> QED
        BY <2>2, <3>1, <4>1, Zenon DEF Types
    <3>2. CASE ~ends
      BY <1>6, <3>2, Zenon DEF ThreadService
    <3> QED
      BY <3>1, <3>2, Zenon
  <2>8. ~aborted[d] =>
          /\ listed[d] /\ count = hwCount[d] /\ ~hwBusy[d] /\ wb[d] = NoWb
    BY <2>1, <2>6, Zenon DEF ServeOf, Waits
  <2>9. ASSUME ~ends PROVE CallOf(d)' /\ ChainOf(d)'
    <3>1. CallOf(d)'
      BY <2>1, <2>6, <2>7, <2>9, Zenon DEF CallOf, devs
    <3>2. ChainOf(d)'
      BY <2>1, <2>6, <2>7, <2>8, <2>9, Zenon DEF ChainOf
    <3> QED
      BY <3>1, <3>2
  <2>10. ASSUME ends PROVE CallOf(d)' /\ ChainOf(d)'
    <3>1. ~listed'[d] /\ state'[d] = FinalState(d, count, err)
      BY <2>7, <2>10, Zenon
    <3>2. state'[d] \in {"COMPLETED", "FAILED"} /\ callPc[d] # "idle"
      <4>1. state[d] = "SUBMITTED"
        BY <2>6, <2>10, Zenon DEF CallOf
      <4> QED
        BY <2>6, <3>1, <4>1, Zenon DEF FinalState, CallOf
    <3>3. CallOf(d)'
      BY <2>1, <2>6, <3>1, <3>2, Zenon DEF CallOf, devs
    <3>4. ~aborted[d] /\ state'[d] = "COMPLETED" => moved[d] = num[d]
      <4>1. SUFFICES ASSUME ~aborted[d], state'[d] = "COMPLETED"
                     PROVE  moved[d] = num[d]
        BY Zenon
      <4>2. /\ moved[d] = hwCount[d] /\ moved[d] + hwLeft[d] = num[d]
            /\ count = hwCount[d]
        BY <2>6, <2>8, <3>2, <4>1, Zenon DEF CallOf, ChainOf
      <4>3. ~(count <= num[d] /\ (err \/ count < num[d]))
        BY <3>1, <4>1, Zenon DEF FinalState
      <4>4. /\ moved[d] \in Nat /\ hwLeft[d] \in Nat /\ num[d] \in Nat
        BY <2>2 DEF Types
      <4> QED
        BY <4>2, <4>3, <4>4
    <3>5. ChainOf(d)'
      BY <2>1, <2>6, <2>8, <3>1, <3>4, ZenonT(30) DEF ChainOf
    <3> QED
      BY <3>3, <3>5
  <2>11. ASSUME NEW e \in Devices PROVE CallOf(e)' /\ ChainOf(e)'
    <3>1. CASE e = d
      BY <2>9, <2>10, <3>1, Zenon
    <3>2. CASE e # d
      BY <2>1, <2>5, <3>2, EngineFrame, Zenon DEF TransferInv, devs
    <3> QED
      BY <3>1, <3>2, Zenon
  <2>12. ASSUME NEW u \in Threads, u # t PROVE ServeOf(u)'
    <3>1. CASE threadPc[u] \in Serving
      <4>1. Head(todo[u]) \in Devices /\ Head(todo[u]) # d
        BY <2>2, <2>12, <3>1, ServedIsLinked, Zenon
      <4> QED
        BY <2>3, <2>5, <2>12, <4>1, ThreadFrame, Zenon DEF TransferInv
    <3>2. CASE threadPc[u] \notin Serving
      BY <2>3, <2>12, <3>2, Zenon DEF ServeOf, SameThread
    <3> QED
      BY <3>1, <3>2
  <2>13. ServeOf(t)'
    BY <2>3, Zenon DEF ServeOf
  <2> QED
    BY <2>11, <2>12, <2>13 DEF TransferInv
<1> QED
  BY <1>3, <1>4, <1>5, <1>6, <1>7, <1>8, Zenon DEF ThreadStep

\* What callers and hardware do.
LEMMA TransferDevice ==
  ASSUME Types, LinkInv, WalkInv, TransferInv, NEW d \in Devices,
         \/ Queue(d) \/ CallStep(d) \/ Interrupted(d)
         \/ HwDescriptor(d) \/ HwError(d) \/ HwIdle(d)
  PROVE  TransferInv'
<1>a. /\ DOMAIN callPc = Devices /\ DOMAIN hwLive = Devices
      /\ DOMAIN state = Devices /\ DOMAIN listed = Devices
      /\ DOMAIN num = Devices /\ DOMAIN aborted = Devices
  BY Zenon DEF Types
<1>b. /\ DOMAIN moved = Devices /\ DOMAIN hwLeft = Devices
      /\ DOMAIN hwCount = Devices /\ DOMAIN hwBusy = Devices
      /\ DOMAIN hwRun = Devices /\ DOMAIN wb = Devices
  BY Zenon DEF Types
<1>1. UNCHANGED <<threadPc, todo, descWb, devs>>
  BY ZenonT(30)
  DEF CallStep, Queue, Wakeup, Woken, Interrupted, EndWait, Finish,
      HwDescriptor, HwError, HwIdle, HwUnchanged, threads, locals
<1>c. \A t \in Threads : transfer'[t] = "head" <=> transfer[t] = "head"
  <2>1. CASE Finish(d)
    BY <2>1, Zenon DEF Finish
  <2>2. CASE ~Finish(d)
    <3>1. UNCHANGED transfer
      BY <2>2, ZenonT(30)
      DEF CallStep, Queue, Wakeup, Woken, Interrupted, EndWait, HwDescriptor,
          HwError, HwIdle, HwUnchanged, locals
    <3> QED
      BY <3>1, Zenon
  <2> QED
    BY <2>1, <2>2, Zenon
<1>2. devPc' = devPc /\ \A t \in Threads : SameThread(t)
  BY <1>1, <1>c, Zenon DEF SameThread, devs
<1>3. CallOf(d) /\ ChainOf(d)
  BY Zenon DEF TransferInv
<1>4. \A t \in Threads : Serves(t, d) /\ Waits(t) /\ ~aborted[d] => listed[d]
  BY Zenon DEF TransferInv, ServeOf, Serves
<1>5. \A t \in Threads : Serves(t, d) /\ ~aborted[d] =>
        /\ threadPc[t] \in {"ack", "service"} =>
             listed[d] /\ descWb[t].n = hwCount[d] /\ ~hwBusy[d]
        /\ threadPc[t] = "service" => wb[d] = NoWb
  BY Zenon DEF TransferInv, ServeOf, Serves, Waits
<1>6. ASSUME \A e \in Devices \ {d} : SameEngine(e), CallOf(d)', ChainOf(d)',
             ~aborted'[d] => \A t \in Threads : Serves(t, d) =>
               /\ Waits(t) => listed'[d]
               /\ threadPc[t] \in {"ack", "service"} =>
                    descWb[t].n = hwCount'[d] /\ ~hwBusy'[d]
               /\ threadPc[t] = "service" => wb'[d] = NoWb
      PROVE  TransferInv'
  <2>1. ASSUME NEW t \in Threads, Serves(t, d) PROVE ServeOf(t)'
    BY <1>2, <1>6, <2>1, Zenon DEF ServeOf, Serves, SameThread, Waits
  <2> QED
    BY <1>2, <1>6, <2>1, OneEngine, Zenon
<1>7. \A e \in Devices \ {d} : SameEngine(e)
  <2>1. CASE Queue(d)
    <3>1. PICK n : /\ num' = [num EXCEPT ![d] = n]
                   /\ hwLeft' = [hwLeft EXCEPT ![d] = n]
      BY <2>1, Zenon DEF Queue
    <3>2. \A e \in Devices \ {d} :
            /\ callPc'[e] = callPc[e] /\ hwLive'[e] = hwLive[e]
            /\ state'[e] = state[e] /\ listed'[e] = listed[e]
            /\ num'[e] = num[e] /\ aborted'[e] = aborted[e]
      BY <1>a, <1>b, <2>1, <3>1, Zenon DEF Queue, CallStepTo
    <3>3. \A e \in Devices \ {d} :
            /\ moved'[e] = moved[e] /\ hwLeft'[e] = hwLeft[e]
            /\ hwCount'[e] = hwCount[e] /\ hwBusy'[e] = hwBusy[e]
            /\ hwRun'[e] = hwRun[e] /\ wb'[e] = wb[e]
      BY <1>a, <1>b, <2>1, <3>1, Zenon DEF Queue
    <3> QED
      BY <3>2, <3>3, Zenon DEF SameEngine
  <2>2. CASE Wakeup(d) \/ Woken(d) \/ Interrupted(d)
    BY <1>a, <1>b, <2>2, Zenon
    DEF Wakeup, Woken, Interrupted, EndWait, CallStepTo, hw, SameEngine
  <2>3. CASE Finish(d)
    <3>1. \A e \in Devices \ {d} :
            /\ callPc'[e] = callPc[e] /\ hwLive'[e] = hwLive[e]
            /\ state'[e] = state[e] /\ listed'[e] = listed[e]
            /\ num'[e] = num[e] /\ aborted'[e] = aborted[e]
      BY <1>a, <1>b, <2>3, Zenon DEF Finish, CallStepTo
    <3>2. \A e \in Devices \ {d} :
            /\ moved'[e] = moved[e] /\ hwLeft'[e] = hwLeft[e]
            /\ hwCount'[e] = hwCount[e] /\ hwBusy'[e] = hwBusy[e]
            /\ hwRun'[e] = hwRun[e] /\ wb'[e] = wb[e]
      BY <1>a, <1>b, <2>3, Zenon DEF Finish, EngineStop
    <3> QED
      BY <3>1, <3>2, Zenon DEF SameEngine
  <2>4. CASE HwDescriptor(d)
    <3>1. \A e \in Devices \ {d} :
            /\ moved'[e] = moved[e] /\ hwLeft'[e] = hwLeft[e]
            /\ hwCount'[e] = hwCount[e] /\ hwBusy'[e] = hwBusy[e]
            /\ hwRun'[e] = hwRun[e] /\ wb'[e] = wb[e]
      BY <1>a, <1>b, <2>4, Zenon DEF HwDescriptor
    <3>2. UNCHANGED <<calls, hwLive>>
      BY <2>4, Zenon DEF HwDescriptor, HwUnchanged
    <3> QED
      BY <3>1, <3>2, Zenon DEF SameEngine, calls
  <2>5. CASE HwError(d)
    BY <1>a, <1>b, <2>5, Zenon DEF HwError, HwUnchanged, calls, SameEngine
  <2>6. CASE HwIdle(d)
    BY <1>a, <1>b, <2>6, Zenon DEF HwIdle, HwUnchanged, calls, SameEngine
  <2> QED
    BY <2>1, <2>2, <2>3, <2>4, <2>5, <2>6, Zenon DEF CallStep
<1>8. CASE Queue(d)
  <2>1. PICK n \in Sizes[d] : num'[d] = n /\ hwLeft'[d] = n
    BY <1>a, <1>b, <1>8, Zenon DEF Queue
  <2>2. /\ devPc[d] = "open" /\ callPc[d] = "idle" /\ callPc'[d] = "queued"
        /\ state'[d] = "SUBMITTED" /\ listed'[d] /\ UNCHANGED <<aborted, wb>>
    BY <1>a, <1>b, <1>8, Zenon DEF Queue, CallStepTo
  <2>3. /\ moved'[d] = 0 /\ hwRun'[d] /\ hwBusy'[d] /\ hwCount'[d] = 0
        /\ hwLive'[d]
    BY <1>a, <1>b, <1>8, Zenon DEF Queue
  <2>4. n \in Nat /\ n > 0 /\ 0 + n = n /\ n <= n
    BY ThreadAssumption
  <2>5. ~listed[d]
    BY <1>3, <2>2, Zenon DEF CallOf
  <2>6. CallOf(d)'
    BY <1>2, <2>1, <2>2, <2>3, <2>4, ZenonT(30) DEF CallOf
  <2>7. ChainOf(d)'
    BY <1>3, <2>1, <2>2, <2>3, <2>4, <2>5, ZenonT(30) DEF ChainOf
  <2> QED
    BY <1>4, <1>5, <1>6, <1>7, <2>2, <2>5, <2>6, <2>7, Zenon
<1>9. CASE Wakeup(d) \/ Woken(d) \/ Interrupted(d)
  <2>1. /\ callPc[d] # "idle" /\ callPc'[d] # "idle"
        /\ UNCHANGED <<state, num, listed, aborted, hw>>
    BY <1>a, <1>b, <1>9, Zenon
    DEF Wakeup, Woken, Interrupted, EndWait, CallStepTo
  <2>2. CallOf(d)' /\ ChainOf(d)'
    BY <1>2, <1>3, <2>1, Zenon DEF CallOf, ChainOf, hw
  <2> QED
    BY <1>4, <1>5, <1>6, <1>7, <2>1, <2>2, Zenon DEF hw
<1>10. CASE Finish(d)
  <2>1. /\ callPc'[d] = "idle" /\ callPc[d] = "finish" /\ state'[d] = "NEW"
        /\ ~hwLive'[d]
        /\ UNCHANGED <<hwBusy, wb>>
    BY <1>a, <1>b, <1>10, Zenon DEF Finish, CallStepTo
  <2>2. CASE state[d] = "SUBMITTED"
    <3>1. aborted'[d] /\ ~listed'[d]
      BY <1>a, <1>b, <1>10, <2>2, Zenon DEF Finish
    <3>2. CallOf(d)' /\ ChainOf(d)'
      BY <2>1, <3>1, Zenon DEF CallOf, ChainOf
    <3> QED
      BY <1>6, <1>7, <3>1, <3>2, Zenon
  <2>3. CASE state[d] # "SUBMITTED"
    <3>1. UNCHANGED <<listed, aborted>> /\ ~listed[d]
      BY <1>3, <1>10, <2>3, Zenon DEF Finish, CallOf
    <3>2. CallOf(d)' /\ ChainOf(d)'
      BY <1>3, <2>1, <3>1, Zenon DEF CallOf, ChainOf
    <3> QED
      BY <1>4, <1>5, <1>6, <1>7, <3>1, <3>2, Zenon
  <2> QED
    BY <2>2, <2>3
<1>11. CASE HwDescriptor(d)
  <2>1. /\ hwBusy[d] /\ hwLeft[d] > 0
        /\ hwLeft'[d] = hwLeft[d] - 1 /\ hwCount'[d] = hwCount[d] + 1
        /\ moved'[d] = (IF hwLive[d] THEN moved[d] + 1 ELSE moved[d])
    BY <1>a, <1>b, <1>11, Zenon DEF HwDescriptor
  <2>2. /\ hwBusy'[d] => hwRun[d] /\ hwLeft[d] > 1
        /\ wb'[d] = IF hwLeft[d] = 1 THEN [n |-> hwCount'[d], err |-> FALSE]
                    ELSE wb[d]
        /\ UNCHANGED <<hwRun, hwLive, calls>>
    BY <1>a, <1>b, <1>11, Zenon DEF HwDescriptor, HwUnchanged
  <2>3. /\ moved[d] \in Nat /\ hwLeft[d] \in Nat /\ num[d] \in Nat
        /\ hwCount[d] \in Nat
    BY Zenon DEF Types
  <2>4. CallOf(d)'
    <3>1. ASSUME hwLive[d] PROVE moved'[d] + hwLeft'[d] <= num[d]
      <4>1. /\ moved'[d] = moved[d] + 1 /\ hwLeft'[d] = hwLeft[d] - 1
            /\ moved[d] + hwLeft[d] <= num[d]
        BY <1>3, <2>1, <3>1, Zenon DEF CallOf
      <4> QED
        BY <2>3, <4>1
    <3> QED
      BY <1>2, <1>3, <2>2, <3>1, Zenon DEF CallOf, calls
  <2>5. ASSUME ~aborted[d]
        PROVE  /\ hwRun[d] /\ listed[d] /\ wb[d] = NoWb
               /\ hwLive[d] => moved'[d] = hwCount'[d]
                               /\ moved'[d] + hwLeft'[d] = num[d]
               /\ state[d] # "COMPLETED"
    <3>1. /\ hwRun[d] /\ listed[d] /\ wb[d] = NoWb /\ state[d] # "COMPLETED"
          /\ hwLive[d] => moved[d] = hwCount[d] /\ moved[d] + hwLeft[d] = num[d]
      BY <1>3, <2>1, <2>5, Zenon DEF ChainOf, CallOf
    <3>2. ASSUME hwLive[d]
          PROVE  moved'[d] = hwCount'[d] /\ moved'[d] + hwLeft'[d] = num[d]
      <4>1. /\ moved'[d] = moved[d] + 1 /\ hwLeft'[d] = hwLeft[d] - 1
            /\ hwCount'[d] = hwCount[d] + 1 /\ moved[d] = hwCount[d]
            /\ moved[d] + hwLeft[d] = num[d]
        BY <2>1, <3>1, <3>2, Zenon
      <4> QED
        BY <2>3, <4>1
    <3> QED
      BY <3>1, <3>2, Zenon
  <2>6. ASSUME ~aborted[d]
        PROVE  /\ hwBusy'[d] => hwLeft'[d] > 0 /\ wb'[d] = NoWb
               /\ wb'[d] # NoWb => wb'[d].n = hwCount'[d]
    BY <2>1, <2>2, <2>3, <2>5, <2>6
  <2>7. ChainOf(d)'
    BY <2>2, <2>5, <2>6, Zenon DEF ChainOf, calls
  <2> QED
    BY <1>4, <1>5, <1>6, <1>7, <2>1, <2>2, <2>4, <2>7, Zenon DEF calls
<1>12. CASE HwError(d)
  <2>1. /\ hwBusy[d] /\ ~hwBusy'[d]
        /\ wb'[d] = [n |-> hwCount[d], err |-> TRUE]
        /\ UNCHANGED <<hwRun, hwLeft, hwCount, hwLive, moved, calls>>
    BY <1>a, <1>b, <1>12, Zenon DEF HwError, HwUnchanged
  <2>2. wb'[d].n = hwCount[d]
    BY <2>1
  <2>3. CallOf(d)'
    BY <1>2, <1>3, <2>1, Zenon DEF CallOf, calls
  <2>4. ChainOf(d)'
    BY <1>3, <2>1, <2>2, Zenon DEF ChainOf, calls
  <2> QED
    BY <1>4, <1>5, <1>6, <1>7, <2>1, <2>3, <2>4, Zenon DEF calls
<1>13. CASE HwIdle(d)
  <2>1. /\ hwBusy[d] /\ ~hwRun[d] /\ ~hwBusy'[d] /\ hwLeft'[d] = 0
        /\ UNCHANGED <<hwRun, hwCount, hwLive, wb, moved, calls>>
    BY <1>a, <1>b, <1>13, Zenon DEF HwIdle, HwUnchanged
  <2>2. aborted[d]
    BY <1>3, <2>1, Zenon DEF ChainOf
  <2>3. CallOf(d)'
    <3>1. moved[d] \in Nat /\ hwLeft[d] \in Nat /\ num[d] \in Nat
      BY Zenon DEF Types
    <3>2. ASSUME hwLive[d] PROVE moved[d] + 0 <= num[d]
      <4>1. moved[d] + hwLeft[d] <= num[d]
        BY <1>3, <3>2, Zenon DEF CallOf
      <4> QED
        BY <3>1, <4>1
    <3> QED
      BY <1>2, <1>3, <2>1, <3>2, Zenon DEF CallOf, calls
  <2>4. ChainOf(d)'
    BY <2>1, <2>2, Zenon DEF ChainOf, calls
  <2> QED
    BY <1>6, <1>7, <2>1, <2>2, <2>3, <2>4, Zenon DEF calls
<1> QED
  BY <1>8, <1>9, <1>10, <1>11, <1>12, <1>13, Zenon DEF CallStep

\* Opening and closing a device meets no transfer; engine_init clears the word
\* that an aborted chain left behind.
LEMMA TransferOpen ==
  ASSUME Types, LinkInv, WalkInv, TransferInv, NEW d \in Devices,
         OpenStep(d) \/ RemoveDetach(d) \/ CloseStep(d)
  PROVE  TransferInv'
<1>1. callPc[d] = "idle"
  BY Zenon
  DEF TransferInv, CallOf, OpenStep, CloseStep, ListAdd, AddScan, AddInsert,
      AddAttach, RemoveDetach, RemoveUnlink, ListRemove, StopFlag, StopRequest,
      StopJoin, DevStep
<1>2. \A e \in Devices : e # d => devPc'[e] = devPc[e]
  BY Zenon
  DEF OpenStep, CloseStep, ListAdd, AddScan, AddInsert, AddAttach, RemoveDetach,
      RemoveUnlink, ListRemove, StopFlag, StopRequest, StopJoin, DevStep, Types
<1>3. UNCHANGED <<locals, callPc, state, num, listed, hwRun, hwBusy, hwLeft,
                  hwCount, hwLive, moved>>
  BY Zenon
  DEF OpenStep, CloseStep, ListAdd, AddScan, AddInsert, AddAttach, RemoveDetach,
      RemoveUnlink, ListRemove, StopFlag, StopRequest, StopJoin, calls, hw
<1>4. \A e \in Devices : CallOf(e) => CallOf(e)'
  BY <1>1, <1>2, <1>3, Zenon DEF CallOf
<1>5. CASE AddScan(d)
  <2>1. /\ devPc[d] = "listed" /\ wb' = [wb EXCEPT ![d] = NoWb]
        /\ aborted' = [aborted EXCEPT ![d] = aborted[d] /\ hwBusy[d]]
        /\ UNCHANGED <<threadPc, todo>>
    BY <1>5, Zenon DEF AddScan, DevStep, threads
  <2>2. /\ wb'[d] = NoWb /\ aborted'[d] = (aborted[d] /\ hwBusy[d])
        /\ \A e \in Devices :
             e # d => wb'[e] = wb[e] /\ aborted'[e] = aborted[e]
    BY <2>1, Zenon DEF Types
  <2>3. \A e \in Devices : e # d => SameEngine(e)
    BY <1>3, <2>2, Zenon DEF SameEngine
  <2>4. ASSUME NEW e \in Devices PROVE ChainOf(e)'
    <3>1. CASE e # d
      BY <1>2, <2>3, <3>1, EngineFrame, Zenon DEF TransferInv
    <3>2. CASE e = d
      <4>1. ~hwLive[d] /\ state[d] = "NEW" /\ ChainOf(d)
        BY <1>1, Zenon DEF TransferInv, CallOf
      <4>2. ~aborted'[d] => ~hwBusy[d]
        <5>1. ~listed[d]
          BY <4>1, Zenon DEF TransferInv, CallOf
        <5> QED
          BY <2>2, <4>1, <5>1, Zenon DEF ChainOf
      <4> QED
        BY <1>3, <2>2, <3>2, <4>1, <4>2, Zenon DEF ChainOf
    <3> QED
      BY <3>1, <3>2
  <2>5. ASSUME NEW t \in Threads PROVE ServeOf(t)'
    <3>1. CASE threadPc[t] \in Serving
      <4>1. Head(todo[t]) \in Devices /\ Head(todo[t]) # d
        BY <2>1, <3>1, ServedIsLinked, Zenon DEF Linked
      <4>2. SameThread(t)
        BY <1>3, <2>1, Zenon DEF SameThread, locals
      <4> QED
        BY <2>3, <4>1, <4>2, ThreadFrame, Zenon DEF TransferInv
    <3>2. CASE threadPc[t] \notin Serving
      BY <2>1, <3>2, Zenon DEF ServeOf
    <3> QED
      BY <3>1, <3>2
  <2> QED
    BY <1>4, <2>4, <2>5, Zenon DEF TransferInv
<1>6. CASE ~AddScan(d)
  <2>1. UNCHANGED <<wb, aborted>>
    BY <1>6, Zenon
    DEF OpenStep, CloseStep, ListAdd, AddInsert, AddAttach, RemoveDetach,
        RemoveUnlink, ListRemove, StopFlag, StopRequest, StopJoin, calls, hw
  <2>2. \/ UNCHANGED <<threadPc, todo>>
        \/ \A t \in Threads : threadPc'[t] \in {"top", "none"}
    BY <1>6, Zenon
    DEF OpenStep, CloseStep, ListAdd, AddInsert, AddAttach, RemoveDetach,
        RemoveUnlink, ListRemove, StopFlag, StopRequest, StopJoin,
        ThreadsCreate, threads
  <2>3. \A e \in Devices : ChainOf(e) => ChainOf(e)'
    BY <1>3, <2>1, Zenon DEF ChainOf
  <2>4. \A t \in Threads : ServeOf(t) => ServeOf(t)'
    BY <1>3, <2>1, <2>2, Zenon DEF ServeOf, Waits, locals
  <2> QED
    BY <1>4, <2>3, <2>4, Zenon DEF TransferInv
<1> QED
  BY <1>5, <1>6

-----------------------------------------------------------------------------

\* Initially no device is open and no thread runs.
LEMMA ThreadInit == Init => ThreadInv
<1> SUFFICES ASSUME Init PROVE ThreadInv
  OBVIOUS
<1>1. /\ NoWb \in Words /\ <<>> \in Seq(Devices) /\ 0 \in Nat
      /\ 0 \in 0 .. ThreadNum
  BY ThreadAssumption DEF NoWb, Words
<1>2. Types
  BY <1>1, Zenon DEF Init, Types, DevPcs, States
<1>3. ListInv
  BY Zenon DEF Init, ListInv, Destroying
<1>4. LinkInv
  BY EmptyHasNone DEF Init, LinkInv, Linked, IsInjective
<1>5. WalkInv
  BY Zenon DEF Init, WalkInv, Locked
<1>6. TransferInv
  BY Zenon DEF Init, TransferInv, CallOf, ChainOf, ServeOf
<1> QED
  BY <1>2, <1>3, <1>4, <1>5, <1>6 DEF ThreadInv

\* Every step keeps the invariant.
LEMMA ThreadInvStep == ThreadInv /\ [Next]_vars => ThreadInv'
<1> SUFFICES ASSUME ThreadInv, [Next]_vars PROVE ThreadInv'
  OBVIOUS
<1> USE DEF ThreadInv
<1>1. ASSUME NEW t \in Threads, ThreadStep(t) PROVE ThreadInv'
  BY <1>1, TypesThread, ListThread, LinkThread, WalkThread, TransferThread,
     Zenon
<1>2. ASSUME NEW d \in Devices,
             \/ Queue(d) \/ CallStep(d) \/ Interrupted(d)
             \/ HwDescriptor(d) \/ HwError(d) \/ HwIdle(d)
      PROVE  ThreadInv'
  BY <1>2, TypesDevice, ListDevice, LinkDevice, WalkDevice, TransferDevice,
     Zenon
<1>3. ASSUME NEW d \in Devices, OpenStep(d) \/ RemoveDetach(d) \/ CloseStep(d)
      PROVE  ThreadInv'
  BY <1>3, TypesOpen, ListOpen, LinkOpen, WalkOpen, TransferOpen, Zenon
<1>4. CASE UNCHANGED vars
  <2> USE <1>4 DEF vars, threads, locals, list, devs, calls, engine, hw
  <2>1. Types'
    BY Zenon DEF Types
  <2>2. ListInv' /\ LinkInv' /\ WalkInv'
    BY Zenon DEF ListInv, LinkInv, WalkInv, Locked
  <2>3. TransferInv'
    BY Zenon DEF TransferInv, CallOf, ChainOf, ServeOf, Waits
  <2> QED
    BY <2>1, <2>2, <2>3
<1> QED
  BY <1>1, <1>2, <1>3, <1>4, Zenon DEF Next

\* The inductive invariant of the completion threads.
THEOREM ThreadCorrect == Spec => []ThreadInv
<1>1. ThreadInv /\ [Next]_vars => ThreadInv'
  BY ThreadInvStep
<1> QED
  BY <1>1, ThreadInit, PTL DEF Spec

\* Every field keeps its type, and a thread's loop only visits engines.
THEOREM ThreadTypes == Spec => []TypeOK
<1>1. ASSUME ThreadInv PROVE TypeOK
  <2>1. Types /\ TransferInv
    BY <1>1 DEF ThreadInv
  <2>2. ASSUME NEW q \in Seq(Devices) PROVE Range(q) \subseteq Devices
    BY DEF Range
  <2>3. \A t \in Threads :
          Range(workList[t]) \cup Range(todo[t]) \subseteq Devices
    BY <2>1, <2>2, Zenon DEF Types
  <2>4. \A d \in Devices : moved[d] + hwLeft[d] <= num[d] \/ ~hwLive[d]
    BY <2>1, Zenon DEF TransferInv, CallOf
  <2> QED
    BY <2>1, <2>3, <2>4, Zenon DEF Types, TypeOK
<1> QED
  BY <1>1, ThreadCorrect, PTL

\* xdma_kthread_wakeup never reaches a thread that has ended or was never
\* started, however many devices share however many threads.
THEOREM WakeupsReachThreads == Spec => []WakeTargetAlive
<1>1. ASSUME ThreadInv, NEW d \in Devices, cmplthp[d] # NoThread
      PROVE  /\ threadPc[cmplthp[d]] \notin {"none", "dead"}
             /\ d \in Range(workList[cmplthp[d]])
  <2>1. devPc[d] = "open" /\ cmplthp[d] = pick[d] /\ pick[d] \in Threads
    BY <1>1, Zenon DEF ThreadInv, LinkInv, Linked
  <2>2. xdevList # {}
    BY <1>1, <2>1 DEF ThreadInv, ListInv, Destroying
  <2> QED
    BY <1>1, <2>1, <2>2, Zenon DEF ThreadInv, ListInv, LinkInv, Linked
<1>2. ThreadInv => WakeTargetAlive
  BY <1>1, Zenon DEF WakeTargetAlive
<1> QED
  BY <1>2, ThreadCorrect, PTL

\* A thread that walks its list meets no engine that engine_destroy has freed:
\* xdma_thread_remove_work and the loop exclude each other by the thread's lock.
THEOREM DestroyedNeverServed == Spec => []NeverServesDestroyed
<1>1. ThreadInv => NeverServesDestroyed
  <2> SUFFICES ASSUME ThreadInv, NEW t \in Threads, Locked(t),
                      NEW d \in Range(todo[t])
               PROVE  devPc[d] \in {"added", "open", "removing"}
    BY Zenon DEF NeverServesDestroyed
  <2>1. todo[t] \in Seq(Devices) /\ d \in Range(workList[t])
    BY Zenon DEF ThreadInv, Types, WalkInv
  <2>2. d \in Devices
    BY <2>1 DEF Range
  <2> QED
    BY <2>1, <2>2, Zenon DEF ThreadInv, LinkInv, Linked
<1> QED
  BY <1>1, ThreadCorrect, PTL

\* In polled mode a transfer ends as COMPLETED only when all its descriptors
\* were moved, until a call on the engine was aborted.
THEOREM PolledTransfersAreMoved == Spec => []PolledIsMoved
<1>1. ThreadInv => PolledIsMoved
  BY Zenon DEF ThreadInv, TransferInv, ChainOf, PolledIsMoved
<1> QED
  BY <1>1, ThreadCorrect, PTL

=============================================================================
