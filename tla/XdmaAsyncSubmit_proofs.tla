----------------------- MODULE XdmaAsyncSubmit_proofs -----------------------
(***************************************************************************)
(* The inductive invariant of asynchronous requests, for every number of   *)
(* clients, every desc_max and every size of request, with and without     *)
(* hardware errors; and the proof that submission (transfer_init,          *)
(* transfer_queue) and the hardware keep it.  XdmaAsync_proofs has the     *)
(* bottom half, xdma_xfer_completion and the theorems.                     *)
(*                                                                         *)
(* The engine's array is handed out as a ring, but nothing in the code     *)
(* keeps a tail: that a slot is free follows from the order of requests.   *)
(* While it is kept, the slots from any outstanding transfer on end at     *)
(* desc_idx (OrderInv), so new ones, which start there, meet none of them. *)
(* Each slot then names its transfer (SlotInv), so that the hardware,      *)
(* started at the first transfer of the list, moves this one and stops at  *)
(* its end (MoveInv).  RequestInv and ListInv need no order: the list has  *)
(* the submitted transfers, those of a request in their order, so that the *)
(* last one is ended last.                                                 *)
(*                                                                         *)
(* Facts about sums of descriptor counts are proved by a least             *)
(* counterexample (LeastOf).                                               *)
(***************************************************************************)
EXTENDS XdmaAsync, FiniteSetTheorems, SequenceTheorems, WellFoundedInduction,
        TLAPS

\* Names of transfers.
Names == Requests \X (Nat \ {0})

Transfer ==
  [state : States, first : Slots, num : Nat \ {0}, moved : Nat,
   lastInRequest : BOOLEAN]

Types ==
  /\ pc \in [Requests -> {"idle", "init", "queue", "pending", "overflow"}]
  /\ size \in [Requests -> Nat] /\ nents \in [Requests -> Nat]
  /\ tfer \in [Requests -> Seq(Transfer)]
  /\ transferList \in Seq(Names)
  /\ running \in BOOLEAN /\ descIdx \in Slots
  /\ slots \in [Slots -> {Empty} \cup [xfer : Names, last : BOOLEAN]]
  /\ hwBusy \in BOOLEAN /\ hwIdx \in Slots /\ hwCount \in Nat
  /\ hwStat \subseteq {"DONE", "ERR"}
  /\ ioDone \in [Requests -> Nat] /\ alloc \in Seq(Names)
  /\ disorder \in BOOLEAN /\ crossed \in [Requests -> BOOLEAN]

Nums(t) == [k \in DOMAIN t |-> t[k].num]

\* Where a request stands in xdma_xfer_submit_nowait.
RequestOf(r) ==
  /\ Len(tfer[r]) <= 2
  /\ size[r] = nents[r] + Sum(Nums(tfer[r]))
  /\ pc[r] = "idle" => tfer[r] = <<>> /\ nents[r] = 0
  /\ pc[r] \in {"init", "overflow"} => nents[r] > 0
  /\ pc[r] = "overflow" => Len(tfer[r]) = 2
  /\ pc[r] = "queue" => tfer[r] # <<>>
  /\ pc[r] = "pending" => nents[r] = 0
  /\ ioDone[r] > 0 => ioDone[r] = 1 /\ pc[r] = "pending"

TransferOf(r, k) ==
  /\ tfer[r][k].first + tfer[r][k].num <= DescMax
  /\ tfer[r][k].lastInRequest <=> k = Len(tfer[r]) /\ nents[r] = 0
  /\ tfer[r][k].state = "NEW" <=> pc[r] = "queue" /\ k = Len(tfer[r])
  /\ ioDone[r] > 0 => tfer[r][k].state # "SUBMITTED"

\* A request gets its second transfer at the start of the array, unless others
\* got slots in between.
SplitOf(r) ==
  nents[r] > 0 /\ ~crossed[r] =>
    /\ Len(tfer[r]) = 1 => descIdx = 0
    /\ Len(tfer[r]) = 2 => size[r] > DescMax + 1

RequestInv ==
  \A r \in Requests :
    RequestOf(r) /\ SplitOf(r) /\ \A k \in DOMAIN tfer[r] : TransferOf(r, k)

\* The list holds the submitted transfers, those of a request in their order.
Listed(r, k) ==
  <<r, k>> \in Range(transferList) <=>
    k \in DOMAIN tfer[r] /\ tfer[r][k].state = "SUBMITTED"

ListInv ==
  /\ \A r \in Requests, k \in Nat \ {0} : Listed(r, k)
  /\ \A i, j \in DOMAIN transferList :
       i < j /\ transferList[i][1] = transferList[j][1] =>
         transferList[i][2] < transferList[j][2]

EngineInv ==
  /\ running => transferList # <<>>
  /\ hwBusy => running /\ hwStat = {}
  /\ hwStat # {} => running
  /\ "DONE" \in hwStat => hwCount > 0
  /\ slots[DescMax - 1] # Empty => slots[DescMax - 1].last

AllocNums == [i \in DOMAIN alloc |-> Xfer(alloc[i]).num]

\* The slots handed out from the j-th transfer of alloc on.
Back(j) == Sum(SubSeq(AllocNums, j, Len(alloc)))

\* They end at desc_idx.
EndsAt(j) ==
  LET end == Xfer(alloc[j]).first + Back(j)
  IN  end = descIdx \/ end = descIdx + DescMax

OrderInv ==
  /\ \A r \in Requests, k \in Nat \ {0} :
       <<r, k>> \in Range(alloc) <=> k \in DOMAIN tfer[r]
  /\ \A i, j \in DOMAIN alloc : alloc[i] = alloc[j] => i = j
  /\ Outstanding(alloc) <= DescMax
  /\ \A j \in DOMAIN alloc : EndsAt(j)

SlotOf(r, k) ==
  \A i \in SlotsOf(tfer[r][k]) :
    slots[i] = [xfer |-> <<r, k>>,
                last |-> i = tfer[r][k].first + tfer[r][k].num - 1]

SlotInv == \A r \in Requests : \A k \in DOMAIN tfer[r] : SlotOf(r, k)

\* The hardware runs the chain of the first transfer in the list.
HeadOf(t) ==
  /\ t.moved = hwCount /\ hwCount <= t.num
  /\ hwBusy => hwCount < t.num /\ hwIdx = t.first + hwCount
  /\ "DONE" \in hwStat => hwCount = t.num

MoveInv ==
  /\ \A r \in Requests : \A k \in DOMAIN tfer[r] :
       tfer[r][k].state = "COMPLETED" => tfer[r][k].moved = tfer[r][k].num
  /\ running => HeadOf(Xfer(Head(transferList)))

ChainInv == ~disorder => OrderInv /\ SlotInv /\ MoveInv

AsyncInv == Types /\ RequestInv /\ ListInv /\ EngineInv /\ ChainInv

-----------------------------------------------------------------------------
(* Sums of descriptor counts.                                              *)

\* A set of naturals that is not empty has a least element.
LEMMA LeastOf ==
  ASSUME NEW S \in SUBSET Nat, S # {}
  PROVE  \E t \in S : \A u \in S : t <= u
<1>1. PICK t \in S : \A u \in S : ~(<<u, t>> \in OpToRel(<, Nat))
  BY NatLessThanWellFounded, WFMin, Zenon
<1>2. \A u \in S : ~(u < t)
  <2> TAKE u \in S
  <2>1. <<u, t>> \in Nat \X Nat /\ <<u, t>>[1] = u /\ <<u, t>>[2] = t
    OBVIOUS
  <2>2. u < t => <<u, t>> \in OpToRel(<, Nat)
    BY <2>1, Zenon DEF OpToRel
  <2> QED
    BY <1>1, <2>2, Zenon
<1>3. \A u \in S : t <= u
  BY <1>2
<1> QED
  BY <1>3, Zenon

\* f gives the sums of the first n elements of q.
Sums(f, q, m) ==
  /\ f \in [0 .. m -> Nat] /\ f[0] = 0
  /\ \A n \in 1 .. m : f[n] = f[n - 1] + q[n]

\* There is such a function: the recursion of Sum is well defined.
LEMMA SumsExist ==
  ASSUME NEW q \in Seq(Nat), NEW m \in 0 .. Len(q)
  PROVE  \E f : Sums(f, q, m)
<1> DEFINE S == {n \in 0 .. Len(q) : ~ \E f : Sums(f, q, n)}
<1> SUFFICES ASSUME S # {}
             PROVE  FALSE
  BY Zenon
<1>1. PICK n \in S : \A u \in S : n <= u
  <2>1. S \in SUBSET Nat
    OBVIOUS
  <2> HIDE DEF S
  <2> QED
    BY <2>1, LeastOf, Zenon
<1>2. CASE n = 0
  <2>1. Sums([i \in 0 .. 0 |-> 0], q, 0)
    BY DEF Sums
  <2> QED
    BY <1>2, <2>1, Zenon
<1>3. CASE n # 0
  <2>1. n \in 1 .. Len(q) /\ n - 1 \in 0 .. Len(q) /\ ~(n <= n - 1)
    BY <1>3
  <2>2. PICK f : Sums(f, q, n - 1)
    BY <1>1, <2>1, Zenon
  <2> DEFINE g == [i \in 0 .. n |-> IF i = n THEN f[n - 1] + q[n] ELSE f[i]]
  <2>3. q[n] \in Nat /\ f \in [0 .. n - 1 -> Nat] /\ f[n - 1] \in Nat
    BY <2>1, <2>2 DEF Sums
  <2>4. g \in [0 .. n -> Nat] /\ g[0] = 0
    BY <2>1, <2>2, <2>3, SMTT(20) DEF Sums
  <2>5. ASSUME NEW i \in 1 .. n
        PROVE  g[i] = g[i - 1] + q[i]
    <3>1. i - 1 \in 0 .. n /\ i \in 0 .. n /\ i - 1 # n
      BY <2>1
    <3>2. g[i - 1] = f[i - 1]
      BY <3>1, Zenon
    <3>3. CASE i = n
      BY <3>1, <3>2, <3>3, Zenon
    <3>4. CASE i # n
      <4>1. i \in 1 .. n - 1
        BY <2>1, <3>4
      <4>2. f[i] = f[i - 1] + q[i]
        BY <2>2, <4>1, Zenon DEF Sums
      <4>3. g[i] = f[i]
        BY <3>1, <3>4, Zenon
      <4> QED
        BY <3>2, <4>2, <4>3, Zenon
    <3> QED
      BY <3>3, <3>4, Zenon
  <2>6. Sums(g, q, n)
    BY <2>4, <2>5, Zenon DEF Sums
  <2> QED
    BY <2>6, Zenon
<1> QED
  BY <1>2, <1>3, Zenon

\* Two of them agree.
LEMMA SumsUnique ==
  ASSUME NEW q \in Seq(Nat), NEW f, NEW g,
         Sums(f, q, Len(q)), Sums(g, q, Len(q))
  PROVE  f[Len(q)] = g[Len(q)]
<1> DEFINE S == {n \in 0 .. Len(q) : f[n] # g[n]}
<1> SUFFICES ASSUME S # {}
             PROVE  FALSE
  OBVIOUS
<1>1. PICK n \in S : \A u \in S : n <= u
  <2>1. S \in SUBSET Nat
    OBVIOUS
  <2> HIDE DEF S
  <2> QED
    BY <2>1, LeastOf, Zenon
<1>2. n # 0
  BY DEF Sums
<1>3. n - 1 \in 0 .. Len(q) /\ n - 1 \notin S
  BY <1>1, <1>2
<1> QED
  BY <1>2, <1>3 DEF Sums

\* Sum is the last value of that function.
LEMMA SumIs ==
  ASSUME NEW q \in Seq(Nat), NEW f, Sums(f, q, Len(q))
  PROVE  Sum(q) = f[Len(q)]
<1> DEFINE u(h) == [n \in 0 .. Len(q) |-> IF n = 0 THEN 0
                                          ELSE h[n - 1] + q[n]]
           up == CHOOSE h : h = u(h)
<1>1. f = u(f)
  BY DEF Sums
<1>2. up = u(up)
  <2> HIDE DEF u
  <2> QED
    BY <1>1, Zenon
<1>3. Sum(q) = up[Len(q)]
  BY Zenon DEF Sum
<1>4. \A n \in 0 .. Len(q) : up[n] = IF n = 0 THEN 0 ELSE up[n - 1] + q[n]
  <2> HIDE DEF up
  <2> QED
    BY <1>2, Zenon
<1> HIDE DEF up
<1> DEFINE S == {n \in 0 .. Len(q) : f[n] # up[n]}
<1>5. S = {}
  <2> SUFFICES ASSUME S # {}
               PROVE  FALSE
    OBVIOUS
  <2>1. PICK n \in S : \A i \in S : n <= i
    <3>1. S \in SUBSET Nat
      OBVIOUS
    <3> HIDE DEF S
    <3> QED
      BY <3>1, LeastOf, Zenon
  <2>2. n # 0
    BY <1>4 DEF Sums
  <2>3. n - 1 \in 0 .. Len(q) /\ n - 1 \notin S /\ n \in 1 .. Len(q)
    BY <2>1, <2>2
  <2>4. f[n - 1] = up[n - 1]
    BY <2>3
  <2>5. f[n] = f[n - 1] + q[n]
    BY <2>3 DEF Sums
  <2>6. up[n] = up[n - 1] + q[n]
    BY <1>4, <2>3
  <2> QED
    BY <2>4, <2>5, <2>6
<1> QED
  BY <1>3, <1>5

\* The total is a natural number.
LEMMA SumNat ==
  ASSUME NEW q \in Seq(Nat)
  PROVE  Sum(q) \in Nat
<1>1. Len(q) \in 0 .. Len(q)
  OBVIOUS
<1>2. PICK f : Sums(f, q, Len(q))
  BY <1>1, SumsExist, Zenon
<1>3. f[Len(q)] \in Nat
  BY <1>1, <1>2, Zenon DEF Sums
<1> QED
  BY <1>2, <1>3, SumIs, Zenon

\* No transfers, no descriptors.
LEMMA SumEmpty == Sum(<<>>) = 0
<1>1. <<>> \in Seq(Nat) /\ Len(<<>>) = 0 /\ 0 \in 0 .. 0
  OBVIOUS
<1>2. PICK f : Sums(f, <<>>, 0)
  BY <1>1, SumsExist, Zenon
<1> QED
  BY <1>1, <1>2, SumIs DEF Sums

\* A further transfer adds its descriptors to the total.
LEMMA SumAppend ==
  ASSUME NEW q \in Seq(Nat), NEW e \in Nat
  PROVE  Sum(Append(q, e)) = Sum(q) + e
<1> DEFINE p == Append(q, e)
<1>1. PICK n \in Nat : n = Len(q)
  OBVIOUS
<1>2. p \in Seq(Nat) /\ Len(p) = n + 1 /\ p[n + 1] = e
      /\ \A i \in 1 .. n : p[i] = q[i]
  BY <1>1
<1>3. n + 1 \in 0 .. n + 1 /\ n \in 0 .. n /\ n + 1 \in 1 .. n + 1 /\ n + 1 - 1 = n
  OBVIOUS
<1> HIDE DEF p
<1>4. PICK f : Sums(f, p, n + 1)
  BY <1>2, <1>3, SumsExist, Zenon
<1> DEFINE g == [i \in 0 .. n |-> f[i]]
<1>5. \A i \in 1 .. n : /\ i \in 1 .. n + 1 /\ i \in 0 .. n /\ i - 1 \in 0 .. n
  OBVIOUS
<1>6. g \in [0 .. n -> Nat] /\ g[0] = 0
  BY <1>4 DEF Sums
<1>7. \A i \in 1 .. n : g[i] = g[i - 1] + q[i]
  BY <1>2, <1>4, <1>5, Zenon DEF Sums
<1>8. Sums(g, q, n)
  BY <1>6, <1>7, Zenon DEF Sums
<1>9. Sum(q) = g[n] /\ Sum(p) = f[n + 1]
  BY <1>1, <1>2, <1>4, <1>8, SumIs, Zenon
<1>10. f[n + 1] = f[n] + p[n + 1]
  BY <1>3, <1>4 DEF Sums
<1>11. g[n] = f[n]
  BY <1>3, Zenon
<1>12. Sum(p) = Sum(q) + e
  BY <1>2, <1>3, <1>9, <1>10, <1>11, Zenon
<1> QED
  BY <1>12, Zenon DEF p

\* What the elements from some place on add up to.
SuffixSums(f, q, n) ==
  /\ Sums(f, q, n)
  /\ \A i \in 1 .. n + 1 : Sum(SubSeq(q, i, n)) = f[n] - f[i - 1]

\* The totals of all suffixes exist at once: by the least suffix length
\* without one.
LEMMA SumSuffixes ==
  ASSUME NEW q \in Seq(Nat)
  PROVE  \E f : SuffixSums(f, q, Len(q))
<1>1. PICK n \in Nat : n = Len(q)
  OBVIOUS
<1>2. PICK f : Sums(f, q, n)
  <2>1. n \in 0 .. n
    OBVIOUS
  <2> QED
    BY <1>1, <2>1, SumsExist, Zenon
<1>3. \A i \in 0 .. n : f[i] \in Nat
  BY <1>2, Zenon DEF Sums
<1>4. ASSUME NEW i \in 1 .. n + 1
      PROVE  Sum(SubSeq(q, i, n)) = f[n] - f[i - 1]
  <2> DEFINE p == SubSeq(q, i, n)
  <2>1. PICK m \in Nat : m = n + 1 - i
    OBVIOUS
  <2>2. p \in Seq(Nat) /\ Len(p) = m
        /\ \A l \in 1 .. m : p[l] = q[l + i - 1]
    BY <1>1, <2>1
  <2> HIDE DEF p
  <2> DEFINE g == [l \in 0 .. m |-> f[l + i - 1] - f[i - 1]]
  <2>3. \A l \in 0 .. m : l + i - 1 \in 0 .. n /\ f[l + i - 1] \in Nat
    <3>1. \A l \in 0 .. m : l + i - 1 \in 0 .. n
      BY <2>1
    <3> QED
      BY <1>3, <3>1, Zenon
  <2>4. f[i - 1] \in Nat
    <3>1. i - 1 \in 0 .. n
      OBVIOUS
    <3> QED
      BY <1>3, <3>1, Zenon
  <2>5. \A l \in 1 .. m : f[l + i - 1] = f[l - 1 + i - 1] + p[l] /\ p[l] \in Nat
    <3> TAKE l \in 1 .. m
    <3>1. l + i - 1 \in 1 .. n /\ l + i - 1 - 1 = l - 1 + i - 1
      BY <2>1
    <3>2. p[l] \in Nat
      BY <2>2
    <3>3. f[l + i - 1] = f[l - 1 + i - 1] + q[l + i - 1]
      BY <1>2, <3>1 DEF Sums
    <3> QED
      BY <2>2, <3>1, <3>2, <3>3, Zenon
  <2>6. PICK h : Sums(h, p, m)
    <3>1. m \in 0 .. m
      OBVIOUS
    <3> QED
      BY <2>2, <3>1, SumsExist, Zenon
  <2> DEFINE S == {l \in 0 .. m : h[l] + f[i - 1] # f[l + i - 1]}
  <2>7. ASSUME S # {}
        PROVE  FALSE
    <3>1. PICK l \in S : \A u \in S : l <= u
      <4>1. S \in SUBSET Nat
        OBVIOUS
      <4> HIDE DEF S
      <4> QED
        BY <2>7, <4>1, LeastOf, Zenon
    <3>2. l # 0
      BY <2>4, <2>6 DEF Sums
    <3>3. l \in 1 .. m /\ l - 1 \in 0 .. m /\ ~(l <= l - 1)
      BY <3>2
    <3>4. h[l - 1] + f[i - 1] = f[l - 1 + i - 1]
      BY <3>1, <3>3, Zenon
    <3>5. h[l] = h[l - 1] + p[l] /\ h[l - 1] \in Nat
      BY <2>6, <3>3, Zenon DEF Sums
    <3>6. f[l + i - 1] = f[l - 1 + i - 1] + p[l] /\ p[l] \in Nat
      BY <2>5, <3>3, Zenon
    <3>7. h[l] + f[i - 1] = f[l + i - 1]
      BY <2>4, <3>4, <3>5, <3>6
    <3> QED
      BY <3>7
  <2>8. h[m] + f[i - 1] = f[m + i - 1] /\ h[m] \in Nat
    <3>1. m \in 0 .. m
      OBVIOUS
    <3> QED
      BY <2>6, <2>7, <3>1, Zenon DEF Sums
  <2>9. m + i - 1 = n
    BY <2>1
  <2>10. Sum(p) = h[m]
    BY <2>2, <2>6, SumIs, Zenon
  <2>11. h[m] = f[n] - f[i - 1]
    <3>1. h[m] + f[i - 1] = f[n]
      BY <2>8, <2>9, Zenon
    <3> QED
      BY <2>4, <2>8, <3>1
  <2> QED
    BY <2>10, <2>11, Zenon DEF p
<1> QED
  BY <1>1, <1>2, <1>4, Zenon DEF SuffixSums

\* The sum from j on is the element there and the sum of what follows.
LEMMA SumFrom ==
  ASSUME NEW q \in Seq(Nat), NEW j \in 1 .. Len(q)
  PROVE  Sum(SubSeq(q, j, Len(q))) = q[j] + Sum(SubSeq(q, j + 1, Len(q)))
<1>1. PICK n \in Nat : n = Len(q)
  OBVIOUS
<1>2. PICK f : SuffixSums(f, q, n)
  BY <1>1, SumSuffixes, Zenon
<1>3. /\ j \in 1 .. n /\ j \in 1 .. n + 1 /\ j + 1 \in 1 .. n + 1
      /\ j - 1 \in 0 .. n /\ n \in 0 .. n /\ j + 1 - 1 = j
  BY <1>1
<1>4. f[n] \in Nat /\ f[j - 1] \in Nat /\ f[j] = f[j - 1] + q[j]
  BY <1>2, <1>3, Zenon DEF SuffixSums, Sums
<1>5. q[j] \in Nat
  OBVIOUS
<1>6. Sum(SubSeq(q, j, n)) = f[n] - f[j - 1]
  BY <1>2, <1>3, Zenon DEF SuffixSums
<1>7. Sum(SubSeq(q, j + 1, n)) = f[n] - f[j]
  BY <1>2, <1>3 DEF SuffixSums
<1>8. Sum(SubSeq(q, j, n)) = q[j] + Sum(SubSeq(q, j + 1, n))
  BY <1>4, <1>5, <1>6, <1>7
<1> QED
  BY <1>1, <1>8, Zenon

\* It is at least the element there, and no more than the sum of all.
LEMMA SumBounds ==
  ASSUME NEW q \in Seq(Nat), NEW j \in 1 .. Len(q)
  PROVE  /\ Sum(SubSeq(q, j, Len(q))) \in Nat
         /\ q[j] <= Sum(SubSeq(q, j, Len(q)))
         /\ Sum(SubSeq(q, j, Len(q))) <= Sum(q)
<1>1. PICK n \in Nat : n = Len(q)
  OBVIOUS
<1>2. PICK f : SuffixSums(f, q, n)
  BY <1>1, SumSuffixes, Zenon
<1>3. /\ j \in 1 .. n + 1 /\ j - 1 \in 0 .. n /\ n \in 0 .. n
  BY <1>1
<1>4. f[n] \in Nat /\ f[j - 1] \in Nat
  BY <1>2, <1>3, Zenon DEF SuffixSums, Sums
<1>5. Sum(SubSeq(q, j, n)) = f[n] - f[j - 1]
  BY <1>2, <1>3, Zenon DEF SuffixSums
<1>6. Sum(q) = f[n]
  BY <1>1, <1>2, SumIs, Zenon DEF SuffixSums
<1>7. SubSeq(q, j, n) \in Seq(Nat) /\ SubSeq(q, j + 1, n) \in Seq(Nat)
  BY <1>1
<1>8. Sum(SubSeq(q, j, n)) \in Nat /\ Sum(SubSeq(q, j + 1, n)) \in Nat
  BY <1>7, SumNat, Zenon
<1>9. Sum(SubSeq(q, j, n)) = q[j] + Sum(SubSeq(q, j + 1, n))
  BY <1>1, SumFrom, Zenon
<1>10. q[j] \in Nat
  OBVIOUS
<1>11. q[j] <= Sum(SubSeq(q, j, n))
  BY <1>8, <1>9, <1>10
<1>12. Sum(SubSeq(q, j, n)) <= Sum(q)
  BY <1>4, <1>5, <1>6
<1> QED
  BY <1>1, <1>8, <1>11, <1>12, Zenon

\* The first element is no more than the sum.
LEMMA SumFirst ==
  ASSUME NEW q \in Seq(Nat), Len(q) > 0
  PROVE  q[1] <= Sum(q) /\ Sum(q) \in Nat
<1>1. 1 \in 1 .. Len(q) /\ SubSeq(q, 1, Len(q)) = q
  OBVIOUS
<1> QED
  BY <1>1, SumBounds, Zenon

\* What is appended is appended to every suffix.
LEMMA SubSeqAppend ==
  ASSUME NEW S, NEW q \in Seq(S), NEW e \in S, NEW j \in 1 .. Len(q) + 1
  PROVE  SubSeq(Append(q, e), j, Len(q) + 1) = Append(SubSeq(q, j, Len(q)), e)
  OBVIOUS

-----------------------------------------------------------------------------
(* The records of the model, and changes of one transfer.                  *)

\* A transfer's name is a request and an index.
LEMMA NameFields ==
  ASSUME NEW x \in Names
  PROVE  /\ x[1] \in Requests /\ x[2] \in Nat \ {0} /\ x = <<x[1], x[2]>>
         /\ x[2] \in Nat
  BY DEF Names

\* The fields of struct xdma_transfer that the model keeps.
LEMMA TransferFields ==
  ASSUME NEW t \in Transfer
  PROVE  /\ t.state \in States /\ t.first \in Slots /\ t.num \in Nat \ {0}
         /\ t.num \in Nat /\ t.moved \in Nat /\ t.lastInRequest \in BOOLEAN
  BY DEF Transfer

\* What the proofs use of a typed sequence.
LEMMA SeqFields ==
  ASSUME NEW S, NEW q \in Seq(S)
  PROVE  /\ Len(q) \in Nat /\ DOMAIN q = 1 .. Len(q)
         /\ \A k \in DOMAIN q : q[k] \in S /\ k \in Nat \ {0} /\ k \in Nat
         /\ Range(q) \subseteq S
         /\ q # <<>> <=> Len(q) # 0
<1>1. Len(q) \in Nat /\ DOMAIN q = 1 .. Len(q) /\ (q # <<>> <=> Len(q) # 0)
      /\ \A k \in DOMAIN q : q[k] \in S /\ k \in Nat \ {0} /\ k \in Nat
  OBVIOUS
<1>2. Range(q) \subseteq S
  BY <1>1, Zenon DEF Range
<1> QED
  BY <1>1, <1>2, Zenon

\* The transfers of two states differ in nothing but their states and what was
\* moved.
Alike(t, u) ==
  \A r \in Requests :
    /\ Len(u[r]) = Len(t[r]) /\ DOMAIN u[r] = DOMAIN t[r]
    /\ \A k \in DOMAIN t[r] :
         /\ u[r][k].first = t[r][k].first /\ u[r][k].num = t[r][k].num
         /\ u[r][k].lastInRequest = t[r][k].lastInRequest

\* u is t with e for the b-th transfer of a.
With(t, u, a, b, e) == u = [t EXCEPT ![a][b] = e]

Replaced(t, u, a, b, e) ==
  /\ u \in [Requests -> Seq(Transfer)]
  /\ \A r \in Requests : Len(u[r]) = Len(t[r]) /\ DOMAIN u[r] = DOMAIN t[r]
  /\ \A r \in Requests : \A k \in DOMAIN t[r] :
       u[r][k] = IF r = a /\ k = b THEN e ELSE t[r][k]

\* Replacing one transfer of one request leaves all the others.
LEMMA SetOne ==
  ASSUME NEW t \in [Requests -> Seq(Transfer)], NEW a \in Requests,
         NEW b \in DOMAIN t[a], NEW e \in Transfer,
         NEW u, With(t, u, a, b, e)
  PROVE  Replaced(t, u, a, b, e)
<1>1. t[a] \in Seq(Transfer) /\ b \in 1 .. Len(t[a])
  OBVIOUS
<1> DEFINE v == [t[a] EXCEPT ![b] = e]
<1>2. v \in Seq(Transfer) /\ Len(v) = Len(t[a])
      /\ \A j \in 1 .. Len(t[a]) : v[j] = IF j = b THEN e ELSE t[a][j]
  BY <1>1, ExceptSeq, SMTT(20)
<1>3. u = [t EXCEPT ![a] = v]
  BY DEF With
<1>4. \A q \in Seq(Transfer) : DOMAIN q = 1 .. Len(q)
  OBVIOUS
<1> HIDE DEF v
<1>5. \A r \in Requests : u[r] = IF r = a THEN v ELSE t[r]
  BY <1>3, Zenon
<1>6. u \in [Requests -> Seq(Transfer)]
  BY <1>2, <1>3
<1>7. \A r \in Requests : Len(u[r]) = Len(t[r]) /\ DOMAIN u[r] = DOMAIN t[r]
  BY <1>2, <1>4, <1>5, Zenon
<1>8. \A r \in Requests : \A k \in DOMAIN t[r] :
        u[r][k] = IF r = a /\ k = b THEN e ELSE t[r][k]
  <2> TAKE r \in Requests
  <2> TAKE k \in DOMAIN t[r]
  <2>1. CASE r = a
    BY <1>1, <1>2, <1>4, <1>5, <2>1, Zenon
  <2>2. CASE r # a
    BY <1>5, <2>2, Zenon
  <2> QED
    BY <2>1, <2>2, Zenon
<1> QED
  BY <1>6, <1>7, <1>8, Zenon DEF Replaced

\* u is t after a transfer has got a new count, or a new state.
MovedTo(t, u, a, b, n) ==
  /\ u \in [Requests -> Seq(Transfer)] /\ Alike(t, u)
  /\ \A r \in Requests : \A k \in DOMAIN t[r] :
       /\ u[r][k].state = t[r][k].state
       /\ u[r][k].moved = IF r = a /\ k = b THEN n ELSE t[r][k].moved

StateTo(t, u, a, b, s) ==
  /\ u \in [Requests -> Seq(Transfer)] /\ Alike(t, u)
  /\ \A r \in Requests : \A k \in DOMAIN t[r] :
       /\ u[r][k].moved = t[r][k].moved
       /\ u[r][k].state = IF r = a /\ k = b THEN s ELSE t[r][k].state

\* Counting a descriptor changes nothing else of the transfers.
LEMMA SetMoved ==
  ASSUME NEW t \in [Requests -> Seq(Transfer)], NEW a \in Requests,
         NEW b \in DOMAIN t[a], NEW n \in Nat,
         NEW u, u = [t EXCEPT ![a][b].moved = n]
  PROVE  MovedTo(t, u, a, b, n)
<1> DEFINE e == [t[a][b] EXCEPT !.moved = n]
<1>1. t[a][b] \in Transfer
  OBVIOUS
<1>2. e \in Transfer /\ e.state = t[a][b].state /\ e.moved = n
      /\ e.first = t[a][b].first /\ e.num = t[a][b].num
      /\ e.lastInRequest = t[a][b].lastInRequest
  BY <1>1, Zenon DEF Transfer
<1>3. With(t, u, a, b, e)
  BY Zenon DEF With
<1> HIDE DEF e
<1>4. Replaced(t, u, a, b, e)
  <2>1. e \in Transfer
    BY <1>2, Zenon
  <2> QED
    BY <1>3, <2>1, SetOne, Zenon
<1>5. ASSUME NEW r \in Requests, NEW k \in DOMAIN t[r]
      PROVE  /\ u[r][k].first = t[r][k].first /\ u[r][k].num = t[r][k].num
             /\ u[r][k].lastInRequest = t[r][k].lastInRequest
             /\ u[r][k].state = t[r][k].state
             /\ u[r][k].moved = IF r = a /\ k = b THEN n ELSE t[r][k].moved
  <2>1. CASE r = a /\ k = b
    <3>1. u[a][b] = e
      BY <1>4, Zenon DEF Replaced
    <3> QED
      BY <1>2, <2>1, <3>1, Zenon
  <2>2. CASE ~(r = a /\ k = b)
    BY <1>4, <2>2, Zenon DEF Replaced
  <2> QED
    BY <2>1, <2>2, Zenon
<1>6. Alike(t, u)
  BY <1>4, <1>5, Zenon DEF Alike, Replaced
<1> QED
  BY <1>4, <1>5, <1>6, Zenon DEF Replaced, MovedTo

\* Setting xfer->state changes nothing else of the transfers.
LEMMA SetState ==
  ASSUME NEW t \in [Requests -> Seq(Transfer)], NEW a \in Requests,
         NEW b \in DOMAIN t[a], NEW s \in States,
         NEW u, u = [t EXCEPT ![a][b].state = s]
  PROVE  StateTo(t, u, a, b, s)
<1> DEFINE e == [t[a][b] EXCEPT !.state = s]
<1>1. t[a][b] \in Transfer
  OBVIOUS
<1>2. e \in Transfer /\ e.state = s /\ e.moved = t[a][b].moved
      /\ e.first = t[a][b].first /\ e.num = t[a][b].num
      /\ e.lastInRequest = t[a][b].lastInRequest
  BY <1>1, Zenon DEF Transfer
<1>3. With(t, u, a, b, e)
  BY Zenon DEF With
<1> HIDE DEF e
<1>4. Replaced(t, u, a, b, e)
  <2>1. e \in Transfer
    BY <1>2, Zenon
  <2> QED
    BY <1>3, <2>1, SetOne, Zenon
<1>5. ASSUME NEW r \in Requests, NEW k \in DOMAIN t[r]
      PROVE  /\ u[r][k].first = t[r][k].first /\ u[r][k].num = t[r][k].num
             /\ u[r][k].lastInRequest = t[r][k].lastInRequest
             /\ u[r][k].moved = t[r][k].moved
             /\ u[r][k].state = IF r = a /\ k = b THEN s ELSE t[r][k].state
  <2>1. CASE r = a /\ k = b
    <3>1. u[a][b] = e
      BY <1>4, Zenon DEF Replaced
    <3> QED
      BY <1>2, <2>1, <3>1, Zenon
  <2>2. CASE ~(r = a /\ k = b)
    BY <1>4, <2>2, Zenon DEF Replaced
  <2> QED
    BY <2>1, <2>2, Zenon
<1>6. Alike(t, u)
  BY <1>4, <1>5, Zenon DEF Alike, Replaced
<1> QED
  BY <1>4, <1>5, <1>6, Zenon DEF Replaced, StateTo

\* The descriptor counts of a request's transfers.
LEMMA NumsType ==
  ASSUME NEW t \in Seq(Transfer)
  PROVE  Nums(t) \in Seq(Nat) /\ Len(Nums(t)) = Len(t)
<1>1. \A k \in 1 .. Len(t) : t[k].num \in Nat
  BY TransferFields
<1>2. Len(t) \in Nat /\ DOMAIN t = 1 .. Len(t)
  OBVIOUS
<1>3. Nums(t) \in [1 .. Len(t) -> Nat]
  BY <1>1, <1>2, Zenon DEF Nums
<1> QED
  BY <1>2, <1>3

\* A request without transfers has no counts.
LEMMA NumsEmpty == Nums(<<>>) = <<>>
  BY DEF Nums

\* A new transfer adds its count at the end.
LEMMA NumsAppend ==
  ASSUME NEW t \in Seq(Transfer), NEW e \in Transfer
  PROVE  Nums(Append(t, e)) = Append(Nums(t), e.num)
<1>1. Append(t, e) \in Seq(Transfer) /\ Len(Append(t, e)) = Len(t) + 1
      /\ Append(t, e)[Len(t) + 1] = e /\ Len(t) \in Nat
      /\ \A k \in 1 .. Len(t) : Append(t, e)[k] = t[k]
  OBVIOUS
<1>2. e.num \in Nat
  BY TransferFields
<1>3. Nums(t) \in Seq(Nat) /\ Len(Nums(t)) = Len(t)
      /\ Nums(Append(t, e)) \in Seq(Nat) /\ Len(Nums(Append(t, e))) = Len(t) + 1
  BY <1>1, NumsType, Zenon
<1>4. DOMAIN t = 1 .. Len(t) /\ DOMAIN Append(t, e) = 1 .. Len(t) + 1
  OBVIOUS
<1>5. \A k \in 1 .. Len(t) : Nums(Append(t, e))[k] = t[k].num
      /\ Nums(t)[k] = t[k].num
  BY <1>1, <1>4 DEF Nums
<1>6. Nums(Append(t, e))[Len(t) + 1] = e.num
  BY <1>1, <1>4 DEF Nums
<1> QED
  BY <1>1, <1>2, <1>3, <1>5, <1>6

\* States and what was moved do not bear on the counts.
LEMMA NumsAlike ==
  ASSUME NEW t, NEW u, Alike(t, u), NEW r \in Requests
  PROVE  Nums(u[r]) = Nums(t[r])
  BY Zenon DEF Alike, Nums

-----------------------------------------------------------------------------
(* Members of the lists, the initial state, and the steps of the client.   *)

\* A transfer of a request is a transfer.
LEMMA ElementType ==
  ASSUME NEW t \in [Requests -> Seq(Transfer)], NEW r \in Requests,
         NEW k \in DOMAIN t[r]
  PROVE  t[r][k] \in Transfer
<1>1. t[r] \in Seq(Transfer)
  BY Zenon
<1> QED
  BY <1>1, SeqFields, Zenon

\* A transfer that holds slots is one of its request's.
LEMMA AllocMember ==
  ASSUME Types, OrderInv, NEW i \in DOMAIN alloc
  PROVE  /\ alloc[i] \in Names /\ alloc[i] = <<alloc[i][1], alloc[i][2]>>
         /\ alloc[i][1] \in Requests /\ alloc[i][2] \in Nat \ {0}
         /\ alloc[i][2] \in DOMAIN tfer[alloc[i][1]]
         /\ Xfer(alloc[i]) \in Transfer
<1>1. alloc \in Seq(Names) /\ tfer \in [Requests -> Seq(Transfer)]
  BY Zenon DEF Types
<1>2. alloc[i] \in Names
  BY <1>1, SeqFields, Zenon
<1>3. alloc[i][1] \in Requests /\ alloc[i][2] \in Nat \ {0}
      /\ alloc[i] = <<alloc[i][1], alloc[i][2]>>
  BY <1>2, NameFields, Zenon
<1>4. alloc[i] \in Range(alloc)
  BY Zenon DEF Range
<1>5. alloc[i][2] \in DOMAIN tfer[alloc[i][1]]
  BY <1>3, <1>4, Zenon DEF OrderInv
<1>7. tfer[alloc[i][1]][alloc[i][2]] \in Transfer
  BY <1>1, <1>3, <1>5, ElementType, Zenon
<1> QED
  BY <1>2, <1>3, <1>5, <1>7, Zenon DEF Xfer

\* A transfer on engine->transfer_list is a submitted one of its request's.
LEMMA ListMember ==
  ASSUME Types, ListInv, NEW x \in Range(transferList)
  PROVE  /\ x \in Names /\ x = <<x[1], x[2]>>
         /\ x[1] \in Requests /\ x[2] \in Nat \ {0}
         /\ x[2] \in DOMAIN tfer[x[1]]
         /\ Xfer(x) \in Transfer /\ Xfer(x).state = "SUBMITTED"
         /\ tfer[x[1]][x[2]].state = "SUBMITTED"
<1>1. transferList \in Seq(Names) /\ tfer \in [Requests -> Seq(Transfer)]
  BY Zenon DEF Types
<1>2. x \in Names
  BY <1>1, SeqFields, Zenon
<1>3. x[1] \in Requests /\ x[2] \in Nat \ {0} /\ x = <<x[1], x[2]>>
  BY <1>2, NameFields, Zenon
<1>4. x[2] \in DOMAIN tfer[x[1]] /\ tfer[x[1]][x[2]].state = "SUBMITTED"
  BY <1>3, Zenon DEF ListInv, Listed
<1>6. tfer[x[1]][x[2]] \in Transfer
  BY <1>1, <1>3, <1>4, ElementType, Zenon
<1> QED
  BY <1>2, <1>3, <1>4, <1>6, Zenon DEF Xfer

\* The first transfer of a list is on it.
LEMMA HeadMember ==
  ASSUME Types, transferList # <<>>
  PROVE  Head(transferList) \in Range(transferList)
<1>1. transferList \in Seq(Names)
  BY Zenon DEF Types
<1>2. 1 \in DOMAIN transferList /\ Head(transferList) = transferList[1]
  BY <1>1
<1> QED
  BY <1>2, Zenon DEF Range

\* Steps that hand out no slots and take none back keep their order.
LEMMA OrderKept ==
  ASSUME Types, OrderInv, Alike(tfer, tfer'), alloc' = alloc,
         descIdx' = descIdx
  PROVE  OrderInv'
<1>1. ASSUME NEW i \in DOMAIN alloc
      PROVE  Xfer(alloc[i])'.num = Xfer(alloc[i]).num
             /\ Xfer(alloc[i])'.first = Xfer(alloc[i]).first
  <2>1. alloc[i][1] \in Requests /\ alloc[i][2] \in DOMAIN tfer[alloc[i][1]]
    BY AllocMember, Zenon
  <2> QED
    BY <2>1, Zenon DEF Alike, Xfer
<1>2. AllocNums' = AllocNums
  BY <1>1, Zenon DEF AllocNums
<1>3. Outstanding(alloc)' = Outstanding(alloc)
  BY <1>1, Zenon DEF Outstanding
<1>4. \A j : Back(j)' = Back(j)
  BY <1>2, Zenon DEF Back
<1>5. \A j \in DOMAIN alloc : EndsAt(j)'
  BY <1>1, <1>4, Zenon DEF EndsAt, OrderInv
<1>6. \A r \in Requests, k \in Nat \ {0} :
        <<r, k>> \in Range(alloc') <=> k \in DOMAIN tfer'[r]
  BY Zenon DEF OrderInv, Alike
<1> QED
  BY <1>3, <1>5, <1>6, Zenon DEF OrderInv

\* Steps that leave engine->desc alone keep the chains in it.
LEMMA SlotsKept ==
  ASSUME Types, SlotInv, Alike(tfer, tfer'), slots' = slots
  PROVE  SlotInv'
<1> SUFFICES ASSUME NEW r \in Requests, NEW k \in DOMAIN tfer'[r]
             PROVE  SlotOf(r, k)'
  BY Zenon DEF SlotInv
<1>1. k \in DOMAIN tfer[r] /\ tfer'[r][k].first = tfer[r][k].first
      /\ tfer'[r][k].num = tfer[r][k].num
  BY Zenon DEF Alike
<1>2. SlotOf(r, k)
  BY <1>1, Zenon DEF SlotInv
<1> QED
  BY <1>1, <1>2, Zenon DEF SlotOf, SlotsOf

\* A request is not affected by steps that leave its fields alone.
LEMMA RequestFrame ==
  ASSUME NEW q, pc'[q] = pc[q], size'[q] = size[q], nents'[q] = nents[q],
         tfer'[q] = tfer[q], ioDone'[q] = ioDone[q]
  PROVE  /\ RequestOf(q) => RequestOf(q)'
         /\ \A k : TransferOf(q, k) => TransferOf(q, k)'
  BY Zenon DEF RequestOf, TransferOf

\* An empty req->tfer has no transfer.
LEMMA NoneIn == \A k : k \notin DOMAIN <<>>
  OBVIOUS

\* The invariant holds of an idle engine with a zeroed array.
LEMMA AsyncInitially == Init => AsyncInv
<1> SUFFICES ASSUME Init
             PROVE  AsyncInv
  OBVIOUS
<1>1. 0 \in Slots /\ DescMax - 1 \in Slots
  BY AsyncAssumption DEF Slots
<1>2. \A S : <<>> \in Seq(S)
  OBVIOUS
<1>3. Types
  BY <1>1, <1>2, ZenonT(30) DEF Init, Types, Names
<1>4. ASSUME NEW r \in Requests
      PROVE  RequestOf(r) /\ SplitOf(r) /\ \A k \in DOMAIN tfer[r] : TransferOf(r, k)
  <2>1. pc[r] = "idle" /\ size[r] = 0 /\ nents[r] = 0 /\ tfer[r] = <<>>
        /\ ioDone[r] = 0
    BY Zenon DEF Init
  <2>2. Sum(Nums(tfer[r])) = 0 /\ Len(tfer[r]) = 0
    BY <2>1, NumsEmpty, SumEmpty
  <2> QED
    BY <2>1, <2>2, NoneIn DEF RequestOf, SplitOf
<1>5. RequestInv
  BY <1>4, Zenon DEF RequestInv
<1>6. DOMAIN transferList = {} /\ Range(transferList) = {}
  BY DEF Init, Range
<1>7. \A r \in Requests : tfer[r] = <<>>
  BY Zenon DEF Init
<1>8. ListInv
  BY <1>6, <1>7, NoneIn, Zenon DEF ListInv, Listed
<1>9. EngineInv
  BY <1>1 DEF Init, EngineInv, Empty
<1>10. DOMAIN alloc = {} /\ Range(alloc) = {} /\ Outstanding(alloc) = 0
  <2>1. DOMAIN alloc = {} /\ Range(alloc) = {}
    BY DEF Init, Range
  <2>2. [i \in DOMAIN alloc |-> Xfer(alloc[i]).num] = <<>>
    BY <2>1
  <2> QED
    BY <2>1, <2>2, SumEmpty, Zenon DEF Outstanding
<1>11. OrderInv
  <2>1. 0 <= DescMax
    BY AsyncAssumption
  <2> QED
    BY <1>7, <1>10, <2>1, NoneIn, Zenon DEF OrderInv
<1>12. SlotInv /\ MoveInv
  BY <1>7, NoneIn, Zenon DEF Init, SlotInv, MoveInv
<1> QED
  BY <1>3, <1>5, <1>8, <1>9, <1>11, <1>12, Zenon DEF AsyncInv, ChainInv

\* xdma_xfer_submit_nowait accepts a request and leaves the engine alone.
LEMMA SubmitKeeps ==
  ASSUME AsyncInv, NEW r \in Requests, Submit(r)
  PROVE  AsyncInv'
<1> USE DEF AsyncInv
<1>1. PICK n \in ReqSizes : /\ size' = [size EXCEPT ![r] = n]
                            /\ nents' = [nents EXCEPT ![r] = n]
  BY Zenon DEF Submit
<1>2. n \in Nat /\ n > 0
  BY AsyncAssumption
<1>3. /\ pc[r] = "idle" /\ pc' = [pc EXCEPT ![r] = "init"]
      /\ tfer' = tfer /\ UNCHANGED <<engine, hw, hist>>
  BY Zenon DEF Submit
<1>4. Types'
  BY <1>1, <1>2, <1>3 DEF Types, engine, hw, hist
<1>5. ASSUME NEW q \in Requests
      PROVE  (RequestOf(q) /\ SplitOf(q)
              /\ \A k \in DOMAIN tfer[q] : TransferOf(q, k))'
  <2>1. RequestOf(q) /\ SplitOf(q) /\ \A k \in DOMAIN tfer[q] : TransferOf(q, k)
    BY Zenon DEF RequestInv
  <2>2. CASE q # r
    <3>1. pc'[q] = pc[q] /\ size'[q] = size[q] /\ nents'[q] = nents[q]
          /\ tfer'[q] = tfer[q] /\ ioDone'[q] = ioDone[q]
          /\ crossed'[q] = crossed[q] /\ descIdx' = descIdx
      BY <1>1, <1>3, <2>2 DEF Types, hist, engine
    <3>2. SplitOf(q)'
      BY <2>1, <3>1, Zenon DEF SplitOf
    <3> QED
      BY <2>1, <3>1, <3>2, RequestFrame, Zenon
  <2>3. CASE q = r
    <3>1. /\ pc'[q] = "init" /\ size'[q] = n /\ nents'[q] = n
          /\ tfer'[q] = <<>> /\ ioDone'[q] = ioDone[q] /\ ioDone[q] \in Nat
      BY <1>1, <1>3, <2>1, <2>3 DEF Types, hist, RequestOf
    <3>2. Sum(Nums(<<>>)) = 0 /\ Len(<<>>) = 0
      BY NumsEmpty, SumEmpty
    <3>3. ~(ioDone[q] > 0)
      BY <1>3, <2>1, <2>3 DEF RequestOf
    <3>4. RequestOf(q)'
      BY <1>2, <3>1, <3>2, <3>3 DEF RequestOf
    <3>5. SplitOf(q)'
      BY <3>1, <3>2 DEF SplitOf
    <3> QED
      BY <3>1, <3>4, <3>5, NoneIn, Zenon
  <2> QED
    BY <2>2, <2>3, Zenon
<1>6. RequestInv'
  BY <1>5, Zenon DEF RequestInv
<1>7. ListInv' /\ EngineInv'
  BY <1>3, Zenon DEF ListInv, Listed, EngineInv, engine, hw
<1>8. Alike(tfer, tfer')
  BY <1>3, Zenon DEF Alike
<1>9. OrderInv => OrderInv'
  BY <1>3, <1>8, OrderKept, Zenon DEF hist, engine
<1>10. SlotInv => SlotInv'
  BY <1>3, <1>8, SlotsKept, Zenon DEF engine
<1>11. MoveInv => MoveInv'
  BY <1>3, Zenon DEF MoveInv, HeadOf, Xfer, engine, hw
<1>12. ChainInv'
  BY <1>3, <1>9, <1>10, <1>11, Zenon DEF ChainInv, hist
<1> QED
  BY <1>4, <1>6, <1>7, <1>12, Zenon

\* The step that runs off req->tfer is where the model leaves the request.
LEMMA TferOverflowKeeps ==
  ASSUME AsyncInv, NEW r \in Requests, TferOverflow(r)
  PROVE  AsyncInv'
<1> USE DEF AsyncInv
<1>3. /\ pc[r] = "init" /\ Len(tfer[r]) = 2
      /\ pc' = [pc EXCEPT ![r] = "overflow"]
      /\ UNCHANGED <<size, nents, tfer, engine, hw, hist>>
  BY Zenon DEF TferOverflow
<1>4. Types'
  BY <1>3 DEF Types, engine, hw, hist
<1>5. ASSUME NEW q \in Requests
      PROVE  (RequestOf(q) /\ SplitOf(q)
              /\ \A k \in DOMAIN tfer[q] : TransferOf(q, k))'
  <2>1. RequestOf(q) /\ SplitOf(q) /\ \A k \in DOMAIN tfer[q] : TransferOf(q, k)
    BY Zenon DEF RequestInv
  <2>0. SplitOf(q)'
    BY <1>3, <2>1, Zenon DEF SplitOf, engine, hist
  <2>2. CASE q # r
    <3>1. pc'[q] = pc[q] /\ size'[q] = size[q] /\ nents'[q] = nents[q]
          /\ tfer'[q] = tfer[q] /\ ioDone'[q] = ioDone[q]
      BY <1>3, <2>2 DEF Types, hist
    <3> QED
      BY <2>0, <2>1, <3>1, RequestFrame, Zenon
  <2>3. CASE q = r
    <3>1. /\ pc'[q] = "overflow" /\ size'[q] = size[q] /\ nents'[q] = nents[q]
          /\ tfer'[q] = tfer[q] /\ ioDone'[q] = ioDone[q] /\ pc[q] = "init"
          /\ Len(tfer[q]) = 2
      BY <1>3, <2>3 DEF Types, hist
    <3>4. RequestOf(q)'
      BY <2>1, <3>1, Zenon DEF RequestOf
    <3>5. \A k \in DOMAIN tfer[q] : TransferOf(q, k)'
      BY <2>1, <3>1, Zenon DEF TransferOf
    <3> QED
      BY <2>0, <3>1, <3>4, <3>5, Zenon
  <2> QED
    BY <2>2, <2>3, Zenon
<1>6. RequestInv'
  BY <1>5, Zenon DEF RequestInv
<1>7. ListInv' /\ EngineInv'
  BY <1>3, Zenon DEF ListInv, Listed, EngineInv, engine, hw
<1>8. Alike(tfer, tfer')
  BY <1>3, Zenon DEF Alike
<1>9. OrderInv => OrderInv'
  BY <1>3, <1>8, OrderKept, Zenon DEF hist, engine
<1>10. SlotInv => SlotInv'
  BY <1>3, <1>8, SlotsKept, Zenon DEF engine
<1>11. MoveInv => MoveInv'
  BY <1>3, Zenon DEF MoveInv, HeadOf, Xfer, engine, hw
<1>12. ChainInv'
  BY <1>3, <1>9, <1>10, <1>11, Zenon DEF ChainInv, hist
<1> QED
  BY <1>4, <1>6, <1>7, <1>12, Zenon

-----------------------------------------------------------------------------
(* The hardware.                                                           *)

\* A request stays as it is when only what was moved changes.
LEMMA RequestAlike ==
  ASSUME Types, tfer' \in [Requests -> Seq(Transfer)], Alike(tfer, tfer'),
         NEW q \in Requests,
         \A k \in DOMAIN tfer[q] : tfer'[q][k].state = tfer[q][k].state,
         pc'[q] = pc[q], size'[q] = size[q], nents'[q] = nents[q],
         ioDone'[q] = ioDone[q], crossed'[q] = crossed[q], descIdx' = descIdx,
         RequestOf(q) /\ SplitOf(q)
         /\ \A k \in DOMAIN tfer[q] : TransferOf(q, k)
  PROVE  (RequestOf(q) /\ SplitOf(q)
          /\ \A k \in DOMAIN tfer[q] : TransferOf(q, k))'
<1>1. Len(tfer'[q]) = Len(tfer[q]) /\ DOMAIN tfer'[q] = DOMAIN tfer[q]
  BY Zenon DEF Alike
<1>2. tfer[q] \in Seq(Transfer) /\ tfer'[q] \in Seq(Transfer)
  BY Zenon DEF Types
<1>3. tfer'[q] = <<>> <=> tfer[q] = <<>>
  <2>1. \A u \in Seq(Transfer) : u = <<>> <=> Len(u) = 0
    BY SeqFields, Zenon
  <2> QED
    BY <1>1, <1>2, <2>1, Zenon
<1>4. Nums(tfer'[q]) = Nums(tfer[q])
  BY NumsAlike, Zenon
<1>5. RequestOf(q)'
  BY <1>1, <1>3, <1>4, Zenon DEF RequestOf
<1>6. SplitOf(q)'
  BY <1>1, Zenon DEF SplitOf
<1>7. ASSUME NEW k \in DOMAIN tfer[q]
      PROVE  TransferOf(q, k)'
  <2>1. /\ tfer'[q][k].first = tfer[q][k].first
        /\ tfer'[q][k].num = tfer[q][k].num
        /\ tfer'[q][k].lastInRequest = tfer[q][k].lastInRequest
        /\ tfer'[q][k].state = tfer[q][k].state
        /\ TransferOf(q, k)
    BY Zenon DEF Alike
  <2> QED
    BY <1>1, <2>1, Zenon DEF TransferOf
<1> QED
  BY <1>1, <1>5, <1>6, <1>7, Zenon

\* The engine stops with an error: no descriptor was moved, no list changed.
LEMMA HwErrorKeeps ==
  ASSUME AsyncInv, HwError
  PROVE  AsyncInv'
<1> USE DEF AsyncInv
<1>1. /\ hwBusy /\ hwBusy' = FALSE /\ hwIdx' = 0
      /\ hwStat' = hwStat \cup {"ERR"} /\ hwCount' = hwCount
      /\ UNCHANGED <<reqs, engine, hist>>
  BY Zenon DEF HwError
<1>2. 0 \in Slots
  BY AsyncAssumption DEF Slots
<1>3. Types'
  <2>1. hwStat' \subseteq {"DONE", "ERR"} /\ hwBusy' \in BOOLEAN
    BY <1>1, Zenon DEF Types
  <2> QED
    BY <1>1, <1>2, <2>1, Zenon DEF Types, reqs, engine, hist
<1>4. RequestInv' /\ ListInv'
  <2>1. UNCHANGED <<pc, size, nents, tfer, ioDone, crossed, descIdx,
                    transferList>>
    BY <1>1, Zenon DEF reqs, engine, hist
  <2>2. ASSUME NEW q \in Requests
        PROVE  (RequestOf(q) /\ SplitOf(q)
                /\ \A k \in DOMAIN tfer[q] : TransferOf(q, k))'
    <3>1. RequestOf(q) /\ SplitOf(q)
          /\ \A k \in DOMAIN tfer[q] : TransferOf(q, k)
      BY Zenon DEF RequestInv
    <3> QED
      BY <2>1, <3>1, Zenon DEF RequestOf, SplitOf, TransferOf
  <2>3. RequestInv'
    BY <2>2, Zenon DEF RequestInv
  <2> QED
    BY <2>1, <2>3, Zenon DEF ListInv, Listed
<1>5. hwStat = {} /\ running
  BY <1>1, Zenon DEF EngineInv
<1>6. hwStat' = {"ERR"} /\ "DONE" \notin hwStat'
  BY <1>1, <1>5
<1>7. EngineInv'
  BY <1>1, <1>5, <1>6, Zenon DEF EngineInv, engine
<1>8. Alike(tfer, tfer')
  BY <1>1, Zenon DEF Alike, reqs
<1>9. OrderInv => OrderInv'
  BY <1>1, <1>8, OrderKept, Zenon DEF hist, engine
<1>10. SlotInv => SlotInv'
  BY <1>1, <1>8, SlotsKept, Zenon DEF engine
<1>11. MoveInv => MoveInv'
  BY <1>1, <1>6, Zenon DEF MoveInv, HeadOf, Xfer, reqs, engine
<1>12. ChainInv'
  BY <1>1, <1>9, <1>10, <1>11, Zenon DEF ChainInv, hist
<1> QED
  BY <1>3, <1>4, <1>7, <1>12, Zenon

\* The engine moves a descriptor.  Out of disorder it is one of the first
\* transfer in the list, the next one of its chain.
LEMMA HwDescriptorKeeps ==
  ASSUME AsyncInv, HwDescriptor
  PROVE  AsyncInv'
<1> USE DEF AsyncInv
<1>0. PICK s : s = slots[hwIdx]
  OBVIOUS
<1>1. /\ hwBusy /\ s # Empty
      /\ tfer' = IF s.xfer[2] \in DOMAIN tfer[s.xfer[1]]
                 THEN [tfer EXCEPT ![s.xfer[1]][s.xfer[2]].moved =
                         IF @ < Xfer(s.xfer).num THEN @ + 1 ELSE @]
                 ELSE tfer
      /\ hwCount' = hwCount + 1
      /\ hwBusy' = ~s.last /\ hwIdx' = IF s.last THEN 0 ELSE hwIdx + 1
      /\ hwStat' = IF s.last THEN hwStat \cup {"DONE"} ELSE hwStat
      /\ UNCHANGED <<pc, size, nents, engine, hwRun, hist>>
  BY <1>0, Zenon DEF HwDescriptor
<1>2. s \in [xfer : Names, last : BOOLEAN]
  <2>1. slots \in [Slots -> {Empty} \cup [xfer : Names, last : BOOLEAN]]
        /\ hwIdx \in Slots
    BY Zenon DEF Types
  <2>2. s \in {Empty} \cup [xfer : Names, last : BOOLEAN]
    BY <1>0, <2>1, Zenon
  <2> QED
    BY <1>1, <2>2, Zenon
<1>3. s.xfer \in Names /\ s.last \in BOOLEAN
  BY <1>2
<1>4. /\ s.xfer[1] \in Requests /\ s.xfer[2] \in Nat \ {0}
      /\ s.xfer = <<s.xfer[1], s.xfer[2]>>
  BY <1>3, NameFields, Zenon
<1>5. PICK a \in Requests : a = s.xfer[1]
  BY <1>4, Zenon
<1>6. PICK b \in Nat \ {0} : b = s.xfer[2]
  BY <1>4, Zenon
<1>7. hwIdx \in 0 .. DescMax - 1 /\ hwCount \in Nat /\ DescMax \in Nat \ {0}
  BY AsyncAssumption, Zenon DEF Types, Slots
<1>8. hwIdx' \in Slots /\ hwCount' \in Nat
  <2>1. ~s.last => hwIdx # DescMax - 1
    BY <1>0, <1>1, Zenon DEF EngineInv
  <2>2. CASE s.last
    <3>1. hwIdx' = 0 /\ hwCount' = hwCount + 1
      BY <1>1, <2>2, Zenon
    <3> QED
      BY <1>7, <3>1 DEF Slots
  <2>3. CASE ~s.last
    <3>1. hwIdx' = hwIdx + 1 /\ hwCount' = hwCount + 1 /\ hwIdx # DescMax - 1
      BY <1>1, <2>1, <2>3, Zenon
    <3> QED
      BY <1>7, <3>1 DEF Slots
  <2> QED
    BY <2>2, <2>3, Zenon
<1>9. hwStat = {} /\ running
  BY <1>1, Zenon DEF EngineInv
<1>10. tfer \in [Requests -> Seq(Transfer)]
  BY Zenon DEF Types
<1>11. PICK n : n = IF tfer[a][b].moved < tfer[a][b].num
                    THEN tfer[a][b].moved + 1 ELSE tfer[a][b].moved
  OBVIOUS
<1>12. tfer' = IF b \in DOMAIN tfer[a] THEN [tfer EXCEPT ![a][b].moved = n]
               ELSE tfer
  BY <1>1, <1>5, <1>6, <1>11, Zenon DEF Xfer
<1>13. /\ tfer' \in [Requests -> Seq(Transfer)] /\ Alike(tfer, tfer')
       /\ \A r \in Requests : \A k \in DOMAIN tfer[r] :
            /\ tfer'[r][k].state = tfer[r][k].state
            /\ tfer'[r][k].moved = IF r = a /\ k = b THEN n
                                   ELSE tfer[r][k].moved
  <2>1. CASE b \in DOMAIN tfer[a]
    <3>1. tfer' = [tfer EXCEPT ![a][b].moved = n]
      BY <1>12, <2>1, Zenon
    <3>2. tfer[a][b] \in Transfer
      BY <1>10, <2>1, ElementType, Zenon
    <3>3. n \in Nat
      <4>1. tfer[a][b].moved \in Nat
        BY <3>2, TransferFields, Zenon
      <4> QED
        BY <1>11, <4>1
    <3>4. MovedTo(tfer, tfer', a, b, n)
      BY <1>10, <2>1, <3>1, <3>3, SetMoved, Zenon
    <3> QED
      BY <3>4, Zenon DEF MovedTo
  <2>2. CASE b \notin DOMAIN tfer[a]
    <3>1. tfer' = tfer
      BY <1>12, <2>2, Zenon
    <3> QED
      BY <1>10, <2>2, <3>1, Zenon DEF Alike
  <2> QED
    BY <2>1, <2>2, Zenon
<1>14. Types'
  <2>1. hwStat' \subseteq {"DONE", "ERR"} /\ hwBusy' \in BOOLEAN
    BY <1>1, <1>3, <1>9, Zenon
  <2>2. UNCHANGED <<pc, size, nents, engine, hist>>
    BY <1>1, Zenon
  <2> QED
    BY <1>8, <1>13, <2>1, <2>2, Zenon DEF Types, engine, hist
<1>15. RequestInv'
  <2> SUFFICES ASSUME NEW q \in Requests
               PROVE  (RequestOf(q) /\ SplitOf(q)
                       /\ \A k \in DOMAIN tfer[q] : TransferOf(q, k))'
    BY Zenon DEF RequestInv
  <2>1. RequestOf(q) /\ SplitOf(q) /\ \A k \in DOMAIN tfer[q] : TransferOf(q, k)
    BY Zenon DEF RequestInv
  <2>2. pc'[q] = pc[q] /\ size'[q] = size[q] /\ nents'[q] = nents[q]
        /\ ioDone'[q] = ioDone[q] /\ crossed'[q] = crossed[q]
        /\ descIdx' = descIdx
    BY <1>1, Zenon DEF engine, hist
  <2> QED
    BY <1>13, <2>1, <2>2, RequestAlike, Zenon
<1>16. transferList' = transferList /\ slots' = slots /\ running' = running
       /\ alloc' = alloc /\ descIdx' = descIdx /\ disorder' = disorder
  BY <1>1, Zenon DEF engine, hist
<1>17. ListInv'
  <2>1. \A r \in Requests, k \in Nat \ {0} : Listed(r, k)'
    <3> TAKE r \in Requests, k \in Nat \ {0}
    <3>1. DOMAIN tfer'[r] = DOMAIN tfer[r]
          /\ (k \in DOMAIN tfer[r] => tfer'[r][k].state = tfer[r][k].state)
      BY <1>13, Zenon DEF Alike
    <3>2. Listed(r, k)
      BY Zenon DEF ListInv
    <3> QED
      BY <1>16, <3>1, <3>2, Zenon DEF Listed
  <2> QED
    BY <1>16, <2>1, Zenon DEF ListInv
<1>18. EngineInv'
  <2>1. hwCount' > 0
    BY <1>1, <1>7
  <2>2. hwBusy' => hwStat' = {}
    BY <1>1, <1>9, Zenon
  <2> QED
    BY <1>9, <1>16, <2>1, <2>2, Zenon DEF EngineInv
<1>19. ASSUME SlotInv, MoveInv
       PROVE  MoveInv'
  <2>1. Head(transferList) \in Range(transferList)
    BY <1>9, HeadMember, Zenon DEF EngineInv
  <2>2. PICK x : x = Head(transferList)
    OBVIOUS
  <2>3. PICK t : t = tfer[x[1]][x[2]]
    OBVIOUS
  <2>4. /\ x[1] \in Requests /\ x[2] \in DOMAIN tfer[x[1]]
        /\ t \in Transfer /\ t.state = "SUBMITTED"
    BY <2>1, <2>2, <2>3, ListMember, Zenon DEF Xfer
  <2>5. HeadOf(t)
    BY <1>9, <1>19, <2>2, <2>3, Zenon DEF MoveInv, Xfer
  <2>6. t.first \in 0 .. DescMax - 1 /\ t.num \in Nat /\ t.moved \in Nat
    BY <2>4, TransferFields, Zenon DEF Slots
  <2>7. hwCount < t.num /\ hwIdx = t.first + hwCount /\ t.moved = hwCount
    BY <1>1, <2>5, Zenon DEF HeadOf
  <2>8. hwIdx \in SlotsOf(t)
    BY <1>7, <2>6, <2>7 DEF SlotsOf
  <2>9. s = [xfer |-> <<x[1], x[2]>>, last |-> hwIdx = t.first + t.num - 1]
    <3>1. SlotOf(x[1], x[2])
      BY <1>19, <2>4, Zenon DEF SlotInv
    <3> QED
      BY <1>0, <2>3, <2>8, <3>1, Zenon DEF SlotOf
  <2>10. s.xfer = <<x[1], x[2]>> /\ (s.last <=> hwIdx = t.first + t.num - 1)
    BY <2>9
  <2>11. a = x[1] /\ b = x[2]
    BY <1>5, <1>6, <2>10
  <2>12. n = hwCount + 1
    BY <1>11, <2>3, <2>7, <2>11, Zenon
  <2>13. s.last <=> hwCount + 1 = t.num
    BY <1>7, <2>6, <2>7, <2>10
  <2>14. \A r \in Requests : \A k \in DOMAIN tfer[r] :
           tfer'[r][k].state = "COMPLETED" => tfer'[r][k].moved = tfer'[r][k].num
    <3> SUFFICES ASSUME NEW r \in Requests, NEW k \in DOMAIN tfer[r],
                        tfer'[r][k].state = "COMPLETED"
                 PROVE  tfer'[r][k].moved = tfer'[r][k].num
      BY Zenon
    <3>1. tfer[r][k].state = "COMPLETED"
      BY <1>13, Zenon
    <3>2. ~(r = a /\ k = b)
      <4>1. "SUBMITTED" # "COMPLETED"
        OBVIOUS
      <4> QED
        BY <2>3, <2>4, <2>11, <3>1, <4>1, Zenon
    <3>3. tfer'[r][k].moved = tfer[r][k].moved
      BY <1>13, <3>2, Zenon
    <3>4. tfer'[r][k].num = tfer[r][k].num
      BY <1>13, Zenon DEF Alike
    <3> QED
      BY <1>19, <3>1, <3>3, <3>4, Zenon DEF MoveInv
  <2>15. \A r \in Requests : DOMAIN tfer'[r] = DOMAIN tfer[r]
    BY <1>13, Zenon DEF Alike
  <2>16. PICK u : u = tfer'[x[1]][x[2]]
    OBVIOUS
  <2>17. u.moved = hwCount + 1 /\ u.num = t.num /\ u.first = t.first
    <3>1. u.num = t.num /\ u.first = t.first
      BY <1>13, <2>3, <2>4, <2>16, Zenon DEF Alike
    <3>2. u.moved = n
      BY <1>13, <2>4, <2>11, <2>16, Zenon
    <3> QED
      BY <2>12, <3>1, <3>2, Zenon
  <2>18. /\ u.moved = hwCount' /\ hwCount' <= u.num
         /\ hwBusy' => hwCount' < u.num /\ hwIdx' = u.first + hwCount'
    <3>1. hwCount' = hwCount + 1 /\ (hwBusy' => hwIdx' = hwIdx + 1)
          /\ (hwBusy' => ~s.last)
      BY <1>1, Zenon
    <3> QED
      BY <1>7, <2>6, <2>7, <2>13, <2>17, <3>1
  <2>19. "DONE" \in hwStat' => hwCount' = u.num
    <3>1. "DONE" \in hwStat' => s.last
      BY <1>1, <1>9, Zenon
    <3> QED
      BY <1>1, <2>13, <2>17, <3>1, Zenon
  <2>20. HeadOf(Xfer(Head(transferList)))'
    BY <1>16, <2>2, <2>16, <2>18, <2>19, Zenon DEF HeadOf, Xfer
  <2> QED
    BY <2>14, <2>15, <2>20, Zenon DEF MoveInv
<1>20. OrderInv => OrderInv'
  BY <1>13, <1>16, OrderKept, Zenon
<1>21. SlotInv => SlotInv'
  BY <1>13, <1>16, SlotsKept, Zenon
<1>22. ChainInv'
  BY <1>16, <1>19, <1>20, <1>21, Zenon DEF ChainInv
<1> QED
  BY <1>14, <1>15, <1>17, <1>18, <1>22, Zenon

-----------------------------------------------------------------------------
(* transfer_queue.                                                         *)

Appended(p, S, q, e) ==
  /\ p \in Seq(S) /\ Len(p) = Len(q) + 1 /\ DOMAIN p = 1 .. Len(q) + 1
  /\ p[Len(q) + 1] = e /\ \A i \in 1 .. Len(q) : p[i] = q[i]
  /\ Range(p) = Range(q) \cup {e}
  /\ p # <<>> /\ Head(p) = IF q = <<>> THEN e ELSE Head(q)

\* What the proofs use of a sequence with an element appended.
LEMMA AppendFields ==
  ASSUME NEW S, NEW q \in Seq(S), NEW e \in S, NEW p, p = Append(q, e)
  PROVE  Appended(p, S, q, e)
<1>1. /\ p \in Seq(S) /\ Len(p) = Len(q) + 1 /\ DOMAIN p = 1 .. Len(q) + 1
      /\ p[Len(q) + 1] = e /\ \A i \in 1 .. Len(q) : p[i] = q[i]
  OBVIOUS
<1>2. DOMAIN q = 1 .. Len(q) /\ 1 .. Len(q) + 1 = 1 .. Len(q) \cup {Len(q) + 1}
  OBVIOUS
<1>3. p # <<>> /\ Head(p) = IF q = <<>> THEN e ELSE Head(q)
  OBVIOUS
<1>4. Range(p) = Range(q) \cup {e}
  <2>1. \A y : y \in Range(p) <=> \E i \in DOMAIN p : y = p[i]
    BY Zenon DEF Range
  <2>2. \A y : y \in Range(q) <=> \E i \in DOMAIN q : y = q[i]
    BY Zenon DEF Range
  <2> QED
    BY <1>1, <1>2, <2>1, <2>2
<1> QED
  BY <1>1, <1>3, <1>4, Zenon DEF Appended

\* Two changes of states and counts are one.
LEMMA AlikeTransitive ==
  ASSUME NEW t, NEW u, NEW v, Alike(t, u), Alike(u, v)
  PROVE  Alike(t, v)
<1> SUFFICES ASSUME NEW r \in Requests
             PROVE  /\ Len(v[r]) = Len(t[r]) /\ DOMAIN v[r] = DOMAIN t[r]
                    /\ \A k \in DOMAIN t[r] :
                         /\ v[r][k].first = t[r][k].first
                         /\ v[r][k].num = t[r][k].num
                         /\ v[r][k].lastInRequest = t[r][k].lastInRequest
  BY Zenon DEF Alike
<1>1. Len(v[r]) = Len(t[r]) /\ DOMAIN v[r] = DOMAIN t[r]
      /\ DOMAIN u[r] = DOMAIN t[r]
  BY DEF Alike
<1>2. ASSUME NEW k \in DOMAIN t[r]
      PROVE  /\ v[r][k].first = t[r][k].first /\ v[r][k].num = t[r][k].num
             /\ v[r][k].lastInRequest = t[r][k].lastInRequest
  <2>1. /\ u[r][k].first = t[r][k].first /\ u[r][k].num = t[r][k].num
        /\ u[r][k].lastInRequest = t[r][k].lastInRequest
    BY Zenon DEF Alike
  <2>2. /\ v[r][k].first = u[r][k].first /\ v[r][k].num = u[r][k].num
        /\ v[r][k].lastInRequest = u[r][k].lastInRequest
    BY <1>1, Zenon DEF Alike
  <2> QED
    BY <2>1, <2>2, Zenon
<1> QED
  BY <1>1, <1>2, Zenon

\* transfer_queue appends the transfer that was just built, and starts an idle
\* engine with the first transfer in the list.
LEMMA TransferQueueKeeps ==
  ASSUME AsyncInv, NEW r \in Requests, TransferQueue(r)
  PROVE  AsyncInv'
<1> USE DEF AsyncInv
<1>1. PICK k : k = Len(tfer[r])
  BY Zenon
<1>2. PICK h : h = Head(transferList')
  BY Zenon
<1>3. PICK queued : queued = [tfer EXCEPT ![r][k].state = "SUBMITTED"]
  BY Zenon
<1>4. /\ pc[r] = "queue"
      /\ pc' = [pc EXCEPT ![r] = IF nents[r] = 0 THEN "pending" ELSE "init"]
      /\ transferList' = Append(transferList, <<r, k>>)
      /\ IF running THEN tfer' = queued
                         /\ UNCHANGED <<running, hwRun, hwBusy, hwIdx, hwCount>>
         ELSE EngineStart(h) /\ tfer' = Restarted(queued, h)
      /\ UNCHANGED <<size, nents, descIdx, slots, hwStat, hist>>
  BY <1>1, <1>2, <1>3, Zenon DEF TransferQueue
<1>5. UNCHANGED <<ioDone, alloc, disorder, crossed>>
  BY <1>4, Zenon DEF hist
<1>6. tfer \in [Requests -> Seq(Transfer)] /\ transferList \in Seq(Names)
      /\ tfer[r] \in Seq(Transfer) /\ ioDone[r] \in Nat
  BY Zenon DEF Types
<1>7. RequestOf(r) /\ SplitOf(r) /\ \A j \in DOMAIN tfer[r] : TransferOf(r, j)
  BY Zenon DEF RequestInv
<1>8. k \in DOMAIN tfer[r] /\ k \in Nat \ {0} /\ DOMAIN tfer[r] = 1 .. k
  <2>1. tfer[r] # <<>>
    BY <1>4, <1>7, Zenon DEF RequestOf
  <2> QED
    BY <1>1, <1>6, <2>1, SeqFields
<1>9. tfer[r][k].state = "NEW"
  BY <1>1, <1>4, <1>7, <1>8, Zenon DEF TransferOf
<1>10. <<r, k>> \in Names
  BY <1>8 DEF Names
<1>11. StateTo(tfer, queued, r, k, "SUBMITTED")
  <2>1. "SUBMITTED" \in States
    BY DEF States
  <2> QED
    BY <1>3, <1>6, <1>8, <2>1, SetState, Zenon
<1>12. /\ transferList' \in Seq(Names) /\ transferList' # <<>>
       /\ Range(transferList') = Range(transferList) \cup {<<r, k>>}
       /\ Len(transferList') = Len(transferList) + 1
       /\ DOMAIN transferList' = 1 .. Len(transferList) + 1
       /\ transferList'[Len(transferList) + 1] = <<r, k>>
       /\ \A i \in 1 .. Len(transferList) : transferList'[i] = transferList[i]
       /\ h = IF transferList = <<>> THEN <<r, k>> ELSE Head(transferList)
  <2>1. Appended(transferList', Names, transferList, <<r, k>>)
    BY <1>4, <1>6, <1>10, AppendFields, Zenon
  <2> QED
    BY <1>2, <2>1, Zenon DEF Appended
<1>13. /\ h[1] \in Requests /\ h[2] \in DOMAIN tfer[h[1]]
       /\ (h[1] = r /\ h[2] = k) \/ tfer[h[1]][h[2]].state = "SUBMITTED"
  <2>1. CASE transferList = <<>>
    <3>1. h = <<r, k>>
      BY <1>12, <2>1, Zenon
    <3> QED
      BY <1>8, <3>1
  <2>2. CASE transferList # <<>>
    <3>1. h \in Range(transferList)
      BY <1>12, <2>2, HeadMember, Zenon
    <3> QED
      BY <3>1, ListMember, Zenon
  <2> QED
    BY <2>1, <2>2, Zenon
<1>14. PICK a \in Requests : a = h[1]
  BY <1>13, Zenon
<1>15. PICK b : b = h[2]
  OBVIOUS
<1>16. b \in DOMAIN tfer[a] /\ ((a = r /\ b = k) \/ tfer[a][b].state = "SUBMITTED")
  BY <1>13, <1>14, <1>15, Zenon
<1>17. ~running => MovedTo(queued, tfer', a, b, 0)
  <2> SUFFICES ASSUME ~running
               PROVE  MovedTo(queued, tfer', a, b, 0)
    BY Zenon
  <2>1. tfer' = [queued EXCEPT ![a][b].moved = 0]
    BY <1>4, <1>14, <1>15, Zenon DEF Restarted
  <2>2. queued \in [Requests -> Seq(Transfer)] /\ b \in DOMAIN queued[a]
    BY <1>11, <1>16, Zenon DEF StateTo, Alike
  <2>3. 0 \in Nat
    OBVIOUS
  <2> QED
    BY <2>1, <2>2, <2>3, SetMoved, Zenon
<1>18. /\ tfer' \in [Requests -> Seq(Transfer)] /\ Alike(tfer, tfer')
       /\ \A q \in Requests : \A j \in DOMAIN tfer[q] :
            /\ tfer'[q][j].state = IF q = r /\ j = k THEN "SUBMITTED"
                                   ELSE tfer[q][j].state
            /\ tfer'[q][j].moved = IF ~running /\ q = a /\ j = b THEN 0
                                   ELSE tfer[q][j].moved
  <2>1. CASE running
    <3>1. tfer' = queued
      BY <1>4, <2>1, Zenon
    <3> QED
      BY <1>11, <2>1, <3>1, Zenon DEF StateTo
  <2>2. CASE ~running
    <3>1. Alike(tfer, tfer')
      <4>1. Alike(tfer, queued) /\ Alike(queued, tfer')
        BY <1>11, <1>17, <2>2, Zenon DEF StateTo, MovedTo
      <4> QED
        BY <4>1, AlikeTransitive, Zenon
    <3>2. \A q \in Requests : DOMAIN queued[q] = DOMAIN tfer[q]
      BY <1>11, Zenon DEF StateTo, Alike
    <3>3. tfer' \in [Requests -> Seq(Transfer)]
      BY <1>17, <2>2, Zenon DEF MovedTo
    <3>4. ASSUME NEW q \in Requests, NEW j \in DOMAIN tfer[q]
          PROVE  /\ tfer'[q][j].state = IF q = r /\ j = k THEN "SUBMITTED"
                                        ELSE tfer[q][j].state
                 /\ tfer'[q][j].moved = IF q = a /\ j = b THEN 0
                                        ELSE tfer[q][j].moved
      <4>1. /\ queued[q][j].state = IF q = r /\ j = k THEN "SUBMITTED"
                                    ELSE tfer[q][j].state
            /\ queued[q][j].moved = tfer[q][j].moved
        BY <1>11, Zenon DEF StateTo
      <4>2. /\ tfer'[q][j].state = queued[q][j].state
            /\ tfer'[q][j].moved = IF q = a /\ j = b THEN 0
                                   ELSE queued[q][j].moved
        BY <1>17, <2>2, <3>2, Zenon DEF MovedTo
      <4> QED
        BY <4>1, <4>2, Zenon
    <3> QED
      BY <2>2, <3>1, <3>3, <3>4, Zenon
  <2> QED
    BY <2>1, <2>2, Zenon
<1>19. running' = TRUE /\ hwStat' = hwStat /\ (~running => hwStat = {})
  BY <1>4, Zenon DEF EngineStart, EngineInv
<1>20. running => UNCHANGED <<hwBusy, hwIdx, hwCount>>
  BY <1>4, Zenon
<1>21. ~running => hwBusy' = TRUE /\ hwCount' = 0 /\ hwIdx' = tfer[a][b].first
  BY <1>4, <1>14, <1>15, Zenon DEF EngineStart, Xfer
<1>22. tfer[a][b] \in Transfer
  BY <1>6, <1>16, ElementType, Zenon
<1>23. Types'
  <2>1. tfer[a][b].first \in Slots /\ 0 \in Nat
    BY <1>22, TransferFields
  <2>2. hwIdx' \in Slots /\ hwCount' \in Nat /\ hwBusy' \in BOOLEAN
    BY <1>20, <1>21, <2>1, Zenon DEF Types
  <2>3. pc' \in [Requests -> {"idle", "init", "queue", "pending", "overflow"}]
    BY <1>4 DEF Types
  <2>4. running' \in BOOLEAN /\ hwStat' \subseteq {"DONE", "ERR"}
    BY <1>19, Zenon DEF Types
  <2> QED
    BY <1>4, <1>5, <1>12, <1>18, <2>2, <2>3, <2>4, Zenon DEF Types
<1>24. RequestInv'
  <2> SUFFICES ASSUME NEW q \in Requests
               PROVE  (RequestOf(q) /\ SplitOf(q)
                       /\ \A j \in DOMAIN tfer[q] : TransferOf(q, j))'
    BY Zenon DEF RequestInv
  <2>1. RequestOf(q) /\ SplitOf(q) /\ \A j \in DOMAIN tfer[q] : TransferOf(q, j)
    BY Zenon DEF RequestInv
  <2>2. size'[q] = size[q] /\ nents'[q] = nents[q]
        /\ ioDone'[q] = ioDone[q] /\ crossed'[q] = crossed[q]
        /\ descIdx' = descIdx
    BY <1>4, <1>5, Zenon
  <2>3. CASE q # r
    <3>1. pc'[q] = pc[q]
      BY <1>4, <2>3, Zenon DEF Types
    <3>2. \A j \in DOMAIN tfer[q] : tfer'[q][j].state = tfer[q][j].state
      BY <1>18, <2>3, Zenon
    <3> QED
      BY <1>18, <2>1, <2>2, <3>1, <3>2, RequestAlike, Zenon
  <2>4. CASE q = r
    <3>1. pc'[r] = IF nents[r] = 0 THEN "pending" ELSE "init"
      BY <1>4, Zenon DEF Types
    <3>2. Len(tfer'[r]) = k /\ DOMAIN tfer'[r] = DOMAIN tfer[r]
          /\ Nums(tfer'[r]) = Nums(tfer[r])
      <4>1. Nums(tfer'[r]) = Nums(tfer[r])
        BY <1>18, NumsAlike, Zenon
      <4> QED
        BY <1>1, <1>18, <4>1, Zenon DEF Alike
    <3>3. nents[r] \in Nat
      BY Zenon DEF Types
    <3>4. ~(ioDone[r] > 0)
      <4>1. "queue" # "pending"
        OBVIOUS
      <4> QED
        BY <1>4, <1>7, <4>1, Zenon DEF RequestOf
    <3>5. RequestOf(r)'
      <4>1. Len(tfer'[r]) <= 2
            /\ size'[r] = nents'[r] + Sum(Nums(tfer'[r]))
        BY <1>1, <1>7, <2>2, <2>4, <3>2, Zenon DEF RequestOf
      <4>2. ~(ioDone'[r] > 0)
        BY <2>2, <2>4, <3>4, Zenon
      <4>3. CASE nents[r] = 0
        <5>1. pc'[r] = "pending" /\ nents'[r] = 0
          BY <2>2, <2>4, <3>1, <4>3, Zenon
        <5> QED
          BY <4>1, <4>2, <5>1 DEF RequestOf
      <4>4. CASE nents[r] # 0
        <5>1. pc'[r] = "init" /\ nents'[r] = nents[r]
          BY <2>2, <2>4, <3>1, <4>4, Zenon
        <5>2. nents'[r] > 0
          BY <3>3, <4>4, <5>1
        <5> QED
          BY <4>1, <4>2, <5>1, <5>2 DEF RequestOf
      <4> QED
        BY <4>3, <4>4, Zenon
    <3>6. SplitOf(r)'
      BY <1>1, <1>7, <2>2, <2>4, <3>2, Zenon DEF SplitOf
    <3>7. ASSUME NEW j \in DOMAIN tfer[r]
          PROVE  TransferOf(r, j)'
      <4>1. TransferOf(r, j)
        BY <1>7, Zenon
      <4>2. /\ tfer'[r][j].first = tfer[r][j].first
            /\ tfer'[r][j].num = tfer[r][j].num
            /\ tfer'[r][j].lastInRequest = tfer[r][j].lastInRequest
        BY <1>18, Zenon DEF Alike
      <4>3. tfer'[r][j].state # "NEW" /\ pc'[r] # "queue"
        <5>1. "SUBMITTED" # "NEW" /\ "pending" # "queue" /\ "init" # "queue"
          OBVIOUS
        <5>2. j # k => tfer[r][j].state # "NEW"
          BY <1>1, <4>1, Zenon DEF TransferOf
        <5> QED
          BY <1>18, <3>1, <5>1, <5>2, Zenon
      <4> QED
        BY <1>1, <2>2, <2>4, <3>2, <3>4, <4>1, <4>2, <4>3, Zenon DEF TransferOf
    <3> QED
      BY <2>4, <3>2, <3>5, <3>6, <3>7, Zenon
  <2> QED
    BY <2>3, <2>4, Zenon
<1>25. ListInv'
  <2>1. ASSUME NEW q \in Requests, NEW j \in Nat \ {0}
        PROVE  Listed(q, j)'
    <3>1. Listed(q, j)
      BY Zenon DEF ListInv
    <3>2. DOMAIN tfer'[q] = DOMAIN tfer[q]
      BY <1>18, Zenon DEF Alike
    <3>3. CASE q = r /\ j = k
      <4>1. <<q, j>> \in Range(transferList')
        BY <1>12, <3>3, Zenon
      <4>2. j \in DOMAIN tfer'[q] /\ tfer'[q][j].state = "SUBMITTED"
        BY <1>8, <1>18, <3>2, <3>3, Zenon
      <4> QED
        BY <4>1, <4>2, Zenon DEF Listed
    <3>4. CASE ~(q = r /\ j = k)
      <4>1. <<q, j>> # <<r, k>>
        BY <3>4
      <4>2. <<q, j>> \in Range(transferList') <=> <<q, j>> \in Range(transferList)
        BY <1>12, <4>1, Zenon
      <4>3. j \in DOMAIN tfer[q] => tfer'[q][j].state = tfer[q][j].state
        BY <1>18, <3>4, Zenon
      <4> QED
        BY <3>1, <3>2, <4>2, <4>3, Zenon DEF Listed
    <3> QED
      BY <3>3, <3>4, Zenon
  <2>2. ASSUME NEW i \in DOMAIN transferList', NEW j \in DOMAIN transferList',
               i < j, transferList'[i][1] = transferList'[j][1]
        PROVE  transferList'[i][2] < transferList'[j][2]
    <3>1. Len(transferList) \in Nat /\ DOMAIN transferList = 1 .. Len(transferList)
      BY <1>6
    <3>2. i \in 1 .. Len(transferList) /\ i \in DOMAIN transferList
          /\ (j \in 1 .. Len(transferList) \/ j = Len(transferList) + 1)
      BY <1>12, <2>2, <3>1
    <3>3. CASE j = Len(transferList) + 1
      <4>1. transferList'[j] = <<r, k>> /\ transferList'[i] = transferList[i]
        BY <1>12, <3>2, <3>3, Zenon
      <4>2. transferList[i] \in Range(transferList)
        BY <3>2, Zenon DEF Range
      <4>3. transferList[i][1] = r
        BY <2>2, <4>1
      <4>4. transferList[i][2] \in DOMAIN tfer[r]
            /\ tfer[r][transferList[i][2]].state = "SUBMITTED"
        BY <4>2, <4>3, ListMember, Zenon
      <4>5. transferList[i][2] # k
        BY <1>9, <4>4
      <4> QED
        BY <1>8, <4>1, <4>4, <4>5
    <3>4. CASE j \in 1 .. Len(transferList)
      <4>1. transferList'[j] = transferList[j] /\ transferList'[i] = transferList[i]
        BY <1>12, <3>2, <3>4, Zenon
      <4>2. \A m, n \in DOMAIN transferList :
              m < n /\ transferList[m][1] = transferList[n][1] =>
                transferList[m][2] < transferList[n][2]
        BY Zenon DEF ListInv
      <4> QED
        BY <2>2, <3>1, <3>2, <3>4, <4>1, <4>2, Zenon
    <3> QED
      BY <3>2, <3>3, <3>4, Zenon
  <2> QED
    BY <2>1, <2>2, Zenon DEF ListInv
<1>26. EngineInv'
  <2>1. "DONE" \in hwStat' => hwCount' > 0
    <3>1. "DONE" \in hwStat' => running /\ "DONE" \in hwStat
      BY <1>19
    <3> QED
      BY <1>20, <3>1, Zenon DEF EngineInv
  <2>2. hwBusy' => hwStat' = {}
    BY <1>19, <1>20, Zenon DEF EngineInv
  <2>3. slots' = slots
    BY <1>4, Zenon
  <2> QED
    BY <1>12, <1>19, <2>1, <2>2, <2>3, Zenon DEF EngineInv
<1>27. ASSUME MoveInv
       PROVE  MoveInv'
  <2>1. ASSUME NEW q \in Requests, NEW j \in DOMAIN tfer[q],
               tfer'[q][j].state = "COMPLETED"
        PROVE  tfer'[q][j].moved = tfer'[q][j].num
    <3>0. "SUBMITTED" # "COMPLETED"
      OBVIOUS
    <3>1. tfer[q][j].state = "COMPLETED" /\ ~(q = r /\ j = k)
      BY <1>18, <2>1, <3>0, Zenon
    <3>2. ~(q = a /\ j = b)
      BY <1>16, <3>0, <3>1, Zenon
    <3>3. tfer'[q][j].moved = tfer[q][j].moved
      BY <1>18, <3>2, Zenon
    <3>4. tfer'[q][j].num = tfer[q][j].num
      BY <1>18, Zenon DEF Alike
    <3> QED
      BY <1>27, <3>1, <3>3, <3>4, Zenon DEF MoveInv
  <2>2. \A q \in Requests : DOMAIN tfer'[q] = DOMAIN tfer[q]
    BY <1>18, Zenon DEF Alike
  <2>3. PICK t : t = tfer[a][b]
    OBVIOUS
  <2>4. PICK u : u = tfer'[a][b]
    OBVIOUS
  <2>5. u = Xfer(Head(transferList))'
    BY <1>2, <1>14, <1>15, <2>4, Zenon DEF Xfer
  <2>6. u.num = t.num /\ u.first = t.first
        /\ u.moved = IF ~running THEN 0 ELSE t.moved
    BY <1>16, <1>18, <2>3, <2>4, Zenon DEF Alike
  <2>7. CASE running
    <3>1. transferList # <<>>
      BY <2>7, Zenon DEF EngineInv
    <3>2. h = Head(transferList)
      BY <1>12, <3>1, Zenon
    <3>3. HeadOf(t)
      BY <1>14, <1>15, <1>27, <2>3, <2>7, <3>2, Zenon DEF MoveInv, Xfer
    <3>4. /\ hwCount' = hwCount /\ hwBusy' = hwBusy /\ hwIdx' = hwIdx
          /\ hwStat' = hwStat /\ u.moved = t.moved
      BY <1>19, <1>20, <2>6, <2>7, Zenon
    <3>5. HeadOf(Xfer(Head(transferList)))'
      BY <2>5, <2>6, <3>3, <3>4, Zenon DEF HeadOf
    <3> QED
      BY <2>1, <2>2, <3>5, Zenon DEF MoveInv
  <2>8. CASE ~running
    <3>1. t.num \in Nat \ {0} /\ t.first \in Slots
      BY <1>22, <2>3, TransferFields, Zenon
    <3>2. 0 <= t.num /\ 0 < t.num /\ t.first + 0 = t.first
      BY <3>1 DEF Slots
    <3>3. hwCount' = 0 /\ u.moved = 0 /\ hwIdx' = t.first /\ "DONE" \notin hwStat'
      BY <1>19, <1>21, <2>3, <2>6, <2>8, Zenon
    <3>4. /\ u.moved = hwCount' /\ hwCount' <= u.num
          /\ hwBusy' => hwCount' < u.num /\ hwIdx' = u.first + hwCount'
          /\ "DONE" \in hwStat' => hwCount' = u.num
      BY <2>6, <3>2, <3>3, Zenon
    <3>5. HeadOf(Xfer(Head(transferList)))'
      BY <2>5, <3>4, Zenon DEF HeadOf
    <3> QED
      BY <2>1, <2>2, <3>5, Zenon DEF MoveInv
  <2> QED
    BY <2>7, <2>8, Zenon
<1>28. OrderInv => OrderInv'
  BY <1>4, <1>5, <1>18, OrderKept, Zenon
<1>29. SlotInv => SlotInv'
  BY <1>4, <1>18, SlotsKept, Zenon
<1>30. ChainInv'
  BY <1>5, <1>27, <1>28, <1>29, Zenon DEF ChainInv
<1> QED
  BY <1>23, <1>24, <1>25, <1>26, <1>30, Zenon

-----------------------------------------------------------------------------
(* transfer_init.                                                          *)

\* The counts of the transfers that hold slots.
LEMMA AllocNumsType ==
  ASSUME Types, OrderInv
  PROVE  /\ AllocNums \in Seq(Nat) /\ Len(AllocNums) = Len(alloc)
         /\ Outstanding(alloc) = Sum(AllocNums)
         /\ \A j \in DOMAIN alloc :
              AllocNums[j] = Xfer(alloc[j]).num /\ AllocNums[j] \in Nat \ {0}
<1>1. alloc \in Seq(Names)
  BY Zenon DEF Types
<1>2. \A j \in DOMAIN alloc : Xfer(alloc[j]).num \in Nat \ {0}
                              /\ Xfer(alloc[j]).num \in Nat
  BY AllocMember, TransferFields, Zenon
<1>3. DOMAIN alloc = 1 .. Len(alloc) /\ Len(alloc) \in Nat
  BY <1>1
<1>4. AllocNums \in [1 .. Len(alloc) -> Nat]
  BY <1>2, <1>3, Zenon DEF AllocNums
<1>5. AllocNums \in Seq(Nat) /\ Len(AllocNums) = Len(alloc)
  BY <1>3, <1>4
<1> QED
  BY <1>2, <1>5, Zenon DEF AllocNums, Outstanding

\* The slots from a transfer on are at least its own, and at most all.
LEMMA BackBounds ==
  ASSUME Types, OrderInv, NEW j \in DOMAIN alloc
  PROVE  /\ Back(j) \in Nat /\ Xfer(alloc[j]).num <= Back(j)
         /\ Back(j) <= Outstanding(alloc) /\ Outstanding(alloc) \in Nat
<1>1. /\ AllocNums \in Seq(Nat) /\ Len(AllocNums) = Len(alloc)
      /\ Outstanding(alloc) = Sum(AllocNums)
      /\ AllocNums[j] = Xfer(alloc[j]).num
  BY AllocNumsType, Zenon
<1>2. j \in 1 .. Len(alloc)
  <2>1. alloc \in Seq(Names)
    BY Zenon DEF Types
  <2> QED
    BY <2>1
<1>3. Sum(AllocNums) \in Nat
  BY <1>1, SumNat, Zenon
<1>4. j \in 1 .. Len(AllocNums)
  BY <1>1, <1>2, Zenon
<1>5. /\ Sum(SubSeq(AllocNums, j, Len(AllocNums))) \in Nat
      /\ AllocNums[j] <= Sum(SubSeq(AllocNums, j, Len(AllocNums)))
      /\ Sum(SubSeq(AllocNums, j, Len(AllocNums))) <= Sum(AllocNums)
  BY <1>1, <1>4, SumBounds, Zenon
<1> QED
  BY <1>1, <1>3, <1>5, Zenon DEF Back

\* The slots of an outstanding transfer are not among the next k, as long as
\* there are k left.
LEMMA NewSlotsFree ==
  ASSUME Types, OrderInv, NEW j \in DOMAIN alloc, NEW k \in Nat \ {0},
         Outstanding(alloc) + k <= DescMax, descIdx + k <= DescMax,
         NEW i \in SlotsOf(Xfer(alloc[j]))
  PROVE  i \notin descIdx .. descIdx + k - 1
<1>1. PICK t : t = Xfer(alloc[j])
  BY Zenon
<1>2. PICK back : back = Back(j)
  BY Zenon
<1>3. PICK all : all = Outstanding(alloc)
  BY Zenon
<1>4. t \in Transfer
  BY <1>1, AllocMember, Zenon
<1>5. t.first \in 0 .. DescMax - 1 /\ t.num \in Nat \ {0}
  BY <1>4, TransferFields, Zenon DEF Slots
<1>6. back \in Nat /\ t.num <= back /\ back <= all /\ all \in Nat
  BY <1>1, <1>2, <1>3, BackBounds, Zenon
<1>7. t.first + back = descIdx \/ t.first + back = descIdx + DescMax
  <2>1. EndsAt(j)
    BY Zenon DEF OrderInv
  <2> QED
    BY <1>1, <1>2, <2>1, Zenon DEF EndsAt
<1>8. i \in t.first .. t.first + t.num - 1
  BY <1>1, Zenon DEF SlotsOf
<1>9. descIdx \in 0 .. DescMax - 1 /\ DescMax \in Nat \ {0}
  BY AsyncAssumption, Zenon DEF Types, Slots
<1> QED
  BY <1>3, <1>5, <1>6, <1>7, <1>8, <1>9

\* transfer_init takes at least one descriptor, never past the end of the
\* array, and less than what is wanted only up to that end.
LEMMA ChunkFields ==
  ASSUME Types, NEW n \in Nat, n > 0, NEW k, k = Chunk(n)
  PROVE  /\ k \in Nat \ {0} /\ k \in Nat /\ k <= n /\ descIdx + k <= DescMax
         /\ k < n => descIdx + k = DescMax
         /\ descIdx = 0 /\ k < n => k = DescMax
<1>1. descIdx \in 0 .. DescMax - 1 /\ DescMax \in Nat \ {0}
  BY AsyncAssumption, Zenon DEF Types, Slots
<1> QED
  BY <1>1 DEF Chunk

\* desc_idx wraps at desc_max, and only there.
LEMMA IdxWraps ==
  ASSUME NEW e \in 0 .. DescMax
  PROVE  e % DescMax = IF e = DescMax THEN 0 ELSE e
<1>1. DescMax \in Nat \ {0}
  BY AsyncAssumption
<1>2. CASE e = DescMax
  BY <1>1, <1>2
<1>3. CASE e # DescMax
  BY <1>1, <1>3
<1> QED
  BY <1>2, <1>3, Zenon

\* The end mark of a descriptor.
LEMMA LastOf ==
  ASSUME NEW x, NEW b, NEW s, s = [xfer |-> x, last |-> b]
  PROVE  s.last = b
  OBVIOUS

\* transfer_init takes slots from desc_idx on.  Out of disorder no outstanding
\* transfer has one of them, and the slots from each transfer on still end at
\* desc_idx; a request that is cut goes on at the start of the array.
LEMMA TransferInitKeeps ==
  ASSUME AsyncInv, NEW r \in Requests, TransferInit(r)
  PROVE  AsyncInv'
<1> USE DEF AsyncInv
<1>1. PICK k : k = Chunk(nents[r])
  BY Zenon
<1>2. PICK m : m = Len(tfer[r])
  BY Zenon
<1>3. PICK t : t = [state |-> "NEW", first |-> descIdx, num |-> k, moved |-> 0,
                    lastInRequest |-> LastInRequest(r, k)]
  BY Zenon
<1>4. /\ pc[r] = "init" /\ m < 2
      /\ pc' = [pc EXCEPT ![r] = "queue"]
      /\ nents' = [nents EXCEPT ![r] = nents[r] - k]
      /\ tfer' = [tfer EXCEPT ![r] = Append(tfer[r], t)]
      /\ slots' = [i \in Slots |-> IF i \in SlotsOf(t)
           THEN [xfer |-> <<r, m + 1>>, last |-> i = t.first + k - 1]
           ELSE slots[i]]
      /\ descIdx' = (descIdx + k) % DescMax
      /\ alloc' = Append(alloc, <<r, m + 1>>)
      /\ disorder' = (disorder \/ Outstanding(alloc) + k > DescMax)
      /\ crossed' = [q \in Requests |->
           crossed[q] \/ (q # r /\ tfer[q] # <<>> /\ nents[q] > 0)]
      /\ UNCHANGED <<size, transferList, running, hw, ioDone>>
  BY <1>1, <1>2, <1>3, Zenon DEF TransferInit
<1>5. UNCHANGED <<hwBusy, hwIdx, hwCount, hwStat>>
  BY <1>4, Zenon DEF hw
<1>6. /\ tfer \in [Requests -> Seq(Transfer)] /\ tfer[r] \in Seq(Transfer)
      /\ nents \in [Requests -> Nat] /\ nents[r] \in Nat /\ alloc \in Seq(Names)
      /\ size[r] \in Nat /\ ioDone[r] \in Nat
      /\ slots \in [Slots -> {Empty} \cup [xfer : Names, last : BOOLEAN]]
  BY Zenon DEF Types
<1>7. RequestOf(r) /\ SplitOf(r) /\ \A j \in DOMAIN tfer[r] : TransferOf(r, j)
  BY Zenon DEF RequestInv
<1>8. nents[r] > 0
  BY <1>4, <1>7, Zenon DEF RequestOf
<1>9. descIdx \in 0 .. DescMax - 1 /\ DescMax \in Nat \ {0} /\ descIdx \in Slots
  BY AsyncAssumption, Zenon DEF Types, Slots
<1>10. /\ k \in Nat \ {0} /\ k \in Nat /\ k <= nents[r]
       /\ descIdx + k <= DescMax
       /\ k < nents[r] => descIdx + k = DescMax
       /\ descIdx = 0 /\ k < nents[r] => k = DescMax
  BY <1>1, <1>6, <1>8, ChunkFields, Zenon
<1>11. m \in Nat /\ DOMAIN tfer[r] = 1 .. m /\ m + 1 \notin DOMAIN tfer[r]
       /\ m + 1 \in Nat \ {0}
  BY <1>2, <1>6
<1>12. /\ t.state = "NEW" /\ t.first = descIdx /\ t.num = k /\ t.moved = 0
       /\ (t.lastInRequest <=> nents[r] = k) /\ t \in Transfer
  <2>1. "NEW" \in States /\ 0 \in Nat
    BY DEF States
  <2> QED
    BY <1>3, <1>9, <1>10, <2>1, Zenon DEF Transfer, LastInRequest
<1>13. descIdx' = IF descIdx + k = DescMax THEN 0 ELSE descIdx + k
  <2>1. descIdx + k \in 0 .. DescMax
    BY <1>9, <1>10
  <2> QED
    BY <1>4, <2>1, IdxWraps, Zenon
<1>14. Appended(tfer'[r], Transfer, tfer[r], t)
  <2>1. tfer'[r] = Append(tfer[r], t)
    BY <1>4, <1>6, Zenon
  <2> QED
    BY <1>6, <1>12, <2>1, AppendFields, Zenon
<1>15. /\ tfer'[r] \in Seq(Transfer) /\ Len(tfer'[r]) = m + 1
       /\ DOMAIN tfer'[r] = 1 .. m + 1 /\ tfer'[r][m + 1] = t
       /\ tfer'[r] # <<>> /\ \A j \in DOMAIN tfer[r] : tfer'[r][j] = tfer[r][j]
  BY <1>2, <1>11, <1>14, Zenon DEF Appended
<1>16. \A q \in Requests : q # r => tfer'[q] = tfer[q]
  BY <1>4, <1>6, Zenon
<1>17. \A q \in Requests : \A j \in DOMAIN tfer[q] :
         j \in DOMAIN tfer'[q] /\ tfer'[q][j] = tfer[q][j]
  <2>1. \A j \in 1 .. m : j \in 1 .. m + 1
    BY <1>11
  <2> QED
    BY <1>11, <1>15, <1>16, <2>1, Zenon
<1>18. \A q \in Requests : \A j \in DOMAIN tfer'[q] :
         j \in DOMAIN tfer[q] \/ (q = r /\ j = m + 1)
  <2>1. \A j \in 1 .. m + 1 : j \in 1 .. m \/ j = m + 1
    BY <1>11
  <2> QED
    BY <1>11, <1>15, <1>16, <2>1, Zenon
<1>19. <<r, m + 1>> \in Names
  BY <1>11 DEF Names
<1>20. Appended(alloc', Names, alloc, <<r, m + 1>>)
  BY <1>4, <1>6, <1>19, AppendFields, Zenon
<1>21. Types'
  <2>1. tfer' \in [Requests -> Seq(Transfer)]
    BY <1>4, <1>6, <1>15, Zenon
  <2>2. nents' \in [Requests -> Nat]
    <3>1. nents[r] - k \in Nat
      BY <1>6, <1>10
    <3> QED
      BY <1>4, <1>6, <3>1, Zenon
  <2>3. descIdx' \in Slots
    BY <1>9, <1>10, <1>13 DEF Slots
  <2>4. slots' \in [Slots -> {Empty} \cup [xfer : Names, last : BOOLEAN]]
    <3>1. ASSUME NEW i \in Slots
          PROVE  [xfer |-> <<r, m + 1>>, last |-> i = t.first + k - 1]
                   \in [xfer : Names, last : BOOLEAN]
      BY <1>19, Zenon
    <3>2. ASSUME NEW i \in Slots
          PROVE  slots'[i] \in {Empty} \cup [xfer : Names, last : BOOLEAN]
      <4>1. CASE i \in SlotsOf(t)
        BY <1>4, <3>1, <4>1, Zenon
      <4>2. CASE i \notin SlotsOf(t)
        BY <1>4, <1>6, <4>2, Zenon
      <4> QED
        BY <4>1, <4>2, Zenon
    <3>3. slots' = [i \in Slots |-> slots'[i]]
      BY <1>4, Zenon
    <3> QED
      BY <3>2, <3>3, Zenon
  <2>5. alloc' \in Seq(Names)
    BY <1>20, Zenon DEF Appended
  <2>6. pc' \in [Requests -> {"idle", "init", "queue", "pending", "overflow"}]
    BY <1>4, Zenon DEF Types
  <2>7. disorder' \in BOOLEAN /\ crossed' \in [Requests -> BOOLEAN]
    <3>1. disorder \in BOOLEAN /\ crossed \in [Requests -> BOOLEAN]
      BY Zenon DEF Types
    <3> QED
      BY <1>4, <3>1, Zenon
  <2> QED
    BY <1>4, <1>5, <2>1, <2>2, <2>3, <2>4, <2>5, <2>6, <2>7, Zenon DEF Types
<1>22. pc'[r] = "queue" /\ nents'[r] = nents[r] - k /\ size'[r] = size[r]
       /\ ioDone'[r] = ioDone[r] /\ (crossed'[r] <=> crossed[r])
  BY <1>4, <1>6, Zenon DEF Types
<1>23. ~(ioDone[r] > 0)
  <2>1. "init" # "pending"
    OBVIOUS
  <2> QED
    BY <1>4, <1>7, <2>1, Zenon DEF RequestOf
<1>24. RequestOf(r)'
  <2>1. Sum(Nums(tfer'[r])) = Sum(Nums(tfer[r])) + k /\ Sum(Nums(tfer[r])) \in Nat
    <3>1. tfer'[r] = Append(tfer[r], t)
      BY <1>4, <1>6, Zenon
    <3>2. Nums(tfer'[r]) = Append(Nums(tfer[r]), k)
      BY <1>6, <1>12, <3>1, NumsAppend, Zenon
    <3>3. Nums(tfer[r]) \in Seq(Nat)
      BY <1>6, NumsType, Zenon
    <3> QED
      BY <1>10, <3>2, <3>3, SumAppend, SumNat, Zenon
  <2>2. size[r] = nents[r] + Sum(Nums(tfer[r]))
    BY <1>7, Zenon DEF RequestOf
  <2>3. size'[r] = nents'[r] + Sum(Nums(tfer'[r]))
    BY <1>6, <1>10, <1>22, <2>1, <2>2
  <2>4. Len(tfer'[r]) <= 2
    BY <1>4, <1>11, <1>15
  <2>5. "queue" \notin {"idle", "init", "overflow", "pending"}
    OBVIOUS
  <2> QED
    BY <1>15, <1>22, <1>23, <2>3, <2>4, <2>5, Zenon DEF RequestOf
<1>25. SplitOf(r)'
  <2> SUFFICES ASSUME nents'[r] > 0, ~crossed'[r]
               PROVE  /\ Len(tfer'[r]) = 1 => descIdx' = 0
                      /\ Len(tfer'[r]) = 2 => size'[r] > DescMax + 1
    BY Zenon DEF SplitOf
  <2>1. k < nents[r]
    BY <1>6, <1>10, <1>22
  <2>2. descIdx + k = DescMax /\ descIdx' = 0
    BY <1>10, <1>13, <2>1, Zenon
  <2>3. ASSUME Len(tfer'[r]) = 2
        PROVE  size'[r] > DescMax + 1
    <3>0. m + 1 = 2 /\ m \in Nat
      BY <1>11, <1>15, <2>3, Zenon
    <3>1. m = 1
      BY <3>0
    <3>2. descIdx = 0
      BY <1>2, <1>7, <1>8, <1>22, <3>1, Zenon DEF SplitOf
    <3>3. k = DescMax
      BY <1>10, <2>1, <3>2, Zenon
    <3>4. Nums(tfer[r]) \in Seq(Nat) /\ Len(Nums(tfer[r])) = 1
      BY <1>2, <1>6, <3>1, NumsType, Zenon
    <3>5. 1 \in DOMAIN tfer[r] /\ 1 > 0
      BY <1>11, <3>1
    <3>6. Nums(tfer[r])[1] = tfer[r][1].num
      BY <3>5, Zenon DEF Nums
    <3>7. tfer[r][1].num \in Nat \ {0}
      BY <1>6, <3>5, ElementType, TransferFields, Zenon
    <3>8. Nums(tfer[r])[1] <= Sum(Nums(tfer[r])) /\ Sum(Nums(tfer[r])) \in Nat
      BY <3>4, <3>5, SumFirst, Zenon
    <3>9. size[r] = nents[r] + Sum(Nums(tfer[r]))
      BY <1>7, Zenon DEF RequestOf
    <3> QED
      BY <1>6, <1>9, <1>22, <2>1, <3>3, <3>6, <3>7, <3>8, <3>9
  <2> QED
    BY <2>2, <2>3, Zenon
<1>26. ASSUME NEW j \in DOMAIN tfer'[r]
       PROVE  TransferOf(r, j)'
  <2>0. ~(ioDone'[r] > 0)
    BY <1>22, <1>23, Zenon
  <2>1. CASE j \in DOMAIN tfer[r]
    <3>1. tfer'[r][j] = tfer[r][j] /\ TransferOf(r, j)
      BY <1>7, <1>15, <2>1, Zenon
    <3>2. j # m + 1 /\ nents[r] # 0
      BY <1>6, <1>8, <1>11, <2>1
    <3>3. ~tfer[r][j].lastInRequest
      BY <3>1, <3>2, Zenon DEF TransferOf
    <3>4. tfer[r][j].state # "NEW"
      <4>1. "init" # "queue"
        OBVIOUS
      <4> QED
        BY <1>4, <3>1, <4>1, Zenon DEF TransferOf
    <3> QED
      BY <1>15, <2>0, <3>1, <3>2, <3>3, <3>4, Zenon DEF TransferOf
  <2>2. CASE j = m + 1
    <3>1. tfer'[r][j] = t /\ t.state = "NEW" /\ "NEW" # "SUBMITTED"
      BY <1>12, <1>15, <2>2
    <3>2. t.first + t.num <= DescMax
      BY <1>10, <1>12, Zenon
    <3>3. nents'[r] = 0 <=> nents[r] = k
      BY <1>6, <1>10, <1>22
    <3> QED
      BY <1>12, <1>15, <1>22, <2>0, <2>2, <3>1, <3>2, <3>3, Zenon DEF TransferOf
  <2> QED
    BY <1>18, <2>1, <2>2, Zenon
<1>27. RequestInv'
  <2> SUFFICES ASSUME NEW q \in Requests, q # r
               PROVE  (RequestOf(q) /\ SplitOf(q)
                       /\ \A j \in DOMAIN tfer[q] : TransferOf(q, j))'
    BY <1>24, <1>25, <1>26, Zenon DEF RequestInv
  <2>1. RequestOf(q) /\ SplitOf(q) /\ \A j \in DOMAIN tfer[q] : TransferOf(q, j)
    BY Zenon DEF RequestInv
  <2>2. pc'[q] = pc[q] /\ size'[q] = size[q] /\ nents'[q] = nents[q]
        /\ tfer'[q] = tfer[q] /\ ioDone'[q] = ioDone[q]
    BY <1>4, <1>6, <1>16, Zenon DEF Types
  <2>3. SplitOf(q)'
    <3> SUFFICES ASSUME nents'[q] > 0, ~crossed'[q]
                 PROVE  Len(tfer'[q]) # 1 /\ Len(tfer'[q]) # 2
      BY Zenon DEF SplitOf
    <3>1. tfer[q] = <<>>
      BY <1>4, <2>2, Zenon
    <3> QED
      BY <2>2, <3>1
  <2> QED
    BY <2>1, <2>2, <2>3, RequestFrame, Zenon
<1>28. ListInv'
  <2>1. transferList' = transferList
    BY <1>4, Zenon
  <2>2. ASSUME NEW q \in Requests, NEW j \in Nat \ {0}
        PROVE  Listed(q, j)'
    <3>1. Listed(q, j)
      BY Zenon DEF ListInv
    <3>2. CASE j \in DOMAIN tfer[q]
      BY <1>17, <2>1, <3>1, <3>2, Zenon DEF Listed
    <3>3. CASE j \notin DOMAIN tfer[q]
      <4>1. <<q, j>> \notin Range(transferList')
        BY <2>1, <3>1, <3>3, Zenon DEF Listed
      <4>2. j \in DOMAIN tfer'[q] => tfer'[q][j].state = "NEW"
        BY <1>12, <1>15, <1>18, <3>3, Zenon
      <4>3. "NEW" # "SUBMITTED"
        OBVIOUS
      <4> QED
        BY <4>1, <4>2, <4>3, Zenon DEF Listed
    <3> QED
      BY <3>2, <3>3, Zenon
  <2> QED
    BY <2>1, <2>2, Zenon DEF ListInv
<1>29. EngineInv'
  <2>1. slots'[DescMax - 1] # Empty => slots'[DescMax - 1].last
    <3>1. DescMax - 1 \in Slots
      BY <1>9 DEF Slots
    <3>2. CASE DescMax - 1 \in SlotsOf(t)
      <4>0. PICK last : last = (DescMax - 1 = t.first + k - 1)
        BY Zenon
      <4>1. slots'[DescMax - 1] = [xfer |-> <<r, m + 1>>, last |-> last]
        BY <1>4, <3>1, <3>2, <4>0, Zenon
      <4>2. DescMax - 1 \in descIdx .. descIdx + k - 1
        BY <1>12, <3>2, Zenon DEF SlotsOf
      <4>3. DescMax - 1 = descIdx + k - 1
        BY <1>9, <1>10, <4>2
      <4>4. slots'[DescMax - 1].last = last
        BY <4>1, LastOf, Zenon
      <4> QED
        BY <1>12, <4>0, <4>3, <4>4, Zenon
    <3>3. CASE DescMax - 1 \notin SlotsOf(t)
      <4>1. slots'[DescMax - 1] = slots[DescMax - 1]
        BY <1>4, <3>1, <3>3, Zenon
      <4> QED
        BY <4>1, Zenon DEF EngineInv
    <3> QED
      BY <3>2, <3>3, Zenon
  <2> QED
    BY <1>4, <1>5, <2>1, Zenon DEF EngineInv
<1>30. ASSUME ~disorder', OrderInv
       PROVE  OrderInv'
  <2>1. PICK n \in Nat : n = Len(alloc)
    BY <1>6
  <2>2. /\ Len(alloc') = n + 1 /\ DOMAIN alloc' = 1 .. n + 1
        /\ alloc'[n + 1] = <<r, m + 1>>
        /\ \A i \in 1 .. n : alloc'[i] = alloc[i]
        /\ Range(alloc') = Range(alloc) \cup {<<r, m + 1>>}
    BY <1>20, <2>1, Zenon DEF Appended
  <2>3. DOMAIN alloc = 1 .. n
    BY <1>6, <2>1
  <2>4. <<r, m + 1>> \notin Range(alloc)
    BY <1>11, <1>30, Zenon DEF OrderInv
  <2>5. ASSUME NEW q \in Requests, NEW j \in Nat \ {0}
        PROVE  <<q, j>> \in Range(alloc') <=> j \in DOMAIN tfer'[q]
    <3>1. <<q, j>> \in Range(alloc) <=> j \in DOMAIN tfer[q]
      BY <1>30, Zenon DEF OrderInv
    <3>2. <<q, j>> = <<r, m + 1>> <=> q = r /\ j = m + 1
      OBVIOUS
    <3>3. j \in DOMAIN tfer'[q] <=> j \in DOMAIN tfer[q] \/ (q = r /\ j = m + 1)
      <4>1. m + 1 \in DOMAIN tfer'[r]
        BY <1>11, <1>15
      <4> QED
        BY <1>17, <1>18, <4>1, Zenon
    <3> QED
      BY <2>2, <3>1, <3>2, <3>3, Zenon
  <2>6. ASSUME NEW i \in DOMAIN alloc', NEW j \in DOMAIN alloc',
               alloc'[i] = alloc'[j]
        PROVE  i = j
    <3>1. (i \in 1 .. n \/ i = n + 1) /\ (j \in 1 .. n \/ j = n + 1)
      BY <2>2
    <3>2. \A l \in 1 .. n : alloc'[l] \in Range(alloc)
      BY <2>2, <2>3, Zenon DEF Range
    <3>3. CASE i \in 1 .. n /\ j \in 1 .. n
      BY <1>30, <2>2, <2>3, <2>6, <3>3, Zenon DEF OrderInv
    <3>4. CASE i = n + 1 /\ j \in 1 .. n
      BY <2>2, <2>4, <2>6, <3>2, <3>4, Zenon
    <3>5. CASE i \in 1 .. n /\ j = n + 1
      BY <2>2, <2>4, <2>6, <3>2, <3>5, Zenon
    <3> QED
      BY <3>1, <3>3, <3>4, <3>5, Zenon
  <2>7. \A j \in DOMAIN alloc : Xfer(alloc[j])' = Xfer(alloc[j])
                                /\ alloc'[j] = alloc[j]
    <3> TAKE j \in DOMAIN alloc
    <3>1. alloc'[j] = alloc[j]
      BY <2>2, <2>3, Zenon
    <3>2. alloc[j][1] \in Requests /\ alloc[j][2] \in DOMAIN tfer[alloc[j][1]]
      BY <1>30, AllocMember, Zenon
    <3> QED
      BY <1>17, <3>1, <3>2, Zenon DEF Xfer
  <2>8. Xfer(alloc[n + 1])' = t
    <3>1. alloc'[n + 1][1] = r /\ alloc'[n + 1][2] = m + 1
      BY <2>2
    <3> QED
      BY <1>15, <3>1, Zenon DEF Xfer
  <2>9. /\ AllocNums \in Seq(Nat) /\ Len(AllocNums) = n
        /\ Outstanding(alloc) = Sum(AllocNums)
        /\ \A j \in 1 .. n : AllocNums[j] = Xfer(alloc[j]).num
    BY <1>30, <2>1, <2>3, AllocNumsType, Zenon
  <2>10. AllocNums' = Append(AllocNums, k)
    <3>1. AllocNums' = [j \in 1 .. n + 1 |-> Xfer(alloc[j])'.num]
      BY <2>2, Zenon DEF AllocNums
    <3>2. \A j \in 1 .. n : Xfer(alloc[j])'.num = AllocNums[j]
      BY <2>3, <2>7, <2>9, Zenon
    <3>3. Xfer(alloc[n + 1])'.num = k
      BY <1>12, <2>8, Zenon
    <3>4. PICK q \in Seq(Nat) : q = AllocNums
      BY <2>9, Zenon
    <3>5. PICK u : u = AllocNums'
      BY Zenon
    <3>6. Len(q) = n
      BY <2>9, <3>4, Zenon
    <3>7. u = [j \in 1 .. n + 1 |-> u[j]]
      BY <3>1, <3>5, Zenon
    <3>8. \A j \in 1 .. n + 1 : u[j] = Xfer(alloc[j])'.num
      BY <3>1, <3>5, Zenon
    <3>9. \A j \in 1 .. n : u[j] = q[j]
      <4>1. \A j \in 1 .. n : j \in 1 .. n + 1
        BY <2>1
      <4> QED
        BY <3>2, <3>4, <3>8, <4>1, Zenon
    <3>10. u[n + 1] = k
      <4>1. n + 1 \in 1 .. n + 1
        BY <2>1
      <4> QED
        BY <3>3, <3>8, <4>1, Zenon
    <3>11. PICK v : v = Append(q, k)
      BY Zenon
    <3>12. Appended(v, Nat, q, k)
      BY <1>10, <3>4, <3>11, AppendFields, Zenon
    <3>13. /\ DOMAIN v = 1 .. n + 1 /\ v[n + 1] = k
           /\ \A j \in 1 .. n : v[j] = q[j]
      BY <3>6, <3>12, Zenon DEF Appended
    <3>14. v = [j \in 1 .. n + 1 |-> v[j]]
      <4>1. v \in Seq(Nat)
        BY <3>12, Zenon DEF Appended
      <4>2. v = [j \in DOMAIN v |-> v[j]]
        BY <4>1
      <4> QED
        BY <3>13, <4>2, Zenon
    <3>15. \A j \in 1 .. n + 1 : u[j] = v[j]
      <4>1. \A j \in 1 .. n + 1 : j \in 1 .. n \/ j = n + 1
        BY <2>1
      <4> QED
        BY <3>9, <3>10, <3>13, <4>1, Zenon
    <3>16. u = v
      BY <3>7, <3>14, <3>15, Zenon
    <3> QED
      BY <3>4, <3>5, <3>11, <3>16, Zenon
  <2>11. Outstanding(alloc)' = Outstanding(alloc) + k
    <3>1. Outstanding(alloc)' = Sum(AllocNums')
      BY Zenon DEF Outstanding, AllocNums
    <3> QED
      BY <1>10, <2>9, <2>10, <3>1, SumAppend, Zenon
  <2>12. Outstanding(alloc) + k <= DescMax /\ Outstanding(alloc) \in Nat
    <3>1. Outstanding(alloc) \in Nat
      BY <2>9, SumNat, Zenon
    <3>2. ~(Outstanding(alloc) + k > DescMax)
      BY <1>4, <1>30, Zenon
    <3> QED
      BY <1>9, <1>10, <3>1, <3>2
  <2>13. \A j \in 1 .. n + 1 :
           Back(j)' = Sum(SubSeq(AllocNums, j, n)) + k
    <3> TAKE j \in 1 .. n + 1
    <3>1. Back(j)' = Sum(SubSeq(Append(AllocNums, k), j, n + 1))
      BY <2>2, <2>10, Zenon DEF Back
    <3>2. SubSeq(Append(AllocNums, k), j, n + 1)
            = Append(SubSeq(AllocNums, j, n), k)
      BY <1>10, <2>9, SubSeqAppend, Zenon
    <3>3. SubSeq(AllocNums, j, n) \in Seq(Nat)
      BY <2>9
    <3> QED
      BY <1>10, <3>1, <3>2, <3>3, SumAppend, Zenon
  <2>14. ASSUME NEW j \in DOMAIN alloc'
         PROVE  EndsAt(j)'
    <3>1. j \in 1 .. n + 1 /\ (j \in 1 .. n \/ j = n + 1)
      BY <2>2
    <3>2. CASE j \in 1 .. n
      <4>1. PICK f : f = Xfer(alloc[j]).first
        BY Zenon
      <4>2. PICK back : back = Back(j)
        BY Zenon
      <4>3. back \in Nat /\ back <= Outstanding(alloc)
        BY <1>30, <2>3, <3>2, <4>2, BackBounds, Zenon
      <4>4. f \in 0 .. DescMax - 1
        BY <1>30, <2>3, <3>2, <4>1, AllocMember, TransferFields, Zenon DEF Slots
      <4>5. f + back = descIdx \/ f + back = descIdx + DescMax
        BY <1>30, <2>3, <3>2, <4>1, <4>2, Zenon DEF OrderInv, EndsAt
      <4>6. Back(j)' = back + k
        BY <2>1, <2>13, <3>1, <4>2, Zenon DEF Back
      <4>7. Xfer(alloc[j])'.first = f
        BY <2>3, <2>7, <3>2, <4>1, Zenon
      <4>8. f + (back + k) = descIdx' \/ f + (back + k) = descIdx' + DescMax
        BY <1>9, <1>10, <1>13, <2>12, <4>3, <4>4, <4>5
      <4> QED
        BY <4>6, <4>7, <4>8, Zenon DEF EndsAt
    <3>3. CASE j = n + 1
      <4>1. SubSeq(AllocNums, j, n) = <<>>
        BY <2>9, <3>3
      <4>2. Back(j)' = Sum(<<>>) + k
        BY <2>13, <3>1, <4>1, Zenon
      <4>3. Back(j)' = k
        BY <1>10, <4>2, SumEmpty
      <4>4. Xfer(alloc[j])'.first = descIdx
        BY <1>12, <2>8, <3>3, Zenon
      <4>5. descIdx + k = descIdx' \/ descIdx + k = descIdx' + DescMax
        BY <1>9, <1>10, <1>13
      <4> QED
        BY <4>3, <4>4, <4>5, Zenon DEF EndsAt
    <3> QED
      BY <3>1, <3>2, <3>3, Zenon
  <2>15. Outstanding(alloc)' <= DescMax
    BY <2>11, <2>12, Zenon
  <2> QED
    BY <2>5, <2>6, <2>14, <2>15, Zenon DEF OrderInv
<1>31. ASSUME ~disorder', OrderInv, SlotInv
       PROVE  SlotInv'
  <2> SUFFICES ASSUME NEW q \in Requests, NEW j \in DOMAIN tfer'[q],
                      NEW i \in SlotsOf(tfer'[q][j])
               PROVE  slots'[i] =
                        [xfer |-> <<q, j>>, last |->
                          i = tfer'[q][j].first + tfer'[q][j].num - 1]
    BY Zenon DEF SlotInv, SlotOf, SlotsOf
  <2>1. CASE j \in DOMAIN tfer[q]
    <3>1. tfer'[q][j] = tfer[q][j]
      BY <1>17, <2>1, Zenon
    <3>2. i \in SlotsOf(tfer[q][j])
      BY <3>1, Zenon
    <3>3. slots[i] = [xfer |-> <<q, j>>,
                      last |-> i = tfer[q][j].first + tfer[q][j].num - 1]
      BY <1>31, <2>1, <3>2, Zenon DEF SlotInv, SlotOf
    <3>4. j \in Nat \ {0}
      <4>1. tfer[q] \in Seq(Transfer)
        BY <1>6, Zenon
      <4> QED
        BY <2>1, <4>1, SeqFields, Zenon
    <3>5. PICK l \in DOMAIN alloc : alloc[l] = <<q, j>>
      BY <1>31, <2>1, <3>4, Zenon DEF OrderInv, Range
    <3>6. i \in SlotsOf(Xfer(alloc[l]))
      <4>1. alloc[l][1] = q /\ alloc[l][2] = j
        BY <3>5
      <4> QED
        BY <3>2, <4>1, Zenon DEF Xfer
    <3>7. Outstanding(alloc) + k <= DescMax
      <4>1. ~(Outstanding(alloc) + k > DescMax)
        BY <1>4, <1>31, Zenon
      <4>2. Outstanding(alloc) \in Nat
        BY <1>31, <3>5, BackBounds, Zenon
      <4> QED
        BY <1>9, <1>10, <4>1, <4>2
    <3>8. i \notin descIdx .. descIdx + k - 1
      BY <1>10, <1>31, <3>5, <3>6, <3>7, NewSlotsFree, Zenon
    <3>9. i \notin SlotsOf(t)
      BY <1>12, <3>8, Zenon DEF SlotsOf
    <3>10. i \in Slots
      <4>1. TransferOf(q, j)
        BY <2>1, Zenon DEF RequestInv
      <4>2. tfer[q][j] \in Transfer
        BY <1>6, <2>1, ElementType, Zenon
      <4>3. tfer[q][j].first \in 0 .. DescMax - 1 /\ tfer[q][j].num \in Nat
        BY <4>2, TransferFields, Zenon DEF Slots
      <4>4. tfer[q][j].first + tfer[q][j].num <= DescMax
        BY <4>1, Zenon DEF TransferOf
      <4>5. i \in tfer[q][j].first .. tfer[q][j].first + tfer[q][j].num - 1
        BY <3>2, Zenon DEF SlotsOf
      <4> QED
        BY <1>9, <4>3, <4>4, <4>5 DEF Slots
    <3>11. slots'[i] = slots[i]
      BY <1>4, <3>9, <3>10, Zenon
    <3> QED
      BY <3>1, <3>3, <3>11, Zenon
  <2>2. CASE q = r /\ j = m + 1
    <3>1. tfer'[q][j] = t
      BY <1>15, <2>2, Zenon
    <3>2. i \in SlotsOf(t)
      BY <3>1, Zenon
    <3>3. i \in Slots
      <4>1. i \in descIdx .. descIdx + k - 1
        BY <1>12, <3>2, Zenon DEF SlotsOf
      <4> QED
        BY <1>9, <1>10, <4>1 DEF Slots
    <3>4. slots'[i] = [xfer |-> <<r, m + 1>>, last |-> i = t.first + k - 1]
      BY <1>4, <3>2, <3>3, Zenon
    <3> QED
      BY <1>12, <2>2, <3>1, <3>4, Zenon
  <2> QED
    BY <1>18, <2>1, <2>2, Zenon
<1>32. ASSUME MoveInv
       PROVE  MoveInv'
  <2>1. ASSUME NEW q \in Requests, NEW j \in DOMAIN tfer'[q],
               tfer'[q][j].state = "COMPLETED"
        PROVE  tfer'[q][j].moved = tfer'[q][j].num
    <3>0. "NEW" # "COMPLETED"
      OBVIOUS
    <3>1. j \in DOMAIN tfer[q] /\ tfer'[q][j] = tfer[q][j]
      BY <1>12, <1>15, <1>17, <1>18, <2>1, <3>0, Zenon
    <3> QED
      BY <1>32, <2>1, <3>1, Zenon DEF MoveInv
  <2>2. ASSUME running'
        PROVE  HeadOf(Xfer(Head(transferList)))'
    <3>1. running /\ transferList # <<>> /\ transferList' = transferList
      BY <1>4, <2>2, Zenon DEF EngineInv
    <3>2. PICK x : x = Head(transferList)
      BY Zenon
    <3>3. x[1] \in Requests /\ x[2] \in DOMAIN tfer[x[1]]
      BY <3>1, <3>2, HeadMember, ListMember, Zenon
    <3>4. tfer'[x[1]][x[2]] = tfer[x[1]][x[2]]
      BY <1>17, <3>3, Zenon
    <3>5. HeadOf(tfer[x[1]][x[2]])
      BY <1>32, <3>1, <3>2, Zenon DEF MoveInv, Xfer
    <3> QED
      BY <1>5, <3>1, <3>2, <3>4, <3>5, Zenon DEF HeadOf, Xfer
  <2> QED
    BY <2>1, <2>2, Zenon DEF MoveInv
<1>33. ChainInv'
  <2>1. ~disorder' => ~disorder
    BY <1>4, Zenon
  <2> QED
    BY <1>30, <1>31, <1>32, <2>1, Zenon DEF ChainInv
<1> QED
  BY <1>21, <1>27, <1>28, <1>29, <1>33, Zenon
=============================================================================
