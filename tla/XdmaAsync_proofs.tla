-------------------------- MODULE XdmaAsync_proofs --------------------------
(***************************************************************************)
(* Proofs about asynchronous requests, for every number of clients, every  *)
(* desc_max and every size of request, with and without hardware errors.   *)
(* XdmaAsyncSubmit_proofs has the inductive invariant (AsyncInv), what it  *)
(* says and why, and the steps of submission and of the hardware.  The     *)
(* bottom half and xdma_xfer_completion remain: both take transfers from   *)
(* the front, of the list and of the slots in use, and what they leave is  *)
(* a suffix.                                                               *)
(***************************************************************************)
EXTENDS XdmaAsyncSubmit_proofs

-----------------------------------------------------------------------------
(* The bottom half.                                                        *)

\* What the bottom half ends, and what it leaves on the list.
Taken ==
  IF hwCount = 0 THEN 0
  ELSE IF Past < Len(transferList) THEN Past + 1 ELSE Past
Ended == SubSeq(transferList, 1, Taken)
Rest  == SubSeq(transferList, Taken + 1, Len(transferList))
Left  == hwCount - Outstanding(SubSeq(transferList, 1, Past))
Final(x) ==
  IF Past < Taken /\ x = transferList[Taken]
  THEN FinalState(Left, x) ELSE "COMPLETED"
Judged ==
  [r \in Requests |-> [k \in DOMAIN tfer[r] |->
     IF <<r, k>> \in Range(Ended)
     THEN [tfer[r][k] EXCEPT !.state = Final(<<r, k>>)] ELSE tfer[r][k]]]
Told(r) == \E x \in Range(Ended) : x[1] = r /\ Xfer(x).lastInRequest

Parts(n, ended, rest) ==
  /\ ended \in Seq(Names) /\ rest \in Seq(Names)
  /\ DOMAIN ended = 1 .. n /\ \A i \in 1 .. n : ended[i] = transferList[i]
  /\ Range(transferList) = Range(ended) \cup Range(rest)
  /\ \A x \in Range(ended), y \in Range(rest) : x[1] = y[1] => x[2] < y[2]
  /\ \A i, j \in DOMAIN rest :
       i < j /\ rest[i][1] = rest[j][1] => rest[i][2] < rest[j][2]
  /\ rest # <<>> => Head(rest) \in Range(rest)

\* The bottom half takes transfers from the front of the list: what it leaves
\* keeps its order, and comes after what it took.
LEMMA ListParts ==
  ASSUME Types, ListInv, NEW n \in 0 .. Len(transferList)
  PROVE  Parts(n, SubSeq(transferList, 1, n),
               SubSeq(transferList, n + 1, Len(transferList)))
<1>1. PICK list \in Seq(Names) : list = transferList
  BY Zenon DEF Types
<1>2. PICK l \in Nat : l = Len(list)
  BY <1>1
<1>3. PICK ended : ended = SubSeq(list, 1, n)
  BY Zenon
<1>4. PICK rest : rest = SubSeq(list, n + 1, l)
  BY Zenon
<1>5. n \in 0 .. l
  BY <1>1, <1>2, Zenon
<1>6. /\ ended \in Seq(Names) /\ Len(ended) = n /\ DOMAIN ended = 1 .. n
      /\ \A i \in 1 .. n : ended[i] = list[i]
  BY <1>1, <1>2, <1>3, <1>5
<1>7. /\ rest \in Seq(Names) /\ Len(rest) = l - n /\ DOMAIN rest = 1 .. l - n
      /\ \A i \in 1 .. l - n : rest[i] = list[n + i]
  BY <1>1, <1>2, <1>4, <1>5
<1>8. DOMAIN list = 1 .. l
  BY <1>1, <1>2
<1>9. \A i, j \in 1 .. l : i < j /\ list[i][1] = list[j][1] =>
                             list[i][2] < list[j][2]
  BY <1>1, <1>8, Zenon DEF ListInv
<1>10. Range(list) = Range(ended) \cup Range(rest)
  <2>1. ASSUME NEW x \in Range(list)
        PROVE  x \in Range(ended) \cup Range(rest)
    <3>1. PICK i \in 1 .. l : list[i] = x
      BY <1>8, <2>1, Zenon DEF Range
    <3>2. i \in 1 .. n \/ (i - n \in 1 .. l - n /\ n + (i - n) = i)
      BY <1>2, <1>5
    <3>3. CASE i \in 1 .. n
      BY <1>6, <3>1, <3>3, Zenon DEF Range
    <3>4. CASE i - n \in 1 .. l - n /\ n + (i - n) = i
      <4>1. rest[i - n] = list[i]
        BY <1>7, <3>4, Zenon
      <4> QED
        BY <1>7, <3>1, <3>4, <4>1, Zenon DEF Range
    <3> QED
      BY <3>2, <3>3, <3>4, Zenon
  <2>2. ASSUME NEW x \in Range(ended)
        PROVE  x \in Range(list)
    <3>1. PICK i \in 1 .. n : ended[i] = x
      BY <1>6, <2>2, Zenon DEF Range
    <3>2. i \in 1 .. l
      BY <1>2, <1>5
    <3> QED
      BY <1>6, <1>8, <3>1, <3>2, Zenon DEF Range
  <2>3. ASSUME NEW x \in Range(rest)
        PROVE  x \in Range(list)
    <3>1. PICK i \in 1 .. l - n : rest[i] = x
      BY <1>7, <2>3, Zenon DEF Range
    <3>2. n + i \in 1 .. l
      BY <1>2, <1>5
    <3> QED
      BY <1>7, <1>8, <3>1, <3>2, Zenon DEF Range
  <2> QED
    BY <2>1, <2>2, <2>3, Zenon
<1>11. ASSUME NEW x \in Range(ended), NEW y \in Range(rest), x[1] = y[1]
       PROVE  x[2] < y[2]
  <2>1. PICK i \in 1 .. n : ended[i] = x
    BY <1>6, <1>11, Zenon DEF Range
  <2>2. PICK j \in 1 .. l - n : rest[j] = y
    BY <1>7, <1>11, Zenon DEF Range
  <2>3. i \in 1 .. l /\ n + j \in 1 .. l /\ i < n + j
    BY <1>2, <1>5
  <2>4. list[i] = x /\ list[n + j] = y
    BY <1>6, <1>7, <2>1, <2>2, Zenon
  <2> QED
    BY <1>9, <1>11, <2>3, <2>4, Zenon
<1>12. ASSUME NEW i \in DOMAIN rest, NEW j \in DOMAIN rest, i < j,
              rest[i][1] = rest[j][1]
       PROVE  rest[i][2] < rest[j][2]
  <2>1. i \in 1 .. l - n /\ j \in 1 .. l - n
    BY <1>7, Zenon
  <2>2. n + i \in 1 .. l /\ n + j \in 1 .. l /\ n + i < n + j
    BY <1>2, <1>5, <1>12, <2>1
  <2>3. rest[i] = list[n + i] /\ rest[j] = list[n + j]
    BY <1>7, <2>1, Zenon
  <2> QED
    BY <1>9, <1>12, <2>2, <2>3, Zenon
<1>13. rest # <<>> => Head(rest) \in Range(rest)
  <2>1. rest # <<>> => 1 \in DOMAIN rest /\ Head(rest) = rest[1]
    BY <1>7
  <2> QED
    BY <2>1, Zenon DEF Range
<1>14. Parts(n, ended, rest)
  BY <1>1, <1>6, <1>7, <1>10, <1>11, <1>12, <1>13, Zenon DEF Parts
<1> QED
  BY <1>1, <1>2, <1>3, <1>4, <1>14, Zenon

\* The completed descriptors go past a prefix of the list.
LEMMA PastType ==
  ASSUME Types
  PROVE  Past \in 0 .. Len(transferList)
<1>1. PICK l \in Nat : l = Len(transferList)
  BY DEF Types
<1>2. DOMAIN transferList = 1 .. l
  BY <1>1 DEF Types
<1>3. PICK S : S = {i \in DOMAIN transferList :
                      Outstanding(SubSeq(transferList, 1, i)) < hwCount}
  BY Zenon
<1>4. S \in SUBSET (1 .. l)
  BY <1>2, <1>3, Zenon
<1>5. IsFiniteSet(1 .. l) /\ Cardinality(1 .. l) = l
  <2>1. 1 \in Int /\ l \in Int
    BY <1>1
  <2>2. /\ IsFiniteSet(1 .. l)
        /\ Cardinality(1 .. l) = IF 1 > l THEN 0 ELSE l - 1 + 1
    BY <2>1, FS_Interval, SMTT(20)
  <2>3. (IF 1 > l THEN 0 ELSE l - 1 + 1) = l
    BY <1>1
  <2> QED
    BY <2>2, <2>3, SMTT(20)
<1>6. IsFiniteSet(S) /\ Cardinality(S) <= l
  BY <1>4, <1>5, FS_Subset, Zenon
<1>7. Cardinality(S) \in Nat
  BY <1>6, FS_CardinalityType, Zenon
<1>8. Past = Cardinality(S)
  BY <1>3, Zenon DEF Past
<1>9. Past \in 0 .. l
  BY <1>1, <1>6, <1>7, <1>8
<1> QED
  BY <1>1, <1>9, Zenon

\* engine_service ends a prefix of the list.
LEMMA TakenType ==
  ASSUME Types
  PROVE  Taken \in 0 .. Len(transferList)
<1>1. PICK l \in Nat : l = Len(transferList)
  BY DEF Types
<1>2. PICK p : p = Past
  BY Zenon
<1>3. p \in 0 .. l
  BY <1>1, <1>2, PastType, Zenon
<1>4. Taken = IF hwCount = 0 THEN 0 ELSE IF p < l THEN p + 1 ELSE p
  BY <1>1, <1>2, Zenon DEF Taken
<1>5. Taken \in 0 .. l
  BY <1>1, <1>3, <1>4
<1> QED
  BY <1>1, <1>5, Zenon

\* When the hardware counts the descriptors of the first transfer only, no
\* transfer is passed, and the first one is judged by the whole count.
LEMMA NonePast ==
  ASSUME Types, ListInv, transferList # <<>>,
         HeadOf(Xfer(Head(transferList)))
  PROVE  /\ Past = 0 /\ Taken = IF hwCount = 0 THEN 0 ELSE 1
         /\ Left = hwCount /\ Head(transferList) = transferList[1]
<1>1. PICK list \in Seq(Names) : list = transferList
  BY Zenon DEF Types
<1>2. PICK l \in Nat : l = Len(list)
  BY <1>1
<1>3. list # <<>> /\ DOMAIN list = 1 .. l /\ l > 0 /\ Head(list) = list[1]
      /\ 1 \in DOMAIN list
  BY <1>1, <1>2
<1>4. hwCount \in Nat /\ hwCount <= Xfer(list[1]).num
  BY <1>1, <1>3, Zenon DEF Types, HeadOf
<1>5. \A i \in 1 .. l : Xfer(list[i]).num \in Nat
  <2>1. \A i \in 1 .. l : list[i] \in Range(transferList)
    BY <1>1, <1>3, Zenon DEF Range
  <2> QED
    BY <2>1, ListMember, TransferFields, Zenon
<1>6. ASSUME NEW i \in 1 .. l
      PROVE  ~(Outstanding(SubSeq(list, 1, i)) < hwCount)
  <2>1. PICK s : s = SubSeq(list, 1, i)
    BY Zenon
  <2>2. DOMAIN s = 1 .. i /\ \A j \in 1 .. i : s[j] = list[j]
    BY <1>1, <1>2, <1>6, <2>1
  <2>3. PICK q : q = [j \in DOMAIN s |-> Xfer(s[j]).num]
    BY Zenon
  <2>4. \A j \in 1 .. i : j \in 1 .. l
    BY <1>2, <1>6
  <2>5. q \in [1 .. i -> Nat]
    BY <1>5, <2>2, <2>3, <2>4, Zenon
  <2>6. i \in Nat /\ i > 0 /\ 1 \in 1 .. i
    BY <1>2, <1>6
  <2>7. q \in Seq(Nat) /\ Len(q) = i
    BY <2>5, <2>6
  <2>8. q[1] = Xfer(list[1]).num
    BY <2>2, <2>3, <2>6, Zenon
  <2>9. q[1] <= Sum(q) /\ Sum(q) \in Nat
    BY <2>6, <2>7, SumFirst, Zenon
  <2>10. Outstanding(s) = Sum(q)
    BY <2>3, Zenon DEF Outstanding
  <2>11. q[1] \in Nat
    BY <2>5, <2>6, Zenon
  <2>12. ~(Sum(q) < hwCount)
    BY <1>4, <2>8, <2>9, <2>11
  <2> QED
    BY <2>1, <2>10, <2>12, Zenon
<1>7. Past = 0
  <2>1. {i \in DOMAIN transferList :
           Outstanding(SubSeq(transferList, 1, i)) < hwCount} = {}
    BY <1>1, <1>3, <1>6, Zenon
  <2> QED
    BY <2>1, FS_EmptySet, Zenon DEF Past
<1>8. Taken = IF hwCount = 0 THEN 0 ELSE 1
  <2>1. 0 < l /\ 0 + 1 = 1
    BY <1>2, <1>3
  <2> QED
    BY <1>1, <1>2, <1>7, <2>1, Zenon DEF Taken
<1>9. Left = hwCount
  <2>1. SubSeq(list, 1, 0) = <<>>
    BY <1>1
  <2>2. [i \in DOMAIN <<>> |-> Xfer(<<>>[i]).num] = <<>>
    OBVIOUS
  <2>3. Outstanding(<<>>) = 0
    BY <2>2, SumEmpty, Zenon DEF Outstanding
  <2>4. Left = hwCount - 0
    BY <1>1, <1>7, <2>1, <2>3, Zenon DEF Left
  <2> QED
    BY <1>4, <2>4
<1> QED
  BY <1>1, <1>3, <1>7, <1>8, <1>9, Zenon

\* What the bottom half makes of the transfers.
Served ==
  /\ tfer' \in [Requests -> Seq(Transfer)] /\ Alike(tfer, tfer')
  /\ \A r \in Requests : \A k \in DOMAIN tfer[r] :
       /\ tfer'[r][k].state = IF <<r, k>> \in Range(Ended) THEN Final(<<r, k>>)
                              ELSE tfer[r][k].state
       /\ tfer'[r][k].moved = IF running' /\ <<r, k>> = Head(Rest) THEN 0
                              ELSE tfer[r][k].moved

ServiceStep ==
  /\ hwStat # {} /\ hwStat' = {}
  /\ transferList' = Rest
  /\ ioDone' = [r \in Requests |-> IF Told(r) THEN ioDone[r] + 1 ELSE ioDone[r]]
  /\ IF Taken > 0 /\ Rest # <<>>
     THEN EngineStart(Head(Rest)) /\ tfer' = Restarted(Judged, Head(Rest))
     ELSE /\ running' = FALSE /\ hwRun' = FALSE /\ hwCount' = 0
          /\ tfer' = Judged /\ UNCHANGED <<hwBusy, hwIdx>>
  /\ UNCHANGED <<pc, size, nents, descIdx, slots, alloc, disorder, crossed>>

\* engine_service in the terms of the definitions above.
LEMMA ServiceSteps ==
  ASSUME Service
  PROVE  ServiceStep
  BY Zenon DEF Service, ServiceStep, Told, Judged, Final, Left, Ended, Rest,
               Taken, GoesOn

\* What engine_service ends and what it leaves make up the list.
LEMMA ServiceParts ==
  ASSUME AsyncInv
  PROVE  Parts(Taken, Ended, Rest)
  BY TakenType, ListParts, Zenon DEF AsyncInv, Ended, Rest

\* A transfer that is ended is completed or failed.
LEMMA FinalType ==
  ASSUME NEW x
  PROVE  Final(x) \in {"COMPLETED", "FAILED"}
  BY Zenon DEF Final, FinalState

\* The transfer that the engine goes on with was not ended.
LEMMA RestMember ==
  ASSUME AsyncInv, Rest # <<>>
  PROVE  /\ Head(Rest)[1] \in Requests
         /\ Head(Rest)[2] \in DOMAIN tfer[Head(Rest)[1]]
         /\ Head(Rest) = <<Head(Rest)[1], Head(Rest)[2]>>
         /\ Head(Rest) \in Range(Rest) /\ Head(Rest) \notin Range(Ended)
<1>1. PICK h : h = Head(Rest)
  BY Zenon
<1>2. h \in Range(Rest) /\ h \in Range(transferList)
  BY <1>1, ServiceParts, Zenon DEF Parts
<1>3. h[1] \in Requests /\ h[2] \in DOMAIN tfer[h[1]] /\ h = <<h[1], h[2]>>
      /\ h[2] \in Nat \ {0}
  BY <1>2, ListMember, Zenon DEF AsyncInv
<1>4. ~(h[2] < h[2])
  BY <1>3
<1>5. h \notin Range(Ended)
  BY <1>2, <1>4, ServiceParts, Zenon DEF Parts
<1> QED
  BY <1>1, <1>2, <1>3, <1>5, Zenon

\* Ending transfers changes their state only.
LEMMA JudgedFields ==
  ASSUME Types
  PROVE  /\ Judged \in [Requests -> Seq(Transfer)] /\ Alike(tfer, Judged)
         /\ \A r \in Requests : \A k \in DOMAIN tfer[r] :
              /\ Judged[r][k].state =
                   IF <<r, k>> \in Range(Ended) THEN Final(<<r, k>>)
                   ELSE tfer[r][k].state
              /\ Judged[r][k].moved = tfer[r][k].moved
<1>1. ASSUME NEW r \in Requests, NEW k \in DOMAIN tfer[r]
      PROVE  /\ Judged[r][k] \in Transfer
             /\ Judged[r][k].state =
                  IF <<r, k>> \in Range(Ended) THEN Final(<<r, k>>)
                  ELSE tfer[r][k].state
             /\ Judged[r][k].moved = tfer[r][k].moved
             /\ Judged[r][k].first = tfer[r][k].first
             /\ Judged[r][k].num = tfer[r][k].num
             /\ Judged[r][k].lastInRequest = tfer[r][k].lastInRequest
  <2>1. PICK t : t = tfer[r][k]
    BY Zenon
  <2>2. PICK s : s = Final(<<r, k>>)
    BY Zenon
  <2>3. PICK j : j = Judged[r][k]
    BY Zenon
  <2>4. t \in Transfer
    BY <2>1, ElementType, Zenon DEF Types
  <2>5. s \in States
    <3>1. {"COMPLETED", "FAILED"} \subseteq States
      BY DEF States
    <3> QED
      BY <2>2, <3>1, FinalType, Zenon
  <2>6. j = IF <<r, k>> \in Range(Ended) THEN [t EXCEPT !.state = s] ELSE t
    BY <2>1, <2>2, <2>3, Zenon DEF Judged
  <2>7. CASE <<r, k>> \in Range(Ended)
    <3>1. j = [t EXCEPT !.state = s]
      BY <2>6, <2>7, Zenon
    <3>2. /\ j \in Transfer /\ j.state = s /\ j.moved = t.moved
          /\ j.first = t.first /\ j.num = t.num
          /\ j.lastInRequest = t.lastInRequest
      BY <2>4, <2>5, <3>1 DEF Transfer
    <3> QED
      BY <2>1, <2>2, <2>3, <2>7, <3>2, Zenon
  <2>8. CASE <<r, k>> \notin Range(Ended)
    <3>1. j = t
      BY <2>6, <2>8, Zenon
    <3> QED
      BY <2>1, <2>3, <2>4, <2>8, <3>1, Zenon
  <2> QED
    BY <2>7, <2>8, Zenon
<1>2. ASSUME NEW r \in Requests
      PROVE  /\ Judged[r] \in Seq(Transfer) /\ Len(Judged[r]) = Len(tfer[r])
             /\ DOMAIN Judged[r] = DOMAIN tfer[r]
  <2>1. PICK u : u = Judged[r]
    BY Zenon
  <2>2. PICK n \in Nat : n = Len(tfer[r])
    BY DEF Types
  <2>3. DOMAIN tfer[r] = 1 .. n
    BY <2>2 DEF Types
  <2>4. u = [k \in 1 .. n |-> u[k]]
    BY <2>1, <2>3, Zenon DEF Judged
  <2>5. \A k \in 1 .. n : u[k] \in Transfer
    BY <1>1, <2>1, <2>3, Zenon
  <2>6. u \in [1 .. n -> Transfer]
    BY <2>4, <2>5, Zenon
  <2>7. u \in Seq(Transfer) /\ Len(u) = n /\ DOMAIN u = 1 .. n
    BY <2>2, <2>6
  <2> QED
    BY <2>1, <2>2, <2>3, <2>7, Zenon
<1>3. Judged \in [Requests -> Seq(Transfer)]
  <2>1. Judged = [r \in Requests |-> Judged[r]]
    BY Zenon DEF Judged
  <2> QED
    BY <1>2, <2>1, Zenon
<1>4. Alike(tfer, Judged)
  BY <1>1, <1>2, Zenon DEF Alike
<1> QED
  BY <1>1, <1>3, <1>4, Zenon

\* engine_service ends transfers and restarts the engine; no transfer changes
\* in anything but its state and what was moved.
LEMMA ServiceTransfers ==
  ASSUME AsyncInv, ServiceStep
  PROVE  Served
<1>1. Types
  BY Zenon DEF AsyncInv
<1>2. PICK judged : judged = Judged
  BY Zenon
<1>3. /\ judged \in [Requests -> Seq(Transfer)] /\ Alike(tfer, judged)
      /\ \A r \in Requests : \A k \in DOMAIN tfer[r] :
           /\ judged[r][k].state =
                IF <<r, k>> \in Range(Ended) THEN Final(<<r, k>>)
                ELSE tfer[r][k].state
           /\ judged[r][k].moved = tfer[r][k].moved
  BY <1>1, <1>2, JudgedFields, Zenon
<1>4. CASE ~(Taken > 0 /\ Rest # <<>>)
  <2>1. tfer' = judged /\ ~running'
    BY <1>2, <1>4, Zenon DEF ServiceStep
  <2> QED
    BY <1>3, <2>1, Zenon DEF Served
<1>5. CASE Taken > 0 /\ Rest # <<>>
  <2>0. PICK a \in Requests : a = Head(Rest)[1]
    BY <1>5, RestMember, Zenon
  <2>1. PICK b \in DOMAIN tfer[a] : Head(Rest) = <<a, b>>
    BY <1>5, <2>0, RestMember, Zenon
  <2>2. running' /\ tfer' = Restarted(judged, <<a, b>>)
    BY <1>2, <1>5, <2>1, Zenon DEF ServiceStep, EngineStart
  <2>3. tfer' = [judged EXCEPT ![a][b].moved = 0]
    BY <2>2 DEF Restarted
  <2>4. b \in DOMAIN judged[a]
    BY <1>3, Zenon DEF Alike
  <2>5. MovedTo(judged, tfer', a, b, 0)
    <3>1. 0 \in Nat
      OBVIOUS
    <3> QED
      BY <1>3, <2>3, <2>4, <3>1, SetMoved, Zenon
  <2>6. Alike(tfer, tfer')
    <3>1. Alike(judged, tfer')
      BY <2>5, Zenon DEF MovedTo
    <3> QED
      BY <1>3, <3>1, AlikeTransitive, Zenon
  <2>7. ASSUME NEW r \in Requests, NEW k \in DOMAIN tfer[r]
        PROVE  /\ tfer'[r][k].state = judged[r][k].state
               /\ tfer'[r][k].moved = IF <<r, k>> = Head(Rest) THEN 0
                                      ELSE judged[r][k].moved
    <3>1. k \in DOMAIN judged[r]
      BY <1>3, Zenon DEF Alike
    <3>2. <<r, k>> = <<a, b>> <=> r = a /\ k = b
      OBVIOUS
    <3> QED
      BY <2>1, <2>5, <3>1, <3>2, Zenon DEF MovedTo
  <2>8. tfer' \in [Requests -> Seq(Transfer)]
    BY <2>5, Zenon DEF MovedTo
  <2>9. ASSUME NEW r \in Requests, NEW k \in DOMAIN tfer[r]
        PROVE  /\ tfer'[r][k].state =
                    IF <<r, k>> \in Range(Ended) THEN Final(<<r, k>>)
                    ELSE tfer[r][k].state
               /\ tfer'[r][k].moved = IF running' /\ <<r, k>> = Head(Rest) THEN 0
                                      ELSE tfer[r][k].moved
    <3>1. judged[r][k].state = IF <<r, k>> \in Range(Ended) THEN Final(<<r, k>>)
                               ELSE tfer[r][k].state
      BY <1>3, Zenon
    <3>2. judged[r][k].moved = tfer[r][k].moved
      BY <1>3, Zenon
    <3>3. /\ tfer'[r][k].state = judged[r][k].state
          /\ tfer'[r][k].moved = IF <<r, k>> = Head(Rest) THEN 0
                                 ELSE judged[r][k].moved
      BY <2>7, Zenon
    <3>4. tfer'[r][k].moved = IF <<r, k>> = Head(Rest) THEN 0
                              ELSE tfer[r][k].moved
      BY <3>2, <3>3, Zenon
    <3> QED
      BY <2>2, <3>1, <3>3, <3>4, Zenon
  <2> QED
    BY <2>6, <2>8, <2>9, Zenon DEF Served
<1> QED
  BY <1>4, <1>5, Zenon

\* A transfer that is ended was submitted.
LEMMA EndedMember ==
  ASSUME AsyncInv, NEW x \in Range(Ended)
  PROVE  /\ x[1] \in Requests /\ x[2] \in Nat \ {0} /\ x = <<x[1], x[2]>>
         /\ x[2] \in DOMAIN tfer[x[1]] /\ tfer[x[1]][x[2]].state = "SUBMITTED"
         /\ Xfer(x) = tfer[x[1]][x[2]]
<1>1. x \in Range(transferList)
  BY ServiceParts, Zenon DEF Parts
<1> QED
  BY <1>1, ListMember, Zenon DEF AsyncInv, Xfer

\* The list still holds exactly the submitted transfers, in their order.
LEMMA ServiceList ==
  ASSUME AsyncInv, ServiceStep, Served
  PROVE  ListInv'
<1>1. transferList' = Rest
  BY Zenon DEF ServiceStep
<1>2. ASSUME NEW r \in Requests, NEW k \in Nat \ {0}
      PROVE  Listed(r, k)'
  <2>1. <<r, k>> \in Range(transferList) <=>
          k \in DOMAIN tfer[r] /\ tfer[r][k].state = "SUBMITTED"
    BY Zenon DEF AsyncInv, ListInv, Listed
  <2>2. DOMAIN tfer'[r] = DOMAIN tfer[r]
    BY Zenon DEF Served, Alike
  <2>3. PICK x : x = <<r, k>>
    BY Zenon
  <2>4. x \in Range(transferList) <=> x \in Range(Ended) \/ x \in Range(Rest)
    BY ServiceParts, Zenon DEF Parts
  <2>5. ~(x \in Range(Ended) /\ x \in Range(Rest))
    <3>1. x[2] = k
      BY <2>3
    <3>2. ~(x[2] < x[2])
      BY <3>1
    <3> QED
      BY <3>2, ServiceParts, Zenon DEF Parts
  <2>6. x \in Range(Ended) => k \in DOMAIN tfer[r]
                              /\ tfer'[r][k].state # "SUBMITTED"
    <3> SUFFICES ASSUME x \in Range(Ended)
                 PROVE  k \in DOMAIN tfer[r] /\ tfer'[r][k].state # "SUBMITTED"
      BY Zenon
    <3>1. k \in DOMAIN tfer[r]
      BY <2>1, <2>3, <2>4, Zenon
    <3>2. tfer'[r][k].state = Final(x)
      BY <2>3, <3>1, Zenon DEF Served
    <3>3. "SUBMITTED" \notin {"COMPLETED", "FAILED"}
      OBVIOUS
    <3> QED
      BY <3>1, <3>2, <3>3, FinalType, Zenon
  <2>7. x \notin Range(Ended) /\ k \in DOMAIN tfer[r] =>
          tfer'[r][k].state = tfer[r][k].state
    BY <2>3, Zenon DEF Served
  <2>8. x \in Range(Rest) <=>
          k \in DOMAIN tfer'[r] /\ tfer'[r][k].state = "SUBMITTED"
    BY <2>1, <2>2, <2>3, <2>4, <2>5, <2>6, <2>7, Zenon
  <2> QED
    BY <1>1, <2>3, <2>8, Zenon DEF Listed
<1> QED
  BY <1>1, <1>2, ServiceParts, Zenon DEF ListInv, Parts

\* io_done is called with the last transfer of a request that is all queued,
\* and was not called for it before.
LEMMA ServiceTold ==
  ASSUME AsyncInv, NEW r \in Requests, Told(r)
  PROVE  /\ ioDone[r] = 0 /\ pc[r] = "pending"
         /\ <<r, Len(tfer[r])>> \in Range(Ended)
<1>1. PICK x \in Range(Ended) : x[1] = r /\ Xfer(x).lastInRequest
  BY Zenon DEF Told
<1>2. PICK k \in DOMAIN tfer[r] : k = x[2]
  BY <1>1, EndedMember, Zenon
<1>3. x = <<r, k>> /\ tfer[r][k].state = "SUBMITTED" /\ tfer[r][k].lastInRequest
  BY <1>1, <1>2, EndedMember, Zenon
<1>4. RequestOf(r) /\ TransferOf(r, k)
  BY Zenon DEF AsyncInv, RequestInv
<1>5. k = Len(tfer[r]) /\ nents[r] = 0 /\ ~(ioDone[r] > 0)
  BY <1>3, <1>4, Zenon DEF TransferOf
<1>6. ioDone[r] = 0
  BY <1>5 DEF AsyncInv, Types
<1>7. pc[r] \in {"idle", "init", "queue", "pending", "overflow"}
  BY Zenon DEF AsyncInv, Types
<1>8. pc[r] # "idle"
  BY <1>4, NoneIn, Zenon DEF RequestOf
<1>9. pc[r] \notin {"init", "overflow"}
  <2>1. ~(nents[r] > 0)
    BY <1>5
  <2> QED
    BY <1>4, <2>1, Zenon DEF RequestOf
<1>10. pc[r] # "queue"
  <2>1. "SUBMITTED" # "NEW"
    OBVIOUS
  <2> QED
    BY <1>3, <1>4, <1>5, <2>1, Zenon DEF TransferOf
<1> QED
  BY <1>3, <1>5, <1>6, <1>7, <1>8, <1>9, <1>10, Zenon

\* When io_done is called none of the request's transfers is left on the list:
\* they are listed in their order, and the last one has been ended.
LEMMA ServiceRequests ==
  ASSUME AsyncInv, ServiceStep, Served, ListInv'
  PROVE  RequestInv'
<1> SUFFICES ASSUME NEW r \in Requests
             PROVE  (RequestOf(r) /\ SplitOf(r)
                     /\ \A k \in DOMAIN tfer[r] : TransferOf(r, k))'
  BY Zenon DEF RequestInv
<1>1. RequestOf(r) /\ SplitOf(r) /\ \A k \in DOMAIN tfer[r] : TransferOf(r, k)
  BY Zenon DEF AsyncInv, RequestInv
<1>2. UNCHANGED <<pc, size, nents, descIdx, crossed>>
  BY Zenon DEF ServiceStep
<1>3. ioDone'[r] = IF Told(r) THEN ioDone[r] + 1 ELSE ioDone[r]
  BY Zenon DEF ServiceStep
<1>4. Len(tfer'[r]) = Len(tfer[r]) /\ DOMAIN tfer'[r] = DOMAIN tfer[r]
      /\ Alike(tfer, tfer')
  BY Zenon DEF Served, Alike
<1>5. tfer[r] \in Seq(Transfer) /\ tfer'[r] \in Seq(Transfer)
  BY Zenon DEF AsyncInv, Types, Served
<1>6. tfer'[r] = <<>> <=> tfer[r] = <<>>
  <2>1. \A u \in Seq(Transfer) : u = <<>> <=> Len(u) = 0
    BY SeqFields, Zenon
  <2> QED
    BY <1>4, <1>5, <2>1, Zenon
<1>7. Nums(tfer'[r]) = Nums(tfer[r])
  BY <1>4, NumsAlike, Zenon
<1>8. ioDone'[r] > 0 => ioDone'[r] = 1 /\ pc[r] = "pending"
  <2>1. CASE Told(r)
    <3>1. ioDone[r] = 0 /\ pc[r] = "pending"
      BY <2>1, ServiceTold, Zenon
    <3>2. ioDone'[r] = 0 + 1
      BY <1>3, <2>1, <3>1, Zenon
    <3> QED
      BY <3>1, <3>2
  <2>2. CASE ~Told(r)
    BY <1>1, <1>3, <2>2, Zenon DEF RequestOf
  <2> QED
    BY <2>1, <2>2, Zenon
<1>9. RequestOf(r)'
  BY <1>1, <1>2, <1>4, <1>6, <1>7, <1>8, Zenon DEF RequestOf
<1>10. SplitOf(r)'
  BY <1>1, <1>2, <1>4, Zenon DEF SplitOf
<1>11. ASSUME NEW k \in DOMAIN tfer[r]
       PROVE  TransferOf(r, k)'
  <2>1. TransferOf(r, k) /\ k \in Nat \ {0}
    BY <1>1, <1>5, SeqFields, Zenon
  <2>2. /\ tfer'[r][k].first = tfer[r][k].first
        /\ tfer'[r][k].num = tfer[r][k].num
        /\ tfer'[r][k].lastInRequest = tfer[r][k].lastInRequest
    BY <1>4, Zenon DEF Alike
  <2>3. tfer'[r][k].state = "NEW" <=> tfer[r][k].state = "NEW"
    <3>0. "NEW" # "SUBMITTED" /\ "NEW" \notin {"COMPLETED", "FAILED"}
      OBVIOUS
    <3>1. CASE <<r, k>> \in Range(Ended)
      <4>1. tfer'[r][k].state = Final(<<r, k>>)
        BY <3>1, Zenon DEF Served
      <4>2. tfer[r][k].state = "SUBMITTED"
        <5>1. <<r, k>>[1] = r /\ <<r, k>>[2] = k
          OBVIOUS
        <5> QED
          BY <3>1, <5>1, EndedMember, Zenon
      <4> QED
        BY <3>0, <4>1, <4>2, FinalType, Zenon
    <3>2. CASE <<r, k>> \notin Range(Ended)
      BY <3>2, Zenon DEF Served
    <3> QED
      BY <3>1, <3>2, Zenon
  <2>4. ioDone'[r] > 0 => tfer'[r][k].state # "SUBMITTED"
    <3> SUFFICES ASSUME ioDone'[r] > 0, tfer'[r][k].state = "SUBMITTED"
                 PROVE  FALSE
      BY Zenon
    <3>1. <<r, k>> \in Range(Rest)
      <4>1. Listed(r, k)' /\ transferList' = Rest
        BY <2>1, Zenon DEF ListInv, ServiceStep
      <4> QED
        BY <1>4, <4>1, Zenon DEF Listed
    <3>2. CASE Told(r)
      <4>1. PICK n : n = Len(tfer[r])
        BY Zenon
      <4>2. <<r, n>> \in Range(Ended)
        BY <3>2, <4>1, ServiceTold, Zenon
      <4>3. <<r, n>>[1] = <<r, k>>[1] => <<r, n>>[2] < <<r, k>>[2]
        BY <3>1, <4>2, ServiceParts, Zenon DEF Parts
      <4>4. n < k
        BY <4>3
      <4>5. n \in Nat /\ k \in 1 .. n
        BY <1>5, <4>1
      <4> QED
        BY <4>4, <4>5
    <3>3. CASE ~Told(r)
      <4>1. ioDone[r] > 0
        BY <1>3, <3>3, Zenon
      <4>2. tfer[r][k].state = "SUBMITTED"
        <5>1. <<r, k>> \in Range(transferList)
          BY <3>1, ServiceParts, Zenon DEF Parts
        <5> QED
          BY <2>1, <5>1, Zenon DEF AsyncInv, ListInv, Listed
      <4> QED
        BY <2>1, <4>1, <4>2, Zenon DEF TransferOf
    <3> QED
      BY <3>2, <3>3, Zenon
  <2> QED
    BY <1>2, <1>4, <2>1, <2>2, <2>3, <2>4, Zenon DEF TransferOf
<1> QED
  BY <1>4, <1>9, <1>10, <1>11, Zenon

\* A transfer is completed only if the count covers it, and the count is what
\* was moved of it.  The engine starts the next one from its first descriptor.
LEMMA ServiceMoves ==
  ASSUME AsyncInv, ServiceStep, Served, MoveInv
  PROVE  MoveInv'
<1>1. running /\ transferList # <<>> /\ HeadOf(Xfer(Head(transferList)))
  BY Zenon DEF AsyncInv, EngineInv, ServiceStep, MoveInv
<1>2. /\ Past = 0 /\ Taken = IF hwCount = 0 THEN 0 ELSE 1
      /\ Left = hwCount /\ Head(transferList) = transferList[1]
  BY <1>1, NonePast, Zenon DEF AsyncInv
<1>3. hwCount \in Nat
  BY Zenon DEF AsyncInv, Types
<1>4. ASSUME NEW r \in Requests, NEW k \in DOMAIN tfer'[r],
             tfer'[r][k].state = "COMPLETED"
      PROVE  tfer'[r][k].moved = tfer'[r][k].num
  <2>1. k \in DOMAIN tfer[r] /\ tfer'[r][k].num = tfer[r][k].num
    BY Zenon DEF Served, Alike
  <2>2. CASE <<r, k>> \in Range(Ended)
    <3>1. tfer'[r][k].state = Final(<<r, k>>)
      BY <2>1, <2>2, Zenon DEF Served
    <3>2. PICK i \in 1 .. Taken : transferList[i] = <<r, k>>
      BY <2>2, ServiceParts, Zenon DEF Parts, Range
    <3>3. Taken = 1 /\ i = 1 /\ Past < Taken
      BY <1>2, <1>3, <3>2
    <3>4. Final(<<r, k>>) = FinalState(hwCount, <<r, k>>)
      BY <1>2, <3>2, <3>3, Zenon DEF Final
    <3>5. Xfer(<<r, k>>) = tfer[r][k]
      BY DEF Xfer
    <3>6. ~(hwCount < tfer[r][k].num)
      <4>1. "FAILED" # "COMPLETED"
        OBVIOUS
      <4> QED
        BY <1>4, <3>1, <3>4, <3>5, <4>1, Zenon DEF FinalState
    <3>7. tfer[r][k].moved = hwCount /\ hwCount <= tfer[r][k].num
      BY <1>1, <1>2, <3>2, <3>3, <3>5, Zenon DEF HeadOf
    <3>8. tfer[r][k].num \in Nat
      <4>1. tfer[r][k] \in Transfer
        BY <2>1, ElementType, Zenon DEF AsyncInv, Types
      <4> QED
        BY <4>1, TransferFields, Zenon
    <3>9. hwCount = tfer[r][k].num
      BY <1>3, <3>6, <3>7, <3>8
    <3>10. ~(running' /\ <<r, k>> = Head(Rest))
      <4>1. running' => Rest # <<>>
        BY Zenon DEF ServiceStep
      <4> QED
        BY <2>2, <4>1, RestMember, Zenon
    <3>11. tfer'[r][k].moved = tfer[r][k].moved
      BY <2>1, <3>10, Zenon DEF Served
    <3> QED
      BY <2>1, <3>7, <3>9, <3>11, Zenon
  <2>3. CASE <<r, k>> \notin Range(Ended)
    <3>1. tfer[r][k].state = "COMPLETED"
      BY <1>4, <2>1, <2>3, Zenon DEF Served
    <3>2. ~(running' /\ <<r, k>> = Head(Rest))
      <4> SUFFICES ASSUME running', <<r, k>> = Head(Rest)
                   PROVE  FALSE
        BY Zenon
      <4>1. Rest # <<>>
        BY Zenon DEF ServiceStep
      <4>2. <<r, k>> \in Range(transferList)
        BY <4>1, RestMember, ServiceParts, Zenon DEF Parts
      <4>3. Xfer(<<r, k>>).state = "SUBMITTED"
        BY <4>2, ListMember, Zenon DEF AsyncInv
      <4>4. Xfer(<<r, k>>) = tfer[r][k]
        BY DEF Xfer
      <4>5. "SUBMITTED" # "COMPLETED"
        OBVIOUS
      <4> QED
        BY <3>1, <4>3, <4>4, <4>5, Zenon
    <3>3. tfer'[r][k].moved = tfer[r][k].moved
      BY <2>1, <3>2, Zenon DEF Served
    <3> QED
      BY <2>1, <3>1, <3>3, Zenon DEF MoveInv
  <2> QED
    BY <2>2, <2>3, Zenon
<1>5. ASSUME running'
      PROVE  HeadOf(Xfer(Head(transferList)))'
  <2>1. Taken > 0 /\ Rest # <<>>
    BY <1>5, Zenon DEF ServiceStep
  <2>2. /\ EngineStart(Head(Rest)) /\ transferList' = Rest /\ hwStat' = {}
    BY <2>1, Zenon DEF ServiceStep
  <2>3. PICK a \in Requests : a = Head(Rest)[1]
    BY <2>1, RestMember, Zenon
  <2>4. PICK b \in DOMAIN tfer[a] : b = Head(Rest)[2] /\ Head(Rest) = <<a, b>>
    BY <2>1, <2>3, RestMember, Zenon
  <2>5. hwCount' = 0 /\ hwIdx' = tfer[a][b].first
    BY <2>2, <2>3, <2>4, Zenon DEF EngineStart, Xfer
  <2>6. PICK u : u = tfer'[a][b]
    BY Zenon
  <2>7. u.moved = 0
    BY <1>5, <2>4, <2>6, Zenon DEF Served
  <2>8. u.first = tfer[a][b].first
    BY <2>4, <2>6, Zenon DEF Served, Alike
  <2>9. u \in Transfer
    <3>1. tfer' \in [Requests -> Seq(Transfer)] /\ b \in DOMAIN tfer'[a]
      BY <2>4, Zenon DEF Served, Alike
    <3> QED
      BY <2>6, <3>1, ElementType, Zenon
  <2>10. u.num \in Nat \ {0} /\ u.first \in Nat
    <3>1. Slots \subseteq Nat
      BY DEF Slots
    <3> QED
      BY <2>9, <3>1, TransferFields, Zenon
  <2>11. 0 <= u.num /\ 0 < u.num /\ u.first = u.first + 0
    BY <2>10
  <2>12. Xfer(Head(transferList))' = u
    BY <2>2, <2>3, <2>4, <2>6, Zenon DEF Xfer
  <2>13. "DONE" \notin hwStat'
    BY <2>2, Zenon
  <2> QED
    BY <2>5, <2>7, <2>8, <2>11, <2>12, <2>13, Zenon DEF HeadOf
<1> QED
  BY <1>4, <1>5, Zenon DEF MoveInv

\* The bottom half keeps the invariant.
LEMMA ServiceKeeps ==
  ASSUME AsyncInv, Service
  PROVE  AsyncInv'
<1>1. ServiceStep
  BY ServiceSteps, Zenon
<1>2. Served
  BY <1>1, ServiceTransfers, Zenon
<1>3. ListInv'
  BY <1>1, <1>2, ServiceList, Zenon
<1>4. RequestInv'
  BY <1>1, <1>2, <1>3, ServiceRequests, Zenon
<1>5. ~hwBusy
  BY <1>1, Zenon DEF AsyncInv, EngineInv, ServiceStep
<1>6. hwStat' = {} /\ transferList' = Rest
      /\ UNCHANGED <<pc, size, nents, descIdx, slots, alloc, disorder, crossed>>
  BY <1>1, Zenon DEF ServiceStep
<1>7. /\ running' \in BOOLEAN /\ hwBusy' \in BOOLEAN /\ hwCount' = 0
      /\ hwBusy' => running'
      /\ running' => Rest # <<>>
      /\ hwIdx' \in Slots
  <2>1. CASE Taken > 0 /\ Rest # <<>>
    <3>1. /\ running' = TRUE /\ hwBusy' = TRUE /\ hwCount' = 0
          /\ hwIdx' = Xfer(Head(Rest)).first
      BY <1>1, <2>1, Zenon DEF ServiceStep, EngineStart
    <3>2. Xfer(Head(Rest)) \in Transfer
      BY <2>1, RestMember, ElementType, Zenon DEF AsyncInv, Types, Xfer
    <3>3. hwIdx' \in Slots
      BY <3>1, <3>2, TransferFields, Zenon
    <3> QED
      BY <2>1, <3>1, <3>3, Zenon
  <2>2. CASE ~(Taken > 0 /\ Rest # <<>>)
    <3>1. running' = FALSE /\ hwCount' = 0 /\ hwBusy' = hwBusy /\ hwIdx' = hwIdx
      BY <1>1, <2>2, Zenon DEF ServiceStep
    <3> QED
      BY <1>5, <3>1, Zenon DEF AsyncInv, Types
  <2> QED
    BY <2>1, <2>2, Zenon
<1>8. Types'
  <2>1. ioDone' \in [Requests -> Nat]
    <3>1. \A r \in Requests : ioDone[r] \in Nat /\ ioDone[r] + 1 \in Nat
      BY DEF AsyncInv, Types
    <3> QED
      BY <1>1, <3>1, Zenon DEF ServiceStep
  <2>2. transferList' \in Seq(Names)
    BY <1>6, ServiceParts, Zenon DEF Parts
  <2>3. tfer' \in [Requests -> Seq(Transfer)]
    BY <1>2, Zenon DEF Served
  <2>4. hwStat' \subseteq {"DONE", "ERR"}
    BY <1>6, Zenon
  <2>5. hwCount' \in Nat
    BY <1>7
  <2> QED
    BY <1>6, <1>7, <2>1, <2>2, <2>3, <2>4, <2>5, Zenon DEF AsyncInv, Types
<1>9. EngineInv'
  BY <1>6, <1>7, Zenon DEF AsyncInv, EngineInv
<1>10. ChainInv'
  <2> SUFFICES ASSUME ~disorder'
               PROVE  OrderInv' /\ SlotInv' /\ MoveInv'
    BY Zenon DEF ChainInv
  <2>1. Types /\ OrderInv /\ SlotInv /\ MoveInv
    BY <1>6, Zenon DEF AsyncInv, ChainInv
  <2>2. Alike(tfer, tfer')
    BY <1>2, Zenon DEF Served
  <2>3. OrderInv' /\ SlotInv'
    BY <1>6, <2>1, <2>2, OrderKept, SlotsKept, Zenon
  <2>4. MoveInv'
    BY <1>1, <1>2, <2>1, ServiceMoves, Zenon
  <2> QED
    BY <2>3, <2>4, Zenon
<1> QED
  BY <1>3, <1>4, <1>8, <1>9, <1>10, Zenon DEF AsyncInv

-----------------------------------------------------------------------------
(* xdma_xfer_completion.                                                   *)

\* A suffix of a suffix.
LEMMA SuffixOfSuffix ==
  ASSUME NEW S, NEW q \in Seq(S), NEW n \in 0 .. Len(q),
         NEW i \in 1 .. Len(q) - n
  PROVE  SubSeq(SubSeq(q, n + 1, Len(q)), i, Len(q) - n)
           = SubSeq(q, n + i, Len(q))
  OBVIOUS

Suffix(p, S, q, n) ==
  /\ p \in Seq(S) /\ Len(p) = Len(q) - n /\ DOMAIN p = 1 .. Len(q) - n
  /\ p = [i \in 1 .. Len(q) - n |-> p[i]]
  /\ \A i \in 1 .. Len(q) - n : p[i] = q[n + i]

\* What the proofs use of a suffix.
LEMMA SuffixFields ==
  ASSUME NEW S, NEW q \in Seq(S), NEW n \in 0 .. Len(q),
         NEW p, p = SubSeq(q, n + 1, Len(q))
  PROVE  Suffix(p, S, q, n)
<1>1. /\ p \in Seq(S) /\ Len(p) = Len(q) - n /\ DOMAIN p = 1 .. Len(q) - n
      /\ \A i \in 1 .. Len(q) - n : p[i] = q[n + i]
  BY SMTT(20)
<1>2. p = [i \in DOMAIN p |-> p[i]]
  BY <1>1
<1> QED
  BY <1>1, <1>2, Zenon DEF Suffix

\* r got its slots before all others.
Oldest(r) ==
  ~disorder /\ \A i \in DOMAIN alloc : alloc[i][1] = r <=> i <= Len(tfer[r])
Alone(r) == \A q \in Requests \ {r} : tfer[q] = <<>>

CompletionStep(r) ==
  /\ pc[r] = "pending" /\ ioDone[r] > 0
  /\ pc' = [pc EXCEPT ![r] = "idle"] /\ size' = [size EXCEPT ![r] = 0]
  /\ nents' = [nents EXCEPT ![r] = 0] /\ tfer' = [tfer EXCEPT ![r] = <<>>]
  /\ slots' = [i \in Slots |-> IF i \in Freed(r) THEN Empty ELSE slots[i]]
  /\ ioDone' = [ioDone EXCEPT ![r] = 0]
  /\ alloc' = IF Oldest(r) THEN SubSeq(alloc, Len(tfer[r]) + 1, Len(alloc))
              ELSE <<>>
  /\ disorder' = (~Oldest(r) /\ ~Alone(r))
  /\ crossed' = [crossed EXCEPT ![r] = FALSE]
  /\ UNCHANGED <<transferList, running, descIdx>>
  /\ UNCHANGED <<hwBusy, hwIdx, hwCount, hwStat>>

\* xdma_xfer_completion in the terms of the definitions above.
LEMMA CompletionSteps ==
  ASSUME NEW r \in Requests, Completion(r)
  PROVE  CompletionStep(r)
  BY Zenon DEF Completion, CompletionStep, Oldest, Alone, hw

\* The request's transfers are gone, the others are what they were.
Cleared(r) ==
  /\ tfer' \in [Requests -> Seq(Transfer)] /\ tfer'[r] = <<>>
  /\ DOMAIN tfer'[r] = {}
  /\ \A q \in Requests : q # r => tfer'[q] = tfer[q]
  /\ \A q \in Requests : \A k \in DOMAIN tfer'[q] : q # r /\ k \in DOMAIN tfer[q]

\* xdma_xfer_completion gives up the request's transfers and no others.
LEMMA CompletionClears ==
  ASSUME Types, NEW r \in Requests, CompletionStep(r)
  PROVE  Cleared(r)
<1>1. tfer \in [Requests -> Seq(Transfer)] /\ tfer' = [tfer EXCEPT ![r] = <<>>]
  BY Zenon DEF Types, CompletionStep
<1>2. <<>> \in Seq(Transfer) /\ DOMAIN <<>> = {}
  OBVIOUS
<1> QED
  BY <1>1, <1>2, Zenon DEF Cleared

\* The request is idle again, the others are where they were.
LEMMA CompletionRequests ==
  ASSUME AsyncInv, NEW r \in Requests, CompletionStep(r), Cleared(r)
  PROVE  RequestInv'
<1> SUFFICES ASSUME NEW q \in Requests
             PROVE  (RequestOf(q) /\ SplitOf(q)
                     /\ \A k \in DOMAIN tfer[q] : TransferOf(q, k))'
  BY Zenon DEF RequestInv
<1>1. CASE q # r
  <2>1. RequestOf(q) /\ SplitOf(q) /\ \A k \in DOMAIN tfer[q] : TransferOf(q, k)
    BY Zenon DEF AsyncInv, RequestInv
  <2>2. pc'[q] = pc[q] /\ size'[q] = size[q] /\ nents'[q] = nents[q]
        /\ tfer'[q] = tfer[q] /\ ioDone'[q] = ioDone[q]
        /\ crossed'[q] = crossed[q] /\ descIdx' = descIdx
    BY <1>1, Zenon DEF AsyncInv, Types, CompletionStep, Cleared
  <2>3. SplitOf(q)'
    BY <2>1, <2>2, Zenon DEF SplitOf
  <2> QED
    BY <2>1, <2>2, <2>3, RequestFrame, Zenon
<1>2. CASE q = r
  <2>1. pc'[r] = "idle" /\ size'[r] = 0 /\ nents'[r] = 0 /\ tfer'[r] = <<>>
        /\ ioDone'[r] = 0 /\ DOMAIN tfer'[r] = {}
    BY Zenon DEF AsyncInv, Types, CompletionStep, Cleared
  <2>2. Sum(Nums(tfer'[r])) = 0
    BY <2>1, NumsEmpty, SumEmpty, Zenon
  <2>3. 0 = 0 + 0 /\ ~(0 > 0) /\ Len(<<>>) <= 2
        /\ "idle" \notin {"init", "overflow", "queue", "pending"}
    OBVIOUS
  <2>4. RequestOf(r)'
    BY <2>1, <2>2, <2>3, Zenon DEF RequestOf
  <2>5. SplitOf(r)'
    BY <2>1, <2>3, Zenon DEF SplitOf
  <2> QED
    BY <1>2, <2>1, <2>4, <2>5, Zenon
<1> QED
  BY <1>1, <1>2, Zenon

\* io_done was called, so none of the request's transfers is on the list.
LEMMA CompletionList ==
  ASSUME AsyncInv, NEW r \in Requests, CompletionStep(r), Cleared(r)
  PROVE  ListInv'
<1>1. transferList' = transferList /\ ioDone[r] > 0
  BY Zenon DEF CompletionStep
<1>2. ASSUME NEW q \in Requests, NEW k \in Nat \ {0}
      PROVE  Listed(q, k)'
  <2>1. Listed(q, k)
    BY Zenon DEF AsyncInv, ListInv
  <2>2. CASE q # r
    BY <1>1, <2>1, <2>2, Zenon DEF Listed, Cleared
  <2>3. CASE q = r
    <3>1. k \in DOMAIN tfer[r] => tfer[r][k].state # "SUBMITTED"
      BY <1>1, Zenon DEF AsyncInv, RequestInv, TransferOf
    <3> QED
      BY <1>1, <2>1, <2>3, <3>1, Zenon DEF Listed, Cleared
  <2> QED
    BY <2>2, <2>3, Zenon
<1> QED
  BY <1>1, <1>2, Zenon DEF AsyncInv, ListInv

\* req->tfer has room for two.
LEMMA AtMostTwo ==
  ASSUME NEW n \in Nat, n <= 2
  PROVE  n = 0 \/ n = 1 \/ n = 2
  OBVIOUS

\* The slots of the oldest request are the first ones that were handed out.
LEMMA OldestFirst ==
  ASSUME AsyncInv, OrderInv, NEW r \in Requests, Oldest(r)
  PROVE  Len(tfer[r]) \in 0 .. Len(alloc)
<1>1. PICK n \in Nat : n = Len(tfer[r])
  BY DEF AsyncInv, Types
<1>2. PICK l \in Nat : l = Len(alloc)
  BY DEF AsyncInv, Types
<1>3. DOMAIN tfer[r] = 1 .. n
  BY <1>1 DEF AsyncInv, Types
<1>4. DOMAIN alloc = 1 .. l
  BY <1>2 DEF AsyncInv, Types
<1>5. n <= 2
  BY <1>1, Zenon DEF AsyncInv, RequestInv, RequestOf
<1>6. \A k \in Nat \ {0} : k \in 1 .. n => <<r, k>> \in Range(alloc)
  BY <1>3, Zenon DEF OrderInv
<1>7. \A k \in 1 .. n : \E i \in 1 .. l : alloc[i] = <<r, k>>
  <2>1. \A k \in 1 .. n : k \in Nat \ {0}
    BY <1>1
  <2> QED
    BY <1>4, <1>6, <2>1, Zenon DEF Range
<1>8. CASE n = 0
  BY <1>1, <1>2, <1>8
<1>9. CASE n = 1
  <2>1. 1 \in 1 .. n
    BY <1>9
  <2>2. PICK i \in 1 .. l : alloc[i] = <<r, 1>>
    BY <1>7, <2>1, Zenon
  <2>3. n \in 0 .. l
    BY <1>2, <1>9, <2>2
  <2> QED
    BY <1>1, <1>2, <2>3, Zenon
<1>10. CASE n = 2
  <2>1. 1 \in 1 .. n /\ 2 \in 1 .. n
    BY <1>10
  <2>2. PICK i \in 1 .. l : alloc[i] = <<r, 1>>
    BY <1>7, <2>1, Zenon
  <2>3. PICK j \in 1 .. l : alloc[j] = <<r, 2>>
    BY <1>7, <2>1, Zenon
  <2>4. i # j
    <3>1. <<r, 1>> # <<r, 2>>
      OBVIOUS
    <3> QED
      BY <2>2, <2>3, <3>1, Zenon
  <2>5. n \in 0 .. l
    BY <1>2, <1>10, <2>2, <2>3, <2>4
  <2> QED
    BY <1>1, <1>2, <2>5, Zenon
<1>11. n = 0 \/ n = 1 \/ n = 2
  BY <1>1, <1>5, AtMostTwo, Zenon
<1> QED
  BY <1>8, <1>9, <1>10, <1>11, Zenon

\* Giving back the oldest slots leaves the others in their order, up to
\* desc_idx.
LEMMA CompletionOrder ==
  ASSUME AsyncInv, OrderInv, NEW r \in Requests, CompletionStep(r), Cleared(r),
         Oldest(r)
  PROVE  OrderInv'
<1>0. Types
  BY Zenon DEF AsyncInv
<1>1. PICK n : n = Len(tfer[r])
  BY Zenon
<1>2. PICK l \in Nat : l = Len(alloc)
  BY <1>0 DEF Types
<1>3. n \in 0 .. l
  BY <1>1, <1>2, OldestFirst, Zenon
<1>4. alloc' = SubSeq(alloc, n + 1, l) /\ descIdx' = descIdx
  BY <1>1, <1>2, Zenon DEF CompletionStep
<1>5. /\ DOMAIN alloc = 1 .. l /\ Len(alloc') = l - n
      /\ DOMAIN alloc' = 1 .. l - n
      /\ \A i \in 1 .. l - n : alloc'[i] = alloc[n + i]
  <2>1. PICK a \in Seq(Names) : a = alloc
    BY <1>0, Zenon DEF Types
  <2>2. PICK b : b = SubSeq(a, n + 1, l)
    BY Zenon
  <2>3. l = Len(a)
    BY <1>2, <2>1, Zenon
  <2>4. /\ DOMAIN a = 1 .. l /\ Len(b) = l - n /\ DOMAIN b = 1 .. l - n
        /\ \A i \in 1 .. l - n : b[i] = a[n + i]
    BY <1>2, <1>3, <2>1, <2>2, <2>3
  <2> QED
    BY <1>4, <2>1, <2>2, <2>4, Zenon
<1>6. \A i \in 1 .. l - n : n + i \in 1 .. l /\ ~(n + i <= n)
  BY <1>2, <1>3
<1>7. ASSUME NEW i \in 1 .. l - n
      PROVE  /\ alloc[n + i][1] # r /\ n + i \in DOMAIN alloc
             /\ Xfer(alloc[i])' = Xfer(alloc[n + i])
  <2>1. n + i \in DOMAIN alloc /\ alloc'[i] = alloc[n + i]
    BY <1>5, <1>6, Zenon
  <2>2. alloc[n + i][1] # r
    BY <1>1, <1>6, <2>1, Zenon DEF Oldest
  <2>3. alloc[n + i][1] \in Requests
    BY <1>0, <2>1, AllocMember, Zenon
  <2>4. tfer'[alloc[n + i][1]] = tfer[alloc[n + i][1]]
    BY <2>2, <2>3, Zenon DEF Cleared
  <2> QED
    BY <2>1, <2>2, <2>4, Zenon DEF Xfer
<1>8. ASSUME NEW q \in Requests, NEW k \in Nat \ {0}
      PROVE  <<q, k>> \in Range(alloc') <=> k \in DOMAIN tfer'[q]
  <2>1. <<q, k>> \in Range(alloc) <=> k \in DOMAIN tfer[q]
    BY Zenon DEF OrderInv
  <2>2. ASSUME <<q, k>> \in Range(alloc')
        PROVE  k \in DOMAIN tfer'[q]
    <3>1. PICK i \in 1 .. l - n : alloc'[i] = <<q, k>>
      BY <1>5, <2>2, Zenon DEF Range
    <3>2. alloc[n + i] = <<q, k>> /\ alloc[n + i][1] # r /\ n + i \in DOMAIN alloc
      BY <1>5, <1>7, <3>1, Zenon
    <3>3. q # r
      BY <3>2
    <3>4. <<q, k>> \in Range(alloc)
      BY <3>2, Zenon DEF Range
    <3> QED
      BY <2>1, <3>3, <3>4, Zenon DEF Cleared
  <2>3. ASSUME k \in DOMAIN tfer'[q]
        PROVE  <<q, k>> \in Range(alloc')
    <3>1. q # r /\ k \in DOMAIN tfer[q]
      BY <2>3, Zenon DEF Cleared
    <3>2. PICK j \in 1 .. l : alloc[j] = <<q, k>>
      BY <1>5, <2>1, <3>1, Zenon DEF Range
    <3>3. alloc[j][1] = q
      BY <3>2
    <3>4. ~(j <= n)
      BY <1>1, <1>5, <3>1, <3>3, Zenon DEF Oldest
    <3>5. j - n \in 1 .. l - n /\ n + (j - n) = j
      BY <1>2, <1>3, <3>4
    <3>6. alloc'[j - n] = <<q, k>>
      BY <1>5, <3>2, <3>5, Zenon
    <3> QED
      BY <1>5, <3>5, <3>6, Zenon DEF Range
  <2> QED
    BY <2>2, <2>3, Zenon
<1>9. ASSUME NEW i \in DOMAIN alloc', NEW j \in DOMAIN alloc',
             alloc'[i] = alloc'[j]
      PROVE  i = j
  <2>1. i \in 1 .. l - n /\ j \in 1 .. l - n
    BY <1>5, Zenon
  <2>2. alloc[n + i] = alloc[n + j]
    BY <1>5, <1>9, <2>1, Zenon
  <2>3. n + i = n + j
    BY <1>7, <2>1, <2>2, Zenon DEF OrderInv
  <2> QED
    BY <1>2, <1>3, <2>1, <2>3
<1>10. PICK nums : nums = AllocNums
  BY Zenon
<1>11. /\ nums \in Seq(Nat) /\ Len(nums) = l /\ Outstanding(alloc) = Sum(nums)
       /\ \A j \in 1 .. l : nums[j] = Xfer(alloc[j]).num
  BY <1>0, <1>2, <1>5, <1>10, AllocNumsType, Zenon
<1>12. AllocNums' = SubSeq(nums, n + 1, l)
  <2>1. PICK u : u = AllocNums'
    BY Zenon
  <2>2. PICK v : v = SubSeq(nums, n + 1, l)
    BY Zenon
  <2>3. u = [i \in 1 .. l - n |-> Xfer(alloc[i])'.num]
    BY <1>5, <2>1, Zenon DEF AllocNums
  <2>4. /\ v = [i \in 1 .. l - n |-> v[i]]
        /\ \A i \in 1 .. l - n : v[i] = nums[n + i]
    <3>1. n \in 0 .. Len(nums) /\ v = SubSeq(nums, n + 1, Len(nums))
      BY <1>3, <1>11, <2>2, Zenon
    <3>2. Suffix(v, Nat, nums, n)
      BY <1>11, <3>1, SuffixFields, Zenon
    <3> QED
      BY <1>11, <3>2, Zenon DEF Suffix
  <2>5. \A i \in 1 .. l - n : Xfer(alloc[i])'.num = v[i]
    BY <1>6, <1>7, <1>11, <2>4, Zenon
  <2>6. u = v
    BY <2>3, <2>4, <2>5, Zenon
  <2> QED
    BY <2>1, <2>2, <2>6, Zenon
<1>13. Outstanding(alloc)' <= DescMax
  <2>1. Outstanding(alloc)' = Sum(SubSeq(nums, n + 1, l))
    BY <1>12, Zenon DEF Outstanding, AllocNums
  <2>2. Sum(nums) <= DescMax /\ Sum(nums) \in Nat
    BY <1>11, SumNat, Zenon DEF OrderInv
  <2>3. DescMax \in Nat
    BY AsyncAssumption
  <2>4. CASE n = l
    <3>1. SubSeq(nums, n + 1, l) = <<>>
      BY <1>2, <1>11, <2>4
    <3>2. Sum(SubSeq(nums, n + 1, l)) = 0
      BY <3>1, SumEmpty, Zenon
    <3> QED
      BY <2>1, <2>3, <3>2
  <2>5. CASE n # l
    <3>1. n + 1 \in 1 .. l
      BY <1>2, <1>3, <2>5
    <3>2. /\ Sum(SubSeq(nums, n + 1, l)) \in Nat
          /\ Sum(SubSeq(nums, n + 1, l)) <= Sum(nums)
      BY <1>11, <3>1, SumBounds, Zenon
    <3> QED
      BY <2>1, <2>2, <2>3, <3>2
  <2> QED
    BY <2>4, <2>5, Zenon
<1>14. ASSUME NEW i \in DOMAIN alloc'
       PROVE  EndsAt(i)'
  <2>1. i \in 1 .. l - n
    BY <1>5, Zenon
  <2>2. Back(i)' = Sum(SubSeq(SubSeq(nums, n + 1, l), i, l - n))
    BY <1>5, <1>12, Zenon DEF Back
  <2>3. SubSeq(SubSeq(nums, n + 1, l), i, l - n) = SubSeq(nums, n + i, l)
    BY <1>3, <1>11, <2>1, SuffixOfSuffix, Zenon
  <2>4. Back(i)' = Back(n + i)
    BY <1>2, <1>10, <2>2, <2>3, Zenon DEF Back
  <2>5. EndsAt(n + i) /\ Xfer(alloc[i])' = Xfer(alloc[n + i])
    BY <1>7, <2>1, Zenon DEF OrderInv
  <2> QED
    BY <1>4, <2>4, <2>5, Zenon DEF EndsAt
<1> QED
  BY <1>8, <1>9, <1>13, <1>14, Zenon DEF OrderInv

\* The owner of a descriptor.
LEMMA XferOf ==
  ASSUME NEW x, NEW b, NEW s, s = [xfer |-> x, last |-> b]
  PROVE  s.xfer = x
  OBVIOUS

\* transfer_destroy zeroes no descriptor of another request: each slot of a
\* transfer names it.
LEMMA CompletionSlots ==
  ASSUME AsyncInv, SlotInv, NEW r \in Requests, CompletionStep(r), Cleared(r)
  PROVE  SlotInv'
<1> SUFFICES ASSUME NEW q \in Requests, NEW k \in DOMAIN tfer'[q],
                    NEW i \in SlotsOf(tfer'[q][k])
             PROVE  slots'[i] = [xfer |-> <<q, k>>, last |->
                                   i = tfer'[q][k].first + tfer'[q][k].num - 1]
  BY Zenon DEF SlotInv, SlotOf, SlotsOf
<1>1. q # r /\ k \in DOMAIN tfer[q] /\ tfer'[q] = tfer[q]
  BY Zenon DEF Cleared
<1>2. PICK t : t = tfer[q][k]
  BY Zenon
<1>3. i \in SlotsOf(t)
  BY <1>1, <1>2, Zenon
<1>4. PICK b : b = (i = t.first + t.num - 1)
  BY Zenon
<1>5. slots[i] = [xfer |-> <<q, k>>, last |-> b]
  <2>1. SlotOf(q, k)
    BY <1>1, Zenon DEF SlotInv
  <2> QED
    BY <1>2, <1>3, <1>4, <2>1, Zenon DEF SlotOf
<1>6. i \notin Freed(r)
  <2> SUFFICES ASSUME NEW j \in DOMAIN tfer[r], i \in SlotsOf(tfer[r][j])
               PROVE  FALSE
    BY Zenon DEF Freed, Reaped
  <2>0. PICK c : c = (i = tfer[r][j].first + tfer[r][j].num - 1)
    BY Zenon
  <2>1. slots[i] = [xfer |-> <<r, j>>, last |-> c]
    BY <2>0, Zenon DEF SlotInv, SlotOf
  <2>2. slots[i].xfer = <<r, j>>
    BY <2>1, XferOf, Zenon
  <2>3. slots[i].xfer = <<q, k>>
    BY <1>5, XferOf, Zenon
  <2>4. <<r, j>> # <<q, k>>
    BY <1>1
  <2> QED
    BY <2>2, <2>3, <2>4, Zenon
<1>7. i \in Slots
  <2>1. TransferOf(q, k)
    BY <1>1, Zenon DEF AsyncInv, RequestInv
  <2>2. t \in Transfer
    BY <1>1, <1>2, ElementType, Zenon DEF AsyncInv, Types
  <2>3. t.first \in 0 .. DescMax - 1 /\ t.num \in Nat
    BY <2>2, TransferFields, Zenon DEF Slots
  <2>4. t.first + t.num <= DescMax
    BY <1>2, <2>1, Zenon DEF TransferOf
  <2>5. i \in t.first .. t.first + t.num - 1
    BY <1>3, Zenon DEF SlotsOf
  <2>6. DescMax \in Nat
    BY AsyncAssumption
  <2> QED
    BY <2>3, <2>4, <2>5, <2>6 DEF Slots
<1>8. slots'[i] = slots[i]
  BY <1>6, <1>7, Zenon DEF CompletionStep
<1> QED
  BY <1>1, <1>2, <1>4, <1>5, <1>8, Zenon

\* xdma_xfer_completion keeps the invariant: out of disorder the oldest request
\* goes, or there is no other.
LEMMA CompletionKeeps ==
  ASSUME AsyncInv, NEW r \in Requests, Completion(r)
  PROVE  AsyncInv'
<1>1. CompletionStep(r)
  BY CompletionSteps, Zenon
<1>2. Cleared(r)
  BY <1>1, CompletionClears, Zenon DEF AsyncInv
<1>3. RequestInv' /\ ListInv'
  BY <1>1, <1>2, CompletionRequests, CompletionList, Zenon
<1>4. /\ slots' = [i \in Slots |-> IF i \in Freed(r) THEN Empty ELSE slots[i]]
      /\ UNCHANGED <<transferList, running, descIdx>>
      /\ UNCHANGED <<hwBusy, hwIdx, hwCount, hwStat>>
  BY <1>1, Zenon DEF CompletionStep
<1>5. Types'
  <2>1. "idle" \in {"idle", "init", "queue", "pending", "overflow"} /\ 0 \in Nat
    OBVIOUS
  <2>2. /\ pc' \in [Requests -> {"idle", "init", "queue", "pending", "overflow"}]
        /\ size' \in [Requests -> Nat] /\ nents' \in [Requests -> Nat]
        /\ ioDone' \in [Requests -> Nat] /\ crossed' \in [Requests -> BOOLEAN]
    BY <1>1, <2>1, Zenon DEF AsyncInv, Types, CompletionStep
  <2>3. slots' \in [Slots -> {Empty} \cup [xfer : Names, last : BOOLEAN]]
    BY <1>4, Zenon DEF AsyncInv, Types
  <2>4. alloc' \in Seq(Names)
    <3>1. PICK n \in Nat : n = Len(tfer[r])
      BY DEF AsyncInv, Types
    <3>2. SubSeq(alloc, n + 1, Len(alloc)) \in Seq(Names) /\ <<>> \in Seq(Names)
      <4>1. PICK a \in Seq(Names) : a = alloc
        BY Zenon DEF AsyncInv, Types
      <4>2. SubSeq(a, n + 1, Len(a)) \in Seq(Names) /\ <<>> \in Seq(Names)
        BY <3>1, <4>1
      <4> QED
        BY <4>1, <4>2, Zenon
    <3> QED
      BY <1>1, <3>1, <3>2, Zenon DEF CompletionStep
  <2>5. disorder' \in BOOLEAN /\ tfer' \in [Requests -> Seq(Transfer)]
    BY <1>1, <1>2, Zenon DEF CompletionStep, Cleared
  <2> QED
    BY <1>4, <2>2, <2>3, <2>4, <2>5, Zenon DEF AsyncInv, Types
<1>6. EngineInv'
  <2>1. DescMax - 1 \in Slots
    BY AsyncAssumption DEF Slots
  <2>2. slots'[DescMax - 1] # Empty => slots'[DescMax - 1] = slots[DescMax - 1]
    BY <1>4, <2>1, Zenon
  <2> QED
    BY <1>4, <2>2, Zenon DEF AsyncInv, EngineInv
<1>7. running' => /\ Head(transferList)[1] \in Requests
                  /\ Head(transferList)[2] \in DOMAIN tfer'[Head(transferList)[1]]
  <2> SUFFICES ASSUME running'
               PROVE  /\ Head(transferList)[1] \in Requests
                      /\ Head(transferList)[2]
                           \in DOMAIN tfer'[Head(transferList)[1]]
    BY Zenon
  <2>1. PICK x : x = Head(transferList)
    BY Zenon
  <2>2. x \in Range(transferList)
    BY <1>4, <2>1, HeadMember, Zenon DEF AsyncInv, EngineInv
  <2>3. x[1] \in Requests /\ x[2] \in Nat \ {0} /\ x = <<x[1], x[2]>>
    BY <2>2, ListMember, Zenon DEF AsyncInv
  <2>4. Listed(x[1], x[2])'
    BY <1>3, <2>3, Zenon DEF ListInv
  <2> QED
    BY <1>4, <2>1, <2>2, <2>3, <2>4, Zenon DEF Listed
<1>8. ASSUME Oldest(r)
      PROVE  OrderInv' /\ SlotInv' /\ MoveInv'
  <2>1. OrderInv /\ SlotInv /\ MoveInv
    BY <1>8, Zenon DEF Oldest, AsyncInv, ChainInv
  <2>2. OrderInv' /\ SlotInv'
    BY <1>1, <1>2, <1>8, <2>1, CompletionOrder, CompletionSlots, Zenon
  <2>3. \A q \in Requests : \A k \in DOMAIN tfer'[q] :
          k \in DOMAIN tfer[q] /\ tfer'[q] = tfer[q]
    BY <1>2, Zenon DEF Cleared
  <2>4. \A q \in Requests : \A k \in DOMAIN tfer'[q] :
          tfer'[q][k].state = "COMPLETED" => tfer'[q][k].moved = tfer'[q][k].num
    BY <2>1, <2>3, Zenon DEF MoveInv
  <2>5. running' => HeadOf(Xfer(Head(transferList)))'
    <3> SUFFICES ASSUME running'
                 PROVE  HeadOf(Xfer(Head(transferList)))'
      BY Zenon
    <3>1. Xfer(Head(transferList))' = Xfer(Head(transferList))
      BY <1>4, <1>7, <2>3, Zenon DEF Xfer
    <3>2. HeadOf(Xfer(Head(transferList)))
      BY <1>4, <2>1, Zenon DEF MoveInv
    <3> QED
      BY <1>4, <3>1, <3>2, Zenon DEF HeadOf
  <2>6. MoveInv'
    BY <2>4, <2>5, Zenon DEF MoveInv
  <2> QED
    BY <2>2, <2>6, Zenon
<1>9. ASSUME ~Oldest(r), Alone(r)
      PROVE  OrderInv' /\ SlotInv' /\ MoveInv'
  <2>1. \A q \in Requests : DOMAIN tfer'[q] = {}
    <3>1. DOMAIN <<>> = {}
      OBVIOUS
    <3> QED
      BY <1>2, <1>9, <3>1, Zenon DEF Cleared, Alone
  <2>2. alloc' = <<>>
    BY <1>1, <1>9, Zenon DEF CompletionStep
  <2>3. DOMAIN alloc' = {} /\ Range(alloc') = {}
    BY <2>2 DEF Range
  <2>4. Outstanding(alloc)' <= DescMax
    <3>1. [i \in DOMAIN <<>> |-> Xfer(<<>>[i])'.num] = <<>>
      OBVIOUS
    <3>2. Outstanding(alloc)' = 0
      BY <2>2, <3>1, SumEmpty, Zenon DEF Outstanding
    <3> QED
      BY <3>2, AsyncAssumption
  <2>5. OrderInv'
    BY <2>1, <2>3, <2>4, Zenon DEF OrderInv
  <2>6. SlotInv' /\ MoveInv'
    BY <1>7, <2>1, Zenon DEF SlotInv, MoveInv
  <2> QED
    BY <2>5, <2>6, Zenon
<1>10. ChainInv'
  <2>1. ~disorder' => Oldest(r) \/ Alone(r)
    BY <1>1, Zenon DEF CompletionStep
  <2> QED
    BY <1>8, <1>9, <2>1, Zenon DEF ChainInv
<1> QED
  BY <1>3, <1>5, <1>6, <1>10, Zenon DEF AsyncInv

-----------------------------------------------------------------------------
(* The theorems.                                                           *)

\* Every step keeps the invariant.
LEMMA AsyncStep ==
  ASSUME AsyncInv, [Next]_vars
  PROVE  AsyncInv'
<1>1. ASSUME NEW r \in Requests, Submit(r) \/ TransferInit(r) \/ TferOverflow(r)
                                 \/ TransferQueue(r) \/ Completion(r)
      PROVE  AsyncInv'
  BY <1>1, SubmitKeeps, TransferInitKeeps, TferOverflowKeeps, TransferQueueKeeps,
     CompletionKeeps, Zenon
<1>2. CASE HwDescriptor
  BY <1>2, HwDescriptorKeeps, Zenon
<1>3. CASE HwError
  BY <1>3, HwErrorKeeps, Zenon
<1>4. CASE Service
  BY <1>4, ServiceKeeps, Zenon
<1>5. CASE UNCHANGED vars
  <2>1. /\ UNCHANGED <<pc, size, nents, tfer>>
        /\ UNCHANGED <<transferList, running, descIdx, slots>>
        /\ UNCHANGED <<hwBusy, hwIdx, hwCount, hwStat>>
        /\ UNCHANGED <<ioDone, alloc, disorder, crossed>>
    BY <1>5, Zenon DEF vars, reqs, engine, hw, hist
  <2>2. Types'
    BY <2>1, Zenon DEF AsyncInv, Types
  <2>3. RequestInv'
    <3> SUFFICES ASSUME NEW r \in Requests
                 PROVE  (RequestOf(r) /\ SplitOf(r)
                         /\ \A k \in DOMAIN tfer[r] : TransferOf(r, k))'
      BY Zenon DEF RequestInv
    <3>1. RequestOf(r) /\ SplitOf(r) /\ \A k \in DOMAIN tfer[r] : TransferOf(r, k)
      BY Zenon DEF AsyncInv, RequestInv
    <3>2. SplitOf(r)'
      BY <2>1, <3>1, Zenon DEF SplitOf
    <3> QED
      BY <2>1, <3>1, <3>2, RequestFrame, Zenon
  <2>4. ListInv' /\ EngineInv'
    BY <2>1, Zenon DEF AsyncInv, ListInv, Listed, EngineInv
  <2>5. ASSUME ~disorder'
        PROVE  OrderInv' /\ SlotInv' /\ MoveInv'
    <3>1. Types /\ OrderInv /\ SlotInv /\ MoveInv
      BY <2>1, <2>5, Zenon DEF AsyncInv, ChainInv
    <3>2. Alike(tfer, tfer')
      BY <2>1, Zenon DEF Alike
    <3>3. OrderInv' /\ SlotInv'
      BY <2>1, <3>1, <3>2, OrderKept, SlotsKept, Zenon
    <3>4. MoveInv'
      BY <2>1, <3>1, Zenon DEF MoveInv, HeadOf, Xfer
    <3> QED
      BY <3>3, <3>4, Zenon
  <2> QED
    BY <2>2, <2>3, <2>4, <2>5, Zenon DEF AsyncInv, ChainInv
<1> QED
  BY <1>1, <1>2, <1>3, <1>4, <1>5, Zenon DEF Next

\* For any number of clients, any desc_max and any request sizes: while slots
\* are handed out and given back in order, the slots from each transfer on end
\* at desc_idx, each slot names its transfer, and the hardware runs the chain of
\* the first transfer in the list.
THEOREM AsyncCorrect == Spec => []AsyncInv
  BY AsyncInitially, AsyncStep, PTL DEF Spec

\* Chains stay inside the descriptor array, and the transfers of a request add
\* up to what it asked for, disorder or not.
THEOREM AsyncTypes == Spec => []TypeOK
<1>1. AsyncInv => TypeOK
  <2> SUFFICES ASSUME AsyncInv
               PROVE  TypeOK
    OBVIOUS
  <2>1. ASSUME NEW r \in Requests, NEW k \in DOMAIN tfer[r]
        PROVE  tfer[r][k].state \in States /\ SlotsOf(tfer[r][k]) \subseteq Slots
    <3>1. PICK t : t = tfer[r][k]
      BY Zenon
    <3>2. t \in Transfer
      BY <3>1, ElementType, Zenon DEF AsyncInv, Types
    <3>3. t.state \in States /\ t.first \in 0 .. DescMax - 1 /\ t.num \in Nat
      BY <3>2, TransferFields, Zenon DEF Slots
    <3>4. t.first + t.num <= DescMax
      BY <3>1, Zenon DEF AsyncInv, RequestInv, TransferOf
    <3>5. DescMax \in Nat
      BY AsyncAssumption
    <3>6. SlotsOf(t) \subseteq Slots
      BY <3>3, <3>4, <3>5 DEF Slots, SlotsOf
    <3> QED
      BY <3>1, <3>3, <3>6, Zenon
  <2>2. \A r \in Requests :
          size[r] = nents[r] + Sum([k \in DOMAIN tfer[r] |-> tfer[r][k].num])
    BY Zenon DEF AsyncInv, RequestInv, RequestOf, Nums
  <2> QED
    BY <2>1, <2>2, Zenon DEF TypeOK, AsyncInv, Types
<1> QED
  BY <1>1, AsyncCorrect, PTL

\* transfer_init never hands out, and transfer_destroy never zeroes, a
\* descriptor of a transfer that is still to be served (except in disorder).
THEOREM ChainsStayIntact == Spec => []ChainsIntact
<1>1. AsyncInv => ChainsIntact
  <2> SUFFICES ASSUME AsyncInv, NEW x \in Range(transferList),
                      NEW i \in SlotsOf(Xfer(x)), ~disorder
               PROVE  slots[i] =
                        [xfer |-> x, last |-> i = Xfer(x).first + Xfer(x).num - 1]
    BY Zenon DEF ChainsIntact
  <2>1. x = <<x[1], x[2]>> /\ x[1] \in Requests /\ x[2] \in DOMAIN tfer[x[1]]
    BY ListMember, Zenon DEF AsyncInv
  <2>2. SlotOf(x[1], x[2])
    BY <2>1, Zenon DEF AsyncInv, ChainInv, SlotInv
  <2> QED
    BY <2>1, <2>2, Zenon DEF SlotOf, Xfer
<1> QED
  BY <1>1, AsyncCorrect, PTL

\* engine_service completes a transfer only when the engine has moved all its
\* descriptors (except in disorder).
THEOREM AsyncTransfersAreMoved == Spec => []AsyncIsMoved
<1>1. AsyncInv => AsyncIsMoved
  BY Zenon DEF AsyncInv, ChainInv, MoveInv, AsyncIsMoved
<1> QED
  BY <1>1, AsyncCorrect, PTL

\* io_done comes once, after everything of the request has been queued, and
\* when nothing of it is left on the engine's list, disorder or not.
THEOREM CallbackComesLast == Spec => []CallbackAfterAll
<1>1. AsyncInv => CallbackAfterAll
  <2> SUFFICES ASSUME AsyncInv, NEW r \in Requests, ioDone[r] > 0
               PROVE  /\ ioDone[r] = 1 /\ nents[r] = 0
                      /\ \A k \in DOMAIN tfer[r] :
                           /\ <<r, k>> \notin Range(transferList)
                           /\ tfer[r][k].state \in {"COMPLETED", "FAILED"}
    BY Zenon DEF CallbackAfterAll
  <2>1. RequestOf(r)
    BY Zenon DEF AsyncInv, RequestInv
  <2>2. ioDone[r] = 1 /\ pc[r] = "pending" /\ nents[r] = 0
    BY <2>1, Zenon DEF RequestOf
  <2>3. ASSUME NEW k \in DOMAIN tfer[r]
        PROVE  /\ <<r, k>> \notin Range(transferList)
               /\ tfer[r][k].state \in {"COMPLETED", "FAILED"}
    <3>1. TransferOf(r, k)
      BY Zenon DEF AsyncInv, RequestInv
    <3>2. "pending" # "queue"
      OBVIOUS
    <3>3. tfer[r][k].state # "SUBMITTED" /\ tfer[r][k].state # "NEW"
      BY <2>2, <3>1, <3>2, Zenon DEF TransferOf
    <3>4. tfer[r] \in Seq(Transfer)
      BY Zenon DEF AsyncInv, Types
    <3>5. k \in Nat \ {0}
      BY <3>4, SeqFields, Zenon
    <3>6. <<r, k>> \notin Range(transferList)
      BY <3>3, <3>5, Zenon DEF AsyncInv, ListInv, Listed
    <3>7. tfer[r][k].state \in States
      BY ElementType, TransferFields, Zenon DEF AsyncInv, Types
    <3> QED
      BY <3>3, <3>6, <3>7, Zenon DEF States
  <2> QED
    BY <2>2, <2>3, Zenon
<1> QED
  BY <1>1, AsyncCorrect, PTL

\* A request of at most desc_max + 1 descriptors needs no third transfer unless
\* transfer_init served another request in between.
THEOREM TwoTransfersSufficeUncrossed == Spec => []TwoSufficeUncrossed
<1>1. AsyncInv => TwoSufficeUncrossed
  <2> SUFFICES ASSUME AsyncInv, NEW r \in Requests, pc[r] = "overflow",
                      ~crossed[r]
               PROVE  size[r] > DescMax + 1
    BY Zenon DEF TwoSufficeUncrossed
  <2>1. RequestOf(r) /\ SplitOf(r)
    BY Zenon DEF AsyncInv, RequestInv
  <2>2. nents[r] > 0 /\ Len(tfer[r]) = 2
    BY <2>1, Zenon DEF RequestOf
  <2> QED
    BY <2>1, <2>2, Zenon DEF SplitOf
<1> QED
  BY <1>1, AsyncCorrect, PTL

\* A step after which a stopped engine has work in its list is engine_service
\* that sees an error and no completed descriptor.
LEMMA LeftByError ==
  ASSUME AsyncInv, [Next]_vars, ~Stalled, Stalled'
  PROVE  hwCount = 0 /\ "ERR" \in hwStat
<1>1. Stalled' => ~running' /\ transferList' # <<>>
  BY Zenon DEF Stalled
<1>2. running \/ transferList = <<>>
  BY Zenon DEF Stalled
<1>3. ASSUME UNCHANGED <<running, transferList>>
      PROVE  FALSE
  BY <1>1, <1>2, <1>3, Zenon
<1>4. ASSUME NEW r \in Requests, TransferQueue(r)
      PROVE  FALSE
  <2>1. running'
    BY <1>4, Zenon DEF TransferQueue, EngineStart
  <2> QED
    BY <1>1, <2>1, Zenon
<1>5. ASSUME NEW r \in Requests, Submit(r) \/ TransferInit(r) \/ TferOverflow(r)
                                 \/ Completion(r)
      PROVE  FALSE
  BY <1>3, <1>5, Zenon DEF Submit, TransferInit, TferOverflow, Completion, engine
<1>6. CASE HwDescriptor \/ HwError \/ UNCHANGED vars
  BY <1>3, <1>6, Zenon DEF HwDescriptor, HwError, engine, vars
<1>7. CASE Service
  <2>1. ServiceStep
    BY <1>7, ServiceSteps, Zenon
  <2>2. Rest # <<>> /\ ~(Taken > 0)
    BY <1>1, <2>1, Zenon DEF ServiceStep, EngineStart
  <2>3. hwStat # {} /\ hwStat \subseteq {"DONE", "ERR"} /\ transferList # <<>>
    BY <2>1, Zenon DEF AsyncInv, Types, EngineInv, ServiceStep
  <2>4. PICK l \in Nat : l = Len(transferList) /\ l # 0
    BY <2>3 DEF AsyncInv, Types
  <2>5. PICK p : p = Past
    BY Zenon
  <2>6. p \in 0 .. l
    BY <2>4, <2>5, PastType, Zenon DEF AsyncInv
  <2>7. PICK n : n = Taken
    BY Zenon
  <2>8. n = IF hwCount = 0 THEN 0 ELSE IF p < l THEN p + 1 ELSE p
    BY <2>4, <2>5, <2>7, Zenon DEF Taken
  <2>9. ~(n > 0)
    BY <2>2, <2>7, Zenon
  <2>10. hwCount = 0
    BY <2>4, <2>6, <2>8, <2>9
  <2>11. "DONE" \notin hwStat
    <3>1. ~(hwCount > 0)
      BY <2>10
    <3> QED
      BY <3>1, Zenon DEF AsyncInv, EngineInv
  <2> QED
    BY <2>3, <2>10, <2>11, Zenon
<1> QED
  BY <1>4, <1>5, <1>6, <1>7, Zenon DEF Next

\* Nothing else leaves the engine stopped with transfers in its list.
THEOREM StallOnlyByError == Spec => LeftBehindOnlyByError
<1>1. AsyncInv /\ [Next]_vars =>
        [~Stalled /\ Stalled' => hwCount = 0 /\ "ERR" \in hwStat]_vars
  BY LeftByError, Zenon
<1> QED
  BY <1>1, AsyncCorrect, PTL DEF Spec, LeftBehindOnlyByError
=============================================================================
