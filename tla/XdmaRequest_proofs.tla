------------------------- MODULE XdmaRequest_proofs -------------------------
(***************************************************************************)
(* Proofs about XdmaRequest, for lists, apertures and descriptor arrays of *)
(* every size.                                                             *)
(*                                                                         *)
(* The invariant of the runs is not inductive.  RequestInv adds where each *)
(* loop stands: the pieces cut so far and the rest of the entry are the    *)
(* entries so far (CutInv), with room left for the rest; transfer_build    *)
(* has copied the first pieces (BuildInv); offset, sg_offset and the end   *)
(* point address name one place, that of the next byte (PlaceInv).  The    *)
(* places are sums of lengths.  What the proofs need of them, and of       *)
(* quotients and remainders, comes first.                                  *)
(***************************************************************************)
EXTENDS XdmaRequest, WellFoundedInduction, SequenceTheorems, TLAPS

Pcs == {"idle", "init", "submit", "build", "aperture", "entry", "fill",
        "overrun"}
Submitting == {"init", "submit", "build"}
Filling == {"entry", "fill"}
Apart == {"aperture", "entry", "fill", "overrun"}

SwDesc == [addr : Nat, len : 1 .. BlenMax]
Desc == [addr : Nat, len : 1 .. BlenMax, ep : Nat]

\* The bytes of d are those of one entry, from place n of the list on.
LiesIn(lens, d, n) ==
  \E i \in DOMAIN lens :
    /\ Upto(lens)[i - 1] <= n /\ n + d.len <= Upto(lens)[i]
    /\ d.addr = Addr(i) + n - Upto(lens)[i - 1]

\* Descriptors, one behind the other, hold the bytes of the list in order.
LieIn(lens, descs) ==
  \A k \in DOMAIN descs : LiesIn(lens, descs[k], Upto(Lens(descs))[k - 1])

\* transfer_build copied the first pieces.
Copies(descs, pieces) ==
  \A k \in DOMAIN descs :
    /\ descs[k].addr = pieces[k].addr /\ descs[k].len = pieces[k].len
    /\ descs[k].ep = EpAddr + Upto(Lens(pieces))[k - 1]

\* No descriptor leaves the aperture.
InAperture(size, descs) ==
  \A k \in DOMAIN descs :
    /\ descs[k].ep >= EpAddr
    /\ descs[k].ep + descs[k].len <= EpAddr + size

\* End points follow the bytes, counted anew behind the aperture.
EpsFollow(size, descs) ==
  \A k \in DOMAIN descs :
    descs[k].ep = EpAddr + (Upto(Lens(descs))[k - 1] % size)

\* The room that the entries get beyond one descriptor each.
Extras(lens) == [i \in DOMAIN lens |-> Extra(lens[i])]

\* The descriptors that a rest of an entry still needs.
Need(len) == (len + BlenMax - 1) \div BlenMax

Types ==
  /\ pc \in Pcs
  /\ sgl \in Lists \cup {<<>>} /\ aperture \in Apertures \cup {0}
  /\ sdesc \in Seq(SwDesc) /\ built \in Seq(Desc)
  /\ swDescIdx \in Nat /\ sgIdx \in 0 .. Len(sgl) /\ sg \in Nat
  /\ sgOffset \in 0 .. Wrap - 1 /\ offset \in 0 .. Wrap - 1
  /\ addr \in Nat /\ tlen \in 0 .. Wrap - 1 /\ epAddr \in Nat
  /\ descCnt \in Nat /\ descIdx \in 0 .. DescMax - 1
  /\ chain \in [first : Nat, num : Nat]
  /\ misled \in BOOLEAN
  /\ pc # "idle" => sgl \in Lists
  /\ pc \in Submitting => aperture = 0 /\ ~misled
  /\ pc \in Apart => aperture \in Apertures /\ sdesc = <<>> /\ swDescIdx = 0

\* The variables between two requests.
IdleInv ==
  pc = "idle" =>
    /\ sgl = <<>> /\ aperture = 0 /\ sdesc = <<>> /\ built = <<>>
    /\ swDescIdx = 0 /\ sgIdx = 0 /\ sg = 0 /\ sgOffset = 0 /\ offset = 0
    /\ addr = 0 /\ tlen = 0 /\ epAddr = 0 /\ descCnt = 0
    /\ chain = NoChain /\ ~misled

\* The descriptors of a chain lie in the array.
ChainInv ==
  /\ descCnt <= DescMax
  /\ pc \in Filling \cup {"build"} => descIdx + descCnt <= DescMax
  /\ chain.first + chain.num <= DescMax
  /\ chain # NoChain => chain.num > 0 \/ pc = "overrun"

\* xdma_init_request: the pieces and what is left of an entry are the entries
\* so far, and there is room for what is left.
CutInv ==
  pc \in Submitting =>
    /\ LieIn(sgl, sdesc)
    /\ TotalLen(Lens(sdesc)) + tlen = Upto(sgl)[sgIdx]
    /\ tlen > 0 => /\ sgIdx > 0 /\ tlen <= sgl[sgIdx]
                   /\ addr = Addr(sgIdx) + sgl[sgIdx] - tlen
    /\ Len(sdesc) + Need(tlen) <= sgIdx + Upto(Extras(sgl))[sgIdx]
    /\ pc = "init" => built = <<>> /\ swDescIdx = 0 /\ epAddr = EpAddr
    /\ pc # "init" => tlen = 0 /\ sgIdx = Len(sgl)

\* transfer_build copies one piece after the other.
BuildInv ==
  pc \in {"submit", "build"} =>
    /\ Len(built) = swDescIdx + IF pc = "build" THEN descCnt ELSE 0
    /\ swDescIdx <= Len(sdesc)
    /\ pc = "build" => swDescIdx < Len(sdesc) /\ descCnt <= Chunk
    /\ epAddr = EpAddr + Upto(Lens(sdesc))[Len(built)]
    /\ Copies(built, sdesc)

\* xdma_xfer_aperture, however its entries are taken.
FillInv ==
  pc \in Apart =>
    /\ pc \in Filling => /\ epAddr >= EpAddr /\ epAddr <= EpAddr + aperture
                         /\ sg \in 1 .. sgIdx + 1
    /\ pc = "fill" => sgIdx < Len(sgl)
    /\ InAperture(aperture, built)
    /\ Len(sgl) <= 1 => ~misled
    /\ pc = "overrun" => misled

\* The end point address of place n, or the one behind the aperture.
EpOf(ep, size, n) ==
  \/ ep = EpAddr + (n % size)
  \/ ep = EpAddr + size /\ n % size = 0

\* And when the right ones are taken: offset and sg_offset name one place, that
\* of the next byte.
PlaceInv ==
  pc \in Filling \cup {"aperture"} /\ ~misled =>
    /\ LieIn(sgl, built) /\ EpsFollow(aperture, built)
    /\ offset = TotalLen(Lens(built))
    /\ offset = Upto(sgl)[sgIdx] + sgOffset
    /\ pc # "fill" => IF sgIdx < Len(sgl) THEN sgOffset < sgl[sgIdx + 1]
                                          ELSE sgOffset = 0
    /\ pc = "fill" => /\ sgOffset + tlen = sgl[sgIdx + 1]
                      /\ addr = Addr(sgIdx + 1) + sgOffset
    /\ pc \in Filling => /\ sg = sgIdx + 1 /\ EpOf(epAddr, aperture, offset)
                         /\ descCnt = 0 => offset < TotalLen(sgl)

RequestInv ==
  Types /\ IdleInv /\ ChainInv /\ CutInv /\ BuildInv /\ FillInv /\ PlaceInv

-----------------------------------------------------------------------------
(* Sums of lengths.                                                        *)

\* A set of naturals that is not empty has a least element.
LEMMA LeastOf ==
  ASSUME NEW S \in SUBSET Nat, S # {}
  PROVE  \E t \in S : \A u \in S : t <= u
<1>1. PICK t \in S : \A u \in S : ~(<<u, t>> \in OpToRel(<, Nat))
  BY NatLessThanWellFounded, WFMin, Zenon
<1>2. \A u \in S : ~(u < t)
  <2> TAKE u \in S
  <2>1. <<u, t>> \in Nat \X Nat /\ <<u, t>>[1] = u /\ <<u, t>>[2] = t
    OBVIOUS
  <2>2. u < t => <<u, t>> \in OpToRel(<, Nat)
    BY <2>1, Zenon DEF OpToRel
  <2> QED
    BY <1>1, <2>2, Zenon
<1>3. \A u \in S : t <= u
  BY <1>2
<1> QED
  BY <1>3, Zenon

\* f gives the sums of the first n elements of q.
Sums(f, q, m) ==
  /\ f \in [0 .. m -> Nat] /\ f[0] = 0
  /\ \A n \in 1 .. m : f[n] = f[n - 1] + q[n]

\* There is such a function: the recursion of Upto is well defined.
LEMMA SumsExist ==
  ASSUME NEW q \in Seq(Nat), NEW m \in 0 .. Len(q)
  PROVE  \E f : Sums(f, q, m)
<1> DEFINE S == {n \in 0 .. Len(q) : ~ \E f : Sums(f, q, n)}
<1> SUFFICES ASSUME S # {}
             PROVE  FALSE
  BY Zenon
<1>1. PICK n \in S : \A u \in S : n <= u
  <2>1. S \in SUBSET Nat
    OBVIOUS
  <2> HIDE DEF S
  <2> QED
    BY <2>1, LeastOf, Zenon
<1>2. CASE n = 0
  <2>1. Sums([i \in 0 .. 0 |-> 0], q, 0)
    BY DEF Sums
  <2> QED
    BY <1>2, <2>1, Zenon
<1>3. CASE n # 0
  <2>1. n \in 1 .. Len(q) /\ n - 1 \in 0 .. Len(q) /\ ~(n <= n - 1)
    BY <1>3
  <2>2. PICK f : Sums(f, q, n - 1)
    BY <1>1, <2>1, Zenon
  <2> DEFINE g == [i \in 0 .. n |-> IF i = n THEN f[n - 1] + q[n] ELSE f[i]]
  <2>3. q[n] \in Nat /\ f \in [0 .. n - 1 -> Nat] /\ f[n - 1] \in Nat
    BY <2>1, <2>2 DEF Sums
  <2>4. g \in [0 .. n -> Nat] /\ g[0] = 0
    BY <2>1, <2>2, <2>3, SMTT(20) DEF Sums
  <2>5. ASSUME NEW i \in 1 .. n
        PROVE  g[i] = g[i - 1] + q[i]
    <3>1. i - 1 \in 0 .. n /\ i \in 0 .. n /\ i - 1 # n
      BY <2>1
    <3>2. g[i - 1] = f[i - 1]
      BY <3>1, Zenon
    <3>3. CASE i = n
      BY <3>1, <3>2, <3>3, Zenon
    <3>4. CASE i # n
      <4>1. i \in 1 .. n - 1
        BY <2>1, <3>4
      <4>2. f[i] = f[i - 1] + q[i]
        BY <2>2, <4>1, Zenon DEF Sums
      <4>3. g[i] = f[i]
        BY <3>1, <3>4, Zenon
      <4> QED
        BY <3>2, <4>2, <4>3, Zenon
    <3> QED
      BY <3>3, <3>4, Zenon
  <2>6. Sums(g, q, n)
    BY <2>4, <2>5, Zenon DEF Sums
  <2> QED
    BY <2>6, Zenon
<1> QED
  BY <1>2, <1>3, Zenon

\* q and r start with the same m elements.
SameStart(q, r, m) == \A n \in 1 .. m : q[n] = r[n]

\* f and g have the same values up to m.
SameUpto(f, g, m) == \A n \in 0 .. m : f[n] = g[n]

\* Two functions that sum up sequences with the same first m elements agree.
LEMMA SumsAgree ==
  ASSUME NEW q, NEW r, NEW f, NEW g, NEW m \in Nat, NEW a \in Nat, NEW b \in Nat,
         Sums(f, q, a), Sums(g, r, b), m <= a, m <= b,
         SameStart(q, r, m)
  PROVE  SameUpto(f, g, m)
<1> DEFINE S == {n \in 0 .. m : f[n] # g[n]}
<1> SUFFICES ASSUME S # {}
             PROVE  FALSE
  BY Zenon DEF SameUpto
<1>1. PICK n \in S : \A u \in S : n <= u
  <2>1. S \in SUBSET Nat
    OBVIOUS
  <2> HIDE DEF S
  <2> QED
    BY <2>1, LeastOf, Zenon
<1>2. f[0] = g[0]
  BY Zenon DEF Sums
<1>3. n # 0
  BY <1>1, <1>2, Zenon
<1>4. n \in 1 .. m /\ n \in 1 .. a /\ n \in 1 .. b /\ n - 1 \in 0 .. m
      /\ ~(n <= n - 1)
  BY <1>1, <1>3
<1>5. f[n - 1] = g[n - 1]
  BY <1>1, <1>4, Zenon
<1>6. f[n] = f[n - 1] + q[n] /\ g[n] = g[n - 1] + r[n] /\ q[n] = r[n]
  BY <1>4, Zenon DEF Sums, SameStart
<1> QED
  BY <1>1, <1>5, <1>6, Zenon

\* Upto is that function.
LEMMA UptoFacts ==
  ASSUME NEW q \in Seq(Nat)
  PROVE  Sums(Upto(q), q, Len(q))
<1>1. PICK m \in Nat : m = Len(q)
  OBVIOUS
<1>2. m \in 0 .. m
  OBVIOUS
<1>3. PICK f : Sums(f, q, m)
  BY <1>1, <1>2, SumsExist, Zenon
<1> DEFINE u(h) == [n \in 0 .. Len(q) |-> IF n = 0 THEN 0
                                          ELSE h[n - 1] + q[n]]
           up == CHOOSE h : h = u(h)
<1>4. f = u(f)
  BY <1>1, <1>3 DEF Sums
<1>5. up = u(up)
  <2> HIDE DEF u
  <2> QED
    BY <1>4, Zenon
<1>6. Upto(q) = up
  BY Zenon DEF Upto
<1>7. \A n \in 0 .. m : up[n] = IF n = 0 THEN 0 ELSE up[n - 1] + q[n]
  <2> HIDE DEF up
  <2> QED
    BY <1>1, <1>5, Zenon
<1>8. DOMAIN up = 0 .. m
  <2> HIDE DEF up
  <2> QED
    BY <1>1, <1>5, Zenon
<1>9. up = [n \in DOMAIN up |-> up[n]]
  <2> HIDE DEF up
  <2> QED
    BY <1>5
<1> HIDE DEF up
<1> DEFINE S == {n \in 0 .. m : up[n] # f[n]}
<1>10. ASSUME S # {}
       PROVE  FALSE
  <2>1. PICK n \in S : \A i \in S : n <= i
    <3>1. S \in SUBSET Nat
      OBVIOUS
    <3> HIDE DEF S
    <3> QED
      BY <1>10, <3>1, LeastOf, Zenon
  <2>2. up[0] = 0 /\ f[0] = 0
    BY <1>3, <1>7 DEF Sums
  <2>3. n # 0
    BY <2>1, <2>2, Zenon
  <2>4. n - 1 \in 0 .. m /\ n \in 1 .. m /\ n \in 0 .. m /\ ~(n <= n - 1)
    BY <2>1, <2>3
  <2>5. f[n - 1] = up[n - 1]
    BY <2>1, <2>4, Zenon
  <2>6. f[n] = f[n - 1] + q[n] /\ up[n] = up[n - 1] + q[n]
    BY <1>3, <1>7, <2>3, <2>4, Zenon DEF Sums
  <2> QED
    BY <2>1, <2>5, <2>6, Zenon
<1>11. \A n \in 0 .. m : up[n] = f[n]
  BY <1>10, Zenon
<1>12. up = f
  <2>1. f = [n \in 0 .. m |-> f[n]]
    BY <1>3, Zenon DEF Sums
  <2> QED
    BY <1>8, <1>9, <1>11, <2>1, Zenon
<1> QED
  BY <1>1, <1>3, <1>6, <1>12, Zenon

\* The sums of a sequence, in the form in which the proofs use them.
LEMMA UptoIs ==
  ASSUME NEW q \in Seq(Nat)
  PROVE  /\ \A n \in 0 .. Len(q) : Upto(q)[n] \in Nat
         /\ Upto(q)[0] = 0
         /\ \A n \in 1 .. Len(q) : Upto(q)[n] = Upto(q)[n - 1] + q[n]
         /\ TotalLen(q) = Upto(q)[Len(q)]
BY UptoFacts, Zenon DEF Sums, TotalLen

\* The sums of the first elements are those of any sequence that starts with
\* them.
LEMMA UptoAgree ==
  ASSUME NEW q \in Seq(Nat), NEW r \in Seq(Nat), NEW m \in 0 .. Len(q),
         m <= Len(r), SameStart(q, r, m)
  PROVE  SameUpto(Upto(q), Upto(r), m)
<1>1. PICK a \in Nat : a = Len(q)
  OBVIOUS
<1>2. PICK b \in Nat : b = Len(r)
  OBVIOUS
<1>3. m \in Nat /\ m <= a /\ m <= b
  BY <1>1, <1>2
<1>4. Sums(Upto(q), q, a) /\ Sums(Upto(r), r, b)
  BY <1>1, <1>2, UptoFacts, Zenon
<1> QED
  BY <1>3, <1>4, SumsAgree, Zenon

\* One element more.
LEMMA UptoAppend ==
  ASSUME NEW q \in Seq(Nat), NEW e \in Nat
  PROVE  /\ Append(q, e) \in Seq(Nat) /\ Len(Append(q, e)) = Len(q) + 1
         /\ \A n \in 0 .. Len(q) : Upto(Append(q, e))[n] = Upto(q)[n]
         /\ Upto(Append(q, e))[Len(q) + 1] = Upto(q)[Len(q)] + e
<1> DEFINE r == Append(q, e)
<1>1. PICK m \in Nat : m = Len(q)
  OBVIOUS
<1>2. /\ r \in Seq(Nat) /\ Len(r) = m + 1 /\ r[m + 1] = e
      /\ SameStart(q, r, m)
  BY <1>1 DEF SameStart
<1>3. m \in 0 .. m /\ m <= m + 1 /\ m + 1 \in 1 .. m + 1 /\ m + 1 - 1 = m
  OBVIOUS
<1> HIDE DEF r
<1>4. SameUpto(Upto(q), Upto(r), m)
  <2>1. m \in 0 .. Len(q) /\ m <= Len(r)
    BY <1>1, <1>2, <1>3, Zenon
  <2> QED
    BY <1>2, <2>1, UptoAgree, Zenon
<1>5. Upto(r)[m + 1] = Upto(r)[m + 1 - 1] + r[m + 1]
  <2>1. m + 1 \in 1 .. Len(r)
    BY <1>2, <1>3, Zenon
  <2>2. Sums(Upto(r), r, Len(r))
    BY <1>2, UptoFacts, Zenon
  <2>3. \A n \in 1 .. Len(r) : Upto(r)[n] = Upto(r)[n - 1] + r[n]
    BY <2>2, Zenon DEF Sums
  <2> QED
    BY <2>1, <2>3, SMT
<1>6. Upto(r)[m + 1] = Upto(q)[m] + e
  BY <1>2, <1>3, <1>4, <1>5, Zenon DEF SameUpto
<1> QED
  BY <1>1, <1>2, <1>4, <1>6, Zenon DEF r, SameUpto

\* Sums grow.
LEMMA UptoGrows ==
  ASSUME NEW q \in Seq(Nat), NEW i \in 0 .. Len(q)
  PROVE  Upto(q)[i] <= TotalLen(q)
<1>1. PICK m \in Nat : m = Len(q)
  OBVIOUS
<1>2. /\ \A n \in 0 .. m : Upto(q)[n] \in Nat
      /\ \A n \in 1 .. m : Upto(q)[n] = Upto(q)[n - 1] + q[n]
      /\ TotalLen(q) = Upto(q)[m]
  BY <1>1, UptoIs, Zenon
<1> DEFINE S == {n \in 0 .. m : m - n \in 0 .. m
                                /\ ~(Upto(q)[m - n] <= Upto(q)[m])}
<1>3. ASSUME S # {}
      PROVE  FALSE
  <2>1. PICK n \in S : \A u \in S : n <= u
    <3>1. S \in SUBSET Nat
      OBVIOUS
    <3> HIDE DEF S
    <3> QED
      BY <1>3, <3>1, LeastOf, Zenon
  <2>2. n # 0
    <3>1. m - 0 = m /\ m \in 0 .. m
      OBVIOUS
    <3>2. Upto(q)[m] <= Upto(q)[m]
      BY <1>2, <3>1
    <3> QED
      BY <2>1, <3>1, <3>2, Zenon
  <2>3. /\ n - 1 \in 0 .. m /\ ~(n <= n - 1) /\ m - (n - 1) \in 1 .. m
        /\ m - (n - 1) \in 0 .. m /\ m - (n - 1) - 1 = m - n /\ m - n \in 0 .. m
    BY <2>1, <2>2
  <2>4. Upto(q)[m - (n - 1)] <= Upto(q)[m]
    BY <2>1, <2>3, Zenon
  <2>5. Upto(q)[m - (n - 1)] = Upto(q)[m - n] + q[m - (n - 1)]
    BY <1>2, <2>3, Zenon
  <2>6. q[m - (n - 1)] \in Nat /\ Upto(q)[m - n] \in Nat /\ Upto(q)[m] \in Nat
    <3>1. q[m - (n - 1)] \in Nat
      BY <1>1, <2>3
    <3>2. m \in 0 .. m
      OBVIOUS
    <3> QED
      BY <1>2, <2>3, <3>1, <3>2, Zenon
  <2>7. Upto(q)[m - n] <= Upto(q)[m]
    BY <2>4, <2>5, <2>6
  <2> QED
    BY <2>1, <2>7, Zenon
<1>4. m - i \in 0 .. m /\ m - (m - i) = i /\ i \in 0 .. m
  BY <1>1
<1> QED
  BY <1>2, <1>3, <1>4, Zenon

-----------------------------------------------------------------------------
(* Quotients and remainders.                                               *)

\* Quotient and remainder.
LEMMA DivMod ==
  ASSUME NEW a \in Int, NEW b \in Nat \ {0}
  PROVE  /\ a \div b \in Int /\ a % b \in 0 .. b - 1
         /\ a = b * (a \div b) + (a % b)
OBVIOUS

\* A product of a positive factor and a positive factor is not smaller than
\* either.
LEMMA TimesGrows ==
  ASSUME NEW b \in Nat \ {0}, NEW p \in Int, NEW q \in Int, p < q
  PROVE  b * p \in Int /\ b * q \in Int /\ b * p + b <= b * q
<1>1. PICK d \in Nat : q = p + 1 + d
  <2>1. q - p - 1 \in Nat /\ q = p + 1 + (q - p - 1)
    OBVIOUS
  <2> QED
    BY <2>1, Zenon
<1>2. b * q = b * p + b + b * d
  BY <1>1
<1>3. b * d >= 0 /\ b * d \in Int /\ b * p \in Int
  OBVIOUS
<1> QED
  BY <1>2, <1>3

\* They are unique.
LEMMA DivUnique ==
  ASSUME NEW a \in Int, NEW b \in Nat \ {0}, NEW q \in Int, NEW r \in 0 .. b - 1,
         a = b * q + r
  PROVE  a \div b = q /\ a % b = r
<1>1. PICK x \in Int : x = a \div b
  BY DivMod
<1>2. PICK y \in 0 .. b - 1 : y = a % b
  BY DivMod
<1>3. a = b * x + y
  BY <1>1, <1>2, DivMod
<1>4. ~(x < q)
  <2> SUFFICES ASSUME x < q
               PROVE  FALSE
    OBVIOUS
  <2>1. b * x \in Int /\ b * q \in Int /\ b * x + b <= b * q
    BY TimesGrows
  <2> QED
    BY <1>3, <2>1
<1>5. ~(q < x)
  <2> SUFFICES ASSUME q < x
               PROVE  FALSE
    OBVIOUS
  <2>1. b * x \in Int /\ b * q \in Int /\ b * q + b <= b * x
    BY TimesGrows
  <2> QED
    BY <1>3, <2>1
<1>6. x = q
  BY <1>4, <1>5
<1>7. b * q \in Int /\ b * q + r = b * q + y
  BY <1>3, <1>6
<1>8. y = r
  BY <1>7
<1> QED
  BY <1>1, <1>2, <1>6, <1>8, Zenon

\* A value below the modulus stays what it is.
LEMMA ModSmall ==
  ASSUME NEW b \in Nat \ {0}, NEW a \in 0 .. b - 1
  PROVE  a % b = a /\ a \div b = 0
<1>1. a = b * 0 + a
  OBVIOUS
<1> QED
  BY <1>1, DivUnique

\* r is the remainder of n by a.
ModIs(n, a, r) == n % a = r

\* An end point address moves on with the bytes.
LEMMA ModMoves ==
  ASSUME NEW n \in Nat, NEW a \in Nat \ {0}, NEW d \in Nat, NEW r \in Nat,
         ModIs(n, a, r), r + d < a
  PROVE  ModIs(n + d, a, r + d)
<1> n \in Int
  OBVIOUS
<1>1. PICK x \in Int : x = n \div a
  BY DivMod, Zenon
<1>2. n = a * x + r
  BY <1>1, DivMod, Zenon DEF ModIs
<1>3. n + d = a * x + (r + d) /\ r + d \in 0 .. a - 1 /\ n + d \in Int
  BY <1>2
<1> QED
  BY <1>3, DivUnique, Zenon DEF ModIs

\* Up to the end of the aperture.
LEMMA ModEnds ==
  ASSUME NEW n \in Nat, NEW a \in Nat \ {0}, NEW d \in Nat, NEW r \in Nat,
         ModIs(n, a, r), r + d = a
  PROVE  ModIs(n + d, a, 0)
<1> n \in Int
  OBVIOUS
<1>1. PICK x \in Int : x = n \div a
  BY DivMod, Zenon
<1>2. n = a * x + r
  BY <1>1, DivMod, Zenon DEF ModIs
<1>3. /\ n + d = a * (x + 1) + 0
      /\ n + d \in Int /\ x + 1 \in Int /\ 0 \in 0 .. a - 1
  BY <1>2
<1> QED
  BY <1>3, DivUnique, Zenon DEF ModIs

\* Before the boundary of a block, the place in a block counts up.
LEMMA DivSame ==
  ASSUME NEW n \in Nat, NEW a \in Nat \ {0}, NEW d \in Nat, (n % a) + d < a
  PROVE  n \div a = (n + d) \div a
<1>1. PICK x \in Int : x = n \div a
  BY DivMod
<1>2. PICK y \in 0 .. a - 1 : y = n % a
  BY DivMod
<1>3. n = a * x + y
  BY <1>1, <1>2, DivMod
<1>4. n + d = a * x + (y + d) /\ y + d \in 0 .. a - 1 /\ n + d \in Int
  BY <1>2, <1>3
<1>5. (n + d) \div a = x
  BY <1>4, DivUnique
<1> QED
  BY <1>1, <1>5, Zenon

\* A page holds whole blocks, so that the place in a page tells the one in a
\* block.
LEMMA ModMod ==
  ASSUME NEW n \in Nat, NEW p \in Nat \ {0}, NEW a \in Nat \ {0}, p % a = 0
  PROVE  (n % p) % a = n % a
<1>1. PICK x \in Int : x = n \div p
  BY DivMod
<1>2. PICK y \in 0 .. p - 1 : y = n % p
  BY DivMod
<1>3. n = p * x + y
  BY <1>1, <1>2, DivMod
<1>4. PICK k \in Int : k = p \div a
  BY DivMod
<1>5. p = a * k
  BY <1>4, DivMod
<1>6. PICK u \in Int : u = y \div a
  BY DivMod
<1>7. PICK v \in 0 .. a - 1 : v = y % a
  BY DivMod
<1>8. y = a * u + v
  BY <1>6, <1>7, DivMod
<1>9. n = a * (k * x + u) + v
  BY <1>3, <1>5, <1>8
<1>10. n % a = v
  <2>1. PICK w \in Int : w = k * x + u
    OBVIOUS
  <2>2. n = a * w + v
    BY <1>9, <2>1
  <2> QED
    BY <2>2, DivUnique
<1> QED
  BY <1>2, <1>7, <1>10, Zenon

\* The descriptors that the rest of an entry needs: one less for each piece.
LEMMA NeedIs ==
  /\ Need(0) = 0
  /\ \A t \in 1 .. BlenMax : Need(t) = 1
  /\ \A t \in Nat : t > BlenMax => Need(t) = Need(t - BlenMax) + 1
  /\ \A t \in Nat : Need(t) \in Nat
<1> DEFINE B == BlenMax
<1>1. B \in Nat \ {0}
  BY RequestAssumption, Zenon
<1> HIDE DEF B
<1>2. Need(0) = 0
  <2>1. 0 + B - 1 \in 0 .. B - 1
    BY <1>1
  <2> QED
    BY <1>1, <2>1, ModSmall DEF Need, B
<1>3. ASSUME NEW t \in 1 .. B
      PROVE  Need(t) = 1
  <2>1. t + B - 1 = B * 1 + (t - 1) /\ t - 1 \in 0 .. B - 1 /\ t + B - 1 \in Int
    BY <1>1
  <2> QED
    BY <1>1, <2>1, DivUnique DEF Need, B
<1>4. ASSUME NEW t \in Nat, t > B
      PROVE  Need(t) = Need(t - B) + 1
  <2>1. PICK a \in Int : a = (t - B) + B - 1
    BY <1>1
  <2>2. PICK x \in Int : x = a \div B
    BY <1>1, DivMod
  <2>3. PICK y \in 0 .. B - 1 : y = a % B
    BY <1>1, DivMod
  <2>4. a = B * x + y
    BY <1>1, <2>2, <2>3, DivMod
  <2>5. a + B = B * (x + 1) + y /\ a + B \in Int /\ x + 1 \in Int
    BY <1>1, <2>4
  <2>6. (a + B) \div B = x + 1
    BY <1>1, <2>5, DivUnique
  <2>7. t + B - 1 = a + B
    BY <1>1, <2>1
  <2>8. Need(t) = x + 1
    BY <2>6, <2>7, Zenon DEF Need, B
  <2>9. Need(t - B) = x
    BY <2>1, <2>2, Zenon DEF Need, B
  <2> QED
    BY <2>8, <2>9, Zenon
<1>5. ASSUME NEW t \in Nat
      PROVE  Need(t) \in Nat
  <2>1. PICK a \in Nat : a = t + B - 1
    BY <1>1
  <2>2. PICK x \in Int : x = a \div B
    BY <1>1, DivMod
  <2>3. PICK y \in 0 .. B - 1 : y = a % B
    BY <1>1, DivMod
  <2>4. a = B * x + y
    BY <1>1, <2>2, <2>3, DivMod
  <2>5. ~(x < 0)
    <3> SUFFICES ASSUME x < 0
                 PROVE  FALSE
      OBVIOUS
    <3>1. B * x + B <= B * 0 /\ B * x \in Int
      BY <1>1, TimesGrows
    <3> QED
      BY <1>1, <2>4, <3>1
  <2>6. Need(t) = x
    BY <2>1, <2>2, Zenon DEF Need, B
  <2> QED
    BY <2>5, <2>6
<1> QED
  BY <1>2, <1>3, <1>4, <1>5, Zenon DEF B

\* The room of an entry is that of its pieces.
LEMMA RoomIsEnough ==
  ASSUME NEW len \in Lengths
  PROVE  Extra(len) \in Nat /\ Need(len) <= 1 + Extra(len)
<1>1. /\ len \in Nat \ {0} /\ BlenMax \in Nat \ {0} /\ Wrap \in Nat \ {0}
      /\ len + BlenMax <= Wrap
  BY RequestAssumption
<1>2. CASE len > BlenMax
  <2>1. len + BlenMax - 1 \in 0 .. Wrap - 1
    BY <1>1
  <2>2. (len + BlenMax - 1) % Wrap = len + BlenMax - 1
    BY <1>1, <2>1, ModSmall
  <2>3. Extra(len) = Need(len)
    BY <1>2, <2>2 DEF Extra, Need
  <2>4. Need(len) \in Nat
    BY <1>1, NeedIs
  <2> QED
    BY <2>3, <2>4
<1>3. CASE ~(len > BlenMax)
  <2>1. len \in 1 .. BlenMax
    BY <1>1, <1>3
  <2>2. Need(len) = 1 /\ Extra(len) = 0
    BY <1>3, <2>1, NeedIs, Zenon DEF Extra
  <2> QED
    BY <2>2
<1> QED
  BY <1>2, <1>3, Zenon

-----------------------------------------------------------------------------
(* Lists and descriptors.                                                  *)

\* A list is a sequence of lengths whose sum an unsigned int can hold.
LEMMA ListsAre ==
  ASSUME NEW l \in Lists
  PROVE  /\ l \in Seq(Lengths) /\ l \in Seq(Nat) /\ Len(l) \in 1 .. EntriesMax
         /\ DOMAIN l = 1 .. Len(l) /\ TotalLen(l) < Wrap
<1>1. PICK n \in 1 .. EntriesMax : l \in [1 .. n -> Lengths]
  BY Zenon DEF Lists
<1>2. TotalLen(l) < Wrap
  BY Zenon DEF Lists
<1>3. n \in Nat /\ Lengths \subseteq Nat
  BY RequestAssumption
<1>4. l \in Seq(Lengths) /\ Len(l) = n
  BY <1>1, <1>3
<1>5. l \in [1 .. n -> Nat] /\ DOMAIN l = 1 .. n
  BY <1>1, <1>3, Zenon
<1>6. l \in Seq(Nat)
  BY <1>3, <1>5
<1> QED
  BY <1>2, <1>4, <1>5, <1>6, Zenon

\* The sums over a list.
LEMMA ListSums ==
  ASSUME NEW l \in Lists
  PROVE  /\ Upto(l)[0] = 0
         /\ \A i \in 1 .. Len(l) :
              /\ Upto(l)[i - 1] \in Nat /\ Upto(l)[i] \in Nat
              /\ Upto(l)[i] = Upto(l)[i - 1] + l[i]
              /\ l[i] \in Lengths /\ l[i] \in Nat \ {0} /\ l[i] + BlenMax <= Wrap
              /\ Upto(l)[i] <= TotalLen(l)
         /\ \A i \in 0 .. Len(l) : Upto(l)[i] \in Nat /\ Upto(l)[i] <= TotalLen(l)
         /\ TotalLen(l) \in Nat /\ TotalLen(l) = Upto(l)[Len(l)]
<1>1. /\ l \in Seq(Lengths) /\ l \in Seq(Nat) /\ Len(l) \in 1 .. EntriesMax
      /\ TotalLen(l) < Wrap
  BY ListsAre
<1>2. PICK m \in Nat : m = Len(l)
  BY <1>1
<1>3. Sums(Upto(l), l, m)
  BY <1>1, <1>2, UptoFacts, Zenon
<1>4. \A i \in 0 .. m : Upto(l)[i] \in Nat
  BY <1>3, Zenon DEF Sums
<1>5. \A i \in 0 .. m : Upto(l)[i] <= TotalLen(l)
  BY <1>1, <1>2, UptoGrows, Zenon
<1>6. Upto(l)[0] = 0 /\ TotalLen(l) = Upto(l)[m]
  BY <1>2, <1>3, Zenon DEF Sums, TotalLen
<1>7. m \in 0 .. m
  OBVIOUS
<1>8. ASSUME NEW i \in 1 .. m
      PROVE  /\ Upto(l)[i - 1] \in Nat /\ Upto(l)[i] \in Nat
             /\ Upto(l)[i] = Upto(l)[i - 1] + l[i]
             /\ l[i] \in Lengths /\ l[i] \in Nat \ {0} /\ l[i] + BlenMax <= Wrap
             /\ Upto(l)[i] <= TotalLen(l)
  <2>1. i - 1 \in 0 .. m /\ i \in 0 .. m
    OBVIOUS
  <2>2. l[i] \in Lengths
    BY <1>1, <1>2
  <2>3. l[i] \in Nat \ {0} /\ l[i] + BlenMax <= Wrap
    BY <2>2, RequestAssumption, Zenon
  <2>4. Upto(l)[i] = Upto(l)[i - 1] + l[i]
    BY <1>3, Zenon DEF Sums
  <2> QED
    BY <1>4, <1>5, <2>1, <2>2, <2>3, <2>4, Zenon
<1> QED
  BY <1>2, <1>4, <1>5, <1>6, <1>7, <1>8, Zenon

\* The lengths of a sequence of descriptors.
LEMMA LensIs ==
  ASSUME NEW S, \A d \in S : d.len \in Nat, NEW s \in Seq(S)
  PROVE  /\ Lens(s) \in Seq(Nat) /\ Len(Lens(s)) = Len(s)
         /\ \A k \in 1 .. Len(s) : Lens(s)[k] = s[k].len
<1>1. \A k \in 1 .. Len(s) : s[k] \in S /\ s[k].len \in Nat
  OBVIOUS
<1>2. PICK m \in Nat : m = Len(s) /\ DOMAIN s = 1 .. m
  OBVIOUS
<1>3. Lens(s) = [k \in 1 .. m |-> s[k].len]
  BY <1>2, Zenon DEF Lens
<1>4. Lens(s) \in [1 .. m -> Nat]
  BY <1>1, <1>2, <1>3
<1> QED
  BY <1>2, <1>3, <1>4

\* One descriptor more.
LEMMA LensAppend ==
  ASSUME NEW S, \A d \in S : d.len \in Nat, NEW s \in Seq(S), NEW e \in S
  PROVE  Lens(Append(s, e)) = Append(Lens(s), e.len)
<1>1. PICK m \in Nat : m = Len(s)
  OBVIOUS
<1>2. /\ Lens(s) \in Seq(Nat) /\ Len(Lens(s)) = m
      /\ \A k \in 1 .. m : Lens(s)[k] = s[k].len
  BY <1>1, LensIs
<1>3. PICK t \in Seq(S) : t = Append(s, e)
  BY AppendProperties, Zenon
<1>4. /\ Len(t) = m + 1 /\ t[m + 1] = e
      /\ \A k \in 1 .. m : t[k] = s[k]
  BY <1>1, <1>3
<1>5. /\ Lens(t) \in Seq(Nat) /\ Len(Lens(t)) = m + 1
      /\ \A k \in 1 .. m + 1 : Lens(t)[k] = t[k].len
  BY <1>4, LensIs, Zenon
<1>6. PICK u \in Seq(Nat) : u = Lens(s)
  BY <1>2
<1>7. PICK v \in Seq(Nat) : v = Lens(t)
  BY <1>5
<1>8. Len(u) = m /\ Len(v) = m + 1 /\ v[m + 1] = e.len /\ e.len \in Nat
  <2>1. m + 1 \in 1 .. m + 1
    OBVIOUS
  <2> QED
    BY <1>2, <1>4, <1>5, <1>6, <1>7, <2>1, Zenon
<1>9. \A k \in 1 .. m : v[k] = u[k]
  <2> TAKE k \in 1 .. m
  <2>1. k \in 1 .. m + 1
    OBVIOUS
  <2> QED
    BY <1>2, <1>4, <1>5, <1>6, <1>7, <2>1, Zenon
<1>10. v = Append(u, e.len)
  <2>1. PICK w \in Seq(Nat) : w = Append(u, e.len)
    BY <1>8, AppendProperties, Zenon
  <2>2. Len(w) = m + 1 /\ w[m + 1] = e.len /\ \A k \in 1 .. m : w[k] = u[k]
    BY <1>8, <2>1
  <2>3. \A k \in 1 .. m + 1 : w[k] = v[k]
    BY <1>8, <1>9, <2>2
  <2> QED
    BY <1>8, <2>1, <2>2, <2>3, SeqEqual
<1> QED
  BY <1>3, <1>6, <1>7, <1>10, Zenon

\* The places of descriptors that lie one behind the other.
LEMMA PlacesAre ==
  ASSUME NEW S, \A d \in S : d.len \in Nat, NEW s \in Seq(S)
  PROVE  /\ TotalLen(Lens(s)) \in Nat
         /\ TotalLen(Lens(s)) = Upto(Lens(s))[Len(s)]
         /\ Upto(Lens(s))[0] = 0
         /\ \A n \in 0 .. Len(s) : Upto(Lens(s))[n] \in Nat
         /\ \A n \in 1 .. Len(s) :
              Upto(Lens(s))[n] = Upto(Lens(s))[n - 1] + s[n].len
<1>1. PICK m \in Nat : m = Len(s)
  OBVIOUS
<1>2. PICK u \in Seq(Nat) : u = Lens(s) /\ Len(u) = m
  BY <1>1, LensIs
<1>3. \A n \in 1 .. m : u[n] = s[n].len
  BY <1>1, <1>2, LensIs, Zenon
<1>4. Sums(Upto(u), u, m) /\ m \in 0 .. m
  BY <1>2, UptoFacts
<1>5. Upto(u)[0] = 0 /\ \A n \in 0 .. m : Upto(u)[n] \in Nat
  BY <1>4, Zenon DEF Sums
<1>6. \A n \in 1 .. m : Upto(u)[n] = Upto(u)[n - 1] + s[n].len
  BY <1>3, <1>4, Zenon DEF Sums
<1>7. TotalLen(u) = Upto(u)[m] /\ TotalLen(u) \in Nat
  BY <1>2, <1>4, <1>5, Zenon DEF TotalLen
<1> QED
  BY <1>1, <1>2, <1>5, <1>6, <1>7, Zenon

\* The place behind one descriptor more, and the places before it.
LEMMA PlacesAppend ==
  ASSUME NEW S, \A d \in S : d.len \in Nat, NEW s \in Seq(S), NEW e \in S
  PROVE  /\ TotalLen(Lens(s)) \in Nat /\ e.len \in Nat
         /\ TotalLen(Lens(s)) = Upto(Lens(s))[Len(s)]
         /\ TotalLen(Lens(Append(s, e))) = TotalLen(Lens(s)) + e.len
         /\ \A n \in 0 .. Len(s) :
              Upto(Lens(Append(s, e)))[n] = Upto(Lens(s))[n]
<1>1. PICK m \in Nat : m = Len(s)
  OBVIOUS
<1>2. PICK u \in Seq(Nat) : u = Lens(s) /\ Len(u) = m
  BY <1>1, LensIs
<1>3. PICK l \in Nat : l = e.len
  OBVIOUS
<1>4. Lens(Append(s, e)) = Append(u, l)
  BY <1>2, <1>3, LensAppend, Zenon
<1>5. /\ Append(u, l) \in Seq(Nat) /\ Len(Append(u, l)) = m + 1
      /\ \A n \in 0 .. m : Upto(Append(u, l))[n] = Upto(u)[n]
      /\ Upto(Append(u, l))[m + 1] = Upto(u)[m] + l
  BY <1>2, UptoAppend, Zenon
<1>6. TotalLen(Append(u, l)) = Upto(u)[m] + l /\ TotalLen(u) = Upto(u)[m]
  BY <1>2, <1>5, Zenon DEF TotalLen
<1>7. Upto(u)[m] \in Nat
  <2>1. m \in 0 .. m /\ Sums(Upto(u), u, m)
    BY <1>2, UptoFacts
  <2> QED
    BY <2>1, Zenon DEF Sums
<1>8. TotalLen(Append(u, l)) = TotalLen(u) + l
  BY <1>6, Zenon
<1> QED
  BY <1>1, <1>2, <1>3, <1>4, <1>5, <1>6, <1>7, <1>8, Zenon

\* Pieces and descriptors have lengths.
LEMMA DescLens ==
  /\ \A d \in SwDesc : d.addr \in Nat /\ d.len \in 1 .. BlenMax
  /\ \A d \in Desc : d.addr \in Nat /\ d.len \in 1 .. BlenMax /\ d.ep \in Nat
  /\ \A d \in SwDesc : d.len \in Nat
  /\ \A d \in Desc : d.len \in Nat
<1>1. BlenMax \in Nat
  BY RequestAssumption, Zenon
<1>2. 1 .. BlenMax \subseteq Nat
  BY <1>1
<1>3. \A d \in SwDesc : d.addr \in Nat /\ d.len \in 1 .. BlenMax
  BY DEF SwDesc
<1>4. \A d \in Desc : d.addr \in Nat /\ d.len \in 1 .. BlenMax /\ d.ep \in Nat
  BY DEF Desc
<1> QED
  BY <1>2, <1>3, <1>4, Zenon

\* Nothing is nothing.
LEMMA NoDescs ==
  /\ Lens(<<>>) = <<>> /\ TotalLen(<<>>) = 0 /\ Upto(<<>>)[0] = 0
  /\ \A l : LieIn(l, <<>>)
  /\ \A p : Copies(<<>>, p)
  /\ \A a : InAperture(a, <<>>) /\ EpsFollow(a, <<>>)
<1>1. DOMAIN <<>> = {} /\ <<>> \in Seq(Nat) /\ Len(<<>>) = 0
  OBVIOUS
<1>2. Lens(<<>>) = <<>>
  BY DEF Lens
<1>3. Sums(Upto(<<>>), <<>>, Len(<<>>))
  BY <1>1, UptoFacts, Zenon
<1>4. Upto(<<>>)[0] = 0
  BY <1>3, Zenon DEF Sums
<1>5. TotalLen(<<>>) = 0
  BY <1>1, <1>4, Zenon DEF TotalLen
<1> QED
  BY <1>1, <1>2, <1>4, <1>5, Zenon DEF LieIn, Copies, InAperture, EpsFollow

\* The elements of t are those of s and e.
Grown(s, e, t) ==
  \A k \in DOMAIN t :
    \/ k \in DOMAIN s /\ k - 1 \in 0 .. Len(s) /\ t[k] = s[k]
    \/ k - 1 = Len(s) /\ k - 1 \in 0 .. Len(s) /\ t[k] = e

\* The elements of a sequence with one more at its end.
LEMMA AppendIs ==
  ASSUME NEW S, NEW s \in Seq(S), NEW e \in S
  PROVE  /\ Append(s, e) \in Seq(S) /\ Len(Append(s, e)) = Len(s) + 1
         /\ Grown(s, e, Append(s, e))
<1>1. PICK m \in Nat : m = Len(s)
  OBVIOUS
<1>2. PICK t \in Seq(S) : t = Append(s, e)
  BY AppendProperties, Zenon
<1>3. /\ Len(t) = m + 1 /\ t[m + 1] = e
      /\ \A i \in 1 .. m : t[i] = s[i]
  BY <1>1, <1>2
<1>4. DOMAIN t = 1 .. m + 1 /\ DOMAIN s = 1 .. m
  BY <1>1, <1>3
<1>5. ASSUME NEW k \in DOMAIN t
      PROVE  \/ k \in DOMAIN s /\ k - 1 \in 0 .. m /\ t[k] = s[k]
             \/ k - 1 = m /\ k - 1 \in 0 .. m /\ t[k] = e
  <2>1. k - 1 \in 0 .. m /\ (k \in 1 .. m \/ (k = m + 1 /\ k - 1 = m))
    BY <1>4
  <2> QED
    BY <1>3, <1>4, <2>1, Zenon
<1>6. Grown(s, e, t)
  BY <1>1, <1>5, Zenon DEF Grown
<1>7. Len(t) = Len(s) + 1
  BY <1>1, <1>3, Zenon
<1> QED
  BY <1>2, <1>6, <1>7, Zenon

\* One descriptor more holds the bytes that follow.
LEMMA LieAppend ==
  ASSUME NEW S, \A d \in S : d.len \in Nat, NEW s \in Seq(S), NEW e \in S,
         NEW l, LieIn(l, s), LiesIn(l, e, TotalLen(Lens(s)))
  PROVE  LieIn(l, Append(s, e))
<1>1. PICK t : t = Append(s, e)
  BY Zenon
<1>2. Grown(s, e, t)
  BY <1>1, AppendIs, Zenon
<1>3. /\ TotalLen(Lens(s)) = Upto(Lens(s))[Len(s)]
      /\ \A n \in 0 .. Len(s) : Upto(Lens(t))[n] = Upto(Lens(s))[n]
  BY <1>1, PlacesAppend, Zenon
<1>4. ASSUME NEW k \in DOMAIN t
      PROVE  LiesIn(l, t[k], Upto(Lens(t))[k - 1])
  <2>1. \/ k \in DOMAIN s /\ k - 1 \in 0 .. Len(s) /\ t[k] = s[k]
        \/ k - 1 = Len(s) /\ k - 1 \in 0 .. Len(s) /\ t[k] = e
    BY <1>2, Zenon DEF Grown
  <2>2. Upto(Lens(t))[k - 1] = Upto(Lens(s))[k - 1]
    BY <1>3, <2>1, Zenon
  <2>3. CASE k \in DOMAIN s /\ t[k] = s[k]
    BY <2>2, <2>3, Zenon DEF LieIn
  <2>4. CASE k - 1 = Len(s) /\ t[k] = e
    BY <1>3, <2>2, <2>4, Zenon
  <2> QED
    BY <2>1, <2>3, <2>4, Zenon
<1> QED
  BY <1>1, <1>4, Zenon DEF LieIn

\* One more copy.
LEMMA CopyAppend ==
  ASSUME NEW s \in Seq(Desc), NEW p, NEW e \in Desc, Copies(s, p),
         e.addr = p[Len(s) + 1].addr, e.len = p[Len(s) + 1].len,
         e.ep = EpAddr + Upto(Lens(p))[Len(s)]
  PROVE  Copies(Append(s, e), p)
<1>1. PICK t : t = Append(s, e)
  BY Zenon
<1>2. Grown(s, e, t)
  BY <1>1, AppendIs, Zenon
<1>3. ASSUME NEW k \in DOMAIN t
      PROVE  /\ t[k].addr = p[k].addr /\ t[k].len = p[k].len
             /\ t[k].ep = EpAddr + Upto(Lens(p))[k - 1]
  <2>1. \/ k \in DOMAIN s /\ k - 1 \in 0 .. Len(s) /\ t[k] = s[k]
        \/ k - 1 = Len(s) /\ k - 1 \in 0 .. Len(s) /\ t[k] = e
    BY <1>2, Zenon DEF Grown
  <2>2. CASE k \in DOMAIN s /\ t[k] = s[k]
    BY <2>2, Zenon DEF Copies
  <2>3. CASE k - 1 = Len(s) /\ t[k] = e
    <3>1. k = Len(s) + 1
      <4>1. t \in Seq(Desc)
        BY <1>1, AppendIs, Zenon
      <4>2. k \in Nat /\ Len(s) \in Nat
        BY <4>1
      <4> QED
        BY <2>3, <4>2
    <3> QED
      BY <2>3, <3>1, Zenon
  <2> QED
    BY <2>1, <2>2, <2>3, Zenon
<1> QED
  BY <1>1, <1>3, Zenon DEF Copies

\* One descriptor more that stays in the aperture.
LEMMA ApertureAppend ==
  ASSUME NEW s \in Seq(Desc), NEW e \in Desc, NEW a, InAperture(a, s),
         e.ep >= EpAddr, e.ep + e.len <= EpAddr + a
  PROVE  InAperture(a, Append(s, e))
<1>1. PICK t : t = Append(s, e)
  BY Zenon
<1>2. Grown(s, e, t)
  BY <1>1, AppendIs, Zenon
<1>3. ASSUME NEW k \in DOMAIN t
      PROVE  t[k].ep >= EpAddr /\ t[k].ep + t[k].len <= EpAddr + a
  <2>1. \/ k \in DOMAIN s /\ t[k] = s[k]
        \/ t[k] = e
    BY <1>2, Zenon DEF Grown
  <2> QED
    BY <2>1, Zenon DEF InAperture
<1> QED
  BY <1>1, <1>3, Zenon DEF InAperture

\* One descriptor more whose end point follows.
LEMMA EpsAppend ==
  ASSUME NEW s \in Seq(Desc), NEW e \in Desc, NEW a, EpsFollow(a, s),
         e.ep = EpAddr + (TotalLen(Lens(s)) % a)
  PROVE  EpsFollow(a, Append(s, e))
<1>1. PICK t : t = Append(s, e)
  BY Zenon
<1>2. Grown(s, e, t)
  BY <1>1, AppendIs, Zenon
<1>3. /\ TotalLen(Lens(s)) = Upto(Lens(s))[Len(s)]
      /\ \A n \in 0 .. Len(s) : Upto(Lens(t))[n] = Upto(Lens(s))[n]
  BY <1>1, DescLens, PlacesAppend, Zenon
<1>4. ASSUME NEW k \in DOMAIN t
      PROVE  t[k].ep = EpAddr + (Upto(Lens(t))[k - 1] % a)
  <2>1. \/ k \in DOMAIN s /\ k - 1 \in 0 .. Len(s) /\ t[k] = s[k]
        \/ k - 1 = Len(s) /\ k - 1 \in 0 .. Len(s) /\ t[k] = e
    BY <1>2, Zenon DEF Grown
  <2>2. Upto(Lens(t))[k - 1] = Upto(Lens(s))[k - 1]
    BY <1>3, <2>1, Zenon
  <2>3. CASE k \in DOMAIN s /\ t[k] = s[k]
    BY <2>2, <2>3, Zenon DEF EpsFollow
  <2>4. CASE k - 1 = Len(s) /\ t[k] = e
    BY <1>3, <2>2, <2>4, Zenon
  <2> QED
    BY <2>1, <2>3, <2>4, Zenon
<1> QED
  BY <1>1, <1>4, Zenon DEF EpsFollow

\* The room of the first entries, as xdma_init_request counts it.
LEMMA RoomIs ==
  ASSUME NEW l \in Lists
  PROVE  /\ Upto(Extras(l))[0] = 0
         /\ \A i \in 1 .. Len(l) :
              Upto(Extras(l))[i] = Upto(Extras(l))[i - 1] + Extra(l[i])
         /\ \A i \in 0 .. Len(l) : /\ Upto(Extras(l))[i] \in Nat
                                   /\ i + Upto(Extras(l))[i] <= SdescRoom(l)
<1>1. l \in Seq(Lengths) /\ DOMAIN l = 1 .. Len(l) /\ Len(l) \in Nat
  BY ListsAre
<1>2. PICK m \in Nat : m = Len(l)
  BY <1>1
<1>3. \A i \in 1 .. m : l[i] \in Lengths
  BY <1>1, <1>2
<1>4. \A i \in 1 .. m : Extra(l[i]) \in Nat
  BY <1>3, RoomIsEnough, Zenon
<1>5. Extras(l) = [i \in 1 .. m |-> Extra(l[i])]
  BY <1>1, <1>2, Zenon DEF Extras
<1>6. Extras(l) \in [1 .. m -> Nat]
  BY <1>4, <1>5, Zenon
<1>7. PICK q \in Seq(Nat) : q = Extras(l) /\ Len(q) = m
  BY <1>6
<1>8. \A i \in 1 .. m : q[i] = Extra(l[i])
  BY <1>5, <1>7, Zenon
<1>9. Sums(Upto(q), q, m)
  BY <1>7, UptoFacts, Zenon
<1>10. \A i \in 0 .. m : Upto(q)[i] <= TotalLen(q)
  BY <1>7, UptoGrows, Zenon
<1>11. Upto(q)[0] = 0 /\ \A i \in 0 .. m : Upto(q)[i] \in Nat
  BY <1>9, Zenon DEF Sums
<1>12. \A i \in 1 .. m : Upto(q)[i] = Upto(q)[i - 1] + Extra(l[i])
  BY <1>8, <1>9, Zenon DEF Sums
<1>13. SdescRoom(l) = m + TotalLen(q)
  BY <1>2, <1>7, Zenon DEF SdescRoom, Extras
<1>14. TotalLen(q) \in Nat
  <2>1. m \in 0 .. m
    OBVIOUS
  <2> QED
    BY <1>7, <1>11, <2>1, Zenon DEF TotalLen
<1>15. ASSUME NEW i \in 0 .. m
       PROVE  i + Upto(q)[i] <= SdescRoom(l)
  <2>1. Upto(q)[i] \in Nat /\ Upto(q)[i] <= TotalLen(q)
    BY <1>10, <1>11, Zenon
  <2> QED
    BY <1>13, <1>14, <2>1
<1> QED
  BY <1>2, <1>7, <1>11, <1>12, <1>15, Zenon

-----------------------------------------------------------------------------
(* What the invariant implies.                                             *)

\* xdma_get_next_adj stops at the end of the chain and of the block.
LEMMA AdjStays ==
  ASSUME NEW remaining \in Nat \ {0}, NEW index \in Nat
  PROVE  /\ NextAdj(remaining, index) \in 0 .. remaining - 1
         /\ (index % AdjBlock) + NextAdj(remaining, index) < AdjBlock
<1>1. AdjBlock \in Nat \ {0} /\ PageDescs \in Nat \ {0} /\ PageDescs % AdjBlock = 0
  BY RequestAssumption, Zenon
<1>2. PICK r \in 0 .. AdjBlock - 1 : r = index % AdjBlock
  BY <1>1, DivMod
<1>3. (index % PageDescs) % AdjBlock = r
  BY <1>1, <1>2, ModMod, Zenon
<1>4. NextAdj(remaining, index) =
        IF remaining <= 1 THEN 0
        ELSE IF AdjBlock - r - 1 < remaining - 1 THEN AdjBlock - r - 1
             ELSE remaining - 1
  BY <1>3, Zenon DEF NextAdj, Least
<1>5. PICK d : d = NextAdj(remaining, index)
  BY Zenon
<1>6. d \in 0 .. remaining - 1 /\ r + d < AdjBlock
  BY <1>1, <1>4, <1>5
<1> QED
  BY <1>2, <1>5, <1>6, Zenon

\* The blocks of a chain that lies in the descriptor array.
LEMMA FetchesStay ==
  ASSUME chain \in [first : Nat, num : Nat], chain.first + chain.num <= DescMax
  PROVE  FetchesInChain
<1>1. PICK first \in Nat : first = chain.first
  OBVIOUS
<1>2. PICK num \in Nat : num = chain.num
  OBVIOUS
<1>3. DescMax \in Nat /\ AdjBlock \in Nat \ {0} /\ first + num <= DescMax
  BY <1>1, <1>2, RequestAssumption, Zenon
<1> SUFFICES ASSUME num > 0
             PROVE  /\ first + num - 1 < DescMax
                    /\ \A f \in Fetches(chain) :
                         /\ f.hi <= first + num - 1
                         /\ f.lo \div AdjBlock = f.hi \div AdjBlock
  BY <1>1, <1>2, Zenon DEF FetchesInChain
<1>4. first + num - 1 < DescMax
  BY <1>3
<1>5. ASSUME NEW f \in Fetches(chain)
      PROVE  f.hi <= first + num - 1 /\ f.lo \div AdjBlock = f.hi \div AdjBlock
  <2>1. PICK i \in 0 .. num - 1 :
          f = [lo |-> first + i, hi |-> first + i + NextAdj(num - i, first + i)]
    BY <1>1, <1>2, Zenon DEF Fetches
  <2>2. PICK n \in Nat : n = first + i
    OBVIOUS
  <2>3. num - i \in Nat \ {0}
    OBVIOUS
  <2>4. PICK d : d = NextAdj(num - i, n)
    BY Zenon
  <2>5. d \in 0 .. num - i - 1 /\ (n % AdjBlock) + d < AdjBlock
    BY <2>2, <2>3, <2>4, AdjStays, Zenon
  <2>6. f.lo = n /\ f.hi = n + d
    BY <2>1, <2>2, <2>4
  <2>7. n + d <= first + num - 1 /\ d \in Nat
    BY <2>2, <2>5
  <2>8. n \div AdjBlock = (n + d) \div AdjBlock
    BY <1>3, <2>5, <2>7, DivSame, Zenon
  <2> QED
    BY <2>6, <2>7, <2>8, Zenon
<1> QED
  BY <1>4, <1>5, Zenon

\* The first pieces are what their copies are: in the same places.
LEMMA CopiesLie ==
  ASSUME NEW s \in Seq(Desc), NEW p \in Seq(SwDesc), Len(s) <= Len(p), Copies(s, p)
  PROVE  /\ \A n \in 0 .. Len(s) : Upto(Lens(s))[n] = Upto(Lens(p))[n]
         /\ \A l : LieIn(l, p) => LieIn(l, s)
<1>1. PICK m \in Nat : m = Len(s)
  OBVIOUS
<1>2. PICK u \in Seq(Nat) : u = Lens(s)
  BY DescLens, LensIs, Zenon
<1>3. PICK v \in Seq(Nat) : v = Lens(p)
  BY DescLens, LensIs, Zenon
<1>4. Len(u) = m /\ \A k \in 1 .. m : u[k] = s[k].len
  BY <1>1, <1>2, DescLens, LensIs, Zenon
<1>5. Len(v) = Len(p) /\ \A k \in 1 .. Len(p) : v[k] = p[k].len
  BY <1>3, DescLens, LensIs, Zenon
<1>6. DOMAIN s = 1 .. m /\ 1 .. m \subseteq 1 .. Len(p) /\ DOMAIN p = 1 .. Len(p)
      /\ m \in 0 .. Len(u) /\ m <= Len(v)
  BY <1>1, <1>4, <1>5
<1>7. SameStart(u, v, m)
  BY <1>4, <1>5, <1>6, Zenon DEF Copies, SameStart
<1>8. SameUpto(Upto(u), Upto(v), m)
  BY <1>6, <1>7, UptoAgree, Zenon
<1>9. \A n \in 0 .. m : Upto(u)[n] = Upto(v)[n]
  BY <1>8, Zenon DEF SameUpto
<1>10. ASSUME NEW l, LieIn(l, p)
       PROVE  LieIn(l, s)
  <2> SUFFICES ASSUME NEW k \in DOMAIN s
               PROVE  LiesIn(l, s[k], Upto(u)[k - 1])
    BY <1>2, Zenon DEF LieIn
  <2>1. k \in DOMAIN p /\ k - 1 \in 0 .. m
    BY <1>6
  <2>2. LiesIn(l, p[k], Upto(v)[k - 1])
    BY <1>3, <1>10, <2>1, Zenon DEF LieIn
  <2>3. s[k].addr = p[k].addr /\ s[k].len = p[k].len
    BY Zenon DEF Copies
  <2>4. Upto(u)[k - 1] = Upto(v)[k - 1]
    BY <1>9, <2>1, Zenon
  <2> QED
    BY <2>2, <2>3, <2>4, Zenon DEF LiesIn
<1> QED
  BY <1>1, <1>2, <1>3, <1>9, <1>10, Zenon

\* A descriptor in its place moves bytes that are wanted.
LEMMA LiesWanted ==
  ASSUME NEW d \in Desc, NEW n \in Nat, NEW b \in 0 .. d.len - 1,
         sgl \in Lists, LiesIn(sgl, d, n),
         d.ep + b = EpAddr + IF aperture = 0 THEN n + b ELSE (n + b) % aperture
  PROVE  Wanted(n + b, d.addr + b, d.ep + b)
<1>1. PICK i \in DOMAIN sgl :
        /\ Upto(sgl)[i - 1] <= n /\ n + d.len <= Upto(sgl)[i]
        /\ d.addr = Addr(i) + n - Upto(sgl)[i - 1]
  BY Zenon DEF LiesIn
<1>2. DOMAIN sgl = 1 .. Len(sgl) /\ Len(sgl) \in 1 .. EntriesMax /\ EntriesMax \in Nat
  BY ListsAre, RequestAssumption, Zenon
<1>3. i \in 1 .. Len(sgl) /\ i \in 1 .. EntriesMax
  BY <1>1, <1>2
<1>4. PICK lo \in Nat : lo = Upto(sgl)[i - 1]
  BY <1>3, ListSums, Zenon
<1>5. PICK hi \in Nat : hi = Upto(sgl)[i]
  BY <1>3, ListSums, Zenon
<1>6. PICK a \in Nat : a = Addr(i)
  BY <1>3, RequestAssumption, Zenon
<1>7. PICK len \in Nat : len = d.len
  BY DescLens, Zenon
<1>8. lo <= n /\ n + len <= hi /\ d.addr = a + n - lo
  BY <1>1, <1>4, <1>5, <1>6, <1>7, Zenon
<1>9. b \in 0 .. len - 1
  BY <1>7, Zenon
<1>10. lo <= n + b /\ n + b < hi /\ d.addr + b = a + (n + b) - lo
  BY <1>8, <1>9
<1> QED
  BY <1>1, <1>4, <1>5, <1>6, <1>10, Zenon DEF Wanted

\* A request of xdma_xfer_submit moves what is wanted.
LEMMA SubmitMoves ==
  ASSUME Types, CutInv, BuildInv, pc \in {"submit", "build"}
  PROVE  MovesWhatIsWanted
<1>1. /\ sgl \in Lists /\ sdesc \in Seq(SwDesc) /\ built \in Seq(Desc)
      /\ aperture = 0 /\ swDescIdx \in Nat /\ descCnt \in Nat
  BY Zenon DEF Types, Submitting
<1>2. /\ LieIn(sgl, sdesc) /\ TotalLen(Lens(sdesc)) + tlen = Upto(sgl)[sgIdx]
      /\ tlen = 0 /\ sgIdx = Len(sgl)
  BY Zenon DEF CutInv, Submitting
<1>3. /\ Copies(built, sdesc) /\ swDescIdx <= Len(sdesc)
      /\ Len(built) = swDescIdx + IF pc = "build" THEN descCnt ELSE 0
      /\ pc = "build" => swDescIdx < Len(sdesc) /\ descCnt <= Chunk
  BY Zenon DEF BuildInv
<1>4. Len(built) <= Len(sdesc)
  <2>1. Len(sdesc) \in Nat /\ DescMax \in Nat /\ descIdx \in 0 .. DescMax - 1
    <3>1. Len(sdesc) \in Nat
      BY <1>1
    <3> QED
      BY <3>1, RequestAssumption, Zenon DEF Types
  <2>2. CASE pc = "build"
    <3>1. descCnt <= Len(sdesc) - swDescIdx
      BY <1>1, <1>3, <2>1, <2>2 DEF Chunk, Least
    <3>2. Len(built) = swDescIdx + descCnt
      BY <1>3, <2>2, Zenon
    <3> QED
      BY <1>1, <2>1, <3>1, <3>2
  <2>3. CASE pc # "build"
    <3>1. Len(built) = swDescIdx + 0
      BY <1>3, <2>3, Zenon
    <3> QED
      BY <1>1, <1>3, <3>1
  <2> QED
    BY <2>2, <2>3, Zenon
<1>5. /\ LieIn(sgl, built)
      /\ \A n \in 0 .. Len(built) : Upto(Lens(built))[n] = Upto(Lens(sdesc))[n]
  BY <1>1, <1>2, <1>3, <1>4, CopiesLie, Zenon
<1>6. DOMAIN built = 1 .. Len(built) /\ Len(built) \in Nat
  BY <1>1
<1>7. /\ Lens(built) \in Seq(Nat) /\ Len(Lens(built)) = Len(built)
  BY <1>1, DescLens, LensIs, Zenon
<1>8. \A n \in 0 .. Len(built) : Upto(Lens(built))[n] \in Nat
  <2>1. Sums(Upto(Lens(built)), Lens(built), Len(built))
    BY <1>7, UptoFacts, Zenon
  <2> QED
    BY <2>1, Zenon DEF Sums
<1>9. ASSUME NEW k \in DOMAIN built, NEW b \in 0 .. built[k].len - 1
      PROVE  Wanted(Place(k) + b, built[k].addr + b, built[k].ep + b)
  <2>1. k - 1 \in 0 .. Len(built) /\ built[k] \in Desc
    BY <1>1, <1>6
  <2>2. PICK n \in Nat : n = Place(k)
    BY <1>8, <2>1, Zenon DEF Place
  <2>3. built[k].ep = EpAddr + n
    BY <1>3, <1>5, <2>1, <2>2, Zenon DEF Copies, Place
  <2>4. built[k].ep + b = EpAddr + IF aperture = 0 THEN n + b ELSE (n + b) % aperture
    <3>1. b \in Int /\ EpAddr \in Nat
      BY RequestAssumption
    <3>2. built[k].ep + b = EpAddr + (n + b)
      BY <2>3, <3>1
    <3> QED
      BY <1>1, <3>2, Zenon
  <2>5. LiesIn(sgl, built[k], n)
    BY <1>5, <2>2, Zenon DEF LieIn, Place
  <2> QED
    BY <1>1, <2>1, <2>2, <2>4, <2>5, LiesWanted, Zenon
<1>10. ASSUME Finished
       PROVE  Place(Len(built) + 1) = TotalLen(sgl)
  <2>1. pc = "submit" /\ swDescIdx = Len(sdesc)
    BY <1>10, Zenon DEF Finished
  <2>2. Len(built) = swDescIdx + 0
    BY <1>3, <2>1, Zenon
  <2>3. Len(built) = Len(sdesc) /\ Len(built) + 1 - 1 = Len(built)
        /\ Len(built) \in 0 .. Len(built)
    BY <1>1, <2>1, <2>2
  <2>4. Len(Lens(sdesc)) = Len(sdesc)
    BY <1>1, DescLens, LensIs, Zenon
  <2>5. Place(Len(built) + 1) = TotalLen(Lens(sdesc))
    <3>1. Place(Len(built) + 1) = Upto(Lens(built))[Len(built)]
      BY <2>3 DEF Place
    <3>2. Upto(Lens(built))[Len(built)] = Upto(Lens(sdesc))[Len(built)]
      BY <1>5, <2>3, Zenon
    <3> QED
      BY <2>3, <2>4, <3>1, <3>2, Zenon DEF TotalLen
  <2>6. TotalLen(Lens(sdesc)) \in Nat
    BY <1>5, <1>8, <2>3, <2>4, Zenon DEF TotalLen
  <2>7. TotalLen(Lens(sdesc)) = Upto(sgl)[sgIdx]
    BY <1>2, <2>6
  <2> QED
    BY <1>2, <2>5, <2>7, Zenon DEF TotalLen
<1> QED
  BY <1>9, <1>10, Zenon DEF MovesWhatIsWanted

\* And so does one of xdma_xfer_aperture that takes the right entries.
LEMMA ApertureMoves ==
  ASSUME Types, FillInv, PlaceInv, pc \in Filling \cup {"aperture"}
  PROVE  MovesWhatIsWanted
<1> SUFFICES ASSUME ~misled
             PROVE  MovesWhatIsWanted
  BY Zenon DEF MovesWhatIsWanted
<1>1. /\ sgl \in Lists /\ built \in Seq(Desc) /\ aperture \in Apertures
      /\ sgIdx \in 0 .. Len(sgl) /\ sgOffset \in 0 .. Wrap - 1
  BY Zenon DEF Types, Filling, Apart
<1>2. aperture \in Nat \ {0} /\ aperture # 0 /\ EpAddr \in Nat
  BY <1>1, RequestAssumption
<1>3. InAperture(aperture, built)
  BY Zenon DEF FillInv, Apart, Filling
<1>4. /\ LieIn(sgl, built) /\ EpsFollow(aperture, built)
      /\ offset = TotalLen(Lens(built)) /\ offset = Upto(sgl)[sgIdx] + sgOffset
      /\ pc # "fill" => IF sgIdx < Len(sgl) THEN sgOffset < sgl[sgIdx + 1]
                                            ELSE sgOffset = 0
  BY Zenon DEF PlaceInv
<1>5. DOMAIN built = 1 .. Len(built) /\ Len(built) \in Nat
  BY <1>1
<1>6. Lens(built) \in Seq(Nat) /\ Len(Lens(built)) = Len(built)
  BY <1>1, DescLens, LensIs, Zenon
<1>7. \A n \in 0 .. Len(built) : Upto(Lens(built))[n] \in Nat
  <2>1. Sums(Upto(Lens(built)), Lens(built), Len(built))
    BY <1>6, UptoFacts, Zenon
  <2> QED
    BY <2>1, Zenon DEF Sums
<1>8. ASSUME NEW k \in DOMAIN built, NEW b \in 0 .. built[k].len - 1
      PROVE  Wanted(Place(k) + b, built[k].addr + b, built[k].ep + b)
  <2>1. k - 1 \in 0 .. Len(built) /\ built[k] \in Desc
    BY <1>1, <1>5
  <2>2. PICK n \in Nat : n = Place(k)
    BY <1>7, <2>1, Zenon DEF Place
  <2>3. PICK r \in 0 .. aperture - 1 : r = n % aperture
    BY <1>2, DivMod
  <2>4. built[k].ep = EpAddr + r
    BY <1>4, <2>2, <2>3, Zenon DEF EpsFollow, Place
  <2>5. PICK len \in Nat : len = built[k].len
    BY <2>1, DescLens, Zenon
  <2>6. EpAddr + r + len <= EpAddr + aperture
    BY <1>3, <2>4, <2>5, Zenon DEF InAperture
  <2>7. b \in 0 .. len - 1
    BY <2>5, Zenon
  <2>8. b \in Nat /\ r + b < aperture
    BY <1>2, <2>6, <2>7
  <2>9. r \in Nat
    BY <2>3
  <2>10. (n + b) % aperture = r + b
    <3>1. ModIs(n, aperture, r)
      BY <2>3, Zenon DEF ModIs
    <3>2. ModIs(n + b, aperture, r + b)
      BY <1>2, <2>8, <2>9, <3>1, ModMoves, Zenon
    <3> QED
      BY <3>2, Zenon DEF ModIs
  <2>11. built[k].ep + b = EpAddr + (r + b)
    BY <1>2, <2>4, <2>8
  <2>12. built[k].ep + b
           = EpAddr + IF aperture = 0 THEN n + b ELSE (n + b) % aperture
    BY <1>2, <2>10, <2>11, Zenon
  <2>13. LiesIn(sgl, built[k], n)
    BY <1>4, <2>2, Zenon DEF LieIn, Place
  <2> QED
    BY <1>1, <2>1, <2>2, <2>12, <2>13, LiesWanted, Zenon
<1>9. ASSUME Finished
      PROVE  Place(Len(built) + 1) = TotalLen(sgl)
  <2>1. pc = "aperture" /\ offset >= TotalLen(sgl)
    BY <1>9, Zenon DEF Finished, Filling
  <2>2. Len(sgl) \in Nat /\ TotalLen(sgl) \in Nat /\ TotalLen(sgl) = Upto(sgl)[Len(sgl)]
    BY <1>1, ListsAre, ListSums
  <2>3. CASE sgIdx < Len(sgl)
    <3>1. sgIdx + 1 \in 1 .. Len(sgl) /\ sgIdx + 1 - 1 = sgIdx
      BY <1>1, <2>2, <2>3
    <3>2. /\ Upto(sgl)[sgIdx] \in Nat /\ Upto(sgl)[sgIdx + 1] \in Nat
          /\ Upto(sgl)[sgIdx + 1] = Upto(sgl)[sgIdx] + sgl[sgIdx + 1]
          /\ sgl[sgIdx + 1] \in Nat /\ Upto(sgl)[sgIdx + 1] <= TotalLen(sgl)
      BY <1>1, <3>1, ListSums
    <3>3. sgOffset < sgl[sgIdx + 1]
      BY <1>4, <2>1, <2>3, Zenon
    <3> QED
      BY <1>1, <1>4, <2>1, <2>2, <3>2, <3>3
  <2>4. CASE ~(sgIdx < Len(sgl))
    <3>1. sgIdx = Len(sgl)
      BY <1>1, <2>2, <2>4
    <3>2. sgOffset = 0
      BY <1>4, <2>1, <2>4, Zenon
    <3>3. offset = TotalLen(sgl)
      BY <1>4, <2>2, <3>1, <3>2
    <3>4. Len(built) + 1 - 1 = Len(built)
      BY <1>5
    <3>5. Place(Len(built) + 1) = Upto(Lens(built))[Len(built)]
      BY <3>4 DEF Place
    <3> QED
      BY <1>4, <1>6, <3>3, <3>5, Zenon DEF TotalLen
  <2> QED
    BY <2>3, <2>4, Zenon
<1> QED
  BY <1>8, <1>9, Zenon DEF MovesWhatIsWanted

\* The invariant implies what the runs check.
LEMMA InvImplies ==
  ASSUME RequestInv
  PROVE  /\ TypeOK /\ DescriptorsInBounds /\ MovesWhatIsWanted
         /\ FetchesInChain /\ OneEntryIsSafe
<1>1. Types /\ IdleInv /\ ChainInv /\ CutInv /\ BuildInv /\ FillInv /\ PlaceInv
  BY Zenon DEF RequestInv
<1>2. pc = "idle" \/ pc = "init" \/ pc \in {"submit", "build"} \/ pc \in Apart
  BY <1>1, Zenon DEF Types, Pcs, Apart
<1>3. DescMax \in Nat /\ BlenMax \in Nat
  BY RequestAssumption, Zenon
<1>4. /\ sdesc \in Seq(SwDesc) /\ built \in Seq(Desc) /\ swDescIdx \in Nat
      /\ descCnt \in Nat
  BY <1>1, Zenon DEF Types
<1>5. TypeOK
  <2>1. /\ sgl \in Lists \cup {<<>>} /\ aperture \in Apertures \cup {0}
        /\ sgIdx \in 0 .. Len(sgl)
        /\ sgOffset \in 0 .. Wrap - 1 /\ offset \in 0 .. Wrap - 1
        /\ tlen \in 0 .. Wrap - 1 /\ descIdx \in 0 .. DescMax - 1
        /\ pc \in {"idle", "init", "submit", "build", "aperture", "entry", "fill",
                   "overrun"}
    BY <1>1, Zenon DEF Types, Pcs
  <2>2. descCnt \in 0 .. DescMax
    <3>1. descCnt <= DescMax
      BY <1>1, Zenon DEF ChainInv
    <3> QED
      BY <1>3, <1>4, <3>1
  <2>3. swDescIdx <= Len(sdesc)
    <3>1. CASE pc \in {"submit", "build"}
      BY <1>1, <3>1, Zenon DEF BuildInv
    <3>2. CASE pc = "idle" \/ pc = "init" \/ pc \in Apart
      <4>1. swDescIdx = 0
        BY <1>1, <3>2, Zenon DEF IdleInv, CutInv, Types, Submitting
      <4> QED
        BY <1>4, <4>1
    <3> QED
      BY <1>2, <3>1, <3>2, Zenon
  <2>4. swDescIdx \in 0 .. Len(sdesc)
    BY <1>4, <2>3
  <2>5. pc \in {"entry", "fill"} => sg \in 1 .. sgIdx + 1
    BY <1>1, Zenon DEF FillInv, Filling, Apart
  <2>6. chain # NoChain => chain.num > 0 \/ pc = "overrun"
    BY <1>1, Zenon DEF ChainInv
  <2> QED
    BY <2>1, <2>2, <2>4, <2>5, <2>6, Zenon DEF TypeOK
<1>6. DescriptorsInBounds
  <2>1. ASSUME pc = "init"
        PROVE  Len(sdesc) <= SdescRoom(sgl)
    <3>1. /\ sgl \in Lists /\ sgIdx \in 0 .. Len(sgl) /\ tlen \in 0 .. Wrap - 1
          /\ Len(sdesc) + Need(tlen) <= sgIdx + Upto(Extras(sgl))[sgIdx]
      BY <1>1, <2>1, Zenon DEF Types, CutInv, Submitting
    <3>2. tlen \in Nat /\ Need(tlen) \in Nat
      <4>1. tlen \in Nat
        BY <3>1
      <4> QED
        BY <4>1, NeedIs, Zenon
    <3>3. PICK r \in Nat : r = Upto(Extras(sgl))[sgIdx]
      BY <3>1, RoomIs, Zenon
    <3>4. sgIdx + r <= SdescRoom(sgl)
      BY <3>1, <3>3, RoomIs, Zenon
    <3>5. SdescRoom(sgl) \in Int
      <4>1. PICK m \in Nat : m = Len(sgl)
        BY <3>1, ListsAre
      <4>2. PICK t \in Nat : t = Upto(Extras(sgl))[m]
        <5>1. m \in 0 .. m
          OBVIOUS
        <5> QED
          BY <3>1, <4>1, <5>1, RoomIs, Zenon
      <4>3. Len(Extras(sgl)) = m
        <5>1. DOMAIN sgl = 1 .. m
          BY <3>1, <4>1, ListsAre, Zenon
        <5> QED
          BY <5>1 DEF Extras
      <4>4. SdescRoom(sgl) = m + t
        BY <4>1, <4>2, <4>3, Zenon DEF SdescRoom, TotalLen, Extras
      <4> QED
        BY <4>4
    <3> QED
      BY <1>4, <3>1, <3>2, <3>3, <3>4, <3>5
  <2>2. ASSUME NEW k \in DOMAIN built
        PROVE  built[k].len \in 1 .. BlenMax
    <3>1. built[k] \in Desc
      BY <1>4
    <3> QED
      BY <3>1, DescLens, Zenon
  <2>3. ASSUME NEW k \in DOMAIN built, aperture # 0
        PROVE  /\ built[k].ep >= EpAddr
               /\ built[k].ep + built[k].len <= EpAddr + aperture
    <3>1. pc \in Apart
      BY <1>1, <1>2, <2>3, Zenon DEF IdleInv, Types, Submitting
    <3> QED
      BY <1>1, <3>1, Zenon DEF FillInv, InAperture
  <2> QED
    BY <2>1, <2>2, <2>3, Zenon DEF DescriptorsInBounds
<1>7. MovesWhatIsWanted
  <2>1. CASE pc = "idle" \/ pc = "init"
    <3>1. built = <<>>
      BY <1>1, <2>1, Zenon DEF IdleInv, CutInv, Submitting
    <3>2. DOMAIN built = {}
      BY <3>1
    <3>3. ~Finished
      BY <2>1, Zenon DEF Finished
    <3> QED
      BY <3>2, <3>3, Zenon DEF MovesWhatIsWanted
  <2>2. CASE pc \in {"submit", "build"}
    BY <1>1, <2>2, SubmitMoves, Zenon
  <2>3. CASE pc \in Apart
    <3>1. pc \in Filling \cup {"aperture"} \/ misled
      BY <1>1, <2>3, Zenon DEF FillInv, Apart, Filling
    <3> QED
      BY <1>1, <3>1, ApertureMoves, Zenon DEF MovesWhatIsWanted
  <2> QED
    BY <1>2, <2>1, <2>2, <2>3, Zenon
<1>8. FetchesInChain
  <2>1. chain \in [first : Nat, num : Nat] /\ chain.first + chain.num <= DescMax
    BY <1>1, Zenon DEF Types, ChainInv
  <2> QED
    BY <2>1, FetchesStay, Zenon
<1>9. OneEntryIsSafe
  <2>1. CASE pc \in Apart
    BY <1>1, <2>1, Zenon DEF FillInv, OneEntryIsSafe
  <2>2. CASE pc \notin Apart
    <3>1. ~misled /\ pc # "overrun"
      BY <1>1, <1>2, <2>2, Zenon DEF IdleInv, Types, Submitting, Apart
    <3> QED
      BY <3>1, Zenon DEF OneEntryIsSafe
  <2> QED
    BY <2>1, <2>2, Zenon
<1> QED
  BY <1>5, <1>6, <1>7, <1>8, <1>9, Zenon

-----------------------------------------------------------------------------
(* The invariant holds at first, and every step of xdma_xfer_submit keeps  *)
(* it.                                                                     *)

\* The part of the state that a request starts with.
LEMMA StartFacts ==
  /\ 0 \in 0 .. Wrap - 1 /\ 0 \in 0 .. DescMax - 1 /\ 0 \in Nat
  /\ <<>> \in Seq(SwDesc) /\ <<>> \in Seq(Desc) /\ Len(<<>>) = 0 /\ 0 \in 0 .. Len(<<>>)
  /\ NoChain \in [first : Nat, num : Nat] /\ NoChain.first + NoChain.num <= DescMax
  /\ 0 <= DescMax
<1>1. DescMax \in Nat \ {0} /\ Wrap \in Nat \ {0}
  BY RequestAssumption, Zenon
<1>2. NoChain \in [first : Nat, num : Nat] /\ NoChain.first = 0 /\ NoChain.num = 0
  BY DEF NoChain
<1>3. NoChain.first + NoChain.num <= DescMax
  BY <1>1, <1>2
<1>4. /\ 0 \in 0 .. Wrap - 1 /\ 0 \in 0 .. DescMax - 1 /\ 0 \in Nat /\ 0 <= DescMax
  BY <1>1
<1>5. /\ <<>> \in Seq(SwDesc) /\ <<>> \in Seq(Desc) /\ Len(<<>>) = 0 /\ 0 \in 0 .. Len(<<>>)
  OBVIOUS
<1> QED
  BY <1>2, <1>3, <1>4, <1>5, Zenon

\* Before the first request.
LEMMA InitInv == Init => RequestInv
<1> SUFFICES ASSUME pc = "idle", descIdx = 0,
                    sgl = <<>>, aperture = 0, sdesc = <<>>, built = <<>>,
                    swDescIdx = 0, sgIdx = 0, sg = 0, sgOffset = 0, offset = 0,
                    addr = 0, tlen = 0, epAddr = 0, descCnt = 0, chain = NoChain,
                    misled = FALSE
             PROVE  RequestInv
  BY Zenon DEF Init
<1>1. Types
  <2>1. pc \in Pcs /\ pc \notin Submitting /\ pc \notin Apart
    BY Zenon DEF Pcs, Submitting, Apart
  <2>2. misled \in BOOLEAN
    BY Zenon
  <2> QED
    BY <2>1, <2>2, StartFacts, Zenon DEF Types
<1>2. IdleInv
  BY Zenon DEF IdleInv
<1>3. ChainInv
  BY StartFacts, Zenon DEF ChainInv, Filling
<1>4. CutInv /\ BuildInv /\ FillInv /\ PlaceInv
  BY Zenon DEF CutInv, BuildInv, FillInv, PlaceInv, Submitting, Apart, Filling
<1> QED
  BY <1>1, <1>2, <1>3, <1>4, Zenon DEF RequestInv

\* Return leaves the variables as they were before the request.
LEMMA ReturnKeeps ==
  ASSUME RequestInv, Return
  PROVE  RequestInv'
<1>1. /\ pc' = "idle" /\ sgl' = <<>> /\ aperture' = 0 /\ sdesc' = <<>>
      /\ built' = <<>> /\ swDescIdx' = 0 /\ sgIdx' = 0 /\ sg' = 0
      /\ sgOffset' = 0 /\ offset' = 0 /\ addr' = 0 /\ tlen' = 0 /\ epAddr' = 0
      /\ descCnt' = 0 /\ chain' = NoChain /\ misled' = FALSE
  BY Zenon DEF Return
<1>2. descIdx' \in 0 .. DescMax - 1
  BY Zenon DEF Return, RequestInv, Types
<1>3. Types'
  <2>1. pc' \in Pcs /\ pc' \notin Submitting /\ pc' \notin Apart
    BY <1>1, Zenon DEF Pcs, Submitting, Apart
  <2>2. misled' \in BOOLEAN
    BY <1>1, Zenon
  <2> QED
    BY <1>1, <1>2, <2>1, <2>2, StartFacts, Zenon DEF Types
<1>4. IdleInv'
  BY <1>1, Zenon DEF IdleInv
<1>5. ChainInv'
  BY <1>1, StartFacts, Zenon DEF ChainInv, Filling
<1>6. CutInv' /\ BuildInv' /\ FillInv' /\ PlaceInv'
  BY <1>1, Zenon DEF CutInv, BuildInv, FillInv, PlaceInv, Submitting, Apart, Filling
<1> QED
  BY <1>3, <1>4, <1>5, <1>6, Zenon DEF RequestInv

\* The start of a request: nothing is cut yet.
LEMMA SubmitKeeps ==
  ASSUME RequestInv, Submit
  PROVE  RequestInv'
<1>1. /\ pc = "idle" /\ pc' = "init" /\ sgl' \in Lists /\ epAddr' = EpAddr
      /\ aperture' = aperture /\ sdesc' = sdesc /\ sgIdx' = sgIdx /\ addr' = addr
      /\ tlen' = tlen /\ sg' = sg /\ sgOffset' = sgOffset /\ offset' = offset
      /\ swDescIdx' = swDescIdx /\ descCnt' = descCnt /\ descIdx' = descIdx
      /\ chain' = chain /\ built' = built /\ misled' = misled
  BY Zenon DEF Submit, list, cursor, engine
<1>2. /\ aperture = 0 /\ sdesc = <<>> /\ built = <<>> /\ swDescIdx = 0
      /\ sgIdx = 0 /\ tlen = 0 /\ descCnt = 0 /\ chain = NoChain /\ ~misled
  BY <1>1, Zenon DEF RequestInv, IdleInv
<1>3. EpAddr \in Nat /\ 0 \in 0 .. Len(sgl')
  <2>1. Len(sgl') \in 1 .. EntriesMax /\ EntriesMax \in Nat /\ EpAddr \in Nat
    BY <1>1, ListsAre, RequestAssumption, Zenon
  <2> QED
    BY <2>1
<1>4. Types'
  <2>1. Types
    BY Zenon DEF RequestInv
  <2>2. pc' \in Pcs /\ pc' \notin Apart
    BY <1>1, Zenon DEF Pcs, Apart
  <2> QED
    BY <1>1, <1>2, <1>3, <2>1, <2>2, Zenon DEF Types
<1>5. ChainInv'
  BY <1>1, <1>2, StartFacts, Zenon DEF ChainInv, Filling
<1>6. CutInv'
  <2>1. Upto(sgl')[0] = 0 /\ Upto(Extras(sgl'))[0] = 0
    BY <1>1, ListSums, RoomIs, Zenon
  <2>2. TotalLen(Lens(sdesc')) + tlen' = Upto(sgl')[sgIdx']
    <3>1. TotalLen(Lens(sdesc')) = 0 /\ tlen' = 0 /\ Upto(sgl')[sgIdx'] = 0
      BY <1>1, <1>2, <2>1, NoDescs, Zenon
    <3> QED
      BY <3>1
  <2>3. Len(sdesc') + Need(tlen') <= sgIdx' + Upto(Extras(sgl'))[sgIdx']
    <3>1. /\ Len(sdesc') = 0 /\ Need(tlen') = 0 /\ sgIdx' = 0
          /\ Upto(Extras(sgl'))[sgIdx'] = 0
      BY <1>1, <1>2, <2>1, StartFacts, NeedIs, Zenon
    <3> QED
      BY <3>1
  <2>4. LieIn(sgl', sdesc')
    BY <1>1, <1>2, NoDescs, Zenon
  <2>5. ~(tlen' > 0)
    BY <1>1, <1>2
  <2> QED
    BY <1>1, <1>2, <2>2, <2>3, <2>4, <2>5, Zenon DEF CutInv
<1>7. IdleInv' /\ BuildInv' /\ FillInv' /\ PlaceInv'
  BY <1>1, Zenon DEF IdleInv, BuildInv, FillInv, PlaceInv, Apart, Filling
<1> QED
  BY <1>4, <1>5, <1>6, <1>7, Zenon DEF RequestInv

\* The next entry of the list.
LEMMA InitEntryKeeps ==
  ASSUME RequestInv, InitEntry
  PROVE  RequestInv'
<1>1. /\ pc = "init" /\ pc' = "init" /\ tlen = 0 /\ sgIdx < Len(sgl)
      /\ sgIdx' = sgIdx + 1 /\ addr' = Addr(sgIdx + 1) /\ tlen' = sgl[sgIdx + 1]
      /\ sgl' = sgl /\ aperture' = aperture /\ sdesc' = sdesc /\ sg' = sg
      /\ sgOffset' = sgOffset /\ offset' = offset /\ swDescIdx' = swDescIdx
      /\ epAddr' = epAddr /\ descCnt' = descCnt /\ descIdx' = descIdx
      /\ chain' = chain /\ built' = built /\ misled' = misled
  BY Zenon DEF InitEntry, request, cursor, engine
<1>2. Types /\ ChainInv /\ CutInv
  BY Zenon DEF RequestInv
<1>3. /\ sgl \in Lists /\ sdesc \in Seq(SwDesc) /\ sgIdx \in 0 .. Len(sgl)
  BY <1>1, <1>2, Zenon DEF Types
<1>4. /\ LieIn(sgl, sdesc) /\ TotalLen(Lens(sdesc)) + tlen = Upto(sgl)[sgIdx]
      /\ Len(sdesc) + Need(tlen) <= sgIdx + Upto(Extras(sgl))[sgIdx]
      /\ built = <<>> /\ swDescIdx = 0 /\ epAddr = EpAddr
  BY <1>1, <1>2, Zenon DEF CutInv, Submitting
<1>5. PICK i : i = sgIdx + 1
  BY Zenon
<1>6. /\ i \in 1 .. Len(sgl) /\ i \in 0 .. Len(sgl) /\ i \in 1 .. EntriesMax
      /\ i - 1 = sgIdx /\ i > 0 /\ sgIdx \in Nat
  <2>1. Len(sgl) \in 1 .. EntriesMax /\ EntriesMax \in Nat
    BY <1>3, ListsAre, RequestAssumption, Zenon
  <2> QED
    BY <1>1, <1>3, <1>5, <2>1
<1>7. /\ Upto(sgl)[sgIdx] \in Nat /\ Upto(sgl)[i] = Upto(sgl)[sgIdx] + sgl[i]
      /\ sgl[i] \in Nat \ {0} /\ sgl[i] + BlenMax <= Wrap /\ sgl[i] \in Lengths
  BY <1>3, <1>6, ListSums, Zenon
<1>8. Addr(i) \in Nat /\ BlenMax \in Nat \ {0} /\ Wrap \in Nat
  BY <1>6, RequestAssumption, Zenon
<1>9. Types'
  <2>1. sgl[i] \in 0 .. Wrap - 1
    BY <1>7, <1>8
  <2> QED
    BY <1>1, <1>2, <1>5, <1>6, <1>8, <2>1, Zenon DEF Types
<1>10. ChainInv'
  BY <1>1, <1>2, Zenon DEF ChainInv
<1>11. CutInv'
  <2>1. TotalLen(Lens(sdesc)) + sgl[i] = Upto(sgl)[i]
    <3>1. TotalLen(Lens(sdesc)) \in Nat
      BY <1>3, DescLens, PlacesAre, Zenon
    <3> QED
      BY <1>1, <1>4, <1>7, <3>1
  <2>2. Len(sdesc) + Need(sgl[i]) <= i + Upto(Extras(sgl))[i]
    <3>1. Extra(sgl[i]) \in Nat /\ Need(sgl[i]) <= 1 + Extra(sgl[i])
      BY <1>7, RoomIsEnough, Zenon
    <3>2. Need(sgl[i]) \in Nat /\ Need(tlen) = 0
      BY <1>1, <1>7, NeedIs, Zenon
    <3>3. /\ Upto(Extras(sgl))[i] = Upto(Extras(sgl))[sgIdx] + Extra(sgl[i])
          /\ Upto(Extras(sgl))[sgIdx] \in Nat
      BY <1>3, <1>6, RoomIs, Zenon
    <3>4. Len(sdesc) \in Nat
      BY <1>3
    <3> QED
      BY <1>4, <1>5, <1>6, <3>1, <3>2, <3>3, <3>4
  <2>3. Addr(i) = Addr(i) + sgl[i] - sgl[i] /\ sgl[i] <= sgl[i]
    BY <1>7, <1>8
  <2> QED
    BY <1>1, <1>4, <1>5, <1>6, <2>1, <2>2, <2>3, Zenon DEF CutInv
<1>12. IdleInv' /\ BuildInv' /\ FillInv' /\ PlaceInv'
  BY <1>1, Zenon DEF IdleInv, BuildInv, FillInv, PlaceInv, Apart, Filling
<1> QED
  BY <1>9, <1>10, <1>11, <1>12, Zenon DEF RequestInv

\* A piece of an entry.
LEMMA InitPieceKeeps ==
  ASSUME RequestInv, InitPiece
  PROVE  RequestInv'
<1>1. PICK len : len = Least(tlen, BlenMax)
  BY Zenon
<1>2. PICK e : e = [addr |-> addr, len |-> len]
  BY Zenon
<1>3. /\ pc = "init" /\ pc' = "init" /\ tlen > 0 /\ sdesc' = Append(sdesc, e)
      /\ addr' = (IF tlen > BlenMax THEN addr + len ELSE addr) /\ tlen' = tlen - len
      /\ sgl' = sgl /\ aperture' = aperture /\ sgIdx' = sgIdx /\ sg' = sg
      /\ sgOffset' = sgOffset /\ offset' = offset /\ swDescIdx' = swDescIdx
      /\ epAddr' = epAddr /\ descCnt' = descCnt /\ descIdx' = descIdx
      /\ chain' = chain /\ built' = built /\ misled' = misled
  BY <1>1, <1>2, Zenon DEF InitPiece, request, cursor, engine
<1>4. Types /\ ChainInv /\ CutInv
  BY Zenon DEF RequestInv
<1>5. /\ sgl \in Lists /\ sdesc \in Seq(SwDesc) /\ sgIdx \in 0 .. Len(sgl)
      /\ addr \in Nat /\ tlen \in 0 .. Wrap - 1
  BY <1>3, <1>4, Zenon DEF Types
<1>6. /\ LieIn(sgl, sdesc) /\ TotalLen(Lens(sdesc)) + tlen = Upto(sgl)[sgIdx]
      /\ sgIdx > 0 /\ tlen <= sgl[sgIdx]
      /\ addr = Addr(sgIdx) + sgl[sgIdx] - tlen
      /\ Len(sdesc) + Need(tlen) <= sgIdx + Upto(Extras(sgl))[sgIdx]
      /\ built = <<>> /\ swDescIdx = 0 /\ epAddr = EpAddr
  BY <1>3, <1>4, Zenon DEF CutInv, Submitting
<1>7. BlenMax \in Nat \ {0} /\ Wrap \in Nat
  BY RequestAssumption, Zenon
<1>8. /\ len \in 1 .. BlenMax /\ len \in Nat /\ len <= tlen /\ tlen \in Nat
      /\ tlen - len \in Nat /\ tlen - len \in 0 .. Wrap - 1 /\ addr' \in Nat
      /\ tlen - len > 0 => addr' = addr + len
  BY <1>1, <1>3, <1>5, <1>7 DEF Least
<1>9. e \in SwDesc /\ e.addr = addr /\ e.len = len
  BY <1>2, <1>5, <1>8 DEF SwDesc
<1>10. sdesc' \in Seq(SwDesc) /\ Len(sdesc') = Len(sdesc) + 1
  BY <1>3, <1>5, <1>9, AppendIs, Zenon
<1>11. Types'
  BY <1>3, <1>4, <1>8, <1>10, Zenon DEF Types, Submitting, Apart
<1>12. ChainInv'
  BY <1>3, <1>4, Zenon DEF ChainInv
<1>13. /\ sgIdx \in 1 .. Len(sgl) /\ sgIdx \in 1 .. EntriesMax
       /\ DOMAIN sgl = 1 .. Len(sgl)
  <2>1. /\ Len(sgl) \in 1 .. EntriesMax /\ EntriesMax \in Nat
        /\ DOMAIN sgl = 1 .. Len(sgl)
    BY <1>5, ListsAre, RequestAssumption, Zenon
  <2> QED
    BY <1>5, <1>6, <2>1
<1>14. PICK a \in Nat : a = Addr(sgIdx)
  BY <1>13, RequestAssumption, Zenon
<1>15. PICK lo \in Nat : lo = Upto(sgl)[sgIdx - 1]
  BY <1>5, <1>13, ListSums, Zenon
<1>16. PICK hi \in Nat : hi = Upto(sgl)[sgIdx]
  BY <1>5, <1>13, ListSums, Zenon
<1>17. PICK l \in Nat : l = sgl[sgIdx]
  BY <1>5, <1>13, ListSums, Zenon
<1>18. hi = lo + l /\ tlen <= l /\ addr = a + l - tlen
  BY <1>5, <1>6, <1>13, <1>14, <1>15, <1>16, <1>17, ListSums, Zenon
<1>19. PICK n \in Nat : n = TotalLen(Lens(sdesc))
  BY <1>5, DescLens, PlacesAre, Zenon
<1>20. n + tlen = hi
  BY <1>6, <1>16, <1>19, Zenon
<1>21. LieIn(sgl, sdesc')
  <2>1. lo <= n /\ n + len <= hi /\ addr = a + n - lo
    BY <1>8, <1>20, <1>18
  <2>2. LiesIn(sgl, e, n)
    BY <1>9, <1>13, <1>14, <1>15, <1>16, <2>1, Zenon DEF LiesIn
  <2> QED
    BY <1>3, <1>5, <1>6, <1>9, <1>19, <2>2, DescLens, LieAppend, Zenon
<1>22. TotalLen(Lens(sdesc')) + tlen' = Upto(sgl)[sgIdx]
  <2>1. TotalLen(Lens(sdesc')) = n + len
    BY <1>3, <1>5, <1>9, <1>19, DescLens, PlacesAppend, Zenon
  <2> QED
    BY <1>3, <1>8, <1>16, <1>20, <2>1
<1>23. Len(sdesc') + Need(tlen') <= sgIdx + Upto(Extras(sgl))[sgIdx]
  <2>1. Need(tlen) = Need(tlen') + 1
    <3>1. CASE tlen > BlenMax
      <4>1. tlen' = tlen - BlenMax
        BY <1>1, <1>3, <1>5, <1>7, <3>1 DEF Least
      <4> QED
        BY <1>8, <3>1, <4>1, NeedIs, Zenon
    <3>2. CASE ~(tlen > BlenMax)
      <4>1. tlen' = 0 /\ tlen \in 1 .. BlenMax
        BY <1>1, <1>3, <1>5, <1>7, <3>2 DEF Least
      <4>2. Need(tlen') = 0 /\ Need(tlen) = 1
        BY <4>1, NeedIs, Zenon
      <4> QED
        BY <4>2
    <3> QED
      BY <3>1, <3>2, Zenon
  <2>2. Need(tlen') \in Nat
    BY <1>3, <1>8, NeedIs, Zenon
  <2>3. Len(sdesc) \in Nat
    BY <1>5
  <2>4. Upto(Extras(sgl))[sgIdx] \in Nat
    BY <1>5, RoomIs, Zenon
  <2> QED
    BY <1>5, <1>6, <1>10, <2>1, <2>2, <2>3, <2>4
<1>24. tlen' > 0 => /\ sgIdx > 0 /\ tlen' <= sgl[sgIdx]
                    /\ addr' = Addr(sgIdx) + sgl[sgIdx] - tlen'
  <2>1. tlen' > 0 => tlen' <= l /\ addr' = a + l - tlen'
    BY <1>3, <1>5, <1>8, <1>18
  <2> QED
    BY <1>6, <1>14, <1>17, <2>1, Zenon
<1>25. CutInv'
  BY <1>3, <1>6, <1>21, <1>22, <1>23, <1>24, Zenon DEF CutInv
<1>26. IdleInv' /\ BuildInv' /\ FillInv' /\ PlaceInv'
  BY <1>3, Zenon DEF IdleInv, BuildInv, FillInv, PlaceInv, Apart, Filling
<1> QED
  BY <1>11, <1>12, <1>25, <1>26, Zenon DEF RequestInv

\* The list is cut; nothing is written yet.
LEMMA InitDoneKeeps ==
  ASSUME RequestInv, InitDone
  PROVE  RequestInv'
<1>1. /\ pc = "init" /\ pc' = "submit" /\ tlen = 0 /\ sgIdx = Len(sgl)
      /\ sgl' = sgl /\ aperture' = aperture /\ sdesc' = sdesc /\ sgIdx' = sgIdx
      /\ addr' = addr /\ tlen' = tlen /\ sg' = sg
      /\ sgOffset' = sgOffset /\ offset' = offset /\ swDescIdx' = swDescIdx
      /\ epAddr' = epAddr /\ descCnt' = descCnt /\ descIdx' = descIdx
      /\ chain' = chain /\ built' = built /\ misled' = misled
  BY Zenon DEF InitDone, request, list, cursor, engine
<1>2. Types /\ ChainInv /\ CutInv
  BY Zenon DEF RequestInv
<1>3. Types'
  BY <1>1, <1>2, Zenon DEF Types, Pcs, Submitting, Apart
<1>4. ChainInv'
  BY <1>1, <1>2, Zenon DEF ChainInv, Filling
<1>5. CutInv'
  BY <1>1, <1>2, Zenon DEF CutInv, Submitting
<1>6. /\ sdesc \in Seq(SwDesc) /\ built = <<>> /\ swDescIdx = 0 /\ epAddr = EpAddr
  BY <1>1, <1>2, Zenon DEF Types, CutInv, Submitting
<1>7. BuildInv'
  <2>1. Len(sdesc) \in Nat /\ EpAddr \in Nat
    BY <1>6, RequestAssumption
  <2>2. Upto(Lens(sdesc))[0] = 0
    BY <1>6, DescLens, PlacesAre, Zenon
  <2>3. Len(built) = 0 /\ 0 = 0 + 0 /\ 0 <= Len(sdesc) /\ EpAddr = EpAddr + 0
    BY <1>6, <2>1
  <2>4. Copies(built, sdesc)
    BY <1>6, NoDescs, Zenon
  <2> QED
    BY <1>1, <1>6, <2>2, <2>3, <2>4, Zenon DEF BuildInv
<1>8. IdleInv' /\ FillInv' /\ PlaceInv'
  BY <1>1, Zenon DEF IdleInv, FillInv, PlaceInv, Apart, Filling
<1> QED
  BY <1>3, <1>4, <1>5, <1>7, <1>8, Zenon DEF RequestInv

\* A transfer takes a descriptor at least, and none beyond the request or the
\* descriptor array.
LEMMA ChunkIs ==
  ASSUME sdesc \in Seq(SwDesc), swDescIdx \in Nat, swDescIdx < Len(sdesc),
         descIdx \in 0 .. DescMax - 1
  PROVE  /\ Chunk \in Nat /\ Chunk >= 1 /\ swDescIdx + Chunk <= Len(sdesc)
         /\ descIdx + Chunk <= DescMax
<1>1. DescMax \in Nat \ {0}
  BY RequestAssumption, Zenon
<1>2. PICK n \in Nat : n = Len(sdesc)
  OBVIOUS
<1>3. PICK most : most = Least(n - swDescIdx, DescMax)
  BY Zenon
<1>4. most \in Nat /\ most >= 1 /\ most <= n - swDescIdx
  BY <1>1, <1>2, <1>3 DEF Least
<1>5. Chunk = IF descIdx + most >= DescMax THEN DescMax - descIdx ELSE most
  BY <1>2, <1>3, Zenon DEF Chunk
<1>6. PICK c : c = Chunk
  BY Zenon
<1>7. c \in Nat /\ c >= 1 /\ swDescIdx + c <= n /\ descIdx + c <= DescMax
  BY <1>1, <1>4, <1>5, <1>6
<1> QED
  BY <1>2, <1>6, <1>7, Zenon

\* A new transfer.
LEMMA TransferInitKeeps ==
  ASSUME RequestInv, TransferInit
  PROVE  RequestInv'
<1>1. /\ pc = "submit" /\ pc' = "build" /\ swDescIdx < Len(sdesc) /\ descCnt' = 0
      /\ sgl' = sgl /\ aperture' = aperture /\ sdesc' = sdesc /\ sgIdx' = sgIdx
      /\ addr' = addr /\ tlen' = tlen /\ sg' = sg
      /\ sgOffset' = sgOffset /\ offset' = offset /\ swDescIdx' = swDescIdx
      /\ epAddr' = epAddr /\ descIdx' = descIdx
      /\ chain' = chain /\ built' = built /\ misled' = misled
  BY Zenon DEF TransferInit, request, list, cursor, engine
<1>2. Types /\ ChainInv /\ CutInv /\ BuildInv
  BY Zenon DEF RequestInv
<1>3. /\ sdesc \in Seq(SwDesc) /\ swDescIdx \in Nat /\ descIdx \in 0 .. DescMax - 1
      /\ DescMax \in Nat
  BY <1>2, RequestAssumption, Zenon DEF Types
<1>4. Types'
  BY <1>1, <1>2, StartFacts, Zenon DEF Types, Pcs, Submitting, Apart
<1>5. ChainInv'
  <2>1. descIdx + 0 <= DescMax
    BY <1>3
  <2> QED
    BY <1>1, <1>2, <2>1, StartFacts, Zenon DEF ChainInv
<1>6. CutInv'
  BY <1>1, <1>2, Zenon DEF CutInv, Submitting
<1>7. BuildInv'
  <2>1. Chunk' = Chunk
    BY <1>1, Zenon DEF Chunk
  <2>2. 0 <= Chunk
    <3>1. Chunk \in Nat
      BY <1>1, <1>3, ChunkIs, Zenon
    <3> QED
      BY <3>1
  <2> QED
    BY <1>1, <1>2, <2>1, <2>2, Zenon DEF BuildInv
<1>8. IdleInv' /\ FillInv' /\ PlaceInv'
  BY <1>1, Zenon DEF IdleInv, FillInv, PlaceInv, Apart, Filling
<1> QED
  BY <1>4, <1>5, <1>6, <1>7, <1>8, Zenon DEF RequestInv

\* A descriptor.
LEMMA TransferBuildKeeps ==
  ASSUME RequestInv, TransferBuild
  PROVE  RequestInv'
<1>1. PICK s : s = sdesc[swDescIdx + descCnt + 1]
  BY Zenon
<1>2. PICK e : e = [addr |-> s.addr, len |-> s.len, ep |-> epAddr]
  BY Zenon
<1>3. /\ pc = "build" /\ pc' = "build" /\ descCnt < Chunk
      /\ built' = Append(built, e) /\ epAddr' = epAddr + s.len
      /\ descCnt' = descCnt + 1
      /\ sgl' = sgl /\ aperture' = aperture /\ sdesc' = sdesc /\ sgIdx' = sgIdx
      /\ addr' = addr /\ tlen' = tlen /\ sg' = sg
      /\ sgOffset' = sgOffset /\ offset' = offset /\ swDescIdx' = swDescIdx
      /\ descIdx' = descIdx /\ chain' = chain /\ misled' = misled
  BY <1>1, <1>2, Zenon DEF TransferBuild, request, list, cursor, engine
<1>4. Types /\ ChainInv /\ CutInv /\ BuildInv
  BY Zenon DEF RequestInv
<1>5. /\ sdesc \in Seq(SwDesc) /\ swDescIdx \in Nat /\ descIdx \in 0 .. DescMax - 1
      /\ DescMax \in Nat /\ descCnt \in Nat /\ built \in Seq(Desc) /\ epAddr \in Nat
      /\ EpAddr \in Nat
  BY <1>4, RequestAssumption, Zenon DEF Types
<1>6. /\ Len(built) = swDescIdx + descCnt /\ swDescIdx < Len(sdesc)
      /\ swDescIdx <= Len(sdesc)
      /\ epAddr = EpAddr + Upto(Lens(sdesc))[Len(built)] /\ Copies(built, sdesc)
  BY <1>3, <1>4, Zenon DEF BuildInv
<1>7. PICK c \in Nat : c = Chunk
  BY <1>5, <1>6, ChunkIs, Zenon
<1>8. swDescIdx + c <= Len(sdesc) /\ descIdx + c <= DescMax /\ descCnt < c
  BY <1>3, <1>5, <1>6, <1>7, ChunkIs, Zenon
<1>9. PICK n \in Nat : n = Len(built)
  BY <1>5
<1>10. /\ n = swDescIdx + descCnt /\ n + 1 \in 1 .. Len(sdesc) /\ n + 1 - 1 = n
       /\ n \in 0 .. Len(sdesc)
       /\ descCnt + 1 <= c /\ descIdx + (descCnt + 1) <= DescMax
       /\ descCnt + 1 <= DescMax /\ descCnt + 1 \in Nat
  <2>1. Len(sdesc) \in Nat
    BY <1>5
  <2> QED
    BY <1>5, <1>6, <1>8, <1>9, <2>1
<1>11. s = sdesc[n + 1] /\ s \in SwDesc
  BY <1>1, <1>5, <1>10
<1>12. s.addr \in Nat /\ s.len \in 1 .. BlenMax /\ s.len \in Nat
  BY <1>11, DescLens, Zenon
<1>13. e \in Desc /\ e.addr = s.addr /\ e.len = s.len /\ e.ep = epAddr
  BY <1>2, <1>5, <1>12 DEF Desc
<1>14. built' \in Seq(Desc) /\ Len(built') = n + 1
  BY <1>3, <1>5, <1>9, <1>13, AppendIs, Zenon
<1>15. Types'
  <2>1. epAddr + s.len \in Nat
    BY <1>5, <1>12
  <2> QED
    BY <1>3, <1>4, <1>10, <1>14, <2>1, Zenon DEF Types, Submitting, Apart
<1>16. ChainInv'
  BY <1>3, <1>4, <1>10, Zenon DEF ChainInv
<1>17. CutInv'
  BY <1>3, <1>4, Zenon DEF CutInv, Submitting
<1>18. BuildInv'
  <2>1. Chunk' = Chunk
    BY <1>3, Zenon DEF Chunk
  <2>2. n + 1 = swDescIdx + (descCnt + 1)
    BY <1>5, <1>10
  <2>3. Copies(built', sdesc)
    BY <1>3, <1>5, <1>6, <1>9, <1>11, <1>13, CopyAppend, Zenon
  <2>4. epAddr' = EpAddr + Upto(Lens(sdesc))[n + 1]
    <3>1. PICK u \in Nat : u = Upto(Lens(sdesc))[n]
      BY <1>5, <1>10, DescLens, PlacesAre, Zenon
    <3>2. Upto(Lens(sdesc))[n + 1] = Upto(Lens(sdesc))[n + 1 - 1] + sdesc[n + 1].len
      <4>1. \A k \in 1 .. Len(sdesc) :
              Upto(Lens(sdesc))[k] = Upto(Lens(sdesc))[k - 1] + sdesc[k].len
        BY <1>5, DescLens, PlacesAre, Zenon
      <4> QED
        BY <1>10, <4>1
    <3>3. Upto(Lens(sdesc))[n + 1] = u + s.len
      BY <1>10, <1>11, <3>1, <3>2, Zenon
    <3>4. epAddr = EpAddr + u
      BY <1>6, <1>9, <3>1, Zenon
    <3> QED
      BY <1>3, <1>5, <1>12, <3>3, <3>4
  <2> QED
    BY <1>3, <1>6, <1>7, <1>10, <1>14, <2>1, <2>2, <2>3, <2>4, Zenon DEF BuildInv
<1>19. IdleInv' /\ FillInv' /\ PlaceInv'
  BY <1>3, Zenon DEF IdleInv, FillInv, PlaceInv, Apart, Filling
<1> QED
  BY <1>15, <1>16, <1>17, <1>18, <1>19, Zenon DEF RequestInv

\* The chain that a transfer leaves behind.
LEMMA ChainBuiltIs ==
  ASSUME descIdx \in 0 .. DescMax - 1, descCnt \in Nat, descIdx + descCnt <= DescMax,
         ChainBuilt
  PROVE  /\ descIdx' \in 0 .. DescMax - 1 /\ chain' \in [first : Nat, num : Nat]
         /\ chain'.first + chain'.num <= DescMax /\ chain'.num = descCnt
<1>1. DescMax \in Nat \ {0}
  BY RequestAssumption, Zenon
<1>2. /\ chain' = [first |-> descIdx, num |-> descCnt]
      /\ descIdx' = (descIdx + descCnt) % DescMax
  BY Zenon DEF ChainBuilt, NextIdx
<1>3. descIdx + descCnt \in Int
  OBVIOUS
<1>4. descIdx' \in 0 .. DescMax - 1
  BY <1>1, <1>2, <1>3, DivMod, Zenon
<1>5. descIdx \in Nat
  OBVIOUS
<1>6. chain' \in [first : Nat, num : Nat] /\ chain'.first = descIdx /\ chain'.num = descCnt
  BY <1>2, <1>5
<1> QED
  BY <1>4, <1>6, Zenon

\* The end of a transfer.
LEMMA TransferDoneKeeps ==
  ASSUME RequestInv, TransferDone
  PROVE  RequestInv'
<1>1. /\ pc = "build" /\ pc' = "submit" /\ descCnt = Chunk
      /\ swDescIdx' = swDescIdx + descCnt /\ ChainBuilt
      /\ sgl' = sgl /\ aperture' = aperture /\ sdesc' = sdesc /\ sgIdx' = sgIdx
      /\ addr' = addr /\ tlen' = tlen /\ sg' = sg
      /\ sgOffset' = sgOffset /\ offset' = offset /\ epAddr' = epAddr
      /\ descCnt' = descCnt /\ built' = built /\ misled' = misled
  BY Zenon DEF TransferDone, request, list, cursor
<1>2. Types /\ ChainInv /\ CutInv /\ BuildInv
  BY Zenon DEF RequestInv
<1>3. /\ sdesc \in Seq(SwDesc) /\ swDescIdx \in Nat /\ descIdx \in 0 .. DescMax - 1
      /\ descCnt \in Nat
  BY <1>2, RequestAssumption, Zenon DEF Types
<1>4. /\ Len(built) = swDescIdx + descCnt /\ swDescIdx < Len(sdesc)
      /\ epAddr = EpAddr + Upto(Lens(sdesc))[Len(built)] /\ Copies(built, sdesc)
  BY <1>1, <1>2, Zenon DEF BuildInv
<1>5. /\ descCnt >= 1 /\ swDescIdx + descCnt <= Len(sdesc)
      /\ descIdx + descCnt <= DescMax
  BY <1>1, <1>3, <1>4, ChunkIs, Zenon
<1>6. /\ descIdx' \in 0 .. DescMax - 1 /\ chain' \in [first : Nat, num : Nat]
      /\ chain'.first + chain'.num <= DescMax /\ chain'.num = descCnt
  BY <1>1, <1>3, <1>5, ChainBuiltIs, Zenon
<1>7. swDescIdx + descCnt \in Nat /\ descCnt > 0
      /\ swDescIdx + descCnt + 0 = swDescIdx + descCnt
  BY <1>3, <1>5
<1>8. Types'
  BY <1>1, <1>2, <1>6, <1>7, Zenon DEF Types, Pcs, Submitting, Apart
<1>9. ChainInv'
  BY <1>1, <1>2, <1>6, <1>7, Zenon DEF ChainInv, Filling
<1>10. CutInv'
  BY <1>1, <1>2, Zenon DEF CutInv, Submitting
<1>11. BuildInv'
  BY <1>1, <1>4, <1>5, <1>7, Zenon DEF BuildInv
<1>12. IdleInv' /\ FillInv' /\ PlaceInv'
  BY <1>1, Zenon DEF IdleInv, FillInv, PlaceInv, Apart, Filling
<1> QED
  BY <1>8, <1>9, <1>10, <1>11, <1>12, Zenon DEF RequestInv

-----------------------------------------------------------------------------
(* So does every step of xdma_xfer_aperture.                               *)

\* The start of a request.
LEMMA ApertureKeeps ==
  ASSUME RequestInv, Aperture
  PROVE  RequestInv'
<1>1. /\ pc = "idle" /\ pc' = "aperture" /\ sgl' \in Lists /\ aperture' \in Apertures
      /\ sdesc' = sdesc /\ sgIdx' = sgIdx /\ addr' = addr /\ tlen' = tlen
      /\ sg' = sg /\ sgOffset' = sgOffset /\ offset' = offset
      /\ swDescIdx' = swDescIdx /\ epAddr' = epAddr /\ descCnt' = descCnt
      /\ descIdx' = descIdx /\ chain' = chain /\ built' = built /\ misled' = misled
  BY Zenon DEF Aperture, list, cursor, engine
<1>2. /\ sdesc = <<>> /\ built = <<>> /\ swDescIdx = 0 /\ sgIdx = 0
      /\ sgOffset = 0 /\ offset = 0 /\ descCnt = 0 /\ chain = NoChain /\ ~misled
  BY <1>1, Zenon DEF RequestInv, IdleInv
<1>3. /\ 0 \in 0 .. Len(sgl') /\ 1 \in 1 .. Len(sgl') /\ 0 + 1 = 1
  <2>1. Len(sgl') \in 1 .. EntriesMax /\ EntriesMax \in Nat
    BY <1>1, ListsAre, RequestAssumption, Zenon
  <2> QED
    BY <2>1
<1>4. Types'
  <2>1. Types
    BY Zenon DEF RequestInv
  <2>2. pc' \in Pcs /\ pc' \notin Submitting
    BY <1>1, Zenon DEF Pcs, Submitting
  <2> QED
    BY <1>1, <1>2, <1>3, <2>1, <2>2, Zenon DEF Types
<1>5. ChainInv'
  BY <1>1, <1>2, StartFacts, Zenon DEF ChainInv, Filling
<1>6. FillInv'
  <2>1. InAperture(aperture', built')
    BY <1>1, <1>2, NoDescs, Zenon
  <2> QED
    BY <1>1, <1>2, <2>1, Zenon DEF FillInv, Filling
<1>7. PlaceInv'
  <2>1. LieIn(sgl', built') /\ EpsFollow(aperture', built')
    BY <1>1, <1>2, NoDescs, Zenon
  <2>2. offset' = TotalLen(Lens(built'))
    BY <1>1, <1>2, NoDescs, Zenon
  <2>3. offset' = Upto(sgl')[sgIdx'] + sgOffset'
    <3>1. Upto(sgl')[sgIdx'] = 0 /\ offset' = 0 /\ sgOffset' = 0
      BY <1>1, <1>2, ListSums, Zenon
    <3> QED
      BY <3>1
  <2>4. 0 < sgl'[1]
    <3>1. sgl'[1] \in Nat \ {0}
      BY <1>1, <1>3, ListSums, Zenon
    <3> QED
      BY <3>1
  <2>5. IF sgIdx' < Len(sgl') THEN sgOffset' < sgl'[sgIdx' + 1] ELSE sgOffset' = 0
    BY <1>1, <1>2, <1>3, <2>4, Zenon
  <2> QED
    BY <1>1, <2>1, <2>2, <2>3, <2>5, Zenon DEF PlaceInv, Filling
<1>8. IdleInv' /\ CutInv' /\ BuildInv'
  BY <1>1, Zenon DEF IdleInv, CutInv, BuildInv, Submitting
<1> QED
  BY <1>4, <1>5, <1>6, <1>7, <1>8, Zenon DEF RequestInv

\* Behind the last entry nothing is left of the request.
LEMMA LastEntry ==
  ASSUME sgl \in Lists, sgIdx = Len(sgl), sgOffset = 0,
         offset = Upto(sgl)[sgIdx] + sgOffset
  PROVE  ~(offset < TotalLen(sgl))
<1>1. TotalLen(sgl) \in Nat /\ TotalLen(sgl) = Upto(sgl)[sgIdx]
  BY ListSums, Zenon
<1> QED
  BY <1>1

\* The start of a transfer.
LEMMA ApertureTransferKeeps ==
  ASSUME RequestInv, ApertureTransfer
  PROVE  RequestInv'
<1>1. /\ pc = "aperture" /\ pc' = "entry" /\ offset < TotalLen(sgl) /\ descCnt' = 0
      /\ sg' = 1 /\ epAddr' = EpAddr + (offset % aperture)
      /\ misled' = (misled \/ 1 # sgIdx + 1)
      /\ sgl' = sgl /\ aperture' = aperture /\ sdesc' = sdesc /\ sgIdx' = sgIdx
      /\ addr' = addr /\ tlen' = tlen /\ sgOffset' = sgOffset /\ offset' = offset
      /\ swDescIdx' = swDescIdx /\ descIdx' = descIdx /\ chain' = chain
      /\ built' = built
  BY Zenon DEF ApertureTransfer, request, list, engine, FirstEntry, FirstEp
<1>2. Types /\ ChainInv /\ FillInv /\ PlaceInv
  BY Zenon DEF RequestInv
<1>3. /\ sgl \in Lists /\ sgIdx \in 0 .. Len(sgl) /\ aperture \in Apertures
      /\ offset \in 0 .. Wrap - 1 /\ descIdx \in 0 .. DescMax - 1 /\ EpAddr \in Nat
      /\ DescMax \in Nat
  BY <1>1, <1>2, RequestAssumption, Zenon DEF Types, Apart
<1>4. aperture \in Nat \ {0} /\ sgIdx \in Nat /\ Len(sgl) \in Nat /\ Len(sgl) >= 1
  <2>1. Len(sgl) \in 1 .. EntriesMax /\ EntriesMax \in Nat
        /\ Apertures \subseteq Nat \ {0}
    BY <1>3, ListsAre, RequestAssumption, Zenon
  <2> QED
    BY <1>3, <2>1
<1>5. PICK r \in 0 .. aperture - 1 : r = offset % aperture
  BY <1>3, <1>4, DivMod
<1>6. /\ EpAddr + r \in Nat /\ EpAddr + r >= EpAddr /\ EpAddr + r <= EpAddr + aperture
      /\ 1 \in Nat /\ 1 \in 1 .. sgIdx + 1
  BY <1>3, <1>4, <1>5
<1>7. Types'
  <2>1. misled' \in BOOLEAN
    BY <1>1, Zenon
  <2> QED
    BY <1>1, <1>2, <1>5, <1>6, <2>1, StartFacts, Zenon
    DEF Types, Pcs, Submitting, Apart
<1>8. ChainInv'
  <2>1. descIdx + 0 <= DescMax
    BY <1>3
  <2> QED
    BY <1>1, <1>2, <2>1, StartFacts, Zenon DEF ChainInv
<1>9. ~misled => /\ LieIn(sgl, built) /\ EpsFollow(aperture, built)
                 /\ offset = TotalLen(Lens(built))
                 /\ offset = Upto(sgl)[sgIdx] + sgOffset
                 /\ IF sgIdx < Len(sgl) THEN sgOffset < sgl[sgIdx + 1]
                                        ELSE sgOffset = 0
  BY <1>1, <1>2, Zenon DEF PlaceInv
<1>10. Len(sgl) <= 1 => ~misled'
  <2> SUFFICES ASSUME Len(sgl) <= 1
               PROVE  ~misled'
    BY Zenon
  <2>1. ~misled
    BY <1>1, <1>2, Zenon DEF FillInv, Apart
  <2>2. sgIdx < Len(sgl)
    <3>1. ASSUME ~(sgIdx < Len(sgl))
          PROVE  FALSE
      <4>1. sgIdx = Len(sgl)
        BY <1>3, <1>4, <3>1
      <4>2. sgOffset = 0
        BY <1>9, <2>1, <3>1, Zenon
      <4> QED
        BY <1>1, <1>3, <1>9, <2>1, <4>1, <4>2, LastEntry, Zenon
    <3> QED
      BY <3>1, Zenon
  <2>3. 1 = sgIdx + 1
    BY <1>4, <2>2
  <2> QED
    BY <1>1, <2>1, <2>3, Zenon
<1>11. FillInv'
  BY <1>1, <1>2, <1>5, <1>6, <1>10, Zenon DEF FillInv, Apart, Filling
<1>12. PlaceInv'
  <2> SUFFICES ASSUME ~misled'
               PROVE  PlaceInv'
    BY Zenon DEF PlaceInv
  <2>1. ~misled /\ 1 = sgIdx + 1
    BY <1>1, Zenon
  <2>2. EpOf(epAddr', aperture', offset')
    BY <1>1, Zenon DEF EpOf
  <2> QED
    BY <1>1, <1>9, <2>1, <2>2, Zenon DEF PlaceInv
<1>13. IdleInv' /\ CutInv' /\ BuildInv'
  BY <1>1, Zenon DEF IdleInv, CutInv, BuildInv, Submitting
<1> QED
  BY <1>7, <1>8, <1>11, <1>12, <1>13, Zenon DEF RequestInv

\* A turn of the outer loop.
LEMMA FillEntryKeeps ==
  ASSUME RequestInv, FillEntry
  PROVE  RequestInv'
<1>1. /\ pc = "entry" /\ pc' = "fill" /\ sgIdx < Len(sgl)
      /\ addr' = Addr(sg) + sgOffset /\ tlen' = (sgl[sg] - sgOffset) % Wrap
      /\ sgl' = sgl /\ aperture' = aperture /\ sdesc' = sdesc /\ sgIdx' = sgIdx
      /\ sg' = sg /\ sgOffset' = sgOffset /\ offset' = offset
      /\ swDescIdx' = swDescIdx /\ epAddr' = epAddr /\ descCnt' = descCnt
      /\ descIdx' = descIdx /\ chain' = chain /\ built' = built /\ misled' = misled
  BY Zenon DEF FillEntry, request, cursor, engine
<1>2. Types /\ ChainInv /\ FillInv /\ PlaceInv
  BY Zenon DEF RequestInv
<1>3. /\ sgl \in Lists /\ sgIdx \in 0 .. Len(sgl) /\ sgOffset \in 0 .. Wrap - 1
      /\ Wrap \in Nat \ {0} /\ sg \in 1 .. sgIdx + 1
  BY <1>1, <1>2, RequestAssumption, Zenon DEF Types, FillInv, Apart, Filling
<1>4. sg \in 1 .. Len(sgl) /\ sg \in 1 .. EntriesMax
  <2>1. Len(sgl) \in 1 .. EntriesMax /\ EntriesMax \in Nat
    BY <1>3, ListsAre, RequestAssumption, Zenon
  <2> QED
    BY <1>1, <1>3, <2>1
<1>5. PICK a \in Nat : a = Addr(sg)
  BY <1>4, RequestAssumption, Zenon
<1>6. PICK l \in Nat : l = sgl[sg]
  BY <1>3, <1>4, ListSums, Zenon
<1>7. l + BlenMax <= Wrap /\ BlenMax \in Nat \ {0}
  BY <1>3, <1>4, <1>6, ListSums, RequestAssumption, Zenon
<1>8. Types'
  <2>1. l - sgOffset \in Int /\ a + sgOffset \in Nat
    BY <1>3
  <2>2. (l - sgOffset) % Wrap \in 0 .. Wrap - 1
    BY <1>3, <2>1, DivMod, Zenon
  <2> QED
    BY <1>1, <1>2, <1>5, <1>6, <2>1, <2>2, Zenon DEF Types, Pcs, Submitting, Apart
<1>9. ChainInv'
  BY <1>1, <1>2, Zenon DEF ChainInv, Filling
<1>10. FillInv'
  BY <1>1, <1>2, Zenon DEF FillInv, Apart, Filling
<1>11. PlaceInv'
  <2> SUFFICES ASSUME ~misled
               PROVE  PlaceInv'
    BY <1>1, Zenon DEF PlaceInv
  <2>1. sg = sgIdx + 1 /\ sgOffset < sgl[sgIdx + 1]
    BY <1>1, <1>2, Zenon DEF PlaceInv, Filling
  <2>2. sgOffset < l
    BY <1>6, <2>1, Zenon
  <2>3. l - sgOffset \in 0 .. Wrap - 1 /\ sgOffset + (l - sgOffset) = l
    BY <1>3, <1>7, <2>2
  <2>4. (l - sgOffset) % Wrap = l - sgOffset
    BY <1>3, <2>3, ModSmall, Zenon
  <2>5. sgOffset' + tlen' = sgl'[sgIdx' + 1]
    BY <1>1, <1>6, <2>1, <2>3, <2>4, Zenon
  <2>6. addr' = Addr(sgIdx' + 1) + sgOffset'
    BY <1>1, <2>1, Zenon
  <2> QED
    BY <1>1, <1>2, <2>5, <2>6, Zenon DEF PlaceInv, Filling
<1>12. IdleInv' /\ CutInv' /\ BuildInv'
  BY <1>1, Zenon DEF IdleInv, CutInv, BuildInv, Submitting
<1> QED
  BY <1>8, <1>9, <1>10, <1>11, <1>12, Zenon DEF RequestInv

\* A piece ends with the entry, the longest descriptor or the aperture.
LEMMA PieceIs ==
  ASSUME aperture \in Nat \ {0}, tlen \in Nat \ {0}, NEW ep \in Nat,
         ep >= EpAddr, ep < EpAddr + aperture
  PROVE  /\ Piece(ep) \in 1 .. BlenMax /\ Piece(ep) <= tlen
         /\ ep + Piece(ep) <= EpAddr + aperture
<1>1. BlenMax \in Nat \ {0} /\ EpAddr \in Nat
  BY RequestAssumption, Zenon
<1>2. PICK len : len = Least(Least(aperture, BlenMax), tlen)
  BY Zenon
<1>3. len \in 1 .. BlenMax /\ len <= tlen /\ len <= aperture
  BY <1>1, <1>2 DEF Least
<1>4. PICK epMax : epMax = EpAddr + aperture - 1
  BY Zenon
<1>5. Piece(ep) = IF ep + len > epMax THEN epMax - ep + 1 ELSE len
  BY <1>2, <1>4, Zenon DEF Piece
<1>6. PICK p : p = Piece(ep)
  BY Zenon
<1>7. p \in 1 .. BlenMax /\ p <= tlen /\ ep + p <= EpAddr + aperture
  BY <1>1, <1>3, <1>4, <1>5, <1>6
<1> QED
  BY <1>6, <1>7, Zenon

\* The end point address, moved back to the start behind the aperture.
Rewound(ep, old, size) ==
  ep = IF old > EpAddr + size - 1 THEN EpAddr ELSE old

\* The end point of a piece is that of its first byte, and the one behind it
\* follows.
LEMMA EpMoves ==
  ASSUME NEW size \in Nat \ {0}, NEW n \in Nat, NEW old \in Nat, EpOf(old, size, n),
         NEW ep \in Nat, Rewound(ep, old, size),
         NEW len \in Nat, ep + len <= EpAddr + size
  PROVE  ep = EpAddr + (n % size) /\ EpOf(ep + len, size, n + len)
<1>1. EpAddr \in Nat /\ n \in Int
  BY RequestAssumption
<1>2. PICK r \in 0 .. size - 1 : r = n % size
  BY <1>1, DivMod, Zenon
<1>3. old = EpAddr + r \/ (old = EpAddr + size /\ r = 0)
  BY <1>2, Zenon DEF EpOf
<1>4. ep = EpAddr + r
  BY <1>1, <1>2, <1>3, SMTT(20) DEF Rewound
<1>5. r \in Nat /\ ModIs(n, size, r)
  <2>1. r \in Nat
    BY <1>2
  <2> QED
    BY <1>2, <2>1, Zenon DEF ModIs
<1>6. r + len <= size
  BY <1>1, <1>2, <1>4
<1>7. CASE r + len < size
  <2>1. ModIs(n + len, size, r + len)
    BY <1>5, <1>7, ModMoves, Zenon
  <2>2. ep + len = EpAddr + (r + len)
    BY <1>1, <1>4, <1>5
  <2> QED
    BY <1>2, <1>4, <2>1, <2>2, Zenon DEF ModIs, EpOf
<1>8. CASE r + len = size
  <2>1. ModIs(n + len, size, 0)
    BY <1>5, <1>8, ModEnds, Zenon
  <2>2. ep + len = EpAddr + size
    BY <1>1, <1>4, <1>5, <1>8
  <2> QED
    BY <1>2, <1>4, <2>1, <2>2, Zenon DEF ModIs, EpOf
<1>9. r + len < size \/ r + len = size
  BY <1>5, <1>6
<1> QED
  BY <1>7, <1>8, <1>9, Zenon

\* A turn of the inner loop.
LEMMA FillPieceKeeps ==
  ASSUME RequestInv, FillPiece
  PROVE  RequestInv'
<1>1. PICK ep : ep = IF epAddr > EpAddr + aperture - 1 THEN EpAddr ELSE epAddr
  BY Zenon
<1>2. PICK len : len = Piece(ep)
  BY Zenon
<1>3. PICK e : e = [addr |-> addr, len |-> len, ep |-> ep]
  BY Zenon
<1>4. /\ pc = "fill" /\ pc' = "fill" /\ tlen > 0 /\ ~Full
      /\ built' = Append(built, e)
      /\ sgOffset' = (sgOffset + len) % Wrap /\ offset' = (offset + len) % Wrap
      /\ epAddr' = ep + len /\ addr' = addr + len /\ tlen' = tlen - len
      /\ descCnt' = descCnt + 1
      /\ sgl' = sgl /\ aperture' = aperture /\ sdesc' = sdesc /\ sgIdx' = sgIdx
      /\ sg' = sg /\ swDescIdx' = swDescIdx /\ descIdx' = descIdx
      /\ chain' = chain /\ misled' = misled
  BY <1>1, <1>2, <1>3, Zenon DEF FillPiece, request, engine
<1>5. Types /\ ChainInv /\ FillInv /\ PlaceInv
  BY Zenon DEF RequestInv
<1>6. /\ sgl \in Lists /\ sgIdx \in 0 .. Len(sgl) /\ aperture \in Apertures
      /\ sgOffset \in 0 .. Wrap - 1 /\ offset \in 0 .. Wrap - 1
      /\ tlen \in 0 .. Wrap - 1 /\ addr \in Nat /\ epAddr \in Nat
      /\ built \in Seq(Desc) /\ descCnt \in Nat /\ descIdx \in 0 .. DescMax - 1
  BY <1>4, <1>5, Zenon DEF Types, Apart
<1>7. /\ Wrap \in Nat \ {0} /\ DescMax \in Nat /\ EpAddr \in Nat /\ BlenMax \in Nat
      /\ Apertures \subseteq Nat \ {0}
  BY RequestAssumption, Zenon
<1>8. aperture \in Nat \ {0} /\ tlen \in Nat \ {0}
  BY <1>4, <1>6, <1>7
<1>9. /\ epAddr >= EpAddr /\ epAddr <= EpAddr + aperture /\ sg \in 1 .. sgIdx + 1
      /\ sgIdx < Len(sgl) /\ InAperture(aperture, built) /\ (Len(sgl) <= 1 => ~misled)
  BY <1>4, <1>5, Zenon DEF FillInv, Apart, Filling
<1>10. ep \in Nat /\ ep >= EpAddr /\ ep < EpAddr + aperture
  BY <1>1, <1>6, <1>7, <1>8, <1>9
<1>11. len \in 1 .. BlenMax /\ len <= tlen /\ ep + len <= EpAddr + aperture
  BY <1>2, <1>8, <1>10, PieceIs, Zenon
<1>12. /\ len \in Nat /\ ep + len \in Nat /\ ep + len >= EpAddr /\ addr + len \in Nat
       /\ tlen - len \in 0 .. Wrap - 1 /\ sgOffset + len \in Int /\ offset + len \in Int
  BY <1>6, <1>7, <1>8, <1>10, <1>11
<1>13. /\ descIdx + (descCnt + 1) <= DescMax /\ descCnt + 1 \in Nat
       /\ descCnt + 1 <= DescMax /\ descCnt + 1 # 0
  <2>1. ~(descIdx + descCnt >= DescMax)
    BY <1>4, Zenon DEF Full
  <2> QED
    BY <1>6, <1>7, <2>1
<1>14. e \in Desc /\ e.addr = addr /\ e.len = len /\ e.ep = ep
  BY <1>3, <1>6, <1>10, <1>11 DEF Desc
<1>15. built' \in Seq(Desc)
  BY <1>4, <1>6, <1>14, AppendIs, Zenon
<1>16. Types'
  <2>1. (sgOffset + len) % Wrap \in 0 .. Wrap - 1 /\ (offset + len) % Wrap \in 0 .. Wrap - 1
    BY <1>7, <1>12, DivMod, Zenon
  <2> QED
    BY <1>4, <1>5, <1>12, <1>13, <1>15, <2>1, Zenon DEF Types, Pcs, Submitting, Apart
<1>17. ChainInv'
  BY <1>4, <1>5, <1>13, Zenon DEF ChainInv
<1>18. FillInv'
  <2>1. InAperture(aperture, built')
    BY <1>4, <1>6, <1>9, <1>10, <1>11, <1>14, ApertureAppend, Zenon
  <2> QED
    BY <1>4, <1>9, <1>11, <1>12, <2>1, Zenon DEF FillInv, Filling
<1>19. PlaceInv'
  <2> SUFFICES ASSUME ~misled
               PROVE  PlaceInv'
    BY <1>4, Zenon DEF PlaceInv
  <2>1. /\ LieIn(sgl, built) /\ EpsFollow(aperture, built)
        /\ offset = TotalLen(Lens(built)) /\ offset = Upto(sgl)[sgIdx] + sgOffset
        /\ sgOffset + tlen = sgl[sgIdx + 1] /\ addr = Addr(sgIdx + 1) + sgOffset
        /\ sg = sgIdx + 1 /\ EpOf(epAddr, aperture, offset)
    BY <1>4, <1>5, Zenon DEF PlaceInv, Filling
  <2>2. PICK i : i = sgIdx + 1
    BY Zenon
  <2>3. /\ i \in 1 .. Len(sgl) /\ i \in 1 .. EntriesMax /\ i - 1 = sgIdx
        /\ DOMAIN sgl = 1 .. Len(sgl)
    <3>1. /\ Len(sgl) \in 1 .. EntriesMax /\ EntriesMax \in Nat
          /\ DOMAIN sgl = 1 .. Len(sgl)
      BY <1>6, ListsAre, RequestAssumption, Zenon
    <3> QED
      BY <1>6, <1>9, <2>2, <3>1
  <2>4. PICK lo \in Nat : lo = Upto(sgl)[sgIdx]
    BY <1>6, ListSums, Zenon
  <2>5. PICK hi \in Nat : hi = Upto(sgl)[i]
    BY <1>6, <2>3, ListSums, Zenon
  <2>6. PICK l \in Nat : l = sgl[i]
    BY <1>6, <2>3, ListSums, Zenon
  <2>7. PICK a \in Nat : a = Addr(i)
    BY <2>3, RequestAssumption, Zenon
  <2>8. hi = lo + l /\ hi <= TotalLen(sgl) /\ TotalLen(sgl) < Wrap /\ TotalLen(sgl) \in Nat
    BY <1>6, <2>3, <2>4, <2>5, <2>6, ListSums, ListsAre, Zenon
  <2>9. offset = lo + sgOffset /\ sgOffset + tlen = l /\ addr = a + sgOffset
    BY <2>1, <2>2, <2>4, <2>6, <2>7, Zenon
  <2>10. /\ lo <= offset /\ offset + len <= hi /\ addr = a + offset - lo
         /\ offset + len \in 0 .. Wrap - 1 /\ sgOffset + len \in 0 .. Wrap - 1
         /\ offset + len = lo + (sgOffset + len)
         /\ (sgOffset + len) + (tlen - len) = l /\ addr + len = a + (sgOffset + len)
         /\ offset \in Nat
    BY <1>6, <1>7, <1>11, <1>12, <2>8, <2>9
  <2>11. sgOffset' = sgOffset + len /\ offset' = offset + len
    BY <1>4, <1>7, <2>10, ModSmall, Zenon
  <2>12. ep = EpAddr + (offset % aperture) /\ EpOf(ep + len, aperture, offset + len)
    <3>1. Rewound(ep, epAddr, aperture)
      BY <1>1, Zenon DEF Rewound
    <3> QED
      BY <1>6, <1>8, <1>10, <1>11, <1>12, <2>1, <2>10, <3>1, EpMoves, Zenon
  <2>13. LieIn(sgl, built')
    <3>1. LiesIn(sgl, e, offset)
      BY <1>14, <2>3, <2>4, <2>5, <2>7, <2>10, Zenon DEF LiesIn
    <3> QED
      BY <1>4, <1>6, <1>14, <2>1, <3>1, DescLens, LieAppend, Zenon
  <2>14. EpsFollow(aperture, built')
    BY <1>4, <1>6, <1>14, <2>1, <2>12, EpsAppend, Zenon
  <2>15. offset' = TotalLen(Lens(built'))
    <3>1. TotalLen(Lens(built')) = TotalLen(Lens(built)) + e.len
      BY <1>4, <1>6, <1>14, DescLens, PlacesAppend, Zenon
    <3> QED
      BY <1>14, <2>1, <2>11, <3>1, Zenon
  <2>16. /\ offset' = Upto(sgl')[sgIdx'] + sgOffset'
         /\ sgOffset' + tlen' = sgl'[sgIdx' + 1] /\ addr' = Addr(sgIdx' + 1) + sgOffset'
    BY <1>4, <2>2, <2>4, <2>6, <2>7, <2>10, <2>11, Zenon
  <2>17. EpOf(epAddr', aperture', offset') /\ sg' = sgIdx' + 1 /\ descCnt' # 0
    BY <1>4, <1>13, <2>1, <2>11, <2>12, Zenon
  <2> QED
    BY <1>4, <2>13, <2>14, <2>15, <2>16, <2>17, Zenon DEF PlaceInv
<1>20. IdleInv' /\ CutInv' /\ BuildInv'
  BY <1>4, Zenon DEF IdleInv, CutInv, BuildInv, Submitting
<1> QED
  BY <1>16, <1>17, <1>18, <1>19, <1>20, Zenon DEF RequestInv

\* The next entry: what is behind a finished entry is the start of the next.
LEMMA FillNextKeeps ==
  ASSUME RequestInv, FillNext
  PROVE  RequestInv'
<1>1. /\ pc = "fill" /\ pc' = "entry" /\ tlen = 0 /\ sgOffset' = 0
      /\ sgIdx' = sgIdx + 1 /\ sg' = sg + 1
      /\ sgl' = sgl /\ aperture' = aperture /\ sdesc' = sdesc /\ addr' = addr
      /\ tlen' = tlen /\ offset' = offset /\ swDescIdx' = swDescIdx
      /\ epAddr' = epAddr /\ descCnt' = descCnt /\ descIdx' = descIdx
      /\ chain' = chain /\ built' = built /\ misled' = misled
  BY Zenon DEF FillNext, EntryDone, request, engine
<1>2. Types /\ ChainInv /\ FillInv /\ PlaceInv
  BY Zenon DEF RequestInv
<1>3. /\ sgl \in Lists /\ sgIdx \in 0 .. Len(sgl) /\ sgOffset \in 0 .. Wrap - 1
      /\ sgIdx < Len(sgl) /\ sg \in 1 .. sgIdx + 1
  BY <1>1, <1>2, Zenon DEF Types, FillInv, Apart, Filling
<1>4. PICK i : i = sgIdx + 1
  BY Zenon
<1>5. /\ i \in 1 .. Len(sgl) /\ i \in 0 .. Len(sgl) /\ i - 1 = sgIdx
      /\ sg + 1 \in 1 .. i + 1 /\ sg + 1 \in Nat
      /\ i < Len(sgl) => i + 1 \in 1 .. Len(sgl)
  <2>1. Len(sgl) \in 1 .. EntriesMax /\ EntriesMax \in Nat
    BY <1>3, ListsAre, RequestAssumption, Zenon
  <2> QED
    BY <1>3, <1>4, <2>1
<1>6. Types'
  BY <1>1, <1>2, <1>4, <1>5, StartFacts, Zenon DEF Types, Pcs, Submitting, Apart
<1>7. ChainInv'
  BY <1>1, <1>2, Zenon DEF ChainInv, Filling
<1>8. FillInv'
  BY <1>1, <1>2, <1>4, <1>5, Zenon DEF FillInv, Apart, Filling
<1>9. PlaceInv'
  <2> SUFFICES ASSUME ~misled
               PROVE  PlaceInv'
    BY <1>1, Zenon DEF PlaceInv
  <2>1. /\ LieIn(sgl, built) /\ EpsFollow(aperture, built)
        /\ offset = TotalLen(Lens(built)) /\ offset = Upto(sgl)[sgIdx] + sgOffset
        /\ sgOffset + tlen = sgl[sgIdx + 1]
        /\ sg = sgIdx + 1 /\ EpOf(epAddr, aperture, offset)
        /\ (descCnt = 0 => offset < TotalLen(sgl))
    BY <1>1, <1>2, Zenon DEF PlaceInv, Filling
  <2>2. PICK lo \in Nat : lo = Upto(sgl)[sgIdx]
    BY <1>3, ListSums, Zenon
  <2>3. PICK l \in Nat : l = sgl[i]
    BY <1>3, <1>5, ListSums, Zenon
  <2>4. Upto(sgl)[i] = lo + l
    BY <1>3, <1>5, <2>2, <2>3, ListSums, Zenon
  <2>5. sgOffset + tlen = l /\ offset = lo + sgOffset
    BY <1>4, <2>1, <2>2, <2>3, Zenon
  <2>6. offset = Upto(sgl)[i] + 0
    BY <1>1, <1>3, <2>4, <2>5
  <2>7. ASSUME i < Len(sgl)
        PROVE  0 < sgl[i + 1]
    <3>1. sgl[i + 1] \in Nat \ {0}
      BY <1>3, <1>5, <2>7, ListSums, Zenon
    <3> QED
      BY <3>1
  <2>8. IF sgIdx' < Len(sgl') THEN sgOffset' < sgl'[sgIdx' + 1] ELSE sgOffset' = 0
    BY <1>1, <1>4, <2>7, Zenon
  <2>9. offset' = Upto(sgl')[sgIdx'] + sgOffset' /\ sg' = sgIdx' + 1
    BY <1>1, <1>4, <2>1, <2>6, Zenon
  <2> QED
    BY <1>1, <2>1, <2>8, <2>9, Zenon DEF PlaceInv
<1>10. IdleInv' /\ CutInv' /\ BuildInv'
  BY <1>1, Zenon DEF IdleInv, CutInv, BuildInv, Submitting
<1> QED
  BY <1>6, <1>7, <1>8, <1>9, <1>10, Zenon DEF RequestInv

\* The end of a transfer: it has no descriptor only in a request that took an
\* entry for another.
LEMMA FillDoneKeeps ==
  ASSUME RequestInv, FillDone
  PROVE  RequestInv'
<1>1. /\ pc \in Filling /\ pc' = (IF descCnt = 0 THEN "overrun" ELSE "aperture")
      /\ ChainBuilt
      /\ sgl' = sgl /\ aperture' = aperture /\ sdesc' = sdesc /\ sgIdx' = sgIdx
      /\ addr' = addr /\ tlen' = tlen /\ sg' = sg /\ sgOffset' = sgOffset
      /\ offset' = offset /\ swDescIdx' = swDescIdx /\ epAddr' = epAddr
      /\ descCnt' = descCnt /\ built' = built /\ misled' = misled
  BY Zenon DEF FillDone, request, list, cursor, Filling
<1>2. \/ pc = "entry" /\ sgIdx >= Len(sgl)
      \/ Full
  BY Zenon DEF FillDone
<1>3. pc = "fill" => tlen # 0
  BY Zenon DEF FillDone, EntryDone
<1>4. Types /\ ChainInv /\ FillInv /\ PlaceInv
  BY Zenon DEF RequestInv
<1>5. /\ sgl \in Lists /\ sgIdx \in 0 .. Len(sgl) /\ sgOffset \in 0 .. Wrap - 1
      /\ tlen \in 0 .. Wrap - 1 /\ descIdx \in 0 .. DescMax - 1 /\ descCnt \in Nat
      /\ descIdx + descCnt <= DescMax
  BY <1>1, <1>4, Zenon DEF Types, ChainInv, Filling
<1>6. /\ descIdx' \in 0 .. DescMax - 1 /\ chain' \in [first : Nat, num : Nat]
      /\ chain'.first + chain'.num <= DescMax /\ chain'.num = descCnt
  BY <1>1, <1>5, ChainBuiltIs, Zenon
<1>7. pc' \in {"aperture", "overrun"} /\ pc' \in Pcs /\ pc' \in Apart /\ pc \in Apart
  BY <1>1, Zenon DEF Pcs, Apart, Filling
<1>8. Types'
  BY <1>1, <1>4, <1>6, <1>7, Zenon DEF Types, Submitting, Apart
<1>9. ChainInv'
  <2>1. descCnt > 0 \/ descCnt = 0
    BY <1>5
  <2>2. pc' \notin Filling \cup {"build"}
    BY <1>7, Zenon DEF Filling
  <2> QED
    BY <1>1, <1>4, <1>6, <2>1, <2>2, Zenon DEF ChainInv
<1>10. Len(sgl) \in Nat
  BY <1>5, ListsAre
<1>11. ~misled => /\ LieIn(sgl, built) /\ EpsFollow(aperture, built)
                  /\ offset = TotalLen(Lens(built))
                  /\ offset = Upto(sgl)[sgIdx] + sgOffset
                  /\ (descCnt = 0 => offset < TotalLen(sgl))
                  /\ IF sgIdx < Len(sgl) THEN sgOffset < sgl[sgIdx + 1]
                                         ELSE sgOffset = 0
  <2> SUFFICES ASSUME ~misled
               PROVE  IF sgIdx < Len(sgl) THEN sgOffset < sgl[sgIdx + 1]
                                          ELSE sgOffset = 0
    BY <1>1, <1>4, Zenon DEF PlaceInv, Filling
  <2>1. CASE pc = "fill"
    <3>1. sgIdx < Len(sgl) /\ sgOffset + tlen = sgl[sgIdx + 1]
      BY <1>4, <1>7, <2>1, Zenon DEF FillInv, PlaceInv, Filling
    <3>2. PICK l : l = sgl[sgIdx + 1]
      BY Zenon
    <3>3. sgOffset + tlen = l /\ tlen # 0
      BY <1>3, <2>1, <3>1, <3>2, Zenon
    <3>4. sgOffset < l
      BY <1>5, <3>3
    <3> QED
      BY <3>1, <3>2, <3>4, Zenon
  <2>2. CASE pc # "fill"
    BY <1>1, <1>4, <2>2, Zenon DEF PlaceInv, Filling
  <2> QED
    BY <2>1, <2>2, Zenon
<1>12. descCnt = 0 => misled
  <2> SUFFICES ASSUME descCnt = 0, ~misled
               PROVE  FALSE
    BY Zenon
  <2>1. ~Full
    <3>1. DescMax \in Nat
      BY RequestAssumption, Zenon
    <3>2. ~(descIdx + descCnt >= DescMax)
      BY <1>5, <3>1
    <3> QED
      BY <3>2, Zenon DEF Full
  <2>2. sgIdx >= Len(sgl)
    BY <1>2, <2>1, Zenon
  <2>3. sgIdx = Len(sgl) /\ ~(sgIdx < Len(sgl))
    BY <1>5, <1>10, <2>2
  <2>4. sgOffset = 0 /\ offset = Upto(sgl)[sgIdx] + sgOffset /\ offset < TotalLen(sgl)
    BY <1>11, <2>3, Zenon
  <2> QED
    BY <1>5, <2>3, <2>4, LastEntry, Zenon
<1>13. FillInv'
  <2>1. pc' \notin Filling /\ pc' # "fill"
    BY <1>7, Zenon DEF Filling
  <2>2. pc' = "overrun" => misled'
    BY <1>1, <1>12, Zenon
  <2> QED
    BY <1>1, <1>4, <1>7, <2>1, <2>2, Zenon DEF FillInv
<1>14. PlaceInv'
  <2>1. pc' \notin Filling /\ pc' # "fill"
    BY <1>7, Zenon DEF Filling
  <2> QED
    BY <1>1, <1>11, <2>1, Zenon DEF PlaceInv
<1>15. IdleInv' /\ CutInv' /\ BuildInv'
  BY <1>7, Zenon DEF IdleInv, CutInv, BuildInv, Submitting
<1> QED
  BY <1>8, <1>9, <1>13, <1>14, <1>15, Zenon DEF RequestInv

\* Nothing changes.
LEMMA StutterKeeps ==
  ASSUME RequestInv, UNCHANGED vars
  PROVE  RequestInv'
<1>1. /\ pc' = pc /\ sgl' = sgl /\ aperture' = aperture /\ sdesc' = sdesc
      /\ sgIdx' = sgIdx /\ addr' = addr /\ tlen' = tlen /\ sg' = sg
      /\ sgOffset' = sgOffset /\ offset' = offset /\ swDescIdx' = swDescIdx
      /\ epAddr' = epAddr /\ descCnt' = descCnt /\ descIdx' = descIdx
      /\ chain' = chain /\ built' = built /\ misled' = misled
  BY Zenon DEF vars, request, list, cursor, engine
<1>2. Types' /\ IdleInv' /\ ChainInv'
  BY <1>1, Zenon DEF RequestInv, Types, IdleInv, ChainInv
<1>3. CutInv' /\ FillInv'
  BY <1>1, Zenon DEF RequestInv, CutInv, FillInv
<1>4. BuildInv'
  <2>1. Chunk' = Chunk
    BY <1>1, Zenon DEF Chunk
  <2> QED
    BY <1>1, <2>1, Zenon DEF RequestInv, BuildInv
<1>5. PlaceInv'
  BY <1>1, Zenon DEF RequestInv, PlaceInv
<1> QED
  BY <1>2, <1>3, <1>4, <1>5, Zenon DEF RequestInv

-----------------------------------------------------------------------------
(* The theorems.                                                           *)

\* The invariant holds in every state that xdma_xfer_submit and
\* xdma_xfer_aperture reach.
THEOREM RequestCorrect == Spec => []RequestInv
<1>1. Init => RequestInv
  BY InitInv, Zenon
<1>2. RequestInv /\ [Next]_vars => RequestInv'
  <2> SUFFICES ASSUME RequestInv, [Next]_vars
               PROVE  RequestInv'
    BY Zenon
  <2>1. CASE Submit
    BY <2>1, SubmitKeeps, Zenon
  <2>2. CASE InitEntry
    BY <2>2, InitEntryKeeps, Zenon
  <2>3. CASE InitPiece
    BY <2>3, InitPieceKeeps, Zenon
  <2>4. CASE InitDone
    BY <2>4, InitDoneKeeps, Zenon
  <2>5. CASE TransferInit
    BY <2>5, TransferInitKeeps, Zenon
  <2>6. CASE TransferBuild
    BY <2>6, TransferBuildKeeps, Zenon
  <2>7. CASE TransferDone
    BY <2>7, TransferDoneKeeps, Zenon
  <2>8. CASE Aperture
    BY <2>8, ApertureKeeps, Zenon
  <2>9. CASE ApertureTransfer
    BY <2>9, ApertureTransferKeeps, Zenon
  <2>10. CASE FillEntry
    BY <2>10, FillEntryKeeps, Zenon
  <2>11. CASE FillPiece
    BY <2>11, FillPieceKeeps, Zenon
  <2>12. CASE FillNext
    BY <2>12, FillNextKeeps, Zenon
  <2>13. CASE FillDone
    BY <2>13, FillDoneKeeps, Zenon
  <2>14. CASE Return
    BY <2>14, ReturnKeeps, Zenon
  <2>15. CASE UNCHANGED vars
    BY <2>15, StutterKeeps, Zenon
  <2> QED
    BY <2>1, <2>2, <2>3, <2>4, <2>5, <2>6, <2>7, <2>8, <2>9, <2>10, <2>11,
       <2>12, <2>13, <2>14, <2>15, Zenon DEF Next
<1> QED
  BY <1>1, <1>2, PTL DEF Spec

\* Every field has its type, sg stays in the list, and no transfer but the one
\* that overruns is empty.
THEOREM RequestTypes == Spec => []TypeOK
<1>1. RequestInv => TypeOK
  BY InvImplies, Zenon
<1> QED
  BY <1>1, RequestCorrect, PTL

\* xdma_init_request fills no more of sdesc than it allocated, and neither
\* transfer_build nor xdma_xfer_aperture writes a descriptor that is empty, too
\* long or leaves the aperture.
THEOREM RequestBounds == Spec => []DescriptorsInBounds
<1>1. RequestInv => DescriptorsInBounds
  BY InvImplies, Zenon
<1> QED
  BY <1>1, RequestCorrect, PTL

\* The transfers of a request move every byte of the list once, in order, to
\* its place, unless xdma_xfer_aperture took an entry for another.
THEOREM RequestMoves == Spec => []MovesWhatIsWanted
<1>1. RequestInv => MovesWhatIsWanted
  BY InvImplies, Zenon
<1> QED
  BY <1>1, RequestCorrect, PTL

\* With the adjacent counts of xdma_get_next_adj the hardware fetches no
\* descriptor beyond the chain, and no block over a boundary.
THEOREM RequestFetches == Spec => []FetchesInChain
<1>1. RequestInv => FetchesInChain
  BY InvImplies, Zenon
<1> QED
  BY <1>1, RequestCorrect, PTL

\* xdma_xfer_aperture is right about lists of one entry, and overruns the array
\* only after it took an entry for another.
THEOREM RequestOneEntry == Spec => []OneEntryIsSafe
<1>1. RequestInv => OneEntryIsSafe
  BY InvImplies, Zenon
<1> QED
  BY <1>1, RequestCorrect, PTL
=============================================================================
