---------------------------- MODULE XdmaRequest ----------------------------
(***************************************************************************)
(* From a scatter-gather list to descriptors: xdma_init_request with       *)
(* transfer_init (xdma_xfer_submit) and the loop of xdma_xfer_aperture,    *)
(* both of which cut a request into transfers that fit between the         *)
(* engine's next free descriptor and the end of its descriptor array.      *)
(*                                                                         *)
(* A step is one turn of a loop.  A transfer runs to its end once it is    *)
(* built (XdmaEngine has the other outcomes).  Bytes and descriptors keep  *)
(* their addresses.  The descriptor array starts at a page boundary, as    *)
(* dma_alloc_coherent provides it.                                         *)
(***************************************************************************)
EXTENDS Integers, Sequences

CONSTANTS
  DescMax,      \* engine->desc_max
  PageDescs,    \* XDMA_PAGE_SIZE by the size of a descriptor
  AdjBlock,     \* XDMA_MAX_ADJ_BLOCK_SIZE
  BlenMax,      \* desc_blen_max
  Wrap,         \* 2^32, at which an unsigned int wraps
  Lengths,      \* lengths of a list entry
  EntriesMax,   \* entries a list may have
  Apertures,    \* aperture sizes, powers of two
  Addr(_),      \* sg_dma_address of an entry
  EpAddr        \* the end point address of every request

\* The callers put a page at most in an entry, so that the sum in
\* xdma_init_request stays far below 2^32.
ASSUME RequestAssumption ==
  /\ AdjBlock \in Nat \ {0} /\ PageDescs \in Nat \ {0}
  /\ PageDescs % AdjBlock = 0
  /\ DescMax \in Nat \ {0} /\ BlenMax \in Nat \ {0} /\ Wrap \in Nat \ {0}
  /\ Lengths \subseteq Nat \ {0} /\ EntriesMax \in Nat \ {0}
  /\ \A len \in Lengths : len + BlenMax <= Wrap
  /\ Apertures \subseteq Nat \ {0}
  /\ \A a \in Apertures : \E k \in 0 .. 31 : a = 2 ^ k
  /\ EpAddr \in Nat /\ \A i \in 1 .. EntriesMax : Addr(i) \in Nat

VARIABLES
  pc,             \* which loop is running, or "overrun"
  sgl,            \* lengths of the list's entries
  aperture,       \* 0 in xdma_xfer_submit
  sdesc,          \* req->sdesc
  swDescIdx,      \* req->sw_desc_idx
  sgIdx,          \* i of the loops over the list, req->sg_idx
  sg,             \* the entry that sg points to
  sgOffset, offset,
  addr, tlen,     \* locals: what is left of an entry
  epAddr,         \* the next end point address
  descCnt,        \* descriptors written for the transfer at hand
  descIdx,        \* engine->desc_idx
  chain,          \* the last transfer: its first descriptor, their number
  built,          \* history: descriptors of the request so far
  misled          \* history: an entry was taken for another

request == <<sgl, aperture>>
list    == <<sdesc, sgIdx, addr, tlen>>
cursor  == <<sg, sgOffset, offset>>
engine  == <<descIdx, chain>>
vars == <<pc, request, list, cursor, swDescIdx, epAddr, descCnt, engine, built,
          misled>>

NoChain == [first |-> 0, num |-> 0]

Init ==
  /\ pc = "idle" /\ sgl = <<>> /\ aperture = 0
  /\ sdesc = <<>> /\ swDescIdx = 0 /\ sgIdx = 0 /\ sg = 0 /\ sgOffset = 0
  /\ offset = 0 /\ addr = 0 /\ tlen = 0 /\ epAddr = 0 /\ descCnt = 0
  /\ descIdx = 0 /\ chain = NoChain /\ built = <<>> /\ misled = FALSE

Least(a, b) == IF a < b THEN a ELSE b

\* The sums of the first elements of a sequence, and of all.
Upto(lens) ==
  LET upto[n \in 0 .. Len(lens)] == IF n = 0 THEN 0 ELSE upto[n - 1] + lens[n]
  IN  upto
TotalLen(lens) == Upto(lens)[Len(lens)]

\* Bound: total_len, an unsigned int, can hold the length of every list.
Lists == {lens \in UNION {[1 .. n -> Lengths] : n \in 1 .. EntriesMax} :
            TotalLen(lens) < Wrap}

-----------------------------------------------------------------------------
(* xdma_init_request.                                                      *)

\* The room that a long entry gets beyond the one descriptor per entry.
Extra(len) ==
  IF len > BlenMax THEN ((len + BlenMax - 1) % Wrap) \div BlenMax ELSE 0

SdescRoom(lens) == Len(lens) + TotalLen([i \in DOMAIN lens |-> Extra(lens[i])])

\* xdma_xfer_submit
Submit ==
  /\ pc = "idle" /\ pc' = "init"
  /\ sgl' \in Lists /\ epAddr' = EpAddr
  /\ UNCHANGED <<aperture, list, cursor, swDescIdx, descCnt, engine, built,
                 misled>>

InitEntry ==
  /\ pc = "init" /\ tlen = 0 /\ sgIdx < Len(sgl)
  /\ sgIdx' = sgIdx + 1
  /\ addr' = Addr(sgIdx + 1) /\ tlen' = sgl[sgIdx + 1]
  /\ UNCHANGED <<pc, request, sdesc, cursor, swDescIdx, epAddr, descCnt, engine,
                 built, misled>>

\* A piece of at most desc_blen_max bytes.
InitPiece ==
  LET len == Least(tlen, BlenMax) IN
  /\ pc = "init" /\ tlen > 0
  /\ sdesc' = Append(sdesc, [addr |-> addr, len |-> len])
  /\ addr' = IF tlen > BlenMax THEN addr + len ELSE addr
  /\ tlen' = tlen - len
  /\ UNCHANGED <<pc, request, sgIdx, cursor, swDescIdx, epAddr, descCnt, engine,
                 built, misled>>

InitDone ==
  /\ pc = "init" /\ tlen = 0 /\ sgIdx = Len(sgl)
  /\ pc' = "submit"
  /\ UNCHANGED <<request, list, cursor, swDescIdx, epAddr, descCnt, engine,
                 built, misled>>

-----------------------------------------------------------------------------
(* transfer_init.                                                          *)

NextIdxNoWrap(n) == descIdx + n

\* engine->desc_idx behind n more descriptors.
NextIdx(n) == (descIdx + n) % DescMax

\* What is left of the request, or of the descriptor array.
Chunk ==
  LET most == Least(Len(sdesc) - swDescIdx, DescMax)
  IN  IF descIdx + most >= DescMax THEN DescMax - descIdx ELSE most

TransferInit ==
  /\ pc = "submit" /\ swDescIdx < Len(sdesc)
  /\ pc' = "build" /\ descCnt' = 0
  /\ UNCHANGED <<request, list, cursor, swDescIdx, epAddr, engine, built, misled>>

\* transfer_build: a descriptor, with its end point.
TransferBuild ==
  LET s == sdesc[swDescIdx + descCnt + 1] IN
  /\ pc = "build" /\ descCnt < Chunk
  /\ built' = Append(built, [addr |-> s.addr, len |-> s.len, ep |-> epAddr])
  /\ epAddr' = epAddr + s.len /\ descCnt' = descCnt + 1
  /\ UNCHANGED <<pc, request, list, cursor, swDescIdx, engine, misled>>

ChainBuilt ==
  /\ chain' = [first |-> descIdx, num |-> descCnt]
  /\ descIdx' = NextIdx(descCnt)

TransferDone ==
  /\ pc = "build" /\ descCnt = Chunk
  /\ pc' = "submit" /\ swDescIdx' = swDescIdx + descCnt
  /\ ChainBuilt
  /\ UNCHANGED <<request, list, cursor, epAddr, descCnt, built, misled>>

-----------------------------------------------------------------------------
(* The hardware fetches descriptors in blocks of adjacent ones.            *)

NextAdjTooFar(remaining, index) ==
  IF remaining <= 1 THEN 0
  ELSE Least(AdjBlock - ((index % PageDescs) % AdjBlock) - 1, remaining)

\* xdma_get_next_adj
NextAdj(remaining, index) ==
  IF remaining <= 1 THEN 0
  ELSE Least(AdjBlock - ((index % PageDescs) % AdjBlock) - 1, remaining - 1)

\* The blocks that a chain makes the hardware fetch, as first and last index:
\* the one engine_start names, and the one behind each descriptor but the last.
Fetches(c) ==
  LET block(i) == [lo |-> c.first + i,
                   hi |-> c.first + i + NextAdj(c.num - i, c.first + i)]
  IN  {block(i) : i \in 0 .. c.num - 1}

-----------------------------------------------------------------------------
(* xdma_xfer_aperture.                                                     *)

Aperture ==
  /\ pc = "idle" /\ pc' = "aperture"
  /\ sgl' \in Lists /\ aperture' \in Apertures
  /\ UNCHANGED <<list, cursor, swDescIdx, epAddr, descCnt, engine, built, misled>>

FirstEpAnew == EpAddr

\* offset & (aperture - 1)
FirstEp == EpAddr + (offset % aperture)

\* req->sg, where the loop starts again: nothing moves it along with sg_idx.
FirstEntry(idx) == 1

ApertureTransfer ==
  /\ pc = "aperture" /\ offset < TotalLen(sgl)
  /\ pc' = "entry" /\ descCnt' = 0
  /\ sg' = FirstEntry(sgIdx) /\ epAddr' = FirstEp
  /\ misled' = (misled \/ FirstEntry(sgIdx) # sgIdx + 1)
  /\ UNCHANGED <<request, list, sgOffset, offset, swDescIdx, engine, built>>

Full == descIdx + descCnt >= DescMax

\* A turn of the outer loop.  sg_offset may be longer than an entry it does not
\* belong to.
FillEntry ==
  /\ pc = "entry" /\ sgIdx < Len(sgl) /\ ~Full
  /\ pc' = "fill"
  /\ addr' = Addr(sg) + sgOffset /\ tlen' = (sgl[sg] - sgOffset) % Wrap
  /\ UNCHANGED <<request, sdesc, sgIdx, cursor, swDescIdx, epAddr, descCnt,
                 engine, built, misled>>

PieceUnclipped(ep) == Least(Least(aperture, BlenMax), tlen)

\* A piece ends with the entry, the longest descriptor or the aperture.
Piece(ep) ==
  LET len == Least(Least(aperture, BlenMax), tlen)
      epMax == EpAddr + aperture - 1
  IN  IF ep + len > epMax THEN epMax - ep + 1 ELSE len

\* A turn of the inner loop.
FillPiece ==
  LET ep  == IF epAddr > EpAddr + aperture - 1 THEN EpAddr ELSE epAddr
      len == Piece(ep)
  IN
  /\ pc = "fill" /\ tlen > 0 /\ ~Full
  /\ built' = Append(built, [addr |-> addr, len |-> len, ep |-> ep])
  /\ sgOffset' = (sgOffset + len) % Wrap /\ offset' = (offset + len) % Wrap
  /\ epAddr' = ep + len /\ addr' = addr + len /\ tlen' = tlen - len
  /\ descCnt' = descCnt + 1
  /\ UNCHANGED <<pc, request, sdesc, sgIdx, sg, swDescIdx, engine, misled>>

EntryLeft == tlen = 0 \/ Full

\* The inner loop has left nothing of the entry.
EntryDone == tlen = 0

FillNext ==
  /\ pc = "fill" /\ EntryDone
  /\ pc' = "entry" /\ sgOffset' = 0 /\ sgIdx' = sgIdx + 1 /\ sg' = sg + 1
  /\ UNCHANGED <<request, sdesc, addr, tlen, offset, swDescIdx, epAddr, descCnt,
                 engine, built, misled>>

\* Without a descriptor the loop that links them runs to desc_cnt - 1 =
\* 2^32 - 1 and overruns the array.
FillDone ==
  /\ \/ pc = "entry" /\ (sgIdx >= Len(sgl) \/ Full)
     \/ pc = "fill" /\ ~EntryDone /\ Full
  /\ pc' = IF descCnt = 0 THEN "overrun" ELSE "aperture"
  /\ ChainBuilt
  /\ UNCHANGED <<request, list, cursor, swDescIdx, epAddr, descCnt, built, misled>>

Finished == \/ pc = "submit" /\ swDescIdx = Len(sdesc)
            \/ pc = "aperture" /\ offset >= TotalLen(sgl)

Return ==
  /\ Finished
  /\ pc' = "idle" /\ sgl' = <<>> /\ aperture' = 0 /\ sdesc' = <<>>
  /\ swDescIdx' = 0 /\ sgIdx' = 0 /\ sg' = 0 /\ sgOffset' = 0 /\ offset' = 0
  /\ addr' = 0 /\ tlen' = 0 /\ epAddr' = 0 /\ descCnt' = 0
  /\ chain' = NoChain /\ built' = <<>> /\ misled' = FALSE
  /\ UNCHANGED descIdx

Next ==
  \/ Submit \/ InitEntry \/ InitPiece \/ InitDone
  \/ TransferInit \/ TransferBuild \/ TransferDone
  \/ Aperture \/ ApertureTransfer \/ FillEntry \/ FillPiece \/ FillNext
  \/ FillDone \/ Return

Spec == Init /\ [][Next]_vars

-----------------------------------------------------------------------------
(* Properties.                                                             *)

\* Every field has its type, sg points into the list, and no transfer is
\* empty but the one that overruns.
TypeOK ==
  /\ pc \in {"idle", "init", "submit", "build", "aperture", "entry", "fill",
             "overrun"}
  /\ sgl \in Lists \cup {<<>>} /\ aperture \in Apertures \cup {0}
  /\ swDescIdx \in 0 .. Len(sdesc) /\ sgIdx \in 0 .. Len(sgl)
  /\ pc \in {"entry", "fill"} => sg \in 1 .. sgIdx + 1
  /\ sgOffset \in 0 .. Wrap - 1 /\ offset \in 0 .. Wrap - 1
  /\ tlen \in 0 .. Wrap - 1 /\ descCnt \in 0 .. DescMax
  /\ descIdx \in 0 .. DescMax - 1
  /\ chain # NoChain => chain.num > 0 \/ pc = "overrun"

\* The place of the k-th descriptor's first byte in the request, from 0.
Lens(descs) == [j \in DOMAIN descs |-> descs[j].len]
Place(k) == Upto(Lens(built))[k - 1]

\* What the request asks for: byte n is one of an entry, the entries follow one
\* another, and it goes to the n-th end point address, counted anew behind the
\* aperture.
Wanted(n, host, ep) ==
  /\ \E i \in DOMAIN sgl :
       /\ Upto(sgl)[i - 1] <= n /\ n < Upto(sgl)[i]
       /\ host = Addr(i) + n - Upto(sgl)[i - 1]
  /\ ep = EpAddr + IF aperture = 0 THEN n ELSE n % aperture

\* However a request is cut at desc_blen_max, at the end of the descriptor array
\* and at the aperture, its transfers move every byte once, in order, to its
\* place.  Excepted is a request of xdma_xfer_aperture that was split behind its
\* first entry, which starts over with that entry.
MovesWhatIsWanted ==
  ~misled =>
    /\ \A k \in DOMAIN built : \A b \in 0 .. built[k].len - 1 :
         Wanted(Place(k) + b, built[k].addr + b, built[k].ep + b)
    /\ Finished => Place(Len(built) + 1) = TotalLen(sgl)

\* The descriptors written for a request fit into what was allocated for them,
\* as the test j > max comes only after the array has been filled; none is
\* empty or too long, and none leaves the aperture, not even in a request that
\* starts over with the wrong entry.
DescriptorsInBounds ==
  /\ pc = "init" => Len(sdesc) <= SdescRoom(sgl)
  /\ \A k \in DOMAIN built :
       /\ built[k].len \in 1 .. BlenMax
       /\ aperture # 0 =>
            /\ built[k].ep >= EpAddr
            /\ built[k].ep + built[k].len <= EpAddr + aperture

\* A chain stays inside the descriptor array, and no block of adjacent
\* descriptors the hardware fetches goes past the chain or over a block
\* boundary.
FetchesInChain ==
  LET end == chain.first + chain.num - 1 IN
  chain.num > 0 =>
    /\ end < DescMax
    /\ \A f \in Fetches(chain) :
         f.hi <= end /\ f.lo \div AdjBlock = f.hi \div AdjBlock

\* The loop of xdma_xfer_aperture takes an entry for another only in lists of
\* several entries, and overruns the descriptor array only after that.
OneEntryIsSafe == /\ Len(sgl) <= 1 => ~misled
                  /\ pc = "overrun" => misled
=============================================================================
