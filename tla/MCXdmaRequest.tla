--------------------------- MODULE MCXdmaRequest ---------------------------
(***************************************************************************)
(* Lists of up to four entries on a descriptor array of ten in blocks of   *)
(* four and pages of eight, so that chains meet both boundaries and the    *)
(* end of the array.                                                       *)
(***************************************************************************)
EXTENDS XdmaRequest

MCLengths == {1, 2, 3, 5}
MCApertures == {1, 2, 4, 8}
MCAddr(i) == 1000 * i
MCWrap == 2 ^ 30
=============================================================================
