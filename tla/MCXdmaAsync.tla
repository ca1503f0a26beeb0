---------------------------- MODULE MCXdmaAsync ----------------------------
(***************************************************************************)
(* Two requests on an array of three descriptors, so that requests wrap,   *)
(* are split, and together ask for more than the array has.                *)
(***************************************************************************)
EXTENDS XdmaAsync

MCSizes == {1, 2, 3, 4}
MCSplitSizes == {2, 3}
=============================================================================
