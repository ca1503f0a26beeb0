----------------------------- MODULE MCNupaRing -----------------------------
(* NupaRing for frames of unequal length.                                  *)
EXTENDS NupaRing

CONSTANTS f1, f2

MCFrameLen == [f \in Frames |-> IF f = f1 THEN 1 ELSE 2]

=============================================================================
