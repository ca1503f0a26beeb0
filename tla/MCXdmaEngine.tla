---------------------------- MODULE MCXdmaEngine ----------------------------
(* Instances of XdmaEngine for model checking.                             *)
EXTENDS XdmaEngine

CONSTANTS s1, s2, a1   \* callers

=============================================================================
