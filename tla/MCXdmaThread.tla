---------------------------- MODULE MCXdmaThread ----------------------------
(***************************************************************************)
(* Two devices that share one completion thread.  Faults happen on the     *)
(* first; the second is the neighbour that must not notice.                *)
(***************************************************************************)
EXTENDS XdmaThread

CONSTANTS d1, d2

MCDevices == {d1, d2}
MCFaults == [d \in MCDevices |->
               IF d = d1 THEN {"signal", "slow"} ELSE {"error"}]
MCSizes == [d \in MCDevices |-> IF d = d1 THEN {1, 2} ELSE {2}]
MCNoFaults == [d \in MCDevices |-> {}]
=============================================================================
