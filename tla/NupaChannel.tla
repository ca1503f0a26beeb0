----------------------------- MODULE NupaChannel -----------------------------
(***************************************************************************)
(* What one direction of the nupanet link promises: a bounded first-in     *)
(* first-out queue of whole frames.  A frame may be refused when it is     *)
(* sent (a step that changes nothing here) and the oldest one may be lost  *)
(* when the receiver has no memory for it, but no frame is delivered       *)
(* twice, out of order, damaged or with another frame's length.            *)
(***************************************************************************)
EXTENDS Naturals, Sequences

CONSTANTS Frames, FrameLen, Capacity, Garbage

VARIABLES queue, rcvd

Init == queue = <<>> /\ rcvd = [data |-> Garbage, len |-> 0]

Send(f) ==
  /\ Len(queue) < Capacity
  /\ queue' = Append(queue, f)
  /\ UNCHANGED rcvd

Deliver ==
  /\ queue # <<>>
  /\ rcvd' = [data |-> Head(queue), len |-> FrameLen[Head(queue)]]
  /\ queue' = Tail(queue)

Lose ==
  /\ queue # <<>>
  /\ queue' = Tail(queue)
  /\ UNCHANGED rcvd

Next == (\E f \in Frames : Send(f)) \/ Deliver \/ Lose

Spec == Init /\ [][Next]_<<queue, rcvd>>

=============================================================================
