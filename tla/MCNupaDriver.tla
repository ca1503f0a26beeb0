---------------------------- MODULE MCNupaDriver ----------------------------
(* Two H2C engines and one C2H engine, which nupanet's frames go through.  *)
EXTENDS NupaDriver

CONSTANTS h0, h1, c0

MCH2C == <<h0, h1>>
MCC2H == <<c0>>

=============================================================================
