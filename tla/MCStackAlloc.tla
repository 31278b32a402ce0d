----------------------------- MODULE MCStackAlloc -----------------------------
(* Three blocks of three units, objects of one to three units.             *)
EXTENDS StackAlloc
MCSizes == 1..BLOCK
=============================================================================
