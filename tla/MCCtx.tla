--------------------------------- MODULE MCCtx ---------------------------------
(***************************************************************************)
(* Three contexts in any tree, and two threads of the program besides      *)
(* those of the timeouts.                                                  *)
(***************************************************************************)
EXTENDS Ctx, TLC

CONSTANTS t1, t2
MCThread == {t1, t2}
MCSymmetry == Permutations(MCThread)
MCContext == 1..3
================================================================================
