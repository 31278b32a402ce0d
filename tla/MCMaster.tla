------------------------------- MODULE MCMaster -------------------------------
(***************************************************************************)
(* Fewer slots than problems, a channel that fills up, an instance that    *)
(* may be of an earlier revision, and one fault anywhere.                  *)
(***************************************************************************)
EXTENDS Master

CONSTANTS p1, p2, p3, w1, w2

MCProblem == {p1, p2, p3}
MCServer == {w1, w2}
MCHasEquality == {p1}
=============================================================================
