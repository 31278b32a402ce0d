--------------------------- MODULE MCRewindArray ---------------------------
(* RewindArray with two element values, up to three cells and three saves. *)
EXTENDS RewindArray

CONSTANTS e1, e2
MCElem == {e1, e2}
=============================================================================
