----------------------------- MODULE MCSubprocess -----------------------------
(***************************************************************************)
(* A subprocess with more input and more output than its pipes hold, under *)
(* a context with a deadline or without one.                               *)
(***************************************************************************)
EXTENDS Subprocess

MCContext == {outer, inner}
================================================================================
