---------------------------- MODULE MCCalSession ----------------------------
(***************************************************************************)
(* CalSession with a unit of 10 ms: the shell sleeps 20 units, a sample    *)
(* takes up to SampleMax of them.                                          *)
(***************************************************************************)
EXTENDS CalSession
=============================================================================
