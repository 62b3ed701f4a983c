---------------------------- MODULE MCRxBridge ------------------------------
(***************************************************************************)
(* RxBridge for TLC: two cables and a ring of four packets, of which three *)
(* can be used.  The lines carry tune requests (one byte, one packet),     *)
(* program changes (two bytes, one packet) and their data.                 *)
(***************************************************************************)
EXTENDS RxBridge

MCAlphabet == {246, 192, 5}
=============================================================================
