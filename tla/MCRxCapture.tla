---------------------------- MODULE MCRxCapture -----------------------------
(***************************************************************************)
(* RxCapture for TLC: an external and an on-chip port, rings of two slots, *)
(* so that one byte fills a ring and every second store wraps it, and four *)
(* bytes a line, so that each slot is used again and the counter can       *)
(* saturate.                                                               *)
(***************************************************************************)
EXTENDS RxCapture
=============================================================================
