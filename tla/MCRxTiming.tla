----------------------------- MODULE MCRxTiming -----------------------------
(***************************************************************************)
(* RxTiming for TLC, in microseconds, with the constants of board_r1.h and *)
(* board_r2.h: 186 timer ticks of 0.5 us, prescaler 3, 10 bits per byte at *)
(* 31250 baud.  A sweep takes about 100 us                                 *)
(* (doc/timer_isr_rx_capture_design.md:76); within it the last port is     *)
(* read anywhere in the latest 40, which is all the slack there is.        *)
(***************************************************************************)
EXTENDS RxTiming
=============================================================================
