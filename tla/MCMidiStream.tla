---------------------------- MODULE MCMidiStream ----------------------------
(***************************************************************************)
(* MidiStream for TLC: one status byte of each kind parse_byte tells apart *)
(* (note on, program change, SysEx start and end, quarter frame, song      *)
(* position, tune request, real-time).                                     *)
(***************************************************************************)
EXTENDS MidiStream

MCStatuses == {144, 192, 240, 247, 241, 242, 246, 248}
=============================================================================
