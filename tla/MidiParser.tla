----------------------------- MODULE MidiParser -----------------------------
(***************************************************************************)
(* The streaming MIDI parser of firmware/midi_parser.c: parse_byte turns   *)
(* one received byte and the state of its cable into the next state and at *)
(* most one USB-MIDI event packet.                                         *)
(*                                                                         *)
(* A parser state is struct port_parser; sx holds the sxn buffered bytes.  *)
(* A packet is its Code Index Number and its three payload bytes, the      *)
(* cable is added by whoever calls ParseByte.                              *)
(***************************************************************************)
EXTENDS Integers, Sequences

Byte == 0 .. 255

\* midi_parser_reset for one cable.  The fields it leaves uncleared (cin,
\* need, d0) are read only after they have been written.
Fresh == [status |-> 0, cin |-> 0, need |-> 0, have |-> 0, d0 |-> 0,
          in_sysex |-> FALSE, sx |-> <<>>]

\* Mutant of cin_len: program change counted as a three-byte message.
cin_len_WrongC == <<0, 0, 2, 3, 3, 1, 2, 3, 3, 3, 3, 3, 3, 2, 3, 1>>

\* cin_len of main.c: payload bytes a packet carries, by Code Index Number.
cin_len == <<0, 0, 2, 3, 3, 1, 2, 3, 3, 3, 3, 3, 2, 2, 3, 1>>
PayloadLen(cin) == cin_len[cin + 1]

Packet(cin, b0, b1, b2) == [cin |-> cin, data |-> <<b0, b1, b2>>]

\* The result of a byte that completes nothing, and of one that emits.
Silent(ps)    == [ps |-> ps, out |-> <<>>]
Emits(ps, pk) == [ps |-> ps, out |-> <<pk>>]

\* sx[i] as the packet shows it: 0 past the buffered bytes.
SxByte(sx, i) == IF i <= Len(sx) THEN sx[i] ELSE 0

-----------------------------------------------------------------------------
\* System real-time, \hF8 - \hFF: passes through and touches nothing.
RealTime(ps, b) == Emits(ps, Packet(15, b, 0, 0))

\* \hF0: begin buffering.
SysExStart(ps) ==
    Silent([ps EXCEPT !.status = 0, !.have = 0, !.in_sysex = TRUE, !.sx = <<240>>])

\* \hF7 closes an open SysEx with the rest of the buffer, CIN 5, 6 or 7; a
\* stray one is sent alone.  have is left as it is: status = 0 hides it.
SysExEnd(ps) ==
    IF ps.in_sysex
    THEN LET sx == Append(ps.sx, 247) IN
         Emits([ps EXCEPT !.status = 0, !.in_sysex = FALSE, !.sx = <<>>],
               Packet(4 + Len(sx), sx[1], SxByte(sx, 2), SxByte(sx, 3)))
    ELSE Emits([ps EXCEPT !.status = 0], Packet(5, 247, 0, 0))

\* Mutant of Aborted: the half-received message is not forgotten.
Aborted_KeepsHave(ps) == [ps EXCEPT !.in_sysex = FALSE, !.sx = <<>>]

\* Any other status byte abandons the SysEx and the message in progress.
Aborted(ps) == [ps EXCEPT !.in_sysex = FALSE, !.sx = <<>>, !.have = 0]

\* \h80 - \hEF: the new running status; program change and channel pressure
\* take one data byte, the others two.
ChannelStatus(ps, b) ==
    LET cin == b \div 16 IN
    Silent([Aborted(ps) EXCEPT !.status = b, !.cin = cin,
                               !.need = IF cin \in {12, 13} THEN 1 ELSE 2])

\* \hF1 - \hF6: quarter frame and song select take one data byte, song
\* position two, the rest are complete.
SystemCommon(ps, b) ==
    CASE b \in {241, 243} -> Silent([Aborted(ps) EXCEPT
                                        !.status = b, !.cin = 2, !.need = 1])
      [] b = 242          -> Silent([Aborted(ps) EXCEPT
                                        !.status = b, !.cin = 3, !.need = 2])
      [] OTHER            -> Emits([Aborted(ps) EXCEPT !.status = 0],
                                   Packet(5, b, 0, 0))

\* Mutant of SysExData: the chunk is flushed a byte late.
SysExData_Late(ps, b) ==
    LET sx == Append(ps.sx, b) IN
    IF Len(sx) = 4
    THEN Emits([ps EXCEPT !.sx = <<>>], Packet(4, sx[1], sx[2], sx[3]))
    ELSE Silent([ps EXCEPT !.sx = sx])

\* A data byte inside a SysEx: a full buffer goes out as CIN 4.
SysExData(ps, b) ==
    LET sx == Append(ps.sx, b) IN
    IF Len(sx) = 3
    THEN Emits([ps EXCEPT !.sx = <<>>], Packet(4, sx[1], sx[2], sx[3]))
    ELSE Silent([ps EXCEPT !.sx = sx])

\* A data byte of a message: dropped without a status, kept as the first of
\* two, or the last, which emits the message with its status spelled out.
\* Only a channel-voice status runs on.
MessageData(ps, b) ==
    IF ps.status = 0 THEN Silent(ps)
    ELSE IF ps.need = 2 /\ ps.have = 0 THEN Silent([ps EXCEPT !.d0 = b, !.have = 1])
    ELSE Emits([ps EXCEPT !.have = 0,
                          !.status = IF @ >= 240 THEN 0 ELSE @],
               IF ps.need = 1 THEN Packet(ps.cin, ps.status, b, 0)
                              ELSE Packet(ps.cin, ps.status, ps.d0, b))

ParseByte(ps, b) ==
    CASE b >= 248           -> RealTime(ps, b)
      [] b = 240            -> SysExStart(ps)
      [] b = 247            -> SysExEnd(ps)
      [] b \in 128 .. 239   -> ChannelStatus(ps, b)
      [] b \in 241 .. 246   -> SystemCommon(ps, b)
      [] b < 128            -> IF ps.in_sysex THEN SysExData(ps, b)
                                              ELSE MessageData(ps, b)

\* The parser and all it has emitted, one byte later.
Then(r, b) ==
    LET next == ParseByte(r.ps, b) IN [ps |-> next.ps, out |-> r.out \o next.out]
=============================================================================
