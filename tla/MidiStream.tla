----------------------------- MODULE MidiStream -----------------------------
(***************************************************************************)
(* One cable's parser fed with every byte stream up to a length, next to   *)
(* a reference: what packet, if any, the newest byte of a stream completes,*)
(* said of the stream as a whole with no parser state.                     *)
(*                                                                         *)
(* A second parser reads what the TX side would send for the packets of    *)
(* the first (the cin_len prefix of their payload), as when a cable joins  *)
(* an output to an input.                                                  *)
(***************************************************************************)
EXTENDS MidiParser

CONSTANTS
    Statuses,   \* the status bytes of the streams, of \h80 - \hFF
    MaxLen      \* bound of the instance: length of a stream

ASSUME StatusesAssumption == Statuses \subseteq 128 .. 255
ASSUME MaxLenAssumption   == MaxLen \in 0 .. 126

VARIABLES
    fed,        \* the bytes received so far
    ps, out,    \* the parser, and what the last byte made it emit
    ps2, out2   \* the parser behind the loop, and what it emitted for out

vars == <<fed, ps, out, ps2, out2>>

Init ==
    /\ fed = <<>>
    /\ ps = Fresh /\ out = <<>>
    /\ ps2 = Fresh /\ out2 = <<>>

\* The bytes bridge_out puts on the wire for a packet.
Wire(pk) == SubSeq(pk.data, 1, PayloadLen(pk.cin))

\* A parser's result for a packet's bytes: one to three.
Parsed(st, bytes) ==
    CASE Len(bytes) = 1 -> ParseByte(st, bytes[1])
      [] Len(bytes) = 2 -> Then(ParseByte(st, bytes[1]), bytes[2])
      [] Len(bytes) = 3 -> Then(Then(ParseByte(st, bytes[1]), bytes[2]), bytes[3])

\* A byte arrives.  A data byte's value is its place in the stream, so that
\* one taken for another shows.
Receive(b) ==
    LET r == ParseByte(ps, b)
        loop == IF r.out = <<>> THEN [ps |-> ps2, out |-> <<>>]
                ELSE Parsed(ps2, Wire(r.out[1]))
    IN  /\ Len(fed) < MaxLen
        /\ fed' = Append(fed, b)
        /\ ps' = r.ps /\ out' = r.out
        /\ ps2' = loop.ps /\ out2' = loop.out

Next == \E b \in Statuses \cup {Len(fed) + 1} : Receive(b)

Spec == Init /\ [][Next]_vars

-----------------------------------------------------------------------------
(* The reference.  t is a stream without its real-time bytes.              *)

IsRealTime(b) == b >= 248
IsStatus(b)   == b >= 128

\* The place of the last status byte before place i, 0 if there is none.
LastStatus(t, i) ==
    LET at == {j \in 1 .. i - 1 : IsStatus(t[j])}
    IN  IF at = {} THEN 0 ELSE CHOOSE j \in at : \A k \in at : k <= j

\* Data bytes a status announces.
Announces(s) ==
    CASE s \in 192 .. 223 \cup {241, 243}              -> 1
      [] s \in 128 .. 191 \cup 224 .. 239 \cup {242}   -> 2
      [] OTHER                                         -> 0

\* The USB-MIDI 1.0 Code Index Number of a complete message.
MessageCin(s) ==
    CASE s < 240          -> s \div 16
      [] s \in {241, 243} -> 2
      [] s = 242          -> 3
      [] OTHER            -> 5

Bytes3(s) == [i \in 1 .. 3 |-> IF i <= Len(s) THEN s[i] ELSE 0]
Pack(cin, s) == <<[cin |-> cin, data |-> Bytes3(s)]>>

\* The packets the last byte of t completes, k bytes behind its last status s
\* (0 if it has none): SysEx goes out by threes counted from its F0, a message
\* when its data bytes are complete, over and over under one channel status and
\* once under a system common status.
Completion(t, s, k) ==
    LET n    == Len(t)
        need == Announces(s)
    IN
    IF t[n] = 240 THEN <<>>
    ELSE IF t[n] = 247
    THEN IF s = 240 THEN LET r == k % 3 IN Pack(5 + r, SubSeq(t, n - r, n))
                    ELSE Pack(5, <<247>>)
    ELSE IF IsStatus(t[n])
    THEN IF Announces(t[n]) = 0 THEN Pack(5, <<t[n]>>) ELSE <<>>
    ELSE IF s = 240
    THEN IF (k + 1) % 3 = 0 THEN Pack(4, SubSeq(t, n - 2, n)) ELSE <<>>
    ELSE IF need # 0 /\ k % need = 0 /\ (s < 240 \/ k = need)
    THEN Pack(MessageCin(s), <<s>> \o SubSeq(t, n - need + 1, n))
    ELSE <<>>

Completes(t) ==
    LET last == LastStatus(t, Len(t))
    IN  Completion(t, IF last = 0 THEN 0 ELSE t[last], Len(t) - last)

\* A stream without its real-time bytes, and the same one byte later.
Plainer(t, b) == IF IsRealTime(b) THEN t ELSE Append(t, b)
Plain(s) ==
    LET upto[n \in 0 .. Len(s)] ==
            IF n = 0 THEN <<>> ELSE Plainer(upto[n - 1], s[n])
    IN  upto[Len(s)]

Expected ==
    LET b == fed[Len(fed)] IN
    IF IsRealTime(b) THEN Pack(15, <<b>>) ELSE Completes(Plain(fed))

-----------------------------------------------------------------------------
(* Properties.                                                             *)

ParserTypeOK(st) ==
    /\ st.status \in {0} \cup 128 .. 243
    /\ st.cin \in 0 .. 15 /\ st.need \in 0 .. 2 /\ st.have \in 0 .. 1
    /\ st.in_sysex \in BOOLEAN
    /\ Len(st.sx) <= 2

\* The buffer of three holds at most two bytes between calls, so the one
\* parse_byte appends fits.
TypeOK == ParserTypeOK(ps) /\ ParserTypeOK(ps2) /\ Len(out) <= 1

\* Running status, SysEx chunks, stray and aborting status bytes and
\* interleaved real-time bytes all come out as the stream alone says: no
\* field left over from an earlier message leaks into a later packet.
MatchesReference == fed # <<>> => out = Expected

\* What cin_len makes of a packet on the way out is what the parser reads
\* as that packet on the way in: through a cable from an output to an input
\* every packet comes back as it was, SysEx chunks and aborted ones included.
LoopbackStable == out2 = out
=============================================================================
