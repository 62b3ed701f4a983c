-------------------------- MODULE MidiStreamProofs --------------------------
(***************************************************************************)
(* What MidiStream's run shows for streams of six bytes and one status     *)
(* byte of each kind, for every choice of status bytes and every length:   *)
(* the parser's state stays sound, and what goes out comes back the same.  *)
(***************************************************************************)
EXTENDS MidiStream, WellFoundedInduction, TLAPS

USE StatusesAssumption, MaxLenAssumption

-----------------------------------------------------------------------------
(* The parser's states.                                                    *)

Data     == 0 .. 127
Channel  == 128 .. 239
Common   == {241, 242, 243}
First    == Data \cup {240}
Fields   == {"status", "cin", "need", "have", "d0", "in_sysex", "sx"}

\* What the SysEx buffer holds between two bytes: data, after F0 or after a
\* chunk that has gone out.
Buffer(sx) == sx \in Seq(First) /\ Len(sx) <= 2 /\ (Len(sx) = 2 => sx[2] \in Data)

\* Every field has its range, and cin and need are those of the status,
\* whenever there is one.
Sound(st) ==
    /\ DOMAIN st = Fields
    /\ st.status \in {0} \cup Channel \cup Common
    /\ st.cin \in 0 .. 15 /\ st.need \in 0 .. 2 /\ st.have \in 0 .. 1 /\ st.d0 \in Data
    /\ st.in_sysex \in BOOLEAN
    /\ Buffer(st.sx)
    /\ ~st.in_sysex => st.sx = <<>>
    /\ st.status # 0 => st.need = Announces(st.status) /\ st.cin = MessageCin(st.status)

\* Between two packets the parser behind the loop has an empty buffer.
Settled(st) == Sound(st) /\ st.sx = <<>>

\* The SysEx the first parser is in has sent a chunk already.
Begun(st) == st.in_sysex /\ (st.sx = <<>> \/ st.sx[1] # 240)

LEMMA FreshSound == Settled(Fresh) /\ ~Begun(Fresh)
  BY DEF Fresh, Sound, Settled, Begun, Fields, Buffer, Data

\* A parser whose buffer holds one byte, or two, and has emitted nothing.
Held1(r, a) ==
    /\ Sound(r.ps) /\ r.ps.in_sysex /\ r.out = <<>>
    /\ Len(r.ps.sx) = 1 /\ r.ps.sx[1] = a
Held2(r, a, b) ==
    /\ Sound(r.ps) /\ r.ps.in_sysex /\ r.out = <<>>
    /\ Len(r.ps.sx) = 2 /\ r.ps.sx[1] = a /\ r.ps.sx[2] = b

\* A packet is out, and the buffer is empty.
Sent(r, pk) == Settled(r.ps) /\ r.out = <<pk>>

\* F0 opens a buffer, whatever came before.
LEMMA StartSound ==
    ASSUME NEW st, Sound(st)
    PROVE  Held1(SysExStart(st), 240)
<1> DEFINE r == SysExStart(st)
           new == r.ps
<1>1. /\ DOMAIN new = Fields /\ r.out = <<>>
      /\ new.status = 0 /\ new.have = 0 /\ new.in_sysex = TRUE /\ new.sx = <<240>>
      /\ new.cin = st.cin /\ new.need = st.need /\ new.d0 = st.d0
  BY DEF Sound, SysExStart, Silent, Fields
<1>2. Buffer(<<240>>)
  BY DEF Buffer, First
<1> HIDE DEF r
<1>3. Sound(new)
  <2> HIDE DEF new
  <2>1. /\ new.in_sysex \in BOOLEAN /\ (~new.in_sysex => new.sx = <<>>)
        /\ Buffer(new.sx)
    BY <1>1, <1>2
  <2>2. /\ new.status \in {0} \cup Channel \cup Common
        /\ new.cin \in 0 .. 15 /\ new.need \in 0 .. 2
        /\ new.have \in 0 .. 1 /\ new.d0 \in Data
        /\ ~(new.status # 0)
    BY <1>1 DEF Sound
  <2> QED
    BY <1>1, <2>1, <2>2, Zenon DEF Sound
<1>4. Len(<<240>>) = 1 /\ <<240>>[1] = 240
  OBVIOUS
<1>5. Held1(r, 240)
  BY <1>1, <1>3, <1>4 DEF Held1
<1> QED
  BY <1>5 DEF r

LEMMA AbortedFields ==
    ASSUME NEW st, Sound(st)
    PROVE  /\ DOMAIN Aborted(st) = Fields
           /\ Aborted(st).in_sysex = FALSE /\ Aborted(st).sx = <<>>
           /\ Aborted(st).have = 0 /\ Aborted(st).d0 = st.d0
           /\ Aborted(st).cin = st.cin /\ Aborted(st).need = st.need
  BY DEF Sound, Aborted, Fields

\* What a status byte of a message with data leaves.
Begin(st, b, c, d) == Silent([Aborted(st) EXCEPT !.status = b, !.cin = c, !.need = d])

Begins(st, r, b, c, d) ==
    /\ DOMAIN r.ps = Fields /\ r.out = <<>>
    /\ r.ps.status = b /\ r.ps.have = 0 /\ r.ps.in_sysex = FALSE
    /\ r.ps.sx = <<>> /\ r.ps.cin = c /\ r.ps.need = d /\ r.ps.d0 = st.d0

LEMMA BeginFields ==
    ASSUME NEW st, Sound(st), NEW b, NEW c, NEW d
    PROVE  Begins(st, Begin(st, b, c, d), b, c, d)
<1> DEFINE m == Aborted(st)
<1>1. /\ DOMAIN m = Fields /\ m.in_sysex = FALSE /\ m.sx = <<>>
      /\ m.have = 0 /\ m.d0 = st.d0
  BY AbortedFields
<1> HIDE DEF m
<1>2. Begins(st, Silent([m EXCEPT !.status = b, !.cin = c, !.need = d]), b, c, d)
  BY <1>1 DEF Begins, Silent, Fields
<1> QED
  BY <1>2 DEF m, Begin

\* A status byte that abandons what was open and starts a message.
LEMMA StatusSound ==
    ASSUME NEW st, Sound(st), NEW b \in Channel \cup Common,
           NEW r, r = ParseByte(st, b)
    PROVE  /\ Sound(r.ps) /\ r.out = <<>>
           /\ ~r.ps.in_sysex /\ r.ps.sx = <<>>
           /\ r.ps.status = b /\ r.ps.have = 0
<1> DEFINE new == r.ps
<1>1. r = Begin(st, b, MessageCin(b), Announces(b))
  <2>1. CASE b \in Channel
    <3>1. r = ChannelStatus(st, b)
      BY <2>1 DEF ParseByte, Channel
    <3>2. /\ MessageCin(b) = b \div 16
          /\ Announces(b) = IF b \div 16 \in {12, 13} THEN 1 ELSE 2
      BY <2>1 DEF MessageCin, Announces, Channel
    <3> QED
      BY <3>1, <3>2 DEF ChannelStatus, Begin
  <2>2. CASE b \in Common
    <3>1. r = SystemCommon(st, b)
      BY <2>2 DEF ParseByte, Common
    <3>2. CASE b \in {241, 243}
      <4>1. MessageCin(b) = 2 /\ Announces(b) = 1
        BY <3>2 DEF MessageCin, Announces
      <4>2. r = Begin(st, b, 2, 1)
        BY <3>1, <3>2 DEF SystemCommon, Begin
      <4> QED
        BY <4>1, <4>2
    <3>3. CASE b = 242
      <4>1. MessageCin(b) = 3 /\ Announces(b) = 2
        BY <3>3 DEF MessageCin, Announces
      <4>2. r = Begin(st, b, 3, 2)
        BY <3>1, <3>3 DEF SystemCommon, Begin
      <4> QED
        BY <4>1, <4>2
    <3> QED
      BY <2>2, <3>2, <3>3 DEF Common
  <2> QED
    BY <2>1, <2>2
<1>2. MessageCin(b) \in 0 .. 15 /\ Announces(b) \in 0 .. 2
  BY DEF MessageCin, Announces, Channel, Common
<1>3. Buffer(<<>>)
  BY DEF Buffer
<1>4. /\ DOMAIN new = Fields /\ r.out = <<>>
      /\ new.status = b /\ new.have = 0 /\ new.in_sysex = FALSE /\ new.sx = <<>>
      /\ new.cin = MessageCin(b) /\ new.need = Announces(b) /\ new.d0 = st.d0
  <2>1. Begins(st, Begin(st, b, MessageCin(b), Announces(b)), b,
               MessageCin(b), Announces(b))
    BY BeginFields
  <2> QED
    BY <1>1, <2>1 DEF Begins
<1>5. Sound(new)
  <2> HIDE DEF new
  <2>1. /\ new.in_sysex \in BOOLEAN /\ (~new.in_sysex => new.sx = <<>>)
        /\ Buffer(new.sx)
    BY <1>3, <1>4
  <2>2. /\ new.status \in {0} \cup Channel \cup Common
        /\ new.cin \in 0 .. 15 /\ new.need \in 0 .. 2
        /\ new.have \in 0 .. 1 /\ new.d0 \in Data
        /\ new.need = Announces(new.status) /\ new.cin = MessageCin(new.status)
    BY <1>2, <1>4 DEF Sound
  <2> QED
    BY <1>4, <2>1, <2>2, Zenon DEF Sound
<1> QED
  BY <1>4, <1>5

LEMMA AppendFacts ==
    ASSUME NEW s, Buffer(s), NEW b \in Data \cup {247}
    PROVE  LET t == Append(s, b) IN
           /\ Len(t) = Len(s) + 1 /\ t[Len(s) + 1] = b
           /\ \A i \in 1 .. Len(s) : t[i] = s[i]
           /\ Len(s) < 2 /\ b \in Data => Buffer(t)
  BY DEF Buffer, First, Data

LEMMA ConcatFacts == \A pk : <<>> \o <<pk>> = <<pk>> /\ <<>> \o <<>> = <<>>
  OBVIOUS

LEMMA BufferFields ==
    ASSUME NEW st, Sound(st), NEW sx, NEW r, r = [st EXCEPT !.sx = sx]
    PROVE  /\ DOMAIN r = Fields /\ r.sx = sx
           /\ r.status = st.status /\ r.cin = st.cin /\ r.need = st.need
           /\ r.have = st.have /\ r.d0 = st.d0 /\ r.in_sysex = st.in_sysex
  BY DEF Sound, Fields

LEMMA BufferSound ==
    ASSUME NEW st, Sound(st), st.in_sysex, NEW sx, Buffer(sx)
    PROVE  /\ Sound([st EXCEPT !.sx = sx]) /\ [st EXCEPT !.sx = sx].in_sysex
           /\ [st EXCEPT !.sx = sx].sx = sx
<1> DEFINE r == [st EXCEPT !.sx = sx]
<1>1. /\ DOMAIN r = Fields /\ r.sx = sx
      /\ r.status = st.status /\ r.cin = st.cin /\ r.need = st.need
      /\ r.have = st.have /\ r.d0 = st.d0 /\ r.in_sysex = st.in_sysex
  BY BufferFields
<1> HIDE DEF r
<1>2. Sound(r) /\ r.in_sysex
  BY <1>1 DEF Sound
<1> QED
  BY <1>1, <1>2 DEF r

LEMMA DataByte ==
    ASSUME NEW st, NEW b \in Data
    PROVE  /\ st.in_sysex => ParseByte(st, b) = SysExData(st, b)
           /\ ~st.in_sysex => ParseByte(st, b) = MessageData(st, b)
<1>1. ParseByte(st, b) = IF st.in_sysex THEN SysExData(st, b) ELSE MessageData(st, b)
  BY DEF ParseByte, Data
<1> QED
  BY <1>1, Zenon

\* The fields of a result.
LEMMA ResultFields ==
    \A st, pk : /\ Silent(st).ps = st /\ Silent(st).out = <<>>
                /\ Emits(st, pk).ps = st /\ Emits(st, pk).out = <<pk>>
  BY DEF Silent, Emits

\* A data byte in a SysEx joins the buffer, or the buffer of three goes out.
Joined(st, r, b) ==
    /\ Sound(r.ps) /\ r.ps.in_sysex /\ r.out = <<>>
    /\ Len(r.ps.sx) = Len(st.sx) + 1 /\ r.ps.sx[Len(st.sx) + 1] = b
    /\ \A i \in 1 .. Len(st.sx) : r.ps.sx[i] = st.sx[i]

LEMMA DataJoins ==
    ASSUME NEW st, Sound(st), st.in_sysex, NEW b \in Data, Len(st.sx) < 2,
           NEW r, r = ParseByte(st, b)
    PROVE  Joined(st, r, b)
<1> DEFINE t == Append(st.sx, b)
<1>1. r = SysExData(st, b)
  BY DataByte
<1>2. /\ Len(t) = Len(st.sx) + 1 /\ t[Len(st.sx) + 1] = b
      /\ \A i \in 1 .. Len(st.sx) : t[i] = st.sx[i]
      /\ Buffer(t)
  BY AppendFacts DEF Sound
<1>3. Len(st.sx) \in Nat
  BY DEF Sound, Buffer
<1>4. r = Silent([st EXCEPT !.sx = t])
  BY <1>1, <1>2, <1>3 DEF SysExData
<1> HIDE DEF t
<1>5. /\ Sound([st EXCEPT !.sx = t]) /\ [st EXCEPT !.sx = t].in_sysex
      /\ [st EXCEPT !.sx = t].sx = t
  BY <1>2, BufferSound
<1>6. r.ps = [st EXCEPT !.sx = t] /\ r.out = <<>>
  BY <1>4, ResultFields, Zenon
<1>7. Sound(r.ps) /\ r.ps.in_sysex /\ r.ps.sx = t
  BY <1>5, <1>6, Zenon
<1> QED
  BY <1>2, <1>6, <1>7, Zenon DEF Joined

LEMMA ChunkGoes ==
    ASSUME NEW st, Sound(st), st.in_sysex, NEW b \in Data, Len(st.sx) = 2,
           NEW r, r = ParseByte(st, b)
    PROVE  Sent(r, Packet(4, st.sx[1], st.sx[2], b)) /\ r.ps.in_sysex
<1> DEFINE t == Append(st.sx, b)
<1>1. r = SysExData(st, b)
  BY DataByte
<1>2. Len(t) = 3 /\ t[1] = st.sx[1] /\ t[2] = st.sx[2] /\ t[3] = b
  <2>1. /\ Len(t) = Len(st.sx) + 1 /\ t[Len(st.sx) + 1] = b
        /\ \A i \in 1 .. Len(st.sx) : t[i] = st.sx[i]
    <3>1. Buffer(st.sx) /\ b \in Data \cup {247}
      BY DEF Sound
    <3> QED
      BY <3>1, AppendFacts
  <2> QED
    BY <2>1
<1>3. r = Emits([st EXCEPT !.sx = <<>>], Packet(4, st.sx[1], st.sx[2], b))
  BY <1>1, <1>2 DEF SysExData
<1>4. Buffer(<<>>)
  BY DEF Buffer
<1>5. /\ Sound([st EXCEPT !.sx = <<>>]) /\ [st EXCEPT !.sx = <<>>].in_sysex
      /\ [st EXCEPT !.sx = <<>>].sx = <<>>
  BY <1>4, BufferSound
<1>6. r.ps = [st EXCEPT !.sx = <<>>] /\ r.out = <<Packet(4, st.sx[1], st.sx[2], b)>>
  BY <1>3, ResultFields
<1> QED
  BY <1>5, <1>6, Zenon DEF Sent, Settled

\* F7 sends what the buffer holds with F7 behind it.
LEMMA EndFields ==
    ASSUME NEW st, Sound(st), NEW r,
           \/ r = [st EXCEPT !.status = 0, !.in_sysex = FALSE, !.sx = <<>>]
           \/ ~st.in_sysex /\ r = [st EXCEPT !.status = 0]
    PROVE  Settled(r) /\ ~r.in_sysex
<1>1. /\ DOMAIN r = Fields /\ r.status = 0 /\ r.sx = <<>>
      /\ r.cin = st.cin /\ r.need = st.need /\ r.have = st.have /\ r.d0 = st.d0
  <2>1. CASE r = [st EXCEPT !.status = 0, !.in_sysex = FALSE, !.sx = <<>>]
    BY <2>1 DEF Sound, Fields
  <2>2. CASE ~st.in_sysex /\ r = [st EXCEPT !.status = 0]
    BY <2>2 DEF Sound, Fields
  <2> QED
    BY <2>1, <2>2
<1>2. r.in_sysex = FALSE
  <2>1. CASE r = [st EXCEPT !.status = 0, !.in_sysex = FALSE, !.sx = <<>>]
    BY <2>1 DEF Sound, Fields
  <2>2. CASE ~st.in_sysex /\ r = [st EXCEPT !.status = 0]
    <3>1. st.in_sysex = FALSE
      BY <2>2 DEF Sound
    <3>2. r.in_sysex = st.in_sysex
      BY <2>2 DEF Sound, Fields
    <3> QED
      BY <3>1, <3>2
  <2> QED
    BY <2>1, <2>2
<1>3. Buffer(<<>>)
  BY DEF Buffer
<1>4. /\ r.in_sysex \in BOOLEAN /\ ~r.in_sysex /\ Buffer(r.sx)
  BY <1>1, <1>2, <1>3
<1>5. /\ r.status \in {0} \cup Channel \cup Common /\ ~(r.status # 0)
      /\ r.cin \in 0 .. 15 /\ r.need \in 0 .. 2 /\ r.have \in 0 .. 1 /\ r.d0 \in Data
  BY <1>1 DEF Sound
<1> QED
  BY <1>1, <1>4, <1>5, Zenon DEF Sound, Settled

LEMMA EndGoes ==
    ASSUME NEW st, Sound(st), NEW r, r = ParseByte(st, 247)
    PROVE  /\ ~r.ps.in_sysex
           /\ st.sx = <<>> => Sent(r, Packet(5, 247, 0, 0))
           /\ st.in_sysex /\ Len(st.sx) = 1 => Sent(r, Packet(6, st.sx[1], 247, 0))
           /\ st.in_sysex /\ Len(st.sx) = 2 => Sent(r, Packet(7, st.sx[1], st.sx[2], 247))
<1>1. r = SysExEnd(st)
  BY DEF ParseByte
<1>2. CASE ~st.in_sysex
  <2>1. r = Emits([st EXCEPT !.status = 0], Packet(5, 247, 0, 0))
    BY <1>1, <1>2 DEF SysExEnd
  <2>2. Settled([st EXCEPT !.status = 0]) /\ ~[st EXCEPT !.status = 0].in_sysex
    BY <1>2, EndFields
  <2>3. r.ps = [st EXCEPT !.status = 0] /\ r.out = <<Packet(5, 247, 0, 0)>>
    BY <2>1, ResultFields
  <2> QED
    BY <1>2, <2>2, <2>3, Zenon DEF Sent
<1>3. CASE st.in_sysex
  <2> DEFINE t == Append(st.sx, 247)
             new == [st EXCEPT !.status = 0, !.in_sysex = FALSE, !.sx = <<>>]
             pk == Packet(4 + Len(t), t[1], SxByte(t, 2), SxByte(t, 3))
  <2>1. r = Emits(new, pk)
    BY <1>1, <1>3 DEF SysExEnd
  <2>2. Settled(new) /\ ~new.in_sysex
    BY EndFields
  <2>3. /\ Len(t) = Len(st.sx) + 1 /\ t[Len(st.sx) + 1] = 247
        /\ \A i \in 1 .. Len(st.sx) : t[i] = st.sx[i]
    BY AppendFacts DEF Sound
  <2>4. Len(st.sx) \in Nat
    BY DEF Sound, Buffer
  <2>5. st.sx = <<>> => pk = Packet(5, 247, 0, 0)
    BY <2>3, <2>4 DEF SxByte
  <2>6. Len(st.sx) = 1 => pk = Packet(6, st.sx[1], 247, 0)
    BY <2>3 DEF SxByte
  <2>7. Len(st.sx) = 2 => pk = Packet(7, st.sx[1], st.sx[2], 247)
    BY <2>3 DEF SxByte
  <2> HIDE DEF new, pk
  <2>8. r.ps = new /\ r.out = <<pk>>
    BY <2>1, ResultFields
  <2>9. Sent(r, pk) /\ ~r.ps.in_sysex
    BY <2>2, <2>8, Zenon DEF Sent
  <2> QED
    BY <2>5, <2>6, <2>7, <2>9
<1> QED
  BY <1>2, <1>3 DEF Sound

\* The statuses of messages with data, and what cin_len makes of their packets.
LEMMA StatusFacts ==
    ASSUME NEW s \in Channel \cup Common
    PROVE  /\ Announces(s) \in {1, 2} /\ MessageCin(s) \in {2, 3} \cup 8 .. 14
           /\ PayloadLen(MessageCin(s)) = Announces(s) + 1
<1>1. CASE s \in Channel
  <2>1. MessageCin(s) = s \div 16 /\ s \div 16 \in 8 .. 14
    BY <1>1 DEF MessageCin, Channel
  <2>2. Announces(s) = IF s \div 16 \in {12, 13} THEN 1 ELSE 2
    BY <1>1 DEF Announces, Channel
  <2> QED
    BY <2>1, <2>2 DEF PayloadLen, cin_len
<1>2. CASE s \in Common
  <2>1. CASE s \in {241, 243}
    BY <2>1 DEF MessageCin, Announces, PayloadLen, cin_len
  <2>2. CASE s = 242
    BY <2>2 DEF MessageCin, Announces, PayloadLen, cin_len
  <2> QED
    BY <1>2, <2>1, <2>2 DEF Common
<1> QED
  BY <1>1, <1>2

\* The first of two data bytes has been kept.
Half(st, s, b) ==
    /\ Sound(st) /\ ~st.in_sysex /\ st.sx = <<>>
    /\ st.status = s /\ st.have = 1 /\ st.d0 = b

LEMMA FirstKept ==
    ASSUME NEW st, Sound(st), ~st.in_sysex, NEW b \in Data,
           NEW new, new = [st EXCEPT !.d0 = b, !.have = 1]
    PROVE  Half(new, st.status, b)
<1>1. /\ DOMAIN new = Fields /\ new.in_sysex = st.in_sysex /\ new.sx = st.sx
      /\ new.status = st.status /\ new.cin = st.cin /\ new.need = st.need
      /\ new.have = 1 /\ new.d0 = b
  BY DEF Sound, Fields
<1>2. Sound(new)
  BY <1>1 DEF Sound
<1> QED
  BY <1>1, <1>2 DEF Sound, Half

LEMMA MessageDone ==
    ASSUME NEW st, Sound(st), ~st.in_sysex, NEW b \in Data,
           NEW new, new = [st EXCEPT !.have = 0, !.status = IF @ >= 240 THEN 0 ELSE @]
    PROVE  Settled(new) /\ ~new.in_sysex
<1>1. /\ DOMAIN new = Fields /\ new.in_sysex = st.in_sysex /\ new.sx = st.sx
      /\ new.cin = st.cin /\ new.need = st.need /\ new.have = 0 /\ new.d0 = st.d0
      /\ new.status = IF st.status >= 240 THEN 0 ELSE st.status
  BY DEF Sound, Fields
<1>2. new.status = 0 \/ new.status = st.status
  BY <1>1
<1>3. Sound(new)
  BY <1>1, <1>2 DEF Sound
<1> QED
  BY <1>1, <1>3 DEF Sound, Settled

\* A data byte of a message.
LEMMA MessageGoes ==
    ASSUME NEW st, Sound(st), ~st.in_sysex, NEW b \in Data,
           NEW r, r = ParseByte(st, b), NEW s, s = st.status
    PROVE  /\ Settled(r.ps) /\ ~r.ps.in_sysex
           /\ s = 0 => r.out = <<>>
           /\ s # 0 /\ Announces(s) = 1 => r.out = <<Packet(MessageCin(s), s, b, 0)>>
           /\ s # 0 /\ Announces(s) = 2 /\ st.have = 0 =>
                 r.out = <<>> /\ Half(r.ps, s, b)
           /\ s # 0 /\ Announces(s) = 2 /\ st.have = 1 =>
                 r.out = <<Packet(MessageCin(s), s, st.d0, b)>>
<1>1. r = MessageData(st, b)
  BY DataByte
<1>2. /\ s \in {0} \cup Channel \cup Common /\ st.have \in {0, 1}
      /\ s # 0 => st.need = Announces(s) /\ st.cin = MessageCin(s)
  BY DEF Sound
<1>3. s # 0 => Announces(s) \in {1, 2}
  BY <1>2, StatusFacts
<1>4. CASE s = 0
  <2>1. r = Silent(st)
    BY <1>1, <1>4 DEF MessageData
  <2>2. r.ps = st /\ r.out = <<>>
    BY <2>1, ResultFields
  <2> QED
    BY <1>4, <2>2 DEF Settled, Sound
<1>5. CASE s # 0 /\ Announces(s) = 2 /\ st.have = 0
  <2>0. PICK new : new = [st EXCEPT !.d0 = b, !.have = 1]
    OBVIOUS
  <2>1. r = Silent(new)
    BY <2>0, <1>1, <1>2, <1>5 DEF MessageData
  <2>2. r.ps = new /\ r.out = <<>>
    BY <2>1, ResultFields
  <2>3. Half(new, st.status, b)
    BY <2>0, FirstKept
  <2>4. Half(r.ps, s, b)
    BY <2>2, <2>3
  <2> QED
    BY <1>5, <2>2, <2>4 DEF Half, Settled
<1>6. CASE s # 0 /\ (Announces(s) = 1 \/ st.have = 1)
  <2> DEFINE new == [st EXCEPT !.have = 0, !.status = IF @ >= 240 THEN 0 ELSE @]
             pk == IF Announces(s) = 1 THEN Packet(MessageCin(s), s, b, 0)
                                       ELSE Packet(MessageCin(s), s, st.d0, b)
  <2>1. ~(st.need = 2 /\ st.have = 0)
    BY <1>2, <1>6
  <2>2. r = Emits(new, IF st.need = 1 THEN Packet(st.cin, st.status, b, 0)
                                      ELSE Packet(st.cin, st.status, st.d0, b))
    BY <1>1, <1>6, <2>1 DEF MessageData
  <2>3. r = Emits(new, pk)
    BY <1>2, <1>6, <2>2
  <2>4. Settled(new) /\ ~new.in_sysex
    BY MessageDone
  <2> HIDE DEF new
  <2>5. r.ps = new /\ r.out = <<pk>>
    BY <2>3, ResultFields
  <2>6. Settled(r.ps) /\ ~r.ps.in_sysex
    BY <2>4, <2>5
  <2> QED
    BY <1>3, <1>6, <2>5, <2>6
<1> QED
  BY <1>2, <1>3, <1>4, <1>5, <1>6

-----------------------------------------------------------------------------
(* A packet fed to the parser behind the loop.                             *)

\* The first n of three bytes.
Carries(w, n, a, b, c) ==
    /\ Len(w) = n /\ w[1] = a
    /\ n > 1 => w[2] = b
    /\ n > 2 => w[3] = c

LEMMA WireFacts ==
    ASSUME NEW cin, NEW a, NEW b, NEW c, PayloadLen(cin) \in 1 .. 3
    PROVE  Carries(Wire(Packet(cin, a, b, c)), PayloadLen(cin), a, b, c)
<1> DEFINE n == PayloadLen(cin)
<1>1. Wire(Packet(cin, a, b, c)) = SubSeq(<<a, b, c>>, 1, n)
  BY DEF Wire, Packet
<1> HIDE DEF n
<1>2. n \in 1 .. 3
  BY DEF n
<1>3. Carries(SubSeq(<<a, b, c>>, 1, n), n, a, b, c)
  BY <1>2 DEF Carries
<1> QED
  BY <1>1, <1>3 DEF n

LEMMA FeedFacts ==
    ASSUME NEW st, NEW cin, NEW a, NEW b, NEW c,
           NEW n \in 1 .. 3, PayloadLen(cin) = n,
           NEW r, r = Parsed(st, Wire(Packet(cin, a, b, c)))
    PROVE  /\ n = 1 => r = ParseByte(st, a)
           /\ n = 2 => r = Then(ParseByte(st, a), b)
           /\ n = 3 => r = Then(Then(ParseByte(st, a), b), c)
<1> DEFINE w == Wire(Packet(cin, a, b, c))
<1>1. Carries(w, n, a, b, c)
  BY WireFacts
<1>2. r = Parsed(st, w)
  OBVIOUS
<1> HIDE DEF w
<1>3. /\ Len(w) = n /\ w[1] = a
      /\ n > 1 => w[2] = b
      /\ n > 2 => w[3] = c
  BY <1>1 DEF Carries
<1>4. CASE n = 1
  <2>1. Parsed(st, w) = ParseByte(st, w[1])
    BY <1>3, <1>4 DEF Parsed
  <2> QED
    BY <1>2, <1>3, <1>4, <2>1
<1>5. CASE n = 2
  <2>1. Parsed(st, w) = Then(ParseByte(st, w[1]), w[2])
    BY <1>3, <1>5 DEF Parsed
  <2> QED
    BY <1>2, <1>3, <1>5, <2>1
<1>6. CASE n = 3
  <2>1. Parsed(st, w) = Then(Then(ParseByte(st, w[1]), w[2]), w[3])
    BY <1>3, <1>6 DEF Parsed
  <2> QED
    BY <1>2, <1>3, <1>6, <2>1
<1> QED
  BY <1>4, <1>5, <1>6

LEMMA ThenFacts ==
    ASSUME NEW r, r.out = <<>>, NEW b, NEW x, x = ParseByte(r.ps, b),
           x.out = <<>> \/ \E pk : x.out = <<pk>>
    PROVE  Then(r, b).ps = x.ps /\ Then(r, b).out = x.out
<1>1. <<>> \o x.out = x.out
  BY ConcatFacts
<1>2. Then(r, b) = [ps |-> x.ps, out |-> x.out]
  BY <1>1 DEF Then
<1> QED
  BY <1>2

-----------------------------------------------------------------------------
(* SysEx behind the loop.                                                  *)

LEMMA HeldFirst ==
    ASSUME NEW st, Settled(st), NEW a \in First, a = 240 \/ st.in_sysex
    PROVE  Held1(ParseByte(st, a), a)
<1>1. Sound(st) /\ st.sx = <<>>
  BY DEF Settled
<1>2. CASE a = 240
  <2>1. ParseByte(st, a) = SysExStart(st)
    BY <1>2 DEF ParseByte
  <2> QED
    BY <1>1, <1>2, <2>1, StartSound
<1>3. CASE a # 240
  <2>1. a \in Data /\ st.in_sysex /\ Len(st.sx) = 0
    BY <1>1, <1>3 DEF First
  <2>2. PICK r : r = ParseByte(st, a)
    OBVIOUS
  <2>3. Joined(st, r, a)
    BY <1>1, <2>1, <2>2, DataJoins
  <2> QED
    BY <2>1, <2>2, <2>3 DEF Held1, Joined
<1> QED
  BY <1>2, <1>3

LEMMA HeldSecond ==
    ASSUME NEW r, NEW a, Held1(r, a), NEW b \in Data
    PROVE  Held2(Then(r, b), a, b)
<1>1. /\ Sound(r.ps) /\ r.ps.in_sysex /\ r.out = <<>>
      /\ Len(r.ps.sx) = 1 /\ r.ps.sx[1] = a
  BY DEF Held1
<1>2. PICK x : x = ParseByte(r.ps, b)
  OBVIOUS
<1>3. Joined(r.ps, x, b)
  <2>1. Sound(r.ps) /\ r.ps.in_sysex /\ Len(r.ps.sx) < 2
    BY <1>1
  <2> QED
    BY <1>2, <2>1, DataJoins, Zenon
<1>4. Then(r, b).ps = x.ps /\ Then(r, b).out = x.out
  BY <1>1, <1>2, <1>3, ThenFacts DEF Joined
<1> QED
  BY <1>1, <1>3, <1>4 DEF Held2, Joined

LEMMA ThirdGoes ==
    ASSUME NEW r, NEW a, NEW b, Held2(r, a, b), NEW c \in Data
    PROVE  Sent(Then(r, c), Packet(4, a, b, c)) /\ Then(r, c).ps.in_sysex
<1>1. /\ Sound(r.ps) /\ r.ps.in_sysex /\ r.out = <<>>
      /\ Len(r.ps.sx) = 2 /\ r.ps.sx[1] = a /\ r.ps.sx[2] = b
  BY DEF Held2
<1>2. PICK x : x = ParseByte(r.ps, c)
  OBVIOUS
<1>3. Sent(x, Packet(4, a, b, c)) /\ x.ps.in_sysex
  BY <1>1, <1>2, ChunkGoes
<1>4. Then(r, c).ps = x.ps /\ Then(r, c).out = x.out
  BY <1>1, <1>2, <1>3, ThenFacts DEF Sent
<1> QED
  BY <1>3, <1>4 DEF Sent

LEMMA EndsHeld1 ==
    ASSUME NEW r, NEW a, Held1(r, a)
    PROVE  Sent(Then(r, 247), Packet(6, a, 247, 0))
<1>1. /\ Sound(r.ps) /\ r.ps.in_sysex /\ r.out = <<>>
      /\ Len(r.ps.sx) = 1 /\ r.ps.sx[1] = a
  BY DEF Held1
<1>2. PICK x : x = ParseByte(r.ps, 247)
  OBVIOUS
<1>3. Sent(x, Packet(6, a, 247, 0))
  BY <1>1, <1>2, EndGoes
<1>4. Then(r, 247).ps = x.ps /\ Then(r, 247).out = x.out
  BY <1>1, <1>2, <1>3, ThenFacts DEF Sent
<1> QED
  BY <1>3, <1>4 DEF Sent

LEMMA EndsHeld2 ==
    ASSUME NEW r, NEW a, NEW b, Held2(r, a, b)
    PROVE  Sent(Then(r, 247), Packet(7, a, b, 247))
<1>1. /\ Sound(r.ps) /\ r.ps.in_sysex /\ r.out = <<>>
      /\ Len(r.ps.sx) = 2 /\ r.ps.sx[1] = a /\ r.ps.sx[2] = b
  BY DEF Held2
<1>2. PICK x : x = ParseByte(r.ps, 247)
  OBVIOUS
<1>3. Sent(x, Packet(7, a, b, 247))
  BY <1>1, <1>2, EndGoes
<1>4. Then(r, 247).ps = x.ps /\ Then(r, 247).out = x.out
  BY <1>1, <1>2, <1>3, ThenFacts DEF Sent
<1> QED
  BY <1>3, <1>4 DEF Sent

-----------------------------------------------------------------------------
(* Every kind of packet comes back as it was.                              *)

Echoes(st, pk) == Sent(Parsed(st, Wire(pk)), pk)

LEMMA ChunkEchoes ==
    ASSUME NEW st, Settled(st), NEW a \in First, a = 240 \/ st.in_sysex,
           NEW b \in Data, NEW c \in Data
    PROVE  /\ Echoes(st, Packet(4, a, b, c))
           /\ Parsed(st, Wire(Packet(4, a, b, c))).ps.in_sysex
<1>1. PayloadLen(4) = 3
  BY DEF PayloadLen, cin_len
<1>2. Parsed(st, Wire(Packet(4, a, b, c))) = Then(Then(ParseByte(st, a), b), c)
  BY <1>1, FeedFacts
<1>3. Held2(Then(ParseByte(st, a), b), a, b)
  BY HeldFirst, HeldSecond
<1> QED
  BY <1>2, <1>3, ThirdGoes DEF Echoes

LEMMA EndEchoes0 ==
    ASSUME NEW st, Settled(st)
    PROVE  Echoes(st, Packet(5, 247, 0, 0))
<1>1. PayloadLen(5) = 1
  BY DEF PayloadLen, cin_len
<1>2. Parsed(st, Wire(Packet(5, 247, 0, 0))) = ParseByte(st, 247)
  BY <1>1, FeedFacts
<1>3. Sound(st) /\ st.sx = <<>>
  BY DEF Settled
<1>4. Sent(ParseByte(st, 247), Packet(5, 247, 0, 0))
  BY <1>3, EndGoes
<1> QED
  BY <1>2, <1>4 DEF Echoes

LEMMA EndEchoes1 ==
    ASSUME NEW st, Settled(st), NEW a \in First, a = 240 \/ st.in_sysex
    PROVE  Echoes(st, Packet(6, a, 247, 0))
<1>1. PayloadLen(6) = 2
  BY DEF PayloadLen, cin_len
<1>2. Parsed(st, Wire(Packet(6, a, 247, 0))) = Then(ParseByte(st, a), 247)
  BY <1>1, FeedFacts
<1> QED
  BY <1>2, HeldFirst, EndsHeld1 DEF Echoes

LEMMA EndEchoes2 ==
    ASSUME NEW st, Settled(st), NEW a \in First, a = 240 \/ st.in_sysex, NEW b \in Data
    PROVE  Echoes(st, Packet(7, a, b, 247))
<1>1. PayloadLen(7) = 3
  BY DEF PayloadLen, cin_len
<1>2. Parsed(st, Wire(Packet(7, a, b, 247))) = Then(Then(ParseByte(st, a), b), 247)
  BY <1>1, FeedFacts
<1>3. Held2(Then(ParseByte(st, a), b), a, b)
  BY HeldFirst, HeldSecond
<1> QED
  BY <1>2, <1>3, EndsHeld2 DEF Echoes

LEMMA RealTimeGoes ==
    ASSUME NEW st, NEW b \in 248 .. 255, NEW r, r = ParseByte(st, b)
    PROVE  r.ps = st /\ r.out = <<Packet(15, b, 0, 0)>>
<1>1. r = Emits(st, Packet(15, b, 0, 0))
  BY DEF ParseByte, RealTime
<1> QED
  BY <1>1, ResultFields

LEMMA RealTimeEchoes ==
    ASSUME NEW st, Settled(st), NEW b \in 248 .. 255
    PROVE  /\ Echoes(st, Packet(15, b, 0, 0))
           /\ Parsed(st, Wire(Packet(15, b, 0, 0))).ps = st
<1>1. PayloadLen(15) = 1
  BY DEF PayloadLen, cin_len
<1>2. PICK r : r = Parsed(st, Wire(Packet(15, b, 0, 0)))
  OBVIOUS
<1>3. r = ParseByte(st, b)
  BY <1>1, <1>2, FeedFacts
<1>4. r.ps = st /\ r.out = <<Packet(15, b, 0, 0)>>
  BY <1>3, RealTimeGoes
<1>5. Sent(r, Packet(15, b, 0, 0))
  BY <1>4 DEF Sent
<1> QED
  BY <1>2, <1>4, <1>5 DEF Echoes

\* A tune request, or an undefined system common byte.
LEMMA AloneGoes ==
    ASSUME NEW st, Sound(st), NEW b \in 244 .. 246, NEW r, r = ParseByte(st, b)
    PROVE  Sent(r, Packet(5, b, 0, 0)) /\ ~r.ps.in_sysex
<1>1. PICK m : m = Aborted(st)
  OBVIOUS
<1>2. /\ DOMAIN m = Fields /\ m.in_sysex = FALSE /\ m.sx = <<>>
      /\ m.have = 0 /\ m.d0 = st.d0 /\ m.cin = st.cin /\ m.need = st.need
  BY <1>1, AbortedFields
<1>3. PICK new : new = [m EXCEPT !.status = 0]
  OBVIOUS
<1>4. /\ DOMAIN new = Fields /\ new.in_sysex = FALSE /\ new.sx = <<>> /\ new.status = 0
      /\ new.have = 0 /\ new.d0 = st.d0 /\ new.cin = st.cin /\ new.need = st.need
  BY <1>2, <1>3 DEF Fields
<1>5. Buffer(<<>>)
  BY DEF Buffer
<1>6. /\ new.in_sysex \in BOOLEAN /\ ~new.in_sysex /\ Buffer(new.sx)
  BY <1>4, <1>5
<1>7. /\ new.status \in {0} \cup Channel \cup Common /\ ~(new.status # 0)
      /\ new.cin \in 0 .. 15 /\ new.need \in 0 .. 2
      /\ new.have \in 0 .. 1 /\ new.d0 \in Data
  BY <1>4 DEF Sound
<1>8. Settled(new) /\ ~new.in_sysex
  BY <1>4, <1>6, <1>7, Zenon DEF Sound, Settled
<1>9. r = SystemCommon(st, b)
  BY DEF ParseByte
<1>10. r = Emits(new, Packet(5, b, 0, 0))
  BY <1>1, <1>3, <1>9 DEF SystemCommon
<1>11. r.ps = new /\ r.out = <<Packet(5, b, 0, 0)>>
  BY <1>10, ResultFields
<1> QED
  BY <1>8, <1>11 DEF Sent

LEMMA AloneEchoes ==
    ASSUME NEW st, Settled(st), NEW b \in 244 .. 246
    PROVE  Echoes(st, Packet(5, b, 0, 0))
<1>1. PayloadLen(5) = 1
  BY DEF PayloadLen, cin_len
<1>2. Parsed(st, Wire(Packet(5, b, 0, 0))) = ParseByte(st, b)
  BY <1>1, FeedFacts
<1> QED
  BY <1>2, AloneGoes DEF Echoes, Settled

\* A status byte and a data byte, or two: whatever the parser was in before.
LEMMA MessageEchoes1 ==
    ASSUME NEW st, Settled(st), NEW s \in Channel \cup Common, Announces(s) = 1,
           NEW b \in Data
    PROVE  Echoes(st, Packet(MessageCin(s), s, b, 0))
<1>1. PayloadLen(MessageCin(s)) = 2
  BY StatusFacts
<1>2. PICK r : r = ParseByte(st, s)
  OBVIOUS
<1>3. Parsed(st, Wire(Packet(MessageCin(s), s, b, 0))) = Then(r, b)
  BY <1>1, <1>2, FeedFacts
<1>4. /\ Sound(r.ps) /\ r.out = <<>> /\ ~r.ps.in_sysex
      /\ r.ps.status = s
  BY <1>2, StatusSound DEF Settled
<1>5. PICK x : x = ParseByte(r.ps, b)
  OBVIOUS
<1>6. s # 0
  BY DEF Channel, Common
<1>7. Settled(x.ps) /\ x.out = <<Packet(MessageCin(s), s, b, 0)>>
  BY <1>4, <1>5, <1>6, MessageGoes
<1>8. Then(r, b).ps = x.ps /\ Then(r, b).out = x.out
  BY <1>4, <1>5, <1>7, ThenFacts
<1> QED
  BY <1>3, <1>7, <1>8 DEF Echoes, Sent

LEMMA MessageEchoes2 ==
    ASSUME NEW st, Settled(st), NEW s \in Channel \cup Common, Announces(s) = 2,
           NEW b \in Data, NEW c \in Data
    PROVE  Echoes(st, Packet(MessageCin(s), s, b, c))
<1>1. PayloadLen(MessageCin(s)) = 3
  BY StatusFacts
<1>2. PICK r : r = ParseByte(st, s)
  OBVIOUS
<1>3. Parsed(st, Wire(Packet(MessageCin(s), s, b, c))) = Then(Then(r, b), c)
  BY <1>1, <1>2, FeedFacts
<1>4. /\ Sound(r.ps) /\ r.out = <<>> /\ ~r.ps.in_sysex
      /\ r.ps.status = s /\ r.ps.have = 0
  BY <1>2, StatusSound DEF Settled
<1>5. PICK x : x = ParseByte(r.ps, b)
  OBVIOUS
<1>6. s # 0
  BY DEF Channel, Common
<1>7. x.out = <<>> /\ Half(x.ps, s, b)
  BY <1>4, <1>5, <1>6, MessageGoes
<1>8. PICK q : q = Then(r, b)
  OBVIOUS
<1>9. q.ps = x.ps /\ q.out = <<>>
  BY <1>4, <1>5, <1>7, <1>8, ThenFacts
<1>10. Half(q.ps, s, b)
  BY <1>7, <1>9
<1>11. /\ Sound(q.ps) /\ ~q.ps.in_sysex /\ q.ps.status = s
       /\ q.ps.have = 1 /\ q.ps.d0 = b
  BY <1>10 DEF Half
<1>12. PICK y : y = ParseByte(q.ps, c)
  OBVIOUS
<1>13. Settled(y.ps) /\ y.out = <<Packet(MessageCin(s), s, b, c)>>
  BY <1>6, <1>11, <1>12, MessageGoes
<1>14. Then(q, c).ps = y.ps /\ Then(q, c).out = y.out
  BY <1>9, <1>12, <1>13, ThenFacts
<1> QED
  BY <1>3, <1>8, <1>13, <1>14 DEF Echoes, Sent

-----------------------------------------------------------------------------
(* The two parsers in step.                                                *)

\* r is what the first parser made of a byte, st2 the second one before it.
Follows(r, st2) ==
    /\ Sound(r.ps)
    /\ \/ r.out = <<>> /\ (Begun(r.ps) => st2.in_sysex)
       \/ \E pk : /\ r.out = <<pk>> /\ Echoes(st2, pk)
                  /\ Begun(r.ps) => Parsed(st2, Wire(pk)).ps.in_sysex

LEMMA BufferCases ==
    ASSUME NEW sx, Buffer(sx)
    PROVE  /\ Len(sx) = 0 \/ Len(sx) = 1 \/ Len(sx) = 2
           /\ Len(sx) = 0 <=> sx = <<>>
<1>1. sx \in Seq(First) /\ Len(sx) <= 2
  BY DEF Buffer
<1>2. Len(sx) \in Nat
  BY <1>1
<1>3. Len(sx) = 0 <=> sx = <<>>
  BY <1>1
<1>4. \A n \in Nat : n <= 2 => n = 0 \/ n = 1 \/ n = 2
  OBVIOUS
<1> QED
  BY <1>1, <1>2, <1>3, <1>4

LEMMA DataFollows ==
    ASSUME NEW st, Sound(st), NEW st2, Settled(st2), Begun(st) => st2.in_sysex,
           NEW b \in Data, NEW r, r = ParseByte(st, b)
    PROVE  Follows(r, st2)
<1>1. Buffer(st.sx)
  BY DEF Sound
<1>2. CASE ~st.in_sysex
  <2>1. PICK s : s = st.status
    OBVIOUS
  <2>2. /\ s \in {0} \cup Channel \cup Common /\ st.have \in {0, 1} /\ st.d0 \in Data
    BY <2>1 DEF Sound
  <2>3. s # 0 => s \in Channel \cup Common /\ Announces(s) \in {1, 2}
    BY <2>2, StatusFacts
  <2>4. Settled(r.ps) /\ ~r.ps.in_sysex
    BY <1>2, <2>1, MessageGoes
  <2>5. Sound(r.ps) /\ ~Begun(r.ps)
    BY <2>4 DEF Settled, Begun
  <2>6. CASE s = 0 \/ (Announces(s) = 2 /\ st.have = 0)
    <3>1. r.out = <<>>
      BY <1>2, <2>1, <2>6, MessageGoes
    <3> QED
      BY <2>5, <3>1 DEF Follows
  <2>7. CASE s # 0 /\ Announces(s) = 1
    <3>1. r.out = <<Packet(MessageCin(s), s, b, 0)>>
      BY <1>2, <2>1, <2>7, MessageGoes
    <3>2. Echoes(st2, Packet(MessageCin(s), s, b, 0))
      BY <2>3, <2>7, MessageEchoes1
    <3> QED
      BY <2>5, <3>1, <3>2 DEF Follows
  <2>8. CASE s # 0 /\ Announces(s) = 2 /\ st.have = 1
    <3>1. r.out = <<Packet(MessageCin(s), s, st.d0, b)>>
      BY <1>2, <2>1, <2>8, MessageGoes
    <3>2. Echoes(st2, Packet(MessageCin(s), s, st.d0, b))
      BY <2>2, <2>3, <2>8, MessageEchoes2
    <3> QED
      BY <2>5, <3>1, <3>2 DEF Follows
  <2>9. st.have = 0 \/ st.have = 1
    BY <2>2
  <2>10. s = 0 \/ Announces(s) = 1 \/ Announces(s) = 2
    BY <2>3
  <2> QED
    BY <2>6, <2>7, <2>8, <2>9, <2>10
<1>3. CASE st.in_sysex /\ Len(st.sx) # 2
  <2>0. Len(st.sx) < 2
    <3>1. Len(st.sx) = 0 \/ Len(st.sx) = 1
      BY <1>1, <1>3, BufferCases
    <3>2. \A n : n = 0 \/ n = 1 => n < 2
      OBVIOUS
    <3> QED
      BY <3>1, <3>2, Zenon
  <2>1. Joined(st, r, b)
    BY <1>3, <2>0, DataJoins
  <2>2. Begun(r.ps) => Begun(st)
    <3>1. CASE Len(st.sx) = 0
      <4>1. st.sx = <<>>
        BY <1>1, <3>1, BufferCases
      <4> QED
        BY <1>3, <4>1 DEF Begun
    <3>2. CASE Len(st.sx) = 1
      <4>1. r.ps.sx # <<>> /\ r.ps.sx[1] = st.sx[1]
        BY <2>1, <3>2 DEF Joined
      <4> QED
        BY <1>3, <4>1 DEF Begun
    <3>3. Len(st.sx) = 0 \/ Len(st.sx) = 1
      BY <1>1, <1>3, BufferCases
    <3> QED
      BY <3>1, <3>2, <3>3
  <2> QED
    BY <2>1, <2>2 DEF Joined, Follows
<1>4. CASE st.in_sysex /\ Len(st.sx) = 2
  <2> DEFINE pk == Packet(4, st.sx[1], st.sx[2], b)
  <2>1. Sent(r, pk)
    BY <1>4, ChunkGoes
  <2>2. st.sx[1] \in First /\ st.sx[2] \in Data /\ st.sx # <<>>
    BY <1>1, <1>4 DEF Buffer
  <2>3. st.sx[1] = 240 \/ st2.in_sysex
    BY <1>4, <2>2 DEF Begun
  <2>4. Echoes(st2, pk) /\ Parsed(st2, Wire(pk)).ps.in_sysex
    BY <2>2, <2>3, ChunkEchoes
  <2> HIDE DEF pk
  <2> QED
    BY <2>1, <2>4 DEF Sent, Settled, Follows
<1> QED
  BY <1>2, <1>3, <1>4, Zenon

LEMMA EndFollows ==
    ASSUME NEW st, Sound(st), NEW st2, Settled(st2), Begun(st) => st2.in_sysex,
           NEW r, r = ParseByte(st, 247)
    PROVE  Follows(r, st2)
<1>1. Buffer(st.sx) /\ (~st.in_sysex => st.sx = <<>>)
  BY DEF Sound
<1>2. ~Begun(r.ps)
  BY EndGoes DEF Begun
<1>3. CASE st.sx = <<>>
  <2>1. Sent(r, Packet(5, 247, 0, 0))
    BY <1>3, EndGoes
  <2> QED
    BY <1>2, <2>1, EndEchoes0 DEF Sent, Settled, Follows
<1>4. CASE st.in_sysex /\ Len(st.sx) = 1
  <2>1. Sent(r, Packet(6, st.sx[1], 247, 0))
    BY <1>4, EndGoes
  <2>2. st.sx[1] \in First /\ st.sx # <<>>
    BY <1>1, <1>4 DEF Buffer
  <2>3. st.sx[1] = 240 \/ st2.in_sysex
    BY <1>4, <2>2 DEF Begun
  <2>4. Echoes(st2, Packet(6, st.sx[1], 247, 0))
    BY <2>2, <2>3, EndEchoes1
  <2> QED
    BY <1>2, <2>1, <2>4 DEF Sent, Settled, Follows
<1>5. CASE st.in_sysex /\ Len(st.sx) = 2
  <2>1. Sent(r, Packet(7, st.sx[1], st.sx[2], 247))
    BY <1>5, EndGoes
  <2>2. st.sx[1] \in First /\ st.sx[2] \in Data /\ st.sx # <<>>
    BY <1>1, <1>5 DEF Buffer
  <2>3. st.sx[1] = 240 \/ st2.in_sysex
    BY <1>5, <2>2 DEF Begun
  <2>4. Echoes(st2, Packet(7, st.sx[1], st.sx[2], 247))
    BY <2>2, <2>3, EndEchoes2
  <2> QED
    BY <1>2, <2>1, <2>4 DEF Sent, Settled, Follows
<1>6. st.sx = <<>> \/ Len(st.sx) = 1 \/ Len(st.sx) = 2
  BY <1>1, BufferCases
<1> QED
  BY <1>1, <1>3, <1>4, <1>5, <1>6

\* Whatever byte comes, the second parser can follow.
LEMMA LoopStep ==
    ASSUME NEW st, Sound(st), NEW st2, Settled(st2), Begun(st) => st2.in_sysex,
           NEW b \in Byte, NEW r, r = ParseByte(st, b)
    PROVE  Follows(r, st2)
<1>1. CASE b \in Data
  BY <1>1, DataFollows
<1>2. CASE b = 247
  BY <1>2, EndFollows
<1>3. CASE b = 240
  <2>1. r = SysExStart(st)
    BY <1>3 DEF ParseByte
  <2>2. Held1(r, 240)
    BY <2>1, StartSound
  <2>3. ~Begun(r.ps)
    BY <2>2 DEF Held1, Begun
  <2> QED
    BY <2>2, <2>3 DEF Held1, Follows
<1>4. CASE b \in Channel \cup Common
  <2>1. Sound(r.ps) /\ r.out = <<>> /\ ~r.ps.in_sysex
    BY <1>4, StatusSound
  <2> QED
    BY <2>1 DEF Begun, Follows
<1>5. CASE b \in 244 .. 246
  <2>1. Sent(r, Packet(5, b, 0, 0)) /\ ~r.ps.in_sysex
    BY <1>5, AloneGoes
  <2>2. Echoes(st2, Packet(5, b, 0, 0))
    BY <1>5, AloneEchoes
  <2> QED
    BY <2>1, <2>2 DEF Sent, Settled, Begun, Follows
<1>6. CASE b \in 248 .. 255
  <2>1. r.ps = st /\ r.out = <<Packet(15, b, 0, 0)>>
    BY <1>6, RealTimeGoes
  <2>2. /\ Echoes(st2, Packet(15, b, 0, 0))
        /\ Parsed(st2, Wire(Packet(15, b, 0, 0))).ps = st2
    BY <1>6, RealTimeEchoes
  <2> QED
    BY <2>1, <2>2 DEF Follows
<1>7. b \in Data \/ b = 247 \/ b = 240 \/ b \in Channel \cup Common
      \/ b \in 244 .. 246 \/ b \in 248 .. 255
  BY DEF Byte, Data, Channel, Common
<1> QED
  BY <1>1, <1>2, <1>3, <1>4, <1>5, <1>6, <1>7

-----------------------------------------------------------------------------
(* The invariant and the theorems.                                         *)

\* Both parsers are sound, the second one has an empty buffer, and it is in a
\* SysEx whenever the first one has sent a chunk of its own.
LoopInv ==
    /\ fed \in Seq(Byte)
    /\ Sound(ps) /\ Settled(ps2) /\ (Begun(ps) => ps2.in_sysex)
    /\ out2 = out
    /\ out = <<>> \/ \E pk : out = <<pk>>

LEMMA LoopInit == Init => LoopInv
<1> SUFFICES ASSUME Init PROVE LoopInv
  OBVIOUS
<1>1. Settled(Fresh) /\ ~Begun(Fresh)
  BY FreshSound
<1>2. fed \in Seq(Byte)
  BY DEF Init
<1> QED
  BY <1>1, <1>2 DEF Init, LoopInv, Settled

LEMMA LoopNext == LoopInv /\ [Next]_vars => LoopInv'
<1> SUFFICES ASSUME LoopInv, [Next]_vars PROVE LoopInv'
  OBVIOUS
<1>1. CASE UNCHANGED vars
  BY <1>1 DEF LoopInv, vars
<1>2. CASE Next
  <2>1. PICK b \in Statuses \cup {Len(fed) + 1} : Receive(b)
    BY <1>2 DEF Next
  <2>2. Len(fed) < MaxLen /\ Len(fed) \in Nat
    BY <2>1 DEF Receive, LoopInv
  <2>3. b \in Byte
    BY <2>2 DEF Byte
  <2>4. fed' \in Seq(Byte)
    BY <2>1, <2>3 DEF Receive, LoopInv
  <2>5. PICK r : r = ParseByte(ps, b)
    OBVIOUS
  <2>6. Follows(r, ps2)
    BY <2>3, <2>5, LoopStep DEF LoopInv
  <2>7. ps' = r.ps /\ out' = r.out
    BY <2>1, <2>5 DEF Receive
  <2>8. CASE r.out = <<>>
    <3>1. ps2' = ps2 /\ out2' = <<>>
      BY <2>1, <2>5, <2>8 DEF Receive
    <3>2. Sound(r.ps) /\ (Begun(r.ps) => ps2.in_sysex)
      BY <2>6, <2>8 DEF Follows
    <3> QED
      BY <2>4, <2>7, <2>8, <3>1, <3>2 DEF LoopInv
  <2>9. CASE r.out # <<>>
    <3>1. PICK pk : /\ r.out = <<pk>> /\ Echoes(ps2, pk)
                    /\ Begun(r.ps) => Parsed(ps2, Wire(pk)).ps.in_sysex
      BY <2>6, <2>9 DEF Follows
    <3>2. PICK q : q = Parsed(ps2, Wire(pk))
      OBVIOUS
    <3>3. Settled(q.ps) /\ q.out = <<pk>> /\ (Begun(r.ps) => q.ps.in_sysex)
      BY <3>1, <3>2 DEF Echoes, Sent
    <3>4. r.out[1] = pk
      BY <3>1
    <3>5. ps2' = q.ps /\ out2' = q.out
      BY <2>1, <2>5, <2>9, <3>2, <3>4 DEF Receive
    <3>6. Sound(r.ps)
      BY <2>6 DEF Follows
    <3> QED
      BY <2>4, <2>7, <3>1, <3>3, <3>5, <3>6 DEF LoopInv
  <2> QED
    BY <2>8, <2>9
<1> QED
  BY <1>1, <1>2

LEMMA LoopInvariant == Spec => []LoopInv
  BY LoopInit, LoopNext, PTL DEF Spec

LEMMA SoundType == ASSUME NEW st, Sound(st) PROVE ParserTypeOK(st)
<1>1. /\ st.status \in {0} \cup 128 .. 243 /\ st.cin \in 0 .. 15
      /\ st.need \in 0 .. 2 /\ st.have \in 0 .. 1
  BY DEF Sound, Channel, Common
<1>2. st.in_sysex \in BOOLEAN /\ Len(st.sx) <= 2
  BY DEF Sound, Buffer
<1> QED
  BY <1>1, <1>2 DEF ParserTypeOK

\* parse_byte keeps its state in range on every stream: the SysEx buffer never
\* holds more than two bytes when it returns, and it emits at most one packet,
\* which is the room midi_rx_pump makes before it calls it.
THEOREM TypeCorrect == Spec => []TypeOK
<1>1. LoopInv => TypeOK
  <2> SUFFICES ASSUME LoopInv PROVE TypeOK
    OBVIOUS
  <2>1. ParserTypeOK(ps) /\ ParserTypeOK(ps2)
    BY SoundType DEF LoopInv, Settled
  <2>2. Len(out) <= 1
    <3>1. Len(<<>>) <= 1 /\ \A pk : Len(<<pk>>) <= 1
      OBVIOUS
    <3> QED
      BY <3>1 DEF LoopInv
  <2> QED
    BY <2>1, <2>2 DEF TypeOK
<1> QED
  BY <1>1, LoopInvariant, PTL

\* Whatever a cable's stream is, what cin_len makes of the packets on the way
\* out is read as the same packets on the way in.
THEOREM LoopbackCorrect == Spec => []LoopbackStable
<1>1. LoopInv => LoopbackStable
  BY DEF LoopInv, LoopbackStable
<1> QED
  BY <1>1, LoopInvariant, PTL

-----------------------------------------------------------------------------
(* Induction.                                                              *)

LEMMA LeastNat ==
    ASSUME NEW T, T \subseteq Nat, T # {}
    PROVE  \E x \in T : \A y \in T : x <= y
<1>1. PICK R : R = OpToRel(<, Nat)
  OBVIOUS
<1>2. IsWellFoundedOn(R, Nat)
  BY <1>1, NatLessThanWellFounded
<1>3. PICK x \in T : \A y \in T : ~(<<y, x>> \in R)
  BY <1>2, WFMin
<1>4. \A y \in T : ~(y < x)
  BY <1>1, <1>3 DEF OpToRel
<1> QED
  BY <1>3, <1>4

\* The induction principle, for a set instead of a predicate.
LEMMA SetInduction ==
    ASSUME NEW T, T \subseteq Nat, 0 \in T, \A m \in T : m + 1 \in T
    PROVE  T = Nat
<1> SUFFICES ASSUME Nat \ T # {} PROVE FALSE
  OBVIOUS
<1>1. PICK x \in Nat \ T : \A y \in Nat \ T : x <= y
  BY LeastNat
<1>2. x # 0 /\ x - 1 \in Nat /\ ~(x <= x - 1)
  BY <1>1
<1>3. x - 1 \in T
  BY <1>1, <1>2
<1>4. x - 1 + 1 \in T
  BY <1>3
<1> QED
  BY <1>1, <1>4

\* Induction up to n, for a set instead of a predicate.
LEMMA UpTo ==
    ASSUME NEW n \in Nat, NEW T, 0 \in T, \A k \in 1 .. n : k - 1 \in T => k \in T
    PROVE  \A k \in 0 .. n : k \in T
<1>1. PICK D : D = {k \in Nat : k <= n => k \in T}
  OBVIOUS
<1>2. ASSUME NEW k \in D PROVE k + 1 \in D
  <2>1. k \in Nat /\ k + 1 \in Nat /\ (k + 1) - 1 = k
    BY <1>1
  <2>2. k + 1 <= n => k + 1 \in 1 .. n /\ k \in T
    BY <1>1, <2>1
  <2> QED
    BY <1>1, <2>1, <2>2
<1>3. D \subseteq Nat /\ 0 \in D
  BY <1>1
<1>4. D = Nat
  BY <1>2, <1>3, SetInduction
<1> QED
  BY <1>1, <1>4

\* Two functions that agree at 0, and at k whenever they do at k - 1.
LEMMA Agree ==
    ASSUME NEW n \in Nat, NEW f, NEW g, f[0] = g[0],
           \A k \in 1 .. n : f[k - 1] = g[k - 1] => f[k] = g[k]
    PROVE  f[n] = g[n]
<1>1. PICK T : T = {k \in Nat : f[k] = g[k]}
  OBVIOUS
<1>2. \A k \in 1 .. n : k - 1 \in T => k \in T
  BY <1>1
<1>3. 0 \in T
  BY <1>1
<1>4. \A k \in 0 .. n : k \in T
  BY <1>2, <1>3, UpTo
<1> QED
  BY <1>1, <1>4

-----------------------------------------------------------------------------
(* The reference: a stream without its real-time bytes.                    *)

\* The recursion of Plain has a solution.
Strips(f, s) ==
    f = [k \in 0 .. Len(s) |-> IF k = 0 THEN <<>> ELSE Plainer(f[k - 1], s[k])]

LEMMA StripsAt ==
    ASSUME NEW s, Len(s) \in Nat, NEW f, Strips(f, s)
    PROVE  /\ f[0] = <<>>
           /\ \A k \in 1 .. Len(s) : f[k] = Plainer(f[k - 1], s[k])
<1>1. \A k \in 0 .. Len(s) :
         f[k] = IF k = 0 THEN <<>> ELSE Plainer(f[k - 1], s[k])
  BY DEF Strips
<1>2. 0 \in 0 .. Len(s) /\ \A k \in 1 .. Len(s) : k \in 0 .. Len(s) /\ k # 0
  OBVIOUS
<1> QED
  BY <1>1, <1>2

LEMMA StrippingExists ==
    ASSUME NEW s, Len(s) \in Nat
    PROVE  \E f : Strips(f, s)
<1> DEFINE Good(f, k) ==
              f[k] = IF k = 0 THEN <<>> ELSE Plainer(f[k - 1], s[k])
           To(f, n) == \A k \in 0 .. Len(s) : k <= n => Good(f, k)
           T == {n \in Nat : \E f : f = [k \in 0 .. Len(s) |-> f[k]] /\ To(f, n)}
<1>1. 0 \in T
  <2>1. PICK f : f = [k \in 0 .. Len(s) |-> <<>>]
    OBVIOUS
  <2>2. f = [k \in 0 .. Len(s) |-> f[k]] /\ To(f, 0)
    BY <2>1
  <2> QED
    BY <2>2
<1>2. ASSUME NEW n \in T PROVE n + 1 \in T
  <2>0. n \in Nat /\ 0 \in 0 .. Len(s)
    OBVIOUS
  <2>1. PICK f : f = [k \in 0 .. Len(s) |-> f[k]] /\ To(f, n)
    OBVIOUS
  <2>2. PICK x : x = Plainer(f[n], s[n + 1])
    OBVIOUS
  <2>3. PICK g : g = [k \in 0 .. Len(s) |-> IF k = n + 1 THEN x ELSE f[k]]
    OBVIOUS
  <2>4. ASSUME NEW k \in 0 .. Len(s), k <= n + 1 PROVE Good(g, k)
    <3>1. CASE k = 0
      <4>1. k <= n /\ k # n + 1
        BY <2>0, <3>1
      <4>2. Good(f, k)
        BY <2>1, <4>1
      <4>3. g[k] = f[k]
        BY <2>3, <4>1
      <4> QED
        BY <3>1, <4>2, <4>3
    <3>2. CASE k # 0 /\ k <= n
      <4>1. k - 1 \in 0 .. Len(s) /\ k - 1 # n + 1 /\ k # n + 1
        BY <2>0, <3>2
      <4>2. g[k] = f[k] /\ g[k - 1] = f[k - 1] /\ Good(f, k)
        BY <2>1, <2>3, <3>2, <4>1
      <4> QED
        BY <3>2, <4>2
    <3>3. CASE k = n + 1
      <4>1. k - 1 = n /\ n \in 0 .. Len(s) /\ n # n + 1 /\ k # 0
        BY <2>0, <3>3
      <4>2. g[k] = x /\ g[n] = f[n]
        BY <2>3, <3>3, <4>1
      <4> QED
        BY <2>2, <3>3, <4>1, <4>2
    <3> QED
      BY <2>0, <2>4, <3>1, <3>2, <3>3
  <2>5. To(g, n + 1)
    BY <2>4
  <2>6. g = [k \in 0 .. Len(s) |-> g[k]]
    BY <2>3
  <2>7. n + 1 \in Nat
    BY <2>0
  <2> HIDE DEF To
  <2> QED
    BY <2>5, <2>6, <2>7
<1>3. T = Nat
  <2> HIDE DEF T
  <2>1. T \subseteq Nat
    BY DEF T
  <2> QED
    BY <1>1, <1>2, <2>1, SetInduction
<1>4. PICK f : f = [k \in 0 .. Len(s) |-> f[k]] /\ To(f, Len(s))
  BY <1>3
<1>5. \A k \in 0 .. Len(s) :
         f[k] = IF k = 0 THEN <<>> ELSE Plainer(f[k - 1], s[k])
  <2> SUFFICES ASSUME NEW k \in 0 .. Len(s) PROVE Good(f, k)
    OBVIOUS
  <2>1. k <= Len(s)
    OBVIOUS
  <2> QED
    BY <1>4, <2>1
<1>6. Strips(f, s)
  BY <1>4, <1>5 DEF Strips
<1> QED
  BY <1>6

LEMMA PlainIs ==
    ASSUME NEW s, Len(s) \in Nat
    PROVE  \E f : Strips(f, s) /\ Plain(s) = f[Len(s)]
<1>1. PICK f : f = CHOOSE g : Strips(g, s)
  OBVIOUS
<1>2. Strips(f, s)
  BY <1>1, StrippingExists, Zenon
<1>3. Plain(s) = f[Len(s)]
  BY <1>1 DEF Plain, Strips
<1> QED
  BY <1>2, <1>3

LEMMA PlainEmpty == Plain(<<>>) = <<>>
<1>1. PICK f : Strips(f, <<>>) /\ Plain(<<>>) = f[0]
  BY PlainIs
<1> QED
  BY <1>1, StripsAt

\* One byte more.
LEMMA PlainNext ==
    ASSUME NEW S, NEW s \in Seq(S), NEW b \in S, NEW t, t = Append(s, b)
    PROVE  Plain(t) = Plainer(Plain(s), b)
<1>1. PICK n \in Nat : n = Len(s) /\ Len(t) = n + 1
  OBVIOUS
<1>2. t[n + 1] = b /\ \A k \in 1 .. n : t[k] = s[k]
  BY <1>1
<1>3. PICK f : Strips(f, s) /\ Plain(s) = f[n]
  BY <1>1, PlainIs
<1>4. PICK g : Strips(g, t) /\ Plain(t) = g[n + 1]
  <2>1. Len(t) \in Nat
    BY <1>1
  <2> QED
    BY <1>1, <2>1, PlainIs
<1>5. f[0] = <<>> /\ \A k \in 1 .. n : f[k] = Plainer(f[k - 1], s[k])
  BY <1>1, <1>3, StripsAt
<1>6. g[0] = <<>> /\ \A k \in 1 .. n + 1 : g[k] = Plainer(g[k - 1], t[k])
  <2>1. Len(t) \in Nat
    BY <1>1
  <2> QED
    BY <1>1, <1>4, <2>1, StripsAt
<1>7. \A k \in 1 .. n : f[k - 1] = g[k - 1] => f[k] = g[k]
  <2>1. \A k \in 1 .. n : k \in 1 .. n + 1
    BY <1>1
  <2> QED
    BY <1>2, <1>5, <1>6, <2>1
<1>8. f[n] = g[n]
  <2>1. f[0] = g[0]
    BY <1>5, <1>6
  <2> QED
    BY <1>7, <2>1, Agree
<1>9. n + 1 \in 1 .. n + 1 /\ (n + 1) - 1 = n
  BY <1>1
<1> QED
  BY <1>2, <1>3, <1>4, <1>6, <1>8, <1>9

-----------------------------------------------------------------------------
(* The reference: the last status byte, and what a byte completes.         *)

\* l is the place of the last status byte among the first n.
LastIs(t, n, l) ==
    \/ l = 0 /\ \A j \in 1 .. n : ~IsStatus(t[j])
    \/ /\ l \in 1 .. n /\ IsStatus(t[l])
       /\ \A j \in 1 .. n : j > l => ~IsStatus(t[j])

LEMMA LastStatusIs ==
    ASSUME NEW t, NEW n \in Nat, NEW l, LastIs(t, n, l)
    PROVE  LastStatus(t, n + 1) = l
<1>1. PICK at : at = {j \in 1 .. n : IsStatus(t[j])}
  OBVIOUS
<1>2. (n + 1) - 1 = n
  OBVIOUS
<1>3. LastStatus(t, n + 1) =
        IF at = {} THEN 0 ELSE CHOOSE j \in at : \A k \in at : k <= j
  BY <1>1, <1>2 DEF LastStatus
<1>4. CASE l = 0 /\ \A j \in 1 .. n : ~IsStatus(t[j])
  BY <1>1, <1>3, <1>4
<1>5. CASE /\ l \in 1 .. n /\ IsStatus(t[l])
           /\ \A j \in 1 .. n : j > l => ~IsStatus(t[j])
  <2>1. l \in at /\ \A k \in at : k \in Nat /\ k <= l
    BY <1>1, <1>5
  <2>2. PICK m : m = CHOOSE j \in at : \A k \in at : k <= j
    OBVIOUS
  <2>3. m \in at /\ \A k \in at : k <= m
    BY <2>1, <2>2
  <2>4. m = l
    BY <1>5, <2>1, <2>3
  <2> QED
    BY <1>3, <2>1, <2>2, <2>4
<1> QED
  BY <1>4, <1>5 DEF LastIs

\* One byte more.
LEMMA LastNext ==
    ASSUME NEW t \in Seq(Byte), NEW l, LastIs(t, Len(t), l), NEW b \in Byte,
           NEW t2, t2 = Append(t, b), NEW n \in Nat, n = Len(t)
    PROVE  LastIs(t2, n + 1, IF IsStatus(b) THEN n + 1 ELSE l)
<1>1. t2[n + 1] = b /\ \A j \in 1 .. n : t2[j] = t[j]
  OBVIOUS
<1>2. \A j \in 1 .. n + 1 : j \in 1 .. n \/ j = n + 1
  OBVIOUS
<1>3. CASE IsStatus(b)
  <2>1. \A j \in 1 .. n + 1 : ~(j > n + 1)
    OBVIOUS
  <2>2. n + 1 \in 1 .. n + 1
    OBVIOUS
  <2> QED
    BY <1>1, <1>3, <2>1, <2>2 DEF LastIs
<1>4. CASE ~IsStatus(b)
  <2>1. \A j \in 1 .. n + 1 : j \in 1 .. n \/ ~IsStatus(t2[j])
    BY <1>1, <1>2, <1>4
  <2>2. CASE l = 0 /\ \A j \in 1 .. n : ~IsStatus(t[j])
    BY <1>1, <1>4, <2>1, <2>2 DEF LastIs
  <2>3. CASE /\ l \in 1 .. n /\ IsStatus(t[l])
             /\ \A j \in 1 .. n : j > l => ~IsStatus(t[j])
    <3>1. l \in 1 .. n + 1 /\ IsStatus(t2[l])
      BY <1>1, <2>3
    <3>2. \A j \in 1 .. n + 1 : j > l => ~IsStatus(t2[j])
      BY <1>1, <2>1, <2>3
    <3> QED
      BY <1>4, <3>1, <3>2 DEF LastIs
  <2> QED
    BY <2>2, <2>3 DEF LastIs
<1> QED
  BY <1>3, <1>4

\* The status a stream is under, and the bytes behind it.
Under(t, l) == IF l = 0 THEN 0 ELSE t[l]

LEMMA CompletesIs ==
    ASSUME NEW t \in Seq(Byte), NEW n \in Nat, n = Len(t), NEW l, LastIs(t, n, l),
           NEW b \in Byte, NEW t2, t2 = Append(t, b)
    PROVE  Completes(t2) = Completion(t2, Under(t, l), n + 1 - l)
<1>1. Len(t2) = n + 1 /\ \A j \in 1 .. n : t2[j] = t[j]
  OBVIOUS
<1>2. LastIs(t2, n, l)
  BY <1>1 DEF LastIs
<1>3. LastStatus(t2, Len(t2)) = l
  BY <1>1, <1>2, LastStatusIs
<1>4. l = 0 \/ t2[l] = t[l]
  BY <1>1, <1>2 DEF LastIs
<1>5. PICK m : m = LastStatus(t2, Len(t2))
  OBVIOUS
<1>6. PICK s, k : s = (IF m = 0 THEN 0 ELSE t2[m]) /\ k = Len(t2) - m
  OBVIOUS
<1>7. Completes(t2) = Completion(t2, s, k)
  BY <1>5, <1>6 DEF Completes
<1>8. m = l /\ Len(t2) = n + 1
  BY <1>1, <1>3, <1>5
<1>9. s = Under(t, l)
  BY <1>4, <1>6, <1>8, Zenon DEF Under
<1>10. k = n + 1 - l
  <2>1. l \in Int
    BY DEF LastIs
  <2> QED
    BY <1>6, <1>8, <2>1
<1> QED
  BY <1>7, <1>9, <1>10

\* A message of up to three bytes, as a packet.
LEMMA Bytes3Is ==
    ASSUME NEW s, NEW n \in 1 .. 3, NEW a, NEW b, NEW c, Carries(s, n, a, b, c),
           n < 2 => b = 0, n < 3 => c = 0
    PROVE  Bytes3(s) = <<a, b, c>>
<1>1. PICK f : f = [i \in 1 .. 3 |-> IF i <= Len(s) THEN s[i] ELSE 0]
  OBVIOUS
<1>2. Len(s) = n /\ s[1] = a /\ (n > 1 => s[2] = b) /\ (n > 2 => s[3] = c)
  BY DEF Carries
<1>3. f[1] = a /\ f[2] = b /\ f[3] = c
  BY <1>1, <1>2
<1>4. f = [i \in 1 .. 3 |-> f[i]]
  BY <1>1
<1>5. \A i \in 1 .. 3 : f[i] = <<a, b, c>>[i]
  BY <1>3
<1>6. <<a, b, c>> = [i \in 1 .. 3 |-> <<a, b, c>>[i]]
  OBVIOUS
<1>7. f = <<a, b, c>>
  BY <1>4, <1>5, <1>6
<1> QED
  BY <1>1, <1>7 DEF Bytes3

LEMMA PackIs ==
    ASSUME NEW cin, NEW s, NEW n \in 1 .. 3, NEW a, NEW b, NEW c, Carries(s, n, a, b, c),
           n < 2 => b = 0, n < 3 => c = 0
    PROVE  Pack(cin, s) = <<Packet(cin, a, b, c)>>
<1>1. Bytes3(s) = <<a, b, c>>
  BY Bytes3Is
<1> QED
  BY <1>1 DEF Pack, Packet

-----------------------------------------------------------------------------
(* The parser's state, read off the stream.                                *)

\* A stream without real-time bytes, and what a stream can be under.
Plainly  == 0 .. 247
Ruling   == {0} \cup 128 .. 247
Idle     == {0} \cup 244 .. 247

\* k bytes behind an F0: the buffer holds the bytes of the chunk begun.
InSysEx(st, k, t) ==
    LET m == (k + 1) % 3
    IN  Len(st.sx) = m /\ \A i \in 1 .. m : st.sx[i] = t[Len(t) - m + i]

\* k bytes behind status s: s runs on, or was good for one message only.
InMessage(st, s, k, t) ==
    IF s < 240 \/ k < Announces(s)
    THEN /\ st.status = s /\ st.have = k % Announces(s)
         /\ st.have = 1 => st.d0 = t[Len(t)]
    ELSE st.status = 0

Phase(st, s, k, t) ==
    /\ st.in_sysex <=> s = 240
    /\ s = 240 => InSysEx(st, k, t)
    /\ s \in Channel \cup Common => InMessage(st, s, k, t)
    /\ s \in Idle => st.status = 0

\* The byte that made t2 leaves the parser k2 bytes behind s2, with what the
\* reference asks for sent.
Goes(r, s2, k2, t2, s, k) == Phase(r.ps, s2, k2, t2) /\ r.out = Completion(t2, s, k)

LEMMA StatusRules == ASSUME NEW b \in Plainly, IsStatus(b) PROVE b \in Ruling
  BY DEF Plainly, Ruling, IsStatus

LEMMA AppendPlain ==
    ASSUME NEW t \in Seq(Plainly), NEW n \in Nat, n = Len(t), NEW b \in Plainly,
           NEW t2, t2 = Append(t, b)
    PROVE  /\ t2 \in Seq(Plainly) /\ Len(t2) = n + 1 /\ t2[n + 1] = b
           /\ \A j \in 1 .. n : t2[j] = t[j]
  OBVIOUS

LEMMA IdleAnnounces == ASSUME NEW s \in Idle PROVE Announces(s) = 0
  BY DEF Idle, Announces

LEMMA StartMatches ==
    ASSUME NEW st, Sound(st), NEW t \in Seq(Plainly), NEW n \in Nat, n = Len(t),
           NEW t2, t2 = Append(t, 240), NEW s, NEW k, NEW r, r = ParseByte(st, 240)
    PROVE  Goes(r, 240, 0, t2, s, k)
<1> SUFFICES Phase(r.ps, 240, 0, t2) /\ r.out = Completion(t2, s, k)
  BY DEF Goes
<1>1. t2 \in Seq(Plainly) /\ Len(t2) = n + 1 /\ t2[n + 1] = 240
  <2>1. 240 \in Plainly
    BY DEF Plainly
  <2> QED
    BY <2>1, AppendPlain
<1>2. r = SysExStart(st)
  BY DEF ParseByte
<1>3. Held1(r, 240)
  BY <1>2, StartSound
<1>4. InSysEx(r.ps, 0, t2)
  <2>1. Len(r.ps.sx) = 1 /\ r.ps.sx[1] = 240
    BY <1>3 DEF Held1
  <2>2. (0 + 1) % 3 = 1 /\ (n + 1) - 1 + 1 = n + 1
    OBVIOUS
  <2>3. \A i \in 1 .. 1 : r.ps.sx[i] = t2[Len(t2) - 1 + i]
    BY <1>1, <2>1, <2>2
  <2> QED
    BY <2>1, <2>2, <2>3 DEF InSysEx
<1>5. ~(240 \in Channel \cup Common) /\ ~(240 \in Idle)
  BY DEF Channel, Common, Idle
<1>6. Completion(t2, s, k) = <<>>
  BY <1>1 DEF Completion
<1> QED
  BY <1>3, <1>4, <1>5, <1>6 DEF Held1, Phase

LEMMA StatusMatches ==
    ASSUME NEW st, Sound(st), NEW t \in Seq(Plainly), NEW n \in Nat, n = Len(t),
           NEW b \in Channel \cup Common, NEW t2, t2 = Append(t, b), NEW s, NEW k,
           NEW r, r = ParseByte(st, b)
    PROVE  Goes(r, b, 0, t2, s, k)
<1> SUFFICES Phase(r.ps, b, 0, t2) /\ r.out = Completion(t2, s, k)
  BY DEF Goes
<1>1. t2 \in Seq(Plainly) /\ Len(t2) = n + 1 /\ t2[n + 1] = b
  <2>1. b \in Plainly
    BY DEF Plainly, Channel, Common
  <2> QED
    BY <2>1, AppendPlain
<1>2. /\ Sound(r.ps) /\ r.out = <<>> /\ ~r.ps.in_sysex
      /\ r.ps.status = b /\ r.ps.have = 0
  BY StatusSound
<1>3. Announces(b) \in {1, 2}
  BY StatusFacts
<1>4. InMessage(r.ps, b, 0, t2)
  <2>1. 0 < Announces(b) /\ 0 % Announces(b) = 0
    BY <1>3
  <2> QED
    BY <1>2, <2>1 DEF InMessage
<1>5. b # 240 /\ b # 247 /\ IsStatus(b) /\ ~(b \in Idle)
  BY DEF Channel, Common, Idle, IsStatus
<1>6. Completion(t2, s, k) = <<>>
  BY <1>1, <1>3, <1>5 DEF Completion
<1> QED
  BY <1>2, <1>4, <1>5, <1>6 DEF Phase

LEMMA AloneMatches ==
    ASSUME NEW st, Sound(st), NEW t \in Seq(Plainly), NEW n \in Nat, n = Len(t),
           NEW b \in 244 .. 246, NEW t2, t2 = Append(t, b), NEW s, NEW k,
           NEW r, r = ParseByte(st, b)
    PROVE  Goes(r, b, 0, t2, s, k)
<1> SUFFICES Phase(r.ps, b, 0, t2) /\ r.out = Completion(t2, s, k)
  BY DEF Goes
<1>1. t2 \in Seq(Plainly) /\ Len(t2) = n + 1 /\ t2[n + 1] = b
  <2>1. b \in Plainly
    BY DEF Plainly
  <2> QED
    BY <2>1, AppendPlain
<1>2. Sent(r, Packet(5, b, 0, 0)) /\ ~r.ps.in_sysex
  BY AloneGoes
<1>3. r.ps.status = 0
  <2>1. PICK m : m = Aborted(st)
    OBVIOUS
  <2>2. DOMAIN m = Fields
    BY <2>1, AbortedFields
  <2>3. r = Emits([m EXCEPT !.status = 0], Packet(5, b, 0, 0))
    BY <2>1 DEF ParseByte, SystemCommon
  <2>4. r.ps = [m EXCEPT !.status = 0]
    BY <2>3, ResultFields
  <2> QED
    BY <2>2, <2>4 DEF Fields
<1>4. Announces(b) = 0 /\ IsStatus(b) /\ b # 240 /\ b # 247
  <2>1. b \in Idle
    BY DEF Idle
  <2> QED
    BY <2>1, IdleAnnounces DEF IsStatus
<1>5. ~(b \in Channel \cup Common)
  BY DEF Channel, Common
<1>6. Completion(t2, s, k) = Pack(5, <<b>>)
  BY <1>1, <1>4 DEF Completion
<1>7. Carries(<<b>>, 1, b, 0, 0)
  BY DEF Carries
<1>8. Pack(5, <<b>>) = <<Packet(5, b, 0, 0)>>
  BY <1>7, PackIs
<1> QED
  BY <1>2, <1>3, <1>4, <1>5, <1>6, <1>8 DEF Phase, Sent

\* An F0 is one of the n bytes, k bytes before the last.
Placed(s, k, n) == s = 240 => k < n

\* F7: what is left of the chunk begun.
LEMMA EndMatches ==
    ASSUME NEW st, Sound(st), NEW t \in Seq(Plainly), NEW n \in Nat, n = Len(t),
           NEW s \in Ruling, NEW k \in Nat, Placed(s, k, n), Phase(st, s, k, t),
           NEW t2, t2 = Append(t, 247), NEW r, r = ParseByte(st, 247)
    PROVE  Goes(r, 247, 0, t2, s, k + 1)
<1> SUFFICES Phase(r.ps, 247, 0, t2) /\ r.out = Completion(t2, s, k + 1)
  BY DEF Goes
<1>1. /\ t2 \in Seq(Plainly) /\ Len(t2) = n + 1 /\ t2[n + 1] = 247
      /\ \A j \in 1 .. n : t2[j] = t[j]
  <2>1. 247 \in Plainly
    BY DEF Plainly
  <2> QED
    BY <2>1, AppendPlain
<1>2. r.ps.status = 0
  <2>1. r = SysExEnd(st)
    BY DEF ParseByte
  <2>2. \/ \E pk : r = Emits([st EXCEPT !.status = 0, !.in_sysex = FALSE, !.sx = <<>>], pk)
        \/ \E pk : r = Emits([st EXCEPT !.status = 0], pk)
    BY <2>1 DEF SysExEnd
  <2>3. \/ r.ps = [st EXCEPT !.status = 0, !.in_sysex = FALSE, !.sx = <<>>]
        \/ r.ps = [st EXCEPT !.status = 0]
    BY <2>2, ResultFields
  <2>4. DOMAIN st = Fields
    BY DEF Sound
  <2> QED
    BY <2>3, <2>4 DEF Fields
<1>3. Phase(r.ps, 247, 0, t2)
  <2>1. ~r.ps.in_sysex
    BY EndGoes
  <2>2. ~(247 \in Channel \cup Common)
    BY DEF Channel, Common
  <2> QED
    BY <1>2, <2>1, <2>2 DEF Phase
<1>4. CASE s # 240
  <2>1. ~st.in_sysex /\ st.sx = <<>>
    BY <1>4 DEF Phase, Sound
  <2>2. r.out = <<Packet(5, 247, 0, 0)>>
    BY <2>1, EndGoes DEF Sent
  <2>3. Completion(t2, s, k + 1) = Pack(5, <<247>>)
    BY <1>1, <1>4 DEF Completion
  <2>4. Carries(<<247>>, 1, 247, 0, 0)
    BY DEF Carries
  <2>5. Pack(5, <<247>>) = <<Packet(5, 247, 0, 0)>>
    BY <2>4, PackIs
  <2> QED
    BY <1>3, <2>2, <2>3, <2>5
<1>5. CASE s = 240
  <2>1. st.in_sysex /\ InSysEx(st, k, t)
    BY <1>5 DEF Phase
  <2>2. PICK m \in 0 .. 2 : m = (k + 1) % 3
    OBVIOUS
  <2>3. m <= n
    BY <1>5, <2>2 DEF Placed
  <2>4. Len(st.sx) = m /\ \A j \in 1 .. m : st.sx[j] = t[n - m + j]
    BY <2>1, <2>2 DEF InSysEx
  <2>5. PICK q : q = SubSeq(t2, n + 1 - m, n + 1)
    OBVIOUS
  <2>6. Completion(t2, s, k + 1) = Pack(5 + m, q)
    BY <1>1, <1>5, <2>2, <2>5 DEF Completion
  <2>7. Len(q) = m + 1 /\ \A j \in 1 .. m + 1 : q[j] = t2[n - m + j]
    BY <1>1, <2>3, <2>5
  <2>8. \A j \in 1 .. m : q[j] = st.sx[j]
    <3> SUFFICES ASSUME NEW j \in 1 .. m PROVE q[j] = st.sx[j]
      OBVIOUS
    <3>1. PICK x \in 1 .. n : x = n - m + j
      <4>1. n - m + j \in 1 .. n
        BY <2>3
      <4> QED
        BY <4>1
    <3>2. j \in 1 .. m + 1
      OBVIOUS
    <3>3. q[j] = t2[x] /\ st.sx[j] = t[x]
      BY <2>4, <2>7, <3>1, <3>2
    <3> QED
      BY <1>1, <3>3
  <2>9. q[m + 1] = 247
    <3>1. m + 1 \in 1 .. m + 1 /\ n - m + (m + 1) = n + 1
      OBVIOUS
    <3> QED
      BY <1>1, <2>7, <3>1
  <2>10. CASE m = 0
    <3>1. Carries(q, 1, 247, 0, 0)
      BY <2>7, <2>9, <2>10 DEF Carries
    <3>2. Pack(5 + m, q) = <<Packet(5, 247, 0, 0)>>
      BY <2>10, <3>1, PackIs
    <3>3. st.sx = <<>>
      BY <2>4, <2>10, BufferCases DEF Sound
    <3>4. Sent(r, Packet(5, 247, 0, 0))
      BY <3>3, EndGoes
    <3> QED
      BY <1>3, <2>6, <3>2, <3>4 DEF Sent
  <2>11. CASE m = 1
    <3>1. Carries(q, 2, st.sx[1], 247, 0)
      BY <2>7, <2>8, <2>9, <2>11 DEF Carries
    <3>2. Pack(5 + m, q) = <<Packet(6, st.sx[1], 247, 0)>>
      BY <2>11, <3>1, PackIs
    <3>3. Sent(r, Packet(6, st.sx[1], 247, 0))
      BY <2>1, <2>4, <2>11, EndGoes
    <3> QED
      BY <1>3, <2>6, <3>2, <3>3 DEF Sent
  <2>12. CASE m = 2
    <3>1. Carries(q, 3, st.sx[1], st.sx[2], 247)
      BY <2>7, <2>8, <2>9, <2>12 DEF Carries
    <3>2. Pack(5 + m, q) = <<Packet(7, st.sx[1], st.sx[2], 247)>>
      BY <2>12, <3>1, PackIs
    <3>3. Sent(r, Packet(7, st.sx[1], st.sx[2], 247))
      BY <2>1, <2>4, <2>12, EndGoes
    <3> QED
      BY <1>3, <2>6, <3>2, <3>3 DEF Sent
  <2> QED
    BY <2>10, <2>11, <2>12
<1> QED
  BY <1>4, <1>5

\* A data byte in a SysEx: the third of a chunk sends it.
LEMMA SysExMatches ==
    ASSUME NEW st, Sound(st), NEW t \in Seq(Plainly), NEW n \in Nat, n = Len(t),
           NEW k \in Nat, k < n, Phase(st, 240, k, t), NEW b \in Data,
           NEW t2, t2 = Append(t, b), NEW r, r = ParseByte(st, b)
    PROVE  Goes(r, 240, k + 1, t2, 240, k + 1)
<1> SUFFICES Phase(r.ps, 240, k + 1, t2) /\ r.out = Completion(t2, 240, k + 1)
  BY DEF Goes
<1>1. /\ t2 \in Seq(Plainly) /\ Len(t2) = n + 1 /\ t2[n + 1] = b
      /\ \A j \in 1 .. n : t2[j] = t[j]
  <2>1. b \in Plainly
    BY DEF Plainly, Data
  <2> QED
    BY <2>1, AppendPlain
<1>2. st.in_sysex /\ InSysEx(st, k, t)
  BY DEF Phase
<1>3. PICK m \in 0 .. 2 : m = (k + 1) % 3 /\ m <= n
  OBVIOUS
<1>4. Len(st.sx) = m /\ \A i \in 1 .. m : st.sx[i] = t[n - m + i]
  BY <1>2, <1>3 DEF InSysEx
<1>5. ~(240 \in Channel \cup Common) /\ ~(240 \in Idle)
  BY DEF Channel, Common, Idle
<1>6. ~IsStatus(b) /\ b # 240 /\ b # 247
  BY DEF Data, IsStatus
<1>7. CASE m = 2
  <2>1. Sent(r, Packet(4, st.sx[1], st.sx[2], b)) /\ r.ps.in_sysex
    BY <1>2, <1>4, <1>7, ChunkGoes
  <2>2. ((k + 1) + 1) % 3 = 0
    BY <1>3, <1>7
  <2>3. InSysEx(r.ps, k + 1, t2)
    <3>1. r.ps.sx = <<>>
      BY <2>1 DEF Sent, Settled
    <3> QED
      BY <2>2, <3>1 DEF InSysEx
  <2>4. PICK q : q = SubSeq(t2, (n + 1) - 2, n + 1)
    OBVIOUS
  <2>5. Completion(t2, 240, k + 1) = Pack(4, q)
    BY <1>1, <1>6, <2>2, <2>4 DEF Completion
  <2>6. Len(q) = 3 /\ q[1] = t2[n - 1] /\ q[2] = t2[n] /\ q[3] = b
    BY <1>1, <1>3, <1>7, <2>4
  <2>7. st.sx[1] = t2[n - 1] /\ st.sx[2] = t2[n]
    <3>1. n - 2 + 1 = n - 1 /\ n - 2 + 2 = n /\ n - 1 \in 1 .. n /\ n \in 1 .. n
      BY <1>3, <1>7
    <3> QED
      BY <1>1, <1>4, <1>7, <3>1
  <2>8. Carries(q, 3, st.sx[1], st.sx[2], b)
    BY <2>6, <2>7 DEF Carries
  <2>9. Pack(4, q) = <<Packet(4, st.sx[1], st.sx[2], b)>>
    BY <2>8, PackIs
  <2> QED
    BY <1>5, <2>1, <2>3, <2>5, <2>9 DEF Sent, Phase
<1>8. CASE m # 2
  <2>1. Joined(st, r, b)
    BY <1>2, <1>3, <1>4, <1>8, DataJoins
  <2>2. ((k + 1) + 1) % 3 = m + 1
    BY <1>3, <1>8
  <2>3. Len(r.ps.sx) = m + 1 /\ r.ps.sx[m + 1] = b /\ \A i \in 1 .. m : r.ps.sx[i] = st.sx[i]
    BY <1>4, <2>1 DEF Joined
  <2>4. \A i \in 1 .. m + 1 : r.ps.sx[i] = t2[(n + 1) - (m + 1) + i]
    <3> SUFFICES ASSUME NEW i \in 1 .. m + 1 PROVE r.ps.sx[i] = t2[(n + 1) - (m + 1) + i]
      OBVIOUS
    <3>1. PICK x \in 1 .. n + 1 : x = n - m + i /\ x = (n + 1) - (m + 1) + i
      <4>1. n - m + i \in 1 .. n + 1 /\ n - m + i = (n + 1) - (m + 1) + i
        BY <1>3
      <4> QED
        BY <4>1
    <3>2. CASE i = m + 1
      <4>1. x = n + 1
        BY <3>1, <3>2
      <4> QED
        BY <1>1, <2>3, <3>1, <3>2, <4>1
    <3>3. CASE i # m + 1
      <4>1. i \in 1 .. m /\ x \in 1 .. n
        BY <3>1, <3>3
      <4>2. r.ps.sx[i] = t[x] /\ t2[x] = t[x]
        BY <1>1, <1>4, <2>3, <3>1, <4>1
      <4> QED
        BY <3>1, <4>2
    <3> QED
      BY <3>2, <3>3
  <2>5. InSysEx(r.ps, k + 1, t2)
    BY <1>1, <2>2, <2>3, <2>4 DEF InSysEx
  <2>6. Completion(t2, 240, k + 1) = <<>>
    <3>1. ((k + 1) + 1) % 3 # 0
      BY <2>2
    <3> QED
      BY <1>1, <1>6, <3>1 DEF Completion
  <2> QED
    BY <1>5, <2>1, <2>5, <2>6 DEF Joined, Phase
<1> QED
  BY <1>7, <1>8

\* What a complete message leaves of its status.
StatusAfter(s) == IF s >= 240 THEN 0 ELSE s

LEMMA MessageAfter ==
    ASSUME NEW st, Sound(st), ~st.in_sysex, NEW b \in Data,
           NEW r, r = ParseByte(st, b), NEW s, s = st.status
    PROVE  /\ s = 0 => r.ps = st
           /\ s # 0 /\ (Announces(s) = 1 \/ st.have = 1) =>
                 r.ps.status = StatusAfter(s) /\ r.ps.have = 0
<1>1. r = MessageData(st, b)
  BY DataByte
<1>2. s # 0 => st.need = Announces(s)
  BY DEF Sound
<1>3. CASE s = 0
  <2>1. r = Silent(st)
    BY <1>1, <1>3 DEF MessageData
  <2> QED
    BY <1>3, <2>1, ResultFields
<1>4. CASE s # 0 /\ (Announces(s) = 1 \/ st.have = 1)
  <2>1. PICK new : new = [st EXCEPT !.have = 0, !.status = IF @ >= 240 THEN 0 ELSE @]
    OBVIOUS
  <2>2. PICK pk : pk = IF st.need = 1 THEN Packet(st.cin, st.status, b, 0)
                                      ELSE Packet(st.cin, st.status, st.d0, b)
    OBVIOUS
  <2>3. ~(st.need = 2 /\ st.have = 0)
    BY <1>2, <1>4
  <2>4. r = Emits(new, pk)
    BY <1>1, <1>4, <2>1, <2>2, <2>3 DEF MessageData
  <2>5. r.ps = new
    BY <2>4, ResultFields
  <2>6. DOMAIN st = Fields
    BY DEF Sound
  <2>7. new.have = 0 /\ new.status = IF st.status >= 240 THEN 0 ELSE st.status
    BY <2>1, <2>6 DEF Fields
  <2>8. new.status = StatusAfter(s)
    BY <2>7 DEF StatusAfter
  <2> QED
    BY <1>4, <2>5, <2>7, <2>8
<1> QED
  BY <1>3, <1>4

\* A data byte under no status, or one that announces none.
LEMMA IdleMatches ==
    ASSUME NEW st, Sound(st), NEW t \in Seq(Plainly), NEW n \in Nat, n = Len(t),
           NEW s \in Idle, NEW k, Phase(st, s, k, t), NEW b \in Data,
           NEW t2, t2 = Append(t, b), NEW r, r = ParseByte(st, b)
    PROVE  Goes(r, s, k + 1, t2, s, k + 1)
<1> SUFFICES Phase(r.ps, s, k + 1, t2) /\ r.out = Completion(t2, s, k + 1)
  BY DEF Goes
<1>1. t2 \in Seq(Plainly) /\ Len(t2) = n + 1 /\ t2[n + 1] = b
  <2>1. b \in Plainly
    BY DEF Plainly, Data
  <2> QED
    BY <2>1, AppendPlain
<1>2. s # 240 /\ ~(s \in Channel \cup Common) /\ Announces(s) = 0
  BY IdleAnnounces DEF Idle, Channel, Common
<1>3. ~st.in_sysex /\ st.status = 0
  BY <1>2 DEF Phase
<1>4. ~IsStatus(b) /\ b # 240 /\ b # 247
  BY DEF Data, IsStatus
<1>5. r.ps = st /\ r.out = <<>>
  BY <1>3, MessageAfter, MessageGoes
<1>6. Completion(t2, s, k + 1) = <<>>
  BY <1>1, <1>2, <1>4 DEF Completion
<1> QED
  BY <1>2, <1>3, <1>5, <1>6 DEF Phase

\* A data byte of a message: kept, the one that completes it, or one too many.
LEMMA MessageMatches ==
    ASSUME NEW st, Sound(st), NEW t \in Seq(Plainly), NEW n \in Nat, n = Len(t),
           NEW s \in Channel \cup Common, NEW k \in Nat, k < n, Phase(st, s, k, t),
           NEW b \in Data, NEW t2, t2 = Append(t, b), NEW r, r = ParseByte(st, b)
    PROVE  Goes(r, s, k + 1, t2, s, k + 1)
<1> SUFFICES Phase(r.ps, s, k + 1, t2) /\ r.out = Completion(t2, s, k + 1)
  BY DEF Goes
<1>1. /\ t2 \in Seq(Plainly) /\ Len(t2) = n + 1 /\ t2[n + 1] = b
      /\ \A j \in 1 .. n : t2[j] = t[j]
  <2>1. b \in Plainly
    BY DEF Plainly, Data
  <2> QED
    BY <2>1, AppendPlain
<1>2. s # 0 /\ s # 240 /\ ~(s \in Idle) /\ s \in Int
  BY DEF Channel, Common, Idle
<1>3. ~st.in_sysex /\ InMessage(st, s, k, t)
  BY <1>2 DEF Phase
<1>4. ~IsStatus(b) /\ b # 240 /\ b # 247
  BY DEF Data, IsStatus
<1>5. PICK a \in {1, 2} : a = Announces(s)
  BY StatusFacts
<1>6. ~r.ps.in_sysex
  BY <1>3, MessageGoes
\* It is enough that the message goes on as it should.
<1>7. ASSUME InMessage(r.ps, s, k + 1, t2) PROVE Phase(r.ps, s, k + 1, t2)
  BY <1>2, <1>6, <1>7 DEF Phase
<1>8. PICK q : q = <<s>> \o SubSeq(t2, (n + 1) - a + 1, n + 1)
  OBVIOUS
<1>9. Completion(t2, s, k + 1) =
         IF (k + 1) % a = 0 /\ (s < 240 \/ k + 1 = a) THEN Pack(MessageCin(s), q) ELSE <<>>
  <2>1. a # 0
    OBVIOUS
  <2> QED
    BY <1>1, <1>2, <1>4, <1>5, <1>8, <2>1 DEF Completion
<1>10. CASE ~(s < 240 \/ k < a)
  <2>1. st.status = 0
    BY <1>3, <1>5, <1>10 DEF InMessage
  <2>2. r.ps = st /\ r.out = <<>>
    BY <1>3, <2>1, MessageAfter, MessageGoes
  <2>3. ~(s < 240 \/ k + 1 < a) /\ ~(s < 240 \/ k + 1 = a)
    BY <1>2, <1>10
  <2>4. InMessage(r.ps, s, k + 1, t2)
    BY <1>5, <2>1, <2>2, <2>3 DEF InMessage
  <2> QED
    BY <1>7, <1>9, <2>2, <2>3, <2>4
<1>11. CASE s < 240 \/ k < a
  <2>1. st.status = s /\ st.have = k % a /\ (st.have = 1 => st.d0 = t[n])
    BY <1>3, <1>5, <1>11 DEF InMessage
  <2>6. /\ s # 0 /\ Announces(s) = 1 => r.out = <<Packet(MessageCin(s), s, b, 0)>>
        /\ s # 0 /\ Announces(s) = 2 /\ st.have = 0 =>
              r.out = <<>> /\ Half(r.ps, s, b)
        /\ s # 0 /\ Announces(s) = 2 /\ st.have = 1 =>
              r.out = <<Packet(MessageCin(s), s, st.d0, b)>>
    BY <1>3, <2>1, MessageGoes, Zenon
  <2>7. s # 0 /\ (Announces(s) = 1 \/ st.have = 1) =>
           r.ps.status = StatusAfter(s) /\ r.ps.have = 0
    BY <1>3, <2>1, MessageAfter
  <2>2. CASE a = 1
    <3>1. k % 1 = 0 /\ (k + 1) % 1 = 0
      OBVIOUS
    <3>2. r.out = <<Packet(MessageCin(s), s, b, 0)>>
      BY <1>2, <1>5, <2>2, <2>6
    <3>3. r.ps.status = StatusAfter(s) /\ r.ps.have = 0
      BY <1>2, <1>5, <2>2, <2>7
    <3>4. s < 240 \/ k + 1 = a
      BY <1>11, <2>2
    <3>5. Len(q) = 2 /\ q[1] = s /\ q[2] = b
      BY <1>1, <1>8, <2>2
    <3>6. Carries(q, 2, s, b, 0)
      BY <3>5 DEF Carries
    <3>7. Pack(MessageCin(s), q) = <<Packet(MessageCin(s), s, b, 0)>>
      BY <3>6, PackIs
    <3>8. InMessage(r.ps, s, k + 1, t2)
      <4>1. (s < 240 \/ k + 1 < 1) <=> ~(s >= 240)
        BY <1>2
      <4> QED
        BY <1>2, <1>5, <2>2, <3>1, <3>3, <4>1 DEF InMessage, StatusAfter
    <3> QED
      BY <1>7, <1>9, <2>2, <3>1, <3>2, <3>4, <3>7, <3>8
  <2>3. CASE a = 2 /\ k % 2 = 0
    <3>1. (k + 1) % 2 = 1
      BY <2>3
    <3>2. r.out = <<>> /\ Half(r.ps, s, b)
      BY <1>2, <1>5, <2>1, <2>3, <2>6
    <3>3. s < 240 \/ k + 1 < 2
      BY <1>11, <2>3
    <3>4. InMessage(r.ps, s, k + 1, t2)
      BY <1>1, <1>5, <2>3, <3>1, <3>2, <3>3 DEF InMessage, Half
    <3> QED
      BY <1>7, <1>9, <2>3, <3>1, <3>2, <3>4
  <2>4. CASE a = 2 /\ k % 2 = 1
    <3>1. (k + 1) % 2 = 0
      BY <2>4
    <3>2. st.have = 1 /\ st.d0 = t[n]
      BY <2>1, <2>4
    <3>3. r.out = <<Packet(MessageCin(s), s, t[n], b)>>
      BY <1>2, <1>5, <2>4, <2>6, <3>2
    <3>4. r.ps.status = StatusAfter(s) /\ r.ps.have = 0
      BY <1>2, <2>7, <3>2
    <3>5. k >= 1 /\ (s < 240 \/ k + 1 = a)
      BY <1>11, <2>4
    <3>6. Len(q) = 3 /\ q[1] = s /\ q[2] = t2[n] /\ q[3] = b
      BY <1>1, <1>8, <2>4, <3>5
    <3>7. t2[n] = t[n]
      BY <1>1
    <3>8. Carries(q, 3, s, t[n], b)
      BY <3>6, <3>7 DEF Carries
    <3>9. Pack(MessageCin(s), q) = <<Packet(MessageCin(s), s, t[n], b)>>
      BY <3>8, PackIs
    <3>10. InMessage(r.ps, s, k + 1, t2)
      <4>1. (s < 240 \/ k + 1 < 2) <=> ~(s >= 240)
        BY <1>2, <3>5
      <4> QED
        BY <1>2, <1>5, <2>4, <3>1, <3>4, <4>1 DEF InMessage, StatusAfter
    <3> QED
      BY <1>7, <1>9, <2>4, <3>1, <3>3, <3>5, <3>9, <3>10
  <2>5. k % 2 = 0 \/ k % 2 = 1
    OBVIOUS
  <2> QED
    BY <2>2, <2>3, <2>4, <2>5
<1> QED
  BY <1>10, <1>11

-----------------------------------------------------------------------------
(* The parser against the reference.                                       *)

\* The parser is where the stream without its real-time bytes leaves it.
Matches(st, t) ==
    \E l : /\ t \in Seq(Plainly) /\ LastIs(t, Len(t), l)
           /\ Phase(st, Under(t, l), Len(t) - l, t)

LEMMA MatchesFirst == Matches(Fresh, <<>>)
<1>1. LastIs(<<>>, 0, 0) /\ Len(<<>>) = 0 /\ <<>> \in Seq(Plainly)
  BY DEF LastIs
<1>2. Under(<<>>, 0) = 0
  BY DEF Under
<1>3. ~(0 \in Channel \cup Common)
  BY DEF Channel, Common
<1>4. Phase(Fresh, 0, 0, <<>>)
  BY <1>3 DEF Phase, Fresh
<1> QED
  BY <1>1, <1>2, <1>4 DEF Matches

\* The parser's answer to the byte that made t2 is the reference's.
Agrees(r, t2) == Matches(r.ps, t2) /\ r.out = Completes(t2)

LEMMA StreamStep ==
    ASSUME NEW st, Sound(st), NEW t, Matches(st, t), NEW b \in Plainly,
           NEW t2, t2 = Append(t, b), NEW r, r = ParseByte(st, b)
    PROVE  Agrees(r, t2)
<1> SUFFICES Matches(r.ps, t2) /\ r.out = Completes(t2)
  BY DEF Agrees
<1>1. PICK l : /\ t \in Seq(Plainly) /\ LastIs(t, Len(t), l)
               /\ Phase(st, Under(t, l), Len(t) - l, t)
  BY DEF Matches
<1>2. PICK n \in Nat : n = Len(t)
  BY <1>1
<1>3. /\ t2 \in Seq(Plainly) /\ Len(t2) = n + 1 /\ t2[n + 1] = b
      /\ \A j \in 1 .. n : t2[j] = t[j]
  BY <1>1, <1>2, AppendPlain
<1>4. PICK s : s = Under(t, l)
  OBVIOUS
<1>5. /\ l \in 0 .. n /\ s \in Ruling /\ (l = 0 => s = 0)
      /\ l # 0 => s = t2[l]
  <2>1. l = 0 \/ (l \in 1 .. n /\ IsStatus(t[l]))
    BY <1>1, <1>2 DEF LastIs
  <2>2. CASE l = 0
    BY <1>4, <2>2 DEF Under, Ruling
  <2>3. CASE l \in 1 .. n /\ IsStatus(t[l])
    <3>1. t[l] \in Plainly /\ s = t[l]
      BY <1>1, <1>2, <1>4, <2>3 DEF Under
    <3>2. t[l] \in Ruling
      <4>1. PICK x \in Plainly : x = t[l] /\ IsStatus(x)
        BY <2>3, <3>1
      <4>2. x \in Ruling
        BY <4>1, StatusRules
      <4> QED
        BY <4>1, <4>2
    <3>3. t2[l] = t[l] /\ l \in 0 .. n /\ l # 0
      BY <1>3, <2>3
    <3> QED
      BY <3>1, <3>2, <3>3
  <2> QED
    BY <2>1, <2>2, <2>3
<1>6. PICK k \in Nat : k = n - l /\ n + 1 - l = k + 1 /\ (s # 0 => k < n)
  <2>1. n - l \in Nat /\ n + 1 - l = (n - l) + 1 /\ (l # 0 => n - l < n)
    BY <1>5
  <2> QED
    BY <1>5, <2>1
<1>7. Phase(st, s, k, t)
  BY <1>1, <1>2, <1>4, <1>6
<1>8. t \in Seq(Byte) /\ b \in Byte
  <2>1. Plainly \subseteq Byte
    BY DEF Plainly, Byte
  <2> QED
    BY <1>1, <2>1
<1>9. Completes(t2) = Completion(t2, s, k + 1)
  <2>1. Completes(t2) = Completion(t2, Under(t, l), n + 1 - l)
    BY <1>1, <1>2, <1>8, CompletesIs
  <2> QED
    BY <1>4, <1>6, <2>1
<1>10. LastIs(t2, n + 1, IF IsStatus(b) THEN n + 1 ELSE l)
  BY <1>1, <1>2, <1>8, LastNext
\* A status byte.
<1>11. CASE IsStatus(b)
  <2>1. LastIs(t2, Len(t2), n + 1)
    BY <1>3, <1>10, <1>11
  <2>2. Under(t2, n + 1) = b /\ Len(t2) - (n + 1) = 0
    BY <1>3 DEF Under
  <2>3. Goes(r, b, 0, t2, s, k + 1)
    <3>1. CASE b = 240
      <4>1. t2 = Append(t, 240) /\ r = ParseByte(st, 240)
        BY <3>1
      <4>2. Goes(r, 240, 0, t2, s, k + 1)
        BY <1>1, <1>2, <4>1, StartMatches
      <4> QED
        BY <3>1, <4>2
    <3>2. CASE b = 247
      <4>1. t2 = Append(t, 247) /\ r = ParseByte(st, 247)
        BY <3>2
      <4>2. t \in Seq(Plainly) /\ s \in Ruling /\ Placed(s, k, n)
        BY <1>1, <1>5, <1>6 DEF Placed
      <4>3. Goes(r, 247, 0, t2, s, k + 1)
        BY <1>2, <1>7, <4>1, <4>2, EndMatches
      <4> QED
        BY <3>2, <4>3
    <3>3. CASE b \in Channel \cup Common
      BY <1>1, <1>2, <3>3, StatusMatches
    <3>4. CASE b \in 244 .. 246
      BY <1>1, <1>2, <3>4, AloneMatches
    <3>5. b = 240 \/ b = 247 \/ b \in Channel \cup Common \/ b \in 244 .. 246
      BY <1>11 DEF Plainly, IsStatus, Channel, Common
    <3> QED
      BY <3>1, <3>2, <3>3, <3>4, <3>5
  <2>4. Phase(r.ps, Under(t2, n + 1), Len(t2) - (n + 1), t2)
    BY <2>2, <2>3 DEF Goes
  <2> QED
    BY <1>3, <1>9, <2>1, <2>3, <2>4 DEF Goes, Matches
\* A data byte.
<1>12. CASE ~IsStatus(b)
  <2>1. LastIs(t2, Len(t2), l)
    BY <1>3, <1>10, <1>12
  <2>2. Under(t2, l) = s /\ Len(t2) - l = k + 1
    BY <1>3, <1>5, <1>6 DEF Under
  <2>3. b \in Data
    BY <1>12 DEF Plainly, IsStatus, Data
  <2>4. Goes(r, s, k + 1, t2, s, k + 1)
    <3>1. CASE s = 240
      <4>1. k < n /\ Phase(st, 240, k, t)
        BY <1>6, <1>7, <3>1
      <4>2. Goes(r, 240, k + 1, t2, 240, k + 1)
        BY <1>1, <1>2, <2>3, <4>1, SysExMatches
      <4> QED
        BY <3>1, <4>2
    <3>2. CASE s \in Channel \cup Common
      <4>1. k < n
        BY <1>6, <3>2 DEF Channel, Common
      <4> QED
        BY <1>1, <1>2, <1>7, <2>3, <3>2, <4>1, MessageMatches
    <3>3. CASE s \in Idle
      BY <1>1, <1>2, <1>7, <2>3, <3>3, IdleMatches
    <3>4. s = 240 \/ s \in Channel \cup Common \/ s \in Idle
      BY <1>5 DEF Ruling, Idle, Channel, Common
    <3> QED
      BY <3>1, <3>2, <3>3, <3>4
  <2>5. Phase(r.ps, Under(t2, l), Len(t2) - l, t2)
    BY <2>2, <2>4 DEF Goes
  <2> QED
    BY <1>3, <1>9, <2>1, <2>4, <2>5 DEF Goes, Matches
<1> QED
  BY <1>11, <1>12

\* Beside LoopInv: the first parser is where its stream leaves it, and what it
\* has emitted last is what the reference says.
RefInv == LoopInv /\ Matches(ps, Plain(fed)) /\ MatchesReference

LEMMA RefInit == Init => RefInv
<1> SUFFICES ASSUME Init PROVE RefInv
  OBVIOUS
<1>1. Matches(ps, Plain(fed))
  BY PlainEmpty, MatchesFirst DEF Init
<1> QED
  BY <1>1, LoopInit DEF Init, RefInv, MatchesReference

LEMMA RefNext == RefInv /\ [Next]_vars => RefInv'
<1> SUFFICES ASSUME RefInv, [Next]_vars PROVE RefInv'
  OBVIOUS
<1>1. LoopInv'
  BY LoopNext DEF RefInv
<1>2. CASE UNCHANGED vars
  BY <1>1, <1>2 DEF RefInv, MatchesReference, Expected, vars
<1>3. CASE Next
  <2>1. PICK b \in Statuses \cup {Len(fed) + 1} : Receive(b)
    BY <1>3 DEF Next
  <2>2. PICK n \in Nat : n = Len(fed) /\ fed \in Seq(Byte) /\ Sound(ps)
    BY DEF RefInv, LoopInv
  <2>3. b \in Byte
    BY <2>1, <2>2 DEF Receive, Byte
  <2>4. fed' = Append(fed, b) /\ fed' \in Seq(Byte) /\ fed'[Len(fed')] = b
    BY <2>1, <2>2, <2>3 DEF Receive
  <2>5. PICK t, t2, f2 : t = Plain(fed) /\ f2 = fed' /\ t2 = Plain(f2)
    OBVIOUS
  <2>6. t2 = Plainer(t, b)
    <3>1. f2 = Append(fed, b)
      BY <2>4, <2>5
    <3>2. Plain(f2) = Plainer(Plain(fed), b)
      BY <2>2, <2>3, <3>1, PlainNext
    <3> QED
      BY <2>5, <3>2
  <2>7. PICK r : r = ParseByte(ps, b)
    OBVIOUS
  <2>8. ps' = r.ps /\ out' = r.out
    BY <2>1, <2>7 DEF Receive
  <2>9. Matches(ps, t)
    BY <2>5 DEF RefInv
  <2>10. Matches(r.ps, t2) /\ out' = Expected'
    <3>1. Expected' = IF IsRealTime(b) THEN Pack(15, <<b>>) ELSE Completes(t2)
      BY <2>4, <2>5 DEF Expected
    <3>2. CASE IsRealTime(b)
      <4>1. b \in 248 .. 255
        BY <2>3, <3>2 DEF IsRealTime, Byte
      <4>2. r.ps = ps /\ r.out = <<Packet(15, b, 0, 0)>>
        BY <2>7, <4>1, RealTimeGoes
      <4>3. Carries(<<b>>, 1, b, 0, 0)
        BY DEF Carries
      <4>4. Pack(15, <<b>>) = <<Packet(15, b, 0, 0)>>
        BY <4>3, PackIs
      <4> QED
        BY <2>6, <2>8, <2>9, <3>1, <3>2, <4>2, <4>4 DEF Plainer
    <3>3. CASE ~IsRealTime(b)
      <4>1. b \in Plainly /\ t2 = Append(t, b)
        BY <2>3, <2>6, <3>3 DEF IsRealTime, Byte, Plainly, Plainer
      <4>2. PICK st : st = ps
        OBVIOUS
      <4>3. Sound(st) /\ Matches(st, t) /\ r = ParseByte(st, b)
        BY <2>2, <2>7, <2>9, <4>2
      <4>4. Agrees(r, t2)
        BY <4>1, <4>3, StreamStep
      <4> QED
        BY <2>8, <3>1, <3>3, <4>4 DEF Agrees
    <3> QED
      BY <3>2, <3>3
  <2>11. Matches(ps', Plain(fed'))
    BY <2>5, <2>8, <2>10
  <2> QED
    BY <1>1, <2>10, <2>11 DEF RefInv, MatchesReference
<1> QED
  BY <1>2, <1>3

\* What a byte makes the parser emit is what the stream alone says, on every
\* stream: no field left over from an earlier message leaks into a later packet.
THEOREM ReferenceCorrect == Spec => []MatchesReference
<1>1. RefInv => MatchesReference
  BY DEF RefInv
<1> QED
  BY <1>1, RefInit, RefNext, PTL DEF Spec
=============================================================================
