-------------------------- MODULE RxCaptureProofs ---------------------------
(***************************************************************************)
(* What RxTiming's and RxCapture's runs show on small instances: when the  *)
(* capture ISR reads a port, for every period, prescaler and jitter, and   *)
(* what becomes of the bytes, for every number of ports, ring size,        *)
(* prescaler and bound.                                                    *)
(***************************************************************************)
EXTENDS RxCapture, RxTiming, TLAPS

-----------------------------------------------------------------------------
(* When a port is read: under the assumptions on the constants alone,      *)
(* sweeps start exactly TickPrescale Timer0 periods apart and no byte is   *)
(* lost in the UART.                                                       *)


\* Timer0 overflows since the last sweep started.
Overflows == TickPrescale - prescaler + (IF TF0 THEN 1 ELSE 0)

\* The clock of the sweeps is the count of overflows: none has been lost.
ClockExact == sinceSweep = Overflows * Tick + sinceTick

\* A pending overflow is younger than a period; only a sweep delays one.
PendingFresh ==
    TF0 => /\ sinceTick < Tick
           /\ prescaler < TickPrescale => sinceTick = 0

SweepBounded ==
    /\ sweeping => prescaler = TickPrescale /\ sinceSweep <= Sweep
    /\ unread => sweeping /\ sinceSweep <= Hi
    /\ ~unread => Lo <= sinceSweep

\* The byte in the receive register came after the port was last read.
ByteAfterRead ==
    dr => sinceByte + Lo <= sinceSweep + (IF unread THEN TickPrescale * Tick ELSE 0)

TimingInv == TimingTypeOK /\ ClockExact /\ PendingFresh /\ SweepBounded /\ ByteAfterRead

-----------------------------------------------------------------------------
\* Multiplication by a natural number: one more period, and monotonicity.
LEMMA Periods ==
    ASSUME NEW a \in Nat, NEW b \in Nat, NEW t \in Nat, a <= b
    PROVE  /\ a * t \in Nat /\ b * t \in Nat
           /\ a * t <= b * t
           /\ (a + 1) * t = a * t + t
           /\ a < b => a * t + t <= b * t
  <1>1. a * t \in Nat /\ b * t \in Nat /\ (b - a) * t \in Nat
        /\ (a + 1) * t = a * t + t /\ b * t = a * t + (b - a) * t
    BY SMT
  <1>2. a < b => (b - a) * t = t + (b - a - 1) * t /\ (b - a - 1) * t \in Nat
    BY SMT
  <1> QED
    BY <1>1, <1>2

\* The invariant bounds the time between sweeps by TickPrescale periods.
LEMMA Cadence == TimingInv => SteadyCadence
  <1> SUFFICES ASSUME TimingInv PROVE sinceSweep <= TickPrescale * Tick
    BY DEF SteadyCadence
  <1> USE TimesAssumption, TickPrescaleAssumption DEF TimingInv, TimingTypeOK
  <1>1. Overflows \in Nat /\ Overflows <= TickPrescale
    BY DEF Overflows
  <1>2. /\ Overflows * Tick \in Nat /\ TickPrescale * Tick \in Nat
        /\ Overflows * Tick <= TickPrescale * Tick
        /\ Overflows < TickPrescale => Overflows * Tick + Tick <= TickPrescale * Tick
    BY <1>1, Periods
  <1>3. CASE Overflows = TickPrescale
    <2>1. TF0 /\ prescaler = 1
      BY <1>3 DEF Overflows
    <2>2. sinceTick = 0
      BY <2>1 DEF PendingFresh
    <2> QED
      BY <2>2, <1>2 DEF ClockExact
  <1>4. CASE Overflows < TickPrescale
    BY <1>4, <1>2 DEF ClockExact
  <1> QED
    BY <1>1, <1>3, <1>4

\* The first tick after uart_rx_start finds the invariant.
LEMMA TimingStarts == TimingInit => TimingInv
  <1> SUFFICES ASSUME TimingInit PROVE TimingInv
    OBVIOUS
  <1> USE TimesAssumption, TickPrescaleAssumption, SweepAssumption DEF TimingInit
  <1>1. Overflows = TickPrescale - 1
    BY DEF Overflows
  <1>2. (TickPrescale - 1) * Tick \in Nat /\ Tick <= (TickPrescale - 1) * Tick
    <2>1. 1 \in Nat /\ TickPrescale - 1 \in Nat /\ 1 <= TickPrescale - 1
      OBVIOUS
    <2>2. (TickPrescale - 1) * Tick \in Nat /\ 1 * Tick <= (TickPrescale - 1) * Tick
      BY <2>1, Periods
    <2> QED
      BY <2>2
  <1>3. TimingTypeOK
    <2>1. sinceSweep \in Nat
      BY <1>2
    <2>2. sinceTick \in 0 .. Tick /\ prescaler \in 1 .. TickPrescale /\ sinceByte \in 0 .. ByteTime
      OBVIOUS
    <2> QED
      BY <2>1, <2>2 DEF TimingTypeOK
  <1>4. ClockExact
    BY <1>1, <1>2 DEF ClockExact
  <1>5. PendingFresh /\ SweepBounded /\ ByteAfterRead
    BY <1>2 DEF PendingFresh, SweepBounded, ByteAfterRead
  <1> QED
    BY <1>3, <1>4, <1>5 DEF TimingInv

\* An overflow and time passing keep the sweep clock and everything it bounds.
LEMMA TimePasses == TimingInv /\ (Pass \/ Overflow) => TimingInv'
  <1> SUFFICES ASSUME TimingInv, Pass \/ Overflow PROVE TimingInv'
    OBVIOUS
  <1> USE TimesAssumption, TickPrescaleAssumption, SweepAssumption DEF TimingInv, TimingTypeOK
  <1>0. TickPrescale * Tick \in Nat
    BY Periods
  <1>1. Overflows \in Nat /\ Overflows * Tick \in Nat /\ (Overflows + 1) * Tick = Overflows * Tick + Tick
    <2>1. Overflows \in Nat
      BY DEF Overflows
    <2> QED
      BY <2>1, Periods
  <1>2. CASE Pass
    <2>1. Overflows' = Overflows /\ (Overflows * Tick)' = Overflows * Tick
      BY <1>2 DEF Pass, Overflows
    <2>2. TimingTypeOK' /\ ClockExact'
      BY <1>2, <1>1, <2>1 DEF Pass, Due, ClockExact
    <2>3. PendingFresh'
      <3>1. TF0 => sweeping /\ sinceSweep < Sweep /\ Overflows = 1
        <4>1. TF0 => sweeping /\ sinceSweep # Sweep
          BY <1>2 DEF Pass, Due
        <4> QED
          BY <4>1 DEF SweepBounded, Overflows
      <3>2. TF0 => sinceSweep = Tick + sinceTick
        BY <3>1 DEF ClockExact
      <3>3. TF0 => sinceTick + 1 < Tick /\ prescaler = TickPrescale
        BY <3>1, <3>2 DEF SweepBounded
      <3> QED
        BY <3>3, <1>2 DEF Pass, PendingFresh
    <2>4. SweepBounded' /\ ByteAfterRead'
      BY <1>2, <1>0 DEF Pass, Due, SweepBounded, ByteAfterRead
    <2> QED
      BY <2>2, <2>3, <2>4
  <1>3. CASE Overflow
    <2>1. ~TF0
      BY <1>3 DEF Overflow, PendingFresh
    <2>2. Overflows' = Overflows + 1
      BY <1>3, <2>1 DEF Overflow, Overflows
    <2>3. TimingTypeOK' /\ ClockExact'
      BY <1>3, <1>1, <2>2 DEF Overflow, ClockExact
    <2>4. PendingFresh' /\ SweepBounded' /\ ByteAfterRead'
      BY <1>3, <1>0 DEF Overflow, PendingFresh, SweepBounded, ByteAfterRead
    <2> QED
      BY <2>3, <2>4
  <1> QED
    BY <1>2, <1>3

\* The handler keeps the invariant: a counted tick, a sweep, the port's read.
LEMMA IsrKeeps == TimingInv /\ (IsrSkip \/ IsrSweep \/ ReadPort \/ SweepEnds) => TimingInv'
  <1> SUFFICES ASSUME TimingInv, IsrSkip \/ IsrSweep \/ ReadPort \/ SweepEnds PROVE TimingInv'
    OBVIOUS
  <1> USE TimesAssumption, TickPrescaleAssumption, SweepAssumption DEF TimingInv, TimingTypeOK
  <1>0. TickPrescale * Tick \in Nat /\ Lo <= TickPrescale * Tick /\ 0 * Tick = 0
    <2>1. 1 * Tick <= TickPrescale * Tick /\ TickPrescale * Tick \in Nat /\ 0 * Tick = 0
      BY Periods
    <2> QED
      BY <2>1
  <1>1. CASE IsrSkip
    <2>1. Overflows' = Overflows
      BY <1>1 DEF IsrSkip, Overflows
    <2>2. TimingTypeOK'
      <3>1. prescaler' \in 1 .. TickPrescale
        BY <1>1 DEF IsrSkip
      <3> QED
        BY <1>1, <3>1 DEF IsrSkip
    <2>4. ClockExact'
      BY <1>1, <2>1 DEF IsrSkip, ClockExact
    <2>3. PendingFresh' /\ SweepBounded' /\ ByteAfterRead'
      BY <1>1, <1>0 DEF IsrSkip, PendingFresh, SweepBounded, ByteAfterRead
    <2> QED
      BY <2>2, <2>3, <2>4
  <1>2. CASE IsrSweep
    <2>1. Overflows = TickPrescale /\ Overflows' = 0
      BY <1>2 DEF IsrSweep, Reload, Overflows
    <2>2. sinceTick = 0 /\ ~unread
      BY <1>2 DEF IsrSweep, PendingFresh, SweepBounded
    <2>3. sinceSweep = TickPrescale * Tick
      BY <2>1, <2>2, <1>0 DEF ClockExact
    <2>4. TimingTypeOK'
      <3>1. prescaler' \in 1 .. TickPrescale /\ sinceSweep' \in Nat
        BY <1>2 DEF IsrSweep, Reload
      <3> QED
        BY <1>2, <3>1 DEF IsrSweep
    <2>7. ClockExact'
      BY <1>2, <1>0, <2>1, <2>2 DEF IsrSweep, ClockExact
    <2>5. PendingFresh' /\ SweepBounded'
      BY <1>2 DEF IsrSweep, Reload, PendingFresh, SweepBounded
    <2>6. ByteAfterRead'
      BY <1>2, <1>0, <2>2, <2>3 DEF IsrSweep, ByteAfterRead
    <2> QED
      BY <2>4, <2>5, <2>6, <2>7
  <1>3. CASE ReadPort
    <2>1. Overflows' = Overflows
      BY <1>3 DEF ReadPort, Overflows
    <2> QED
      BY <1>3, <2>1 DEF ReadPort, ClockExact, PendingFresh, SweepBounded, ByteAfterRead
  <1>4. CASE SweepEnds
    <2>1. Overflows' = Overflows
      BY <1>4 DEF SweepEnds, Overflows
    <2> QED
      BY <1>4, <1>0, <2>1 DEF SweepEnds, ClockExact, PendingFresh, SweepBounded, ByteAfterRead
  <1> QED
    BY <1>1, <1>2, <1>3, <1>4

\* The next byte cannot complete while the register still holds one.
LEMMA ByteSpaced ==
    ASSUME TimingInv, ByteArrives
    PROVE  ~dr
  <1> USE TimesAssumption, TickPrescaleAssumption DEF TimingInv, TimingTypeOK
  <1>1. TickPrescale * Tick \in Nat
    BY Periods
  <1>2. sinceSweep <= TickPrescale * Tick
    BY Cadence DEF SteadyCadence
  <1> QED
    BY <1>1, <1>2, CadenceAssumption DEF ByteArrives, ByteAfterRead, SweepBounded

\* A byte from the line keeps the invariant.
LEMMA LineKeeps == TimingInv /\ ByteArrives => TimingInv'
  <1> SUFFICES ASSUME TimingInv, ByteArrives PROVE TimingInv'
    OBVIOUS
  <1> USE TimesAssumption, TickPrescaleAssumption DEF TimingInv, TimingTypeOK
  <1>1. TickPrescale * Tick \in Nat /\ Lo <= TickPrescale * Tick
    <2>1. 1 * Tick <= TickPrescale * Tick /\ TickPrescale * Tick \in Nat
      BY Periods
    <2> QED
      BY <2>1
  <1>2. Overflows' = Overflows
    BY DEF ByteArrives, Overflows
  <1> QED
    BY <1>1, <1>2 DEF ByteArrives, ClockExact, PendingFresh, SweepBounded, ByteAfterRead

\* Every reachable state satisfies the invariant.
THEOREM TimingInvariant == TimingSpec => []TimingInv
  <1>1. TimingInv /\ UNCHANGED timingVars => TimingInv'
    BY DEF timingVars, TimingInv, TimingTypeOK, ClockExact, Overflows, PendingFresh, SweepBounded, ByteAfterRead
  <1>2. TimingInv /\ [TimingNext]_timingVars => TimingInv'
    BY <1>1, TimePasses, IsrKeeps, LineKeeps DEF TimingNext
  <1> QED
    BY <1>2, TimingStarts, PTL DEF TimingSpec

\* The variables of the timing model keep their types.
THEOREM TimingTypes == TimingSpec => []TimingTypeOK
  <1>1. TimingInv => TimingTypeOK
    BY DEF TimingInv
  <1> QED
    BY <1>1, TimingInvariant, PTL

\* Sweeps of uart_rx_isr start at most TickPrescale Timer0 periods apart, for any
\* period, prescaler and sweep shorter than two periods.
THEOREM CadenceCorrect == TimingSpec => []SteadyCadence
  BY TimingInvariant, Cadence, PTL

\* As the cadence plus the jitter of the read is shorter than a byte on the
\* line (CadenceAssumption), the UARTs lose no byte.
THEOREM NoOverrunCorrect == TimingSpec => []NoOverrun
  <1>1. TimingInit => NoOverrun
    BY DEF TimingInit, NoOverrun
  <1>2. TimingInv /\ NoOverrun /\ [TimingNext]_timingVars => NoOverrun'
    <2> SUFFICES ASSUME TimingInv, NoOverrun, [TimingNext]_timingVars PROVE NoOverrun'
      OBVIOUS
    <2>1. CASE ByteArrives
      BY <2>1, ByteSpaced DEF ByteArrives, NoOverrun
    <2>2. CASE Pass \/ Overflow \/ IsrSkip \/ IsrSweep \/ ReadPort \/ SweepEnds \/ UNCHANGED timingVars
      BY <2>2 DEF Pass, Overflow, IsrSkip, IsrSweep, ReadPort, SweepEnds, timingVars, NoOverrun
    <2> QED
      BY <2>1, <2>2 DEF TimingNext
  <1> QED
    BY <1>1, <1>2, TimingInvariant, PTL DEF TimingSpec

USE NumPortsAssumption, OnchipAssumption, FifoSizeAssumption, OvfMaxAssumption,
    PrescaleAssumption, MaxBytesAssumption

-----------------------------------------------------------------------------
(* The ring arithmetic.                                                    *)

\* Indices stay in the ring.
LEMMA IncType == \A i \in Slots : Inc(i) \in Slots
  BY DEF Inc, Slots

\* A ring holds between 0 and FifoSize - 1 bytes, and 0 only when its
\* indices are equal.
LEMMA CountType ==
    ASSUME NEW h \in Slots, NEW t \in Slots
    PROVE  /\ CountOf(h, t) \in 0 .. FifoSize - 1
           /\ CountOf(h, t) = 0 <=> h = t
           /\ CountOf(h, t) = FifoSize - 1 <=> Inc(h) = t
  BY DEF CountOf, Slots, Inc

\* Storing into a ring that is not full adds one byte, at the slot after
\* the last one, and touches no other slot of the queue.
LEMMA StoreArith ==
    ASSUME NEW h \in Slots, NEW t \in Slots, Inc(h) # t
    PROVE  /\ CountOf(Inc(h), t) = CountOf(h, t) + 1
           /\ At(t, CountOf(h, t)) = h
           /\ \A i \in 0 .. CountOf(h, t) - 1 : At(t, i) \in Slots \ {h}
  BY DEF CountOf, Slots, Inc, At

\* Taking from a ring that is not empty removes one byte, the oldest.
LEMMA TakeArith ==
    ASSUME NEW h \in Slots, NEW t \in Slots, h # t
    PROVE  /\ CountOf(h, Inc(t)) = CountOf(h, t) - 1
           /\ At(t, 0) = t
           /\ \A i \in 0 .. CountOf(h, t) - 2 : At(Inc(t), i) = At(t, i + 1)
           /\ \A i \in 0 .. CountOf(h, t) - 1 : At(t, i) \in Slots
  BY DEF CountOf, Slots, Inc, At

\* What one port's ring memory may hold: bytes of its line, or the 0 it had
\* before the first lap.
Cells == 0 .. MaxBytes
Rings == [Slots -> Cells]

\* The contents of a ring is a sequence over the bytes its slots hold.
LEMMA QueueType ==
    \A f \in Rings, h \in Slots, t \in Slots :
        /\ QueueOf(f, h, t) \in Seq(Cells)
        /\ Len(QueueOf(f, h, t)) = CountOf(h, t)
        /\ \A i \in 1 .. CountOf(h, t) : QueueOf(f, h, t)[i] = f[At(t, i - 1)]
<1> SUFFICES ASSUME NEW f \in Rings, NEW h \in Slots, NEW t \in Slots
             PROVE  /\ QueueOf(f, h, t) \in Seq(Cells)
                    /\ Len(QueueOf(f, h, t)) = CountOf(h, t)
                    /\ \A i \in 1 .. CountOf(h, t) :
                          QueueOf(f, h, t)[i] = f[At(t, i - 1)]
  OBVIOUS
<1>1. CountOf(h, t) \in Nat
  BY CountType
<1>2. \A i \in 1 .. CountOf(h, t) : At(t, i - 1) \in Slots
  BY DEF CountOf, Slots, At
<1>3. QueueOf(f, h, t) \in [1 .. CountOf(h, t) -> Cells]
  BY <1>2 DEF QueueOf, Rings
<1> QED
  BY <1>1, <1>3 DEF QueueOf

\* RX_STORE on a ring that is not full appends to its contents.
LEMMA StoreQueue ==
    ASSUME NEW f \in Rings, NEW h \in Slots, NEW t \in Slots,
           NEW b \in Cells, Inc(h) # t
    PROVE  QueueOf([f EXCEPT ![h] = b], Inc(h), t) = Append(QueueOf(f, h, t), b)
<1> DEFINE g == [f EXCEPT ![h] = b]
           q == QueueOf(f, h, t)
           r == QueueOf(g, Inc(h), t)
           n == CountOf(h, t)
<1>1. g \in Rings /\ Inc(h) \in Slots /\ n \in Nat
  BY IncType, CountType DEF Rings
<1>2. /\ q \in Seq(Cells) /\ Len(q) = n
      /\ \A i \in 1 .. n : q[i] = f[At(t, i - 1)]
  BY QueueType
<1>3. /\ r \in Seq(Cells) /\ Len(r) = n + 1
      /\ \A i \in 1 .. n + 1 : r[i] = g[At(t, i - 1)]
  <2> HIDE DEF g, r, n
  <2>1. CountOf(Inc(h), t) = n + 1
    BY StoreArith DEF n
  <2>2. /\ QueueOf(g, Inc(h), t) \in Seq(Cells)
        /\ Len(QueueOf(g, Inc(h), t)) = CountOf(Inc(h), t)
        /\ \A i \in 1 .. CountOf(Inc(h), t) :
              QueueOf(g, Inc(h), t)[i] = g[At(t, i - 1)]
    BY <1>1, QueueType
  <2> QED
    BY <2>1, <2>2 DEF r
<1>4. /\ At(t, n) = h
      /\ \A i \in 0 .. n - 1 : At(t, i) \in Slots \ {h}
  BY StoreArith
<1>5. g[h] = b /\ \A k \in Slots \ {h} : g[k] = f[k]
  BY DEF Rings
<1> HIDE DEF g, q, r, n
<1>6. Append(q, b) \in Seq(Cells) /\ Len(Append(q, b)) = n + 1
  BY <1>2
<1>7. ASSUME NEW i \in 1 .. n + 1
      PROVE  r[i] = Append(q, b)[i]
  <2>1. CASE i = n + 1
    <3>1. i - 1 = n
      BY <1>1, <2>1
    <3>2. r[i] = b
      BY <1>3, <1>4, <1>5, <3>1
    <3>3. Append(q, b)[i] = b
      BY <1>2, <2>1
    <3> QED
      BY <3>2, <3>3
  <2>2. CASE i \in 1 .. n
    <3>1. i - 1 \in 0 .. n - 1
      BY <1>1, <2>2
    <3>2. r[i] = f[At(t, i - 1)]
      BY <1>3, <1>4, <1>5, <3>1
    <3>3. Append(q, b)[i] = q[i]
      BY <1>2, <2>2
    <3> QED
      BY <1>2, <2>2, <3>2, <3>3
  <2>3. i = n + 1 \/ i \in 1 .. n
    BY <1>1
  <2> QED
    BY <2>1, <2>2, <2>3
<1>8. r = Append(q, b)
  BY <1>1, <1>3, <1>6, <1>7
<1> QED
  BY <1>8 DEF g, q, r

\* uart_rx_dequeue on a ring that is not empty removes the head of its
\* contents, which is the byte at the tail index.
LEMMA TakeQueue ==
    ASSUME NEW f \in Rings, NEW h \in Slots, NEW t \in Slots, h # t
    PROVE  /\ QueueOf(f, h, t) # <<>>
           /\ Head(QueueOf(f, h, t)) = f[t]
           /\ QueueOf(f, h, Inc(t)) = Tail(QueueOf(f, h, t))
<1> DEFINE q == QueueOf(f, h, t)
           r == QueueOf(f, h, Inc(t))
           n == CountOf(h, t)
<1>1. Inc(t) \in Slots /\ n \in Nat /\ n > 0
  BY IncType, CountType
<1>2. /\ q \in Seq(Cells) /\ Len(q) = n
      /\ \A i \in 1 .. n : q[i] = f[At(t, i - 1)]
  BY QueueType
<1>3. /\ r \in Seq(Cells) /\ Len(r) = n - 1
      /\ \A i \in 1 .. n - 1 : r[i] = f[At(Inc(t), i - 1)]
  BY <1>1, QueueType, TakeArith
<1>4. q # <<>> /\ Head(q) = f[t]
  BY <1>1, <1>2, TakeArith
<1>5. Tail(q) \in Seq(Cells) /\ Len(Tail(q)) = n - 1
  BY <1>1, <1>2, <1>4
<1>6. \A i \in 1 .. n - 1 : r[i] = Tail(q)[i]
  <2> SUFFICES ASSUME NEW i \in 1 .. n - 1 PROVE r[i] = Tail(q)[i]
    OBVIOUS
  <2>1. At(Inc(t), i - 1) = At(t, i)
    BY <1>1, TakeArith
  <2>2. Tail(q)[i] = q[i + 1]
    BY <1>1, <1>2, <1>4
  <2>3. q[i + 1] = f[At(t, i)]
    BY <1>1, <1>2
  <2> QED
    BY <1>3, <2>1, <2>2, <2>3
<1> HIDE DEF q, r, n
<1>7. r = Tail(q)
  BY <1>1, <1>3, <1>5, <1>6
<1> QED
  BY <1>4, <1>7 DEF q, r
-----------------------------------------------------------------------------
(* The type invariant.                                                     *)

\* The scan of midi_rx_pump stays within the ports.
LEMMA NextPortType == \A p \in Ports : (p + 1) % NumPorts \in Ports
  BY DEF Ports

\* The sweep moves from a port to the next, or ends.
LEMMA SweepType ==
    /\ \A p \in Ports : p + 1 \in 0 .. NumPorts
    /\ OnChip \subseteq Ports
  BY DEF Ports, OnChip

\* RX_STORE keeps the types of what it writes.
LEMMA StoreType ==
    ASSUME TypeOK, NEW p \in Ports, NEW b \in Cells, RX_STORE(p, b)
    PROVE  /\ rx_fifo' \in [Ports -> Rings]
           /\ rx_fifo_head' \in [Ports -> Slots]
           /\ uart_rx_overflows' \in 0 .. OvfMax
           /\ dropped' \in [Ports -> Nat]
           /\ allDrops' \in Nat
<1>1. CASE Inc(rx_fifo_head[p]) = rx_fifo_tail[p]
  BY <1>1 DEF RX_STORE, TypeOK, Rings, Cells
<1>2. CASE Inc(rx_fifo_head[p]) # rx_fifo_tail[p]
  <2>1. Inc(rx_fifo_head[p]) \in Slots
    BY IncType DEF TypeOK
  <2>2. /\ rx_fifo' = [rx_fifo EXCEPT ![p][rx_fifo_head[p]] = b]
        /\ rx_fifo_head' = [rx_fifo_head EXCEPT ![p] = Inc(rx_fifo_head[p])]
        /\ UNCHANGED <<uart_rx_overflows, dropped, allDrops>>
    BY <1>2 DEF RX_STORE
  <2>3. rx_fifo' \in [Ports -> Rings]
    BY <2>2 DEF TypeOK, Rings, Cells
  <2> QED
    BY <2>1, <2>2, <2>3 DEF TypeOK
<1> QED
  BY <1>1, <1>2

\* No step leaves the types.
LEMMA TypeStep == TypeOK /\ [Next]_vars => TypeOK'
<1> SUFFICES ASSUME TypeOK, [Next]_vars PROVE TypeOK'
  OBVIOUS
<1>1. CASE \E p \in Ports : LineByte(p)
  <2> PICK p \in Ports : LineByte(p)
    BY <1>1
  <2>1. sent[p] + 1 \in 0 .. MaxBytes
    BY DEF TypeOK, LineByte
  <2> QED
    BY <2>1 DEF TypeOK, LineByte, fifoVars, isrVars, mainVars
<1>2. CASE TimerTick
  BY <1>2 DEF TypeOK, TimerTick, IsrIdle, chipVars, fifoVars, mainVars
<1>3. CASE SweepNothing
  BY <1>3, SweepType DEF TypeOK, SweepNothing, chipVars, fifoVars, mainVars
<1>4. CASE SweepExternal
  <2>1. rhr[isrPort] \in Cells /\ isrPort \in Ports
    BY <1>4 DEF SweepExternal, TypeOK, Cells
  <2>2. RX_STORE(isrPort, rhr[isrPort])
    BY <1>4 DEF SweepExternal
  <2>3. /\ rx_fifo' \in [Ports -> Rings]
        /\ rx_fifo_head' \in [Ports -> Slots]
        /\ uart_rx_overflows' \in 0 .. OvfMax
        /\ dropped' \in [Ports -> Nat]
        /\ allDrops' \in Nat
    BY <2>1, <2>2, StoreType
  <2>4. /\ rhr' = [rhr EXCEPT ![isrPort] = 0]
        /\ isrPort' = isrPort + 1
        /\ UNCHANGED <<isrByte, rx_tick_prescale, sent, overrun, mainVars>>
    BY <1>4 DEF SweepExternal
  <2> QED
    BY <2>1, <2>3, <2>4, SweepType DEF TypeOK, Rings, Cells, mainVars
<1>5. CASE SweepOnChipRead
  BY <1>5, SweepType DEF TypeOK, SweepOnChipRead, chipVars, fifoVars, mainVars
<1>6. CASE SweepOnChipStore
  <2>1. isrByte \in Cells /\ isrPort \in Ports
    BY <1>6 DEF SweepOnChipStore, TypeOK, Cells, OnChip, Ports
  <2>2. RX_STORE(isrPort, isrByte)
    BY <1>6 DEF SweepOnChipStore
  <2>3. /\ rx_fifo' \in [Ports -> Rings]
        /\ rx_fifo_head' \in [Ports -> Slots]
        /\ uart_rx_overflows' \in 0 .. OvfMax
        /\ dropped' \in [Ports -> Nat]
        /\ allDrops' \in Nat
    BY <2>1, <2>2, StoreType
  <2>4. /\ rhr' = [rhr EXCEPT ![isrPort] = 0]
        /\ isrByte' = 0
        /\ isrPort' = isrPort + 1
        /\ UNCHANGED <<rx_tick_prescale, sent, overrun, mainVars>>
    BY <1>6 DEF SweepOnChipStore
  <2> QED
    BY <2>1, <2>3, <2>4, SweepType DEF TypeOK, Rings, Cells, mainVars
<1>7. CASE MainNextPort
  BY <1>7, NextPortType DEF TypeOK, MainNextPort, chipVars, fifoVars, isrVars
<1>8. CASE MainAvailable
  BY <1>8 DEF TypeOK, MainAvailable, chipVars, fifoVars, isrVars
<1>9. CASE MainRead
  BY <1>9 DEF TypeOK, MainRead, chipVars, fifoVars, isrVars
<1>10. CASE MainAdvance
  BY <1>10, IncType DEF TypeOK, MainAdvance, chipVars, fifoVars, isrVars
<1>12. CASE UNCHANGED vars
  BY <1>12 DEF TypeOK, vars, chipVars, fifoVars, isrVars, mainVars
<1> QED
  BY <1>1, <1>2, <1>3, <1>4, <1>5, <1>6, <1>7, <1>8, <1>9, <1>10, <1>12
     DEF Next, IsrStep, MainStep

\* Every variable of the capture path has its type: in particular the ring
\* indices stay in the ring and the counter in its byte.
THEOREM TypeCorrect == Spec => []TypeOK
<1>1. Init => TypeOK
  BY DEF Init, TypeOK, Ports, Slots
<1> QED
  BY <1>1, TypeStep, PTL DEF Spec
-----------------------------------------------------------------------------
(* What RX_STORE and uart_rx_dequeue do to the contents of the rings.      *)

\* RX_STORE appends to one queue and counts nothing, or finds it full,
\* drops the byte and counts it; the other queues are left alone.
LEMMA StoreEffect ==
    ASSUME TypeOK, NEW p \in Ports, NEW b \in Cells, RX_STORE(p, b),
           rx_fifo_tail' = rx_fifo_tail
    PROVE  /\ \A o \in Ports \ {p} : Queue(o)' = Queue(o)
           /\ \/ /\ Count(p) < FifoSize - 1
                 /\ Queue(p)' = Append(Queue(p), b)
                 /\ UNCHANGED <<dropped, allDrops, uart_rx_overflows>>
              \/ /\ Count(p) = FifoSize - 1
                 /\ Queue(p)' = Queue(p)
                 /\ dropped' = [dropped EXCEPT ![p] = @ + 1]
                 /\ allDrops' = allDrops + 1
                 /\ uart_rx_overflows' = IF uart_rx_overflows = OvfMax THEN OvfMax
                                         ELSE uart_rx_overflows + 1
<1> DEFINE f == rx_fifo[p]
           h == rx_fifo_head[p]
           t == rx_fifo_tail[p]
<1>1. f \in Rings /\ h \in Slots /\ t \in Slots
  BY DEF TypeOK, Rings, Cells
<1>2. CASE Inc(h) = t
  <2>1. UNCHANGED <<rx_fifo, rx_fifo_head>>
    BY <1>2 DEF RX_STORE
  <2>2. \A o \in Ports : Queue(o)' = Queue(o)
    BY <2>1 DEF Queue
  <2>3. Count(p) = FifoSize - 1
    BY <1>1, <1>2, CountType DEF Count
  <2> QED
    BY <1>2, <2>2, <2>3 DEF RX_STORE
<1>3. CASE Inc(h) # t
  <2>1. /\ rx_fifo' = [rx_fifo EXCEPT ![p][h] = b]
        /\ rx_fifo_head' = [rx_fifo_head EXCEPT ![p] = Inc(h)]
        /\ UNCHANGED <<dropped, allDrops, uart_rx_overflows>>
    BY <1>3 DEF RX_STORE
  <2>2. ASSUME NEW o \in Ports \ {p} PROVE Queue(o)' = Queue(o)
    BY <2>1 DEF Queue, TypeOK
  <2>3. rx_fifo'[p] = [f EXCEPT ![h] = b] /\ rx_fifo_head'[p] = Inc(h)
    BY <2>1 DEF TypeOK
  <2>4. Queue(p)' = Append(Queue(p), b)
    BY <1>1, <1>3, <2>3, StoreQueue DEF Queue
  <2>5. Count(p) < FifoSize - 1
    BY <1>1, <1>3, CountType DEF Count
  <2> QED
    BY <2>1, <2>2, <2>4, <2>5
<1> QED
  BY <1>2, <1>3

\* uart_rx_dequeue takes the head of one queue and leaves the others alone.
LEMMA TakeEffect ==
    ASSUME TypeOK, DequeueSafe, MainAdvance
    PROVE  /\ \A o \in Ports \ {mainPort} : Queue(o)' = Queue(o)
           /\ Queue(mainPort) # <<>>
           /\ mainByte = Head(Queue(mainPort))
           /\ \A p \in {mainPort} : Queue(p)' = Tail(Queue(p))
<1> DEFINE f == rx_fifo[mainPort]
           h == rx_fifo_head[mainPort]
           t == rx_fifo_tail[mainPort]
<1>1. f \in Rings /\ h \in Slots /\ t \in Slots /\ mainPort \in Ports
  BY DEF TypeOK, Rings, Cells
<1>2. /\ h # t /\ mainByte = f[t]
      /\ rx_fifo_tail' = [rx_fifo_tail EXCEPT ![mainPort] = Inc(t)]
      /\ UNCHANGED <<rx_fifo, rx_fifo_head>>
  BY DEF DequeueSafe, MainAdvance, fifoVars
<1>3. \A o \in Ports \ {mainPort} : Queue(o)' = Queue(o)
  BY <1>2 DEF Queue, TypeOK
<1>4. Queue(mainPort) # <<>> /\ mainByte = Head(Queue(mainPort))
  BY <1>1, <1>2, TakeQueue DEF Queue
<1>5. ASSUME NEW p \in {mainPort} PROVE Queue(p)' = Tail(Queue(p))
  <2>1. rx_fifo_tail'[p] = Inc(t)
    BY <1>1, <1>2 DEF TypeOK
  <2> QED
    BY <1>1, <1>2, <2>1, TakeQueue DEF Queue
<1> QED
  BY <1>3, <1>4, <1>5

\* A ring's contents is a sequence as long as its indices say.
LEMMA QueueSeq ==
    TypeOK => \A p \in Ports : Queue(p) \in Seq(Cells) /\ Len(Queue(p)) = Count(p)
<1> SUFFICES ASSUME TypeOK, NEW p \in Ports
             PROVE  Queue(p) \in Seq(Cells) /\ Len(Queue(p)) = Count(p)
  OBVIOUS
<1>1. /\ rx_fifo[p] \in Rings
      /\ rx_fifo_head[p] \in Slots
      /\ rx_fifo_tail[p] \in Slots
  BY DEF TypeOK, Rings, Cells
<1> QED
  BY <1>1, QueueType DEF Queue, Count

\* ... before and after a step.
LEMMA QueueSeqNext ==
    TypeOK' => \A p \in Ports : Len(Queue(p)') = Count(p)'
<1> SUFFICES ASSUME TypeOK', NEW p \in Ports
             PROVE  Len(Queue(p)') = Count(p)'
  OBVIOUS
<1>1. /\ rx_fifo'[p] \in Rings
      /\ rx_fifo_head'[p] \in Slots
      /\ rx_fifo_tail'[p] \in Slots
  BY DEF TypeOK, Rings, Cells
<1> QED
  BY <1>1, QueueType DEF Queue, Count

\* How the order of a line survives a store, a dequeue, a byte lost in the
\* UART, a dropped byte and a new one.
LEMMA ChainAppend ==
    ASSUME NEW q \in Seq(Cells), NEW last \in Nat, NEW r \in Cells, NEW s \in Nat,
           r # 0, Chain(q, last, r, s)
    PROVE  Chain(Append(q, r), last, 0, s)
<1>1. /\ Len(Append(q, r)) = Len(q) + 1
      /\ \A i \in 1 .. Len(q) : Append(q, r)[i] = q[i]
      /\ Append(q, r)[Len(q) + 1] = r
      /\ Len(q) \in Nat
  OBVIOUS
<1>2. ASSUME NEW i \in 1 .. Len(q) + 1
      PROVE  last < Append(q, r)[i] /\ Append(q, r)[i] <= s
  BY <1>1 DEF Chain
<1>3. ASSUME NEW i \in 1 .. Len(q) + 1, NEW j \in 1 .. Len(q) + 1, i < j
      PROVE  Append(q, r)[i] < Append(q, r)[j]
  <2>1. i \in 1 .. Len(q) /\ (j \in 1 .. Len(q) \/ j = Len(q) + 1)
    BY <1>1, <1>3
  <2>2. CASE j = Len(q) + 1
    BY <1>1, <2>1, <2>2 DEF Chain
  <2>3. CASE j \in 1 .. Len(q)
    BY <1>1, <1>3, <2>1, <2>3 DEF Chain
  <2> QED
    BY <2>1, <2>2, <2>3
<1> QED
  BY <1>1, <1>2, <1>3 DEF Chain

\* ... for taking the oldest byte.
LEMMA ChainTail ==
    ASSUME NEW q \in Seq(Cells), NEW last \in Nat, NEW r \in Cells, NEW s \in Nat,
           q # <<>>, Chain(q, last, r, s)
    PROVE  Chain(Tail(q), Head(q), r, s)
<1>1. /\ Len(q) \in Nat /\ Len(q) > 0
      /\ Len(Tail(q)) = Len(q) - 1
      /\ \A i \in 1 .. Len(q) - 1 : Tail(q)[i] = q[i + 1]
      /\ Head(q) = q[1]
      /\ \A i \in 1 .. Len(q) : q[i] \in Nat
  BY DEF Cells
<1>2. ASSUME NEW i \in 1 .. Len(q) - 1
      PROVE  /\ Head(q) < Tail(q)[i] /\ Tail(q)[i] <= s
             /\ r # 0 => Tail(q)[i] < r
  BY <1>1 DEF Chain
<1>3. ASSUME NEW i \in 1 .. Len(q) - 1, NEW j \in 1 .. Len(q) - 1, i < j
      PROVE  Tail(q)[i] < Tail(q)[j]
  <2>1. i + 1 \in 1 .. Len(q) /\ j + 1 \in 1 .. Len(q) /\ i + 1 < j + 1
    BY <1>1, <1>3
  <2>2. q[i + 1] < q[j + 1]
    BY <2>1 DEF Chain
  <2> QED
    BY <1>1, <2>2
<1>4. Head(q) <= s /\ (r # 0 => Head(q) < r)
  BY <1>1 DEF Chain
<1> QED
  BY <1>1, <1>2, <1>3, <1>4 DEF Chain

\* ... for a byte that arrives in an empty, or in a full, UART.
LEMMA ChainLine ==
    ASSUME NEW q \in Seq(Cells), NEW last \in Nat, NEW r \in Nat, NEW s \in Nat,
           Chain(q, last, r, s)
    PROVE  /\ Chain(q, last, 0, s)
           /\ Chain(q, last, r, s + 1)
           /\ Chain(q, last, s + 1, s + 1)
<1>1. \A i \in 1 .. Len(q) : q[i] \in Nat
  BY DEF Cells
<1>2. /\ \A i \in 1 .. Len(q) : last < q[i] /\ q[i] <= s + 1 /\ q[i] < s + 1
      /\ last < s + 1
  BY <1>1 DEF Chain
<1> QED
  BY <1>1, <1>2 DEF Chain

-----------------------------------------------------------------------------
(* The inductive invariant.  Conservation and InOrder are not inductive by *)
(* themselves: that a dequeue removes exactly one byte, the oldest, needs  *)
(* DequeueSafe, and that the ISR stores exactly the flagged byte needs     *)
(* IsrHolds.                                                               *)

CaptureInv ==
    TypeOK /\ IsrHolds /\ DequeueSafe /\ Conservation /\ InOrder /\ OverflowExact

\* The reset capture path satisfies the invariant.
LEMMA InitInv == Init => CaptureInv
<1> SUFFICES ASSUME Init PROVE CaptureInv
  OBVIOUS
<1>1. TypeOK /\ IsrHolds /\ DequeueSafe /\ OverflowExact
  BY DEF Init, TypeOK, IsrHolds, DequeueSafe, OverflowExact, Ports, Slots
<1>2. \A p \in Ports : Count(p) = 0
  BY DEF Init, Count, CountOf
<1>3. Conservation
  BY <1>2 DEF Init, Conservation
<1>4. InOrder
  <2> SUFFICES ASSUME NEW p \in Ports
               PROVE  Chain(Queue(p), lastTaken[p], rhr[p], sent[p])
    BY DEF InOrder
  <2>1. Len(Queue(p)) = 0 /\ lastTaken[p] = 0 /\ rhr[p] = 0 /\ sent[p] = 0
    BY <1>1, <1>2, QueueSeq DEF Init
  <2> QED
    BY <2>1 DEF Chain
<1> QED
  BY <1>1, <1>3, <1>4 DEF CaptureInv

\* A byte completing on a line joins the books as one flagged or overrun
\* byte, and is the newest of its line.
LEMMA LineByteInv ==
    ASSUME CaptureInv, TypeOK', NEW p \in Ports, LineByte(p)
    PROVE  CaptureInv'
<1>1. /\ \A o \in Ports : Queue(o)' = Queue(o) /\ Count(o)' = Count(o)
      /\ UNCHANGED <<isrVars, mainVars, fifoVars>>
  BY DEF LineByte, fifoVars, mainVars, Queue, Count
<1>2. CaptureInv /\ TypeOK
  BY DEF CaptureInv
<1>3. \A o \in Ports \ {p} : UNCHANGED <<sent[o], rhr[o], overrun[o]>>
  BY <1>2 DEF LineByte, TypeOK
<1>4. /\ sent'[p] = sent[p] + 1
      /\ rhr'[p] = rhr[p] \/ rhr'[p] = sent[p] + 1
      /\ rhr'[p] # 0
      /\ rhr[p] = 0 => overrun'[p] = overrun[p]
      /\ rhr[p] # 0 => overrun'[p] = overrun[p] + 1
  BY <1>2 DEF LineByte, TypeOK
<1>5. IsrHolds'
  <2>1. \A o \in OnChip : rhr[o] # 0 => rhr'[o] = rhr[o]
    BY <1>2, <1>3, SweepType DEF LineByte, TypeOK
  <2> QED
    BY <1>1, <1>2, <2>1 DEF CaptureInv, IsrHolds, isrVars
<1>6. DequeueSafe' /\ OverflowExact'
  BY <1>1, <1>2 DEF CaptureInv, DequeueSafe, OverflowExact, fifoVars, mainVars
<1>7. Conservation'
  <2>1. \A o \in Ports :
            /\ sent[o] \in Nat /\ taken[o] \in Nat /\ dropped[o] \in Nat
            /\ overrun[o] \in Nat /\ Count(o) \in Nat
    BY <1>2, CountType DEF TypeOK, Count
  <2> QED
    BY <1>1, <1>2, <1>3, <1>4, <2>1
       DEF CaptureInv, Conservation, fifoVars, mainVars
<1>8. InOrder'
  <2> SUFFICES ASSUME NEW o \in Ports
               PROVE  Chain(Queue(o), lastTaken[o], rhr'[o], sent'[o])
    BY <1>1 DEF InOrder, mainVars
  <2>1. Queue(o) \in Seq(Cells) /\ Chain(Queue(o), lastTaken[o], rhr[o], sent[o])
    BY <1>2, QueueSeq DEF CaptureInv, InOrder
  <2>a. lastTaken[o] \in Nat /\ rhr[o] \in Nat /\ sent[o] \in Nat
    BY <1>2 DEF TypeOK
  <2>2. CASE o # p
    BY <1>3, <2>1, <2>2
  <2>3. CASE o = p
    BY <1>4, <2>1, <2>a, <2>3, ChainLine
  <2> QED
    BY <2>2, <2>3
<1> QED
  BY <1>5, <1>6, <1>7, <1>8 DEF CaptureInv

\* The store of the flagged byte moves it from the UART to the ring, or to
\* the dropped bytes; a dequeue in progress at the same port is not disturbed.
LEMMA StoreInv ==
    ASSUME CaptureInv, TypeOK', isrPort \in Ports, rhr[isrPort] # 0,
           RX_STORE(isrPort, rhr[isrPort]),
           rhr' = [rhr EXCEPT ![isrPort] = 0], isrByte' = 0,
           UNCHANGED <<sent, overrun, mainVars>>
    PROVE  CaptureInv'
<1> DEFINE p == isrPort
           b == rhr[isrPort]
<1>1. TypeOK /\ b \in Cells /\ p \in Ports /\ UNCHANGED rx_fifo_tail
  BY DEF CaptureInv, TypeOK, Cells, mainVars
<1>2. /\ \A o \in Ports \ {p} : Queue(o)' = Queue(o)
      /\ \/ /\ Count(p) < FifoSize - 1
            /\ \A o \in {p} : Queue(o)' = Append(Queue(o), b)
            /\ UNCHANGED <<dropped, allDrops, uart_rx_overflows>>
         \/ /\ Count(p) = FifoSize - 1
            /\ \A o \in {p} : Queue(o)' = Queue(o)
            /\ dropped' = [dropped EXCEPT ![p] = @ + 1]
            /\ allDrops' = allDrops + 1
            /\ uart_rx_overflows' = IF uart_rx_overflows = OvfMax THEN OvfMax
                                    ELSE uart_rx_overflows + 1
  <2> SUFFICES ASSUME NEW o1 \in Ports, o1 = p
               PROVE /\ \A o \in Ports \ {o1} : Queue(o)' = Queue(o)
                     /\ \/ /\ Count(o1) < FifoSize - 1
                           /\ Queue(o1)' = Append(Queue(o1), b)
                           /\ UNCHANGED <<dropped, allDrops, uart_rx_overflows>>
                        \/ /\ Count(o1) = FifoSize - 1
                           /\ Queue(o1)' = Queue(o1)
                           /\ dropped' = [dropped EXCEPT ![o1] = @ + 1]
                           /\ allDrops' = allDrops + 1
                           /\ uart_rx_overflows' = IF uart_rx_overflows = OvfMax THEN OvfMax
                                                   ELSE uart_rx_overflows + 1
    BY <1>1
  <2> QED
    BY <1>1, StoreEffect
<1>3. \A o \in Ports : /\ Queue(o) \in Seq(Cells)
                       /\ Len(Queue(o)) = Count(o)
                       /\ Len(Queue(o)') = Count(o)'
  BY <1>1, QueueSeq, QueueSeqNext
<1>4. /\ \A o \in Ports \ {p} : rhr'[o] = rhr[o] /\ dropped'[o] = dropped[o]
      /\ rhr'[p] = 0
  BY <1>1, <1>2 DEF TypeOK
<1>5. IsrHolds' /\ OverflowExact'
  <2>1. IsrHolds'
    BY DEF IsrHolds
  <2>2. OverflowExact'
    <3>1. /\ uart_rx_overflows = (IF allDrops < OvfMax THEN allDrops
                                  ELSE OvfMax)
          /\ allDrops \in Nat
      BY <1>1 DEF CaptureInv, OverflowExact, TypeOK
    <3>2. \/ UNCHANGED <<allDrops, uart_rx_overflows>>
          \/ /\ allDrops' = allDrops + 1
             /\ uart_rx_overflows' = IF uart_rx_overflows = OvfMax THEN OvfMax
                                     ELSE uart_rx_overflows + 1
      BY <1>2
    <3> QED
      BY <3>1, <3>2 DEF OverflowExact
  <2> QED
    BY <2>1, <2>2
<1>6. DequeueSafe'
  <2>1. CASE Inc(rx_fifo_head[p]) = rx_fifo_tail[p]
    BY <2>1 DEF CaptureInv, RX_STORE, DequeueSafe, mainVars
  <2>2. CASE Inc(rx_fifo_head[p]) # rx_fifo_tail[p]
    <3>1. /\ rx_fifo' = [rx_fifo EXCEPT ![p][rx_fifo_head[p]] = b]
          /\ rx_fifo_head' = [rx_fifo_head EXCEPT ![p] = Inc(rx_fifo_head[p])]
          /\ UNCHANGED <<mainPort, mainPc, mainByte, rx_fifo_tail>>
      BY <2>2 DEF RX_STORE, mainVars
    <3>2. \A o \in Ports : rx_fifo_head[o] # rx_fifo_tail[o]
              => /\ rx_fifo_head'[o] # rx_fifo_tail[o]
                 /\ rx_fifo'[o][rx_fifo_tail[o]] = rx_fifo[o][rx_fifo_tail[o]]
      BY <1>1, <2>2, <3>1 DEF TypeOK
    <3>3. mainPort \in Ports
      BY <1>1 DEF TypeOK
    <3> QED
      BY <3>1, <3>2, <3>3 DEF CaptureInv, DequeueSafe
  <2> QED
    BY <2>1, <2>2
<1>7. Conservation'
  <2> SUFFICES ASSUME NEW o \in Ports
               PROVE  sent[o] = taken[o] + Count(o)' + (IF rhr'[o] = 0 THEN 0 ELSE 1)
                                + dropped'[o] + overrun[o]
    BY DEF Conservation, mainVars
  <2>1. /\ sent[o] \in Nat /\ taken[o] \in Nat /\ dropped[o] \in Nat
        /\ overrun[o] \in Nat /\ Count(o) \in Nat
        /\ sent[o] = taken[o] + Count(o) + (IF rhr[o] = 0 THEN 0 ELSE 1)
                     + dropped[o] + overrun[o]
    BY <1>1, CountType DEF TypeOK, Count, CaptureInv, Conservation
  <2>2. CASE o # p
    BY <1>2, <1>3, <1>4, <2>1, <2>2
  <2>3. CASE o = p /\ Count(p) < FifoSize - 1
    <3>1. Queue(o)' = Append(Queue(o), b) /\ dropped' = dropped
      BY <1>1, <1>2, <2>1, <2>3
    <3>2. Count(o)' = Count(o) + 1
      BY <1>1, <1>3, <3>1
    <3>3. rhr[o] # 0 /\ rhr'[o] = 0 /\ dropped'[o] = dropped[o]
      BY <1>4, <2>3, <3>1
    <3> QED
      BY <2>1, <3>2, <3>3
  <2>4. CASE o = p /\ Count(p) = FifoSize - 1
    <3>1. Queue(o)' = Queue(o) /\ dropped'[o] = dropped[o] + 1
      BY <1>1, <1>2, <2>1, <2>4 DEF TypeOK
    <3>2. Count(o)' = Count(o)
      BY <1>3, <3>1
    <3> QED
      BY <1>4, <2>1, <2>4, <3>1, <3>2
  <2> QED
    BY <1>2, <2>2, <2>3, <2>4
<1>8. InOrder'
  <2> SUFFICES ASSUME NEW o \in Ports
               PROVE  Chain(Queue(o)', lastTaken[o], rhr'[o], sent[o])
    BY DEF InOrder, mainVars
  <2>1. Queue(o) \in Seq(Cells) /\ Chain(Queue(o), lastTaken[o], rhr[o], sent[o])
    BY <1>3 DEF CaptureInv, InOrder
  <2>2. lastTaken[o] \in Nat /\ rhr[o] \in Nat /\ rhr[o] \in Cells /\ sent[o] \in Nat
    BY <1>1 DEF TypeOK, Cells
  <2>3. CASE o # p
    BY <1>2, <1>4, <2>1, <2>3
  <2>4. CASE o = p /\ Queue(o)' = Append(Queue(o), b)
    BY <1>4, <2>1, <2>2, <2>4, ChainAppend
  <2>5. CASE o = p /\ Queue(o)' = Queue(o)
    BY <1>4, <2>1, <2>2, <2>5, ChainLine
  <2> QED
    BY <1>2, <2>3, <2>4, <2>5
<1> QED
  BY <1>5, <1>6, <1>7, <1>8 DEF CaptureInv

\* A dequeue moves the oldest byte of one ring to the bridge.
LEMMA TakeInv ==
    ASSUME CaptureInv, TypeOK', MainAdvance
    PROVE  CaptureInv'
<1> DEFINE p == mainPort
<1>1. TypeOK /\ DequeueSafe /\ p \in Ports
  BY DEF CaptureInv, TypeOK
<1>2. /\ \A o \in Ports \ {p} : Queue(o)' = Queue(o)
      /\ Queue(p) # <<>>
      /\ mainByte = Head(Queue(p))
      /\ \A o \in {p} : Queue(o)' = Tail(Queue(o))
  BY <1>1, TakeEffect
<1>3. \A o \in Ports : /\ Queue(o) \in Seq(Cells)
                       /\ Len(Queue(o)) = Count(o)
                       /\ Len(Queue(o)') = Count(o)'
  BY <1>1, QueueSeq, QueueSeqNext
<1>4. /\ \A o \in Ports \ {p} : taken'[o] = taken[o] /\ lastTaken'[o] = lastTaken[o]
      /\ taken'[p] = taken[p] + 1
      /\ lastTaken'[p] = mainByte
      /\ UNCHANGED <<chipVars, fifoVars, isrVars>>
      /\ mainPc' = "check"
  BY <1>1 DEF MainAdvance, TypeOK
<1>5. IsrHolds' /\ OverflowExact' /\ DequeueSafe'
  BY <1>4 DEF CaptureInv, IsrHolds, OverflowExact, DequeueSafe, isrVars, chipVars, fifoVars
<1>6. Conservation'
  <2> SUFFICES ASSUME NEW o \in Ports
               PROVE  sent[o] = taken'[o] + Count(o)' + (IF rhr[o] = 0 THEN 0 ELSE 1)
                                + dropped[o] + overrun[o]
    BY <1>4 DEF Conservation, chipVars, fifoVars
  <2>1. /\ sent[o] \in Nat /\ taken[o] \in Nat /\ dropped[o] \in Nat
        /\ overrun[o] \in Nat /\ Count(o) \in Nat
        /\ sent[o] = taken[o] + Count(o) + (IF rhr[o] = 0 THEN 0 ELSE 1)
                     + dropped[o] + overrun[o]
    BY <1>1, CountType DEF TypeOK, Count, CaptureInv, Conservation
  <2>2. CASE o # p
    BY <1>2, <1>3, <1>4, <2>1, <2>2
  <2>3. CASE o = p
    <3>1. Len(Tail(Queue(o))) = Len(Queue(o)) - 1
      BY <1>2, <1>3, <2>3
    <3>2. Count(o)' = Count(o) - 1
      BY <1>2, <1>3, <2>3, <3>1
    <3> QED
      BY <1>4, <2>1, <2>3, <3>2
  <2> QED
    BY <2>2, <2>3
<1>7. InOrder'
  <2> SUFFICES ASSUME NEW o \in Ports
               PROVE  Chain(Queue(o)', lastTaken'[o], rhr[o], sent[o])
    BY <1>4 DEF InOrder, chipVars
  <2>1. Queue(o) \in Seq(Cells) /\ Chain(Queue(o), lastTaken[o], rhr[o], sent[o])
    BY <1>3 DEF CaptureInv, InOrder
  <2>2. lastTaken[o] \in Nat /\ rhr[o] \in Cells /\ sent[o] \in Nat
    BY <1>1 DEF TypeOK, Cells
  <2>3. CASE o # p
    BY <1>2, <1>4, <2>1, <2>3
  <2>4. CASE o = p
    BY <1>2, <1>4, <2>1, <2>2, <2>4, ChainTail
  <2> QED
    BY <2>3, <2>4
<1> QED
  BY <1>5, <1>6, <1>7 DEF CaptureInv

\* Every step keeps the inductive invariant.
LEMMA StepInv == CaptureInv /\ [Next]_vars => CaptureInv'
<1> SUFFICES ASSUME CaptureInv, [Next]_vars PROVE CaptureInv'
  OBVIOUS
<1>0. TypeOK /\ TypeOK'
  BY TypeStep DEF CaptureInv
<1>1. CASE \E p \in Ports : LineByte(p)
  BY <1>0, <1>1, LineByteInv
<1>2. CASE SweepExternal
  <2>1. isrByte' = 0
    BY <1>2 DEF SweepExternal, CaptureInv, IsrHolds
  <2> QED
    BY <1>0, <1>2, <2>1, StoreInv DEF SweepExternal
<1>3. CASE SweepOnChipStore
  <2>1. rhr[isrPort] = isrByte /\ isrPort \in Ports
    BY <1>3, SweepType DEF SweepOnChipStore, CaptureInv, IsrHolds
  <2> QED
    BY <1>0, <1>3, <2>1, StoreInv DEF SweepOnChipStore
<1>4. CASE MainAdvance
  BY <1>0, <1>4, TakeInv
\* The other steps touch neither the rings nor the books.
<1>5. ASSUME UNCHANGED <<rx_fifo, rx_fifo_head, rx_fifo_tail, rhr, sent, overrun,
                         dropped, taken, lastTaken>>,
             IsrHolds', DequeueSafe', OverflowExact'
      PROVE  CaptureInv'
  <2>1. \A p \in Ports : Count(p)' = Count(p) /\ Queue(p)' = Queue(p)
    BY <1>5 DEF Count, Queue
  <2>2. Conservation'
    BY <1>5, <2>1 DEF CaptureInv, Conservation
  <2>3. InOrder'
    BY <1>5, <2>1 DEF CaptureInv, InOrder
  <2> QED
    BY <1>0, <1>5, <2>2, <2>3 DEF CaptureInv
<1>6. CASE TimerTick
  <2>1. IsrHolds' /\ DequeueSafe' /\ OverflowExact'
    <3>1. isrByte = 0
      BY <1>0, <1>6 DEF TimerTick, IsrIdle, CaptureInv, IsrHolds, OnChip, Ports
    <3> QED
      BY <1>6, <3>1 DEF TimerTick, CaptureInv, IsrHolds, DequeueSafe, OverflowExact,
                        chipVars, fifoVars, mainVars
  <2> QED
    BY <1>5, <1>6, <2>1 DEF TimerTick, chipVars, fifoVars, mainVars
<1>7. CASE SweepNothing
  <2>1. IsrHolds' /\ DequeueSafe' /\ OverflowExact'
    BY <1>7 DEF SweepNothing, CaptureInv, IsrHolds, DequeueSafe, OverflowExact,
                chipVars, fifoVars, mainVars
  <2> QED
    BY <1>5, <1>7, <2>1 DEF SweepNothing, chipVars, fifoVars, mainVars
<1>8. CASE SweepOnChipRead
  <2>1. IsrHolds' /\ DequeueSafe' /\ OverflowExact'
    BY <1>8 DEF SweepOnChipRead, CaptureInv, IsrHolds, DequeueSafe, OverflowExact,
                chipVars, fifoVars, mainVars
  <2> QED
    BY <1>5, <1>8, <2>1 DEF SweepOnChipRead, chipVars, fifoVars, mainVars
<1>9. CASE MainNextPort
  <2>1. IsrHolds' /\ DequeueSafe' /\ OverflowExact'
    BY <1>9 DEF MainNextPort, CaptureInv, IsrHolds, DequeueSafe, OverflowExact,
                chipVars, fifoVars, isrVars
  <2> QED
    BY <1>5, <1>9, <2>1 DEF MainNextPort, chipVars, fifoVars
<1>10. CASE MainAvailable
  <2>1. IsrHolds' /\ DequeueSafe' /\ OverflowExact'
    BY <1>10 DEF MainAvailable, CaptureInv, IsrHolds, DequeueSafe, OverflowExact,
                 chipVars, fifoVars, isrVars
  <2> QED
    BY <1>5, <1>10, <2>1 DEF MainAvailable, chipVars, fifoVars
<1>11. CASE MainRead
  <2>1. IsrHolds' /\ DequeueSafe' /\ OverflowExact'
    BY <1>11 DEF MainRead, CaptureInv, IsrHolds, DequeueSafe, OverflowExact,
                 chipVars, fifoVars, isrVars
  <2> QED
    BY <1>5, <1>11, <2>1 DEF MainRead, chipVars, fifoVars
<1>13. CASE UNCHANGED vars
  <2>1. IsrHolds' /\ DequeueSafe' /\ OverflowExact'
    BY <1>13 DEF vars, CaptureInv, IsrHolds, DequeueSafe, OverflowExact,
                 chipVars, fifoVars, isrVars, mainVars
  <2> QED
    BY <1>5, <1>13, <2>1 DEF vars, chipVars, fifoVars, mainVars
<1> QED
  BY <1>1, <1>2, <1>3, <1>4, <1>6, <1>7, <1>8, <1>9, <1>10, <1>11, <1>13
     DEF Next, IsrStep, MainStep

\* Every reachable state of the capture path satisfies the invariant.
THEOREM CaptureInvariant == Spec => []CaptureInv
  BY InitInv, StepInv, PTL DEF Spec

\* No byte the UART flagged is lost or handed over twice by the unlocked
\* single-producer single-consumer ring: each is in the bridge, in the ring,
\* in the UART, or counted as dropped.
THEOREM ConservationCorrect == Spec => []Conservation
<1>1. CaptureInv => Conservation
  BY DEF CaptureInv
<1> QED
  BY <1>1, CaptureInvariant, PTL

\* The bytes of a line reach the bridge in the order they came in.
THEOREM OrderCorrect == Spec => []InOrder
<1>1. CaptureInv => InOrder
  BY DEF CaptureInv
<1> QED
  BY <1>1, CaptureInvariant, PTL

\* The ISR never takes away or overwrites the slot the main loop is reading.
THEOREM DequeueCorrect == Spec => []DequeueSafe
<1>1. CaptureInv => DequeueSafe
  BY DEF CaptureInv
<1> QED
  BY <1>1, CaptureInvariant, PTL

\* The overflow counter is exact up to its saturation.
THEOREM OverflowCorrect == Spec => []OverflowExact
<1>1. CaptureInv => OverflowExact
  BY DEF CaptureInv
<1> QED
  BY <1>1, CaptureInvariant, PTL

-----------------------------------------------------------------------------
(* The refinement: each step of the code is a step of the byte queue, or   *)
(* none.  A store is Capture or Drop at the ISR's port, the move of the    *)
(* tail index is Deliver.                                                  *)

\* Steps that leave rings, delivered bytes and counter alone stutter.
LEMMA StutterRefines ==
    ASSUME UNCHANGED <<rx_fifo, rx_fifo_head, rx_fifo_tail, lastTaken,
                       uart_rx_overflows>>
    PROVE  UNCHANGED Fifo!fifoVars
<1>1. \A p \in Ports : Queue(p)' = Queue(p)
  BY DEF Queue
<1> QED
  BY <1>1 DEF Fifo!fifoVars

\* RX_STORE of the flagged byte is Capture or Drop.
LEMMA StoreRefines ==
    ASSUME CaptureInv, NEW p \in Ports, NEW b \in Cells, b # 0, RX_STORE(p, b),
           rx_fifo_tail' = rx_fifo_tail, lastTaken' = lastTaken
    PROVE  Fifo!Capture(p, b) \/ Fifo!Drop(p)
<1> DEFINE queues == [o \in Ports |-> Queue(o)]
<1>1. TypeOK
  BY DEF CaptureInv
<1>2. /\ \A o \in Ports \ {p} : Queue(o)' = Queue(o)
      /\ \/ /\ Count(p) < FifoSize - 1
            /\ Queue(p)' = Append(Queue(p), b)
            /\ UNCHANGED <<dropped, allDrops, uart_rx_overflows>>
         \/ /\ Count(p) = FifoSize - 1
            /\ Queue(p)' = Queue(p)
            /\ uart_rx_overflows' = IF uart_rx_overflows = OvfMax THEN OvfMax
                                    ELSE uart_rx_overflows + 1
  BY <1>1, StoreEffect
<1>3. queues[p] = Queue(p) /\ Len(queues[p]) = Count(p)
  BY <1>1, QueueSeq
<1>4. CASE /\ Count(p) < FifoSize - 1
           /\ Queue(p)' = Append(Queue(p), b)
           /\ UNCHANGED <<dropped, allDrops, uart_rx_overflows>>
  <2>1. queues' = [queues EXCEPT ![p] = Append(@, b)]
    BY <1>2, <1>4
  <2> QED
    BY <1>3, <1>4, <2>1 DEF Fifo!Capture
<1>5. CASE /\ Count(p) = FifoSize - 1
           /\ Queue(p)' = Queue(p)
           /\ uart_rx_overflows' = IF uart_rx_overflows = OvfMax THEN OvfMax
                                   ELSE uart_rx_overflows + 1
  <2>1. queues' = queues
    BY <1>2, <1>5
  <2> QED
    BY <1>3, <1>5, <2>1 DEF Fifo!Drop
<1> QED
  BY <1>2, <1>4, <1>5

\* The end of uart_rx_dequeue is Deliver.
LEMMA TakeRefines ==
    ASSUME CaptureInv, MainAdvance
    PROVE  Fifo!Deliver(mainPort)
<1> DEFINE queues == [o \in Ports |-> Queue(o)]
           p == mainPort
<1>1. TypeOK /\ DequeueSafe /\ p \in Ports
  BY DEF CaptureInv, TypeOK
<1>2. /\ \A o \in Ports \ {p} : Queue(o)' = Queue(o)
      /\ Queue(p) # <<>>
      /\ mainByte = Head(Queue(p))
      /\ \A o \in {p} : Queue(o)' = Tail(Queue(o))
  BY <1>1, TakeEffect
<1>3. queues' = [queues EXCEPT ![p] = Tail(@)]
  BY <1>1, <1>2
<1>4. /\ lastTaken' = [lastTaken EXCEPT ![p] = mainByte]
      /\ UNCHANGED uart_rx_overflows
  BY DEF MainAdvance, fifoVars
<1> QED
  BY <1>1, <1>2, <1>3, <1>4 DEF Fifo!Deliver

\* Every step of the capture path is a step of the byte queue or stutters.
LEMMA StepRefines ==
    CaptureInv /\ [Next]_vars => [Fifo!Next]_(Fifo!fifoVars)
<1> SUFFICES ASSUME CaptureInv, [Next]_vars PROVE [Fifo!Next]_(Fifo!fifoVars)
  OBVIOUS
<1>1. CASE SweepExternal
  <2>1. isrPort \in Ports /\ rhr[isrPort] \in Cells /\ rhr[isrPort] # 0
    BY <1>1 DEF SweepExternal, CaptureInv, TypeOK, Cells
  <2>2. Fifo!Capture(isrPort, rhr[isrPort]) \/ Fifo!Drop(isrPort)
    BY <1>1, <2>1, StoreRefines DEF SweepExternal, mainVars
  <2> QED
    BY <2>1, <2>2 DEF Fifo!Next, Cells, Serials
<1>2. CASE SweepOnChipStore
  <2>1. isrPort \in Ports /\ isrByte \in Cells /\ isrByte # 0
    BY <1>2, SweepType DEF SweepOnChipStore, CaptureInv, TypeOK, Cells
  <2>2. Fifo!Capture(isrPort, isrByte) \/ Fifo!Drop(isrPort)
    BY <1>2, <2>1, StoreRefines DEF SweepOnChipStore, mainVars
  <2> QED
    BY <2>1, <2>2 DEF Fifo!Next, Cells, Serials
<1>3. CASE MainAdvance
  <2>1. mainPort \in Ports
    BY DEF CaptureInv, TypeOK
  <2> QED
    BY <1>3, <2>1, TakeRefines DEF Fifo!Next
<1>5. CASE UNCHANGED <<rx_fifo, rx_fifo_head, rx_fifo_tail, lastTaken,
                       uart_rx_overflows>>
  BY <1>5, StutterRefines
<1>6. CASE \E p \in Ports : LineByte(p)
  BY <1>5, <1>6 DEF LineByte, fifoVars, mainVars
<1>7. CASE TimerTick \/ SweepNothing \/ SweepOnChipRead
  BY <1>5, <1>7 DEF TimerTick, SweepNothing, SweepOnChipRead, fifoVars, mainVars
<1>8. CASE MainNextPort \/ MainAvailable \/ MainRead
  BY <1>5, <1>8 DEF MainNextPort, MainAvailable, MainRead, fifoVars
<1>9. CASE UNCHANGED vars
  BY <1>5, <1>9 DEF vars, fifoVars, mainVars
<1> QED
  BY <1>1, <1>2, <1>3, <1>6, <1>7, <1>8, <1>9 DEF Next, IsrStep, MainStep

\* The capture path of uart.c, with its preemptions, implements a plain
\* bounded queue per port whose only loss is a counted drop when it is full.
THEOREM CaptureImplementsByteFifo == Spec => ImplementsByteFifo
<1>1. Init => Fifo!Init
  <2> SUFFICES ASSUME Init PROVE Fifo!Init
    OBVIOUS
  <2>1. TypeOK
    BY InitInv DEF CaptureInv
  <2>2. \A p \in Ports : Queue(p) = <<>>
    BY <2>1, QueueSeq DEF Init, Count, CountOf
  <2> QED
    BY <2>2 DEF Init, Fifo!Init
<1> QED
  BY <1>1, StepRefines, CaptureInvariant, PTL DEF Spec, ImplementsByteFifo, Fifo!Spec
=============================================================================
