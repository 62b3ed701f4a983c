----------------------------- MODULE RxCapture ------------------------------
(***************************************************************************)
(* The RX capture path of firmware/uart.c: the high-priority Timer0 ISR    *)
(* (uart_rx_isr) moves each port's received byte from the UART into a      *)
(* per-port ring, and the main loop (uart_rx_available, uart_rx_dequeue as *)
(* midi_rx_pump calls them) takes it out, with no lock.  Nothing clears    *)
(* the overflow counter: UsbControl shows that no request gets there.      *)
(*                                                                         *)
(* Who preempts whom: the Timer0 ISR has high priority (PT0 = 1), so it    *)
(* runs to completion while the main loop stands still; only the UART      *)
(* hardware moves under it.  The main loop is split at every access to a   *)
(* shared index.                                                           *)
(*                                                                         *)
(* A byte is named by its serial number on its line, so that a lost, a     *)
(* repeated or a reordered byte can be told; the code only copies bytes.   *)
(***************************************************************************)
EXTENDS Integers, Sequences

CONSTANTS
    NumPorts,       \* NUM_MIDI_PORTS
    OnchipFirst,    \* BOARD_ONCHIP_PORT_FIRST: from here on, on-chip UARTs
    FifoSize,       \* MIDEX_RX_FIFO_SIZE; one slot is reserved
    OvfMax,         \* 0xFF
    Prescale,       \* BOARD_T0_PRESCALE
    MaxBytes        \* bound of the instance: bytes each line delivers

ASSUME NumPortsAssumption == NumPorts \in Nat \ {0}
ASSUME OnchipAssumption   == OnchipFirst \in 0 .. NumPorts
ASSUME FifoSizeAssumption == FifoSize \in Nat /\ FifoSize >= 2
ASSUME OvfMaxAssumption   == OvfMax \in Nat \ {0}
ASSUME PrescaleAssumption == Prescale \in Nat \ {0}
ASSUME MaxBytesAssumption == MaxBytes \in Nat

VARIABLES
    rhr,                \* rhr[p]: byte in RHR / SBUF while DR / RI is set, else 0
    isrPort,            \* port the ISR's sweep is at; NumPorts: not running
    isrByte,            \* the ISR's local b, read and not yet stored; 0: none
    rx_tick_prescale,
    rx_fifo, rx_fifo_head, rx_fifo_tail,
    uart_rx_overflows,
    mainPort, mainPc, mainByte,  \* midi_rx_pump: its p, where it is, its byte
    rxRoom,             \* rx_ring_count() leaves room for another packet
    \* History, read by no action's guard but the bound of LineByte:
    sent,               \* bytes each line has delivered to its UART
    overrun,            \* bytes lost in the UART, before the firmware saw them
    dropped,            \* bytes RX_STORE dropped
    allDrops,           \* ... on all ports together
    taken, lastTaken    \* how many bytes the bridge got, and the last of them

chipVars == <<rhr, sent, overrun>>
fifoVars == <<rx_fifo, rx_fifo_head, uart_rx_overflows, dropped, allDrops>>
isrVars  == <<isrPort, isrByte, rx_tick_prescale>>
mainVars == <<mainPort, mainPc, mainByte, rxRoom, rx_fifo_tail, taken, lastTaken>>
vars     == <<chipVars, fifoVars, isrVars, mainVars>>

Ports   == 0 .. NumPorts - 1
OnChip  == OnchipFirst .. NumPorts - 1
Slots   == 0 .. FifoSize - 1
Serials == 1 .. MaxBytes

\* Mutant of Inc: the index mask forgotten.
Inc_NoMask(i) == i + 1

\* Ring indices: (uint8_t)(i + 1) & RX_FIFO_MASK for i in Slots.
Inc(i) == IF i + 1 = FifoSize THEN 0 ELSE i + 1

IsrIdle == isrPort = NumPorts

\* uart_rx_reset, then uart_rx_start.  XDATA is not cleared: 0 in a slot
\* stands for whatever was there, and is no byte of any line.
Init ==
    /\ rhr = [p \in Ports |-> 0]
    /\ isrPort = NumPorts /\ isrByte = 0 /\ rx_tick_prescale = 1
    /\ rx_fifo = [p \in Ports |-> [s \in Slots |-> 0]]
    /\ rx_fifo_head = [p \in Ports |-> 0]
    /\ rx_fifo_tail = [p \in Ports |-> 0]
    /\ uart_rx_overflows = 0
    /\ mainPort = 0 /\ mainPc = "check" /\ mainByte = 0 /\ rxRoom = TRUE
    /\ sent = [p \in Ports |-> 0]
    /\ overrun = [p \in Ports |-> 0]
    /\ dropped = [p \in Ports |-> 0]
    /\ allDrops = 0
    /\ taken = [p \in Ports |-> 0]
    /\ lastTaken = [p \in Ports |-> 0]

-----------------------------------------------------------------------------
(* The UART hardware: a byte completes on line p.  With the previous one   *)
(* still unread an external UART overwrites RHR, an on-chip UART drops the *)
(* new byte (it loads SBUF only while RI is 0).                            *)
LineByte(p) ==
    /\ sent[p] < MaxBytes
    /\ sent' = [sent EXCEPT ![p] = @ + 1]
    /\ rhr' = IF p \in OnChip /\ rhr[p] # 0 THEN rhr
              ELSE [rhr EXCEPT ![p] = sent[p] + 1]
    /\ overrun' = IF rhr[p] = 0 THEN overrun ELSE [overrun EXCEPT ![p] = @ + 1]
    /\ UNCHANGED <<fifoVars, isrVars, mainVars>>

-----------------------------------------------------------------------------
(* uart_rx_isr.                                                            *)

\* A Timer0 interrupt: an early return, or the start of a sweep.
TimerTick ==
    /\ IsrIdle
    /\ IF rx_tick_prescale - 1 # 0
       THEN rx_tick_prescale' = rx_tick_prescale - 1 /\ UNCHANGED isrPort
       ELSE rx_tick_prescale' = Prescale /\ isrPort' = 0
    /\ UNCHANGED <<isrByte, chipVars, fifoVars, mainVars>>

\* Mutant of RX_STORE: no test for a full ring.
RX_STORE_NoFullTest(p, b) ==
    /\ rx_fifo' = [rx_fifo EXCEPT ![p][rx_fifo_head[p]] = b]
    /\ rx_fifo_head' = [rx_fifo_head EXCEPT ![p] = Inc(@)]
    /\ UNCHANGED <<uart_rx_overflows, dropped, allDrops>>

\* Mutant of RX_STORE: the index is advanced before the slot is written.
RX_STORE_WrongSlot(p, b) ==
    LET head == Inc(rx_fifo_head[p]) IN
    /\ head # rx_fifo_tail[p]
    /\ rx_fifo' = [rx_fifo EXCEPT ![p][head] = b]
    /\ rx_fifo_head' = [rx_fifo_head EXCEPT ![p] = head]
    /\ UNCHANGED <<uart_rx_overflows, dropped, allDrops>>

\* Mutant of RX_STORE: the counter wraps to 0 instead of saturating.
RX_STORE_Wraps(p, b) ==
    IF Inc(rx_fifo_head[p]) = rx_fifo_tail[p]
    THEN /\ uart_rx_overflows' = (uart_rx_overflows + 1) % (OvfMax + 1)
         /\ dropped' = [dropped EXCEPT ![p] = @ + 1]
         /\ allDrops' = allDrops + 1
         /\ UNCHANGED <<rx_fifo, rx_fifo_head>>
    ELSE /\ rx_fifo' = [rx_fifo EXCEPT ![p][rx_fifo_head[p]] = b]
         /\ rx_fifo_head' = [rx_fifo_head EXCEPT ![p] = Inc(@)]
         /\ UNCHANGED <<uart_rx_overflows, dropped, allDrops>>

\* RX_STORE(p, b).
RX_STORE(p, b) ==
    LET head == Inc(rx_fifo_head[p]) IN
    IF head = rx_fifo_tail[p]
    THEN /\ uart_rx_overflows' = IF uart_rx_overflows # OvfMax
                                 THEN uart_rx_overflows + 1 ELSE OvfMax
         /\ dropped' = [dropped EXCEPT ![p] = @ + 1]
         /\ allDrops' = allDrops + 1
         /\ UNCHANGED <<rx_fifo, rx_fifo_head>>
    ELSE /\ rx_fifo' = [rx_fifo EXCEPT ![p][rx_fifo_head[p]] = b]
         /\ rx_fifo_head' = [rx_fifo_head EXCEPT ![p] = head]
         /\ UNCHANGED <<uart_rx_overflows, dropped, allDrops>>

\* Mutant of SweepNothing: the sweep ends at the first silent port.
SweepNothing_Return ==
    /\ isrPort \in Ports /\ isrByte = 0
    /\ rhr[isrPort] = 0
    /\ isrPort' = NumPorts
    /\ UNCHANGED <<isrByte, rx_tick_prescale, chipVars, fifoVars, mainVars>>

\* No byte at this port: continue with the next.
SweepNothing ==
    /\ isrPort \in Ports /\ isrByte = 0
    /\ rhr[isrPort] = 0
    /\ isrPort' = isrPort + 1
    /\ UNCHANGED <<isrByte, rx_tick_prescale, chipVars, fifoVars, mainVars>>

\* External UART: reading RHR clears DR in the same access.
SweepExternal ==
    /\ isrPort \in Ports \ OnChip
    /\ rhr[isrPort] # 0
    /\ RX_STORE(isrPort, rhr[isrPort])
    /\ rhr' = [rhr EXCEPT ![isrPort] = 0]
    /\ isrPort' = isrPort + 1
    /\ UNCHANGED <<isrByte, rx_tick_prescale, sent, overrun, mainVars>>

\* On-chip UART: b = SBUF0 leaves RI_0 set ...
SweepOnChipRead ==
    /\ isrPort \in OnChip /\ isrByte = 0
    /\ rhr[isrPort] # 0
    /\ isrByte' = rhr[isrPort]
    /\ UNCHANGED <<isrPort, rx_tick_prescale, chipVars, fifoVars, mainVars>>

\* ... until RI_0 = 0, a separate instruction.
SweepOnChipStore ==
    /\ isrPort \in OnChip /\ isrByte # 0
    /\ RX_STORE(isrPort, isrByte)
    /\ rhr' = [rhr EXCEPT ![isrPort] = 0]
    /\ isrByte' = 0
    /\ isrPort' = isrPort + 1
    /\ UNCHANGED <<rx_tick_prescale, sent, overrun, mainVars>>

IsrStep == SweepNothing \/ SweepExternal \/ SweepOnChipRead \/ SweepOnChipStore

-----------------------------------------------------------------------------
(* The consumer: midi_rx_pump.  Its scan, for each p: while available(p)   *)
(* and rx_ring has room, parse_byte(dequeue(p)); then the transfer to      *)
(* EP2-IN.  RxBridge has the ring itself: here its room is a choice.       *)

\* The scan leaves a port whose FIFO is empty, or for want of room in
\* rx_ring: the byte stays in the FIFO.  After the last port the pump ships
\* what EP2-IN takes, if the host has read it empty: that may make room.
MainNextPort ==
    /\ IsrIdle /\ mainPc = "check"
    /\ rx_fifo_head[mainPort] = rx_fifo_tail[mainPort] \/ ~rxRoom
    /\ mainPort' = (mainPort + 1) % NumPorts
    /\ \/ UNCHANGED rxRoom
       \/ mainPort' = 0 /\ rxRoom' = TRUE
    /\ UNCHANGED <<mainPc, mainByte, rx_fifo_tail, taken, lastTaken,
                   chipVars, fifoVars, isrVars>>

\* Mutant of MainAvailable: dequeue without asking uart_rx_available.
MainAvailable_NoTest ==
    /\ IsrIdle /\ mainPc = "check"
    /\ rxRoom
    /\ mainPc' = "read"
    /\ UNCHANGED <<mainPort, mainByte, rxRoom, rx_fifo_tail, taken, lastTaken,
                   chipVars, fifoVars, isrVars>>

\* uart_rx_available(p) is true, and rx_ring has room.
MainAvailable ==
    /\ IsrIdle /\ mainPc = "check"
    /\ rx_fifo_head[mainPort] # rx_fifo_tail[mainPort]
    /\ rxRoom
    /\ mainPc' = "read"
    /\ UNCHANGED <<mainPort, mainByte, rxRoom, rx_fifo_tail, taken, lastTaken,
                   chipVars, fifoVars, isrVars>>

\* uart_rx_dequeue: the slot is copied ...
MainRead ==
    /\ IsrIdle /\ mainPc = "read"
    /\ mainByte' = rx_fifo[mainPort][rx_fifo_tail[mainPort]]
    /\ mainPc' = "advance"
    /\ UNCHANGED <<mainPort, rxRoom, rx_fifo_tail, taken, lastTaken,
                   chipVars, fifoVars, isrVars>>

\* ... and then given back to the ISR; parse_byte may fill rx_ring.
MainAdvance ==
    /\ IsrIdle /\ mainPc = "advance"
    /\ rx_fifo_tail' = [rx_fifo_tail EXCEPT ![mainPort] = Inc(@)]
    /\ taken' = [taken EXCEPT ![mainPort] = @ + 1]
    /\ lastTaken' = [lastTaken EXCEPT ![mainPort] = mainByte]
    /\ mainPc' = "check"
    /\ mainByte' = 0
    /\ rxRoom' \in BOOLEAN
    /\ UNCHANGED <<mainPort, chipVars, fifoVars, isrVars>>

MainStep == MainNextPort \/ MainAvailable \/ MainRead \/ MainAdvance

-----------------------------------------------------------------------------
Next ==
    \/ \E p \in Ports : LineByte(p)
    \/ TimerTick
    \/ IsrStep
    \/ MainStep

(* The timer runs and the ISR ends (weak fairness).  A sweep suspends the  *)
(* main loop again and again, but it ends well before the next tick, so    *)
(* the main loop always gets on: strong fairness.                          *)
Fairness == WF_vars(TimerTick) /\ WF_vars(IsrStep) /\ SF_vars(MainStep)

(* An assumption on the host, not on the firmware: it keeps reading        *)
(* EP2-IN, so a pump that again and again ends with no room in rx_ring at  *)
(* some time makes some.  Behind a host that stops reading the bytes stay  *)
(* in their FIFOs.                                                         *)
HostReads == SF_vars(MainNextPort /\ ~rxRoom /\ rxRoom')

Spec == Init /\ [][Next]_vars /\ Fairness /\ HostReads

-----------------------------------------------------------------------------
(* Properties.                                                             *)

\* Bytes in a ring with these indices, (uint8_t)(h - t) & RX_FIFO_MASK.
CountOf(h, t) == IF h >= t THEN h - t ELSE h - t + FifoSize

\* The slot i places from slot t, i < FifoSize.
At(t, i) == IF t + i >= FifoSize THEN t + i - FifoSize ELSE t + i

\* The bytes of ring f, oldest first.
QueueOf(f, h, t) == [i \in 1 .. CountOf(h, t) |-> f[At(t, i - 1)]]

Count(p) == CountOf(rx_fifo_head[p], rx_fifo_tail[p])
Queue(p) == QueueOf(rx_fifo[p], rx_fifo_head[p], rx_fifo_tail[p])

TypeOK ==
    /\ rhr \in [Ports -> 0 .. MaxBytes]
    /\ isrPort \in 0 .. NumPorts
    /\ isrByte \in 0 .. MaxBytes
    /\ rx_tick_prescale \in 1 .. Prescale
    /\ rx_fifo \in [Ports -> [Slots -> 0 .. MaxBytes]]
    /\ rx_fifo_head \in [Ports -> Slots]
    /\ rx_fifo_tail \in [Ports -> Slots]
    /\ uart_rx_overflows \in 0 .. OvfMax
    /\ mainPort \in Ports
    /\ mainPc \in {"check", "read", "advance"}
    /\ mainByte \in 0 .. MaxBytes
    /\ rxRoom \in BOOLEAN
    /\ sent \in [Ports -> 0 .. MaxBytes]
    /\ overrun \in [Ports -> Nat]
    /\ dropped \in [Ports -> Nat]
    /\ allDrops \in Nat
    /\ taken \in [Ports -> Nat]
    /\ lastTaken \in [Ports -> 0 .. MaxBytes]

\* Every byte of a line is accounted for exactly once: handed to the bridge,
\* in the ring, still in the UART, dropped by RX_STORE or overrun in the UART.
\* Unlocked indices, a store that preempts a dequeue, or RI cleared at the
\* wrong moment would lose or duplicate one silently.
Conservation ==
    \A p \in Ports :
        sent[p] = taken[p] + Count(p) + (IF rhr[p] = 0 THEN 0 ELSE 1)
                  + dropped[p] + overrun[p]

\* last, the bytes of q, then r if there is one, are in the order a line
\* that has sent s bytes sent them.
Chain(q, last, r, s) ==
    /\ \A i \in 1 .. Len(q) : last < q[i] /\ q[i] <= s
    /\ \A i, j \in 1 .. Len(q) : i < j => q[i] < q[j]
    /\ last <= s
    /\ r # 0 => last < r /\ r <= s /\ \A i \in 1 .. Len(q) : q[i] < r

\* Bytes never change places: the last one taken, those in the ring and the
\* one in the UART are in the order they came in.  A stale slot (the 0 of a
\* fresh ring, or a byte of an earlier lap) would break the chain.
InOrder == \A p \in Ports : Chain(Queue(p), lastTaken[p], rhr[p], sent[p])

\* While a dequeue is under way, whatever the ISR does in between, its slot
\* stays occupied and keeps its byte until the tail index moves.
DequeueSafe ==
    /\ mainPc # "check" => rx_fifo_head[mainPort] # rx_fifo_tail[mainPort]
    /\ mainPc = "advance" =>
          mainByte = rx_fifo[mainPort][rx_fifo_tail[mainPort]]

\* Between its read of SBUF and its clear of RI the ISR holds the very byte
\* that is still flagged.
IsrHolds == isrByte # 0 => isrPort \in OnChip /\ rhr[isrPort] = isrByte

\* The counter is exactly the number of bytes dropped on all ports, or is
\* saturated: it never wraps round to look healthy, and counts no byte that
\* was stored.
OverflowExact ==
    uart_rx_overflows = IF allDrops < OvfMax THEN allDrops ELSE OvfMax

\* The ring with its two indices, its interrupted dequeue and its polled
\* UARTs is a plain bounded queue per port.
Fifo == INSTANCE ByteFifo WITH
    Ports <- Ports, Bytes <- Serials, Capacity <- FifoSize - 1, OvfMax <- OvfMax,
    queue <- [p \in Ports |-> Queue(p)], delivered <- lastTaken,
    overflows <- uart_rx_overflows

\* The capture path implements the queue uart.h promises: what is stored is
\* handed over once and in order, and the only loss is a counted drop.
ImplementsByteFifo == Fifo!Spec

\* Once the lines fall silent the UARTs and the rings run empty and stay so,
\* as long as the host keeps reading (HostReads): no byte waits for the next
\* one to push it out, also after the scan has left it for a full rx_ring.
Drains == <>[](\A p \in Ports : rhr[p] = 0 /\ Count(p) = 0)
=============================================================================
