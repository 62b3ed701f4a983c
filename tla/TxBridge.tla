------------------------------ MODULE TxBridge ------------------------------
(***************************************************************************)
(* host -> instrument: bridge_out and uart_tx_pump of firmware/main.c, the *)
(* EP2-OUT interrupt and SET_INTERFACE of firmware/usb.c, and the end of   *)
(* main()'s boot, where interrupts are on and EP2-OUT is about to be armed.*)
(*                                                                         *)
(* A host transfer lands in OUT2BUF while the endpoint is armed, which     *)
(* disarms it and raises the EP2-OUT interrupt; its ISR sets               *)
(* Semaphore_EP2_out.  bridge_out decodes the transfer into the ports' TX  *)
(* rings and arms the endpoint again.  Interrupts preempt main() between   *)
(* any two of its steps.                                                   *)
(*                                                                         *)
(* An event packet is its cable, its payload length (cin_len of its CIN, 0 *)
(* for a reserved one) and its place in the host's stream.                 *)
(***************************************************************************)
EXTENDS Integers, Sequences

CONSTANTS
    NumPorts,           \* NUM_MIDI_PORTS
    RingSize,           \* MIDI_TX_RING_SIZE; one slot is reserved
    Shapes,             \* <<cable, length>> of the events the host sends
    MaxEvents,          \* events in a transfer: MIDI_EP_MAXPKT / 4 or fewer
    MaxTransfers,       \* bound of the instance: transfers the host sends
    InterfaceAt,        \* where in main() a SET_INTERFACE may come: of Stages
    InterfaceBudget     \* bound of the instance: SET_INTERFACE requests

Stages == {"boot", "bridge", "event", "rearm", "pump"}

ASSUME PortsAssumption  == NumPorts \in 1 .. 16
ASSUME RingAssumption   == RingSize \in 4 .. 256
ASSUME ShapesAssumption == Shapes \subseteq (0 .. 15) \X (0 .. 3)
ASSUME BoundsAssumption == /\ MaxEvents \in 1 .. 16 /\ MaxTransfers \in Nat
                           /\ InterfaceBudget \in Nat /\ InterfaceAt \subseteq Stages

VARIABLES
    armed,              \* EP2-OUT takes the host's next transfer
    out2buf, out2bc,    \* the events in OUT2BUF; OUT2BC / 4
    irq,                \* the EP2-OUT interrupt is pending
    Semaphore_EP2_out,
    pc,                 \* the stage main() is in
    n, i, out_off,      \* bridge_out's, in events
    port,               \* uart_tx_pump's p
    tx_ring, tx_head, tx_tail,
    thr,                \* thr[p]: what the UART has yet to send, at most one byte
    wire,               \* history: bytes sent on each MIDI line
    accepted,           \* history: bytes of the transfers taken, by port
    transfers, requests \* transfers and SET_INTERFACEs so far

hostVars == <<out2buf, out2bc, accepted, transfers>>
isrVars  == <<irq, Semaphore_EP2_out>>
mainVars == <<pc, n, i, out_off, port>>
ringVars == <<tx_ring, tx_head, tx_tail>>
uartVars == <<thr, wire>>
vars     == <<armed, hostVars, isrVars, mainVars, ringVars, uartVars, requests>>

Ports == 0 .. NumPorts - 1
Slots == 0 .. RingSize - 1

\* The payload of an event, its bytes named by transfer, place and position.
Payload(e) == [j \in 1 .. e.len |-> <<e.transfer, e.place, j>>]

\* Mutant of Wrap: the index mask forgotten.
Wrap_NoMask(x) == x

\* x & TX_RING_MASK.
Wrap(x) == x % RingSize

\* What event e carries for port p.
CarriedFor(p, e) == IF e.cable = p THEN Payload(e) ELSE <<>>

\* What the events of b after the first k, up to the m-th, carry for port p.
BytesFor(p, b, k, m) ==
    LET from[j \in Nat] == IF j >= m THEN <<>> ELSE CarriedFor(p, b[j + 1]) \o from[j + 1]
    IN  from[k]

\* Interrupts are on, tx_reset has run, EP2-OUT has not been armed.
Init ==
    /\ armed = FALSE
    /\ out2buf = <<>> /\ out2bc = 0
    /\ irq = FALSE /\ Semaphore_EP2_out = FALSE
    /\ pc = "boot" /\ n = 0 /\ i = 0 /\ out_off = 0 /\ port = 0
    /\ tx_ring = [p \in Ports |-> [s \in Slots |-> <<>>]]
    /\ tx_head = [p \in Ports |-> 0]
    /\ tx_tail = [p \in Ports |-> 0]
    /\ thr = [p \in Ports |-> <<>>]
    /\ wire = [p \in Ports |-> <<>>]
    /\ accepted = [p \in Ports |-> <<>>]
    /\ transfers = 0 /\ requests = 0

-----------------------------------------------------------------------------
(* Host and USB core.                                                      *)

\* A transfer of k events: it fills the front of OUT2BUF and leaves the rest.
HostSends ==
    /\ armed /\ transfers < MaxTransfers
    /\ \E k \in 0 .. MaxEvents : \E shape \in [1 .. k -> Shapes] :
         LET events == [e \in 1 .. k |-> [cable |-> shape[e][1], len |-> shape[e][2],
                                          transfer |-> transfers + 1, place |-> e]]
         IN  /\ out2buf' = events \o SubSeq(out2buf, k + 1, Len(out2buf))
             /\ out2bc' = k
             /\ accepted' = [p \in Ports |-> accepted[p] \o BytesFor(p, events, 0, k)]
    /\ transfers' = transfers + 1
    /\ armed' = FALSE
    /\ irq' = TRUE
    /\ UNCHANGED <<Semaphore_EP2_out, mainVars, ringVars, uartVars, requests>>

\* ep2out_isr.
ep2out_isr ==
    /\ irq
    /\ irq' = FALSE
    /\ Semaphore_EP2_out' = TRUE
    /\ UNCHANGED <<armed, hostVars, mainVars, ringVars, uartVars, requests>>

\* usb_handle_set_interface, in the SUDAV ISR: OUT2BC = 0 arms the endpoint,
\* whatever OUT2BUF holds.
SetInterface ==
    /\ pc \in InterfaceAt /\ requests < InterfaceBudget
    /\ requests' = requests + 1
    /\ armed' = TRUE
    /\ UNCHANGED <<hostVars, isrVars, mainVars, ringVars, uartVars>>

-----------------------------------------------------------------------------
(* main().                                                                 *)

\* The OUT2BC = 0 before the loop.
BootArm ==
    /\ pc = "boot"
    /\ armed' = TRUE
    /\ pc' = "bridge"
    /\ UNCHANGED <<n, i, out_off, port, hostVars, isrVars, ringVars, uartVars, requests>>

\* bridge_out with nothing to do.
BridgeIdle ==
    /\ pc = "bridge" /\ ~Semaphore_EP2_out
    /\ pc' = "pump"
    /\ UNCHANGED <<n, i, out_off, port, armed, hostVars, isrVars, ringVars, uartVars,
                   requests>>

\* Mutant of BridgeStart: a transfer left half-decoded is decoded anew.
BridgeStart_Anew ==
    /\ pc = "bridge" /\ Semaphore_EP2_out
    /\ n' = out2bc /\ i' = 0
    /\ pc' = "event"
    /\ UNCHANGED <<out_off, port, armed, hostVars, isrVars, ringVars, uartVars, requests>>

\* n = OUT2BC; i = out_off.
BridgeStart ==
    /\ pc = "bridge" /\ Semaphore_EP2_out
    /\ n' = out2bc /\ i' = out_off
    /\ pc' = "event"
    /\ UNCHANGED <<out_off, port, armed, hostVars, isrVars, ringVars, uartVars, requests>>

\* Bytes in port p's ring.
Queued(p) == (tx_head[p] - tx_tail[p] + RingSize) % RingSize

\* One slot is reserved.
tx_room(p) == RingSize - 1 - Queued(p)

\* There is an event to decode, and it goes nowhere / where it goes.
Deciding == pc = "event" /\ i < n
Current == out2buf[i + 1]
NoPort == Current.cable >= NumPorts \/ Current.len = 0

\* No such cable, or a reserved CIN: next event.
EventDropped ==
    /\ Deciding /\ NoPort
    /\ i' = i + 1
    /\ UNCHANGED <<pc, n, out_off, port, armed, hostVars, isrVars, ringVars, uartVars,
                   requests>>

\* Mutant of EventStalls: the endpoint is armed before the rest is decoded.
EventStalls_Rearms ==
    /\ Deciding /\ ~NoPort
    /\ tx_room(Current.cable) < Current.len
    /\ out_off' = i
    /\ armed' = TRUE
    /\ pc' = "pump"
    /\ UNCHANGED <<n, i, port, hostVars, isrVars, ringVars, uartVars, requests>>

\* The ring cannot hold the event: leave the transfer, and the endpoint, as
\* they are and resume here.
EventStalls ==
    /\ Deciding /\ ~NoPort
    /\ tx_room(Current.cable) < Current.len
    /\ out_off' = i
    /\ pc' = "pump"
    /\ UNCHANGED <<n, i, port, armed, hostVars, isrVars, ringVars, uartVars, requests>>

\* The payload goes into the ring.
EventQueued ==
    /\ Deciding /\ ~NoPort
    /\ tx_room(Current.cable) >= Current.len
    /\ LET p == Current.cable
           slot(j) == (tx_head[p] + j - 1) % RingSize
           ring == [s \in Slots |->
                      IF \E j \in 1 .. Current.len : slot(j) = s
                      THEN Payload(Current)[CHOOSE j \in 1 .. Current.len : slot(j) = s]
                      ELSE tx_ring[p][s]]
       IN  /\ tx_ring' = [tx_ring EXCEPT ![p] = ring]
           /\ tx_head' = [tx_head EXCEPT ![p] = Wrap(@ + Current.len)]
    /\ i' = i + 1
    /\ UNCHANGED <<tx_tail, pc, n, out_off, port, armed, hostVars, isrVars, uartVars,
                   requests>>

\* Mutant of BridgeFinish: the resume offset is not reset.
BridgeFinish_KeepsOffset ==
    /\ pc = "event" /\ i >= n
    /\ Semaphore_EP2_out' = FALSE
    /\ pc' = "rearm"
    /\ UNCHANGED <<n, i, port, out_off, armed, irq, hostVars, ringVars, uartVars, requests>>

\* All decoded: out_off = 0; Semaphore_EP2_out = 0; ...
BridgeFinish ==
    /\ pc = "event" /\ i >= n
    /\ out_off' = 0
    /\ Semaphore_EP2_out' = FALSE
    /\ pc' = "rearm"
    /\ UNCHANGED <<n, i, port, armed, irq, hostVars, ringVars, uartVars, requests>>

\* Mutant of BridgeRearm: OUT2BC is not written.
BridgeRearm_Forgotten ==
    /\ pc = "rearm"
    /\ pc' = "pump"
    /\ UNCHANGED <<n, i, out_off, port, armed, hostVars, isrVars, ringVars, uartVars,
                   requests>>

\* ... OUT2BC = 0.
BridgeRearm ==
    /\ pc = "rearm"
    /\ armed' = TRUE
    /\ pc' = "pump"
    /\ UNCHANGED <<n, i, out_off, port, hostVars, isrVars, ringVars, uartVars, requests>>

\* uart_tx_pump moves on to the next port, or back to the loop (midi_rx_pump
\* has no part in this direction).
PumpOn == IF port + 1 < NumPorts THEN port' = port + 1 /\ UNCHANGED pc
                                 ELSE port' = 0 /\ pc' = "bridge"

Sendable(p) == tx_head[p] # tx_tail[p] /\ thr[p] = <<>>

PumpByte ==
    /\ pc = "pump" /\ Sendable(port)
    /\ thr' = [thr EXCEPT ![port] = <<tx_ring[port][tx_tail[port]]>>]
    /\ tx_tail' = [tx_tail EXCEPT ![port] = Wrap(@ + 1)]
    /\ PumpOn
    /\ UNCHANGED <<tx_ring, tx_head, wire, n, i, out_off, armed, hostVars, isrVars,
                   requests>>

PumpSkip ==
    /\ pc = "pump" /\ ~Sendable(port)
    /\ PumpOn
    /\ UNCHANGED <<n, i, out_off, armed, hostVars, isrVars, ringVars, uartVars, requests>>

Main == \/ BootArm
        \/ BridgeIdle \/ BridgeStart \/ BridgeFinish \/ BridgeRearm
        \/ EventDropped \/ EventStalls \/ EventQueued
        \/ PumpByte \/ PumpSkip

\* The UART sends what it holds and is ready again (THRE, or TI on-chip).
UartSends(p) ==
    /\ thr[p] # <<>>
    /\ wire' = [wire EXCEPT ![p] = @ \o thr[p]]
    /\ thr' = [thr EXCEPT ![p] = <<>>]
    /\ UNCHANGED <<armed, hostVars, isrVars, mainVars, ringVars, requests>>

Next == \/ HostSends \/ ep2out_isr \/ SetInterface
        \/ Main
        \/ \E p \in Ports : UartSends(p)

\* Pending interrupts are served, the loop runs, the UARTs send; the host
\* need not.
Spec == /\ Init /\ [][Next]_vars
        /\ WF_vars(ep2out_isr) /\ WF_vars(Main)
        /\ \A p \in Ports : WF_vars(UartSends(p))

-----------------------------------------------------------------------------
(* Properties.                                                             *)

TypeOK ==
    /\ out2bc \in 0 .. MaxEvents /\ Len(out2buf) \in out2bc .. MaxEvents
    /\ n \in 0 .. MaxEvents /\ i \in 0 .. MaxEvents /\ out_off \in 0 .. MaxEvents
    /\ pc \in Stages /\ port \in Ports
    /\ \A p \in Ports : tx_head[p] \in Slots /\ tx_tail[p] \in Slots
    /\ \A p \in Ports : Len(thr[p]) <= 1

\* The bytes in port p's ring, oldest first.
RingBytes(p) == [k \in 1 .. Queued(p) |-> tx_ring[p][(tx_tail[p] + k - 1) % RingSize]]

\* What OUT2BUF holds for port p that bridge_out has still to decode.
Undecoded(p) ==
    IF pc = "event" THEN BytesFor(p, out2buf, i, n)
    ELSE IF irq \/ Semaphore_EP2_out THEN BytesFor(p, out2buf, out_off, out2bc)
    ELSE <<>>

\* Every byte of every transfer the device took is, once and in order, on the
\* wire, in the UART, in the ring or still to be decoded, SET_INTERFACE or not:
\* a transfer that waits half-decoded stays in OUT2BUF, the host held off, and
\* is "retried (from out_off, no duplication)" (main.c:195-197 and 222-225), and
\* main() arms the endpoint only "in case no SET_INTERFACE" has (main.c:322).
EveryByteAccounted ==
    \A p \in Ports : wire[p] \o thr[p] \o RingBytes(p) \o Undecoded(p) = accepted[p]

\* As long as the host leaves the setting alone, stopping on a full ring and
\* resuming loses nothing and repeats nothing.
NothingLostOrRepeated == requests = 0 => EveryByteAccounted

Queue == INSTANCE TxQueue WITH Backlog <- RingSize

\* As long as the host leaves the setting alone, the endpoint, the decoder, the
\* rings and the UARTs are together a queue per line: what a line sends next is
\* what the host sent for it next, and the host gets in only when no more waits
\* for a line than a full ring and the byte in its UART ("leave the endpoint
\* un-rearmed", main.c:222-225).
ImplementsTxQueue ==
    Queue!Init /\ [][requests' = 0 => Queue!Next]_(Queue!queueVars)

\* Every ring and UART is empty and the endpoint waits for the host.
Idle == /\ armed /\ ~irq /\ ~Semaphore_EP2_out
        /\ \A p \in Ports : tx_head[p] = tx_tail[p] /\ thr[p] = <<>>

\* Back-pressure ends: as long as the host leaves the setting alone,
\* everything taken reaches the wire and the endpoint is armed for the host's
\* next transfer.
AllSent == [](requests = 0) => <>[](Idle /\ wire = accepted)

\* Whenever SET_INTERFACE comes, the path gets back to an armed endpoint and
\* empty rings: it is never left waiting for an interrupt that cannot come.
NeverWedged == <>[]Idle
=============================================================================
