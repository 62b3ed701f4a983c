------------------------------ MODULE RxBridge ------------------------------
(***************************************************************************)
(* instrument -> host: midi_rx_pump of firmware/midi_parser.c.  Captured   *)
(* bytes (the queue of ByteFifo, which RxCapture implements) go through    *)
(* the cables' parsers into the device->host ring, and from there by bulk  *)
(* transfers through EP2-IN.                                               *)
(*                                                                         *)
(* The capture ISR may run between any two steps of the pump; the host     *)
(* takes a transfer whenever it likes, or never.                           *)
(***************************************************************************)
EXTENDS MidiParser

CONSTANTS
    NumPorts,       \* NUM_MIDI_PORTS
    FifoCapacity,   \* MIDEX_RX_FIFO_SIZE - 1
    OvfMax,         \* 0xFF
    RingSize,       \* MIDI_RX_RING_SIZE, in bytes
    MaxPkt,         \* MIDI_EP_MAXPKT, in bytes
    Alphabet,       \* bytes the lines deliver in the instance
    MaxBytes        \* bound of the instance: bytes each line delivers

ASSUME PortsAssumption    == NumPorts \in 1 .. 16 /\ FifoCapacity \in Nat \ {0}
ASSUME RingAssumption     == RingSize \in 8 .. 256 /\ RingSize % 4 = 0
ASSUME MaxPktAssumption   == MaxPkt \in 4 .. 64 /\ MaxPkt % 4 = 0
ASSUME AlphabetAssumption == Alphabet \subseteq Byte

VARIABLES
    queue, overflows,            \* the capture FIFOs, see ByteFifo
    parser,                      \* parser[p]: struct port_parser of cable p
    rx_ring, rx_head, rx_tail,   \* the ring, one cell per packet, byte indices
    in2busy, in2buf,             \* IN2CS & EPBSY; the packets in IN2BUF
    pc, port,                    \* where midi_rx_pump is, and its p
    fed,                         \* history: bytes each parser was given
    emitted,                     \* history: packets the parsers made, in order
    departed                     \* history: packets that have left EP2-IN

fifoVars == <<queue, overflows>>
ringVars == <<rx_ring, rx_head, rx_tail, emitted>>
ep2Vars  == <<in2busy, in2buf, departed>>
vars     == <<fifoVars, parser, ringVars, ep2Vars, pc, port, fed>>

Ports == 0 .. NumPorts - 1

\* The byte the bridge took last from each port, as ByteFifo names it.
LastFed == [p \in Ports |-> IF fed[p] = <<>> THEN 0 ELSE fed[p][Len(fed[p])]]

Fifo == INSTANCE ByteFifo WITH
    Ports <- Ports, Bytes <- Alphabet, Capacity <- FifoCapacity,
    delivered <- LastFed

Init ==
    /\ queue = [p \in Ports |-> <<>>] /\ overflows = 0
    /\ parser = [p \in Ports |-> Fresh]
    /\ rx_ring = [c \in 0 .. RingSize \div 4 - 1 |-> <<>>]
    /\ rx_head = 0 /\ rx_tail = 0
    /\ in2busy = FALSE /\ in2buf = <<>>
    /\ pc = "drain" /\ port = 0
    /\ fed = [p \in Ports |-> <<>>]
    /\ emitted = <<>> /\ departed = <<>>

-----------------------------------------------------------------------------
\* The capture ISR stores a byte of line p, or drops it.
Arrive(p, b) ==
    /\ Len(fed[p]) + Len(queue[p]) < MaxBytes
    /\ UNCHANGED <<parser, ringVars, ep2Vars, pc, port, fed>>
    /\ Fifo!Capture(p, b) \/ Fifo!Drop(p)

-----------------------------------------------------------------------------
(* midi_rx_pump.                                                           *)

\* Mutant of Advance: the index mask forgotten.
Advance_NoMask(i) == i + 4

\* Four bytes on, & RX_RING_MASK.
Advance(i) == (i + 4) % RingSize

\* rx_ring_count.
rx_ring_count == (rx_head - rx_tail + RingSize) % RingSize

\* Mutants of HasRoom: the ring may be filled to the last cell, which then
\* reads as empty; the UARTs are drained only while the endpoint is free.
HasRoom_OffByOne == rx_ring_count <= RingSize - 4
HasRoom_EndpointFree == rx_ring_count <= RingSize - 1 - 4 /\ ~in2busy

\* Room for one more packet, with one cell reserved.
HasRoom == rx_ring_count <= RingSize - 1 - 4

\* This port has nothing, or the ring is full: next port.
DrainNext ==
    /\ pc = "drain"
    /\ queue[port] = <<>> \/ ~HasRoom
    /\ IF port + 1 < NumPorts THEN port' = port + 1 /\ UNCHANGED pc
                              ELSE port' = 0 /\ pc' = "ship"
    /\ UNCHANGED <<fifoVars, parser, ringVars, ep2Vars, fed>>

\* parse_byte(p, uart_rx_dequeue(p)), with emit() for the packet if any.
DrainByte ==
    /\ pc = "drain"
    /\ queue[port] # <<>> /\ HasRoom
    /\ fed' = [fed EXCEPT ![port] = Append(@, Head(queue[port]))]
    /\ Fifo!Deliver(port)
    /\ LET r == ParseByte(parser[port], Head(queue[port])) IN
       /\ parser' = [parser EXCEPT ![port] = r.ps]
       /\ IF r.out = <<>> THEN UNCHANGED ringVars
          ELSE LET event == <<[cable |-> port, packet |-> r.out[1]]>> IN
               /\ rx_ring' = [rx_ring EXCEPT ![rx_head \div 4] = event]
               /\ rx_head' = Advance(rx_head)
               /\ emitted' = emitted \o event
               /\ UNCHANGED rx_tail
    /\ UNCHANGED <<ep2Vars, pc, port>>

\* EP2-IN is busy: try again next time round the main loop.
ShipBusy ==
    /\ pc = "ship" /\ in2busy
    /\ pc' = "drain"
    /\ UNCHANGED <<fifoVars, parser, ringVars, ep2Vars, port, fed>>

\* Mutant of ShipSize: only full transfers are worth sending.
ShipSize_Full == IF rx_ring_count >= MaxPkt THEN MaxPkt ELSE 0

\* Bytes the copy loop moves: whole packets, at most a full transfer.
ShipSize == IF rx_ring_count <= MaxPkt THEN rx_ring_count ELSE MaxPkt

\* The first n packets of the ring.
RingFront(n) ==
    [i \in 1 .. n |-> rx_ring[(rx_tail \div 4 + i - 1) % (RingSize \div 4)][1]]

\* Mutant of ShipCopy: EPBSY is not looked at.
ShipCopy_Unchecked ==
    /\ pc = "ship"
    /\ in2buf' = RingFront(ShipSize \div 4)
    /\ rx_tail' = (rx_tail + ShipSize) % RingSize
    /\ pc' = IF ShipSize = 0 THEN "drain" ELSE "arm"
    /\ UNCHANGED <<fifoVars, parser, rx_ring, rx_head, emitted, in2busy, departed, port,
                   fed>>

\* EP2-IN is free: copy from the ring; with nothing to send, go on.
ShipCopy ==
    /\ pc = "ship" /\ ~in2busy
    /\ in2buf' = RingFront(ShipSize \div 4)
    /\ rx_tail' = (rx_tail + ShipSize) % RingSize
    /\ pc' = IF ShipSize = 0 THEN "drain" ELSE "arm"
    /\ UNCHANGED <<fifoVars, parser, rx_ring, rx_head, emitted, in2busy, departed, port,
                   fed>>

\* IN2BC = n.
ShipArm ==
    /\ pc = "arm"
    /\ in2busy' = TRUE
    /\ pc' = "drain"
    /\ UNCHANGED <<fifoVars, parser, ringVars, in2buf, departed, port, fed>>

Pump == DrainNext \/ DrainByte \/ ShipBusy \/ ShipCopy \/ ShipArm

-----------------------------------------------------------------------------
\* The host takes the transfer EP2-IN holds.  A SET_INTERFACE (IN2CS = 0 in
\* the SUDAV ISR) may free the endpoint too: to the pump it looks the same, but
\* the packets have departed to nowhere.
HostTakes ==
    /\ in2busy
    /\ in2busy' = FALSE
    /\ departed' = departed \o in2buf
    /\ in2buf' = <<>>
    /\ UNCHANGED <<fifoVars, parser, ringVars, pc, port, fed>>

Next ==
    \/ \E p \in Ports, b \in Alphabet : Arrive(p, b)
    \/ Pump
    \/ HostTakes

\* The main loop runs; nothing is assumed of the host.
Spec == Init /\ [][Next]_vars /\ WF_vars(Pump)

-----------------------------------------------------------------------------
(* Properties.                                                             *)

TypeOK ==
    /\ rx_head \in 0 .. RingSize - 1 /\ rx_head % 4 = 0
    /\ rx_tail \in 0 .. RingSize - 1 /\ rx_tail % 4 = 0
    /\ \A p \in Ports : Len(queue[p]) <= FifoCapacity /\ Len(parser[p].sx) <= 2
    /\ in2busy \in BOOLEAN /\ Len(in2buf) <= MaxPkt \div 4
    /\ in2busy => in2buf # <<>>
    /\ pc \in {"drain", "ship", "arm"} /\ port \in Ports

\* What parse_byte has emitted has, once and in the order of all cables, left
\* by EP2-IN or is in it or in the ring, whether the ring has wrapped, filled
\* up or run empty in between.  (It has left to the host, if the host does not
\* throw the transfer away itself by a SET_INTERFACE.)
TransfersInOrder == departed \o in2buf \o RingFront(rx_ring_count \div 4) = emitted

\* A parser that starts fresh, after a whole byte sequence: its state, and the
\* packets it has made.
Parsed(bytes) ==
    LET step[k \in 0 .. Len(bytes)] ==
            IF k = 0 THEN Silent(Fresh) ELSE Then(step[k - 1], bytes[k])
    IN  step[Len(bytes)]

\* The packets of cable p among the events of s, in order.
Adding(p, packets, e) == IF e.cable = p THEN packets \o <<e.packet>> ELSE packets

Own(p, s) ==
    LET own[k \in 0 .. Len(s)] == IF k = 0 THEN <<>> ELSE Adding(p, own[k - 1], s[k])
    IN  own[Len(s)]

\* Cable p's packets among those departed, loaded and queued.
OnItsWay(p) == Own(p, departed \o in2buf \o RingFront(rx_ring_count \div 4))

\* EP2-IN ships, cable by cable, exactly the packets the cable's bytes make:
\* none is overwritten in the ring, lost or sent twice around a transfer, or
\* changed by another cable's bytes in between.
EveryPacketOnce == \A p \in Ports : OnItsWay(p) = Parsed(fed[p]).out

\* However long the host does not read, the pump goes on emptying the
\* capture FIFOs until the ring is full.
RxNeverBlocked ==
    []<>(rx_ring_count = RingSize - 4 \/ \A p \in Ports : queue[p] = <<>>)

\* If the host keeps reading, whatever was captured gets out of the device:
\* once the lines are silent, FIFOs, ring and endpoint run empty.
Delivered ==
    WF_vars(HostTakes) =>
        <>[](/\ \A p \in Ports : queue[p] = <<>>
             /\ rx_ring_count = 0
             /\ in2buf = <<>>)
=============================================================================
