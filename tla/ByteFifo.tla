------------------------------ MODULE ByteFifo ------------------------------
(***************************************************************************)
(* What the RX half of firmware/uart.h promises to the MIDI bridge: one    *)
(* first-in first-out queue of bytes per port.  A received byte joins its  *)
(* queue when there is room and is otherwise dropped and counted; a byte   *)
(* that joined is delivered once, in order.  Nothing here knows of a ring, *)
(* of indices, or of who preempts whom.                                    *)
(***************************************************************************)
EXTENDS Naturals, Sequences

CONSTANTS
    Ports,      \* the MIDI ports
    Bytes,      \* the bytes a port can receive
    Capacity,   \* bytes one queue holds
    OvfMax      \* the overflow counter saturates here

VARIABLES
    queue,      \* queue[p]: the bytes of port p not yet delivered
    delivered,  \* delivered[p]: the last byte handed to the bridge, 0 if none
    overflows   \* dropped bytes, saturating

fifoVars == <<queue, delivered, overflows>>

Init ==
    /\ queue = [p \in Ports |-> <<>>]
    /\ delivered = [p \in Ports |-> 0]
    /\ overflows = 0

Capture(p, b) ==
    /\ Len(queue[p]) < Capacity
    /\ queue' = [queue EXCEPT ![p] = Append(@, b)]
    /\ UNCHANGED <<delivered, overflows>>

Drop(p) ==
    /\ Len(queue[p]) = Capacity
    /\ overflows' = IF overflows = OvfMax THEN OvfMax ELSE overflows + 1
    /\ UNCHANGED <<queue, delivered>>

Deliver(p) ==
    /\ queue[p] # <<>>
    /\ delivered' = [delivered EXCEPT ![p] = Head(queue[p])]
    /\ queue' = [queue EXCEPT ![p] = Tail(@)]
    /\ UNCHANGED overflows

Next ==
    \E p \in Ports : (\E b \in Bytes : Capture(p, b)) \/ Drop(p) \/ Deliver(p)

\* Whether a byte is ever asked for is up to the bridge, and so to the host.
Spec == Init /\ [][Next]_fifoVars
=============================================================================
