------------------------------ MODULE TxQueue -------------------------------
(***************************************************************************)
(* What main.c promises host and instruments on the way out: each MIDI     *)
(* line sends, byte by byte and in order, what the host's transfers carry  *)
(* for it, and nothing else.  The host is held off as long as more bytes   *)
(* wait for some line than that line may have waiting.  Nothing here knows *)
(* of an endpoint, of a half-decoded transfer, of a ring or its indices.   *)
(***************************************************************************)
EXTENDS Naturals, Sequences

CONSTANTS
    Ports,      \* the MIDI lines
    Backlog     \* bytes of a line that may wait when the host is let in

VARIABLES
    accepted,   \* accepted[p]: the bytes the host has sent for line p
    wire        \* wire[p]: those that line p has sent

queueVars == <<accepted, wire>>

Init ==
    /\ accepted = [p \in Ports |-> <<>>]
    /\ wire = [p \in Ports |-> <<>>]

Waiting(p) == Len(accepted[p]) - Len(wire[p])

\* What was accepted stays as it was, more may come behind it.
HostSends ==
    /\ \A p \in Ports : Waiting(p) <= Backlog
    /\ DOMAIN accepted' = Ports
    /\ \A p \in Ports : accepted[p] = SubSeq(accepted'[p], 1, Len(accepted[p]))
    /\ UNCHANGED wire

Sends(p) ==
    /\ Waiting(p) > 0
    /\ wire' = [wire EXCEPT ![p] = Append(@, accepted[p][Len(@) + 1])]
    /\ UNCHANGED accepted

Next == HostSends \/ \E p \in Ports : Sends(p)

Spec == Init /\ [][Next]_queueVars
=============================================================================
