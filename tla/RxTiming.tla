------------------------------ MODULE RxTiming ------------------------------
(***************************************************************************)
(* When the RX capture reads a port.  Timer0 overflows every Tick (mode 2, *)
(* auto-reload) and latches TF0; uart_rx_isr of firmware/uart.c enters as  *)
(* soon as it may, returns at once on all but every TickPrescale-th entry, *)
(* and otherwise sweeps the ports.  One port is followed: its receive      *)
(* register holds one byte, bytes come at least ByteTime apart, and the    *)
(* sweep reads it between Lo and Hi after its start, sooner or later as    *)
(* the ports before it have a byte to store or not.                        *)
(*                                                                         *)
(* Time is counted in units of which every constant is a multiple; the     *)
(* runs take microseconds.  Pass lets one unit go by unless something is   *)
(* due now.                                                                *)
(***************************************************************************)
EXTENDS Integers

CONSTANTS
    Tick,       \* Timer0 period: (256 - BOARD_T0_RELOAD) ticks of 0.5 us
    TickPrescale,   \* BOARD_T0_PRESCALE
    ByteTime,   \* shortest time between two bytes of a line
    Lo, Hi,     \* when in a sweep the port is read, at the earliest / latest
    Sweep       \* the longest a sweep takes

ASSUME TimesAssumption ==
    /\ Tick \in Nat /\ ByteTime \in Nat /\ Lo \in Nat /\ Hi \in Nat /\ Sweep \in Nat
    /\ Lo <= Hi /\ Hi <= Sweep /\ Lo <= Tick
ASSUME TickPrescaleAssumption == TickPrescale \in Nat /\ TickPrescale >= 2
\* No Timer0 overflow is lost: at most one comes while the ISR sweeps.
ASSUME SweepAssumption == Sweep < 2 * Tick
\* What the constants of board_r1.h and board_r2.h are chosen for.
ASSUME CadenceAssumption == TickPrescale * Tick + (Hi - Lo) < ByteTime

VARIABLES
    sinceTick,          \* time since Timer0 overflowed
    TF0,                \* an overflow awaits its ISR
    prescaler,          \* rx_tick_prescale
    sweeping,           \* the ISR is in a sweep
    unread,             \* ... and has not come to the port yet
    sinceSweep,         \* time since the last sweep started
    dr,                 \* the port's receive register holds a byte
    sinceByte,          \* time since that byte, up to ByteTime
    lost                \* a byte was lost in the UART

timingVars == <<sinceTick, TF0, prescaler, sweeping, unread, sinceSweep,
                dr, sinceByte, lost>>

\* uart_rx_start: the first overflow sweeps.  No sweep has been; sinceSweep
\* is what it would be had there been one, TickPrescale overflows before.
TimingInit ==
    /\ sinceTick = 0 /\ TF0 = FALSE /\ prescaler = 1
    /\ sweeping = FALSE /\ unread = FALSE
    /\ sinceSweep = (TickPrescale - 1) * Tick
    /\ dr = FALSE /\ sinceByte = ByteTime /\ lost = FALSE

Due == \/ sinceTick = Tick
       \/ TF0 /\ ~sweeping
       \/ sweeping /\ unread /\ sinceSweep = Hi
       \/ sweeping /\ sinceSweep = Sweep

Pass ==
    /\ ~Due
    /\ sinceTick' = sinceTick + 1
    /\ sinceSweep' = sinceSweep + 1
    /\ sinceByte' = IF sinceByte < ByteTime THEN sinceByte + 1 ELSE ByteTime
    /\ UNCHANGED <<TF0, prescaler, sweeping, unread, dr, lost>>

\* Timer0 overflows: TF0 is set, or was set already.
Overflow ==
    /\ sinceTick = Tick
    /\ sinceTick' = 0
    /\ TF0' = TRUE
    /\ UNCHANGED <<prescaler, sweeping, unread, sinceSweep, dr, sinceByte, lost>>

\* Mutant of Reload: one overflow too many between sweeps.
Reload_PlusOne == TickPrescale + 1

\* What the ISR reloads the prescaler with.
Reload == TickPrescale

\* The vector clears TF0; all but every TickPrescale-th entry return.
IsrSkip ==
    /\ TF0 /\ ~sweeping /\ prescaler - 1 # 0
    /\ TF0' = FALSE
    /\ prescaler' = prescaler - 1
    /\ UNCHANGED <<sinceTick, sweeping, unread, sinceSweep, dr, sinceByte, lost>>

IsrSweep ==
    /\ TF0 /\ ~sweeping /\ prescaler - 1 = 0
    /\ TF0' = FALSE
    /\ prescaler' = Reload
    /\ sweeping' = TRUE /\ unread' = TRUE
    /\ sinceSweep' = 0
    /\ UNCHANGED <<sinceTick, dr, sinceByte, lost>>

\* The sweep comes to the port: the byte, if any, is read.
ReadPort ==
    /\ sweeping /\ unread /\ sinceSweep >= Lo
    /\ unread' = FALSE
    /\ dr' = FALSE
    /\ UNCHANGED <<sinceTick, TF0, prescaler, sweeping, sinceSweep, sinceByte, lost>>

SweepEnds ==
    /\ sweeping /\ ~unread
    /\ sweeping' = FALSE
    /\ UNCHANGED <<sinceTick, TF0, prescaler, unread, sinceSweep, dr, sinceByte, lost>>

\* A byte completes on the line.
ByteArrives ==
    /\ sinceByte >= ByteTime
    /\ lost' = (lost \/ dr)
    /\ dr' = TRUE
    /\ sinceByte' = 0
    /\ UNCHANGED <<sinceTick, TF0, prescaler, sweeping, unread, sinceSweep>>

TimingNext == \/ Pass \/ Overflow
        \/ IsrSkip \/ IsrSweep \/ ReadPort \/ SweepEnds
        \/ ByteArrives

TimingSpec == TimingInit /\ [][TimingNext]_timingVars

-----------------------------------------------------------------------------
(* Properties.                                                             *)

TimingTypeOK ==
    /\ sinceTick \in 0 .. Tick
    /\ TF0 \in BOOLEAN
    /\ prescaler \in 1 .. TickPrescale
    /\ sweeping \in BOOLEAN /\ unread \in BOOLEAN
    /\ sinceSweep \in Nat
    /\ dr \in BOOLEAN /\ sinceByte \in 0 .. ByteTime
    /\ lost \in BOOLEAN

\* A byte is always read before the next one can complete: sustained input
\* at full line rate loses nothing in the UART.
NoOverrun == ~lost

\* No Timer0 overflow is lost to a long sweep, which would stretch the
\* cadence by a whole tick: sweeps start exactly TickPrescale ticks apart.
SteadyCadence == sinceSweep <= TickPrescale * Tick
=============================================================================
