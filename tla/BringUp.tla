------------------------------ MODULE BringUp ------------------------------
(***************************************************************************)
(* From reset to the main loop: board_init, usb_init, uart_bringup with    *)
(* the two UART backends, uart_rx_start; and the backends' transmit side   *)
(* afterwards.  One module for the three images: the class firmware for    *)
(* the boards r1 and r2, and the bus probe.                                *)
(*                                                                         *)
(* The board is external: chips that do not latch while in reset, a write  *)
(* glue that is unreliable until it has settled and may lose a write even  *)
(* later, isochronous buffers that share their memory with the rings, and  *)
(* a host that enumerates what connects.                                   *)
(***************************************************************************)
EXTENDS Integers

CONSTANTS
    Chip,       \* per image: the kind of each port's UART, "454", "452", "FX"
    MaxTries,   \* BOARD_UART_LCR_MAX_TRIES
    MaxMisses   \* bound of the instance: writes lost by the settled glue

Images == {"r1", "r2", "probe"}

\* The external UARTs have the lowest port numbers; those of r1 are all 454s.
ASSUME BringUpAssumption ==
    /\ DOMAIN Chip = Images /\ \A i \in Images : DOMAIN Chip[i] \subseteq Nat
    /\ \A i \in Images : \A p \in DOMAIN Chip[i] :
          Chip[i][p] # "FX" => \A q \in 0 .. p : q \in DOMAIN Chip[i] /\ Chip[i][q] # "FX"
    /\ \A p \in DOMAIN Chip["r1"] : Chip["r1"][p] = "454"
    /\ MaxTries \in Nat \ {0} /\ MaxMisses \in Nat

VARIABLES
    image, core,    \* the build; the 24/48 MHz strap
    at,             \* where main() is
    port, t,        \* uart_ext_init's port; uart_write_lcr's try
    pins,           \* OUTB.4, OEB.4, OUTC.4, OEC.4
    strobes,        \* the port pins are RD#, WR# (and OE# on r2)
    t2, t1, t0,     \* the timers; CKCON's bits are with them
    smod, ti, ren,  \* on-chip UARTs: baud doubled; TI flags; receivers on
    chan,           \* external UARTs' registers
    isodisab, connected, EA, enumerated,
    content,        \* 0 or garbage in the rings, parsers and FIFOs
    out2armed,
    settled,        \* the write glue
    misses, unlucky,\* writes it lost since; one was lost beyond repair
    sending,        \* on-chip UARTs that shift a byte out
    junk, spoke     \* ports that sent something before, since the loop

boardVars == <<image, core, pins, strobes, t2>>
uartVars  == <<t1, smod, ti, ren, chan>>
usbVars   == <<isodisab, connected, EA, enumerated, out2armed>>
luckVars  == <<settled, misses, unlucky>>
wireVars  == <<sending, junk, spoke>>
vars == <<at, port, t, t0, content, boardVars, uartVars, usbVars, luckVars, wireVars>>

Regions == {"tx_ring", "parser", "rx_fifo"}

Kind(p)  == Chip[image][p]
Ports    == DOMAIN Chip[image]
External == {p \in Ports : Kind(p) # "FX"}
OnChip   == Ports \ External
Divisor  == IF image = "r2" THEN 24 ELSE 1

\* RESET of the 454 is active high and pulled up, RESET of the 452 active low.
InReset(p) ==
    IF Kind(p) = "454" THEN ~(pins.OEB4 /\ ~pins.OUTB4)
    ELSE ~(pins.OEC4 /\ pins.OUTC4)

ResetChannel == [lcr |-> "5bit", dll |-> 0, dlm |-> 255, ier |-> 0, mcr |-> 0, thr |-> FALSE]

Init ==
    /\ image \in Images
    /\ core \in IF image = "r2" THEN {24, 48} ELSE {24}
    /\ at = "board_init" /\ port = 0 /\ t = 0
    /\ pins = [OUTB4 |-> FALSE, OEB4 |-> FALSE, OUTC4 |-> FALSE, OEC4 |-> FALSE]
    /\ strobes = FALSE
    /\ t2 = [run |-> FALSE, out |-> FALSE, reload |-> 0]
    /\ t1 = [mode |-> 0, T1M |-> FALSE, reload |-> 0, run |-> FALSE]
    /\ t0 = [mode |-> 0, reload |-> 0, run |-> FALSE]
    /\ smod = FALSE /\ ti = [p \in OnChip |-> FALSE] /\ ren = FALSE
    /\ chan = [p \in External |-> ResetChannel]
    /\ isodisab = FALSE /\ connected = FALSE /\ EA = FALSE /\ enumerated = FALSE
    /\ content = [r \in Regions |-> 1] /\ out2armed = FALSE
    /\ settled = FALSE /\ misses = 0 /\ unlucky = FALSE
    /\ sending = {} /\ junk = {} /\ spoke = {}

Goes(from, to) == at = from /\ at' = to

-----------------------------------------------------------------------------
(* board_init.                                                             *)

\* r1: PB4 stays high-Z, Timer2 makes the UARTs' clock on PB7.
BoardInitR1 ==
    /\ image = "r1" /\ Goes("board_init", "usb_init")
    /\ strobes' = TRUE
    /\ t2' = [run |-> TRUE, out |-> TRUE, reload |-> 65534]
    /\ pins' = [pins EXCEPT !.OUTB4 = FALSE]
    /\ UNCHANGED <<image, core, port, t, t0, content, uartVars, usbVars, luckVars, wireVars>>

\* r2: PB4 the same, PC4 driven low; the clock is the board's crystal.
BoardInitR2 ==
    /\ image = "r2" /\ Goes("board_init", "usb_init")
    /\ strobes' = TRUE
    /\ pins' = [pins EXCEPT !.OUTB4 = FALSE, !.OUTC4 = FALSE, !.OEC4 = TRUE]
    /\ UNCHANGED <<image, core, t2, port, t, t0, content, uartVars, usbVars, luckVars, wireVars>>

\* The probe releases the reset at once; its host configures the UARTs.
BoardInitProbe ==
    /\ image = "probe" /\ Goes("board_init", "usb_init")
    /\ strobes' = TRUE
    /\ t2' = [run |-> TRUE, out |-> TRUE, reload |-> 65534]
    /\ pins' = [pins EXCEPT !.OUTB4 = FALSE, !.OEB4 = TRUE]
    /\ UNCHANGED <<image, core, port, t, t0, content, uartVars, usbVars, luckVars, wireVars>>

-----------------------------------------------------------------------------
(* usb_init, EA, and the resets of the memory that was isochronous.        *)

UsbInit ==
    /\ Goes("usb_init", "renum")
    /\ isodisab' = TRUE
    /\ UNCHANGED <<port, t, t0, content, boardVars, uartVars, connected, EA, enumerated,
                   out2armed, luckVars, wireVars>>

\* USBCS = DISCON, 200 ms, and connected again.
Renumerate ==
    /\ Goes("renum", "EA")
    /\ connected' = TRUE
    /\ UNCHANGED <<port, t, t0, content, boardVars, uartVars, isodisab, EA, enumerated,
                   out2armed, luckVars, wireVars>>

EnableInterrupts ==
    /\ Goes("EA", IF image = "probe" THEN "loop" ELSE "tx_ring")
    /\ EA' = TRUE
    /\ UNCHANGED <<port, t, t0, content, boardVars, uartVars, isodisab, connected, enumerated,
                   out2armed, luckVars, wireVars>>

\* tx_reset, midi_parser_reset, uart_rx_reset.
Zero(region, next) ==
    /\ Goes(region, next)
    /\ content' = [content EXCEPT ![region] = 0]
    /\ UNCHANGED <<port, t, t0, boardVars, uartVars, usbVars, luckVars, wireVars>>

ResetState == \/ Zero("tx_ring", "parser") \/ Zero("parser", "rx_fifo") \/ Zero("rx_fifo", "delay")

-----------------------------------------------------------------------------
(* uart_bringup.                                                           *)

\* The 100 ms are as long as the glue needs.
BringupDelay ==
    /\ Goes("delay", "release") /\ settled
    /\ UNCHANGED <<port, t, t0, content, boardVars, uartVars, usbVars, luckVars, wireVars>>

\* Mutant of Release: the active-low reset of the 452 forgotten.
Release_Only454 ==
    /\ Goes("release", "dlab")
    /\ pins' = [pins EXCEPT !.OEB4 = TRUE]
    /\ port' = 0 /\ t' = 0
    /\ UNCHANGED <<image, core, strobes, t2, t0, content, uartVars, usbVars, luckVars, wireVars>>

\* PB4 driven low; PC4 raised on r2.
Release ==
    /\ Goes("release", "dlab")
    /\ pins' = [pins EXCEPT !.OEB4 = TRUE, !.OUTC4 = @ \/ image = "r2"]
    /\ port' = 0 /\ t' = 0
    /\ UNCHANGED <<image, core, strobes, t2, t0, content, uartVars, usbVars, luckVars, wireVars>>

\* The glue loses a write: before it has settled, or now and then.
Loses(lost) == lost => ~settled \/ misses < MaxMisses
Missed(lost, beyondRepair) ==
    /\ misses' = misses + (IF lost /\ settled THEN 1 ELSE 0)
    /\ unlucky' = (unlucky \/ (lost /\ settled /\ beyondRepair))
    /\ UNCHANGED settled

\* What a write leaves in a channel: DLAB selects what is at 0 and 1, the
\* divisor, or THR and IER.
Latched(c, reg, v) ==
    LET dlab == c.lcr = "dlab" IN
    CASE reg = 0 -> IF dlab THEN [c EXCEPT !.dll = v] ELSE [c EXCEPT !.thr = TRUE]
      [] reg = 1 -> IF dlab THEN [c EXCEPT !.dlm = v] ELSE [c EXCEPT !.ier = v]
      [] reg = 3 -> [c EXCEPT !.lcr = v]
      [] reg = 4 -> [c EXCEPT !.mcr = v]

\* UART_REG(p, reg) = v, where the write latches.
UART_REG(p, reg, v) ==
    IF InReset(p) \/ ~strobes THEN chan ELSE [chan EXCEPT ![p] = Latched(@, reg, v)]

\* Mutant of uart_write_lcr: one try, no matter what is read back.
uart_write_lcr_Once(val, next) ==
    /\ at = val /\ port \in External
    /\ \E lost \in BOOLEAN :
          /\ Loses(lost)
          /\ chan' = IF lost THEN chan ELSE UART_REG(port, 3, val)
          /\ Missed(lost, t + 1 = MaxTries)
          /\ at' = next /\ t' = 0
    /\ UNCHANGED <<port, t0, t1, smod, ti, ren, content, boardVars, usbVars, wireVars>>

\* Mutant of uart_write_lcr: it tries for ever.
uart_write_lcr_Forever(val, next) ==
    /\ at = val /\ port \in External
    /\ \E lost \in BOOLEAN :
          /\ Loses(lost)
          /\ chan' = IF lost THEN chan ELSE UART_REG(port, 3, val)
          /\ Missed(lost, FALSE)
          /\ IF chan'[port].lcr = val THEN at' = next /\ t' = 0 ELSE at' = at /\ t' = t + 1
    /\ UNCHANGED <<port, t0, t1, smod, ti, ren, content, boardVars, usbVars, wireVars>>

\* One round of uart_write_lcr: written, read back, tried again or given up.
uart_write_lcr(val, next) ==
    /\ at = val /\ port \in External
    /\ \E lost \in BOOLEAN :
          /\ Loses(lost)
          /\ chan' = IF lost THEN chan ELSE UART_REG(port, 3, val)
          /\ Missed(lost, t + 1 = MaxTries)
          /\ IF chan'[port].lcr = val \/ t + 1 = MaxTries
             THEN at' = next /\ t' = 0
             ELSE at' = at /\ t' = t + 1
    /\ UNCHANGED <<port, t0, t1, smod, ti, ren, content, boardVars, usbVars, wireVars>>

\* A write that is not read back.
WriteReg(here, reg, v, next) ==
    /\ at = here /\ port \in External
    /\ \E lost \in BOOLEAN :
          /\ Loses(lost)
          /\ chan' = IF lost THEN chan ELSE UART_REG(port, reg, v)
          /\ Missed(lost, TRUE)
    /\ junk' = IF chan'[port].thr THEN junk \cup {port} ELSE junk
    /\ at' = next
    /\ UNCHANGED <<port, t, sending, spoke, t0, t1, smod, ti, ren, content, boardVars, usbVars>>

\* uart_ext_init, port by port; 8N1 before IER, which DLAB would turn to DLM.
uart_ext_init ==
    \/ uart_write_lcr("dlab", "dll")
    \/ WriteReg("dll", 0, Divisor, "dlm")
    \/ WriteReg("dlm", 1, 0, "8n1")
    \/ uart_write_lcr("8n1", "mcr")
    \/ WriteReg("mcr", 4, 0, "ier")
    \/ WriteReg("ier", 1, 0, "next_port")

NextPort ==
    /\ at = "next_port"
    /\ port' = port + 1
    /\ at' = IF port + 1 \in External THEN "dlab" ELSE IF OnChip # {} THEN "onchip" ELSE "rx_start"
    /\ UNCHANGED <<t, t0, content, boardVars, uartVars, usbVars, luckVars, wireVars>>

\* Mutant of uart_onchip_init: TI is left 0.
uart_onchip_init_NoSeed ==
    /\ Goes("onchip", "rx_start")
    /\ ren' = TRUE
    /\ t1' = [mode |-> 2, T1M |-> TRUE, reload |-> 244, run |-> TRUE]
    /\ smod' = (core # 48)
    /\ UNCHANGED <<port, t, t0, ti, chan, content, boardVars, usbVars, luckVars, wireVars>>

uart_onchip_init ==
    /\ Goes("onchip", "rx_start")
    /\ ren' = TRUE
    /\ t1' = [mode |-> 2, T1M |-> TRUE, reload |-> 244, run |-> TRUE]
    /\ smod' = (core # 48)
    /\ ti' = [p \in OnChip |-> TRUE]
    /\ UNCHANGED <<port, t, t0, chan, content, boardVars, usbVars, luckVars, wireVars>>

\* Timer0's nibble of TMOD only; the timer runs, and with it the capture ISR
\* (whose prescaler is RxTiming's).
uart_rx_start ==
    /\ Goes("rx_start", "arm")
    /\ t0' = [mode |-> 2, reload |-> 70, run |-> TRUE]
    /\ UNCHANGED <<port, t, content, boardVars, uartVars, usbVars, luckVars, wireVars>>

ArmOut2 ==
    /\ Goes("arm", "loop")
    /\ out2armed' = TRUE
    /\ UNCHANGED <<port, t, t0, content, boardVars, uartVars, isodisab, connected, EA,
                   enumerated, luckVars, wireVars>>

-----------------------------------------------------------------------------
(* The loop, as far as the transmit side goes: one byte for every port.    *)

uart_tx_ready(p) == IF p \in OnChip THEN ti[p] ELSE ~chan[p].thr

\* A byte to send; with DLAB set it would go to the divisor.
MidiByte == 144

uart_putc(p) ==
    IF p \in OnChip
    THEN ti' = [ti EXCEPT ![p] = FALSE] /\ UNCHANGED chan
    ELSE chan' = UART_REG(p, 0, MidiByte) /\ UNCHANGED ti

Sends(p) ==
    /\ at = "loop" /\ p \notin spoke /\ uart_tx_ready(p)
    /\ uart_putc(p)
    /\ sending' = sending \cup ({p} \cap OnChip)
    /\ UNCHANGED <<at, port, t, t0, t1, smod, ren, content, boardVars, usbVars, luckVars,
                   junk, spoke>>

\* The UART has sent its byte: THRE, or TI, is set again.
UartDone(p) ==
    /\ at = "loop" /\ IF p \in OnChip THEN p \in sending ELSE chan[p].thr
    /\ IF p \in OnChip
       THEN ti' = [ti EXCEPT ![p] = TRUE] /\ UNCHANGED chan
       ELSE chan' = [chan EXCEPT ![p].thr = FALSE] /\ UNCHANGED ti
    /\ sending' = sending \ {p}
    /\ spoke' = spoke \cup {p}
    /\ UNCHANGED <<at, port, t, t0, t1, smod, ren, junk, content, boardVars, usbVars, luckVars>>

-----------------------------------------------------------------------------
(* The board and the host.                                                 *)

Settle ==
    /\ ~settled /\ settled' = TRUE
    /\ UNCHANGED <<at, port, t, t0, content, boardVars, uartVars, usbVars, misses, unlucky, wireVars>>

\* The core writes isochronous data to the memory at 0x2000.
Clobber(region) ==
    /\ ~isodisab
    /\ \E v \in 0 .. 2 : content' = [content EXCEPT ![region] = v]
    /\ UNCHANGED <<at, port, t, t0, boardVars, uartVars, usbVars, luckVars, wireVars>>

\* The host sees the device and gets its first SETUP answered.
Enumerate ==
    /\ connected /\ EA /\ ~enumerated /\ enumerated' = TRUE
    /\ UNCHANGED <<at, port, t, t0, content, boardVars, uartVars, isodisab, connected, EA,
                   out2armed, luckVars, wireVars>>

Main ==
    \/ BoardInitR1 \/ BoardInitR2 \/ BoardInitProbe
    \/ UsbInit \/ Renumerate \/ EnableInterrupts \/ ResetState
    \/ BringupDelay \/ Release \/ uart_ext_init \/ NextPort \/ uart_onchip_init
    \/ uart_rx_start \/ ArmOut2

Next ==
    \/ Main
    \/ \E p \in Ports : Sends(p) \/ UartDone(p)
    \/ Settle
    \/ \E region \in Regions : Clobber(region)
    \/ Enumerate

\* The program goes on, the glue settles, UARTs with a byte send it (those in
\* the loop), the host enumerates.
Spec ==
    /\ Init /\ [][Next]_vars
    /\ WF_vars(Main) /\ WF_vars(Settle) /\ WF_vars(Enumerate)
    /\ WF_vars(\E p \in Ports : Sends(p)) /\ WF_vars(\E p \in Ports : UartDone(p))

-----------------------------------------------------------------------------
(* Properties.                                                             *)

TypeOK ==
    /\ image \in Images /\ core \in {24, 48}
    /\ at \in {"board_init", "usb_init", "renum", "EA", "delay", "release", "dlab", "dll", "dlm",
               "8n1", "mcr", "ier", "next_port", "onchip", "rx_start", "arm", "loop"} \cup Regions
    /\ port \in Nat /\ t \in 0 .. MaxTries - 1
    /\ pins \in [OUTB4 : BOOLEAN, OEB4 : BOOLEAN, OUTC4 : BOOLEAN, OEC4 : BOOLEAN] /\ strobes \in BOOLEAN
    /\ t2 \in [run : BOOLEAN, out : BOOLEAN, reload : Nat]
    /\ t1 \in [mode : 0 .. 3, T1M : BOOLEAN, reload : 0 .. 255, run : BOOLEAN]
    /\ t0 \in [mode : 0 .. 3, reload : 0 .. 255, run : BOOLEAN]
    /\ smod \in BOOLEAN /\ ti \in [OnChip -> BOOLEAN] /\ ren \in BOOLEAN
    /\ chan \in [External -> [lcr : {"5bit", "dlab", "8n1"}, dll : 0 .. 255, dlm : 0 .. 255,
                              ier : 0 .. 255, mcr : {0}, thr : BOOLEAN]]
    /\ isodisab \in BOOLEAN /\ connected \in BOOLEAN /\ EA \in BOOLEAN
    /\ enumerated \in BOOLEAN /\ out2armed \in BOOLEAN
    /\ content \in [Regions -> 0 .. 2]
    /\ settled \in BOOLEAN /\ misses \in 0 .. MaxMisses /\ unlucky \in BOOLEAN
    /\ sending \subseteq OnChip /\ junk \subseteq External /\ spoke \subseteq Ports

\* XIN of the external UARTs, and the baud rate of a port, in Hz.
XIN == IF image = "r2" THEN 12000000
       ELSE IF t2.run /\ t2.out THEN (core * 1000000) \div (12 * (65536 - t2.reload) * 2)
       ELSE 0
Baud(p) ==
    IF p \in External
    THEN LET divisor == chan[p].dll + 256 * chan[p].dlm
         IN  IF divisor = 0 THEN 0 ELSE XIN \div (16 * divisor)
    ELSE IF t1.run /\ t1.mode = 2
    THEN ((IF smod THEN 2 ELSE 1) * core * 1000000)
             \div (32 * (IF t1.T1M THEN 4 ELSE 12) * (256 - t1.reload))
    ELSE 0

\* When main() enters its loop, every port of either board runs at 31250 baud
\* whichever way the 24/48 MHz strap is set, 8N1 and with no interrupt of its
\* own, and none has sent a byte nobody asked for; unless the settled glue
\* lost one LCR write BOARD_UART_LCR_MAX_TRIES times over, or a write that is
\* not read back.  The rings and parsers start from zero.  The probe leaves
\* its UARTs out of reset, with strobes and clock, for the host to set up.
ComesUpRight ==
    at = "loop" /\ ~unlucky =>
        IF image = "probe"
        THEN strobes /\ XIN = 500000 /\ pins.OEB4 /\ ~pins.OUTB4
        ELSE /\ \A p \in External : /\ ~InReset(p)
                                    /\ chan[p].lcr = "8n1" /\ chan[p].ier = 0 /\ chan[p].mcr = 0
             /\ \A p \in Ports : Baud(p) = 31250
             /\ junk = {}
             /\ \A region \in Regions : content[region] = 0

\* Once Timer0 runs, the capture ISR sweeps all ports every few hundred
\* microseconds: by then the FIFOs it writes are zeroed for good, no channel
\* is in reset, whose registers read as anything, and none has DLAB set, with
\* which it would take the divisor for a received byte.
CaptureSafe ==
    t0.run => /\ isodisab /\ content["rx_fifo"] = 0
              /\ \A p \in External : ~InReset(p) /\ (~unlucky => chan[p].lcr # "dlab")
              /\ OnChip # {} => ren

\* The firmware comes up whole: the host gets its SETUPs answered, and every
\* port sends the first byte it is given.
EveryPortSpeaks == <>(enumerated /\ at = "loop" /\ (unlucky \/ spoke = Ports))
=============================================================================
