--------------------------- MODULE BringUpProofs ---------------------------
(***************************************************************************)
(* The way to the main loop, for boards with any number of ports, any      *)
(* number of tries and of lost writes.                                     *)
(***************************************************************************)
EXTENDS BringUp, TLAPS

USE BringUpAssumption

Byte == 0 .. 255
Channels == [lcr : {"5bit", "dlab", "8n1"}, dll : Byte, dlm : Byte, ier : Byte,
             mcr : {0}, thr : BOOLEAN]

Timer2 == [run : BOOLEAN, out : BOOLEAN, reload : Nat]
Pins == [OUTB4 : BOOLEAN, OEB4 : BOOLEAN, OUTC4 : BOOLEAN, OEC4 : BOOLEAN]

-----------------------------------------------------------------------------
(* Registers.                                                              *)

LEMMA LatchedTyped ==
    ASSUME NEW c \in Channels, NEW reg \in {0, 1, 3, 4}, NEW v,
           reg \in {0, 1} => v \in Byte, reg = 3 => v \in {"dlab", "8n1"}, reg = 4 => v = 0
    PROVE  Latched(c, reg, v) \in Channels
<1>1. CASE reg = 0
  BY <1>1 DEF Channels, Latched
<1>2. CASE reg = 1
  BY <1>2 DEF Channels, Latched
<1>3. CASE reg = 3
  BY <1>3 DEF Channels, Latched
<1>4. CASE reg = 4
  BY <1>4 DEF Channels, Latched
<1> QED
  BY <1>1, <1>2, <1>3, <1>4

LEMMA RegisterTyped ==
    ASSUME chan \in [External -> Channels], NEW p, NEW reg \in {0, 1, 3, 4}, NEW v,
           reg \in {0, 1} => v \in Byte, reg = 3 => v \in {"dlab", "8n1"}, reg = 4 => v = 0
    PROVE  UART_REG(p, reg, v) \in [External -> Channels]
<1>1. p \in External => Latched(chan[p], reg, v) \in Channels
  BY LatchedTyped
<1> QED
  BY <1>1 DEF UART_REG

-----------------------------------------------------------------------------
(* The type invariant.                                                     *)

LEMMA TypeInit == Init => TypeOK
<1> SUFFICES ASSUME Init PROVE TypeOK
  OBVIOUS
<1>1. chan \in [External -> Channels]
  <2>1. ResetChannel \in Channels
    BY DEF ResetChannel, Channels, Byte
  <2> QED
    BY <2>1 DEF Init
<1>2. pins \in Pins
  BY DEF Init, Pins
<1>3. t \in 0 .. MaxTries - 1 /\ misses \in 0 .. MaxMisses
  BY DEF Init
<1>4. content \in [Regions -> 0 .. 2] /\ ti \in [OnChip -> BOOLEAN]
  BY DEF Init
<1>5. /\ t2 \in [run : BOOLEAN, out : BOOLEAN, reload : Nat]
      /\ t1 \in [mode : 0 .. 3, T1M : BOOLEAN, reload : 0 .. 255, run : BOOLEAN]
      /\ t0 \in [mode : 0 .. 3, reload : 0 .. 255, run : BOOLEAN]
  BY DEF Init
<1> QED
  BY <1>1, <1>2, <1>3, <1>4, <1>5 DEF Init, TypeOK, Channels, Byte, Pins

\* What no step changes.
LEMMA Build ==
    [Next]_vars => UNCHANGED <<image, core>> /\ External' = External /\ OnChip' = OnChip
                     /\ Ports' = Ports
<1> SUFFICES ASSUME [Next]_vars PROVE UNCHANGED <<image, core>>
  BY DEF External, OnChip, Ports, Kind
<1> USE DEF boardVars
<1>1. CASE BoardInitR1 \/ BoardInitR2 \/ BoardInitProbe
  BY <1>1 DEF BoardInitR1, BoardInitR2, BoardInitProbe
<1>2. CASE UsbInit \/ Renumerate \/ EnableInterrupts \/ ResetState
  BY <1>2 DEF UsbInit, Renumerate, EnableInterrupts, ResetState, Zero
<1>3. CASE BringupDelay \/ Release \/ NextPort \/ uart_onchip_init \/ uart_rx_start \/ ArmOut2
  BY <1>3 DEF BringupDelay, Release, NextPort, uart_onchip_init, uart_rx_start, ArmOut2
<1>4. CASE uart_ext_init
  BY <1>4 DEF uart_ext_init, uart_write_lcr, WriteReg
<1>5. ASSUME NEW p \in Ports, Sends(p) \/ UartDone(p) PROVE UNCHANGED <<image, core>>
  BY <1>5 DEF Sends, UartDone
<1>6. CASE Settle \/ Enumerate \/ (\E region \in Regions : Clobber(region)) \/ UNCHANGED vars
  BY <1>6 DEF Settle, Enumerate, Clobber, vars
<1> QED
  BY <1>1, <1>2, <1>3, <1>4, <1>5, <1>6 DEF Next, Main

\* The steps of a write: what becomes of the channels and of the luck.
LEMMA LcrTyped ==
    ASSUME TypeOK, NEW val \in {"dlab", "8n1"}, NEW next, uart_write_lcr(val, next)
    PROVE  /\ chan' \in [External -> Channels] /\ misses' \in 0 .. MaxMisses
           /\ unlucky' \in BOOLEAN /\ t' \in 0 .. MaxTries - 1 /\ at' \in {next, at}
           /\ UNCHANGED <<port, t0, t1, smod, ti, ren, content, boardVars, usbVars, wireVars, settled>>
<1>1. PICK lost \in BOOLEAN :
          /\ Loses(lost)
          /\ chan' = IF lost THEN chan ELSE UART_REG(port, 3, val)
          /\ Missed(lost, t + 1 = MaxTries)
          /\ IF chan'[port].lcr = val \/ t + 1 = MaxTries
             THEN at' = next /\ t' = 0
             ELSE at' = at /\ t' = t + 1
  BY DEF uart_write_lcr
<1>2. chan' \in [External -> Channels]
  <2>1. chan \in [External -> Channels]
    BY DEF TypeOK, Channels, Byte
  <2>2. UART_REG(port, 3, val) \in [External -> Channels]
    BY <2>1, RegisterTyped
  <2> QED
    BY <1>1, <2>1, <2>2
<1>3. misses' \in 0 .. MaxMisses
  BY <1>1 DEF Missed, Loses, TypeOK
<1>4. t' \in 0 .. MaxTries - 1
  <2>1. t' = 0 \/ (t' = t + 1 /\ t + 1 # MaxTries)
    BY <1>1
  <2>2. t \in 0 .. MaxTries - 1
    BY DEF TypeOK
  <2> QED
    BY <2>1, <2>2
<1> QED
  BY <1>1, <1>2, <1>3, <1>4 DEF uart_write_lcr, Missed, TypeOK

LEMMA RegTyped ==
    ASSUME TypeOK, NEW here, NEW reg \in {0, 1, 4}, NEW v \in Byte, NEW next,
           reg = 4 => v = 0, WriteReg(here, reg, v, next)
    PROVE  /\ chan' \in [External -> Channels] /\ misses' \in 0 .. MaxMisses
           /\ unlucky' \in BOOLEAN /\ junk' \subseteq External /\ at' = next
           /\ UNCHANGED <<port, t, sending, spoke, t0, t1, smod, ti, ren, content,
                          boardVars, usbVars, settled>>
<1>1. PICK lost \in BOOLEAN :
          /\ Loses(lost)
          /\ chan' = IF lost THEN chan ELSE UART_REG(port, reg, v)
          /\ Missed(lost, TRUE)
  BY DEF WriteReg
<1>2. chan' \in [External -> Channels]
  <2>1. chan \in [External -> Channels]
    BY DEF TypeOK, Channels, Byte
  <2> QED
    BY <1>1, <2>1, RegisterTyped
<1>3. misses' \in 0 .. MaxMisses
  BY <1>1 DEF Missed, Loses, TypeOK
<1>4. junk' \subseteq External
  BY DEF WriteReg, TypeOK
<1> QED
  BY <1>1, <1>2, <1>3, <1>4 DEF WriteReg, Missed, TypeOK

\* What TypeOK says of the wires of main()'s plain steps.
LEMMA TypeStep == TypeOK /\ [Next]_vars => TypeOK'
<1> SUFFICES ASSUME TypeOK, [Next]_vars PROVE TypeOK'
  OBVIOUS
<1>0. UNCHANGED <<image, core>> /\ External' = External /\ OnChip' = OnChip /\ Ports' = Ports
  BY Build
<1> DEFINE others == <<port, t, t0, t1, smod, ti, ren, chan, content, usbVars, luckVars, wireVars>>
<1>1. ASSUME BoardInitR1 \/ BoardInitR2 \/ BoardInitProbe PROVE TypeOK'
  <2>1. /\ at' \in {"usb_init"} /\ strobes' = TRUE /\ UNCHANGED others
        /\ t2' = t2 \/ t2' = [run |-> TRUE, out |-> TRUE, reload |-> 65534]
    BY <1>1 DEF BoardInitR1, BoardInitR2, BoardInitProbe, Goes, uartVars
  <2>2. pins' \in Pins
    <3>1. pins \in Pins
      BY DEF TypeOK, Pins
    <3>2. \/ pins' = [pins EXCEPT !.OUTB4 = FALSE]
          \/ pins' = [pins EXCEPT !.OUTB4 = FALSE, !.OUTC4 = FALSE, !.OEC4 = TRUE]
          \/ pins' = [pins EXCEPT !.OUTB4 = FALSE, !.OEB4 = TRUE]
      BY <1>1 DEF BoardInitR1, BoardInitR2, BoardInitProbe
    <3> QED
      BY <3>1, <3>2 DEF Pins
  <2>3. t2' \in Timer2
    <3>1. t2 \in Timer2
      BY DEF TypeOK, Timer2
    <3>2. [run |-> TRUE, out |-> TRUE, reload |-> 65534] \in Timer2
      BY DEF Timer2
    <3>3. CASE t2' = t2
      BY <3>1, <3>3
    <3>4. CASE t2' = [run |-> TRUE, out |-> TRUE, reload |-> 65534]
      BY <3>2, <3>4
    <3> QED
      BY <2>1, <3>3, <3>4
  <2> QED
    BY <1>0, <2>1, <2>2, <2>3 DEF TypeOK, Pins, Timer2, usbVars, luckVars, wireVars
<1>2. CASE UsbInit
  BY <1>0, <1>2 DEF UsbInit, Goes, TypeOK, boardVars, uartVars, luckVars, wireVars
<1>3. CASE Renumerate
  BY <1>0, <1>3 DEF Renumerate, Goes, TypeOK, boardVars, uartVars, luckVars, wireVars
<1>4. CASE EnableInterrupts
  <2>1. at' \in {"loop", "tx_ring"}
    BY <1>4 DEF EnableInterrupts, Goes
  <2> QED
    BY <1>0, <1>4, <2>1 DEF EnableInterrupts, TypeOK, Regions, boardVars, uartVars, luckVars, wireVars
<1>5. ASSUME NEW region, NEW next \in {"parser", "rx_fifo", "delay"}, Zero(region, next)
      PROVE  TypeOK'
  <2>1. content' \in [Regions -> 0 .. 2]
    <3>1. content' = [content EXCEPT ![region] = 0] /\ content \in [Regions -> 0 .. 2]
      BY <1>5 DEF Zero, TypeOK
    <3>2. 0 \in 0 .. 2
      OBVIOUS
    <3> QED
      BY <3>1, <3>2, Zenon
  <2>2. at' = next
    BY <1>5 DEF Zero, Goes
  <2> QED
    BY <1>0, <1>5, <2>1, <2>2 DEF Zero, TypeOK, Regions, boardVars, uartVars, usbVars, luckVars, wireVars
<1>6. CASE BringupDelay
  BY <1>0, <1>6 DEF BringupDelay, Goes, TypeOK, boardVars, uartVars, usbVars, luckVars, wireVars
<1>7. CASE Release
  <2>1. pins' \in Pins
    BY <1>7 DEF Release, TypeOK, Pins
  <2>2. t' \in 0 .. MaxTries - 1
    BY <1>7 DEF Release
  <2> QED
    BY <1>0, <1>7, <2>1, <2>2 DEF Release, Goes, TypeOK, Pins, uartVars, usbVars, luckVars, wireVars
<1>8. ASSUME NEW val \in {"dlab", "8n1"}, NEW next \in {"dll", "mcr"}, uart_write_lcr(val, next)
      PROVE  TypeOK'
  <2>1. /\ chan' \in [External -> Channels] /\ misses' \in 0 .. MaxMisses
        /\ unlucky' \in BOOLEAN /\ t' \in 0 .. MaxTries - 1 /\ at' \in {next, at}
        /\ UNCHANGED <<port, t0, t1, smod, ti, ren, content, boardVars, usbVars, wireVars, settled>>
    BY <1>8, LcrTyped
  <2> QED
    BY <1>0, <2>1 DEF TypeOK, Channels, Byte, boardVars, usbVars, wireVars
<1>9. ASSUME NEW here, NEW reg \in {0, 1, 4}, NEW v \in Byte, reg = 4 => v = 0,
             NEW next \in {"dlm", "8n1", "ier", "next_port"}, WriteReg(here, reg, v, next)
      PROVE  TypeOK'
  <2>1. /\ chan' \in [External -> Channels] /\ misses' \in 0 .. MaxMisses
        /\ unlucky' \in BOOLEAN /\ junk' \subseteq External /\ at' = next
        /\ UNCHANGED <<port, t, sending, spoke, t0, t1, smod, ti, ren, content,
                       boardVars, usbVars, settled>>
    BY <1>9, RegTyped
  <2> QED
    BY <1>0, <2>1 DEF TypeOK, Channels, Byte, boardVars, usbVars
<1>10. CASE uart_ext_init
  <2>1. Divisor \in Byte /\ 0 \in Byte
    BY DEF Divisor, Byte
  <2>2. uart_write_lcr("dlab", "dll") => TypeOK'
    BY <1>8
  <2>3. uart_write_lcr("8n1", "mcr") => TypeOK'
    BY <1>8
  <2>4. WriteReg("dll", 0, Divisor, "dlm") => TypeOK'
    BY <1>9, <2>1
  <2>5. WriteReg("dlm", 1, 0, "8n1") => TypeOK'
    BY <1>9, <2>1
  <2>6. WriteReg("mcr", 4, 0, "ier") => TypeOK'
    BY <1>9, <2>1
  <2>7. WriteReg("ier", 1, 0, "next_port") => TypeOK'
    BY <1>9, <2>1
  <2> QED
    BY <1>10, <2>2, <2>3, <2>4, <2>5, <2>6, <2>7 DEF uart_ext_init
<1>11. CASE NextPort
  BY <1>0, <1>11 DEF NextPort, TypeOK, boardVars, uartVars, usbVars, luckVars, wireVars
<1>12. CASE uart_onchip_init
  <2>1. /\ t1' \in [mode : 0 .. 3, T1M : BOOLEAN, reload : 0 .. 255, run : BOOLEAN]
        /\ ti' \in [OnChip -> BOOLEAN] /\ smod' \in BOOLEAN
    BY <1>12 DEF uart_onchip_init
  <2> QED
    BY <1>0, <1>12, <2>1 DEF uart_onchip_init, Goes, TypeOK, boardVars, usbVars, luckVars, wireVars
<1>13. CASE uart_rx_start
  <2>1. t0' \in [mode : 0 .. 3, reload : 0 .. 255, run : BOOLEAN]
    BY <1>13 DEF uart_rx_start
  <2> QED
    BY <1>0, <1>13, <2>1 DEF uart_rx_start, Goes, TypeOK, boardVars, uartVars, usbVars, luckVars, wireVars
<1>14. CASE ArmOut2
  BY <1>0, <1>14 DEF ArmOut2, Goes, TypeOK, boardVars, uartVars, luckVars, wireVars
<1>15. ASSUME NEW p \in Ports, Sends(p) PROVE TypeOK'
  <2>1. ti' \in [OnChip -> BOOLEAN] /\ chan' \in [External -> Channels]
    <3>1. ti \in [OnChip -> BOOLEAN] /\ chan \in [External -> Channels]
      BY DEF TypeOK, Channels, Byte
    <3>2. UART_REG(p, 0, MidiByte) \in [External -> Channels]
      BY <3>1, RegisterTyped DEF Byte, MidiByte
    <3> QED
      BY <1>15, <3>1, <3>2 DEF Sends, uart_putc
  <2>2. sending' \subseteq OnChip
    BY <1>15 DEF Sends, TypeOK
  <2> QED
    BY <1>0, <1>15, <2>1, <2>2 DEF Sends, TypeOK, Channels, Byte, boardVars, usbVars, luckVars
<1>16. ASSUME NEW p \in Ports, UartDone(p) PROVE TypeOK'
  <2>1. ti' \in [OnChip -> BOOLEAN] /\ chan' \in [External -> Channels]
    <3>1. ti \in [OnChip -> BOOLEAN] /\ chan \in [External -> Channels]
      BY DEF TypeOK, Channels, Byte
    <3>2. [chan EXCEPT ![p].thr = FALSE] \in [External -> Channels]
      BY <3>1 DEF Channels
    <3> QED
      BY <1>16, <3>1, <3>2 DEF UartDone
  <2>2. sending' \subseteq OnChip /\ spoke' \subseteq Ports
    BY <1>16 DEF UartDone, TypeOK
  <2> QED
    BY <1>0, <1>16, <2>1, <2>2 DEF UartDone, TypeOK, Channels, Byte, boardVars, usbVars, luckVars
<1>17. CASE Settle
  BY <1>0, <1>17 DEF Settle, TypeOK, boardVars, uartVars, usbVars, wireVars
<1>18. ASSUME NEW region, Clobber(region) PROVE TypeOK'
  <2>1. content' \in [Regions -> 0 .. 2]
    <3>1. PICK v \in 0 .. 2 : content' = [content EXCEPT ![region] = v]
      BY <1>18 DEF Clobber
    <3> QED
      BY <3>1 DEF TypeOK
  <2> QED
    BY <1>0, <1>18, <2>1 DEF Clobber, TypeOK, boardVars, uartVars, usbVars, luckVars, wireVars
<1>19. CASE Enumerate
  BY <1>0, <1>19 DEF Enumerate, TypeOK, boardVars, uartVars, luckVars, wireVars
<1>20. CASE UNCHANGED vars
  BY <1>0, <1>20 DEF vars, TypeOK, boardVars, uartVars, usbVars, luckVars, wireVars
<1> QED
  BY <1>1, <1>2, <1>3, <1>4, <1>5, <1>6, <1>7, <1>10, <1>11, <1>12, <1>13, <1>14, <1>15, <1>16,
     <1>17, <1>18, <1>19, <1>20 DEF Next, Main, ResetState

\* Bring-up writes no register a value it cannot hold, and uart_write_lcr
\* never goes beyond its tries.
THEOREM TypeCorrect == Spec => []TypeOK
  BY TypeInit, TypeStep, PTL DEF Spec

-----------------------------------------------------------------------------
(* What main() has done by the time it is somewhere.                       *)

Early == {"board_init", "usb_init"}
Configuring == {"dlab", "dll", "dlm", "8n1", "mcr", "ier", "next_port"}
Started == {"onchip", "rx_start", "arm", "loop"}

\* The probe's main() goes from EA to its loop; only the others' starts Timer0,
\* after the delay that lets the glue settle.
PathInv ==
    /\ image = "probe" => at \in Early \cup {"renum", "EA", "loop"}
    /\ at \notin Early => isodisab
    /\ image # "probe" /\ at \in {"release"} \cup Configuring \cup Started => settled
    /\ t0.run => image # "probe" /\ at \in {"arm", "loop"}

\* board_init's pins and clock, and the resets Release lets go.
PinsInv ==
    /\ ~pins.OUTB4
    /\ image # "r2" => core = 24
    /\ at # "board_init" =>
          /\ strobes
          /\ image # "r2" => t2 = [run |-> TRUE, out |-> TRUE, reload |-> 65534]
          /\ image = "r2" => pins.OEC4
          /\ image = "probe" => pins.OEB4
    /\ image # "probe" /\ at \in Configuring \cup Started
          => pins.OEB4 /\ (image = "r2" => pins.OUTC4)

\* The regions main() has zeroed.
ContentInv ==
    image # "probe" /\ at \notin Early \cup {"renum", "EA", "tx_ring"} =>
        /\ content["tx_ring"] = 0
        /\ at # "parser" => content["parser"] = 0
        /\ at \notin {"parser", "rx_fifo"} => content["rx_fifo"] = 0

\* The on-chip UARTs.
OnChipInv ==
    image # "probe" /\ at \in {"rx_start", "arm", "loop"} /\ OnChip # {} =>
        /\ ren /\ smod = (core # 48)
        /\ t1 = [mode |-> 2, T1M |-> TRUE, reload |-> 244, run |-> TRUE]

LEMMA PathStep == TypeOK /\ PathInv /\ [Next]_vars => PathInv'
<1> SUFFICES ASSUME TypeOK, PathInv, [Next]_vars PROVE PathInv'
  OBVIOUS
<1> USE DEF PathInv, Early, Configuring, Started
<1>0. image' = image
  BY Build
<1>1. CASE BoardInitR1 \/ BoardInitR2 \/ BoardInitProbe
  BY <1>0, <1>1 DEF BoardInitR1, BoardInitR2, BoardInitProbe, Goes, luckVars, usbVars
<1>2. CASE UsbInit \/ Renumerate \/ EnableInterrupts
  BY <1>0, <1>2 DEF UsbInit, Renumerate, EnableInterrupts, Goes, luckVars
<1>3. CASE ResetState
  BY <1>0, <1>3 DEF ResetState, Zero, Goes, luckVars, usbVars
<1>4. CASE BringupDelay
  BY <1>0, <1>4 DEF BringupDelay, Goes, luckVars, usbVars
<1>5. CASE Release
  BY <1>0, <1>5 DEF Release, Goes, luckVars, usbVars
<1>6. CASE uart_ext_init
  BY <1>0, <1>6 DEF uart_ext_init, uart_write_lcr, WriteReg, Missed, usbVars
<1>7. CASE NextPort
  BY <1>0, <1>7 DEF NextPort, luckVars, usbVars
<1>8. CASE uart_onchip_init
  BY <1>0, <1>8 DEF uart_onchip_init, Goes, luckVars, usbVars
<1>9. CASE uart_rx_start
  BY <1>0, <1>9 DEF uart_rx_start, Goes, luckVars, usbVars
<1>10. CASE ArmOut2
  BY <1>0, <1>10 DEF ArmOut2, Goes, luckVars
<1>11. ASSUME NEW p \in Ports, Sends(p) \/ UartDone(p) PROVE PathInv'
  BY <1>0, <1>11 DEF Sends, UartDone, luckVars, usbVars
<1>12. CASE Settle \/ Enumerate \/ (\E region \in Regions : Clobber(region)) \/ UNCHANGED vars
  BY <1>0, <1>12 DEF Settle, Enumerate, Clobber, vars, luckVars, usbVars
<1> QED
  BY <1>1, <1>2, <1>3, <1>4, <1>5, <1>6, <1>7, <1>8, <1>9, <1>10, <1>11, <1>12 DEF Next, Main

LEMMA Configures ==
    uart_ext_init => at \in Configuring /\ at' \in Configuring /\ UNCHANGED boardVars
                        /\ UNCHANGED <<pins, strobes, t2>>
<1> USE DEF boardVars, Configuring
<1>1. ASSUME NEW val \in {"dlab", "8n1"}, NEW next \in Configuring, uart_write_lcr(val, next)
      PROVE  at \in Configuring /\ at' \in Configuring /\ UNCHANGED boardVars
  BY <1>1 DEF uart_write_lcr
<1>2. ASSUME NEW here \in Configuring, NEW reg, NEW v, NEW next \in Configuring,
             WriteReg(here, reg, v, next)
      PROVE  at \in Configuring /\ at' \in Configuring /\ UNCHANGED boardVars
  BY <1>2 DEF WriteReg
<1> QED
  BY <1>1, <1>2 DEF uart_ext_init

LEMMA PinsStep == TypeOK /\ PathInv /\ PinsInv /\ [Next]_vars => PinsInv'
<1> SUFFICES ASSUME TypeOK, PathInv, PinsInv, [Next]_vars PROVE PinsInv'
  OBVIOUS
<1> USE DEF PinsInv, Configuring, Started
<1>0. image' = image /\ core' = core
  BY Build
<1>1. CASE BoardInitR1
  BY <1>0, <1>1 DEF BoardInitR1, Goes, TypeOK
<1>2. CASE BoardInitR2
  BY <1>0, <1>2 DEF BoardInitR2, Goes, TypeOK
<1>3. CASE BoardInitProbe
  BY <1>0, <1>3 DEF BoardInitProbe, Goes, TypeOK
<1>4. CASE UsbInit \/ Renumerate \/ EnableInterrupts
  BY <1>0, <1>4 DEF UsbInit, Renumerate, EnableInterrupts, Goes, boardVars
<1>5. CASE ResetState
  BY <1>0, <1>5 DEF ResetState, Zero, Goes, boardVars
<1>6. CASE BringupDelay
  BY <1>0, <1>6 DEF BringupDelay, Goes, boardVars
<1>7. CASE Release
  BY <1>0, <1>7 DEF Release, Goes, TypeOK
<1>8. CASE uart_ext_init
  BY <1>0, <1>8, Configures
<1>9. CASE NextPort
  BY <1>0, <1>9 DEF NextPort, boardVars
<1>10. CASE uart_onchip_init \/ uart_rx_start \/ ArmOut2
  BY <1>0, <1>10 DEF uart_onchip_init, uart_rx_start, ArmOut2, Goes, boardVars
<1>11. ASSUME NEW p \in Ports, Sends(p) \/ UartDone(p) PROVE PinsInv'
  BY <1>0, <1>11 DEF Sends, UartDone, boardVars
<1>12. CASE Settle \/ Enumerate \/ (\E region \in Regions : Clobber(region)) \/ UNCHANGED vars
  BY <1>0, <1>12 DEF Settle, Enumerate, Clobber, vars, boardVars
<1> QED
  BY <1>1, <1>2, <1>3, <1>4, <1>5, <1>6, <1>7, <1>8, <1>9, <1>10, <1>11, <1>12 DEF Next, Main

LEMMA ContentStep == TypeOK /\ PathInv /\ ContentInv /\ [Next]_vars => ContentInv'
<1> SUFFICES ASSUME TypeOK, PathInv, ContentInv, [Next]_vars PROVE ContentInv'
  OBVIOUS
<1> USE DEF ContentInv, Early
<1>0. image' = image
  BY Build
<1>1. CASE BoardInitR1 \/ BoardInitR2 \/ BoardInitProbe
  BY <1>0, <1>1 DEF BoardInitR1, BoardInitR2, BoardInitProbe, Goes
<1>2. CASE UsbInit \/ Renumerate \/ EnableInterrupts
  BY <1>0, <1>2 DEF UsbInit, Renumerate, EnableInterrupts, Goes
<1>3. CASE ResetState
  BY <1>0, <1>3 DEF ResetState, Zero, Goes, TypeOK, Regions
<1>4. CASE BringupDelay \/ Release
  BY <1>0, <1>4 DEF BringupDelay, Release, Goes
<1>5. CASE uart_ext_init
  BY <1>0, <1>5 DEF uart_ext_init, uart_write_lcr, WriteReg
<1>6. CASE NextPort
  BY <1>0, <1>6 DEF NextPort
<1>7. CASE uart_onchip_init \/ uart_rx_start \/ ArmOut2
  BY <1>0, <1>7 DEF uart_onchip_init, uart_rx_start, ArmOut2, Goes
<1>8. ASSUME NEW p \in Ports, Sends(p) \/ UartDone(p) PROVE ContentInv'
  BY <1>0, <1>8 DEF Sends, UartDone
<1>9. ASSUME NEW region \in Regions, Clobber(region) PROVE ContentInv'
  BY <1>0, <1>9 DEF Clobber, PathInv
<1>10. CASE Settle \/ Enumerate \/ UNCHANGED vars
  BY <1>0, <1>10 DEF Settle, Enumerate, vars
<1> QED
  BY <1>1, <1>2, <1>3, <1>4, <1>5, <1>6, <1>7, <1>8, <1>9, <1>10 DEF Next, Main

LEMMA OnChipStep == TypeOK /\ PathInv /\ OnChipInv /\ [Next]_vars => OnChipInv'
<1> SUFFICES ASSUME TypeOK, PathInv, OnChipInv, [Next]_vars PROVE OnChipInv'
  OBVIOUS
<1>0. image' = image /\ core' = core /\ OnChip' = OnChip
  BY Build
<1>1. CASE at' = at /\ UNCHANGED <<ren, smod, t1>>
  BY <1>0, <1>1 DEF OnChipInv
<1>2. CASE uart_onchip_init
  BY <1>0, <1>2 DEF uart_onchip_init, OnChipInv
<1>3. CASE NextPort
  BY <1>0, <1>3 DEF NextPort, OnChipInv
<1>4. CASE uart_rx_start \/ ArmOut2
  BY <1>0, <1>4 DEF uart_rx_start, ArmOut2, Goes, OnChipInv, uartVars
<1>5. CASE at' \notin {"rx_start", "arm", "loop"} \/ image = "probe"
  BY <1>0, <1>5 DEF OnChipInv
<1>6. CASE EnableInterrupts
  BY <1>0, <1>6 DEF EnableInterrupts, Goes, OnChipInv
<1>7. CASE uart_ext_init
  <2>1. at' \notin {"rx_start", "arm", "loop"}
    BY <1>7 DEF uart_ext_init, uart_write_lcr, WriteReg
  <2> QED
    BY <1>5, <2>1
<1>8. ASSUME BoardInitR1 \/ BoardInitR2 \/ BoardInitProbe \/ UsbInit \/ Renumerate
             \/ ResetState \/ BringupDelay \/ Release
      PROVE  at' \notin {"rx_start", "arm", "loop"}
  BY <1>8 DEF BoardInitR1, BoardInitR2, BoardInitProbe, UsbInit, Renumerate, ResetState, Zero,
              BringupDelay, Release, Goes
<1>9. ASSUME NEW p \in Ports, Sends(p) \/ UartDone(p) PROVE at' = at /\ UNCHANGED <<ren, smod, t1>>
  BY <1>9 DEF Sends, UartDone
<1>10. ASSUME Settle \/ Enumerate \/ (\E region \in Regions : Clobber(region)) \/ UNCHANGED vars
       PROVE  at' = at /\ UNCHANGED <<ren, smod, t1>>
  BY <1>10 DEF Settle, Enumerate, Clobber, vars, uartVars
<1> QED
  BY <1>1, <1>2, <1>3, <1>4, <1>5, <1>6, <1>7, <1>8, <1>9, <1>10 DEF Next, Main

-----------------------------------------------------------------------------
(* The external channels, while no write has been lost beyond repair.      *)

Holds(c, lcr, dll, dlm) ==
    c.lcr = lcr /\ c.dll = dll /\ c.dlm = dlm /\ c.ier = 0 /\ c.mcr = 0 /\ ~c.thr
Untouched(c) == Holds(c, "5bit", 0, 255)
SetUp(c) == Holds(c, "8n1", Divisor, 0)

\* The channel main() is busy with, by where it is.
Halfway(a, c) ==
    /\ a = "dlab" => Untouched(c)
    /\ a = "dll"  => Holds(c, "dlab", 0, 255)
    /\ a = "dlm"  => Holds(c, "dlab", Divisor, 255)
    /\ a = "8n1"  => Holds(c, "dlab", Divisor, 0)
    /\ a \in {"mcr", "ier", "next_port"} => SetUp(c)

\* Set up, whatever there is in THR.
Speaks(c) == c.lcr = "8n1" /\ c.dll = Divisor /\ c.dlm = 0 /\ c.ier = 0 /\ c.mcr = 0

\* Before the release no channel has been written to; then the ports before
\* the present one are set up and those behind it untouched.
Progress(p) ==
    IF at \notin Configuring \/ port < p THEN Untouched(chan[p])
    ELSE IF port = p THEN Halfway(at, chan[p]) ELSE SetUp(chan[p])

ChannelInv ==
    ~unlucky /\ image # "probe" =>
        /\ junk = {}
        /\ at \notin Started => \A p \in External : Progress(p)
        /\ at \in Started => \A p \in External : Speaks(chan[p])

\* What a write that latches makes of a channel.
LEMMA LatchedHolds ==
    ASSUME NEW c \in Channels, NEW l, NEW d, NEW m, Holds(c, l, d, m), NEW v
    PROVE  /\ Holds(Latched(c, 3, v), v, d, m)
           /\ l = "dlab" => Holds(Latched(c, 0, v), l, v, m)
           /\ l = "dlab" => Holds(Latched(c, 1, v), l, d, v)
           /\ l = "8n1" => Holds(Latched(c, 1, 0), l, d, m)
           /\ Holds(Latched(c, 4, 0), l, d, m)
<1>1. Holds(Latched(c, 3, v), v, d, m)
  BY DEF Latched, Channels, Holds
<1>2. l = "dlab" => Holds(Latched(c, 0, v), l, v, m)
  BY DEF Latched, Channels, Holds
<1>3. l = "dlab" => Holds(Latched(c, 1, v), l, d, v)
  BY DEF Latched, Channels, Holds
<1>4. l = "8n1" => Holds(Latched(c, 1, 0), l, d, m)
  BY DEF Latched, Channels, Holds
<1>5. Holds(Latched(c, 4, 0), l, d, m)
  BY DEF Latched, Channels, Holds
<1> QED
  BY <1>1, <1>2, <1>3, <1>4, <1>5

LEMMA OutOfReset ==
    ASSUME TypeOK, PinsInv, image # "probe", at \in Configuring \cup Started, NEW p \in External
    PROVE  ~InReset(p) /\ strobes
<1>1. strobes /\ ~pins.OUTB4 /\ pins.OEB4 /\ (image = "r2" => pins.OEC4 /\ pins.OUTC4)
  BY DEF PinsInv, Configuring, Started
<1>2. image # "r2" => Kind(p) = "454"
  <2>1. p \in DOMAIN Chip[image] /\ image \in {"r1", "r2"}
    BY DEF External, Ports, TypeOK, Images
  <2> QED
    BY <2>1 DEF Kind
<1> QED
  BY <1>1, <1>2 DEF InReset

\* A write that is not lost reaches its channel, and no other.
LEMMA Reaches ==
    ASSUME TypeOK, PinsInv, image # "probe", at \in Configuring, port \in External,
           NEW reg, NEW v, chan' = UART_REG(port, reg, v)
    PROVE  /\ chan'[port] = Latched(chan[port], reg, v)
           /\ \A p \in External : p # port => chan'[p] = chan[p]
<1>1. ~InReset(port) /\ strobes
  BY OutOfReset
<1>2. chan' = [chan EXCEPT ![port] = Latched(chan[port], reg, v)]
  BY <1>1 DEF UART_REG
<1>3. chan \in [External -> Channels]
  BY DEF TypeOK, Channels, Byte
<1> QED
  BY <1>2, <1>3

\* What the next lemmas assume of a state on the way.
OnTheWay ==
    TypeOK /\ PathInv /\ PinsInv /\ ChannelInv /\ image # "probe" /\ at \in Configuring

LEMMA Present ==
    ASSUME OnTheWay, ~unlucky, port \in External
    PROVE  Halfway(at, chan[port]) /\ chan[port] \in Channels
<1>1. Progress(port) /\ ~(port < port)
  BY DEF OnTheWay, ChannelInv, Configuring, Started, TypeOK
<1> QED
  BY <1>1 DEF Progress, OnTheWay, TypeOK, Channels, Byte

\* A step that takes the present channel from one stage to the next keeps
\* the progress of all.
LEMMA Progresses ==
    ASSUME OnTheWay, ~unlucky, image' = image, External' = External, UNCHANGED port,
           at' \in Configuring,
           Halfway(at', chan'[port]), \A p \in External : p # port => chan'[p] = chan[p]
    PROVE  \A p \in External' : Progress(p)'
<1> SUFFICES ASSUME NEW p \in External PROVE Progress(p)'
  OBVIOUS
<1>1. Progress(p)
  BY DEF OnTheWay, ChannelInv, Configuring, Started
<1>2. Divisor' = Divisor
  BY DEF Divisor
<1>3. CASE p = port
  <2>1. ~(port' < p)
    BY <1>3 DEF OnTheWay, TypeOK
  <2> QED
    BY <1>2, <1>3, <2>1 DEF Progress, Halfway, Untouched, SetUp
<1>4. CASE p # port
  BY <1>1, <1>2, <1>4 DEF Progress, OnTheWay, Untouched, SetUp
<1> QED
  BY <1>3, <1>4

LEMMA WriteProgress ==
    ASSUME OnTheWay, ~unlucky', NEW here, NEW reg, NEW v, NEW next \in Configuring,
           WriteReg(here, reg, v, next), image' = image, External' = External,
           \A c \in Channels : Halfway(here, c) => /\ Halfway(next, Latched(c, reg, v))
                                                  /\ ~Latched(c, reg, v).thr
    PROVE  ChannelInv'
<1>1. PICK lost \in BOOLEAN : /\ chan' = IF lost THEN chan ELSE UART_REG(port, reg, v)
                              /\ Missed(lost, TRUE)
  BY DEF WriteReg
<1>2. settled /\ at = here /\ at' = next /\ port \in External /\ UNCHANGED port
  BY DEF WriteReg, OnTheWay, PathInv
<1>3. ~lost /\ ~unlucky
  BY <1>1, <1>2 DEF Missed
<1>4. /\ chan'[port] = Latched(chan[port], reg, v)
      /\ \A p \in External : p # port => chan'[p] = chan[p]
  BY <1>1, <1>2, <1>3, Reaches DEF OnTheWay
<1>5. Halfway(next, chan'[port]) /\ ~chan'[port].thr
  BY <1>2, <1>3, <1>4, Present
<1>6. junk' = {}
  BY <1>2, <1>3, <1>5 DEF WriteReg, OnTheWay, ChannelInv
<1> QED
  BY <1>2, <1>3, <1>4, <1>5, <1>6, Progresses DEF ChannelInv, Configuring, Started

LEMMA LcrProgress ==
    ASSUME OnTheWay, ~unlucky', NEW val, NEW next \in Configuring,
           uart_write_lcr(val, next), image' = image, External' = External,
           \A c \in Channels : Halfway(val, c) => /\ c.lcr # val
                                                 /\ Halfway(next, Latched(c, 3, val))
                                                 /\ Latched(c, 3, val).lcr = val
    PROVE  ChannelInv'
<1>1. PICK lost \in BOOLEAN :
          /\ chan' = IF lost THEN chan ELSE UART_REG(port, 3, val)
          /\ Missed(lost, t + 1 = MaxTries)
          /\ IF chan'[port].lcr = val \/ t + 1 = MaxTries
             THEN at' = next /\ t' = 0
             ELSE at' = at /\ t' = t + 1
  BY DEF uart_write_lcr
<1>2. /\ settled /\ at = val /\ port \in External /\ UNCHANGED <<port, junk>>
      /\ at' \in Configuring
  BY <1>1 DEF uart_write_lcr, OnTheWay, PathInv, wireVars
<1>3. ~unlucky /\ (lost => t + 1 # MaxTries)
  BY <1>1, <1>2 DEF Missed
<1>4. Halfway(val, chan[port]) /\ chan[port] \in Channels
  BY <1>2, <1>3, Present
<1>5. Halfway(at', chan'[port]) /\ \A p \in External : p # port => chan'[p] = chan[p]
  <2>1. CASE lost
    BY <1>1, <1>2, <1>3, <1>4, <2>1
  <2>2. CASE ~lost
    <3>1. /\ chan'[port] = Latched(chan[port], 3, val)
          /\ \A p \in External : p # port => chan'[p] = chan[p]
      BY <1>1, <1>2, <2>2, Reaches DEF OnTheWay
    <3> QED
      BY <1>1, <1>4, <3>1
  <2> QED
    BY <2>1, <2>2
<1>6. junk' = {}
  BY <1>2, <1>3 DEF OnTheWay, ChannelInv
<1> QED
  BY <1>2, <1>3, <1>5, <1>6, Progresses DEF ChannelInv, OnTheWay, Configuring, Started

\* uart_ext_init takes a channel through these stages.
LEMMA ExtProgress ==
    ASSUME OnTheWay, ~unlucky', uart_ext_init, image' = image, External' = External
    PROVE  ChannelInv'
<1> USE LatchedHolds DEF Halfway, Untouched, SetUp, Configuring
<1>1. CASE uart_write_lcr("dlab", "dll")
  <2>1. \A c \in Channels : Halfway("dlab", c) =>
            /\ c.lcr # "dlab" /\ Halfway("dll", Latched(c, 3, "dlab"))
            /\ Latched(c, 3, "dlab").lcr = "dlab"
    BY DEF Holds
  <2> QED
    BY <1>1, <2>1, LcrProgress
<1>2. CASE WriteReg("dll", 0, Divisor, "dlm")
  <2>1. \A c \in Channels : Halfway("dll", c) =>
            Halfway("dlm", Latched(c, 0, Divisor)) /\ ~Latched(c, 0, Divisor).thr
    BY DEF Holds
  <2> QED
    BY <1>2, <2>1, WriteProgress
<1>3. CASE WriteReg("dlm", 1, 0, "8n1")
  <2>1. \A c \in Channels : Halfway("dlm", c) =>
            Halfway("8n1", Latched(c, 1, 0)) /\ ~Latched(c, 1, 0).thr
    BY DEF Holds
  <2> QED
    BY <1>3, <2>1, WriteProgress
<1>4. CASE uart_write_lcr("8n1", "mcr")
  <2>1. \A c \in Channels : Halfway("8n1", c) =>
            /\ c.lcr # "8n1" /\ Halfway("mcr", Latched(c, 3, "8n1"))
            /\ Latched(c, 3, "8n1").lcr = "8n1"
    BY DEF Holds
  <2> QED
    BY <1>4, <2>1, LcrProgress
<1>5. CASE WriteReg("mcr", 4, 0, "ier")
  <2>1. \A c \in Channels : Halfway("mcr", c) =>
            Halfway("ier", Latched(c, 4, 0)) /\ ~Latched(c, 4, 0).thr
    BY DEF Holds
  <2> QED
    BY <1>5, <2>1, WriteProgress
<1>6. CASE WriteReg("ier", 1, 0, "next_port")
  <2>1. \A c \in Channels : Halfway("ier", c) =>
            Halfway("next_port", Latched(c, 1, 0)) /\ ~Latched(c, 1, 0).thr
    BY DEF Holds
  <2> QED
    BY <1>6, <2>1, WriteProgress
<1> QED
  BY <1>1, <1>2, <1>3, <1>4, <1>5, <1>6 DEF uart_ext_init

\* With a port that has none an external UART, the ports before it are all.
LEMMA LastExternal ==
    ASSUME TypeOK, NEW q \in Nat, q + 1 \notin External, NEW p \in External
    PROVE  p <= q
<1>1. /\ image \in Images /\ p \in DOMAIN Chip[image] /\ Chip[image][p] # "FX" /\ p \in Nat
  BY DEF TypeOK, External, Ports, Kind
<1>2. ~(q + 1 \in 0 .. p)
  BY <1>1 DEF External, Ports, Kind
<1> QED
  BY <1>1, <1>2

LEMMA OnceUnlucky == [Next]_vars /\ unlucky => unlucky'
<1> SUFFICES ASSUME [Next]_vars, unlucky PROVE unlucky'
  OBVIOUS
<1>1. CASE BoardInitR1 \/ BoardInitR2 \/ BoardInitProbe
  <2>1. UNCHANGED luckVars
    BY <1>1 DEF BoardInitR1, BoardInitR2, BoardInitProbe
  <2> QED
    BY <2>1 DEF luckVars
<1> USE DEF luckVars
<1>2. CASE UsbInit \/ Renumerate \/ EnableInterrupts \/ ResetState
  BY <1>2 DEF UsbInit, Renumerate, EnableInterrupts, ResetState, Zero
<1>3. CASE BringupDelay \/ Release \/ NextPort \/ uart_onchip_init \/ uart_rx_start \/ ArmOut2
  BY <1>3 DEF BringupDelay, Release, NextPort, uart_onchip_init, uart_rx_start, ArmOut2
<1>4. CASE uart_ext_init
  BY <1>4 DEF uart_ext_init, uart_write_lcr, WriteReg, Missed
<1>5. ASSUME NEW p \in Ports, Sends(p) \/ UartDone(p) PROVE unlucky'
  BY <1>5 DEF Sends, UartDone
<1>6. CASE Settle \/ Enumerate \/ (\E region \in Regions : Clobber(region)) \/ UNCHANGED vars
  BY <1>6 DEF Settle, Enumerate, Clobber, vars
<1> QED
  BY <1>1, <1>2, <1>3, <1>4, <1>5, <1>6 DEF Next, Main

LEMMA ChannelStep ==
    TypeOK /\ PathInv /\ PinsInv /\ ChannelInv /\ [Next]_vars => ChannelInv'
<1> SUFFICES ASSUME TypeOK, PathInv, PinsInv, ChannelInv, [Next]_vars,
                    ~unlucky', image # "probe"
             PROVE  ChannelInv'
  BY Build DEF ChannelInv
<1>0. image' = image /\ External' = External /\ OnChip' = OnChip /\ Divisor' = Divisor
  BY Build DEF Divisor
<1>u. ~unlucky
  BY OnceUnlucky
<1>1. ASSUME BoardInitR1 \/ BoardInitR2 \/ BoardInitProbe \/ UsbInit \/ Renumerate
             \/ EnableInterrupts \/ ResetState \/ BringupDelay
      PROVE  ChannelInv'
  <2>1. at \notin Configuring \cup Started /\ at' \notin Configuring \cup Started
    BY <1>1 DEF BoardInitR1, BoardInitR2, BoardInitProbe, UsbInit, Renumerate, EnableInterrupts,
                ResetState, Zero, BringupDelay, Goes, Configuring, Started
  <2>2. UNCHANGED <<chan, junk>>
    BY <1>1 DEF BoardInitR1, BoardInitR2, BoardInitProbe, UsbInit, Renumerate, EnableInterrupts,
                ResetState, Zero, BringupDelay, uartVars, wireVars
  <2> QED
    BY <1>0, <1>u, <2>1, <2>2 DEF ChannelInv, Progress, Untouched
<1>2. CASE Release
  <2>1. /\ at = "release" /\ at' = "dlab" /\ port' = 0 /\ UNCHANGED <<chan, junk>>
    BY <1>2 DEF Release, Goes, uartVars, wireVars
  <2>2. \A p \in External : Untouched(chan[p]) /\ p \in Nat
    BY <1>u, <2>1 DEF ChannelInv, Progress, Configuring, Started, External, Ports, TypeOK
  <2>3. \A p \in External : Progress(p)'
    BY <2>1, <2>2 DEF Progress, Halfway, Untouched
  <2> QED
    BY <1>0, <1>u, <2>1, <2>3 DEF ChannelInv, Started
<1>3. CASE uart_ext_init
  BY <1>0, <1>3, ExtProgress, Configures DEF OnTheWay
<1>4. CASE NextPort
  <2>1. /\ at = "next_port" /\ port' = port + 1 /\ port \in Nat /\ UNCHANGED <<chan, junk>>
        /\ at' = IF port + 1 \in External THEN "dlab"
                 ELSE IF OnChip # {} THEN "onchip" ELSE "rx_start"
    BY <1>4 DEF NextPort, TypeOK, uartVars, wireVars
  <2>2. ASSUME NEW p \in External
        PROVE  /\ p \in Nat /\ Progress(p)
               /\ port < p => Untouched(chan[p])
               /\ p <= port => SetUp(chan[p])
    BY <1>u, <2>1 DEF ChannelInv, Progress, Halfway, Configuring, Started, External, Ports, TypeOK
  <2>3. CASE port + 1 \in External
    <3>1. \A p \in External : Progress(p)'
      BY <1>0, <2>1, <2>2, <2>3 DEF Progress, Halfway, Untouched, SetUp, Configuring
    <3> QED
      BY <1>0, <1>u, <2>1, <2>3, <3>1 DEF ChannelInv, Started
  <2>4. CASE port + 1 \notin External
    <3>1. \A p \in External : SetUp(chan[p])
      BY <2>1, <2>2, <2>4, LastExternal
    <3>2. \A p \in External : Speaks(chan[p])'
      BY <1>0, <2>1, <3>1 DEF Speaks, SetUp, Holds
    <3>3. at' \in Started
      BY <2>1, <2>4 DEF Started
    <3> QED
      BY <1>0, <1>u, <2>1, <3>2, <3>3 DEF ChannelInv
  <2> QED
    BY <2>3, <2>4
<1>5. CASE uart_onchip_init \/ uart_rx_start \/ ArmOut2
  <2>1. at \in Started /\ at' \in Started /\ UNCHANGED <<chan, junk>>
    BY <1>5 DEF uart_onchip_init, uart_rx_start, ArmOut2, Goes, Started, uartVars, wireVars
  <2> QED
    BY <1>0, <1>u, <2>1 DEF ChannelInv, Speaks
<1>6. ASSUME NEW p \in Ports, Sends(p) \/ UartDone(p) PROVE ChannelInv'
  <2>1. at = "loop" /\ at' = at /\ junk' = junk
    BY <1>6 DEF Sends, UartDone
  <2>2. ASSUME NEW q \in External PROVE Speaks(chan'[q])
    <3>1. Speaks(chan[q]) /\ chan[q] \in Channels
      BY <1>u, <2>1 DEF ChannelInv, Started, TypeOK, Channels, Byte
    <3>2. Speaks(Latched(chan[q], 0, MidiByte))
      BY <3>1 DEF Speaks, Latched, Channels
    <3>3. Speaks([chan[q] EXCEPT !.thr = FALSE])
      BY <3>1 DEF Speaks, Channels
    <3>4. \/ chan' = chan
          \/ chan' = [chan EXCEPT ![p] = Latched(chan[p], 0, MidiByte)]
          \/ chan' = [chan EXCEPT ![p] = [chan[p] EXCEPT !.thr = FALSE]]
      BY <1>6 DEF Sends, UartDone, uart_putc, UART_REG
    <3>5. chan \in [External -> Channels]
      BY DEF TypeOK, Channels, Byte
    <3> QED
      BY <3>1, <3>2, <3>3, <3>4, <3>5
  <2>3. at' \in Started
    BY <2>1 DEF Started
  <2> QED
    BY <1>0, <1>u, <2>1, <2>2, <2>3 DEF ChannelInv, Speaks
<1>7. CASE Settle \/ Enumerate \/ (\E region \in Regions : Clobber(region)) \/ UNCHANGED vars
  <2>1. UNCHANGED <<at, port, chan, junk>>
    BY <1>7 DEF Settle, Enumerate, Clobber, vars, uartVars, wireVars
  <2> QED
    BY <1>0, <1>u, <2>1 DEF ChannelInv, Progress, Speaks, Halfway, Untouched, SetUp
<1> QED
  BY <1>1, <1>2, <1>3, <1>4, <1>5, <1>6, <1>7 DEF Next, Main

-----------------------------------------------------------------------------
(* What it comes to.                                                       *)

BringUpInv == TypeOK /\ PathInv /\ PinsInv /\ ContentInv /\ OnChipInv /\ ChannelInv

LEMMA BringUpInit == Init => BringUpInv
<1> SUFFICES ASSUME Init PROVE BringUpInv
  OBVIOUS
<1>1. PathInv /\ PinsInv /\ ContentInv /\ OnChipInv
  BY DEF Init, PathInv, PinsInv, ContentInv, OnChipInv, Early, Configuring, Started
<1>2. ChannelInv
  <2>1. Untouched(ResetChannel)
    BY DEF Untouched, Holds, ResetChannel
  <2> QED
    BY <2>1 DEF Init, ChannelInv, Progress, Configuring, Started
<1> QED
  BY <1>1, <1>2, TypeInit DEF BringUpInv

LEMMA BringUpStep == BringUpInv /\ [Next]_vars => BringUpInv'
  BY TypeStep, PathStep, PinsStep, ContentStep, OnChipStep, ChannelStep DEF BringUpInv

\* What CaptureSafe and ComesUpRight need of an external channel.
LEMMA Ready ==
    ASSUME BringUpInv, image # "probe", at \in {"arm", "loop"}, NEW p \in External
    PROVE  ~InReset(p) /\ (~unlucky => Speaks(chan[p]))
<1>1. at \in Started
  BY DEF Started
<1> QED
  BY <1>1, OutOfReset DEF BringUpInv, ChannelInv

\* The capture ISR finds zeroed FIFOs, and channels that answer with what
\* they have received: on every board, through every pattern of lost writes
\* that uart_write_lcr's read-back gets over.
THEOREM CaptureCorrect == Spec => []CaptureSafe
<1>1. BringUpInv => CaptureSafe
  <2> SUFFICES ASSUME BringUpInv, t0.run PROVE CaptureSafe
    BY DEF CaptureSafe
  <2>1. image # "probe" /\ at \in {"arm", "loop"}
    BY DEF BringUpInv, PathInv
  <2>2. isodisab /\ content["rx_fifo"] = 0 /\ (OnChip # {} => ren)
    BY <2>1 DEF BringUpInv, PathInv, ContentInv, OnChipInv, Early
  <2>3. \A p \in External : ~InReset(p) /\ (~unlucky => chan[p].lcr # "dlab")
    BY <2>1, Ready DEF Speaks
  <2> QED
    BY <2>2, <2>3 DEF CaptureSafe
<1> QED
  BY <1>1, BringUpInit, BringUpStep, PTL DEF Spec

LEMMA BaudRight ==
    ASSUME BringUpInv, ~unlucky, image # "probe", at = "loop", NEW p \in Ports
    PROVE  Baud(p) = 31250
<1>1. CASE p \in External
  <2>1. chan[p].dll = Divisor /\ chan[p].dlm = 0
    BY <1>1, Ready DEF Speaks
  <2>2. CASE image = "r2"
    BY <1>1, <2>1, <2>2 DEF Baud, XIN, Divisor
  <2>3. CASE image # "r2"
    <3>1. t2.run /\ t2.out /\ t2.reload = 65534 /\ core = 24
      BY <2>3 DEF BringUpInv, PinsInv
    <3>2. XIN = 500000
      BY <2>3, <3>1 DEF XIN
    <3> QED
      BY <1>1, <2>1, <2>3, <3>2 DEF Baud, Divisor
  <2> QED
    BY <2>2, <2>3
<1>2. CASE p \notin External
  <2>1. p \in OnChip
    BY <1>2 DEF OnChip
  <2>2. /\ smod = (core # 48)
        /\ t1.run /\ t1.mode = 2 /\ t1.T1M /\ t1.reload = 244
    BY <2>1 DEF BringUpInv, OnChipInv
  <2>3. core = 24 \/ core = 48
    BY DEF BringUpInv, TypeOK
  <2>4. CASE core = 24
    <3>1. smod = TRUE
      <4>1. core # 48
        BY <2>4
      <4> QED
        BY <2>2, <4>1, Zenon
    <3>2. smod /\ 256 - t1.reload = 12
      BY <2>2, <3>1
    <3>3. Baud(p) = (2 * core * 1000000) \div (32 * 4 * 12)
      BY <1>2, <2>2, <3>2, SMT DEF Baud
    <3>4. (2 * 24 * 1000000) \div (32 * 4 * 12) = 31250
      BY SMT
    <3> QED
      BY <2>4, <3>3, <3>4, SMT
  <2>5. CASE core = 48
    <3>1. smod = FALSE
      BY <2>2, <2>5, Zenon
    <3>2. ~smod /\ 256 - t1.reload = 12
      BY <2>2, <3>1
    <3>3. Baud(p) = (1 * core * 1000000) \div (32 * 4 * 12)
      BY <1>2, <2>2, <3>2, SMT DEF Baud
    <3>4. (1 * 48 * 1000000) \div (32 * 4 * 12) = 31250
      BY SMT
    <3> QED
      BY <2>5, <3>3, <3>4, SMT
  <2> QED
    BY <2>3, <2>4, <2>5
<1> QED
  BY <1>1, <1>2

\* main() enters its loop with every port at 31250 baud, 8N1, silent so far,
\* and with rings and parsers at zero, unless a write was lost beyond repair.
THEOREM BringUpCorrect == Spec => []ComesUpRight
<1>1. BringUpInv => ComesUpRight
  <2> SUFFICES ASSUME BringUpInv, at = "loop", ~unlucky PROVE ComesUpRight
    BY DEF ComesUpRight
  <2>1. CASE image = "probe"
    <3>1. /\ strobes /\ pins.OEB4 /\ ~pins.OUTB4 /\ core = 24
          /\ t2.run /\ t2.out /\ t2.reload = 65534
      BY <2>1 DEF BringUpInv, PinsInv
    <3>2. XIN = 500000
      BY <2>1, <3>1 DEF XIN
    <3> QED
      BY <2>1, <3>1, <3>2 DEF ComesUpRight
  <2>2. CASE image # "probe"
    <3>1. \A p \in External : ~InReset(p) /\ chan[p].lcr = "8n1" /\ chan[p].ier = 0
                                            /\ chan[p].mcr = 0
      BY <2>2, Ready DEF Speaks
    <3>2. \A p \in Ports : Baud(p) = 31250
      BY <2>2, BaudRight
    <3>3. junk = {}
      BY <2>2 DEF BringUpInv, ChannelInv
    <3>4. \A region \in Regions : content[region] = 0
      BY <2>2 DEF BringUpInv, ContentInv, Regions, Early
    <3> QED
      BY <2>2, <3>1, <3>2, <3>3, <3>4 DEF ComesUpRight
  <2> QED
    BY <2>1, <2>2
<1> QED
  BY <1>1, BringUpInit, BringUpStep, PTL DEF Spec
=============================================================================
