----------------------------- MODULE UsbControl -----------------------------
(***************************************************************************)
(* The control endpoint of firmware/usb.c: sudav_isr answers one SETUP at  *)
(* a time, by data, by a bare handshake or by a stall, and on the way      *)
(* halts, unhalts and resets the two bulk endpoints.  The bulk transfers   *)
(* run beside it with their data toggles, the host's and the device's: a   *)
(* packet whose handshake is lost is sent again with the same toggle, and  *)
(* a packet with the wrong toggle is acknowledged and thrown away.         *)
(*                                                                         *)
(* The SIE (the USB core) and the host are external.  The host sends a     *)
(* SETUP when the transfer before has ended.  That may be before sudav_isr *)
(* has, when the handler has written EP0CS: by a stall, or with a HSNAK it *)
(* has read.                                                               *)
(***************************************************************************)
EXTENDS UsbRequests, ClassDescriptors

CONSTANTS
    Requests,   \* the requests the host makes
    OvfMax,     \* 0xFF
    MaxBulk,    \* bounds of the instance: packets in each direction, and
    MaxResets   \* resets of the OUT toggle that the host makes alone

ASSUME BoundsAssumption ==
    OvfMax \in Nat \ {0} /\ MaxBulk \in [Dirs -> Nat] /\ MaxResets \in Nat

\* Nothing armed is neither a byte nor the name of a descriptor.
ASSUME NoneAssumption == None \notin Nat /\ None \notin {"stray"} \cup DOMAIN Tables

\* What a host asks for: the alternate setting of an interface, the halt of
\* an endpoint.
ASSUME RequestsAssumption ==
    \A r \in Requests :
        /\ SetsInterface(r) => Standard(r, "OUT", "interface")
        /\ Bulk(r) => r.recip = "endpoint"

VARIABLES
    setup_data,     \* the request being served; once it has ended nobody reads it
    stage,          \* "idle", "pending" (SUDAV), "handled" or "released" (EP0CS
                    \* written on the way: the host may go on), "served" (HSNAK cleared)
    overtaken,      \* a SETUP has arrived before sudav_isr had done with the one before
    IN0,            \* what IN0BC armed for the data stage, or None
    SUDPTR,         \* the descriptor it streams instead, or None
    EP0STALL,
    halted,         \* EPSTALL of IN2CS, OUT2CS
    toggle,         \* data toggles of EP2, device side
    IN2Busy,        \* IN2BC armed a packet
    OUT2Armed,      \* OUT2BC armed the buffer
    uart_rx_overflows,
    \* The host:
    hostToggle,
    hostHalted,     \* what chapter 9 has its requests make of the halts
    leftHalted,     \* endpoints whose halt its SET_CONFIGURATION should have ended
    outResets,      \* its resets of the OUT toggle that the device did not share
    shipped, received,      \* IN packets done for the device / the host
    accepted, acknowledged  \* OUT packets done for the device / the host

controlVars == <<setup_data, stage, overtaken, IN0, SUDPTR, EP0STALL>>
bulkVars    == <<toggle, hostToggle, IN2Busy, OUT2Armed>>
countVars   == <<shipped, received, accepted, acknowledged>>
haltVars    == <<halted, hostHalted, leftHalted, outResets>>
vars == <<controlVars, bulkVars, countVars, haltVars, uart_rx_overflows>>

Init ==
    /\ setup_data = None /\ stage = "idle"
    /\ overtaken = FALSE
    /\ IN0 = None /\ SUDPTR = None /\ EP0STALL = FALSE
    /\ halted = [d \in Dirs |-> FALSE] /\ hostHalted = halted
    /\ leftHalted = {} /\ outResets = 0
    /\ toggle = [d \in Dirs |-> 0] /\ hostToggle = toggle
    /\ IN2Busy = FALSE /\ OUT2Armed = TRUE
    /\ uart_rx_overflows = 0
    /\ shipped = 0 /\ received = 0 /\ accepted = 0 /\ acknowledged = 0

-----------------------------------------------------------------------------
(* What usb_handle_setup_data does to EP0.                                 *)

GetDescriptor(r) == DescriptorReply(r, "config_block", en_string_descriptors)

\* VENDOR_REQ_GET_RX_OVERFLOWS and VENDOR_REQ_CLR_RX_OVERFLOWS.
ReadsOverflows(r)  == r.type = "vendor" /\ r.bRequest = 1 /\ r.dir = "IN"
ClearsOverflows(r) == r.type = "vendor" /\ r.bRequest = 2 /\ r.dir = "OUT"

\* The default case: the two vendor requests.
Vendor(r) == IF ReadsOverflows(r) THEN Data(uart_rx_overflows)
             ELSE IF ClearsOverflows(r) THEN Ack
             ELSE Stall

\* Mutant of Replies: GET_INTERFACE acknowledged like SET_INTERFACE.
Replies_NoGetInterface(r) ==
    CASE r.bRequest = 0  -> StatusReplies(r, halted)
      [] r.bRequest = 1  -> {ClearFeatureReply(r)}
      [] r.bRequest = 3  -> {SetFeatureReply(r)}
      [] r.bRequest = 6  -> {GetDescriptor(r)}
      [] r.bRequest = 8  -> {Data(1)}
      [] r.bRequest \in {5, 9, 10, 11, 12} -> {Ack}
      [] OTHER -> {Stall}

\* The switch on bRequest, which is all it looks at.
Replies(r) ==
    CASE r.bRequest = 0  -> StatusReplies(r, halted)
      [] r.bRequest = 1  -> {ClearFeatureReply(r)}
      [] r.bRequest \in {2, 4, 7} -> {Stall}
      [] r.bRequest = 3  -> {SetFeatureReply(r)}
      [] r.bRequest = 6  -> {GetDescriptor(r)}
      [] r.bRequest = 8  -> {Data(1)}
      [] r.bRequest = 10 -> {Data(0)}
      [] r.bRequest \in {5, 9, 11, 12} -> {Ack}
      [] OTHER -> {Vendor(r)}

\* The counter after request r: only the default case touches it.
OverflowsAfter(r) ==
    IF r.bRequest \notin 0 .. 12 /\ ClearsOverflows(r) THEN 0 ELSE uart_rx_overflows

-----------------------------------------------------------------------------
(* ... and to the bulk endpoints.                                          *)

\* Mutant of HaltsAfter: SET_INTERFACE leaves the halts alone.
HaltsAfter_InterfaceKeeps(r) ==
    IF Halts(r) \/ Unhalts(r) THEN [halted EXCEPT ![r.ep] = Halts(r)] ELSE halted

\* The halts after request r.
HaltsAfter(r) == HaltsAfterRequest(r, halted)

\* The endpoint usb_reset_data_toggle selects: ep & 0x80 >> 3 is ep & 0x10,
\* which no endpoint address has set, so the direction bit says OUT for both.
Selected(d) == "OUT"

\* Mutant of TogglesAfter: SET_INTERFACE resets no toggle.
TogglesAfter_NoReset(r) == toggle

\* The toggles after request r.
TogglesAfter(r) ==
    IF SetsInterface(r)
    THEN [d \in Dirs |-> IF \E e \in Dirs : Selected(e) = d THEN 0 ELSE toggle[d]]
    ELSE toggle

\* STALL_EP0, and a halt of EP0 cleared: a read-modify-write of EP0CS, which
\* writes the pending HSNAK back as a 1 and so clears it.
WritesEP0CS(r, reply) ==
    \/ reply.stall
    \/ r.bRequest = 1 /\ Standard(r, "OUT", "endpoint") /\ r.wValue = "halt" /\ r.ep = "EP0"

\* sudav_isr serves the request.  Whether a 0 written to IN2CS takes back an
\* armed packet is the SIE's affair.
usb_handle_setup_data ==
    /\ stage = "pending"
    /\ \E reply \in Replies(setup_data) :
           /\ IN0' = reply.data /\ SUDPTR' = reply.descr /\ EP0STALL' = reply.stall
           /\ stage' = IF WritesEP0CS(setup_data, reply) THEN "released" ELSE "handled"
    /\ halted' = HaltsAfter(setup_data)
    /\ toggle' = TogglesAfter(setup_data)
    /\ IN2Busy' \in IF SetsInterface(setup_data) THEN {FALSE, IN2Busy} ELSE {IN2Busy}
    /\ OUT2Armed' = (SetsInterface(setup_data) \/ OUT2Armed)
    /\ uart_rx_overflows' = OverflowsAfter(setup_data)
    /\ UNCHANGED <<setup_data, overtaken, hostToggle, hostHalted, leftHalted, outResets,
                   countVars>>

\* USBIRQ = SUDAVIR, whichever SETUP it stands for by now; then HSNAK lets
\* the host go on to the status stage.
sudav_isr ==
    /\ stage \in {"handled", "released"}
    /\ stage' = "served"
    /\ UNCHANGED <<setup_data, overtaken, IN0, SUDPTR, EP0STALL,
                   bulkVars, countVars, haltVars, uart_rx_overflows>>

-----------------------------------------------------------------------------
(* The host's control transfers.                                           *)

\* What the host asks for, in the terms of chapter 9.
Asks(r, recip, bRequest) == Standard(r, "OUT", recip) /\ r.bRequest = bRequest
Configures(r)     == Asks(r, "device", 9)
ChoosesSetting(r) == Asks(r, "interface", 11)
SetsHalt(r, d)    == Asks(r, "endpoint", 3) /\ r.wValue = "halt" /\ r.ep = d
ClearsHalt(r, d)  == Asks(r, "endpoint", 1) /\ r.wValue = "halt" /\ r.ep = d

\* Each of these starts the endpoint anew, with DATA0.
RestartsFor(r, d) == Configures(r) \/ ChoosesSetting(r) \/ ClearsHalt(r, d)

\* The host resets its OUT toggle, and the firmware not the device's.
ResetsOutAlone(r) == Configures(r) \/ ClearsHalt(r, "OUT")

\* No bulk transfer is half done: the host's driver waits for its transfers,
\* and makes none, while the configuration or the setting changes.
Quiet == received = shipped /\ accepted = acknowledged
Reconfigures(r) == SetsInterface(r) \/ Configures(r)

Setup(r) ==
    /\ stage \in {"idle", "released"}
    /\ Reconfigures(r) => Quiet
    /\ ResetsOutAlone(r) => outResets < MaxResets
    /\ setup_data' = r
    /\ stage' = IF stage = "idle" THEN "pending" ELSE "handled"
    /\ overtaken' = (overtaken \/ stage = "released")
    /\ IN0' = None /\ SUDPTR' = None /\ EP0STALL' = FALSE
    /\ UNCHANGED <<bulkVars, countVars, haltVars, uart_rx_overflows>>

\* The transfer ends, by status, stall or timeout; the host draws its
\* conclusions from what it asked for.  usb.c does nothing at a
\* SET_CONFIGURATION: the halts it should have ended are left.
Completes ==
    LET r == setup_data IN
    /\ stage = "served"
    /\ stage' = "idle" /\ setup_data' = None
    /\ IN0' = None /\ SUDPTR' = None /\ EP0STALL' = FALSE
    /\ IF EP0STALL
       THEN UNCHANGED <<hostToggle, hostHalted, leftHalted, outResets>>
       ELSE /\ hostToggle' = [d \in Dirs |-> IF RestartsFor(r, d) THEN 0 ELSE hostToggle[d]]
            /\ hostHalted' = [d \in Dirs |-> IF RestartsFor(r, d) THEN FALSE
                                             ELSE SetsHalt(r, d) \/ hostHalted[d]]
            /\ leftHalted' =
                  {d \in Dirs : IF Configures(r) THEN hostHalted[d] \/ d \in leftHalted
                                ELSE d \in leftHalted /\ ~RestartsFor(r, d) /\ ~SetsHalt(r, d)}
            /\ outResets' = outResets + Flag(ResetsOutAlone(r))
    /\ UNCHANGED <<overtaken, toggle, IN2Busy, OUT2Armed,
                   countVars, halted, uart_rx_overflows>>

-----------------------------------------------------------------------------
(* The bulk transfers.                                                     *)
BulkRuns == ~(stage # "idle" /\ Reconfigures(setup_data))

\* midi_rx_pump arms EP2-IN; bridge_out re-arms EP2-OUT.
FirmwareArms ==
    /\ \/ ~IN2Busy /\ shipped < MaxBulk["IN"] /\ IN2Busy' = TRUE /\ UNCHANGED OUT2Armed
       \/ ~OUT2Armed /\ OUT2Armed' = TRUE /\ UNCHANGED IN2Busy
    /\ UNCHANGED <<controlVars, toggle, hostToggle, countVars, haltVars, uart_rx_overflows>>

\* An OUT packet; the host learns of its handshake, or it is lost.
BulkOut(heard) ==
    /\ BulkRuns /\ acknowledged < MaxBulk["OUT"] /\ accepted <= MaxBulk["OUT"]
    /\ ~halted["OUT"] /\ OUT2Armed
    /\ IF hostToggle["OUT"] = toggle["OUT"]
       THEN /\ accepted' = accepted + 1
            /\ toggle' = [toggle EXCEPT !["OUT"] = 1 - @]
            /\ OUT2Armed' = FALSE
       ELSE UNCHANGED <<accepted, toggle, OUT2Armed>>
    /\ IF heard
       THEN /\ acknowledged' = acknowledged + 1
            /\ hostToggle' = [hostToggle EXCEPT !["OUT"] = 1 - @]
       ELSE UNCHANGED <<acknowledged, hostToggle>>
    /\ UNCHANGED <<controlVars, IN2Busy, shipped, received, haltVars, uart_rx_overflows>>

\* An IN packet; the device hears the handshake, or it is lost.
BulkIn(heard) ==
    /\ BulkRuns /\ received <= MaxBulk["IN"]
    /\ ~halted["IN"] /\ IN2Busy
    /\ IF hostToggle["IN"] = toggle["IN"]
       THEN /\ received' = received + 1
            /\ hostToggle' = [hostToggle EXCEPT !["IN"] = 1 - @]
       ELSE UNCHANGED <<received, hostToggle>>
    /\ IF heard
       THEN /\ shipped' = shipped + 1
            /\ toggle' = [toggle EXCEPT !["IN"] = 1 - @]
            /\ IN2Busy' = FALSE
       ELSE UNCHANGED <<shipped, toggle, IN2Busy>>
    /\ UNCHANGED <<controlVars, OUT2Armed, accepted, acknowledged, haltVars, uart_rx_overflows>>

\* Mutant of CaptureDrops: the counter does not saturate.
CaptureDrops_Unbounded ==
    /\ uart_rx_overflows' = uart_rx_overflows + 1
    /\ UNCHANGED <<controlVars, bulkVars, countVars, haltVars>>

\* RX_STORE counts a drop (uart_rx_isr, modelled in RxCapture).
CaptureDrops ==
    /\ uart_rx_overflows < OvfMax
    /\ uart_rx_overflows' = uart_rx_overflows + 1
    /\ UNCHANGED <<controlVars, bulkVars, countVars, haltVars>>

Next ==
    \/ \E r \in Requests : Setup(r)
    \/ usb_handle_setup_data
    \/ sudav_isr
    \/ Completes
    \/ FirmwareArms
    \/ \E heard \in BOOLEAN : BulkOut(heard) \/ BulkIn(heard)
    \/ CaptureDrops

Spec == Init /\ [][Next]_vars

-----------------------------------------------------------------------------
(* Properties.                                                             *)

TypeOK ==
    /\ stage \in {"idle", "pending", "handled", "released", "served"}
    /\ setup_data \in IF stage = "idle" THEN {None} ELSE Requests
    /\ overtaken \in BOOLEAN
    /\ IN0 \in {None} \cup (0 .. OvfMax)
    /\ SUDPTR \in {None, "stray"} \cup DOMAIN Tables
    /\ EP0STALL \in BOOLEAN
    /\ halted \in [Dirs -> BOOLEAN] /\ hostHalted \in [Dirs -> BOOLEAN]
    /\ leftHalted \subseteq Dirs /\ outResets \in Nat
    /\ toggle \in [Dirs -> 0 .. 1] /\ hostToggle \in [Dirs -> 0 .. 1]
    /\ IN2Busy \in BOOLEAN /\ OUT2Armed \in BOOLEAN
    /\ uart_rx_overflows \in 0 .. OvfMax
    /\ shipped \in Nat /\ received \in Nat
    /\ accepted \in Nat /\ acknowledged \in Nat

\* GET_STATUS, GET_DESCRIPTOR, GET_CONFIGURATION, GET_INTERFACE.
DataRequests == {0, 6, 8, 10}

\* A standard request for data is let go with data or a stall, or the host
\* would wait until it times out; the only way to lose one is that it overtakes
\* sudav_isr, whose "USBIRQ = SUDAVIR" then clears its interrupt.  (Of chapter
\* 9's requests for data SYNCH_FRAME is not among them: usb.c:406-408
\* acknowledges it with no data.)
NeverHangs ==
    /\ stage = "served" /\ ~overtaken
    /\ setup_data.type = "standard" /\ setup_data.dir = "IN"
    /\ setup_data.bRequest \in DataRequests
    => IN0 # None \/ SUDPTR # None \/ EP0STALL

\* What the device says of a halt is what the host's requests made of it,
\* through any sequence of them: SET_FEATURE, CLEAR_FEATURE, SET_INTERFACE; and
\* a halt that a SET_CONFIGURATION should have ended stays until one of them
\* ends it.  (As long as none has overtaken sudav_isr.)
StatusTruthful ==
    stage = "served" /\ setup_data.bRequest = 0 /\ Bulk(setup_data) /\ ~EP0STALL /\ ~overtaken
        => IN0 = Flag(hostHalted[setup_data.ep] \/ setup_data.ep \in leftHalted)

\* However handshakes are lost and whenever endpoints are halted and the
\* interface set, an OUT packet the host believes delivered was accepted, and
\* accepted once; but for CLEAR_FEATURE and SET_CONFIGURATION, which leave the
\* device's toggle alone: each may cost the host one packet, or repeat one,
\* and no more.
OutExactlyOnce ==
    ~overtaken => accepted - acknowledged \in (0 - outResets) .. (1 + outResets)

\* Whatever GET_DESCRIPTOR is asked for by a host that goes by the
\* descriptors, the SIE streams all of it and nothing else: the device, the
\* configuration as usb_descriptors.c:40-44 has it ("wTotalLength must be
\* exact"), and every string that one of them names.
DescriptorsWhole ==
    SUDPTR # None /\ (setup_data.wValue = "string" /\ setup_data.lang # 0
                        => AsksForNamedString(setup_data, device_descriptor, config_block))
        => /\ SUDPTR \in DOMAIN Tables
           /\ Announced(Tables[SUDPTR]) = Len(Tables[SUDPTR])
           /\ SUDPTR = "config_block" => ConfigurationWhole(config_block)

\* What the class driver makes of the configuration it got: cable n is
\* socket n in both directions, through jacks whose numbers are their own.
CablesMatchSockets == SUDPTR = "config_block" => CablesAreSockets

\* The same as OutExactlyOnce towards the host: usb.c:339 has SET_INTERFACE
\* reset the MIDI bulk endpoints, and usb.c:147-154 says how a toggle of
\* either direction is reset, so that no packet is taken for a repeated one.
InExactlyOnce == received - shipped \in {0, 1}

\* usb.c:410-413, uart.h:85-89 and timer_isr_rx_capture_design.md:180-182: a
\* vendor request reads the overflow counter, another one clears it.
VendorServed ==
    stage = "served" /\ setup_data.type = "vendor"
        => /\ ReadsOverflows(setup_data)  => IN0 # None
           /\ ClearsOverflows(setup_data) => ~EP0STALL
=============================================================================
