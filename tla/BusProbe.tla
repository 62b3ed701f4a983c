------------------------------ MODULE BusProbe ------------------------------
(***************************************************************************)
(* The bus-probe firmware: main_probe.c with its copy of the USB code,     *)
(* usb_probe.c.  A vendor request reads a byte of external memory at once, *)
(* in the SUDAV interrupt; a write is only noted there, and the main loop  *)
(* makes it later, byte by byte of the note, which the interrupt may       *)
(* change meanwhile.  Two more requests hammer the bus and never return.   *)
(*                                                                         *)
(* A request has, besides the fields of UsbRequests, the address in its    *)
(* wValue (as <<high, low>>) and the value in its wIndex.  The bulk pair,  *)
(* which the probe arms but never uses, keeps its halts only.              *)
(***************************************************************************)
EXTENDS UsbRequests, SequencesExt

CONSTANTS
    Requests,   \* the requests the host makes
    AddrBytes,  \* values of an address byte
    Values,     \* values of a byte of memory
    MaxWrites   \* bound of the instance: writes the host asks for

Addresses == AddrBytes \X AddrBytes

ASSUME ProbeAssumption ==
    /\ 0 \in Values /\ MaxWrites \in Nat
    /\ \A r \in Requests : r.addr \in Addresses /\ r.val \in Values

VARIABLES
    setup_data, stage, IN0, SUDPTR, EP0STALL,   \* as in UsbControl
    halted,
    xdata,          \* the external memory
    pend_addr, pend_val, pend_write,
    hammering,      \* the ISR is in an endless loop
    at,             \* the main loop: "test", "fetch", "clear"
    fetched,        \* what it has of the address and the value so far
    \* History:
    asked,          \* the writes the host was told are done
    done,           \* the writes to the bus made by the main loop
    hurried         \* a write came while another one was pending

ep0Vars  == <<setup_data, stage, IN0, SUDPTR, EP0STALL>>
pendVars == <<pend_addr, pend_val, pend_write>>
loopVars == <<at, fetched>>
vars == <<ep0Vars, pendVars, loopVars, halted, xdata, hammering, asked, done, hurried>>

Nothing == [high |-> None, low |-> None, val |-> None]

Init ==
    /\ setup_data = None /\ stage = "idle"
    /\ IN0 = None /\ SUDPTR = None /\ EP0STALL = FALSE
    /\ halted = [d \in Dirs |-> FALSE]
    /\ xdata = [a \in Addresses |-> 0]
    /\ pend_addr \in Addresses /\ pend_val = 0 /\ pend_write = FALSE
    /\ hammering = FALSE
    /\ at = "test" /\ fetched = Nothing
    /\ asked = <<>> /\ done = <<>> /\ hurried = FALSE

-----------------------------------------------------------------------------
(* The tables of usb_probe.c.                                              *)

NUM_ENDPOINTS == 2

\* Mutant of en_string_descriptors: the interface's string forgotten.
en_string_descriptors_Four ==
    <<"strManufacturer", "strProduct", "strSerialNumber", "strConfigDescr">>

en_string_descriptors ==
    <<"strManufacturer", "strProduct", "strSerialNumber", "strConfigDescr", "strInterface">>

device_descriptor == usb_device_descriptor(255, 2638, 4288, <<1, 2, 3>>, 1)

\* The config, interface and endpoint descriptors, adjacent.
config_descriptor ==
    usb_config_descriptor(9 + 9 + NUM_ENDPOINTS * 7, 1, 4)
        \o usb_interface_descriptor(0, NUM_ENDPOINTS, 255, 255, 255, 5)
        \o usb_endpoint_descriptor(130) \o usb_endpoint_descriptor(2)

Tables ==
    [device_descriptor   |-> device_descriptor,
     config_descriptor   |-> config_descriptor,
     language_descriptor |-> usb_language_descriptor,
     strManufacturer     |-> STR_DESCR(9, <<"S","t","e","i","n","b","e","r","g">>),
     strProduct          |-> STR_DESCR(16, <<"M","I","D","E","X","8"," ","b","u","s","-","p","r","o","b","e">>),
     strSerialNumber     |-> STR_DESCR(6, <<"0","0","0","0","0","1">>),
     strConfigDescr      |-> STR_DESCR(8, <<"M","y","C","o","n","f","i","g">>),
     strInterface        |-> STR_DESCR(11, <<"M","y","I","n","t","e","r","f","a","c","e">>)]

-----------------------------------------------------------------------------
(* The SUDAV interrupt.                                                    *)

GetStatus(r)     == StatusReplies(r, halted)
ClearFeature(r)  == ClearFeatureReply(r)
SetFeature(r)    == SetFeatureReply(r)
GetDescriptor(r) == DescriptorReply(r, "config_descriptor", en_string_descriptors)

Reads(r)   == r.bRequest = 176
Writes(r)  == r.bRequest = 177
Hammers(r) == r.bRequest \in {178, 179}

\* handle_vendor_command: the answer; a write and CKCON are acknowledged.
Vendor(r) == IF Reads(r) THEN Data(xdata[r.addr])
             ELSE IF Writes(r) \/ r.bRequest = 180 THEN Ack
             ELSE Stall

\* The switch on bRequest.
Replies(r) ==
    CASE r.bRequest = 0  -> GetStatus(r)
      [] r.bRequest = 1  -> {ClearFeature(r)}
      [] r.bRequest \in {2, 4, 7} -> {Stall}
      [] r.bRequest = 3  -> {SetFeature(r)}
      [] r.bRequest = 6  -> {GetDescriptor(r)}
      [] r.bRequest = 8  -> {Data(config_descriptor[6])}
      [] r.bRequest = 10 -> {Data(config_descriptor[12])}
      [] r.bRequest \in {5, 9, 11, 12} -> {Ack}
      [] OTHER -> {Vendor(r)}

\* A write is noted for the main loop.
Note(r) ==
    IF Writes(r)
    THEN /\ pend_addr' = r.addr /\ pend_val' = r.val /\ pend_write' = TRUE
         /\ asked' = Append(asked, <<r.addr, r.val>>)
         /\ hurried' = (hurried \/ pend_write)
    ELSE UNCHANGED <<pendVars, asked, hurried>>

sudav_isr ==
    /\ stage = "pending" /\ ~hammering
    /\ ~Hammers(setup_data)
    /\ \E reply \in Replies(setup_data) :
           IN0' = reply.data /\ SUDPTR' = reply.descr /\ EP0STALL' = reply.stall
    /\ halted' = HaltsAfterRequest(setup_data, halted)
    /\ Note(setup_data)
    /\ stage' = "served"
    /\ UNCHANGED <<setup_data, loopVars, xdata, hammering, done>>

\* VR_HAMMER_WRITE and VR_HAMMER_READ: for (;;), and no HSNAK ever.
Hammer ==
    /\ stage = "pending" /\ Hammers(setup_data)
    /\ hammering' = TRUE
    /\ IF setup_data.bRequest = 178
       THEN \E v \in Values : xdata' = [xdata EXCEPT ![setup_data.addr] = v] /\ UNCHANGED pend_val
       ELSE pend_val' = xdata[setup_data.addr] /\ UNCHANGED xdata
    /\ UNCHANGED <<ep0Vars, pend_addr, pend_write, loopVars, halted, asked, done, hurried>>

-----------------------------------------------------------------------------
(* main(): the loop, interrupted anywhere by sudav_isr.                    *)
Main(from, to) == at = from /\ ~hammering /\ at' = to

\* Mutant of MainTest: the flag is cleared before the write is made.
MainTest_ClearsFirst ==
    /\ Main("test", "fetch") /\ pend_write
    /\ pend_write' = FALSE
    /\ UNCHANGED <<ep0Vars, pend_addr, pend_val, fetched, halted, xdata, hammering, asked, done, hurried>>

\* Mutant of MainTest: pend_write is not volatile, what it was before the loop
\* is tested for ever.
MainTest_NotVolatile == FALSE

MainTest ==
    /\ Main("test", "fetch") /\ pend_write
    /\ UNCHANGED <<ep0Vars, pendVars, fetched, halted, xdata, hammering, asked, done, hurried>>

\* The 8-bit CPU fetches the address's two bytes and the value one by one, in
\* an order that is the compiler's.
MainFetch(part) ==
    /\ Main("fetch", "fetch") /\ fetched[part] = None
    /\ fetched' = [fetched EXCEPT ![part] =
                      CASE part = "high" -> pend_addr[1]
                        [] part = "low"  -> pend_addr[2]
                        [] part = "val"  -> pend_val]
    /\ UNCHANGED <<ep0Vars, pendVars, halted, xdata, hammering, asked, done, hurried>>

\* Mutant of MainWrite: the high byte of the address taken for fetched.
MainWrite_Early ==
    LET addr == <<fetched.high, fetched.low>> IN
    /\ Main("fetch", "clear")
    /\ fetched.low # None /\ fetched.val # None
    /\ xdata' = [xdata EXCEPT ![addr] = fetched.val]
    /\ done' = Append(done, <<addr, fetched.val>>)
    /\ fetched' = Nothing
    /\ UNCHANGED <<ep0Vars, pendVars, halted, hammering, asked, hurried>>

\* The MOVX.
MainWrite ==
    LET addr == <<fetched.high, fetched.low>> IN
    /\ Main("fetch", "clear")
    /\ \A part \in DOMAIN fetched : fetched[part] # None
    /\ xdata' = [xdata EXCEPT ![addr] = fetched.val]
    /\ done' = Append(done, <<addr, fetched.val>>)
    /\ fetched' = Nothing
    /\ UNCHANGED <<ep0Vars, pendVars, halted, hammering, asked, hurried>>

MainClear ==
    /\ Main("clear", "test")
    /\ pend_write' = FALSE
    /\ UNCHANGED <<ep0Vars, pend_addr, pend_val, fetched, halted, xdata, hammering, asked, done, hurried>>

MainLoop == MainTest \/ (\E part \in DOMAIN Nothing : MainFetch(part)) \/ MainWrite \/ MainClear

-----------------------------------------------------------------------------
(* The host: one control transfer after the other.                         *)
Setup(r) ==
    /\ stage = "idle"
    /\ Writes(r) => Len(asked) < MaxWrites
    /\ setup_data' = r /\ stage' = "pending"
    /\ IN0' = None /\ SUDPTR' = None /\ EP0STALL' = FALSE
    /\ UNCHANGED <<pendVars, loopVars, halted, xdata, hammering, asked, done, hurried>>

Completes ==
    /\ stage = "served"
    /\ setup_data' = None /\ stage' = "idle"
    /\ IN0' = None /\ SUDPTR' = None /\ EP0STALL' = FALSE
    /\ UNCHANGED <<pendVars, loopVars, halted, xdata, hammering, asked, done, hurried>>

Next == (\E r \in Requests : Setup(r)) \/ sudav_isr \/ Hammer \/ MainLoop \/ Completes

\* The interrupt is served and the main loop runs; the host need not go on.
Spec == Init /\ [][Next]_vars /\ WF_vars(sudav_isr \/ Hammer) /\ WF_vars(MainLoop)

-----------------------------------------------------------------------------
(* Properties.                                                             *)

TypeOK ==
    /\ stage \in {"idle", "pending", "served"}
    /\ setup_data \in IF stage = "idle" THEN {None} ELSE Requests
    /\ IN0 \in {None} \cup (0 .. 1) \cup Values
    /\ SUDPTR \in {None, "stray"} \cup DOMAIN Tables /\ EP0STALL \in BOOLEAN
    /\ halted \in [Dirs -> BOOLEAN]
    /\ xdata \in [Addresses -> Values]
    /\ pend_addr \in Addresses /\ pend_val \in Values /\ pend_write \in BOOLEAN
    /\ hammering \in BOOLEAN /\ hurried \in BOOLEAN
    /\ at \in {"test", "fetch", "clear"}
    /\ fetched \in [high : AddrBytes \cup {None}, low : AddrBytes \cup {None},
                    val : Values \cup {None}]
    /\ asked \in Seq(Addresses \X Values) /\ done \in Seq(Addresses \X Values)

\* While a host waits for a write to be done before it asks for the next one
\* ("the host serialises transfers, so the tight main loop drains it before
\* the next SETUP arrives", main_probe.c:160-167), the writes made are the
\* writes asked for, whole, once, in order, whatever other requests
\* interrupt the loop between the bytes it fetches.
WritesOnce ==
    ~hurried => /\ IsPrefix(done, asked)
                /\ Len(asked) - Len(done) \in {0, 1}
                /\ pend_write \/ done = asked

\* The byte a read brings back is the one last written to that address, as
\* the host counts its writes, unless the last write is still pending: the
\* main loop's write is in memory by the time it takes pend_write back.
LastIn(writes, a) ==
    LET here == {i \in DOMAIN writes : writes[i][1] = a}
    IN  IF here = {} THEN 0 ELSE writes[Max(here)][2]

ReadsFresh ==
    [][ sudav_isr /\ Reads(setup_data) /\ ~pend_write /\ ~hurried
            => IN0' = LastIn(asked, setup_data.addr) ]_vars

\* The SIE streams the probe's descriptors whole: wTotalLength, adjacent
\* descriptors and hand-counted strings fit, and every string that a
\* descriptor names exists.
DescriptorsWhole ==
    SUDPTR # None /\ (setup_data.wValue = "string" /\ setup_data.lang # 0
                        => AsksForNamedString(setup_data, device_descriptor, config_descriptor))
        => /\ SUDPTR \in DOMAIN Tables
           /\ Announced(Tables[SUDPTR]) = Len(Tables[SUDPTR])
           /\ SUDPTR = "config_descriptor" => ConfigurationWhole(config_descriptor)

\* A write that was acknowledged gets done, unless the bus is hammered.
Drained == pend_write ~> (~pend_write \/ hammering)
=============================================================================
