-------------------------- MODULE ClassDescriptors --------------------------
(***************************************************************************)
(* The tables of firmware/usb_descriptors.c: a USB-MIDI device of eight    *)
(* cables.  Port p has the jacks 4p+1 .. 4p+4 (embedded IN, external IN,   *)
(* embedded OUT, external OUT); cable n is the nth jack listed at the      *)
(* endpoint.  The length constants derive from NUM_MIDI_PORTS, the list of *)
(* jacks and those of the endpoints are unrolled by hand.                  *)
(***************************************************************************)
EXTENDS UsbDescriptors

CONSTANT IdProduct      \* BOARD_USB_PID: 0x10C1 (r1) or 0x10C2 (r2)

NUM_MIDI_PORTS == 8

EMBEDDED == 1
EXTERNAL == 2
MIDI_IN  == 2
MIDI_OUT == 3

EP2_OUT == 2
EP2_IN  == 130

DESC_MIDI_IN_JACK(jtype, id) == <<6, CS_INTERFACE, MIDI_IN, jtype, id, 0>>
DESC_MIDI_OUT_JACK(jtype, id, srcid) ==
    <<9, CS_INTERFACE, MIDI_OUT, jtype, id, 1, srcid, 1, 0>>

\* Mutant of MIDI_PORT_JACKS: the sources of the OUT jacks exchanged.
MIDI_PORT_JACKS_Crossed(p) ==
    DESC_MIDI_IN_JACK(EMBEDDED, 4*p + 1) \o DESC_MIDI_IN_JACK(EXTERNAL, 4*p + 2)
        \o DESC_MIDI_OUT_JACK(EMBEDDED, 4*p + 3, 4*p + 1)
        \o DESC_MIDI_OUT_JACK(EXTERNAL, 4*p + 4, 4*p + 2)

MIDI_PORT_JACKS(p) ==
    DESC_MIDI_IN_JACK(EMBEDDED, 4*p + 1) \o DESC_MIDI_IN_JACK(EXTERNAL, 4*p + 2)
        \o DESC_MIDI_OUT_JACK(EMBEDDED, 4*p + 3, 4*p + 2)
        \o DESC_MIDI_OUT_JACK(EXTERNAL, 4*p + 4, 4*p + 1)

JACKS_PER_PORT_LEN == 30
CS_EP_LEN(n) == 4 + n

\* Mutant of MS_TOTAL_LEN: the header left out.
MS_TOTAL_LEN_NoHeader == NUM_MIDI_PORTS * JACKS_PER_PORT_LEN

MS_TOTAL_LEN == 7 + NUM_MIDI_PORTS * JACKS_PER_PORT_LEN

CONFIG_TOTAL_LEN ==
    9 + 9 + 9 + 9 + 7 + NUM_MIDI_PORTS * JACKS_PER_PORT_LEN
        + 9 + CS_EP_LEN(NUM_MIDI_PORTS) + 9 + CS_EP_LEN(NUM_MIDI_PORTS)

device_descriptor == usb_device_descriptor(0, 2638, IdProduct, <<1, 2, 3>>, 1)

\* A standard endpoint in the audio class's layout of nine bytes, and the
\* class-specific one that lists its jacks.
AudioEndpoint(address, jacks) ==
    <<9>> \o Tail(usb_endpoint_descriptor(address)) \o <<0, 0>>
        \o <<CS_EP_LEN(NUM_MIDI_PORTS), CS_ENDPOINT, 1, NUM_MIDI_PORTS>> \o jacks

config_block ==
    usb_config_descriptor(CONFIG_TOTAL_LEN, 2, 0)
        \o usb_interface_descriptor(0, 0, 1, 1, 0, 0)               \* AudioControl
        \o <<9, CS_INTERFACE, 1, 0, 1, 9, 0, 1, 1>>
        \o usb_interface_descriptor(1, 2, 1, 3, 0, 0)               \* MIDIStreaming
        \o <<7, CS_INTERFACE, 1, 0, 1>> \o Word(MS_TOTAL_LEN)
        \o MIDI_PORT_JACKS(0) \o MIDI_PORT_JACKS(1) \o MIDI_PORT_JACKS(2) \o MIDI_PORT_JACKS(3)
        \o MIDI_PORT_JACKS(4) \o MIDI_PORT_JACKS(5) \o MIDI_PORT_JACKS(6) \o MIDI_PORT_JACKS(7)
        \o AudioEndpoint(EP2_OUT, <<1, 5, 9, 13, 17, 21, 25, 29>>)
        \o AudioEndpoint(EP2_IN, <<3, 7, 11, 15, 19, 23, 27, 31>>)

en_string_descriptors == <<"strManufacturer", "strProduct", "strSerialNumber">>

\* What SUDPTR points to, by name.
Tables ==
    [device_descriptor   |-> device_descriptor,
     config_block        |-> config_block,
     language_descriptor |-> usb_language_descriptor,
     strManufacturer     |-> STR_DESCR(9, <<"S","t","e","i","n","b","e","r","g">>),
     strProduct          |-> STR_DESCR(10, <<"M","I","D","E","X","8"," ","U","A","C">>),
     strSerialNumber     |-> STR_DESCR(6, <<"0","0","0","0","0","1">>)]

-----------------------------------------------------------------------------
(* The topology as the class driver reads it.                              *)

ConfigDescriptors == Descriptors(config_block)

\* The places of the jacks of a kind, and of those that are sockets.
Jacks(kind) == {k \in Places(ConfigDescriptors, CS_INTERFACE) : ConfigDescriptors[k][3] = kind}
JackType(k) == ConfigDescriptors[k][4]
JackId(k)   == ConfigDescriptors[k][5]
Source(k)   == ConfigDescriptors[k][7]
External(kind) == {k \in Jacks(kind) : JackType(k) = EXTERNAL}
Embedded(kind) == {k \in Jacks(kind) : JackType(k) = EMBEDDED}

\* A socket's number, counted from 1 in the order of the descriptors.
Socket(k, kind) == Cardinality({j \in External(kind) : j <= k})

\* The jacks associated with the endpoint at an address: cable c is the c+1st.
Cables(address) ==
    LET at == CHOOSE k \in Places(ConfigDescriptors, CS_ENDPOINT) :
                  ConfigDescriptors[k - 1][3] = address
        d  == ConfigDescriptors[at]
    IN  SubSeq(d, 5, 4 + d[4])

\* Every jack has its own number, an OUT jack's source is an IN jack, and
\* cable p leads out of socket p and comes from socket p.
CablesAreSockets ==
    LET all == Jacks(MIDI_IN) \cup Jacks(MIDI_OUT) IN
    /\ \A j, k \in all : JackId(j) = JackId(k) => j = k
    /\ \A j \in Jacks(MIDI_OUT) : \E k \in Jacks(MIDI_IN) :
           JackId(k) = Source(j) /\ JackType(k) # JackType(j)
    /\ Len(Cables(EP2_OUT)) = NUM_MIDI_PORTS /\ Len(Cables(EP2_IN)) = NUM_MIDI_PORTS
    /\ \A c \in 1 .. NUM_MIDI_PORTS :
           /\ \E cable \in Embedded(MIDI_IN), socket \in External(MIDI_OUT) :
                 /\ JackId(cable) = Cables(EP2_OUT)[c]
                 /\ Socket(socket, MIDI_OUT) = c /\ Source(socket) = JackId(cable)
           /\ \E cable \in Embedded(MIDI_OUT), socket \in External(MIDI_IN) :
                 /\ JackId(cable) = Cables(EP2_IN)[c]
                 /\ Socket(socket, MIDI_IN) = c /\ Source(cable) = JackId(socket)
=============================================================================
