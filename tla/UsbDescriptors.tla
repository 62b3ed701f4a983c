--------------------------- MODULE UsbDescriptors ---------------------------
(***************************************************************************)
(* The descriptors of firmware/usb.h as sequences of bytes, and what a     *)
(* host makes of them: the EZ-USB streams as many bytes as the descriptor  *)
(* itself announces, the host goes from descriptor to descriptor by        *)
(* bLength.  Both sides read lengths written by hand.                      *)
(***************************************************************************)
EXTENDS Integers, Sequences, FiniteSets

TYPE_DEVICE        == 1
TYPE_CONFIGURATION == 2
TYPE_STRING        == 3
TYPE_INTERFACE     == 4
TYPE_ENDPOINT      == 5
CS_INTERFACE  == 36
CS_ENDPOINT   == 37

USB_LANG_ENGLISH_US == 9 + 2^10

\* A uint16_t of the 8051: low byte first.
Word(w) == <<w % 256, w \div 256>>
WordAt(b, i) == b[i] + 256 * b[i + 1]

-----------------------------------------------------------------------------
(* The structures, field by field.                                         *)

usb_device_descriptor(class, idVendor, idProduct, strings, configurations) ==
    <<18, TYPE_DEVICE>> \o Word(272) \o <<class, class, class, 64>> \o Word(idVendor)
        \o Word(idProduct) \o Word(256) \o strings \o <<configurations>>

usb_config_descriptor(wTotalLength, bNumInterfaces, iConfiguration) ==
    <<9, TYPE_CONFIGURATION>> \o Word(wTotalLength)
        \o <<bNumInterfaces, 1, iConfiguration, 128, 50>>

usb_interface_descriptor(number, bNumEndpoints, class, subclass, protocol, iInterface) ==
    <<9, TYPE_INTERFACE, number, 0, bNumEndpoints, class, subclass, protocol, iInterface>>

\* The bulk endpoints of 64 bytes; the audio class adds two bytes.
usb_endpoint_descriptor(address) == <<7, TYPE_ENDPOINT, address, 2>> \o Word(64) \o <<0>>

usb_language_descriptor == <<4, TYPE_STRING>> \o Word(USB_LANG_ENGLISH_US)

\* STR_DESCR: len is counted by hand, the letters are 16 bits each.
STR_DESCR(len, letters) ==
    <<2 * len + 2, TYPE_STRING>> \o [i \in 1 .. 2 * Len(letters) |-> IF i % 2 = 1 THEN 65 ELSE 0]

-----------------------------------------------------------------------------
(* The host's side.                                                        *)

\* The bytes the SUDPTR engine sends: wTotalLength of a configuration,
\* bLength of any other.
Announced(b) == IF b[2] = TYPE_CONFIGURATION THEN WordAt(b, 3) ELSE b[1]

\* The descriptors found by following bLength; a length that cannot be
\* followed leaves the rest in one piece.
Descriptors(b) ==
    LET from[i \in 1 .. Len(b) + 1] ==
            IF i > Len(b) THEN <<>>
            ELSE IF b[i] < 2 \/ i + b[i] > Len(b) + 1 THEN <<SubSeq(b, i, Len(b))>>
            ELSE <<SubSeq(b, i, i + b[i] - 1)>> \o from[i + b[i]]
    IN from[1]

\* The places of the descriptors of a type; of the descriptors that belong to
\* the interface at place i, which go on to the next interface.
Places(ds, type) == {k \in DOMAIN ds : ds[k][2] = type}
Inside(ds, i) ==
    {k \in DOMAIN ds : k > i /\ \A j \in Places(ds, TYPE_INTERFACE) : j > i => k < j}

\* A class-specific header announces all of its interface's class-specific
\* descriptors, itself included.
ClassTotal(header) == WordAt(header, 6)
TotalLength(ds, places) ==
    LET upto[n \in 0 .. Len(ds)] ==
            IF n = 0 THEN 0
            ELSE upto[n - 1] + IF n \in places THEN Len(ds[n]) ELSE 0
    IN  upto[Len(ds)]

\* The interface at place i has the endpoints it says and, if it has any
\* class-specific descriptors, as many bytes of them as the first one says.
InterfaceWhole(ds, i) ==
    LET specific == Inside(ds, i) \cap Places(ds, CS_INTERFACE) IN
    /\ Cardinality(Inside(ds, i) \cap Places(ds, TYPE_ENDPOINT)) = ds[i][5]
    /\ \A header \in specific :
          (\A k \in specific : header <= k) => ClassTotal(ds[header]) = TotalLength(ds, specific)

\* The whole configuration is announced, parses to its end, and holds as many
\* interfaces, endpoints and class-specific bytes as it says.
ConfigurationWhole(b) ==
    LET ds == Descriptors(b) IN
    /\ Announced(b) = Len(b)
    /\ \A k \in DOMAIN ds : Len(ds[k]) >= 2 /\ Len(ds[k]) = ds[k][1]
    /\ Cardinality(Places(ds, TYPE_INTERFACE)) = b[5]
    /\ \A i \in Places(ds, TYPE_INTERFACE) : InterfaceWhole(ds, i)

\* The indices by which a device and its configuration name strings.
NamedStrings(device, configuration) ==
    LET ds == Descriptors(configuration)
    IN  ({device[15], device[16], device[17], configuration[7]}
         \cup {ds[k][9] : k \in Places(ds, TYPE_INTERFACE)}) \ {0}
=============================================================================
