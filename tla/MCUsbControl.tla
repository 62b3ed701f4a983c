---------------------------- MODULE MCUsbControl ----------------------------
(* UsbControl for TLC: the sets of requests of the runs. *)
EXTENDS UsbControl

Request(type, dir, recip, bRequest, wValue, ep) ==
    [type |-> type, dir |-> dir, recip |-> recip, bRequest |-> bRequest,
     wValue |-> wValue, index |-> 0, lang |-> 0, ep |-> ep]

Descriptor(wValue) == Request("standard", "IN", "device", 6, wValue, "EP0")
String(i, language) == [Descriptor("string") EXCEPT !.index = i, !.lang = language]

\* The languages in wIndex of a string request: the device's own is 0x0409.
Strings == {String(i, USB_LANG_ENGLISH_US) : i \in 1 .. 4} \cup {String(0, 0), String(1, 1031)}

MCFewIn == [IN |-> 1, OUT |-> 2]
MCBoth  == [IN |-> 3, OUT |-> 1]
MCOne   == [IN |-> 1, OUT |-> 1]

SetConfiguration == Request("standard", "OUT", "device", 9, "any", "EP0")
SetInterface == Request("standard", "OUT", "interface", 11, "any", "EP0")

OnEndpoint(dir, bRequest, eps) ==
    {Request("standard", dir, "endpoint", bRequest, "halt", ep) : ep \in eps}

\* Chapter 9 on a device whose every endpoint may be halted.
MCStandard ==
    OnEndpoint("IN", 0, {"IN", "OUT", "EP0"})
    \cup OnEndpoint("OUT", 1, {"IN", "OUT", "EP0", "none"})
    \cup OnEndpoint("OUT", 3, {"IN", "OUT", "EP0", "none"})
    \cup {Descriptor("device"), Descriptor("configuration"), Descriptor("unknown")}
    \cup Strings
    \cup {SetInterface, SetConfiguration,
          Request("standard", "IN",  "device",    0, "any", "EP0"),
          Request("standard", "OUT", "device",    1, "any", "EP0"),
          Request("standard", "OUT", "device",    7, "any", "EP0"),
          Request("standard", "IN",  "device",    8, "any", "EP0"),
          Request("standard", "IN",  "interface", 10, "any", "EP0"),
          Request("standard", "IN",  "endpoint",  12, "any", "IN")}

\* What the class driver does while MIDI flows.
MCDriver == {SetInterface}

\* ... and the overflow counter read and cleared by a test.
MCVendor == MCDriver \cup {Request("vendor", "IN",  "device", 1, "any", "EP0"),
                           Request("vendor", "OUT", "device", 2, "any", "EP0")}
=============================================================================
