----------------------------- MODULE UsbRequests -----------------------------
(***************************************************************************)
(* The standard requests of chapter 9 as firmware/usb.c answers them; the  *)
(* bus probe's usb_probe.c keeps a copy of the same handlers.              *)
(*                                                                         *)
(* A request is [type, dir, recip, bRequest, wValue, index, lang, ep]:     *)
(* type, dir and recip are the fields of bmRequestType; wValue is what the *)
(* handler tells apart in it, index its low byte; lang is wIndex of a      *)
(* string request, ep the endpoint that wIndex addresses.  An answer is    *)
(* what is armed for the data stage, where SUDPTR is left pointing, and    *)
(* whether EP0 stalls.                                                     *)
(***************************************************************************)
EXTENDS UsbDescriptors

CONSTANT None       \* nothing armed

Dirs == {"IN", "OUT"}

Data(x)   == [data |-> x,    descr |-> None, stall |-> FALSE]
Points(d) == [data |-> None, descr |-> d,    stall |-> FALSE]
Ack       == [data |-> None, descr |-> None, stall |-> FALSE]
Stall     == [data |-> None, descr |-> None, stall |-> TRUE]

Standard(r, dir, recip) == r.type = "standard" /\ r.dir = dir /\ r.recip = recip
Bulk(r) == r.ep \in Dirs        \* else "EP0", or "none": 8..15
Flag(b) == IF b THEN 1 ELSE 0

\* usb_handle_get_status, given the halts.  The endpoints 8..15 have no
\* register: what is read through the null pointer may have the bit or not.
StatusReplies(r, halted) ==
    IF r.type # "standard" \/ r.dir # "IN" THEN {Stall}
    ELSE IF r.recip # "endpoint" THEN {Data(0)}
    ELSE IF Bulk(r) THEN {Data(Flag(halted[r.ep]))}
    ELSE IF r.ep = "EP0" THEN {Data(0)} ELSE {Data(0), Data(1)}

\* usb_handle_clear_feature: any other recipient, and any other type, falls
\* through to "return true".
ClearFeatureReply(r) ==
    IF Standard(r, "OUT", "device") THEN Stall
    ELSE IF Standard(r, "OUT", "endpoint") /\ (r.wValue # "halt" \/ r.ep = "none") THEN Stall
    ELSE Ack

\* usb_handle_set_feature.  Halting EP0 is stalling this very request.
SetFeatureReply(r) ==
    IF Standard(r, "OUT", "endpoint") /\ (r.wValue # "halt" \/ r.ep \in {"EP0", "none"})
    THEN Stall ELSE Ack

\* usb_handle_get_descriptor.  An index the table of strings does not have
\* is not refused: SUDPTR gets whatever lies beside the table.
DescriptorReply(r, configuration, strings) ==
    CASE r.wValue = "device"        -> Points("device_descriptor")
      [] r.wValue = "configuration" -> Points(configuration)
      [] r.wValue = "string" /\ r.lang = 0 -> Points("language_descriptor")
      [] r.wValue = "string" /\ r.lang = USB_LANG_ENGLISH_US ->
            Points(IF r.index \in DOMAIN strings THEN strings[r.index] ELSE "stray")
      [] OTHER -> Stall

\* The bulk endpoint whose halt a request sets or clears.
Halts(r)   == r.bRequest = 3 /\ Standard(r, "OUT", "endpoint") /\ r.wValue = "halt" /\ Bulk(r)
Unhalts(r) == r.bRequest = 1 /\ Standard(r, "OUT", "endpoint") /\ r.wValue = "halt" /\ Bulk(r)
SetsInterface(r) == r.bRequest = 11

\* The halts after request r: IN2CS and OUT2CS written anew; EPSTALL set, or
\* cleared.
HaltsAfterRequest(r, halted) ==
    IF SetsInterface(r) THEN [d \in Dirs |-> FALSE]
    ELSE IF Halts(r) \/ Unhalts(r) THEN [halted EXCEPT ![r.ep] = Halts(r)]
    ELSE halted

\* The string a request is for is one that the descriptors name, in the
\* language that the device names.
AsksForNamedString(r, device, configuration) ==
    r.lang = WordAt(usb_language_descriptor, 3) /\ r.index \in NamedStrings(device, configuration)
=============================================================================
