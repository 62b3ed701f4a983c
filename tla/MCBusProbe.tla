----------------------------- MODULE MCBusProbe -----------------------------
(* BusProbe for TLC: the requests of the host's test tools, and chapter 9's. *)
EXTENDS BusProbe

Request(type, dir, recip, bRequest, wValue, ep) ==
    [type |-> type, dir |-> dir, recip |-> recip, bRequest |-> bRequest, wValue |-> wValue,
     index |-> 0, lang |-> 0, ep |-> ep, addr |-> <<0, 0>>, val |-> 0]

Vendor0(dir, bRequest) == Request("vendor", dir, "device", bRequest, "address", "EP0")
String(i, language) ==
    [Request("standard", "IN", "device", 6, "string", "EP0") EXCEPT !.index = i, !.lang = language]

MCRequests ==
    {[Vendor0("IN", 176) EXCEPT !.addr = a] : a \in {<<0, 0>>, <<0, 1>>, <<1, 1>>}}
    \cup {[Vendor0("OUT", 177) EXCEPT !.addr = w[1], !.val = w[2]] :
             w \in {<< <<0, 1>>, 1 >>, << <<1, 0>>, 1 >>, << <<0, 1>>, 0 >>, << <<1, 1>>, 0 >>}}
    \cup {Vendor0("OUT", 178), Vendor0("OUT", 179), Vendor0("OUT", 180), Vendor0("OUT", 181)}
    \cup {Request("standard", "IN", "device", 6, "device", "EP0"),
          Request("standard", "IN", "device", 6, "configuration", "EP0"),
          Request("standard", "OUT", "endpoint", 3, "halt", "IN"),
          Request("standard", "IN", "endpoint", 0, "halt", "IN"),
          Request("standard", "IN", "device", 8, "any", "EP0"),
          Request("standard", "OUT", "interface", 11, "any", "EP0"),
          String(0, 0), String(5, USB_LANG_ENGLISH_US)}
=============================================================================
