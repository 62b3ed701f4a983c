# Formal models of the MIDEX class firmware

TLA+ models of `firmware/` (a USB-MIDI class firmware for the Steinberg MIDEX
interfaces: an EZ-USB 8051, six or eight MIDI ports) and of the uploader in
`host/`, the TLC runs that check them, and proofs, checked by TLAPS, of their
safety for every value of the constants. The bus-probe image of the same tree is in,
too. `PROJECT.json` maps every definition to the lines it models and lists runs,
findings, hazards and theorems.

## 1. The system

```
 instrument ─► UART RHR/SBUF ─(Timer0 ISR)─► rx_fifo[p] ─(main)─► parse_byte ─► rx_ring ─► EP2-IN ─► host
 host ─► EP2-OUT ─(EP2 ISR: semaphore)─(main)─► bridge_out ─► tx_ring[p] ─► uart_tx_pump ─► UART THR ─► instrument
 host ─► EP0 SETUP ─(SUDAV ISR)─► usb_handle_setup_data ─► halts, toggles, re-arming of EP2
 host tool ─► EZ-USB ROM (0xA0 writes) ─► RAM, 8051 reset and release
 reset ─► board_init ─► usb_init ─► uart_bringup ─► uart_rx_start ─► main loop
```

The firmware is one main loop (`bridge_out`, `uart_tx_pump`, `midi_rx_pump`, none
of which blocks), two USB interrupts of low priority and the Timer0 interrupt of
high priority. They share memory without locks.

| Component | State | Operations | Met by | What makes it correct |
|---|---|---|---|---|
| RX capture (`uart.c`) | receive registers, `rx_fifo` with head and tail, prescaler, overflow counter | Timer0 ISR; `uart_rx_available`, `uart_rx_dequeue` | ISR preempts the main loop between any two accesses | each byte handed over once and in order, or counted; everything drains |
| RX timing (`board_*.h`, `uart.c`) | Timer0, TF0, prescaler | tick, sweep | the line, on its own clock | a port is read before its next byte completes |
| MIDI parser (`midi_parser.c`) | `struct port_parser` per cable | `parse_byte` | pure, one caller | packets are what the byte stream calls for |
| RX bridge (`midi_parser.c`) | `rx_ring`, EP2-IN | `midi_rx_pump` | capture FIFOs, the host's reads | every packet once; a silent host does not stop the draining |
| TX bridge (`main.c`) | `tx_ring`, `out_off`, semaphore, EP2-OUT | `bridge_out`, `uart_tx_pump`, `ep2out_isr` | host transfers, SET_INTERFACE, boot | back-pressure loses and repeats nothing and ends |
| Control endpoint (`usb.c`) | EP0, halts, data toggles, overflow counter | `sudav_isr` and its handlers | bulk transfers in flight, the next SETUP, the host's own view of halts and toggles | every request answered truthfully; packets taken once |
| USB descriptors (`usb_descriptors.c`) | constant tables | - | control endpoint, the class driver | streamed whole; cable n is socket n |
| Board and UART bring-up (`main.c`, `uart_ext.c`, `uart_onchip.c`, `board_*.h`) | pins, timers, UART registers behind DLAB, rings | `board_init`, `usb_init`, `uart_bringup`, `uart_rx_start`, `uart_putc` | write glue that settles late, isochronous buffers, enumeration | every port at 31250 baud, 8N1; capture starts on clean ground |
| Bus probe (`main_probe.c`, `usb_probe.c`) | one deferred write, external memory | vendor requests, main loop | ISR between the bytes the loop fetches | the writes made are the writes asked for; reads see them |
| Uploader (`midex-fw-upload.c`) | records, offset, the device's RAM and reset | parse, hold, write, release | failing transfers, the plug, a second uploader | only a whole image ever runs |
| Path switch (`midex-fwctl.sh`, udev rules, dispatch) | configuration files, running units | install, class, stock, uninstall | udev, stock driver | not modelled, see section 6 |
| Bench scripts, register headers, delays | - | - | - | no logic of the product; not modelled |

The hard behaviours, and where each bites, are the `hazards` of `PROJECT.json`:
preemption without locks; registers and rings at their limits and 8-bit indices
at their wrap; a byte clock against a sweep clock; SysEx, running status and
real-time bytes in any order; a decode that stops half-way and resumes; an
interrupt that re-arms an endpoint the main loop thinks it holds; lost
handshakes and toggles; a SETUP whose interrupt is cleared with the last one's;
requests after which the host starts an endpoint anew and the device does not;
registers that mean something else while DLAB is set, written through a bus that
loses writes; a note for the main loop rewritten while it is read; uploads that
fail, move nothing, are repeated half-way or run twice at once.

## 2. The modules

| Module | Models | Composed with |
|---|---|---|
| `ByteFifo` | abstract: one bounded byte queue per port, what `uart.h` promises | |
| `RxCapture` | `uart_rx_isr` / `RX_STORE`, the consumer's side, the UARTs | refines `ByteFifo` |
| `RxTiming` | Timer0, prescaler, one port's receive register in time | |
| `MidiParser` | `parse_byte`, `cin_len` as operators | used by the next two |
| `MidiStream` | a parser fed with streams, a loopback parser behind it, and a reference | `MidiParser` |
| `RxBridge` | `midi_rx_pump`, ring, EP2-IN, host | `MidiParser`, and `ByteFifo` by INSTANCE for the FIFOs |
| `TxQueue` | abstract: one queue of bytes per MIDI line, and when the host is let in | |
| `TxBridge` | `bridge_out`, `uart_tx_pump`, EP2-OUT and its ISR, SET_INTERFACE, boot | refines `TxQueue` |
| `UsbDescriptors` | chapter 9's descriptors byte by byte, and the host's reading of a configuration, as operators | used by the next two |
| `ClassDescriptors` | the class firmware's tables; the cables the class driver makes of them | `UsbDescriptors` |
| `UsbRequests` | the request handlers that `usb.c` and `usb_probe.c` share, as operators | `UsbDescriptors` |
| `UsbControl` | `sudav_isr` of the class firmware; EP2 toggles and halts, device and host | `UsbRequests`, `ClassDescriptors` |
| `BusProbe` | `sudav_isr` of the probe, its vendor requests, its main loop, its tables | `UsbRequests` |
| `BringUp` | from reset to the main loop, boards r1 and r2 and the probe; the UART backends' transmit side | |
| `FwUpload` | `parse_ihex`, `main` of the uploader, several at once; device, plug | |
| `RxCaptureProofs` | theorems about `RxCapture` and `RxTiming` | |
| `MidiStreamProofs`, `RxBridgeProofs`, `TxBridgeProofs`, `UsbControlProofs`, `BringUpProofs`, `BusProbeProofs`, `FwUploadProofs` | theorems, each about the module it is named for | |
| `MC*` | the instances TLC checks | |

How state and actions correspond to the code, where it is not one to one:

- **Atomicity.** `RxCapture` splits the main loop at each access to a shared index
  (`MainAvailable`, `MainRead`, `MainAdvance`; the test that finds nothing is
  `MainNextPort`), and the ISR at each port and, for an on-chip UART, between
  `b = SBUF0` and `RI_0 = 0`, since the UART moves meanwhile. The main loop takes
  no step while the ISR runs (`IsrIdle`): the 8051 has one core and PT0 = 1.
- **The ring behind the FIFOs** is `RxBridge`'s; in `RxCapture` only its room counts
  (`rxRoom`). A parsed byte may take the last of it; then the scan leaves each port
  with its bytes in the FIFO (the `break` of midi_parser.c:222-223, in `MainNextPort`),
  until the shipping at the end of a pass makes some.
- **Bytes** in `RxCapture` are serial numbers; the code only copies them, and the
  numbers are what makes a lost, repeated or swapped byte visible.
- **UART hardware** is external: an external UART overwrites its RHR, an on-chip
  one does not load SBUF while RI is set. Both count as an overrun.
- **`RxBridge`** takes one action per parsed byte (`DrainByte`: the queue, the
  parser and the ring, as in one pass of the `while` loop), and splits the shipping
  at the test of EPBSY, the copy, and the write of IN2BC. `departed` are the packets that left EP2-IN: to the
  host, or thrown away with a transfer that a SET_INTERFACE took back. The ring's indices are
  byte indices as in the code; its cells are packets, since `emit` and the copy
  loop move four bytes at a time.
- **`TxBridge`** splits `bridge_out` at each event and between the semaphore's reset
  and the re-arming write, `uart_tx_pump` at each port. An event is its cable, its
  payload length and its identity. A transfer smaller than the one before it leaves
  the rest of OUT2BUF as it was.
- **`UsbControl`** takes `sudav_isr` in two steps, the service of the request and
  `USBIRQ = SUDAVIR`. A handler that writes EP0CS lets the host go on before that
  (stage "released"): by a stall, or, when the halt of EP0 is cleared, by writing a
  pending HSNAK back. The next SETUP may then come in between; its interrupt is
  cleared with the one before, and it gets the bare handshake of whatever HSNAK
  finds. `overtaken` remembers that this has happened. The switch is on `bRequest` alone, as in the code. IN and OUT transactions carry
  toggles; the handshake may be lost. What the host makes of its own requests is
  chapter 9's (`Configures`, `ChoosesSetting`, `SetsHalt`, `ClearsHalt`,
  `RestartsFor`), not the code's: at a SET_CONFIGURATION it restarts both toggles and
  takes both halts for ended, whereof the firmware does nothing. `outResets` counts
  the restarts of the OUT toggle that the host makes alone, `leftHalted` are the
  endpoints whose halt stays against chapter 9. A null endpoint register (endpoints 8..15)
  reads as anything.
- **Descriptors** are sequences of bytes, as in the source; only the letters of
  strings are left out (their number is kept). `Announced` is how many bytes the SIE
  streams: it takes the length from the descriptor itself. What the host makes of
  them (`ConfigurationWhole`, `CablesAreSockets`) is defined on the bytes, with no
  use of the macros that made them.
- **`BusProbe`**: the main loop reads `pend_addr`'s two bytes and `pend_val` in any
  order, one step each, and the ISR may come between. `xdata` is the external
  memory. The two hammering requests never return: nothing follows them.
- **`BringUp`**: `main()` is a sequence of steps (`at`); `uart_write_lcr` is one step
  per try (write, read back, compare), every other register write a step of its own
  that the glue may lose. DLAB redirects what is written at 0 and 1. A channel in
  reset latches nothing. Until ISODISAB is set the core may put anything into the
  rings' memory. `unlucky` marks a run in which the glue, settled, lost a write the
  code cannot notice or one LCR write as often as it is tried.
- **`FwUpload`**: a transfer takes effect or not, and its answer arrives or not; one
  that moves some of its bytes is an error, one that moves none is none
  (midex-fw-upload.c:177), and `skipped` marks that the run has had one. Booting
  takes the device away from every tool, before the status stage or after; it is
  taken to re-enumerate on whatever it runs. A byte over `Cpucs` holds or releases
  the 8051 like the tool's own two writes (`WriteReleasing`); from `RamTop` on there
  is no memory to write to. A file is a sequence of lines, of which only what
  `parse_ihex` takes from them is kept. `mixed` marks that two tools had the device
  open at once with files that do not leave each other's image whole (`Harmless`),
  `doubted` that the upload released last had skipped a transfer.

## 3. The runs

| Run | Question | Properties |
|---|---|---|
| `capture` | does the lock-free ring work under every interleaving? | `TypeOK`, `Conservation`, `InOrder`, `OverflowExact`, `ImplementsByteFifo`, `Drains` |
| `timing` | are the board's constants enough at full line rate? | `TimingTypeOK`, `NoOverrun`, `SteadyCadence` |
| `stream` | is the parser right on every stream? | `TypeOK`, `MatchesReference`, `LoopbackStable` |
| `rx_bridge` | does every packet get to the host, and does a silent host do no harm? | `TypeOK`, `EveryPacketOnce`, `TransfersInOrder`, `RxNeverBlocked`, `Delivered` |
| `tx_bridge` | does back-pressure lose nothing and end; can SET_INTERFACE wedge it? | `TypeOK`, `NothingLostOrRepeated`, `ImplementsTxQueue`, `AllSent`, `NeverWedged` |
| `usb_control` | is every request answered truthfully, the OUT direction exact, every descriptor whole? | `TypeOK`, `NeverHangs`, `StatusTruthful`, `OutExactlyOnce`, `DescriptorsWhole`, `CablesMatchSockets` |
| `bringup` | does every port come up right on both boards, over a bad bus? | `TypeOK`, `ComesUpRight`, `CaptureSafe`, `EveryPortSpeaks` |
| `probe` | are the probe's deferred writes the ones asked for? | `TypeOK`, `WritesOnce`, `ReadsFresh`, `DescriptorsWhole`, `Drained` |
| `fw_upload` | can anything but a whole image run, is exit status 0 true, with two uploaders? | `TypeOK`, `OnlyWholeImageRuns`, `SuccessIsTrue` |
| `tx_rearm_loss` | violation | `EveryByteAccounted` |
| `usb_toggle` | violation | `InExactlyOnce` |
| `usb_vendor` | violation | `VendorServed` |

Bounds, and why they suffice:

- `capture`: one external and one on-chip port, rings of two slots, four bytes a
  line. One byte fills a ring; each slot is used more than once; six bytes can be
  dropped in all against a counter that saturates at 2; the prescaler (2) skips; rx_ring
  may be full after any byte.
  The proofs cover every ring size, port count and number of bytes.
- `timing`: the board's own numbers in microseconds (93, 3, 320). A port is read
  between 60 and 100 us into a sweep of at most 105: 40 us of jitter, one less than
  would break `CadenceAssumption`. So 40 us is the answer to how far a port's read
  may shift from sweep to sweep; the proof says so for all values.
- `stream`: six bytes, one status byte for every branch of `parse_byte`: a SysEx
  of two chunks, one aborted after each of its residues, running status twice over,
  real-time bytes anywhere.
- `rx_bridge`: two cables, a ring of four packets of which three can be used,
  transfers of two packets, six bytes: the ring fills behind a busy endpoint and
  wraps. `EveryPacketOnce` looks at each cable's bytes and packets, `TransfersInOrder`
  at what goes on between `emit` and the host, the cables' packets interleaved.
- `tx_bridge`: rings of four bytes, transfers of up to two events of up to three
  bytes: a three-byte event fills a ring, the next one stalls; also an event for a
  cable beyond the ports and one of a reserved CIN. One SET_INTERFACE anywhere. With
  `Backlog` one less than a ring TLC refutes `ImplementsTxQueue`: a full ring's bytes
  and the one in the UART are what may wait.
- `usb_control`: all standard requests of the class driver and of chapter 9 in any
  order, string requests for every string, for the languages and for one that is not
  there; one packet IN and two OUT, so that the OUT toggle takes each value twice;
  one CLEAR_FEATURE of OUT's halt or SET_CONFIGURATION (`MaxResets`; each shifts the
  toggles once: `OutExactlyOnce` counts them). `usb_toggle` has SET_INTERFACE as its only
  request. Without the slack for resets TLC refutes `OutExactlyOnce`, with
  SET_CONFIGURATION as the only reset too; without `leftHalted`, `StatusTruthful`.
- `bringup`: r1 with two external ports, r2 with one port of each kind (454, 452,
  on-chip), both straps; three tries for an LCR write where the code has 50, and five
  lost writes, more than the tries of one write, so that giving up happens too. The
  ports of one kind do not interact.
- `probe`: addresses of two bytes of two values, two writes, so that the second may
  come between any two steps of the first; reads in between.
- `fw_upload`: two tools, three runs, two faults, seven files over eight addresses, of
  which five are RAM and one is CPUCS; one file writes to CPUCS, first to hold and
  then to release. With `Harmless` weakened
  to "the same file", or to "no overlapping lines", TLC refutes `OnlyWholeImageRuns`:
  both conditions are needed. Without `skipped` it refutes `SuccessIsTrue`, without
  `doubted` or `InRam` `OnlyWholeImageRuns`.

`CHECK_DEADLOCK FALSE` stands where the instance's bound ends the behaviour (the
parser's streams, the bridge once its bytes are through and the host idle, the
counted transfers of the USB model, the counted runs of the uploader), where the
program reaches its loop and the model has nothing more to say (`BringUp`), and
where it hangs by design (`BusProbe`'s hammering).

**Fairness.** `RxCapture`: the timer ticks and the ISR ends (weak). The main loop is
suspended by each sweep and again by the next, but a sweep (about 105 us) ends
before the next tick's sweep (279 us) and leaves the main loop time each round;
hence strong fairness. Besides, `HostReads` is an assumption on the host, without
which `Drains` is false: it keeps reading EP2-IN, so that a pump that ends with no room
in rx_ring again and again at some time makes some (strong). Behind a host that stops
reading the bytes stay in their FIFOs, and are dropped and counted when these are
full. `ImplementsByteFifo` is safety and needs neither. `RxBridge`: the main loop runs (weak); nothing of the host,
except in `Delivered`, which says "if the host keeps reading". `TxBridge`: a pending
interrupt is served, the main loop runs, a UART that holds a byte sends it (weak);
the host need not send. `BusProbe`: the SUDAV interrupt is served and the main loop
runs (weak: SETUPs are milliseconds apart, a pass of the loop takes microseconds);
the host need not ask. `BringUp`: the program goes on, the glue settles, the host
enumerates what connects, and in the loop a UART that holds a byte sends it (weak;
each is a wait of known length). The lines and the host's requests are never fair.

## 4. What is proved

For every number of ports, ring size, prescaler, saturation value and number of
bytes (`RxCaptureProofs`, from the named assumptions in `RxCapture`: at least one
port, rings of at least two slots, positive prescaler and counter):

- `TypeCorrect`: the indices stay in the ring, the counter in its range.
- `ConservationCorrect`, `OrderCorrect`, `OverflowCorrect`: the safety properties of
  the `capture` run; `DequeueCorrect`: the slot a dequeue is reading keeps its byte.
- `CaptureImplementsByteFifo`: the ring, as `Queue(p)`, is the abstract queue
  (`ImplementsByteFifo`): `RX_STORE` is `Capture` or `Drop`, `MainAdvance` is `Deliver`,
  and every other step leaves the queue alone.

None of these is inductive alone. `CaptureInv` adds to them `IsrHolds`: while
the ISR is between reading SBUF and clearing RI, it holds the byte that is still
flagged. Without it storing that byte could not be shown to keep order. `DequeueSafe`
is needed the same way on the consumer's side: the byte the main loop has copied
is still the head of the queue when it moves the tail, whatever the ISR stored
meanwhile. The argument per step is about the sequence `Queue(p)`: the lemmas
`StoreQueue` and `TakeQueue` show that writing a slot and moving an index is
`Append` and `Tail` for all indices, wrapped or not, and everything else
(`ChainAppend`, `ChainTail`, `ChainLine`) is about sequences of serial numbers.

For every choice of periods (`RxTiming`, proved in `RxCaptureProofs` too):

- `CadenceCorrect`: if a sweep is shorter than two ticks, no overflow of the timer
  is lost and sweeps start no more than `TickPrescale * Tick` apart.
- `NoOverrunCorrect`: if besides `TickPrescale * Tick + (Hi - Lo) < ByteTime`, no byte
  is overrun.

The invariant `TimingInv` says that the time since the last sweep is exactly the
overflows counted since then (`ClockExact`), that a pending overflow is less than
a period old (`PendingFresh`), that a sweep is where its time says
(`SweepBounded`), and that a byte in the register came after the port's last read
(`ByteAfterRead`). The last gives the overrun bound.

For every choice of status bytes and streams of up to 126 bytes
(`MidiStreamProofs`; the data bytes of a stream are numbered, and a MIDI data byte
has seven bits):

- `TypeCorrect`: both parsers' fields stay in range, the SysEx buffer never holds
  more than two bytes when `parse_byte` returns, and a byte makes at most one
  packet, which is the room `midi_rx_pump` makes for it.
- `LoopbackCorrect`: what `cin_len` makes of a packet on the way out is read as that
  packet on the way in. `out2 = out` is not inductive: the second parser must also be
  found in the right state. `LoopInv` says that between packets its SysEx buffer is
  empty (`Settled`), and that it is inside a SysEx whenever the first one has sent a
  chunk of the one it is in (`Begun`), so that the next chunk is not taken for the data of a
  message. One lemma per kind of packet (`...Echoes`) shows that `Settled` is found
  again behind it.
- `ReferenceCorrect`: each byte makes the packet that the reference, which knows only
  the stream, calls for. `RefInv` adds to `LoopInv` that the parser's state can be
  read off the stream without its real-time bytes (`Matches`): outside a message it
  is bare, in a SysEx `sx` holds the bytes since the last chunk, as many as the
  distance from the F0 leaves modulo 3 (`InSysEx`), and in a message status, CIN and
  need are the last status byte's and `have` is that distance modulo need
  (`InMessage`); there is one lemma per branch of `parse_byte`. `Plain`, which drops
  the real-time bytes, is a recursive function: `PlainNext` gives what it makes of
  one byte more.

For every number of ports, every alphabet, and rings, transfers and FIFOs of every
size (`RxBridgeProofs`, from the ranges `RxBridge` assumes: a ring of 8 to 256 bytes
and transfers of 4 to 64, in whole packets):

- `TypeCorrect`: both indices stay at packet boundaries, a FIFO or a transfer never
  holds more than fits, EP2-IN is never armed empty.
- `OrderCorrect`: what the parsers emitted has left EP2-IN, is loaded in it or in
  the ring, once and in order. `CountPackets`, `PutArith` and `TakeArith` carry the
  code's masked byte indices over to cells, wrapped or not; `FrontPut` and
  `FrontTake` then say that `emit` appends to the ring's contents, for which the
  reserved cell is needed, and that the copy loop splits them. `EndpointInv` is the
  strengthening: EP2-IN holds packets exactly from the copy to the host's read.
- `EveryPacketCorrect`: cable by cable, `Parsed(fed[p])`, which is `parse_byte` folded
  over all that the cable delivered, gives the packets emitted for it, and these are
  past EP2-IN, in it or in the ring. `PacketInv` adds that the parser the
  firmware keeps is the fold's state, and that picking a cable's packets out of a
  sequence (`Own`) goes through concatenation.

For every number of ports, ring size, transfer size and set of events
(`TxBridgeProofs`, from the ranges `TxBridge` assumes):

- `TypeCorrect`: `bridge_out` decodes inside OUT2BUF, the indices stay in their rings,
  a UART holds one byte at most, even if a SET_INTERFACE re-arms the endpoint.
- `NothingLostCorrect`: as long as no SET_INTERFACE comes, every byte taken from the
  host is on the wire, in the UART, in the ring or undecoded, once and in order. The
  invariant `BridgeInv` says who owns the transfer (`Handshake`): the host while the
  endpoint is armed, then the interrupt, then the decoder, never two of them; and
  that `out_off` is 0 but for a transfer left half-decoded. What an event puts into the
  ring is appended to its contents for all indices, wrapped or not, for which the
  test of `tx_room` is needed; `BytesFor`, a recursive function, gives up one event at
  its front with each one decoded.
- `BridgeImplementsTxQueue`: endpoint, decoder, rings and UARTs are one queue per
  line. The host's transfer is `HostSends`, a UART's byte is `Sends`, and the rest
  stutters. The first needs that the host is let in only when nothing is undecoded
  (`Handshake`), so that at most a ring's contents and one byte in the UART wait for a
  line (`HostLetIn`); the second that the byte a UART holds is the next accepted one
  (`NextByte`). Like the invariant it holds until a SET_INTERFACE comes (`requests`).

For any number of packets and every set of requests (`UsbControlProofs`;
`RequestsAssumption` asks that a SET_INTERFACE be addressed to an interface and the
number of a bulk endpoint to an endpoint, no more):

- `TypeCorrect`, `NeverHangsCorrect` and `StatusCorrect`, from what is known of the
  answer while a request is being served (`AnswerInv`) and from the device's halts
  being the host's and those left against chapter 9, the request being served
  included (`HaltsInv`); both only as long as no SETUP has overtaken `sudav_isr`.
  `NeverHangs` is about the requests for data that the switch serves, whichever
  others come between; SYNCH_FRAME it acknowledges with no data (section 5).
- `OutCorrect`: `accepted` and `acknowledged` drift apart by no more than one packet
  in flight and one for each CLEAR_FEATURE and SET_CONFIGURATION. `ToggleInv` ties the
  drift to whether the toggles agree (`Within`), except between the device's reset
  and the host's in a SET_INTERFACE, when nothing is half done.
- `DescriptorsCorrect` and `CablesCorrect`. What is streamed is what GET_DESCRIPTOR
  makes of the request being served (`StreamInv`), hence one of the tables. That a
  table is whole is said by two recursive functions: `Descriptors` follows the length
  bytes, `TotalLength` adds them up. `Holds(b, ds)` says that the bytes b are the
  descriptors ds, each as long as its first byte says; it goes through concatenation
  (`HoldsBoth`), so that the 325 bytes are built up as the macros build them, header,
  eight times four jacks, endpoints, to 41 descriptors, and `FindsWhatIsHeld`, by
  induction, gives that following the length bytes finds exactly these. What the
  totals announce and which jack is joined to which socket is then read off the 41.
  The product number is the one parameter.

For any ports, chips, number of tries and of lost writes (`BringUpProofs`):

- `TypeCorrect`, `CaptureCorrect`, `BringUpCorrect`. The invariant follows `main()`: the
  phase fixes pins, clocks and resets (`PathInv`, `PinsInv`), which memory has been
  zeroed (`ContentInv`), the on-chip UARTs (`OnChipInv`), and how far each external
  channel is: untouched, half-way, set up (`ChannelInv`, `Progress`). The last holds
  while the run is not `unlucky`, which is all the code can promise.

For any addresses, values and requests (`BusProbeProofs`):

- `TypeCorrect`, `WritesOnceCorrect`, `ReadsFreshCorrect`. `NoteInv`: as long as the
  host does not hurry, what it asked for and what has been done differ by the note
  at most, and each byte fetched is the note's. `MemoryInv`: memory holds the last
  write done to each address.
- `DescriptorsCorrect`: the probe's tables, too, are streamed whole. `StreamInv` is the
  same; the configuration, four descriptors in 32 bytes, is followed one by one.

For any number of tools, files, runs and faults (`FwUploadProofs`):

- `SuccessCorrect`: exit status 0 is true, unless a transfer of the run moved nothing.
  The invariant follows who may have taken the device away under a tool that still
  writes, by a release or by a record over CPUCS (`LostTo`, `GoneOrBooted`), that the
  8051 is held under a tool that has skipped nothing (`HeldOrSkipped`), and that
  handles open at once agree on the image unless `mixed` (`HandlesAgree`).
- `TypeCorrect`: a tool's records are those of its file (`Loaded`), and it stays inside
  them.
- `WholeImageCorrect`: the 8051 is let go on the whole image of a well-formed file or
  not at all, for files whose bytes belong to the RAM (`InRam`; such a file has no byte
  for CPUCS), unless `mixed` or `doubted`. Two things meet here. `parse_ihex` is a fold over lines,
  the image is said of the file without parser state: by induction over the lines the
  records before line n are those the reference counts up to n. And a tool that
  writes has the device as its place in the records says (`Progress`, `Stands`): each
  address holds what the records done, and the chunks of the one being done, say last,
  unless a transfer was skipped.
  It survives a second tool's writing only because the two files are the same and
  no two of its lines write to one address (`Harmless`), which is why `HandlesAgree`
  says so.

The files are lines as `parse_ihex` can read them (`FilesAssumption` in `FwUpload`).

**Induction.** The theorems about whole inputs and whole tables (`ReferenceCorrect`,
`EveryPacketCorrect`, `NothingLostCorrect`, `WholeImageCorrect` and those about
descriptors) rest on recursive functions over a range of numbers. Each proof module
that needs induction derives it from the library's `NatLessThanWellFounded` and the
minimum of a well-founded relation, as `SetInduction` about a set of numbers, and
states what it wants of a function as membership in such a set. The lemma, and in
the two descriptor proofs those about following length bytes, stand in each module
that uses them: a module of their own would bring one image's tables to the other.

**Only model-checked:** liveness (`Drains`, `Delivered`, `RxNeverBlocked`, `AllSent`,
`NeverWedged`, `Drained`, `EveryPortSpeaks`), which is out of the prover's reach. Every other property of the passing runs is a theorem.

## 5. Findings

- **A SET_INTERFACE loses a transfer** (`tx_rearm_loss`, `usb.c:351`). `OUT2BC = 0`
  re-arms EP2-OUT behind the main loop's back. The run's trace is the one at boot:
  interrupts are on during the UART bring-up; the host sets the interface and
  sends; `main()` then arms the endpoint over the transfer (`main.c:323`). With
  `InterfaceAt = {"bridge", "pump"}` in the cfg the same property fails in the loop:
  `bridge_out` waits for ring room, the next transfer overwrites the undecoded rest
  and is decoded from the old `out_off`.
- **The IN toggle is never reset** (`usb_toggle`, `usb.c:156`). `ep & 0x80 >> 3` is
  `ep & 0x10`; SET_INTERFACE resets the OUT toggle twice. The host takes the first
  IN packet for a repeat.
- **The overflow counter can be neither read nor cleared** (`usb_vendor`,
  `usb.c:364`): the vendor requests 1 and 2 land in CLEAR_FEATURE's and a reserved
  request's case. This is why nothing clears the counter in `RxCapture`.

Noted without a run of their own; the properties of the passing runs are stated with
the slack that the first two ask for, and TLC refutes them without it:

- SET_CONFIGURATION resets nothing (`usb.c:395`: "we have only one configuration ->
  nothing to do"); but the host, which may set it again, starts both endpoints with
  DATA0 and counts their halts as ended. After an odd number of OUT packets the next
  one is acknowledged and thrown away, and a halt stays, which GET_STATUS tells
  (`OutExactlyOnce` has one packet of slack for each, `StatusTruthful` has
  `leftHalted`).
- A transfer that moves nothing is a success (`midex-fw-upload.c:177`):
  `(r == len) ? 0 : r` is 0 for r = 0 too. After a release that moved nothing the tool
  says "Firmware booted" and exits with 0, the 8051 still held; a chunk that moved
  nothing is missing from the image that is released (`OnlyWholeImageRuns` and
  `SuccessIsTrue` speak of uploads without such a transfer).
- `usb.c:23-25` says class and vendor requests are stalled, which the same switch
  belies.
- `midi_parser.c:216` and `uart.h:59` still speak of a cadence of 100 us where the
  prescaler has made it 279.
- `usb.c:406-408` acknowledges SYNCH_FRAME, a request for two bytes, with no data: the
  host waits until it times out. No line of the repository says that it is served.
- The halt of EP0 cleared (`usb.c:239`) is a read-modify-write of EP0CS, which lets a
  waiting host go on before `USBIRQ = SUDAVIR`.
- A SET_INTERFACE that takes a loaded IN transfer back (`usb.c:347`) loses its packets:
  the ring has let go of them.
- Nothing in the uploader refuses a record over CPUCS or beyond 0x2000.
- `parse_ihex` asks for no EOF line and compares no checksum on extended-address
  lines.
- CLEAR_FEATURE of a halt does not reset the toggle as USB 2.0 has it: each costs
  the host a packet or repeats one (`OutExactlyOnce` is stated with that slack).
- A SETUP that overtakes `sudav_isr` is acknowledged without having been served.
- `usb_probe.c:522-526` says vendor requests are "NOT deferred via a semaphore";
  `main_probe.c` defers the write.
- `uart.c:108-109` counts on `board_init` for T0M; it clears bits 0x27 of CKCON, T0M
  (0x08) is 0 from reset. On r2 strapped to 48 MHz Timer0's tick is half as long.
- `midi_config.h:25` speaks of a `_Static_assert`; it is a typedef's array size.

## 6. Assumptions and what is left out

- The host sends a SETUP only when the control transfer before has ended for it,
  which may be before `sudav_isr` has ended: a stalled one, or one that clears EP0's halt.
- SET_INTERFACE and SET_CONFIGURATION by the host come when no bulk transfer is half
  done, and none is started until they are through.
- The host keeps reading EP2-IN, for `Drains` and `Delivered` only.
- A packet that a SET_INTERFACE takes back out of EP2-IN counts as departed in
  `RxBridge`; whether 0 written to IN2CS does so is the SIE's affair (`UsbControl` has
  both).
- `-d` of the uploader names a loader PID, as the udev unit's does; with another one
  the tool opens whatever bears it.
- The device re-enumerates on whatever image it is released with.
- The write glue has settled when the 100 ms of `uart_bringup` are over.
- The probe's host serialises its writes, for `WritesOnce` and `ReadsFresh`: a write
  requested before the one before it is made (`hurried`) may be torn, lost or
  merged, as `main_probe.c:160-167` accepts.
- The probe's config, interface and endpoint descriptors lie adjacent in code memory
  in the order of their definition, as the linker has them.
- The jitter bound of a port's read within a sweep is a parameter, not derived
  from instruction counts.
- The 8051's low-priority interrupts do not nest, and the high-priority one touches
  none of the control endpoint's state but the overflow counter.

Not modelled: the path switch, shell glue over systemd, udev and modprobe, whose
behaviour is that of the units and rules it writes and whose semantics are not in
the repository (what matters of it for the device, two uploaders at once, is in
`FwUpload`); the bench scripts, test programs whose requests are `BusProbe`'s inputs;
register headers and busy-wait delays, which hold no state; code memory,
register-bank and overlay corruption; the letters of strings; the pins' multiplexers
beyond one flag, the bytes at 0xFE00 and MOVX stretch, whose effect the source does
not tell; the probe's bulk pair, armed and never used.

## 7. Plan

Done: every component above is modelled and checked but the path switch, and every
safety property of the runs is proved, the refinements of `ByteFifo` and `TxQueue` with
them. Left, in this order:

1. `ByteFifo`, as `RxBridge` uses it by INSTANCE, and `RxCapture`'s refinement of it
   composed: one theorem from the UART's register to EP2-IN.
2. A file cut off at the end of a line, should the uploader come to test for the EOF
   record.
3. The path switch as a machine of files and units, if the semantics of udev and
   systemd it relies on are written down.
