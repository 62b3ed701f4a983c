------------------------------ MODULE FwUpload ------------------------------
(***************************************************************************)
(* host/midex-fw-upload.c: an Intel HEX file is parsed whole, a device     *)
(* with a loader PID is opened, its 8051 held in reset (CPUCS = 1), the    *)
(* records written to its RAM in chunks, and the 8051 released (CPUCS = 0),*)
(* upon which it boots and re-enumerates.  The tool may run again after    *)
(* any outcome, with another file; the plug may be pulled and put back.    *)
(* Nothing keeps two tools apart, the udev unit's and one started by hand: *)
(* the interface is claimed as a best effort only.  Nothing keeps a record *)
(* in the RAM either: it may lie over CPUCS, or where no memory is.        *)
(*                                                                         *)
(* A line of the file is its type and what the parser takes from it:       *)
(* "data" (addr, bytes, whether the checksum fits), "base" (02 or 04: the  *)
(* base it sets), "eof", "skip" (no colon, or another type) or "bad" (a    *)
(* hexadecimal field that is not).  Only data lines' checksums are tested. *)
(***************************************************************************)
EXTENDS Integers, Sequences

CONSTANTS
    Tools,          \* the uploaders that may run at once
    Files,          \* the files they are run with
    AddrSpace,      \* 2^16
    RamTop,         \* 0x2000, where the RAM ends
    Cpucs,          \* CPUCS_ADDR, the register whose bit 0 holds the 8051
    MaxChunk,       \* MAX_CHUNK
    Erased,         \* what RAM holds after power-up, no byte of a file
    MaxRuns,        \* bound of the instance: runs of the tools
    MaxFaults       \* bound of the instance: failed transfers and unpluggings

ASSUME SizesAssumption  == /\ AddrSpace \in Nat \ {0} /\ MaxChunk \in Nat \ {0}
                           /\ RamTop \in Nat /\ Cpucs \in RamTop .. AddrSpace - 1
ASSUME BoundsAssumption == MaxRuns \in Nat /\ MaxFaults \in Nat

VARIABLES
    pc,             \* main(), by tool: "open", "hold", "write" (which the
                    \* release ends); or "done" (exit status 0), "failed" (1)
    file, recs, i, off,
    handle,         \* h is open, and its device has not gone since
    mode,           \* the device: "absent", "loader", "held", "firmware"
    ram,
    skipped,        \* history, by tool: of this run's transfers one moved
                    \* nothing and was taken for a success
    booted,         \* history: the file whose upload was released last
    doubted,        \* history: and whether that upload had skipped one
    unplugged,      \* history: the plug was pulled since the tool started
    mixed,          \* history: images that interfere were written at once
    runs, faults    \* runs of the tools; faults so far

toolVars   == <<file, recs, i, off>>
deviceVars == <<mode, ram>>
history    == <<booted, doubted, unplugged, mixed>>
vars == <<pc, toolVars, handle, deviceVars, skipped, history, runs, faults>>

Address == 0 .. AddrSpace - 1

\* A line of a file.  The parser keeps a record's bytes, and reads an address
\* of four hexadecimal digits.
Line == [type : {"data"}, addr : Address, data : Seq(0 .. 255), fits : BOOLEAN]
        \cup [type : {"base"}, base : Nat] \cup [type : {"eof", "skip", "bad"}]

ASSUME FilesAssumption == Files \subseteq Seq(Line)

Ended(t) == pc[t] \in {"done", "failed"}

\* Both out_close and the end of the process let go of the handle.
Ends(t, how) ==
    /\ pc' = [pc EXCEPT ![t] = how]
    /\ handle' = [handle EXCEPT ![t] = FALSE]

-----------------------------------------------------------------------------
(* parse_ihex.                                                             *)

\* Mutant of RecordAddr: the sum is not cut to 16 bits.
RecordAddr_NoMask(base, addr) == base + addr

RecordAddr(base, addr) == (base + addr) % AddrSpace

\* The parser after one more line; a file needs no EOF line.
AfterLine(s, line) ==
    IF s.end THEN s
    ELSE CASE line.type = "skip" -> s
           [] line.type = "eof"  -> [s EXCEPT !.end = TRUE]
           [] line.type = "base" -> [s EXCEPT !.base = line.base]
           [] line.type = "data" /\ line.fits -> [s EXCEPT !.recs = Append(@,
                 [addr |-> RecordAddr(s.base, line.addr), data |-> line.data])]
           [] OTHER -> [s EXCEPT !.end = TRUE, !.ok = FALSE]

parse_ihex(f) ==
    LET after[n \in 0 .. Len(f)] ==
            IF n = 0 THEN [base |-> 0, recs |-> <<>>, end |-> FALSE, ok |-> TRUE]
            ELSE AfterLine(after[n - 1], f[n])
    IN  after[Len(f)]

-----------------------------------------------------------------------------
(* The reference: the lines of a file before its first EOF line, and what  *)
(* they say of an address, with no parser state.                           *)
Body(f) == {n \in 1 .. Len(f) : \A k \in 1 .. n : f[k].type # "eof"}

WellFormed(f) ==
    \A n \in Body(f) : f[n].type # "bad" /\ (f[n].type = "data" => f[n].fits)

BaseAt(f, n) ==
    LET set == {k \in 1 .. n : f[k].type = "base"}
    IN  IF set = {} THEN 0 ELSE f[CHOOSE k \in set : \A j \in set : j <= k].base

\* The bytes line n puts at address a: one or none.
Puts(f, n, a) ==
    IF f[n].type # "data" THEN {}
    ELSE {f[n].data[j] : j \in {k \in 1 .. Len(f[n].data) :
                (BaseAt(f, n) + f[n].addr + k - 1) % AddrSpace = a}}

\* No two lines of f have a say in one address.
Disjoint(f) ==
    \A a \in Address : \A n, k \in Body(f) :
        Puts(f, n, a) # {} /\ Puts(f, k, a) # {} => n = k

\* Every byte of f has its place in the RAM.
InRam(f) == \A n \in Body(f) : \A a \in RamTop .. AddrSpace - 1 : Puts(f, n, a) = {}

\* Two uploads at once that leave each other's image whole.
Harmless(f, g) == f = g /\ Disjoint(f)

-----------------------------------------------------------------------------
Init ==
    /\ pc = [t \in Tools |-> "failed"]
    /\ file = [t \in Tools |-> <<>>] /\ recs = [t \in Tools |-> <<>>]
    /\ i = [t \in Tools |-> 1] /\ off = [t \in Tools |-> 0]
    /\ handle = [t \in Tools |-> FALSE]
    /\ mode = "loader" /\ ram = [a \in Address |-> Erased]
    /\ skipped = [t \in Tools |-> FALSE] /\ booted = <<>> /\ doubted = FALSE
    /\ unplugged = [t \in Tools |-> FALSE] /\ mixed = FALSE
    /\ runs = 0 /\ faults = 0

\* The tool is run: nothing happens to a device before the file has parsed.
Run(t, f) ==
    /\ Ended(t) /\ runs < MaxRuns
    /\ file' = [file EXCEPT ![t] = f] /\ recs' = [recs EXCEPT ![t] = parse_ihex(f).recs]
    /\ i' = [i EXCEPT ![t] = 1] /\ off' = [off EXCEPT ![t] = 0]
    /\ pc' = [pc EXCEPT ![t] = IF parse_ihex(f).ok THEN "open" ELSE "failed"]
    /\ unplugged' = [unplugged EXCEPT ![t] = FALSE]
    /\ skipped' = [skipped EXCEPT ![t] = FALSE] /\ runs' = runs + 1
    /\ UNCHANGED <<handle, deviceVars, booted, doubted, mixed, faults>>

\* libusb_init and open_midex: there is a device with a loader PID, and it
\* can be opened.  That another tool has opened it is no obstacle.  A -d is
\* taken to name a loader PID, as the udev unit's does: with another one the
\* tool opens whatever bears it.
Open(t) ==
    /\ pc[t] = "open"
    /\ \/ Ends(t, "failed") /\ UNCHANGED mixed
       \/ /\ mode \in {"loader", "held"}
          /\ pc' = [pc EXCEPT ![t] = "hold"] /\ handle' = [handle EXCEPT ![t] = TRUE]
          /\ mixed' = \E o \in Tools : handle[o] /\ (mixed \/ ~Harmless(file[o], file[t]))
    /\ UNCHANGED <<toolVars, deviceVars, skipped, booted, doubted, unplugged, runs, faults>>

-----------------------------------------------------------------------------
(* anchor_write: the transfer takes effect or not, and returns "ok" (0),   *)
(* "no_device" or "error" (any other; so a transfer short of its length,   *)
(* but for one of no bytes at all, whose 0 is returned as it is).          *)

Fault == faults < MaxFaults /\ faults' = faults + 1

\* The effect took place and the answer came; it took place and the answer
\* was lost.
Taken(t, r) ==
    /\ handle[t] /\ UNCHANGED skipped
    /\ (r = "ok" /\ UNCHANGED faults) \/ (r = "error" /\ Fault)

\* It did not take place, which is an error, or nothing was moved, which is
\* none; or there is no device any more.
NotTaken(t, r) ==
    \/ handle[t] /\ r = "error" /\ Fault /\ UNCHANGED skipped
    \/ handle[t] /\ r = "ok" /\ Fault /\ skipped' = [skipped EXCEPT ![t] = TRUE]
    \/ ~handle[t] /\ r = "no_device" /\ UNCHANGED <<faults, skipped>>

\* A write of CPUCS with bit 0 clear: the device boots, which takes it away
\* from under every handle, before the status stage or after.
Boots(t, r) ==
    /\ Taken(t, r) \/ (handle[t] /\ r = "no_device" /\ UNCHANGED <<faults, skipped>>)
    /\ mode' = "firmware" /\ booted' = file[t] /\ doubted' = skipped[t]
    /\ handle' = [o \in Tools |-> FALSE]

HoldReset(t) ==
    /\ pc[t] = "hold"
    /\ \E r \in {"ok", "error", "no_device"} :
         /\ \/ Taken(t, r) /\ mode' = "held"
            \/ NotTaken(t, r) /\ UNCHANGED mode
         /\ IF r = "ok" THEN pc' = [pc EXCEPT ![t] = "write"] /\ UNCHANGED handle
                        ELSE Ends(t, "failed")
    /\ UNCHANGED <<toolVars, ram, history, runs>>

\* The chunk main() writes next: its length, the place of an address in it,
\* the byte it has there, and the RAM it leaves.
Record(t) == recs[t][i[t]]
Chunk(t) == LET left == Len(Record(t).data) - off[t]
            IN  IF left > MaxChunk THEN MaxChunk ELSE left
Place(t, a) == (a - Record(t).addr - off[t]) % AddrSpace
Covers(t, a) == Place(t, a) < Chunk(t)
ByteFor(t, a) == Record(t).data[off[t] + Place(t, a) + 1]
Written(t) == [a \in Address |->
    IF a < RamTop /\ Covers(t, a) THEN ByteFor(t, a) ELSE ram[a]]

ChunkDue(t)  == pc[t] = "write" /\ i[t] <= Len(recs[t]) /\ off[t] < Len(Record(t).data)
Releasing(t) == Covers(t, Cpucs) /\ ByteFor(t, Cpucs) % 2 = 0

\* What becomes of RAM and 8051: a byte for CPUCS holds it, if it does not
\* let it go.
ChunkTaken(t, r) ==
    /\ Taken(t, r) /\ ~Releasing(t) /\ ram' = Written(t)
    /\ mode' = IF Covers(t, Cpucs) THEN "held" ELSE mode

\* Mutant of WriteChunk: the result of the write is not looked at.
WriteChunk_Unchecked(t) ==
    /\ ChunkDue(t)
    /\ \E r \in {"ok", "error", "no_device"} :
         ChunkTaken(t, r) \/ (NotTaken(t, r) /\ UNCHANGED deviceVars)
    /\ off' = [off EXCEPT ![t] = @ + Chunk(t)]
    /\ UNCHANGED <<pc, file, recs, i, handle, history, runs>>

WriteChunk(t) ==
    /\ ChunkDue(t)
    /\ \E r \in {"ok", "error", "no_device"} :
         /\ ChunkTaken(t, r) \/ (NotTaken(t, r) /\ UNCHANGED deviceVars)
         /\ IF r = "ok" THEN /\ off' = [off EXCEPT ![t] = @ + Chunk(t)]
                             /\ UNCHANGED <<pc, handle>>
                        ELSE Ends(t, "failed") /\ UNCHANGED off
    /\ UNCHANGED <<file, recs, i, history, runs>>

\* A chunk that lets the 8051 go in mid-upload.
WriteReleasing(t) ==
    /\ ChunkDue(t) /\ Releasing(t)
    /\ \E r \in {"ok", "error", "no_device"} :
         /\ Boots(t, r) /\ ram' = Written(t)
         /\ IF r = "ok" THEN off' = [off EXCEPT ![t] = @ + Chunk(t)] /\ UNCHANGED pc
                        ELSE pc' = [pc EXCEPT ![t] = "failed"] /\ UNCHANGED off
    /\ UNCHANGED <<file, recs, i, unplugged, mixed, runs>>

\* The record, perhaps an empty one, is done.
NextRecord(t) ==
    /\ pc[t] = "write" /\ i[t] <= Len(recs[t]) /\ off[t] >= Len(Record(t).data)
    /\ i' = [i EXCEPT ![t] = @ + 1] /\ off' = [off EXCEPT ![t] = 0]
    /\ UNCHANGED <<pc, file, recs, handle, deviceVars, skipped, history, runs, faults>>

\* Mutant of Released: no result counts as a failure.
Released_Always(r) == TRUE

\* What main() makes of the result of CPUCS = 0: a device that is gone counts
\* as one that re-enumerates.
Released(r) == r \in {"ok", "no_device"}

\* CPUCS = 0.  Of an 8051 that was never held it may change nothing.
ReleaseReset(t) ==
    /\ pc[t] = "write" /\ i[t] > Len(recs[t])
    /\ \E r \in {"ok", "error", "no_device"} :
         /\ pc' = [pc EXCEPT ![t] = IF Released(r) THEN "done" ELSE "failed"]
         /\ \/ Boots(t, r)
            \/ /\ NotTaken(t, r) \/ (mode = "loader" /\ Taken(t, r))
               /\ handle' = [handle EXCEPT ![t] = FALSE]
               /\ UNCHANGED <<mode, booted, doubted>>
    /\ UNCHANGED <<toolVars, ram, unplugged, mixed, runs>>

-----------------------------------------------------------------------------
(* The plug: RAM is volatile, and a handle does not survive.               *)

Unplug ==
    /\ mode # "absent" /\ Fault
    /\ mode' = "absent" /\ handle' = [t \in Tools |-> FALSE]
    /\ unplugged' = [t \in Tools |-> TRUE] /\ mixed' = FALSE
    /\ UNCHANGED <<pc, toolVars, ram, skipped, booted, doubted, runs>>

Plug ==
    /\ mode = "absent"
    /\ mode' = "loader" /\ ram' = [a \in Address |-> Erased]
    /\ UNCHANGED <<pc, toolVars, handle, skipped, history, runs, faults>>

Next ==
    \/ \E t \in Tools :
          \/ \E f \in Files : Run(t, f)
          \/ Open(t) \/ HoldReset(t) \/ WriteChunk(t) \/ WriteReleasing(t)
          \/ NextRecord(t) \/ ReleaseReset(t)
    \/ Unplug \/ Plug

Spec == Init /\ [][Next]_vars

-----------------------------------------------------------------------------
(* Properties.                                                             *)

TypeOK ==
    /\ mode \in {"absent", "loader", "held", "firmware"}
    /\ \A t \in Tools :
         /\ pc[t] \in {"open", "hold", "write", "done", "failed"}
         /\ \A k \in 1 .. Len(recs[t]) : recs[t][k].addr \in Address
         /\ i[t] \in 1 .. Len(recs[t]) + 1
         /\ i[t] <= Len(recs[t]) => off[t] \in 0 .. Len(Record(t).data)
         /\ handle[t] => pc[t] \in {"hold", "write"} /\ mode \in {"loader", "held"}

\* RAM is what file f asks for: at each address the last line has its way.
Holds(f) ==
    \A a \in Address : \A n \in Body(f) :
        Puts(f, n, a) # {} /\ (\A k \in Body(f) : k > n => Puts(f, k, a) = {})
            => ram[a] \in Puts(f, n, a)

\* Whatever fails, is pulled out or tried again with another file, the 8051
\* is never let go on anything but the whole image of a well-formed file; not
\* even by two uploads at once, as long as they are of one file whose lines do
\* not overlap.  That is, if every byte of the file belongs to the RAM, and no
\* transfer of the upload moved nothing: anchor_write takes that for success.
OnlyWholeImageRuns ==
    mode = "firmware" =>
        mixed \/ doubted \/ ~InRam(booted) \/ (WellFormed(booted) /\ Holds(booted))

\* Exit status 0 means that this file was let run last, unless the plug was
\* pulled meanwhile or a transfer moved nothing; a device gone at CPUCS = 0 is
\* taken to have booted, which is right also when the other tool released it
\* first, with this file.
SuccessIsTrue ==
    \A t \in Tools : pc[t] = "done" =>
        unplugged[t] \/ mixed \/ skipped[t] \/ (mode = "firmware" /\ booted = file[t])
=============================================================================
