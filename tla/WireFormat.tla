----------------------------- MODULE WireFormat -----------------------------
(***************************************************************************)
(* The two binary packets: ButtonState (device to host, 20 bytes) and      *)
(* Control (host to device, 12 bytes), written and read by three programs  *)
(* in three languages: the firmware, the page, the tool decode_state.py.   *)
(*                                                                         *)
(* DualStart and LinkControl take packets for records of their fields;     *)
(* what is shown here is that bytes make no difference.  A byte counts     *)
(* modulo Byte, 256 in the code; 64 suffices for the six flags.            *)
(*                                                                         *)
(* Source: firmware/pio/include/protocol.h, state_packet.h,                *)
(* web-debug/protocol.js, tools/decode_state.py                            *)
(***************************************************************************)
EXTENDS Integers, Sequences

CONSTANTS
    Byte,
    None,       \* nothing; an exception, a rejection
    Halves,     \* the 16-bit values tried
    Words,      \* the 32-bit values tried
    DeviceHash  \* deviceHash

ASSUME ByteAssumption == Byte \in Nat /\ Byte >= 64
ASSUME WidthAssumption ==
    /\ Halves \subseteq 0 .. Byte * Byte - 1
    /\ Words \subseteq 0 .. Byte * Byte * Byte * Byte - 1
    /\ DeviceHash \in Words

VARIABLES
    sent,   \* the fields of the packet on its way
    packet, \* its bytes
    page,   \* what the page or the device decoded it to
    tool,   \* what decode_state.py decoded it to
    arrived \* it has been decoded

vars == <<sent, packet, page, tool, arrived>>

PROTOCOL_VERSION == 1

Error == 5

StateTypes == 1 .. Error

(***************************************************************************)
(* The firmware.                                                           *)
(***************************************************************************)

writeLe16(v) == <<v % Byte, (v \div Byte) % Byte>>

writeLe32(v) == writeLe16(v % (Byte * Byte)) \o writeLe16(v \div (Byte * Byte))

readLe16(data, at) == data[at + 1] + data[at + 2] * Byte

\* Mutant: the two halves are swapped.
readSwapped32(data, at) == readLe16(data, at + 2) + readLe16(data, at) * (Byte * Byte)

readLe32(data, at) == readLe16(data, at) + readLe16(data, at + 2) * (Byte * Byte)

Bit(b, n) == IF b THEN n ELSE 0

\* The bits are distinct, so their sum is their disjunction.
composeStateFlags(rt, type) ==
    Bit(rt.pressed, 1) + Bit(rt.armed, 2) + Bit(rt.group # 0 /\ rt.slot # 0, 4)
        + Bit(rt.longPressed, 8) + Bit(rt.connected, 16) + Bit(type = Error, 32)

\* makeButtonStateFields(), then encodeButtonState()
encodeButtonState(rt, type) ==
    <<PROTOCOL_VERSION, type, composeStateFlags(rt, type), rt.slot>>
        \o writeLe16(rt.seq) \o writeLe32(rt.uptime) \o writeLe32(rt.hash)
        \o writeLe32(rt.group) \o writeLe16(rt.aux)

decodeControlCommand(data) ==
    IF Len(data) # 12 \/ data[1] # PROTOCOL_VERSION THEN None
    ELSE [command |-> data[2], slot |-> data[3], flags |-> data[4],
          group |-> readLe32(data, 4), value |-> readLe32(data, 8)]

(***************************************************************************)
(* The page.                                                               *)
(***************************************************************************)

\* x >>> 0 makes an unsigned 32-bit number of x.
ToUint32(x) == x % (Byte * Byte * Byte * Byte)

\* DataView.setUint32(at, x, true), and getUint16, getUint32
setUint32(x) == writeLe16(x % (Byte * Byte)) \o writeLe16(x \div (Byte * Byte))

getUint16(dv, at) == dv[at + 1] + dv[at + 2] * Byte

\* Mutant: getInt32()
getInt32(dv, at) ==
    LET v == getUint16(dv, at) + getUint16(dv, at + 2) * (Byte * Byte)
    IN  IF dv[at + 4] * 2 < Byte THEN v ELSE v - Byte * Byte * Byte * Byte

getUint32(dv, at) == getUint16(dv, at) + getUint16(dv, at + 2) * (Byte * Byte)

makeCommand(command, slot, flags, group, value) ==
    <<PROTOCOL_VERSION, command, slot, flags>>
        \o setUint32(ToUint32(group)) \o setUint32(ToUint32(value))

\* flags & n
Has(flags, n) == (flags \div n) % 2 = 1

parseState(dv) ==
    IF Len(dv) # 20 THEN None
    ELSE [version |-> dv[1], type |-> dv[2],
          pressed |-> Has(dv[3], 1), armed |-> Has(dv[3], 2),
          linked |-> Has(dv[3], 4), longPressed |-> Has(dv[3], 8),
          connected |-> Has(dv[3], 16), error |-> Has(dv[3], 32),
          slot |-> dv[4], seq |-> getUint16(dv, 4), uptime |-> getUint32(dv, 6),
          hash |-> getUint32(dv, 10), group |-> getUint32(dv, 14),
          aux |-> getUint16(dv, 18)]

(***************************************************************************)
(* The tool: struct.unpack("<BBBBHIIIH", data) and the names of the flags. *)
(***************************************************************************)

\* A field ends where the widths up to it add up to.
Offset(widths, i) ==
    LET sum[k \in 0 .. i - 1] == IF k = 0 THEN 0 ELSE sum[k - 1] + widths[k]
    IN  sum[i - 1]

unpack(widths, data) ==
    [i \in DOMAIN widths |->
        LET at == Offset(widths, i)
        IN  CASE widths[i] = 1 -> data[at + 1]
              [] widths[i] = 2 -> readLe16(data, at)
              [] widths[i] = 4 -> readLe32(data, at)]

FLAGS ==
    {<<1, "pressed">>, <<2, "armed">>, <<4, "linked">>, <<8, "longPressed">>,
     <<16, "connected">>, <<32, "error">>}

\* Mutant: hash and group change places.
unpackedOrder(f) ==
    [version |-> f[1], type |-> f[2],
     flags |-> {n \in FLAGS : Has(f[3], n[1])}, slot |-> f[4], seq |-> f[5],
     uptime |-> f[6], hash |-> f[8], group |-> f[7], aux |-> f[9]]

\* The tuple of unpack(), by name.
unpacked(f) ==
    [version |-> f[1], type |-> f[2],
     flags |-> {n \in FLAGS : Has(f[3], n[1])}, slot |-> f[4], seq |-> f[5],
     uptime |-> f[6], hash |-> f[7], group |-> f[8], aux |-> f[9]]

decode(data) ==
    IF Len(data) # 20 THEN None
    ELSE unpacked(unpack(<<1, 1, 1, 1, 2, 4, 4, 4, 2>>, data))

(***************************************************************************)
(* One packet at a time.                                                   *)
(***************************************************************************)

NoPacket == [kind |-> "none", fields |-> None]

Send(kind, fields, bytes) ==
    /\ sent' = [kind |-> kind, fields |-> fields]
    /\ packet' = bytes
    /\ UNCHANGED <<page, tool, arrived>>

\* A RuntimeState, and the seq, clock and aux it is published with.
States ==
    [pressed: BOOLEAN, armed: BOOLEAN, longPressed: BOOLEAN, connected: BOOLEAN,
     slot: 0 .. 2, group: Words, seq: Halves, uptime: Words, hash: {DeviceHash},
     aux: Halves, type: StateTypes]

publishState ==
    /\ sent = NoPacket
    /\ \E rt \in States :
           /\ rt.longPressed => rt.pressed
           /\ Send("state", rt, encodeButtonState(rt, rt.type))

writeCommand ==
    /\ sent = NoPacket
    /\ \E c \in [command: 1 .. 5, slot: 0 .. 2, flags: {0, 1}, group: Words, value: Words] :
           Send("command", c, makeCommand(c.command, c.slot, c.flags, c.group, c.value))

\* What another program writes: any version, any length, and a byte of its own
\* in each place.
foreignWrite ==
    /\ sent = NoPacket
    /\ \E version \in 0 .. 2, size \in {1, 11, 12, 13, 20} :
           Send("foreign", None, [i \in 1 .. size |-> IF i = 1 THEN version ELSE i])

\* BLE delivers a packet whole.
Receive ==
    /\ sent # NoPacket /\ ~ arrived
    /\ IF sent.kind = "state"
       THEN page' = parseState(packet) /\ tool' = decode(packet)
       ELSE page' = decodeControlCommand(packet) /\ tool' = None
    /\ arrived' = TRUE
    /\ UNCHANGED <<sent, packet>>

Init ==
    /\ sent = NoPacket
    /\ packet = <<>> /\ page = None /\ tool = None
    /\ arrived = FALSE

\* Packets do not depend on each other: the next one starts afresh.
NextPacket ==
    /\ arrived
    /\ sent' = NoPacket
    /\ packet' = <<>> /\ page' = None /\ tool' = None
    /\ arrived' = FALSE

Next == publishState \/ writeCommand \/ foreignWrite \/ Receive \/ NextPacket

Spec == Init /\ [][Next]_vars

(***************************************************************************)
(* Types and safety.                                                       *)
(***************************************************************************)

\* Every byte is a byte, and a packet has the length of its kind.
TypeOK ==
    /\ packet \in Seq(0 .. Byte - 1)
    /\ sent.kind = "state" => Len(packet) = 20
    /\ sent.kind = "command" => Len(packet) = 12
    /\ arrived \in BOOLEAN

Arrived(kind) == arrived /\ sent.kind = kind

\* The page reads every ButtonState as the device meant it, at either end of
\* every counter and for group ids with the top bit set: it compares the
\* group with its own by ===, and half of all random groups have that bit.
StateReadBack ==
    Arrived("state") =>
        LET f == sent.fields
        IN  page = [version |-> PROTOCOL_VERSION, type |-> f.type,
                    pressed |-> f.pressed, armed |-> f.armed,
                    linked |-> f.group # 0 /\ f.slot # 0,
                    longPressed |-> f.longPressed, connected |-> f.connected,
                    error |-> f.type = Error, slot |-> f.slot, seq |-> f.seq,
                    uptime |-> f.uptime, hash |-> f.hash, group |-> f.group,
                    aux |-> f.aux]

\* The device takes every command of the page for what it is; and what it takes
\* from another program is byte for byte what the page would write for it, so
\* packets of another length or version are rejected and no two are alike.
CommandReadBack ==
    /\ Arrived("command") => page = sent.fields
    /\ Arrived("foreign") /\ page # None =>
           packet = makeCommand(page.command, page.slot, page.flags,
                                page.group, page.value)

\* The tool sees what the page sees.
ToolAgrees ==
    Arrived("state") =>
        /\ tool.flags = {n \in FLAGS : page[n[2]]}
        /\ \A field \in {"version", "type", "slot", "seq", "uptime", "hash",
                          "group", "aux"} :
               tool[field] = page[field]
=============================================================================
