----------------------------- MODULE WireProofs -----------------------------
(***************************************************************************)
(* Theorems about WireFormat: each reader reads what was written, for      *)
(* every value of every field and for every width of a byte.               *)
(***************************************************************************)
EXTENDS WireFormat, SequenceTheorems, TLAPS

Bytes == 0 .. Byte - 1

\* The values of an unsigned number of two bytes, and of four.
U16 == 0 .. Byte * Byte - 1
U32 == 0 .. Byte * Byte * Byte * Byte - 1

(***************************************************************************)
(* Numbers and their digits.                                               *)
(***************************************************************************)

LEMMA ByteType == Byte \in Nat /\ Byte >= 64
BY ByteAssumption

LEMMA TimesMonotone ==
    ASSUME NEW a \in Nat, NEW b \in Nat, NEW c \in Nat, a <= b
    PROVE  a * c <= b * c
<1>1. PICK k \in Nat : b = a + k
  <2>1. b - a \in Nat /\ b = a + (b - a)
    OBVIOUS
  <2> QED
    BY <2>1
<1>2. b * c = a * c + k * c /\ k * c \in Nat /\ a * c \in Nat
  BY <1>1
<1> QED
  BY <1>2

\* A number below b * m has a last digit below b, and m stands for the rest.
LEMMA Digits ==
    ASSUME NEW b \in Nat, b > 0, NEW m \in Nat, NEW v \in Nat, v < b * m
    PROVE  /\ v % b \in 0 .. b - 1
           /\ v \div b \in 0 .. m - 1
           /\ (v % b) + (v \div b) * b = v
<1> DEFINE q == v \div b
           r == v % b
<1>1. q \in Nat /\ r \in 0 .. b - 1 /\ v = b * q + r
  OBVIOUS
<1> HIDE DEF q, r
<1>2. q < m
  <2> SUFFICES ASSUME m <= q PROVE FALSE
    BY <1>1
  <2>1. m * b <= q * b
    BY <1>1, TimesMonotone
  <2>2. q * b = b * q /\ m * b = b * m
    BY <1>1
  <2> QED
    BY <1>1, <2>1, <2>2
<1> QED
  BY <1>1, <1>2 DEF q, r

LEMMA Half == Byte * Byte \in Nat /\ Byte * Byte > 0
BY ByteType

\* writeLe16() and readLe16().
LEMMA Le16 ==
    ASSUME NEW v \in U16
    PROVE  /\ writeLe16(v) = <<v % Byte, v \div Byte>>
           /\ v % Byte \in Bytes /\ v \div Byte \in Bytes
           /\ (v % Byte) + (v \div Byte) * Byte = v
<1>1. v \in Nat /\ v < Byte * Byte /\ Byte > 0
  BY ByteType, Half DEF U16
<1>2. /\ v % Byte \in Bytes /\ v \div Byte \in Bytes
      /\ (v % Byte) + (v \div Byte) * Byte = v
  BY <1>1, ByteType, Digits DEF Bytes
<1>3. \A q \in Bytes : q % Byte = q
  BY ByteType DEF Bytes
<1> QED
  BY <1>2, <1>3 DEF writeLe16

LEMMA Le16Type ==
    ASSUME NEW v \in U16
    PROVE  writeLe16(v) \in Seq(Bytes)
<1> DEFINE lo == v % Byte
           hi == v \div Byte
<1>1. writeLe16(v) = <<lo, hi>> /\ lo \in Bytes /\ hi \in Bytes
  BY Le16
<1> HIDE DEF lo, hi
<1>2. <<lo, hi>> \in Seq(Bytes)
  BY <1>1
<1> QED
  BY <1>1, <1>2

\* The two halves of a 32-bit value.
LEMMA Halves32 ==
    ASSUME NEW v \in U32
    PROVE  /\ v % (Byte * Byte) \in U16
           /\ v \div (Byte * Byte) \in U16
           /\ (v % (Byte * Byte)) + (v \div (Byte * Byte)) * (Byte * Byte) = v
<1> DEFINE w == Byte * Byte
<1>1. w \in Nat /\ w > 0
  BY Half
<1>2. Byte * Byte * Byte * Byte = w * w
  BY ByteType
<1>3. v \in Nat /\ v < w * w
  BY <1>1, <1>2 DEF U32
<1> HIDE DEF w
<1>4. v % w \in 0 .. w - 1 /\ v \div w \in 0 .. w - 1 /\ (v % w) + (v \div w) * w = v
  BY <1>1, <1>3, Digits
<1> QED
  BY <1>4 DEF w, U16

(***************************************************************************)
(* Fields at the end of a packet.                                          *)
(***************************************************************************)

\* t begins with the bytes of s.
Continues(t, s) ==
    /\ s \in Seq(Bytes) /\ t \in Seq(Bytes) /\ Len(s) <= Len(t)
    /\ \A i \in 1 .. Len(s) : t[i] = s[i]

LEMMA ContinuesOn ==
    ASSUME NEW s, NEW t, NEW u, Continues(t, s), Continues(u, t)
    PROVE  Continues(u, s)
BY DEF Continues

\* A value that ends before the end of s is read from t as from s.
LEMMA ReadOn16 ==
    ASSUME NEW s, NEW t, Continues(t, s), NEW at \in Nat, at + 2 <= Len(s)
    PROVE  readLe16(t, at) = readLe16(s, at)
BY DEF Continues, readLe16

LEMMA ReadOn32 ==
    ASSUME NEW s, NEW t, Continues(t, s), NEW at \in Nat, at + 4 <= Len(s)
    PROVE  readLe32(t, at) = readLe32(s, at)
<1>1. Len(s) \in Nat
  BY DEF Continues
<1> QED
  BY <1>1, ReadOn16 DEF readLe32

LEMMA Put16 ==
    ASSUME NEW s \in Seq(Bytes), NEW v \in U16
    PROVE  /\ Continues(s \o writeLe16(v), s)
           /\ Len(s \o writeLe16(v)) = Len(s) + 2
           /\ readLe16(s \o writeLe16(v), Len(s)) = v
<1> DEFINE lo == v % Byte
           hi == v \div Byte
           t == s \o <<lo, hi>>
<1>1. writeLe16(v) = <<lo, hi>> /\ lo \in Bytes /\ hi \in Bytes
      /\ lo + hi * Byte = v
  BY Le16
<1> HIDE DEF lo, hi
<1>2. <<lo, hi>> \in Seq(Bytes) /\ Len(<<lo, hi>>) = 2
  BY <1>1
<1>3. /\ t \in Seq(Bytes) /\ Len(t) = Len(s) + 2
      /\ \A i \in 1 .. Len(s) : t[i] = s[i]
      /\ t[Len(s) + 1] = lo /\ t[Len(s) + 2] = hi
  BY <1>2
<1>4. Len(s) \in Nat
  OBVIOUS
<1> QED
  BY <1>1, <1>3, <1>4 DEF Continues, readLe16

LEMMA Put32 ==
    ASSUME NEW s \in Seq(Bytes), NEW v \in U32
    PROVE  /\ Continues(s \o writeLe32(v), s)
           /\ Len(s \o writeLe32(v)) = Len(s) + 4
           /\ readLe32(s \o writeLe32(v), Len(s)) = v
<1> DEFINE lo == v % (Byte * Byte)
           hi == v \div (Byte * Byte)
           t == s \o writeLe16(lo)
           u == t \o writeLe16(hi)
<1>1. /\ lo \in U16 /\ hi \in U16
      /\ lo + hi * (Byte * Byte) = v
      /\ writeLe32(v) = writeLe16(lo) \o writeLe16(hi)
  BY Halves32 DEF writeLe32
<1> HIDE DEF lo, hi
<1>2. writeLe16(lo) \in Seq(Bytes) /\ writeLe16(hi) \in Seq(Bytes)
  BY <1>1, Le16Type
<1>3. s \o writeLe32(v) = u
  <2>1. s \o (writeLe16(lo) \o writeLe16(hi))
            = (s \o writeLe16(lo)) \o writeLe16(hi)
    BY <1>2, ConcatAssociative
  <2> QED
    BY <1>1, <2>1
<1>4. /\ Continues(t, s) /\ Len(t) = Len(s) + 2
      /\ readLe16(t, Len(s)) = lo /\ t \in Seq(Bytes)
  BY <1>1, Put16 DEF Continues
<1> HIDE DEF t
<1>5. /\ Continues(u, t) /\ Len(u) = Len(t) + 2
      /\ readLe16(u, Len(t)) = hi
  BY <1>1, <1>4, Put16
<1> HIDE DEF u
<1>6. Len(s) \in Nat
  OBVIOUS
<1>7. readLe16(u, Len(s)) = lo
  BY <1>4, <1>5, <1>6, ReadOn16
<1>8. readLe32(u, Len(s)) = v
  BY <1>1, <1>4, <1>5, <1>7 DEF readLe32
<1> QED
  BY <1>3, <1>4, <1>5, <1>6, <1>8, ContinuesOn

\* The same for a packet t that grows out of s.
LEMMA Grow16 ==
    ASSUME NEW s, NEW r, Continues(s, r), NEW v \in U16,
           NEW t, t = s \o writeLe16(v)
    PROVE  /\ Continues(t, s) /\ Len(t) = Len(s) + 2
           /\ readLe16(t, Len(s)) = v
BY Put16 DEF Continues

LEMMA Grow32 ==
    ASSUME NEW s, NEW r, Continues(s, r), NEW v \in U32,
           NEW t, t = s \o writeLe32(v)
    PROVE  /\ Continues(t, s) /\ Len(t) = Len(s) + 4
           /\ readLe32(t, Len(s)) = v
BY Put32 DEF Continues

(***************************************************************************)
(* The flags of a ButtonState.                                             *)
(***************************************************************************)

LEMMA BitValue ==
    ASSUME NEW b \in BOOLEAN, NEW n \in Nat \ {0}
    PROVE  /\ Bit(b, n) \in {0, n}
           /\ b <=> Bit(b, n) = n
BY DEF Bit

\* Six bits and what is masked out of them.
LEMMA Masks ==
    ASSUME NEW p \in {0, 1}, NEW a \in {0, 2}, NEW l \in {0, 4},
           NEW g \in {0, 8}, NEW c \in {0, 16}, NEW e \in {0, 32},
           NEW f, f = p + a + l + g + c + e
    PROVE  /\ f \in 0 .. 63
           /\ Has(f, 1) <=> p = 1
           /\ Has(f, 2) <=> a = 2
           /\ Has(f, 4) <=> l = 4
           /\ Has(f, 8) <=> g = 8
           /\ Has(f, 16) <=> c = 16
           /\ Has(f, 32) <=> e = 32
BY DEF Has

LEMMA FlagsReadBack ==
    ASSUME NEW rt \in States, NEW type \in StateTypes
    PROVE  LET f == composeStateFlags(rt, type)
           IN  /\ f \in Bytes
               /\ Has(f, 1) = rt.pressed /\ Has(f, 2) = rt.armed
               /\ Has(f, 4) = (rt.group # 0 /\ rt.slot # 0)
               /\ Has(f, 8) = rt.longPressed /\ Has(f, 16) = rt.connected
               /\ Has(f, 32) = (type = Error)
<1> DEFINE f == composeStateFlags(rt, type)
           p == Bit(rt.pressed, 1)
           a == Bit(rt.armed, 2)
           linked == rt.group # 0 /\ rt.slot # 0
           l == Bit(linked, 4)
           g == Bit(rt.longPressed, 8)
           c == Bit(rt.connected, 16)
           isError == type = Error
           e == Bit(isError, 32)
<1>1. /\ rt.pressed \in BOOLEAN /\ rt.armed \in BOOLEAN
      /\ rt.longPressed \in BOOLEAN /\ rt.connected \in BOOLEAN
  BY DEF States
<1>2. linked \in BOOLEAN /\ isError \in BOOLEAN
  OBVIOUS
<1>3. f = p + a + l + g + c + e
  BY DEF composeStateFlags
<1> HIDE DEF f, linked, isError
<1>4. /\ p \in {0, 1} /\ (rt.pressed <=> p = 1)
      /\ a \in {0, 2} /\ (rt.armed <=> a = 2)
      /\ l \in {0, 4} /\ (linked <=> l = 4)
      /\ g \in {0, 8} /\ (rt.longPressed <=> g = 8)
      /\ c \in {0, 16} /\ (rt.connected <=> c = 16)
      /\ e \in {0, 32} /\ (isError <=> e = 32)
  <2>1. p \in {0, 1} /\ (rt.pressed <=> p = 1)
    BY <1>1, <1>2, BitValue
  <2>2. a \in {0, 2} /\ (rt.armed <=> a = 2)
    BY <1>1, <1>2, BitValue
  <2>3. l \in {0, 4} /\ (linked <=> l = 4)
    BY <1>1, <1>2, BitValue
  <2>4. g \in {0, 8} /\ (rt.longPressed <=> g = 8)
    BY <1>1, <1>2, BitValue
  <2>5. c \in {0, 16} /\ (rt.connected <=> c = 16)
    BY <1>1, <1>2, BitValue
  <2>6. e \in {0, 32} /\ (isError <=> e = 32)
    BY <1>1, <1>2, BitValue
  <2> QED
    BY <2>1, <2>2, <2>3, <2>4, <2>5, <2>6
<1> HIDE DEF p, a, l, g, c, e
<1>5. /\ f \in 0 .. 63
      /\ Has(f, 1) <=> p = 1
      /\ Has(f, 2) <=> a = 2
      /\ Has(f, 4) <=> l = 4
      /\ Has(f, 8) <=> g = 8
      /\ Has(f, 16) <=> c = 16
      /\ Has(f, 32) <=> e = 32
  BY <1>3, <1>4, Masks
<1>6. f \in Bytes
  BY <1>5, ByteType DEF Bytes
<1>7. \A n : Has(f, n) \in BOOLEAN
  BY DEF Has
<1>8. /\ Has(f, 1) = rt.pressed /\ Has(f, 2) = rt.armed
      /\ Has(f, 4) = linked
      /\ Has(f, 8) = rt.longPressed /\ Has(f, 16) = rt.connected
      /\ Has(f, 32) = isError
  BY <1>1, <1>2, <1>4, <1>5, <1>7
<1> QED
  BY <1>6, <1>8 DEF f, linked, isError

(***************************************************************************)
(* Whole packets.                                                          *)
(***************************************************************************)

LEMMA Header ==
    ASSUME NEW a \in Bytes, NEW b \in Bytes, NEW c \in Bytes, NEW d \in Bytes,
           NEW h, h = <<a, b, c, d>>
    PROVE  /\ h \in Seq(Bytes) /\ Len(h) = 4
           /\ h[1] = a /\ h[2] = b /\ h[3] = c /\ h[4] = d
OBVIOUS

\* The page's writers and readers of numbers are those of the firmware.
LEMMA PageNumbers ==
    /\ \A dv, at : getUint16(dv, at) = readLe16(dv, at)
    /\ \A dv, at : getUint32(dv, at) = readLe32(dv, at)
    /\ \A x \in U32 :
           setUint32(ToUint32(x)) = writeLe32(x)
<1>1. \A dv, at : getUint16(dv, at) = readLe16(dv, at)
  BY DEF getUint16, readLe16
<1>2. \A dv, at : getUint32(dv, at) = readLe32(dv, at)
  BY <1>1 DEF getUint32, readLe32
<1>3. ASSUME NEW x \in U32
      PROVE  setUint32(ToUint32(x)) = writeLe32(x)
  <2> DEFINE w == Byte * Byte * Byte * Byte
  <2>1. w \in Nat /\ x \in Nat /\ x < w
    BY ByteType DEF U32
  <2> HIDE DEF w
  <2>2. x % w = x
    BY <2>1
  <2>3. ToUint32(x) = x
    BY <2>2 DEF w, ToUint32
  <2> QED
    BY <2>3 DEF setUint32, writeLe32
<1> QED
  BY <1>1, <1>2, <1>3

LEMMA ConstantTypes ==
    Halves \subseteq U16 /\ Words \subseteq U32 /\ DeviceHash \in Words
BY WidthAssumption DEF U16, U32

LEMMA FieldTypes ==
    ASSUME NEW rt \in States
    PROVE  /\ rt.seq \in U16 /\ rt.aux \in U16
           /\ rt.uptime \in U32
           /\ rt.hash \in U32
           /\ rt.group \in U32
           /\ rt.slot \in Bytes /\ rt.type \in StateTypes
           /\ rt.pressed \in BOOLEAN /\ rt.armed \in BOOLEAN
           /\ rt.longPressed \in BOOLEAN /\ rt.connected \in BOOLEAN
<1>1. rt.seq \in Halves /\ rt.aux \in Halves
  BY DEF States
<1>2. rt.uptime \in Words /\ rt.hash \in Words /\ rt.group \in Words
  BY ConstantTypes DEF States
<1>3. rt.slot \in 0 .. 2 /\ rt.type \in StateTypes
  BY DEF States
<1>4. rt.slot \in Bytes
  BY <1>3, ByteType DEF Bytes
<1> QED
  BY <1>1, <1>2, <1>3, <1>4, ConstantTypes DEF States

\* The bytes of a ButtonState, as read at the offsets of its fields.
LEMMA StatePacket ==
    ASSUME NEW rt \in States, NEW type \in StateTypes
    PROVE  LET dv == encodeButtonState(rt, type)
           IN  /\ dv \in Seq(Bytes) /\ Len(dv) = 20
               /\ dv[1] = PROTOCOL_VERSION /\ dv[2] = type
               /\ dv[3] = composeStateFlags(rt, type) /\ dv[4] = rt.slot
               /\ readLe16(dv, 4) = rt.seq /\ readLe32(dv, 6) = rt.uptime
               /\ readLe32(dv, 10) = rt.hash /\ readLe32(dv, 14) = rt.group
               /\ readLe16(dv, 18) = rt.aux
<1> DEFINE f == composeStateFlags(rt, type)
           h == <<PROTOCOL_VERSION, type, f, rt.slot>>
           s == h \o writeLe16(rt.seq)
           u == s \o writeLe32(rt.uptime)
           k == u \o writeLe32(rt.hash)
           g == k \o writeLe32(rt.group)
           dv == g \o writeLe16(rt.aux)
<1>1. encodeButtonState(rt, type) = dv
  BY DEF encodeButtonState
<1>2. f \in Bytes
  BY FlagsReadBack
<1>3. PROTOCOL_VERSION \in Bytes /\ type \in Bytes /\ rt.slot \in Bytes
  BY FieldTypes, ByteType DEF PROTOCOL_VERSION, StateTypes, Error, Bytes
<1>4. /\ s = h \o writeLe16(rt.seq) /\ u = s \o writeLe32(rt.uptime)
      /\ k = u \o writeLe32(rt.hash) /\ g = k \o writeLe32(rt.group)
      /\ dv = g \o writeLe16(rt.aux)
  OBVIOUS
<1> HIDE DEF f, s, u, k, g, dv
<1>5. /\ h \in Seq(Bytes) /\ Len(h) = 4
      /\ h[1] = PROTOCOL_VERSION /\ h[2] = type /\ h[3] = f /\ h[4] = rt.slot
  BY <1>2, <1>3, Header
<1> HIDE DEF h
<1>6. Continues(h, h)
  BY <1>5 DEF Continues
<1>7. /\ rt.seq \in U16 /\ rt.uptime \in U32 /\ rt.hash \in U32
      /\ rt.group \in U32 /\ rt.aux \in U16
  BY FieldTypes
<1>8. Continues(s, h) /\ Len(s) = 6 /\ readLe16(s, 4) = rt.seq
  <2>1. Len(h) = 4 /\ 4 + 2 = 6
    BY <1>5
  <2>2. /\ Continues(s, h) /\ Len(s) = Len(h) + 2
        /\ readLe16(s, Len(h)) = rt.seq
    BY <1>4, <1>5, <1>6, <1>7, Grow16
  <2> QED
    BY <2>1, <2>2
<1>9. Continues(u, s) /\ Len(u) = 10 /\ readLe32(u, 6) = rt.uptime
  <2>1. Len(s) = 6 /\ 6 + 4 = 10
    BY <1>8
  <2>2. /\ Continues(u, s) /\ Len(u) = Len(s) + 4
        /\ readLe32(u, Len(s)) = rt.uptime
    BY <1>4, <1>7, <1>8, Grow32
  <2> QED
    BY <2>1, <2>2
<1>10. Continues(k, u) /\ Len(k) = 14 /\ readLe32(k, 10) = rt.hash
  <2>1. Len(u) = 10 /\ 10 + 4 = 14
    BY <1>9
  <2>2. /\ Continues(k, u) /\ Len(k) = Len(u) + 4
        /\ readLe32(k, Len(u)) = rt.hash
    BY <1>4, <1>7, <1>9, Grow32
  <2> QED
    BY <2>1, <2>2
<1>11. Continues(g, k) /\ Len(g) = 18 /\ readLe32(g, 14) = rt.group
  <2>1. Len(k) = 14 /\ 14 + 4 = 18
    BY <1>10
  <2>2. /\ Continues(g, k) /\ Len(g) = Len(k) + 4
        /\ readLe32(g, Len(k)) = rt.group
    BY <1>4, <1>7, <1>10, Grow32
  <2> QED
    BY <2>1, <2>2
<1>12. Continues(dv, g) /\ Len(dv) = 20 /\ readLe16(dv, 18) = rt.aux
  <2>1. Len(g) = 18 /\ 18 + 2 = 20
    BY <1>11
  <2>2. /\ Continues(dv, g) /\ Len(dv) = Len(g) + 2
        /\ readLe16(dv, Len(g)) = rt.aux
    BY <1>4, <1>7, <1>11, Grow16
  <2> QED
    BY <2>1, <2>2
<1>13. Continues(dv, k)
  BY <1>11, <1>12, ContinuesOn
<1>14. Continues(dv, u)
  BY <1>10, <1>13, ContinuesOn
<1>15. Continues(dv, s)
  BY <1>9, <1>14, ContinuesOn
<1>16. Continues(dv, h)
  BY <1>8, <1>15, ContinuesOn
<1>17. readLe32(dv, 14) = rt.group
  <2>1. 14 \in Nat /\ 14 + 4 <= Len(g)
    BY <1>11
  <2> QED
    BY <2>1, <1>11, <1>12, ReadOn32
<1>18. readLe32(dv, 10) = rt.hash
  <2>1. 10 \in Nat /\ 10 + 4 <= Len(k)
    BY <1>10
  <2> QED
    BY <2>1, <1>10, <1>13, ReadOn32
<1>19. readLe32(dv, 6) = rt.uptime
  <2>1. 6 \in Nat /\ 6 + 4 <= Len(u)
    BY <1>9
  <2> QED
    BY <2>1, <1>9, <1>14, ReadOn32
<1>20. readLe16(dv, 4) = rt.seq
  <2>1. 4 \in Nat /\ 4 + 2 <= Len(s)
    BY <1>8
  <2> QED
    BY <2>1, <1>8, <1>15, ReadOn16
<1>21. /\ dv[1] = h[1] /\ dv[2] = h[2] /\ dv[3] = h[3] /\ dv[4] = h[4]
       /\ dv \in Seq(Bytes)
  BY <1>5, <1>16 DEF Continues
<1> QED
  BY <1>1, <1>5, <1>12, <1>17, <1>18, <1>19, <1>20, <1>21 DEF f

Commands ==
    [command: 1 .. 5, slot: 0 .. 2, flags: {0, 1}, group: Words, value: Words]

\* The bytes of a command of the page.
LEMMA CommandPacket ==
    ASSUME NEW c \in Commands
    PROVE  LET data == makeCommand(c.command, c.slot, c.flags, c.group, c.value)
           IN  /\ data \in Seq(Bytes) /\ Len(data) = 12
               /\ data[1] = PROTOCOL_VERSION /\ data[2] = c.command
               /\ data[3] = c.slot /\ data[4] = c.flags
               /\ readLe32(data, 4) = c.group /\ readLe32(data, 8) = c.value
<1> DEFINE h == <<PROTOCOL_VERSION, c.command, c.slot, c.flags>>
           g == h \o writeLe32(c.group)
           data == g \o writeLe32(c.value)
<1>1. /\ c.group \in U32
      /\ c.value \in U32
  BY ConstantTypes DEF Commands
<1>2. makeCommand(c.command, c.slot, c.flags, c.group, c.value) = data
  BY <1>1, PageNumbers DEF makeCommand
<1>3. c.command \in 1 .. 5 /\ c.slot \in 0 .. 2 /\ c.flags \in {0, 1}
  BY DEF Commands
<1>4. /\ PROTOCOL_VERSION \in Bytes /\ c.command \in Bytes
      /\ c.slot \in Bytes /\ c.flags \in Bytes
  BY <1>3, ByteType DEF PROTOCOL_VERSION, Bytes
<1>5. g = h \o writeLe32(c.group) /\ data = g \o writeLe32(c.value)
  OBVIOUS
<1> HIDE DEF g, data
<1>6. /\ h \in Seq(Bytes) /\ Len(h) = 4
      /\ h[1] = PROTOCOL_VERSION /\ h[2] = c.command
      /\ h[3] = c.slot /\ h[4] = c.flags
  BY <1>4, Header
<1> HIDE DEF h
<1>7. Continues(h, h)
  BY <1>6 DEF Continues
<1>8. Continues(g, h) /\ Len(g) = 8 /\ readLe32(g, 4) = c.group
  <2>1. Len(h) = 4 /\ 4 + 4 = 8
    BY <1>6
  <2>2. /\ Continues(g, h) /\ Len(g) = Len(h) + 4
        /\ readLe32(g, Len(h)) = c.group
    BY <1>1, <1>5, <1>6, <1>7, Grow32
  <2> QED
    BY <2>1, <2>2
<1>9. Continues(data, g) /\ Len(data) = 12 /\ readLe32(data, 8) = c.value
  <2>1. Len(g) = 8 /\ 8 + 4 = 12
    BY <1>8
  <2>2. /\ Continues(data, g) /\ Len(data) = Len(g) + 4
        /\ readLe32(data, Len(g)) = c.value
    BY <1>1, <1>5, <1>8, Grow32
  <2> QED
    BY <2>1, <2>2
<1>10. Continues(data, h)
  BY <1>8, <1>9, ContinuesOn
<1>11. readLe32(data, 4) = c.group
  <2>1. 4 \in Nat /\ 4 + 4 <= Len(g)
    BY <1>8
  <2> QED
    BY <2>1, <1>8, <1>9, ReadOn32
<1>12. /\ data[1] = h[1] /\ data[2] = h[2] /\ data[3] = h[3]
       /\ data[4] = h[4] /\ data \in Seq(Bytes)
  BY <1>6, <1>10 DEF Continues
<1> QED
  BY <1>2, <1>6, <1>9, <1>11, <1>12

(***************************************************************************)
(* The fields of the tool.                                                 *)
(***************************************************************************)

Widths == <<1, 1, 1, 1, 2, 4, 4, 4, 2>>

Starts == <<0, 1, 2, 3, 4, 6, 10, 14, 18>>

LEMMA ToolOffset ==
    ASSUME NEW i \in 1 .. 9
    PROVE  Offset(Widths, i) = Starts[i]
<1> DEFINE Sums(f) == f = [k \in 0 .. i - 1 |->
                              IF k = 0 THEN 0 ELSE f[k - 1] + Widths[k]]
           g == [k \in 0 .. i - 1 |-> Starts[k + 1]]
           sum == CHOOSE f : Sums(f)
<1>1. Sums(g)
  <2>1. ASSUME NEW k \in 0 .. i - 1
        PROVE  Starts[k + 1] = IF k = 0 THEN 0 ELSE g[k - 1] + Widths[k]
    <3>1. k = 0 \/ (k - 1 \in 0 .. i - 1 /\ k \in 1 .. 8)
      OBVIOUS
    <3>2. k # 0 => g[k - 1] = Starts[k]
      BY <3>1
    <3>3. \A n \in 1 .. 8 : Starts[n + 1] = Starts[n] + Widths[n]
      BY DEF Starts, Widths
    <3>4. Starts[1] = 0
      BY DEF Starts
    <3> QED
      BY <3>1, <3>2, <3>3, <3>4
  <2> QED
    BY <2>1
<1>2. Offset(Widths, i) = sum[i - 1]
  BY DEF Offset
<1>3. Sums(sum)
  BY <1>1
<1> HIDE DEF sum
<1>4. \A k \in 0 .. i - 1 :
          sum[k] = IF k = 0 THEN 0 ELSE sum[k - 1] + Widths[k]
  BY <1>3
<1>5. sum[0] = 0
  BY <1>4
<1>6. \A n \in 1 .. 8 : n <= i - 1 => sum[n] = sum[n - 1] + Widths[n]
  BY <1>4
<1>7. /\ 1 <= i - 1 => sum[1] = sum[0] + 1
      /\ 2 <= i - 1 => sum[2] = sum[1] + 1
      /\ 3 <= i - 1 => sum[3] = sum[2] + 1
      /\ 4 <= i - 1 => sum[4] = sum[3] + 1
      /\ 5 <= i - 1 => sum[5] = sum[4] + 2
      /\ 6 <= i - 1 => sum[6] = sum[5] + 4
      /\ 7 <= i - 1 => sum[7] = sum[6] + 4
      /\ 8 <= i - 1 => sum[8] = sum[7] + 4
  BY <1>6 DEF Widths
<1>8. sum[i - 1] = Starts[i]
  BY <1>5, <1>7 DEF Starts
<1> QED
  BY <1>2, <1>8

(***************************************************************************)
(* The readers.                                                            *)
(***************************************************************************)

\* What the page makes of a ButtonState.
AsRead(rt) ==
    [version |-> PROTOCOL_VERSION, type |-> rt.type,
     pressed |-> rt.pressed, armed |-> rt.armed,
     linked |-> rt.group # 0 /\ rt.slot # 0,
     longPressed |-> rt.longPressed, connected |-> rt.connected,
     error |-> rt.type = Error, slot |-> rt.slot, seq |-> rt.seq,
     uptime |-> rt.uptime, hash |-> rt.hash, group |-> rt.group,
     aux |-> rt.aux]

\* The page reads a ButtonState as the device meant it.
THEOREM PageReadsState ==
    ASSUME NEW rt \in States
    PROVE  parseState(encodeButtonState(rt, rt.type)) = AsRead(rt)
<1> DEFINE dv == encodeButtonState(rt, rt.type)
           f == composeStateFlags(rt, rt.type)
<1>1. rt.type \in StateTypes
  BY FieldTypes
<1>2. /\ dv \in Seq(Bytes) /\ Len(dv) = 20
      /\ dv[1] = PROTOCOL_VERSION /\ dv[2] = rt.type
      /\ dv[3] = f /\ dv[4] = rt.slot
      /\ readLe16(dv, 4) = rt.seq /\ readLe32(dv, 6) = rt.uptime
      /\ readLe32(dv, 10) = rt.hash /\ readLe32(dv, 14) = rt.group
      /\ readLe16(dv, 18) = rt.aux
  BY <1>1, StatePacket
<1>3. /\ Has(f, 1) = rt.pressed /\ Has(f, 2) = rt.armed
      /\ Has(f, 4) = (rt.group # 0 /\ rt.slot # 0)
      /\ Has(f, 8) = rt.longPressed /\ Has(f, 16) = rt.connected
      /\ Has(f, 32) = (rt.type = Error)
  BY <1>1, FlagsReadBack
<1> HIDE DEF dv, f
<1>4. /\ getUint16(dv, 4) = rt.seq /\ getUint32(dv, 6) = rt.uptime
      /\ getUint32(dv, 10) = rt.hash /\ getUint32(dv, 14) = rt.group
      /\ getUint16(dv, 18) = rt.aux
  BY <1>2, PageNumbers
<1>5. parseState(dv) = AsRead(rt)
  BY <1>2, <1>3, <1>4, Zenon DEF parseState, AsRead
<1> QED
  BY <1>5 DEF dv

\* What the tool makes of it.
AsDecoded(rt) ==
    [version |-> PROTOCOL_VERSION, type |-> rt.type,
     flags |-> {n \in FLAGS : Has(composeStateFlags(rt, rt.type), n[1])},
     slot |-> rt.slot, seq |-> rt.seq, uptime |-> rt.uptime,
     hash |-> rt.hash, group |-> rt.group, aux |-> rt.aux]

\* The tool finds each field where the widths of those before it end.
THEOREM ToolReadsState ==
    ASSUME NEW rt \in States
    PROVE  decode(encodeButtonState(rt, rt.type)) = AsDecoded(rt)
<1> DEFINE dv == encodeButtonState(rt, rt.type)
           f == composeStateFlags(rt, rt.type)
           u == unpack(Widths, dv)
<1>1. /\ dv \in Seq(Bytes) /\ Len(dv) = 20
      /\ dv[1] = PROTOCOL_VERSION /\ dv[2] = rt.type
      /\ dv[3] = f /\ dv[4] = rt.slot
      /\ readLe16(dv, 4) = rt.seq /\ readLe32(dv, 6) = rt.uptime
      /\ readLe32(dv, 10) = rt.hash /\ readLe32(dv, 14) = rt.group
      /\ readLe16(dv, 18) = rt.aux
  BY FieldTypes, StatePacket
<1> HIDE DEF dv, f
<1>2. DOMAIN Widths = 1 .. 9
  BY DEF Widths
<1>3. \A i \in 1 .. 9 :
          u[i] = LET at == Offset(Widths, i)
                 IN  CASE Widths[i] = 1 -> dv[at + 1]
                       [] Widths[i] = 2 -> readLe16(dv, at)
                       [] Widths[i] = 4 -> readLe32(dv, at)
  BY <1>2 DEF unpack
<1>4. \A i \in 1 .. 9 :
          u[i] = CASE Widths[i] = 1 -> dv[Starts[i] + 1]
                   [] Widths[i] = 2 -> readLe16(dv, Starts[i])
                   [] Widths[i] = 4 -> readLe32(dv, Starts[i])
  BY <1>3, ToolOffset
<1> HIDE DEF u
<1>5. u[1] = dv[1] /\ u[2] = dv[2] /\ u[3] = dv[3] /\ u[4] = dv[4]
  BY <1>4 DEF Widths, Starts
<1>6. u[5] = readLe16(dv, 4) /\ u[9] = readLe16(dv, 18)
  BY <1>4 DEF Widths, Starts
<1>7. /\ u[6] = readLe32(dv, 6) /\ u[7] = readLe32(dv, 10)
      /\ u[8] = readLe32(dv, 14)
  BY <1>4 DEF Widths, Starts
<1>8. decode(dv) = unpacked(u)
  BY <1>1 DEF decode, u, Widths
<1>9. unpacked(u) = AsDecoded(rt)
  BY <1>1, <1>5, <1>6, <1>7 DEF unpacked, AsDecoded, f
<1> QED
  BY <1>8, <1>9 DEF dv

\* The device reads a command as the page meant it.
THEOREM DeviceReadsCommand ==
    ASSUME NEW c \in Commands
    PROVE  decodeControlCommand(
               makeCommand(c.command, c.slot, c.flags, c.group, c.value)) = c
<1> DEFINE data == makeCommand(c.command, c.slot, c.flags, c.group, c.value)
<1>1. /\ Len(data) = 12
      /\ data[1] = PROTOCOL_VERSION /\ data[2] = c.command
      /\ data[3] = c.slot /\ data[4] = c.flags
      /\ readLe32(data, 4) = c.group /\ readLe32(data, 8) = c.value
  BY CommandPacket
<1> HIDE DEF data
<1>2. c = [command |-> c.command, slot |-> c.slot, flags |-> c.flags,
           group |-> c.group, value |-> c.value]
  BY DEF Commands
<1>3. decodeControlCommand(data)
          = [command |-> c.command, slot |-> c.slot, flags |-> c.flags,
             group |-> c.group, value |-> c.value]
  BY <1>1 DEF decodeControlCommand
<1> QED
  BY <1>2, <1>3 DEF data

(***************************************************************************)
(* From bytes to numbers and back.                                         *)
(***************************************************************************)

\* A number has no other digits than those it was put together from.
LEMMA OnlyDigits ==
    ASSUME NEW b \in Nat, b > 0, NEW r \in 0 .. b - 1, NEW q \in Nat
    PROVE  r + q * b \in Nat /\ (r + q * b) % b = r /\ (r + q * b) \div b = q
<1> DEFINE v == r + q * b
           q2 == v \div b
           r2 == v % b
<1>0. q * b \in Nat
  OBVIOUS
<1>1. v \in Nat
  BY <1>0
<1>2. q2 \in Nat /\ r2 \in 0 .. b - 1 /\ v = b * q2 + r2
  <2> HIDE DEF v
  <2> QED
    BY <1>1
<1>3. b * q2 = q2 * b /\ q2 * b \in Nat
  <2> HIDE DEF q2
  <2> QED
    BY <1>2
<1>4. v = r + q * b
  OBVIOUS
<1> HIDE DEF v, q2, r2
<1>5. ~ (q2 + 1 <= q)
  <2> SUFFICES ASSUME q2 + 1 <= q PROVE FALSE
    OBVIOUS
  <2>1. (q2 + 1) * b <= q * b
    BY <1>2, TimesMonotone
  <2>2. (q2 + 1) * b = q2 * b + b
    BY <1>2
  <2> QED
    BY <1>0, <1>2, <1>3, <1>4, <2>1, <2>2
<1>6. ~ (q + 1 <= q2)
  <2> SUFFICES ASSUME q + 1 <= q2 PROVE FALSE
    OBVIOUS
  <2>1. (q + 1) * b <= q2 * b
    BY <1>2, TimesMonotone
  <2>2. (q + 1) * b = q * b + b
    OBVIOUS
  <2> QED
    BY <1>0, <1>2, <1>3, <1>4, <2>1, <2>2
<1>7. q2 = q
  BY <1>2, <1>5, <1>6
<1>8. r2 = r
  BY <1>0, <1>2, <1>3, <1>4, <1>7
<1> QED
  BY <1>1, <1>7, <1>8 DEF v, q2, r2

\* A product of digits below b and m is below b * m.
LEMMA BelowProduct ==
    ASSUME NEW b \in Nat, b > 0, NEW m \in Nat, NEW r \in 0 .. b - 1,
           NEW q \in 0 .. m - 1
    PROVE  r + q * b \in 0 .. b * m - 1
<1>1. (q + 1) * b <= m * b
  BY TimesMonotone
<1>2. (q + 1) * b = q * b + b /\ q * b \in Nat /\ m * b = b * m /\ b * m \in Nat
  OBVIOUS
<1> QED
  BY <1>1, <1>2

\* Two bytes that are read and written again, and four.
LEMMA WriteRead16 ==
    ASSUME NEW data \in Seq(Bytes), NEW at \in Nat, at + 2 <= Len(data)
    PROVE  /\ readLe16(data, at) \in U16
           /\ writeLe16(readLe16(data, at)) = <<data[at + 1], data[at + 2]>>
<1> DEFINE lo == data[at + 1]
           hi == data[at + 2]
           v == lo + hi * Byte
<1>1. lo \in Bytes /\ hi \in Bytes
  OBVIOUS
<1>2. readLe16(data, at) = v
  BY DEF readLe16
<1> HIDE DEF lo, hi
<1>3. v \in U16 /\ v % Byte = lo /\ v \div Byte = hi
  BY <1>1, ByteType, OnlyDigits, BelowProduct DEF Bytes, U16
<1> HIDE DEF v
<1>4. writeLe16(v) = <<lo, hi>>
  BY <1>3, Le16
<1> QED
  BY <1>2, <1>3, <1>4 DEF lo, hi

LEMMA WriteRead32 ==
    ASSUME NEW data \in Seq(Bytes), NEW at \in Nat, at + 4 <= Len(data)
    PROVE  setUint32(ToUint32(readLe32(data, at)))
               = <<data[at + 1], data[at + 2]>> \o <<data[at + 3], data[at + 4]>>
<1> DEFINE lo == readLe16(data, at)
           hi == readLe16(data, at + 2)
           w == Byte * Byte
           v == lo + hi * w
<1>1. /\ lo \in U16 /\ writeLe16(lo) = <<data[at + 1], data[at + 2]>>
  BY WriteRead16
<1>2. hi \in U16 /\ writeLe16(hi) = <<data[at + 3], data[at + 4]>>
  <2>1. at + 2 \in Nat /\ (at + 2) + 2 <= Len(data)
        /\ (at + 2) + 1 = at + 3 /\ (at + 2) + 2 = at + 4
    OBVIOUS
  <2>2. hi \in U16 /\ writeLe16(hi) = <<data[(at + 2) + 1], data[(at + 2) + 2]>>
    BY <2>1, WriteRead16
  <2> QED
    BY <2>1, <2>2
<1>3. readLe32(data, at) = v
  BY DEF readLe32
<1>4. w \in Nat /\ w > 0 /\ Byte * Byte * Byte * Byte = w * w /\ U16 = 0 .. w - 1
  BY ByteType, Half DEF U16
<1> HIDE DEF lo, hi, w
<1>5. v \in 0 .. w * w - 1 /\ v % w = lo /\ v \div w = hi
  <2>1. lo \in 0 .. w - 1 /\ hi \in 0 .. w - 1 /\ hi \in Nat
    BY <1>1, <1>2, <1>4
  <2>2. lo + hi * w \in 0 .. w * w - 1
    BY <1>4, <2>1, BelowProduct
  <2>3. (lo + hi * w) % w = lo /\ (lo + hi * w) \div w = hi
    BY <1>4, <2>1, OnlyDigits
  <2> QED
    BY <2>2, <2>3
<1> HIDE DEF v
<1>6. v \in U32
  BY <1>4, <1>5 DEF U32
<1>7. setUint32(ToUint32(v)) = writeLe32(v)
  BY <1>6, PageNumbers
<1>8. writeLe32(v) = writeLe16(lo) \o writeLe16(hi)
  BY <1>5 DEF writeLe32, w
<1> QED
  BY <1>1, <1>2, <1>3, <1>7, <1>8

LEMMA Pairs ==
    ASSUME NEW a \in Bytes, NEW b \in Bytes, NEW c \in Bytes, NEW d \in Bytes,
           NEW t, t = <<a, b>> \o <<c, d>>
    PROVE  /\ t \in Seq(Bytes) /\ Len(t) = 4
           /\ t[1] = a /\ t[2] = b /\ t[3] = c /\ t[4] = d
OBVIOUS

LEMMA Join ==
    ASSUME NEW s \in Seq(Bytes), NEW r \in Seq(Bytes)
    PROVE  /\ s \o r \in Seq(Bytes) /\ Len(s \o r) = Len(s) + Len(r)
           /\ \A i \in 1 .. Len(s) : (s \o r)[i] = s[i]
           /\ \A i \in 1 .. Len(r) : (s \o r)[Len(s) + i] = r[i]
<1> DEFINE m == Len(s)
           n == Len(r)
           t == s \o r
<1>0. m \in Nat /\ n \in Nat
  OBVIOUS
<1>1. /\ t \in Seq(Bytes) /\ Len(t) = m + n
      /\ \A i \in 1 .. m + n : t[i] = IF i <= m THEN s[i] ELSE r[i - m]
  BY ConcatProperties
<1> HIDE DEF m, n, t
<1>2. ASSUME NEW i \in 1 .. m PROVE t[i] = s[i]
  <2>1. i \in 1 .. m + n /\ i <= m
    BY <1>0, <1>2
  <2> QED
    BY <1>1, <2>1
<1>3. ASSUME NEW i \in 1 .. n PROVE t[m + i] = r[i]
  <2>1. m + i \in 1 .. m + n /\ ~ (m + i <= m) /\ (m + i) - m = i
    BY <1>0, <1>3
  <2> QED
    BY <1>1, <2>1
<1> QED
  BY <1>1, <1>2, <1>3 DEF m, n, t

\* A packet that the device takes for a command is what the page would write
\* for that command.
LEMMA ReadIsWritten ==
    ASSUME NEW data \in Seq(Bytes), NEW c, c = decodeControlCommand(data),
           c # None
    PROVE  data = makeCommand(c.command, c.slot, c.flags, c.group, c.value)
<1>1. Len(data) = 12 /\ data[1] = PROTOCOL_VERSION
  BY DEF decodeControlCommand
<1>2. /\ c.command = data[2] /\ c.slot = data[3] /\ c.flags = data[4]
      /\ c.group = readLe32(data, 4) /\ c.value = readLe32(data, 8)
  BY <1>1 DEF decodeControlCommand
<1> DEFINE h == <<data[1], data[2], data[3], data[4]>>
           g == <<data[5], data[6]>> \o <<data[7], data[8]>>
           v == <<data[9], data[10]>> \o <<data[11], data[12]>>
           hg == h \o g
           t == hg \o v
<1>3. setUint32(ToUint32(c.group)) = g
  <2>1. 4 \in Nat /\ 4 + 4 <= Len(data)
    BY <1>1
  <2>2. setUint32(ToUint32(readLe32(data, 4)))
            = <<data[4 + 1], data[4 + 2]>> \o <<data[4 + 3], data[4 + 4]>>
    BY <2>1, WriteRead32
  <2> QED
    BY <1>2, <2>2
<1>4. setUint32(ToUint32(c.value)) = v
  <2>1. 8 \in Nat /\ 8 + 4 <= Len(data)
    BY <1>1
  <2>2. setUint32(ToUint32(readLe32(data, 8)))
            = <<data[8 + 1], data[8 + 2]>> \o <<data[8 + 3], data[8 + 4]>>
    BY <2>1, WriteRead32
  <2> QED
    BY <1>2, <2>2
<1>5. makeCommand(c.command, c.slot, c.flags, c.group, c.value) = t
  BY <1>1, <1>2, <1>3, <1>4 DEF makeCommand
<1>6. /\ data[1] \in Bytes /\ data[2] \in Bytes /\ data[3] \in Bytes
      /\ data[4] \in Bytes /\ data[5] \in Bytes /\ data[6] \in Bytes
      /\ data[7] \in Bytes /\ data[8] \in Bytes /\ data[9] \in Bytes
      /\ data[10] \in Bytes /\ data[11] \in Bytes /\ data[12] \in Bytes
  <2>1. \A i \in 1 .. 12 : data[i] \in Bytes
    BY <1>1, ElementOfSeq
  <2> QED
    BY <2>1
<1>7. /\ h \in Seq(Bytes) /\ Len(h) = 4
      /\ h[1] = data[1] /\ h[2] = data[2] /\ h[3] = data[3] /\ h[4] = data[4]
  BY <1>6, Header
<1>8. /\ g \in Seq(Bytes) /\ Len(g) = 4
      /\ g[1] = data[5] /\ g[2] = data[6] /\ g[3] = data[7] /\ g[4] = data[8]
  BY <1>6, Pairs
<1>9. /\ v \in Seq(Bytes) /\ Len(v) = 4
      /\ v[1] = data[9] /\ v[2] = data[10] /\ v[3] = data[11] /\ v[4] = data[12]
  BY <1>6, Pairs
<1> HIDE DEF h, g, v
<1>10. /\ hg \in Seq(Bytes) /\ Len(hg) = 4 + 4
       /\ \A i \in 1 .. 4 : hg[i] = h[i]
       /\ \A i \in 1 .. 4 : hg[4 + i] = g[i]
  <2>1. /\ hg \in Seq(Bytes) /\ Len(hg) = Len(h) + Len(g)
        /\ \A i \in 1 .. Len(h) : hg[i] = h[i]
        /\ \A i \in 1 .. Len(g) : hg[Len(h) + i] = g[i]
    BY <1>7, <1>8, Join
  <2> HIDE DEF hg
  <2> QED
    BY <1>7, <1>8, <2>1
<1>11. /\ t \in Seq(Bytes) /\ Len(t) = 8 + 4
       /\ \A i \in 1 .. 8 : t[i] = hg[i]
       /\ \A i \in 1 .. 4 : t[8 + i] = v[i]
  <2>1. hg \in Seq(Bytes) /\ Len(hg) = 8
    BY <1>10
  <2> HIDE DEF hg
  <2>2. /\ t \in Seq(Bytes) /\ Len(t) = Len(hg) + Len(v)
        /\ \A i \in 1 .. Len(hg) : t[i] = hg[i]
        /\ \A i \in 1 .. Len(v) : t[Len(hg) + i] = v[i]
    BY <1>9, <2>1, Join
  <2> HIDE DEF t
  <2> QED
    BY <1>9, <2>1, <2>2
<1> HIDE DEF t, hg
<1>12. /\ t[1] = data[1] /\ t[2] = data[2] /\ t[3] = data[3] /\ t[4] = data[4]
       /\ t[5] = data[5] /\ t[6] = data[6] /\ t[7] = data[7] /\ t[8] = data[8]
       /\ t[9] = data[9] /\ t[10] = data[10] /\ t[11] = data[11] /\ t[12] = data[12]
  <2>0. /\ 1 \in 1 .. 4 /\ 2 \in 1 .. 4 /\ 3 \in 1 .. 4 /\ 4 \in 1 .. 4
        /\ 1 \in 1 .. 8 /\ 2 \in 1 .. 8 /\ 3 \in 1 .. 8 /\ 4 \in 1 .. 8
        /\ 5 \in 1 .. 8 /\ 6 \in 1 .. 8 /\ 7 \in 1 .. 8 /\ 8 \in 1 .. 8
        /\ 4 + 1 = 5 /\ 4 + 2 = 6 /\ 4 + 3 = 7 /\ 4 + 4 = 8
        /\ 8 + 1 = 9 /\ 8 + 2 = 10 /\ 8 + 3 = 11 /\ 8 + 4 = 12
    OBVIOUS
  <2>1. t[1] = h[1] /\ t[2] = h[2] /\ t[3] = h[3] /\ t[4] = h[4]
    BY <1>10, <1>11, <2>0
  <2>2. hg[5] = g[1] /\ hg[6] = g[2] /\ hg[7] = g[3] /\ hg[8] = g[4]
    BY <1>10, <2>0
  <2>3. t[5] = hg[5] /\ t[6] = hg[6] /\ t[7] = hg[7] /\ t[8] = hg[8]
    BY <1>11, <2>0
  <2>4. t[9] = v[1] /\ t[10] = v[2] /\ t[11] = v[3] /\ t[12] = v[4]
    BY <1>11, <2>0
  <2> QED
    BY <1>7, <1>8, <1>9, <2>1, <2>2, <2>3, <2>4
<1>13. \A i \in 1 .. Len(data) : data[i] = t[i]
  BY <1>1, <1>12
<1>14. data = t
  BY <1>1, <1>11, <1>13, SeqEqual
<1> QED
  BY <1>5, <1>14

(***************************************************************************)
(* The packet on its way is the bytes of the fields that were sent, and    *)
(* what has arrived was read from it.                                      *)
(***************************************************************************)

PacketInv ==
    /\ sent.kind \in {"none", "state", "command", "foreign"}
    /\ sent = NoPacket => ~ arrived
    /\ arrived \in BOOLEAN
    /\ packet \in Seq(Bytes)
    /\ sent.kind = "state" =>
           /\ sent.fields \in States
           /\ packet = encodeButtonState(sent.fields, sent.fields.type)
           /\ arrived => page = parseState(packet) /\ tool = decode(packet)
    /\ sent.kind = "foreign" /\ arrived => page = decodeControlCommand(packet)
    /\ sent.kind = "command" =>
           LET c == sent.fields
           IN  /\ c \in Commands
               /\ packet = makeCommand(c.command, c.slot, c.flags,
                                       c.group, c.value)
               /\ arrived => page = decodeControlCommand(packet)

LEMMA NothingSent == NoPacket.kind = "none" /\ << >> \in Seq(Bytes)
BY DEF NoPacket

LEMMA InitPacket == Init => PacketInv
BY NothingSent DEF Init, PacketInv

LEMMA NextPackets == ASSUME PacketInv, [Next]_vars PROVE PacketInv'
<1>1. CASE UNCHANGED vars
  BY <1>1 DEF vars, PacketInv, NoPacket
<1>2. CASE publishState
  <2>1. PICK rt \in States : Send("state", rt, encodeButtonState(rt, rt.type))
    BY <1>2 DEF publishState
  <2>2. packet' \in Seq(Bytes)
    BY <2>1, FieldTypes, StatePacket DEF Send
  <2>3. /\ sent'.kind = "state" /\ sent'.fields = rt
        /\ packet' = encodeButtonState(rt, rt.type) /\ arrived' = FALSE
        /\ sent' # NoPacket
    BY <1>2, <2>1 DEF publishState, Send, PacketInv, NoPacket
  <2> QED
    BY <2>2, <2>3 DEF PacketInv
<1>3. CASE writeCommand
  <2>1. PICK c \in Commands :
            Send("command", c, makeCommand(c.command, c.slot, c.flags,
                                           c.group, c.value))
    BY <1>3 DEF writeCommand, Commands
  <2>2. packet' \in Seq(Bytes)
    BY <2>1, CommandPacket DEF Send
  <2>3. /\ sent'.kind = "command" /\ sent'.fields = c
        /\ packet' = makeCommand(c.command, c.slot, c.flags, c.group, c.value)
        /\ arrived' = FALSE /\ sent' # NoPacket
    BY <1>3, <2>1 DEF writeCommand, Send, PacketInv, NoPacket
  <2> QED
    BY <2>1, <2>2, <2>3 DEF PacketInv
<1>4. CASE foreignWrite
  <2>1. PICK version \in 0 .. 2, size \in {1, 11, 12, 13, 20} :
            Send("foreign", None, [i \in 1 .. size |-> IF i = 1 THEN version ELSE i])
    BY <1>4 DEF foreignWrite
  <2>2. size \in Nat /\ size <= 20 /\ version \in Bytes /\ \A i \in 1 .. 20 : i \in Bytes
    BY ByteType DEF Bytes
  <2>3. [i \in 1 .. size |-> IF i = 1 THEN version ELSE i] \in Seq(Bytes)
    <3>1. \A i \in 1 .. size : (IF i = 1 THEN version ELSE i) \in Bytes
      <4>1. \A i \in 1 .. size : i \in 1 .. 20
        BY <2>2
      <4> QED
        BY <2>2, <4>1
    <3> QED
      BY <2>2, <3>1
  <2>4. /\ sent'.kind = "foreign" /\ arrived' = FALSE /\ sent' # NoPacket
    BY <1>4, <2>1 DEF foreignWrite, Send, PacketInv, NoPacket
  <2> QED
    BY <2>1, <2>3, <2>4 DEF PacketInv, Send
<1>5. CASE Receive
  BY <1>5 DEF Receive, PacketInv, NoPacket
<1>6. CASE NextPacket
  BY <1>6, NothingSent DEF NextPacket, PacketInv
<1> QED
  BY <1>1, <1>2, <1>3, <1>4, <1>5, <1>6 DEF Next

LEMMA PacketInvariant == Spec => []PacketInv
BY InitPacket, NextPackets, PTL DEF Spec

\* Every byte is a byte, and every packet has the length of its kind.
THEOREM PacketTypes == Spec => []TypeOK
<1>1. PacketInv => TypeOK
  <2> SUFFICES ASSUME PacketInv PROVE TypeOK
    OBVIOUS
  <2>1. sent.kind = "state" => Len(packet) = 20
    BY FieldTypes, StatePacket DEF PacketInv
  <2>2. sent.kind = "command" => Len(packet) = 12
    BY CommandPacket DEF PacketInv
  <2> QED
    BY <2>1, <2>2 DEF PacketInv, TypeOK, Bytes
<1> QED
  BY <1>1, PacketInvariant, PTL

\* The page reads every ButtonState as the device meant it.
THEOREM StatesReadBack == Spec => []StateReadBack
<1>1. PacketInv => StateReadBack
  <2> SUFFICES ASSUME PacketInv, arrived, sent.kind = "state"
               PROVE  page = AsRead(sent.fields)
    BY DEF StateReadBack, Arrived, AsRead
  <2> QED
    BY PageReadsState DEF PacketInv
<1> QED
  BY <1>1, PacketInvariant, PTL

\* The device takes every command of the page for what it is, and what it takes
\* from another program for what the page would write byte for byte.
THEOREM CommandsReadBack == Spec => []CommandReadBack
<1>1. PacketInv => CommandReadBack
  BY DeviceReadsCommand, ReadIsWritten DEF PacketInv, CommandReadBack, Arrived
<1> QED
  BY <1>1, PacketInvariant, PTL

\* The tool sees in every ButtonState what the page sees.
THEOREM ToolAlwaysAgrees == Spec => []ToolAgrees
<1>1. PacketInv => ToolAgrees
  <2> SUFFICES ASSUME PacketInv, arrived, sent.kind = "state"
               PROVE  /\ tool.flags = {n \in FLAGS : page[n[2]]}
                      /\ \A field \in {"version", "type", "slot", "seq",
                                       "uptime", "hash", "group", "aux"} :
                             tool[field] = page[field]
    BY DEF ToolAgrees, Arrived
  <2> DEFINE rt == sent.fields
             f == composeStateFlags(rt, rt.type)
  <2>1. rt \in States /\ page = AsRead(rt) /\ tool = AsDecoded(rt)
    BY PageReadsState, ToolReadsState DEF PacketInv
  <2>2. \A field \in {"version", "type", "slot", "seq", "uptime", "hash",
                       "group", "aux"} :
            tool[field] = page[field]
    BY <2>1 DEF AsRead, AsDecoded
  <2>3. /\ Has(f, 1) = rt.pressed /\ Has(f, 2) = rt.armed
        /\ Has(f, 4) = (rt.group # 0 /\ rt.slot # 0)
        /\ Has(f, 8) = rt.longPressed /\ Has(f, 16) = rt.connected
        /\ Has(f, 32) = (rt.type = Error)
    BY <2>1, FieldTypes, FlagsReadBack
  <2> HIDE DEF f
  <2>4. \A n \in FLAGS : Has(f, n[1]) = page[n[2]]
    BY <2>1, <2>3 DEF FLAGS, AsRead
  <2>5. tool.flags = {n \in FLAGS : Has(f, n[1])}
    BY <2>1 DEF AsDecoded, f
  <2>6. tool.flags = {n \in FLAGS : page[n[2]]}
    BY <2>4, <2>5
  <2> QED
    BY <2>2, <2>6
<1> QED
  BY <1>1, PacketInvariant, PTL
=============================================================================
