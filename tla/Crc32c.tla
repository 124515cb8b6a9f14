------------------------------- MODULE Crc32c -------------------------------
(***************************************************************************)
(* The CRC32C checksum primitive turbo::ExtendCrc32c(crc32c_t, string_view)*)
(* that the copy engines consume.  Its source is not part of this          *)
(* repository; it is modelled from the specification (section 6): a pure  *)
(* function that extends a 32-bit checksum state over a byte range.        *)
(*                                                                         *)
(* A crc32c_t is a 32-bit unsigned value.  TLC integers are signed 32-bit, *)
(* so the value is kept as two 16-bit halves.  The algorithm is the        *)
(* reflected Castagnoli CRC with the usual pre- and post-inversion, a byte *)
(* at a time through the 256-entry table, as the portable code computes it.*)
(***************************************************************************)
LOCAL INSTANCE Integers
LOCAL INSTANCE Sequences
LOCAL INSTANCE Bitwise

\* crc32c_t: every 32-bit value, as its upper and lower 16-bit halves.
Crc32cValue == [hi : 0..65535, lo : 0..65535]

FromHalves(hi, lo) == [hi |-> hi, lo |-> lo]

Xor32(a, b) == [hi |-> a.hi ^^ b.hi, lo |-> a.lo ^^ b.lo]

\* kCRC32Xor: ExtendCrc32c inverts the state on entry and on exit.
InvertBits(c) == [hi |-> 65535 - c.hi, lo |-> 65535 - c.lo]

\* The Castagnoli polynomial 0x82F63B78 in reflected form.
kCrc32cPoly == FromHalves(33526, 15224)

\* One shift of the reflected CRC register: shift right by one bit and
\* XOR the polynomial in when the bit shifted out was set.
ShiftOnce(c) ==
    LET shifted == [hi |-> c.hi \div 2,
                    lo |-> (c.lo \div 2) + (c.hi % 2) * 32768]
    IN  IF c.lo % 2 = 1 THEN Xor32(shifted, kCrc32cPoly) ELSE shifted

RECURSIVE ShiftTimes(_, _)
ShiftTimes(c, n) == IF n = 0 THEN c ELSE ShiftTimes(ShiftOnce(c), n - 1)

\* The byte table: the register after eight shifts of each byte value.
kCrc32cTable == [i \in 0..255 |-> ShiftTimes(FromHalves(0, i), 8)]

\* Feed one byte into the raw register, table-driven: shift the register
\* right by eight bits and XOR in the table entry of its low byte XOR the
\* input byte.  (A function, so that TLC evaluates its arguments once.)
AddByte == [c \in Crc32cValue, byte \in 0..255 |->
              LET t == kCrc32cTable[(c.lo % 256) ^^ byte]
              IN  Xor32([hi |-> c.hi \div 256,
                         lo |-> (c.lo \div 256) + (c.hi % 256) * 256], t)]

\* ExtendCrc32c(initial_crc, bytes): the checksum of bytes, continuing from
\* initial_crc.
ExtendCrc32c(crc, bytes) ==
    LET n == Len(bytes)
        raw[k \in 0..n] == IF k = 0 THEN InvertBits(crc)
                                    ELSE AddByte[raw[k - 1], bytes[k]]
    IN  InvertBits(raw[n])

=============================================================================
