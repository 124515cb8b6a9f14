--------------------------- MODULE Utf8NaiveEncoder ---------------------------
(***************************************************************************)
(* strings/utf8/naive_encoder.cc: NaiveCountBytesSize, which callers use  *)
(* to size the output buffer, and NaiveEncoder, which fills it one code   *)
(* point per loop iteration.  NaiveUTF8EncodeOne is translated loop for   *)
(* loop; it is checked against a reference UTF-8 encoding written from    *)
(* the ranges of the encoding, and the byte count against what the        *)
(* encoder really writes.  Code points are uint32_t values; TLC's integers *)
(* stop at 2^31 - 1, so the largest input is UTF8_MAX = 0x7FFFFFFF.       *)
(***************************************************************************)
EXTENDS Integers, Sequences, SequencesExt, Bitwise

CONSTANTS
    CodePoints,  \* the uint32_t values an input may hold
    MaxLen       \* the longest input

UNICODE_MAX == 1114111                      \* 0x10FFFF
invalid_char == <<239, 191, 189>>           \* "�" as UTF-8 bytes
invalid_char_len == Len(invalid_char)

\* Mutant: the two-byte range ends one early (x < 0x7FF).
NaiveOneCharLenOffByOne(x) ==
    CASE x < 128 -> 1 [] x < 2047 -> 2 [] x <= 65535 -> 3
      [] x <= UNICODE_MAX -> 4 [] OTHER -> invalid_char_len

NaiveOneCharLen(x) ==
    CASE x < 128 -> 1 [] x <= 2047 -> 2 [] x <= 65535 -> 3
      [] x <= UNICODE_MAX -> 4 [] OTHER -> invalid_char_len

NaiveCountBytesSize(s) == FoldLeft(LAMBDA acc, x : acc + NaiveOneCharLen(x), 0, s)

\* (~mfb << 1) & 0xFF for the mask mfb < 0x40.
LeadPrefix(mfb) == ((255 - mfb) * 2) % 256

\* Mutant: the lead byte's prefix is built from ~mfb without the shift.
FirstByteNoShift(mfb, x) == ((255 - mfb) | x) % 256

\* buff[UTF8_BUF_SIZE - n] = ((~mfb << 1) | x) & 0xFF
FirstByte(mfb, x) == (LeadPrefix(mfb) | x) % 256

\* The do-while loop of NaiveUTF8EncodeOne: bytes is what has been put in
\* buff so far (written backwards, so new bytes go in front).
RECURSIVE ContinuationLoop(_, _, _)
ContinuationLoop(x, mfb, bytes) ==
    LET next == <<128 + (x % 64)>> \o bytes    \* 0x80 | (x & 0x3f)
        x2 == x \div 64                       \* x >>= 6
        mfb2 == mfb \div 2                    \* mfb >>= 1
    IN IF x2 > mfb2 THEN ContinuationLoop(x2, mfb2, next)
                    ELSE <<FirstByte(mfb2, x2)>> \o next

\* The bytes NaiveUTF8EncodeOne leaves in buff[UTF8_BUF_SIZE - n ..].
NaiveUTF8EncodeOne(x) ==
    IF x < 128 THEN <<x % 128>> ELSE ContinuationLoop(x, 63, <<>>)

-----------------------------------------------------------------------------
VARIABLES
    input,  \* the code points [s_ptr, s_ptr_end)
    pos,    \* how many of them the loop has consumed
    dst     \* the bytes written from dst_origin

vars == <<input, pos, dst>>

TypeOK ==
    /\ input \in Seq(CodePoints) /\ Len(input) <= MaxLen
    /\ pos \in 0..Len(input)
    /\ dst \in Seq(0..255)

Init ==
    /\ input \in BoundedSeq(CodePoints, MaxLen)
    /\ pos = 0
    /\ dst = <<>>

\* One iteration for a code point <= UNICODE_MAX: encode and append.
EncodeValid ==
    /\ pos < Len(input)
    /\ input[pos + 1] <= UNICODE_MAX
    /\ dst' = dst \o NaiveUTF8EncodeOne(input[pos + 1])
    /\ pos' = pos + 1
    /\ UNCHANGED input

\* Mutant: the invalid branch advances s_ptr a second time.
EncodeInvalidSkip ==
    /\ pos < Len(input)
    /\ input[pos + 1] > UNICODE_MAX
    /\ dst' = dst \o invalid_char
    /\ pos' = pos + 2
    /\ UNCHANGED input

\* One iteration for a larger value: append the replacement character.
EncodeInvalid ==
    /\ pos < Len(input)
    /\ input[pos + 1] > UNICODE_MAX
    /\ dst' = dst \o invalid_char
    /\ pos' = pos + 1
    /\ UNCHANGED input

Next == EncodeValid \/ EncodeInvalid

Spec == Init /\ [][Next]_vars

-----------------------------------------------------------------------------
\* Reference UTF-8 encoding of one value, from the code-point ranges.
RefEncode(x) ==
    CASE x < 128 -> <<x>>
      [] x < 2048 -> <<192 + (x \div 64), 128 + (x % 64)>>
      [] x < 65536 -> <<224 + (x \div 4096), 128 + ((x \div 64) % 64), 128 + (x % 64)>>
      [] x <= UNICODE_MAX ->
            <<240 + (x \div 262144), 128 + ((x \div 4096) % 64),
              128 + ((x \div 64) % 64), 128 + (x % 64)>>
      [] OTHER -> invalid_char

RefEncodeSeq(s) == FoldLeft(LAMBDA acc, x : acc \o RefEncode(x), <<>>, s)

(***************************************************************************)
(* NaiveEncoder's output so far is the standard UTF-8 encoding of the code *)
(* points consumed, with U+FFFD for every value above 0x10FFFF: the       *)
(* backwards do-while loop and its shrinking first-byte mask produce the  *)
(* right lead byte and continuation bytes at every range boundary.       *)
(***************************************************************************)
EncodedMatchesReference == dst = RefEncodeSeq(SubSeq(input, 1, pos))

(***************************************************************************)
(* A buffer sized by NaiveCountBytesSize is exactly what NaiveEncoder      *)
(* fills: at every iteration the bytes written plus the count for the      *)
(* code points left equal the count for the whole input, so the encoder   *)
(* never writes past the buffer and returns the predicted size.           *)
(***************************************************************************)
CountMatchesEncoding ==
    Len(dst) + NaiveCountBytesSize(SubSeq(input, pos + 1, Len(input)))
        = NaiveCountBytesSize(input)

=============================================================================
