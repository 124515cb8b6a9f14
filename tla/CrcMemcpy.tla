------------------------------ MODULE CrcMemcpy ------------------------------
(***************************************************************************)
(* The contract of CrcMemcpyEngine::Compute(dst, src, length, initial_crc) *)
(* (specification section 4.1), driven the way crypto/internal/           *)
(* crc_memcpy_test.cc drives an engine: the test fills length source bytes *)
(* at some source alignment, picks an initial CRC, calls Compute on a      *)
(* destination at some alignment, and then compares memory and checksum.  *)
(*                                                                         *)
(* In the contract one call is a single atomic step: the destination range *)
(* becomes a copy of the source range and the result is ExtendCrc32c of    *)
(* the initial CRC over the source range.  CrcMemcpyFallback refines it.   *)
(***************************************************************************)
EXTENDS Integers, Sequences, FiniteSets, Crc32c

CONSTANTS
    MaxCopySize,   \* kMaxCopySize of the test fixture
    Alignments,    \* the source/destination alignments the test loops over
    TestSizes,     \* kTestSizes: the copy sizes the test loops over
    Bytes,         \* byte values turbo::Uniform<unsigned char> may produce
    InitialCrcs    \* values turbo::Uniform<uint32_t> may produce

ASSUME /\ MaxCopySize \in Nat
       /\ Alignments \subseteq Nat /\ 0 \in Alignments
       /\ TestSizes \subseteq 0..MaxCopySize
       /\ Bytes \subseteq 1..255
       /\ InitialCrcs \subseteq Crc32cValue

\* kSize = kAlignment + kMaxCopySize: both buffers of the fixture.
kAlignment == Cardinality(Alignments)
BufIndex == 0..(kAlignment + MaxCopySize - 1)

VARIABLES
    srcBuf,      \* source_: the fixture's source buffer
    dstBuf,      \* destination_: the fixture's destination buffer
    srcAlign,    \* source offset of the current call
    dstAlign,    \* destination offset of the current call
    length,      \* size of the current call
    initialCrc,  \* initial_crc of the current call
    dstBefore,   \* history: destination_ as it was when the call started
    result,      \* experiment_crc: what Compute returned
    pc           \* "idle" | "computing" | "done"

contractVars == <<srcBuf, dstBuf, srcAlign, dstAlign, length, initialCrc,
                  dstBefore, result, pc>>

\* src[from .. from + n) of the current call, as a byte sequence.
SrcBytes(from, n) == [k \in 1..n |-> srcBuf[srcAlign + from + k - 1]]

\* memcpy(dst + dOff, src + sOff, n) applied to the buffer buf.
Memcpy(buf, dOff, src, sOff, n) ==
    [i \in BufIndex |-> IF dOff <= i /\ i < dOff + n
                          THEN src[sOff + i - dOff] ELSE buf[i]]

\* std::make_unique<char[]>(kSize) value-initialises both buffers.
ContractInit ==
    /\ srcBuf = [i \in BufIndex |-> 0]
    /\ dstBuf = [i \in BufIndex |-> 0]
    /\ srcAlign = 0
    /\ dstAlign = 0
    /\ length = 0
    /\ initialCrc \in InitialCrcs
    /\ dstBefore = dstBuf
    /\ result = initialCrc
    /\ pc = "idle"

(***************************************************************************)
(* One iteration of SmallCorrectnessCheckSourceAlignment (destination at   *)
(* offset 0) or SmallCorrectnessCheckDestAlignment (source at offset 0):   *)
(* write size random bytes at the source offset, draw an initial CRC and   *)
(* enter engine_->Compute.  A behaviour is one such call: the engines keep *)
(* no state between calls, so later iterations differ only in the buffer   *)
(* contents they start from, and the destination starts from the zeros of  *)
(* make_unique, which the random source bytes (Bytes excludes 0) are told  *)
(* apart from.                                                             *)
(***************************************************************************)
StartCall(sa, da, n, c0, data) ==
    /\ pc = "idle"
    /\ srcBuf' = [i \in BufIndex |-> IF sa <= i /\ i < sa + n
                                       THEN data[i - sa] ELSE srcBuf[i]]
    /\ srcAlign' = sa
    /\ dstAlign' = da
    /\ length' = n
    /\ initialCrc' = c0
    /\ dstBefore' = dstBuf
    /\ pc' = "computing"
    /\ UNCHANGED <<dstBuf, result>>

Call ==
    \E sa, da \in Alignments, n \in TestSizes, c0 \in InitialCrcs :
        /\ sa = 0 \/ da = 0
        /\ \E data \in [0..(n - 1) -> Bytes] : StartCall(sa, da, n, c0, data)

\* The whole call as one step: copy the range and return the extended CRC.
Compute ==
    /\ pc = "computing"
    /\ pc' = "done"
    /\ UNCHANGED <<srcBuf, srcAlign, dstAlign, length, initialCrc, dstBefore>>
    /\ dstBuf' = Memcpy(dstBuf, dstAlign, srcBuf, srcAlign, length)
    /\ result' = ExtendCrc32c(initialCrc, SrcBytes(0, length))

ContractNext == Call \/ Compute

\* The safety part of the contract: every step is a Call or a whole Compute.
ContractSafety == ContractInit /\ [][ContractNext]_contractVars

\* The liveness part of the contract: a call that has started returns.
ContractReturns == pc = "computing" ~> pc = "done"

\* Compute runs to completion on the calling thread: it is weakly fair.
\* The test driver is not: it may stop calling at any point.
ContractSpec == ContractInit /\ [][ContractNext]_contractVars
                /\ WF_contractVars(Compute)

=============================================================================
