--------------------------- MODULE CrcMemcpyFallback ---------------------------
(***************************************************************************)
(* FallbackCrcMemcpyEngine::Compute (crc/internal/crc_memcpy_fallback.cc): *)
(* the portable engine.  It walks the source in kBlockSize chunks while a  *)
(* full chunk remains strictly beyond the current offset, extending the    *)
(* CRC over the chunk and then copying it; a final partial (or exactly     *)
(* full) chunk is handled after the loop, skipped only when length is 0.   *)
(*                                                                         *)
(* Each loop iteration is one step, so the loop invariant is checked at    *)
(* every iteration.  The harness (Call) is the one of CrcMemcpy; the       *)
(* engine is shown to implement the contract CrcMemcpy!ContractSpec.       *)
(***************************************************************************)
EXTENDS Integers, Sequences, Crc32c

CONSTANTS MaxCopySize, Alignments, TestSizes, Bytes, InitialCrcs

CONSTANT BlockSize  \* kBlockSize (8192 in the code)

CONSTANT TestParams \* the x86ParamTest parameters: [selector, vector, integer]

ASSUME BlockSize \in Nat \ {0}

\* The variables of the harness and of the contract (see CrcMemcpy).
VARIABLES srcBuf, dstBuf, srcAlign, dstAlign, length, initialCrc,
          dstBefore, result, pc

VARIABLES
    offset,  \* std::size_t offset
    crc,     \* turbo::crc32c_t crc
    engine   \* the kind of the CrcMemcpyEngine whose Compute is called

\* The test harness and the buffer operations, on this module's variables.
Harness == INSTANCE CrcMemcpy

BufIndex == Harness!BufIndex
SrcBytes(from, n) == Harness!SrcBytes(from, n)
Memcpy(buf, dOff, src, sOff, n) == Harness!Memcpy(buf, dOff, src, sOff, n)

vars == <<Harness!contractVars, offset, crc, engine>>

kFallback == "FallbackCrcMemcpyEngine"

\* Without the x86-64 accelerated engine, CrcMemcpy::GetArchSpecificEngines
\* makes both engines of the pair fallback engines, and GetTestEngine
\* returns a fallback engine whatever lane counts it is asked for.
GetArchSpecificEngines == [temporal |-> kFallback, non_temporal |-> kFallback]

GetTestEngine(vector, integer) == kFallback

\* x86ParamTestTemplate's constructor: FALLBACK makes a fallback engine,
\* any other selector asks GetTestEngine for the parameter's lane counts.
FixtureEngine(p) ==
    IF p.selector = "FALLBACK" THEN kFallback ELSE GetTestEngine(p.vector, p.integer)

\* The engine a caller holds: the test fixture's for one parameter, or one
\* of the pair the facade selects from.
Engines ==
    {FixtureEngine(p) : p \in TestParams} \cup
    {GetArchSpecificEngines.temporal, GetArchSpecificEngines.non_temporal}

TypeOK ==
    /\ srcBuf \in [BufIndex -> Bytes \cup {0}]
    /\ dstBuf \in [BufIndex -> Bytes \cup {0}]
    /\ dstBefore \in [BufIndex -> Bytes \cup {0}]
    /\ srcAlign \in Alignments /\ dstAlign \in Alignments
    /\ length \in TestSizes \cup {0}
    /\ offset \in 0..length
    /\ crc \in Crc32cValue /\ initialCrc \in Crc32cValue /\ result \in Crc32cValue
    /\ pc \in {"idle", "computing", "done"}
    /\ engine = kFallback

Init ==
    /\ engine \in Engines
    /\ Harness!ContractInit
    /\ offset = 0
    /\ crc = initialCrc

\* Entry of Compute: crc = initial_crc, offset = 0.
EnterCompute ==
    /\ engine = kFallback
    /\ Harness!Call
    /\ offset' = 0
    /\ crc' = initialCrc'

\* Mutant: the loop condition is offset < length, without kBlockSize.
CopyBlockWhileBytesLeft ==
    /\ pc = "computing"
    /\ offset < length
    /\ crc' = ExtendCrc32c(crc, SrcBytes(offset, BlockSize))
    /\ dstBuf' = Memcpy(dstBuf, dstAlign + offset, srcBuf, srcAlign + offset, BlockSize)
    /\ offset' = offset + BlockSize
    /\ UNCHANGED <<srcBuf, srcAlign, dstAlign, length, initialCrc, dstBefore,
                   result, pc>>

\* Mutant: the chunk's CRC is taken from the start of src, not at offset.
CopyBlockFromStart ==
    /\ pc = "computing"
    /\ offset + BlockSize < length
    /\ crc' = ExtendCrc32c(crc, SrcBytes(0, BlockSize))
    /\ dstBuf' = Memcpy(dstBuf, dstAlign + offset, srcBuf, srcAlign + offset, BlockSize)
    /\ offset' = offset + BlockSize
    /\ UNCHANGED <<srcBuf, srcAlign, dstAlign, length, initialCrc, dstBefore,
                   result, pc>>

\* One iteration of the block loop: CRC the chunk, then copy it.
CopyBlock ==
    /\ pc = "computing"
    /\ offset + BlockSize < length
    /\ crc' = ExtendCrc32c(crc, SrcBytes(offset, BlockSize))
    /\ dstBuf' = Memcpy(dstBuf, dstAlign + offset, srcBuf, srcAlign + offset, BlockSize)
    /\ offset' = offset + BlockSize
    /\ UNCHANGED <<srcBuf, srcAlign, dstAlign, length, initialCrc, dstBefore,
                   result, pc>>

\* Mutant: the final chunk is copied from the start of src, not at offset.
CopyTailFromStart ==
    /\ pc = "computing"
    /\ ~(offset + BlockSize < length)
    /\ offset < length
    /\ LET finalCopySize == length - offset
           newCrc == ExtendCrc32c(crc, SrcBytes(offset, finalCopySize))
       IN  /\ crc' = newCrc
           /\ dstBuf' = Memcpy(dstBuf, dstAlign + offset, srcBuf, srcAlign, finalCopySize)
           /\ result' = newCrc
    /\ offset' = length
    /\ pc' = "done"
    /\ UNCHANGED <<srcBuf, srcAlign, dstAlign, length, initialCrc, dstBefore>>

\* Mutant: the final chunk is taken only when two or more bytes are left.
CopyTailOffByOne ==
    /\ pc = "computing"
    /\ ~(offset + BlockSize < length)
    /\ offset + 1 < length
    /\ LET finalCopySize == length - offset
           newCrc == ExtendCrc32c(crc, SrcBytes(offset, finalCopySize))
       IN  /\ crc' = newCrc
           /\ dstBuf' = Memcpy(dstBuf, dstAlign + offset, srcBuf, srcAlign + offset, finalCopySize)
           /\ result' = newCrc
    /\ offset' = length
    /\ pc' = "done"
    /\ UNCHANGED <<srcBuf, srcAlign, dstAlign, length, initialCrc, dstBefore>>

\* The loop has exited with bytes left: CRC then copy the final chunk of
\* length - offset bytes and return crc.
CopyTail ==
    /\ pc = "computing"
    /\ ~(offset + BlockSize < length)
    /\ offset < length
    /\ LET finalCopySize == length - offset
           newCrc == ExtendCrc32c(crc, SrcBytes(offset, finalCopySize))
       IN  /\ crc' = newCrc
           /\ dstBuf' = Memcpy(dstBuf, dstAlign + offset, srcBuf, srcAlign + offset, finalCopySize)
           /\ result' = newCrc
    /\ offset' = length
    /\ pc' = "done"
    /\ UNCHANGED <<srcBuf, srcAlign, dstAlign, length, initialCrc, dstBefore>>

\* "Save some work if length is 0": nothing left, return crc unchanged.
ReturnCrc ==
    /\ pc = "computing"
    /\ ~(offset + BlockSize < length)
    /\ ~(offset < length)
    /\ result' = crc
    /\ pc' = "done"
    /\ UNCHANGED <<srcBuf, dstBuf, srcAlign, dstAlign, length, initialCrc,
                   dstBefore, offset, crc>>

\* The engine is made once and kept for the whole test (or process).
Next == (EnterCompute \/ CopyBlock \/ CopyTail \/ ReturnCrc) /\ UNCHANGED engine

\* The steps of Compute are taken by the calling thread, which never blocks.
Spec == Init /\ [][Next]_vars /\ WF_vars((CopyBlock \/ CopyTail \/ ReturnCrc) /\ UNCHANGED engine)

-----------------------------------------------------------------------------
(***************************************************************************)
(* Loop invariant of the block loop: while Compute runs, the running crc   *)
(* is ExtendCrc32c of initial_crc over exactly the bytes before offset,    *)
(* and the destination differs from its pre-call contents in exactly the   *)
(* copied prefix.  It ties the CRC chain to the copy at every chunk        *)
(* boundary, which the tests only observe at the end of a call.            *)
(***************************************************************************)
ChecksumTracksCopiedPrefix ==
    pc = "computing" =>
        /\ offset % BlockSize = 0
        /\ crc = ExtendCrc32c(initialCrc, SrcBytes(0, offset))
        /\ dstBuf = Memcpy(dstBefore, dstAlign, srcBuf, srcAlign, offset)

(***************************************************************************)
(* FallbackCrcMemcpyEngine::Compute implements the engine contract: every  *)
(* call returns, leaves destination_[dst, dst + length) equal to the       *)
(* source range and every other byte untouched, and returns                *)
(* ExtendCrc32c(initial_crc, src[0, length)), for every size around the    *)
(* chunk boundary (0, below, at, above and multiples of kBlockSize).       *)
(***************************************************************************)
Contract == INSTANCE CrcMemcpy WITH
    dstBuf <- IF pc = "computing" THEN dstBefore ELSE dstBuf

ComputeMeetsContract == Contract!ContractSafety

(***************************************************************************)
(* Every call of Compute returns: the block loop advances offset by a full *)
(* chunk while a chunk remains, so it exits and the tail or the empty case *)
(* returns.  (The liveness half of the contract, stated on the unmapped    *)
(* pc, which the mapping leaves as it is.)                                 *)
(***************************************************************************)
ComputeReturns == Contract!ContractReturns

=============================================================================
