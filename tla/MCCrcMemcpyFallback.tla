------------------------- MODULE MCCrcMemcpyFallback -------------------------
(***************************************************************************)
(* Model-checking instance of CrcMemcpyFallback.  kBlockSize is scaled     *)
(* from 8192 to 2 and the sizes 0..5 cover the same cases as kTestSizes    *)
(* around the chunk boundary: empty, shorter than a chunk, exactly one     *)
(* chunk, one chunk plus a byte, two chunks, two chunks plus a byte.       *)
(***************************************************************************)
EXTENDS CrcMemcpyFallback

\* The x86ParamTest instantiations a build without the accelerated engine
\* can run: {X86, 3, 0}, {X86, 1, 2} and {FALLBACK, 0, 0}.  (NONTEMPORAL
\* needs CrcNonTemporalMemcpyEngine, which is not part of this build.)
MCTestParams ==
    {[selector |-> "X86", vector |-> 3, integer |-> 0],
     [selector |-> "X86", vector |-> 1, integer |-> 2],
     [selector |-> "FALLBACK", vector |-> 0, integer |-> 0]}

\* Initial CRCs: 0 and 0xFFFFFFFF.
MCInitialCrcs == {FromHalves(0, 0), FromHalves(65535, 65535)}

\* The model of ExtendCrc32c reproduces the golden vector of the
\* specification: CRC32C("hello world") from 0 is 0xC99465AA.
ASSUME ExtendCrc32c(FromHalves(0, 0),
                    <<104, 101, 108, 108, 111, 32, 119, 111, 114, 108, 100>>)
       = FromHalves(51604, 26026)

\* Extending in two pieces equals extending once, which is what chunking
\* relies on.
ASSUME ExtendCrc32c(ExtendCrc32c(FromHalves(0, 0), <<104, 101, 108>>),
                    <<108, 111>>)
       = ExtendCrc32c(FromHalves(0, 0), <<104, 101, 108, 108, 111>>)

=============================================================================
