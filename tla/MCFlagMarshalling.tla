-------------------------- MODULE MCFlagMarshalling --------------------------
(***************************************************************************)
(* Inputs for FlagMarshalling: for each type, the texts that sit at its   *)
(* range boundaries or exercise whitespace, signs, the 0x prefix and      *)
(* malformed digits.                                                       *)
(***************************************************************************)
EXTENDS FlagMarshalling, FloatFlag

MCBoolTexts == {" Yes", "TRUE\t", "0", "N", "maybe", ""}
MCShortTexts == {"32767", "-32768", "32768", "-32769", "0x7FFF", "0x8000",
                 "-0x1", " 12 ", "1a", "0x", "+7", "-"}
MCUShortTexts == {"65535", "65536", "-1", "0xffff", "0x10000", "+0"}
MCIntTexts == {"2147483647", "2147483648", "-2147483648", "-2147483649",
               "0x7fffffff", "0x80000000", "12x"}
MCSeverityTexts == {"kWarning", " error", "FATAL", "Info", "k", "", "2", "-1",
                    "7", "K7", "verbose"}
MCVectorTexts == {"", "a", "a,b", ",", "a,", "a,,b"}
\* Values a program can store; <<"">> is a vector holding one empty string.
MCVectorValuesRoundTrip == {<<>>, <<"a">>, <<"a", "">>}
MCVectorValuesWithEmpty == MCVectorValuesRoundTrip \cup {<<"">>}

-----------------------------------------------------------------------------
(***************************************************************************)
(* The float and double overloads (FloatFlag) on a 5-bit binary format    *)
(* with exponents -6..2: 16 subnormals and 144 normals from 0.25 to 124,   *)
(* digits10 = 1 and max_digits10 = 3.  The float flag shares no state     *)
(* with the others, so a behaviour exercises either the flags above or the *)
(* float flag (flagKind), not their product.                              *)
(***************************************************************************)
VARIABLE flagKind

\* The least exponent (a .cfg file cannot write a negative number).
MCMinExp == -6

MCDec(q, k) == [c |-> "num", q |-> q, k |-> k]
MCWord(w) == [c |-> w, q |-> 0, k |-> 0]

\* Every one-digit number of the normal range, some longer ones, numbers
\* that round to a subnormal, to zero or to inf, numbers just below a power
\* of two (7.9, 0.99) that round up into the next binade, and a text that
\* is no number.
MCFloatTexts ==
    {MCDec(d, x) : d \in 1..9, x \in -1..2} \cup
    {MCDec(314, -2), MCDec(1, -3), MCDec(3, -2), MCDec(126, 0), MCDec(1234, -1),
     MCDec(0, 0), MCDec(79, -1), MCDec(99, -2),
     MCWord("inf"), MCWord("nan"), MCWord("junk")}

\* A scalar behaviour keeps the float flag at 0, its default.
MarshallingInit ==
    /\ Init /\ FloatInit
    /\ \/ flagKind = "float"
       \/ flagKind = "scalar" /\ flag = Fin(0, kMinExp)

MarshallingNext ==
    \/ flagKind = "scalar" /\ Next /\ UNCHANGED <<flagKind, floatVars>>
    \/ flagKind = "float" /\ FloatNext /\ UNCHANGED <<flagKind, vars>>

MarshallingSpec ==
    MarshallingInit /\ [][MarshallingNext]_<<flagKind, vars, floatVars>>

\* The type invariants of both modules.
MarshallingTypeOK == TypeOK /\ FloatTypeOK /\ flagKind \in {"scalar", "float"}


=============================================================================
