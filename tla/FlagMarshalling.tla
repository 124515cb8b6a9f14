---------------------------- MODULE FlagMarshalling ----------------------------
(***************************************************************************)
(* flags/marshalling.cc: the TurboParseFlag / TurboUnparseFlag overloads  *)
(* for bool, short, unsigned short, int, std::vector<std::string> and      *)
(* turbo::LogSeverity.  Each overload is a pure function of a text; the    *)
(* state is the object each call writes through dst, one per type.         *)
(*                                                                         *)
(* Texts are TLA+ strings taken apart with SubSeq (TLC does not index     *)
(* strings).  The string utilities the overloads call (StripAsciiWhitespace,*)
(* EqualsIgnoreCase, safe_strtoi_base, StrSplit, StrJoin, StrCat) and      *)
(* NormalizeLogSeverity / LogSeverityName are not in this repository and   *)
(* are modelled from their contracts.                                      *)
(***************************************************************************)
EXTENDS Integers, Sequences

CONSTANTS
    BoolTexts, ShortTexts, UShortTexts, IntTexts, SeverityTexts, VectorTexts,
    VectorValues   \* vectors a program stores with SetFlag or as a default

VARIABLES
    boolFlag, shortFlag, ushortFlag, intFlag, severityFlag, vectorFlag

vars == <<boolFlag, shortFlag, ushortFlag, intFlag, severityFlag, vectorFlag>>

kIntMax == 2147483647
kIntMin == -kIntMax - 1
\* unsigned int is capped at INT_MAX: TLC's integers are 32-bit signed.  For
\* unsigned short every value above 65535 is rejected either way.
kUIntMaxModel == kIntMax

\* The character at i and the text after the first character.
Char(s, i) == SubSeq(s, i, i)
Rest(s) == SubSeq(s, 2, Len(s))

\* turbo::ascii_isspace and StripAsciiWhitespace.
IsAsciiSpace(c) == c \in {" ", "\t", "\n", "\r", "\f"}
RECURSIVE StripLeading(_), StripTrailing(_)
StripLeading(s) == IF s # "" /\ IsAsciiSpace(Char(s, 1)) THEN StripLeading(Rest(s)) ELSE s
StripTrailing(s) ==
    IF s # "" /\ IsAsciiSpace(Char(s, Len(s))) THEN StripTrailing(SubSeq(s, 1, Len(s) - 1)) ELSE s
StripAsciiWhitespace(s) == StripTrailing(StripLeading(s))

\* turbo::ascii_tolower and EqualsIgnoreCase.
kUpper == "ABCDEFGHIJKLMNOPQRSTUVWXYZ"
kLower == "abcdefghijklmnopqrstuvwxyz"
kLowerOf == [c \in {Char(kUpper, i) : i \in 1..26} |->
                Char(kLower, CHOOSE i \in 1..26 : Char(kUpper, i) = c)]
ToLowerChar(c) == IF c \in DOMAIN kLowerOf THEN kLowerOf[c] ELSE c
EqualsIgnoreCase(a, b) ==
    Len(a) = Len(b) /\ \A i \in 1..Len(a) : ToLowerChar(Char(a, i)) = ToLowerChar(Char(b, i))

\* kAsciiToInt: the digit value of a character, 36 for a non-digit.
kDigits == "0123456789abcdef"
kDigitOf == [c \in {Char(kDigits, i) : i \in 1..16} |->
                (CHOOSE i \in 1..16 : Char(kDigits, i) = c) - 1]
DigitValue(c) == IF ToLowerChar(c) \in DOMAIN kDigitOf THEN kDigitOf[ToLowerChar(c)] ELSE 36

HasHexPrefix(s) == Len(s) >= 2 /\ Char(s, 1) = "0" /\ Char(s, 2) \in {"x", "X"}

\* safe_parse_positive_int / safe_parse_negative_int: accumulate digits,
\* failing at a non-digit or before value * base +/- digit leaves [lo, hi].
\* C++ division truncates, so vmin / base is rounded toward zero.
RECURSIVE AccumPos(_, _, _, _), AccumNeg(_, _, _, _)
AccumPos(ds, base, value, hi) ==
    IF ds = "" THEN [ok |-> TRUE, val |-> value]
    ELSE LET d == DigitValue(Char(ds, 1)) IN
         IF d >= base THEN [ok |-> FALSE, val |-> value]
         ELSE IF value > hi \div base \/ value * base > hi - d
              THEN [ok |-> FALSE, val |-> hi]
              ELSE AccumPos(Rest(ds), base, value * base + d, hi)
AccumNeg(ds, base, value, lo) ==
    LET vminOverBase == IF lo % base = 0 THEN lo \div base ELSE lo \div base + 1 IN
    IF ds = "" THEN [ok |-> TRUE, val |-> value]
    ELSE LET d == DigitValue(Char(ds, 1)) IN
         IF d >= base THEN [ok |-> FALSE, val |-> value]
         ELSE IF value < vminOverBase \/ value * base < lo + d
              THEN [ok |-> FALSE, val |-> lo]
              ELSE AccumNeg(Rest(ds), base, value * base - d, lo)

\* safe_strtoi_base(text, &value, base) for a type with range [lo, hi]:
\* whitespace, one sign, a 0x prefix in base 16, then at least one digit;
\* a negative number for an unsigned type fails.
SafeStrtoiBase(text, base, lo, hi) ==
    LET t   == StripAsciiWhitespace(text)
        neg == t # "" /\ Char(t, 1) = "-"
        s1  == IF t # "" /\ Char(t, 1) \in {"-", "+"} THEN Rest(t) ELSE t
        s2  == IF base = 16 /\ HasHexPrefix(s1) THEN SubSeq(s1, 3, Len(s1)) ELSE s1
    IN  IF s2 = "" \/ (neg /\ lo = 0) THEN [ok |-> FALSE, val |-> 0]
        ELSE IF neg THEN AccumNeg(s2, base, 0, lo) ELSE AccumPos(s2, base, 0, hi)

\* NumericBase: a leading 0x selects base 16; a leading 0 is not octal.
NumericBase(text) == IF HasHexPrefix(text) THEN 16 ELSE 10

\* ParseFlagImpl: strip whitespace, then safe_strtoi_base in NumericBase.
ParseFlagImpl(text, lo, hi) ==
    LET t == StripAsciiWhitespace(text) IN SafeStrtoiBase(t, NumericBase(t), lo, hi)

\* static_cast<short> and static_cast<unsigned short> of an int: modulo 2^16.
ShortCast(v) == ((v + 32768) % 65536) - 32768
UShortCast(v) == v % 65536

\* What safe_strtoi_base makes of each input text, computed once.
kIntParsed == [t \in ShortTexts \cup IntTexts |-> ParseFlagImpl(t, kIntMin, kIntMax)]
kUIntParsed == [t \in UShortTexts |-> ParseFlagImpl(t, 0, kUIntMaxModel)]

\* TurboParseFlag(text, bool*): the kTrue / kFalse tables, case-insensitive.
kTrue == {"1", "t", "true", "y", "yes"}
kFalse == {"0", "f", "false", "n", "no"}
ParseBoolValue(text) ==
    LET t == StripAsciiWhitespace(text) IN
    [ok |-> \E w \in kTrue \cup kFalse : EqualsIgnoreCase(t, w),
     val |-> \E w \in kTrue : EqualsIgnoreCase(t, w)]
kBoolParsed == [t \in BoolTexts |-> ParseBoolValue(t)]
ParseBool(text) ==
    /\ kBoolParsed[text].ok
    /\ boolFlag' = kBoolParsed[text].val
    /\ UNCHANGED <<shortFlag, ushortFlag, intFlag, severityFlag, vectorFlag>>

\* Mutant: the parsed int is stored without the static_cast to short.
ParseShortNoCast(text) ==
    LET r == kIntParsed[text] IN
    /\ r.ok
    /\ shortFlag' = r.val
    /\ UNCHANGED <<boolFlag, ushortFlag, intFlag, severityFlag, vectorFlag>>

\* Mutant: the range check copied from the unsigned short overload.
ParseShortUnsignedCheck(text) ==
    LET r == kIntParsed[text] IN
    /\ r.ok /\ UShortCast(r.val) = r.val
    /\ shortFlag' = ShortCast(r.val)
    /\ UNCHANGED <<boolFlag, ushortFlag, intFlag, severityFlag, vectorFlag>>

\* TurboParseFlag(text, short*): parse an int, reject it when the cast to
\* short changes it, store it otherwise.  A failed parse leaves *dst alone.
ParseShort(text) ==
    LET r == kIntParsed[text] IN
    /\ r.ok /\ ShortCast(r.val) = r.val
    /\ shortFlag' = ShortCast(r.val)
    /\ UNCHANGED <<boolFlag, ushortFlag, intFlag, severityFlag, vectorFlag>>

\* TurboParseFlag(text, unsigned short*): the same through unsigned int.
ParseUShort(text) ==
    LET r == kUIntParsed[text] IN
    /\ r.ok /\ UShortCast(r.val) = r.val
    /\ ushortFlag' = UShortCast(r.val)
    /\ UNCHANGED <<boolFlag, shortFlag, intFlag, severityFlag, vectorFlag>>

\* TurboParseFlag(text, int*): parses straight into *dst, which
\* safe_strtoi_base leaves unspecified on failure (in practice 0, the
\* digits read so far, or the clamped bound).
ParseInt(text) ==
    LET r == kIntParsed[text] IN
    /\ intFlag' \in IF r.ok THEN {r.val} ELSE {intFlag, 0, r.val}
    /\ UNCHANGED <<boolFlag, shortFlag, ushortFlag, severityFlag, vectorFlag>>

\* The first comma of a text that has one.
FirstComma(s) == CHOOSE i \in 1..Len(s) : Char(s, i) = "," /\ \A j \in 1..(i - 1) : Char(s, j) # ","
HasComma(s) == \E i \in 1..Len(s) : Char(s, i) = ","

\* Mutant: StrSplit with SkipEmpty() instead of AllowEmpty().
RECURSIVE StrSplitSkipEmpty(_)
StrSplitSkipEmpty(s) ==
    IF ~HasComma(s) THEN (IF s = "" THEN <<>> ELSE <<s>>)
    ELSE LET piece == SubSeq(s, 1, FirstComma(s) - 1) IN
         (IF piece = "" THEN <<>> ELSE <<piece>>)
            \o StrSplitSkipEmpty(SubSeq(s, FirstComma(s) + 1, Len(s)))

\* StrSplit(text, ',', AllowEmpty()): every piece, empty ones included.
RECURSIVE StrSplit(_)
StrSplit(s) ==
    IF ~HasComma(s) THEN <<s>>
    ELSE <<SubSeq(s, 1, FirstComma(s) - 1)>> \o StrSplit(SubSeq(s, FirstComma(s) + 1, Len(s)))

\* TurboParseFlag(text, vector<string>*): "" is the empty vector.
ParseVectorValue(text) == IF text = "" THEN <<>> ELSE StrSplit(text)
kVectorParsed == [t \in VectorTexts |-> ParseVectorValue(t)]
ParseVector(text) ==
    /\ vectorFlag' = kVectorParsed[text]
    /\ UNCHANGED <<boolFlag, shortFlag, ushortFlag, intFlag, severityFlag>>

\* A program storing a vector value directly (SetFlag, a flag default).
SetVector(v) ==
    /\ vectorFlag' = v
    /\ UNCHANGED <<boolFlag, shortFlag, ushortFlag, intFlag, severityFlag>>

\* The LogSeverity enumerators kInfo..kFatal are 0..3.
kSeverityNames == <<"info", "warning", "error", "fatal">>

\* TurboParseFlag(text, LogSeverity*): strip, reject "", drop one leading
\* k/K, match a name case-insensitively, else parse an int.
ParseSeverityValue(text) ==
    LET t  == StripAsciiWhitespace(text)
        u  == IF t # "" /\ Char(t, 1) \in {"k", "K"} THEN Rest(t) ELSE t
        nm == {i \in 1..4 : EqualsIgnoreCase(u, kSeverityNames[i])}
        r  == ParseFlagImpl(u, kIntMin, kIntMax)
    IN  IF t = "" THEN [ok |-> FALSE, val |-> 0]
        ELSE IF nm # {} THEN [ok |-> TRUE, val |-> (CHOOSE i \in nm : TRUE) - 1]
        ELSE r
kSeverityParsed == [t \in SeverityTexts |-> ParseSeverityValue(t)]
ParseSeverity(text) ==
    /\ kSeverityParsed[text].ok
    /\ severityFlag' = kSeverityParsed[text].val
    /\ UNCHANGED <<boolFlag, shortFlag, ushortFlag, intFlag, vectorFlag>>

\* StrCat of an integer: its decimal digits, "-" first when negative.  The
\* digits are taken from the negative side so that INT_MIN needs no negation.
RECURSIVE NegDigits(_)
NegDigits(n) ==
    LET d == (10 - (n % 10)) % 10 IN
    IF n > -10 THEN Char(kDigits, d + 1)
    ELSE NegDigits((n + d) \div 10) \o Char(kDigits, d + 1)
StrCatInt(n) == IF n < 0 THEN "-" \o NegDigits(n) ELSE NegDigits(-n)

\* Unparse(bool), and Unparse(short / unsigned short / int) as StrCat(v).
UnparseBool(v) == IF v THEN "true" ELSE "false"
UnparseInt(v) == StrCatInt(v)

\* StrJoin(v, ","), and TurboUnparseFlag(const vector<string>&).
RECURSIVE StrJoin(_)
StrJoin(v) ==
    IF v = <<>> THEN "" ELSE IF Len(v) = 1 THEN Head(v) ELSE Head(v) \o "," \o StrJoin(Tail(v))
UnparseVector(v) == StrJoin(v)

\* NormalizeLogSeverity: below kInfo is kInfo, above kFatal is kError.
NormalizeLogSeverity(v) == IF v < 0 THEN 0 ELSE IF v > 3 THEN 2 ELSE v
\* LogSeverityName: the enumerator's name in upper case.
LogSeverityName(v) == <<"INFO", "WARNING", "ERROR", "FATAL">>[v + 1]

\* Mutant: the name is used for every value, normalised or not.
UnparseSeverityNoNormalize(v) == LogSeverityName(NormalizeLogSeverity(v))

\* TurboUnparseFlag(LogSeverity): the name of an enumerator, else the int.
UnparseSeverity(v) ==
    IF v = NormalizeLogSeverity(v) THEN LogSeverityName(v) ELSE UnparseInt(v)

\* The flags' default values.
Init ==
    /\ boolFlag = FALSE /\ shortFlag = 0 /\ ushortFlag = 0 /\ intFlag = 0
    /\ severityFlag = 0 /\ vectorFlag = <<>>

Next ==
    \/ \E t \in BoolTexts : ParseBool(t)
    \/ \E t \in ShortTexts : ParseShort(t)
    \/ \E t \in UShortTexts : ParseUShort(t)
    \/ \E t \in IntTexts : ParseInt(t)
    \/ \E t \in SeverityTexts : ParseSeverity(t)
    \/ \E t \in VectorTexts : ParseVector(t)
    \/ \E v \in VectorValues : SetVector(v)

Spec == Init /\ [][Next]_vars

-----------------------------------------------------------------------------
TypeOK ==
    /\ boolFlag \in BOOLEAN
    /\ shortFlag \in -32768..32767
    /\ ushortFlag \in 0..65535
    /\ intFlag \in kIntMin..kIntMax
    /\ severityFlag \in kIntMin..kIntMax
    /\ vectorFlag \in Seq(STRING)

\* The number a text denotes, written from the grammar alone (no overflow
\* checks): optional sign, 0x selects hex, every other character a digit.
RECURSIVE RefMagnitude(_, _)
RefMagnitude(ds, base) ==
    IF ds = "" THEN 0
    ELSE RefMagnitude(SubSeq(ds, 1, Len(ds) - 1), base) * base + DigitValue(Char(ds, Len(ds)))
RefNumber(text) ==
    LET t    == StripAsciiWhitespace(text)
        sign == IF t # "" /\ Char(t, 1) = "-" THEN -1 ELSE 1
        body == IF t # "" /\ Char(t, 1) \in {"-", "+"} THEN Rest(t) ELSE t
        hex  == HasHexPrefix(t)
        ds   == IF hex THEN SubSeq(t, 3, Len(t)) ELSE body
        base == IF hex THEN 16 ELSE 10
    IN  IF ds # "" /\ \A i \in 1..Len(ds) : DigitValue(Char(ds, i)) < base
        THEN {sign * RefMagnitude(ds, base)} ELSE {}
kShortRef == [t \in ShortTexts |-> RefNumber(t)]

(***************************************************************************)
(* TurboParseFlag for short accepts a text exactly when the number it      *)
(* denotes lies in [-32768, 32767], and then stores that number: -32768,   *)
(* 32767 and 0x7FFF must pass, while the static_cast<short> check rejects  *)
(* 32768, -32769 and 0x8000 rather than storing them wrapped.              *)
(***************************************************************************)
ShortParseMatchesReference ==
    \A t \in ShortTexts :
        (ENABLED ParseShort(t)) <=>
            \E n \in kShortRef[t] :
                n \in -32768..32767 /\ ENABLED (ParseShort(t) /\ shortFlag' = n)

(***************************************************************************)
(* Every value a bool, short, unsigned short, int or LogSeverity flag can *)
(* come to hold is unparsed to a text that parses back to the same value: *)
(* the boundaries INT_MIN and 0xFFFF and LogSeverity values outside the   *)
(* enumerators included.                                                   *)
(***************************************************************************)
ScalarRoundTrip ==
    /\ \E w \in kTrue \cup kFalse :
          EqualsIgnoreCase(UnparseBool(boolFlag), w) /\ (w \in kTrue) = boolFlag
    /\ ParseFlagImpl(UnparseInt(shortFlag), kIntMin, kIntMax) = [ok |-> TRUE, val |-> shortFlag]
    /\ ParseFlagImpl(UnparseInt(ushortFlag), 0, kUIntMaxModel) = [ok |-> TRUE, val |-> ushortFlag]
    /\ ParseFlagImpl(UnparseInt(intFlag), kIntMin, kIntMax) = [ok |-> TRUE, val |-> intFlag]
    /\ ParseSeverityValue(UnparseSeverity(severityFlag)) = [ok |-> TRUE, val |-> severityFlag]

(***************************************************************************)
(* Whenever a vector<string> flag holds the vector a command-line text    *)
(* parses to, unparsing it gives that text back: no two texts parse to    *)
(* the same vector, because StrSplit with AllowEmpty keeps the empty      *)
(* pieces of ",", "a," and "a,,b".                                        *)
(***************************************************************************)
VectorTextRoundTrip ==
    \A t \in VectorTexts : vectorFlag = kVectorParsed[t] => UnparseVector(vectorFlag) = t

(***************************************************************************)
(* Every value a vector<string> flag can hold, whether parsed or stored   *)
(* by the program, survives unparsing and parsing again.                  *)
(***************************************************************************)
VectorValueRoundTrip ==
    ParseVectorValue(UnparseVector(vectorFlag)) = vectorFlag

=============================================================================
