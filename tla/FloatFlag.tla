------------------------------- MODULE FloatFlag -------------------------------
(***************************************************************************)
(* flags/marshalling.cc: the float and double overloads of TurboParseFlag *)
(* (SimpleAtof / SimpleAtod) and of Unparse (UnparseFloatingPointVal).    *)
(* The state is one floating-point flag, the text Unparse last produced   *)
(* for it, and the text it was last parsed from.                          *)
(*                                                                         *)
(* A binary float of precision Digits bits is m * 2^e, with an integer  *)
(* significand m below 2^Digits, normal (m >= 2^(Digits-1)) or, at the *)
(* least exponent, subnormal; plus "inf" and "nan".  IEEE float and double *)
(* are the instances 24 and 53 of this format; TLC checks a small one.    *)
(* Negative values are the mirror image (sign is printed and parsed      *)
(* separately) and are left out.  A text is abstracted to the number it   *)
(* denotes, q * 10^k with the trailing zeros of q stripped, as %g strips  *)
(* them; its layout (fixed or exponent form) is left out.                 *)
(* StrFormat and SimpleAtof are not in this repository and are modelled   *)
(* from their contract: %.*g rounds the exact binary value to the given   *)
(* number of significant digits, ties to even; SimpleAtof rounds the      *)
(* exact decimal value to the nearest float, ties to an even significand, *)
(* and to inf past the largest finite value.                              *)
(***************************************************************************)
EXTENDS Integers

CONSTANTS
    Digits,     \* numeric_limits<T>::digits, the significand's bits
    kMinExp,     \* the exponent of the least normal and of the subnormals
    kMaxExp,     \* the exponent of the largest finite value
    InputTexts   \* flag texts a command line may give

ASSUME Digits >= 2 /\ kMinExp <= 0 /\ kMaxExp >= kMinExp

\* Values and texts are records of one shape, so that TLC can compare them.
Fin(m, e) == [c |-> "finite", m |-> m, e |-> e]
kInf == [c |-> "inf", m |-> 0, e |-> 0]
kNaN == [c |-> "nan", m |-> 0, e |-> 0]
NoValue == [c |-> "none", m |-> 0, e |-> 0]

Finite == {Fin(m, kMinExp) : m \in 0..(2^(Digits - 1) - 1)} \cup
          {Fin(m, e) : m \in (2^(Digits - 1))..(2^Digits - 1), e \in kMinExp..kMaxExp}
Floats == Finite \cup {kInf, kNaN}

\* The text of a number q * 10^k, "inf", "nan", and a text that is no number.
Dec(q, k) == [c |-> "num", q |-> q, k |-> k]
kInfText == [c |-> "inf", q |-> 0, k |-> 0]
kNaNText == [c |-> "nan", q |-> 0, k |-> 0]
kJunkText == [c |-> "junk", q |-> 0, k |-> 0]
NoText == [c |-> "none", q |-> 0, k |-> 0]
Special == [inf |-> kInfText, nan |-> kNaNText]

\* A finite float as an integer multiple of 2^kMinExp.
Scaled(f) == f.m * 2^(f.e - kMinExp)

\* numeric_limits<T>::digits10 = floor((digits - 1) * log10 2) and
\* max_digits10 = ceil(1 + digits * log10 2).
Digits10 == CHOOSE d \in 0..Digits : 10^d <= 2^(Digits - 1) /\ 2^(Digits - 1) < 10^(d + 1)
MaxDigits10 == 1 + (CHOOSE d \in 1..Digits : 10^(d - 1) < 2^Digits /\ 2^Digits <= 10^d)

\* A decimal text q * 10^k as the fraction num / den.
Num(t) == IF t.k >= 0 THEN t.q * 10^t.k ELSE t.q
Den(t) == IF t.k >= 0 THEN 1 ELSE 10^(-t.k)

\* num / den rounded to an integer, ties to even.
RoundHalfEven(num, den) ==
    LET fl == num \div den
        r  == num % den
    IN  IF 2 * r > den \/ (2 * r = den /\ fl % 2 = 1) THEN fl + 1 ELSE fl

RECURSIVE Normalize(_)
Normalize(t) ==
    IF t.q # 0 /\ t.q % 10 = 0 THEN Normalize(Dec(t.q \div 10, t.k + 1)) ELSE t

\* The decimal exponent of a positive scaled value n, walking from x:
\* 10^x <= n * 2^kMinExp < 10^(x+1).
Lower(n, x) == IF x >= 0 THEN 10^x * 2^(-kMinExp) <= n ELSE 2^(-kMinExp) <= n * 10^(-x)
RECURSIVE Log10From(_, _)
Log10From(n, x) ==
    IF ~Lower(n, x) THEN Log10From(n, x - 1)
    ELSE IF Lower(n, x + 1) THEN Log10From(n, x + 1) ELSE x
Log10Floor(n) == Log10From(n, 0)

\* StrFormat("%.*g", p, v): p significant digits (0 counts as 1).
Format(v, p) ==
    IF v \in {kInf, kNaN} THEN Special[v.c]
    ELSE LET n  == Scaled(v)
             d  == IF p = 0 THEN 1 ELSE p
             k  == Log10Floor(n) - (d - 1)
             q  == IF k >= 0 THEN RoundHalfEven(n, 2^(-kMinExp) * 10^k)
                   ELSE RoundHalfEven(n * 10^(-k), 2^(-kMinExp))
         IN  IF n = 0 THEN Dec(0, 0) ELSE Normalize(Dec(q, k))

\* The largest finite float plus half its ulp, scaled: the overflow threshold.
kOverflow == (2^Digits - 1) * 2^(kMaxExp - kMinExp) + 2^(kMaxExp - kMinExp) \div 2

\* The binade of the scaled fraction n / d: the exponent whose significands
\* m * 2^(e - kMinExp) bracket it (the least exponent for a subnormal).
Binade(n, d) ==
    CHOOSE e \in kMinExp..kMaxExp :
        /\ e = kMinExp \/ n >= 2^(Digits - 1) * 2^(e - kMinExp) * d
        /\ e = kMaxExp \/ n < 2^Digits * 2^(e - kMinExp) * d

\* The float nearest to n / d (scaled), ties to an even significand; a
\* significand that rounds up to 2^Digits moves to the next binade.
RoundToFloat(n, d) ==
    LET e == Binade(n, d)
        m == RoundHalfEven(n, 2^(e - kMinExp) * d)
    IN  IF m = 2^Digits THEN Fin(2^(Digits - 1), e + 1) ELSE Fin(m, e)

\* SimpleAtof(text, dst): ok is FALSE for a text that is not a number.
SimpleAtof(t) ==
    IF t = kInfText THEN [ok |-> TRUE, val |-> kInf]
    ELSE IF t = kNaNText THEN [ok |-> TRUE, val |-> kNaN]
    ELSE IF t.c # "num" THEN [ok |-> FALSE, val |-> kNaN]
    ELSE IF Num(t) * 2^(-kMinExp) >= kOverflow * Den(t) THEN [ok |-> TRUE, val |-> kInf]
    ELSE [ok |-> TRUE, val |-> RoundToFloat(Num(t) * 2^(-kMinExp), Den(t))]

\* operator== on T: a NaN equals nothing.
FloatEq(a, b) == a = b /\ a # kNaN

UnparseFloatingPointVal(v) ==
    LET s10 == Format(v, Digits10)
        rt  == SimpleAtof(s10)
    IN  IF v \in {kInf, kNaN} \/ (rt.ok /\ FloatEq(rt.val, v)) THEN s10
        ELSE Format(v, MaxDigits10)

\* What Unparse makes of every value, and SimpleAtof of every text, computed once.
kUnparsed == [f \in Floats |-> UnparseFloatingPointVal(f)]
Texts == InputTexts \cup {kUnparsed[f] : f \in Floats}
kParsed == [t \in Texts |-> SimpleAtof(t)]

VARIABLES
    flag,    \* the flag's value
    src,     \* the text the value was parsed from, or NoText after SetFlag
    out,     \* the text Unparse last produced, or NoText
    saved    \* the value out was produced from

floatVars == <<flag, src, out, saved>>

FloatInit ==
    /\ flag \in Floats
    /\ src = NoText
    /\ out = NoText
    /\ saved = NoValue

\* SetFlag / a default: the program stores any value.
SetFlag(v) ==
    /\ flag' = v
    /\ src' = NoText
    /\ UNCHANGED <<out, saved>>

\* TurboParseFlag(text, float*): SimpleAtof writes *dst on success; a text
\* that is not a number is rejected and leaves the flag alone.
ParseFlag(t) ==
    /\ kParsed[t].ok
    /\ flag' = kParsed[t].val
    /\ src' = t
    /\ UNCHANGED <<out, saved>>

\* Unparse(float) / Unparse(double): the flag's value as text.
UnparseFlag ==
    /\ out' = kUnparsed[flag]
    /\ saved' = flag
    /\ UNCHANGED <<flag, src>>

\* The unparsed text is given back as a flag value (a saved flagfile).
ReparseOut ==
    /\ out # NoText
    /\ ParseFlag(out)

FloatNext ==
    \/ \E v \in Floats : SetFlag(v)
    \/ \E t \in InputTexts : ParseFlag(t)
    \/ UnparseFlag
    \/ ReparseOut

FloatSpec == FloatInit /\ [][FloatNext]_floatVars

-----------------------------------------------------------------------------
FloatTypeOK ==
    /\ flag \in Floats
    /\ src \in Texts \cup {NoText}
    /\ out \in Texts \cup {NoText}
    /\ saved \in Floats \cup {NoValue}

ShortText(t) ==
    /\ t.c = "num" /\ t.q < 10^Digits10
    /\ Num(t) * 2^(-kMinExp) >= 2^(Digits - 1) * Den(t)
    /\ Num(t) * 2^(-kMinExp) <= (2^Digits - 1) * 2^(kMaxExp - kMinExp) * Den(t)
=============================================================================
