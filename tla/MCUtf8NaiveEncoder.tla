-------------------------- MODULE MCUtf8NaiveEncoder --------------------------
(* The values at every boundary of the encoding: each end of the one-,   *)
(* two-, three- and four-byte ranges, a surrogate, the first value past  *)
(* UNICODE_MAX and UTF8_MAX.                                             *)
EXTENDS Utf8NaiveEncoder

MCCodePoints ==
    {0, 127, 128, 2047, 2048, 55296, 65535, 65536, 1114111, 1114112, 2147483647}

=============================================================================
