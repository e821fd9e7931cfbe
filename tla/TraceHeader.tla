------------------------------ MODULE TraceHeader ------------------------------
(***************************************************************************)
(* A span context as the text of a traceparent header, and back            *)
(* (internal/include/span_context.h, utils.h).  Characters are their ASCII *)
(* codes; the text is indexed from 0, as in the code.                      *)
(***************************************************************************)
EXTENDS Integers

Byte == 0..255
TraceIdSize == 16
SpanIdSize == 8
SpanContext == [TraceID : [0..TraceIdSize - 1 -> Byte], SpanID : [0..SpanIdSize - 1 -> Byte]]

Dash == 45
Digit == [n \in 0..15 |-> IF n < 10 THEN 48 + n ELSE 87 + n]   \* hex

\* bytes_to_hex_string: character j of the text of the bytes.
HexChar(bytes, j) ==
    IF j % 2 = 0 THEN Digit[bytes[j \div 2] \div 16] ELSE Digit[bytes[j \div 2] % 16]

\* span_context_to_w3c_string
ToW3C(c) ==
    [i \in 0..54 |->
        IF i \in {0, 1, 53} THEN Digit[0]
        ELSE IF i = 54 THEN Digit[1]
        ELSE IF i \in {2, 35, 52} THEN Dash
        ELSE IF i < 35 THEN HexChar(c.TraceID, i - 3)
        ELSE HexChar(c.SpanID, i - 36)]

-------------------------------------------------------------------------------
(* Bits of integers of any sign.                                           *)
Bit(x, unit) == (x \div unit) % 2
OrBits(x, y, unit) == IF Bit(x, unit) = 1 \/ Bit(y, unit) = 1 THEN unit ELSE 0
OrNibbles(x, y) == OrBits(x, y, 1) + OrBits(x, y, 2) + OrBits(x, y, 4) + OrBits(x, y, 8)
Or8(x) == IF Bit(x, 8) = 1 THEN x ELSE x + 8

\* The value of a hex digit; of another character whatever comes out.  A char has
\* a sign; the sum comes before the disjunction.
Nibble(ch) ==
    LET s == IF ch < 128 THEN ch ELSE ch - 256
        sum == (s % 16) + (s \div 64)
    IN  (IF Bit(s, 64) = 1 THEN Or8(sum) ELSE sum) % 256

\* hex_string_to_bytes, of the text from a position on.
BytesAt(text, start, size) ==
    [i \in 0..size - 1 |->
        LET hi == Nibble(text[start + 2 * i])
            lo == Nibble(text[start + 2 * i + 1])
        IN  16 * OrNibbles(hi, lo \div 16) + (lo % 16)]

\* w3c_string_to_span_context
SpanIdStartLate == 37
SpanIdStart == 36
FromW3C(text) ==
    [TraceID |-> BytesAt(text, 3, TraceIdSize), SpanID |-> BytesAt(text, SpanIdStart, SpanIdSize)]
===============================================================================
