------------------------ MODULE HeaderInjection_proofs ------------------------
(***************************************************************************)
(* The headers, for any context, any names and sizes of maps, any number   *)
(* of headers set and deleted, of calls and of fields, and any limits.     *)
(*                                                                         *)
(* The map is followed by counting: at least as many slots as the count    *)
(* says, less one for each call, are taken, and, as long as no write has   *)
(* failed, not more.                                                       *)
(***************************************************************************)
EXTENDS HeaderInjection, FiniteSetTheorems, TLAPS

-------------------------------------------------------------------------------
(* The text of a context.                                                  *)

LEMMA NibbleOfDigit == \A n \in 0..15 : Nibble(Digit[n]) = n
<1>. SUFFICES ASSUME NEW n \in 0..15 PROVE Nibble(Digit[n]) = n
  OBVIOUS
<1>1. CASE n < 10
  <2>1. Digit[n] = 48 + n
    BY <1>1 DEF Digit
  <2>2. Bit(48 + n, 64) = 0 /\ (48 + n) % 16 = n /\ (48 + n) \div 64 = 0
    BY <1>1 DEF Bit
  <2>. QED
    BY <1>1, <2>1, <2>2 DEF Nibble
<1>2. CASE n >= 10
  <2>1. Digit[n] = 87 + n
    BY <1>2 DEF Digit
  <2>2. Bit(87 + n, 64) = 1 /\ (87 + n) % 16 = n - 9 /\ (87 + n) \div 64 = 1
    BY <1>2 DEF Bit
  <2>3. Or8(n - 8) = n
    BY <1>2 DEF Or8, Bit
  <2>. QED
    BY <1>2, <2>1, <2>2, <2>3 DEF Nibble
<1>. QED
  BY <1>1, <1>2

LEMMA Halves == \A b \in Byte : /\ b \div 16 \in 0..15 /\ b % 16 \in 0..15
                                /\ 16 * (b \div 16) + (b % 16) = b
BY DEF Byte

LEMMA OrWithNothing == \A n \in 0..15 : OrNibbles(n, 0) = n
BY DEF OrNibbles, OrBits, Bit

\* Where the two digits of every byte are, the bytes are read.
LEMMA BytesRead ==
    ASSUME NEW size \in Nat, NEW bytes \in [0..size - 1 -> Byte], NEW text, NEW start \in Nat,
           \A i \in 0..size - 1 : /\ text[start + 2 * i] = Digit[bytes[i] \div 16]
                                  /\ text[start + 2 * i + 1] = Digit[bytes[i] % 16]
    PROVE  BytesAt(text, start, size) = bytes
<1>1. ASSUME NEW i \in 0..size - 1 PROVE BytesAt(text, start, size)[i] = bytes[i]
  <2>1. bytes[i] \in Byte
    OBVIOUS
  <2>. DEFINE hi == bytes[i] \div 16
              lo == bytes[i] % 16
  <2>2. hi \in 0..15 /\ lo \in 0..15 /\ 16 * hi + lo = bytes[i]
    BY <2>1, Halves
  <2>. HIDE DEF hi, lo
  <2>3. text[start + 2 * i] = Digit[hi] /\ text[start + 2 * i + 1] = Digit[lo]
    BY DEF hi, lo
  <2>4. Nibble(text[start + 2 * i]) = hi /\ Nibble(text[start + 2 * i + 1]) = lo
    BY <2>2, <2>3, NibbleOfDigit
  <2>5. lo \div 16 = 0 /\ lo % 16 = lo
    BY <2>2
  <2>6. BytesAt(text, start, size)[i] = 16 * OrNibbles(hi, lo \div 16) + (lo % 16)
    BY <2>4 DEF BytesAt
  <2>. QED
    BY <2>2, <2>5, <2>6, OrWithNothing
<1>2. DOMAIN BytesAt(text, start, size) = 0..size - 1 /\ DOMAIN bytes = 0..size - 1
  BY DEF BytesAt
<1>3. BytesAt(text, start, size) = [i \in 0..size - 1 |-> BytesAt(text, start, size)[i]]
  BY DEF BytesAt
<1>. QED
  BY <1>1, <1>2, <1>3

LEMMA Digits ==
    ASSUME NEW bytes, NEW i \in Nat
    PROVE  /\ HexChar(bytes, 2 * i) = Digit[bytes[i] \div 16]
           /\ HexChar(bytes, 2 * i + 1) = Digit[bytes[i] % 16]
<1>1. (2 * i) % 2 = 0 /\ (2 * i) \div 2 = i /\ (2 * i + 1) % 2 = 1 /\ (2 * i + 1) \div 2 = i
  OBVIOUS
<1>. QED
  BY <1>1 DEF HexChar

\* w3c_string_to_span_context undoes span_context_to_w3c_string: a server that finds
\* the header reads the very trace id and span id that the client's program wrote.
THEOREM RoundTrip == \A c \in SpanContext : FromW3C(ToW3C(c)) = c
<1>. SUFFICES ASSUME NEW c \in SpanContext PROVE FromW3C(ToW3C(c)) = c
  OBVIOUS
<1>1. BytesAt(ToW3C(c), 3, TraceIdSize) = c.TraceID
  <2>1. c.TraceID \in [0..TraceIdSize - 1 -> Byte]
    BY DEF SpanContext
  <2>2. ASSUME NEW i \in 0..TraceIdSize - 1
        PROVE  /\ ToW3C(c)[3 + 2 * i] = Digit[c.TraceID[i] \div 16]
               /\ ToW3C(c)[3 + 2 * i + 1] = Digit[c.TraceID[i] % 16]
    <3>1. i \in 0..15
      BY DEF TraceIdSize
    <3>2. /\ ToW3C(c)[3 + 2 * i] = HexChar(c.TraceID, 2 * i)
          /\ ToW3C(c)[3 + 2 * i + 1] = HexChar(c.TraceID, 2 * i + 1)
      BY <3>1 DEF ToW3C
    <3>. QED
      BY <3>1, <3>2, Digits
  <2>3. TraceIdSize \in Nat /\ 3 \in Nat
    BY DEF TraceIdSize
  <2>. QED
    BY <2>1, <2>2, <2>3, BytesRead
<1>2. BytesAt(ToW3C(c), 36, SpanIdSize) = c.SpanID
  <2>1. c.SpanID \in [0..SpanIdSize - 1 -> Byte]
    BY DEF SpanContext
  <2>2. ASSUME NEW i \in 0..SpanIdSize - 1
        PROVE  /\ ToW3C(c)[36 + 2 * i] = Digit[c.SpanID[i] \div 16]
               /\ ToW3C(c)[36 + 2 * i + 1] = Digit[c.SpanID[i] % 16]
    <3>1. i \in 0..7
      BY DEF SpanIdSize
    <3>2. /\ ToW3C(c)[36 + 2 * i] = HexChar(c.SpanID, 2 * i)
          /\ ToW3C(c)[36 + 2 * i + 1] = HexChar(c.SpanID, 2 * i + 1)
      BY <3>1 DEF ToW3C
    <3>. QED
      BY <3>1, <3>2, Digits
  <2>3. SpanIdSize \in Nat /\ 36 \in Nat
    BY DEF SpanIdSize
  <2>. QED
    BY <2>1, <2>2, <2>3, BytesRead
<1>3. FromW3C(ToW3C(c)) = [TraceID |-> c.TraceID, SpanID |-> c.SpanID]
  BY <1>1, <1>2 DEF FromW3C, SpanIdStart
<1>. QED
  BY <1>3 DEF SpanContext

-------------------------------------------------------------------------------
(* The list of gRPC's fields.                                              *)

Asked == Len(before)
OldFieldsThere == Asked <= Len(array) /\ \A i \in 1..Asked : array[i] = before[i]
OursThere == Asked + 1 <= Len(array) /\ array[Asked + 1] = "ours"
Appended == spare = 1 \/ (Asked >= 1 /\ (Asked + 1) * ItemSize <= MaxDataSize)

ListTypes ==
    /\ array \in Seq(Field) /\ len \in Nat /\ cap \in Nat
    /\ before \in Seq({"other", "theirs"})
    /\ \A i \in 1..Asked : i > 1 => before[i] = "other"
    /\ spare \in {0, 1}
    /\ item \in {"ours", "empty", "broken"}
    /\ at \in {"key", "value", "append", "item", "copy", "cap", "len", "send", "sent"}
    /\ found \in {"none", "theirs", "ours"}

\* Until its array is written to or replaced, the slice is what the request had.
Untouched ==
    at \in {"key", "value", "append", "item", "copy"} =>
        /\ len = Asked /\ cap = Len(array) /\ OldFieldsThere
        /\ cap = Asked + spare

\* How far the slice has come, with no failure that matters.
Progress ==
    /\ at = "item" => spare = 1
    /\ at \in {"copy", "cap"} => spare = 0 /\ Fits(Asked)
    /\ at \in {"cap", "len"} => len = Asked
    /\ at = "cap" => cap = Asked /\ (failures \cap {"room", "array"} = {} => Len(array) = Asked + 1)
    /\ at = "len" => \/ cap = Asked + 1 /\ Asked + 1 <= Len(array)
                     \/ failures \cap {"room", "array", "cap"} # {}
    /\ at \in {"cap", "len"} /\ failures = {} => OursThere /\ Appended
    /\ at = "send" /\ failures = {} =>
          \/ Appended /\ OursThere /\ len = Asked + 1
          \/ ~Appended /\ len = Asked /\ Asked <= Len(array)
    /\ at # "sent" => found = "none"
    /\ failures = {} => item = "ours"
    /\ failures \cap {"copy", "room"} = {} => OldFieldsThere

ListInv ==
    ListTypes /\ Untouched /\ Progress /\ SliceWithinArray /\ FieldsKept /\ ServerFinds

LEMMA DivideBack == \A a \in Nat \ {0}, b \in Nat : (a * b) \div a = b
OBVIOUS

\* An array that is to be replaced is copied as a whole, and there is room for it just
\* when there is room for one field more.
LEMMA FitsWhole ==
    ASSUME NEW n \in Nat
    PROVE  /\ Fits(n) => CopiedBytes(n) \div ItemSize = n
           /\ Fits(n) <=> n >= 1 /\ (n + 1) * ItemSize <= MaxDataSize
<1>. DEFINE bytes == ItemSize * n
<1>1. bytes \in Nat /\ (n + 1) * ItemSize = bytes + ItemSize /\ bytes >= n
  BY ListAssumption
<1>2. bytes \div ItemSize = n
  BY ListAssumption, DivideBack
<1>. HIDE DEF bytes
<1>3. CopiedBytes(n) = Smaller(bytes, MaxReallocation)
  BY DEF CopiedBytes, bytes
<1>4. /\ Fits(n) => CopiedBytes(n) = bytes
      /\ Fits(n) <=> n >= 1 /\ bytes + ItemSize <= MaxDataSize
  BY <1>1, <1>3, ListAssumption DEF Fits, Smaller
<1>. QED
  BY <1>1, <1>2, <1>4

LEMMA ListInitially == ListInit => ListInv
<1>. SUFFICES ASSUME ListInit PROVE ListInv
  OBVIOUS
<1>1. PICK n \in 0..MaxFields, first \in {"other", "theirs"}, extra \in {0, 1} :
        /\ before = [i \in 1..n |-> IF i = 1 THEN first ELSE "other"]
        /\ array = before \o [i \in 1..extra |-> "junk"]
        /\ len = n /\ cap = n + extra /\ spare = extra
        /\ item = "ours" /\ at = "key" /\ failures = {} /\ found = "none"
  BY DEF ListInit
<1>2. n \in Nat /\ before \in Seq({"other", "theirs"}) /\ Len(before) = n
  BY <1>1, ListAssumption
<1>3. [i \in 1..extra |-> "junk"] \in Seq(Field) /\ Len([i \in 1..extra |-> "junk"]) = extra
  BY <1>1 DEF Field
<1>4. before \in Seq(Field)
  BY <1>2 DEF Field
<1>5. /\ array \in Seq(Field) /\ Len(array) = n + extra
      /\ \A i \in 1..n : array[i] = before[i]
  BY <1>1, <1>2, <1>3, <1>4
<1>6. ListTypes
  BY <1>1, <1>2, <1>5 DEF ListTypes, Asked
<1>7. Untouched /\ Progress
  <2>1. OldFieldsThere /\ Asked = n /\ cap = Len(array) /\ cap \in {n, n + 1}
    BY <1>1, <1>2, <1>5 DEF Asked, OldFieldsThere
  <2>2. cap = n + spare
    BY <1>1
  <2>3. at = "key" /\ item = "ours" /\ found = "none" /\ len = n
    BY <1>1
  <2>. QED
    BY <2>1, <2>2, <2>3 DEF Untouched, Progress
<1>8. SliceWithinArray /\ FieldsKept /\ ServerFinds
  BY <1>1, <1>2, <1>5 DEF SliceWithinArray, FieldsKept, ServerFinds
<1>. QED
  BY <1>6, <1>7, <1>8 DEF ListInv

\* The field's strings are written elsewhere: the slice is not touched.
LEMMA StringSteps ==
    ASSUME ListInv, WriteKeyString \/ WriteValueString
    PROVE  ListInv'
<1>1. /\ at \in {"key", "value"} /\ at' \in {"value", "append", "send"}
      /\ failures' = failures \/ \E f \in {"keyText", "keyString", "valueText", "valueString"} :
                                    failures' = failures \cup {f}
      /\ item' \in {"ours", "empty", "broken"} /\ (failures' = {} => item' = item /\ at' # "send")
      /\ UNCHANGED <<array, len, cap, before, spare, found>>
  BY DEF WriteKeyString, WriteValueString, Failing, ListInv, ListTypes
<1>2. \A S \in {{"copy", "room"}, {"room", "array", "cap"}, {"room", "array"}} :
         failures' \cap S = failures \cap S
  BY <1>1
<1>3. ListTypes'
  BY <1>1 DEF ListInv, ListTypes, Asked
<1>4. Untouched'
  BY <1>1 DEF ListInv, Untouched, Asked, OldFieldsThere
<1>5. Progress'
  BY <1>1, <1>2 DEF ListInv, Untouched, Progress, Asked, OldFieldsThere
<1>6. SliceWithinArray' /\ FieldsKept'
  BY <1>1, <1>2 DEF ListInv, SliceWithinArray, FieldsKept
<1>7. ServerFinds'
  BY <1>1 DEF ServerFinds
<1>. QED
  BY <1>3, <1>4, <1>5, <1>6, <1>7 DEF ListInv

LEMMA ChooseStep ==
    ASSUME ListInv, Choose
    PROVE  ListInv'
<1>1. /\ at = "append"
      /\ at' = IF len < cap THEN "item" ELSE IF Fits(len) THEN "copy" ELSE "send"
      /\ UNCHANGED <<array, len, cap, before, spare, item, failures, found>>
  BY DEF Choose
<1>2. /\ len = Asked /\ cap = Len(array) /\ OldFieldsThere
      /\ cap = Asked + spare
  BY <1>1 DEF ListInv, Untouched
<1>3. Asked \in Nat /\ spare \in {0, 1}
  BY DEF ListInv, ListTypes, Asked
<1>4. at' = "item" => spare = 1
  BY <1>1, <1>2, <1>3
<1>5. at' = "copy" => spare = 0 /\ Fits(Asked)
  BY <1>1, <1>2, <1>3
<1>6. at' = "send" => ~Appended /\ Asked <= Len(array)
  BY <1>1, <1>2, <1>3, FitsWhole DEF Appended
<1>7. Asked' = Asked /\ Fits(Asked)' = Fits(Asked) /\ (Appended' <=> Appended)
  BY <1>1 DEF Asked, Fits, CopiedBytes, Appended
<1>8. ListTypes' /\ Untouched'
  BY <1>1, <1>2 DEF ListInv, ListTypes, Untouched, Asked, OldFieldsThere
<1>9. Progress'
  <2>1. (OldFieldsThere' <=> OldFieldsThere) /\ (OursThere' <=> OursThere)
    BY <1>1 DEF Asked, OldFieldsThere, OursThere
  <2>. QED
    BY <1>1, <1>2, <1>4, <1>5, <1>6, <1>7, <2>1 DEF ListInv, Progress
<1>10. SliceWithinArray' /\ FieldsKept' /\ ServerFinds'
  BY <1>1 DEF ListInv, SliceWithinArray, FieldsKept, ServerFinds
<1>. QED
  BY <1>8, <1>9, <1>10 DEF ListInv

LEMMA ItemStep ==
    ASSUME ListInv, WriteItem
    PROVE  ListInv'
<1>1. /\ at = "item" /\ at' = "len"
      /\ \/ array' = [array EXCEPT ![len + 1] = item] /\ UNCHANGED failures
         \/ UNCHANGED array /\ failures' = failures \cup {"item"}
      /\ UNCHANGED <<len, cap, before, spare, item, found>>
  BY DEF WriteItem, Failing
<1>2. /\ array \in Seq(Field) /\ item \in Field /\ Asked \in Nat
      /\ len = Asked /\ cap = Len(array) /\ OldFieldsThere /\ cap = Asked + 1 /\ spare = 1
  BY <1>1 DEF ListInv, ListTypes, Untouched, Progress, Asked, Field
<1>3. /\ array' \in Seq(Field) /\ Len(array') = Asked + 1
      /\ \A i \in 1..Asked : array'[i] = array[i]
      /\ array' # array => array'[Asked + 1] = item
  <2>1. CASE array' = [array EXCEPT ![len + 1] = item]
    <3>1. array' = [array EXCEPT ![Asked + 1] = item] /\ Asked + 1 \in 1..Len(array)
      BY <1>2, <2>1
    <3>2. array \in Seq(Field) /\ item \in Field /\ Asked \in Nat /\ Len(array) = Asked + 1
      BY <1>2
    <3>. QED
      BY <3>1, <3>2
  <2>2. CASE array' = array
    BY <1>2, <2>2
  <2>. QED
    BY <1>1, <2>1, <2>2
<1>4. failures' = {} => array'[Asked + 1] = "ours"
  <2>1. failures' = {} => failures = {} /\ array' = [array EXCEPT ![len + 1] = item]
    BY <1>1
  <2>2. failures = {} => item = "ours"
    BY DEF ListInv, Progress
  <2>3. Asked + 1 \in 1..Len(array) /\ len = Asked /\ array \in Seq(Field)
    BY <1>2
  <2>. QED
    BY <2>1, <2>2, <2>3
<1>5. Asked' = Asked /\ OldFieldsThere'
  BY <1>1, <1>2, <1>3 DEF Asked, OldFieldsThere
<1>6. ListTypes' /\ Untouched'
  BY <1>1, <1>3 DEF ListInv, ListTypes, Untouched, Asked
<1>7. Progress'
  <2>1. (failures' = {} => OursThere') /\ Appended'
    BY <1>1, <1>2, <1>3, <1>4, <1>5 DEF OursThere, Appended
  <2>. QED
    BY <1>1, <1>2, <1>3, <1>5, <2>1 DEF ListInv, Progress
<1>8. SliceWithinArray'
  BY <1>1, <1>2, <1>3 DEF SliceWithinArray
<1>9. FieldsKept' /\ ServerFinds'
  BY <1>1, <1>2, <1>5 DEF FieldsKept, ServerFinds, OldFieldsThere, Asked
<1>. QED
  BY <1>6, <1>7, <1>8, <1>9 DEF ListInv

LEMMA ArrayStep ==
    ASSUME ListInv, WriteArray
    PROVE  ListInv'
<1>1. /\ at = "copy" /\ at' = "cap"
      /\ UNCHANGED <<len, cap, before, spare, item, found>>
      /\ \/ array' = NewArray(array) /\ UNCHANGED failures
         \/ array' = NewArray([i \in 1..len |-> "zeros"]) /\ failures' = failures \cup {"copy"}
         \/ array' = <<>> /\ failures' = failures \cup {"room"}
         \/ UNCHANGED array /\ failures' = failures \cup {"array"}
  BY DEF WriteArray, Failing
<1>2. /\ array \in Seq(Field) /\ item \in Field /\ Asked \in Nat
      /\ len = Asked /\ cap = Asked /\ Len(array) = Asked /\ OldFieldsThere /\ spare = 0 /\ Fits(Asked)
  BY <1>1 DEF ListInv, ListTypes, Untouched, Progress, Asked, Field
<1>3. \A fields \in Seq(Field) : Len(fields) = Asked =>
         /\ NewArray(fields) \in Seq(Field) /\ Len(NewArray(fields)) = Asked + 1
         /\ \A i \in 1..Asked : NewArray(fields)[i] = fields[i]
         /\ NewArray(fields)[Asked + 1] = item
  <2>1. CopiedBytes(len) \div ItemSize = Asked
    BY <1>2, FitsWhole
  <2>2. \A fields : NewArray(fields) = SubSeq(fields, 1, Asked) \o <<item>>
    BY <2>1 DEF NewArray
  <2>. QED
    BY <1>2, <2>2
<1>4. [i \in 1..len |-> "zeros"] \in Seq(Field) /\ Len([i \in 1..len |-> "zeros"]) = Asked
  BY <1>2 DEF Field
<1>5. /\ array' \in Seq(Field)
      /\ failures' \cap {"room", "array"} = {} => Len(array') = Asked + 1
      /\ failures' \cap {"copy", "room"} = {} =>
            Asked <= Len(array') /\ \A i \in 1..Asked : array'[i] = array[i]
      /\ failures' = {} => failures = {} /\ array'[Asked + 1] = item /\ Len(array') = Asked + 1
  <2>1. CASE array' = NewArray(array) /\ UNCHANGED failures
    BY <1>2, <1>3, <2>1
  <2>2. CASE array' = NewArray([i \in 1..len |-> "zeros"]) /\ failures' = failures \cup {"copy"}
    <3>1. "copy" \in failures' /\ failures' # {} /\ failures' \cap {"copy", "room"} # {}
      BY <2>2
    <3>2. array' \in Seq(Field) /\ Len(array') = Asked + 1
      BY <1>3, <1>4, <2>2
    <3>. QED
      BY <3>1, <3>2
  <2>3. CASE array' = <<>> /\ failures' = failures \cup {"room"}
    <3>1. /\ failures' # {} /\ failures' \cap {"copy", "room"} # {}
          /\ failures' \cap {"room", "array"} # {}
      BY <2>3
    <3>2. array' \in Seq(Field)
      BY <2>3
    <3>. QED
      BY <3>1, <3>2
  <2>4. CASE UNCHANGED array /\ failures' = failures \cup {"array"}
    <3>1. failures' # {} /\ failures' \cap {"room", "array"} # {}
      BY <2>4
    <3>. QED
      BY <1>2, <2>4, <3>1
  <2>. QED
    BY <1>1, <2>1, <2>2, <2>3, <2>4
<1>6. Asked' = Asked /\ (failures' \cap {"copy", "room"} = {} => OldFieldsThere')
  BY <1>1, <1>2, <1>5 DEF Asked, OldFieldsThere
<1>7. ListTypes' /\ Untouched'
  BY <1>1, <1>5 DEF ListInv, ListTypes, Untouched, Asked
<1>8. Progress'
  <2>1. Appended' /\ Fits(Asked)'
    BY <1>1, <1>2, <1>6, FitsWhole DEF Appended, Fits, CopiedBytes
  <2>2. failures' = {} => OursThere' /\ item' = "ours"
    BY <1>1, <1>2, <1>5, <1>6 DEF ListInv, Progress, OursThere
  <2>. QED
    BY <1>1, <1>2, <1>5, <1>6, <2>1, <2>2 DEF ListInv, Progress
<1>9. SliceWithinArray'
  <2>1. failures' \cap {"room", "array", "cap"} = {} => Len(array') = Asked + 1
    BY <1>5
  <2>. QED
    BY <1>1, <1>2, <2>1 DEF SliceWithinArray
<1>10. FieldsKept' /\ ServerFinds'
  BY <1>1, <1>2, <1>6 DEF FieldsKept, ServerFinds, OldFieldsThere, Asked
<1>. QED
  BY <1>7, <1>8, <1>9, <1>10 DEF ListInv

LEMMA SliceSteps ==
    ASSUME ListInv, WriteCap \/ WriteLen
    PROVE  ListInv'
<1>1. /\ UNCHANGED <<array, before, spare, item, found>>
      /\ \/ /\ at = "cap" /\ at' = "len" /\ UNCHANGED len
            /\ \/ cap' = cap + 1 /\ UNCHANGED failures
               \/ UNCHANGED cap /\ failures' = failures \cup {"cap"}
         \/ /\ at = "len" /\ at' = "send" /\ UNCHANGED cap
            /\ \/ len' = len + 1 /\ UNCHANGED failures
               \/ UNCHANGED len /\ failures' = failures \cup {"len"}
  BY DEF WriteCap, WriteLen, Failing
<1>2. Asked \in Nat /\ len = Asked /\ cap \in Nat
  BY <1>1 DEF ListInv, ListTypes, Progress, Asked
<1>3. /\ Asked' = Asked /\ (OldFieldsThere' <=> OldFieldsThere)
      /\ (OursThere' <=> OursThere) /\ (Appended' <=> Appended)
  BY <1>1 DEF Asked, OldFieldsThere, OursThere, Appended
<1>4. ListTypes' /\ Untouched'
  BY <1>1 DEF ListInv, ListTypes, Untouched, Asked
<1>5. failures \subseteq failures'
  BY <1>1
<1>6. Progress'
  <2>1. /\ failures' = {} => failures = {}
        /\ failures' \cap {"copy", "room"} = {} => failures \cap {"copy", "room"} = {}
    BY <1>5
  <2>2. CASE at = "cap"
    <3>1. at' = "len" /\ len' = Asked /\ cap = Asked
      BY <1>1, <1>2, <2>2 DEF ListInv, Progress
    <3>2. \/ cap' = Asked + 1 /\ Asked + 1 <= Len(array)
          \/ failures' \cap {"room", "array", "cap"} # {}
      <4>1. failures' \cap {"room", "array", "cap"} = {} =>
                cap' = cap + 1 /\ failures \cap {"room", "array"} = {}
        BY <1>1, <2>2
      <4>. QED
        BY <1>2, <2>2, <3>1, <4>1 DEF ListInv, Progress
    <3>. QED
      BY <1>1, <1>3, <2>1, <2>2, <3>1, <3>2 DEF ListInv, Progress
  <2>3. CASE at = "len"
    <3>1. failures' = {} => len' = Asked + 1
      BY <1>1, <1>2, <2>3
    <3>. QED
      BY <1>1, <1>3, <2>1, <2>3, <3>1 DEF ListInv, Progress
  <2>. QED
    BY <1>1, <2>2, <2>3
<1>7. SliceWithinArray'
  <2>1. CASE at = "cap"
    BY <1>1, <1>2, <1>5, <2>1 DEF ListInv, Progress, SliceWithinArray
  <2>2. CASE at = "len"
    BY <1>1, <1>2, <1>5, <2>2 DEF ListInv, Progress, SliceWithinArray
  <2>. QED
    BY <1>1, <2>1, <2>2
<1>8. FieldsKept'
  BY <1>1, <1>2, <1>5 DEF ListInv, FieldsKept
<1>9. ServerFinds'
  BY <1>1 DEF ServerFinds
<1>. QED
  BY <1>4, <1>6, <1>7, <1>8, <1>9 DEF ListInv

LEMMA DecodeStep ==
    ASSUME ListInv, Decode
    PROVE  ListInv'
<1>1. /\ at = "send" /\ at' = "sent"
      /\ UNCHANGED <<array, len, cap, before, spare, item, failures>>
      /\ IF InMemory /\ TraceParentsAt # {}
         THEN \E i \in TraceParentsAt : /\ \A j \in TraceParentsAt : j <= i
                                        /\ found' = array[i]
         ELSE UNCHANGED found
  BY DEF Decode
<1>2. found = "none" /\ Asked \in Nat /\ Asked' = Asked
  BY <1>1 DEF ListInv, ListTypes, Progress, Asked
<1>3. found' \in {"none", "theirs", "ours"}
  BY <1>1, <1>2 DEF TraceParentsAt
<1>4. ListTypes' /\ Untouched'
  BY <1>1, <1>3 DEF ListInv, ListTypes, Untouched, Asked
<1>5. Progress'
  BY <1>1 DEF ListInv, Progress, Asked, OldFieldsThere
<1>6. SliceWithinArray' /\ FieldsKept'
  BY <1>1 DEF ListInv, SliceWithinArray, FieldsKept
<1>7. ServerFinds'
  <2>1. SUFFICES ASSUME failures = {}
                 PROVE  found' = IF Appended /\ Asked < MaxHeaders THEN "ours"
                                 ELSE IF Asked >= 1 /\ before[1] = "theirs" THEN "theirs" ELSE "none"
    BY <1>1 DEF ServerFinds, Appended, Asked
  <2>2. /\ OldFieldsThere /\ array \in Seq(Field) /\ before \in Seq({"other", "theirs"})
        /\ len \in Nat /\ \A i \in 1..Asked : i > 1 => before[i] = "other"
    BY <2>1 DEF ListInv, Progress, ListTypes
  <2>3. \/ Appended /\ OursThere /\ len = Asked + 1
        \/ ~Appended /\ len = Asked
    BY <1>1, <2>1 DEF ListInv, Progress
  <2>4. /\ len <= Len(array)
        /\ \A i \in 1..Asked : array[i] = before[i] /\ array[i] \in {"other", "theirs"}
        /\ \A i \in 1..len : i \in 1..Asked \/ (i = Asked + 1 /\ array[i] = "ours")
    BY <1>2, <2>2, <2>3 DEF OldFieldsThere, OursThere, Asked
  <2>5. InMemory
    BY <2>4 DEF InMemory
  <2>6. Looked \in Nat /\ Looked = IF len < MaxHeaders THEN len ELSE MaxHeaders
    BY <2>2, ListAssumption DEF Looked, Smaller
  <2>7. TraceParentsAt = {i \in 1..Looked : array[i] \in {"theirs", "ours"}}
    BY DEF TraceParentsAt
  <2>8. CASE Appended /\ Asked < MaxHeaders
    <3>1. Looked = Asked + 1 /\ Asked + 1 \in TraceParentsAt
      BY <1>2, <2>3, <2>4, <2>6, <2>7, <2>8, ListAssumption DEF OursThere
    <3>2. PICK i \in TraceParentsAt : (\A j \in TraceParentsAt : j <= i) /\ found' = array[i]
      BY <1>1, <2>5, <3>1
    <3>3. i = Asked + 1
      BY <1>2, <2>7, <3>1, <3>2
    <3>. QED
      BY <2>3, <2>8, <3>2, <3>3 DEF OursThere
  <2>9. CASE ~(Appended /\ Asked < MaxHeaders)
    <3>1. Looked <= Asked
      BY <1>2, <2>3, <2>6, <2>9, ListAssumption
    <3>2. \A i \in TraceParentsAt : i = 1 /\ Asked >= 1 /\ before[1] = "theirs" /\ array[i] = "theirs"
      BY <1>2, <2>2, <2>4, <2>6, <2>7, <3>1
    <3>3. Asked >= 1 /\ before[1] = "theirs" => 1 \in TraceParentsAt
      BY <1>2, <2>3, <2>4, <2>6, <2>7, ListAssumption
    <3>. QED
      BY <1>1, <1>2, <2>5, <2>9, <3>2, <3>3
  <2>. QED
    BY <2>8, <2>9
<1>. QED
  BY <1>4, <1>5, <1>6, <1>7 DEF ListInv

LEMMA ListStep == ListInv /\ [Next]_vars => ListInv'
<1>. SUFFICES ASSUME ListInv, [Next]_vars PROVE ListInv'
  OBVIOUS
<1>1. CASE ListNext
  BY <1>1, StringSteps, ChooseStep, ItemStep, ArrayStep, SliceSteps, DecodeStep DEF ListNext
<1>2. CASE UNCHANGED listVars
  BY <1>2 DEF listVars, ListInv, ListTypes, Untouched, Progress, SliceWithinArray, FieldsKept,
              ServerFinds, Asked, OldFieldsThere, OursThere, Appended
<1>. QED
  BY <1>1, <1>2 DEF Next, vars

\* append_item_to_slice never makes the slice claim more than its array has, between any
\* two of its writes, unless the area was full or a write to the slice failed.
THEOREM SliceCorrect == Spec => []SliceWithinArray
<1>1. Init => ListInv
  BY ListInitially DEF Init
<1>2. ListInv => SliceWithinArray
  BY DEF ListInv
<1>. QED
  BY ListStep, <1>1, <1>2, PTL DEF Spec

\* append_item_to_slice loses none of the fields that the request had.
THEOREM FieldsCorrect == Spec => []FieldsKept
<1>1. Init => ListInv
  BY ListInitially DEF Init
<1>2. ListInv => FieldsKept
  BY DEF ListInv
<1>. QED
  BY ListStep, <1>1, <1>2, PTL DEF Spec

\* decodeHeader finds the field that headerHandler appended, if it did and if the server's
\* program looks that far, and else what the program itself had put there.
THEOREM ServerFindsCorrect == Spec => []ServerFinds
<1>1. Init => ListInv
  BY ListInitially DEF Init
<1>2. ListInv => ServerFinds
  BY DEF ListInv
<1>. QED
  BY ListStep, <1>1, <1>2, PTL DEF Spec

-------------------------------------------------------------------------------
(* The map of HTTP's headers.                                               *)

\* Where the probe is between its write of the tophash and that of the count, or about to begin.
Writing == {"key", "keyLength", "value", "size"}
Injecting == {"tophash"} \cup Writing

SlotType == [top : BOOLEAN, chars : Names \cup {TraceParent, NoName},
             len : Names \cup {TraceParent, NoName}, value : 1..MaxDos \cup {Null, Own, Broken}]

MapTypes ==
    /\ buckets \in BucketCounts /\ room \in {0, Slots, 2 * Slots}
    /\ slots \in [AllSlots -> SlotType] /\ count \in Nat
    /\ pc \in Places /\ dos \in 0..MaxDos /\ steps \in 0..MaxSteps
    /\ own \subseteq Names /\ deleted \in BOOLEAN /\ failed \subseteq Failures
    /\ crowded \subseteq 1..dos
    /\ parent \in [1..MaxDos -> {{}} \cup {{ContextOf[c]} : c \in 1..MaxDos}]

\* A slot that is not taken is empty; the probe writes into the first bucket.
PlaceInv ==
    /\ \A i \in AllSlots : slots[i].top => i < buckets * Slots
    /\ \A i \in AllSlots : ~slots[i].top => slots[i] = Empty
    /\ \A i \in AllSlots : slots[i].value <= dos
    /\ pc = "bucket" => count = 0
    /\ pc \in Injecting => count < Slots
    /\ pc \in Injecting \cup {"bucket", "sending"} => dos >= 1
    /\ pc \in Writing => slots[count].top

\* What is taken, and by the program's headers.
Taken == {i \in AllSlots : slots[i].top}
NameSlots == {i \in Taken : slots[i].chars \in Names /\ slots[i].len = slots[i].chars}

CountInv ==
    /\ Cardinality(NameSlots) <= count
    /\ count <= Cardinality(Taken) + dos
    /\ pc \in Injecting \cup {"bucket"} => count < Cardinality(Taken) + dos
    /\ failed = {} => \/ Cardinality(Taken) <= count
                      \/ pc \in Writing /\ Cardinality(Taken) <= count + 1

\* What is not being written is sound, but for the memory.
Serious == {"keyRoom", "key", "keyLength", "textRoom"}
Written(i) == slots[i].chars = slots[i].len /\ slots[i].chars # NoName /\ slots[i].value # Broken

SoundInv ==
    failed \cap Serious = {} =>
        /\ \A i \in AllSlots : slots[i].top => Written(i) \/ (pc \in {"key", "keyLength"} /\ i = count)
        /\ pc \in {"key", "keyLength"} => slots[count].value # Broken
        /\ pc = "keyLength" => slots[count].chars = TraceParent

\* A map of two buckets has memory for them until an empty one is given one bucket; a map
\* of one bucket has memory unless it is empty.
Roomy == failed = {} /\ (buckets = 2 => room = 2 * Slots)
RoomInv == failed = {} /\ room = 0 => count = 0 /\ pc \in {"program", "bucket"}

\* Without a deletion the slot whose number is the count is free.
KeptInv ==
    Roomy /\ ~deleted =>
        /\ \A i \in AllSlots : i < Slots /\ slots[i].top => i < count \/ (i = count /\ pc \in Writing)
        /\ pc \in Writing => slots[count].chars \notin Names
        /\ own # {} => count > 0
        /\ \A name \in own : \E i \in AllSlots :
              slots[i].top /\ slots[i].chars = name /\ slots[i].len = name /\ slots[i].value = Own

\* What the request carries of the call in progress, and the server has found of earlier ones.
ParentInv ==
    /\ failed = {} =>
          /\ pc \in {"value", "size"} => slots[count].chars = TraceParent
          /\ pc = "size" => slots[count].value = dos
          /\ pc \in Injecting \cup {"bucket"} => dos \notin crowded
          /\ pc = "sending" /\ dos \notin crowded =>
                /\ count \in 1..Slots
                /\ slots[count - 1].top
                /\ slots[count - 1].chars = TraceParent /\ slots[count - 1].value = dos
    /\ Roomy =>
          \A c \in 1..dos : c < dos \/ pc = "program" =>
              \/ c \in crowded
              \/ \E d \in 1..c : parent[c] = {ContextOf[d]}

MapInv ==
    MapTypes /\ PlaceInv /\ CountInv /\ SoundInv /\ RoomInv /\ KeptInv /\ ParentInv

\* Where the server finds a parent, it is one that the request carries.
FoundInv ==
    /\ \A c \in 1..dos : parent[c] = {} \/ \E d \in 1..c : parent[c] = {ContextOf[d]}
    /\ \A c \in 1..MaxDos : c > dos => parent[c] = {}

LEMMA SlotFacts ==
    /\ Slots \in Nat /\ Slots >= 1 /\ MaxDos \in Nat /\ MaxSteps \in Nat
    /\ \A b \in BucketCounts : b = 1 \/ b = 2
    /\ TraceParent \notin Names /\ NoName \notin Names /\ NoName # TraceParent
    /\ Empty \in SlotType /\ Empty.top = FALSE /\ Empty.chars = NoName /\ Empty.value = 0
BY MapAssumption DEF Empty, SlotType, Null

LEMMA SomeSlots ==
    /\ \A S \in SUBSET AllSlots :
          IsFiniteSet(S) /\ Cardinality(S) \in Nat /\ Cardinality(S) <= 2 * Slots
    /\ \A S \in SUBSET AllSlots, T \in SUBSET AllSlots :
          S \subseteq T => Cardinality(S) <= Cardinality(T)
<1>1. IsFiniteSet(AllSlots) /\ Cardinality(AllSlots) = 2 * Slots
  <2>1. 0 \in Int /\ 2 * Slots - 1 \in Int /\ ~(0 > 2 * Slots - 1) /\ (2 * Slots - 1) - 0 + 1 = 2 * Slots
    BY SlotFacts
  <2>. QED
    BY <2>1, FS_Interval DEF AllSlots
<1>2. ASSUME NEW S \in SUBSET AllSlots
      PROVE  IsFiniteSet(S) /\ Cardinality(S) \in Nat /\ Cardinality(S) <= 2 * Slots
  BY <1>1, FS_Subset, FS_CardinalityType
<1>3. ASSUME NEW S \in SUBSET AllSlots, NEW T \in SUBSET AllSlots, S \subseteq T
      PROVE  Cardinality(S) <= Cardinality(T)
  BY <1>2, <1>3, FS_Subset
<1>. QED
  BY <1>2, <1>3

LEMMA MapInitially == MapInit => MapInv
<1>. SUFFICES ASSUME MapInit PROVE MapInv
  OBVIOUS
<1>1. /\ buckets \in BucketCounts /\ room \in {0, 2 * Slots} /\ (buckets = 2 => room = 2 * Slots)
      /\ slots = [i \in AllSlots |-> Empty]
      /\ count = 0 /\ pc = "program" /\ dos = 0 /\ steps = 0
      /\ own = {} /\ deleted = FALSE /\ failed = {} /\ crowded = {}
      /\ parent = [c \in 1..MaxDos |-> {}]
  BY DEF MapInit
<1>2. \A i \in AllSlots : slots[i] = Empty
  BY <1>1
<1>3. MapTypes
  <2>1. slots \in [AllSlots -> SlotType]
    BY <1>1, SlotFacts
  <2>2. dos \in 0..MaxDos /\ steps \in 0..MaxSteps /\ count \in Nat
    BY <1>1, SlotFacts
  <2>. QED
    BY <1>1, <2>1, <2>2 DEF MapTypes, Places
<1>4. PlaceInv
  BY <1>1, <1>2, SlotFacts DEF PlaceInv, Injecting, Writing
<1>5. CountInv
  <2>1. Taken = {} /\ NameSlots = {}
    BY <1>2, SlotFacts DEF Taken, NameSlots
  <2>. QED
    BY <1>1, <2>1, FS_EmptySet DEF CountInv, Injecting, Writing
<1>6. SoundInv /\ RoomInv /\ KeptInv /\ ParentInv
  BY <1>1, <1>2, SlotFacts DEF SoundInv, RoomInv, KeptInv, ParentInv, Injecting, Writing
<1>. QED
  BY <1>3, <1>4, <1>5, <1>6 DEF MapInv

\* A write that fails, after which the probe returns.
LEMMA GivenUp ==
    ASSUME MapInv, NEW what \in Failures,
           pc \in Injecting \cup {"bucket"}, pc' = "sending", failed' = failed \cup {what},
           pc \in {"key", "keyLength"} => what \in Serious,
           UNCHANGED <<slots, room, count, InjectorVars>>
    PROVE  MapInv'
<1>1. UNCHANGED <<slots, room, count, buckets, dos, steps, own, deleted, crowded, parent>>
  BY DEF InjectorVars
<1>2. MapTypes'
  BY <1>1 DEF MapInv, MapTypes, Places
<1>3. PlaceInv'
  BY <1>1 DEF MapInv, PlaceInv, Injecting, Writing
<1>4. failed' # {} /\ pc' \notin Injecting \cup {"bucket"}
  BY DEF Injecting, Writing
<1>5. CountInv'
  <2>1. Taken' = Taken /\ NameSlots' = NameSlots
    BY <1>1 DEF Taken, NameSlots
  <2>. QED
    BY <1>1, <1>4, <2>1 DEF MapInv, CountInv
<1>6. SoundInv'
  BY <1>1 DEF MapInv, SoundInv, Written
<1>7. RoomInv' /\ KeptInv' /\ ParentInv'
  BY <1>4 DEF RoomInv, Roomy, KeptInv, ParentInv
<1>. QED
  BY <1>2, <1>3, <1>5, <1>6, <1>7 DEF MapInv

LEMMA BucketPlace ==
    ASSUME MapTypes, NEW name \in Names, NEW i \in Bucket(name)
    PROVE  /\ i \in AllSlots /\ i < buckets * Slots
           /\ i < Slots => \A j \in 0..Slots - 1 : j \in Bucket(name)
<1>1. buckets \in {1, 2} /\ BucketOf[name] \in {0, 1} /\ Slots \in Nat /\ Slots >= 1
  BY SlotFacts, MapAssumption DEF MapTypes
<1>2. CASE buckets = 1 \/ BucketOf[name] = 0
  <2>1. Bucket(name) = 0..Slots - 1
    BY <1>1, <1>2 DEF Bucket
  <2>. QED
    BY <1>1, <2>1 DEF AllSlots
<1>3. CASE buckets = 2 /\ BucketOf[name] = 1
  <2>1. Bucket(name) = Slots..2 * Slots - 1
    BY <1>1, <1>3 DEF Bucket
  <2>. QED
    BY <1>1, <1>3, <2>1 DEF AllSlots
<1>. QED
  BY <1>1, <1>2, <1>3

LEMMA SetStep ==
    ASSUME MapInv, NEW name \in Names, Set(name)
    PROVE  MapInv'
<1>. DEFINE rec == [top |-> TRUE, chars |-> name, len |-> name, value |-> Own]
<1>1. PICK i \in Free(name) : /\ \A j \in Free(name) : i <= j
                              /\ slots' = [slots EXCEPT ![i] = rec]
  BY DEF Set
<1>2. /\ pc = "program" /\ steps < MaxSteps /\ steps' = steps + 1
      /\ count' = count + 1 /\ own' = own \cup {name}
      /\ room' = IF room = 0 THEN Slots ELSE room
      /\ UNCHANGED <<buckets, pc, dos, deleted, failed, crowded, parent>>
  BY DEF Set, Program
<1>3. MapTypes
  BY DEF MapInv
<1>4. /\ i \in AllSlots /\ i < buckets * Slots /\ ~slots[i].top
      /\ i < Slots => \A j \in 0..Slots - 1 : j \in Bucket(name)
  BY <1>3, BucketPlace DEF Free
<1>5. rec \in SlotType /\ rec.top = TRUE /\ rec.chars = name /\ rec.len = name /\ rec.value = Own
  BY DEF SlotType
<1>. HIDE DEF rec
<1>6. /\ slots' \in [AllSlots -> SlotType] /\ slots'[i] = rec
      /\ \A j \in AllSlots : j # i => slots'[j] = slots[j]
  BY <1>1, <1>3, <1>4, <1>5 DEF MapTypes
<1>7. MapTypes'
  <2>1. steps' \in 0..MaxSteps
    <3>1. steps \in 0..MaxSteps /\ MaxSteps \in Nat
      BY <1>3, SlotFacts DEF MapTypes
    <3>. QED
      BY <1>2, <3>1
  <2>2. room' \in {0, Slots, 2 * Slots} /\ count' \in Nat /\ own' \subseteq Names
    BY <1>2, <1>3 DEF MapTypes
  <2>. QED
    BY <1>2, <1>3, <1>6, <2>1, <2>2 DEF MapTypes
<1>8. PlaceInv'
  <2>1. rec.value <= dos
    BY <1>3, <1>5, SlotFacts DEF MapTypes, Own
  <2>. QED
    BY <1>2, <1>4, <1>5, <1>6, <2>1 DEF MapInv, PlaceInv, Injecting, Writing
<1>9. CountInv'
  <2>1. Taken' = Taken \cup {i} /\ i \notin Taken
    BY <1>4, <1>5, <1>6 DEF Taken
  <2>2. NameSlots' = NameSlots \cup {i} /\ i \notin NameSlots
    BY <1>4, <1>5, <1>6, <2>1 DEF Taken, NameSlots
  <2>3. Taken \in SUBSET AllSlots /\ NameSlots \in SUBSET AllSlots
    BY DEF Taken, NameSlots
  <2>4. /\ Cardinality(Taken) \in Nat /\ Cardinality(NameSlots) \in Nat
        /\ Cardinality(Taken') = Cardinality(Taken) + 1
        /\ Cardinality(NameSlots') = Cardinality(NameSlots) + 1
    BY <2>1, <2>2, <2>3, SomeSlots, FS_AddElement
  <2>5. count \in Nat /\ dos \in Nat
    BY <1>3, SlotFacts DEF MapTypes
  <2>6. Cardinality(NameSlots') <= count' /\ count' <= Cardinality(Taken') + dos'
    BY <1>2, <2>4, <2>5 DEF MapInv, CountInv
  <2>7. failed' = {} => Cardinality(Taken') <= count'
    BY <1>2, <2>4, <2>5 DEF MapInv, CountInv, Writing
  <2>. QED
    BY <1>2, <2>6, <2>7 DEF CountInv, Injecting, Writing
<1>10. SoundInv'
  <2>1. Own # Broken /\ name # NoName
    BY SlotFacts DEF Own, Broken
  <2>. QED
    BY <1>2, <1>5, <1>6, <2>1 DEF MapInv, SoundInv, Written
<1>11. RoomInv'
  BY <1>2, <1>3, SlotFacts DEF RoomInv, MapTypes
<1>12. Roomy' => Roomy
  BY <1>2, <1>3, SlotFacts DEF Roomy, MapTypes
<1>13. KeptInv'
  <2>. SUFFICES ASSUME Roomy', ~deleted' PROVE KeptInv'
    BY DEF KeptInv
  <2>1. /\ \A j \in AllSlots : j < Slots /\ slots[j].top => j < count
        /\ \A n \in own : \E j \in AllSlots :
              slots[j].top /\ slots[j].chars = n /\ slots[j].len = n /\ slots[j].value = Own
    BY <1>2, <1>12 DEF MapInv, KeptInv, Writing
  <2>2. i < Slots => i <= count
    <3>. SUFFICES ASSUME i < Slots, ~(i <= count) PROVE FALSE
      OBVIOUS
    <3>1. count \in Nat /\ i \in 0..2 * Slots - 1 /\ Slots \in Nat
      BY <1>3, <1>4, SlotFacts DEF MapTypes, AllSlots
    <3>2. count \in 0..Slots - 1 /\ count \in AllSlots
      BY <3>1 DEF AllSlots
    <3>3. ~slots[count].top
      BY <2>1, <3>1, <3>2
    <3>. QED
      BY <1>1, <1>4, <3>2, <3>3 DEF Free
  <2>3. count \in Nat /\ AllSlots \subseteq Int
    BY <1>3 DEF MapTypes, AllSlots
  <2>4. \A j \in AllSlots : j < Slots /\ slots'[j].top => j < count'
    BY <1>2, <1>6, <2>1, <2>2, <2>3
  <2>5. \A n \in own' : \E j \in AllSlots :
              slots'[j].top /\ slots'[j].chars = n /\ slots'[j].len = n /\ slots'[j].value = Own
    <3>. TAKE n \in own'
    <3>1. CASE n = name
      BY <1>4, <1>5, <1>6, <3>1
    <3>2. CASE n \in own
      BY <1>4, <1>6, <2>1, <3>2
    <3>. QED
      BY <1>2, <3>1, <3>2
  <2>. QED
    BY <1>2, <2>3, <2>4, <2>5 DEF KeptInv, Writing
<1>14. ParentInv'
  BY <1>2, <1>12 DEF MapInv, ParentInv, Injecting, Writing
<1>. QED
  BY <1>7, <1>8, <1>9, <1>10, <1>11, <1>13, <1>14 DEF MapInv

LEMMA DelStep ==
    ASSUME MapInv, NEW name \in Names, Del(name)
    PROVE  MapInv'
<1>1. PICK i \in At(name) : slots' = [slots EXCEPT ![i] = Empty]
  BY DEF Del
<1>2. /\ pc = "program" /\ steps < MaxSteps /\ steps' = steps + 1
      /\ count' = count - 1 /\ own' = own \ {name} /\ deleted' = TRUE
      /\ UNCHANGED <<buckets, room, pc, dos, failed, crowded, parent>>
  BY DEF Del, Program
<1>3. MapTypes
  BY DEF MapInv
<1>4. /\ i \in AllSlots /\ slots[i].top /\ slots[i].chars = name /\ slots[i].len = name
  BY <1>3, BucketPlace DEF At
<1>6. /\ slots' \in [AllSlots -> SlotType] /\ slots'[i] = Empty
      /\ \A j \in AllSlots : j # i => slots'[j] = slots[j]
  BY <1>1, <1>3, <1>4, SlotFacts DEF MapTypes
<1>5. /\ Taken' = Taken \ {i} /\ i \in Taken
      /\ NameSlots' = NameSlots \ {i} /\ i \in NameSlots
  BY <1>4, <1>6, SlotFacts DEF Taken, NameSlots
<1>7. /\ Cardinality(Taken) \in Nat /\ Cardinality(NameSlots) \in Nat
      /\ Cardinality(Taken') = Cardinality(Taken) - 1
      /\ Cardinality(NameSlots') = Cardinality(NameSlots) - 1 /\ Cardinality(NameSlots') \in Nat
  <2>1. Taken \in SUBSET AllSlots /\ NameSlots \in SUBSET AllSlots /\ NameSlots' \in SUBSET AllSlots
    BY <1>5 DEF Taken, NameSlots
  <2>. QED
    BY <1>5, <2>1, SomeSlots, FS_RemoveElement
<1>8. count \in Nat /\ dos \in Nat /\ count' \in Nat
  BY <1>2, <1>3, <1>7, SlotFacts DEF MapTypes, MapInv, CountInv
<1>9. MapTypes'
  <2>1. steps' \in 0..MaxSteps
    <3>1. steps \in 0..MaxSteps /\ MaxSteps \in Nat
      BY <1>3, SlotFacts DEF MapTypes
    <3>. QED
      BY <1>2, <3>1
  <2>2. own' \subseteq Names /\ deleted' \in BOOLEAN
    BY <1>2, <1>3 DEF MapTypes
  <2>. QED
    BY <1>2, <1>3, <1>6, <1>8, <2>1, <2>2 DEF MapTypes
<1>10. PlaceInv'
  BY <1>2, <1>6, <1>8, SlotFacts DEF MapInv, PlaceInv, Injecting, Writing
<1>11. CountInv'
  <2>1. Cardinality(NameSlots') <= count' /\ count' <= Cardinality(Taken') + dos'
    BY <1>2, <1>7, <1>8 DEF MapInv, CountInv
  <2>2. failed' = {} => Cardinality(Taken') <= count'
    BY <1>2, <1>7, <1>8 DEF MapInv, CountInv, Writing
  <2>. QED
    BY <1>2, <2>1, <2>2 DEF CountInv, Injecting, Writing
<1>12. SoundInv'
  BY <1>2, <1>6, SlotFacts DEF MapInv, SoundInv, Written
<1>13. RoomInv'
  BY <1>2, <1>7, <1>8 DEF MapInv, RoomInv, CountInv
<1>14. KeptInv' /\ ParentInv'
  BY <1>2 DEF MapInv, KeptInv, ParentInv, Roomy, Injecting, Writing
<1>. QED
  BY <1>9, <1>10, <1>11, <1>12, <1>13, <1>14 DEF MapInv

LEMMA DoStep ==
    ASSUME MapInv, Do
    PROVE  MapInv'
<1>1. /\ pc = "program" /\ dos < MaxDos /\ dos' = dos + 1
      /\ pc' = IF Full(count) THEN "sending" ELSE IF count = 0 THEN "bucket" ELSE "tophash"
      /\ crowded' = IF Full(count) THEN crowded \cup {dos'} ELSE crowded
      /\ UNCHANGED <<buckets, room, slots, count, steps, own, deleted, failed, parent>>
  BY DEF Do
<1>2. /\ MapTypes /\ dos \in Nat /\ count \in Nat /\ MaxDos \in Nat /\ Slots \in Nat /\ Slots >= 1
  BY SlotFacts DEF MapInv, MapTypes
<1>3. /\ Full(count) => pc' = "sending" /\ count >= Slots /\ count # 0
      /\ ~Full(count) => /\ pc' \in {"bucket", "tophash"} /\ count < Slots
                         /\ pc' = "bucket" <=> count = 0
  BY <1>1, <1>2 DEF Full
<1>4. MapTypes'
  <2>1. dos' \in 0..MaxDos
    BY <1>1, <1>2
  <2>2. crowded \subseteq 1..dos
    BY <1>2 DEF MapTypes
  <2>3. 1..dos \subseteq 1..dos' /\ dos' \in 1..dos'
    BY <1>1, <1>2
  <2>4. crowded' \subseteq 1..dos'
    BY <1>1, <2>2, <2>3
  <2>. QED
    BY <1>1, <1>2, <1>3, <2>1, <2>4 DEF MapTypes, Places
<1>5. PlaceInv'
  <2>1. \A i \in AllSlots : slots[i].value \in Int
    BY <1>2 DEF MapTypes, SlotType, Null, Own, Broken
  <2>2. \A i \in AllSlots : slots[i].value <= dos'
    BY <1>1, <1>2, <2>1 DEF MapInv, PlaceInv
  <2>3. pc' \notin Writing /\ dos' >= 1
    BY <1>1, <1>2, <1>3 DEF Writing
  <2>. QED
    BY <1>1, <1>3, <2>2, <2>3 DEF MapInv, PlaceInv, Injecting
<1>6. CountInv'
  <2>1. Taken' = Taken /\ NameSlots' = NameSlots /\ Cardinality(Taken) \in Nat
    BY <1>1, SomeSlots DEF Taken, NameSlots
  <2>2. count' <= Cardinality(Taken') + dos' /\ count' < Cardinality(Taken') + dos'
    BY <1>1, <1>2, <2>1 DEF MapInv, CountInv
  <2>. QED
    BY <1>1, <2>1, <2>2 DEF MapInv, CountInv, Writing
<1>7. SoundInv'
  BY <1>1, <1>3 DEF MapInv, SoundInv, Written
<1>8. RoomInv'
  BY <1>1, <1>2, <1>3 DEF MapInv, RoomInv
<1>9. KeptInv'
  BY <1>1, <1>3 DEF MapInv, KeptInv, Roomy, Writing
<1>10. ParentInv'
  <2>1. pc' \in Injecting \cup {"bucket"} => dos' \notin crowded'
    BY <1>1, <1>2, <1>3 DEF MapTypes, Injecting, Writing
  <2>2. pc' = "sending" => dos' \in crowded'
    BY <1>1, <1>3
  <2>3. pc' \notin Writing
    BY <1>3 DEF Writing
  <2>4. ASSUME Roomy', NEW c \in 1..dos', c < dos'
        PROVE  c \in crowded' \/ \E d \in 1..c : parent'[c] = {ContextOf[d]}
    <3>1. c \in 1..dos /\ Roomy
      BY <1>1, <1>2, <2>4 DEF Roomy
    <3>. QED
      BY <1>1, <3>1 DEF MapInv, ParentInv
  <2>5. pc' # "program"
    BY <1>3
  <2>. QED
    BY <2>1, <2>2, <2>3, <2>4, <2>5 DEF ParentInv, Writing
<1>. QED
  BY <1>4, <1>5, <1>6, <1>7, <1>8, <1>9, <1>10 DEF MapInv

\* The new bucket has none of the old one's slots, which an empty map had no header of the
\* program's in, unless one was deleted.
LEMMA NewBucketStep ==
    ASSUME MapInv, NewBucket
    PROVE  MapInv'
<1>1. CASE Fails("bucket") /\ UNCHANGED <<slots, room>>
  BY <1>1, GivenUp DEF NewBucket, Fails, Failures
<1>2. CASE slots' = [i \in AllSlots |-> Empty]
           /\ \/ room' = Slots /\ pc' = "tophash" /\ UNCHANGED failed
              \/ room' = 0 /\ pc' = "sending" /\ failed' = failed \cup {"bucketRoom"}
  <2>1. /\ pc = "bucket" /\ UNCHANGED <<count, buckets, dos, steps, own, deleted, crowded, parent>>
        /\ \A i \in AllSlots : slots'[i] = Empty
        /\ pc' \in {"tophash", "sending"} /\ failed' \subseteq Failures /\ (failed' = {} => pc' = "tophash")
        /\ failed \subseteq failed' /\ room' \in {0, Slots}
        /\ failed' = {} => room' = Slots
    BY <1>2 DEF NewBucket, InjectorVars, MapInv, MapTypes, Failures
  <2>2. MapTypes /\ count = 0 /\ dos >= 1 /\ Slots \in Nat /\ Slots >= 1 /\ dos \in Nat
    BY <2>1, SlotFacts DEF MapInv, MapTypes, PlaceInv
  <2>3. MapTypes'
    <3>1. slots' \in [AllSlots -> SlotType]
      BY <1>2, SlotFacts
    <3>. QED
      BY <2>1, <2>2, <3>1 DEF MapTypes, Places
  <2>4. PlaceInv'
    BY <2>1, <2>2, SlotFacts DEF PlaceInv, Injecting, Writing
  <2>5. CountInv'
    <3>1. Taken' = {} /\ NameSlots' = {}
      BY <2>1, SlotFacts DEF Taken, NameSlots
    <3>. QED
      BY <2>1, <2>2, <3>1, FS_EmptySet DEF CountInv
  <2>6. SoundInv' /\ RoomInv'
    BY <2>1, <2>2, SlotFacts DEF SoundInv, RoomInv
  <2>7. Roomy' => Roomy
    BY <2>1, <2>2 DEF Roomy
  <2>8. KeptInv'
    <3>. SUFFICES ASSUME Roomy', ~deleted' PROVE KeptInv'
      BY DEF KeptInv
    <3>1. own = {}
      BY <2>1, <2>2, <2>7 DEF MapInv, KeptInv
    <3>. QED
      BY <2>1, <3>1, SlotFacts DEF KeptInv, Writing
  <2>9. ParentInv'
    BY <2>1, <2>7 DEF MapInv, ParentInv, Injecting, Writing
  <2>. QED
    BY <2>3, <2>4, <2>5, <2>6, <2>8, <2>9 DEF MapInv
<1>. QED
  BY <1>1, <1>2 DEF NewBucket, Fails

LEMMA InFirstBucket ==
    ASSUME MapInv, pc \in Injecting
    PROVE  /\ count \in AllSlots /\ count < Slots /\ count < buckets * Slots /\ slots[count] \in SlotType
           /\ dos >= 1 /\ dos \in 1..MaxDos /\ count \in Nat
<1>1. count \in Nat /\ count < Slots /\ Slots \in Nat /\ buckets \in {1, 2} /\ dos >= 1
  BY SlotFacts DEF MapInv, MapTypes, PlaceInv
<1>2. dos \in 1..MaxDos
  BY <1>1, SlotFacts DEF MapInv, MapTypes
<1>3. count \in AllSlots /\ count < buckets * Slots
  BY <1>1 DEF AllSlots
<1>. QED
  BY <1>1, <1>2, <1>3 DEF MapInv, MapTypes

LEMMA TophashStep ==
    ASSUME MapInv, WriteTophash
    PROVE  MapInv'
<1>1. CASE Fails("tophash") /\ UNCHANGED slots
  BY <1>1, GivenUp DEF WriteTophash, Write, Fails, Failures, Injecting
<1>2. CASE pc' = "key" /\ slots' = [slots EXCEPT ![Slot(count)].top = TRUE] /\ UNCHANGED failed
  <2>1. /\ pc = "tophash" /\ pc' = "key"
        /\ UNCHANGED <<room, count, buckets, dos, steps, own, deleted, crowded, parent, failed>>
    BY <1>2 DEF WriteTophash, Write, InjectorVars
  <2>2. MapTypes /\ pc \in Injecting /\ pc \notin Writing /\ pc' \in Writing
    BY <2>1 DEF MapInv, Injecting, Writing
  <2>3. slots' = [slots EXCEPT ![count] = [slots[count] EXCEPT !.top = TRUE]]
    BY <1>2 DEF Slot
  <2>4. /\ slots' \in [AllSlots -> SlotType]
        /\ slots'[count].top = TRUE /\ slots'[count].chars = slots[count].chars
        /\ slots'[count].len = slots[count].len /\ slots'[count].value = slots[count].value
        /\ \A j \in AllSlots : j # count => slots'[j] = slots[j]
    <3>. DEFINE r == [slots[count] EXCEPT !.top = TRUE]
    <3>1. /\ r \in SlotType /\ r.top = TRUE /\ r.chars = slots[count].chars
          /\ r.len = slots[count].len /\ r.value = slots[count].value
      BY <2>2, InFirstBucket DEF SlotType
    <3>. HIDE DEF r
    <3>2. slots' = [slots EXCEPT ![count] = r]
      BY <2>3 DEF r
    <3>. QED
      BY <2>2, <3>1, <3>2, InFirstBucket DEF MapTypes
  <2>5. MapTypes'
    BY <2>1, <2>2, <2>4 DEF MapTypes, Places
  <2>6. PlaceInv'
    BY <2>1, <2>2, <2>4, InFirstBucket DEF MapInv, PlaceInv, Injecting
  <2>7. ~slots[count].top => slots[count].chars = NoName /\ slots[count].value = Null
    <3>1. ~slots[count].top => slots[count] = Empty
      BY <2>2, InFirstBucket DEF MapInv, PlaceInv
    <3>. QED
      BY <3>1, SlotFacts DEF Null
  <2>8. CountInv'
    <3>1. Taken' = Taken \cup {count} /\ NameSlots' = NameSlots
      BY <2>2, <2>4, <2>7, InFirstBucket, SlotFacts DEF Taken, NameSlots
    <3>2. Taken \in SUBSET AllSlots /\ Taken' \in SUBSET AllSlots
      BY DEF Taken
    <3>3. /\ Cardinality(Taken) \in Nat
          /\ Cardinality(Taken') \in {Cardinality(Taken), Cardinality(Taken) + 1}
      BY <3>1, <3>2, SomeSlots, FS_AddElement
    <3>4. count \in Nat /\ dos \in Nat
      BY <2>2, InFirstBucket
    <3>5. count < Cardinality(Taken) + dos /\ Cardinality(NameSlots) <= count
      BY <2>2 DEF MapInv, CountInv
    <3>6. failed = {} => Cardinality(Taken) <= count
      BY <2>2 DEF MapInv, CountInv
    <3>7. count' < Cardinality(Taken') + dos' /\ count' <= Cardinality(Taken') + dos'
      BY <2>1, <3>3, <3>4, <3>5
    <3>8. failed' = {} => Cardinality(Taken') <= count' + 1
      BY <2>1, <3>3, <3>4, <3>6
    <3>. QED
      BY <2>1, <2>2, <3>1, <3>5, <3>7, <3>8 DEF CountInv
  <2>9. SoundInv'
    <3>1. slots[count].top /\ failed \cap Serious = {} => slots[count].value # Broken
      BY <2>1, <2>2, InFirstBucket DEF MapInv, SoundInv, Written
    <3>. QED
      BY <2>1, <2>2, <2>4, <2>7, <3>1 DEF MapInv, SoundInv, Written, Null, Broken
  <2>10. RoomInv'
    BY <2>1 DEF MapInv, RoomInv
  <2>11. KeptInv'
    <3>. SUFFICES ASSUME Roomy', ~deleted' PROVE KeptInv'
      BY DEF KeptInv
    <3>1. Roomy /\ ~deleted
      BY <2>1 DEF Roomy
    <3>2. /\ \A i \in AllSlots : i < Slots /\ slots[i].top => i < count
          /\ own # {} => count > 0
          /\ \A name \in own : \E i \in AllSlots :
                slots[i].top /\ slots[i].chars = name /\ slots[i].len = name /\ slots[i].value = Own
      BY <2>2, <3>1 DEF MapInv, KeptInv
    <3>3. ~slots[count].top
      BY <2>2, <3>2, InFirstBucket
    <3>4. slots'[count].chars \notin Names
      BY <2>4, <2>7, <3>3, SlotFacts
    <3>5. \A i \in AllSlots : i < Slots /\ slots'[i].top => i < count \/ i = count
      BY <2>4, <3>2
    <3>6. \A name \in own : \E i \in AllSlots :
             slots'[i].top /\ slots'[i].chars = name /\ slots'[i].len = name /\ slots'[i].value = Own
      BY <2>4, <3>2, <3>3
    <3>. QED
      BY <2>1, <2>2, <3>2, <3>4, <3>5, <3>6 DEF KeptInv
  <2>12. ParentInv'
    BY <2>1, <2>2 DEF MapInv, ParentInv, Roomy, Injecting, Writing
  <2>. QED
    BY <2>5, <2>6, <2>8, <2>9, <2>10, <2>11, <2>12 DEF MapInv
<1>. QED
  BY <1>1, <1>2 DEF WriteTophash, Write, Fails

\* The writes after the tophash's neither take a slot nor lose a header of the program's whose
\* slot was not taken over by the tophash.
LEMMA Overwrite ==
    ASSUME MapInv, pc \in Writing, pc' \in Writing, NEW r \in SlotType,
           slots' = [slots EXCEPT ![count] = r], r.top = TRUE, r.value <= dos,
           r.chars = slots[count].chars \/ r.chars \notin Names,
           r.len = slots[count].len \/ r.len = TraceParent,
           failed \subseteq failed', failed' \subseteq Failures,
           UNCHANGED <<room, count, InjectorVars>>
    PROVE  /\ MapTypes' /\ PlaceInv' /\ CountInv' /\ RoomInv' /\ KeptInv'
           /\ slots'[count] = r /\ \A j \in AllSlots : j # count => slots'[j] = slots[j]
           /\ UNCHANGED <<buckets, room, count, dos, steps, own, deleted, crowded, parent>>
<1>1. UNCHANGED <<buckets, room, count, dos, steps, own, deleted, crowded, parent>>
  BY DEF InjectorVars
<1>2. /\ MapTypes /\ pc \in Injecting /\ pc' \in Injecting /\ pc' \in Places /\ pc' # "bucket"
      /\ slots[count].top
  BY DEF MapInv, PlaceInv, Injecting, Writing, Places
<1>3. /\ count \in AllSlots /\ slots' \in [AllSlots -> SlotType] /\ slots'[count] = r
      /\ \A j \in AllSlots : j # count => slots'[j] = slots[j]
  BY <1>2, InFirstBucket DEF MapTypes
<1>4. MapTypes'
  BY <1>1, <1>2, <1>3 DEF MapTypes
<1>5. PlaceInv'
  BY <1>1, <1>2, <1>3, InFirstBucket DEF MapInv, PlaceInv, Injecting
<1>6. CountInv'
  <2>1. Taken' = Taken /\ NameSlots' \subseteq NameSlots
    BY <1>2, <1>3, SlotFacts DEF Taken, NameSlots
  <2>2. NameSlots \in SUBSET AllSlots /\ NameSlots' \in SUBSET AllSlots
    BY <2>1 DEF Taken, NameSlots
  <2>3. /\ Cardinality(NameSlots') <= Cardinality(NameSlots)
        /\ Cardinality(NameSlots) \in Nat /\ Cardinality(NameSlots') \in Nat /\ count \in Nat
    BY <1>2, <2>1, <2>2, SomeSlots DEF MapTypes
  <2>4. Cardinality(NameSlots) <= count
    BY DEF MapInv, CountInv
  <2>5. Cardinality(NameSlots') <= count'
    BY <1>1, <2>3, <2>4
  <2>6. failed' = {} => failed = {}
    OBVIOUS
  <2>. QED
    BY <1>1, <1>2, <2>1, <2>5, <2>6 DEF MapInv, CountInv
<1>7. RoomInv'
  BY <1>1, <1>2 DEF MapInv, RoomInv, Writing
<1>8. KeptInv'
  <2>. SUFFICES ASSUME Roomy', ~deleted' PROVE KeptInv'
    BY DEF KeptInv
  <2>1. Roomy /\ ~deleted
    BY <1>1 DEF Roomy
  <2>2. /\ \A i \in AllSlots : i < Slots /\ slots[i].top => i < count \/ i = count
        /\ own # {} => count > 0
        /\ slots[count].chars \notin Names
        /\ \A name \in own : \E i \in AllSlots :
              slots[i].top /\ slots[i].chars = name /\ slots[i].len = name /\ slots[i].value = Own
    BY <1>2, <2>1 DEF MapInv, KeptInv
  <2>3. own \subseteq Names
    BY <1>2 DEF MapTypes
  <2>4. \A name \in own : \E i \in AllSlots :
            slots'[i].top /\ slots'[i].chars = name /\ slots'[i].len = name /\ slots'[i].value = Own
    BY <1>3, <2>2, <2>3
  <2>5. \A i \in AllSlots : i < Slots /\ slots'[i].top => i < count \/ i = count
    BY <1>3, <2>2
  <2>. QED
    BY <1>1, <1>3, <2>2, <2>4, <2>5 DEF KeptInv
<1>. QED
  BY <1>1, <1>3, <1>4, <1>5, <1>6, <1>7, <1>8

LEMMA KeyStep ==
    ASSUME MapInv, WriteKey
    PROVE  MapInv'
<1>1. CASE Fails("key") /\ UNCHANGED <<slots, room, count, InjectorVars>>
  BY <1>1, GivenUp DEF WriteKey, Write, Fails, Failures, Injecting, Writing, Serious
<1>2. CASE /\ pc' = "keyLength" /\ UNCHANGED <<room, count, InjectorVars>>
           /\ \/ slots' = [slots EXCEPT ![Slot(count)].chars = TraceParent] /\ UNCHANGED failed
              \/ /\ slots' = [slots EXCEPT ![Slot(count)].chars = NoName]
                 /\ failed' = failed \cup {"keyRoom"}
  <2>1. PICK x \in {TraceParent, NoName} :
            /\ slots' = [slots EXCEPT ![count] = [slots[count] EXCEPT !.chars = x]]
            /\ \/ x = TraceParent /\ failed' = failed
               \/ failed' = failed \cup {"keyRoom"}
    BY <1>2 DEF Slot
  <2>. DEFINE r == [slots[count] EXCEPT !.chars = x]
  <2>2. pc = "key" /\ pc \in Writing /\ pc \in Injecting /\ pc' \in Writing
    BY <1>2 DEF WriteKey, Write, Injecting, Writing
  <2>3. /\ r \in SlotType /\ r.chars = x /\ r.top = slots[count].top
        /\ r.len = slots[count].len /\ r.value = slots[count].value
    BY <2>2, InFirstBucket DEF SlotType
  <2>4. r.top = TRUE /\ r.value <= dos /\ x \notin Names
    BY <2>2, <2>3, InFirstBucket, SlotFacts DEF MapInv, PlaceInv, SlotType
  <2>5. failed \subseteq failed' /\ failed' \subseteq Failures
    BY <2>1 DEF MapInv, MapTypes, Failures
  <2>6. slots' = [slots EXCEPT ![count] = r]
    BY <2>1
  <2>. HIDE DEF r
  <2>7. /\ MapTypes' /\ PlaceInv' /\ CountInv' /\ RoomInv' /\ KeptInv'
        /\ slots'[count] = r /\ \A j \in AllSlots : j # count => slots'[j] = slots[j]
        /\ UNCHANGED <<buckets, room, count, dos, steps, own, deleted, crowded, parent>>
    BY <1>2, <2>2, <2>3, <2>4, <2>5, <2>6, Overwrite
  <2>8. SoundInv'
    <3>. SUFFICES ASSUME failed' \cap Serious = {} PROVE SoundInv'
      BY DEF SoundInv
    <3>1. failed \cap Serious = {} /\ x = TraceParent
      BY <2>1, <2>5 DEF Serious
    <3>. QED
      BY <1>2, <2>2, <2>3, <2>7, <3>1 DEF MapInv, SoundInv, Written
  <2>9. ParentInv'
    BY <1>2, <2>1, <2>2, <2>7 DEF MapInv, ParentInv, Roomy, Injecting
  <2>. QED
    BY <2>7, <2>8, <2>9 DEF MapInv
<1>. QED
  BY <1>1, <1>2 DEF WriteKey, Write, Fails

LEMMA KeyLengthStep ==
    ASSUME MapInv, WriteKeyLength
    PROVE  MapInv'
<1>1. CASE Fails("keyLength") /\ UNCHANGED slots
  BY <1>1, GivenUp DEF WriteKeyLength, Write, Fails, Failures, Injecting, Writing, Serious
<1>2. CASE pc' = "value" /\ slots' = [slots EXCEPT ![Slot(count)].len = TraceParent] /\ UNCHANGED failed
  <2>. DEFINE r == [slots[count] EXCEPT !.len = TraceParent]
  <2>1. /\ pc = "keyLength" /\ pc \in Writing /\ pc \in Injecting /\ pc' \in Writing /\ failed' = failed
        /\ UNCHANGED <<room, count, InjectorVars>>
    BY <1>2 DEF WriteKeyLength, Write, Injecting, Writing
  <2>2. /\ r \in SlotType /\ r.chars = slots[count].chars /\ r.top = slots[count].top
        /\ r.len = TraceParent /\ r.value = slots[count].value
    BY <2>1, InFirstBucket DEF SlotType
  <2>3. r.top = TRUE /\ r.value <= dos
    BY <2>1, <2>2, InFirstBucket DEF MapInv, PlaceInv, SlotType
  <2>4. failed' \subseteq Failures
    BY <2>1 DEF MapInv, MapTypes
  <2>5. slots' = [slots EXCEPT ![count] = r]
    BY <1>2 DEF Slot
  <2>. HIDE DEF r
  <2>6. /\ MapTypes' /\ PlaceInv' /\ CountInv' /\ RoomInv' /\ KeptInv'
        /\ slots'[count] = r /\ \A j \in AllSlots : j # count => slots'[j] = slots[j]
        /\ UNCHANGED <<buckets, room, count, dos, steps, own, deleted, crowded, parent>>
    BY <2>1, <2>2, <2>3, <2>4, <2>5, Overwrite
  <2>7. SoundInv'
    BY <1>2, <2>1, <2>2, <2>6, SlotFacts DEF MapInv, SoundInv, Written
  <2>8. ParentInv'
    <3>1. failed = {} => slots[count].chars = TraceParent
      BY <2>1 DEF MapInv, SoundInv
    <3>. QED
      BY <1>2, <2>1, <2>2, <2>6, <3>1 DEF MapInv, ParentInv, Roomy, Injecting
  <2>. QED
    BY <2>6, <2>7, <2>8 DEF MapInv
<1>. QED
  BY <1>1, <1>2 DEF WriteKeyLength, Write, Fails

LEMMA ValueStep ==
    ASSUME MapInv, WriteValue
    PROVE  MapInv'
<1>1. CASE \E what \in {"value", "valueRoom"} : Fails(what) /\ UNCHANGED <<slots, room, count, InjectorVars>>
  BY <1>1, GivenUp DEF WriteValue, Write, Fails, Failures, Injecting, Writing
<1>2. CASE /\ pc' = "size" /\ UNCHANGED <<room, count, InjectorVars>>
           /\ \/ slots' = [slots EXCEPT ![Slot(count)].value = dos] /\ UNCHANGED failed
              \/ /\ slots' = [slots EXCEPT ![Slot(count)].value = Broken]
                 /\ failed' = failed \cup {"textRoom"}
  <2>1. PICK x \in {dos, Broken} :
            /\ slots' = [slots EXCEPT ![count] = [slots[count] EXCEPT !.value = x]]
            /\ \/ x = dos /\ failed' = failed
               \/ failed' = failed \cup {"textRoom"}
    BY <1>2 DEF Slot
  <2>. DEFINE r == [slots[count] EXCEPT !.value = x]
  <2>2. pc = "value" /\ pc \in Writing /\ pc \in Injecting /\ pc' \in Writing
    BY <1>2 DEF WriteValue, Write, Injecting, Writing
  <2>3. /\ r \in SlotType /\ r.chars = slots[count].chars /\ r.top = slots[count].top
        /\ r.len = slots[count].len /\ r.value = x
    BY <2>2, InFirstBucket DEF SlotType
  <2>4. r.top = TRUE /\ r.value <= dos
    BY <2>2, <2>3, InFirstBucket DEF MapInv, PlaceInv, SlotType, Broken
  <2>5. failed \subseteq failed' /\ failed' \subseteq Failures
    BY <2>1 DEF MapInv, MapTypes, Failures
  <2>6. slots' = [slots EXCEPT ![count] = r]
    BY <2>1
  <2>. HIDE DEF r
  <2>7. /\ MapTypes' /\ PlaceInv' /\ CountInv' /\ RoomInv' /\ KeptInv'
        /\ slots'[count] = r /\ \A j \in AllSlots : j # count => slots'[j] = slots[j]
        /\ UNCHANGED <<buckets, room, count, dos, steps, own, deleted, crowded, parent>>
    BY <1>2, <2>2, <2>3, <2>4, <2>5, <2>6, Overwrite
  <2>8. SoundInv'
    <3>. SUFFICES ASSUME failed' \cap Serious = {} PROVE SoundInv'
      BY DEF SoundInv
    <3>1. failed \cap Serious = {} /\ x = dos
      BY <2>1, <2>5 DEF Serious
    <3>2. dos # Broken
      BY <2>2, InFirstBucket DEF Broken
    <3>3. slots[count].chars = slots[count].len /\ slots[count].chars # NoName
      BY <2>2, <3>1, InFirstBucket DEF MapInv, SoundInv, PlaceInv, Written
    <3>. QED
      BY <1>2, <2>2, <2>3, <2>7, <3>1, <3>2, <3>3 DEF MapInv, SoundInv, Written
  <2>9. ParentInv'
    <3>1. failed' = {} => failed = {} /\ x = dos
      BY <2>1
    <3>. QED
      BY <1>2, <2>2, <2>3, <2>7, <3>1 DEF MapInv, ParentInv, Roomy, Injecting
  <2>. QED
    BY <2>7, <2>8, <2>9 DEF MapInv
<1>. QED
  BY <1>1, <1>2 DEF WriteValue, Write, Fails

LEMMA SizeStep ==
    ASSUME MapInv, WriteSize
    PROVE  MapInv'
<1>1. CASE Fails("size") /\ UNCHANGED count
  BY <1>1, GivenUp DEF WriteSize, Fails, Failures, Injecting, Writing
<1>2. CASE count' = count + 1 /\ pc' = "sending" /\ UNCHANGED failed
  <2>1. /\ pc = "size"
        /\ UNCHANGED <<slots, room, buckets, dos, steps, own, deleted, crowded, parent, failed>>
    BY <1>2 DEF WriteSize, InjectorVars
  <2>2. /\ MapTypes /\ pc \in Injecting /\ pc \in Writing /\ count \in Nat /\ dos \in Nat /\ Slots \in Nat
        /\ count < Slots
    BY <2>1, InFirstBucket, SlotFacts DEF MapInv, MapTypes, Injecting, Writing
  <2>3. MapTypes'
    BY <1>2, <2>1, <2>2 DEF MapTypes, Places
  <2>4. PlaceInv'
    BY <1>2, <2>1, <2>2 DEF MapInv, PlaceInv, Injecting, Writing
  <2>5. CountInv'
    <3>1. /\ Taken' = Taken /\ NameSlots' = NameSlots /\ Cardinality(Taken) \in Nat
          /\ Cardinality(NameSlots) \in Nat
      BY <2>1, SomeSlots DEF Taken, NameSlots
    <3>2. /\ Cardinality(NameSlots) <= count /\ count < Cardinality(Taken) + dos
          /\ failed = {} => Cardinality(Taken) <= count + 1
      BY <2>1, <2>2, <3>1 DEF MapInv, CountInv
    <3>3. Cardinality(NameSlots') <= count' /\ count' <= Cardinality(Taken') + dos'
      BY <1>2, <2>1, <2>2, <3>1, <3>2
    <3>4. failed' = {} => Cardinality(Taken') <= count'
      BY <1>2, <2>1, <3>1, <3>2
    <3>. QED
      BY <1>2, <3>3, <3>4 DEF CountInv, Injecting, Writing
  <2>6. SoundInv' /\ RoomInv'
    BY <1>2, <2>1 DEF MapInv, SoundInv, RoomInv, Written
  <2>7. KeptInv'
    <3>1. AllSlots \subseteq Int
      BY DEF AllSlots
    <3>. QED
      BY <1>2, <2>1, <2>2, <3>1 DEF MapInv, KeptInv, Roomy, Writing
  <2>8. ParentInv'
    <3>1. count' \in 1..Slots /\ count' - 1 = count
      BY <1>2, <2>2
    <3>2. failed = {} => slots[count].chars = TraceParent /\ slots[count].value = dos
      BY <2>1 DEF MapInv, ParentInv
    <3>3. slots[count].top
      BY <2>2 DEF MapInv, PlaceInv
    <3>. QED
      BY <1>2, <2>1, <3>1, <3>2, <3>3 DEF MapInv, ParentInv, Roomy, Injecting, Writing
  <2>. QED
    BY <2>3, <2>4, <2>5, <2>6, <2>7, <2>8 DEF MapInv
<1>. QED
  BY <1>1, <1>2 DEF WriteSize, Fails

\* With memory for its buckets, what a request carries is sound if nothing serious failed.
LEMMA SoundIfRoom ==
    ASSUME MapInv, pc \notin Injecting, failed \cap Serious = {}, ~OutOfMemory
    PROVE  AllSound
<1>1. \A i \in AllSlots : slots[i].top => Written(i) /\ i < buckets * Slots
  BY DEF MapInv, SoundInv, PlaceInv, Injecting, Writing
<1>2. /\ Slots \in Nat /\ room \in Nat /\ buckets \in {1, 2} /\ room >= buckets * Slots
  <2>1. Slots \in Nat /\ room \in {0, Slots, 2 * Slots} /\ buckets \in {1, 2}
    BY SlotFacts DEF MapInv, MapTypes
  <2>. QED
    BY <2>1 DEF OutOfMemory
<1>3. \A i \in 0..buckets * Slots - 1 : i \in AllSlots /\ i < room
  BY <1>2 DEF AllSlots
<1>. QED
  BY <1>1, <1>3 DEF AllSound, Visible, Sound, Written

\* What the server finds, if nothing failed, is the context of the call in progress or of an
\* earlier one.
LEMMA ServerFindsCall ==
    ASSUME MapInv, pc = "sending", Roomy, dos \notin crowded
    PROVE  AllSound /\ TraceParents # {}
<1>1. /\ MapTypes /\ Slots \in Nat /\ Slots >= 1 /\ buckets \in {1, 2} /\ count \in Nat /\ dos >= 1
  BY SlotFacts DEF MapInv, MapTypes, PlaceInv
<1>2. /\ failed = {} /\ count \in 1..Slots /\ slots[count - 1].top
      /\ slots[count - 1].chars = TraceParent /\ slots[count - 1].value = dos
  BY DEF MapInv, ParentInv, Roomy
<1>3. room # 0
  BY <1>1, <1>2 DEF MapInv, RoomInv
<1>4. ~OutOfMemory
  BY <1>1, <1>3 DEF OutOfMemory, Roomy, MapTypes
<1>5. AllSound
  BY <1>2, <1>4, SoundIfRoom DEF Injecting, Writing
<1>6. Visible = {i \in 0..buckets * Slots - 1 : slots[i].top}
  BY <1>1, <1>2 DEF Visible
<1>7. count - 1 \in 0..buckets * Slots - 1
  BY <1>1, <1>2
<1>8. TraceParents # {}
  <2>1. count - 1 \in Visible
    BY <1>2, <1>6, <1>7
  <2>2. slots[count - 1].value > 0
    BY <1>1, <1>2 DEF MapTypes
  <2>. QED
    BY <1>2, <2>1, <2>2 DEF TraceParents, Null
<1>. QED
  BY <1>5, <1>8

\* The server reads what one of the request's headers was made from, or nothing.
LEMMA SendFinds ==
    ASSUME MapInv, Send
    PROVE  /\ dos \in 1..MaxDos /\ UNCHANGED dos
           /\ \A i \in TraceParents : slots[i].value \in 1..dos /\ slots[i].value \in 1..MaxDos
           /\ \A i \in TraceParents : FromW3C(ToW3C(ContextOf[slots[i].value])) = ContextOf[slots[i].value]
           /\ \/ parent' = parent
              \/ \E d \in 1..dos : parent' = [parent EXCEPT ![dos] = {ContextOf[d]}]
<1>1. /\ pc = "sending" /\ pc' = "program"
      /\ UNCHANGED <<buckets, room, slots, count, dos, steps, own, deleted, failed>>
      /\ crowded' = crowded \/ crowded' = crowded \cup {dos}
  BY DEF Send, Extract
<1>2. MapTypes /\ dos \in 1..MaxDos
  BY <1>1, SlotFacts DEF MapInv, MapTypes, PlaceInv
<1>3. \A i \in TraceParents : slots[i].value \in 1..dos /\ slots[i].value \in 1..MaxDos
  <2>1. TraceParents \subseteq AllSlots
    <3>1. buckets \in {1, 2} /\ Slots \in Nat
      BY <1>2, SlotFacts DEF MapTypes
    <3>. QED
      BY <3>1 DEF TraceParents, Visible, AllSlots
  <2>2. \A i \in AllSlots : slots[i].value > 0 => slots[i].value \in 1..MaxDos
    BY <1>2 DEF MapTypes, SlotType, Null, Own, Broken
  <2>3. \A i \in AllSlots : slots[i].value <= dos
    BY DEF MapInv, PlaceInv
  <2>. QED
    BY <1>2, <2>1, <2>2, <2>3 DEF TraceParents, Null
<1>4. \A i \in TraceParents : FromW3C(ToW3C(ContextOf[slots[i].value])) = ContextOf[slots[i].value]
  BY <1>3, MapAssumption, RoundTrip
<1>5. \/ parent' = parent
      \/ \E d \in 1..dos : parent' = [parent EXCEPT ![dos] = {ContextOf[d]}]
  <2>1. CASE \E i \in TraceParents : parent' = [parent EXCEPT ![dos] = {FromW3C(ToW3C(ContextOf[slots[i].value]))}]
    BY <1>3, <1>4, <2>1
  <2>2. CASE parent' = parent
    BY <2>2
  <2>. QED
    BY <2>1, <2>2 DEF Send, Extract
<1>. QED
  BY <1>1, <1>2, <1>3, <1>4, <1>5

LEMMA SendStep ==
    ASSUME MapInv, Send
    PROVE  MapInv'
<1>1. /\ pc = "sending" /\ pc' = "program"
      /\ UNCHANGED <<buckets, room, slots, count, dos, steps, own, deleted, failed>>
      /\ crowded' = crowded \/ crowded' = crowded \cup {dos}
  BY DEF Send, Extract
<1>2. MapTypes /\ dos \in 1..MaxDos
  BY <1>1, SlotFacts DEF MapInv, MapTypes, PlaceInv
<1>3. \A i \in TraceParents : slots[i].value \in 1..dos /\ slots[i].value \in 1..MaxDos
  BY SendFinds
<1>4. \A i \in TraceParents : FromW3C(ToW3C(ContextOf[slots[i].value])) = ContextOf[slots[i].value]
  BY SendFinds
<1>5. \/ parent' = parent
      \/ \E d \in 1..dos : parent' = [parent EXCEPT ![dos] = {ContextOf[d]}]
  BY SendFinds
<1>6. 1..dos \subseteq 1..MaxDos
  BY <1>2, SlotFacts
<1>7. MapTypes'
  <2>1. parent' \in [1..MaxDos -> {{}} \cup {{ContextOf[c]} : c \in 1..MaxDos}]
    BY <1>2, <1>5, <1>6 DEF MapTypes
  <2>2. crowded \subseteq 1..dos /\ dos \in 1..dos
    BY <1>2 DEF MapTypes
  <2>3. crowded' \subseteq 1..dos'
    BY <1>1, <2>2
  <2>. QED
    BY <1>1, <1>2, <2>1, <2>3 DEF MapTypes, Places
<1>8. ASSUME NEW c \in 1..dos, c < dos PROVE parent'[c] = parent[c]
  <2>1. parent \in [1..MaxDos -> {{}} \cup {{ContextOf[e]} : e \in 1..MaxDos}] /\ c \in 1..MaxDos
    BY <1>2, <1>6 DEF MapTypes
  <2>2. c # dos
    BY <1>2, <1>8
  <2>. QED
    BY <1>5, <2>1, <2>2
<1>9. PlaceInv' /\ SoundInv' /\ RoomInv' /\ KeptInv'
  BY <1>1 DEF MapInv, PlaceInv, SoundInv, RoomInv, KeptInv, Written, Roomy, Injecting, Writing
<1>10. CountInv'
  <2>1. Taken' = Taken /\ NameSlots' = NameSlots
    BY <1>1 DEF Taken, NameSlots
  <2>. QED
    BY <1>1, <2>1 DEF MapInv, CountInv, Injecting, Writing
<1>11. ParentInv'
  <2>1. ASSUME Roomy, NEW c \in 1..dos
        PROVE  c \in crowded' \/ \E d \in 1..c : parent'[c] = {ContextOf[d]}
    <3>1. CASE c < dos
      BY <1>1, <1>8, <2>1, <3>1 DEF MapInv, ParentInv
    <3>2. CASE c = dos /\ dos \notin crowded'
      <4>1. AllSound /\ TraceParents # {}
        BY <1>1, <2>1, <3>2, ServerFindsCall
      <4>2. \E d \in 1..dos : parent' = [parent EXCEPT ![dos] = {ContextOf[d]}]
        <5>1. Extract
          BY <4>1 DEF Send
        <5>2. PICK n \in Added :
                 LET many == Cardinality(Visible) + n > Slots
                 IN  /\ crowded' = IF many THEN crowded \cup {dos} ELSE crowded
                     /\ \/ \E i \in TraceParents :
                              parent' = [parent EXCEPT ![dos] = {FromW3C(ToW3C(ContextOf[slots[i].value]))}]
                        \/ (TraceParents = {} \/ many) /\ UNCHANGED parent
          BY <5>1 DEF Extract
        <5>3. \E i \in TraceParents :
                 parent' = [parent EXCEPT ![dos] = {FromW3C(ToW3C(ContextOf[slots[i].value]))}]
          BY <3>2, <4>1, <5>2
        <5>. QED
          BY <1>3, <1>4, <5>3
      <4>. QED
        BY <1>2, <3>2, <4>2 DEF MapTypes
    <3>. QED
      BY <1>2, <3>1, <3>2
  <2>. QED
    BY <1>1, <2>1 DEF ParentInv, Roomy, Injecting, Writing
<1>. QED
  BY <1>7, <1>9, <1>10, <1>11 DEF MapInv

LEMMA MapStep == MapInv /\ [Next]_vars => MapInv'
<1>. SUFFICES ASSUME MapInv, [Next]_vars PROVE MapInv'
  OBVIOUS
<1>1. CASE MapNext
  BY <1>1, SetStep, DelStep, DoStep, NewBucketStep, TophashStep, KeyStep, KeyLengthStep, ValueStep,
     SizeStep, SendStep DEF MapNext
<1>2. CASE UNCHANGED mapVars
  BY <1>2 DEF mapVars, MapInv, MapTypes, PlaceInv, CountInv, SoundInv, RoomInv, KeptInv, ParentInv,
              Taken, NameSlots, Written, Roomy
<1>. QED
  BY <1>1, <1>2 DEF Next, vars

LEMMA MapInvariant == Spec => []MapInv
<1>1. Init => MapInv
  BY MapInitially DEF Init
<1>. QED
  BY <1>1, MapStep, PTL DEF Spec

LEMMA FoundStep == MapInv /\ FoundInv /\ [Next]_vars => FoundInv'
<1>. SUFFICES ASSUME MapInv, FoundInv, [Next]_vars PROVE FoundInv'
  OBVIOUS
<1>1. CASE UNCHANGED <<dos, parent>>
  BY <1>1 DEF FoundInv
<1>2. CASE Do
  <2>1. /\ dos' = dos + 1 /\ parent' = parent /\ dos \in Nat /\ dos' <= MaxDos /\ MaxDos \in Nat
    BY <1>2, SlotFacts DEF Do, MapInv, MapTypes
  <2>2. \A c \in 1..dos' : c \in 1..dos \/ (c \in 1..MaxDos /\ c > dos)
    BY <2>1
  <2>. QED
    BY <2>1, <2>2 DEF FoundInv
<1>3. CASE Send
  <2>1. dos \in 1..MaxDos /\ UNCHANGED dos /\ MaxDos \in Nat
    BY <1>3, SendFinds, SlotFacts
  <2>2. CASE parent' = parent
    BY <2>1, <2>2 DEF FoundInv
  <2>3. CASE \E d \in 1..dos : parent' = [parent EXCEPT ![dos] = {ContextOf[d]}]
    <3>1. PICK d \in 1..dos : parent' = [parent EXCEPT ![dos] = {ContextOf[d]}]
      BY <2>3
    <3>2. DOMAIN parent = 1..MaxDos
      BY DEF MapInv, MapTypes
    <3>3. parent'[dos] = {ContextOf[d]} /\ \A c \in 1..MaxDos : c # dos => parent'[c] = parent[c]
      BY <2>1, <3>1, <3>2
    <3>4. \A c \in 1..dos : c \in 1..MaxDos
      BY <2>1
    <3>5. \A c \in 1..MaxDos : c > dos => c # dos
      BY <2>1
    <3>. QED
      BY <2>1, <3>3, <3>4, <3>5 DEF FoundInv
  <2>. QED
    BY <1>3, <2>2, <2>3, SendFinds
<1>4. CASE MapNext
  <2>1. \/ Do \/ Send
        \/ UNCHANGED <<dos, parent>>
    BY <1>4 DEF MapNext, Set, Del, NewBucket, WriteTophash, WriteKey, WriteKeyLength, WriteValue,
                WriteSize, Write, InjectorVars
  <2>. QED
    BY <1>1, <1>2, <1>3, <2>1
<1>. QED
  BY <1>1, <1>4 DEF Next, vars, mapVars

LEMMA FoundInvariant == Spec => []FoundInv
<1>1. Init => FoundInv
  BY MapAssumption DEF Init, MapInit, FoundInv
<1>. QED
  BY <1>1, FoundStep, MapInvariant, PTL DEF Spec

\* inject_header leaves nothing unsound in a request that goes out, in whatever order headers
\* are set and deleted and calls made with it, but where the run's property says why.
THEOREM RequestCorrect == Spec => []RequestSound
<1>1. MapInv => RequestSound
  BY SoundIfRoom DEF RequestSound, Serious, Injecting, Writing
<1>. QED
  BY <1>1, MapInvariant, PTL

\* The slot that inject_header takes, whose number is the count, is never one of the program's
\* headers, unless one has been deleted.
THEOREM OwnHeadersCorrect == Spec => []OwnHeadersKept
<1>1. ASSUME MapInv PROVE OwnHeadersKept
  <2>. SUFFICES ASSUME pc = "sending", ~deleted, failed = {}, ~OutOfMemory, NEW name \in own
                PROVE  \E i \in Visible : Sound(i) /\ slots[i].chars = name /\ slots[i].value = Own
    BY DEF OwnHeadersKept
  <2>1. /\ MapTypes /\ Slots \in Nat /\ buckets \in {1, 2} /\ room \in {0, Slots, 2 * Slots}
    BY <1>1, SlotFacts DEF MapInv, MapTypes
  <2>2. Roomy
    BY <2>1, SlotFacts DEF Roomy, OutOfMemory
  <2>3. PICK i \in AllSlots :
            slots[i].top /\ slots[i].chars = name /\ slots[i].len = name /\ slots[i].value = Own
    BY <1>1, <2>2 DEF MapInv, KeptInv
  <2>4. count > 0
    BY <1>1, <2>2 DEF MapInv, KeptInv
  <2>5. i \in 0..buckets * Slots - 1
    <3>1. i < buckets * Slots
      BY <1>1, <2>3 DEF MapInv, PlaceInv
    <3>. QED
      BY <2>1, <3>1 DEF AllSlots
  <2>6. i \in Visible
    BY <2>1, <2>3, <2>4, <2>5 DEF Visible, MapTypes
  <2>7. AllSound
    BY <1>1, SoundIfRoom DEF Injecting, Writing
  <2>. QED
    BY <2>3, <2>6, <2>7 DEF AllSound
<1>. QED
  BY <1>1, MapInvariant, PTL

\* The server's parent is the context of the call, byte for byte, or of an earlier one with the
\* same request; there is none only where something failed, or there was too much or too little.
THEOREM ParentCorrect == Spec => []ParentIsCaller
<1>1. ASSUME MapInv, FoundInv PROVE ParentIsCaller
  <2>. SUFFICES ASSUME NEW c \in 1..dos, c < dos \/ pc = "program",
                       ~\E d \in 1..c : parent[c] = {ContextOf[d]}
                PROVE  parent[c] = {} /\ (failed # {} \/ c \in crowded \/ OutOfMemory)
    BY DEF ParentIsCaller
  <2>1. parent[c] = {}
    BY <1>1 DEF FoundInv
  <2>2. ASSUME failed = {}, c \notin crowded, ~OutOfMemory PROVE FALSE
    <3>1. /\ Slots \in Nat /\ buckets \in {1, 2} /\ room \in {0, Slots, 2 * Slots} /\ dos \in Nat
      BY <1>1, SlotFacts DEF MapInv, MapTypes
    <3>2. Roomy
      BY <2>2, <3>1, SlotFacts DEF Roomy, OutOfMemory
    <3>. QED
      BY <1>1, <2>2, <3>2 DEF MapInv, ParentInv
  <2>. QED
    BY <2>1, <2>2
<1>. QED
  BY <1>1, MapInvariant, FoundInvariant, PTL

FailureTypes ==
    failures \subseteq {"keyText", "keyString", "valueText", "valueString",
                        "item", "copy", "room", "array", "cap", "len"}

\* The types of both protocols' state; of the map's, that its count stays within what it has
\* slots for and the calls of Do.
THEOREM HeaderTypesCorrect == Spec => []TypeOK
<1>1. Init => ListInv
  BY ListInitially DEF Init
<1>3. ASSUME MapInv PROVE MapTypeOK
  <2>1. /\ MapTypes /\ Taken \in SUBSET AllSlots
    BY <1>3 DEF MapInv, Taken
  <2>2. /\ Cardinality(Taken) \in Nat /\ Cardinality(Taken) <= 2 * Slots
        /\ count <= Cardinality(Taken) + dos /\ dos \in 0..MaxDos /\ count \in Nat
        /\ Slots \in Nat /\ MaxDos \in Nat
    BY <1>3, <2>1, SomeSlots, SlotFacts DEF MapInv, CountInv, MapTypes
  <2>3. count \in 0..2 * Slots + MaxDos
    BY <2>2
  <2>. QED
    BY <1>3, <2>1, <2>3 DEF MapInv, MapTypes, PlaceInv, MapTypeOK, SlotType
<1>4. ASSUME ListInv, FailureTypes PROVE ListTypeOK
  BY <1>4 DEF ListInv, ListTypes, ListTypeOK, FailureTypes
<1>5. Init => FailureTypes
  BY DEF Init, ListInit, FailureTypes
<1>6. FailureTypes /\ [Next]_vars => FailureTypes'
  BY DEF FailureTypes, Next, vars, ListNext, listVars, WriteKeyString, WriteValueString, Choose, WriteItem,
         WriteArray, WriteCap, WriteLen, Decode, Failing
<1>. QED
  BY <1>1, <1>3, <1>4, <1>5, <1>6, ListStep, MapInvariant, PTL DEF Spec, TypeOK
===============================================================================
