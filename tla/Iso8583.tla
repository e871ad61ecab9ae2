------------------------------- MODULE Iso8583 -------------------------------
(***************************************************************************)
(* ISO8583Codec (app/iso8583.py) as operators: Encode of a message is its  *)
(* bytes or Rejected, Decode of bytes is a message or Rejected, whichever  *)
(* ISO8583CodecError the code raises.                                      *)
(*                                                                         *)
(* A byte is a number; an MTI, a text and a binary value are sequences of  *)
(* bytes; a message is [mti, fields], fields a function from the numbers   *)
(* of its data elements.                                                   *)
(***************************************************************************)
EXTENDS Integers, SequencesExt, FiniteSetsExt

CONSTANTS
  FieldSpecs,  \* the profile: a FieldSpec for each registered number
  Rejected

FieldSpec ==
  [type : {"n", "ans", "binary"}, length : {"fixed", "llvar", "lllvar"},
   min : Nat, max : Nat \ {0}]

ASSUME ProfileAssumption ==
  /\ DOMAIN FieldSpecs \subseteq 2..128
  /\ \A n \in DOMAIN FieldSpecs :
       LET spec == FieldSpecs[n]
       IN  /\ spec \in FieldSpec /\ spec.min <= spec.max
           /\ spec.length = "fixed" => spec.min = 0
           /\ spec.length = "llvar" => spec.max <= 99
           /\ spec.length = "lllvar" => spec.max <= 999

Field(type, length, min, max) == [type |-> type, length |-> length, min |-> min, max |-> max]
Fixed(type, max) == Field(type, "fixed", 0, max)

\* DEFAULT_FIELD_SPECS
DefaultFieldSpecs ==
  [n \in {2, 3, 4, 7, 11, 12, 13, 37, 38, 39, 41, 42, 49, 52, 55, 70} |->
     CASE n = 2 -> Field("n", "llvar", 1, 19)
       [] n \in {3, 11, 12} -> Fixed("n", 6)   [] n = 4 -> Fixed("n", 12)
       [] n = 7 -> Fixed("n", 10)              [] n = 13 -> Fixed("n", 4)
       [] n \in {49, 70} -> Fixed("n", 3)      [] n = 37 -> Fixed("ans", 12)
       [] n = 38 -> Fixed("ans", 6)            [] n = 39 -> Fixed("ans", 2)
       [] n = 41 -> Fixed("ans", 8)            [] n = 42 -> Fixed("ans", 15)
       [] n = 52 -> Fixed("binary", 8)
       [] n = 55 -> Field("binary", "lllvar", 1, 999)]

-----------------------------------------------------------------------------
(* Numbers, texts and bitmaps *)

Byte == 0..255
Digits == 48..57
Printable == 32..126

AllIn(bytes, S) == \A i \in DOMAIN bytes : bytes[i] \in S

Number(digits) == FoldLeft(LAMBDA n, d : 10 * n + (d - 48), 0, digits)
Decimal(n, width) == [i \in 1..width |-> 48 + ((n \div <<100, 10, 1>>[3 - width + i]) % 10)]

\* Bit 1 is the most significant bit of the first of eight bytes.
Weights == <<128, 64, 32, 16, 8, 4, 2, 1>>
BitSet(byte, k) == (byte \div Weights[k]) % 2 = 1

BugBitsFromZero(bits) ==
  [i \in 1..8 |->
     LET bit(k) == IF 8 * i - 9 + k \in bits THEN Weights[k] ELSE 0
     IN  bit(1) + bit(2) + bit(3) + bit(4) + bit(5) + bit(6) + bit(7) + bit(8)]
Bitmap(bits) ==
  [i \in 1..8 |->
     LET bit(k) == IF 8 * i - 8 + k \in bits THEN Weights[k] ELSE 0
     IN  bit(1) + bit(2) + bit(3) + bit(4) + bit(5) + bit(6) + bit(7) + bit(8)]
Bits(bytes) == {n \in 1..64 : BitSet(bytes[((n - 1) \div 8) + 1], ((n - 1) % 8) + 1)}

ValidMti(mti) == Len(mti) = 4 /\ AllIn(mti, Digits)

-----------------------------------------------------------------------------
(* Fields *)

PrefixWidth(spec) ==
  CASE spec.length = "fixed" -> 0 [] spec.length = "llvar" -> 2 [] spec.length = "lllvar" -> 3

LengthAllowed(spec, n) ==
  IF spec.length = "fixed" THEN n = spec.max ELSE n \in spec.min..spec.max

WellTyped(spec, value) ==
  CASE spec.type = "n" -> AllIn(value, Digits)
    [] spec.type = "ans" -> AllIn(value, Printable)
    [] spec.type = "binary" -> TRUE

Encodable(n, value) ==
  /\ n \in DOMAIN FieldSpecs
  /\ LengthAllowed(FieldSpecs[n], Len(value))
  /\ WellTyped(FieldSpecs[n], value)

EncodeField(n, value) == Decimal(Len(value), PrefixWidth(FieldSpecs[n])) \o value

\* One more field
With(fields, n, value) ==
  [m \in DOMAIN fields \union {n} |-> IF m = n THEN value ELSE fields[m]]

\* _decode_field: what has been read, and the next field after it; Failed if the
\* code raises.
Failed == [offset |-> -1, fields |-> <<>>]

BugLengthUnchecked(raw, read, n) ==
  LET spec == FieldSpecs[n]
      start == read.offset + PrefixWidth(spec)
      prefix == SubSeq(raw, read.offset + 1, start)
      end == start + (IF spec.length = "fixed" THEN spec.max ELSE Number(prefix))
      value == SubSeq(raw, start + 1, end)
  IN  IF /\ read # Failed /\ n \in DOMAIN FieldSpecs
         /\ start <= Len(raw) /\ AllIn(prefix, Digits)
         /\ end <= Len(raw) /\ WellTyped(spec, value)
      THEN [offset |-> end, fields |-> With(read.fields, n, value)]
      ELSE Failed
ReadField(raw, read, n) ==
  LET spec == FieldSpecs[n]
      start == read.offset + PrefixWidth(spec)
      prefix == SubSeq(raw, read.offset + 1, start)
      length == IF spec.length = "fixed" THEN spec.max ELSE Number(prefix)
      end == start + length
      value == SubSeq(raw, start + 1, end)
  IN  IF /\ read # Failed /\ n \in DOMAIN FieldSpecs
         /\ start <= Len(raw) /\ AllIn(prefix, Digits)
         /\ LengthAllowed(spec, length)
         /\ end <= Len(raw) /\ WellTyped(spec, value)
      THEN [offset |-> end, fields |-> With(read.fields, n, value)]
      ELSE Failed

-----------------------------------------------------------------------------
(* Messages *)

\* The fields one after the other, the smallest number first
Body(fields) ==
  MapThenFoldSet(LAMBDA n, bytes : bytes \o EncodeField(n, fields[n]), <<>>,
                 LAMBDA n : n, Max, DOMAIN fields)

Encode(message) ==
  LET numbers == DOMAIN message.fields
      high == {n \in numbers : n > 64}
      primary == (numbers \ high) \union (IF high = {} THEN {} ELSE {1})
  IN  IF ValidMti(message.mti) /\ \A n \in numbers : Encodable(n, message.fields[n])
      THEN message.mti \o Bitmap(primary)
             \o (IF high = {} THEN <<>> ELSE Bitmap({n - 64 : n \in high}))
             \o Body(message.fields)
      ELSE Rejected

HasSecondary(raw) == 1 \in Bits(SubSeq(raw, 5, 12))
BitmapEnd(raw) == IF HasSecondary(raw) THEN 20 ELSE 12

\* Element 1 announces the secondary bitmap and is no data.
FieldNumbers(raw) ==
  (Bits(SubSeq(raw, 5, 12)) \ {1})
    \union (IF HasSecondary(raw) THEN {n + 64 : n \in Bits(SubSeq(raw, 13, 20))} ELSE {})

ReadFields(raw) ==
  MapThenFoldSet(LAMBDA n, read : ReadField(raw, read, n),
                 [offset |-> BitmapEnd(raw), fields |-> <<>>],
                 LAMBDA n : n, Max, FieldNumbers(raw))

Decode(raw) ==
  LET read == ReadFields(raw)
      mti == SubSeq(raw, 1, 4)
  IN  IF /\ Len(raw) >= 12 /\ ValidMti(mti) /\ Len(raw) >= BitmapEnd(raw)
         /\ read.offset = Len(raw)
      THEN [mti |-> mti, fields |-> read.fields]
      ELSE Rejected
=============================================================================
