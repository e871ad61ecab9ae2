------------------------------- MODULE BerTlv -------------------------------
(***************************************************************************)
(* The BER-TLV parser of app/emv.py.  Parse of bytes is the sequence of    *)
(* their items or Rejected, whichever EMVTLVError the code raises.  An     *)
(* item is [tag, value, children]: tag and value are its bytes, and        *)
(* children the items in the value of a constructed tag.                   *)
(***************************************************************************)
EXTENDS Integers, SequencesExt, FiniteSetsExt

CONSTANTS
  MaxTagBytes, MaxLengthBytes, MaxNesting,  \* MAX_TAG_BYTES and so on
  Rejected

Constructed(tag) == (tag[1] \div 32) % 2 = 1

\* _read_tag: how many bytes are the tag, 0 if they are no tag.
TagSize(bytes) ==
  LET last == {i \in 2..Len(bytes) : i <= MaxTagBytes /\ bytes[i] < 128}
  IN  CASE bytes[1] \in {0, 255} -> 0
        [] bytes[1] \notin {0, 255} /\ bytes[1] % 32 # 31 -> 1
        [] OTHER -> IF last # {} /\ bytes[2] % 128 # 0 THEN Min(last) ELSE 0

\* _read_length: the length, and how many bytes say so; 0 bytes if it is none.
BugAnyLongForm(bytes, size) == bytes[1] - 128 \in 1..MaxLengthBytes /\ size <= Len(bytes)
LongForm(bytes, size) ==
  /\ bytes[1] - 128 \in 1..MaxLengthBytes
  /\ size <= Len(bytes)
  /\ bytes[2] # 0 /\ (size = 2 => bytes[2] >= 128)

\* int.from_bytes
BigEndian(bytes) == FoldLeft(LAMBDA n, b : 256 * n + b, 0, bytes)

ReadLength(bytes) ==
  LET size == bytes[1] - 127
  IN  CASE bytes = <<>> -> [size |-> 0, length |-> 0]
        [] bytes # <<>> /\ bytes[1] < 128 -> [size |-> 1, length |-> bytes[1]]
        [] OTHER -> IF LongForm(bytes, size)
                    THEN [size |-> size, length |-> BigEndian(SubSeq(bytes, 2, size))]
                    ELSE [size |-> 0, length |-> 0]

\* The first item of some bytes: its tag, its value, and the bytes after it
ReadItem(bytes) ==
  LET tagSize == TagSize(bytes)
      tag == SubSeq(bytes, 1, tagSize)
      read == ReadLength(SubSeq(bytes, tagSize + 1, Len(bytes)))
      start == tagSize + read.size
      end == start + read.length
      value == SubSeq(bytes, start + 1, end)
  IN  IF /\ tagSize > 0 /\ read.size > 0 /\ end <= Len(bytes)
         /\ Constructed(tag) => value # <<>>
      THEN [tag |-> tag, value |-> value, rest |-> SubSeq(bytes, end + 1, Len(bytes))]
      ELSE Rejected

\* _parse_items of some bytes at some depth: one item, and then the rest
ParseItems[at \in Seq(0..255) \X Nat] ==
  LET bytes == at[1]
      depth == at[2]
      item == ReadItem(bytes)
      children == IF Constructed(item.tag) THEN ParseItems[<<item.value, depth + 1>>] ELSE <<>>
      rest == ParseItems[<<item.rest, depth>>]
  IN  IF bytes = <<>> /\ depth <= MaxNesting THEN <<>>
      ELSE IF /\ depth <= MaxNesting /\ item # Rejected
              /\ children # Rejected /\ rest # Rejected
           THEN <<[tag |-> item.tag, value |-> item.value, children |-> children]>> \o rest
           ELSE Rejected

\* parse_ber_tlv, and decode_de55
Parse(bytes) == IF bytes = <<>> THEN Rejected ELSE ParseItems[<<bytes, 0>>]

-----------------------------------------------------------------------------
(* What BER says of the same items: the reference the parser is held to.   *)

\* The shortest encoding of a length
BerLength(n) ==
  LET low == n % 256
      middle == (n \div 256) % 256
      high == (n \div 256) \div 256
  IN  CASE n < 128 -> <<n>>
        [] n >= 128 /\ high = 0 /\ middle = 0 -> <<129, low>>
        [] n >= 128 /\ high = 0 /\ middle # 0 -> <<130, middle, low>>
        [] n >= 128 /\ high # 0 -> <<131, high, middle, low>>

Ber(tag, value) == tag \o BerLength(Len(value)) \o value

\* The bytes of items, one after the other
BerItems(items) == FoldLeft(LAMBDA bytes, item : bytes \o Ber(item.tag, item.value), <<>>, items)

\* The templates among the items of a node: each a value and the items in it
Nested(node) ==
  {[value |-> item.value, items |-> item.children]
     : item \in {i \in ToSet(node.items) : Constructed(i.tag)}}

\* The nodes nested d deep in the items of some bytes
Level(bytes, items) ==
  LET level[d \in Nat] ==
        IF d = 0 THEN {[value |-> bytes, items |-> items]}
        ELSE UNION {Nested(node) : node \in level[d - 1]}
  IN  level
=============================================================================
