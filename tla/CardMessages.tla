---------------------------- MODULE CardMessages ----------------------------
(***************************************************************************)
(* A card message on its way through the adapters, the path drawn in       *)
(* docs/canonical-payment-model.md: a canonical request is mapped to an    *)
(* ISO 8583 message and encoded; the bytes are what arrives, whole or      *)
(* altered; they are decoded, mapped back, routed and projected, and DE55  *)
(* is parsed where a caller asks for it.  Each adapter is a pure function; *)
(* the state is how far a message has come and what each made of it.       *)
(***************************************************************************)
EXTENDS Canonical

CONSTANTS
  Requests,   \* canonical requests to send
  Messages,   \* other ISO 8583 messages to send
  Payloads,   \* bytes of other senders
  MessageIds, \* message_id of the projections, which callers choose
  MaxEdits,   \* bound on the alterations of the bytes
  MaxTagBytes, MaxLengthBytes, MaxNesting

ASSUME InputsAssumption ==
  /\ \A r \in Requests : r \in AuthorizationRequest /\ ValidRequest(r)
  /\ \A m \in Messages :
       /\ m = [mti |-> m.mti, fields |-> m.fields]
       /\ m.mti \in Seq(Byte) /\ m.fields \in [DOMAIN m.fields -> Seq(Byte)]
  /\ \A bytes \in Payloads : bytes \in Seq(Byte)
  /\ Rejected \notin Requests
  \* The adapter's elements are those of the shipped profile.
  /\ \A n \in RequiredText \union {55} :
       n \in DOMAIN FieldSpecs /\ FieldSpecs[n] = DefaultFieldSpecs[n]
  /\ MaxEdits \in Nat
  /\ MaxTagBytes \in Nat \ {0} /\ MaxLengthBytes \in 1..3 /\ MaxNesting \in Nat

Tlv == INSTANCE BerTlv

VARIABLES
  stage,     \* how far the message is
  request,   \* the request sent, None if there is none
  sent,      \* the message encoded, None if there is none
  wire,      \* the bytes
  edits,     \* how often they were altered
  received,  \* what decode made of them
  accepted,  \* what authorization_from_iso8583 made of that
  chip       \* what decode_de55 made of DE55, None if it was not asked

vars == <<stage, request, sent, wire, edits, received, accepted, chip>>

Init ==
  /\ stage = "start" /\ wire = <<>> /\ edits = 0
  /\ request = None /\ sent = None
  /\ received = Rejected /\ accepted = Rejected /\ chip = None

-----------------------------------------------------------------------------
(* The sender *)

Transmit(r, message) ==
  /\ stage = "start"
  /\ request' = r /\ sent' = message
  /\ wire' = Encode(message)
  /\ stage' = IF wire' = Rejected THEN "refused" ELSE "wire"
  /\ UNCHANGED <<edits, received, accepted, chip>>

SendRequest(r) ==
  /\ ToIso8583(r) # Rejected
  /\ Transmit(r, ToIso8583(r))

\* ISO8583MappingError
RefuseRequest(r) ==
  /\ stage = "start" /\ ToIso8583(r) = Rejected
  /\ request' = r /\ stage' = "refused"
  /\ UNCHANGED <<sent, wire, edits, received, accepted, chip>>

SendMessage(m) == Transmit(None, m)

SendPayload(bytes) ==
  /\ stage = "start"
  /\ wire' = bytes /\ stage' = "wire"
  /\ UNCHANGED <<request, sent, edits, received, accepted, chip>>

-----------------------------------------------------------------------------
(* The way: bits flip, bytes are lost or doubled, the end is cut off. *)

FlipBit(byte, k) == IF BitSet(byte, k) THEN byte - Weights[k] ELSE byte + Weights[k]

Altered(bytes) ==
  UNION {{ReplaceAt(bytes, i, FlipBit(bytes[i], k)) : k \in 1..8}
         \union {RemoveAt(bytes, i), InsertAt(bytes, i, bytes[i]), SubSeq(bytes, 1, i - 1)}
         : i \in DOMAIN bytes}

Alter ==
  /\ stage = "wire" /\ edits < MaxEdits
  /\ wire' \in Altered(wire)
  /\ edits' = edits + 1
  /\ UNCHANGED <<stage, request, sent, received, accepted, chip>>

-----------------------------------------------------------------------------
(* The receiver *)

Receive ==
  /\ stage = "wire"
  /\ received' = Decode(wire)
  /\ stage' = IF received' = Rejected THEN "refused" ELSE "decoded"
  /\ UNCHANGED <<request, sent, wire, edits, accepted, chip>>

Accept ==
  /\ stage = "decoded"
  /\ accepted' = FromIso8583(received)
  /\ stage' = IF accepted' = Rejected THEN "refused" ELSE "accepted"
  /\ UNCHANGED <<request, sent, wire, edits, received, chip>>

\* decode_de55, a caller's choice
ReadChip ==
  /\ stage \in {"decoded", "accepted"} /\ chip = None
  /\ 55 \in DOMAIN received.fields
  /\ chip' = Tlv!Parse(received.fields[55])
  /\ UNCHANGED <<stage, request, sent, wire, edits, received, accepted>>

Next ==
  \/ \E r \in Requests : SendRequest(r) \/ RefuseRequest(r)
  \/ \E m \in Messages : SendMessage(m)
  \/ \E bytes \in Payloads : SendPayload(bytes)
  \/ Alter \/ Receive \/ Accept \/ ReadChip

Spec == Init /\ [][Next]_vars

-----------------------------------------------------------------------------
(* Properties *)

\* What was sent arrives: bytes nobody altered are decoded to the very message
\* that was encoded, and mapped back to the very request it was made from.
LosslessOnTheWire ==
  edits = 0 /\ sent # None =>
    /\ stage = "refused" => wire = Rejected \/ (received = sent /\ request = None)
    /\ stage \in {"decoded", "accepted"} => received = sent
    /\ stage = "accepted" /\ request # None => accepted = request

\* The receiver takes bytes in one form only: whatever was altered, what decode
\* accepts is what encode gives for the message it makes of it, except that an
\* announced secondary bitmap may be empty.
OneFormPerMessage ==
  received # Rejected =>
    LET bytes == Encode(received)
        primary == Bits(SubSeq(wire, 5, 12)) \ {1}
    IN  \/ bytes = wire
        \/ /\ HasSecondary(wire) /\ SubSeq(wire, 13, 20) = Bitmap({})
           /\ bytes = SubSeq(wire, 1, 4) \o Bitmap(primary) \o SubSeq(wire, 21, Len(wire))

\* The canonical request keeps all that is mapped: taken back to ISO 8583 it is
\* the received message without the elements that have no canonical field.
MappingKeepsElements ==
  accepted # Rejected =>
    LET back == ToIso8583(accepted)
        kept == DOMAIN received.fields \intersect (RequiredText \union {55})
    IN  back = [mti |-> received.mti, fields |-> [n \in kept |-> received.fields[n]]]

\* The losses a projection declares are all it loses: what comes back from the
\* ISO 20022 authorization is the request, less the ICC data if and only if
\* their loss was declared, given the STAN whose loss is always declared,
\* under whichever message_id.
LossesAreDeclared ==
  accepted # Rejected =>
    \A id \in MessageIds :
      LET projection == ToIso20022(accepted, id)
          back == FromIso20022(projection.authorization, accepted.stan)
      IN  projection # Rejected =>
            back = IF "icc_data_not_projected" \in projection.losses
                   THEN [accepted EXCEPT !.icc_data = None] ELSE accepted

\* DE55 has one reading: the items the parser gives encode, each with its length
\* in the shortest form, to the very bytes, so do the items of every template, and
\* none is nested deeper than the limit.
ChipDataHasOneForm ==
  chip \notin {None, Rejected} =>
    LET level == Tlv!Level(received.fields[55], chip)
    IN  /\ \A d \in 0..MaxNesting : \A node \in level[d] : Tlv!BerItems(node.items) = node.value
        /\ level[MaxNesting + 1] = {}

\* The routes that serve a request: its PAN has the digits of the prefix, one by
\* one, and its currency is one of theirs.
Serving(r) ==
  {j \in DOMAIN Routes :
     /\ r.currency \in Routes[j].currencies
     /\ \A n \in DOMAIN Routes[j].prefix :
          n \in DOMAIN r.pan /\ r.pan[n] = Routes[j].prefix[n]}

\* The route is one: it serves the request, and the prefixes of all others that
\* do are shorter ones of its own; and none is chosen only if none serves it, or
\* two alike.
RouteIsUnique ==
  accepted # Rejected =>
    LET i == Route(accepted)
        prefix(j) == Routes[j].prefix
    IN  IF i # Rejected
        THEN /\ i \in Serving(accepted)
             /\ \A j \in Serving(accepted) \ {i} : IsStrictPrefix(prefix(j), prefix(i))
        ELSE \/ Serving(accepted) = {}
             \/ \E j, k \in Serving(accepted) : j # k /\ prefix(j) = prefix(k)
=============================================================================
