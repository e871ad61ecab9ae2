---------------------------- MODULE MCCardMessages ----------------------------
(* Values of CardMessages' constants for TLC. *)
EXTENDS CardMessages

\* The default profile, and elements around the end of the first bitmap that a
\* network's own profile may register.
MCFieldSpecs ==
  DefaultFieldSpecs @@ (64 :> Fixed("binary", 8)) @@ (65 :> Field("ans", "llvar", 0, 25))
    @@ (128 :> Fixed("binary", 8))

MCCurrencyOf ==
  (<<53, 48, 52>> :> "MAD") @@ (<<56, 52, 48>> :> "USD") @@ (<<57, 55, 56>> :> "EUR")

Text(byte, n) == [i \in 1..n |-> byte]

\* An overlap of prefixes, one of them twice; a route for another currency.
MCRoutes ==
  <<[prefix |-> <<52>>, currencies |-> {"MAD", "USD"}],
    [prefix |-> <<52, 49>>, currencies |-> {"MAD"}],
    [prefix |-> <<52, 48>>, currencies |-> {"MAD"}],
    [prefix |-> <<52, 48>>, currencies |-> {"MAD", "EUR"}],
    [prefix |-> <<52, 49, 49>>, currencies |-> {"EUR"}]>>

\* Primitive items, a template in a template, a tag of two bytes
Primitive == <<149, 2, 0, 8>>
Amount == <<159, 2, 1, 37>>
Nested == <<119, 8, 112, 6>> \o Amount \o <<130, 0>>

\* Item of a value of n bytes, its length in the long form from 128 on
Large(n) == <<90>> \o Tlv!BerLength(n) \o Text(7, n)

\* A template nested n deep
RECURSIVE Deep(_)
Deep(n) == IF n = 0 THEN <<90, 0>> ELSE Tlv!Ber(<<112>>, Deep(n - 1))

Request(amount, currency, merchant, pan, icc, rrn) ==
  [amount_minor |-> amount, currency |-> currency, merchant_id |-> merchant,
   terminal_id |-> Text(84, 8), pan |-> pan, icc_data |-> icc,
   stan |-> <<49, 48, 48, 48, 48, 49>>, rrn |-> rrn]

Pan(n) == <<52, 49>> \o Text(49, n - 2)
Merchant == Text(77, 15)
Rrn == Text(65, 12)
Whole == Request(<<49, 50, 53, 48>>, "MAD", Merchant, Pan(16), Primitive \o Amount \o Nested, Rrn)

MCRequests ==
  {Whole,
   [Whole EXCEPT !.pan = Pan(12), !.icc_data = None, !.rrn = Text(32, 12)],
   [Whole EXCEPT !.amount_minor = Text(57, 12), !.pan = Pan(19), !.currency = "USD"],
   [Whole EXCEPT !.amount_minor = Text(57, 13)],
   [Whole EXCEPT !.icc_data = Large(128)],
   [Whole EXCEPT !.currency = "GBP"],
   [Whole EXCEPT !.merchant_id = Text(77, 14)],
   [Whole EXCEPT !.pan = <<52, 48>> \o Text(48, 14), !.icc_data = Deep(8)],
   [Whole EXCEPT !.pan = <<53>> \o Text(48, 14), !.icc_data = Deep(9)]}

Sign(mti, fields) == [mti |-> mti, fields |-> fields]

MCMessages ==
  {Sign(<<48, 56, 48, 48>>, (7 :> Text(49, 10)) @@ (11 :> Text(50, 6)) @@ (70 :> <<51, 48, 49>>)),
   Sign(<<48, 50, 49, 48>>, (11 :> Text(50, 6)) @@ (37 :> Rrn) @@ (39 :> Text(48, 2))),
   Sign(<<48, 56, 48, 48>>, (64 :> Text(255, 8)) @@ (65 :> <<>>) @@ (128 :> Text(0, 8))),
   Sign(<<48, 56, 48, 48>>, <<>>),
   Sign(<<48, 56, 48>>, 11 :> Text(50, 6)),
   Sign(<<48, 56, 48, 48>>, 11 :> Text(50, 7)),
   Sign(<<48, 56, 48, 48>>, 5 :> Text(50, 12)),
   Sign(AuthorizationMti, ToIso8583(Whole).fields @@ (13 :> Text(49, 4)) @@ (52 :> Text(0, 8))),
   Sign(AuthorizationMti, [ToIso8583(Whole).fields EXCEPT ![4] = Text(48, 12)])}

\* One of a caller, and a blank one, which is refused
MCMessageIds == {<<109, 45, 49>>, <<32>>}

\* An empty DE55, PANs of no digits and of one too many, an empty secondary bitmap,
\* and lengths in DE55 that are not shortest
MCPayloads ==
  {<<48, 56, 48, 48>> \o Bitmap({55}) \o <<48, 48, 48>>,
   <<48, 56, 48, 48>> \o Bitmap({2}) \o <<48, 48>>,
   <<48, 56, 48, 48>> \o Bitmap({2}) \o <<50, 48>> \o Text(49, 20),
   <<48, 56, 48, 48>> \o Bitmap({1, 11}) \o Bitmap({}) \o Text(50, 6),
   <<48, 56, 48, 48>> \o Bitmap({55}) \o <<48, 48, 52, 90, 129, 1, 7>>,
   <<48, 56, 48, 48>> \o Bitmap({55}) \o <<48, 48, 53, 90, 130, 0, 1, 7>>}
=============================================================================
