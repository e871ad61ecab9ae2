------------------------- MODULE CardMessagesProofs -------------------------
(***************************************************************************)
(* Proofs about the codecs, the mappings and the way of a card message.    *)
(*                                                                         *)
(* Each operator the adapters are modelled with is first shown to do what  *)
(* it is for: bitmaps, decimal lengths and fields, whole messages (encode  *)
(* and decode are inverse to each other), the mappings, the routes, and    *)
(* the BER-TLV parser.  What the library defines by a recursive function,  *)
(* a fold or the parser, is first shown to be defined: approximations of   *)
(* it exist and agree, by induction over their size.  Traced, the          *)
(* inductive invariant, then says what is behind each step of the way, and *)
(* the properties follow from it and from the facts about the operators.   *)
(***************************************************************************)
EXTENDS CardMessages, FiniteSetTheorems, SequenceTheorems, WellFoundedInduction, TLAPS

-----------------------------------------------------------------------------
(* Bitmaps *)

\* A bitmap is eight bytes.
LEMMA BitmapIsBytes == \A bits : Bitmap(bits) \in [1..8 -> Byte]
<1>. TAKE bits
<1>1. \A i \in 1..8 : Bitmap(bits)[i] \in Byte
  BY DEF Bitmap, Weights, Byte
<1>. QED  BY <1>1 DEF Bitmap

\* The bits set in a bitmap are those it was made of.
LEMMA BitsOfBitmap == \A bits : Bits(Bitmap(bits)) = bits \intersect 1..64
<1>. TAKE bits
<1>1. ASSUME NEW n \in 1..64
      PROVE  BitSet(Bitmap(bits)[((n - 1) \div 8) + 1], ((n - 1) % 8) + 1) <=> n \in bits
  <2>. DEFINE i == ((n - 1) \div 8) + 1
             k == ((n - 1) % 8) + 1
  <2>1. i \in 1..8 /\ k \in 1..8 /\ n = 8 * i - 8 + k
    OBVIOUS
  <2>2. \A j \in 1..8, m \in 1..8 : BitSet(Bitmap(bits)[j], m) <=> 8 * j - 8 + m \in bits
    <3>. TAKE j \in 1..8, m \in 1..8
    <3>. DEFINE bit(h) == IF 8 * j - 8 + h \in bits THEN Weights[h] ELSE 0
    <3>1. Bitmap(bits)[j] = bit(1) + bit(2) + bit(3) + bit(4) + bit(5) + bit(6) + bit(7) + bit(8)
      BY DEF Bitmap
    <3>2. /\ Weights[1] = 128 /\ Weights[2] = 64 /\ Weights[3] = 32 /\ Weights[4] = 16
          /\ Weights[5] = 8 /\ Weights[6] = 4 /\ Weights[7] = 2 /\ Weights[8] = 1
      BY DEF Weights
    <3>3. CASE m = 1  BY <3>1, <3>2, <3>3 DEF BitSet
    <3>4. CASE m = 2  BY <3>1, <3>2, <3>4 DEF BitSet
    <3>5. CASE m = 3  BY <3>1, <3>2, <3>5 DEF BitSet
    <3>6. CASE m = 4  BY <3>1, <3>2, <3>6 DEF BitSet
    <3>7. CASE m = 5  BY <3>1, <3>2, <3>7 DEF BitSet
    <3>8. CASE m = 6  BY <3>1, <3>2, <3>8 DEF BitSet
    <3>9. CASE m = 7  BY <3>1, <3>2, <3>9 DEF BitSet
    <3>10. CASE m = 8  BY <3>1, <3>2, <3>10 DEF BitSet
    <3>. QED  BY <3>3, <3>4, <3>5, <3>6, <3>7, <3>8, <3>9, <3>10
  <2>. QED  BY <2>1, <2>2
<1>. QED  BY <1>1 DEF Bits

\* Eight bytes are the bitmap of the bits set in them.
LEMMA BitmapOfBits == \A bytes \in [1..8 -> Byte] : Bitmap(Bits(bytes)) = bytes
<1>. TAKE bytes \in [1..8 -> Byte]
<1>1. ASSUME NEW i \in 1..8
      PROVE  Bitmap(Bits(bytes))[i] = bytes[i]
  <2>1. \A k \in 1..8 : 8 * i - 8 + k \in Bits(bytes) <=> BitSet(bytes[i], k)
    BY DEF Bits
  <2>2. bytes[i] \in 0..255
    BY DEF Byte
  <2>. QED  BY <2>1, <2>2 DEF Bitmap, BitSet, Weights
<1>. QED  BY <1>1 DEF Bitmap

-----------------------------------------------------------------------------
(* Finite sets of naturals *)

\* A set of naturals has a least element.
LEMMA LeastElement ==
  ASSUME NEW S \in SUBSET Nat, S # {}
  PROVE  \E n \in S : \A m \in S : n <= m
<1>1. PICK R : R = OpToRel(<, Nat)
  OBVIOUS
<1>2. IsWellFoundedOn(R, Nat)
  BY <1>1, NatLessThanWellFounded
<1>3. \E n \in S : \A m \in S : ~(<<m, n>> \in R)
  BY <1>2, WFMin
<1>4. \A m, n \in Nat : <<m, n>> \in R <=> m < n
  BY <1>1 DEF OpToRel
<1>5. \A m, n \in S : ~(<<m, n>> \in R) => n <= m
  BY <1>4
<1>. QED  BY <1>3, <1>5

\* A set of naturals that has 0, and with each number the next, has them all.
LEMMA AllNaturals ==
  ASSUME NEW Q \in SUBSET Nat, 0 \in Q, \A n \in Q : n + 1 \in Q
  PROVE  Q = Nat
<1>. DEFINE D == Nat \ Q
<1>. SUFFICES ASSUME D # {} PROVE FALSE
  OBVIOUS
<1>1. PICK n \in D : \A m \in D : n <= m
  <2>. HIDE DEF D
  <2>. SUFFICES D \in SUBSET Nat
    BY LeastElement
  <2>. QED  BY DEF D
<1>2. n # 0 /\ n - 1 \in Nat
  OBVIOUS
<1>3. n - 1 \in Q
  BY <1>1, <1>2
<1>. QED  BY <1>2, <1>3

\* A finite set of naturals
Numbers(S) == IsFiniteSet(S) /\ \A n \in S : n \in Nat

\* The subsets of such a set are such sets.
LEMMA FewerNumbers ==
  ASSUME NEW S, Numbers(S)
  PROVE  IsFiniteSet(S) /\ \A T \in SUBSET S : Numbers(T)
BY FS_Subset DEF Numbers

\* Among sets of such numbers one is smallest.
LEMMA SmallestSubset ==
  ASSUME NEW S, Numbers(S), NEW D \in SUBSET (SUBSET S), D # {}
  PROVE  \E m \in D : \A s \in D : ~(s \subseteq m /\ s # m)
<1>1. IsWellFoundedOn(StrictSubsetOrdering(S), SUBSET S)
  BY FewerNumbers, FS_StrictSubsetOrderingWellFounded, FS_FiniteSubsetsOfFinite
<1>2. PICK m \in D : \A s \in D : ~(<<s, m>> \in StrictSubsetOrdering(S))
  BY <1>1, WFMin
<1>. QED  BY <1>2 DEF StrictSubsetOrdering

\* One of them is the greatest.
LEMMA Greatest ==
  ASSUME NEW S, Numbers(S), S # {}
  PROVE  Max(S) \in S /\ \A n \in S : n <= Max(S)
<1>. DEFINE above(n) == {m \in S : m >= n}
            D == {above(n) : n \in S}
<1>1. PICK m \in D : \A s \in D : ~(s \subseteq m /\ s # m)
  <2>1. D \in SUBSET (SUBSET S) /\ D # {}
    OBVIOUS
  <2>. HIDE DEF D
  <2>. QED  BY <2>1, SmallestSubset
<1>2. PICK x \in S : m = above(x)
  BY <1>1
<1>3. \A n \in S : x >= n
  <2>. SUFFICES ASSUME NEW n \in S, ~(x >= n) PROVE FALSE
    OBVIOUS
  <2>1. above(n) \in D
    OBVIOUS
  <2>. HIDE DEF D
  <2>2. x \in Nat /\ \A k \in S : k \in Nat
    BY DEF Numbers
  <2>3. above(n) \subseteq above(x)
    <3>1. \A k \in S : k >= n => k >= x
      BY <2>2
    <3>. QED  BY <3>1
  <2>4. x \in above(x) /\ x \notin above(n)
    BY <2>2
  <2>. QED  BY <1>1, <1>2, <2>1, <2>3, <2>4
<1>. QED  BY <1>3 DEF Max, Numbers

-----------------------------------------------------------------------------
(* A fold over such numbers, the greatest one last, as a function on sets  *)

IsFold(g, S, V, base, op) ==
  /\ g \in [SUBSET S -> V]
  /\ \A s \in SUBSET S : g[s] = IF s = {} THEN base ELSE op[<<Max(s), g[s \ {Max(s)}]>>]

SameSteps(op, opT, T, V) == \A n \in T : \A v \in V : op[<<n, v>>] = opT[<<n, v>>]

\* Folds over a set and a subset of it agree on the subset where their steps do.
LEMMA FoldsAgree ==
  ASSUME NEW S, Numbers(S), NEW T, T \subseteq S, NEW V, NEW base, NEW op, NEW opT,
         NEW g, NEW h, IsFold(g, S, V, base, op), IsFold(h, T, V, base, opT),
         SameSteps(op, opT, T, V)
  PROVE  \A s \in SUBSET T : g[s] = h[s]
<1>. DEFINE D == {s \in SUBSET T : g[s] # h[s]}
<1>. SUFFICES ASSUME D # {} PROVE FALSE
  OBVIOUS
<1>1. PICK m \in D : \A s \in D : ~(s \subseteq m /\ s # m)
  <2>1. D \in SUBSET (SUBSET S)
    OBVIOUS
  <2>. HIDE DEF D
  <2>. QED  BY <2>1, SmallestSubset
<1>2. g[m] = IF m = {} THEN base ELSE op[<<Max(m), g[m \ {Max(m)}]>>]
  BY DEF IsFold
<1>3. h[m] = IF m = {} THEN base ELSE opT[<<Max(m), h[m \ {Max(m)}]>>]
  BY DEF IsFold
<1>4. m # {}
  BY <1>2, <1>3
<1>5. Max(m) \in m
  BY <1>4, Greatest, FewerNumbers
<1>6. m \ {Max(m)} \in SUBSET T /\ m \ {Max(m)} \subseteq m /\ m \ {Max(m)} # m
  BY <1>5
<1>7. g[m \ {Max(m)}] = h[m \ {Max(m)}] /\ h[m \ {Max(m)}] \in V
  BY <1>1, <1>6 DEF IsFold
<1>. QED  BY <1>2, <1>3, <1>4, <1>5, <1>7 DEF SameSteps

\* There is a fold over every such set.
LEMMA FoldExists ==
  ASSUME NEW S, Numbers(S), NEW V, NEW base \in V, NEW op \in [S \X V -> V]
  PROVE  \E g : IsFold(g, S, V, base, op)
<1>. DEFINE Good(T, g) == IsFold(g, T, V, base, op)
            D == {T \in SUBSET S : ~ \E g : Good(T, g)}
<1>. SUFFICES ASSUME D # {} PROVE FALSE
  OBVIOUS
<1>1. PICK m \in D : \A s \in D : ~(s \subseteq m /\ s # m)
  <2>1. D \in SUBSET (SUBSET S)
    OBVIOUS
  <2>. HIDE DEF D
  <2>. QED  BY <2>1, SmallestSubset
<1>. DEFINE G(T) == CHOOSE g : Good(T, g)
            less(s) == s \ {Max(s)}
            h == [s \in SUBSET m |->
                    IF s = {} THEN base ELSE op[<<Max(s), G(less(s))[less(s)]>>]]
<1>2. ASSUME NEW T \in SUBSET m, T # m PROVE Good(T, G(T))
  <2>1. \E g : Good(T, g)
    BY <1>1, <1>2
  <2>. HIDE DEF Good
  <2>. QED  BY <2>1
<1>3. ASSUME NEW s \in SUBSET m, s # {}
      PROVE  Max(s) \in s /\ less(s) \in SUBSET m /\ less(s) # m
  <2>1. Max(s) \in s
    BY <1>3, Greatest, FewerNumbers
  <2>. QED  BY <2>1
<1>4. ASSUME NEW t \in SUBSET m, t # m
      PROVE  h[t] = G(t)[t] /\ G(t)[t] \in V
  <2>1. IsFold(G(t), t, V, base, op)
    BY <1>2, <1>4
  <2>2. G(t)[t] = IF t = {} THEN base ELSE op[<<Max(t), G(t)[less(t)]>>]
    <3>. HIDE DEF G
    <3>. QED  BY <2>1 DEF IsFold
  <2>3. CASE t = {}
    BY <2>1, <2>2, <2>3 DEF IsFold
  <2>4. CASE t # {}
    <3>. DEFINE u == less(t)
    <3>1. u \in SUBSET m /\ u # m /\ u \in SUBSET t
      BY <1>3, <2>4
    <3>2. IsFold(G(u), u, V, base, op)
      BY <1>2, <3>1
    <3>3. Numbers(t)
      BY FewerNumbers
    <3>. HIDE DEF G, u
    <3>4. \A s \in SUBSET u : G(t)[s] = G(u)[s]
      <4>1. PICK gt : gt = G(t)  OBVIOUS
      <4>2. PICK gu : gu = G(u)  OBVIOUS
      <4>3. \A s \in SUBSET u : gt[s] = gu[s]
        <5>1. SameSteps(op, op, u, V)  BY DEF SameSteps
        <5>. QED  BY <2>1, <3>1, <3>2, <3>3, <4>1, <4>2, <5>1, FoldsAgree, SMTT(30)
      <4>. QED  BY <4>1, <4>2, <4>3
    <3>5. G(t)[u] = G(u)[u]
      BY <3>4
    <3>. QED  BY <2>1, <2>2, <2>4, <3>5 DEF u, IsFold
  <2>. QED  BY <2>3, <2>4
<1>5. h \in [SUBSET m -> V]
  <2>. SUFFICES ASSUME NEW s \in SUBSET m, s # {}
                PROVE  op[<<Max(s), G(less(s))[less(s)]>>] \in V
    OBVIOUS
  <2>1. Max(s) \in S /\ G(less(s))[less(s)] \in V
    BY <1>3, <1>4
  <2>. QED  BY <2>1
<1>6. Good(m, h)
  <2>1. \A s \in SUBSET m : s # {} => h[less(s)] = G(less(s))[less(s)]
    BY <1>3, <1>4
  <2>. HIDE DEF G
  <2>. QED  BY <1>5, <2>1 DEF IsFold
<1>. QED  BY <1>1, <1>6

\* What satisfies the equation of a fold where it has a value of the right type is the fold.
Unfolds(h, S, V, base, op) ==
  \A s \in SUBSET S :
    /\ s = {} => h[s] = base
    /\ s # {} /\ h[s \ {Max(s)}] \in V => h[s] = op[<<Max(s), h[s \ {Max(s)}]>>]

\* It is the only one.
LEMMA FoldUnique ==
  ASSUME NEW S, Numbers(S), NEW V, NEW base, NEW op, NEW g, NEW h,
         IsFold(g, S, V, base, op), Unfolds(h, S, V, base, op)
  PROVE  \A s \in SUBSET S : h[s] = g[s]
<1>. DEFINE D == {s \in SUBSET S : h[s] # g[s]}
<1>. SUFFICES ASSUME D # {} PROVE FALSE
  OBVIOUS
<1>1. PICK m \in D : \A s \in D : ~(s \subseteq m /\ s # m)
  <2>1. D \in SUBSET (SUBSET S)
    OBVIOUS
  <2>. HIDE DEF D
  <2>. QED  BY <2>1, SmallestSubset
<1>2. g[m] = IF m = {} THEN base ELSE op[<<Max(m), g[m \ {Max(m)}]>>]
  BY DEF IsFold
<1>3. m # {}
  BY <1>2 DEF Unfolds
<1>4. Max(m) \in m
  BY <1>3, Greatest, FewerNumbers
<1>5. m \ {Max(m)} \in SUBSET S /\ m \ {Max(m)} \subseteq m /\ m \ {Max(m)} # m
  BY <1>4
<1>6. h[m \ {Max(m)}] = g[m \ {Max(m)}] /\ g[m \ {Max(m)}] \in V
  BY <1>1, <1>5 DEF IsFold
<1>7. h[m] = op[<<Max(m), h[m \ {Max(m)}]>>]
  BY <1>3, <1>6 DEF Unfolds
<1>. QED  BY <1>2, <1>3, <1>6, <1>7

-----------------------------------------------------------------------------
(* The fields of a message *)

UpTo(S, n) == {m \in S : m <= n}

\* A fold over the numbers up to n + 1 is one step more than that over those up to n.
LEMMA FoldUpTo ==
  ASSUME NEW S, Numbers(S), NEW V, NEW base, NEW op, NEW g, IsFold(g, S, V, base, op),
         NEW n \in Nat
  PROVE  g[UpTo(S, n + 1)] = IF n + 1 \in S THEN op[<<n + 1, g[UpTo(S, n)]>>] ELSE g[UpTo(S, n)]
<1>1. \A k \in S : k \in Nat
  BY DEF Numbers
<1>2. CASE n + 1 \notin S
  <2>1. UpTo(S, n + 1) = UpTo(S, n)
    BY <1>1, <1>2 DEF UpTo
  <2>. QED  BY <1>2, <2>1
<1>3. CASE n + 1 \in S
  <2>. DEFINE s == UpTo(S, n + 1)
  <2>1. n + 1 \in s /\ s \in SUBSET S /\ \A k \in s : k <= n + 1 /\ k \in Nat
    BY <1>1, <1>3 DEF UpTo
  <2>2. Max(s) \in s /\ \A k \in s : k <= Max(s)
    BY <2>1, Greatest, FewerNumbers
  <2>3. Max(s) = n + 1
    BY <2>1, <2>2
  <2>4. s \ {n + 1} = UpTo(S, n)
    BY <1>1 DEF UpTo
  <2>. QED  BY <1>3, <2>1, <2>3, <2>4 DEF IsFold
<1>. QED  BY <1>2, <1>3

\* What the profile promises of the specification of an element
LEMMA Widths ==
  ASSUME NEW n \in DOMAIN FieldSpecs
  PROVE  /\ PrefixWidth(FieldSpecs[n]) \in {0, 2, 3}
         /\ FieldSpecs[n].min \in Nat /\ FieldSpecs[n].max \in Nat
         /\ FieldSpecs[n].length = "fixed" <=> PrefixWidth(FieldSpecs[n]) = 0
         /\ PrefixWidth(FieldSpecs[n]) = 2 => FieldSpecs[n].max <= 99
         /\ PrefixWidth(FieldSpecs[n]) = 3 => FieldSpecs[n].max <= 999
         /\ n \in 2..128
<1>. DEFINE spec == FieldSpecs[n]
<1>1. /\ n \in 2..128 /\ spec \in FieldSpec
      /\ spec.length = "fixed" => spec.min = 0
      /\ spec.length = "llvar" => spec.max <= 99
      /\ spec.length = "lllvar" => spec.max <= 999
  BY ProfileAssumption
<1>2. spec.min \in Nat /\ spec.max \in Nat /\ spec.length \in {"fixed", "llvar", "lllvar"}
  BY <1>1 DEF FieldSpec
<1>3. PrefixWidth(spec) = IF spec.length = "fixed" THEN 0
                          ELSE IF spec.length = "llvar" THEN 2 ELSE 3
  BY <1>2 DEF PrefixWidth
<1>. QED  BY <1>1, <1>2, <1>3

\* A field is encoded as bytes.
LEMMA EncodeFieldType ==
  ASSUME NEW n \in DOMAIN FieldSpecs, NEW v \in Seq(Byte)
  PROVE  EncodeField(n, v) \in Seq(Byte)
<1>. DEFINE w == PrefixWidth(FieldSpecs[n])
<1>1. w \in {0, 2, 3}
  BY Widths
<1>2. Decimal(Len(v), w) \in Seq(Byte)
  <2>. HIDE DEF w
  <2>1. \A i \in 1..w : <<100, 10, 1>>[3 - w + i] \in {1, 10, 100}
    BY <1>1
  <2>2. \A i \in 1..w : 48 + ((Len(v) \div <<100, 10, 1>>[3 - w + i]) % 10) \in Byte
    <3>. SUFFICES ASSUME NEW d \in {1, 10, 100}, NEW m \in Nat
                  PROVE  48 + ((m \div d) % 10) \in Byte
      BY <2>1, LenProperties, ZenonT(30)
    <3>1. CASE d = 1  BY <3>1 DEF Byte
    <3>2. CASE d = 10  BY <3>2 DEF Byte
    <3>3. CASE d = 100  BY <3>3 DEF Byte
    <3>. QED  BY <3>1, <3>2, <3>3
  <2>. QED  BY <1>1, <2>2 DEF Decimal
<1>. QED  BY <1>2, ConcatProperties DEF EncodeField

\* Fields of a message that the codec may write
Writable(fields) ==
  /\ fields \in [DOMAIN fields -> Seq(Byte)]
  /\ \A n \in DOMAIN fields : n \in DOMAIN FieldSpecs

\* Sets of element numbers are finite.
LEMMA NumbersOfFields ==
  ASSUME NEW S, \A n \in S : n \in 2..128
  PROVE  Numbers(S)
<1>1. PICK a \in Int, b \in Int : a = 2 /\ b = 128
  OBVIOUS
<1>2. PICK U : U = a..b
  OBVIOUS
<1>3. IsFiniteSet(U)
  BY <1>2, FS_Interval, Zenon
<1>4. S \in SUBSET U
  BY <1>1, <1>2
<1>5. IsFiniteSet(S)
  BY <1>3, <1>4, FS_Subset, Zenon
<1>6. \A n \in S : n \in Nat
  OBVIOUS
<1>. QED  BY <1>5, <1>6, Zenon DEF Numbers

BodyStep(fields) ==
  [p \in (DOMAIN fields) \X Seq(Byte) |-> p[2] \o EncodeField(p[1], fields[p[1]])]

\* Body as a fold over the element numbers
LEMMA BodyIsFold ==
  ASSUME NEW fields, Writable(fields)
  PROVE  \E g : IsFold(g, DOMAIN fields, Seq(Byte), <<>>, BodyStep(fields))
                  /\ Body(fields) = g[DOMAIN fields]
<1>. DEFINE D == DOMAIN fields
            V == Seq(Byte)
            eq(h) == [s \in SUBSET D |->
                        IF s = {} THEN <<>>
                         ELSE h[s \ {Max(s)}] \o EncodeField(Max(s), fields[Max(s)])]
            iter == CHOOSE h : h = eq(h)
<1>1. Numbers(D)
  BY NumbersOfFields, Widths DEF Writable
<1>2. ASSUME NEW n \in D, NEW v \in V
      PROVE  v \o EncodeField(n, fields[n]) \in V
  BY EncodeFieldType, ConcatProperties DEF Writable
<1>3. /\ BodyStep(fields) \in [D \X V -> V]
      /\ \A n \in D, v \in V : BodyStep(fields)[<<n, v>>] = v \o EncodeField(n, fields[n])
  <2>1. BodyStep(fields) = [p \in D \X V |-> p[2] \o EncodeField(p[1], fields[p[1]])]
    BY DEF BodyStep
  <2>. HIDE DEF V, D
  <2>2. \A p \in D \X V : p[2] \o EncodeField(p[1], fields[p[1]]) \in V
    BY <1>2
  <2>. QED  BY <2>1, <2>2
<1>4. PICK g : IsFold(g, D, V, <<>>, BodyStep(fields))
  <2>1. <<>> \in V
    OBVIOUS
  <2>. HIDE DEF V, D
  <2>. QED  BY <1>1, <1>3, <2>1, FoldExists
<1>5. \A s \in SUBSET D : s # {} => Max(s) \in D
  BY <1>1, Greatest, FewerNumbers
<1>6. g = eq(g)
  BY <1>3, <1>4, <1>5 DEF IsFold
<1>7. iter = eq(iter)
  <2>. HIDE DEF eq
  <2>. QED  BY <1>6, Zenon
<1>8. Body(fields) = iter[D]
  BY Zenon DEF Body, MapThenFoldSet
<1>9. Unfolds(iter, D, V, <<>>, BodyStep(fields))
  <2>. HIDE DEF iter
  <2>. QED  BY <1>3, <1>5, <1>7 DEF Unfolds
<1>. HIDE DEF iter, eq, V, D
<1>10. iter[D] = g[D]
  BY <1>1, <1>4, <1>9, FoldUnique
<1>. QED  BY <1>4, <1>8, <1>10 DEF V, D

\* The fields up to a number
Part(fields, n) == [m \in UpTo(DOMAIN fields, n) |-> fields[m]]

\* The body of the fields up to n + 1 is that of the fields up to n, and one field.
LEMMA BodyOfPart ==
  ASSUME NEW fields, Writable(fields), NEW n \in Nat
  PROVE  /\ Writable(Part(fields, n))
         /\ Body(Part(fields, n)) \in Seq(Byte)
         /\ Body(Part(fields, 0)) = <<>>
         /\ Body(Part(fields, n + 1)) =
              IF n + 1 \in DOMAIN fields
              THEN Body(Part(fields, n)) \o EncodeField(n + 1, fields[n + 1])
              ELSE Body(Part(fields, n))
         /\ Part(fields, 128) = fields
<1>. DEFINE D == DOMAIN fields
            V == Seq(Byte)
<1>1. Numbers(D) /\ \A k \in D : k \in 2..128
  BY NumbersOfFields, Widths, ZenonT(30) DEF Writable
<1>2. \A k \in Nat : Writable(Part(fields, k))
  BY DEF Part, Writable, UpTo
<1>3. PICK g : IsFold(g, D, V, <<>>, BodyStep(fields)) /\ Body(fields) = g[D]
  BY BodyIsFold
<1>4. \A k \in Nat : Body(Part(fields, k)) = g[UpTo(D, k)]
  <2>. TAKE k \in Nat
  <2>. DEFINE part == Part(fields, k)
              T == UpTo(D, k)
  <2>1. DOMAIN part = T /\ T \subseteq D /\ T \in SUBSET T
    BY DEF Part, UpTo
  <2>2. PICK h : IsFold(h, T, V, <<>>, BodyStep(part)) /\ Body(part) = h[T]
    BY <1>2, <2>1, BodyIsFold
  <2>3. SameSteps(BodyStep(fields), BodyStep(part), T, V)
    <3>1. \A m \in T : part[m] = fields[m]
      BY DEF Part
    <3>2. \A m \in T, v \in V :
            BodyStep(fields)[<<m, v>>] = v \o EncodeField(m, fields[m])
            /\ BodyStep(part)[<<m, v>>] = v \o EncodeField(m, part[m])
      <4>. HIDE DEF part, T
      <4>. QED  BY <2>1 DEF BodyStep
    <3>. QED  BY <3>1, <3>2, ZenonT(30) DEF SameSteps
  <2>. HIDE DEF part, T, D, V
  <2>4. \A s \in SUBSET T : g[s] = h[s]
    BY <1>1, <1>3, <2>1, <2>2, <2>3, FoldsAgree
  <2>. QED  BY <2>1, <2>2, <2>4 DEF part, T
<1>5. g[{}] = <<>>
  BY <1>3 DEF IsFold
<1>6. UpTo(D, 0) = {} /\ UpTo(D, 128) = D
  BY <1>1 DEF UpTo
<1>7. g[UpTo(D, n + 1)] =
        IF n + 1 \in D THEN BodyStep(fields)[<<n + 1, g[UpTo(D, n)]>>] ELSE g[UpTo(D, n)]
  <2>. HIDE DEF D, V
  <2>. QED  BY <1>1, <1>3, FoldUpTo
<1>8. g[UpTo(D, n)] \in V
  BY <1>3 DEF IsFold, UpTo
<1>9. n + 1 \in D =>
        BodyStep(fields)[<<n + 1, g[UpTo(D, n)]>>] =
          g[UpTo(D, n)] \o EncodeField(n + 1, fields[n + 1])
  BY <1>8 DEF BodyStep
<1>10. Part(fields, 128) = fields
  BY <1>6 DEF Part, Writable
<1>11. n + 1 \in Nat /\ 0 \in Nat
  OBVIOUS
<1>. HIDE DEF D, V
<1>12. Body(Part(fields, n)) \in V /\ Body(Part(fields, 0)) = <<>>
  BY <1>4, <1>5, <1>6, <1>8
<1>13. Body(Part(fields, n + 1)) = IF n + 1 \in D
              THEN Body(Part(fields, n)) \o EncodeField(n + 1, fields[n + 1])
              ELSE Body(Part(fields, n))
  BY <1>4, <1>7, <1>9, <1>11
<1>. QED  BY <1>2, <1>10, <1>12, <1>13 DEF D, V

\* The body begins with that of its first fields.
LEMMA BodyBegins ==
  ASSUME NEW fields, Writable(fields)
  PROVE  \A n \in 0..128 : \E rest \in Seq(Byte) : Body(fields) = Body(Part(fields, n)) \o rest
<1>. DEFINE P(n) == \E rest \in Seq(Byte) : Body(fields) = Body(Part(fields, n)) \o rest
            Q == {m \in Nat : m <= 128 => P(128 - m)}
<1>1. 0 \in Q
  <2>1. Part(fields, 128) = fields /\ Body(Part(fields, 128)) \in Seq(Byte)
    BY BodyOfPart
  <2>2. Body(fields) = Body(fields) \o <<>> /\ <<>> \in Seq(Byte)
    BY <2>1, ConcatEmptySeq
  <2>3. P(128)
    BY <2>1, <2>2
  <2>. QED  BY <2>3
<1>2. ASSUME NEW m \in Q PROVE m + 1 \in Q
  <2>. SUFFICES ASSUME m + 1 <= 128 PROVE P(128 - (m + 1))
    <3>. HIDE DEF P
    <3>. QED  OBVIOUS
  <2>. DEFINE n == 128 - (m + 1)
  <2>1. n \in Nat /\ n + 1 = 128 - m
    <3>. HIDE DEF P
    <3>1. m \in Nat
      OBVIOUS
    <3>. HIDE DEF Q
    <3>. QED  BY <3>1
  <2>2. P(n + 1)
    BY <2>1
  <2>3. PICK rest \in Seq(Byte) : Body(fields) = Body(Part(fields, n + 1)) \o rest
    BY <2>2
  <2>. HIDE DEF n
  <2>4. /\ Body(Part(fields, n)) \in Seq(Byte)
        /\ Body(Part(fields, n + 1)) =
              IF n + 1 \in DOMAIN fields
              THEN Body(Part(fields, n)) \o EncodeField(n + 1, fields[n + 1])
              ELSE Body(Part(fields, n))
    BY <2>1, BodyOfPart, ZenonT(30)
  <2>5. CASE n + 1 \notin DOMAIN fields
    BY <2>3, <2>4, <2>5 DEF n
  <2>6. CASE n + 1 \in DOMAIN fields
    <3>. DEFINE e == EncodeField(n + 1, fields[n + 1])
    <3>1. e \in Seq(Byte)
      BY <2>6, EncodeFieldType DEF Writable
    <3>2. e \o rest \in Seq(Byte)
      BY <3>1, ConcatProperties
    <3>. HIDE DEF e
    <3>3. (Body(Part(fields, n)) \o e) \o rest = Body(Part(fields, n)) \o (e \o rest)
      BY <2>4, <3>1, ConcatAssociative, SMTT(30)
    <3>4. Body(fields) = Body(Part(fields, n)) \o (e \o rest)
      BY <2>3, <2>4, <2>6, <3>3 DEF e
    <3>. QED  BY <3>2, <3>4 DEF n
  <2>. QED  BY <2>5, <2>6
<1>3. Q = Nat
  <2>. HIDE DEF Q
  <2>1. Q \in SUBSET Nat
    BY DEF Q
  <2>. QED  BY <1>1, <1>2, <2>1, AllNaturals
<1>4. ASSUME NEW n \in 0..128 PROVE P(n)
  <2>. HIDE DEF P
  <2>1. 128 - n \in Nat /\ 128 - (128 - n) = n /\ 128 - n <= 128
    OBVIOUS
  <2>2. 128 - n <= 128 => P(128 - (128 - n))
    BY <1>3, <2>1
  <2>. QED  BY <2>1, <2>2
<1>. QED  BY <1>4

-----------------------------------------------------------------------------
(* Numbers *)

\* The numbers from 1 to n
LEMMA NumbersOfSegment ==
  ASSUME NEW n \in Nat
  PROVE  Numbers(1..n)
<1>1. PICK U : U = 1..n
  OBVIOUS
<1>2. IsFiniteSet(U)
  BY <1>1, FS_Interval
<1>3. \A k \in U : k \in Nat
  BY <1>1
<1>4. Numbers(U)
  BY <1>2, <1>3, Zenon DEF Numbers
<1>. QED  BY <1>1, <1>4, Zenon

NumberStep(digits) == [p \in (DOMAIN digits) \X Nat |-> 10 * p[2] + (digits[p[1]] - 48)]

\* Number as a fold over the positions
LEMMA NumberIsFold ==
  ASSUME NEW digits \in Seq(Byte), AllIn(digits, Digits)
  PROVE  \E g : IsFold(g, DOMAIN digits, Nat, 0, NumberStep(digits))
                  /\ Number(digits) = g[DOMAIN digits]
<1>. DEFINE D == DOMAIN digits
            eq(h) == [s \in SUBSET D |->
                        IF s = {} THEN 0 ELSE 10 * h[s \ {Max(s)}] + (digits[Max(s)] - 48)]
            iter == CHOOSE h : h = eq(h)
<1>1. Numbers(D)
  <2>1. D = 1..Len(digits) /\ Len(digits) \in Nat
    BY LenProperties
  <2>. QED  BY <2>1, NumbersOfSegment, Zenon
<1>2. \A n \in D : digits[n] - 48 \in Nat
  BY DEF AllIn, Digits
<1>3. /\ NumberStep(digits) \in [D \X Nat -> Nat]
      /\ \A n \in D, v \in Nat : NumberStep(digits)[<<n, v>>] = 10 * v + (digits[n] - 48)
  BY <1>2 DEF NumberStep
<1>. HIDE DEF D
<1>4. PICK g : IsFold(g, D, Nat, 0, NumberStep(digits))
  <2>1. 0 \in Nat
    OBVIOUS
  <2>. QED  BY <1>1, <1>3, <2>1, FoldExists
<1>5. \A s \in SUBSET D : s # {} => Max(s) \in D
  BY <1>1, Greatest, FewerNumbers
<1>6. g = eq(g)
  BY <1>3, <1>4, <1>5 DEF IsFold
<1>7. iter = eq(iter)
  <2>. HIDE DEF eq
  <2>. QED  BY <1>6, Zenon
<1>8. Number(digits) = iter[D]
  BY Zenon DEF Number, FoldLeft, MapThenFoldSet, D
<1>9. Unfolds(iter, D, Nat, 0, NumberStep(digits))
  <2>. HIDE DEF iter
  <2>. QED  BY <1>3, <1>5, <1>7, ZenonT(30) DEF Unfolds
<1>. HIDE DEF iter, eq
<1>10. iter[D] = g[D]
  BY <1>1, <1>4, <1>9, FoldUnique
<1>. QED  BY <1>4, <1>8, <1>10 DEF D

\* The number that two or three digits are
LEMMA NumberValue ==
  ASSUME NEW digits \in Seq(Byte), AllIn(digits, Digits), Len(digits) \in {2, 3}
  PROVE  Number(digits) =
           IF Len(digits) = 2 THEN 10 * (digits[1] - 48) + (digits[2] - 48)
           ELSE 100 * (digits[1] - 48) + 10 * (digits[2] - 48) + (digits[3] - 48)
<1>. DEFINE D == DOMAIN digits
<1>1. D = 1..Len(digits) /\ \A n \in D : digits[n] \in 48..57
  BY LenProperties DEF AllIn, Digits
<1>2. PICK g : IsFold(g, D, Nat, 0, NumberStep(digits)) /\ Number(digits) = g[D]
  BY NumberIsFold
<1>3. Numbers(D)
  <2>1. D = 1..Len(digits) /\ Len(digits) \in Nat
    BY LenProperties
  <2>. QED  BY <2>1, NumbersOfSegment, Zenon
<1>4. \A n \in D, v \in Nat : NumberStep(digits)[<<n, v>>] = 10 * v + (digits[n] - 48)
  BY DEF NumberStep
<1>5. ASSUME NEW n \in Nat, n + 1 \in D
      PROVE  g[UpTo(D, n + 1)] = 10 * g[UpTo(D, n)] + (digits[n + 1] - 48)
  <2>. HIDE DEF D
  <2>1. g[UpTo(D, n + 1)] = NumberStep(digits)[<<n + 1, g[UpTo(D, n)]>>]
    BY <1>2, <1>3, <1>5, FoldUpTo
  <2>2. g[UpTo(D, n)] \in Nat
    BY <1>2 DEF IsFold, UpTo
  <2>. QED  BY <1>4, <1>5, <2>1, <2>2
<1>6. g[UpTo(D, 0)] = 0
  <2>1. UpTo(D, 0) = {}
    BY <1>1 DEF UpTo
  <2>. QED  BY <1>2, <2>1 DEF IsFold
<1>7. UpTo(D, Len(digits)) = D
  BY <1>1 DEF UpTo
<1>8. g[UpTo(D, 1)] = digits[1] - 48
  BY <1>1, <1>5, <1>6
<1>9. g[UpTo(D, 2)] = 10 * g[UpTo(D, 1)] + (digits[2] - 48)
  BY <1>1, <1>5
<1>10. Len(digits) = 3 => g[UpTo(D, 3)] = 10 * g[UpTo(D, 2)] + (digits[3] - 48)
  BY <1>1, <1>5
<1>11. CASE Len(digits) = 2
  BY <1>1, <1>2, <1>7, <1>8, <1>9, <1>11
<1>12. CASE Len(digits) = 3
  <2>1. Number(digits) = 10 * g[UpTo(D, 2)] + (digits[3] - 48)
    BY <1>2, <1>7, <1>10, <1>12
  <2>2. digits[1] \in 48..57 /\ digits[2] \in 48..57 /\ digits[3] \in 48..57
    BY <1>1, <1>12
  <2>3. Number(digits) = 10 * (10 * (digits[1] - 48) + (digits[2] - 48)) + (digits[3] - 48)
    BY <1>8, <1>9, <2>1
  <2>4. 10 * (10 * (digits[1] - 48) + (digits[2] - 48)) + (digits[3] - 48)
          = 100 * (digits[1] - 48) + 10 * (digits[2] - 48) + (digits[3] - 48)
    <3>1. \A a, b, c \in Int : 10 * (10 * a + b) + c = 100 * a + 10 * b + c
      OBVIOUS
    <3>2. digits[1] - 48 \in Int /\ digits[2] - 48 \in Int /\ digits[3] - 48 \in Int
      BY <2>2
    <3>. QED  BY <3>1, <3>2
  <2>. QED  BY <1>12, <2>3, <2>4
<1>. QED  BY <1>11, <1>12

\* The digits of a number
LEMMA DecimalValue ==
  ASSUME NEW n \in Nat, NEW w \in {0, 2, 3}
  PROVE  /\ Decimal(n, w) \in Seq(Byte) /\ Len(Decimal(n, w)) = w
         /\ AllIn(Decimal(n, w), Digits)
         /\ w = 2 => Decimal(n, w)[1] = 48 + ((n \div 10) % 10) /\ Decimal(n, w)[2] = 48 + (n % 10)
         /\ w = 3 => /\ Decimal(n, w)[1] = 48 + ((n \div 100) % 10)
                     /\ Decimal(n, w)[2] = 48 + ((n \div 10) % 10)
                      /\ Decimal(n, w)[3] = 48 + (n % 10)
<1>. DEFINE e(i) == 48 + ((n \div <<100, 10, 1>>[3 - w + i]) % 10)
<1>1. w = 2 => e(1) = 48 + ((n \div 10) % 10) /\ e(2) = 48 + (n % 10)
  OBVIOUS
<1>2. w = 3 => /\ e(1) = 48 + ((n \div 100) % 10)
               /\ e(2) = 48 + ((n \div 10) % 10) /\ e(3) = 48 + (n % 10)
  OBVIOUS
<1>3. \A i \in 1..w : e(i) \in 48..57
  <2>. HIDE DEF e
  <2>1. CASE w = 0  BY <2>1
  <2>2. CASE w = 2  BY <1>1, <2>2
  <2>3. CASE w = 3  BY <1>2, <2>3
  <2>. QED  BY <2>1, <2>2, <2>3
<1>4. Decimal(n, w) = [i \in 1..w |-> e(i)]
  BY DEF Decimal
<1>. HIDE DEF e
<1>. QED  BY <1>1, <1>2, <1>3, <1>4 DEF AllIn, Digits, Byte

\* A length is the number of its digits, if they are enough for it.
LEMMA NumberOfDecimal ==
  ASSUME NEW n \in Nat, NEW w \in {2, 3}, w = 2 => n <= 99, w = 3 => n <= 999
  PROVE  Number(Decimal(n, w)) = n
<1>. DEFINE digits == Decimal(n, w)
<1>1. /\ digits \in Seq(Byte) /\ Len(digits) = w /\ AllIn(digits, Digits)
      /\ w = 2 => digits[1] = 48 + ((n \div 10) % 10) /\ digits[2] = 48 + (n % 10)
      /\ w = 3 => /\ digits[1] = 48 + ((n \div 100) % 10)
                  /\ digits[2] = 48 + ((n \div 10) % 10) /\ digits[3] = 48 + (n % 10)
  <2>1. w \in {0, 2, 3}
    OBVIOUS
  <2>. QED  BY <2>1, DecimalValue, ZenonT(30)
<1>2. Number(digits) =
           IF w = 2 THEN 10 * (digits[1] - 48) + (digits[2] - 48)
           ELSE 100 * (digits[1] - 48) + 10 * (digits[2] - 48) + (digits[3] - 48)
  <2>. HIDE DEF digits
  <2>. QED  BY <1>1, NumberValue, ZenonT(30)
<1>. HIDE DEF digits
<1>3. CASE w = 2
  BY <1>1, <1>2, <1>3 DEF digits
<1>4. CASE w = 3
  <2>1. n \in 0..999
    BY <1>4
  <2>2. 100 * ((n \div 100) % 10) + 10 * ((n \div 10) % 10) + (n % 10) = n
    <3>1. n \div 100 = (n \div 10) \div 10
      BY <2>1
    <3>. QED  BY <2>1, <3>1
  <2>3. /\ digits[1] - 48 = (n \div 100) % 10 /\ digits[2] - 48 = (n \div 10) % 10
        /\ digits[3] - 48 = n % 10
    BY <1>1, <1>4
  <2>. QED  BY <1>2, <1>4, <2>2, <2>3 DEF digits
<1>. QED  BY <1>3, <1>4

\* Two or three digits are those of their number.
LEMMA DecimalOfNumber ==
  ASSUME NEW digits \in Seq(Byte), AllIn(digits, Digits), Len(digits) \in {2, 3}
  PROVE  Number(digits) \in Nat /\ Decimal(Number(digits), Len(digits)) = digits
<1>. DEFINE w == Len(digits)
            n == Number(digits)
<1>1. \A i \in 1..w : digits[i] \in 48..57
  BY LenProperties DEF AllIn, Digits
<1>2. CASE w = 2
  <2>1. n = 10 * (digits[1] - 48) + (digits[2] - 48)
    BY <1>2, NumberValue
  <2>2. PICK a \in 0..9, b \in 0..9 : digits[1] = 48 + a /\ digits[2] = 48 + b
    <3>1. digits[1] - 48 \in 0..9 /\ digits[2] - 48 \in 0..9
      BY <1>1, <1>2
    <3>2. digits[1] = 48 + (digits[1] - 48) /\ digits[2] = 48 + (digits[2] - 48)
      BY <1>1, <1>2
    <3>. QED  BY <3>1, <3>2
  <2>. HIDE DEF n
  <2>3. n = 10 * a + b
    BY <2>1, <2>2
  <2>4. n \in Nat /\ (n \div 10) % 10 = a /\ n % 10 = b
    BY <2>3
  <2>5. /\ Decimal(n, 2) \in Seq(Byte) /\ Len(Decimal(n, 2)) = 2
        /\ Decimal(n, 2)[1] = digits[1] /\ Decimal(n, 2)[2] = digits[2]
    <3>1. 2 \in {0, 2, 3}
      OBVIOUS
    <3>. QED  BY <2>2, <2>4, <3>1, DecimalValue
  <2>6. \A i \in 1..Len(Decimal(n, 2)) : Decimal(n, 2)[i] = digits[i]
    BY <2>5
  <2>7. Decimal(n, 2) = digits
    BY <1>2, <2>5, <2>6, SeqEqual
  <2>. QED  BY <1>2, <2>4, <2>7 DEF n
<1>3. CASE w = 3
  <2>1. n = 100 * (digits[1] - 48) + 10 * (digits[2] - 48) + (digits[3] - 48)
    BY <1>3, NumberValue
  <2>2. PICK a \in 0..9, b \in 0..9, c \in 0..9 :
          digits[1] = 48 + a /\ digits[2] = 48 + b /\ digits[3] = 48 + c
    <3>1. digits[1] - 48 \in 0..9 /\ digits[2] - 48 \in 0..9 /\ digits[3] - 48 \in 0..9
      BY <1>1, <1>3
    <3>2. /\ digits[1] = 48 + (digits[1] - 48) /\ digits[2] = 48 + (digits[2] - 48)
          /\ digits[3] = 48 + (digits[3] - 48)
      BY <1>1, <1>3
    <3>. QED  BY <3>1, <3>2
  <2>. HIDE DEF n
  <2>3. n = 100 * a + 10 * b + c
    BY <2>1, <2>2
  <2>4. n \in Nat /\ (n \div 100) % 10 = a /\ (n \div 10) % 10 = b /\ n % 10 = c
    BY <2>3
  <2>5. /\ Decimal(n, 3) \in Seq(Byte) /\ Len(Decimal(n, 3)) = 3
        /\ Decimal(n, 3)[1] = digits[1] /\ Decimal(n, 3)[2] = digits[2]
        /\ Decimal(n, 3)[3] = digits[3]
    <3>1. 3 \in {0, 2, 3}
      OBVIOUS
    <3>. QED  BY <2>2, <2>4, <3>1, DecimalValue
  <2>6. \A i \in 1..Len(Decimal(n, 3)) : Decimal(n, 3)[i] = digits[i]
    BY <2>5
  <2>7. Decimal(n, 3) = digits
    BY <1>3, <2>5, <2>6, SeqEqual
  <2>. QED  BY <1>3, <2>4, <2>7 DEF n
<1>. QED  BY <1>2, <1>3

-----------------------------------------------------------------------------
(* Reading the fields *)

FieldSets == UNION {[D -> Seq(Byte)] : D \in SUBSET (2..128)}
Reads == {Failed} \union [offset : Nat, fields : FieldSets]

\* A field that was read
LEMMA ReadFieldValue ==
  ASSUME NEW raw \in Seq(Byte), NEW read \in Reads, NEW n,
         ReadField(raw, read, n) # Failed
  PROVE  \E value \in Seq(Byte) :
           /\ read # Failed /\ read.offset \in Nat /\ Encodable(n, value)
           /\ read.offset + Len(EncodeField(n, value)) <= Len(raw)
           /\ EncodeField(n, value) =
                 SubSeq(raw, read.offset + 1, read.offset + Len(EncodeField(n, value)))
           /\ ReadField(raw, read, n) = [offset |-> read.offset + Len(EncodeField(n, value)),
                                         fields |-> With(read.fields, n, value)]
<1>. DEFINE spec == FieldSpecs[n]
            w == PrefixWidth(spec)
            start == read.offset + w
            prefix == SubSeq(raw, read.offset + 1, start)
            length == IF spec.length = "fixed" THEN spec.max ELSE Number(prefix)
            end == start + length
            value == SubSeq(raw, start + 1, end)
<1>1. /\ read # Failed /\ n \in DOMAIN FieldSpecs
      /\ start <= Len(raw) /\ AllIn(prefix, Digits) /\ LengthAllowed(spec, length)
      /\ end <= Len(raw) /\ WellTyped(spec, value)
      /\ ReadField(raw, read, n) = [offset |-> end, fields |-> With(read.fields, n, value)]
  BY Zenon DEF ReadField
<1>2. /\ w \in {0, 2, 3} /\ spec.max \in Nat /\ spec.min \in Nat
      /\ spec.length = "fixed" <=> w = 0
  BY <1>1, Widths
<1>3. Len(raw) \in Nat /\ \A i \in 1..Len(raw) : raw[i] \in Byte
  BY LenProperties, ElementOfSeq
<1>4. read.offset \in Nat
  BY <1>1 DEF Reads
<1>. HIDE DEF spec, w
<1>5. prefix \in Seq(Byte) /\ Len(prefix) = w
  <2>1. \A i \in read.offset + 1..start : raw[i] \in Byte
    BY <1>1, <1>2, <1>3, <1>4
  <2>2. read.offset + 1 \in Int /\ start \in Int
    BY <1>2, <1>4
  <2>3. (IF read.offset + 1 <= start THEN start - (read.offset + 1) + 1 ELSE 0) = w
    BY <1>2, <1>4
  <2>. HIDE DEF start
  <2>. QED  BY <2>1, <2>2, <2>3, SubSeqProperties
<1>6. length \in Nat /\ Decimal(length, w) = prefix
  <2>1. CASE w = 0
    <3>1. length \in Nat /\ prefix = <<>>
      BY <1>2, <1>5, <2>1
    <3>2. Decimal(length, 0) = <<>>
      BY DEF Decimal
    <3>. HIDE DEF prefix, length
    <3>. QED  BY <2>1, <3>1, <3>2
  <2>2. CASE w # 0
    <3>1. length = Number(prefix) /\ w \in {2, 3}
      BY <1>2, <2>2
    <3>. HIDE DEF prefix, length
    <3>. QED  BY <1>1, <1>5, <3>1, DecimalOfNumber
  <2>. QED  BY <2>1, <2>2
<1>. HIDE DEF length
<1>7. value \in Seq(Byte) /\ Len(value) = length
  <2>1. \A i \in start + 1..end : raw[i] \in Byte
    BY <1>1, <1>2, <1>3, <1>4, <1>6, SMTT(30)
  <2>2. start + 1 \in Int /\ end \in Int
    BY <1>2, <1>4, <1>6
  <2>3. (IF start + 1 <= end THEN end - (start + 1) + 1 ELSE 0) = length
    BY <1>2, <1>4, <1>6, SMTT(30)
  <2>. HIDE DEF start, end
  <2>. QED  BY <2>1, <2>2, <2>3, SubSeqProperties
<1>8. EncodeField(n, value) = prefix \o value
  <2>. HIDE DEF prefix, value
  <2>. QED  BY <1>6, <1>7 DEF EncodeField, w, spec
<1>9. Len(EncodeField(n, value)) = w + length
  <2>. HIDE DEF prefix, value
  <2>. QED  BY <1>5, <1>7, <1>8, ConcatProperties
<1>10. prefix \o value = SubSeq(raw, read.offset + 1, end)
  <2>1. /\ read.offset + 1 \in 1..Len(raw) + 1 /\ start \in (read.offset + 1) - 1..Len(raw)
        /\ end \in start..Len(raw)
    <3>1. start <= Len(raw) /\ end <= Len(raw) /\ length \in Nat /\ Len(raw) \in Nat
      BY <1>1, <1>3, <1>6
    <3>2. w \in Nat
      BY <1>2
    <3>. HIDE DEF prefix, value
    <3>. QED  BY <1>4, <3>1, <3>2, SMTT(30)
  <2>. HIDE DEF start, end
  <2>. QED  BY <2>1, ConcatAdjacentSubSeq
<1>11. read.offset + (w + length) = end
  BY <1>2, <1>4, <1>6
<1>12. Encodable(n, value)
  BY <1>1, <1>7 DEF Encodable, spec
<1>. HIDE DEF value, end
<1>. QED  BY <1>1, <1>4, <1>7, <1>8, <1>9, <1>10, <1>11, <1>12

\* One more field
LEMMA OneMore ==
  ASSUME NEW fields \in FieldSets, NEW n \in 2..128, NEW value \in Seq(Byte)
  PROVE  With(fields, n, value) \in FieldSets
<1>1. PICK D \in SUBSET (2..128) : fields \in [D -> Seq(Byte)]
  BY DEF FieldSets
<1>2. With(fields, n, value) \in [D \union {n} -> Seq(Byte)]
  BY <1>1 DEF With
<1>3. D \union {n} \in SUBSET (2..128)
  OBVIOUS
<1>. QED  BY <1>2, <1>3 DEF FieldSets

\* Reading a field gives what has been read, or fails.
LEMMA ReadFieldType ==
  ASSUME NEW raw \in Seq(Byte), NEW read \in Reads, NEW n \in 2..128
  PROVE  ReadField(raw, read, n) \in Reads
<1>1. CASE ReadField(raw, read, n) = Failed
  BY <1>1 DEF Reads
<1>2. CASE ReadField(raw, read, n) # Failed
  <2>1. PICK value \in Seq(Byte) :
           /\ read # Failed /\ read.offset \in Nat /\ Encodable(n, value)
           /\ ReadField(raw, read, n) = [offset |-> read.offset + Len(EncodeField(n, value)),
                                         fields |-> With(read.fields, n, value)]
    BY <1>2, ReadFieldValue
  <2>2. EncodeField(n, value) \in Seq(Byte)
    BY <2>1, EncodeFieldType DEF Encodable
  <2>3. read.offset + Len(EncodeField(n, value)) \in Nat
    BY <2>1, <2>2, LenProperties
  <2>4. read.fields \in FieldSets
    BY <2>1 DEF Reads
  <2>5. With(read.fields, n, value) \in FieldSets
    BY <2>4, OneMore
  <2>. QED  BY <2>1, <2>3, <2>5 DEF Reads
<1>. QED  BY <1>1, <1>2

ReadStep(raw) == [p \in FieldNumbers(raw) \X Reads |-> ReadField(raw, p[2], p[1])]

\* The elements a message can announce, and where its bitmaps end
LEMMA FieldNumbersType == \A raw : FieldNumbers(raw) \subseteq 2..128 /\ BitmapEnd(raw) \in {12, 20}
BY DEF FieldNumbers, Bits, BitmapEnd

\* ReadFields reads the elements one at a time, in the order of their numbers.
LEMMA ReadingFields ==
  ASSUME NEW raw \in Seq(Byte)
  PROVE  \E R \in [Nat -> Reads] :
           /\ R[0] = [offset |-> BitmapEnd(raw), fields |-> <<>>]
           /\ \A n \in Nat : R[n + 1] = IF n + 1 \in FieldNumbers(raw)
                                        THEN ReadField(raw, R[n], n + 1) ELSE R[n]
           /\ ReadFields(raw) = R[128]
<1>. DEFINE D == FieldNumbers(raw)
            V == Reads
            base == [offset |-> BitmapEnd(raw), fields |-> <<>>]
            eq(h) == [s \in SUBSET D |->
                        IF s = {} THEN base ELSE ReadField(raw, h[s \ {Max(s)}], Max(s))]
            iter == CHOOSE h : h = eq(h)
<1>0. \A n \in D : n \in 2..128
  BY FieldNumbersType
<1>1. Numbers(D)
  <2>. HIDE DEF D
  <2>. QED  BY <1>0, NumbersOfFields
<1>2. base \in V
  <2>1. BitmapEnd(raw) \in Nat
    BY FieldNumbersType
  <2>2. <<>> \in FieldSets
    <3>1. <<>> \in [{} -> Seq(Byte)] /\ {} \in SUBSET (2..128)
      OBVIOUS
    <3>. QED  BY <3>1 DEF FieldSets
  <2>. QED  BY <2>1, <2>2 DEF Reads
<1>3. /\ ReadStep(raw) \in [D \X V -> V]
      /\ \A n \in D, v \in V : ReadStep(raw)[<<n, v>>] = ReadField(raw, v, n)
  <2>1. ReadStep(raw) = [p \in D \X V |-> ReadField(raw, p[2], p[1])]
    BY DEF ReadStep
  <2>. HIDE DEF V, D
  <2>2. \A p \in D \X V : ReadField(raw, p[2], p[1]) \in V
    BY <1>0, ReadFieldType DEF V
  <2>. QED  BY <2>1, <2>2
<1>. HIDE DEF V, D, base
<1>4. PICK g : IsFold(g, D, V, base, ReadStep(raw))
  BY <1>1, <1>2, <1>3, FoldExists
<1>5. \A s \in SUBSET D : s # {} => Max(s) \in D
  BY <1>1, Greatest, FewerNumbers
<1>6. g = eq(g)
  BY <1>3, <1>4, <1>5 DEF IsFold
<1>7. iter = eq(iter)
  <2>. HIDE DEF eq
  <2>. QED  BY <1>6, Zenon
<1>8. ReadFields(raw) = iter[D]
  BY Zenon DEF ReadFields, MapThenFoldSet, D, base
<1>9. Unfolds(iter, D, V, base, ReadStep(raw))
  <2>. HIDE DEF iter
  <2>. QED  BY <1>3, <1>5, <1>7 DEF Unfolds
<1>. HIDE DEF iter, eq
<1>10. iter[D] = g[D]
  BY <1>1, <1>4, <1>9, FoldUnique
<1>. DEFINE R == [n \in Nat |-> g[UpTo(D, n)]]
<1>11. R \in [Nat -> V]
  BY <1>4 DEF IsFold, UpTo
<1>12. UpTo(D, 0) = {} /\ UpTo(D, 128) = D
  <2>1. \A n \in 2..128 : ~(n <= 0) /\ n <= 128
    OBVIOUS
  <2>2. \A n \in D : ~(n <= 0) /\ n <= 128
    BY <1>0, <2>1
  <2>. QED  BY <2>2 DEF UpTo
<1>13. R[0] = base /\ R[128] = g[D]
  BY <1>4, <1>12 DEF IsFold
<1>14. ASSUME NEW n \in Nat
       PROVE  R[n + 1] = IF n + 1 \in D THEN ReadField(raw, R[n], n + 1) ELSE R[n]
  <2>1. PICK step : step = ReadStep(raw)
    OBVIOUS
  <2>2. IsFold(g, D, V, base, step)
    BY <1>4, <2>1
  <2>3. g[UpTo(D, n + 1)] = IF n + 1 \in D THEN step[<<n + 1, g[UpTo(D, n)]>>] ELSE g[UpTo(D, n)]
    BY <1>1, <2>2, FoldUpTo
  <2>4. g[UpTo(D, n)] \in V
    BY <1>4 DEF IsFold, UpTo
  <2>. QED  BY <1>3, <2>1, <2>3, <2>4
<1>. QED  BY <1>8, <1>10, <1>11, <1>13, <1>14, ZenonT(30) DEF D, V, base

\* What has been read up to an element encodes to the bytes it was read from.
ReadSoFar(raw, read, n) ==
  /\ read.fields \in FieldSets
  /\ DOMAIN read.fields = UpTo(FieldNumbers(raw), n)
  /\ \A m \in DOMAIN read.fields : Encodable(m, read.fields[m])
  /\ read.offset \in BitmapEnd(raw)..Len(raw)
  /\ Body(read.fields) = SubSeq(raw, BitmapEnd(raw) + 1, read.offset)

\* Fields that can be encoded can be written.
LEMMA WritableFields ==
  ASSUME NEW fields \in FieldSets, \A m \in DOMAIN fields : Encodable(m, fields[m])
  PROVE  Writable(fields)
BY DEF FieldSets, Writable, Encodable

\* Reading one more element keeps that.
LEMMA OneFieldRead ==
  ASSUME NEW raw \in Seq(Byte), Len(raw) >= BitmapEnd(raw), NEW n \in Nat, NEW read \in Reads,
         read # Failed, ReadSoFar(raw, read, n), n + 1 \in FieldNumbers(raw),
         ReadField(raw, read, n + 1) # Failed
  PROVE  ReadSoFar(raw, ReadField(raw, read, n + 1), n + 1)
<1>. DEFINE next == ReadField(raw, read, n + 1)
            start == BitmapEnd(raw)
            D == FieldNumbers(raw)
<1>1. PICK value \in Seq(Byte) :
        /\ read.offset \in Nat /\ Encodable(n + 1, value)
        /\ read.offset + Len(EncodeField(n + 1, value)) <= Len(raw)
        /\ EncodeField(n + 1, value)
             = SubSeq(raw, read.offset + 1, read.offset + Len(EncodeField(n + 1, value)))
        /\ next = [offset |-> read.offset + Len(EncodeField(n + 1, value)),
                   fields |-> With(read.fields, n + 1, value)]
  BY ReadFieldValue
<1>2. n + 1 \in 2..128 /\ (\A m \in D : m \in Nat) /\ start \in Nat
  <2>1. \A m \in D : m \in 2..128
    BY FieldNumbersType
  <2>2. start \in {12, 20}
    BY FieldNumbersType
  <2>3. \A m \in 2..128 : m \in Nat
    OBVIOUS
  <2>4. n + 1 \in D
    OBVIOUS
  <2>5. 12 \in Nat /\ 20 \in Nat
    OBVIOUS
  <2>. HIDE DEF D, start
  <2>6. n + 1 \in 2..128 /\ \A m \in D : m \in Nat
    BY <2>1, <2>3, <2>4, Zenon
  <2>. QED  BY <2>2, <2>5, <2>6
<1>. DEFINE fields == read.fields
            more == With(fields, n + 1, value)
<1>3. more \in FieldSets
  BY <1>2, OneMore DEF ReadSoFar
<1>4. DOMAIN fields = UpTo(D, n) /\ DOMAIN more = DOMAIN fields \union {n + 1}
  BY DEF ReadSoFar, With
<1>5. UpTo(D, n + 1) = UpTo(D, n) \union {n + 1}
  <2>1. \A m \in D : m <= n + 1 <=> m <= n \/ m = n + 1
    <3>1. \A m \in Nat : m <= n + 1 <=> m <= n \/ m = n + 1
      OBVIOUS
    <3>. HIDE DEF D
    <3>. QED  BY <1>2, <3>1
  <2>2. n + 1 \in D /\ n + 1 <= n + 1
    OBVIOUS
  <2>. QED  BY <2>1, <2>2 DEF UpTo
<1>6. more[n + 1] = value /\ \A m \in DOMAIN fields : more[m] = fields[m]
  <2>1. \A m \in DOMAIN fields : m # n + 1
    BY <1>2, <1>4 DEF UpTo
  <2>. QED  BY <1>4, <2>1 DEF With
<1>7. \A m \in DOMAIN more : Encodable(m, more[m])
  BY <1>1, <1>4, <1>6 DEF ReadSoFar
<1>8. Writable(more)
  <2>. HIDE DEF more
  <2>. QED  BY <1>3, <1>7, WritableFields
<1>9. Part(more, n) = fields
  <2>1. UpTo(DOMAIN more, n) = DOMAIN fields
    <3>1. \A m \in DOMAIN fields : m <= n
      BY <1>4 DEF UpTo
    <3>2. ~(n + 1 <= n)
      OBVIOUS
    <3>. HIDE DEF more, fields
    <3>. QED  BY <1>4, <3>1, <3>2 DEF UpTo
  <2>2. fields = [m \in DOMAIN fields |-> fields[m]]
    BY DEF ReadSoFar, FieldSets
  <2>. HIDE DEF more, fields
  <2>. QED  BY <1>6, <2>1, <2>2 DEF Part
<1>10. Part(more, n + 1) = more
  <2>1. UpTo(DOMAIN more, n + 1) = DOMAIN more
    <3>1. \A m \in Nat : m <= n => m <= n + 1
      OBVIOUS
    <3>2. \A m \in DOMAIN fields : m \in Nat /\ m <= n
      BY <1>2, <1>4 DEF UpTo
    <3>3. n + 1 <= n + 1
      OBVIOUS
    <3>. HIDE DEF more, fields
    <3>. QED  BY <1>4, <3>1, <3>2, <3>3 DEF UpTo
  <2>2. more = [m \in DOMAIN more |-> more[m]]
    BY DEF With
  <2>. HIDE DEF more, fields
  <2>. QED  BY <2>1, <2>2 DEF Part
<1>11. Body(more) = Body(fields) \o EncodeField(n + 1, value)
  <2>. HIDE DEF more, fields
  <2>1. Body(Part(more, n + 1)) = Body(Part(more, n)) \o EncodeField(n + 1, more[n + 1])
    BY <1>4, <1>8, BodyOfPart
  <2>. QED  BY <1>6, <1>9, <1>10, <2>1
<1>12. EncodeField(n + 1, value) \in Seq(Byte)
  BY <1>1, EncodeFieldType DEF Encodable
<1>. DEFINE len == Len(EncodeField(n + 1, value))
<1>13. len \in Nat /\ Len(raw) \in Nat
  BY <1>12, LenProperties
<1>14. Body(fields) = SubSeq(raw, start + 1, read.offset) /\ read.offset \in start..Len(raw)
  BY DEF ReadSoFar
<1>. HIDE DEF more, fields, len, D
<1>15. SubSeq(raw, start + 1, read.offset) \o SubSeq(raw, read.offset + 1, read.offset + len)
         = SubSeq(raw, start + 1, read.offset + len)
  <2>1. /\ start + 1 \in 1..Len(raw) + 1 /\ read.offset \in (start + 1) - 1..Len(raw)
        /\ read.offset + len \in read.offset..Len(raw)
    <3>1. read.offset + len <= Len(raw)
      BY <1>1 DEF len
    <3>2. \A a, b, c, d \in Nat : b \in a..d /\ b + c <= d =>
            /\ a + 1 \in 1..d + 1 /\ b \in (a + 1) - 1..d /\ b + c \in b..d
      OBVIOUS
    <3>. HIDE DEF start
    <3>. QED  BY <1>1, <1>2, <1>13, <1>14, <3>1, <3>2
  <2>. QED  BY <2>1, ConcatAdjacentSubSeq
<1>16. Body(more) = SubSeq(raw, start + 1, read.offset + len)
  BY <1>1, <1>11, <1>14, <1>15 DEF len
<1>17. read.offset + len \in start..Len(raw)
  BY <1>1, <1>2, <1>13, <1>14 DEF len
<1>18. DOMAIN more = UpTo(D, n + 1)
  BY <1>4, <1>5
<1>. QED  BY <1>1, <1>3, <1>7, <1>16, <1>17, <1>18, SMTT(30) DEF ReadSoFar, more, fields, len, D

\* Bytes that are read to the end are the body of the elements announced, all
\* of them as their specifications have them.
LEMMA DecodedFields ==
  ASSUME NEW raw \in Seq(Byte), Len(raw) >= BitmapEnd(raw),
         ReadFields(raw).offset = Len(raw)
  PROVE  /\ ReadFields(raw) \in Reads \ {Failed}
         /\ ReadFields(raw).fields \in FieldSets
         /\ DOMAIN ReadFields(raw).fields = FieldNumbers(raw)
         /\ \A m \in FieldNumbers(raw) : Encodable(m, ReadFields(raw).fields[m])
         /\ Body(ReadFields(raw).fields) = SubSeq(raw, BitmapEnd(raw) + 1, Len(raw))
<1>. DEFINE D == FieldNumbers(raw)
            start == BitmapEnd(raw)
<1>1. PICK R \in [Nat -> Reads] :
        /\ R[0] = [offset |-> start, fields |-> <<>>]
        /\ \A n \in Nat : R[n + 1] = IF n + 1 \in D THEN ReadField(raw, R[n], n + 1) ELSE R[n]
        /\ ReadFields(raw) = R[128]
  BY ReadingFields
<1>2. (\A n \in D : n \in 2..128) /\ start \in Nat /\ start <= Len(raw) /\ Len(raw) \in Nat
  BY FieldNumbersType, LenProperties
<1>. DEFINE Q == {n \in Nat : R[n] # Failed => ReadSoFar(raw, R[n], n)}
<1>3. 0 \in Q
  <2>1. UpTo(D, 0) = {}
    <3>1. \A n \in 2..128 : ~(n <= 0)
      OBVIOUS
    <3>. HIDE DEF D
    <3>. QED  BY <1>2, <3>1 DEF UpTo
  <2>. DEFINE none == [n \in {} |-> <<>>]
  <2>2. <<>> = none /\ DOMAIN none = {}
    OBVIOUS
  <2>3. none \in FieldSets
    <3>1. none \in [{} -> Seq(Byte)] /\ {} \in SUBSET (2..128)
      OBVIOUS
    <3>. HIDE DEF none
    <3>. QED  BY <3>1 DEF FieldSets
  <2>4. Writable(none)
    BY DEF Writable
  <2>5. Part(none, 0) = none
    BY DEF Part, UpTo
  <2>. HIDE DEF none
  <2>6. Body(none) = <<>>
    BY <2>4, <2>5, BodyOfPart
  <2>7. SubSeq(raw, start + 1, start) = <<>>
    <3>. HIDE DEF start
    <3>1. start + 1 > start /\ start + 1 \in Int /\ start \in Int
      BY <1>2
    <3>. QED  BY <3>1, SubSeqEmpty
  <2>8. start \in start..Len(raw)
    BY <1>2
  <2>. HIDE DEF D, start
  <2>9. ReadSoFar(raw, [offset |-> start, fields |-> none], 0)
    BY <2>1, <2>2, <2>3, <2>6, <2>7, <2>8 DEF ReadSoFar, D, start
  <2>. QED  BY <1>1, <2>2, <2>9
<1>4. ASSUME NEW n \in Q PROVE n + 1 \in Q
  <2>. SUFFICES ASSUME R[n + 1] # Failed PROVE ReadSoFar(raw, R[n + 1], n + 1)
    OBVIOUS
  <2>1. n \in Nat /\ R[n] \in Reads
    BY <1>1
  <2>2. CASE n + 1 \in D
    <3>1. R[n + 1] = ReadField(raw, R[n], n + 1)
      BY <1>1, <2>1, <2>2
    <3>2. R[n] # Failed
      BY <3>1 DEF ReadField
    <3>3. ReadSoFar(raw, R[n], n)
      BY <3>2
    <3>4. ReadSoFar(raw, ReadField(raw, R[n], n + 1), n + 1)
      BY <2>1, <2>2, <3>1, <3>2, <3>3, OneFieldRead
    <3>. QED  BY <3>1, <3>4
  <2>3. CASE n + 1 \notin D
    <3>1. R[n + 1] = R[n]
      BY <1>1, <2>1, <2>3
    <3>2. ReadSoFar(raw, R[n], n)
      BY <3>1
    <3>3. UpTo(D, n + 1) = UpTo(D, n)
      <4>1. \A m \in D : m <= n + 1 <=> m <= n
        <5>1. \A m \in 2..128 : m # n + 1 => (m <= n + 1 <=> m <= n)
          BY <2>1
        <5>. HIDE DEF D
        <5>. QED  BY <1>2, <2>3, <5>1
      <4>. QED  BY <4>1 DEF UpTo
    <3>. HIDE DEF Q
    <3>. QED  BY <3>1, <3>2, <3>3 DEF ReadSoFar
  <2>. QED  BY <2>2, <2>3
<1>5. Q = Nat
  <2>1. Q \in SUBSET Nat
    OBVIOUS
  <2>. HIDE DEF Q
  <2>. QED  BY <1>3, <1>4, <2>1, AllNaturals
<1>6. ReadFields(raw) \in Reads /\ ReadFields(raw) # Failed
  <2>1. R[128] \in Reads
    BY <1>1
  <2>2. Failed.offset = -1
    BY DEF Failed
  <2>3. ReadFields(raw).offset \in Nat
    BY <1>2
  <2>4. ~(-1 \in Nat)
    OBVIOUS
  <2>. QED  BY <1>1, <2>1, <2>2, <2>3, <2>4, SMTT(90)
<1>7. ReadSoFar(raw, ReadFields(raw), 128)
  <2>1. 128 \in Q
    <3>. HIDE DEF Q
    <3>. QED  BY <1>5
  <2>. QED  BY <1>1, <1>6, <2>1
<1>8. UpTo(D, 128) = D
  <2>1. \A n \in 2..128 : n <= 128
    OBVIOUS
  <2>2. \A n \in D : n <= 128
    BY <1>2, <2>1
  <2>. QED  BY <2>2 DEF UpTo
<1>. QED  BY <1>6, <1>7, <1>8 DEF ReadSoFar

-----------------------------------------------------------------------------
(* Bytes that are decoded *)

\* A part of some bytes
LEMMA Segment ==
  ASSUME NEW raw \in Seq(Byte), NEW a \in 1..Len(raw) + 1, NEW b \in a - 1..Len(raw)
  PROVE  /\ SubSeq(raw, a, b) \in Seq(Byte)
         /\ Len(SubSeq(raw, a, b)) = b - a + 1
         /\ \A i \in 1..b - a + 1 : SubSeq(raw, a, b)[i] = raw[a + i - 1]
<1>1. Len(raw) \in Nat /\ \A i \in 1..Len(raw) : raw[i] \in Byte
  BY LenProperties, ElementOfSeq
<1>2. a \in Int /\ b \in Int /\ 1 <= a /\ b <= Len(raw) /\ a - 1 <= b
  BY <1>1
<1>3. \A i \in a..b : raw[i] \in Byte
  BY <1>1, <1>2
<1>4. (IF a <= b THEN b - a + 1 ELSE 0) = b - a + 1
  BY <1>2
<1>. QED  BY <1>2, <1>3, <1>4, SubSeqProperties

\* Each of the two bitmaps of a message is that of its bits.
LEMMA BitmapSegment ==
  ASSUME NEW raw \in Seq(Byte), NEW a \in {5, 13}, Len(raw) >= a + 7
  PROVE  /\ SubSeq(raw, a, a + 7) \in Seq(Byte)
         /\ Bitmap(Bits(SubSeq(raw, a, a + 7))) = SubSeq(raw, a, a + 7)
<1>. DEFINE s == SubSeq(raw, a, a + 7)
<1>1. Len(raw) \in Nat
  BY LenProperties
<1>2. a \in 1..Len(raw) + 1 /\ a + 7 \in a - 1..Len(raw) /\ (a + 7) - a + 1 = 8
  BY <1>1
<1>3. s \in Seq(Byte) /\ Len(s) = 8
  BY <1>2, Segment
<1>. HIDE DEF s
<1>4. s \in [1..8 -> Byte]
  BY <1>3, LenProperties
<1>. QED  BY <1>3, <1>4, BitmapOfBits DEF s

\* The property OneFormPerMessage of some bytes
OneForm(raw) ==
  LET bytes == Encode(Decode(raw))
      primary == Bits(SubSeq(raw, 5, 12)) \ {1}
  IN  \/ bytes = raw
      \/ /\ HasSecondary(raw) /\ SubSeq(raw, 13, 20) = Bitmap({})
         /\ bytes = SubSeq(raw, 1, 4) \o Bitmap(primary) \o SubSeq(raw, 21, Len(raw))

\* What decode makes of bytes
LEMMA Decoded ==
  ASSUME NEW raw, Decode(raw) # Rejected
  PROVE  /\ Len(raw) >= 12 /\ ValidMti(SubSeq(raw, 1, 4)) /\ Len(raw) >= BitmapEnd(raw)
         /\ ReadFields(raw).offset = Len(raw)
         /\ Decode(raw) = [mti |-> SubSeq(raw, 1, 4), fields |-> ReadFields(raw).fields]
BY DEF Decode

\* Bytes that are decoded are those encode gives for the message.
LEMMA DecodeThenEncode ==
  ASSUME NEW raw \in Seq(Byte), Decode(raw) # Rejected
  PROVE  OneForm(raw)
<1>. DEFINE mti == SubSeq(raw, 1, 4)
            first == SubSeq(raw, 5, 12)
            second == SubSeq(raw, 13, 20)
            start == BitmapEnd(raw)
            body == SubSeq(raw, start + 1, Len(raw))
            fields == ReadFields(raw).fields
            D == FieldNumbers(raw)
            high == {n \in D : n > 64}
            primary == (D \ high) \union (IF high = {} THEN {} ELSE {1})
<1>1. /\ Len(raw) >= 12 /\ ValidMti(mti) /\ Len(raw) >= start
      /\ ReadFields(raw).offset = Len(raw)
      /\ Decode(raw) = [mti |-> mti, fields |-> fields]
  BY Decoded
<1>2. /\ DOMAIN fields = D /\ \A m \in D : Encodable(m, fields[m])
      /\ Body(fields) = body
  BY <1>1, DecodedFields
<1>3. Encode(Decode(raw)) = mti \o Bitmap(primary)
             \o (IF high = {} THEN <<>> ELSE Bitmap({n - 64 : n \in high})) \o body
  <2>. DEFINE message == Decode(raw)
              numbers == DOMAIN message.fields
  <2>1. message.mti = mti /\ message.fields = fields /\ numbers = D
    BY <1>1, <1>2
  <2>. HIDE DEF message, mti, fields, D, body
  <2>2. ValidMti(message.mti) /\ \A n \in numbers : Encodable(n, message.fields[n])
    BY <1>1, <1>2, <2>1
  <2>. QED  BY <1>2, <2>1, <2>2 DEF Encode, message
<1>4. Len(raw) \in Nat /\ start \in {12, 20}
  BY LenProperties, FieldNumbersType
<1>5. /\ mti \in Seq(Byte) /\ body \in Seq(Byte)
      /\ first \in Seq(Byte) /\ Bitmap(Bits(first)) = first
  <2>1. /\ 1 \in 1..Len(raw) + 1 /\ 4 \in 1 - 1..Len(raw)
        /\ start + 1 \in 1..Len(raw) + 1 /\ Len(raw) \in (start + 1) - 1..Len(raw)
    BY <1>1, <1>4
  <2>2. Len(raw) >= 5 + 7
    BY <1>1
  <2>3. mti \in Seq(Byte) /\ body \in Seq(Byte)
    <3>. HIDE DEF start
    <3>. QED  BY <2>1, Segment
  <2>4. SubSeq(raw, 5, 5 + 7) = first
    OBVIOUS
  <2>5. /\ SubSeq(raw, 5, 5 + 7) \in Seq(Byte)
        /\ Bitmap(Bits(SubSeq(raw, 5, 5 + 7))) = SubSeq(raw, 5, 5 + 7)
    BY <2>2, BitmapSegment
  <2>. QED  BY <2>3, <2>4, <2>5
<1>6. Bits(first) \subseteq 1..64 /\ Bits(second) \subseteq 1..64
  BY DEF Bits
<1>7. mti \o first = SubSeq(raw, 1, 12)
  <2>1. 1 \in 1..Len(raw) + 1 /\ 4 \in 1 - 1..Len(raw) /\ 12 \in 4..Len(raw)
    BY <1>1, <1>4
  <2>2. SubSeq(raw, 1, 4) \o SubSeq(raw, 4 + 1, 12) = SubSeq(raw, 1, 12)
    BY <2>1, ConcatAdjacentSubSeq
  <2>. QED  BY <2>2
<1>8. SubSeq(raw, 1, start) \o body = raw
  <2>1. 1 \in 1..Len(raw) + 1 /\ start \in 1 - 1..Len(raw) /\ Len(raw) \in start..Len(raw)
    BY <1>1, <1>4
  <2>. HIDE DEF start
  <2>2. SubSeq(raw, 1, start) \o SubSeq(raw, start + 1, Len(raw)) = SubSeq(raw, 1, Len(raw))
    BY <2>1, ConcatAdjacentSubSeq
  <2>. QED  BY <2>2, SubSeqFull
<1>9. CASE ~HasSecondary(raw)
  <2>1. start = 12 /\ 1 \notin Bits(first) /\ D = Bits(first)
    BY <1>9 DEF HasSecondary, BitmapEnd, FieldNumbers
  <2>2. high = {}
    <3>1. \A n \in 1..64 : ~(n > 64)
      OBVIOUS
    <3>. HIDE DEF D, first
    <3>. QED  BY <1>6, <2>1, <3>1
  <2>3. primary = Bits(first)
    BY <2>1, <2>2
  <2>. HIDE DEF high, primary, D, mti, first, body, start
  <2>4. mti \o first \in Seq(Byte)
    BY <1>5, ConcatProperties
  <2>5. Encode(Decode(raw)) = mti \o first \o <<>> \o body
    BY <1>3, <1>5, <2>2, <2>3
  <2>6. Encode(Decode(raw)) = raw
    BY <1>7, <1>8, <2>1, <2>4, <2>5, ConcatEmptySeq
  <2>. QED  BY <2>6, Zenon DEF OneForm
<1>10. CASE HasSecondary(raw)
  <2>1. /\ start = 20 /\ 1 \in Bits(first)
        /\ D = (Bits(first) \ {1}) \union {n + 64 : n \in Bits(second)}
    BY <1>10 DEF HasSecondary, BitmapEnd, FieldNumbers
  <2>2. second \in Seq(Byte) /\ Bitmap(Bits(second)) = second
    <3>1. Len(raw) >= 13 + 7 /\ SubSeq(raw, 13, 13 + 7) = second
      BY <1>1, <2>1
    <3>2. /\ SubSeq(raw, 13, 13 + 7) \in Seq(Byte)
          /\ Bitmap(Bits(SubSeq(raw, 13, 13 + 7))) = SubSeq(raw, 13, 13 + 7)
      BY <3>1, BitmapSegment
    <3>. QED  BY <3>1, <3>2
  <2>3. high = {n + 64 : n \in Bits(second)} /\ D \ high = Bits(first) \ {1}
    <3>1. \A n \in 1..64 : ~(n > 64) /\ n + 64 > 64
      OBVIOUS
    <3>. HIDE DEF D, first, second
    <3>2. (\A n \in Bits(first) : ~(n > 64)) /\ \A n \in Bits(second) : n + 64 > 64
      BY <1>6, <3>1
    <3>. QED  BY <2>1, <3>2
  <2>4. {n - 64 : n \in high} = Bits(second)
    <3>1. \A n \in 1..64 : (n + 64) - 64 = n
      OBVIOUS
    <3>. HIDE DEF high, second, D
    <3>2. \A n \in Bits(second) : (n + 64) - 64 = n
      BY <1>6, <3>1
    <3>. QED  BY <2>3, <3>2
  <2>5. CASE Bits(second) # {}
    <3>1. high # {} /\ primary = Bits(first)
      <4>. HIDE DEF D, first, second, high
      <4>1. high # {}
        BY <2>3, <2>5
      <4>2. primary = (Bits(first) \ {1}) \union {1}
        BY <2>3, <4>1
      <4>. QED  BY <2>1, <4>1, <4>2
    <3>. HIDE DEF high, primary, D, mti, first, second, body, start
    <3>2. Encode(Decode(raw)) = mti \o first \o second \o body
      BY <1>3, <1>5, <2>2, <2>4, <3>1
    <3>3. SubSeq(raw, 1, 12) \o second = SubSeq(raw, 1, 20)
      <4>1. 1 \in 1..Len(raw) + 1 /\ 12 \in 1 - 1..Len(raw) /\ 20 \in 12..Len(raw)
        BY <1>1, <1>4, <2>1
      <4>2. SubSeq(raw, 1, 12) \o SubSeq(raw, 12 + 1, 20) = SubSeq(raw, 1, 20)
        BY <4>1, ConcatAdjacentSubSeq
      <4>. QED  BY <4>2 DEF second
    <3>4. Encode(Decode(raw)) = raw
      BY <1>7, <1>8, <2>1, <3>2, <3>3
    <3>. QED  BY <3>4, Zenon DEF OneForm
  <2>6. CASE Bits(second) = {}
    <3>1. high = {} /\ primary = Bits(first) \ {1}
      BY <2>3, <2>6
    <3>2. second = Bitmap({})
      BY <2>2, <2>6
    <3>3. Bitmap(primary) \in Seq(Byte)
      <4>. HIDE DEF primary
      <4>1. PICK k \in Nat : k = 8
        OBVIOUS
      <4>2. Bitmap(primary) \in [1..k -> Byte]
        BY <4>1, BitmapIsBytes
      <4>. QED  BY <4>2, SeqDef
    <3>4. Encode(Decode(raw)) = mti \o Bitmap(primary) \o <<>> \o body
      <4>. HIDE DEF high, primary, D, mti, body, start
      <4>. QED  BY <1>3, <3>1
    <3>5. Encode(Decode(raw)) = mti \o Bitmap(primary) \o body
      <4>. HIDE DEF high, primary, D, mti, body, start
      <4>1. mti \o Bitmap(primary) \in Seq(Byte)
        BY <1>5, <3>3, ConcatProperties
      <4>. QED  BY <3>4, <4>1, ConcatEmptySeq
    <3>6. body = SubSeq(raw, 21, Len(raw))
      BY <2>1
    <3>7. /\ SubSeq(raw, 13, 20) = Bitmap({})
          /\ Encode(Decode(raw)) = SubSeq(raw, 1, 4) \o Bitmap(Bits(SubSeq(raw, 5, 12)) \ {1})
                                   \o SubSeq(raw, 21, Len(raw))
      BY <3>1, <3>2, <3>5, <3>6
    <3>. QED  BY <1>10, <3>7, Zenon DEF OneForm
  <2>. QED  BY <2>5, <2>6
<1>. QED  BY <1>9, <1>10

-----------------------------------------------------------------------------
(* Messages that are encoded *)

\* A part of a sequence, by its place
LEMMA Middle ==
  ASSUME NEW s \in Seq(Byte), NEW t \in Seq(Byte), NEW u \in Seq(Byte)
  PROVE  /\ SubSeq((s \o t) \o u, Len(s) + 1, Len(s) + Len(t)) = t
         /\ Len((s \o t) \o u) = Len(s) + Len(t) + Len(u)
<1>. DEFINE whole == (s \o t) \o u
<1>1. Len(s) \in Nat /\ Len(t) \in Nat /\ Len(u) \in Nat
  BY LenProperties
<1>2. /\ s \o t \in Seq(Byte) /\ Len(s \o t) = Len(s) + Len(t)
      /\ \A i \in 1..Len(s) + Len(t) : (s \o t)[i] = IF i <= Len(s) THEN s[i] ELSE t[i - Len(s)]
  BY ConcatProperties
<1>3. /\ whole \in Seq(Byte) /\ Len(whole) = Len(s) + Len(t) + Len(u)
      /\ \A i \in 1..Len(s) + Len(t) + Len(u) :
           whole[i] = IF i <= Len(s) + Len(t) THEN (s \o t)[i] ELSE u[i - (Len(s) + Len(t))]
  <2>. PICK st \in Seq(Byte) : st = s \o t
    BY <1>2
  <2>1. /\ st \o u \in Seq(Byte) /\ Len(st \o u) = Len(st) + Len(u)
        /\ \A i \in 1..Len(st) + Len(u) : (st \o u)[i] =
              IF i <= Len(st) THEN st[i] ELSE u[i - Len(st)]
    BY ConcatProperties
  <2>. QED  BY <1>2, <2>1
<1>. HIDE DEF whole
<1>. DEFINE a == Len(s) + 1
            b == Len(s) + Len(t)
<1>4. a \in 1..Len(whole) + 1 /\ b \in a - 1..Len(whole) /\ b - a + 1 = Len(t)
  BY <1>1, <1>3
<1>5. /\ SubSeq(whole, a, b) \in Seq(Byte) /\ Len(SubSeq(whole, a, b)) = b - a + 1
      /\ \A i \in 1..b - a + 1 : SubSeq(whole, a, b)[i] = whole[a + i - 1]
  <2>. HIDE DEF a, b
  <2>. QED  BY <1>3, <1>4, Segment
<1>6. \A i \in 1..Len(t) : whole[a + i - 1] = t[i]
  <2>. TAKE i \in 1..Len(t)
  <2>1. /\ Len(s) + i \in 1..Len(s) + Len(t) + Len(u) /\ Len(s) + i <= Len(s) + Len(t)
        /\ ~(Len(s) + i <= Len(s)) /\ (Len(s) + i) - Len(s) = i
        /\ Len(s) + i \in 1..Len(s) + Len(t) /\ a + i - 1 = Len(s) + i
    BY <1>1
  <2>2. PICK j \in 1..Len(s) + Len(t) :
          /\ j = Len(s) + i /\ j \in 1..Len(s) + Len(t) + Len(u) /\ j <= Len(s) + Len(t)
          /\ ~(j <= Len(s)) /\ j - Len(s) = i /\ a + i - 1 = j
    BY <2>1
  <2>3. whole[j] = (s \o t)[j] /\ (s \o t)[j] = t[i]
    BY <1>2, <1>3, <2>2
  <2>. QED  BY <2>2, <2>3
<1>. HIDE DEF a, b
<1>7. Len(SubSeq(whole, a, b)) = Len(t) /\ \A i \in 1..Len(t) : SubSeq(whole, a, b)[i] = t[i]
  BY <1>4, <1>5, <1>6
<1>8. SubSeq(whole, a, b) = t
  BY <1>5, <1>7, SeqEqual
<1>. QED  BY <1>3, <1>8 DEF a, b, whole

\* Concatenations of bytes are bytes.
LEMMA Concats ==
  \A s, t \in Seq(Byte) : s \o t \in Seq(Byte) /\ Len(s \o t) = Len(s) + Len(t)
BY ConcatProperties

\* Concatenation is associative.
LEMMA Associative ==
  \A s, t, u \in Seq(Byte) : (s \o t) \o u = s \o (t \o u)
BY ConcatAssociative

Regroups(a, b, c, d) == a \o ((b \o c) \o d) = ((a \o b) \o c) \o d

\* Four parts can be put together in either order.
LEMMA Regrouped == \A a, b, c, d \in Seq(Byte) : Regroups(a, b, c, d)
<1>. TAKE a, b, c, d \in Seq(Byte)
<1>1. b \o c \in Seq(Byte)
  BY ConcatProperties
<1>2. (a \o (b \o c)) \o d = a \o ((b \o c) \o d)
  BY <1>1, Associative, SMTT(30)
<1>3. (a \o b) \o c = a \o (b \o c)
  BY Associative, SMTT(30)
<1>. QED  BY <1>2, <1>3 DEF Regroups

\* A length prefix has the digits its width says.
LEMMA LengthPrefixes ==
  \A n \in Nat, w \in {0, 2, 3} :
    /\ AllIn(Decimal(n, w), Digits)
    /\ Decimal(n, w) \in Seq(Byte)
    /\ Len(Decimal(n, w)) = w
<1>. TAKE n \in Nat, w \in {0, 2, 3}
<1>. QED  BY DecimalValue

\* A field is written at an offset of the bytes.
WrittenAt(raw, offset, n, value) ==
  \E before, after \in Seq(Byte) :
    Len(before) = offset /\ raw = (before \o EncodeField(n, value)) \o after

\* A field that was written is read back.
LEMMA OneFieldBack ==
  ASSUME NEW raw, NEW read, NEW n, NEW value \in Seq(Byte), Encodable(n, value), read # Failed,
         WrittenAt(raw, read.offset, n, value)
  PROVE  ReadField(raw, read, n) = [offset |-> read.offset + Len(EncodeField(n, value)),
                                    fields |-> With(read.fields, n, value)]
<1>. PICK before \in Seq(Byte), after \in Seq(Byte) :
       Len(before) = read.offset /\ raw = (before \o EncodeField(n, value)) \o after
  BY DEF WrittenAt
<1>. DEFINE spec == FieldSpecs[n]
            w == PrefixWidth(spec)
            dec == Decimal(Len(value), w)
            offset == read.offset
            start == offset + w
            prefix == SubSeq(raw, offset + 1, start)
            length == IF spec.length = "fixed" THEN spec.max ELSE Number(prefix)
            end == start + length
<1>1. /\ n \in DOMAIN FieldSpecs /\ LengthAllowed(spec, Len(value)) /\ WellTyped(spec, value)
  BY DEF Encodable
<1>2. /\ w \in {0, 2, 3} /\ spec.max \in Nat /\ spec.min \in Nat
      /\ spec.length = "fixed" <=> w = 0
      /\ w = 2 => spec.max <= 99
      /\ w = 3 => spec.max <= 999
  BY <1>1, Widths
<1>3. Len(value) \in Nat /\ Len(before) \in Nat /\ Len(after) \in Nat
  BY LenProperties
<1>. HIDE DEF spec, w
<1>4. /\ dec \in Seq(Byte) /\ Len(dec) = w /\ AllIn(dec, Digits)
  <2>. PICK k \in Nat : k = Len(value)
    BY <1>3
  <2>. PICK h \in {0, 2, 3} : h = w
    BY <1>2
  <2>. QED  BY LengthPrefixes
<1>5. EncodeField(n, value) = dec \o value /\ Len(EncodeField(n, value)) = w + Len(value)
      /\ EncodeField(n, value) \in Seq(Byte)
  <2>1. EncodeField(n, value) = dec \o value
    BY DEF EncodeField, w, spec
  <2>. HIDE DEF dec
  <2>2. Len(dec \o value) = Len(dec) + Len(value) /\ dec \o value \in Seq(Byte)
    BY <1>4, ConcatProperties
  <2>. QED  BY <1>4, <2>1, <2>2
<1>. HIDE DEF dec
<1>6. /\ before \o dec \in Seq(Byte) /\ value \o after \in Seq(Byte)
      /\ Len(before \o dec) = Len(before) + w
      /\ Len(value \o after) = Len(value) + Len(after)
  BY <1>4, ConcatProperties
<1>7. raw = (before \o dec) \o (value \o after) /\ raw = ((before \o dec) \o value) \o after
  <2>1. (before \o dec) \o value = before \o (dec \o value)
    BY <1>4, Associative
  <2>2. ((before \o dec) \o value) \o after = (before \o dec) \o (value \o after)
    BY <1>6, Associative, SMTT(30)
  <2>. QED  BY <1>5, <2>1, <2>2
<1>8. prefix = dec
  <2>1. SubSeq((before \o dec) \o (value \o after), Len(before) + 1, Len(before) + Len(dec)) = dec
    BY <1>4, <1>6, Middle
  <2>. QED  BY <1>4, <1>7, <2>1
<1>9. length = Len(value)
  <2>1. CASE w = 0
    <3>1. spec.length = "fixed"
      BY <1>2, <2>1
    <3>. QED  BY <1>1, <3>1 DEF LengthAllowed
  <2>2. CASE w # 0
    <3>1. spec.length # "fixed" /\ w \in {2, 3}
      BY <1>2, <2>2
    <3>2. Len(value) \in spec.min..spec.max
      BY <1>1, <3>1 DEF LengthAllowed
    <3>3. /\ w = 2 => Len(value) <= 99
          /\ w = 3 => Len(value) <= 999
      BY <1>2, <1>3, <3>2
    <3>4. Number(dec) = Len(value)
      BY <1>3, <3>1, <3>3, NumberOfDecimal DEF dec
    <3>. HIDE DEF prefix
    <3>. QED  BY <1>8, <3>1, <3>4
  <2>. QED  BY <2>1, <2>2
<1>10. SubSeq(raw, start + 1, end) = value /\ end = Len(before) + (w + Len(value))
       /\ end <= Len(raw) /\ start <= Len(raw)
  <2>1. /\ SubSeq(((before \o dec) \o value) \o after, Len(before \o dec) + 1,
                  Len(before \o dec) + Len(value)) = value
        /\ Len(((before \o dec) \o value) \o after) = Len(before \o dec) + Len(value) + Len(after)
    BY <1>6, Middle
  <2>2. start = Len(before \o dec) /\ start \in Nat
    BY <1>2, <1>3, <1>6
  <2>. HIDE DEF length
  <2>3. end = Len(before \o dec) + Len(value)
    BY <1>9, <2>2
  <2>4. SubSeq(raw, start + 1, end) = value
    BY <1>7, <2>1, <2>2, <2>3
  <2>5. Len(raw) = Len(before) + w + Len(value) + Len(after)
    BY <1>6, <1>7, <2>1
  <2>6. end = Len(before) + (w + Len(value)) /\ start = Len(before) + w
    <3>1. start = Len(before) + w /\ end = (Len(before) + w) + Len(value)
      BY <1>9
    <3>2. \A a, b, c \in Nat : (a + b) + c = a + (b + c)
      OBVIOUS
    <3>3. w \in Nat
      BY <1>2
    <3>. HIDE DEF start, end
    <3>. QED  BY <1>3, <3>1, <3>2, <3>3
  <2>7. end <= Len(raw) /\ start <= Len(raw)
    <3>1. \A a, b, c, d \in Nat : a + (b + c) <= a + b + c + d /\ a + b <= a + b + c + d
      OBVIOUS
    <3>2. w \in Nat
      BY <1>2
    <3>. HIDE DEF end, start
    <3>. QED  BY <1>3, <2>5, <2>6, <3>1, <3>2
  <2>. QED  BY <2>4, <2>6, <2>7
<1>11. AllIn(prefix, Digits) /\ LengthAllowed(spec, length)
  <2>. HIDE DEF prefix, length
  <2>. QED  BY <1>1, <1>4, <1>8, <1>9
<1>12. ReadField(raw, read, n) =
         [offset |-> end, fields |-> With(read.fields, n, SubSeq(raw, start + 1, end))]
  <2>1. /\ start <= Len(raw) /\ end <= Len(raw) /\ WellTyped(spec, SubSeq(raw, start + 1, end))
    <3>. HIDE DEF start, end
    <3>. QED  BY <1>1, <1>10
  <2>2. ReadField(raw, read, n) =
          IF /\ read # Failed /\ n \in DOMAIN FieldSpecs
             /\ start <= Len(raw) /\ AllIn(prefix, Digits)
             /\ LengthAllowed(spec, length)
             /\ end <= Len(raw) /\ WellTyped(spec, SubSeq(raw, start + 1, end))
          THEN [offset |-> end, fields |-> With(read.fields, n, SubSeq(raw, start + 1, end))]
          ELSE Failed
    BY Zenon DEF ReadField, spec, w
  <2>. HIDE DEF start, end, prefix, length
  <2>. QED  BY <1>1, <1>11, <2>1, <2>2
<1>. HIDE DEF start, end
<1>. QED  BY <1>5, <1>10, <1>12

\* The fields up to n + 1 are those up to n with one more.
LEMMA Parts ==
  ASSUME NEW fields, NEW n \in Nat, \A m \in DOMAIN fields : m \in Nat
  PROVE  Part(fields, n + 1) = IF n + 1 \in DOMAIN fields
                               THEN With(Part(fields, n), n + 1, fields[n + 1])
                               ELSE Part(fields, n)
<1>. DEFINE D == DOMAIN fields
<1>1. \A m \in D : m \in Nat
  OBVIOUS
<1>2. \A m \in Nat : m <= n + 1 <=> m <= n \/ m = n + 1
  OBVIOUS
<1>3. ~(n + 1 <= n) /\ n + 1 <= n + 1
  OBVIOUS
<1>. HIDE DEF D
<1>4. CASE n + 1 \in D
  <2>1. UpTo(D, n + 1) = UpTo(D, n) \union {n + 1} /\ n + 1 \notin UpTo(D, n)
    BY <1>1, <1>2, <1>3, <1>4 DEF UpTo
  <2>. DEFINE part == Part(fields, n)
  <2>2. DOMAIN part = UpTo(D, n) /\ \A m \in UpTo(D, n) : part[m] = fields[m]
    BY DEF Part, D
  <2>3. Part(fields, n + 1) = [m \in UpTo(D, n) \union {n + 1} |-> fields[m]]
    BY <2>1 DEF Part, D
  <2>. HIDE DEF part
  <2>4. With(part, n + 1, fields[n + 1])
          = [m \in UpTo(D, n) \union {n + 1} |-> IF m = n + 1 THEN fields[n + 1] ELSE part[m]]
    BY <2>2 DEF With
  <2>5. Part(fields, n + 1) = With(part, n + 1, fields[n + 1])
    BY <2>1, <2>2, <2>3, <2>4
  <2>. QED  BY <1>4, <2>5 DEF part, D
<1>5. CASE n + 1 \notin D
  <2>1. UpTo(D, n + 1) = UpTo(D, n)
    BY <1>1, <1>2, <1>5 DEF UpTo
  <2>. QED  BY <1>5, <2>1 DEF Part, D
<1>. QED  BY <1>4, <1>5

\* The elements of a message are read back from its body.
LEMMA ReadBack ==
  ASSUME NEW fields, Writable(fields), \A n \in DOMAIN fields : Encodable(n, fields[n]),
         NEW head \in Seq(Byte), NEW raw, raw = head \o Body(fields),
         Len(head) = BitmapEnd(raw), FieldNumbers(raw) = DOMAIN fields
  PROVE  ReadFields(raw) = [offset |-> Len(raw), fields |-> fields]
<1>. DEFINE D == DOMAIN fields
            start == Len(head)
            body(n) == Body(Part(fields, n))
            read(n) == [offset |-> start + Len(body(n)), fields |-> Part(fields, n)]
<1>1. \A n \in D : n \in 2..128
  BY Widths DEF Writable
<1>2. \A n \in Nat : body(n) \in Seq(Byte)
  BY BodyOfPart
<1>3. body(0) = <<>> /\ Part(fields, 128) = fields
  BY BodyOfPart
<1>4. Body(fields) \in Seq(Byte)
  <2>1. 128 \in Nat
    OBVIOUS
  <2>. QED  BY <1>2, <1>3, <2>1
<1>5. raw \in Seq(Byte) /\ Len(raw) = start + Len(Body(fields)) /\ start \in Nat
  BY <1>4, ConcatProperties, LenProperties
<1>6. PICK R \in [Nat -> Reads] :
        /\ R[0] = [offset |-> BitmapEnd(raw), fields |-> <<>>]
        /\ \A n \in Nat : R[n + 1] = IF n + 1 \in FieldNumbers(raw)
                                     THEN ReadField(raw, R[n], n + 1) ELSE R[n]
        /\ ReadFields(raw) = R[128]
  BY <1>5, ReadingFields, ZenonT(30)
<1>. DEFINE Q == {n \in Nat : n <= 128 => R[n] = read(n)}
<1>7. 0 \in Q
  <2>1. UpTo(D, 0) = {}
    <3>1. \A n \in 2..128 : ~(n <= 0)
      OBVIOUS
    <3>. HIDE DEF D
    <3>. QED  BY <1>1, <3>1 DEF UpTo
  <2>2. Part(fields, 0) = [n \in {} |-> <<>>]
    BY <2>1 DEF Part
  <2>3. [n \in {} |-> <<>>] = <<>>
    OBVIOUS
  <2>4. start + Len(body(0)) = BitmapEnd(raw)
    BY <1>3, <1>5
  <2>. HIDE DEF start, body
  <2>. QED  BY <1>6, <2>2, <2>3, <2>4
<1>8. ASSUME NEW n \in Q PROVE n + 1 \in Q
  <2>. SUFFICES ASSUME n + 1 <= 128 PROVE R[n + 1] = read(n + 1)
    <3>. HIDE DEF read
    <3>. QED  OBVIOUS
  <2>1. n \in Nat /\ n + 1 \in Nat /\ n + 1 \in 0..128 /\ n <= 128
    <3>1. n \in Nat
      OBVIOUS
    <3>. HIDE DEF Q
    <3>. QED  BY <3>1
  <2>2. R[n] = read(n)
    <3>. HIDE DEF read
    <3>. QED  BY <2>1
  <2>. HIDE DEF Q
  <2>3. body(n + 1) = IF n + 1 \in D THEN body(n) \o EncodeField(n + 1, fields[n + 1]) ELSE body(n)
    BY <2>1, BodyOfPart
  <2>4. Part(fields, n + 1) = IF n + 1 \in D THEN With(Part(fields, n), n + 1, fields[n + 1])
                              ELSE Part(fields, n)
    <3>1. \A m \in 2..128 : m \in Nat
      OBVIOUS
    <3>2. \A m \in DOMAIN fields : m \in Nat
      BY <1>1, <3>1
    <3>. QED  BY <2>1, <3>2, Parts
  <2>5. CASE n + 1 \notin D
    <3>1. R[n + 1] = R[n]
      BY <1>6, <2>1, <2>5
    <3>. HIDE DEF D, start
    <3>. QED  BY <2>2, <2>3, <2>4, <2>5, <3>1
  <2>6. CASE n + 1 \in D
    <3>. DEFINE value == fields[n + 1]
                enc == EncodeField(n + 1, value)
    <3>1. value \in Seq(Byte) /\ Encodable(n + 1, value) /\ enc \in Seq(Byte)
      <4>1. value \in Seq(Byte) /\ Encodable(n + 1, value)
        BY <2>6 DEF Writable
      <4>. QED  BY <4>1, EncodeFieldType DEF Encodable
    <3>2. PICK rest \in Seq(Byte) : Body(fields) = body(n + 1) \o rest
      BY <2>1, BodyBegins
    <3>3. R[n + 1] = ReadField(raw, read(n), n + 1)
      <4>. HIDE DEF read
      <4>. QED  BY <1>6, <2>1, <2>2, <2>6
    <3>. HIDE DEF body, D, enc
    <3>4. head \o body(n) \in Seq(Byte) /\ Len(head \o body(n)) = start + Len(body(n))
      BY <1>2, <2>1, ConcatProperties
    <3>5. raw = ((head \o body(n)) \o enc) \o rest
      <4>1. raw = head \o ((body(n) \o enc) \o rest)
        BY <2>3, <2>6, <3>2 DEF enc
      <4>2. body(n) \in Seq(Byte)
        BY <1>2, <2>1
      <4>3. Regroups(head, body(n), enc, rest)
        BY <3>1, <4>2, Regrouped
      <4>. QED  BY <4>1, <4>3 DEF Regroups
    <3>6. read(n) # Failed /\ read(n).offset = Len(head \o body(n))
      <4>1. Len(body(n)) \in Nat
        BY <1>2, <2>1, LenProperties
      <4>2. start + Len(body(n)) # -1
        <5>. HIDE DEF start
        <5>. QED  BY <1>5, <4>1
      <4>3. read(n).offset = start + Len(body(n))
        OBVIOUS
      <4>4. Failed.offset = -1
        BY DEF Failed
      <4>. HIDE DEF read, start
      <4>. QED  BY <3>4, <4>2, <4>3, <4>4
    <3>. HIDE DEF start
    <3>7. ReadField(raw, read(n), n + 1)
            = [offset |-> read(n).offset + Len(enc), fields |-> With(read(n).fields, n + 1, value)]
      <4>1. WrittenAt(raw, read(n).offset, n + 1, value)
        <5>. HIDE DEF read
        <5>. QED  BY <3>4, <3>5, <3>6 DEF WrittenAt, enc
      <4>. HIDE DEF read, value
      <4>. QED  BY <3>1, <3>6, <4>1, OneFieldBack DEF enc
    <3>8. Len(body(n + 1)) = Len(body(n)) + Len(enc)
      <4>1. Len(body(n) \o enc) = Len(body(n)) + Len(enc)
        BY <1>2, <2>1, <3>1, ConcatProperties
      <4>. QED  BY <2>3, <2>6, <4>1 DEF enc
    <3>9. read(n).offset + Len(enc) = start + Len(body(n + 1))
      <4>1. Len(body(n)) \in Nat /\ Len(enc) \in Nat
        BY <1>2, <2>1, <3>1, LenProperties
      <4>2. start \in Nat
        BY <1>5
      <4>. PICK b \in Nat, e \in Nat : b = Len(body(n)) /\ e = Len(enc)
        BY <4>1
      <4>3. (start + b) + e = start + (b + e)
        BY <4>2
      <4>4. read(n).offset + Len(enc) = (start + b) + e
        BY <3>4, <3>6
      <4>5. start + Len(body(n + 1)) = start + (b + e)
        BY <3>8
      <4>. QED  BY <4>3, <4>4, <4>5, Zenon
    <3>10. With(read(n).fields, n + 1, value) = Part(fields, n + 1)
      BY <2>4, <2>6
    <3>. QED  BY <3>3, <3>7, <3>9, <3>10
  <2>. QED  BY <2>5, <2>6
<1>9. Q = Nat
  <2>1. Q \in SUBSET Nat
    <3>. HIDE DEF read
    <3>. QED  OBVIOUS
  <2>. HIDE DEF Q
  <2>. QED  BY <1>7, <1>8, <2>1, AllNaturals
<1>10. R[128] = read(128)
  <2>1. 128 \in Nat /\ 128 <= 128
    OBVIOUS
  <2>. HIDE DEF read
  <2>. QED  BY <1>9, <2>1
<1>. QED  BY <1>3, <1>5, <1>6, <1>10

\* A bitmap is a sequence of eight bytes.
LEMMA BitmapBytes ==
  \A bits : Bitmap(bits) \in Seq(Byte) /\ Len(Bitmap(bits)) = 8
<1>. TAKE bits
<1>1. PICK k \in Nat : k = 8
  OBVIOUS
<1>2. Bitmap(bits) \in [1..k -> Byte]
  BY <1>1, BitmapIsBytes
<1>3. Bitmap(bits) \in Seq(Byte)
  BY <1>2, SeqDef
<1>4. /\ DOMAIN Bitmap(bits) = 1..8 /\ DOMAIN Bitmap(bits) = 1..Len(Bitmap(bits))
      /\ Len(Bitmap(bits)) \in Nat
  BY <1>1, <1>2, <1>3, LenProperties
<1>. QED  BY <1>3, <1>4

\* The places of MTI and first bitmap
Headed(raw, mti, first) == \E rest \in Seq(Byte) : raw = (mti \o first) \o rest

\* They are the MTI and the first bitmap.
LEMMA Places ==
  ASSUME NEW mti \in Seq(Byte), Len(mti) = 4, NEW first \in Seq(Byte), Len(first) = 8,
         NEW raw, Headed(raw, mti, first)
  PROVE  raw \in Seq(Byte) /\ SubSeq(raw, 1, 4) = mti /\ SubSeq(raw, 5, 12) = first
<1>. PICK rest \in Seq(Byte) : raw = (mti \o first) \o rest
  BY DEF Headed
<1>1. mti \o first \in Seq(Byte)
  BY Concats
<1>2. raw \in Seq(Byte)
  BY <1>1, Concats
<1>3. SubSeq(raw, 5, 12) = first
  <2>1. SubSeq((mti \o first) \o rest, Len(mti) + 1, Len(mti) + Len(first)) = first
    BY Middle
  <2>2. Len(mti) + 1 = 5 /\ Len(mti) + Len(first) = 12
    OBVIOUS
  <2>. QED  BY <2>1, <2>2
<1>4. SubSeq(raw, 1, 4) = mti
  <2>1. <<>> \in Seq(Byte) /\ Len(<<>>) = 0 /\ <<>> \o mti = mti
    BY EmptySeq, ConcatEmptySeq
  <2>2. first \o rest \in Seq(Byte)
    BY ConcatProperties
  <2>3. SubSeq((<<>> \o mti) \o (first \o rest), Len(<<>>) + 1, Len(<<>>) + Len(mti)) = mti
    BY <2>1, <2>2, Middle
  <2>4. Len(<<>>) + 1 = 1 /\ Len(<<>>) + Len(mti) = 4
    BY <2>1
  <2>5. (mti \o first) \o rest = mti \o (first \o rest)
    BY Associative
  <2>. QED  BY <2>1, <2>3, <2>4, <2>5
<1>. QED  BY <1>2, <1>3, <1>4

IsMessage(m) ==
  /\ m = [mti |-> m.mti, fields |-> m.fields]
  /\ m.mti \in Seq(Byte) /\ m.fields \in [DOMAIN m.fields -> Seq(Byte)]

\* What encode takes
LEMMA Encoded ==
  ASSUME NEW m, Encode(m) # Rejected
  PROVE  /\ ValidMti(m.mti) /\ \A n \in DOMAIN m.fields : Encodable(n, m.fields[n])
         /\ LET numbers == DOMAIN m.fields
                high == {n \in numbers : n > 64}
                primary == (numbers \ high) \union (IF high = {} THEN {} ELSE {1})
            IN  Encode(m) = m.mti \o Bitmap(primary)
                              \o (IF high = {} THEN <<>> ELSE Bitmap({n - 64 : n \in high}))
                              \o Body(m.fields)
BY DEF Encode

\* Bytes that encode gives are decoded to the message.
LEMMA EncodeThenDecode ==
  ASSUME NEW m, IsMessage(m), Encode(m) # Rejected
  PROVE  Encode(m) \in Seq(Byte) /\ Decode(Encode(m)) = m
<1>. DEFINE raw == Encode(m)
            mti == m.mti
            fields == m.fields
            numbers == DOMAIN fields
            high == {n \in numbers : n > 64}
            primary == (numbers \ high) \union (IF high = {} THEN {} ELSE {1})
            second == Bitmap({n - 64 : n \in high})
<1>1. /\ ValidMti(mti) /\ \A n \in numbers : Encodable(n, fields[n])
      /\ raw = mti \o Bitmap(primary) \o (IF high = {} THEN <<>> ELSE second) \o Body(fields)
  BY Encoded
<1>2. mti \in Seq(Byte) /\ Len(mti) = 4 /\ Writable(fields)
  BY <1>1 DEF IsMessage, ValidMti, Writable, Encodable
<1>3. \A n \in numbers : n \in 2..128
  BY <1>2, Widths, ZenonT(30) DEF Writable
<1>4. Body(fields) \in Seq(Byte)
  <2>1. 128 \in Nat
    OBVIOUS
  <2>2. Body(Part(fields, 128)) \in Seq(Byte) /\ Part(fields, 128) = fields
    BY <1>2, <2>1, BodyOfPart
  <2>. QED  BY <2>2
<1>5. Bits(Bitmap(primary)) = primary
  <2>1. primary \subseteq 1..64
    <3>1. \A n \in 2..128 : ~(n > 64) => n \in 1..64
      OBVIOUS
    <3>2. \A n \in numbers \ high : n \in 1..64
      <4>. HIDE DEF numbers
      <4>. QED  BY <1>3, <3>1
    <3>. QED  BY <3>2
  <2>2. Bits(Bitmap(primary)) = primary \intersect 1..64
    BY BitsOfBitmap
  <2>. HIDE DEF primary
  <2>. QED  BY <2>1, <2>2
<1>6. Bits(second) = {n - 64 : n \in high}
  <2>. DEFINE S == {n - 64 : n \in high}
  <2>1. \A n \in 2..128 : n > 64 => n - 64 \in 1..64
    OBVIOUS
  <2>2. \A n \in high : n - 64 \in 1..64
    <3>. HIDE DEF numbers
    <3>. QED  BY <1>3, <2>1
  <2>3. Bits(Bitmap(S)) = S \intersect 1..64
    BY BitsOfBitmap
  <2>4. S \subseteq 1..64
    <3>. HIDE DEF high
    <3>. QED  BY <2>2
  <2>. HIDE DEF S, high
  <2>5. Bits(Bitmap(S)) = S
    BY <2>3, <2>4
  <2>. QED  BY <2>5 DEF S
<1>7. {n + 64 : n \in Bits(second)} = high
  <2>1. \A n \in 2..128 : (n - 64) + 64 = n
    OBVIOUS
  <2>2. \A n \in high : (n - 64) + 64 = n
    <3>. HIDE DEF numbers
    <3>. QED  BY <1>3, <2>1
  <2>. HIDE DEF high, second
  <2>. QED  BY <1>6, <2>2
<1>8. primary \ {1} = numbers \ high /\ (1 \in primary <=> high # {})
  <2>1. \A n \in 2..128 : n # 1
    OBVIOUS
  <2>2. 1 \notin numbers
    <3>. HIDE DEF numbers
    <3>. QED  BY <1>3, <2>1
  <2>. HIDE DEF numbers
  <2>. QED  BY <2>2
<1>9. high \subseteq numbers
  OBVIOUS
<1>10. /\ Bitmap(primary) \in Seq(Byte) /\ Len(Bitmap(primary)) = 8
       /\ second \in Seq(Byte) /\ Len(second) = 8
  BY BitmapBytes
<1>. HIDE DEF raw, mti, fields, numbers, high, primary, second
<1>. DEFINE bitmap == Bitmap(primary)
            head == (mti \o bitmap) \o (IF high = {} THEN <<>> ELSE second)
<1>11. \E rest \in Seq(Byte) : raw = (mti \o bitmap) \o rest
         /\ (high # {} => SubSeq(raw, 13, 20) = second)
         /\ head \in Seq(Byte) /\ Len(head) = (IF high = {} THEN 12 ELSE 20)
         /\ raw = head \o Body(fields)
  <2>1. mti \o bitmap \in Seq(Byte) /\ Len(mti \o bitmap) = 12
    <3>1. bitmap \in Seq(Byte) /\ Len(bitmap) = 8
      BY <1>10
    <3>. HIDE DEF bitmap
    <3>2. Len(mti \o bitmap) = Len(mti) + Len(bitmap) /\ mti \o bitmap \in Seq(Byte)
      BY <1>2, <3>1, Concats
    <3>. QED  BY <1>2, <3>1, <3>2
  <2>. HIDE DEF bitmap
  <2>2. CASE high = {}
    <3>1. head = mti \o bitmap
      BY <2>1, <2>2, ConcatEmptySeq
    <3>2. raw = (mti \o bitmap) \o Body(fields)
      BY <1>1, <2>2, <3>1 DEF bitmap
    <3>. HIDE DEF head
    <3>. QED  BY <1>4, <2>1, <2>2, <3>1, <3>2
  <2>3. CASE high # {}
    <3>1. head = (mti \o bitmap) \o second /\ raw = head \o Body(fields)
      BY <1>1, <2>3 DEF bitmap
    <3>. HIDE DEF head
    <3>. PICK mb \in Seq(Byte) : mb = mti \o bitmap
      BY <2>1
    <3>2. mb \o second \in Seq(Byte) /\ Len(mb \o second) = Len(mb) + Len(second)
      BY <1>10, ConcatProperties
    <3>3. head \in Seq(Byte) /\ Len(head) = 20
      BY <1>10, <2>1, <3>1, <3>2
    <3>4. (mb \o second) \o Body(fields) = mb \o (second \o Body(fields))
      BY <1>4, <1>10, Associative
    <3>5. second \o Body(fields) \in Seq(Byte)
      BY <1>4, <1>10, ConcatProperties
    <3>6. SubSeq((mb \o second) \o Body(fields), Len(mb) + 1, Len(mb) + Len(second)) = second
      BY <1>4, <1>10, Middle
    <3>7. SubSeq(raw, 13, 20) = second
      <4>1. Len(mb) + 1 = 13 /\ Len(mb) + Len(second) = 20
        BY <1>10, <2>1
      <4>. QED  BY <3>1, <3>6, <4>1
    <3>8. raw = (mti \o bitmap) \o (second \o Body(fields))
      BY <3>1, <3>4
    <3>. QED  BY <2>3, <3>1, <3>3, <3>5, <3>7, <3>8
  <2>. QED  BY <2>2, <2>3
<1>12. Headed(raw, mti, bitmap)
  BY <1>11 DEF Headed
<1>13. raw \in Seq(Byte) /\ SubSeq(raw, 1, 4) = mti /\ SubSeq(raw, 5, 12) = bitmap
  BY <1>2, <1>10, <1>12, Places
<1>14. /\ HasSecondary(raw) <=> high # {}
       /\ BitmapEnd(raw) = IF high = {} THEN 12 ELSE 20
  BY <1>5, <1>8, <1>13 DEF HasSecondary, BitmapEnd
<1>15. FieldNumbers(raw) = numbers
  <2>1. CASE high = {}
    BY <1>5, <1>8, <1>13, <1>14, <2>1 DEF FieldNumbers
  <2>2. CASE high # {}
    <3>1. SubSeq(raw, 13, 20) = second
      BY <1>11, <2>2
    <3>2. FieldNumbers(raw) = (numbers \ high) \union high
      BY <1>5, <1>7, <1>8, <1>13, <1>14, <2>2, <3>1 DEF FieldNumbers
    <3>. QED  BY <1>9, <3>2
  <2>. QED  BY <2>1, <2>2
<1>16. ReadFields(raw) = [offset |-> Len(raw), fields |-> fields]
  <2>1. head \in Seq(Byte) /\ raw = head \o Body(fields) /\ Len(head) = BitmapEnd(raw)
    BY <1>11, <1>14
  <2>. HIDE DEF head
  <2>. QED  BY <1>1, <1>2, <1>15, <2>1, ReadBack DEF numbers
<1>17. Len(raw) >= 12 /\ Len(raw) >= BitmapEnd(raw)
  <2>1. head \in Seq(Byte) /\ raw = head \o Body(fields) /\ Len(head) = BitmapEnd(raw)
    BY <1>11, <1>14
  <2>. HIDE DEF head
  <2>2. Len(raw) = Len(head) + Len(Body(fields)) /\ Len(head) \in Nat /\ Len(Body(fields)) \in Nat
    BY <1>4, <2>1, ConcatProperties, LenProperties
  <2>3. BitmapEnd(raw) \in {12, 20}
    BY <1>14
  <2>. QED  BY <2>1, <2>2, <2>3
<1>18. Decode(raw) = [mti |-> mti, fields |-> fields]
  <2>1. ReadFields(raw).offset = Len(raw) /\ ReadFields(raw).fields = fields
    BY <1>16
  <2>. QED  BY <1>1, <1>13, <1>17, <2>1 DEF Decode
<1>19. m = [mti |-> mti, fields |-> fields]
  BY DEF IsMessage, mti, fields
<1>. QED  BY <1>13, <1>18, <1>19 DEF raw

-----------------------------------------------------------------------------
(* The route *)

\* What a route matches begins with its prefix.
LEMMA PrefixValue ==
  ASSUME NEW i \in DOMAIN Routes
  PROVE  /\ Routes[i].prefix \in Seq(Digits) /\ Len(Routes[i].prefix) \in Nat
         /\ \A text : IsPrefix(Routes[i].prefix, text) =>
              /\ Len(Routes[i].prefix) <= Len(text)
              /\ Routes[i].prefix = SubSeq(text, 1, Len(Routes[i].prefix))
<1>. DEFINE p == Routes[i].prefix
<1>1. p \in Seq(Digits)
  BY MappingAssumption
<1>. HIDE DEF p
<1>2. Len(p) \in Nat /\ SubSeq(p, 1, Len(p)) = p
  BY <1>1, LenProperties, SubSeqFull
<1>. QED  BY <1>1, <1>2 DEF IsPrefix, p

\* An eligible route with a longer prefix has one that the other's begins.
LEMMA ShorterPrefix ==
  ASSUME NEW i \in DOMAIN Routes, NEW j \in DOMAIN Routes, NEW pan \in Seq(Byte),
         IsPrefix(Routes[i].prefix, pan), IsPrefix(Routes[j].prefix, pan),
         Len(Routes[j].prefix) < Len(Routes[i].prefix)
  PROVE  IsStrictPrefix(Routes[j].prefix, Routes[i].prefix)
<1>. DEFINE p == Routes[i].prefix
            q == Routes[j].prefix
            m == Len(q)
            n == Len(p)
<1>1. /\ p \in Seq(Digits) /\ n \in Nat /\ n <= Len(pan) /\ p = SubSeq(pan, 1, n)
      /\ q \in Seq(Digits) /\ m \in Nat /\ q = SubSeq(pan, 1, m)
  BY PrefixValue
<1>2. q # p /\ m <= n
  BY <1>1
<1>3. SubSeq(p, 1, m) = q
  <2>1. CASE m = 0
    <3>. HIDE DEF p, q, m
    <3>1. \A s : SubSeq(s, 1, 0) = <<>>
      BY SubSeqEmpty
    <3>. QED  BY <1>1, <2>1, <3>1
  <2>2. CASE m # 0
    <3>. HIDE DEF p, q, n, m
    <3>1. Len(pan) \in Nat
      BY LenProperties
    <3>2. /\ 1 \in 1..Len(pan) /\ n \in 1..Len(pan) /\ 1 \in 1..n - 1 + 1 /\ m \in 1..n - 1 + 1
      BY <1>1, <1>2, <2>2, <3>1
    <3>3. SubSeq(SubSeq(pan, 1, n), 1, m) = SubSeq(pan, 1 + 1 - 1, 1 + m - 1)
      BY <3>2, SubSeqOfSubSeq
    <3>4. 1 + 1 - 1 = 1 /\ 1 + m - 1 = m
      BY <1>1
    <3>. QED  BY <1>1, <3>3, <3>4
  <2>. QED  BY <2>1, <2>2
<1>4. SubSeq(q, 1, Len(q)) = q
  BY <1>1, SubSeqFull
<1>. HIDE DEF p, q
<1>5. IsStrictPrefix(q, p)
  BY <1>2, <1>3, <1>4 DEF IsStrictPrefix, IsPrefix
<1>. QED  BY <1>5 DEF p, q

\* Of some routes one has the longest prefix.
LEMMA SomeMostSpecific ==
  ASSUME NEW routes \in SUBSET (DOMAIN Routes), routes # {}
  PROVE  MostSpecific(routes) # {}
<1>. DEFINE len(i) == Len(Routes[i].prefix)
            longer(i) == {j \in routes : len(j) > len(i)}
            D == {longer(i) : i \in routes}
<1>1. Numbers(DOMAIN Routes)
  <2>1. Len(Routes) \in Nat /\ DOMAIN Routes = 1..Len(Routes)
    BY MappingAssumption
  <2>. QED  BY <2>1, NumbersOfSegment
<1>2. D \in SUBSET (SUBSET DOMAIN Routes) /\ D # {}
  OBVIOUS
<1>3. PICK m \in D : \A s \in D : ~(s \subseteq m /\ s # m)
  <2>. HIDE DEF D
  <2>. QED  BY <1>1, <1>2, SmallestSubset
<1>4. PICK i \in routes : m = longer(i)
  BY <1>3
<1>5. \A j \in routes : len(j) \in Nat
  BY PrefixValue
<1>. HIDE DEF len
<1>6. \A j \in routes : len(j) <= len(i)
  <2>. SUFFICES ASSUME NEW j \in routes, ~(len(j) <= len(i)) PROVE FALSE
    OBVIOUS
  <2>1. longer(j) \in D
    OBVIOUS
  <2>2. longer(j) \subseteq longer(i) /\ j \in longer(i) /\ j \notin longer(j)
    BY <1>5
  <2>. HIDE DEF D, longer
  <2>. QED  BY <1>3, <1>4, <2>1, <2>2
<1>. QED  BY <1>6 DEF MostSpecific, len

\* The property RouteIsUnique of a request
UniqueRoute(r) ==
  LET i == Route(r)
      prefix(j) == Routes[j].prefix
  IN  IF i # Rejected
      THEN /\ i \in Serving(r)
           /\ \A j \in Serving(r) \ {i} : IsStrictPrefix(prefix(j), prefix(i))
      ELSE \/ Serving(r) = {}
           \/ \E j, k \in Serving(r) : j # k /\ prefix(j) = prefix(k)

\* startswith and in find the routes that serve a request.
LEMMA ServingIsEligible ==
  ASSUME NEW r, r.pan \in Seq(Byte)
  PROVE  Serving(r) = Eligible(r)
<1>1. ASSUME NEW j \in DOMAIN Routes
      PROVE  IsPrefix(Routes[j].prefix, r.pan) <=>
               \A n \in DOMAIN Routes[j].prefix :
                 n \in DOMAIN r.pan /\ r.pan[n] = Routes[j].prefix[n]
  <2>. PICK p, q : p = Routes[j].prefix /\ q = r.pan
    OBVIOUS
  <2>1. /\ p \in Seq(Digits) /\ Len(p) \in Nat /\ DOMAIN p = 1..Len(p)
        /\ q \in Seq(Byte) /\ Len(q) \in Nat /\ DOMAIN q = 1..Len(q)
        /\ Len(p) >= 1
    <3>1. p \in Seq(Digits) /\ q \in Seq(Byte)
      BY PrefixValue
    <3>2. p # <<>>
      <4>1. \A i \in DOMAIN Routes : Routes[i].prefix # <<>>
        BY MappingAssumption, Zenon
      <4>. QED  BY <4>1
    <3>3. Len(p) \in Nat /\ DOMAIN p = 1..Len(p)
      BY <3>1, LenProperties
    <3>4. Len(q) \in Nat /\ DOMAIN q = 1..Len(q)
      BY <3>1, LenProperties
    <3>5. Len(p) # 0
      BY <3>1, <3>2, EmptySeq
    <3>. QED  BY <3>1, <3>3, <3>4, <3>5
  <2>2. SubSeq(p, 1, Len(p)) = p
    BY <2>1, SubSeqFull
  <2>3. CASE Len(p) <= Len(q)
    <3>1. /\ DOMAIN SubSeq(q, 1, Len(p)) = 1..Len(p)
          /\ \A n \in 1..Len(p) : SubSeq(q, 1, Len(p))[n] = q[n]
      BY <2>1, <2>3
    <3>2. p = SubSeq(q, 1, Len(p)) <=> \A n \in 1..Len(p) : p[n] = q[n]
      BY <2>1, <2>3, <3>1
    <3>. QED  BY <2>1, <2>2, <2>3, <3>2 DEF IsPrefix
  <2>4. CASE ~(Len(p) <= Len(q))
    <3>1. Len(p) \in DOMAIN p /\ Len(p) \notin DOMAIN q
      BY <2>1, <2>4
    <3>. QED  BY <2>4, <3>1 DEF IsPrefix
  <2>. QED  BY <2>3, <2>4
<1>. QED  BY <1>1 DEF Serving, Eligible

\* Every request whose PAN is text has a unique route, or none for a reason.
LEMMA RoutesAreUnique ==
  ASSUME NEW r, r.pan \in Seq(Byte)
  PROVE  UniqueRoute(r)
<1>. DEFINE E == Serving(r)
            best == MostSpecific(E)
            len(i) == Len(Routes[i].prefix)
<1>0. E = Eligible(r)
  BY ServingIsEligible
<1>1. E \subseteq DOMAIN Routes /\ \A i \in E : IsPrefix(Routes[i].prefix, r.pan)
  BY <1>0 DEF Eligible
<1>2. best \subseteq E /\ \A i \in E : i \in best <=> \A j \in E : len(j) <= len(i)
  BY DEF MostSpecific
<1>3. \A i \in E : len(i) \in Nat
  BY <1>1, PrefixValue
<1>. HIDE DEF len
<1>4. IsFiniteSet(best)
  <2>1. Numbers(DOMAIN Routes)
    <3>1. Len(Routes) \in Nat /\ DOMAIN Routes = 1..Len(Routes)
      BY MappingAssumption
    <3>. QED  BY <3>1, NumbersOfSegment
  <2>2. best \in SUBSET (DOMAIN Routes)
    BY <1>1, <1>2
  <2>. HIDE DEF best
  <2>. QED  BY <2>1, <2>2, FewerNumbers, FS_Subset
<1>. HIDE DEF best, E
<1>5. CASE Cardinality(best) = 1
  <2>1. PICK i : best = {i}
    BY <1>4, <1>5, FS_Singleton
  <2>2. Route(r) = i
    BY <1>0, <1>5, <2>1 DEF Route, best
  <2>3. i \in E /\ i # Rejected
    BY <1>1, <1>2, <2>1, MappingAssumption
  <2>4. ASSUME NEW j \in E \ {i} PROVE IsStrictPrefix(Routes[j].prefix, Routes[i].prefix)
    <3>1. len(j) <= len(i)
      BY <1>2, <2>1, <2>3
    <3>2. j \notin best
      BY <2>1
    <3>3. len(j) < len(i)
      <4>1. PICK k \in E : ~(len(k) <= len(j))
        BY <1>2, <3>2
      <4>2. len(k) <= len(i)
        BY <1>2, <2>1, <2>3
      <4>. QED  BY <1>3, <2>3, <4>1, <4>2
    <3>. QED  BY <1>1, <2>3, <3>3, ShorterPrefix DEF len
  <2>. QED  BY <2>2, <2>3, <2>4 DEF UniqueRoute, E
<1>6. CASE Cardinality(best) # 1
  <2>1. Route(r) = Rejected
    BY <1>0, <1>6 DEF Route, best
  <2>2. CASE E = {}
    BY <2>1, <2>2 DEF UniqueRoute, E
  <2>3. CASE E # {}
    <3>1. best # {}
      <4>1. E \in SUBSET (DOMAIN Routes)
        BY <1>1
      <4>. QED  BY <2>3, <4>1, SomeMostSpecific DEF best
    <3>2. PICK j \in best, k \in best : j # k
      <4>1. \A x : best # {x}
        BY <1>4, <1>6, FS_Singleton
      <4>. PICK j \in best : TRUE
        BY <3>1
      <4>2. best # {j}
        BY <4>1
      <4>3. \E k \in best : j # k
        BY <4>2
      <4>. QED  BY <4>3
    <3>3. len(j) = len(k)
      <4>1. j \in E /\ k \in E
        BY <1>2
      <4>2. len(j) <= len(k) /\ len(k) <= len(j)
        BY <1>2, <4>1
      <4>. QED  BY <1>3, <4>1, <4>2
    <3>4. Routes[j].prefix = Routes[k].prefix
      <4>1. /\ Routes[j].prefix = SubSeq(r.pan, 1, len(j))
            /\ Routes[k].prefix = SubSeq(r.pan, 1, len(k))
        BY <1>1, <1>2, PrefixValue DEF len
      <4>. QED  BY <3>3, <4>1
    <3>. QED  BY <1>2, <2>1, <3>2, <3>4 DEF UniqueRoute, E
  <2>. QED  BY <2>2, <2>3
<1>. QED  BY <1>5, <1>6

-----------------------------------------------------------------------------
(* The canonical request *)

\* A request that authorization_from_iso8583 accepts, from its elements
FromFields(de) ==
  [amount_minor |-> Significant(de[4]), currency |-> CurrencyOf[de[49]],
   merchant_id |-> de[42], terminal_id |-> de[41], pan |-> de[2],
   icc_data |-> IF 55 \in DOMAIN de THEN de[55] ELSE None,
   stan |-> de[11], rrn |-> de[37]]

\* What a message that is accepted was, and what it becomes
LEMMA Accepted ==
  ASSUME NEW message, FromIso8583(message) # Rejected
  PROVE  /\ message.mti = AuthorizationMti /\ RequiredText \subseteq DOMAIN message.fields
         /\ message.fields[3] = Purchase /\ message.fields[49] \in DOMAIN CurrencyOf
         /\ FromIso8583(message) = FromFields(message.fields)
         /\ ValidRequest(FromIso8583(message))
BY DEF FromIso8583, FromFields

\* None is no ICC data a message can carry.
LEMMA NoneIsNoText ==
  \A bytes \in Seq(Byte) : Len(bytes) <= 999 => bytes # None
<1>1. \A n \in Nat : n <= 999 => None \notin [1..n -> Byte]
  <2>1. ASSUME NEW n \in Nat, n <= 999
        PROVE  None \notin [1..n -> Byte]
    <3>1. n \in 0..999
      BY <2>1
    <3>. QED  BY <3>1, MappingAssumption, ZenonT(30)
  <2>. QED  BY <2>1
<1>2. \A bytes \in Seq(Byte) : Len(bytes) \in Nat /\ bytes \in [1..Len(bytes) -> Byte]
  BY LenProperties
<1>3. ASSUME NEW bytes \in Seq(Byte), Len(bytes) <= 999, bytes = None
      PROVE  FALSE
  BY <1>1, <1>2, <1>3, Zenon
<1>. QED  BY <1>3

\* The property LossesAreDeclared of a request
LossDeclared(r, id) ==
  LET projection == ToIso20022(r, id)
      back == FromIso20022(projection.authorization, r.stan)
  IN  projection # Rejected =>
        back = IF "icc_data_not_projected" \in projection.losses
               THEN [r EXCEPT !.icc_data = None] ELSE r

\* The losses of every accepted message are declared.
LEMMA DeclaredLosses ==
  ASSUME NEW message, FromIso8583(message) # Rejected, NEW id
  PROVE  LossDeclared(FromIso8583(message), id)
<1>. DEFINE r == FromIso8583(message)
            projection == ToIso20022(r, id)
            back == FromIso20022(projection.authorization, r.stan)
            without == [amount_minor |-> r.amount_minor, currency |-> r.currency,
                        merchant_id |-> r.merchant_id, terminal_id |-> r.terminal_id,
                        pan |-> r.pan, icc_data |-> None, stan |-> r.stan, rrn |-> r.rrn]
<1>1. r = FromFields(message.fields) /\ ValidRequest(r)
  BY Accepted
<1>2. /\ without = [r EXCEPT !.icc_data = None]
      /\ r.icc_data = None => without = r
  <2>. HIDE DEF r
  <2>. QED  BY <1>1 DEF FromFields
<1>3. None # <<>>
  <2>1. <<>> \in Seq(Byte) /\ Len(<<>>) <= 999
    BY EmptySeq
  <2>. QED  BY <2>1, NoneIsNoText
<1>4. ValidRequest(without)
  <2>. HIDE DEF r
  <2>. QED  BY <1>1, <1>3 DEF ValidRequest
<1>. SUFFICES ASSUME projection # Rejected
              PROVE  back = IF "icc_data_not_projected" \in projection.losses
                            THEN [r EXCEPT !.icc_data = None] ELSE r
  BY DEF LossDeclared
<1>. HIDE DEF r
<1>5. /\ projection.losses = Losses(r)
      /\ projection.authorization =
          [message_id |-> id,
           transaction_id |-> r.rrn, amount_minor |-> r.amount_minor, currency |-> r.currency,
           merchant_id |-> r.merchant_id, terminal_id |-> r.terminal_id, pan |-> r.pan]
  BY DEF ToIso20022
<1>6. back = without
  <2>. HIDE DEF projection
  <2>. QED  BY <1>4, <1>5 DEF FromIso20022
<1>7. "icc_data_not_projected" \in projection.losses <=> r.icc_data # None
  <2>. HIDE DEF projection
  <2>. QED  BY <1>5 DEF Losses
<1>. HIDE DEF back, projection, without
<1>. QED  BY <1>2, <1>6, <1>7

\* The leading zeros of digits, and what follows them
LEMMA LeadingZeros ==
  ASSUME NEW digits \in Seq(Byte)
  PROVE  \E k \in 0..Len(digits) :
           /\ Significant(digits) = SubSeq(digits, k + 1, Len(digits))
           /\ \A j \in 1..k : digits[j] = 48
           /\ k < Len(digits) => digits[k + 1] # 48
<1>. DEFINE S == {i \in 0..Len(digits) : \A j \in 1..i : digits[j] = 48}
            k == Max(S)
<1>1. Len(digits) \in Nat
  BY LenProperties
<1>2. Numbers(S) /\ S # {}
  <2>. PICK a \in Int, b \in Int : a = 0 /\ b = Len(digits)
    BY <1>1
  <2>. PICK U : U = a..b
    OBVIOUS
  <2>1. IsFiniteSet(U)
    BY FS_Interval, Zenon
  <2>2. S \in SUBSET U
    OBVIOUS
  <2>3. 0 \in S /\ \A n \in S : n \in Nat
    BY <1>1
  <2>. HIDE DEF S
  <2>4. IsFiniteSet(S)
    BY <2>1, <2>2, FS_Subset, Zenon
  <2>. QED  BY <2>3, <2>4 DEF Numbers
<1>3. k \in S /\ \A n \in S : n <= k
  <2>. HIDE DEF S
  <2>. QED  BY <1>2, Greatest
<1>. HIDE DEF k
<1>4. k \in 0..Len(digits) /\ \A j \in 1..k : digits[j] = 48
  BY <1>3
<1>5. k < Len(digits) => digits[k + 1] # 48
  <2>. SUFFICES ASSUME k < Len(digits), digits[k + 1] = 48 PROVE FALSE
    OBVIOUS
  <2>1. k + 1 \in 0..Len(digits)
    BY <1>1, <1>4
  <2>2. \A j \in 1..k + 1 : j \in 1..k \/ j = k + 1
    BY <1>4
  <2>3. \A j \in 1..k + 1 : digits[j] = 48
    BY <1>4, <2>2
  <2>4. k + 1 \in S
    BY <2>1, <2>3
  <2>5. ~(k + 1 <= k)
    BY <1>4
  <2>. HIDE DEF S
  <2>. QED  BY <1>3, <2>4, <2>5
<1>6. Significant(digits) = SubSeq(digits, k + 1, Len(digits))
  BY DEF Significant, k
<1>. QED  BY <1>4, <1>5, <1>6

\* Zeros and what follows them
LEMMA Zeros ==
  ASSUME NEW k \in Nat, NEW tail \in Seq(Byte)
  PROVE  LET z == [i \in 1..k |-> 48] \o tail
         IN  /\ z \in Seq(Byte) /\ Len(z) = k + Len(tail)
             /\ \A i \in 1..k : z[i] = 48
             /\ \A i \in 1..Len(tail) : z[k + i] = tail[i]
<1>. DEFINE zeros == [i \in 1..k |-> 48]
            z == zeros \o tail
<1>1. zeros \in Seq(Byte) /\ Len(zeros) = k /\ \A i \in 1..k : zeros[i] = 48
  <2>1. zeros \in [1..k -> Byte]
    BY DEF Byte
  <2>2. zeros \in Seq(Byte) /\ DOMAIN zeros = 1..k
    BY <2>1, SeqDef
  <2>3. DOMAIN zeros = 1..Len(zeros) /\ Len(zeros) \in Nat
    <3>. HIDE DEF zeros
    <3>. QED  BY <2>2, LenProperties
  <2>4. Len(zeros) = k
    <3>. HIDE DEF zeros
    <3>. QED  BY <2>2, <2>3
  <2>. QED  BY <2>2, <2>4
<1>. HIDE DEF zeros
<1>2. /\ z \in Seq(Byte) /\ Len(z) = k + Len(tail)
      /\ \A i \in 1..k + Len(tail) : z[i] = IF i <= k THEN zeros[i] ELSE tail[i - k]
  <2>1. /\ zeros \o tail \in Seq(Byte) /\ Len(zeros \o tail) = Len(zeros) + Len(tail)
        /\ \A i \in 1..Len(zeros) + Len(tail) :
             (zeros \o tail)[i] = IF i <= Len(zeros) THEN zeros[i] ELSE tail[i - Len(zeros)]
    <3>1. zeros \in Seq(Byte)
      BY <1>1
    <3>. QED  BY <3>1, ConcatProperties
  <2>. QED  BY <1>1, <2>1
<1>3. Len(tail) \in Nat
  BY LenProperties
<1>. HIDE DEF z
<1>4. ASSUME NEW i \in 1..k PROVE z[i] = 48
  <2>1. i \in 1..k + Len(tail) /\ i <= k
    BY <1>3
  <2>. QED  BY <1>1, <1>2, <2>1
<1>5. ASSUME NEW i \in 1..Len(tail) PROVE z[k + i] = tail[i]
  <2>1. k + i \in 1..k + Len(tail) /\ ~(k + i <= k) /\ (k + i) - k = i
    BY <1>3
  <2>. QED  BY <1>2, <2>1
<1>. QED  BY <1>2, <1>4, <1>5 DEF z, zeros

\* Digits without their leading zeros, padded again, are the digits.
LEMMA PaddedSignificant ==
  ASSUME NEW digits \in Seq(Byte)
  PROVE  /\ Len(Significant(digits)) <= Len(digits)
         /\ Significant(digits) \in Seq(Byte)
         /\ ZeroPadded(Significant(digits), Len(digits)) = digits
<1>. DEFINE tail == Significant(digits)
            n == Len(digits)
<1>1. PICK k \in 0..n :
           /\ tail = SubSeq(digits, k + 1, n)
           /\ \A j \in 1..k : digits[j] = 48
  BY LeadingZeros
<1>2. n \in Nat
  BY LenProperties
<1>3. /\ tail \in Seq(Byte) /\ Len(tail) = n - k
      /\ \A i \in 1..n - k : tail[i] = digits[k + i]
  <2>1. k + 1 \in 1..n + 1 /\ n \in (k + 1) - 1..n /\ n - (k + 1) + 1 = n - k
    BY <1>2
  <2>2. /\ SubSeq(digits, k + 1, n) \in Seq(Byte) /\ Len(SubSeq(digits, k + 1, n)) = n - (k + 1) + 1
        /\ \A i \in 1..n - (k + 1) + 1 : SubSeq(digits, k + 1, n)[i] = digits[(k + 1) + i - 1]
    BY <2>1, Segment
  <2>3. \A i \in 1..n - k : (k + 1) + i - 1 = k + i
    BY <1>2
  <2>. HIDE DEF tail, n
  <2>. QED  BY <1>1, <2>1, <2>2, <2>3
<1>. DEFINE z == ZeroPadded(tail, n)
<1>4. /\ z \in Seq(Byte) /\ Len(z) = n
      /\ \A i \in 1..k : z[i] = 48
      /\ \A i \in 1..n - k : z[k + i] = tail[i]
  <2>1. k \in Nat /\ k = n - Len(tail) /\ k + Len(tail) = n
    BY <1>2, <1>3
  <2>2. z = [i \in 1..k |-> 48] \o tail
    <3>. HIDE DEF tail, n
    <3>. QED  BY <2>1 DEF ZeroPadded
  <2>. DEFINE y == [i \in 1..k |-> 48] \o tail
  <2>3. /\ y \in Seq(Byte) /\ Len(y) = k + Len(tail)
        /\ \A i \in 1..k : y[i] = 48
        /\ \A i \in 1..Len(tail) : y[k + i] = tail[i]
    <3>. HIDE DEF tail, n
    <3>. QED  BY <1>3, <2>1, Zeros
  <2>. HIDE DEF y, z, tail, n
  <2>. QED  BY <1>3, <2>1, <2>2, <2>3 DEF y
<1>. HIDE DEF z, tail, n
<1>5. \A i \in 1..n : z[i] = digits[i]
  <2>. TAKE i \in 1..n
  <2>1. CASE i <= k
    <3>1. i \in 1..k
      BY <2>1
    <3>. QED  BY <1>1, <1>4, <3>1
  <2>2. CASE i > k
    <3>1. i - k \in 1..n - k /\ k + (i - k) = i
      BY <1>2, <2>2
    <3>2. z[k + (i - k)] = tail[i - k] /\ tail[i - k] = digits[k + (i - k)]
      BY <1>3, <1>4, <3>1
    <3>. QED  BY <3>1, <3>2
  <2>. QED  BY <2>1, <2>2
<1>6. z = digits
  BY <1>4, <1>5, SeqEqual DEF n
<1>. QED  BY <1>2, <1>3, <1>6 DEF tail, n, z

\* Digits without leading zeros, padded, lose only the padding again.
LEMMA SignificantPadded ==
  ASSUME NEW digits \in Seq(Byte), digits # <<>>, digits[1] # 48, Len(digits) <= 12
  PROVE  ZeroPadded(digits, 12) \in Seq(Byte) /\ Significant(ZeroPadded(digits, 12)) = digits
<1>. DEFINE z == ZeroPadded(digits, 12)
            n == Len(digits)
            k == 12 - n
<1>1. n \in Nat /\ n # 0 /\ n <= 12
  <2>1. n \in Nat \ {0}
    BY EmptySeq
  <2>. QED  BY <2>1
<1>2. k \in Nat /\ k + n = 12 /\ k < 12
  BY <1>1
<1>3. /\ z \in Seq(Byte) /\ Len(z) = 12
      /\ \A i \in 1..k : z[i] = 48
      /\ \A i \in 1..n : z[k + i] = digits[i]
  <2>. DEFINE y == [i \in 1..k |-> 48] \o digits
  <2>1. z = y
    BY DEF ZeroPadded
  <2>2. /\ y \in Seq(Byte) /\ Len(y) = k + n
        /\ \A i \in 1..k : y[i] = 48
        /\ \A i \in 1..n : y[k + i] = digits[i]
    <3>. HIDE DEF k
    <3>. QED  BY <1>2, Zeros, ZenonT(30)
  <2>. HIDE DEF y, z, k, n
  <2>. QED  BY <1>2, <2>1, <2>2
<1>. HIDE DEF z, k, n
<1>4. PICK h \in 0..Len(z) :
           /\ Significant(z) = SubSeq(z, h + 1, Len(z))
           /\ \A j \in 1..h : z[j] = 48
           /\ h < Len(z) => z[h + 1] # 48
  BY <1>3, LeadingZeros
<1>5. z[k + 1] = digits[1]
  <2>1. 1 \in 1..n
    BY <1>1
  <2>. QED  BY <1>3, <2>1
<1>6. h = k
  <2>1. ~(k < h)
    <3>. SUFFICES ASSUME k < h PROVE FALSE
      OBVIOUS
    <3>1. k + 1 \in 1..h
      BY <1>2, <1>3, <1>4
    <3>. QED  BY <1>4, <1>5, <3>1
  <2>2. ~(h < k)
    <3>. SUFFICES ASSUME h < k PROVE FALSE
      OBVIOUS
    <3>1. h + 1 \in 1..k /\ h < Len(z)
      BY <1>2, <1>3, <1>4
    <3>. QED  BY <1>3, <1>4, <3>1
  <2>. QED  BY <1>2, <1>3, <2>1, <2>2
<1>7. SubSeq(z, k + 1, 12) = digits
  <2>. DEFINE s == SubSeq(z, k + 1, 12)
  <2>1. k + 1 \in 1..12 + 1 /\ 12 \in (k + 1) - 1..12 /\ 12 - (k + 1) + 1 = n
    BY <1>1, <1>2
  <2>2. /\ s \in Seq(Byte) /\ Len(s) = 12 - (k + 1) + 1
        /\ \A i \in 1..12 - (k + 1) + 1 : s[i] = z[(k + 1) + i - 1]
    <3>1. k + 1 \in 1..Len(z) + 1 /\ 12 \in (k + 1) - 1..Len(z) /\ z \in Seq(Byte)
      BY <1>3, <2>1
    <3>. QED  BY <3>1, Segment
  <2>3. \A i \in 1..n : (k + 1) + i - 1 = k + i
    BY <1>1, <1>2
  <2>. HIDE DEF s
  <2>4. Len(s) = n /\ \A i \in 1..n : s[i] = digits[i]
    BY <1>3, <2>1, <2>2, <2>3
  <2>5. s = digits
    BY <2>2, <2>4, SeqEqual DEF n
  <2>. QED  BY <2>5 DEF s
<1>. QED  BY <1>3, <1>4, <1>6, <1>7 DEF z

\* The elements of a request's message
Element(r, numeric, n) ==
  CASE n = 2 -> r.pan          [] n = 3 -> Purchase
    [] n = 4 -> ZeroPadded(r.amount_minor, 12)
    [] n = 11 -> r.stan        [] n = 37 -> r.rrn
    [] n = 41 -> r.terminal_id [] n = 42 -> r.merchant_id
    [] n = 49 -> numeric       [] n = 55 -> r.icc_data

ToFields(r, numeric, numbers) == [n \in numbers |-> Element(r, numeric, n)]

\* The elements, one by one
LEMMA Elements ==
  ASSUME NEW r, NEW numeric, NEW numbers, NEW fields, fields = ToFields(r, numeric, numbers),
         RequiredText \subseteq numbers
  PROVE  /\ DOMAIN fields = numbers
         /\ fields[2] = r.pan /\ fields[3] = Purchase
         /\ fields[4] = ZeroPadded(r.amount_minor, 12)
         /\ fields[11] = r.stan /\ fields[37] = r.rrn
         /\ fields[41] = r.terminal_id /\ fields[42] = r.merchant_id
         /\ fields[49] = numeric
         /\ 55 \in numbers => fields[55] = r.icc_data
<1>1. {2, 3, 4, 11, 37, 41, 42, 49} \subseteq numbers
  BY DEF RequiredText
<1>. QED  BY <1>1 DEF ToFields, Element

\* What a request that is mapped was, and what it becomes
LEMMA Mapped ==
  ASSUME NEW r, ToIso8583(r) # Rejected
  PROVE  /\ Len(r.amount_minor) <= 12 /\ Len(r.terminal_id) = 8 /\ Len(r.merchant_id) = 15
         /\ \E numeric \in DOMAIN CurrencyOf :
              /\ CurrencyOf[numeric] = r.currency
              /\ ToIso8583(r) =
                   [mti |-> AuthorizationMti,
                    fields |-> ToFields(r, numeric,
                                 RequiredText \union (IF r.icc_data = None THEN {} ELSE {55}))]
<1>. DEFINE P(n) == CurrencyOf[n] = r.currency
            numeric == CHOOSE n \in DOMAIN CurrencyOf : P(n)
            message == [mti |-> AuthorizationMti,
                        fields |-> ToFields(r, numeric,
                                     RequiredText \union (IF r.icc_data = None THEN {} ELSE {55}))]
<1>1. ToIso8583(r) =
        IF /\ \E n \in DOMAIN CurrencyOf : P(n)
           /\ Len(r.amount_minor) <= 12
           /\ Len(r.terminal_id) = 8 /\ Len(r.merchant_id) = 15
        THEN message ELSE Rejected
  BY Zenon DEF ToIso8583, ToFields, Element
<1>. HIDE DEF P, message
<1>2. /\ \E n \in DOMAIN CurrencyOf : P(n)
      /\ Len(r.amount_minor) <= 12 /\ Len(r.terminal_id) = 8 /\ Len(r.merchant_id) = 15
      /\ ToIso8583(r) = message
  BY <1>1, Zenon
<1>3. numeric \in DOMAIN CurrencyOf /\ P(numeric)
  BY <1>2, Zenon
<1>. HIDE DEF numeric
<1>. QED  BY <1>2, <1>3 DEF P, message

\* A request taken to ISO 8583 and back is the request.
LEMMA RequestBack ==
  ASSUME NEW r \in AuthorizationRequest, ValidRequest(r), ToIso8583(r) # Rejected
  PROVE  IsMessage(ToIso8583(r)) /\ FromIso8583(ToIso8583(r)) = r
<1>. DEFINE icc == IF r.icc_data = None THEN {} ELSE {55}
            numbers == RequiredText \union icc
<1>1. PICK numeric \in DOMAIN CurrencyOf :
        /\ CurrencyOf[numeric] = r.currency
        /\ ToIso8583(r) = [mti |-> AuthorizationMti, fields |-> ToFields(r, numeric, numbers)]
  BY Mapped
<1>2. PICK fields : fields = ToFields(r, numeric, numbers)
  OBVIOUS
<1>3. /\ DOMAIN fields = numbers
      /\ fields[2] = r.pan /\ fields[3] = Purchase
      /\ fields[4] = ZeroPadded(r.amount_minor, 12)
      /\ fields[11] = r.stan /\ fields[37] = r.rrn
      /\ fields[41] = r.terminal_id /\ fields[42] = r.merchant_id
      /\ fields[49] = numeric
      /\ 55 \in numbers => fields[55] = r.icc_data
  <2>1. RequiredText \subseteq numbers
    OBVIOUS
  <2>. HIDE DEF numbers
  <2>. QED  BY <1>2, <2>1, Elements
<1>4. /\ r = [amount_minor |-> r.amount_minor, currency |-> r.currency,
              merchant_id |-> r.merchant_id, terminal_id |-> r.terminal_id, pan |-> r.pan,
              icc_data |-> r.icc_data, stan |-> r.stan, rrn |-> r.rrn]
      /\ r.amount_minor \in Seq(Digits) /\ (r.amount_minor # <<>> => r.amount_minor[1] # 48)
      /\ r.merchant_id \in Seq(Byte) /\ r.terminal_id \in Seq(Byte) /\ r.pan \in Seq(Byte)
      /\ r.icc_data = None \/ r.icc_data \in Seq(Byte)
      /\ r.stan \in Seq(Byte) /\ r.rrn \in Seq(Byte)
  BY DEF AuthorizationRequest
<1>5. ZeroPadded(r.amount_minor, 12) \in Seq(Byte) /\ Significant(fields[4]) = r.amount_minor
  <2>1. r.amount_minor \in Seq(Byte)
    <3>1. Digits \subseteq Byte
      BY DEF Digits, Byte
    <3>. QED  BY <1>4, <3>1, SeqMonotonic
  <2>2. r.amount_minor # <<>> /\ Len(r.amount_minor) <= 12
    BY Mapped DEF ValidRequest
  <2>. QED  BY <1>3, <1>4, <2>1, <2>2, SignificantPadded
<1>6. numeric \in Seq(Byte) /\ Purchase \in Seq(Byte) /\ AuthorizationMti \in Seq(Byte)
  <2>1. Digits \subseteq Byte
    BY DEF Digits, Byte
  <2>2. numeric \in [1..3 -> Byte]
    <3>1. numeric \in [1..3 -> Digits]
      BY MappingAssumption
    <3>. QED  BY <2>1, <3>1
  <2>3. Purchase \in [1..6 -> Byte]
    BY DEF Purchase, Byte
  <2>4. PICK a \in Nat, b \in Nat : a = 3 /\ b = 6
    OBVIOUS
  <2>5. numeric \in [1..a -> Byte] /\ Purchase \in [1..b -> Byte]
    BY <2>2, <2>3, <2>4
  <2>6. numeric \in Seq(Byte) /\ Purchase \in Seq(Byte)
    BY <2>5, SeqDef
  <2>7. AuthorizationMti \in Seq(Byte)
    BY DEF AuthorizationMti, Byte
  <2>. QED  BY <2>6, <2>7
<1>7. numbers \subseteq {2, 3, 4, 11, 37, 41, 42, 49, 55} /\ (55 \in numbers <=> r.icc_data # None)
  BY DEF RequiredText
<1>8. \A n \in numbers : fields[n] \in Seq(Byte)
  <2>. HIDE DEF numbers
  <2>. QED  BY <1>3, <1>4, <1>5, <1>6, <1>7, ZenonT(30)
<1>9. IsMessage(ToIso8583(r))
  <2>1. fields \in [numbers -> Seq(Byte)]
    <3>1. fields = [n \in numbers |-> fields[n]]
      <4>. HIDE DEF numbers
      <4>. QED  BY <1>2 DEF ToFields
    <3>. HIDE DEF numbers
    <3>. QED  BY <1>8, <3>1
  <2>. HIDE DEF numbers
  <2>. QED  BY <1>1, <1>2, <1>3, <1>6, <2>1 DEF IsMessage
<1>10. FromFields(fields) = r
  <2>1. CurrencyOf[fields[49]] = r.currency
    BY <1>1, <1>3
  <2>2. (IF 55 \in DOMAIN fields THEN fields[55] ELSE None) = r.icc_data
    <3>. HIDE DEF numbers
    <3>. QED  BY <1>3, <1>7
  <2>3. FromFields(fields) =
             [amount_minor |-> r.amount_minor, currency |-> r.currency,
              merchant_id |-> r.merchant_id, terminal_id |-> r.terminal_id, pan |-> r.pan,
              icc_data |-> r.icc_data, stan |-> r.stan, rrn |-> r.rrn]
    <3>. HIDE DEF numbers
    <3>. QED  BY <1>3, <1>5, <2>1, <2>2 DEF FromFields
  <2>. QED  BY <1>4, <2>3
<1>11. FromIso8583(ToIso8583(r)) = r
  <2>. PICK message : message = ToIso8583(r)
    OBVIOUS
  <2>1. message.mti = AuthorizationMti /\ message.fields = fields
    BY <1>1, <1>2
  <2>2. /\ RequiredText \subseteq DOMAIN fields /\ fields[3] = Purchase
        /\ fields[49] \in DOMAIN CurrencyOf
    BY <1>1, <1>3
  <2>3. FromIso8583(message) =
          IF /\ message.mti = AuthorizationMti
             /\ RequiredText \subseteq DOMAIN message.fields
             /\ message.fields[3] = Purchase /\ message.fields[49] \in DOMAIN CurrencyOf
             /\ ValidRequest(FromFields(message.fields))
          THEN FromFields(message.fields) ELSE Rejected
    BY Zenon DEF FromIso8583, FromFields
  <2>. HIDE DEF numbers
  <2>. QED  BY <1>10, <2>1, <2>2, <2>3
<1>. QED  BY <1>9, <1>11

-----------------------------------------------------------------------------
(* The elements of a received message *)

\* The lengths of three elements are fixed, and that of DE55 limited.
LEMMA ShippedLengths ==
  \A v : /\ Encodable(4, v) => Len(v) = 12
         /\ Encodable(41, v) => Len(v) = 8
         /\ Encodable(42, v) => Len(v) = 15
         /\ Encodable(55, v) => Len(v) <= 999
<1>1. \A n \in {4, 41, 42, 55} : FieldSpecs[n] = DefaultFieldSpecs[n]
  BY InputsAssumption DEF RequiredText
<1>2. DefaultFieldSpecs[4] = Fixed("n", 12) /\ DefaultFieldSpecs[41] = Fixed("ans", 8)
  BY DEF DefaultFieldSpecs
<1>3. /\ DefaultFieldSpecs[42] = Fixed("ans", 15)
      /\ DefaultFieldSpecs[55] = Field("binary", "lllvar", 1, 999)
  BY DEF DefaultFieldSpecs
<1>4. /\ FieldSpecs[4].length = "fixed" /\ FieldSpecs[4].max = 12
      /\ FieldSpecs[41].length = "fixed" /\ FieldSpecs[41].max = 8
      /\ FieldSpecs[42].length = "fixed" /\ FieldSpecs[42].max = 15
      /\ FieldSpecs[55].length = "lllvar" /\ FieldSpecs[55].min = 1 /\ FieldSpecs[55].max = 999
  BY <1>1, <1>2, <1>3 DEF Fixed, Field
<1>. TAKE v
<1>5. \A spec : LengthAllowed(spec, Len(v)) =>
        IF spec.length = "fixed" THEN Len(v) = spec.max ELSE Len(v) \in spec.min..spec.max
  BY DEF LengthAllowed
<1>6. Encodable(4, v) => Len(v) = 12
  <2>. PICK spec : spec = FieldSpecs[4]
    OBVIOUS
  <2>1. Encodable(4, v) => LengthAllowed(spec, Len(v))
    BY DEF Encodable
  <2>2. spec.length = "fixed" /\ spec.max = 12
    BY <1>4
  <2>. QED  BY <2>1, <2>2, <1>5
<1>7. Encodable(41, v) => Len(v) = 8
  <2>. PICK spec : spec = FieldSpecs[41]
    OBVIOUS
  <2>1. Encodable(41, v) => LengthAllowed(spec, Len(v))
    BY DEF Encodable
  <2>2. spec.length = "fixed" /\ spec.max = 8
    BY <1>4
  <2>. QED  BY <2>1, <2>2, <1>5
<1>8. Encodable(42, v) => Len(v) = 15
  <2>. PICK spec : spec = FieldSpecs[42]
    OBVIOUS
  <2>1. Encodable(42, v) => LengthAllowed(spec, Len(v))
    BY DEF Encodable
  <2>2. spec.length = "fixed" /\ spec.max = 15
    BY <1>4
  <2>. QED  BY <2>1, <2>2, <1>5
<1>9. Encodable(55, v) => Len(v) <= 999
  <2>. PICK spec : spec = FieldSpecs[55]
    OBVIOUS
  <2>1. Encodable(55, v) => LengthAllowed(spec, Len(v))
    BY DEF Encodable
  <2>2. spec.length = "lllvar" /\ spec.min = 1 /\ spec.max = 999
    BY <1>4
  <2>3. spec.length # "fixed"
    BY <2>2
  <2>4. Encodable(55, v) => Len(v) \in spec.min..spec.max
    BY <2>1, <2>3, <1>5
  <2>5. spec.min..spec.max = 1..999
    BY <2>2
  <2>6. Encodable(55, v) => Len(v) \in 1..999
    BY <2>4, <2>5, ZenonT(30)
  <2>7. \A k : k \in 1..999 => k <= 999
    OBVIOUS
  <2>. HIDE DEF Encodable
  <2>. QED  BY <2>6, <2>7, ZenonT(30)
<1>. QED  BY <1>6, <1>7, <1>8, <1>9

\* The property MappingKeepsElements of some bytes
ElementsKept(raw) ==
  LET message == Decode(raw)
      back == ToIso8583(FromIso8583(message))
      kept == DOMAIN message.fields \intersect (RequiredText \union {55})
  IN  back = [mti |-> message.mti, fields |-> [n \in kept |-> message.fields[n]]]

\* What a decoded message is
LEMMA DecodedMessage ==
  ASSUME NEW raw \in Seq(Byte), Decode(raw) # Rejected
  PROVE  /\ \A n \in DOMAIN Decode(raw).fields :
              Encodable(n, Decode(raw).fields[n]) /\ Decode(raw).fields[n] \in Seq(Byte)
         /\ Decode(raw) = [mti |-> Decode(raw).mti, fields |-> Decode(raw).fields]
<1>1. /\ Len(raw) >= BitmapEnd(raw) /\ ReadFields(raw).offset = Len(raw)
      /\ Decode(raw) = [mti |-> SubSeq(raw, 1, 4), fields |-> ReadFields(raw).fields]
  BY Decoded
<1>2. /\ ReadFields(raw).fields \in FieldSets
      /\ DOMAIN ReadFields(raw).fields = FieldNumbers(raw)
      /\ \A m \in FieldNumbers(raw) : Encodable(m, ReadFields(raw).fields[m])
  BY <1>1, DecodedFields
<1>3. \A f \in FieldSets : \A n \in DOMAIN f : f[n] \in Seq(Byte)
  BY DEF FieldSets
<1>. QED  BY <1>1, <1>2, <1>3

\* Mapping back a request that was accepted gives the elements it was made of.
LEMMA MappingKept ==
  ASSUME NEW raw \in Seq(Byte), Decode(raw) # Rejected, FromIso8583(Decode(raw)) # Rejected
  PROVE  ElementsKept(raw)
<1>. DEFINE de == Decode(raw).fields
            r == FromIso8583(Decode(raw))
            kept == DOMAIN de \intersect (RequiredText \union {55})
<1>1. /\ Decode(raw).mti = AuthorizationMti /\ RequiredText \subseteq DOMAIN de
      /\ de[3] = Purchase /\ de[49] \in DOMAIN CurrencyOf
      /\ r = FromFields(de) /\ ValidRequest(r)
  BY Accepted
<1>2. \A n \in DOMAIN de : Encodable(n, de[n]) /\ de[n] \in Seq(Byte)
  BY DecodedMessage
<1>. HIDE DEF de, r
<1>3. /\ r.amount_minor = Significant(de[4]) /\ r.currency = CurrencyOf[de[49]]
      /\ r.merchant_id = de[42] /\ r.terminal_id = de[41] /\ r.pan = de[2]
      /\ r.icc_data = (IF 55 \in DOMAIN de THEN de[55] ELSE None)
      /\ r.stan = de[11] /\ r.rrn = de[37]
  BY <1>1 DEF FromFields
<1>4. {2, 3, 4, 11, 37, 41, 42, 49} \subseteq DOMAIN de
  BY <1>1 DEF RequiredText
<1>5. /\ Len(r.amount_minor) <= 12 /\ ZeroPadded(r.amount_minor, 12) = de[4]
      /\ Len(r.terminal_id) = 8 /\ Len(r.merchant_id) = 15
  <2>0. /\ Encodable(4, de[4]) /\ Encodable(41, de[41]) /\ Encodable(42, de[42])
        /\ de[4] \in Seq(Byte)
    BY <1>2, <1>4
  <2>1. Len(de[4]) = 12 /\ Len(de[41]) = 8 /\ Len(de[42]) = 15 /\ de[4] \in Seq(Byte)
    BY <2>0, ShippedLengths
  <2>2. Len(Significant(de[4])) <= Len(de[4]) /\ ZeroPadded(Significant(de[4]), Len(de[4])) = de[4]
    BY <2>1, PaddedSignificant
  <2>. QED  BY <1>3, <2>1, <2>2
<1>6. 55 \in DOMAIN de <=> r.icc_data # None
  <2>1. CASE 55 \in DOMAIN de
    <3>1. de[55] \in Seq(Byte) /\ Len(de[55]) <= 999
      BY <1>2, <2>1, ShippedLengths
    <3>. QED  BY <1>3, <2>1, <3>1, NoneIsNoText
  <2>2. CASE 55 \notin DOMAIN de
    BY <1>3, <2>2
  <2>. QED  BY <2>1, <2>2
<1>7. ToIso8583(r) # Rejected \/ ToIso8583(r) = Rejected
  OBVIOUS
<1>8. kept = RequiredText \union (IF r.icc_data = None THEN {} ELSE {55})
  <2>1. 55 \notin RequiredText
    BY DEF RequiredText
  <2>. QED  BY <1>1, <1>6, <2>1
<1>. DEFINE numeric == CHOOSE n \in DOMAIN CurrencyOf : CurrencyOf[n] = r.currency
<1>9. numeric = de[49]
  <2>1. CurrencyOf[de[49]] = r.currency /\ de[49] \in DOMAIN CurrencyOf
    BY <1>1, <1>3
  <2>2. numeric \in DOMAIN CurrencyOf /\ CurrencyOf[numeric] = r.currency
    BY <2>1, Zenon
  <2>. HIDE DEF numeric
  <2>3. CurrencyOf[numeric] = CurrencyOf[de[49]]
    BY <2>1, <2>2
  <2>. QED  BY <2>1, <2>2, <2>3, MappingAssumption, ZenonT(30)
<1>10. ToIso8583(r) = [mti |-> AuthorizationMti, fields |-> ToFields(r, numeric, kept)]
  <2>1. \E n \in DOMAIN CurrencyOf : CurrencyOf[n] = r.currency
    BY <1>1, <1>3
  <2>2. ToIso8583(r) =
        IF /\ \E n \in DOMAIN CurrencyOf : CurrencyOf[n] = r.currency
           /\ Len(r.amount_minor) <= 12
           /\ Len(r.terminal_id) = 8 /\ Len(r.merchant_id) = 15
        THEN [mti |-> AuthorizationMti,
              fields |-> ToFields(r, numeric,
                           RequiredText \union (IF r.icc_data = None THEN {} ELSE {55}))]
        ELSE Rejected
    BY Zenon DEF ToIso8583, ToFields, Element
  <2>. HIDE DEF numeric, kept
  <2>. QED  BY <1>5, <1>8, <2>1, <2>2
<1>. HIDE DEF numeric, kept
<1>11. ToFields(r, numeric, kept) = [n \in kept |-> de[n]]
  <2>. PICK fields : fields = ToFields(r, numeric, kept)
    OBVIOUS
  <2>1. RequiredText \subseteq kept
    BY <1>8
  <2>2. /\ DOMAIN fields = kept
        /\ fields[2] = r.pan /\ fields[3] = Purchase
        /\ fields[4] = ZeroPadded(r.amount_minor, 12)
        /\ fields[11] = r.stan /\ fields[37] = r.rrn
        /\ fields[41] = r.terminal_id /\ fields[42] = r.merchant_id
        /\ fields[49] = numeric
        /\ 55 \in kept => fields[55] = r.icc_data
    BY <2>1, Elements
  <2>3. kept \subseteq {2, 3, 4, 11, 37, 41, 42, 49, 55} /\ (55 \in kept => 55 \in DOMAIN de)
    BY <1>8, <1>6 DEF RequiredText
  <2>4. \A n \in kept : fields[n] = de[n]
    <3>1. /\ fields[2] = de[2] /\ fields[3] = de[3] /\ fields[4] = de[4] /\ fields[11] = de[11]
          /\ fields[37] = de[37] /\ fields[41] = de[41] /\ fields[42] = de[42]
          /\ fields[49] = de[49]
      BY <1>1, <1>3, <1>5, <1>9, <2>2
    <3>2. 55 \in kept => fields[55] = de[55]
      BY <1>3, <2>2, <2>3
    <3>. QED  BY <2>3, <3>1, <3>2
  <2>5. fields = [n \in kept |-> fields[n]]
    BY DEF ToFields
  <2>6. [n \in kept |-> fields[n]] = [n \in kept |-> de[n]]
    BY <2>4
  <2>. QED  BY <2>5, <2>6
<1>12. ToIso8583(r) = [mti |-> Decode(raw).mti, fields |-> [n \in kept |-> de[n]]]
  BY <1>1, <1>10, <1>11
<1>. QED  BY <1>12 DEF ElementsKept, de, r, kept

-----------------------------------------------------------------------------
(* Lengths in BER *)

\* Bytes are naturals.
LEMMA ByteValue == \A b \in Byte : b \in 0..255 /\ b \in Nat
BY DEF Byte

\* The positions of bytes, and the byte at each
LEMMA ByteAt ==
  \A bytes \in Seq(Byte) : /\ DOMAIN bytes = 1..Len(bytes) /\ Len(bytes) \in Nat
                           /\ \A i \in 1..Len(bytes) : bytes[i] \in Byte
OBVIOUS

\* The digits of a number in base 256
Shift(m, c) == 256 * m + c
Upper(n) == n \div 256
Low(n) == n % 256

\* Appending a digit to a number can be undone.
LEMMA Digit ==
  /\ \A m \in Nat, c \in Byte :
       Shift(m, c) \in Nat /\ Upper(Shift(m, c)) = m /\ Low(Shift(m, c)) = c
  /\ \A a \in Byte : a \in Nat /\ Upper(a) = 0 /\ Low(a) = a
  /\ Upper(0) = 0 /\ Low(0) = 0
<1>1. ASSUME NEW m \in Nat, NEW c \in Byte
      PROVE  Shift(m, c) \in Nat /\ Upper(Shift(m, c)) = m /\ Low(Shift(m, c)) = c
  <2>1. c \in 0..255
    BY ByteValue
  <2>2. (256 * m + c) \div 256 = m
    BY <2>1, SMT
  <2>3. (256 * m + c) % 256 = c
    BY <2>1, SMT
  <2>4. 256 * m + c \in Nat
    BY <2>1, SMT
  <2>. QED  BY <2>2, <2>3, <2>4, Zenon DEF Shift, Upper, Low
<1>2. ASSUME NEW a \in Byte
      PROVE  a \in Nat /\ Upper(a) = 0 /\ Low(a) = a
  <2>1. a \in 0..255
    BY ByteValue
  <2>. QED  BY <2>1 DEF Upper, Low
<1>3. Upper(0) = 0 /\ Low(0) = 0
  BY DEF Upper, Low
<1>. QED  BY <1>1, <1>2, <1>3, Zenon

\* The shortest encoding of a length, by its digits
LEMMA BerLengths ==
  ASSUME NEW n \in Nat
  PROVE  /\ n < 128 => Tlv!BerLength(n) = <<n>>
         /\ n >= 128 /\ Upper(Upper(n)) = 0 /\ Low(Upper(n)) = 0 =>
              Tlv!BerLength(n) = <<129, Low(n)>>
         /\ Upper(Upper(n)) = 0 /\ Low(Upper(n)) # 0 =>
              Tlv!BerLength(n) = <<130, Low(Upper(n)), Low(n)>>
         /\ Upper(Upper(n)) # 0 =>
              Tlv!BerLength(n) = <<131, Upper(Upper(n)), Low(Upper(n)), Low(n)>>
<1>. DEFINE low == Low(n)
            middle == Low(Upper(n))
            high == Upper(Upper(n))
<1>1. Tlv!BerLength(n) =
        CASE n < 128 -> <<n>>
          [] n >= 128 /\ high = 0 /\ middle = 0 -> <<129, low>>
          [] n >= 128 /\ high = 0 /\ middle # 0 -> <<130, middle, low>>
          [] n >= 128 /\ high # 0 -> <<131, high, middle, low>>
  BY ZenonT(20) DEF Tlv!BerLength, Low, Upper
<1>2. n < 128 <=> ~(n >= 128)
  BY SMT
<1>3. n < 128 => high = 0 /\ middle = 0
  BY SMT DEF Low, Upper
<1>. HIDE DEF low, middle, high
<1>4. ASSUME n < 128 PROVE Tlv!BerLength(n) = <<n>>
  BY <1>1, <1>2, <1>4, Zenon
<1>5. ASSUME n >= 128, high = 0, middle = 0 PROVE Tlv!BerLength(n) = <<129, low>>
  BY <1>1, <1>2, <1>5, Zenon
<1>6. ASSUME high = 0, middle # 0 PROVE Tlv!BerLength(n) = <<130, middle, low>>
  BY <1>1, <1>2, <1>3, <1>6, Zenon
<1>7. ASSUME high # 0 PROVE Tlv!BerLength(n) = <<131, high, middle, low>>
  BY <1>1, <1>2, <1>3, <1>7, Zenon
<1>. QED  BY <1>4, <1>5, <1>6, <1>7, Zenon DEF low, middle, high

\* BigEndian as a fold over the positions
BigEndianStep(bytes) == [p \in (DOMAIN bytes) \X Nat |-> 256 * p[2] + bytes[p[1]]]

\* That fold has the value of BigEndian.
LEMMA BigEndianIsFold ==
  ASSUME NEW bytes \in Seq(Byte)
  PROVE  \E g : IsFold(g, DOMAIN bytes, Nat, 0, BigEndianStep(bytes))
                  /\ Tlv!BigEndian(bytes) = g[DOMAIN bytes]
<1>. DEFINE D == DOMAIN bytes
            eq(h) == [s \in SUBSET D |->
                        IF s = {} THEN 0 ELSE 256 * h[s \ {Tlv!Max(s)}] + bytes[Tlv!Max(s)]]
            iter == CHOOSE h : h = eq(h)
<1>1. Numbers(D)
  <2>1. D = 1..Len(bytes) /\ Len(bytes) \in Nat
    BY LenProperties
  <2>. QED  BY <2>1, NumbersOfSegment, Zenon
<1>2. \A n \in D : bytes[n] \in Nat
  BY ByteAt, ByteValue
<1>3. /\ BigEndianStep(bytes) \in [D \X Nat -> Nat]
      /\ \A n \in D, v \in Nat : BigEndianStep(bytes)[<<n, v>>] = 256 * v + bytes[n]
  BY <1>2 DEF BigEndianStep
<1>. HIDE DEF D
<1>4. PICK g : IsFold(g, D, Nat, 0, BigEndianStep(bytes))
  <2>1. 0 \in Nat
    OBVIOUS
  <2>. QED  BY <1>1, <1>3, <2>1, FoldExists
<1>5. \A s \in SUBSET D : s # {} => Max(s) \in D /\ Tlv!Max(s) = Max(s)
  <2>1. \A s : Tlv!Max(s) = Max(s)
    BY Zenon DEF Tlv!Max, Max
  <2>. QED  BY <1>1, <2>1, Greatest, FewerNumbers
<1>6. g = eq(g)
  <2>1. g \in [SUBSET D -> Nat]
    BY <1>4 DEF IsFold
  <2>2. \A s \in SUBSET D : s = {} => g[s] = 0
    BY <1>4 DEF IsFold
  <2>3. \A s \in SUBSET D : s # {} => g[s] = 256 * g[s \ {Tlv!Max(s)}] + bytes[Tlv!Max(s)]
    <3>. SUFFICES ASSUME NEW s \in SUBSET D, s # {}
                  PROVE  g[s] = 256 * g[s \ {Tlv!Max(s)}] + bytes[Tlv!Max(s)]
      OBVIOUS
    <3>1. PICK n \in D : n = Max(s) /\ n = Tlv!Max(s)
      BY <1>5
    <3>2. g[s] = BigEndianStep(bytes)[<<n, g[s \ {n}]>>]
      BY <1>4, <3>1 DEF IsFold
    <3>3. g[s \ {n}] \in Nat
      BY <2>1
    <3>. QED  BY <1>3, <3>1, <3>2, <3>3
  <2>. QED  BY <2>1, <2>2, <2>3
<1>7. iter = eq(iter)
  <2>. HIDE DEF eq
  <2>. QED  BY <1>6, Zenon
<1>8. Tlv!BigEndian(bytes) = iter[D]
  BY Zenon DEF Tlv!BigEndian, Tlv!FoldLeft, Tlv!MapThenFoldSet, D
<1>9. Unfolds(iter, D, Nat, 0, BigEndianStep(bytes))
  <2>. HIDE DEF iter
  <2>1. \A s \in SUBSET D :
          iter[s] = IF s = {} THEN 0 ELSE 256 * iter[s \ {Max(s)}] + bytes[Max(s)]
    BY <1>5, <1>7
  <2>2. \A s \in SUBSET D :
          s # {} /\ iter[s \ {Max(s)}] \in Nat =>
            BigEndianStep(bytes)[<<Max(s), iter[s \ {Max(s)}]>>]
              = 256 * iter[s \ {Max(s)}] + bytes[Max(s)]
    BY <1>3, <1>5
  <2>. QED  BY <2>1, <2>2, ZenonT(30) DEF Unfolds
<1>. HIDE DEF iter, eq
<1>10. iter[D] = g[D]
  BY <1>1, <1>4, <1>9, FoldUnique
<1>. QED  BY <1>4, <1>8, <1>10 DEF D

\* The number that one, two or three bytes are
LEMMA BigEndianValue ==
  ASSUME NEW bytes \in Seq(Byte), Len(bytes) \in 1..3
  PROVE  /\ Len(bytes) = 1 => Tlv!BigEndian(bytes) = bytes[1]
         /\ Len(bytes) = 2 => Tlv!BigEndian(bytes) = Shift(bytes[1], bytes[2])
         /\ Len(bytes) = 3 => Tlv!BigEndian(bytes) = Shift(Shift(bytes[1], bytes[2]), bytes[3])
<1>. DEFINE D == DOMAIN bytes
<1>1. D = 1..Len(bytes) /\ \A n \in D : bytes[n] \in 0..255 /\ bytes[n] \in Nat
  BY ByteAt, ByteValue
<1>2. PICK g : IsFold(g, D, Nat, 0, BigEndianStep(bytes)) /\ Tlv!BigEndian(bytes) = g[D]
  BY BigEndianIsFold
<1>3. Numbers(D)
  <2>1. D = 1..Len(bytes) /\ Len(bytes) \in Nat
    BY LenProperties
  <2>. QED  BY <2>1, NumbersOfSegment, Zenon
<1>4. \A n \in D, v \in Nat : BigEndianStep(bytes)[<<n, v>>] = 256 * v + bytes[n]
  BY DEF BigEndianStep
<1>5. ASSUME NEW n \in Nat, n + 1 \in D
      PROVE  g[UpTo(D, n + 1)] = 256 * g[UpTo(D, n)] + bytes[n + 1]
  <2>. HIDE DEF D
  <2>1. g[UpTo(D, n + 1)] = BigEndianStep(bytes)[<<n + 1, g[UpTo(D, n)]>>]
    BY <1>2, <1>3, <1>5, FoldUpTo
  <2>2. g[UpTo(D, n)] \in Nat
    BY <1>2 DEF IsFold, UpTo
  <2>. QED  BY <1>4, <1>5, <2>1, <2>2
<1>6. g[UpTo(D, 0)] = 0
  <2>1. UpTo(D, 0) = {}
    BY <1>1 DEF UpTo
  <2>. QED  BY <1>2, <2>1 DEF IsFold
<1>7. UpTo(D, Len(bytes)) = D
  BY <1>1 DEF UpTo
<1>8. g[UpTo(D, 1)] = bytes[1]
  BY <1>1, <1>5, <1>6
<1>9. Len(bytes) \in {2, 3} => g[UpTo(D, 2)] = 256 * bytes[1] + bytes[2]
  BY <1>1, <1>5, <1>8
<1>10. Len(bytes) = 3 => g[UpTo(D, 3)] = 256 * (256 * bytes[1] + bytes[2]) + bytes[3]
  BY <1>1, <1>5, <1>9
<1>. HIDE DEF D
<1>11. Tlv!BigEndian(bytes) = g[UpTo(D, Len(bytes))]
  BY <1>2, <1>7
<1>12. CASE Len(bytes) = 1
  BY <1>8, <1>11, <1>12
<1>13. CASE Len(bytes) = 2
  BY <1>9, <1>11, <1>13 DEF Shift
<1>14. CASE Len(bytes) = 3
  BY <1>10, <1>11, <1>14 DEF Shift
<1>. QED  BY <1>12, <1>13, <1>14

\* The bytes of a length in the long form: how many there are, and then the number
LEMMA HeadAndTail ==
  ASSUME NEW bytes \in Seq(Byte), NEW size \in {2, 3, 4}, size <= Len(bytes)
  PROVE  /\ SubSeq(bytes, 1, size) \in Seq(Byte) /\ Len(SubSeq(bytes, 1, size)) = size
         /\ \A i \in 1..size : SubSeq(bytes, 1, size)[i] = bytes[i]
         /\ SubSeq(bytes, 2, size) \in Seq(Byte) /\ Len(SubSeq(bytes, 2, size)) = size - 1
         /\ \A i \in 1..size - 1 : SubSeq(bytes, 2, size)[i] = bytes[i + 1]
<1>. PICK n \in Nat : n = Len(bytes)
  BY ByteAt
<1>1. /\ 1 \in 1..n + 1 /\ size \in 1 - 1..n /\ 2 \in 1..n + 1 /\ size \in 2 - 1..n
      /\ size - 1 + 1 = size /\ size - 2 + 1 = size - 1
  OBVIOUS
<1>2. \A i \in 1..size : 1 + i - 1 = i /\ 2 + i - 1 = i + 1
  OBVIOUS
<1>3. /\ SubSeq(bytes, 1, size) \in Seq(Byte) /\ Len(SubSeq(bytes, 1, size)) = size
      /\ \A i \in 1..size : SubSeq(bytes, 1, size)[i] = bytes[1 + i - 1]
  BY <1>1, Segment
<1>4. /\ SubSeq(bytes, 2, size) \in Seq(Byte) /\ Len(SubSeq(bytes, 2, size)) = size - 1
      /\ \A i \in 1..size - 1 : SubSeq(bytes, 2, size)[i] = bytes[2 + i - 1]
  BY <1>1, Segment
<1>. QED  BY <1>2, <1>3, <1>4

\* Lengths in two bytes
LEMMA LongTwo == \A a \in Byte : a >= 128 => a \in Nat /\ Tlv!BerLength(a) = <<129, a>>
BY Digit, BerLengths, Zenon

InThree(a, b) == Shift(a, b) \in Nat /\ Tlv!BerLength(Shift(a, b)) = <<130, a, b>>
\* Lengths in three bytes
LEMMA LongThree == \A a, b \in Byte : a # 0 => InThree(a, b)
<1>. TAKE a, b \in Byte
<1>1. PICK n : n = Shift(a, b)
  OBVIOUS
<1>2. a \in Nat /\ Upper(a) = 0 /\ Low(a) = a
  BY Digit, Zenon
<1>3. n \in Nat /\ Upper(n) = a /\ Low(n) = b
  BY <1>1, <1>2, Digit, Zenon
<1>4. a # 0 => Tlv!BerLength(n) = <<130, Low(Upper(n)), Low(n)>>
  <2>1. Upper(Upper(n)) = 0 /\ Low(Upper(n)) = a
    BY <1>2, <1>3, Zenon
  <2>. QED  BY <1>3, <2>1, BerLengths, Zenon
<1>5. <<130, Low(Upper(n)), Low(n)>> = <<130, a, b>>
  BY <1>2, <1>3
<1>. QED  BY <1>1, <1>3, <1>4, <1>5 DEF InThree

InFour(a, b, c) ==
  /\ Shift(Shift(a, b), c) \in Nat
  /\ Tlv!BerLength(Shift(Shift(a, b), c)) = <<131, a, b, c>>
\* Lengths in four bytes
LEMMA LongFour == \A a, b, c \in Byte : a # 0 => InFour(a, b, c)
<1>. TAKE a, b, c \in Byte
<1>1. PICK m : m = Shift(a, b)
  OBVIOUS
<1>2. PICK n : n = Shift(m, c)
  OBVIOUS
<1>3. m \in Nat /\ Upper(m) = a /\ Low(m) = b
  BY <1>1, Digit, Zenon
<1>4. n \in Nat /\ Upper(n) = m /\ Low(n) = c
  BY <1>2, <1>3, Digit, Zenon
<1>5. a # 0 => Tlv!BerLength(n) = <<131, Upper(Upper(n)), Low(Upper(n)), Low(n)>>
  <2>1. Upper(Upper(n)) = a
    BY <1>3, <1>4, Zenon
  <2>. QED  BY <1>4, <2>1, BerLengths, Zenon
<1>6. <<131, Upper(Upper(n)), Low(Upper(n)), Low(n)>> = <<131, a, b, c>>
  BY <1>3, <1>4
<1>. QED  BY <1>1, <1>2, <1>4, <1>5, <1>6 DEF InFour

\* A sequence of known length is the tuple of its elements.
LEMMA Tuples ==
  \A s \in Seq(Byte) : \A a, b, c, d :
    /\ Len(s) = 1 /\ s[1] = a => s = <<a>>
    /\ Len(s) = 2 /\ s[1] = a /\ s[2] = b => s = <<a, b>>
    /\ Len(s) = 3 /\ s[1] = a /\ s[2] = b /\ s[3] = c => s = <<a, b, c>>
    /\ Len(s) = 4 /\ s[1] = a /\ s[2] = b /\ s[3] = c /\ s[4] = d => s = <<a, b, c, d>>
OBVIOUS

\* The bytes of a length in the long form encode its value.
LEMMA LongLength ==
  ASSUME NEW bytes \in Seq(Byte), NEW size \in {2, 3, 4}, size <= Len(bytes),
         bytes[1] = 127 + size, bytes[2] # 0, size = 2 => bytes[2] >= 128
  PROVE  /\ Tlv!BigEndian(SubSeq(bytes, 2, size)) \in Nat
         /\ Tlv!BerLength(Tlv!BigEndian(SubSeq(bytes, 2, size))) = SubSeq(bytes, 1, size)
<1>. DEFINE head == SubSeq(bytes, 1, size)
            tail == SubSeq(bytes, 2, size)
<1>1. /\ head \in Seq(Byte) /\ Len(head) = size /\ \A i \in 1..size : head[i] = bytes[i]
      /\ tail \in Seq(Byte) /\ Len(tail) = size - 1
      /\ \A i \in 1..size - 1 : tail[i] = bytes[i + 1]
  BY HeadAndTail
<1>. HIDE DEF head, tail
<1>. SUFFICES Tlv!BigEndian(tail) \in Nat /\ Tlv!BerLength(Tlv!BigEndian(tail)) = head
  BY Zenon DEF head, tail
<1>2. bytes[2] \in Byte /\ \A i \in 1..size : bytes[i] \in Byte
  <2>1. \A i \in 1..size : i \in 1..Len(bytes)
    BY ByteAt
  <2>2. 2 \in 1..size
    OBVIOUS
  <2>. QED  BY <2>1, <2>2, ByteAt, Zenon
<1>3. CASE size = 2
  <2>1. /\ Len(head) = 2 /\ head[1] = 129 /\ head[2] = bytes[2]
        /\ Len(tail) = 1 /\ tail[1] = bytes[2]
    BY <1>1, <1>3
  <2>2. Tlv!BigEndian(tail) = tail[1]
    BY <1>1, <2>1, BigEndianValue
  <2>3. head = <<129, bytes[2]>>
    BY <1>1, <2>1, Tuples
  <2>4. Tlv!BerLength(bytes[2]) = <<129, bytes[2]>> /\ bytes[2] \in Nat
    BY <1>2, <1>3, LongTwo
  <2>. QED  BY <2>1, <2>2, <2>3, <2>4
<1>4. CASE size = 3
  <2>1. /\ Len(head) = 3 /\ head[1] = 130 /\ head[2] = bytes[2] /\ head[3] = bytes[3]
        /\ Len(tail) = 2 /\ tail[1] = bytes[2] /\ tail[2] = bytes[3]
    BY <1>1, <1>4
  <2>2. Tlv!BigEndian(tail) = Shift(tail[1], tail[2])
    BY <1>1, <2>1, BigEndianValue
  <2>3. head = <<130, bytes[2], bytes[3]>>
    BY <1>1, <2>1, Tuples
  <2>4. bytes[3] \in Byte
    BY <1>2, <1>4
  <2>5. InThree(bytes[2], bytes[3])
    BY <1>2, <2>4, LongThree, Zenon
  <2>. QED  BY <2>1, <2>2, <2>3, <2>5, Zenon DEF InThree
<1>5. CASE size = 4
  <2>1. /\ Len(head) = 4 /\ head[1] = 131 /\ head[2] = bytes[2] /\ head[3] = bytes[3]
        /\ head[4] = bytes[4]
        /\ Len(tail) = 3 /\ tail[1] = bytes[2] /\ tail[2] = bytes[3] /\ tail[3] = bytes[4]
    BY <1>1, <1>5
  <2>2. Tlv!BigEndian(tail) = Shift(Shift(tail[1], tail[2]), tail[3])
    BY <1>1, <2>1, BigEndianValue
  <2>3. head = <<131, bytes[2], bytes[3], bytes[4]>>
    BY <1>1, <2>1, Tuples
  <2>4. bytes[3] \in Byte /\ bytes[4] \in Byte
    BY <1>2, <1>5
  <2>5. InFour(bytes[2], bytes[3], bytes[4])
    BY <1>2, <2>4, LongFour, Zenon
  <2>. QED  BY <2>1, <2>2, <2>3, <2>5 DEF InFour
<1>. QED  BY <1>3, <1>4, <1>5, Zenon

\* A length that is read is the shortest encoding of its value.
LEMMA ShortestLength ==
  ASSUME NEW bytes \in Seq(Byte), Tlv!ReadLength(bytes).size > 0
  PROVE  /\ Tlv!ReadLength(bytes).size \in 1..Len(bytes)
         /\ Tlv!ReadLength(bytes).length \in Nat
         /\ Tlv!BerLength(Tlv!ReadLength(bytes).length) =
              SubSeq(bytes, 1, Tlv!ReadLength(bytes).size)
<1>1. bytes # <<>>
  BY DEF Tlv!ReadLength
<1>2. 1 \in 1..Len(bytes) /\ bytes[1] \in Byte
  <2>1. 1 \in 1..Len(bytes)
    BY <1>1
  <2>. QED  BY <2>1, ByteAt, Zenon
<1>3. CASE bytes[1] < 128
  <2>1. Tlv!ReadLength(bytes) = [size |-> 1, length |-> bytes[1]]
    BY <1>1, <1>3 DEF Tlv!ReadLength
  <2>2. bytes[1] \in Nat
    BY <1>2, ByteValue, Zenon
  <2>3. Tlv!BerLength(bytes[1]) = <<bytes[1]>>
    BY <1>3, <2>2, BerLengths, Zenon
  <2>4. SubSeq(bytes, 1, 1) = <<bytes[1]>>
    <3>1. \A n \in Nat : 1 \in 1..n => 1 \in 1..n + 1 /\ 1 \in 1 - 1..n
      OBVIOUS
    <3>2. 1 \in 1..Len(bytes) + 1 /\ 1 \in 1 - 1..Len(bytes)
      BY <1>2, <3>1, ByteAt
    <3>3. 1 - 1 + 1 = 1 /\ 1 + 1 - 1 = 1 /\ 1 \in 1..1
      OBVIOUS
    <3>4. /\ SubSeq(bytes, 1, 1) \in Seq(Byte) /\ Len(SubSeq(bytes, 1, 1)) = 1
          /\ SubSeq(bytes, 1, 1)[1] = bytes[1]
      BY <3>2, <3>3, Segment
    <3>. QED  BY <3>4, Tuples
  <2>. QED  BY <1>2, <2>1, <2>2, <2>3, <2>4
<1>4. CASE ~(bytes[1] < 128)
  <2>0. PICK size : size = bytes[1] - 127
    OBVIOUS
  <2>1. Tlv!ReadLength(bytes) =
        IF Tlv!LongForm(bytes, size)
        THEN [size |-> size, length |-> Tlv!BigEndian(SubSeq(bytes, 2, size))]
        ELSE [size |-> 0, length |-> 0]
    BY <1>1, <1>4, <2>0, Zenon DEF Tlv!ReadLength
  <2>2. Tlv!LongForm(bytes, size)
    <3>1. ~Tlv!LongForm(bytes, size) => Tlv!ReadLength(bytes).size = 0
      BY <2>1
    <3>2. ~(0 > 0)
      OBVIOUS
    <3>. QED  BY <3>1, <3>2
  <2>3. /\ bytes[1] - 128 \in 1..MaxLengthBytes /\ size <= Len(bytes)
        /\ bytes[2] # 0 /\ (size = 2 => bytes[2] >= 128)
    BY <2>2 DEF Tlv!LongForm
  <2>4. size \in {2, 3, 4} /\ bytes[1] = 127 + size
    <3>1. \A b \in Byte : \A m \in 1..3 : b - 128 \in 1..m =>
             b - 127 \in {2, 3, 4} /\ b = 127 + (b - 127)
      BY ByteValue
    <3>2. MaxLengthBytes \in 1..3
      BY InputsAssumption
    <3>. QED  BY <1>2, <2>0, <2>3, <3>1, <3>2
  <2>5. /\ Tlv!ReadLength(bytes).size = size
        /\ Tlv!ReadLength(bytes).length = Tlv!BigEndian(SubSeq(bytes, 2, size))
    BY <2>1, <2>2
  <2>6. /\ Tlv!BigEndian(SubSeq(bytes, 2, size)) \in Nat
        /\ Tlv!BerLength(Tlv!BigEndian(SubSeq(bytes, 2, size))) = SubSeq(bytes, 1, size)
    BY <2>3, <2>4, LongLength
  <2>7. size \in 1..Len(bytes)
    <3>1. \A n \in Nat : \A k \in {2, 3, 4} : k <= n => k \in 1..n
      OBVIOUS
    <3>. QED  BY <2>3, <2>4, <3>1, ByteAt
  <2>. QED  BY <2>5, <2>6, <2>7, Zenon
<1>. QED  BY <1>3, <1>4

-----------------------------------------------------------------------------
(* The first item *)

\* A tag is no longer than the bytes.
LEMMA TagSizes ==
  ASSUME NEW bytes \in Seq(Byte), bytes # <<>>
  PROVE  Tlv!TagSize(bytes) \in 0..Len(bytes)
<1>. DEFINE last == {i \in 2..Len(bytes) : i <= MaxTagBytes /\ bytes[i] < 128}
<1>1. \/ Tlv!TagSize(bytes) = 0 \/ Tlv!TagSize(bytes) = 1
      \/ last # {} /\ Tlv!TagSize(bytes) = Tlv!Min(last)
  BY ZenonT(20) DEF Tlv!TagSize
<1>2. Len(bytes) \in Nat /\ 1 \in 0..Len(bytes) /\ 0 \in 0..Len(bytes)
  BY ByteAt
<1>3. last # {} => Tlv!Min(last) \in last
  <2>1. last \in SUBSET Nat
    BY <1>2
  <2>. HIDE DEF last
  <2>2. last # {} => \E n \in last : \A m \in last : n <= m
    BY <2>1, LeastElement
  <2>. QED  BY <2>2, Zenon DEF Tlv!Min
<1>4. last # {} => Tlv!Min(last) \in 0..Len(bytes)
  <2>1. \A i \in last : i \in 0..Len(bytes)
    BY <1>2
  <2>. HIDE DEF last
  <2>. QED  BY <1>3, <2>1
<1>. HIDE DEF last
<1>. QED  BY <1>1, <1>2, <1>4

\* The first item of some bytes, its shortest encoding and what is left
LEMMA FirstItem ==
  ASSUME NEW bytes \in Seq(Byte), bytes # <<>>, NEW item, item = Tlv!ReadItem(bytes),
         item # Rejected
  PROVE  /\ item.tag \in Seq(Byte) /\ item.value \in Seq(Byte) /\ item.rest \in Seq(Byte)
         /\ Len(item.value) < Len(bytes) /\ Len(item.rest) < Len(bytes)
         /\ bytes = Tlv!Ber(item.tag, item.value) \o item.rest
<1>. DEFINE tagSize == Tlv!TagSize(bytes)
            tag == SubSeq(bytes, 1, tagSize)
            after == SubSeq(bytes, tagSize + 1, Len(bytes))
            read == Tlv!ReadLength(after)
            start == tagSize + read.size
            end == start + read.length
            value == SubSeq(bytes, start + 1, end)
            rest == SubSeq(bytes, end + 1, Len(bytes))
<1>1. /\ item = [tag |-> tag, value |-> value, rest |-> rest]
      /\ tagSize > 0 /\ read.size > 0 /\ end <= Len(bytes)
  BY Zenon DEF Tlv!ReadItem
<1>2. PICK n \in Nat : n = Len(bytes)
  BY ByteAt
<1>3. PICK t \in 1..n : t = tagSize
  BY <1>1, <1>2, TagSizes
<1>4. after \in Seq(Byte) /\ Len(after) = n - t
      /\ \A i \in 1..n - t : after[i] = bytes[t + i]
  <2>1. /\ t + 1 \in 1..n + 1 /\ n \in t + 1 - 1..n /\ n - (t + 1) + 1 = n - t
        /\ \A i \in 1..n - t : t + 1 + i - 1 = t + i
    BY <1>3
  <2>2. /\ SubSeq(bytes, t + 1, n) \in Seq(Byte) /\ Len(SubSeq(bytes, t + 1, n)) = n - t
        /\ \A i \in 1..n - t : SubSeq(bytes, t + 1, n)[i] = bytes[t + 1 + i - 1]
    BY <1>2, <2>1, Segment
  <2>. QED  BY <1>2, <1>3, <2>1, <2>2
<1>. HIDE DEF tagSize, after
<1>5. /\ read.size \in 1..n - t /\ read.length \in Nat
      /\ Tlv!BerLength(read.length) = SubSeq(after, 1, read.size)
  BY <1>1, <1>4, ShortestLength
<1>. HIDE DEF read
<1>6. PICK s \in 1..n - t : s = read.size
  BY <1>5
<1>7. PICK l \in Nat : l = read.length
  BY <1>5
<1>8. t + s + l <= n
  BY <1>1, <1>2, <1>3, <1>6, <1>7
<1>9. start = t + s /\ end = t + s + l
  BY <1>3, <1>6, <1>7
<1>. HIDE DEF start, end
<1>. DEFINE T == SubSeq(bytes, 1, t)
            L == SubSeq(bytes, t + 1, t + s)
            V == SubSeq(bytes, t + s + 1, t + s + l)
            R == SubSeq(bytes, t + s + l + 1, n)
<1>10. tag = T /\ value = V /\ rest = R
  BY <1>2, <1>3, <1>9
<1>11. /\ 1 \in 1..n + 1 /\ t \in 1 - 1..n /\ t - 1 + 1 = t
       /\ t + 1 \in 1..n + 1 /\ t + s \in t + 1 - 1..n /\ t + s - (t + 1) + 1 = s
       /\ t + s + 1 \in 1..n + 1 /\ t + s + l \in t + s + 1 - 1..n
       /\ t + s + l - (t + s + 1) + 1 = l
       /\ t + s + l + 1 \in 1..n + 1 /\ n \in t + s + l + 1 - 1..n
       /\ n - (t + s + l + 1) + 1 = n - (t + s + l)
  <2>1. \A i, j, k \in Nat : i >= 1 /\ j >= 1 /\ i + j + k <= n =>
       /\ 1 \in 1..n + 1 /\ i \in 1 - 1..n /\ i - 1 + 1 = i
       /\ i + 1 \in 1..n + 1 /\ i + j \in i + 1 - 1..n /\ i + j - (i + 1) + 1 = j
       /\ i + j + 1 \in 1..n + 1 /\ i + j + k \in i + j + 1 - 1..n
       /\ i + j + k - (i + j + 1) + 1 = k
       /\ i + j + k + 1 \in 1..n + 1 /\ n \in i + j + k + 1 - 1..n
       /\ n - (i + j + k + 1) + 1 = n - (i + j + k)
    OBVIOUS
  <2>2. t \in Nat /\ s \in Nat /\ t >= 1 /\ s >= 1
    BY <1>3, <1>6
  <2>. QED  BY <1>8, <2>1, <2>2
<1>12. T \in Seq(Byte) /\ Len(T) = t
  BY <1>2, <1>11, Segment
<1>13. L \in Seq(Byte) /\ Len(L) = s /\ \A i \in 1..s : L[i] = bytes[t + 1 + i - 1]
  BY <1>2, <1>11, Segment
<1>14. V \in Seq(Byte) /\ Len(V) = l
  BY <1>2, <1>11, Segment
<1>15. R \in Seq(Byte) /\ Len(R) = n - (t + s + l)
  BY <1>2, <1>11, Segment
<1>. DEFINE short == SubSeq(after, 1, s)
<1>16. short = L
  <2>1. \A m \in Nat : s \in 1..m => 1 \in 1..m + 1 /\ s \in 1 - 1..m /\ s - 1 + 1 = s
    BY <1>6
  <2>2. n - t \in Nat
    BY <1>3
  <2>3. 1 \in 1..Len(after) + 1 /\ s \in 1 - 1..Len(after) /\ s - 1 + 1 = s
    BY <1>4, <1>6, <2>1, <2>2
  <2>4. short \in Seq(Byte) /\ Len(short) = s /\ \A i \in 1..s : short[i] = after[1 + i - 1]
    BY <1>4, <2>3, Segment
  <2>5. \A i \in 1..s : i \in 1..n - t /\ 1 + i - 1 = i /\ t + 1 + i - 1 = t + i
    BY <1>3, <1>6
  <2>. HIDE DEF short, L
  <2>6. \A i \in 1..s : short[i] = L[i]
    BY <1>4, <1>13, <2>4, <2>5, ZenonT(30)
  <2>. QED  BY <1>13, <2>4, <2>6, SeqEqual
<1>17. Tlv!Ber(tag, value) = (T \o L) \o V
  <2>1. Len(value) = l
    BY <1>10, <1>14
  <2>2. Tlv!BerLength(l) = L
    BY <1>5, <1>6, <1>7, <1>16
  <2>. HIDE DEF tag, value, T, L, V
  <2>. QED  BY <1>10, <2>1, <2>2 DEF Tlv!Ber
<1>18. ((T \o L) \o V) \o R = bytes
  <2>1. \A m \in Nat : m <= n => 1 \in 1..n + 1 /\ m \in 1 - 1..n
    OBVIOUS
  <2>2. /\ t \in Nat /\ t + s \in Nat /\ t + s + l \in Nat
        /\ t <= n /\ t + s <= n /\ t + s + l <= n
        /\ t + s \in t..n /\ t + s + l \in t + s..n /\ n \in t + s + l..n
    BY <1>3, <1>6, <1>8
  <2>3. T \o L = SubSeq(bytes, 1, t + s)
    BY <1>2, <2>1, <2>2, ConcatAdjacentSubSeq
  <2>4. SubSeq(bytes, 1, t + s) \o V = SubSeq(bytes, 1, t + s + l)
    BY <1>2, <2>1, <2>2, ConcatAdjacentSubSeq
  <2>5. SubSeq(bytes, 1, t + s + l) \o R = SubSeq(bytes, 1, n)
    BY <1>2, <2>1, <2>2, ConcatAdjacentSubSeq
  <2>. HIDE DEF T, L, V, R
  <2>. QED  BY <1>2, <2>3, <2>4, <2>5, SubSeqFull
<1>19. l < n /\ n - (t + s + l) < n
  BY <1>3, <1>6, <1>8
<1>. HIDE DEF tag, value, rest, T, L, V, R
<1>20. item.tag = T /\ item.value = V /\ item.rest = R
  BY <1>1, <1>10
<1>21. bytes = Tlv!Ber(item.tag, item.value) \o item.rest
  BY <1>10, <1>17, <1>18, <1>20, Zenon
<1>. QED  BY <1>2, <1>12, <1>14, <1>15, <1>19, <1>20, <1>21, Zenon

-----------------------------------------------------------------------------
(* The parser is defined *)

\* What _parse_items makes of some bytes at some depth, given what it makes of
\* shorter ones
ParseStep(f, at) ==
  LET bytes == at[1]
      depth == at[2]
      item == Tlv!ReadItem(bytes)
      children == IF Tlv!Constructed(item.tag) THEN f[<<item.value, depth + 1>>] ELSE <<>>
      rest == f[<<item.rest, depth>>]
  IN  IF bytes = <<>> /\ depth <= MaxNesting THEN <<>>
      ELSE IF /\ depth <= MaxNesting /\ item # Rejected
              /\ children # Rejected /\ rest # Rejected
           THEN <<[tag |-> item.tag, value |-> item.value, children |-> children]>> \o rest
           ELSE Rejected

Inputs == Seq(Byte) \X Nat

\* The step uses a parser only for shorter bytes than its own.
LEMMA StepIsLocal ==
  ASSUME NEW at \in Inputs, NEW g, NEW h,
         \A p \in Inputs : Len(p[1]) < Len(at[1]) => g[p] = h[p]
  PROVE  ParseStep(g, at) = ParseStep(h, at)
<1>1. at[1] \in Seq(Byte) /\ at[2] \in Nat
  BY DEF Inputs
<1>. PICK bytes \in Seq(Byte) : bytes = at[1]
  BY <1>1
<1>. PICK depth \in Nat : depth = at[2]
  BY <1>1
<1>. DEFINE item == Tlv!ReadItem(bytes)
            children(f) == IF Tlv!Constructed(item.tag) THEN f[<<item.value, depth + 1>>] ELSE <<>>
            rest(f) == f[<<item.rest, depth>>]
            step(f) == IF bytes = <<>> /\ depth <= MaxNesting THEN <<>>
                       ELSE IF /\ depth <= MaxNesting /\ item # Rejected
                               /\ children(f) # Rejected /\ rest(f) # Rejected
                            THEN <<[tag |-> item.tag, value |-> item.value,
                                    children |-> children(f)]>> \o rest(f)
                            ELSE Rejected
<1>2. \A f : ParseStep(f, at) = step(f)
  BY Zenon DEF ParseStep
<1>3. CASE bytes = <<>> \/ item = Rejected
  BY <1>2, <1>3, Zenon
<1>4. CASE bytes # <<>> /\ item # Rejected
  <2>1. /\ item.value \in Seq(Byte) /\ item.rest \in Seq(Byte)
        /\ Len(item.value) < Len(bytes) /\ Len(item.rest) < Len(bytes)
    BY <1>4, FirstItem
  <2>. HIDE DEF item
  <2>2. depth + 1 \in Nat
    OBVIOUS
  <2>3. <<item.value, depth + 1>> \in Inputs /\ <<item.rest, depth>> \in Inputs
    BY <2>1, <2>2 DEF Inputs
  <2>4. g[<<item.value, depth + 1>>] = h[<<item.value, depth + 1>>]
    BY <2>1, <2>3
  <2>5. g[<<item.rest, depth>>] = h[<<item.rest, depth>>]
    BY <2>1, <2>3
  <2>6. children(g) = children(h) /\ rest(g) = rest(h)
    BY <2>4, <2>5, Zenon
  <2>. HIDE DEF children, rest
  <2>7. step(g) = step(h)
    BY <2>6, Zenon
  <2>. QED  BY <1>2, <2>7, Zenon
<1>. QED  BY <1>3, <1>4

\* A parser of all that is shorter than n bytes
Shorter(n) == {p \in Inputs : Len(p[1]) < n}
ParsesShorter(f, n) == f = [at \in Shorter(n) |-> ParseStep(f, at)]

\* What such a parser makes of its inputs
LEMMA ParserValue ==
  ASSUME NEW f, NEW n, ParsesShorter(f, n), NEW p \in Shorter(n)
  PROVE  f[p] = ParseStep(f, p)
BY DEF ParsesShorter

\* The length of an input is a natural.
LEMMA InputLength == \A p \in Inputs : Len(p[1]) \in Nat
BY DEF Inputs

\* Two such parsers agree where both are defined.
LEMMA ParsersAgree ==
  ASSUME NEW m \in Nat, NEW n \in Nat, NEW g, NEW h, ParsesShorter(g, m), ParsesShorter(h, n)
  PROVE  \A p \in Inputs : Len(p[1]) < m /\ Len(p[1]) < n => g[p] = h[p]
<1>. DEFINE Q == {k \in Nat : \A p \in Inputs :
                    Len(p[1]) < k /\ Len(p[1]) < m /\ Len(p[1]) < n => g[p] = h[p]}
<1>1. 0 \in Q
  BY InputLength
<1>2. ASSUME NEW k \in Q
      PROVE  k + 1 \in Q
  <2>. SUFFICES ASSUME NEW p \in Inputs, Len(p[1]) < k + 1, Len(p[1]) < m, Len(p[1]) < n
                PROVE  g[p] = h[p]
    OBVIOUS
  <2>1. \A q \in Inputs : Len(q[1]) < Len(p[1]) => g[q] = h[q]
    <3>1. ASSUME NEW q \in Inputs, Len(q[1]) < Len(p[1])
          PROVE  Len(q[1]) < k /\ Len(q[1]) < m /\ Len(q[1]) < n
      <4>1. \A a, b \in Nat : a < b /\ b < k + 1 /\ b < m /\ b < n => a < k /\ a < m /\ a < n
        OBVIOUS
      <4>. QED  BY <3>1, <4>1, InputLength
    <3>. QED  BY <3>1
  <2>2. ParseStep(g, p) = ParseStep(h, p)
    BY <2>1, StepIsLocal
  <2>3. g[p] = ParseStep(g, p) /\ h[p] = ParseStep(h, p)
    <3>1. p \in Shorter(m) /\ p \in Shorter(n)
      BY DEF Shorter
    <3>. QED  BY <3>1, ParserValue
  <2>. QED  BY <2>2, <2>3
<1>3. Q = Nat
  <2>. HIDE DEF Q
  <2>1. Q \in SUBSET Nat
    BY DEF Q
  <2>. QED  BY <1>1, <1>2, <2>1, AllNaturals
<1>4. \A p \in Inputs : Len(p[1]) < m /\ Len(p[1]) < n => g[p] = h[p]
  <2>1. m \in Q
    BY <1>3
  <2>. QED  BY <2>1
<1>. QED  BY <1>4

\* There are such parsers, however long the bytes.
LEMMA ParsersExist == \A n \in Nat : \E f : ParsesShorter(f, n)
<1>. DEFINE Q == {n \in Nat : \E f : ParsesShorter(f, n)}
<1>1. 0 \in Q
  <2>1. Shorter(0) = {}
    BY InputLength DEF Shorter
  <2>2. PICK f : f = [at \in {} |-> 0]
    OBVIOUS
  <2>3. f = [at \in {} |-> ParseStep(f, at)]
    BY <2>2
  <2>. QED  BY <2>1, <2>3 DEF ParsesShorter
<1>2. ASSUME NEW n \in Q
      PROVE  n + 1 \in Q
  <2>1. PICK g : ParsesShorter(g, n)
    OBVIOUS
  <2>2. PICK h : h = [at \in Shorter(n + 1) |-> ParseStep(g, at)]
    OBVIOUS
  <2>3. \A p \in Shorter(n) : h[p] = g[p]
    <3>1. \A p \in Shorter(n) : p \in Shorter(n + 1)
      BY InputLength DEF Shorter
    <3>2. \A p \in Shorter(n) : g[p] = ParseStep(g, p)
      BY <2>1, ParserValue
    <3>. QED  BY <2>2, <3>1, <3>2
  <2>4. \A at \in Shorter(n + 1) : ParseStep(g, at) = ParseStep(h, at)
    <3>. TAKE at \in Shorter(n + 1)
    <3>1. at \in Inputs /\ Len(at[1]) < n + 1
      BY DEF Shorter
    <3>2. \A p \in Inputs : Len(p[1]) < Len(at[1]) => p \in Shorter(n)
      <4>1. \A a, b \in Nat : a < b /\ b < n + 1 => a < n
        OBVIOUS
      <4>. QED  BY <3>1, <4>1, InputLength DEF Shorter
    <3>3. \A p \in Inputs : Len(p[1]) < Len(at[1]) => g[p] = h[p]
      BY <2>3, <3>2
    <3>. QED  BY <3>1, <3>3, StepIsLocal
  <2>5. h = [at \in Shorter(n + 1) |-> ParseStep(h, at)]
    BY <2>2, <2>4
  <2>6. n + 1 \in Nat
    OBVIOUS
  <2>. QED  BY <2>5, <2>6 DEF ParsesShorter
<1>3. Q = Nat
  <2>. HIDE DEF Q
  <2>1. Q \in SUBSET Nat
    BY DEF Q
  <2>. QED  BY <1>1, <1>2, <2>1, AllNaturals
<1>. QED  BY <1>3

\* ParseItems is what its definition says.
LEMMA ParserDefined ==
  \A at \in Inputs : Tlv!ParseItems[at] = ParseStep(Tlv!ParseItems, at)
<1>. DEFINE parser(n) == CHOOSE f : ParsesShorter(f, n)
            eq(f) == [at \in Inputs |-> ParseStep(f, at)]
<1>1. \A n \in Nat : ParsesShorter(parser(n), n)
  BY ParsersExist, Zenon
<1>. HIDE DEF parser
<1>2. PICK f : f = [at \in Inputs |-> parser(Len(at[1]) + 1)[at]]
  OBVIOUS
<1>3. ASSUME NEW at \in Inputs
      PROVE  f[at] = ParseStep(f, at)
  <2>. PICK n \in Nat : n = Len(at[1]) + 1
    BY InputLength
  <2>1. \A p \in Inputs : Len(p[1]) < Len(at[1]) => parser(n)[p] = f[p]
    <3>. SUFFICES ASSUME NEW p \in Inputs, Len(p[1]) < Len(at[1])
                  PROVE  parser(n)[p] = f[p]
      OBVIOUS
    <3>. PICK m \in Nat : m = Len(p[1]) + 1
      BY InputLength
    <3>1. Len(p[1]) < m /\ Len(p[1]) < n
      BY InputLength
    <3>2. ParsesShorter(parser(m), m) /\ ParsesShorter(parser(n), n)
      BY <1>1
    <3>3. parser(n)[p] = parser(m)[p]
      BY <3>1, <3>2, ParsersAgree
    <3>. QED  BY <1>2, <3>3
  <2>2. ParseStep(parser(n), at) = ParseStep(f, at)
    BY <2>1, StepIsLocal
  <2>3. at \in Shorter(n)
    BY InputLength DEF Shorter
  <2>4. parser(n)[at] = ParseStep(parser(n), at)
    BY <1>1, <2>3, ParserValue
  <2>. QED  BY <1>2, <2>2, <2>4
<1>4. f = eq(f)
  BY <1>2, <1>3
<1>5. Tlv!ParseItems = CHOOSE h : h = eq(h)
  BY Zenon DEF Tlv!ParseItems, ParseStep, Inputs, Byte
<1>. HIDE DEF eq
<1>6. Tlv!ParseItems = eq(Tlv!ParseItems)
  BY <1>4, <1>5, Zenon
<1>. QED  BY <1>6 DEF eq

-----------------------------------------------------------------------------
(* The encoding of items *)

\* The items that the parser can make
Item ==
  [tag : Seq(Byte), value : Seq(Byte),
   children : {<<>>} \union {Tlv!ParseItems[at] : at \in Inputs}]

ItemBytes(item) == Tlv!Ber(item.tag, item.value)

\* Sequences of naturals under concatenation
LEMMA Concatenations ==
  /\ \A s, t \in Seq(Nat) : s \o t \in Seq(Nat)
  /\ \A s, t, u \in Seq(Nat) : (s \o t) \o u = s \o (t \o u)
  /\ \A s \in Seq(Nat) : <<>> \o s = s /\ s \o <<>> = s
  /\ <<>> \in Seq(Nat)
  /\ \A s \in Seq(Byte) : s \in Seq(Nat)
<1>1. \A s, t \in Seq(Nat) : s \o t \in Seq(Nat)
  BY ConcatProperties
<1>2. \A s, t, u \in Seq(Nat) : (s \o t) \o u = s \o (t \o u)
  BY ConcatAssociative, SMTT(30)
<1>3. \A s \in Seq(Nat) : <<>> \o s = s /\ s \o <<>> = s
  BY ConcatEmptySeq
<1>4. <<>> \in Seq(Nat)
  OBVIOUS
<1>5. \A s \in Seq(Byte) : s \in Seq(Nat)
  <2>. TAKE s \in Seq(Byte)
  <2>1. Len(s) \in Nat /\ s = [i \in 1..Len(s) |-> s[i]] /\ \A i \in 1..Len(s) : s[i] \in Nat
    BY ByteAt, ByteValue
  <2>. QED  BY <2>1
<1>. QED  BY <1>1, <1>2, <1>3, <1>4, <1>5

\* An item is encoded as naturals.
LEMMA ItemBytesType == \A item \in Item : ItemBytes(item) \in Seq(Nat)
<1>. TAKE item \in Item
<1>1. item.tag \in Seq(Nat) /\ item.value \in Seq(Nat) /\ Len(item.value) \in Nat
  BY Concatenations DEF Item
<1>2. \A n \in Nat : Tlv!BerLength(n) \in Seq(Nat)
  <2>. TAKE n \in Nat
  <2>1. Low(n) \in Nat /\ Upper(n) \in Nat /\ Low(Upper(n)) \in Nat /\ Upper(Upper(n)) \in Nat
    BY DEF Low, Upper
  <2>2. n < 128 \/ n >= 128
    OBVIOUS
  <2>3. 129 \in Nat /\ 130 \in Nat /\ 131 \in Nat
    OBVIOUS
  <2>4. \A a, b, c, d \in Nat :
          /\ <<a>> \in Seq(Nat) /\ <<a, b>> \in Seq(Nat) /\ <<a, b, c>> \in Seq(Nat)
          /\ <<a, b, c, d>> \in Seq(Nat)
    OBVIOUS
  <2>5. \/ Tlv!BerLength(n) = <<n>> \/ Tlv!BerLength(n) = <<129, Low(n)>>
        \/ Tlv!BerLength(n) = <<130, Low(Upper(n)), Low(n)>>
        \/ Tlv!BerLength(n) = <<131, Upper(Upper(n)), Low(Upper(n)), Low(n)>>
    BY <2>2, BerLengths
  <2>6. <<n>> \in Seq(Nat) /\ <<129, Low(n)>> \in Seq(Nat)
    BY <2>1, <2>3, <2>4, ZenonT(30)
  <2>7. <<130, Low(Upper(n)), Low(n)>> \in Seq(Nat)
    BY <2>1, <2>3, <2>4, Zenon
  <2>8. <<131, Upper(Upper(n)), Low(Upper(n)), Low(n)>> \in Seq(Nat)
    BY <2>1, <2>3, <2>4, Zenon
  <2>. QED  BY <2>5, <2>6, <2>7, <2>8, Zenon
<1>. QED  BY <1>1, <1>2, Concatenations DEF ItemBytes, Tlv!Ber

\* BerItems as a fold over the positions
ItemStep(items) == [p \in (DOMAIN items) \X Seq(Nat) |-> p[2] \o ItemBytes(items[p[1]])]

\* The positions of items, and the item at each
LEMMA PositionsOfItems ==
  ASSUME NEW items \in Seq(Item)
  PROVE  /\ DOMAIN items = 1..Len(items) /\ Len(items) \in Nat /\ Numbers(DOMAIN items)
         /\ \A i \in DOMAIN items : items[i] \in Item
<1>1. DOMAIN items = 1..Len(items) /\ Len(items) \in Nat
  BY LenProperties
<1>2. \A i \in DOMAIN items : items[i] \in Item
  BY ElementOfSeq, <1>1
<1>. QED  BY <1>1, <1>2, NumbersOfSegment, Zenon

\* That fold has the value of BerItems.
LEMMA BerItemsIsFold ==
  ASSUME NEW items \in Seq(Item)
  PROVE  \E g : IsFold(g, DOMAIN items, Seq(Nat), <<>>, ItemStep(items))
                  /\ Tlv!BerItems(items) = g[DOMAIN items]
<1>. DEFINE D == DOMAIN items
            eq(h) == [s \in SUBSET D |->
                        IF s = {} THEN <<>>
                        ELSE h[s \ {Tlv!Max(s)}]
                                \o Tlv!Ber(items[Tlv!Max(s)].tag, items[Tlv!Max(s)].value)]
            iter == CHOOSE h : h = eq(h)
<1>1. Numbers(D)
  BY PositionsOfItems
<1>2. \A n \in D : ItemBytes(items[n]) \in Seq(Nat)
  BY PositionsOfItems, ItemBytesType
<1>3. /\ ItemStep(items) \in [D \X Seq(Nat) -> Seq(Nat)]
      /\ \A n \in D, v \in Seq(Nat) : ItemStep(items)[<<n, v>>] = v \o ItemBytes(items[n])
  BY <1>2, Concatenations DEF ItemStep
<1>. HIDE DEF D
<1>4. PICK g : IsFold(g, D, Seq(Nat), <<>>, ItemStep(items))
  BY <1>1, <1>3, Concatenations, FoldExists
<1>5. \A s \in SUBSET D : s # {} => Max(s) \in D /\ Tlv!Max(s) = Max(s)
  <2>1. \A s : Tlv!Max(s) = Max(s)
    BY Zenon DEF Tlv!Max, Max
  <2>. QED  BY <1>1, <2>1, Greatest, FewerNumbers
<1>6. g = eq(g)
  <2>1. g \in [SUBSET D -> Seq(Nat)]
    BY <1>4 DEF IsFold
  <2>2. \A s \in SUBSET D : s = {} => g[s] = <<>>
    BY <1>4 DEF IsFold
  <2>3. \A s \in SUBSET D : s # {} => g[s] = g[s \ {Tlv!Max(s)}] \o ItemBytes(items[Tlv!Max(s)])
    <3>. SUFFICES ASSUME NEW s \in SUBSET D, s # {}
                  PROVE  g[s] = g[s \ {Tlv!Max(s)}] \o ItemBytes(items[Tlv!Max(s)])
      OBVIOUS
    <3>1. PICK n \in D : n = Max(s) /\ n = Tlv!Max(s)
      BY <1>5
    <3>2. g[s] = ItemStep(items)[<<n, g[s \ {n}]>>]
      BY <1>4, <3>1 DEF IsFold
    <3>3. g[s \ {n}] \in Seq(Nat)
      BY <2>1
    <3>. QED  BY <1>3, <3>1, <3>2, <3>3
  <2>. QED  BY <2>1, <2>2, <2>3 DEF ItemBytes
<1>7. iter = eq(iter)
  <2>. HIDE DEF eq
  <2>. QED  BY <1>6, Zenon
<1>8. Tlv!BerItems(items) = iter[D]
  BY Zenon DEF Tlv!BerItems, Tlv!FoldLeft, Tlv!MapThenFoldSet, D
<1>9. Unfolds(iter, D, Seq(Nat), <<>>, ItemStep(items))
  <2>. HIDE DEF iter
  <2>1. \A s \in SUBSET D :
          iter[s] = IF s = {} THEN <<>> ELSE iter[s \ {Max(s)}] \o ItemBytes(items[Max(s)])
    BY <1>5, <1>7 DEF ItemBytes
  <2>2. \A s \in SUBSET D :
          s # {} /\ iter[s \ {Max(s)}] \in Seq(Nat) =>
            ItemStep(items)[<<Max(s), iter[s \ {Max(s)}]>>]
              = iter[s \ {Max(s)}] \o ItemBytes(items[Max(s)])
    BY <1>3, <1>5
  <2>. QED  BY <2>1, <2>2 DEF Unfolds
<1>. HIDE DEF iter, eq
<1>10. iter[D] = g[D]
  BY <1>1, <1>4, <1>9, FoldUnique
<1>. QED  BY <1>4, <1>8, <1>10 DEF D

\* The bytes of the items before any position
LEMMA BerItemsSoFar ==
  ASSUME NEW items \in Seq(Item)
  PROVE  \E b \in [Nat -> Seq(Nat)] :
           /\ b[0] = <<>> /\ b[Len(items)] = Tlv!BerItems(items)
           /\ \A n \in Nat : n + 1 \in DOMAIN items => b[n + 1] = b[n] \o ItemBytes(items[n + 1])
<1>. DEFINE D == DOMAIN items
<1>1. PICK g : IsFold(g, D, Seq(Nat), <<>>, ItemStep(items)) /\ Tlv!BerItems(items) = g[D]
  BY BerItemsIsFold
<1>2. D = 1..Len(items) /\ Len(items) \in Nat /\ Numbers(D) /\ \A i \in D : items[i] \in Item
  BY PositionsOfItems
<1>3. \A n \in D, v \in Seq(Nat) : ItemStep(items)[<<n, v>>] = v \o ItemBytes(items[n])
  BY DEF ItemStep
<1>. HIDE DEF D
<1>4. \A n \in Nat : g[UpTo(D, n)] \in Seq(Nat)
  BY <1>1 DEF IsFold, UpTo
<1>5. \A n \in Nat : n + 1 \in D => g[UpTo(D, n + 1)] = g[UpTo(D, n)] \o ItemBytes(items[n + 1])
  <2>. SUFFICES ASSUME NEW n \in Nat, n + 1 \in D
                PROVE  g[UpTo(D, n + 1)] = g[UpTo(D, n)] \o ItemBytes(items[n + 1])
    OBVIOUS
  <2>1. g[UpTo(D, n + 1)] = ItemStep(items)[<<n + 1, g[UpTo(D, n)]>>]
    BY <1>1, <1>2, FoldUpTo
  <2>. QED  BY <1>3, <1>4, <2>1
<1>6. g[UpTo(D, 0)] = <<>>
  <2>1. UpTo(D, 0) = {}
    BY <1>2 DEF UpTo
  <2>. QED  BY <1>1, <2>1 DEF IsFold
<1>7. UpTo(D, Len(items)) = D
  BY <1>2 DEF UpTo
<1>8. PICK b : b = [n \in Nat |-> g[UpTo(D, n)]]
  OBVIOUS
<1>9. b \in [Nat -> Seq(Nat)] /\ \A n \in Nat : b[n] = g[UpTo(D, n)]
  BY <1>4, <1>8
<1>10. \A n \in Nat : n + 1 \in Nat
  OBVIOUS
<1>. QED  BY <1>1, <1>2, <1>5, <1>6, <1>7, <1>9, <1>10, Zenon DEF D

\* The bytes of the first item come first.
LEMMA FirstOfItems ==
  ASSUME NEW item \in Item, NEW rest \in Seq(Item)
  PROVE  /\ <<item>> \o rest \in Seq(Item)
         /\ Tlv!BerItems(<<item>> \o rest) = ItemBytes(item) \o Tlv!BerItems(rest)
<1>1. PICK items : items = <<item>> \o rest
  OBVIOUS
<1>2. /\ items \in Seq(Item) /\ Len(items) = Len(rest) + 1 /\ Len(rest) \in Nat
      /\ items[1] = item /\ \A n \in 1..Len(rest) : items[n + 1] = rest[n]
  BY <1>1
<1>3. PICK b \in [Nat -> Seq(Nat)] :
        /\ b[0] = <<>> /\ b[Len(items)] = Tlv!BerItems(items)
        /\ \A n \in Nat : n + 1 \in DOMAIN items => b[n + 1] = b[n] \o ItemBytes(items[n + 1])
  BY <1>2, BerItemsSoFar
<1>4. PICK c \in [Nat -> Seq(Nat)] :
        /\ c[0] = <<>> /\ c[Len(rest)] = Tlv!BerItems(rest)
        /\ \A n \in Nat : n + 1 \in DOMAIN rest => c[n + 1] = c[n] \o ItemBytes(rest[n + 1])
  BY BerItemsSoFar
<1>5. DOMAIN items = 1..Len(rest) + 1 /\ DOMAIN rest = 1..Len(rest)
  BY <1>2, PositionsOfItems
<1>6. ItemBytes(item) \in Seq(Nat) /\ \A n \in 1..Len(rest) : ItemBytes(rest[n]) \in Seq(Nat)
  BY <1>5, PositionsOfItems, ItemBytesType
<1>. DEFINE done(n) == b[n + 1] = ItemBytes(item) \o c[n]
            Q == {n \in Nat : n <= Len(rest) => done(n)}
<1>7. 0 \in Q
  <2>1. b[1] = ItemBytes(item)
    <3>1. 0 + 1 = 1 /\ 0 \in Nat /\ 1 \in 1..Len(rest) + 1
      BY <1>2
    <3>2. b[1] = b[0] \o ItemBytes(items[1])
      BY <1>3, <1>5, <3>1
    <3>. QED  BY <1>2, <1>3, <1>6, <3>2, Concatenations
  <2>2. ItemBytes(item) \o c[0] = ItemBytes(item)
    BY <1>4, <1>6, Concatenations
  <2>3. done(0)
    <3>1. 0 + 1 = 1
      OBVIOUS
    <3>. QED  BY <2>1, <2>2, <3>1, Zenon
  <2>. HIDE DEF done
  <2>. QED  BY <2>3
<1>8. ASSUME NEW n \in Q
      PROVE  n + 1 \in Q
  <2>0. n \in Nat /\ n + 1 \in Nat
    OBVIOUS
  <2>. SUFFICES ASSUME n + 1 <= Len(rest)
                PROVE  done(n + 1)
    BY <2>0, Zenon
  <2>1. done(n)
    <3>1. n <= Len(rest)
      BY <1>2, <2>0
    <3>. QED  BY <3>1, Zenon
  <2>2. n + 1 \in 1..Len(rest) /\ n + 1 + 1 \in 1..Len(rest) + 1
    BY <1>2
  <2>3. b[n + 1 + 1] = b[n + 1] \o ItemBytes(items[n + 1 + 1])
    BY <1>3, <1>5, <2>0, <2>2, Zenon
  <2>4. items[n + 1 + 1] = rest[n + 1]
    BY <1>2, <2>2, Zenon
  <2>5. c[n + 1] = c[n] \o ItemBytes(rest[n + 1])
    BY <1>4, <1>5, <2>0, <2>2, Zenon
  <2>6. c[n] \in Seq(Nat) /\ ItemBytes(rest[n + 1]) \in Seq(Nat)
    BY <1>6, <2>0, <2>2
  <2>. HIDE DEF Q
  <2>7. (ItemBytes(item) \o c[n]) \o ItemBytes(rest[n + 1])
          = ItemBytes(item) \o (c[n] \o ItemBytes(rest[n + 1]))
    <3>1. \A s, t, u \in Seq(Nat) : (s \o t) \o u = s \o (t \o u)
      BY Concatenations, Zenon
    <3>. HIDE DEF done
    <3>. QED  BY <1>6, <2>6, <3>1, Zenon
  <2>. QED  BY <2>1, <2>3, <2>4, <2>5, <2>7, Zenon
<1>9. Q = Nat
  <2>. HIDE DEF Q
  <2>1. Q \in SUBSET Nat
    BY DEF Q
  <2>. QED  BY <1>7, <1>8, <2>1, AllNaturals
<1>10. b[Len(rest) + 1] = ItemBytes(item) \o c[Len(rest)]
  <2>1. Len(rest) \in Q
    BY <1>2, <1>9, Zenon
  <2>2. Len(rest) <= Len(rest)
    <3>. HIDE DEF Q
    <3>. QED  BY <1>2
  <2>. QED  BY <2>1, <2>2, Zenon
<1>. QED  BY <1>1, <1>2, <1>3, <1>4, <1>10, Zenon

-----------------------------------------------------------------------------
(* What the parser gives *)

\* The items of some bytes encode to those bytes; they are within the limit of
\* nesting; and the children of a constructed item are the items of its value.
Read(at) ==
  LET items == Tlv!ParseItems[at]
  IN  /\ at[2] <= MaxNesting /\ items \in Seq(Item)
      /\ Tlv!BerItems(items) = at[1]
      /\ \A i \in DOMAIN items : Tlv!Constructed(items[i].tag) =>
           /\ <<items[i].value, at[2] + 1>> \in Inputs
           /\ items[i].children = Tlv!ParseItems[<<items[i].value, at[2] + 1>>]
           /\ items[i].children # Rejected

\* No items have no bytes.
LEMMA NoItems == <<>> \in Seq(Item) /\ Tlv!BerItems(<<>>) = <<>>
<1>1. <<>> \in Seq(Item) /\ Len(<<>>) = 0
  OBVIOUS
<1>2. PICK b \in [Nat -> Seq(Nat)] : b[0] = <<>> /\ b[Len(<<>>)] = Tlv!BerItems(<<>>)
  BY <1>1, BerItemsSoFar
<1>. QED  BY <1>1, <1>2

\* That holds of an input if it does of all that are shorter.
LEMMA OneItemRead ==
  ASSUME NEW at \in Inputs, Tlv!ParseItems[at] # Rejected,
         \A p \in Inputs : Len(p[1]) < Len(at[1]) /\ Tlv!ParseItems[p] # Rejected => Read(p)
  PROVE  Read(at)
<1>. PICK bytes \in Seq(Byte) : bytes = at[1]
  BY DEF Inputs
<1>. PICK depth \in Nat : depth = at[2]
  BY DEF Inputs
<1>. DEFINE read == Tlv!ReadItem(bytes)
            inner == <<read.value, depth + 1>>
            after == <<read.rest, depth>>
            children == IF Tlv!Constructed(read.tag) THEN Tlv!ParseItems[inner] ELSE <<>>
            rest == Tlv!ParseItems[after]
            item == [tag |-> read.tag, value |-> read.value, children |-> children]
            items == Tlv!ParseItems[at]
<1>1. items = IF bytes = <<>> /\ depth <= MaxNesting THEN <<>>
              ELSE IF /\ depth <= MaxNesting /\ read # Rejected
                      /\ children # Rejected /\ rest # Rejected
                   THEN <<item>> \o rest
                   ELSE Rejected
  BY ParserDefined, Zenon DEF ParseStep
<1>2. CASE bytes = <<>> /\ depth <= MaxNesting
  <2>1. items = <<>>
    BY <1>1, <1>2, Zenon
  <2>. HIDE DEF items
  <2>2. DOMAIN items = {}
    BY <2>1
  <2>. QED  BY <1>2, <2>1, <2>2, NoItems, Zenon DEF Read, items
<1>3. CASE ~(bytes = <<>> /\ depth <= MaxNesting)
  <2>1. /\ depth <= MaxNesting /\ read # Rejected
        /\ children # Rejected /\ rest # Rejected /\ items = <<item>> \o rest
    BY <1>1, <1>3, Zenon
  <2>2. bytes # <<>>
    BY <1>3, <2>1, Zenon
  <2>3. /\ read.tag \in Seq(Byte) /\ read.value \in Seq(Byte) /\ read.rest \in Seq(Byte)
        /\ Len(read.value) < Len(bytes) /\ Len(read.rest) < Len(bytes)
        /\ bytes = Tlv!Ber(read.tag, read.value) \o read.rest
    BY <2>1, <2>2, FirstItem
  <2>. HIDE DEF read
  <2>4. inner \in Inputs /\ after \in Inputs /\ after[1] = read.rest /\ after[2] = depth
    BY <2>3 DEF Inputs
  <2>. HIDE DEF inner, after
  <2>5. children \in {<<>>} \union {Tlv!ParseItems[p] : p \in Inputs}
    BY <2>4
  <2>. HIDE DEF children
  <2>6. item \in Item /\ ItemBytes(item) = Tlv!Ber(read.tag, read.value)
    BY <2>3, <2>5, Zenon DEF Item, ItemBytes
  <2>7. Read(after)
    BY <2>1, <2>3, <2>4
  <2>8. /\ rest \in Seq(Item) /\ Tlv!BerItems(rest) = read.rest
        /\ \A i \in DOMAIN rest : Tlv!Constructed(rest[i].tag) =>
             /\ <<rest[i].value, depth + 1>> \in Inputs
             /\ rest[i].children = Tlv!ParseItems[<<rest[i].value, depth + 1>>]
             /\ rest[i].children # Rejected
    BY <2>4, <2>7, Zenon DEF Read
  <2>. HIDE DEF rest, item, items
  <2>9. items \in Seq(Item) /\ Tlv!BerItems(items) = bytes
    BY <2>1, <2>3, <2>6, <2>8, FirstOfItems, Zenon
  <2>10. Tlv!Constructed(item.tag) =>
           /\ <<item.value, depth + 1>> \in Inputs
           /\ item.children = Tlv!ParseItems[<<item.value, depth + 1>>]
           /\ item.children # Rejected
    <3>1. item.tag = read.tag /\ item.value = read.value /\ item.children = children
      BY DEF item
    <3>2. Tlv!Constructed(read.tag) => children = Tlv!ParseItems[inner]
      BY DEF children
    <3>3. inner = <<read.value, depth + 1>>
      BY DEF inner
    <3>. QED  BY <2>1, <2>4, <3>1, <3>2, <3>3, Zenon
  <2>11. \A i \in DOMAIN items : items[i] = item \/ \E j \in DOMAIN rest : items[i] = rest[j]
    <3>1. /\ DOMAIN items = 1..Len(rest) + 1 /\ Len(rest) \in Nat /\ DOMAIN rest = 1..Len(rest)
          /\ items[1] = item /\ \A j \in 1..Len(rest) : items[j + 1] = rest[j]
      BY <2>1, <2>6, <2>8
    <3>2. \A n \in Nat : \A i \in 1..n + 1 : i = 1 \/ (i - 1 \in 1..n /\ i = i - 1 + 1)
      OBVIOUS
    <3>3. \A i \in 1..Len(rest) + 1 : i = 1 \/ \E j \in 1..Len(rest) : i = j + 1
      BY <3>1, <3>2
    <3>. TAKE i \in DOMAIN items
    <3>4. CASE i = 1
      BY <3>1, <3>4
    <3>5. CASE \E j \in 1..Len(rest) : i = j + 1
      <4>1. PICK j \in 1..Len(rest) : i = j + 1
        BY <3>5
      <4>2. items[i] = rest[j]
        BY <3>1, <4>1, Zenon
      <4>. QED  BY <3>1, <4>2, Zenon
    <3>. QED  BY <3>1, <3>3, <3>4, <3>5, Zenon
  <2>12. \A i \in DOMAIN items : Tlv!Constructed(items[i].tag) =>
           /\ <<items[i].value, depth + 1>> \in Inputs
           /\ items[i].children = Tlv!ParseItems[<<items[i].value, depth + 1>>]
           /\ items[i].children # Rejected
    <3>. SUFFICES ASSUME NEW i \in DOMAIN items
                  PROVE  Tlv!Constructed(items[i].tag) =>
                           /\ <<items[i].value, depth + 1>> \in Inputs
                           /\ items[i].children = Tlv!ParseItems[<<items[i].value, depth + 1>>]
                           /\ items[i].children # Rejected
      OBVIOUS
    <3>1. CASE items[i] = item
      BY <2>10, <3>1, Zenon
    <3>2. CASE \E j \in DOMAIN rest : items[i] = rest[j]
      BY <2>8, <3>2, Zenon
    <3>. QED  BY <2>11, <3>1, <3>2, Zenon
  <2>. QED  BY <2>1, <2>9, <2>12, Zenon DEF Read, items
<1>. QED  BY <1>2, <1>3, Zenon

\* It holds of all inputs the parser accepts.
LEMMA EveryItemRead ==
  \A at \in Inputs : Tlv!ParseItems[at] # Rejected => Read(at)
<1>. DEFINE good(at) == Tlv!ParseItems[at] # Rejected => Read(at)
            Q == {n \in Nat : \A at \in Inputs : Len(at[1]) < n => good(at)}
<1>1. 0 \in Q
  BY InputLength
<1>2. ASSUME NEW n \in Q
      PROVE  n + 1 \in Q
  <2>1. n \in Nat /\ n + 1 \in Nat
    OBVIOUS
  <2>2. ASSUME NEW at \in Inputs, Len(at[1]) < n + 1
        PROVE  good(at)
    <3>1. \A p \in Inputs : Len(p[1]) < Len(at[1]) => Len(p[1]) < n
      <4>1. \A a, b \in Nat : a < b /\ b < n + 1 => a < n
        BY <2>1
      <4>. QED  BY <2>2, <4>1, InputLength
    <3>2. \A p \in Inputs : Len(p[1]) < Len(at[1]) => good(p)
      BY <3>1, Zenon
    <3>. QED  BY <3>2, OneItemRead, Zenon
  <2>. HIDE DEF good
  <2>. QED  BY <2>1, <2>2
<1>3. Q = Nat
  <2>. HIDE DEF Q
  <2>1. Q \in SUBSET Nat
    BY DEF Q
  <2>. QED  BY <1>1, <1>2, <2>1, AllNaturals
<1>4. ASSUME NEW at \in Inputs
      PROVE  good(at)
  <2>1. PICK n \in Nat : n = Len(at[1]) + 1
    BY InputLength
  <2>2. Len(at[1]) < n
    BY <2>1, InputLength
  <2>3. n \in Q
    BY <1>3
  <2>. QED  BY <2>2, <2>3, Zenon
<1>. QED  BY <1>4, Zenon

-----------------------------------------------------------------------------
(* The levels of nesting *)

NestedIn(nodes) == UNION {Tlv!Nested(node) : node \in nodes}
LevelStep(root, f, d) == IF d = 0 THEN {root} ELSE NestedIn(f[d - 1])

\* The levels that are less than n deep
Below(n) == {d \in Nat : d < n}
LevelsBelow(root, f, n) == f = [d \in Below(n) |-> LevelStep(root, f, d)]

\* Two such level functions agree where both are defined.
LEMMA LevelsAgree ==
  ASSUME NEW root, NEW m \in Nat, NEW n \in Nat, NEW g, NEW h,
         LevelsBelow(root, g, m), LevelsBelow(root, h, n)
  PROVE  \A d \in Below(m) \intersect Below(n) : g[d] = h[d]
<1>. DEFINE Q == {d \in Nat : d < m /\ d < n => g[d] = h[d]}
<1>1. \A d \in Below(m) : g[d] = LevelStep(root, g, d)
  BY DEF LevelsBelow
<1>2. \A d \in Below(n) : h[d] = LevelStep(root, h, d)
  BY DEF LevelsBelow
<1>3. 0 \in Q
  BY <1>1, <1>2 DEF Below, LevelStep
<1>4. ASSUME NEW d \in Q
      PROVE  d + 1 \in Q
  <2>1. d \in Nat /\ d + 1 \in Nat /\ d + 1 # 0 /\ d + 1 - 1 = d
    OBVIOUS
  <2>2. ASSUME d + 1 < m, d + 1 < n
        PROVE  g[d + 1] = h[d + 1]
    <3>1. d < m /\ d < n /\ d + 1 \in Below(m) /\ d + 1 \in Below(n)
      BY <2>1, <2>2 DEF Below
    <3>2. g[d] = h[d]
      BY <3>1, Zenon
    <3>3. g[d + 1] = LevelStep(root, g, d + 1) /\ h[d + 1] = LevelStep(root, h, d + 1)
      BY <1>1, <1>2, <3>1, Zenon
    <3>4. /\ LevelStep(root, g, d + 1) = NestedIn(g[d])
          /\ LevelStep(root, h, d + 1) = NestedIn(h[d])
      BY <2>1 DEF LevelStep
    <3>. QED  BY <3>2, <3>3, <3>4, Zenon
  <2>. QED  BY <2>1, <2>2, Zenon
<1>5. Q = Nat
  <2>. HIDE DEF Q
  <2>1. Q \in SUBSET Nat
    BY DEF Q
  <2>. QED  BY <1>3, <1>4, <2>1, AllNaturals
<1>. QED  BY <1>5, Zenon DEF Below

\* There are such level functions, however deep.
LEMMA LevelsExist == \A root : \A n \in Nat : \E f : LevelsBelow(root, f, n)
<1>. TAKE root
<1>. DEFINE Q == {n \in Nat : \E f : LevelsBelow(root, f, n)}
<1>1. 0 \in Q
  <2>1. Below(0) = {}
    BY DEF Below
  <2>2. PICK f : f = [d \in {} |-> 0]
    OBVIOUS
  <2>3. f = [d \in {} |-> LevelStep(root, f, d)]
    BY <2>2
  <2>. QED  BY <2>1, <2>3 DEF LevelsBelow
<1>2. ASSUME NEW n \in Q
      PROVE  n + 1 \in Q
  <2>1. PICK g : LevelsBelow(root, g, n)
    OBVIOUS
  <2>2. PICK h : h = [d \in Below(n + 1) |-> LevelStep(root, g, d)]
    OBVIOUS
  <2>3. \A d \in Below(n) : h[d] = g[d]
    <3>1. \A d \in Below(n) : d \in Below(n + 1)
      BY DEF Below
    <3>2. \A d \in Below(n) : g[d] = LevelStep(root, g, d)
      BY <2>1 DEF LevelsBelow
    <3>. QED  BY <2>2, <3>1, <3>2
  <2>4. \A d \in Below(n + 1) : LevelStep(root, g, d) = LevelStep(root, h, d)
    <3>. TAKE d \in Below(n + 1)
    <3>1. CASE d = 0
      BY <3>1 DEF LevelStep
    <3>2. CASE d # 0
      <4>1. d - 1 \in Below(n)
        BY <3>2 DEF Below
      <4>2. g[d - 1] = h[d - 1]
        BY <2>3, <4>1
      <4>. QED  BY <4>2, Zenon DEF LevelStep
    <3>. QED  BY <3>1, <3>2
  <2>5. h = [d \in Below(n + 1) |-> LevelStep(root, h, d)]
    BY <2>2, <2>4
  <2>6. n + 1 \in Nat
    OBVIOUS
  <2>. QED  BY <2>5, <2>6 DEF LevelsBelow
<1>3. Q = Nat
  <2>. HIDE DEF Q
  <2>1. Q \in SUBSET Nat
    BY DEF Q
  <2>. QED  BY <1>1, <1>2, <2>1, AllNaturals
<1>. QED  BY <1>3

\* Level is what its definition says.
LEMMA LevelDefined ==
  ASSUME NEW bytes, NEW items, NEW root, root = [value |-> bytes, items |-> items]
  PROVE  \A d \in Nat : Tlv!Level(bytes, items)[d] = LevelStep(root, Tlv!Level(bytes, items), d)
<1>. DEFINE levels(n) == CHOOSE f : LevelsBelow(root, f, n)
            eq(f) == [d \in Nat |-> LevelStep(root, f, d)]
            iter == CHOOSE f : f = eq(f)
<1>1. \A n \in Nat : LevelsBelow(root, levels(n), n)
  BY LevelsExist, Zenon
<1>. HIDE DEF levels
<1>2. PICK f : f = [d \in Nat |-> levels(d + 1)[d]]
  OBVIOUS
<1>3. ASSUME NEW d \in Nat
      PROVE  f[d] = LevelStep(root, f, d)
  <2>0. d + 1 \in Nat /\ d \in Below(d + 1)
    BY DEF Below
  <2>1. f[d] = LevelStep(root, levels(d + 1), d)
    <3>1. LevelsBelow(root, levels(d + 1), d + 1)
      BY <1>1, <2>0
    <3>2. levels(d + 1)[d] = LevelStep(root, levels(d + 1), d)
      BY <2>0, <3>1 DEF LevelsBelow
    <3>. QED  BY <1>2, <3>2
  <2>2. CASE d = 0
    BY <2>1, <2>2, Zenon DEF LevelStep
  <2>3. CASE d # 0
    <3>1. d - 1 \in Nat /\ d - 1 + 1 = d /\ d - 1 \in Below(d) /\ d - 1 \in Below(d + 1)
      BY <2>3 DEF Below
    <3>2. f[d - 1] = levels(d)[d - 1]
      BY <1>2, <3>1
    <3>3. LevelsBelow(root, levels(d), d) /\ LevelsBelow(root, levels(d + 1), d + 1)
      BY <1>1, <2>0
    <3>4. levels(d)[d - 1] = levels(d + 1)[d - 1]
      BY <2>0, <3>1, <3>3, LevelsAgree
    <3>5. f[d - 1] = levels(d + 1)[d - 1]
      BY <3>2, <3>4
    <3>. QED  BY <2>1, <3>5, Zenon DEF LevelStep
  <2>. QED  BY <2>2, <2>3
<1>4. f = eq(f)
  BY <1>2, <1>3
<1>5. Tlv!Level(bytes, items) = iter
  BY Zenon DEF Tlv!Level, LevelStep, NestedIn
<1>6. iter = eq(iter)
  <2>. HIDE DEF eq
  <2>. QED  BY <1>4, Zenon
<1>. HIDE DEF iter
<1>. QED  BY <1>5, <1>6

-----------------------------------------------------------------------------
(* DE55 *)

\* The property ChipDataHasOneForm of some bytes
ChipRead(bytes) ==
  LET level == Tlv!Level(bytes, Tlv!Parse(bytes))
  IN  /\ \A d \in 0..MaxNesting : \A node \in level[d] : Tlv!BerItems(node.items) = node.value
      /\ level[MaxNesting + 1] = {}

\* The nodes of a level were parsed at its depth.
NodeOf(d, node) ==
  /\ <<node.value, d>> \in Inputs
  /\ node.items = Tlv!ParseItems[<<node.value, d>>] /\ node.items # Rejected

\* Bytes that parse_ber_tlv accepts have one reading, at every level.
LEMMA ParsedChip ==
  ASSUME NEW bytes \in Seq(Byte), Tlv!Parse(bytes) # Rejected
  PROVE  ChipRead(bytes)
<1>. DEFINE root == [value |-> bytes, items |-> Tlv!Parse(bytes)]
            level == Tlv!Level(bytes, Tlv!Parse(bytes))
            Q == {d \in Nat : \A node \in level[d] : NodeOf(d, node)}
<1>1. \A d \in Nat : level[d] = LevelStep(root, level, d)
  BY LevelDefined, Zenon
<1>2. Tlv!Parse(bytes) = Tlv!ParseItems[<<bytes, 0>>] /\ <<bytes, 0>> \in Inputs
  BY DEF Tlv!Parse, Inputs
<1>. HIDE DEF level
<1>3. 0 \in Q
  <2>1. level[0] = {root}
    BY <1>1 DEF LevelStep
  <2>2. NodeOf(0, root)
    BY <1>2, Zenon DEF NodeOf
  <2>. HIDE DEF root
  <2>. QED  BY <2>1, <2>2
<1>. HIDE DEF root
<1>4. ASSUME NEW d \in Q
      PROVE  d + 1 \in Q
  <2>1. d \in Nat /\ d + 1 \in Nat /\ d + 1 # 0 /\ d + 1 - 1 = d
    OBVIOUS
  <2>2. level[d + 1] = NestedIn(level[d])
    BY <1>1, <2>1 DEF LevelStep
  <2>3. ASSUME NEW node \in level[d + 1]
        PROVE  NodeOf(d + 1, node)
    <3>1. PICK parent \in level[d] : node \in Tlv!Nested(parent)
      BY <2>2, Zenon DEF NestedIn
    <3>2. PICK item \in Tlv!ToSet(parent.items) :
            Tlv!Constructed(item.tag) /\ node = [value |-> item.value, items |-> item.children]
      BY <3>1, Zenon DEF Tlv!Nested
    <3>3. PICK i \in DOMAIN parent.items : item = parent.items[i]
      BY Zenon DEF Tlv!ToSet
    <3>4. NodeOf(d, parent)
      BY Zenon
    <3>5. PICK at \in Inputs : at = <<parent.value, d>>
      BY <3>4 DEF NodeOf
    <3>6. parent.items = Tlv!ParseItems[at] /\ Tlv!ParseItems[at] # Rejected /\ at[2] = d
      BY <3>4, <3>5 DEF NodeOf
    <3>7. Read(at)
      BY <3>6, EveryItemRead, Zenon
    <3>8. /\ <<item.value, d + 1>> \in Inputs
          /\ item.children = Tlv!ParseItems[<<item.value, d + 1>>]
          /\ item.children # Rejected
      BY <3>2, <3>3, <3>6, <3>7, Zenon DEF Read
    <3>9. node.value = item.value /\ node.items = item.children
      BY <3>2
    <3>. QED  BY <3>8, <3>9, Zenon DEF NodeOf
  <2>. QED  BY <2>1, <2>3, Zenon
<1>5. Q = Nat
  <2>. HIDE DEF Q
  <2>1. Q \in SUBSET Nat
    BY DEF Q
  <2>. QED  BY <1>3, <1>4, <2>1, AllNaturals
<1>6. ASSUME NEW d \in Nat, NEW node \in level[d]
      PROVE  Tlv!BerItems(node.items) = node.value /\ d <= MaxNesting
  <2>1. NodeOf(d, node)
    BY <1>5, Zenon
  <2>2. PICK at \in Inputs : at = <<node.value, d>>
    BY <2>1 DEF NodeOf
  <2>3. /\ node.items = Tlv!ParseItems[at] /\ Tlv!ParseItems[at] # Rejected
        /\ at[1] = node.value /\ at[2] = d
    BY <2>1, <2>2 DEF NodeOf
  <2>4. Read(at)
    BY <2>3, EveryItemRead, Zenon
  <2>. QED  BY <2>3, <2>4, Zenon DEF Read
<1>7. /\ \A d \in 0..MaxNesting : d \in Nat
      /\ MaxNesting + 1 \in Nat /\ ~(MaxNesting + 1 <= MaxNesting)
  BY InputsAssumption
<1>8. level[MaxNesting + 1] = {}
  BY <1>6, <1>7, Zenon
<1>. QED  BY <1>6, <1>7, <1>8, Zenon DEF ChipRead, level

-----------------------------------------------------------------------------
(* Alterations *)

\* A byte with one bit flipped is a byte.
LEMMA FlippedBit ==
  ASSUME NEW byte \in Byte, NEW k \in 1..8
  PROVE  FlipBit(byte, k) \in Byte
<1>1. k \in {1, 2, 3, 4, 5, 6, 7, 8}
  OBVIOUS
<1>2. Weights[1] = 128 /\ Weights[2] = 64 /\ Weights[3] = 32 /\ Weights[4] = 16
      /\ Weights[5] = 8 /\ Weights[6] = 4 /\ Weights[7] = 2 /\ Weights[8] = 1
  BY DEF Weights
<1>3. byte \in 0..255
  BY DEF Byte
<1>. DEFINE flipped(w) == IF (byte \div w) % 2 = 1 THEN byte - w ELSE byte + w
            Powers == {1, 2, 4, 8, 16, 32, 64, 128}
<1>4. \A w \in Powers : flipped(w) \in Byte
  <2>1. flipped(1) \in Byte
    BY <1>3 DEF Byte
  <2>2. flipped(2) \in Byte
    BY <1>3 DEF Byte
  <2>3. flipped(4) \in Byte
    BY <1>3 DEF Byte
  <2>4. flipped(8) \in Byte
    BY <1>3 DEF Byte
  <2>5. flipped(16) \in Byte
    BY <1>3 DEF Byte
  <2>6. flipped(32) \in Byte
    BY <1>3 DEF Byte
  <2>7. flipped(64) \in Byte
    BY <1>3 DEF Byte
  <2>8. flipped(128) \in Byte
    BY <1>3 DEF Byte
  <2>. HIDE DEF flipped
  <2>. QED  BY <2>1, <2>2, <2>3, <2>4, <2>5, <2>6, <2>7, <2>8
<1>5. PICK w \in Powers : w = Weights[k]
  BY <1>1, <1>2
<1>6. FlipBit(byte, k) = flipped(w)
  BY <1>5 DEF FlipBit, BitSet
<1>. HIDE DEF flipped, Powers
<1>7. flipped(w) \in Byte
  BY <1>4, Zenon
<1>. QED  BY <1>6, <1>7, Zenon

\* The alterations of some bytes are bytes.
LEMMA AlteredBytes ==
  ASSUME NEW bytes \in Seq(Byte), NEW altered \in Altered(bytes)
  PROVE  altered \in Seq(Byte)
<1>1. PICK i \in DOMAIN bytes :
        altered \in {ReplaceAt(bytes, i, FlipBit(bytes[i], k)) : k \in 1..8}
          \union {RemoveAt(bytes, i), InsertAt(bytes, i, bytes[i]), SubSeq(bytes, 1, i - 1)}
  BY DEF Altered
<1>2. /\ i \in 1..Len(bytes) /\ Len(bytes) \in Nat /\ bytes[i] \in Byte
      /\ SubSeq(bytes, 1, i - 1) \in Seq(Byte)
      /\ SubSeq(bytes, i, Len(bytes)) \in Seq(Byte)
      /\ SubSeq(bytes, i + 1, Len(bytes)) \in Seq(Byte)
  <2>1. i \in 1..Len(bytes) /\ Len(bytes) \in Nat /\ bytes[i] \in Byte
    OBVIOUS
  <2>2. \A n \in Nat : \A j \in 1..n :
          /\ 1 \in 1..n + 1 /\ j - 1 \in 1 - 1..n
          /\ j \in 1..n + 1 /\ n \in j - 1..n
          /\ j + 1 \in 1..n + 1 /\ n \in j + 1 - 1..n
    OBVIOUS
  <2>3. /\ 1 \in 1..Len(bytes) + 1 /\ i - 1 \in 1 - 1..Len(bytes)
        /\ i \in 1..Len(bytes) + 1 /\ Len(bytes) \in i - 1..Len(bytes)
        /\ i + 1 \in 1..Len(bytes) + 1 /\ Len(bytes) \in i + 1 - 1..Len(bytes)
    BY <2>1, <2>2
  <2>. QED  BY <2>1, <2>3, Segment
<1>3. CASE \E k \in 1..8 : altered = ReplaceAt(bytes, i, FlipBit(bytes[i], k))
  <2>1. PICK byte \in Byte : altered = [bytes EXCEPT ![i] = byte]
    BY <1>2, <1>3, FlippedBit DEF ReplaceAt
  <2>. QED  BY <1>2, <2>1
<1>4. CASE altered = RemoveAt(bytes, i)
  BY <1>2, <1>4, Concats DEF RemoveAt
<1>5. CASE altered = InsertAt(bytes, i, bytes[i])
  <2>1. <<bytes[i]>> \in Seq(Byte)
    BY <1>2
  <2>. QED  BY <1>2, <1>5, <2>1, Concats DEF InsertAt
<1>6. CASE altered = SubSeq(bytes, 1, i - 1)
  BY <1>2, <1>6
<1>. QED  BY <1>1, <1>3, <1>4, <1>5, <1>6

-----------------------------------------------------------------------------
(* The invariant *)

\* A message that was sent and not altered: its bytes are its encoding, and
\* what has been made of them so far is what was sent.
Unaltered ==
  /\ IsMessage(sent) /\ wire = Encode(sent)
  /\ request # None =>
       /\ request \in AuthorizationRequest /\ request # Rejected /\ ValidRequest(request)
       /\ sent # Rejected /\ sent = ToIso8583(request)
  /\ stage \in {"wire", "decoded", "accepted"} => wire # Rejected
  /\ stage = "refused" => wire = Rejected \/ (received = sent /\ request = None)
  /\ stage \in {"decoded", "accepted"} => received = sent
  /\ stage = "accepted" /\ request # None => accepted = request

\* What is behind each step of the way
Traced ==
  /\ edits \in Nat
  /\ stage \in {"start", "wire"} => received = Rejected /\ accepted = Rejected
  /\ stage = "start" => edits = 0 /\ sent = None /\ request = None
  /\ stage = "wire" => wire \in Seq(Byte)
  /\ stage = "decoded" => accepted = Rejected
  /\ stage \in {"decoded", "accepted"} => received # Rejected
  /\ stage \in {"start", "wire"} => chip = None
  /\ received # Rejected => wire \in Seq(Byte) /\ received = Decode(wire)
  /\ accepted # Rejected => received # Rejected /\ accepted = FromIso8583(received)
  /\ chip # None => /\ received # Rejected /\ 55 \in DOMAIN received.fields
                    /\ chip = Tlv!Parse(received.fields[55])
  /\ edits = 0 /\ sent # None => Unaltered

\* The invariant holds in the initial state.
LEMMA TracedAtStart == Init => Traced
BY DEF Init, Traced

\* What is sent is behind the bytes.
LEMMA TransmitTraced ==
  ASSUME Traced, NEW r, NEW message, Transmit(r, message), IsMessage(message),
         r # None => /\ r \in AuthorizationRequest /\ r # Rejected /\ ValidRequest(r)
                     /\ message # Rejected /\ message = ToIso8583(r)
  PROVE  Traced'
<1>1. /\ stage = "start" /\ request' = r /\ sent' = message /\ wire' = Encode(message)
      /\ stage' = IF wire' = Rejected THEN "refused" ELSE "wire"
      /\ edits' = edits /\ received' = received /\ accepted' = accepted /\ chip' = chip
  BY DEF Transmit
<1>2. received = Rejected /\ accepted = Rejected /\ chip = None /\ edits = 0
  BY <1>1 DEF Traced
<1>3. wire' # Rejected => wire' \in Seq(Byte)
  BY <1>1, EncodeThenDecode
<1>4. Unaltered'
  BY <1>1, <1>2 DEF Unaltered, IsMessage
<1>. QED  BY <1>1, <1>2, <1>3, <1>4 DEF Traced

\* A request that is sent is valid, and the message behind its bytes is its own.
LEMMA SendRequestTraced ==
  ASSUME Traced, NEW r \in Requests, SendRequest(r)
  PROVE  Traced'
<1>1. ToIso8583(r) # Rejected /\ Transmit(r, ToIso8583(r))
  BY DEF SendRequest
<1>2. r \in AuthorizationRequest /\ r # Rejected /\ ValidRequest(r)
  BY InputsAssumption
<1>3. IsMessage(ToIso8583(r))
  BY <1>1, <1>2, RequestBack
<1>. QED  BY <1>1, <1>2, <1>3, TransmitTraced

\* Any other message is behind its bytes.
LEMMA SendMessageTraced ==
  ASSUME Traced, NEW m \in Messages, SendMessage(m)
  PROVE  Traced'
<1>1. IsMessage(m)
  BY InputsAssumption DEF IsMessage
<1>2. Transmit(None, m)
  BY DEF SendMessage
<1>. QED  BY <1>1, <1>2, TransmitTraced

\* Another sender's bytes are bytes.
LEMMA SendPayloadTraced ==
  ASSUME Traced, NEW bytes \in Payloads, SendPayload(bytes)
  PROVE  Traced'
<1>1. bytes \in Seq(Byte)
  BY InputsAssumption
<1>. QED  BY <1>1 DEF SendPayload, Traced

\* A request that is not mapped sends nothing.
LEMMA RefuseRequestTraced ==
  ASSUME Traced, NEW r \in Requests, RefuseRequest(r)
  PROVE  Traced'
BY DEF RefuseRequest, Traced

\* Altered bytes no longer promise anything but to be bytes.
LEMMA AlterTraced == ASSUME Traced, Alter PROVE Traced'
<1>1. /\ stage = "wire" /\ stage' = stage /\ edits' = edits + 1
      /\ received' = received /\ accepted' = accepted /\ chip' = chip
      /\ wire' \in Altered(wire)
  BY DEF Alter
<1>2. wire' \in Seq(Byte)
  BY <1>1, AlteredBytes DEF Traced
<1>3. edits' \in Nat /\ edits' # 0
  BY <1>1 DEF Traced
<1>. QED  BY <1>1, <1>2, <1>3 DEF Traced

\* Unaltered bytes are decoded to what was sent.
LEMMA ReceiveTraced == ASSUME Traced, Receive PROVE Traced'
<1>1. /\ stage = "wire" /\ received' = Decode(wire)
      /\ stage' = IF received' = Rejected THEN "refused" ELSE "decoded"
      /\ request' = request /\ sent' = sent /\ wire' = wire
      /\ edits' = edits /\ accepted' = accepted /\ chip' = chip
  BY DEF Receive
<1>2. wire \in Seq(Byte) /\ accepted = Rejected /\ chip = None
  BY <1>1 DEF Traced
<1>3. ASSUME edits = 0, sent # None
      PROVE  Unaltered'
  <2>1. Unaltered
    BY <1>3 DEF Traced
  <2>2. IsMessage(sent) /\ wire = Encode(sent) /\ wire # Rejected
    BY <1>1, <2>1 DEF Unaltered
  <2>3. Decode(wire) = sent
    BY <2>2, EncodeThenDecode
  <2>4. request # None => sent # Rejected
    BY <2>1 DEF Unaltered
  <2>. QED  BY <1>1, <2>1, <2>2, <2>3, <2>4 DEF Unaltered, IsMessage
<1>. QED  BY <1>1, <1>2, <1>3 DEF Traced

\* The request that was sent is accepted.
LEMMA AcceptTraced == ASSUME Traced, Accept PROVE Traced'
<1>1. /\ stage = "decoded" /\ accepted' = FromIso8583(received)
      /\ stage' = IF accepted' = Rejected THEN "refused" ELSE "accepted"
      /\ request' = request /\ sent' = sent /\ wire' = wire
      /\ edits' = edits /\ received' = received /\ chip' = chip
  BY DEF Accept
<1>2. received # Rejected /\ wire \in Seq(Byte) /\ received = Decode(wire)
  BY <1>1 DEF Traced
<1>3. ASSUME edits = 0, sent # None
      PROVE  Unaltered'
  <2>1. Unaltered
    BY <1>3 DEF Traced
  <2>2. received = sent /\ wire # Rejected
    BY <1>1, <2>1 DEF Unaltered
  <2>3. request # None => accepted' = request /\ accepted' # Rejected
    <3>1. request # None =>
            /\ request \in AuthorizationRequest /\ request # Rejected /\ ValidRequest(request)
            /\ ToIso8583(request) # Rejected /\ sent = ToIso8583(request)
      BY <2>1 DEF Unaltered
    <3>. QED  BY <1>1, <2>2, <3>1, RequestBack
  <2>. QED  BY <1>1, <2>1, <2>2, <2>3 DEF Unaltered, IsMessage
<1>. QED  BY <1>1, <1>2, <1>3 DEF Traced

\* Parsing DE55 changes nothing else.
LEMMA ReadChipTraced == ASSUME Traced, ReadChip PROVE Traced'
<1>1. /\ stage \in {"decoded", "accepted"} /\ stage' = stage
      /\ request' = request /\ sent' = sent /\ wire' = wire /\ edits' = edits
      /\ received' = received /\ accepted' = accepted
  BY DEF ReadChip
<1>2. received # Rejected
  BY <1>1 DEF Traced
<1>3. 55 \in DOMAIN received'.fields /\ chip' = Tlv!Parse(received'.fields[55])
  BY <1>1, Zenon DEF ReadChip
<1>4. edits' = 0 /\ sent' # None => Unaltered'
  BY <1>1 DEF Traced, Unaltered, IsMessage
<1>. QED  BY <1>1, <1>2, <1>3, <1>4 DEF Traced

\* Nothing happens.
LEMMA StutterTraced == ASSUME Traced, UNCHANGED vars PROVE Traced'
BY DEF vars, Traced, Unaltered, IsMessage

\* Every state is traced.
THEOREM EveryStateIsTraced == Spec => []Traced
<1>1. Traced /\ [Next]_vars => Traced'
  BY SendRequestTraced, SendMessageTraced, SendPayloadTraced, RefuseRequestTraced,
     AlterTraced, ReceiveTraced, AcceptTraced, ReadChipTraced, StutterTraced DEF Next
<1>. QED  BY TracedAtStart, <1>1, PTL DEF Spec

-----------------------------------------------------------------------------
(* The properties *)

\* What is encoded and not altered is decoded to the very same message, for every
\* message the profile can carry, and mapped back to the very request it was made
\* of, for every valid request (Iso8583Codec and iso8583_adapter.py).
THEOREM SentMessagesArriveWhole == Spec => []LosslessOnTheWire
<1>1. Traced => LosslessOnTheWire
  BY DEF Traced, Unaltered, LosslessOnTheWire
<1>. QED  BY EveryStateIsTraced, <1>1, PTL

\* decode accepts no bytes but those that encode gives for the message, whatever
\* they are and however they were altered, save the empty secondary bitmap
\* (Iso8583Codec.decode).
THEOREM DecodeTakesOneForm == Spec => []OneFormPerMessage
<1>1. Traced => OneFormPerMessage
  <2>1. SUFFICES ASSUME Traced, received # Rejected
                 PROVE  OneFormPerMessage
    BY DEF OneFormPerMessage
  <2>2. wire \in Seq(Byte) /\ received = Decode(wire)
    BY <2>1 DEF Traced
  <2>3. OneForm(wire)
    BY <2>1, <2>2, DecodeThenEncode
  <2>. QED  BY <2>2, <2>3 DEF OneForm, OneFormPerMessage
<1>. QED  BY EveryStateIsTraced, <1>1, PTL

\* The canonical request made of any decoded message keeps all elements the mapping
\* names: mapped back they are the same, byte for byte (iso8583_adapter.py).
THEOREM MappingLosesNothing == Spec => []MappingKeepsElements
<1>1. Traced => MappingKeepsElements
  <2>1. SUFFICES ASSUME Traced, accepted # Rejected
                 PROVE  MappingKeepsElements
    BY DEF MappingKeepsElements
  <2>2. /\ wire \in Seq(Byte) /\ received = Decode(wire) /\ received # Rejected
        /\ accepted = FromIso8583(received)
    BY <2>1 DEF Traced
  <2>3. ElementsKept(wire)
    BY <2>1, <2>2, MappingKept
  <2>. QED  BY <2>2, <2>3 DEF ElementsKept, MappingKeepsElements
<1>. QED  BY EveryStateIsTraced, <1>1, PTL

\* The ISO 20022 projection of any accepted request loses only what its losses
\* name, and names the ICC data only if there are some (iso20022.py).
THEOREM ProjectionDeclaresLosses == Spec => []LossesAreDeclared
<1>1. Traced => LossesAreDeclared
  <2>1. SUFFICES ASSUME Traced, accepted # Rejected
                 PROVE  LossesAreDeclared
    BY DEF LossesAreDeclared
  <2>2. accepted = FromIso8583(received)
    BY <2>1 DEF Traced
  <2>3. \A id : LossDeclared(accepted, id)
    BY <2>1, <2>2, DeclaredLosses
  <2>. QED  BY <2>3 DEF LossDeclared, LossesAreDeclared
<1>. QED  BY EveryStateIsTraced, <1>1, PTL

\* For every table of routes the route is the single longest prefix of the PAN, and
\* none is chosen only where none is eligible or two are alike (NetworkRouter.route).
THEOREM LongestPrefixWins == Spec => []RouteIsUnique
<1>1. Traced => RouteIsUnique
  <2>1. SUFFICES ASSUME Traced, accepted # Rejected
                 PROVE  RouteIsUnique
    BY DEF RouteIsUnique
  <2>2. /\ wire \in Seq(Byte) /\ received = Decode(wire) /\ received # Rejected
        /\ accepted = FromIso8583(received)
    BY <2>1 DEF Traced
  <2>3. accepted.pan = received.fields[2] /\ 2 \in DOMAIN received.fields
    BY <2>1, <2>2, Accepted DEF FromFields, RequiredText
  <2>4. accepted.pan \in Seq(Byte)
    BY <2>2, <2>3, DecodedMessage
  <2>. QED  BY <2>4, RoutesAreUnique DEF UniqueRoute, RouteIsUnique
<1>. QED  BY EveryStateIsTraced, <1>1, PTL

\* DE55 of any decoded message, in as many bytes as it may come, has one reading:
\* what decode_de55 accepts are the encodings of its items in their one and
\* shortest form, at every level of nesting, and no level is deeper than the limit.
THEOREM ChipDataHasOneReading == Spec => []ChipDataHasOneForm
<1>1. Traced => ChipDataHasOneForm
  <2>1. SUFFICES ASSUME Traced, chip \notin {None, Rejected}
                 PROVE  ChipDataHasOneForm
    BY DEF ChipDataHasOneForm
  <2>2. PICK bytes : bytes = received.fields[55]
    OBVIOUS
  <2>3. /\ wire \in Seq(Byte) /\ received = Decode(wire) /\ received # Rejected
        /\ 55 \in DOMAIN received.fields /\ chip = Tlv!Parse(bytes)
    BY <2>1, <2>2 DEF Traced
  <2>4. bytes \in Seq(Byte)
    BY <2>2, <2>3, DecodedMessage
  <2>5. ChipRead(bytes)
    BY <2>1, <2>3, <2>4, ParsedChip
  <2>. QED  BY <2>2, <2>3, <2>5 DEF ChipRead, ChipDataHasOneForm
<1>. QED  BY EveryStateIsTraced, <1>1, PTL
=============================================================================
