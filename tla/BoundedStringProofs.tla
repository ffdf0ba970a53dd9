------------------------ MODULE BoundedStringProofs -------------------------
(***************************************************************************)
(* For every declaration the macro accepts, every radix and byte order:    *)
(* the storage under a StringMut stays valid, and the field implements the *)
(* text cell of BoundedText.                                               *)
(***************************************************************************)
EXTENDS BoundedString, TLAPS

-----------------------------------------------------------------------------
(* The codec: for every radix, width and byte order, decoding the encoding *)
(* of a representable value gives it back.                                 *)

\* Division with remainder.
LEMMA DivMod ==
    ASSUME NEW n \in Nat, NEW r \in Nat, r > 0
    PROVE  /\ n \div r \in Nat
           /\ n % r \in 0 .. r - 1
           /\ n = r * (n \div r) + (n % r)
<1>1. n \div r \in Nat
  OBVIOUS
<1>2. n % r \in 0 .. r - 1
  OBVIOUS
<1>3. n = r * (n \div r) + (n % r)
  OBVIOUS
<1>4. QED
  BY <1>1, <1>2, <1>3

\* A quotient is small when the dividend is.
LEMMA DivBound ==
    ASSUME NEW n \in Nat, NEW r \in Nat, NEW m \in Nat, r > 0, n < r * m
    PROVE  n \div r < m
  OBVIOUS

LEMMA PlaceInWord ==
    ASSUME NEW w \in Width, NEW order, NEW j \in 0 .. w - 1
    PROVE  /\ Place(j, w, order) \in 0 .. w - 1
           /\ Place(Place(j, w, order), w, order) = j
  BY DEF Width, Place

\* Every encoding consists of bytes.
LEMMA ToBytesType ==
    ASSUME NEW w \in Width, NEW order, NEW n \in Nat
    PROVE  ToBytes(n, w, order) \in [0 .. w - 1 -> Byte]
<1>1. ASSUME NEW p \in 0 .. w - 1 PROVE Digit(n, p) \in Byte
  <2>1. /\ n \div Radix \in Nat
        /\ (n \div Radix) \div Radix \in Nat
        /\ ((n \div Radix) \div Radix) \div Radix \in Nat
    BY RadixAssumption
  <2>2. p \in {0, 1, 2, 3}
    BY DEF Width
  <2>3. Quotient(n, p) \in Nat
    BY <2>1, <2>2 DEF Quotient
  <2>4. QED
    BY <2>3, DivMod, RadixAssumption DEF Digit, Byte
<1>2. QED
  BY <1>1, PlaceInWord DEF ToBytes

\* Decoding yields a value of the width.
LEMMA FromBytesType ==
    ASSUME NEW w \in Width, NEW order, NEW b \in [0 .. w - 1 -> Byte]
    PROVE  FromBytes(b, w, order) \in 0 .. Values(w) - 1
<1> DEFINE d(p) == b[Place(p, w, order)]
<1>1. ASSUME NEW p \in 0 .. w - 1 PROVE d(p) \in 0 .. Radix - 1
  BY PlaceInWord DEF Byte
<1> HIDE DEF d
<1>2. CASE w = 1
  <2>1. FromBytes(b, w, order) = d(0)
    BY <1>2 DEF FromBytes, d
  <2>2. QED
    BY <1>1, <1>2, <2>1 DEF Values
<1>3. ASSUME NEW x \in Nat, NEW y \in Nat, NEW m \in Nat, x < Radix, y < m
      PROVE  /\ x + Radix * y \in Nat
             /\ x + Radix * y < Radix * m
  <2>1. Radix * (y + 1) <= Radix * m
    BY <1>3, RadixAssumption
  <2>2. QED
    BY <1>3, <2>1, RadixAssumption
<1>4. CASE w = 2
  <2>1. FromBytes(b, w, order) = d(0) + Radix * d(1)
    BY <1>4 DEF FromBytes, d
  <2>2. QED
    BY <1>1, <1>3, <1>4, <2>1, RadixAssumption DEF Values
<1>5. CASE w = 4
  <2>1. FromBytes(b, w, order) = d(0) + Radix * (d(1) + Radix * (d(2) + Radix * d(3)))
    BY <1>5 DEF FromBytes, d
  <2>2. /\ d(0) \in Nat /\ d(0) < Radix
        /\ d(1) \in Nat /\ d(1) < Radix
        /\ d(2) \in Nat /\ d(2) < Radix
        /\ d(3) \in Nat /\ d(3) < Radix
    BY <1>1, <1>5, RadixAssumption
  <2> DEFINE h2 == d(2) + Radix * d(3)
             h1 == d(1) + Radix * h2
             h0 == d(0) + Radix * h1
  <2>3. h2 \in Nat /\ h2 < Radix * Radix
    <3> HIDE DEF h1, h0
    <3>1. QED
      BY <1>3, <2>2, RadixAssumption
  <2>4. Radix * Radix \in Nat /\ Radix * (Radix * Radix) \in Nat
    BY RadixAssumption
  <2> HIDE DEF h2
  <2>5. h1 \in Nat /\ h1 < Radix * (Radix * Radix)
    BY <1>3, <2>2, <2>3, <2>4, RadixAssumption
  <2> HIDE DEF h1
  <2>6. h0 \in Nat /\ h0 < Radix * (Radix * (Radix * Radix))
    BY <1>3, <2>2, <2>4, <2>5, RadixAssumption
  <2>7. FromBytes(b, w, order) = h0
    BY <2>1 DEF h1, h2
  <2>8. Values(w) = Radix * (Radix * (Radix * Radix))
    BY <1>5 DEF Values
  <2>9. Radix * (Radix * (Radix * Radix)) \in Nat
    BY <2>4, RadixAssumption
  <2> HIDE DEF h0
  <2>10. Values(w) \in Nat /\ h0 < Values(w)
    BY <2>6, <2>8, <2>9
  <2>11. QED
    BY <2>6, <2>7, <2>10
<1>6. QED
  BY <1>2, <1>4, <1>5 DEF Width

\* to_le_bytes and its counterparts are inverted by from_le_bytes and theirs
\* on every value the width represents.
THEOREM RoundTrip ==
    ASSUME NEW w \in Width, NEW order, NEW n \in Nat, Represents(n, w)
    PROVE  FromBytes(ToBytes(n, w, order), w, order) = n
<1> DEFINE b == ToBytes(n, w, order)
           d(p) == b[Place(p, w, order)]
<1>1. ASSUME NEW p \in 0 .. w - 1 PROVE d(p) = Quotient(n, p) % Radix
  BY PlaceInWord DEF ToBytes, Digit
<1> DEFINE q1 == n \div Radix
           q2 == q1 \div Radix
           q3 == q2 \div Radix
<1>2. /\ q1 \in Nat /\ q2 \in Nat /\ q3 \in Nat
      /\ n = Radix * q1 + (n % Radix)
      /\ q1 = Radix * q2 + (q1 % Radix)
      /\ q2 = Radix * q3 + (q2 % Radix)
  <2>1. q1 \in Nat /\ n = Radix * q1 + (n % Radix)
    BY DivMod, RadixAssumption
  <2> HIDE DEF q1
  <2>2. q2 \in Nat /\ q1 = Radix * q2 + (q1 % Radix)
    BY <2>1, DivMod, RadixAssumption
  <2> HIDE DEF q2
  <2>3. q3 \in Nat /\ q2 = Radix * q3 + (q2 % Radix)
    BY <2>2, DivMod, RadixAssumption
  <2>4. QED
    BY <2>1, <2>2, <2>3
<1>3. ASSUME NEW x \in Nat, x < Radix PROVE x % Radix = x
  BY <1>3, RadixAssumption
<1>4. CASE w = 1
  <2>1. FromBytes(b, w, order) = d(0)
    BY <1>4 DEF FromBytes
  <2>2. d(0) = n % Radix
    BY <1>1, <1>4 DEF Quotient
  <2>3. n < Radix
    BY <1>4 DEF Represents, Values
  <2>4. QED
    BY <1>3, <2>1, <2>2, <2>3
<1>5. CASE w = 2
  <2>1. FromBytes(b, w, order) = d(0) + Radix * d(1)
    BY <1>5 DEF FromBytes
  <2>2. d(0) = n % Radix /\ d(1) = q1 % Radix
    BY <1>1, <1>5 DEF Quotient
  <2>3. q1 < Radix
    BY <1>5, DivBound, RadixAssumption DEF Represents, Values
  <2>4. QED
    BY <1>2, <1>3, <2>1, <2>2, <2>3, RadixAssumption
<1>6. CASE w = 4
  <2>1. FromBytes(b, w, order) = d(0) + Radix * (d(1) + Radix * (d(2) + Radix * d(3)))
    BY <1>6 DEF FromBytes
  <2>2. d(0) = n % Radix /\ d(1) = q1 % Radix /\ d(2) = q2 % Radix /\ d(3) = q3 % Radix
    BY <1>1, <1>6 DEF Quotient
  <2>3. q3 < Radix
    <3>1. Radix * Radix \in Nat /\ Radix * (Radix * Radix) \in Nat
      BY RadixAssumption
    <3>2. q1 < Radix * (Radix * Radix)
      BY <1>6, <3>1, DivBound, RadixAssumption DEF Represents, Values
    <3>3. q2 < Radix * Radix
      BY <1>2, <3>1, <3>2, DivBound, RadixAssumption
    <3>4. QED
      BY <1>2, <3>3, DivBound, RadixAssumption
  <2>4. d(3) = q3
    BY <1>2, <1>3, <2>2, <2>3
  <2> HIDE DEF d, b, q1, q2, q3
  <2>5. d(2) + Radix * d(3) = q2
    BY <1>2, <2>2, <2>4, RadixAssumption
  <2>6. d(1) + Radix * q2 = q1
    BY <1>2, <2>2, RadixAssumption
  <2>7. d(0) + Radix * q1 = n
    BY <1>2, <2>2, RadixAssumption
  <2>8. FromBytes(b, w, order) = n
    BY <2>1, <2>5, <2>6, <2>7
  <2>9. QED
    BY <2>8 DEF b
<1>7. QED
  BY <1>4, <1>5, <1>6 DEF Width

-----------------------------------------------------------------------------
(* The declaration *)

\* Facts of a declaration the macro accepts.
LEMMA DeclarationFacts ==
    ASSUME NEW d \in Declaration, Accepted(d)
    PROVE  /\ d.form \in Prefixed \cup Terminated
           /\ d.cap \in Nat
           /\ d.order \in Order
           /\ d.form \in Prefixed => d.width \in Width
           /\ d.form \in Terminated => d.width = 0 /\ d.cap # 0
           /\ d.width \in Width \cup {0}
           /\ UnitSize(d) \in {1, 2}
           /\ UnitSize(d) \in Width
<1>1. d \in [form : Prefixed \cup Terminated, cap : Nat, width : Width \cup {0}, order : Order]
  BY DeclarationAssumption
<1>2. d.form \in Prefixed => d.form \notin Terminated
  BY DEF Prefixed, Terminated
<1>3. QED
  BY <1>1, <1>2 DEF Accepted, UnitSize, Width

\* The prefix lies before the data and the data inside the wire.
LEMMA LayoutFacts ==
    ASSUME NEW d \in Declaration, Accepted(d)
    PROVE  /\ DataOffset(d) \in Nat
           /\ d.width <= DataOffset(d)
           /\ d.cap * UnitSize(d) \in Nat
           /\ WireSize(d) \in Nat
           /\ DataOffset(d) + d.cap * UnitSize(d) <= WireSize(d)
<1> DEFINE end == DataOffset(d) + d.cap * UnitSize(d)
           align == IF d.width > UnitSize(d) THEN d.width ELSE UnitSize(d)
<1>1. DataOffset(d) \in Nat /\ d.width <= DataOffset(d)
  BY DeclarationFacts DEF DataOffset, Width
<1>2. d.cap * UnitSize(d) \in Nat
  BY DeclarationFacts
<1>3. end \in Nat
  BY <1>1, <1>2
<1>4. align \in {1, 2, 4}
  BY DeclarationFacts DEF Width
<1>5. WireSize(d) = end + ((align - (end % align)) % align)
  BY DEF WireSize
<1> HIDE DEF end, align
<1>6. (align - (end % align)) % align \in Nat
  <2>1. end % align \in 0 .. align - 1
    BY <1>3, <1>4, DivMod
  <2>2. align - (end % align) \in Nat
    BY <1>4, <2>1
  <2>3. QED
    BY <1>4, <2>2, DivMod
<1>7. WireSize(d) \in Nat /\ end <= WireSize(d)
  BY <1>3, <1>5, <1>6
<1>8. QED
  BY <1>1, <1>2, <1>7 DEF end

\* The byte j of unit k, and the way back from the address.
LEMMA UnitAddress ==
    ASSUME NEW d \in Declaration, Accepted(d), NEW k \in 1 .. d.cap,
           NEW j \in 0 .. UnitSize(d) - 1
    PROVE  /\ DataOffset(d) + (k - 1) * UnitSize(d) + j \in 0 .. WireSize(d) - 1
           /\ DataOffset(d) + (k - 1) * UnitSize(d) + j >= DataOffset(d)
           /\ \A n \in Nat : InUnits(d, n, DataOffset(d) + (k - 1) * UnitSize(d) + j) <=> k <= n
           /\ ((k - 1) * UnitSize(d) + j) \div UnitSize(d) = k - 1
           /\ ((k - 1) * UnitSize(d) + j) % UnitSize(d) = j
<1>1. CASE UnitSize(d) = 1
  BY <1>1, DeclarationFacts, LayoutFacts DEF InUnits
<1>2. CASE UnitSize(d) = 2
  BY <1>2, DeclarationFacts, LayoutFacts DEF InUnits
<1>3. QED
  BY <1>1, <1>2, DeclarationFacts

\* A unit is decoded from bytes of the wire.
LEMMA UnitAtType ==
    ASSUME NEW d \in Declaration, Accepted(d), NEW m \in Wire(d), NEW k \in 1 .. d.cap
    PROVE  UnitAt(d, m, k) \in Unit(d)
<1> DEFINE b == [j \in 0 .. UnitSize(d) - 1 |-> m[DataOffset(d) + (k - 1) * UnitSize(d) + j]]
<1>1. b \in [0 .. UnitSize(d) - 1 -> Byte]
  BY UnitAddress DEF Wire
<1> HIDE DEF b
<1>2. FromBytes(b, UnitSize(d), "native") \in Unit(d)
  BY <1>1, FromBytesType, DeclarationFacts DEF Unit
<1>3. QED
  BY <1>2 DEF UnitAt, b

LEMMA PrefixAtType ==
    ASSUME NEW d \in Declaration, Accepted(d), d.form \in Prefixed, NEW m \in Wire(d)
    PROVE  PrefixAt(d, m) \in 0 .. Values(d.width) - 1
<1> DEFINE b == [j \in 0 .. d.width - 1 |-> m[j]]
<1>1. d.width \in Width /\ 0 .. d.width - 1 \subseteq 0 .. WireSize(d) - 1
  BY DeclarationFacts, LayoutFacts DEF Width
<1>2. b \in [0 .. d.width - 1 -> Byte]
  BY <1>1 DEF Wire
<1> HIDE DEF b
<1>3. FromBytes(b, d.width, d.order) \in 0 .. Values(d.width) - 1
  BY <1>1, <1>2, FromBytesType
<1>4. QED
  BY <1>3 DEF PrefixAt, b

-----------------------------------------------------------------------------
(* Stores *)

\* Storing units changes bytes of the first Len(v) units only.
LEMMA StoreUnitsType ==
    ASSUME NEW d \in Declaration, Accepted(d), NEW m \in Wire(d),
           NEW v \in Seq(Nat), Len(v) <= d.cap
    PROVE  StoreUnits(d, m, v) \in Wire(d)
<1>1. ASSUME NEW a \in 0 .. WireSize(d) - 1, InUnits(d, Len(v), a)
      PROVE  ToBytes(v[1 + (a - DataOffset(d)) \div UnitSize(d)], UnitSize(d), "native")
                [(a - DataOffset(d)) % UnitSize(d)] \in Byte
  <2> DEFINE q == (a - DataOffset(d)) \div UnitSize(d)
             r == (a - DataOffset(d)) % UnitSize(d)
  <2>1. Len(v) \in Nat
    OBVIOUS
  <2>2. q \in 0 .. Len(v) - 1 /\ r \in 0 .. UnitSize(d) - 1
    <3>1. CASE UnitSize(d) = 1
      <4>1. a - DataOffset(d) \in 0 .. Len(v) - 1
        BY <1>1, <2>1, <3>1, LayoutFacts DEF InUnits
      <4>2. ASSUME NEW x \in Nat PROVE x \div 1 = x /\ x % 1 = 0
        OBVIOUS
      <4>3. QED
        BY <2>1, <3>1, <4>1, <4>2
    <3>2. CASE UnitSize(d) = 2
      <4>1. a - DataOffset(d) \in 0 .. Len(v) * 2 - 1
        BY <1>1, <2>1, <3>2, LayoutFacts DEF InUnits
      <4>2. ASSUME NEW x \in Nat, NEW n \in Nat, x < 2 * n
            PROVE  x \div 2 \in 0 .. n - 1 /\ x % 2 \in 0 .. 1
        BY <4>2
      <4>3. QED
        BY <2>1, <3>2, <4>1, <4>2
    <3>3. QED
      BY <3>1, <3>2, DeclarationFacts
  <2> HIDE DEF q, r
  <2>3. v[1 + q] \in Nat
    BY <2>1, <2>2
  <2>4. ToBytes(v[1 + q], UnitSize(d), "native") \in [0 .. UnitSize(d) - 1 -> Byte]
    BY <2>3, ToBytesType, DeclarationFacts
  <2>5. ToBytes(v[1 + q], UnitSize(d), "native")[r] \in Byte
    BY <2>2, <2>4
  <2>6. QED
    BY <2>5 DEF q, r
<1>2. QED
  BY <1>1 DEF StoreUnits, Wire

LEMMA StorePrefixType ==
    ASSUME NEW d \in Declaration, Accepted(d), NEW m \in Wire(d), NEW n \in Nat
    PROVE  StorePrefix(d, m, n) \in Wire(d)
<1>1. ASSUME NEW a \in 0 .. WireSize(d) - 1, a < d.width
      PROVE  ToBytes(n, d.width, d.order)[a] \in Byte
  <2>1. d.width \in Width /\ a \in 0 .. d.width - 1
    BY <1>1, DeclarationFacts, LayoutFacts DEF Width
  <2>2. ToBytes(n, d.width, d.order) \in [0 .. d.width - 1 -> Byte]
    BY <2>1, ToBytesType
  <2>3. QED
    BY <2>1, <2>2
<1>2. QED
  BY <1>1 DEF StorePrefix, Wire

\* A stored unit is read back, whatever the bytes were.
LEMMA UnitStored ==
    ASSUME NEW d \in Declaration, Accepted(d), NEW m \in Wire(d),
           NEW v \in Seq(Unit(d)), Len(v) <= d.cap, NEW k \in 1 .. Len(v)
    PROVE  UnitAt(d, StoreUnits(d, m, v), k) = v[k]
<1> DEFINE at(j) == DataOffset(d) + (k - 1) * UnitSize(d) + j
           b == [j \in 0 .. UnitSize(d) - 1 |-> StoreUnits(d, m, v)[at(j)]]
<1>1. k \in 1 .. d.cap /\ Len(v) \in Nat
  BY DeclarationFacts
<1>2. v[k] \in Nat /\ Represents(v[k], UnitSize(d))
  <2>1. v[k] \in Unit(d)
    OBVIOUS
  <2>2. Values(UnitSize(d)) \in Nat
    <3>1. CASE UnitSize(d) = 1
      BY <3>1, RadixAssumption DEF Values
    <3>2. CASE UnitSize(d) = 2
      BY <3>2, RadixAssumption DEF Values
    <3>3. QED
      BY <3>1, <3>2, DeclarationFacts
  <2>3. QED
    BY <2>1, <2>2 DEF Unit, Represents
<1>3. ASSUME NEW j \in 0 .. UnitSize(d) - 1
      PROVE  b[j] = ToBytes(v[k], UnitSize(d), "native")[j]
  <2>1. at(j) \in DOMAIN m /\ InUnits(d, Len(v), at(j))
    BY <1>1, UnitAddress DEF Wire
  <2>2. at(j) - DataOffset(d) = (k - 1) * UnitSize(d) + j
    BY <1>1, DeclarationFacts, LayoutFacts
  <2>3. 1 + (at(j) - DataOffset(d)) \div UnitSize(d) = k /\ (at(j) - DataOffset(d)) % UnitSize(d) = j
    BY <1>1, <2>2, UnitAddress
  <2> HIDE DEF at
  <2>4. StoreUnits(d, m, v)[at(j)] = ToBytes(v[k], UnitSize(d), "native")[j]
    BY <2>1, <2>3 DEF StoreUnits
  <2>5. QED
    BY <2>4
<1>4. b = ToBytes(v[k], UnitSize(d), "native")
  BY <1>3 DEF ToBytes
<1>5. FromBytes(b, UnitSize(d), "native") = v[k]
  BY <1>2, <1>4, RoundTrip, DeclarationFacts
<1>6. QED
  BY <1>5 DEF UnitAt

\* The length is read back when the prefix represents it.
LEMMA PrefixStored ==
    ASSUME NEW d \in Declaration, Accepted(d), d.form \in Prefixed, NEW m \in Wire(d),
           NEW n \in Nat, Represents(n, d.width)
    PROVE  PrefixAt(d, StorePrefix(d, m, n)) = n
<1> DEFINE b == [j \in 0 .. d.width - 1 |-> StorePrefix(d, m, n)[j]]
<1>1. d.width \in Width /\ 0 .. d.width - 1 \subseteq 0 .. WireSize(d) - 1
  BY DeclarationFacts, LayoutFacts DEF Width
<1>2. ASSUME NEW j \in 0 .. d.width - 1 PROVE b[j] = ToBytes(n, d.width, d.order)[j]
  BY <1>1 DEF StorePrefix, Wire, Width
<1>3. b = ToBytes(n, d.width, d.order)
  BY <1>2 DEF ToBytes
<1>4. FromBytes(b, d.width, d.order) = n
  BY <1>1, <1>3, RoundTrip
<1>5. QED
  BY <1>4 DEF PrefixAt

\* Two wires that agree on a unit's bytes agree on the unit.
LEMMA PrefixLeavesUnits ==
    ASSUME NEW d \in Declaration, Accepted(d), NEW m \in Wire(d), NEW n \in Nat,
           NEW k \in 1 .. d.cap
    PROVE  UnitAt(d, StorePrefix(d, m, n), k) = UnitAt(d, m, k)
<1> DEFINE at(j) == DataOffset(d) + (k - 1) * UnitSize(d) + j
<1>1. ASSUME NEW j \in 0 .. UnitSize(d) - 1
      PROVE  StorePrefix(d, m, n)[at(j)] = m[at(j)]
  <2>1. at(j) \in DOMAIN m /\ at(j) >= DataOffset(d)
    BY UnitAddress DEF Wire
  <2>2. at(j) \in Int /\ ~(at(j) < d.width)
    <3>1. at(j) \in Int
      BY UnitAddress
    <3> HIDE DEF at
    <3>2. QED
      BY <2>1, <3>1, LayoutFacts, DeclarationFacts DEF Width
  <2> HIDE DEF at
  <2>3. QED
    BY <2>1, <2>2 DEF StorePrefix
<1>2. QED
  BY <1>1 DEF UnitAt

-----------------------------------------------------------------------------
(* Texts *)

LEMMA TextFacts ==
    ASSUME NEW d \in Declaration, Accepted(d), NEW v \in Texts(d)
    PROVE  /\ v \in Seq(Unit(d))
           /\ Len(v) \in 0 .. d.cap + Excess
           /\ IsText(d, v)
<1>1. PICK n \in 0 .. d.cap + Excess : v \in [1 .. n -> Unit(d)]
  BY DEF Texts
<1>2. n \in Nat
  BY <1>1, DeclarationFacts, ExcessAssumption
<1>3. v \in Seq(Unit(d)) /\ Len(v) = n
  BY <1>1, <1>2
<1>4. QED
  BY <1>1, <1>3 DEF Texts

\* There is one first terminator.
LEMMA NulUnique ==
    ASSUME NEW d, NEW m, NEW n \in Nat, NEW p \in Nat, NulAfter(d, m, n), NulAfter(d, m, p)
    PROVE  n = p
<1>1. ASSUME NEW i \in Nat, NEW j \in Nat, NulAfter(d, m, i), NulAfter(d, m, j), i < j
      PROVE  FALSE
  <2>1. i + 1 \in 1 .. j
    BY <1>1
  <2>2. QED
    BY <1>1, <2>1 DEF NulAfter
<1>2. n < p \/ p < n \/ n = p
  OBVIOUS
<1>3. QED
  BY <1>1, <1>2

LEMMA TerminatedLength ==
    ASSUME NEW d \in Declaration, Accepted(d), d.form \in Terminated, NEW m,
           NEW n \in 0 .. d.cap - 1, NulAfter(d, m, n)
    PROVE  TextLength(d, m) = n
<1>1. d.form \notin Prefixed
  BY DEF Terminated, Prefixed
<1> DEFINE c == CHOOSE i \in 0 .. d.cap - 1 : NulAfter(d, m, i)
<1>2. TextLength(d, m) = c
  BY <1>1 DEF TextLength
<1>3. c \in 0 .. d.cap - 1 /\ NulAfter(d, m, c)
  OBVIOUS
<1> HIDE DEF c
<1>4. c = n
  BY <1>3, NulUnique, DeclarationFacts
<1>5. QED
  BY <1>2, <1>4

\* What the proof accepts is a text of the declared type, not longer than
\* the declaration allows.
LEMMA ProofGivesText ==
    ASSUME NEW d \in Declaration, Accepted(d), NEW m \in Wire(d), Proof(d, m) = "Ok"
    PROVE  /\ Text(d, m) \in Texts(d)
           /\ Len(Text(d, m)) <= LongestText(d)
           /\ TextLength(d, m) \in 0 .. d.cap
           /\ Len(Text(d, m)) = TextLength(d, m)
<1> DEFINE n == TextLength(d, m)
<1>1. ASSUME n \in 0 .. d.cap, IsText(d, Text(d, m))
      PROVE  Text(d, m) \in Texts(d) /\ Len(Text(d, m)) = n
  <2>1. n \in Nat /\ n \in 0 .. d.cap + Excess
    BY <1>1, DeclarationFacts, ExcessAssumption
  <2>2. Text(d, m) = [k \in 1 .. n |-> UnitAt(d, m, k)]
    BY DEF Text, Active
  <2>3. \A k \in 1 .. n : UnitAt(d, m, k) \in Unit(d)
    BY <1>1, UnitAtType, DeclarationFacts
  <2> HIDE DEF n
  <2>4. Text(d, m) \in [1 .. n -> Unit(d)]
    BY <2>2, <2>3
  <2>5. Len(Text(d, m)) = n
    BY <2>1, <2>2
  <2>6. QED
    BY <1>1, <2>1, <2>4, <2>5 DEF Texts
<1>2. CASE d.form \in Prefixed
  <2>1. d.form \notin Terminated
    BY <1>2 DEF Terminated, Prefixed
  <2>2. n = PrefixAt(d, m) /\ n \in 0 .. Values(d.width) - 1
    BY <1>2, PrefixAtType DEF TextLength
  <2>3. ~(n > d.cap) /\ (d.form = "str" => Utf8(Text(d, m)))
    BY <1>2, <2>1, <2>2 DEF Proof
  <2>4. n \in 0 .. d.cap
    BY <2>2, <2>3, DeclarationFacts
  <2>5. IsText(d, Text(d, m))
    BY <2>1, <2>3 DEF IsText
  <2> HIDE DEF n
  <2>6. n <= LongestText(d)
    BY <2>1, <2>2, <2>4, DeclarationFacts DEF LongestText
  <2>7. QED
    BY <1>1, <2>4, <2>5, <2>6 DEF n
<1>3. CASE d.form \in Terminated
  <2>1. d.form \notin Prefixed /\ d.form # "str"
    BY <1>3 DEF Terminated, Prefixed
  <2>2. PICK i \in 0 .. d.cap - 1 : NulAfter(d, m, i)
    BY <1>3, <2>1 DEF Proof
  <2>3. n = i
    BY <1>3, <2>2, TerminatedLength
  <2>4. i \in 0 .. d.cap /\ i <= LongestText(d)
    BY <1>3, <2>2, DeclarationFacts DEF LongestText
  <2>5. \A k \in DOMAIN Text(d, m) : Text(d, m)[k] # 0
    BY <2>2, <2>3 DEF Text, Active, NulAfter
  <2>6. IsText(d, Text(d, m))
    BY <2>1, <2>5 DEF IsText
  <2> HIDE DEF n
  <2>7. QED
    BY <1>1, <2>3, <2>4, <2>6 DEF n
<1>4. QED
  BY <1>2, <1>3, DeclarationFacts

\* Preflight accepts exactly the texts that are not longer than that.
LEMMA PreflightLimit ==
    ASSUME NEW d \in Declaration, Accepted(d), NEW v \in Texts(d)
    PROVE  Preflight(d, v) = "Ok" <=> Len(v) <= LongestText(d)
<1>1. Len(v) \in Nat /\ v \in Seq(Unit(d))
  BY TextFacts, DeclarationFacts, ExcessAssumption
<1>2. CASE d.form \in Prefixed
  <2>1. d.form \notin Terminated
    BY <1>2 DEF Terminated, Prefixed
  <2>2. Preflight(d, v) = "Ok" <=> Len(v) <= d.cap /\ Len(v) < Values(d.width)
    BY <1>1, <1>2, DeclarationFacts DEF Preflight, Stored, Represents
  <2>3. Values(d.width) \in Int
    <3>1. d.width \in {1, 2, 4}
      BY <1>2, DeclarationFacts DEF Width
    <3>2. CASE d.width = 1
      BY <3>2, RadixAssumption DEF Values
    <3>3. CASE d.width = 2
      BY <3>3, RadixAssumption DEF Values
    <3>4. CASE d.width = 4
      <4>1. Values(d.width) = Radix * (Radix * (Radix * Radix))
        BY <3>4 DEF Values
      <4>2. QED
        BY <4>1, RadixAssumption
    <3>5. QED
      BY <3>1, <3>2, <3>3, <3>4
  <2>4. QED
    BY <1>1, <2>1, <2>2, <2>3, DeclarationFacts DEF LongestText, Represents
<1>3. CASE d.form \in Terminated
  <2>1. d.form \notin Prefixed
    BY <1>3 DEF Terminated, Prefixed
  <2>2. Len(Append(v, 0)) = Len(v) + 1
    BY <1>1
  <2>3. QED
    BY <1>1, <1>3, <2>1, <2>2, DeclarationFacts DEF LongestText, Preflight, Stored
<1>4. QED
  BY <1>2, <1>3, DeclarationFacts

\* A committed text is proved and read back, over any stale bytes.
LEMMA CommitReadsBack ==
    ASSUME NEW d \in Declaration, Accepted(d), NEW m \in Wire(d), NEW v \in Texts(d),
           Preflight(d, v) = "Ok"
    PROVE  /\ Commit(d, m, v) \in Wire(d)
           /\ Proof(d, Commit(d, m, v)) = "Ok"
           /\ Text(d, Commit(d, m, v)) = v
<1> DEFINE st == Stored(d, v)
           s == StoreUnits(d, m, st)
           c == StorePrefix(d, s, Len(v))
<1>1. c = Commit(d, m, v)
  BY DEF Commit
<1>2. Len(v) \in Nat /\ v \in Seq(Unit(d)) /\ IsText(d, v)
  BY TextFacts, DeclarationFacts, ExcessAssumption
<1>3. Unit(d) \subseteq Nat /\ 0 \in Unit(d)
  <2>1. CASE UnitSize(d) = 1
    BY <2>1, RadixAssumption DEF Unit, Values
  <2>2. CASE UnitSize(d) = 2
    <3>1. Radix * Radix \in Nat /\ Radix * Radix > 0
      BY RadixAssumption
    <3>2. QED
      BY <2>2, <3>1 DEF Unit, Values
  <2>3. QED
    BY <2>1, <2>2, DeclarationFacts
<1>4. st \in Seq(Unit(d)) /\ Len(st) \in Nat
  BY <1>2, <1>3 DEF Stored
<1>5. Len(st) <= d.cap
  BY <1>4, DeclarationFacts DEF Preflight
<1>6. st \in Seq(Nat)
  BY <1>3, <1>4
<1>7. s \in Wire(d)
  <2> HIDE DEF st
  <2>1. QED
    BY <1>5, <1>6, StoreUnitsType
<1>8. c \in Wire(d)
  <2> HIDE DEF s
  <2>1. QED
    BY <1>2, <1>7, StorePrefixType
<1>9. ASSUME NEW k \in 1 .. Len(st) PROVE UnitAt(d, c, k) = st[k]
  <2> HIDE DEF st
  <2>1. k \in 1 .. d.cap
    BY <1>4, <1>5, DeclarationFacts
  <2>2. UnitAt(d, s, k) = st[k]
    BY <1>4, <1>5, UnitStored
  <2> HIDE DEF s
  <2>3. QED
    BY <1>2, <1>7, <2>1, <2>2, PrefixLeavesUnits
<1>10. CASE d.form \in Prefixed
  <2>1. d.form \notin Terminated
    BY <1>10 DEF Terminated, Prefixed
  <2>2. st = v
    BY <1>10 DEF Stored
  <2>3. Represents(Len(v), d.width)
    BY <1>10 DEF Preflight
  <2>4. PrefixAt(d, c) = Len(v)
    <3> HIDE DEF s
    <3>1. QED
      BY <1>2, <1>7, <1>10, <2>3, PrefixStored
  <2> HIDE DEF c, s, st
  <2>5. Text(d, c) = [k \in 1 .. Len(v) |-> UnitAt(d, c, k)]
    BY <1>10, <2>4 DEF Text, Active, TextLength
  <2>6. Text(d, c) = v
    BY <1>2, <1>9, <2>2, <2>5
  <2>7. ~(PrefixAt(d, c) > d.cap)
    BY <1>2, <1>5, <2>2, <2>4, DeclarationFacts
  <2>8. Proof(d, c) = "Ok"
    BY <1>2, <1>10, <2>1, <2>6, <2>7 DEF Proof, IsText
  <2>9. QED
    BY <1>1, <1>8, <2>6, <2>8
<1>11. CASE d.form \in Terminated
  <2>1. d.form \notin Prefixed
    BY <1>11 DEF Terminated, Prefixed
  <2>2. st = Append(v, 0)
    BY <2>1 DEF Stored
  <2>3. Len(st) = Len(v) + 1 /\ st[Len(v) + 1] = 0 /\ \A k \in 1 .. Len(v) : st[k] = v[k]
    BY <1>2, <2>2
  <2>4. \A k \in 1 .. Len(v) : v[k] # 0
    BY <1>2, <1>11 DEF IsText
  <2> HIDE DEF c, s, st
  <2>5. UnitAt(d, c, Len(v) + 1) = 0 /\ \A k \in 1 .. Len(v) : UnitAt(d, c, k) = v[k]
    BY <1>2, <1>9, <2>3
  <2>6. NulAfter(d, c, Len(v))
    BY <2>4, <2>5 DEF NulAfter
  <2>7. Len(v) \in 0 .. d.cap - 1
    BY <1>2, <1>5, <2>3, DeclarationFacts
  <2>8. TextLength(d, c) = Len(v)
    BY <1>11, <2>6, <2>7, TerminatedLength
  <2>9. Text(d, c) = v
    BY <1>2, <2>5, <2>8 DEF Text, Active
  <2>10. Proof(d, c) = "Ok"
    BY <1>11, <2>1, <2>6, <2>7 DEF Proof
  <2>11. QED
    BY <1>1, <1>8, <2>9, <2>10
<1>12. QED
  BY <1>10, <1>11, DeclarationFacts

\* The all-zero wire is the empty text.
LEMMA ClearedIsEmpty ==
    ASSUME NEW d \in Declaration, Accepted(d), NEW m,
           m = [a \in 0 .. WireSize(d) - 1 |-> 0]
    PROVE  m \in Wire(d) /\ Proof(d, m) = "Ok" /\ Text(d, m) = <<>>
<1>1. m \in Wire(d)
  BY RadixAssumption DEF Wire, Byte
<1>2. ASSUME NEW w \in Width, NEW order, NEW b, b = [j \in 0 .. w - 1 |-> 0]
      PROVE  FromBytes(b, w, order) = 0
  <2>1. \A p \in 0 .. w - 1 : b[Place(p, w, order)] = 0
    BY <1>2, PlaceInWord
  <2>2. Radix * 0 = 0
    BY RadixAssumption
  <2>3. CASE w = 1
    BY <2>1, <2>3 DEF FromBytes
  <2>4. CASE w = 2
    BY <2>1, <2>2, <2>4 DEF FromBytes
  <2>5. CASE w = 4
    <3>1. /\ b[Place(0, w, order)] = 0 /\ b[Place(1, w, order)] = 0
          /\ b[Place(2, w, order)] = 0 /\ b[Place(3, w, order)] = 0
      BY <2>1, <2>5
    <3>2. FromBytes(b, w, order) = 0 + Radix * (0 + Radix * (0 + Radix * 0))
      BY <2>5, <3>1 DEF FromBytes
    <3>3. QED
      BY <2>2, <3>2
  <2>6. QED
    BY <2>3, <2>4, <2>5 DEF Width
<1>3. CASE d.form \in Prefixed
  <2>1. d.form \notin Terminated
    BY <1>3 DEF Terminated, Prefixed
  <2>2. d.width \in Width /\ 0 .. d.width - 1 \subseteq 0 .. WireSize(d) - 1
    BY <1>3, DeclarationFacts, LayoutFacts DEF Width
  <2>3. [j \in 0 .. d.width - 1 |-> m[j]] = [j \in 0 .. d.width - 1 |-> 0]
    BY <2>2
  <2>4. PrefixAt(d, m) = 0
    BY <1>2, <2>2, <2>3 DEF PrefixAt
  <2>5. Text(d, m) = <<>>
    <3>1. Text(d, m) = [k \in 1 .. 0 |-> UnitAt(d, m, k)]
      BY <1>3, <2>4 DEF Text, Active, TextLength
    <3>2. QED
      BY <3>1
  <2>6. Proof(d, m) = "Ok"
    BY <1>3, <2>1, <2>4, <2>5, DeclarationFacts, Utf8Assumption DEF Proof
  <2>7. QED
    BY <1>1, <2>5, <2>6
<1>4. CASE d.form \in Terminated
  <2>1. d.form \notin Prefixed
    BY <1>4 DEF Terminated, Prefixed
  <2>2. 1 \in 1 .. d.cap /\ 0 \in 0 .. d.cap - 1
    BY <1>4, DeclarationFacts
  <2> DEFINE b == [j \in 0 .. UnitSize(d) - 1 |-> m[DataOffset(d) + (1 - 1) * UnitSize(d) + j]]
  <2>3. b = [j \in 0 .. UnitSize(d) - 1 |-> 0]
    BY <2>2, UnitAddress
  <2>4. UnitAt(d, m, 1) = FromBytes(b, UnitSize(d), "native")
    BY DEF UnitAt
  <2> HIDE DEF b
  <2>5. UnitAt(d, m, 1) = 0
    BY <1>2, <2>3, <2>4, DeclarationFacts
  <2>6. NulAfter(d, m, 0)
    BY <2>5 DEF NulAfter
  <2>7. TextLength(d, m) = 0
    BY <1>4, <2>2, <2>6, TerminatedLength
  <2>8. Text(d, m) = <<>>
    <3>1. Text(d, m) = [k \in 1 .. 0 |-> UnitAt(d, m, k)]
      BY <2>7 DEF Text, Active
    <3>2. QED
      BY <3>1
  <2>9. Proof(d, m) = "Ok"
    BY <1>4, <2>1, <2>2, <2>6 DEF Proof
  <2>10. QED
    BY <1>1, <2>8, <2>9
<1>5. QED
  BY <1>3, <1>4, DeclarationFacts

-----------------------------------------------------------------------------
(* The specification *)

LEMMA EmptyIsText ==
    ASSUME NEW d \in Declaration, Accepted(d)
    PROVE  <<>> \in Texts(d)
<1>1. 0 \in 0 .. d.cap + Excess
  BY DeclarationFacts, ExcessAssumption
<1>2. <<>> \in [1 .. 0 -> Unit(d)]
  OBVIOUS
<1>3. IsText(d, <<>>)
  BY Utf8Assumption DEF IsText
<1>4. QED
  BY <1>1, <1>2, <1>3 DEF Texts

IInv == TypeOK /\ HandleStaysProved

LEMMA InitHolds == Init => IInv
<1> SUFFICES ASSUME Init PROVE IInv
  OBVIOUS
<1>1. decl \in Declaration /\ Accepted(decl)
  BY DEF Init
<1>2. QED
  BY <1>1, EmptyIsText DEF Init, IInv, TypeOK, HandleStaysProved

LEMMA ProveHolds == IInv /\ Prove => IInv'
<1> SUFFICES ASSUME IInv, Prove PROVE IInv'
  OBVIOUS
<1>1. Proof(decl, mem) \in {"Ok", "LengthOutOfBounds", "InvalidUtf8", "MissingNul"}
  <2>1. decl.form \in Prefixed \/ decl.form \in Terminated
    BY DeclarationFacts DEF IInv, TypeOK
  <2>2. decl.form \in Prefixed => decl.form \notin Terminated
    BY DEF Prefixed, Terminated
  <2>3. CASE decl.form \in Prefixed
    BY <2>2, <2>3 DEF Proof
  <2>4. CASE decl.form \in Terminated
    BY <2>2, <2>4 DEF Proof
  <2>5. QED
    BY <2>1, <2>3, <2>4
<1>2. TypeOK'
  BY <1>1 DEF IInv, TypeOK, Prove
<1>3. HandleStaysProved'
  BY DEF Prove, HandleStaysProved
<1>4. QED
  BY <1>2, <1>3 DEF IInv

LEMMA SetHolds == ASSUME IInv, NEW v \in Texts(decl), Set(v) PROVE IInv'
<1>1. decl' = decl /\ decl \in Declaration /\ Accepted(decl) /\ mem \in Wire(decl)
  BY DEF IInv, TypeOK, Set
<1>2. Preflight(decl, v) \in {"Ok", "CapacityExceeded", "LengthUnrepresentable"}
  BY DEF Preflight
<1>3. CASE Preflight(decl, v) = "Ok"
  <2>1. mem' \in Wire(decl) /\ Proof(decl, mem') = "Ok"
    BY <1>1, <1>3, CommitReadsBack DEF Set
  <2>2. TypeOK'
    BY <1>1, <1>2, <2>1 DEF TypeOK, IInv, Set
  <2>3. QED
    BY <1>1, <2>1, <2>2 DEF IInv, HandleStaysProved
<1>4. CASE Preflight(decl, v) # "Ok"
  <2>1. mem' = mem /\ proved' = proved
    BY <1>4 DEF Set, IInv, TypeOK
  <2>2. TypeOK'
    BY <1>1, <1>2, <2>1 DEF TypeOK, IInv, Set
  <2>3. QED
    BY <1>1, <2>1, <2>2 DEF IInv, HandleStaysProved
<1>5. QED
  BY <1>3, <1>4

LEMMA ClearHolds == IInv /\ Clear => IInv'
<1> SUFFICES ASSUME IInv, Clear PROVE IInv'
  OBVIOUS
<1>1. decl' = decl /\ decl \in Declaration /\ Accepted(decl) /\ mem \in Wire(decl)
  BY DEF IInv, TypeOK, Clear
<1>2. mem' = [a \in 0 .. WireSize(decl) - 1 |-> 0]
  BY <1>1 DEF Clear, Wire
<1>3. mem' \in Wire(decl) /\ Proof(decl, mem') = "Ok"
  BY <1>1, <1>2, ClearedIsEmpty
<1>4. TypeOK'
  BY <1>1, <1>3 DEF TypeOK, IInv, Clear
<1>5. QED
  BY <1>1, <1>3, <1>4 DEF IInv, HandleStaysProved

\* StringMut keeps its storage typed and valid: no sequence of proofs, sets,
\* rejected sets and clears leads get to its unreachable! arm.
THEOREM Safety == Spec => [](TypeOK /\ HandleStaysProved)
<1>1. Init => IInv
  BY InitHolds
<1>2. IInv /\ [Next]_vars => IInv'
  <2> SUFFICES ASSUME IInv, [Next]_vars PROVE IInv'
    OBVIOUS
  <2>1. CASE Prove
    BY <2>1, ProveHolds
  <2>2. CASE Clear
    BY <2>2, ClearHolds
  <2>3. CASE \E v \in Texts(decl) : Set(v)
    BY <2>3, SetHolds
  <2>4. CASE UNCHANGED vars
    BY <2>4 DEF vars, IInv, TypeOK, HandleStaysProved
  <2>5. QED
    BY <2>1, <2>2, <2>3, <2>4 DEF Next
<1>3. QED
  BY <1>1, <1>2, PTL DEF Spec, IInv

\* The wire always consists of bytes of its declaration's size.
THEOREM TypeCorrect == Spec => []TypeOK
  BY Safety, PTL

\* The storage under a StringMut always passes the proof.
THEOREM StaysProved == Spec => []HandleStaysProved
  BY Safety, PTL

-----------------------------------------------------------------------------
(* Refinement *)

\* The text the abstract cell holds.
Cell == IF proved THEN Text(decl, mem) ELSE NoText
Outcome == IF result = "Ok" THEN "Ok" ELSE "Error"

LEMMA ProveIsOpen == IInv /\ Prove => Abstract!Open /\ decl' = decl
<1> SUFFICES ASSUME IInv, Prove PROVE Abstract!Open /\ decl' = decl
  OBVIOUS
<1>1. /\ decl' = decl /\ mem' = mem /\ source' = source /\ ~proved
      /\ result' = Proof(decl, mem) /\ proved' = (Proof(decl, mem) = "Ok")
  BY DEF Prove
<1>2. CASE Proof(decl, mem) = "Ok"
  <2>1. Text(decl, mem) \in Texts(decl) /\ Len(Text(decl, mem)) <= LongestText(decl)
    BY <1>2, ProofGivesText DEF IInv, TypeOK
  <2>2. QED
    BY <1>1, <1>2, <2>1 DEF Abstract!Open
<1>3. CASE Proof(decl, mem) # "Ok"
  BY <1>1, <1>3 DEF Abstract!Open
<1>4. QED
  BY <1>2, <1>3

LEMMA SetIsWrite ==
    ASSUME IInv, NEW v \in Texts(decl), Set(v)
    PROVE  Abstract!Write /\ decl' = decl
<1>1. /\ decl' = decl /\ source' = v /\ result' = Preflight(decl, v)
      /\ decl \in Declaration /\ Accepted(decl) /\ mem \in Wire(decl)
  BY DEF IInv, TypeOK, Set
<1>2. CASE Preflight(decl, v) = "Ok"
  <2>1. Len(v) <= LongestText(decl)
    BY <1>1, <1>2, PreflightLimit
  <2>2. mem' = Commit(decl, mem, v) /\ proved'
    BY <1>2 DEF Set
  <2>3. Text(decl, mem') = v
    BY <1>1, <1>2, <2>2, CommitReadsBack
  <2>4. QED
    BY <1>1, <1>2, <2>1, <2>2, <2>3 DEF Abstract!Write
<1>3. CASE Preflight(decl, v) # "Ok"
  <2>1. ~(Len(v) <= LongestText(decl))
    BY <1>1, <1>3, PreflightLimit
  <2>2. mem' = mem /\ proved' = proved
    BY <1>3 DEF Set, IInv, TypeOK
  <2>3. QED
    BY <1>1, <1>3, <2>1, <2>2 DEF Abstract!Write
<1>4. QED
  BY <1>2, <1>3

LEMMA ClearIsErase == IInv /\ Clear => Abstract!Erase /\ decl' = decl
<1> SUFFICES ASSUME IInv, Clear PROVE Abstract!Erase /\ decl' = decl
  OBVIOUS
<1>1. /\ decl' = decl /\ decl \in Declaration /\ Accepted(decl) /\ mem \in Wire(decl)
      /\ proved /\ proved' = proved /\ result' = "Ok" /\ source' = source
  BY DEF IInv, TypeOK, Clear
<1>2. Text(decl, mem) # NoText
  BY <1>1, ProofGivesText, NoTextAssumption DEF IInv, HandleStaysProved
<1>3. mem' = [a \in 0 .. WireSize(decl) - 1 |-> 0]
  BY <1>1 DEF Clear, Wire
<1>4. Text(decl, mem') = <<>>
  BY <1>1, <1>3, ClearedIsEmpty
<1>5. QED
  BY <1>1, <1>2, <1>4 DEF Abstract!Erase

\* The bytes of every string field implement the text cell: a set text is
\* the text read, whatever the stale bytes, byte order and prefix width; a
\* set fails exactly when the text is too long and then changes nothing.
THEOREM Implementation == Spec => ImplementsBoundedText
<1>1. Init => Abstract!Init
  BY DEF Init, Abstract!Init
<1>2. IInv /\ [Next]_vars => [Abstract!Next]_<<decl, Cell, source, Outcome>>
  <2> SUFFICES ASSUME IInv, [Next]_vars
               PROVE  [Abstract!Next]_<<decl, Cell, source, Outcome>>
    OBVIOUS
  <2>1. CASE Prove
    BY <2>1, ProveIsOpen DEF Abstract!Next
  <2>2. CASE Clear
    BY <2>2, ClearIsErase DEF Abstract!Next
  <2>3. CASE \E v \in Texts(decl) : Set(v)
    BY <2>3, SetIsWrite DEF Abstract!Next
  <2>4. CASE UNCHANGED vars
    BY <2>4 DEF vars, Cell, Outcome
  <2>5. QED
    BY <2>1, <2>2, <2>3, <2>4 DEF Next
<1>3. Spec => []IInv
  BY Safety, PTL DEF IInv
<1>4. QED
  BY <1>1, <1>2, <1>3, PTL DEF Spec, ImplementsBoundedText, Abstract!Spec, Cell, Outcome

-----------------------------------------------------------------------------
(* Unused capacity *)

\* A byte outside the first n units does not reach them.
LEMMA UnitUnaffected ==
    ASSUME NEW d \in Declaration, Accepted(d), NEW m \in Wire(d), NEW a \in DOMAIN m,
           NEW b, NEW n \in 0 .. d.cap, ~InUnits(d, n, a), NEW k \in 1 .. n
    PROVE  UnitAt(d, [m EXCEPT ![a] = b], k) = UnitAt(d, m, k)
<1> DEFINE at(j) == DataOffset(d) + (k - 1) * UnitSize(d) + j
           other == [m EXCEPT ![a] = b]
<1>1. k \in 1 .. d.cap /\ n \in Nat
  BY DeclarationFacts
<1>2. ASSUME NEW j \in 0 .. UnitSize(d) - 1 PROVE other[at(j)] = m[at(j)]
  <2>1. at(j) \in DOMAIN m /\ InUnits(d, n, at(j))
    BY <1>1, UnitAddress DEF Wire
  <2> HIDE DEF at
  <2>2. at(j) # a
    BY <2>1
  <2>3. QED
    BY <2>1, <2>2
<1>3. QED
  BY <1>2 DEF UnitAt

LEMMA UnusedByte ==
    ASSUME NEW d \in Declaration, Accepted(d), NEW m \in Wire(d), Proof(d, m) = "Ok",
           NEW a \in DOMAIN m, NEW b \in Byte, ~ActiveByte(d, m, a)
    PROVE  /\ Proof(d, [m EXCEPT ![a] = b]) = "Ok"
           /\ Text(d, [m EXCEPT ![a] = b]) = Text(d, m)
<1> DEFINE other == [m EXCEPT ![a] = b]
           n == TextLength(d, m)
<1>1. n \in 0 .. d.cap /\ Text(d, m) \in Texts(d) /\ Len(Text(d, m)) = n
  BY ProofGivesText
<1>2. ~(a < d.width) /\ ~InUnits(d, Len(Stored(d, Text(d, m))), a)
  BY DEF ActiveByte
<1>3. CASE d.form \in Prefixed
  <2>1. d.form \notin Terminated
    BY <1>3 DEF Terminated, Prefixed
  <2>2. ~InUnits(d, n, a)
    BY <1>1, <1>2, <1>3 DEF Stored
  <2>3. n = PrefixAt(d, m)
    BY <1>3 DEF TextLength
  <2>4. PrefixAt(d, other) = PrefixAt(d, m)
    <3>1. d.width \in Width /\ 0 .. d.width - 1 \subseteq DOMAIN m
      BY <1>3, DeclarationFacts, LayoutFacts DEF Width, Wire
    <3>2. \A j \in 0 .. d.width - 1 : j # a
      BY <1>2, <3>1 DEF Width
    <3>3. \A j \in 0 .. d.width - 1 : other[j] = m[j]
      BY <3>1, <3>2
    <3> HIDE DEF other
    <3>4. QED
      BY <3>3 DEF PrefixAt
  <2>5. \A k \in 1 .. n : UnitAt(d, other, k) = UnitAt(d, m, k)
    <3> HIDE DEF n
    <3>1. QED
      BY <1>1, <2>2, UnitUnaffected
  <2> HIDE DEF other, n
  <2>6. Text(d, other) = Text(d, m)
    BY <1>3, <2>3, <2>4, <2>5 DEF Text, Active, TextLength
  <2>7. Proof(d, other) = Proof(d, m)
    BY <1>3, <2>1, <2>4, <2>6 DEF Proof
  <2>8. QED
    BY <2>6, <2>7 DEF other
<1>4. CASE d.form \in Terminated
  <2>1. d.form \notin Prefixed
    BY <1>4 DEF Terminated, Prefixed
  <2>2. PICK i \in 0 .. d.cap - 1 : NulAfter(d, m, i)
    BY <1>4, <2>1 DEF Proof
  <2>3. n = i
    BY <1>4, <2>2, TerminatedLength
  <2>4. i \in Nat /\ i + 1 \in 0 .. d.cap /\ i + 1 \in 1 .. i + 1 /\ 1 .. i \subseteq 1 .. i + 1
    BY <2>2, DeclarationFacts
  <2>5. Len(Stored(d, Text(d, m))) = i + 1
    <3>1. Text(d, m) \in Seq(Unit(d))
      BY <1>1, TextFacts
    <3> HIDE DEF n
    <3>2. QED
      BY <1>1, <2>1, <2>3, <3>1 DEF Stored
  <2>6. ~InUnits(d, i + 1, a)
    BY <1>2, <2>5
  <2>7. \A k \in 1 .. i + 1 : UnitAt(d, other, k) = UnitAt(d, m, k)
    BY <2>4, <2>6, UnitUnaffected
  <2> HIDE DEF other, n
  <2>8. NulAfter(d, other, i)
    BY <2>2, <2>4, <2>7 DEF NulAfter
  <2>9. TextLength(d, other) = i /\ TextLength(d, m) = i
    BY <1>4, <2>2, <2>8, TerminatedLength
  <2>10. Text(d, other) = Text(d, m)
    BY <2>4, <2>7, <2>9 DEF Text, Active
  <2>11. Proof(d, other) = "Ok"
    BY <1>4, <2>1, <2>2, <2>8 DEF Proof
  <2>12. QED
    BY <2>10, <2>11 DEF other
<1>5. QED
  BY <1>3, <1>4, DeclarationFacts

\* Unused capacity and padding never influence a proof or a read.
THEOREM UnusedIrrelevant == Spec => []UnusedBytesIrrelevant
<1>1. TypeOK => UnusedBytesIrrelevant
  BY UnusedByte DEF TypeOK, UnusedBytesIrrelevant
<1>2. QED
  BY <1>1, TypeCorrect, PTL

\* A byte that a commit changes carries the new text.
LEMMA CommitWritesActive ==
    ASSUME NEW d \in Declaration, Accepted(d), NEW m \in Wire(d), NEW v \in Texts(d),
           Preflight(d, v) = "Ok", NEW a \in DOMAIN m, Commit(d, m, v)[a] # m[a]
    PROVE  ActiveByte(d, Commit(d, m, v), a)
<1>1. Text(d, Commit(d, m, v)) = v
  BY CommitReadsBack
<1>2. a < d.width \/ InUnits(d, Len(Stored(d, v)), a)
  BY DEF Commit, StorePrefix, StoreUnits
<1>3. QED
  BY <1>1, <1>2 DEF ActiveByte

\* set writes the new text's bytes only; the tail and the padding survive.
THEOREM SetFrame == Spec => SetKeepsUnusedBytes
<1> DEFINE Frame == \/ \A a \in DOMAIN mem' : mem'[a] = 0
                    \/ \A a \in DOMAIN mem :
                          mem'[a] # mem[a] => ActiveByte(decl, mem', a)
<1>1. IInv /\ [Next]_vars => [Frame]_vars
  <2> SUFFICES ASSUME IInv, [Next]_vars PROVE [Frame]_vars
    OBVIOUS
  <2>1. CASE Prove
    BY <2>1 DEF Prove
  <2>2. CASE Clear
    <3>1. \A a \in DOMAIN mem' : mem'[a] = 0
      BY <2>2 DEF Clear
    <3>2. QED
      BY <3>1
  <2>3. ASSUME NEW v \in Texts(decl), Set(v) PROVE Frame
    <3>1. decl \in Declaration /\ Accepted(decl) /\ mem \in Wire(decl)
      BY DEF IInv, TypeOK
    <3>2. CASE Preflight(decl, v) = "Ok"
      <4>1. mem' = Commit(decl, mem, v)
        BY <2>3, <3>2 DEF Set
      <4>2. \A a \in DOMAIN mem : mem'[a] # mem[a] => ActiveByte(decl, mem', a)
        BY <3>1, <3>2, <4>1, CommitWritesActive
      <4>3. QED
        BY <4>2
    <3>3. CASE Preflight(decl, v) # "Ok"
      BY <2>3, <3>3 DEF Set
    <3>4. QED
      BY <3>2, <3>3
  <2>4. CASE UNCHANGED vars
    BY <2>4
  <2>5. QED
    BY <2>1, <2>2, <2>3, <2>4 DEF Next
<1>2. Spec => []IInv
  BY Safety, PTL DEF IInv
<1>3. QED
  BY <1>1, <1>2, PTL DEF Spec, SetKeepsUnusedBytes
=============================================================================
