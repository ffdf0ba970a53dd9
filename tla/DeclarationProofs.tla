------------------------- MODULE DeclarationProofs --------------------------
(***************************************************************************)
(* What the emitters may rely on in an accepted item, for every            *)
(* declaration: options where they look for them, tag links that pair up,  *)
(* discriminants that round trip, and methods without a name twice.        *)
(***************************************************************************)
EXTENDS Declaration, FiniteSetTheorems, WellFoundedInduction, TLAPS

-----------------------------------------------------------------------------
(* The codec *)

\* Division with remainder.
LEMMA DivMod ==
    ASSUME NEW n \in Nat, NEW r \in Nat, r > 0
    PROVE  /\ n \div r \in Nat
           /\ n % r \in 0 .. r - 1
           /\ n = r * (n \div r) + (n % r)
<1>1. n \div r \in Nat
  OBVIOUS
<1>2. n % r \in 0 .. r - 1
  OBVIOUS
<1>3. n = r * (n \div r) + (n % r)
  OBVIOUS
<1>4. QED
  BY <1>1, <1>2, <1>3

\* A quotient is small when the dividend is.
LEMMA DivBound ==
    ASSUME NEW n \in Nat, NEW r \in Nat, NEW m \in Nat, r > 0, n < r * m
    PROVE  n \div r < m
  OBVIOUS

LEMMA PlaceInWord ==
    ASSUME NEW w \in Width, NEW order, NEW j \in 0 .. w - 1
    PROVE  /\ Place(j, w, order) \in 0 .. w - 1
           /\ Place(Place(j, w, order), w, order) = j
  BY DEF Width, Place

\* A discriminant the representation holds is decoded as it was encoded.
LEMMA RoundTrip ==
    ASSUME NEW w \in Width, NEW order, NEW n \in Nat, Represents(n, w)
    PROVE  FromBytes(ToBytes(n, w, order), w, order) = n
<1> DEFINE b == ToBytes(n, w, order)
           d(p) == b[Place(p, w, order)]
<1>1. ASSUME NEW p \in 0 .. w - 1 PROVE d(p) = Quotient(n, p) % Radix
  BY PlaceInWord DEF ToBytes, Digit
<1> DEFINE q1 == n \div Radix
           q2 == q1 \div Radix
           q3 == q2 \div Radix
<1>2. /\ q1 \in Nat /\ q2 \in Nat /\ q3 \in Nat
      /\ n = Radix * q1 + (n % Radix)
      /\ q1 = Radix * q2 + (q1 % Radix)
      /\ q2 = Radix * q3 + (q2 % Radix)
  <2>1. q1 \in Nat /\ n = Radix * q1 + (n % Radix)
    BY DivMod, RadixAssumption
  <2> HIDE DEF q1
  <2>2. q2 \in Nat /\ q1 = Radix * q2 + (q1 % Radix)
    BY <2>1, DivMod, RadixAssumption
  <2> HIDE DEF q2
  <2>3. q3 \in Nat /\ q2 = Radix * q3 + (q2 % Radix)
    BY <2>2, DivMod, RadixAssumption
  <2>4. QED
    BY <2>1, <2>2, <2>3
<1>3. ASSUME NEW x \in Nat, x < Radix PROVE x % Radix = x
  BY <1>3, RadixAssumption
<1>4. CASE w = 1
  <2>1. FromBytes(b, w, order) = d(0)
    BY <1>4 DEF FromBytes
  <2>2. d(0) = n % Radix
    BY <1>1, <1>4 DEF Quotient
  <2>3. n < Radix
    BY <1>4 DEF Represents, Values
  <2>4. QED
    BY <1>3, <2>1, <2>2, <2>3
<1>5. CASE w = 2
  <2>1. FromBytes(b, w, order) = d(0) + Radix * d(1)
    BY <1>5 DEF FromBytes
  <2>2. d(0) = n % Radix /\ d(1) = q1 % Radix
    BY <1>1, <1>5 DEF Quotient
  <2>3. q1 < Radix
    BY <1>5, DivBound, RadixAssumption DEF Represents, Values
  <2>4. QED
    BY <1>2, <1>3, <2>1, <2>2, <2>3, RadixAssumption
<1>6. CASE w = 4
  <2>1. FromBytes(b, w, order) = d(0) + Radix * (d(1) + Radix * (d(2) + Radix * d(3)))
    BY <1>6 DEF FromBytes
  <2>2. d(0) = n % Radix /\ d(1) = q1 % Radix /\ d(2) = q2 % Radix /\ d(3) = q3 % Radix
    BY <1>1, <1>6 DEF Quotient
  <2>3. q3 < Radix
    <3>1. Radix * Radix \in Nat /\ Radix * (Radix * Radix) \in Nat
      BY RadixAssumption
    <3>2. q1 < Radix * (Radix * Radix)
      BY <1>6, <3>1, DivBound, RadixAssumption DEF Represents, Values
    <3>3. q2 < Radix * Radix
      BY <1>2, <3>1, <3>2, DivBound, RadixAssumption
    <3>4. QED
      BY <1>2, <3>3, DivBound, RadixAssumption
  <2>4. d(3) = q3
    BY <1>2, <1>3, <2>2, <2>3
  <2> HIDE DEF d, b, q1, q2, q3
  <2>5. d(2) + Radix * d(3) = q2
    BY <1>2, <2>2, <2>4, RadixAssumption
  <2>6. d(1) + Radix * q2 = q1
    BY <1>2, <2>2, RadixAssumption
  <2>7. d(0) + Radix * q1 = n
    BY <1>2, <2>2, RadixAssumption
  <2>8. FromBytes(b, w, order) = n
    BY <2>1, <2>5, <2>6, <2>7
  <2>9. QED
    BY <2>8 DEF b
<1>7. QED
  BY <1>4, <1>5, <1>6 DEF Width

-----------------------------------------------------------------------------
(* One field *)

CategoryFields == {"cat", "depth", "optional", "capacity", "len_type", "endian",
                   "life", "tagged", "tag_field"}

WellFormed(d) ==
    /\ DOMAIN d.attrs \subseteq Nat
    /\ d.ty.wraps \in Seq([wrap : {"Option", "lookalike", "array"}, length : Int])

\* What classification and options have made of a category.
Fits(c, o) ==
    /\ DOMAIN c = CategoryFields
    /\ c.tag_field = 0
    /\ c.optional \in BOOLEAN
    /\ c.optional => c.cat = "path"
    /\ c.cat \in StringCat => Has(o, "capacity") /\ c.capacity = o["capacity"]
    /\ c.cat \in {"str", "U16Str"} => c.len_type = OptionOr(o, "len_type", "u32")
    /\ c.cat = "path" /\ ~c.optional /\ c.depth = 0 => c.tagged = Has(o, "tag_field")

LEMMA CategoryFits ==
    ASSUME NEW c
    PROVE  /\ DOMAIN Category(c) = CategoryFields
           /\ Category(c).cat = c
           /\ Category(c).depth = 0
           /\ Category(c).optional = FALSE
           /\ Category(c).tag_field = 0
  BY DEF Category, CategoryFields

LEMMA BorrowedStringFits ==
    ASSUME NEW base, NEW o, base.of \in StringCat, BorrowedString(base, o) # Refused
    PROVE  Fits(BorrowedString(base, o), o)
<1> DEFINE c == BorrowedString(base, o)
<1>1. Has(o, "capacity")
  BY DEF BorrowedString
<1>2. c = [Category(base.of) EXCEPT
              !.capacity = o["capacity"],
              !.len_type = IF base.of \in {"str", "U16Str"}
                           THEN OptionOr(o, "len_type", "u32") ELSE "none",
              !.life = base.life]
  BY <1>1 DEF BorrowedString
<1> HIDE DEF c
<1>3. /\ DOMAIN c = CategoryFields /\ c.tag_field = 0 /\ c.optional = FALSE
      /\ c.cat = base.of /\ c.capacity = o["capacity"]
      /\ base.of \in {"str", "U16Str"} => c.len_type = OptionOr(o, "len_type", "u32")
  BY <1>2 DEF Category, CategoryFields
<1>4. c.cat # "path"
  BY <1>3 DEF StringCat
<1>5. QED
  BY <1>1, <1>3, <1>4 DEF Fits, c

LEMMA ClassifyBaseFits ==
    ASSUME NEW base, NEW o, ClassifyBase(base, o) # Refused
    PROVE  /\ Fits(ClassifyBase(base, o), o)
           /\ ClassifyBase(base, o).optional = FALSE
<1> DEFINE c == ClassifyBase(base, o)
<1>1. CASE base.is \in {"primitive", "bool"}
  <2>1. c = Category(base.is)
    BY <1>1 DEF ClassifyBase, IsString
  <2>2. c.cat \notin StringCat /\ c.cat # "path" /\ c.cat \notin {"str", "U16Str"}
    BY <1>1, <2>1, CategoryFits DEF StringCat
  <2>3. QED
    BY <2>1, <2>2, CategoryFits DEF Fits
<1>2. CASE IsString(base)
  <2>1. c = BorrowedString(base, o) /\ base.of \in StringCat
    BY <1>2 DEF ClassifyBase, IsString, StringCat
  <2>2. Fits(c, o)
    BY <2>1, BorrowedStringFits
  <2>3. c.optional = FALSE
    <3>1. Has(o, "capacity")
      BY <2>1 DEF BorrowedString
    <3>2. QED
      BY <2>1, <3>1 DEF BorrowedString, Category
  <2>4. QED
    BY <2>2, <2>3
<1>3. CASE base.is = "ref" /\ base.of = "bytes"
  <2>1. c = [Category("bytes") EXCEPT !.life = base.life]
    BY <1>3 DEF ClassifyBase, IsString, StringCat
  <2> HIDE DEF c
  <2>2. /\ DOMAIN c = CategoryFields /\ c.tag_field = 0 /\ c.optional = FALSE
        /\ c.cat = "bytes"
    BY <2>1 DEF Category, CategoryFields
  <2>3. QED
    BY <2>2 DEF Fits, StringCat, c
<1>4. CASE base.is = "path"
  <2>1. c = [Category("path") EXCEPT !.tagged = Has(o, "tag_field")]
    BY <1>4 DEF ClassifyBase, IsString
  <2> HIDE DEF c
  <2>2. /\ DOMAIN c = CategoryFields /\ c.tag_field = 0 /\ c.optional = FALSE
        /\ c.cat = "path" /\ c.tagged = Has(o, "tag_field")
    BY <2>1 DEF Category, CategoryFields
  <2>3. QED
    BY <2>2 DEF Fits, StringCat, c
<1>5. QED
  BY <1>1, <1>2, <1>3, <1>4 DEF ClassifyBase

LEMMA ClassifyFieldFits ==
    ASSUME NEW ty, NEW o,
           ty.wraps \in Seq([wrap : {"Option", "lookalike", "array"}, length : Int]),
           ClassifyField(ty, o) # Refused
    PROVE  Fits(ClassifyField(ty, o), o)
<1> DEFINE c == ClassifyField(ty, o)
<1>1. CASE ty.wraps = <<>>
  BY <1>1, ClassifyBaseFits DEF ClassifyField
<1>2. CASE ty.wraps # <<>>
  <2>1. Head(ty.wraps).wrap \in {"Option", "lookalike", "array"}
        /\ Len(ty.wraps) \in Nat /\ Len(ty.wraps) # 0
    <3> DEFINE W == [wrap : {"Option", "lookalike", "array"}, length : Int]
               ws == ty.wraps
    <3>1. ws \in Seq(W) /\ ws # <<>>
      BY <1>2
    <3>2. \A w \in W : w.wrap \in {"Option", "lookalike", "array"}
      OBVIOUS
    <3> HIDE DEF W, ws
    <3>3. Head(ws) \in W /\ Len(ws) \in Nat /\ Len(ws) # 0
      BY <3>1
    <3>4. Head(ws).wrap \in {"Option", "lookalike", "array"}
      BY <3>2, <3>3
    <3>5. QED
      BY <3>3, <3>4 DEF ws
  <2>2. CASE Head(ty.wraps).wrap = "Option"
    <3>1. c = ClassifyOptional(Tail(ty.wraps), ty.base)
      BY <1>2, <2>2 DEF ClassifyField
    <3>2. c = [Category("path") EXCEPT !.optional = TRUE, !.depth = Len(Tail(ty.wraps))]
      BY <3>1 DEF ClassifyOptional
    <3> HIDE DEF c
    <3>3. /\ DOMAIN c = CategoryFields /\ c.tag_field = 0 /\ c.optional = TRUE
          /\ c.cat = "path"
      BY <3>2 DEF Category, CategoryFields
    <3>4. QED
      BY <3>3 DEF Fits, StringCat, c
  <2>3. CASE Head(ty.wraps).wrap = "array"
    <3> DEFINE leaf == ClassifyBase(ty.base, o)
    <3>1. c = ClassifyArray(ty.wraps, ty.base, o)
      BY <1>2, <2>3 DEF ClassifyField
    <3>2. leaf # Refused /\ c = [leaf EXCEPT !.depth = Len(ty.wraps), !.tagged = FALSE]
      BY <3>1 DEF ClassifyArray
    <3>3. Fits(leaf, o) /\ leaf.optional = FALSE
      BY <3>2, ClassifyBaseFits
    <3> HIDE DEF c, leaf
    <3>4. /\ DOMAIN c = CategoryFields /\ c.tag_field = 0 /\ c.optional = FALSE
          /\ c.cat = leaf.cat /\ c.depth # 0
          /\ c.capacity = leaf.capacity /\ c.len_type = leaf.len_type
      BY <2>1, <3>2, <3>3 DEF Fits, CategoryFields
    <3>5. QED
      BY <3>3, <3>4 DEF Fits, c
  <2>4. CASE Head(ty.wraps).wrap = "lookalike"
    BY <1>2, <2>4 DEF ClassifyField
  <2>5. QED
    BY <2>1, <2>2, <2>3, <2>4
<1>3. QED
  BY <1>1, <1>2

\* The value of an accepted attribute is the value its key is read with.
LEMMA OptionValue ==
    ASSUME NEW attrs, DOMAIN attrs \subseteq Nat, NEW keys, AttrsAccepted(attrs, keys),
           NEW n \in DOMAIN attrs
    PROVE  /\ Has(OptionsOf(attrs), attrs[n].key)
           /\ OptionsOf(attrs)[attrs[n].key] = attrs[n].value
<1> DEFINE k == attrs[n].key
           Last(j) == attrs[j].key = k /\ \A i \in DOMAIN attrs : attrs[i].key = k => i <= j
           last == CHOOSE j \in DOMAIN attrs : Last(j)
<1>1. \A i \in DOMAIN attrs : attrs[i].key = k => i = n
  BY DEF AttrsAccepted
<1>2. Last(n)
  BY <1>1
<1>3. last \in DOMAIN attrs /\ Last(last)
  <2> HIDE DEF Last
  <2>1. QED
    BY <1>2
<1>4. last = n
  BY <1>1, <1>3
<1>5. k \in {attrs[j].key : j \in DOMAIN attrs}
  OBVIOUS
<1>6. OptionsOf(attrs)[k] = attrs[last].value
  BY <1>5 DEF OptionsOf
<1>7. k \in DOMAIN OptionsOf(attrs)
  BY <1>5 DEF OptionsOf
<1>8. QED
  BY <1>4, <1>6, <1>7 DEF Has

\* Where the emitters look for the options of field f.
Applied(f, default) ==
    /\ \A n \in DOMAIN f.attrs :
          LET a == f.attrs[n]
          IN CASE a.key = "capacity" -> f.category.capacity = a.value
               [] a.key = "len_type" -> f.category.len_type = a.value
               [] a.key = "endian" -> f.wire_endian = a.value
               [] a.key = "align" -> f.options["align"] = a.value
               [] a.key = "tag_field" -> f.category.tagged
    /\ f.category.cat \in {"str", "U16Str"} => f.category.endian = f.wire_endian
    /\ ~Has(f.options, "endian") => f.wire_endian = default

FieldFields == {"cat", "name", "attrs", "options", "category", "wire_endian"}

SoundField(f, default) ==
    /\ DOMAIN f = FieldFields
    /\ DOMAIN f.category = CategoryFields
    /\ Applied(f, default)

\* The IR of an accepted field.
LEMMA FieldIrSound ==
    ASSUME NEW d, WellFormed(d), NEW default, FieldIr(d, default) # Refused
    PROVE  /\ SoundField(FieldIr(d, default), default)
           /\ FieldIr(d, default).category.tag_field = 0
<1> DEFINE o == OptionsOf(d.attrs)
           c == ClassifyField(d.ty, o)
           applied == IF c = Refused THEN Refused ELSE ApplyFieldOptions(c, o, default)
           f == FieldIr(d, default)
<1>1. AttrsAccepted(d.attrs, FieldKey) /\ applied # Refused
  BY DEF FieldIr
<1>2. f = [cat |-> "field", name |-> d.name, attrs |-> d.attrs, options |-> o,
           category |-> applied, wire_endian |-> OptionOr(o, "endian", default)]
  <2> HIDE DEF o, applied
  <2>1. QED
    BY <1>1 DEF FieldIr, o, applied
<1>3. c # Refused /\ applied = ApplyFieldOptions(c, o, default)
  BY <1>1
<1>4. Fits(c, o)
  BY <1>3, ClassifyFieldFits DEF WellFormed
<1>5. \A n \in DOMAIN d.attrs : /\ Has(o, d.attrs[n].key)
                                /\ o[d.attrs[n].key] = d.attrs[n].value
                                /\ d.attrs[n].key \in FieldKey
  BY <1>1, OptionValue DEF WellFormed, AttrsAccepted
<1>6. applied # Refused
  BY <1>1
<1> HIDE DEF o, c, applied, f
<1>7. DOMAIN o \subseteq Applicable(c)
  BY <1>3, <1>6 DEF ApplyFieldOptions
<1>8. applied = IF c.cat \in {"str", "U16Str"}
                THEN [c EXCEPT !.endian = OptionOr(o, "endian", default)] ELSE c
  BY <1>3, <1>6 DEF ApplyFieldOptions
<1>9. /\ DOMAIN applied = CategoryFields /\ applied.tag_field = 0
      /\ applied.cat = c.cat /\ applied.capacity = c.capacity
      /\ applied.len_type = c.len_type /\ applied.tagged = c.tagged
      /\ c.cat \in {"str", "U16Str"} => applied.endian = OptionOr(o, "endian", default)
  BY <1>4, <1>8 DEF Fits, CategoryFields
<1>10. /\ DOMAIN f = FieldFields /\ f.category = applied /\ f.attrs = d.attrs
       /\ f.options = o /\ f.wire_endian = OptionOr(o, "endian", default)
  BY <1>2 DEF FieldFields
<1>11. ASSUME NEW n \in DOMAIN d.attrs
       PROVE  LET a == d.attrs[n]
              IN CASE a.key = "capacity" -> applied.capacity = a.value
                   [] a.key = "len_type" -> applied.len_type = a.value
                   [] a.key = "endian" -> f.wire_endian = a.value
                   [] a.key = "align" -> o["align"] = a.value
                   [] a.key = "tag_field" -> applied.tagged
  <2> DEFINE a == d.attrs[n]
  <2>1. Has(o, a.key) /\ o[a.key] = a.value /\ a.key \in FieldKey
    BY <1>5
  <2>2. a.key \in Applicable(c)
    BY <1>7, <2>1 DEF Has
  <2> HIDE DEF a
  <2>3. CASE a.key = "capacity"
    <3>1. c.cat \in StringCat
      BY <2>2, <2>3 DEF Applicable, StringCat
    <3>2. applied.capacity = a.value
      BY <1>4, <1>9, <2>1, <2>3, <3>1 DEF Fits
    <3>3. QED
      BY <2>3, <3>2 DEF a
  <2>4. CASE a.key = "len_type"
    <3>1. c.cat \in {"str", "U16Str"}
      BY <2>2, <2>4 DEF Applicable, StringCat
    <3>2. applied.len_type = a.value
      BY <1>4, <1>9, <2>1, <2>4, <3>1 DEF Fits, OptionOr
    <3>3. QED
      BY <2>4, <3>2 DEF a
  <2>5. CASE a.key = "endian"
    BY <1>10, <2>1, <2>5 DEF OptionOr, a
  <2>6. CASE a.key = "align"
    BY <2>1, <2>6 DEF a
  <2>7. CASE a.key = "tag_field"
    <3>1. c.cat = "path" /\ ~c.optional /\ c.depth = 0
      BY <2>2, <2>7 DEF Applicable, StringCat
    <3>2. applied.tagged
      BY <1>4, <1>9, <2>1, <2>7, <3>1 DEF Fits
    <3>3. QED
      BY <2>7, <3>2 DEF a
  <2>8. QED
    BY <2>1, <2>3, <2>4, <2>5, <2>6, <2>7 DEF FieldKey
<1>12. Applied(f, default)
  BY <1>9, <1>10, <1>11 DEF Applied, OptionOr
<1>13. QED
  BY <1>9, <1>10, <1>12 DEF SoundField, f

-----------------------------------------------------------------------------
(* Induction over the naturals, stated with sets *)

LEMMA MinimalNat ==
    ASSUME NEW T, T \subseteq Nat, T # {}
    PROVE  \E x \in T : \A y \in T : ~(y < x)
<1> DEFINE R == OpToRel(<, Nat)
<1>1. IsWellFoundedOn(R, Nat)
  BY NatLessThanWellFounded
<1>2. \A x, y \in Nat : x < y => <<x, y>> \in R
  BY DEF OpToRel
<1> HIDE DEF R
<1>3. PICK x \in T : \A y \in T : ~(<<y, x>> \in R)
  BY <1>1, WFMin
<1>4. QED
  BY <1>2, <1>3, Zenon

LEMMA LeastNat ==
    ASSUME NEW T, T \subseteq Nat, T # {}
    PROVE  \E x \in T : \A y \in T : x <= y
<1>1. PICK x \in T : \A y \in T : ~(y < x)
  BY MinimalNat
<1>2. \A y \in T : x <= y
  BY <1>1
<1>3. QED
  BY <1>2

\* What holds at 0 and is passed on below n holds up to n.
LEMMA UpTo ==
    ASSUME NEW n \in Nat, NEW S, 0 \in S,
           \A k \in 0 .. n - 1 : k \in S => k + 1 \in S
    PROVE  0 .. n \subseteq S
<1> DEFINE Bad == {k \in 0 .. n : k \notin S}
<1>1. SUFFICES ASSUME Bad # {} PROVE FALSE
  OBVIOUS
<1>2. PICK k \in Bad : \A j \in Bad : k <= j
  <2>1. Bad \subseteq Nat
    OBVIOUS
  <2> HIDE DEF Bad
  <2>2. QED
    BY <1>1, <2>1, LeastNat
<1>3. k # 0 /\ k \in 0 .. n /\ k \notin S
  BY <1>2
<1>4. k - 1 \in 0 .. n - 1 /\ k - 1 \notin Bad
  BY <1>2, <1>3
<1>5. QED
  BY <1>3, <1>4

\* A set of indices that is not empty has a last one.
LEMMA LastIndex ==
    ASSUME NEW n \in Nat, NEW T, T \subseteq 1 .. n, T # {}
    PROVE  \E x \in T : \A y \in T : y <= x
<1> DEFINE U == {n - x : x \in T}
<1>1. U \subseteq Nat /\ U # {}
  <2>1. \A x \in T : x \in Nat /\ x <= n
    OBVIOUS
  <2>2. \A x \in T : n - x \in Nat
    BY <2>1
  <2>3. PICK x \in T : TRUE
    OBVIOUS
  <2>4. n - x \in U
    OBVIOUS
  <2>5. QED
    BY <2>2, <2>4
<1>2. PICK u \in U : \A v \in U : u <= v
  <2> HIDE DEF U
  <2>1. QED
    BY <1>1, LeastNat
<1>3. PICK x \in T : u = n - x
  BY <1>2
<1>4. ASSUME NEW y \in T PROVE y <= x
  <2>1. n - y \in U
    OBVIOUS
  <2>2. n - x <= n - y
    BY <1>2, <1>3, <2>1
  <2>3. QED
    BY <2>2
<1>5. QED
  BY <1>4

-----------------------------------------------------------------------------
(* The inductive invariant *)

ItemKind == {"none", "struct", "scalar", "tagged"}

Staged ==
    /\ kind \in ItemKind
    /\ \E S : members \in Seq(S)
    /\ pc = "container" => members = <<>> /\ kind = "none"
    /\ pc = "link" => kind = "struct"

FieldsSound ==
    kind = "struct" => \A j \in DOMAIN members : SoundField(members[j], ContainerEndian)

\* The links of a record after link_external_tags.
Linked ==
    /\ \A j \in Tagged :
          LET t == members[j].category.tag_field
          IN /\ t \in DOMAIN members \ {j}
             /\ IsPlainPath(members[t].category)
             /\ members[t].name = members[j].options["tag_field"]
    /\ \A j \in DOMAIN members \ Tagged : members[j].category.tag_field = 0
    /\ \A j, k \in Tagged :
          members[j].category.tag_field = members[k].category.tag_field => j = k

LinksSound ==
    kind = "struct" =>
        /\ pc \in {"members", "link"} => \A j \in DOMAIN members : members[j].category.tag_field = 0
        /\ pc \in {"lifetimes", "names", "accepted"} => Linked

RawsSound ==
    kind = "scalar" =>
        /\ repr \in {"u8", "u16", "u32"}
        /\ \A j \in DOMAIN members : members[j].raw \in Nat /\ members[j].raw < Values(ReprWidth)
        /\ \A j, k \in DOMAIN members : members[j].raw = members[k].raw => j = k

NamesSound == pc = "accepted" => IsInjective(ReservedNames \o AllMemberNames)

Inv == Staged /\ FieldsSound /\ LinksSound /\ RawsSound /\ NamesSound

LEMMA EmptySeq == DOMAIN <<>> = {} /\ <<>> \in Seq({})
  OBVIOUS

LEMMA Appended ==
    ASSUME NEW S, NEW s \in Seq(S), NEW x
    PROVE  /\ \E T : Append(s, x) \in Seq(T)
           /\ DOMAIN Append(s, x) = (DOMAIN s) \cup {Len(s) + 1}
           /\ \A j \in DOMAIN s : Append(s, x)[j] = s[j]
           /\ Append(s, x)[Len(s) + 1] = x
           /\ Len(s) + 1 \notin DOMAIN s /\ Len(s) \in Nat
<1> DEFINE T == S \cup {x}
<1>1. s \in Seq(T) /\ x \in T
  OBVIOUS
<1>2. Append(s, x) \in Seq(T)
  BY <1>1
<1> HIDE DEF T
<1>3. DOMAIN Append(s, x) = (DOMAIN s) \cup {Len(s) + 1}
  BY <1>1
<1>4. (\A j \in DOMAIN s : Append(s, x)[j] = s[j]) /\ Append(s, x)[Len(s) + 1] = x
  BY <1>1
<1>5. Len(s) + 1 \notin DOMAIN s /\ Len(s) \in Nat
  BY <1>1
<1>6. QED
  BY <1>2, <1>3, <1>4, <1>5

LEMMA InitInv == Init => Inv
  BY EmptySeq DEF Init, Inv, Staged, FieldsSound, LinksSound, RawsSound, NamesSound, ItemKind

\* A step that only moves on, or refuses.
LEMMA GoInv ==
    ASSUME Inv, NEW next, Go(next),
           next = "refused" \/ (next = "link" /\ pc = "members" /\ kind = "struct")
           \/ (next = "lifetimes" /\ kind # "struct") \/ (next = "names" /\ pc = "lifetimes")
           \/ (next = "accepted" /\ pc = "names" /\ IsInjective(ReservedNames \o AllMemberNames))
    PROVE  Inv'
<1>1. UNCHANGED <<kind, options, declared, repr, members>> /\ pc' = next
  BY DEF Go
<1>2. Staged' /\ FieldsSound'
  BY <1>1 DEF Inv, Staged, FieldsSound, ContainerEndian
<1>3. LinksSound'
  <2>1. Linked' <=> Linked
    BY <1>1 DEF Linked, Tagged
  <2>2. QED
    BY <1>1, <2>1 DEF Inv, LinksSound
<1>4. RawsSound'
  BY <1>1 DEF Inv, RawsSound, ReprWidth
<1>5. NamesSound'
  <2>1. (ReservedNames \o AllMemberNames)' = ReservedNames \o AllMemberNames
    BY <1>1 DEF ReservedNames, AllMemberNames, MemberNames, IsTagSibling
  <2>2. pc' = "accepted" => IsInjective(ReservedNames \o AllMemberNames)
    BY <1>1
  <2>3. QED
    BY <2>1, <2>2 DEF NamesSound, IsInjective
<1>6. QED
  BY <1>2, <1>3, <1>4, <1>5 DEF Inv

LEMMA RefuseInv == Inv /\ Refuse => Inv'
<1>1. Refuse => Go("refused")
  BY DEF Refuse, Go
<1>2. QED
  BY <1>1, GoInv

LEMMA ContainerOptionInv == ASSUME Inv, NEW a, ContainerOption(a) PROVE Inv'
<1>1. CASE Refuse
  BY <1>1, RefuseInv
<1>2. CASE UNCHANGED <<pc, kind, declared, repr, members>>
  <2>1. pc = "container" /\ members = <<>> /\ kind = "none"
    BY DEF ContainerOption, Inv, Staged
  <2>2. QED
    BY <1>2, <2>1, EmptySeq
       DEF Inv, Staged, FieldsSound, LinksSound, RawsSound, NamesSound, ItemKind
<1>3. QED
  BY <1>1, <1>2 DEF ContainerOption

LEMMA BeginItemInv ==
    ASSUME Inv, NEW k \in {"struct", "scalar", "tagged", "union", "other"}, NEW l, NEW r,
           NEW m \in BOOLEAN, BeginItem(k, l, r, m)
    PROVE  Inv'
<1>1. CASE Refuse
  BY <1>1, RefuseInv
<1>2. CASE ~Refuse
  <2>1. /\ k \notin {"union", "other"} /\ (k = "scalar" => ReprAccepted(r))
        /\ pc' = "members" /\ kind' = k /\ UNCHANGED members
        /\ repr' = IF k = "scalar" THEN r[1] ELSE "none"
    BY <1>2 DEF BeginItem
  <2>2. members = <<>> /\ DOMAIN members = {}
    BY EmptySeq DEF BeginItem, Inv, Staged
  <2>3. Staged' /\ FieldsSound' /\ LinksSound' /\ NamesSound'
    BY <2>1, <2>2, EmptySeq DEF Inv, Staged, FieldsSound, LinksSound, NamesSound, ItemKind
  <2>4. RawsSound'
    BY <2>1, <2>2 DEF RawsSound, ReprAccepted
  <2>5. QED
    BY <2>3, <2>4 DEF Inv
<1>3. QED
  BY <1>1, <1>2

\* Reading one more member keeps the sequence a sequence.
LEMMA ReadStages ==
    ASSUME Inv, NEW ir, Read(ir), pc = "members"
    PROVE  /\ Staged'
           /\ DOMAIN members' = (DOMAIN members) \cup {Len(members) + 1}
           /\ \A j \in DOMAIN members : members'[j] = members[j]
           /\ members'[Len(members) + 1] = ir
           /\ Len(members) + 1 \notin DOMAIN members /\ Len(members) \in Nat
<1>1. PICK S : members \in Seq(S)
  BY DEF Inv, Staged
<1>2. members' = Append(members, ir)
  BY DEF Read
<1>3. \E T : members' \in Seq(T)
  BY <1>1, <1>2, Appended, Zenon
<1>4. Staged'
  BY <1>3 DEF Inv, Staged, Read
<1>5. QED
  BY <1>1, <1>2, <1>4, Appended

LEMMA ReadFieldInv ==
    ASSUME Inv, NEW d \in FieldDecls(Len(members) + 1), ReadField(d)
    PROVE  Inv'
<1> DEFINE ir == FieldIr(d, ContainerEndian)
<1>1. CASE ir = Refused
  BY <1>1, RefuseInv DEF ReadField
<1>2. CASE ir # Refused
  <2>1. Read(ir) /\ pc = "members" /\ kind = "struct" /\ Len(members) < MaxMembers
    BY <1>2 DEF ReadField
  <2> HIDE DEF ir
  <2>2. /\ Staged'
        /\ DOMAIN members' = (DOMAIN members) \cup {Len(members) + 1}
        /\ \A j \in DOMAIN members : members'[j] = members[j]
        /\ members'[Len(members) + 1] = ir
        /\ Len(members) \in Nat
    BY <2>1, ReadStages
  <2>3. WellFormed(d)
    <3>1. Len(members) + 1 \in 1 .. MaxMembers
      BY <2>1, <2>2, DeclAssumption
    <3>2. QED
      BY <3>1, DeclAssumption DEF WellFormed
  <2>4. SoundField(ir, ContainerEndian) /\ ir.category.tag_field = 0
    BY <1>2, <2>3, FieldIrSound DEF ir
  <2>5. UNCHANGED <<pc, kind, options, declared, repr>>
    BY <2>1 DEF Read
  <2>6. ContainerEndian' = ContainerEndian
    BY <2>5 DEF ContainerEndian
  <2>7. FieldsSound'
    <3>1. ASSUME NEW j \in DOMAIN members' PROVE SoundField(members'[j], ContainerEndian)
      BY <2>1, <2>2, <2>4 DEF Inv, FieldsSound
    <3>2. QED
      BY <2>6, <3>1 DEF FieldsSound
  <2>8. LinksSound'
    <3>1. ASSUME NEW j \in DOMAIN members' PROVE members'[j].category.tag_field = 0
      BY <2>1, <2>2, <2>4 DEF Inv, LinksSound
    <3>2. QED
      BY <2>1, <2>5, <3>1 DEF LinksSound
  <2>9. RawsSound' /\ NamesSound'
    BY <2>1, <2>5 DEF RawsSound, NamesSound
  <2>10. QED
    BY <2>2, <2>7, <2>8, <2>9 DEF Inv
<1>3. QED
  BY <1>1, <1>2

LEMMA ReadScalarVariantInv ==
    ASSUME Inv, NEW d \in ScalarDecls, ReadScalarVariant(d)
    PROVE  Inv'
<1>1. CASE ~DiscriminantAccepted(d)
  BY <1>1, RefuseInv DEF ReadScalarVariant
<1>2. CASE DiscriminantAccepted(d)
  <2>1. Read(d) /\ pc = "members" /\ kind = "scalar"
    BY <1>2 DEF ReadScalarVariant
  <2>2. /\ Staged'
        /\ DOMAIN members' = (DOMAIN members) \cup {Len(members) + 1}
        /\ \A j \in DOMAIN members : members'[j] = members[j]
        /\ members'[Len(members) + 1] = d
    BY <2>1, ReadStages
  <2>3. UNCHANGED <<pc, kind, options, declared, repr>>
    BY <2>1 DEF Read
  <2>4. ReprWidth' = ReprWidth
    BY <2>3 DEF ReprWidth
  <2>5. /\ d.raw \in Nat /\ d.raw < Values(ReprWidth)
        /\ \A j \in DOMAIN members : members[j].raw # d.raw
    <3>1. d.raw \in Int
      BY DeclAssumption
    <3>2. QED
      BY <1>2, <3>1 DEF DiscriminantAccepted
  <2>6. RawsSound
    BY DEF Inv
  <2>7. RawsSound'
    <3>1. ASSUME NEW j \in DOMAIN members'
          PROVE  members'[j].raw \in Nat /\ members'[j].raw < Values(ReprWidth)
      BY <2>1, <2>2, <2>5, <2>6 DEF RawsSound
    <3>2. ASSUME NEW j \in DOMAIN members', NEW k \in DOMAIN members',
                 members'[j].raw = members'[k].raw
          PROVE  j = k
      BY <2>1, <2>2, <2>5, <2>6, <3>2 DEF RawsSound
    <3>3. Values(ReprWidth)' = Values(ReprWidth)
      BY <2>4 DEF Values
    <3>4. QED
      BY <2>1, <2>3, <2>6, <3>1, <3>2, <3>3 DEF RawsSound
  <2>8. FieldsSound' /\ LinksSound' /\ NamesSound'
    BY <2>1, <2>3 DEF FieldsSound, LinksSound, NamesSound
  <2>9. QED
    BY <2>2, <2>7, <2>8 DEF Inv
<1>3. QED
  BY <1>1, <1>2

LEMMA ReadTaggedVariantInv == ASSUME Inv, NEW d, ReadTaggedVariant(d) PROVE Inv'
<1>1. CASE ~TagAccepted(d)
  BY <1>1, RefuseInv DEF ReadTaggedVariant
<1>2. CASE TagAccepted(d)
  <2>1. Read(d) /\ pc = "members" /\ kind = "tagged"
    BY <1>2 DEF ReadTaggedVariant
  <2>2. Staged'
    BY <2>1, ReadStages
  <2>3. FieldsSound' /\ LinksSound' /\ RawsSound' /\ NamesSound'
    BY <2>1 DEF Read, FieldsSound, LinksSound, RawsSound, NamesSound
  <2>4. QED
    BY <2>2, <2>3 DEF Inv
<1>3. QED
  BY <1>1, <1>2

LEMMA EndMembersInv == Inv /\ EndMembers => Inv'
<1> SUFFICES ASSUME Inv, EndMembers PROVE Inv'
  OBVIOUS
<1>1. CASE Refuse
  BY <1>1, RefuseInv
<1>2. CASE ~Refuse
  <2> DEFINE next == IF kind = "struct" THEN "link" ELSE "lifetimes"
  <2>1. Go(next) /\ pc = "members"
    BY <1>2 DEF EndMembers
  <2>2. QED
    BY <2>1, GoInv
<1>3. QED
  BY <1>1, <1>2

LEMMA GenericModelInv == Inv /\ GenericModel => Inv'
<1>1. GenericModel => Refuse \/ (Go("names") /\ pc = "lifetimes")
  BY DEF GenericModel
<1>2. QED
  BY <1>1, GoInv, RefuseInv

LEMMA ValidateGeneratedNamesInv == Inv /\ ValidateGeneratedNames => Inv'
<1>1. ValidateGeneratedNames =>
        Refuse \/ (Go("accepted") /\ pc = "names" /\ IsInjective(ReservedNames \o AllMemberNames))
  BY DEF ValidateGeneratedNames
<1>2. QED
  BY <1>1, GoInv, RefuseInv

LEMMA NextItemInv == NextItem => Inv'
  BY EmptySeq DEF NextItem, Inv, Staged, FieldsSound, LinksSound, RawsSound, NamesSound, ItemKind

LEMMA SameDomain ==
    ASSUME NEW S, NEW s \in Seq(S), NEW f, DOMAIN f = DOMAIN s, f = [j \in DOMAIN f |-> f[j]]
    PROVE  \E T : f \in Seq(T)
<1> DEFINE T == {f[j] : j \in DOMAIN f}
<1>1. DOMAIN f = 1 .. Len(s) /\ Len(s) \in Nat
  OBVIOUS
<1>2. f \in [1 .. Len(s) -> T]
  BY <1>1
<1> HIDE DEF T
<1>3. f \in Seq(T)
  BY <1>1, <1>2
<1>4. QED
  BY <1>3

\* What the lookup finds has the name it looked for.
LEMMA LookupFinds ==
    ASSUME NEW S, members \in Seq(S), NEW name, Lookup(name) # 0
    PROVE  Lookup(name) \in DOMAIN members /\ members[Lookup(name)].name = name
<1> DEFINE found == {j \in DOMAIN members : members[j].name = name}
<1>1. found # {} /\ Lookup(name) = CHOOSE j \in found : \A k \in found : k <= j
  BY DEF Lookup
<1>2. found \subseteq 1 .. Len(members) /\ Len(members) \in Nat
  OBVIOUS
<1>3. \E j \in found : \A k \in found : k <= j
  <2> HIDE DEF found
  <2>1. QED
    BY <1>1, <1>2, LastIndex
<1>4. Lookup(name) \in found
  <2> HIDE DEF found
  <2>1. QED
    BY <1>1, <1>3
<1>5. QED
  BY <1>4

\* Linking sets the tag field of a member and nothing else.
LEMMA LinkOne ==
    ASSUME NEW f, DOMAIN f = FieldFields, DOMAIN f.category = CategoryFields, NEW t
    PROVE  LET g == [f EXCEPT !.category.tag_field = t]
           IN /\ DOMAIN g = FieldFields /\ DOMAIN g.category = CategoryFields
              /\ g.category.tag_field = t
              /\ g.name = f.name /\ g.attrs = f.attrs /\ g.options = f.options
              /\ g.wire_endian = f.wire_endian
              /\ g.category.cat = f.category.cat
              /\ g.category.capacity = f.category.capacity
              /\ g.category.len_type = f.category.len_type
              /\ g.category.endian = f.category.endian
              /\ g.category.tagged = f.category.tagged
  BY DEF FieldFields, CategoryFields

LEMMA LinkKeepsSound ==
    ASSUME NEW f, NEW default, SoundField(f, default), NEW t
    PROVE  SoundField([f EXCEPT !.category.tag_field = t], default)
<1> DEFINE g == [f EXCEPT !.category.tag_field = t]
<1>1. DOMAIN f = FieldFields /\ DOMAIN f.category = CategoryFields /\ Applied(f, default)
  BY DEF SoundField
<1>2. /\ DOMAIN g = FieldFields /\ DOMAIN g.category = CategoryFields
      /\ g.attrs = f.attrs /\ g.options = f.options
      /\ g.wire_endian = f.wire_endian
      /\ g.category.cat = f.category.cat
      /\ g.category.capacity = f.category.capacity
      /\ g.category.len_type = f.category.len_type
      /\ g.category.endian = f.category.endian
      /\ g.category.tagged = f.category.tagged
  BY <1>1, LinkOne
<1> HIDE DEF g
<1>3. Applied(g, default)
  BY <1>1, <1>2 DEF Applied
<1>4. QED
  BY <1>2, <1>3 DEF SoundField, g

LEMMA LinkExternalTagsInv == Inv /\ LinkExternalTags => Inv'
<1> SUFFICES ASSUME Inv, LinkExternalTags PROVE Inv'
  OBVIOUS
<1>1. CASE ~LinksAccepted
  BY <1>1, RefuseInv DEF LinkExternalTags
<1>2. CASE LinksAccepted
  <2> DEFINE linked(j) == [members[j] EXCEPT !.category.tag_field = Sibling(j)]
  <2>1. PICK S : members \in Seq(S)
    BY DEF Inv, Staged
  <2>2. /\ members' = [j \in DOMAIN members |-> IF j \in Tagged THEN linked(j) ELSE members[j]]
        /\ pc' = "lifetimes" /\ UNCHANGED <<kind, options, declared, repr>>
    BY <1>2 DEF LinkExternalTags
  <2>3. /\ kind = "struct"
        /\ \A j \in DOMAIN members : SoundField(members[j], ContainerEndian)
        /\ \A j \in DOMAIN members : members[j].category.tag_field = 0
    BY DEF LinkExternalTags, Inv, Staged, FieldsSound, LinksSound
  <2>4. ASSUME NEW j \in DOMAIN members
        PROVE  SoundField(linked(j), ContainerEndian)
    BY <2>3, LinkKeepsSound
  <2>5. ASSUME NEW j \in DOMAIN members
        PROVE  /\ linked(j).category.tag_field = Sibling(j)
               /\ linked(j).name = members[j].name
               /\ linked(j).options = members[j].options
               /\ linked(j).category.tagged = members[j].category.tagged
    <3>1. DOMAIN members[j] = FieldFields /\ DOMAIN members[j].category = CategoryFields
      BY <2>3 DEF SoundField
    <3>2. QED
      BY <3>1, LinkOne
  <2> HIDE DEF linked
  <2>6. DOMAIN members' = DOMAIN members
    BY <2>2
  <2>7. ASSUME NEW j \in DOMAIN members
        PROVE  /\ j \in Tagged => members'[j] = linked(j)
               /\ j \notin Tagged => members'[j] = members[j]
    BY <2>2
  <2>8. Staged'
    <3>1. members' = [j \in DOMAIN members' |-> members'[j]]
      BY <2>2
    <3>2. \E T : members' \in Seq(T)
      BY <2>1, <2>6, <3>1, SameDomain, Zenon
    <3>3. QED
      BY <2>2, <3>2 DEF Inv, Staged
  <2>9. FieldsSound'
    <3>1. ContainerEndian' = ContainerEndian
      BY <2>2 DEF ContainerEndian
    <3>2. ASSUME NEW j \in DOMAIN members PROVE SoundField(members'[j], ContainerEndian)
      BY <2>3, <2>4, <2>7
    <3>3. QED
      BY <2>6, <3>1, <3>2 DEF FieldsSound
  <2>10. Tagged' = Tagged
    <3>1. ASSUME NEW j \in DOMAIN members
          PROVE  members'[j].category.tagged = members[j].category.tagged
      BY <2>5, <2>7
    <3>2. QED
      BY <2>6, <3>1 DEF Tagged
  <2>11. Tagged \subseteq DOMAIN members
    BY DEF Tagged
  <2>12. ASSUME NEW j \in Tagged
         PROVE  /\ members'[j].category.tag_field = Sibling(j)
                /\ Sibling(j) \in DOMAIN members \ {j}
                /\ IsPlainPath(members'[Sibling(j)].category)
                /\ members'[Sibling(j)].name = members'[j].options["tag_field"]
    <3>1. Sibling(j) \notin {0, j} /\ IsPlainPath(members[Sibling(j)].category)
      BY <1>2 DEF LinksAccepted
    <3>2. /\ Sibling(j) \in DOMAIN members
          /\ members[Sibling(j)].name = members[j].options["tag_field"]
      BY <2>1, <3>1, LookupFinds DEF Sibling
    <3>3. Sibling(j) \notin Tagged
      BY <3>1 DEF Tagged, IsPlainPath
    <3>4. members'[Sibling(j)] = members[Sibling(j)]
      BY <2>7, <3>2, <3>3
    <3>5. /\ members'[j].category.tag_field = Sibling(j)
          /\ members'[j].options = members[j].options
      BY <2>5, <2>7, <2>11
    <3>6. QED
      BY <3>1, <3>2, <3>4, <3>5
  <2>13. Linked'
    <3>1. ASSUME NEW j \in DOMAIN members \ Tagged PROVE members'[j].category.tag_field = 0
      BY <2>3, <2>7
    <3>2. ASSUME NEW j \in Tagged, NEW k \in Tagged,
                 members'[j].category.tag_field = members'[k].category.tag_field
          PROVE  j = k
      BY <1>2, <2>12, <3>2 DEF LinksAccepted
    <3>3. ASSUME NEW j \in Tagged
          PROVE  LET t == members'[j].category.tag_field
                 IN /\ t \in DOMAIN members' \ {j}
                    /\ IsPlainPath(members'[t].category)
                    /\ members'[t].name = members'[j].options["tag_field"]
      BY <2>6, <2>12
    <3>4. QED
      BY <2>6, <2>10, <3>1, <3>2, <3>3 DEF Linked, IsPlainPath
  <2>14. LinksSound' /\ RawsSound' /\ NamesSound'
    BY <2>2, <2>3, <2>13 DEF LinksSound, RawsSound, NamesSound
  <2>15. QED
    BY <2>8, <2>9, <2>14 DEF Inv
<1>3. QED
  BY <1>1, <1>2

LEMMA NextInv == Inv /\ [Next]_vars => Inv'
<1> SUFFICES ASSUME Inv, [Next]_vars PROVE Inv'
  OBVIOUS
<1>1. ASSUME NEW a \in ContainerAttrs, ContainerOption(a) PROVE Inv'
  BY <1>1, ContainerOptionInv
<1>2. ASSUME NEW k \in {"struct", "scalar", "tagged", "union", "other"},
             NEW l \in Generics, NEW r \in Reprs, NEW m \in BOOLEAN, BeginItem(k, l, r, m)
      PROVE  Inv'
  BY <1>2, BeginItemInv
<1>3. ASSUME NEW d \in FieldDecls(Len(members) + 1), ReadField(d) PROVE Inv'
  BY <1>3, ReadFieldInv
<1>4. ASSUME NEW d \in ScalarDecls, ReadScalarVariant(d) PROVE Inv'
  BY <1>4, ReadScalarVariantInv
<1>5. ASSUME NEW d \in TaggedDecls, ReadTaggedVariant(d) PROVE Inv'
  BY <1>5, ReadTaggedVariantInv
<1>6. CASE UNCHANGED vars
  <2>1. UNCHANGED <<pc, kind, options, declared, repr, members>>
    BY <1>6 DEF vars
  <2>2. Linked' <=> Linked
    BY <2>1 DEF Linked, Tagged
  <2>3. (ReservedNames \o AllMemberNames)' = ReservedNames \o AllMemberNames
    BY <2>1 DEF ReservedNames, AllMemberNames, MemberNames, IsTagSibling
  <2>4. NamesSound'
    BY <2>1, <2>3 DEF Inv, NamesSound, IsInjective
  <2>5. QED
    BY <2>1, <2>2, <2>4
       DEF Inv, Staged, FieldsSound, LinksSound, RawsSound, ContainerEndian, ReprWidth
<1>7. QED
  BY <1>1, <1>2, <1>3, <1>4, <1>5, <1>6, EndMembersInv, LinkExternalTagsInv,
     GenericModelInv, ValidateGeneratedNamesInv, NextItemInv
     DEF Next

\* The IR of every analysis stays sound, whatever the item declares.
THEOREM Invariance == Spec => []Inv
  BY InitInv, NextInv, PTL DEF Spec

-----------------------------------------------------------------------------
(* What an accepted item promises *)

LEMMA TagLinks == Inv => TagLinksAreSound
<1> SUFFICES ASSUME Inv, Accepted("struct") PROVE
        /\ \A j \in Tagged :
              LET t == members[j].category.tag_field
              IN /\ t \in DOMAIN members \ {j}
                 /\ IsPlainPath(members[t].category)
                 /\ members[t].name = members[j].options["tag_field"]
        /\ \A t \in DOMAIN members :
              Cardinality({j \in DOMAIN members : members[j].category.tag_field = t}) <= 1
  BY DEF TagLinksAreSound
<1>1. Linked
  BY DEF Accepted, Inv, LinksSound
<1>2. 0 \notin DOMAIN members
  <2>1. PICK S : members \in Seq(S)
    BY DEF Inv, Staged
  <2>2. QED
    BY <2>1
<1>3. ASSUME NEW t \in DOMAIN members
      PROVE  Cardinality({j \in DOMAIN members : members[j].category.tag_field = t}) <= 1
  <2> DEFINE users == {j \in DOMAIN members : members[j].category.tag_field = t}
  <2>1. ASSUME NEW j \in users, NEW k \in users PROVE j = k
    <3>1. j \in Tagged /\ k \in Tagged
      BY <1>1, <1>2 DEF Linked
    <3>2. QED
      BY <1>1, <3>1 DEF Linked
  <2> HIDE DEF users
  <2>2. users = {} \/ \E j : users = {j}
    BY <2>1
  <2>3. Cardinality(users) \in {0, 1}
    BY <2>2, FS_EmptySet, FS_Singleton
  <2>4. QED
    BY <2>3 DEF users
<1>4. QED
  BY <1>1, <1>3 DEF Linked

LEMMA OptionsApplied == Inv => OptionsAreApplied
<1> SUFFICES ASSUME Inv, Accepted("struct") PROVE OptionsAreApplied
  BY DEF OptionsAreApplied
<1>1. \A j \in DOMAIN members : Applied(members[j], ContainerEndian)
  BY DEF Accepted, Inv, FieldsSound, SoundField
<1>2. QED
  BY <1>1 DEF Applied, OptionsAreApplied

LEMMA ReprValues ==
    ASSUME repr \in {"u8", "u16", "u32"}
    PROVE  ReprWidth \in Width /\ Values(ReprWidth) \in Nat
<1>1. ReprWidth \in {1, 2, 4}
  BY DEF ReprWidth
<1>2. Radix \in Nat /\ Radix * Radix \in Nat /\ Radix * (Radix * (Radix * Radix)) \in Nat
  BY RadixAssumption
<1> HIDE DEF ReprWidth
<1>3. Values(ReprWidth) \in Nat
  BY <1>1, <1>2 DEF Values
<1>4. QED
  BY <1>1, <1>3 DEF Width

LEMMA RoundTrips == Inv => EnumRoundTrips
<1> SUFFICES ASSUME Inv, Accepted("scalar"), NEW j \in DOMAIN members
             PROVE  Loaded(Stored(j)) = j
  BY DEF EnumRoundTrips
<1>1. /\ repr \in {"u8", "u16", "u32"}
      /\ \A k \in DOMAIN members : members[k].raw \in Nat /\ members[k].raw < Values(ReprWidth)
      /\ \A k, l \in DOMAIN members : members[k].raw = members[l].raw => k = l
  BY DEF Accepted, Inv, RawsSound
<1>2. ReprWidth \in Width /\ Values(ReprWidth) \in Nat
  BY <1>1, ReprValues
<1>3. ASSUME NEW k \in DOMAIN members
      PROVE  ToRaw(k) = members[k].raw
  <2> DEFINE v == Values(ReprWidth)
             n == members[k].raw
  <2>1. n \in Nat /\ v \in Nat /\ n < v
    BY <1>1, <1>2
  <2> HIDE DEF v, n
  <2>2. n % v = n
    BY <2>1
  <2>3. QED
    BY <2>2 DEF ToRaw, v, n
<1>4. FromBytes(Stored(j), ReprWidth, ContainerEndian) = ToRaw(j)
  <2>1. ToRaw(j) \in Nat /\ Represents(ToRaw(j), ReprWidth)
    BY <1>1, <1>3 DEF Represents
  <2>2. QED
    BY <1>2, <2>1, RoundTrip DEF Stored
<1>5. PICK S : members \in Seq(S)
  BY DEF Inv, Staged
<1>6. DOMAIN members = 1 .. Len(members) /\ Len(members) \in Nat
  BY <1>5
<1>7. FromRaw(ToRaw(j)) = j
  <2> DEFINE n == ToRaw(j)
             First(i) == ToRaw(i) = n /\ \A k \in 1 .. i - 1 : ToRaw(k) # n
  <2>1. \A k \in DOMAIN members : ToRaw(k) = n => k = j
    BY <1>1, <1>3
  <2>2. First(j)
    BY <1>6, <2>1
  <2>3. FromRaw(n) = CHOOSE i \in DOMAIN members : First(i)
    BY DEF FromRaw
  <2>4. \A i \in DOMAIN members : First(i) => i = j
    BY <2>1
  <2> HIDE DEF First
  <2>5. QED
    BY <2>2, <2>3, <2>4
<1>8. QED
  BY <1>4, <1>7 DEF Loaded

-----------------------------------------------------------------------------
(* The generated names.  Every method of an item has a place of its own in *)
(* the list validate_generated_names found to be without repetition.       *)

\* u[k] concatenates the first k entries of M.
Concatenates(u, M, n) ==
    u = [k \in 0 .. n |-> IF k = 0 THEN <<>> ELSE u[k - 1] \o M[k]]

LEMMA ConcatenationExists ==
    ASSUME NEW n \in Nat, NEW M
    PROVE  \E u : Concatenates(u, M, n)
<1> DEFINE S == {m \in Nat : \E u : Concatenates(u, M, m)}
<1>1. 0 \in S
  <2>1. Concatenates([k \in 0 .. 0 |-> <<>>], M, 0)
    BY DEF Concatenates
  <2>2. QED
    BY <2>1
<1>2. ASSUME NEW m \in Nat, NEW u, Concatenates(u, M, m)
      PROVE  Concatenates([k \in 0 .. m + 1 |-> IF k = m + 1 THEN u[m] \o M[m + 1] ELSE u[k]],
                          M, m + 1)
  <2> DEFINE v == [k \in 0 .. m + 1 |-> IF k = m + 1 THEN u[m] \o M[m + 1] ELSE u[k]]
  <2>1. \A k \in 0 .. m : u[k] = IF k = 0 THEN <<>> ELSE u[k - 1] \o M[k]
    BY <1>2 DEF Concatenates
  <2>2. ASSUME NEW k \in 0 .. m + 1
        PROVE  v[k] = IF k = 0 THEN <<>> ELSE v[k - 1] \o M[k]
    <3>1. CASE k = m + 1
      <4>1. v[k] = u[m] \o M[m + 1] /\ v[k - 1] = u[m] /\ k # 0
        BY <3>1
      <4>2. QED
        BY <3>1, <4>1
    <3>2. CASE k # m + 1
      <4>1. k \in 0 .. m /\ v[k] = u[k]
        BY <3>2
      <4>2. k # 0 => v[k - 1] = u[k - 1]
        BY <4>1
      <4>3. QED
        BY <2>1, <4>1, <4>2
    <3>3. QED
      BY <3>1, <3>2
  <2>3. v = [k \in 0 .. m + 1 |-> v[k]]
    OBVIOUS
  <2> HIDE DEF v
  <2>4. v = [k \in 0 .. m + 1 |-> IF k = 0 THEN <<>> ELSE v[k - 1] \o M[k]]
    BY <2>2, <2>3, Zenon
  <2>5. QED
    BY <2>4 DEF Concatenates, v
<1>3. \A k \in 0 .. n - 1 : k \in S => k + 1 \in S
  <2> HIDE DEF Concatenates
  <2>1. ASSUME NEW k \in 0 .. n - 1, k \in S PROVE k + 1 \in S
    <3>1. PICK u : Concatenates(u, M, k)
      BY <2>1
    <3> DEFINE v == [i \in 0 .. k + 1 |-> IF i = k + 1 THEN u[k] \o M[k + 1] ELSE u[i]]
    <3>2. Concatenates(v, M, k + 1)
      BY <1>2, <3>1
    <3> HIDE DEF v
    <3>3. QED
      BY <3>2
  <2>2. QED
    BY <2>1
<1>4. n \in S
  <2> HIDE DEF S
  <2>1. 0 .. n \subseteq S
    BY <1>1, <1>3, UpTo
  <2>2. QED
    BY <2>1
<1>5. QED
  BY <1>4

\* Entry e of M[j] stands behind the e-th place after the first j - 1 entries.
LEMMA ConcatenationPlaces ==
    ASSUME NEW n \in Nat, NEW N, NEW M, \A j \in 1 .. n : M[j] \in Seq(N),
           NEW u, Concatenates(u, M, n)
    PROVE  /\ \A k \in 0 .. n : u[k] \in Seq(N)
           /\ \A j \in 1 .. n : \A k \in j .. n : \A e \in 1 .. Len(M[j]) :
                 /\ Len(u[j - 1]) + e \in 1 .. Len(u[k])
                 /\ u[k][Len(u[j - 1]) + e] = M[j][e]
<1>1. u[0] = <<>> /\ \A k \in 1 .. n : u[k] = u[k - 1] \o M[k]
  <2>1. \A k \in 0 .. n : u[k] = IF k = 0 THEN <<>> ELSE u[k - 1] \o M[k]
    BY DEF Concatenates
  <2>2. 0 \in 0 .. n /\ \A k \in 1 .. n : k \in 0 .. n /\ k # 0
    OBVIOUS
  <2>3. QED
    BY <2>1, <2>2, Zenon
<1>2. \A k \in 0 .. n : u[k] \in Seq(N)
  <2> DEFINE S == {k \in Nat : u[k] \in Seq(N)}
  <2>1. 0 \in S
    <3>1. <<>> \in Seq(N)
      OBVIOUS
    <3>2. u[0] \in Seq(N)
      BY <1>1, <3>1, Zenon
    <3>3. QED
      BY <3>2
  <2>2. \A k \in 0 .. n - 1 : k \in S => k + 1 \in S
    <3>1. ASSUME NEW k \in 0 .. n - 1, u[k] \in Seq(N) PROVE u[k + 1] \in Seq(N)
      <4>1. k + 1 \in 1 .. n /\ (k + 1) - 1 = k
        OBVIOUS
      <4>2. u[k + 1] = u[(k + 1) - 1] \o M[k + 1] /\ M[k + 1] \in Seq(N)
        BY <1>1, <4>1, Zenon
      <4>3. QED
        BY <3>1, <4>1, <4>2
    <3>2. QED
      BY <3>1
  <2>3. 0 .. n \subseteq S
    <3> HIDE DEF S
    <3>1. QED
      BY <2>1, <2>2, UpTo
  <2>4. QED
    BY <2>3
<1>3. ASSUME NEW j \in 1 .. n, NEW e \in 1 .. Len(M[j])
      PROVE  \A k \in j .. n : /\ Len(u[j - 1]) + e \in 1 .. Len(u[k])
                               /\ u[k][Len(u[j - 1]) + e] = M[j][e]
  <2> DEFINE p == Len(u[j - 1]) + e
             Stands(k) == p \in 1 .. Len(u[k]) /\ u[k][p] = M[j][e]
             S == {k \in Nat : k >= j => Stands(k)}
  <2>1. 0 \in S
    OBVIOUS
  <2>2. ASSUME NEW k \in 0 .. n - 1, k \in S PROVE k + 1 \in S
    <3>1. u[k + 1] = u[k] \o M[k + 1] /\ u[k] \in Seq(N) /\ M[k + 1] \in Seq(N)
      <4>1. k + 1 \in 1 .. n /\ (k + 1) - 1 = k /\ k \in 0 .. n
        OBVIOUS
      <4>2. u[k + 1] = u[(k + 1) - 1] \o M[k + 1] /\ M[k + 1] \in Seq(N)
        BY <1>1, <4>1, Zenon
      <4>3. QED
        BY <1>2, <4>1, <4>2
    <3>2. CASE k + 1 < j
      BY <3>2
    <3>3. CASE k + 1 = j
      <4>1. k = j - 1 /\ e \in 1 .. Len(M[k + 1])
        BY <3>3
      <4> DEFINE a == u[k]
                 b == M[k + 1]
      <4>2. a \in Seq(N) /\ b \in Seq(N) /\ e \in 1 .. Len(b)
        BY <3>1, <4>1
      <4> HIDE DEF a, b
      <4>3. Len(a) + e \in 1 .. Len(a \o b) /\ (a \o b)[Len(a) + e] = b[e]
        BY <4>2
      <4>4. Stands(k + 1)
        BY <3>1, <3>3, <4>1, <4>3 DEF a, b
      <4>5. QED
        BY <4>4
    <3>4. CASE k >= j
      <4> DEFINE a == u[k]
                 b == M[k + 1]
      <4>1. p \in 1 .. Len(a) /\ a[p] = M[j][e]
        BY <2>2, <3>4
      <4>2. a \in Seq(N) /\ b \in Seq(N)
        BY <3>1
      <4> HIDE DEF a, b, p
      <4>3. p \in 1 .. Len(a \o b) /\ (a \o b)[p] = a[p]
        BY <4>1, <4>2
      <4>4. Stands(k + 1)
        BY <3>1, <4>1, <4>3 DEF a, b
      <4>5. QED
        BY <4>4
    <3>5. QED
      BY <3>2, <3>3, <3>4
  <2>3. 0 .. n \subseteq S
    <3> HIDE DEF S
    <3>1. QED
      BY <2>1, <2>2, UpTo
  <2> HIDE DEF Stands
  <2>4. \A k \in j .. n : Stands(k)
    BY <2>3
  <2>5. QED
    BY <2>4 DEF Stands
<1>4. QED
  BY <1>2, <1>3

\* No two entries stand at one place.
Apart(u, M, n) ==
    \A j, k \in 1 .. n : \A e \in 1 .. Len(M[j]), f \in 1 .. Len(M[k]) :
        Len(u[j - 1]) + e = Len(u[k - 1]) + f => j = k /\ e = f

LEMMA PlacesApart ==
    ASSUME NEW n \in Nat, NEW N, NEW M, \A j \in 1 .. n : M[j] \in Seq(N),
           NEW u, Concatenates(u, M, n)
    PROVE  Apart(u, M, n)
<1> SUFFICES ASSUME NEW j \in 1 .. n, NEW k \in 1 .. n,
                    NEW e \in 1 .. Len(M[j]), NEW f \in 1 .. Len(M[k]),
                    Len(u[j - 1]) + e = Len(u[k - 1]) + f
             PROVE  j = k /\ e = f
  BY DEF Apart
<1>1. /\ \A i \in 0 .. n : u[i] \in Seq(N)
      /\ \A i \in 1 .. n : \A l \in i .. n : \A g \in 1 .. Len(M[i]) :
            Len(u[i - 1]) + g \in 1 .. Len(u[l])
  BY ConcatenationPlaces
<1>2. Len(u[j - 1]) \in Nat /\ Len(u[k - 1]) \in Nat
  BY <1>1
<1>3. ~(j < k)
  <2>1. ASSUME j < k PROVE Len(u[j - 1]) + e <= Len(u[k - 1])
    <3>1. k - 1 \in j .. n
      BY <2>1
    <3>2. QED
      BY <1>1, <3>1
  <2>2. QED
    BY <1>2, <2>1
<1>4. ~(k < j)
  <2>1. ASSUME k < j PROVE Len(u[k - 1]) + f <= Len(u[j - 1])
    <3>1. j - 1 \in k .. n
      BY <2>1
    <3>2. QED
      BY <1>1, <3>1
  <2>2. QED
    BY <1>2, <2>1
<1>5. j = k
  BY <1>3, <1>4
<1>6. QED
  BY <1>2, <1>5

\* The names of all members, one list after the other.
LEMMA AllMemberNamesDef ==
    ASSUME NEW n, n = Len(members), n \in Nat
    PROVE  \E u : /\ Concatenates(u, [j \in 1 .. n |-> MemberNames(j)], n)
                  /\ AllMemberNames = u[n]
<1> DEFINE M == [j \in 1 .. n |-> MemberNames(j)]
           Good(u) == u = [j \in 0 .. n |-> IF j = 0 THEN <<>> ELSE u[j - 1] \o MemberNames(j)]
           v == CHOOSE u : Good(u)
<1>1. \A u : Concatenates(u, M, n) <=> Good(u)
  <2>1. SUFFICES ASSUME NEW u
                 PROVE  [k \in 0 .. n |-> IF k = 0 THEN <<>> ELSE u[k - 1] \o M[k]]
                        = [j \in 0 .. n |-> IF j = 0 THEN <<>> ELSE u[j - 1] \o MemberNames(j)]
    BY DEF Concatenates
  <2>2. \A k \in 0 .. n : k # 0 => M[k] = MemberNames(k)
    OBVIOUS
  <2> HIDE DEF M
  <2>3. QED
    BY <2>2, Zenon
<1>2. AllMemberNames = v[n]
  BY Zenon DEF AllMemberNames
<1>3. \E u : Good(u)
  <2>1. \E u : Concatenates(u, M, n)
    <3> HIDE DEF M
    <3>1. QED
      BY ConcatenationExists
  <2> HIDE DEF Good
  <2>2. QED
    BY <1>1, <2>1
<1>4. Good(v)
  <2> HIDE DEF Good
  <2>1. QED
    BY <1>3, Zenon
<1>5. Concatenates(v, M, n)
  <2> HIDE DEF Good, M
  <2>1. QED
    BY <1>1, <1>4, Zenon
<1> HIDE DEF v
<1>6. QED
  BY <1>2, <1>5

LEMMA NineEntries ==
    ASSUME NEW a, NEW b, NEW c, NEW d, NEW e, NEW f, NEW g, NEW h, NEW i
    PROVE  \E U : /\ <<a, b, c, d, e, f, g, h, i>> \in Seq(U)
                  /\ Len(<<a, b, c, d, e, f, g, h, i>>) = 9
<1> DEFINE U == {a, b, c, d, e, f, g, h, i}
<1>1. a \in U /\ b \in U /\ c \in U /\ d \in U /\ e \in U /\ f \in U /\ g \in U /\ h \in U /\ i \in U
  OBVIOUS
<1> HIDE DEF U
<1>2. <<a, b, c, d, e, f, g, h, i>> \in Seq(U) /\ Len(<<a, b, c, d, e, f, g, h, i>>) = 9
  BY <1>1
<1>3. QED
  BY <1>2

LEMMA RootNamesType == \E U : RootNames \in Seq(U) /\ Len(RootNames) = 9
  BY NineEntries, Zenon DEF RootNames

\* Where an item's own methods stand in the reserved names.
OwnPlace(x) ==
    CASE kind = "struct" /\ x = "copy_into" -> 10
      [] kind = "struct" /\ x = "copy_from" -> 11
      [] kind = "struct" /\ x = "clear" -> 12
      [] kind = "tagged" /\ x = "tag" -> 1
      [] kind = "tagged" /\ x = "copy_into" -> 2
      [] kind = "tagged" /\ x = "copy_from" -> 3

OwnMethods ==
    IF kind = "struct" THEN {"clear", "copy_into", "copy_from"}
    ELSE {"tag", "copy_into", "copy_from"}

LEMMA ThreeBehindNine ==
    ASSUME NEW W, NEW s \in Seq(W), NEW t \in Seq(W)
    PROVE  Len(s) = 9 /\ Len(t) = 3 =>
             /\ s \o t \in Seq(W) /\ Len(s \o t) = 12
             /\ (s \o t)[10] = t[1] /\ (s \o t)[11] = t[2] /\ (s \o t)[12] = t[3]
<1> DEFINE c == s \o t
           l == Len(s)
           k == Len(t)
<1>1. /\ c \in Seq(W) /\ Len(c) = l + k
      /\ \A i \in 1 .. k : c[l + i] = t[i]
  OBVIOUS
<1> HIDE DEF c, l, k
<1>2. SUFFICES ASSUME l = 9, k = 3
               PROVE  c \in Seq(W) /\ Len(c) = 12 /\ c[10] = t[1] /\ c[11] = t[2] /\ c[12] = t[3]
  BY Zenon DEF c, l, k
<1>3. /\ 1 \in 1 .. k /\ 2 \in 1 .. k /\ 3 \in 1 .. k
      /\ l + 1 = 10 /\ l + 2 = 11 /\ l + 3 = 12 /\ l + k = 12
  BY <1>2
<1>4. c[10] = t[1] /\ c[11] = t[2] /\ c[12] = t[3]
  BY <1>1, <1>3, Zenon
<1>5. QED
  BY <1>1, <1>3, <1>4, Zenon

LEMMA OwnPlaces ==
    ASSUME kind \in {"struct", "tagged"}
    PROVE  /\ \E U : ReservedNames \in Seq(U)
           /\ \A x \in OwnMethods : /\ OwnPlace(x) \in 1 .. Len(ReservedNames)
                                    /\ ReservedNames[OwnPlace(x)] = Own[x]
           /\ \A x, y \in OwnMethods : OwnPlace(x) = OwnPlace(y) => x = y
<1> DEFINE into == <<"copy", "into">>
           from == <<"copy", "from">>
           clear == <<"clear">>
           tag == <<"tag">>
<1>1. /\ Own["copy_into"] = into /\ Own["copy_from"] = from
      /\ Own["clear"] = clear /\ Own["tag"] = tag
  BY DEF Own
<1>2. CASE kind = "struct"
  <2> DEFINE t == <<into, from, clear>>
             R == RootNames \o t
  <2>1. ReservedNames = R
    BY <1>2 DEF ReservedNames
  <2> HIDE DEF into, from, clear, tag
  <2>2. PICK V : RootNames \in Seq(V) /\ Len(RootNames) = 9
    BY RootNamesType
  <2> DEFINE W == V \cup {into, from, clear}
  <2>3. RootNames \in Seq(W) /\ into \in W /\ from \in W /\ clear \in W
    BY <2>2
  <2> HIDE DEF W
  <2>4. t \in Seq(W) /\ Len(t) = 3 /\ t[1] = into /\ t[2] = from /\ t[3] = clear
    BY <2>3
  <2> HIDE DEF t
  <2>5. /\ R \in Seq(W) /\ Len(R) = 12
        /\ R[10] = t[1] /\ R[11] = t[2] /\ R[12] = t[3]
    BY <2>2, <2>3, <2>4, ThreeBehindNine
  <2> HIDE DEF R
  <2>6. /\ OwnMethods = {"clear", "copy_into", "copy_from"}
        /\ OwnPlace("copy_into") = 10 /\ OwnPlace("copy_from") = 11 /\ OwnPlace("clear") = 12
    BY <1>2 DEF OwnMethods, OwnPlace
  <2>7. QED
    BY <1>1, <2>1, <2>4, <2>5, <2>6
<1>3. CASE kind = "tagged"
  <2> DEFINE R == <<tag, into, from>>
  <2>1. ReservedNames = R
    BY <1>3 DEF ReservedNames
  <2> HIDE DEF into, from, clear, tag
  <2>2. /\ R \in Seq({tag, into, from}) /\ Len(R) = 3
        /\ R[1] = tag /\ R[2] = into /\ R[3] = from
    OBVIOUS
  <2> HIDE DEF R
  <2>3. /\ OwnMethods = {"tag", "copy_into", "copy_from"}
        /\ OwnPlace("tag") = 1 /\ OwnPlace("copy_into") = 2 /\ OwnPlace("copy_from") = 3
    BY <1>3 DEF OwnMethods, OwnPlace
  <2>4. QED
    BY <1>1, <2>1, <2>2, <2>3
<1>4. QED
  BY <1>2, <1>3

\* The members a payload or record has a mutator for.
Mutable(j) == kind = "tagged" \/ ~IsTagSibling(j)

LEMMA MemberNamesAre ==
    ASSUME kind \in {"struct", "tagged"}, NEW j
    PROVE  /\ MemberNames(j) \in Seq({members[j].name, Mut(members[j].name)})
           /\ Len(MemberNames(j)) \in {1, 2}
           /\ MemberNames(j)[1] = members[j].name
           /\ Mutable(j) => Len(MemberNames(j)) = 2 /\ MemberNames(j)[2] = Mut(members[j].name)
<1> DEFINE a == members[j].name
           b == Mut(members[j].name)
<1>1. MemberNames(j) = IF Mutable(j) THEN <<a, b>> ELSE <<a>>
  BY DEF MemberNames, Mutable
<1> HIDE DEF a, b
<1>2. /\ <<a, b>> \in Seq({a, b}) /\ Len(<<a, b>>) = 2 /\ <<a, b>>[1] = a /\ <<a, b>>[2] = b
      /\ <<a>> \in Seq({a, b}) /\ Len(<<a>>) = 1 /\ <<a>>[1] = a
  OBVIOUS
<1> DEFINE s == <<a, b>>
           t == <<a>>
<1> HIDE DEF s, t
<1>3. MemberNames(j) = IF Mutable(j) THEN s ELSE t
  BY <1>1 DEF s, t
<1>4. /\ s \in Seq({a, b}) /\ Len(s) = 2 /\ s[1] = a /\ s[2] = b
      /\ t \in Seq({a, b}) /\ Len(t) = 1 /\ t[1] = a
  BY <1>2 DEF s, t
<1>5. QED
  BY <1>3, <1>4 DEF a, b

\* The entries of MemberNames(j) that are methods.
Slots ==
    {m \in (DOMAIN members) \X {"get", "mut"} : m[2] = "get" \/ Mutable(m[1])}
    \cup ({0} \X OwnMethods)

Entry(m) == IF m[2] = "get" THEN 1 ELSE 2

LEMMA SlotsHaveOneName ==
    ASSUME NEW S, members \in Seq(S), kind \in {"struct", "tagged"},
           IsInjective(ReservedNames \o AllMemberNames),
           NEW m1 \in Slots, NEW m2 \in Slots, MethodName(m1) = MethodName(m2)
    PROVE  m1 = m2
<1> DEFINE n == Len(members)
           M == [j \in 1 .. n |-> MemberNames(j)]
           N == {members[j].name : j \in 1 .. n} \cup {Mut(members[j].name) : j \in 1 .. n}
           R == ReservedNames
<1>1. n \in Nat /\ DOMAIN members = 1 .. n
  OBVIOUS
<1>2. PICK u : Concatenates(u, M, n) /\ AllMemberNames = u[n]
  <2> HIDE DEF n, M
  <2>1. QED
    BY <1>1, AllMemberNamesDef DEF n, M
<1>3. ASSUME NEW j \in 1 .. n
      PROVE  /\ M[j] \in Seq(N) /\ Len(M[j]) \in {1, 2}
             /\ M[j][1] = members[j].name
             /\ Mutable(j) => Len(M[j]) = 2 /\ M[j][2] = Mut(members[j].name)
  <2>1. M[j] = MemberNames(j)
    OBVIOUS
  <2>2. {members[j].name, Mut(members[j].name)} \subseteq N
    OBVIOUS
  <2> HIDE DEF M, N
  <2>3. MemberNames(j) \in Seq({members[j].name, Mut(members[j].name)})
    BY MemberNamesAre
  <2>4. MemberNames(j) \in Seq(N)
    BY <2>2, <2>3
  <2>5. QED
    BY <2>1, <2>4, MemberNamesAre
<1>4. PICK V : R \in Seq(V)
  BY OwnPlaces
<1> DEFINE W == V \cup N
           A == AllMemberNames
           r == Len(R)
           place(m) == IF m[1] = 0 THEN OwnPlace(m[2])
                       ELSE r + (Len(u[m[1] - 1]) + Entry(m))
<1>5. R \in Seq(W) /\ r \in Nat
  BY <1>4
<1> HIDE DEF n, M, N
<1>6. /\ \A k \in 0 .. n : u[k] \in Seq(N)
      /\ \A j \in 1 .. n : \A k \in j .. n : \A e \in 1 .. Len(M[j]) :
            /\ Len(u[j - 1]) + e \in 1 .. Len(u[k])
            /\ u[k][Len(u[j - 1]) + e] = M[j][e]
  <2>1. \A j \in 1 .. n : M[j] \in Seq(N)
    BY <1>3
  <2>2. QED
    BY <1>1, <1>2, <2>1, ConcatenationPlaces
<1>7. A \in Seq(N) /\ A \in Seq(W)
  <2>1. A \in Seq(N)
    BY <1>1, <1>2, <1>6
  <2> HIDE DEF A
  <2>2. QED
    BY <2>1
<1> HIDE DEF R, W, A, r
<1>8. ASSUME NEW p \in 1 .. Len(A)
      PROVE  r + p \in DOMAIN (R \o A) /\ (R \o A)[r + p] = A[p]
  BY <1>5, <1>7 DEF r
<1>9. ASSUME NEW p \in 1 .. r
      PROVE  p \in DOMAIN (R \o A) /\ (R \o A)[p] = R[p]
  BY <1>5, <1>7 DEF r
\* The slots of members.
<1>10. ASSUME NEW m \in Slots, m[1] # 0
       PROVE  /\ m[1] \in 1 .. n /\ m[2] \in {"get", "mut"} /\ m = <<m[1], m[2]>>
              /\ Entry(m) \in 1 .. Len(M[m[1]])
              /\ MethodName(m) = M[m[1]][Entry(m)]
  <2>1. m \in (DOMAIN members) \X {"get", "mut"} /\ (m[2] = "get" \/ Mutable(m[1]))
    BY <1>10 DEF Slots
  <2>2. m[1] \in 1 .. n /\ m[2] \in {"get", "mut"} /\ m = <<m[1], m[2]>>
    BY <1>1, <2>1
  <2>3. CASE m[2] = "get"
    <3>1. Entry(m) = 1 /\ MethodName(m) = members[m[1]].name
      BY <2>3 DEF Entry, MethodName
    <3>2. QED
      BY <1>3, <2>2, <3>1
  <2>4. CASE m[2] = "mut"
    <3>1. Entry(m) = 2 /\ MethodName(m) = Mut(members[m[1]].name)
      BY <2>4 DEF Entry, MethodName
    <3>2. Mutable(m[1])
      BY <2>1, <2>4
    <3>3. QED
      BY <1>3, <2>2, <3>1, <3>2
  <2>5. QED
    BY <2>2, <2>3, <2>4
\* The slots of the item.
<1>11. ASSUME NEW m \in Slots, m[1] = 0
       PROVE  m[2] \in OwnMethods /\ m = <<0, m[2]>> /\ MethodName(m) = Own[m[2]]
  <2>1. 0 \notin DOMAIN members
    BY <1>1
  <2>2. m \in {0} \X OwnMethods
    BY <1>11, <2>1 DEF Slots
  <2>3. m[2] \in OwnMethods /\ m = <<0, m[2]>>
    BY <2>2
  <2>4. m[2] # "get" /\ m[2] # "mut"
    BY <2>3 DEF OwnMethods
  <2>5. QED
    BY <2>3, <2>4 DEF MethodName
<1>12. ASSUME NEW m \in Slots
       PROVE  /\ place(m) \in DOMAIN (R \o A)
              /\ (R \o A)[place(m)] = MethodName(m)
              /\ m[1] = 0 => place(m) \in 1 .. r
              /\ m[1] # 0 => place(m) > r
  <2>1. CASE m[1] = 0
    <3>1. m[2] \in OwnMethods /\ MethodName(m) = Own[m[2]] /\ place(m) = OwnPlace(m[2])
      BY <1>11, <2>1
    <3>2. OwnPlace(m[2]) \in 1 .. r /\ R[OwnPlace(m[2])] = Own[m[2]]
      BY <3>1, OwnPlaces DEF R, r
    <3>3. QED
      BY <1>9, <2>1, <3>1, <3>2
  <2>2. CASE m[1] # 0
    <3> DEFINE p == Len(u[m[1] - 1]) + Entry(m)
    <3>1. /\ m[1] \in 1 .. n /\ Entry(m) \in 1 .. Len(M[m[1]])
          /\ MethodName(m) = M[m[1]][Entry(m)]
      BY <1>10, <2>2
    <3>2. n \in m[1] .. n
      BY <1>1, <3>1
    <3>3. p \in 1 .. Len(u[n]) /\ u[n][p] = M[m[1]][Entry(m)]
      BY <1>6, <3>1, <3>2
    <3>4. p \in 1 .. Len(A) /\ A[p] = MethodName(m)
      BY <1>2, <3>1, <3>3 DEF A
    <3>5. place(m) = r + p
      BY <2>2
    <3> HIDE DEF p, place
    <3>6. p > 0 /\ Len(A) \in Nat /\ p \in Nat
      BY <1>7, <3>4
    <3>7. QED
      BY <1>5, <1>8, <2>2, <3>4, <3>5, <3>6
  <2>3. QED
    BY <2>1, <2>2
<1>13. place(m1) = place(m2)
  <2> HIDE DEF place
  <2>1. \A a, b \in DOMAIN (R \o A) : (R \o A)[a] = (R \o A)[b] => a = b
    BY DEF IsInjective, R, A
  <2>2. QED
    BY <1>12, <2>1
<1>14. CASE m1[1] = 0
  <2>1. m2[1] = 0
    <3> HIDE DEF place
    <3>1. QED
      BY <1>5, <1>12, <1>13, <1>14
  <2>2. OwnPlace(m1[2]) = OwnPlace(m2[2])
    BY <1>13, <1>14, <2>1
  <2>3. m1[2] = m2[2]
    BY <1>11, <1>14, <2>1, <2>2, OwnPlaces
  <2>4. QED
    BY <1>11, <1>14, <2>1, <2>3
<1>15. CASE m1[1] # 0
  <2>1. m2[1] # 0
    <3> HIDE DEF place
    <3>1. QED
      BY <1>5, <1>12, <1>13, <1>15
  <2> DEFINE j == m1[1]
             k == m2[1]
             e == Entry(m1)
             f == Entry(m2)
  <2>2. /\ j \in 1 .. n /\ k \in 1 .. n
        /\ e \in 1 .. Len(M[j]) /\ f \in 1 .. Len(M[k])
    BY <1>10, <1>15, <2>1
  <2>3. Len(u[j - 1]) + e = Len(u[k - 1]) + f
    <3>1. r + (Len(u[j - 1]) + e) = r + (Len(u[k - 1]) + f)
      BY <1>13, <1>15, <2>1
    <3>2. j - 1 \in 0 .. n /\ k - 1 \in 0 .. n
      BY <1>1, <2>2
    <3>3. Len(u[j - 1]) \in Nat /\ Len(u[k - 1]) \in Nat
      BY <1>6, <3>2
    <3>4. e \in Nat /\ f \in Nat
      BY DEF Entry
    <3> DEFINE x == Len(u[j - 1])
               y == Len(u[k - 1])
    <3> HIDE DEF j, k, e, f, x, y
    <3>5. x + e = y + f
      BY <1>5, <3>1, <3>3, <3>4 DEF x, y
    <3>6. QED
      BY <3>5 DEF x, y
  <2>4. Apart(u, M, n)
    <3>1. \A i \in 1 .. n : M[i] \in Seq(N)
      BY <1>3
    <3>2. QED
      BY <1>1, <1>2, <3>1, PlacesApart
  <2> HIDE DEF j, k, e, f
  <2>5. j = k /\ e = f
    BY <2>2, <2>3, <2>4 DEF Apart
  <2>6. m1[2] = m2[2]
    BY <1>10, <1>15, <2>1, <2>5 DEF e, f, Entry
  <2>7. QED
    BY <1>10, <1>15, <2>1, <2>5, <2>6 DEF j, k
<1>16. QED
  BY <1>14, <1>15

LEMMA MethodsDistinct == Inv => MethodsAreDistinct
<1> SUFFICES ASSUME Inv, Accepted("struct") \/ Accepted("tagged")
             PROVE  DistinctNames(RefMethods) /\ DistinctNames(MutMethods)
  BY DEF MethodsAreDistinct
<1>1. kind \in {"struct", "tagged"} /\ IsInjective(ReservedNames \o AllMemberNames)
  BY DEF Accepted, Inv, NamesSound
<1>2. PICK S : members \in Seq(S)
  BY DEF Inv, Staged
<1>3. RefMethods \subseteq Slots
  BY <1>1 DEF RefMethods, Getters, Slots, OwnMethods
<1>4. MutMethods \subseteq Slots
  BY <1>1 DEF MutMethods, Getters, Mutators, Slots, OwnMethods, Mutable
<1>5. ASSUME NEW methods, methods \subseteq Slots PROVE DistinctNames(methods)
  <2>1. ASSUME NEW a \in methods, NEW b \in methods, MethodName(a) = MethodName(b)
        PROVE  a = b
    BY <1>1, <1>2, <1>5, <2>1, SlotsHaveOneName
  <2>2. QED
    BY <2>1 DEF DistinctNames, IsInjective
<1>6. QED
  BY <1>3, <1>4, <1>5

-----------------------------------------------------------------------------
(* The theorems *)

\* The capabilities emitted for an accepted item never define one method
\* twice: validate_generated_names covers every method of every member, the
\* mutator a tag sibling does not have excepted.
THEOREM MethodNamesAreDistinct == Spec => []MethodsAreDistinct
  BY Invariance, MethodsDistinct, PTL

\* Every payload of an accepted record has a tag of its own, the sibling that
\* its tag_field names: link_external_tags leaves no other link.
THEOREM TagLinksPairUp == Spec => []TagLinksAreSound
  BY Invariance, TagLinks, PTL

\* Every attribute of an accepted record's field is where the emitters look
\* for it: no option parse_field_meta accepts is dropped on the way.
THEOREM FieldOptionsAreApplied == Spec => []OptionsAreApplied
  BY Invariance, OptionsApplied, PTL

\* to_raw, a store in the repr's width and byte order, a load and from_raw
\* give back every variant of an accepted scalar enum.
THEOREM ScalarEnumsRoundTrip == Spec => []EnumRoundTrips
  BY Invariance, RoundTrips, PTL
=============================================================================
