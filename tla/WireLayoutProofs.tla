-------------------------- MODULE WireLayoutProofs --------------------------
(***************************************************************************)
(* Layouts of programs of any size: what the generated code selects lies   *)
(* inside its outer wire and is aligned, and the padding ranges of a       *)
(* record are exactly the bytes no field holds.                            *)
(***************************************************************************)
EXTENDS WireLayout, FiniteSetTheorems, SequenceTheorems, TLAPS

-----------------------------------------------------------------------------
(* Alignments *)

PowersOfTwo ==
    {1, 2, 4, 8, 16, 32, 64, 128, 256, 512, 1024, 2048, 4096, 8192, 16384,
     32768, 65536, 131072, 262144, 524288, 1048576, 2097152, 4194304,
     8388608, 16777216, 33554432, 67108864, 134217728, 268435456, 536870912}

LEMMA Markers == ASSUME NEW a, AlignmentMarker(a) PROVE a \in PowersOfTwo
<1>1. PICK k \in 0 .. 29 : a = 2 ^ k
  BY DEF AlignmentMarker
<1>2. CASE k \in 0 .. 4
  <2>1. k = 0 \/ k = 1 \/ k = 2 \/ k = 3 \/ k = 4
    BY <1>2
  <2>2. a = 2 ^ 0 \/ a = 2 ^ 1 \/ a = 2 ^ 2 \/ a = 2 ^ 3 \/ a = 2 ^ 4
    BY <1>1, <2>1, Zenon
  <2>3. QED
    BY <2>2 DEF PowersOfTwo
<1>3. CASE k \in 5 .. 9
  <2>1. k = 5 \/ k = 6 \/ k = 7 \/ k = 8 \/ k = 9
    BY <1>3
  <2>2. a = 2 ^ 5 \/ a = 2 ^ 6 \/ a = 2 ^ 7 \/ a = 2 ^ 8 \/ a = 2 ^ 9
    BY <1>1, <2>1, Zenon
  <2>3. QED
    BY <2>2 DEF PowersOfTwo
<1>4. CASE k \in 10 .. 14
  <2>1. k = 10 \/ k = 11 \/ k = 12 \/ k = 13 \/ k = 14
    BY <1>4
  <2>2. a = 2 ^ 10 \/ a = 2 ^ 11 \/ a = 2 ^ 12 \/ a = 2 ^ 13 \/ a = 2 ^ 14
    BY <1>1, <2>1, Zenon
  <2>3. QED
    BY <2>2 DEF PowersOfTwo
<1>5. CASE k \in 15 .. 19
  <2>1. k = 15 \/ k = 16 \/ k = 17 \/ k = 18 \/ k = 19
    BY <1>5
  <2>2. a = 2 ^ 15 \/ a = 2 ^ 16 \/ a = 2 ^ 17 \/ a = 2 ^ 18 \/ a = 2 ^ 19
    BY <1>1, <2>1, Zenon
  <2>3. QED
    BY <2>2 DEF PowersOfTwo
<1>6. CASE k \in 20 .. 24
  <2>1. k = 20 \/ k = 21 \/ k = 22 \/ k = 23 \/ k = 24
    BY <1>6
  <2>2. a = 2 ^ 20 \/ a = 2 ^ 21 \/ a = 2 ^ 22 \/ a = 2 ^ 23 \/ a = 2 ^ 24
    BY <1>1, <2>1, Zenon
  <2>3. QED
    BY <2>2 DEF PowersOfTwo
<1>7. CASE k \in 25 .. 29
  <2>1. k = 25 \/ k = 26 \/ k = 27 \/ k = 28 \/ k = 29
    BY <1>7
  <2>2. a = 2 ^ 25 \/ a = 2 ^ 26 \/ a = 2 ^ 27 \/ a = 2 ^ 28 \/ a = 2 ^ 29
    BY <1>1, <2>1, Zenon
  <2>3. QED
    BY <2>2 DEF PowersOfTwo
<1>8. QED
  BY <1>2, <1>3, <1>4, <1>5, <1>6, <1>7

LargestAlignment == 536870912

LEMMA PowerType ==
    ASSUME NEW a \in PowersOfTwo
    PROVE  a \in Nat /\ a > 0 /\ a <= LargestAlignment /\ LargestAlignment \in Nat
  BY DEF PowersOfTwo, LargestAlignment

\* The smaller of two alignments divides the larger.
LEMMA PowersDivide ==
    ASSUME NEW a \in PowersOfTwo, NEW b \in PowersOfTwo, a <= b
    PROVE  b % a = 0
  BY SMTT(60) DEF PowersOfTwo

-----------------------------------------------------------------------------
(* Multiples *)

LEMMA DivMod ==
    ASSUME NEW n \in Nat, NEW a \in Nat, a > 0
    PROVE  /\ n \div a \in Nat
           /\ n % a \in 0 .. a - 1
           /\ n = a * (n \div a) + (n % a)
<1>1. n \div a \in Nat
  OBVIOUS
<1>2. n % a \in 0 .. a - 1
  OBVIOUS
<1>3. n = a * (n \div a) + (n % a)
  OBVIOUS
<1>4. QED
  BY <1>1, <1>2, <1>3

LEMMA Multiple ==
    ASSUME NEW q \in Nat, NEW a \in Nat, a > 0
    PROVE  q * a \in Nat /\ (q * a) % a = 0
  OBVIOUS

LEMMA MultipleOf ==
    ASSUME NEW n \in Nat, NEW a \in Nat, a > 0, n % a = 0
    PROVE  n = (n \div a) * a /\ n \div a \in Nat
  BY DivMod

LEMMA DivideTwice ==
    ASSUME NEW n \in Nat, NEW b \in Nat, NEW a \in Nat, b > 0, a > 0, n % b = 0, b % a = 0
    PROVE  n % a = 0
<1> DEFINE p == n \div b
           q == b \div a
<1>1. n = p * b /\ b = q * a /\ p \in Nat /\ q \in Nat
  BY MultipleOf
<1> HIDE DEF p, q
<1>2. n = (p * q) * a /\ p * q \in Nat
  BY <1>1
<1>3. QED
  BY <1>2, Multiple

LEMMA TimesMultiple ==
    ASSUME NEW k \in Nat, NEW n \in Nat, NEW a \in Nat, a > 0, n % a = 0
    PROVE  k * n \in Nat /\ (k * n) % a = 0
<1> DEFINE p == n \div a
<1>1. n = p * a /\ p \in Nat
  BY MultipleOf
<1> HIDE DEF p
<1> DEFINE x == k * n
           y == k * p
<1>2. x = y * a /\ y \in Nat
  BY <1>1
<1> HIDE DEF x, y
<1>3. x \in Nat /\ x % a = 0
  BY <1>2, Multiple
<1>4. QED
  BY <1>3 DEF x

LEMMA RoundUpIs ==
    ASSUME NEW n \in Nat, NEW a \in Nat, a > 0
    PROVE  /\ RoundUp(n, a) \in Nat
           /\ RoundUp(n, a) >= n
           /\ RoundUp(n, a) % a = 0
<1> DEFINE m == n + (a - 1)
           q == m \div a
           r == m % a
<1>1. m \in Nat /\ (n + a) - 1 = m
  OBVIOUS
<1>2. RoundUp(n, a) = q * a
  BY <1>1 DEF RoundUp
<1>3. q \in Nat /\ r \in 0 .. a - 1 /\ m = a * q + r
  BY <1>1, DivMod
<1> HIDE DEF q, r
<1>4. q * a \in Nat /\ (q * a) % a = 0
  BY <1>3, Multiple
<1>5. q * a >= n
  <2> DEFINE x == a * q
  <2>1. x \in Nat /\ x + r = n + (a - 1) /\ r <= a - 1 /\ r \in Nat
    BY <1>3
  <2>2. q * a = x
    BY <1>3
  <2> HIDE DEF x
  <2>3. x >= n
    BY <2>1
  <2>4. QED
    BY <2>2, <2>3
<1>6. QED
  BY <1>2, <1>4, <1>5

LEMMA RoundUpZero == ASSUME NEW a \in Nat, a > 0 PROVE RoundUp(0, a) = 0
<1>1. (a - 1) \div a = 0
  OBVIOUS
<1>2. (0 + a) - 1 = a - 1
  OBVIOUS
<1>3. QED
  BY <1>1, <1>2 DEF RoundUp

LEMMA MinimalNat ==
    ASSUME NEW T, T \subseteq Nat, T # {}
    PROVE  \E x \in T : \A y \in T : ~(y < x)
<1> DEFINE R == OpToRel(<, Nat)
<1>1. IsWellFoundedOn(R, Nat)
  BY NatLessThanWellFounded
<1>2. \A x, y \in Nat : x < y => <<x, y>> \in R
  BY DEF OpToRel
<1> HIDE DEF R
<1>3. PICK x \in T : \A y \in T : ~(<<y, x>> \in R)
  BY <1>1, WFMin
<1>4. QED
  BY <1>2, <1>3, Zenon

LEMMA LeastNat ==
    ASSUME NEW T, T \subseteq Nat, T # {}
    PROVE  \E x \in T : \A y \in T : x <= y
<1>1. PICK x \in T : \A y \in T : ~(y < x)
  BY MinimalNat
<1>2. \A y \in T : x <= y
  BY <1>1
<1>3. QED
  BY <1>2

\* A bounded set of numbers has a largest one.
LEMMA MaxIs ==
    ASSUME NEW B \in Nat, NEW T, T \subseteq 0 .. B, T # {}
    PROVE  Max(T) \in T /\ \A y \in T : y <= Max(T)
<1> DEFINE U == {B - x : x \in T}
<1>1. U \subseteq Nat /\ U # {}
  <2>1. \A x \in T : B - x \in Nat
    OBVIOUS
  <2>2. PICK x \in T : TRUE
    OBVIOUS
  <2>3. B - x \in U
    OBVIOUS
  <2>4. QED
    BY <2>1, <2>3
<1>2. PICK u \in U : \A v \in U : u <= v
  <2> HIDE DEF U
  <2>1. QED
    BY <1>1, LeastNat
<1>3. PICK x \in T : u = B - x
  BY <1>2
<1>4. ASSUME NEW y \in T PROVE x >= y
  <2>1. B - y \in U
    OBVIOUS
  <2>2. B - x <= B - y
    BY <1>2, <1>3, <2>1
  <2>3. QED
    BY <2>2
<1>5. Max(T) \in T /\ \A y \in T : Max(T) >= y
  <2>1. \E z \in T : \A y \in T : z >= y
    BY <1>4
  <2>2. QED
    BY <2>1, Zenon DEF Max
<1>6. QED
  BY <1>5

-----------------------------------------------------------------------------
(* Wires *)

\* What the language guarantees of every type.
Wf(t) == t.size \in Nat /\ t.align \in PowersOfTwo /\ t.size % t.align = 0

LEMMA FitsWiden ==
    ASSUME NEW t, NEW s, NEW r, Wf(t), Wf(s), Wf(r), NEW o \in Nat, Fits(t, o, s), Fits(s, 0, r)
    PROVE  Fits(t, o, r)
<1>1. /\ t.size \in Nat /\ s.size \in Nat /\ r.size \in Nat
      /\ t.align \in Nat /\ s.align \in Nat /\ r.align \in Nat
      /\ t.align > 0 /\ s.align > 0 /\ r.align > 0
  BY PowerType DEF Wf
<1>2. o + t.size <= r.size
  <2>1. o + t.size <= s.size /\ 0 + s.size <= r.size
    BY DEF Fits
  <2>2. QED
    BY <1>1, <2>1
<1>3. r.align % t.align = 0
  BY <1>1, DivideTwice DEF Fits
<1>4. o % t.align = 0
  BY DEF Fits
<1>5. QED
  BY <1>2, <1>3, <1>4 DEF Fits

LEMMA UnitWf == Wf(UnitWire)
  BY DEF Wf, UnitWire, PowersOfTwo

LEMMA ValueOffsetZero == ASSUME NEW t, Wf(t) PROVE ValueOffset(t) = 0
  BY PowerType, RoundUpZero DEF Wf, ValueOffset

\* A wire rounded up to an alignment no smaller than its own.
LEMMA RoundedFits ==
    ASSUME NEW t, t.size \in Nat, t.align \in PowersOfTwo, NEW n \in Nat, t.size <= n,
           NEW a \in PowersOfTwo, t.align <= a
    PROVE  /\ Wf([size |-> RoundUp(n, a), align |-> a])
           /\ Fits(t, 0, [size |-> RoundUp(n, a), align |-> a])
<1> DEFINE r == RoundUp(n, a)
<1>1. r \in Nat /\ r >= n /\ r % a = 0
  BY PowerType, RoundUpIs
<1> HIDE DEF r
<1>2. a % t.align = 0
  BY PowersDivide
<1>3. 0 + t.size <= r
  BY <1>1
<1>4. 0 % t.align = 0
  BY PowerType
<1>5. QED
  BY <1>1, <1>2, <1>3, <1>4 DEF Wf, Fits, r

LEMMA AlignedFits ==
    ASSUME NEW t, Wf(t), NEW a \in PowersOfTwo
    PROVE  Wf(AlignedWire(t, a)) /\ Fits(t, 0, AlignedWire(t, a))
<1> DEFINE al == Max({a, t.align})
<1>1. {a, t.align} \subseteq 0 .. LargestAlignment /\ {a, t.align} # {} /\ LargestAlignment \in Nat
  BY PowerType DEF Wf
<1>2. al \in {a, t.align} /\ t.align <= al
  BY <1>1, MaxIs
<1>3. al \in PowersOfTwo
  BY <1>2 DEF Wf
<1> HIDE DEF al
<1>4. ValueOffset(t) + t.size = t.size
  BY ValueOffsetZero DEF Wf
<1>5. AlignedWire(t, a) = [size |-> RoundUp(t.size, al), align |-> al]
  BY <1>4 DEF AlignedWire, al
<1>6. t.size \in Nat /\ t.align \in PowersOfTwo /\ t.size <= t.size
  BY DEF Wf
<1>7. QED
  BY <1>2, <1>3, <1>5, <1>6, RoundedFits

LEMMA StorageFits ==
    ASSUME NEW t, Wf(t), NEW a, a = None \/ AlignmentMarker(a)
    PROVE  /\ Wf(Storage(t, a)) /\ Fits(t, 0, Storage(t, a))
           /\ Storage(t, a).size >= t.size
           /\ a = None => Storage(t, a) = t
<1>1. CASE a = None
  <2>1. Storage(t, a) = t
    BY <1>1 DEF Storage
  <2>2. t.align % t.align = 0 /\ 0 % t.align = 0
    BY PowerType, PowersDivide DEF Wf
  <2>3. Fits(t, 0, t)
    BY <2>2 DEF Fits, Wf
  <2>4. QED
    BY <2>1, <2>3 DEF Wf
<1>2. CASE a # None
  <2>1. Storage(t, a) = AlignedWire(t, a) /\ a \in PowersOfTwo
    BY <1>2, Markers DEF Storage
  <2>2. Wf(AlignedWire(t, a)) /\ Fits(t, 0, AlignedWire(t, a))
    BY <2>1, AlignedFits
  <2>3. AlignedWire(t, a).size >= t.size
    BY <2>2 DEF Wf, Fits
  <2>4. QED
    BY <1>2, <2>1, <2>2, <2>3
<1>3. QED
  BY <1>1, <1>2

LEMMA ArrayFits ==
    ASSUME NEW t, Wf(t), NEW n \in Nat
    PROVE  /\ Wf(ArrayWire(t, n))
           /\ \A k \in 0 .. n - 1 : Fits(t, k * t.size, ArrayWire(t, n))
<1> DEFINE w == ArrayWire(t, n)
           z == t.size
           a == t.align
<1>1. z \in Nat /\ a \in PowersOfTwo /\ a \in Nat /\ a > 0 /\ z % a = 0
  BY PowerType DEF Wf
<1>2. w.size = z * n /\ w.align = a
  BY DEF ArrayWire
<1> HIDE DEF w, z, a
<1>3. n * z \in Nat /\ (n * z) % a = 0
  BY <1>1, TimesMultiple
<1>4. n * z = z * n
  BY <1>1
<1>5. Wf(w)
  BY <1>1, <1>2, <1>3, <1>4 DEF Wf
<1>6. ASSUME NEW k \in 0 .. n - 1 PROVE Fits(t, k * t.size, w)
  <2>1. k * z \in Nat /\ (k * z) % a = 0
    <3>1. k \in Nat
      OBVIOUS
    <3>2. QED
      BY <1>1, <3>1, TimesMultiple
  <2>2. k * z + z <= n * z
    <3>1. k + 1 <= n /\ (k + 1) * z = k * z + z
      BY <1>1
    <3>2. (k + 1) * z <= n * z
      BY <1>1, <3>1
    <3>3. QED
      BY <3>1, <3>2
  <2>3. a % a = 0
    BY <1>1, PowersDivide
  <2>4. QED
    BY <1>2, <1>4, <2>1, <2>2, <2>3 DEF Fits, z, a
<1>7. QED
  BY <1>5, <1>6 DEF w

LEMMA UnionFits ==
    ASSUME NEW t, NEW u, Wf(t), Wf(u)
    PROVE  Wf(UnionWire({t, u})) /\ \A v \in {t, u} : Fits(v, 0, UnionWire({t, u}))
<1> DEFINE A == {v.align : v \in {t, u}}
           Z == {v.size : v \in {t, u}}
           a == Max(A)
           z == Max(Z)
<1>1. A = {t.align, u.align} /\ Z = {t.size, u.size}
  OBVIOUS
<1>2. UnionWire({t, u}) = [size |-> RoundUp(z, a), align |-> a]
  BY DEF UnionWire
<1>3. A \subseteq 0 .. LargestAlignment /\ A # {} /\ A \subseteq PowersOfTwo
      /\ LargestAlignment \in Nat
  BY <1>1, PowerType DEF Wf
<1>4. t.size + u.size \in Nat /\ Z \subseteq 0 .. t.size + u.size /\ Z # {}
  BY <1>1 DEF Wf
<1> HIDE DEF A, Z
<1>5. a \in A /\ \A y \in A : y <= a
  BY <1>3, MaxIs
<1>6. z \in Z /\ \A y \in Z : y <= z
  BY <1>4, MaxIs
<1> HIDE DEF a, z
<1>7. a \in PowersOfTwo /\ z \in Nat
  BY <1>3, <1>4, <1>5, <1>6
<1>8. ASSUME NEW v \in {t, u}
      PROVE  Wf(UnionWire({t, u})) /\ Fits(v, 0, UnionWire({t, u}))
  <2>1. v.size \in Nat /\ v.align \in PowersOfTwo
    BY DEF Wf
  <2>2. v.size <= z /\ v.align <= a
    BY <1>1, <1>5, <1>6
  <2>3. QED
    BY <1>2, <1>7, <2>1, <2>2, RoundedFits
<1>9. QED
  BY <1>8

-----------------------------------------------------------------------------
(* The inductive invariant *)

DeclaredOk == \A t \in Declared : Wf(t)

ArraysFit ==
    \A a \in arrays : \A k \in 0 .. a.length - 1 : Fits(a.element, k * a.element.size, a.wire)

UnionsFit == \A u \in unions : \A v \in u.variants : Fits(v, 0, u.wire)

FieldOk(f) ==
    /\ Wf(f.value) /\ Wf(f.storage) /\ Fits(f.value, 0, f.storage)
    /\ f.offset \in Nat /\ f.offset % f.storage.align = 0

FieldEnd(f) == f.offset + f.storage.size

\* The fields of the record so far end where the next one may start.
RecordOk ==
    /\ \E S : fields \in Seq(S)
    /\ \E S : padding \in Seq(S)
    /\ PreviousEnd \in Nat
    /\ \A i \in DOMAIN fields : FieldOk(fields[i]) /\ FieldEnd(fields[i]) <= PreviousEnd

AlignOk == align = None \/ AlignmentMarker(align)

RootFits ==
    \A r \in root :
        /\ Wf(r)
        /\ \A i \in DOMAIN fields : Fits(fields[i].storage, fields[i].offset, r)

\* The fields and the padding ranges that hold byte b.
Holding(fs, b) ==
    {i \in DOMAIN fs : Covers(fs[i].offset, fs[i].offset + fs[i].value.size, b)}
Padded(ps, b) == {i \in DOMAIN ps : Covers(ps[i].start, ps[i].end, b)}

Once(fs, ps, b) ==
    \/ (\E i : Holding(fs, b) = {i}) /\ Padded(ps, b) = {}
    \/ Holding(fs, b) = {} /\ \E i : Padded(ps, b) = {i}

\* Every byte before the end lies in one of them, no later byte in any.
Partition(fs, ps, end) ==
    \A b \in Nat :
        /\ b < end => Once(fs, ps, b)
        /\ b >= end => Holding(fs, b) = {} /\ Padded(ps, b) = {}

PaddingOk ==
    /\ root = {} => Partition(fields, padding, PreviousEnd)
    /\ \A r \in root : Partition(fields, padding, r.size)

Inv ==
    /\ DeclaredOk /\ ArraysFit /\ UnionsFit
    /\ RecordOk /\ AlignOk /\ RootFits /\ PaddingOk

-----------------------------------------------------------------------------
(* Records *)

LEMMA StructFits ==
    ASSUME RecordOk, fields # <<>>
    PROVE  /\ Wf(Struct) /\ Struct.size >= PreviousEnd
           /\ \A i \in DOMAIN fields : Fits(fields[i].storage, fields[i].offset, Struct)
<1> DEFINE A == {fields[i].storage.align : i \in DOMAIN fields}
           a == Max(A)
           z == RoundUp(PreviousEnd, a)
<1>1. PICK S : fields \in Seq(S)
  BY DEF RecordOk
<1>2. Len(fields) \in Nat /\ Len(fields) # 0 /\ DOMAIN fields = 1 .. Len(fields)
  BY <1>1
<1>3. /\ PreviousEnd \in Nat
      /\ \A i \in DOMAIN fields : FieldOk(fields[i]) /\ FieldEnd(fields[i]) <= PreviousEnd
  BY DEF RecordOk
<1>4. \A i \in DOMAIN fields : fields[i].storage.align \in PowersOfTwo
  BY <1>3 DEF FieldOk, Wf
<1>5. A \subseteq PowersOfTwo /\ A # {}
  <2>1. 1 \in DOMAIN fields
    BY <1>2
  <2>2. fields[1].storage.align \in A
    BY <2>1
  <2>3. QED
    BY <1>4, <2>2
<1>6. Struct = [size |-> z, align |-> a]
  BY DEF Struct
<1>7. \A i \in DOMAIN fields : fields[i].storage.align \in A
  OBVIOUS
<1> HIDE DEF A
<1>8. A \subseteq 0 .. LargestAlignment /\ LargestAlignment \in Nat
  BY <1>5, PowerType
<1>9. a \in A /\ \A y \in A : y <= a
  BY <1>5, <1>8, MaxIs
<1> HIDE DEF a
<1>10. a \in PowersOfTwo /\ a \in Nat /\ a > 0
  BY <1>5, <1>9, PowerType
<1>11. z \in Nat /\ z >= PreviousEnd /\ z % a = 0
  BY <1>3, <1>10, RoundUpIs
<1> HIDE DEF z
<1>12. Wf(Struct) /\ Struct.size >= PreviousEnd /\ Struct.size = z /\ Struct.align = a
  BY <1>6, <1>10, <1>11 DEF Wf
<1>13. ASSUME NEW i \in DOMAIN fields
       PROVE  Fits(fields[i].storage, fields[i].offset, Struct)
  <2> DEFINE f == fields[i]
  <2>1. f.offset \in Nat /\ f.storage.size \in Nat /\ f.offset % f.storage.align = 0
    BY <1>3 DEF FieldOk, Wf
  <2>2. f.offset + f.storage.size <= PreviousEnd
    BY <1>3 DEF FieldEnd
  <2>3. a % f.storage.align = 0
    BY <1>4, <1>7, <1>9, <1>10, PowersDivide
  <2> DEFINE e == f.offset + f.storage.size
  <2>4. e \in Nat /\ e <= PreviousEnd
    BY <2>1, <2>2
  <2> HIDE DEF e, f
  <2>5. e <= z
    BY <1>3, <1>11, <2>4
  <2>6. QED
    BY <1>12, <2>1, <2>3, <2>5 DEF Fits, e, f
<1>14. QED
  BY <1>12, <1>13

LEMMA Appended ==
    ASSUME NEW S, NEW s \in Seq(S), NEW x
    PROVE  /\ \E T : Append(s, x) \in Seq(T)
           /\ DOMAIN Append(s, x) = (DOMAIN s) \cup {Len(s) + 1}
           /\ \A j \in DOMAIN s : Append(s, x)[j] = s[j]
           /\ Append(s, x)[Len(s) + 1] = x
           /\ Len(s) + 1 \notin DOMAIN s
           /\ Len(Append(s, x)) = Len(s) + 1 /\ Append(s, x) # <<>>
<1> DEFINE T == S \cup {x}
<1>1. s \in Seq(T) /\ x \in T
  OBVIOUS
<1>2. Append(s, x) \in Seq(T)
  BY <1>1
<1> HIDE DEF T
<1>3. DOMAIN Append(s, x) = (DOMAIN s) \cup {Len(s) + 1}
  BY <1>1
<1>4. (\A j \in DOMAIN s : Append(s, x)[j] = s[j]) /\ Append(s, x)[Len(s) + 1] = x
  BY <1>1
<1>5. Len(s) + 1 \notin DOMAIN s
  BY <1>1
<1>6. Len(Append(s, x)) = Len(s) + 1 /\ Append(s, x) # <<>>
  BY <1>1
<1>7. QED
  BY <1>2, <1>3, <1>4, <1>5, <1>6

\* One more padding range.
LEMMA PaddedAppend ==
    ASSUME NEW S, NEW ps \in Seq(S), NEW x, NEW b
    PROVE  Padded(Append(ps, x), b)
           = Padded(ps, b) \cup (IF Covers(x.start, x.end, b) THEN {Len(ps) + 1} ELSE {})
<1> DEFINE q == Append(ps, x)
           n == Len(ps) + 1
<1>1. /\ DOMAIN q = (DOMAIN ps) \cup {n} /\ n \notin DOMAIN ps
      /\ \A j \in DOMAIN ps : q[j] = ps[j]
      /\ q[n] = x
  BY Appended
<1> HIDE DEF q, n
<1>2. Padded(q, b) = Padded(ps, b) \cup (IF Covers(x.start, x.end, b) THEN {n} ELSE {})
  BY <1>1 DEF Padded
<1>3. QED
  BY <1>2 DEF q, n

LEMMA HoldingAppend ==
    ASSUME NEW S, NEW fs \in Seq(S), NEW f, NEW b
    PROVE  Holding(Append(fs, f), b)
           = Holding(fs, b) \cup (IF Covers(f.offset, f.offset + f.value.size, b)
                                  THEN {Len(fs) + 1} ELSE {})
<1> DEFINE q == Append(fs, f)
           n == Len(fs) + 1
<1>1. /\ DOMAIN q = (DOMAIN fs) \cup {n} /\ n \notin DOMAIN fs
      /\ \A j \in DOMAIN fs : q[j] = fs[j]
      /\ q[n] = f
  BY Appended
<1> HIDE DEF q, n
<1>2. Holding(q, b) = Holding(fs, b) \cup (IF Covers(f.offset, f.offset + f.value.size, b)
                                           THEN {n} ELSE {})
  BY <1>1 DEF Holding
<1>3. QED
  BY <1>2 DEF q, n

LEMMA TwoEntries ==
    ASSUME NEW S, NEW y \in S, NEW z \in S
    PROVE  Append(<<y>>, z) = <<y, z>>
<1> DEFINE a == Append(<<y>>, z)
           two == [i \in 1 .. 2 |-> IF i = 1 THEN y ELSE z]
<1>1. <<y>> \in Seq(S) /\ Len(<<y>>) = 1 /\ <<y>>[1] = y
  OBVIOUS
<1>2. a \in Seq(S) /\ Len(a) = 2 /\ a[1] = y /\ a[2] = z
  BY <1>1, AppendProperties
<1>3. <<y, z>> = two
  OBVIOUS
<1> HIDE DEF a
<1>4. a = [i \in 1 .. Len(a) |-> a[i]]
  BY <1>2
<1>5. \A i \in 1 .. 2 : a[i] = IF i = 1 THEN y ELSE z
  BY <1>2
<1>6. a = two
  BY <1>2, <1>4, <1>5
<1> HIDE DEF two
<1>7. QED
  BY <1>3, <1>6, Zenon DEF a

LEMMA ThreeAppends ==
    ASSUME NEW S, NEW s \in Seq(S), NEW x \in S, NEW y \in S, NEW z \in S
    PROVE  /\ s \o (<<x>> \o <<>>) = Append(s, x)
           /\ s \o (<<x>> \o <<y, z>>) = Append(Append(Append(s, x), y), z)
<1>1. <<x>> \in Seq(S) /\ <<y>> \in Seq(S) /\ <<z>> \in Seq(S) /\ <<y, z>> \in Seq(S)
  OBVIOUS
<1>2. <<x>> \o <<>> = <<x>>
  BY <1>1, ConcatEmptySeq
<1>3. Append(s, x) = s \o <<x>> /\ Append(s, x) \in Seq(S)
  BY AppendIsConcat
<1>4. <<y, z>> = <<y>> \o <<z>>
  <2>1. Append(<<y>>, z) = <<y, z>>
    BY TwoEntries
  <2>2. Append(<<y>>, z) = <<y>> \o <<z>>
    BY <1>1, AppendIsConcat
  <2>3. QED
    BY <2>1, <2>2, Zenon
<1>5. s \o (<<x>> \o <<y, z>>) = Append(s, x) \o <<y, z>>
  BY <1>1, <1>3, ConcatAssociative
<1> DEFINE t == Append(s, x)
<1>6. t \in Seq(S)
  BY <1>3
<1> HIDE DEF t
<1>7. Append(t, y) = t \o <<y>> /\ Append(t, y) \in Seq(S)
  BY <1>6, AppendIsConcat
<1>8. Append(Append(t, y), z) = Append(t, y) \o <<z>>
  BY <1>7, AppendIsConcat
<1>9. t \o (<<y>> \o <<z>>) = (t \o <<y>>) \o <<z>>
  BY <1>1, <1>6, ConcatAssociative
<1>10. t \o <<y, z>> = Append(Append(t, y), z)
  BY <1>4, <1>7, <1>8, <1>9, Zenon
<1>11. QED
  BY <1>2, <1>3, <1>5, <1>10, Zenon DEF t

\* The range an element of a sequence of ranges adds at byte b.
Adds(x, n, b) == IF Covers(x.start, x.end, b) THEN {n} ELSE {}

\* The ranges struct_padding_ranges emits for one field.
LEMMA PaddedField ==
    ASSUME NEW S, padding \in Seq(S), NEW t, NEW a, NEW o, NEW b
    PROVE  LET x == [start |-> PreviousEnd, end |-> o]
               y == [start |-> o, end |-> o + ValueOffset(t)]
               z == [start |-> (o + ValueOffset(t)) + t.size, end |-> o + Storage(t, a).size]
               n == Len(padding) + 1
           IN /\ \E T : padding \o PaddingRanges(t, a, o) \in Seq(T)
              /\ a = None => Padded(padding \o PaddingRanges(t, a, o), b)
                             = Padded(padding, b) \cup Adds(x, n, b)
              /\ a # None => Padded(padding \o PaddingRanges(t, a, o), b)
                             = ((Padded(padding, b) \cup Adds(x, n, b)) \cup Adds(y, n + 1, b))
                               \cup Adds(z, n + 2, b)
<1> DEFINE x == [start |-> PreviousEnd, end |-> o]
           y == [start |-> o, end |-> o + ValueOffset(t)]
           z == [start |-> (o + ValueOffset(t)) + t.size, end |-> o + Storage(t, a).size]
           n == Len(padding) + 1
           T == S \cup {x, y, z}
           all == padding \o PaddingRanges(t, a, o)
           p1 == Append(padding, x)
           p2 == Append(p1, y)
           p3 == Append(p2, z)
<1>1. PaddingRanges(t, a, o) = <<x>> \o IF a = None THEN <<>> ELSE <<y, z>>
  BY DEF PaddingRanges
<1>2. padding \in Seq(T) /\ x \in T /\ y \in T /\ z \in T
  OBVIOUS
<1> HIDE DEF x, y, z, T
<1>3. p1 \in Seq(T) /\ Len(p1) = Len(padding) + 1
  BY <1>2, AppendProperties
<1> HIDE DEF p1
<1>4. p2 \in Seq(T) /\ Len(p2) = Len(p1) + 1
  BY <1>2, <1>3, AppendProperties
<1> HIDE DEF p2
<1>5. p3 \in Seq(T)
  BY <1>2, <1>4, AppendProperties
<1>6. Padded(p1, b) = Padded(padding, b) \cup Adds(x, n, b)
  BY PaddedAppend DEF p1, Adds
<1>7. Padded(p2, b) = Padded(p1, b) \cup Adds(y, n + 1, b)
  BY <1>3, PaddedAppend DEF p2, Adds
<1>8. Padded(p3, b) = Padded(p2, b) \cup Adds(z, n + 2, b)
  <2>1. Len(p2) + 1 = n + 2
    <3>1. Len(padding) \in Nat
      OBVIOUS
    <3>2. QED
      BY <1>3, <1>4, <3>1
  <2>2. Padded(p3, b) = Padded(p2, b) \cup Adds(z, Len(p2) + 1, b)
    BY <1>4, PaddedAppend DEF Adds
  <2>3. QED
    BY <2>1, <2>2
<1> HIDE DEF p3, n
<1>9. CASE a = None
  <2>1. all = padding \o (<<x>> \o <<>>)
    BY <1>1, <1>9
  <2>2. all = p1
    BY <1>2, <2>1, ThreeAppends DEF p1
  <2>3. QED
    BY <1>3, <1>6, <1>9, <2>2 DEF x, n
<1>10. CASE a # None
  <2>1. all = padding \o (<<x>> \o <<y, z>>)
    BY <1>1, <1>10
  <2>2. all = p3
    BY <1>2, <2>1, ThreeAppends DEF p1, p2, p3
  <2> HIDE DEF all
  <2>3. Padded(all, b) = ((Padded(padding, b) \cup Adds(x, n, b)) \cup Adds(y, n + 1, b))
                         \cup Adds(z, n + 2, b)
    BY <1>6, <1>7, <1>8, <2>2, Zenon
  <2>4. \E U : all \in Seq(U)
    BY <1>5, <2>2, Zenon
  <2>5. QED
    BY <1>10, <2>3, <2>4, Zenon DEF x, y, z, n, all
<1>11. QED
  BY <1>9, <1>10

\* A byte that lies in one range, and in no other.
LEMMA OnceBy ==
    ASSUME NEW fs, NEW ps, NEW b, NEW i
    PROVE  /\ Holding(fs, b) = {i} /\ Padded(ps, b) = {} => Once(fs, ps, b)
           /\ Holding(fs, b) = {} /\ Padded(ps, b) = {i} => Once(fs, ps, b)
  BY Zenon DEF Once

\* A field extends the partition to its end.
LEMMA FieldPartition ==
    ASSUME NEW S, fields \in Seq(S), NEW V, padding \in Seq(V), PreviousEnd \in Nat,
           Partition(fields, padding, PreviousEnd),
           NEW t, Wf(t), NEW a, a = None \/ AlignmentMarker(a),
           NEW o \in Nat, o >= PreviousEnd
    PROVE  Partition(Append(fields, [offset |-> o, value |-> t, storage |-> Storage(t, a)]),
                     padding \o PaddingRanges(t, a, o), o + Storage(t, a).size)
<1> DEFINE s == Storage(t, a)
           f == [offset |-> o, value |-> t, storage |-> s]
           fs == Append(fields, f)
           ps == padding \o PaddingRanges(t, a, o)
           m == Len(fields) + 1
           n == Len(padding) + 1
           pe == PreviousEnd
           v == t.size
           w == s.size
<1>1. v \in Nat /\ w \in Nat /\ w >= v /\ (a = None => w = v)
  <2>1. Wf(s) /\ s.size >= t.size /\ (a = None => s = t)
    BY StorageFits
  <2>2. QED
    BY <2>1 DEF Wf
<1>2. ValueOffset(t) = 0
  BY ValueOffsetZero
<1>3. pe \in Nat /\ o \in Nat /\ pe <= o
  OBVIOUS
<1> SUFFICES ASSUME NEW b \in Nat
             PROVE  /\ b < o + w => Once(fs, ps, b)
                    /\ b >= o + w => Holding(fs, b) = {} /\ Padded(ps, b) = {}
  BY DEF Partition
<1>4. /\ b < pe => Once(fields, padding, b)
      /\ b >= pe => Holding(fields, b) = {} /\ Padded(padding, b) = {}
  BY DEF Partition
<1> DEFINE H == Holding(fields, b)
           P == Padded(padding, b)
           x == [start |-> pe, end |-> o]
           y == [start |-> o, end |-> o + ValueOffset(t)]
           z == [start |-> (o + ValueOffset(t)) + t.size, end |-> o + s.size]
<1>5. Holding(fs, b) = H \cup (IF o <= b /\ b < o + v THEN {m} ELSE {})
  <2>1. f.offset = o /\ f.value = t
    OBVIOUS
  <2> HIDE DEF f
  <2>2. Holding(fs, b) = H \cup (IF Covers(f.offset, f.offset + f.value.size, b) THEN {m} ELSE {})
    BY HoldingAppend
  <2>3. QED
    BY <2>1, <2>2 DEF Covers
<1>6. /\ a = None => Padded(ps, b) = P \cup Adds(x, n, b)
      /\ a # None => Padded(ps, b) = ((P \cup Adds(x, n, b)) \cup Adds(y, n + 1, b))
                                     \cup Adds(z, n + 2, b)
  BY PaddedField
<1>7. Adds(x, n, b) = IF pe <= b /\ b < o THEN {n} ELSE {}
  BY DEF Adds, Covers
<1>8. Adds(y, n + 1, b) = {}
  BY <1>2 DEF Adds, Covers
<1>9. Adds(z, n + 2, b) = IF o + v <= b /\ b < o + w THEN {n + 2} ELSE {}
  <2>1. (o + ValueOffset(t)) + t.size = o + v
    BY <1>1, <1>2
  <2>2. z.start = o + v /\ z.end = o + w
    BY <2>1
  <2> HIDE DEF z
  <2>3. QED
    BY <2>2 DEF Adds, Covers
<1> HIDE DEF s, f, fs, ps, m, n, v, w, x, y, z, H, P, pe
<1>10. CASE b < pe
  <2>1. b < o /\ ~(o <= b) /\ ~(pe <= b) /\ ~(o + v <= b) /\ b < o + w
    BY <1>1, <1>3, <1>10
  <2>2. Holding(fs, b) = H
    BY <1>5, <2>1
  <2>3. Padded(ps, b) = P
    BY <1>6, <1>7, <1>8, <1>9, <2>1
  <2>4. Once(fields, padding, b)
    BY <1>4, <1>10
  <2>5. Once(fs, ps, b)
    BY <2>2, <2>3, <2>4, Zenon DEF Once, H, P
  <2>6. ~(b >= o + w)
    BY <1>1, <1>3, <2>1
  <2>7. QED
    BY <2>5, <2>6, Zenon
<1>11. CASE b >= pe
  <2>1. H = {} /\ P = {}
    BY <1>4, <1>11 DEF H, P
  <2>2. CASE b < o
    <3>1. ~(o <= b) /\ pe <= b /\ ~(o + v <= b) /\ b < o + w
      BY <1>1, <1>3, <1>11, <2>2
    <3>2. Holding(fs, b) = {}
      BY <1>5, <2>1, <3>1
    <3>3. Padded(ps, b) = {n}
      BY <1>6, <1>7, <1>8, <1>9, <2>1, <2>2, <3>1
    <3>4. Once(fs, ps, b)
      BY <3>2, <3>3, OnceBy, Zenon
    <3>5. ~(b >= o + w)
      BY <1>1, <1>3, <3>1
    <3>6. QED
      BY <3>4, <3>5, Zenon
 <2>3. CASE o <= b /\ b < o + v
    <3>1. ~(b < o) /\ ~(o + v <= b) /\ b < o + w
      BY <1>1, <1>3, <2>3
    <3>2. Holding(fs, b) = {m}
      BY <1>5, <2>1, <2>3
    <3>3. Padded(ps, b) = {}
      BY <1>6, <1>7, <1>8, <1>9, <2>1, <3>1
    <3>4. Once(fs, ps, b)
      BY <3>2, <3>3, OnceBy, Zenon
    <3>5. ~(b >= o + w)
      BY <1>1, <1>3, <3>1
    <3>6. QED
      BY <3>4, <3>5, Zenon
 <2>4. CASE o + v <= b /\ b < o + w
    <3>1. ~(b < o) /\ ~(b < o + v) /\ a # None
      BY <1>1, <1>3, <2>4
    <3>2. Holding(fs, b) = {}
      BY <1>5, <2>1, <3>1
    <3>3. Padded(ps, b) = {n + 2}
      BY <1>6, <1>7, <1>8, <1>9, <2>1, <2>4, <3>1
    <3>4. Once(fs, ps, b)
      BY <3>2, <3>3, OnceBy, Zenon
    <3>5. ~(b >= o + w)
      BY <1>1, <1>3, <2>4
    <3>6. QED
      BY <3>4, <3>5, Zenon
  <2>5. CASE b >= o + w
    <3>1. ~(b < o) /\ ~(b < o + v) /\ ~(b < o + w)
      BY <1>1, <1>3, <2>5
    <3>2. Holding(fs, b) = {}
      BY <1>5, <2>1, <3>1
    <3>3. Padded(ps, b) = {}
      BY <1>6, <1>7, <1>8, <1>9, <2>1, <3>1
    <3>4. QED
      BY <3>1, <3>2, <3>3, Zenon
  <2>6. QED
    BY <1>1, <1>3, <1>11, <2>2, <2>3, <2>4, <2>5
<1>12. QED
  BY <1>3, <1>10, <1>11

\* The trailing range completes it.
LEMMA TrailingPartition ==
    ASSUME NEW V, padding \in Seq(V), PreviousEnd \in Nat,
           Partition(fields, padding, PreviousEnd), NEW e \in Nat, e >= PreviousEnd
    PROVE  Partition(fields, Append(padding, [start |-> PreviousEnd, end |-> e]), e)
<1> DEFINE x == [start |-> PreviousEnd, end |-> e]
           ps == Append(padding, x)
           n == Len(padding) + 1
           pe == PreviousEnd
<1> SUFFICES ASSUME NEW b \in Nat
             PROVE  /\ b < e => Once(fields, ps, b)
                    /\ b >= e => Holding(fields, b) = {} /\ Padded(ps, b) = {}
  BY DEF Partition
<1>1. /\ b < pe => Once(fields, padding, b)
      /\ b >= pe => Holding(fields, b) = {} /\ Padded(padding, b) = {}
  BY DEF Partition
<1>2. Padded(ps, b) = Padded(padding, b) \cup (IF pe <= b /\ b < e THEN {n} ELSE {})
  <2>1. x.start = pe /\ x.end = e
    OBVIOUS
  <2> HIDE DEF x
  <2>2. Padded(ps, b) = Padded(padding, b) \cup (IF Covers(x.start, x.end, b) THEN {n} ELSE {})
    BY PaddedAppend
  <2>3. QED
    BY <2>1, <2>2 DEF Covers
<1>3. pe \in Nat /\ pe <= e
  OBVIOUS
<1> HIDE DEF ps, n, pe, x
<1>4. CASE b < pe
  <2>1. ~(pe <= b) /\ b < e /\ ~(b >= e)
    BY <1>3, <1>4
  <2>2. Padded(ps, b) = Padded(padding, b)
    BY <1>2, <2>1
  <2>3. Once(fields, ps, b)
    BY <1>1, <1>4, <2>2, Zenon DEF Once
  <2>4. QED
    BY <2>1, <2>3, Zenon
<1>5. CASE b >= pe
  <2>1. Holding(fields, b) = {} /\ Padded(ps, b) = IF b < e THEN {n} ELSE {}
    BY <1>1, <1>2, <1>3, <1>5
  <2>2. CASE b < e
    <3>1. Padded(ps, b) = {n} /\ ~(b >= e)
      BY <2>1, <2>2
    <3>2. Once(fields, ps, b)
      BY <2>1, <3>1, OnceBy, Zenon
    <3>3. QED
      BY <3>1, <3>2, Zenon
  <2>3. CASE b >= e
    <3>1. ~(b < e)
      BY <2>3
    <3>2. QED
      BY <2>1, <3>1, Zenon
  <2>4. QED
    BY <2>2, <2>3
<1>6. QED
  BY <1>3, <1>4, <1>5

-----------------------------------------------------------------------------
(* One lemma per action *)

LEMMA EmptyRecord ==
    ASSUME NoRecord \/ (fields' = <<>> /\ padding' = <<>> /\ root' = {})
    PROVE  RecordOk' /\ RootFits' /\ PaddingOk'
<1>1. fields' = <<>> /\ padding' = <<>> /\ root' = {}
  BY DEF NoRecord
<1>2. PreviousEnd' = 0
  BY <1>1 DEF PreviousEnd
<1>3. \E S : <<>> \in Seq(S)
  <2>1. <<>> \in Seq({})
    OBVIOUS
  <2>2. QED
    BY <2>1, Zenon
<1>4. DOMAIN <<>> = {}
  OBVIOUS
<1>5. RecordOk'
  <2>1. (\E S : fields' \in Seq(S)) /\ (\E S : padding' \in Seq(S))
    BY <1>1, <1>3, Zenon
  <2>2. PreviousEnd' \in Nat /\ DOMAIN fields' = {}
    BY <1>1, <1>2, <1>4
  <2>3. QED
    BY <2>1, <2>2, Zenon DEF RecordOk
<1>6. RootFits'
  BY <1>1 DEF RootFits
<1>7. PaddingOk'
  <2>1. ASSUME NEW b \in Nat
        PROVE  ~(b < 0) /\ Holding(<<>>, b) = {} /\ Padded(<<>>, b) = {}
    BY DEF Holding, Padded
  <2>2. Partition(<<>>, <<>>, 0)
    BY <2>1 DEF Partition
  <2>3. QED
    BY <1>1, <1>2, <2>2, Zenon DEF PaddingOk
<1>8. QED
  BY <1>5, <1>6, <1>7

LEMMA ArrayStep ==
    ASSUME Inv, NEW t \in Declared, NEW n \in Length, DeclareArray(t, n)
    PROVE  Inv'
<1>1. n \in Nat /\ Wf(t)
  BY LengthAssumption DEF Inv, DeclaredOk
<1>2. Wf(ArrayWire(t, n)) /\ \A k \in 0 .. n - 1 : Fits(t, k * t.size, ArrayWire(t, n))
  BY <1>1, ArrayFits
<1>3. DeclaredOk'
  BY <1>2, Zenon DEF Inv, DeclaredOk, Declared, DeclareArray
<1>4. ArraysFit'
  <2> DEFINE e == [wire |-> ArrayWire(t, n), element |-> t, length |-> n]
  <2>1. arrays' = arrays \cup {e}
    BY DEF DeclareArray
  <2>2. e.wire = ArrayWire(t, n) /\ e.element = t /\ e.length = n
    OBVIOUS
  <2> HIDE DEF e
  <2>3. \A k \in 0 .. e.length - 1 : Fits(e.element, k * e.element.size, e.wire)
    BY <1>2, <2>2, Zenon
  <2>4. \A a \in arrays : \A k \in 0 .. a.length - 1 : Fits(a.element, k * a.element.size, a.wire)
    BY DEF Inv, ArraysFit
  <2>5. QED
    BY <2>1, <2>3, <2>4, Zenon DEF ArraysFit
<1>5. UnionsFit'
  BY DEF Inv, UnionsFit, DeclareArray
<1>6. NoRecord /\ AlignOk'
  BY DEF DeclareArray, NoRecord, AlignOk
<1>7. QED
  BY <1>3, <1>4, <1>5, <1>6, EmptyRecord DEF Inv

LEMMA PayloadStep ==
    ASSUME Inv, NEW t \in Declared \cup {UnitWire}, NEW u \in Declared \cup {UnitWire},
           DeclarePayload({t, u})
    PROVE  Inv'
<1>1. Wf(t) /\ Wf(u)
  BY UnitWf DEF Inv, DeclaredOk
<1>2. Wf(UnionWire({t, u})) /\ \A v \in {t, u} : Fits(v, 0, UnionWire({t, u}))
  BY <1>1, UnionFits
<1>3. DeclaredOk'
  BY <1>2, Zenon DEF Inv, DeclaredOk, Declared, DeclarePayload
<1>4. UnionsFit'
  <2> DEFINE e == [wire |-> UnionWire({t, u}), variants |-> {t, u}]
  <2>1. unions' = unions \cup {e}
    BY DEF DeclarePayload
  <2>2. e.wire = UnionWire({t, u}) /\ e.variants = {t, u}
    OBVIOUS
  <2> HIDE DEF e
  <2>3. \A v \in e.variants : Fits(v, 0, e.wire)
    BY <1>2, <2>2, Zenon
  <2>4. \A w \in unions : \A v \in w.variants : Fits(v, 0, w.wire)
    BY DEF Inv, UnionsFit
  <2>5. QED
    BY <2>1, <2>3, <2>4, Zenon DEF UnionsFit
<1>5. ArraysFit'
  BY DEF Inv, ArraysFit, DeclarePayload
<1>6. NoRecord /\ AlignOk'
  BY DEF DeclarePayload, NoRecord, AlignOk
<1>7. QED
  BY <1>3, <1>4, <1>5, <1>6, EmptyRecord DEF Inv

LEMMA BeginStep ==
    ASSUME Inv, NEW a, BeginRecord(a)
    PROVE  Inv'
<1>1. DeclaredOk' /\ ArraysFit' /\ UnionsFit'
  BY DEF Inv, DeclaredOk, Declared, ArraysFit, UnionsFit, BeginRecord
<1>2. AlignOk'
  BY DEF BeginRecord, AlignOk
<1>3. RecordOk' /\ RootFits' /\ PaddingOk'
  BY EmptyRecord DEF BeginRecord
<1>4. QED
  BY <1>1, <1>2, <1>3 DEF Inv

LEMMA FieldStep ==
    ASSUME Inv, NEW t \in Declared, NEW a, Field(t, a)
    PROVE  Inv'
<1> DEFINE s == Storage(t, a)
           o == RoundUp(PreviousEnd, s.align)
           f == [offset |-> o, value |-> t, storage |-> s]
           pe == PreviousEnd
<1>1. /\ fields' = Append(fields, f)
      /\ padding' = padding \o PaddingRanges(t, a, o)
      /\ root = {} /\ root' = {}
      /\ a = None \/ AlignmentMarker(a)
  BY DEF Field, Open
<1>2. Wf(t) /\ pe \in Nat
  BY DEF Inv, DeclaredOk, RecordOk
<1>3. Wf(s) /\ Fits(t, 0, s)
  BY <1>1, <1>2, StorageFits
<1>4. o \in Nat /\ o >= pe /\ o % s.align = 0
  <2>1. s.align \in Nat /\ s.align > 0
    BY <1>3, PowerType DEF Wf
  <2>2. QED
    BY <1>2, <2>1, RoundUpIs
<1>5. PICK S : fields \in Seq(S)
  BY DEF Inv, RecordOk
<1>6. PICK V : padding \in Seq(V)
  BY DEF Inv, RecordOk
<1>7. f.offset = o /\ f.value = t /\ f.storage = s
  OBVIOUS
<1>8. \E T : padding' \in Seq(T)
  BY <1>1, <1>6, PaddedField
<1>9. Partition(Append(fields, f), padding \o PaddingRanges(t, a, o), o + s.size)
  <2>1. Partition(fields, padding, pe)
    BY <1>1 DEF Inv, PaddingOk
  <2> HIDE DEF o
  <2>2. QED
    BY <1>1, <1>2, <1>4, <1>5, <1>6, <2>1, FieldPartition
<1> HIDE DEF s, o, f
<1> DEFINE m == Len(fields) + 1
<1>10. /\ \E T : fields' \in Seq(T)
       /\ DOMAIN fields' = (DOMAIN fields) \cup {m}
       /\ \A j \in DOMAIN fields : fields'[j] = fields[j]
       /\ fields'[m] = f
       /\ Len(fields') = m /\ fields' # <<>>
  <2>1. /\ \E T : Append(fields, f) \in Seq(T)
        /\ DOMAIN Append(fields, f) = (DOMAIN fields) \cup {m}
        /\ \A j \in DOMAIN fields : Append(fields, f)[j] = fields[j]
        /\ Append(fields, f)[m] = f
        /\ Len(Append(fields, f)) = m /\ Append(fields, f) # <<>>
    BY <1>5, Appended, Zenon
  <2>2. QED
    BY <1>1, <2>1, Zenon
<1>11. PreviousEnd' = o + s.size
  BY <1>7, <1>10 DEF PreviousEnd
<1> HIDE DEF m
<1>12. s.size \in Nat
  BY <1>3 DEF Wf
<1>13. RecordOk'
  <2>1. PreviousEnd' \in Nat /\ pe <= PreviousEnd'
    BY <1>2, <1>4, <1>11, <1>12
  <2>2. FieldOk(f) /\ FieldEnd(f) <= PreviousEnd'
    BY <1>2, <1>3, <1>4, <1>7, <1>11, <1>12 DEF FieldOk, FieldEnd
  <2>3. ASSUME NEW i \in DOMAIN fields
        PROVE  FieldOk(fields[i]) /\ FieldEnd(fields[i]) <= PreviousEnd'
    <3>1. FieldOk(fields[i]) /\ FieldEnd(fields[i]) <= pe
      BY DEF Inv, RecordOk
    <3>2. FieldEnd(fields[i]) \in Nat
      BY <3>1 DEF FieldOk, FieldEnd, Wf
    <3>3. QED
      BY <1>2, <2>1, <3>1, <3>2
  <2>4. ASSUME NEW i \in DOMAIN fields'
        PROVE  FieldOk(fields'[i]) /\ FieldEnd(fields'[i]) <= PreviousEnd'
    BY <1>10, <2>2, <2>3, Zenon
  <2>5. QED
    BY <1>8, <1>10, <2>1, <2>4, Zenon DEF RecordOk, FieldOk, FieldEnd, Wf, Fits
<1>14. DeclaredOk' /\ ArraysFit' /\ UnionsFit' /\ AlignOk'
  BY DEF Inv, DeclaredOk, Declared, ArraysFit, UnionsFit, AlignOk, Field
<1>15. RootFits'
  BY <1>1 DEF RootFits
<1>16. PaddingOk'
  BY <1>1, <1>9, <1>11, Zenon DEF PaddingOk, Partition, Once, Holding, Padded
<1>17. QED
  BY <1>13, <1>14, <1>15, <1>16 DEF Inv

LEMMA CloseStep ==
    ASSUME Inv, CloseRecord
    PROVE  Inv'
<1> DEFINE r == Storage(Struct, align)
           pe == PreviousEnd
<1>1. /\ root = {} /\ fields # <<>> /\ root' = {r} /\ types' = types \cup {r}
      /\ padding' = Append(padding, [start |-> pe, end |-> r.size])
      /\ fields' = fields /\ align' = align /\ arrays' = arrays /\ unions' = unions
  BY DEF CloseRecord, Open
<1>2. /\ Wf(Struct) /\ Struct.size >= pe
      /\ \A i \in DOMAIN fields : Fits(fields[i].storage, fields[i].offset, Struct)
  BY <1>1, StructFits DEF Inv
<1>3. Wf(r) /\ Fits(Struct, 0, r) /\ r.size >= Struct.size
  BY <1>2, StorageFits DEF Inv, AlignOk
<1> HIDE DEF r
<1>4. pe \in Nat /\ r.size \in Nat /\ r.size >= pe
  <2>1. pe \in Nat /\ Struct.size \in Nat /\ r.size \in Nat
    BY <1>2, <1>3 DEF Inv, RecordOk, Wf
  <2>2. QED
    BY <1>2, <1>3, <2>1
<1>5. PICK V : padding \in Seq(V)
  BY DEF Inv, RecordOk
<1>6. Partition(fields, padding', r.size)
  <2>1. Partition(fields, padding, pe)
    BY <1>1 DEF Inv, PaddingOk
  <2> DEFINE e == r.size
  <2>2. e \in Nat /\ e >= pe
    BY <1>4
  <2> HIDE DEF e
  <2>3. Partition(fields, Append(padding, [start |-> pe, end |-> e]), e)
    BY <1>4, <1>5, <2>1, <2>2, TrailingPartition
  <2>4. QED
    BY <1>1, <2>3 DEF e
<1>7. PaddingOk'
  <2>1. root' # {} /\ \A q \in root' : q = r
    BY <1>1
  <2>2. \A q \in root' : Partition(fields', padding', q.size)
    BY <1>1, <1>6, <2>1, Zenon
  <2>3. QED
    BY <2>1, <2>2, Zenon DEF PaddingOk
<1>8. RootFits'
  <2>1. ASSUME NEW i \in DOMAIN fields
        PROVE  Fits(fields[i].storage, fields[i].offset, r)
    <3>1. Wf(fields[i].storage) /\ fields[i].offset \in Nat
      BY DEF Inv, RecordOk, FieldOk
    <3>2. Fits(fields[i].storage, fields[i].offset, Struct)
      BY <1>2
    <3>3. QED
      BY <1>2, <1>3, <3>1, <3>2, FitsWiden
  <2>2. QED
    BY <1>1, <1>3, <2>1, Zenon DEF RootFits, Wf, Fits
<1>9. RecordOk'
  <2>1. \E T : padding' \in Seq(T)
    BY <1>1, <1>5, Appended
  <2>2. PreviousEnd' = pe
    BY <1>1 DEF PreviousEnd
  <2>3. QED
    BY <1>1, <2>1, <2>2, Zenon DEF Inv, RecordOk, FieldOk, FieldEnd, Wf, Fits
<1>10. DeclaredOk'
  BY <1>1, <1>3, Zenon DEF Inv, DeclaredOk, Declared, Wf
<1>11. ArraysFit' /\ UnionsFit' /\ AlignOk'
  BY <1>1 DEF Inv, ArraysFit, UnionsFit, AlignOk
<1>12. QED
  BY <1>7, <1>8, <1>9, <1>10, <1>11 DEF Inv

-----------------------------------------------------------------------------
(* The theorems *)

LEMMA InitInv == Init => Inv
<1> SUFFICES ASSUME Init PROVE Inv
  OBVIOUS
<1>1. DeclaredOk
  <2>1. ASSUME NEW t \in Leaf PROVE Wf(t)
    BY LeafAssumption, Markers DEF Wf
  <2>2. QED
    BY <2>1 DEF Init, DeclaredOk, Declared
<1>2. ArraysFit /\ UnionsFit /\ AlignOk /\ RootFits
  BY DEF Init, ArraysFit, UnionsFit, AlignOk, RootFits
<1>3. PreviousEnd = 0
  BY DEF Init, PreviousEnd
<1>4. RecordOk
  <2>1. <<>> \in Seq({}) /\ DOMAIN <<>> = {}
    OBVIOUS
  <2>2. (\E S : fields \in Seq(S)) /\ (\E S : padding \in Seq(S))
    BY <2>1, Zenon DEF Init
  <2>3. PreviousEnd \in Nat /\ DOMAIN fields = {}
    BY <1>3, <2>1 DEF Init
  <2>4. QED
    BY <2>2, <2>3, Zenon DEF RecordOk
<1>5. PaddingOk
  <2>1. ASSUME NEW b \in Nat
        PROVE  ~(b < 0) /\ Holding(<<>>, b) = {} /\ Padded(<<>>, b) = {}
    BY DEF Holding, Padded
  <2>2. Partition(<<>>, <<>>, 0)
    BY <2>1 DEF Partition
  <2>3. fields = <<>> /\ padding = <<>> /\ root = {}
    BY DEF Init
  <2>4. QED
    BY <1>3, <2>2, <2>3, Zenon DEF PaddingOk
<1>6. QED
  BY <1>1, <1>2, <1>4, <1>5 DEF Inv

\* Every declaration keeps the inductive invariant: wires are well formed,
\* and the record under way is partitioned up to its last field.
THEOREM Invariance == Spec => []Inv
<1>1. Inv /\ [Next]_vars => Inv'
  <2> SUFFICES ASSUME Inv, [Next]_vars PROVE Inv'
    OBVIOUS
  <2>1. CASE \E t \in Declared, n \in Length : DeclareArray(t, n)
    BY <2>1, ArrayStep
  <2>2. CASE \E t, u \in Declared \cup {UnitWire} : DeclarePayload({t, u})
    BY <2>2, PayloadStep
  <2>3. CASE \E a \in AlignOption \cup {None} : BeginRecord(a)
    BY <2>3, BeginStep
  <2>4. CASE \E t \in Declared, a \in AlignOption \cup {None} : Field(t, a)
    BY <2>4, FieldStep
  <2>5. CASE CloseRecord
    BY <2>5, CloseStep
  <2>6. CASE UNCHANGED vars
    <3>1. /\ types' = types /\ arrays' = arrays /\ unions' = unions /\ align' = align
          /\ fields' = fields /\ padding' = padding /\ root' = root
      BY <2>6 DEF vars
    <3>2. PreviousEnd' = PreviousEnd
      BY <3>1 DEF PreviousEnd
    <3>3. DeclaredOk' /\ ArraysFit' /\ UnionsFit' /\ AlignOk'
      BY <3>1 DEF Inv, DeclaredOk, Declared, ArraysFit, UnionsFit, AlignOk
    <3>4. RecordOk' /\ RootFits' /\ PaddingOk'
      BY <3>1, <3>2, Zenon DEF Inv, RecordOk, RootFits, PaddingOk
    <3>5. QED
      BY <3>3, <3>4 DEF Inv
  <2>7. QED
    BY <2>1, <2>2, <2>3, <2>4, <2>5, <2>6 DEF Next
<1>2. QED
  BY <1>1, InitInv, PTL DEF Spec

\* Whatever the generated code selects is accepted by subrange: a field's
\* storage in the root, the value in it, the elements of an array and the
\* variants of a payload, for any declarations of any size.
THEOREM SelectionsAlwaysSucceed == Spec => []SelectionsSucceed
<1>1. Inv => SelectionsSucceed
  <2> SUFFICES ASSUME Inv PROVE SelectionsSucceed
    OBVIOUS
  <2>1. ASSUME NEW r \in root, NEW i \in DOMAIN fields
        PROVE  /\ Fits(fields[i].storage, ValueOffset(Struct) + fields[i].offset, r)
               /\ Fits(fields[i].value, ValueOffset(fields[i].value), fields[i].storage)
    <3>1. FieldOk(fields[i]) /\ Fits(fields[i].storage, fields[i].offset, r)
      BY DEF Inv, RecordOk, RootFits
    <3>2. fields # <<>>
      OBVIOUS
    <3>3. Wf(Struct)
      BY <3>2, StructFits DEF Inv
    <3>4. ValueOffset(Struct) = 0 /\ ValueOffset(fields[i].value) = 0
      BY <3>1, <3>3, ValueOffsetZero DEF FieldOk
    <3>5. ValueOffset(Struct) + fields[i].offset = fields[i].offset
      BY <3>1, <3>4 DEF FieldOk
    <3>6. Fits(fields[i].value, 0, fields[i].storage)
      BY <3>1 DEF FieldOk
    <3>7. QED
      BY <3>1, <3>4, <3>5, <3>6, Zenon
  <2>2. ArraysFit /\ UnionsFit
    BY DEF Inv
  <2>3. QED
    BY <2>1, <2>2, Zenon DEF SelectionsSucceed, ArraysFit, UnionsFit
<1>2. QED
  BY <1>1, Invariance, PTL

\* The padding ranges of a descriptor are exact: every byte of a closed
\* record lies in one field's value or in one padding range, and only one.
THEOREM PaddingIsAlwaysExact == Spec => []PaddingIsExact
<1>1. Inv => PaddingIsExact
  <2> SUFFICES ASSUME Inv, NEW r \in root, NEW b \in 0 .. r.size - 1
               PROVE  Cardinality({i \in DOMAIN fields :
                         LET start == fields[i].offset + ValueOffset(fields[i].value)
                         IN Covers(start, start + fields[i].value.size, b)})
                      + Cardinality({i \in DOMAIN padding :
                                        Covers(padding[i].start, padding[i].end, b)}) = 1
    BY DEF PaddingIsExact
  <2> DEFINE H == {i \in DOMAIN fields :
                      LET start == fields[i].offset + ValueOffset(fields[i].value)
                      IN Covers(start, start + fields[i].value.size, b)}
             P == {i \in DOMAIN padding : Covers(padding[i].start, padding[i].end, b)}
  <2>1. r.size \in Nat /\ b \in Nat /\ b < r.size
    BY DEF Inv, RootFits, Wf
  <2>2. Once(fields, padding, b)
    BY <2>1 DEF Inv, PaddingOk, Partition
  <2>3. H = Holding(fields, b)
    <3>1. ASSUME NEW i \in DOMAIN fields
          PROVE  fields[i].offset + ValueOffset(fields[i].value) = fields[i].offset
      <4>1. FieldOk(fields[i])
        BY DEF Inv, RecordOk
      <4>2. ValueOffset(fields[i].value) = 0 /\ fields[i].offset \in Nat
        BY <4>1, ValueOffsetZero DEF FieldOk
      <4>3. QED
        BY <4>2
    <3>2. QED
      BY <3>1 DEF Holding
  <2>4. P = Padded(padding, b)
    BY DEF Padded
  <2> HIDE DEF H, P
  <2>5. \/ (\E i : H = {i}) /\ P = {}
        \/ H = {} /\ \E i : P = {i}
    BY <2>2, <2>3, <2>4, Zenon DEF Once
  <2>6. Cardinality({}) = 0 /\ \A i : Cardinality({i}) = 1
    BY FS_EmptySet, FS_Singleton
  <2>7. \/ Cardinality(H) = 1 /\ Cardinality(P) = 0
        \/ Cardinality(H) = 0 /\ Cardinality(P) = 1
    BY <2>5, <2>6, Zenon
  <2>8. Cardinality(H) + Cardinality(P) = 1
    BY <2>7
  <2>9. QED
    BY <2>8 DEF H, P
<1>2. QED
  BY <1>1, Invariance, PTL
=============================================================================
