-------------------------- MODULE ArrayFieldProofs --------------------------
(***************************************************************************)
(* The element loops of an array field, for every shape.                   *)
(*                                                                         *)
(* The code carries a flat position down the levels of a nested array and  *)
(* turns it back into an index path when an element fails.  The first part *)
(* proves by induction over the levels that the position is exact, orders  *)
(* the elements as the loops do, selects bytes of its own for every leaf   *)
(* and is inverted by IndexPath.  The second part is the inductive         *)
(* invariant of the two-pass write.                                        *)
(***************************************************************************)
EXTENDS ArrayField, TLAPS, WellFoundedInduction

-----------------------------------------------------------------------------
(* Induction over the naturals, stated with sets *)

LEMMA MinimalNat ==
    ASSUME NEW T, T \subseteq Nat, T # {}
    PROVE  \E x \in T : \A y \in T : ~(y < x)
<1> DEFINE R == OpToRel(<, Nat)
<1>1. IsWellFoundedOn(R, Nat)
  BY NatLessThanWellFounded
<1>2. \A x, y \in Nat : x < y => <<x, y>> \in R
  BY DEF OpToRel
<1> HIDE DEF R
<1>3. PICK x \in T : \A y \in T : ~(<<y, x>> \in R)
  BY <1>1, WFMin
<1>4. QED
  BY <1>2, <1>3, Zenon

\* A set of naturals that is not empty has a least element.
LEMMA LeastNat ==
    ASSUME NEW T, T \subseteq Nat, T # {}
    PROVE  \E x \in T : \A y \in T : x <= y
<1>1. PICK x \in T : \A y \in T : ~(y < x)
  BY MinimalNat
<1>2. \A y \in T : x <= y
  BY <1>1
<1>3. QED
  BY <1>2

\* Induction: what holds at 0 and is passed on below n holds up to n.
LEMMA UpTo ==
    ASSUME NEW n \in Nat, NEW S, 0 \in S,
           \A k \in 0 .. n - 1 : k \in S => k + 1 \in S
    PROVE  0 .. n \subseteq S
<1> DEFINE Bad == {k \in 0 .. n : k \notin S}
<1>1. SUFFICES ASSUME Bad # {} PROVE FALSE
  OBVIOUS
<1>2. PICK k \in Bad : \A j \in Bad : k <= j
  <2>1. Bad \subseteq Nat
    OBVIOUS
  <2> HIDE DEF Bad
  <2>2. QED
    BY <1>1, <2>1, LeastNat
<1>3. k # 0 /\ k \in 0 .. n /\ k \notin S
  BY <1>2
<1>4. k - 1 \in 0 .. n - 1 /\ k - 1 \notin Bad
  BY <1>2, <1>3
<1>5. QED
  BY <1>3, <1>4

\* The same from n down to 1.
LEMMA DownTo ==
    ASSUME NEW n \in Nat, NEW S, n > 0, n \in S,
           \A k \in 1 .. n - 1 : k + 1 \in S => k \in S
    PROVE  1 .. n \subseteq S
<1> DEFINE T == {j \in 0 .. n - 1 : n - j \in S}
<1>1. 0 \in T
  OBVIOUS
<1>2. ASSUME NEW j \in 0 .. n - 1 - 1, j \in T PROVE j + 1 \in T
  <2>1. n - (j + 1) \in 1 .. n - 1 /\ n - (j + 1) + 1 = n - j /\ n - j \in S
    BY <1>2
  <2>2. n - (j + 1) \in S
    BY <2>1
  <2>3. QED
    BY <2>2
<1>3. n - 1 \in Nat
  OBVIOUS
<1> HIDE DEF T
<1>4. 0 .. n - 1 \subseteq T
  BY <1>1, <1>2, <1>3, UpTo
<1>5. ASSUME NEW k \in 1 .. n PROVE k \in S
  <2>1. n - k \in T /\ n - (n - k) = k
    BY <1>4
  <2>2. QED
    BY <2>1 DEF T
<1>6. QED
  BY <1>5

\* g runs from b by the steps H, upwards from 0 or downwards from n.
RunsUp(g, n, b, H) ==
    /\ g \in [0 .. n -> Nat]
    /\ g[0] = b
    /\ \A k \in 1 .. n : g[k] = H[<<k, g[k - 1]>>]

RunsDown(g, n, b, H) ==
    /\ g \in [1 .. n -> Nat]
    /\ g[n] = b
    /\ \A k \in 1 .. n - 1 : g[k] = H[<<k, g[k + 1]>>]

\* Recursion on 0 .. n.
LEMMA RecursionUp ==
    ASSUME NEW n \in Nat, NEW b \in Nat, NEW H \in [(1 .. n) \X Nat -> Nat]
    PROVE  \E g : RunsUp(g, n, b, H)
<1> DEFINE Good(m, g) == g[0] = b /\ \A k \in 1 .. m : g[k] = H[<<k, g[k - 1]>>]
           S == {m \in 0 .. n : \E g \in [0 .. m -> Nat] : Good(m, g)}
<1>1. 0 \in S
  <2>1. [k \in 0 .. 0 |-> b] \in [0 .. 0 -> Nat] /\ Good(0, [k \in 0 .. 0 |-> b])
    OBVIOUS
  <2> HIDE DEF Good
  <2>2. \E g \in [0 .. 0 -> Nat] : Good(0, g)
    BY <2>1
  <2>3. QED
    BY <2>2
<1>2. ASSUME NEW m \in 0 .. n - 1, m \in S PROVE m + 1 \in S
  <2>1. PICK g \in [0 .. m -> Nat] : Good(m, g)
    BY <1>2
  <2> DEFINE h == [k \in 0 .. m + 1 |-> IF k = m + 1 THEN H[<<k, g[m]>>] ELSE g[k]]
  <2>2. H[<<m + 1, g[m]>>] \in Nat
    OBVIOUS
  <2>3. h \in [0 .. m + 1 -> Nat]
    BY <2>2
  <2>4. h[0] = b
    BY <2>1
  <2>5. ASSUME NEW k \in 1 .. m + 1 PROVE h[k] = H[<<k, h[k - 1]>>]
    <3>1. CASE k = m + 1
      BY <3>1
    <3>2. CASE k # m + 1
      <4>1. k \in 1 .. m /\ h[k] = g[k] /\ h[k - 1] = g[k - 1]
        BY <3>2
      <4>2. QED
        BY <2>1, <4>1
    <3>3. QED
      BY <3>1, <3>2
  <2>6. m + 1 \in 0 .. n
    OBVIOUS
  <2> HIDE DEF h
  <2>7. Good(m + 1, h)
    BY <2>4, <2>5
  <2> HIDE DEF Good
  <2>8. QED
    BY <2>3, <2>6, <2>7
<1> HIDE DEF Good
<1>3. 0 .. n \subseteq S
  <2> HIDE DEF S
  <2>1. QED
    BY <1>1, <1>2, UpTo
<1>4. \E g \in [0 .. n -> Nat] : Good(n, g)
  <2>1. n \in S
    <3> HIDE DEF S
    <3>1. QED
      BY <1>3
  <2>2. QED
    BY <2>1
<1>5. PICK g \in [0 .. n -> Nat] : Good(n, g)
  BY <1>4
<1>6. RunsUp(g, n, b, H)
  BY <1>5 DEF Good, RunsUp
<1>7. QED
  BY <1>6

\* Recursion on 1 .. n from its end.
LEMMA RecursionDown ==
    ASSUME NEW n \in Nat \ {0}, NEW b \in Nat, NEW H \in [(1 .. n) \X Nat -> Nat]
    PROVE  \E g : RunsDown(g, n, b, H)
<1> DEFINE m == n - 1
           F == [x \in (1 .. m) \X Nat |-> H[<<n - x[1], x[2]>>]]
<1>1. m \in Nat /\ F \in [(1 .. m) \X Nat -> Nat]
  OBVIOUS
<1>2. \A k \in 1 .. m, v \in Nat : F[<<k, v>>] = H[<<n - k, v>>]
  OBVIOUS
<1> HIDE DEF F
<1>3. PICK f \in [0 .. m -> Nat] :
         f[0] = b /\ \A k \in 1 .. m : f[k] = F[<<k, f[k - 1]>>]
  <2> HIDE DEF m
  <2>1. \E f : RunsUp(f, m, b, F)
    BY <1>1, RecursionUp
  <2>2. QED
    BY <2>1 DEF RunsUp
<1> DEFINE g == [k \in 1 .. n |-> f[n - k]]
<1>4. g \in [1 .. n -> Nat]
  OBVIOUS
<1>5. g[n] = b
  BY <1>3
<1>6. ASSUME NEW k \in 1 .. n - 1 PROVE g[k] = H[<<k, g[k + 1]>>]
  <2>1. n - k \in 1 .. m /\ n - k - 1 = n - (k + 1) /\ n - (n - k) = k
        /\ n - (k + 1) \in 0 .. m /\ k + 1 \in 1 .. n /\ k \in 1 .. n
    OBVIOUS
  <2>2. f[n - k] = F[<<n - k, f[n - k - 1]>>]
    BY <1>3, <2>1
  <2>3. f[n - (k + 1)] \in Nat
    BY <2>1
  <2>4. F[<<n - k, f[n - (k + 1)]>>] = H[<<n - (n - k), f[n - (k + 1)]>>]
    BY <1>2, <2>1, <2>3
  <2>5. g[k] = f[n - k] /\ g[k + 1] = f[n - (k + 1)]
    BY <2>1
  <2>6. QED
    BY <2>1, <2>2, <2>4, <2>5
<1> HIDE DEF g
<1>7. RunsDown(g, n, b, H)
  BY <1>4, <1>5, <1>6 DEF RunsDown
<1>8. QED
  BY <1>7

-----------------------------------------------------------------------------
(* Arithmetic *)

LEMMA ProductType == ASSUME NEW a \in Nat, NEW b \in Nat PROVE a * b \in Nat
  OBVIOUS

LEMMA ProductMonotone ==
    ASSUME NEW a \in Nat, NEW b \in Nat, NEW c \in Nat, a <= b
    PROVE  a * c <= b * c
  OBVIOUS

LEMMA Grows ==
    ASSUME NEW a \in Nat, NEW c \in Nat, c > 0
    PROVE  a <= a * c
  OBVIOUS

\* A lexicographic step: the smaller prefix wins whatever comes below it.
LEMMA Lexicographic ==
    ASSUME NEW a \in Nat, NEW b \in Nat, NEW c \in Nat, NEW x \in Nat, NEW y \in Nat,
           a < b, x < c
    PROVE  a * c + x < b * c + y
<1>1. (a + 1) * c <= b * c
  BY ProductMonotone
<1>2. (a + 1) * c = a * c + c
  OBVIOUS
<1>3. a * c \in Nat /\ b * c \in Nat
  BY ProductType
<1> HIDE DEF ProductType
<1>4. QED
  BY <1>1, <1>2, <1>3

\* Division undoes a lexicographic step.
LEMMA DivModStep ==
    ASSUME NEW a \in Nat, NEW c \in Nat, NEW x \in Nat, x < c
    PROVE  (a * c + x) \div c = a /\ (a * c + x) % c = x
<1> DEFINE n == a * c + x
           q == n \div c
           r == n % c
<1>1. n \in Nat /\ c > 0
  BY ProductType
<1>2. q \in Nat /\ r \in 0 .. c - 1 /\ n = q * c + r
  <2> HIDE DEF n
  <2>1. n \div c \in Nat
    BY <1>1
  <2>2. n % c \in 0 .. c - 1
    BY <1>1
  <2>3. n = (n \div c) * c + (n % c)
    BY <1>1
  <2>4. QED
    BY <2>1, <2>2, <2>3
<1>3. n = a * c + x
  OBVIOUS
<1> HIDE DEF n, q, r
<1>4. q = a
  <2>1. CASE q < a
    BY <1>2, <1>3, <2>1, Lexicographic
  <2>2. CASE a < q
    BY <1>2, <1>3, <2>2, Lexicographic
  <2>3. QED
    BY <1>2, <2>1, <2>2
<1>5. r = x
  BY <1>2, <1>3, <1>4, ProductType
<1>6. QED
  BY <1>4, <1>5 DEF n, q, r

-----------------------------------------------------------------------------
(* The recursive definitions of the model *)

LEMMA ShapeType ==
    ASSUME NEW d \in Shape
    PROVE  /\ Len(d) \in Nat /\ Len(d) > 0
           /\ DOMAIN d = 1 .. Len(d)
           /\ \A k \in 1 .. Len(d) : d[k] \in Nat /\ d[k] > 0
  BY ShapeAssumption

\* STRIDE is the leaf's size at the innermost level and the product of the
\* level below elsewhere.
LEMMA StrideDef ==
    ASSUME NEW d \in Shape
    PROVE  /\ Stride(d) \in [1 .. Len(d) -> Nat]
           /\ Stride(d)[Len(d)] = LeafSize
           /\ \A k \in 1 .. Len(d) - 1 : Stride(d)[k] = d[k + 1] * Stride(d)[k + 1]
<1> DEFINE n == Len(d)
           H == [x \in (1 .. n) \X Nat |-> IF x[1] < n THEN d[x[1] + 1] * x[2] ELSE 0]
           Eq(s) == s = [k \in DOMAIN d |-> IF k = Len(d) THEN LeafSize ELSE d[k + 1] * s[k + 1]]
<1>1. n \in Nat /\ n > 0 /\ DOMAIN d = 1 .. n /\ LeafSize \in Nat
      /\ \A k \in 1 .. n : d[k] \in Nat
  BY ShapeType, ShapeAssumption
<1>2. H \in [(1 .. n) \X Nat -> Nat]
  <2> HIDE DEF n
  <2>1. ASSUME NEW x \in (1 .. n) \X Nat, x[1] < n PROVE d[x[1] + 1] * x[2] \in Nat
    <3>1. d[x[1] + 1] \in Nat /\ x[2] \in Nat
      BY <1>1, <2>1
    <3>2. QED
      BY <3>1, ProductType
  <2>2. QED
    BY <2>1
<1>3. \A k \in 1 .. n - 1, v \in Nat : H[<<k, v>>] = d[k + 1] * v
  BY <1>1
<1> HIDE DEF H
<1>4. PICK g \in [1 .. n -> Nat] :
         g[n] = LeafSize /\ \A k \in 1 .. n - 1 : g[k] = H[<<k, g[k + 1]>>]
  <2> HIDE DEF n, Eq
  <2>1. n \in Nat \ {0} /\ LeafSize \in Nat
    BY <1>1
  <2>2. \E g : RunsDown(g, n, LeafSize, H)
    BY <1>2, <2>1, RecursionDown
  <2>3. QED
    BY <2>2 DEF RunsDown
<1>5. ASSUME NEW k \in 1 .. n - 1 PROVE g[k] = d[k + 1] * g[k + 1]
  <2>1. g[k + 1] \in Nat
    BY <1>1, <1>4
  <2>2. QED
    BY <1>3, <1>4, <2>1
<1>6. Eq(g)
  <2>1. ASSUME NEW k \in 1 .. n
        PROVE  g[k] = IF k = n THEN LeafSize ELSE d[k + 1] * g[k + 1]
    <3> HIDE DEF n, Eq
    <3>1. CASE k = n
      BY <1>4, <3>1
    <3>2. CASE k # n
      <4>1. k \in 1 .. n - 1
        BY <1>1, <3>2
      <4>2. QED
        BY <1>5, <3>2, <4>1
    <3>3. QED
      BY <3>1, <3>2
  <2>2. QED
    BY <1>1, <1>4, <2>1
<1>7. Stride(d) = CHOOSE s : Eq(s)
  BY DEF Stride
<1>8. Eq(Stride(d))
  <2> HIDE DEF Eq
  <2>1. QED
    BY <1>6, <1>7
<1> DEFINE st == Stride(d)
<1>9. /\ st = [k \in 1 .. n |-> st[k]]
      /\ st[n] = LeafSize
      /\ \A k \in 1 .. n - 1 : st[k] = d[k + 1] * st[k + 1]
  <2> HIDE DEF st
  <2>0. Eq(st)
    BY <1>8 DEF st
  <2>1. DOMAIN st = 1 .. n /\ st = [k \in DOMAIN st |-> st[k]]
    BY <1>1, <2>0
  <2>2. QED
    BY <1>1, <2>0, <2>1
<1> DEFINE S == {k \in 1 .. n : st[k] \in Nat}
<1>10. 1 .. n \subseteq S
  <2> HIDE DEF st, n
  <2>1. n \in S
    BY <1>1, <1>9
  <2>2. ASSUME NEW k \in 1 .. n - 1, k + 1 \in S PROVE k \in S
    <3>1. d[k + 1] \in Nat /\ st[k + 1] \in Nat /\ k \in 1 .. n
      BY <1>1, <2>2
    <3>2. st[k] \in Nat
      BY <1>1, <1>9, <3>1, ProductType
    <3>3. QED
      BY <3>1, <3>2
  <2> HIDE DEF S
  <2>3. QED
    BY <1>1, <2>1, <2>2, DownTo
<1>11. st \in [1 .. n -> Nat]
  <2> HIDE DEF st, n
  <2>1. QED
    BY <1>9, <1>10
<1>12. QED
  BY <1>9, <1>11

LEMMA PathType ==
    ASSUME NEW d \in Shape, NEW p \in Paths(d)
    PROVE  /\ p \in [1 .. Len(d) -> Nat]
           /\ \A k \in 1 .. Len(d) : p[k] \in Nat /\ p[k] < d[k]
<1>1. /\ Len(d) \in Nat
      /\ DOMAIN d = 1 .. Len(d)
      /\ \A k \in 1 .. Len(d) : d[k] \in Nat
  BY ShapeType
<1>2. UNION {0 .. d[k] - 1 : k \in DOMAIN d} \subseteq Nat
  BY <1>1
<1> DEFINE U == UNION {0 .. d[k] - 1 : k \in DOMAIN d}
<1>3. p \in [DOMAIN d -> U] /\ \A k \in DOMAIN d : p[k] < d[k]
  BY DEF Paths
<1>4. U \subseteq Nat
  BY <1>2
<1> HIDE DEF U
<1>5. QED
  BY <1>1, <1>3, <1>4

\* The flat position of the element a path selects, level by level, and the
\* number of elements above each level.
Flat(d, p) ==
    CHOOSE f : RunsUp(f, Len(d), 0,
                      [x \in (1 .. Len(d)) \X Nat |-> x[2] * d[x[1]] + p[x[1]]])

Count(d) ==
    CHOOSE f : RunsUp(f, Len(d), 1, [x \in (1 .. Len(d)) \X Nat |-> x[2] * d[x[1]]])

LEMMA FlatDef ==
    ASSUME NEW d \in Shape, NEW p \in Paths(d)
    PROVE  /\ Flat(d, p) \in [0 .. Len(d) -> Nat]
           /\ Flat(d, p)[0] = 0
           /\ \A k \in 1 .. Len(d) : Flat(d, p)[k] = Flat(d, p)[k - 1] * d[k] + p[k]
<1> DEFINE n == Len(d)
           H == [x \in (1 .. n) \X Nat |-> x[2] * d[x[1]] + p[x[1]]]
           f == Flat(d, p)
<1>1. n \in Nat /\ \A k \in 1 .. n : d[k] \in Nat /\ p[k] \in Nat
  BY ShapeType, PathType
<1>2. H \in [(1 .. n) \X Nat -> Nat]
  <2> HIDE DEF n
  <2>1. ASSUME NEW x \in (1 .. n) \X Nat PROVE x[2] * d[x[1]] + p[x[1]] \in Nat
    <3>1. x[2] \in Nat /\ d[x[1]] \in Nat /\ p[x[1]] \in Nat
      BY <1>1
    <3>2. QED
      BY <3>1, ProductType
  <2>2. QED
    BY <2>1
<1>3. \A k \in 1 .. n, v \in Nat : H[<<k, v>>] = v * d[k] + p[k]
  OBVIOUS
<1>4. f = CHOOSE g : RunsUp(g, n, 0, H)
  BY DEF Flat
<1> HIDE DEF H, f
<1>5. RunsUp(f, n, 0, H)
  <2> HIDE DEF n
  <2>1. \E g : RunsUp(g, n, 0, H)
    BY <1>1, <1>2, RecursionUp
  <2>2. QED
    BY <1>4, <2>1
<1>6. f \in [0 .. n -> Nat] /\ f[0] = 0
  BY <1>5 DEF RunsUp
<1>7. ASSUME NEW k \in 1 .. n PROVE f[k] = f[k - 1] * d[k] + p[k]
  <2> HIDE DEF n
  <2>1. f[k - 1] \in Nat
    BY <1>1, <1>6
  <2>2. f[k] = H[<<k, f[k - 1]>>]
    BY <1>5 DEF RunsUp
  <2>3. QED
    BY <1>3, <2>1, <2>2
<1>8. QED
  BY <1>6, <1>7 DEF f

LEMMA CountDef ==
    ASSUME NEW d \in Shape
    PROVE  /\ Count(d) \in [0 .. Len(d) -> Nat]
           /\ Count(d)[0] = 1
           /\ \A k \in 1 .. Len(d) : Count(d)[k] = Count(d)[k - 1] * d[k]
<1> DEFINE n == Len(d)
           H == [x \in (1 .. n) \X Nat |-> x[2] * d[x[1]]]
           f == Count(d)
<1>1. n \in Nat /\ \A k \in 1 .. n : d[k] \in Nat
  BY ShapeType
<1>2. H \in [(1 .. n) \X Nat -> Nat]
  <2> HIDE DEF n
  <2>1. ASSUME NEW x \in (1 .. n) \X Nat PROVE x[2] * d[x[1]] \in Nat
    <3>1. x[2] \in Nat /\ d[x[1]] \in Nat
      BY <1>1
    <3>2. QED
      BY <3>1, ProductType
  <2>2. QED
    BY <2>1
<1>3. \A k \in 1 .. n, v \in Nat : H[<<k, v>>] = v * d[k]
  OBVIOUS
<1>4. f = CHOOSE g : RunsUp(g, n, 1, H)
  BY DEF Count
<1> HIDE DEF H, f
<1>5. RunsUp(f, n, 1, H)
  <2> HIDE DEF n
  <2>1. \E g : RunsUp(g, n, 1, H)
    BY <1>1, <1>2, RecursionUp
  <2>2. QED
    BY <1>4, <2>1
<1>6. f \in [0 .. n -> Nat] /\ f[0] = 1
  BY <1>5 DEF RunsUp
<1>7. ASSUME NEW k \in 1 .. n PROVE f[k] = f[k - 1] * d[k]
  <2> HIDE DEF n
  <2>1. f[k - 1] \in Nat
    BY <1>1, <1>6
  <2>2. f[k] = H[<<k, f[k - 1]>>]
    BY <1>5 DEF RunsUp
  <2>3. QED
    BY <1>3, <2>1, <2>2
<1>8. QED
  BY <1>6, <1>7 DEF f

-----------------------------------------------------------------------------
(* Flat positions are exact *)

\* A position is below the number of elements of its level.
LEMMA FlatBelowCount ==
    ASSUME NEW d \in Shape, NEW p \in Paths(d)
    PROVE  \A k \in 0 .. Len(d) : Flat(d, p)[k] < Count(d)[k]
<1> DEFINE n == Len(d)
           f == Flat(d, p)
           c == Count(d)
           S == {k \in 0 .. n : f[k] < c[k]}
<1>1. /\ n \in Nat
      /\ \A k \in 1 .. n : d[k] \in Nat /\ p[k] \in Nat /\ p[k] < d[k]
  BY ShapeType, PathType
<1>2. f \in [0 .. n -> Nat] /\ f[0] = 0 /\ \A k \in 1 .. n : f[k] = f[k - 1] * d[k] + p[k]
  BY FlatDef
<1>3. c \in [0 .. n -> Nat] /\ c[0] = 1 /\ \A k \in 1 .. n : c[k] = c[k - 1] * d[k]
  BY CountDef
<1> HIDE DEF n, f, c
<1>4. 0 \in S
  BY <1>1, <1>2, <1>3
<1>5. ASSUME NEW k \in 0 .. n - 1, k \in S PROVE k + 1 \in S
  <2>1. /\ k \in 0 .. n /\ k + 1 \in 1 .. n /\ k + 1 \in 0 .. n /\ k + 1 - 1 = k
        /\ f[k] < c[k] /\ f[k] \in Nat /\ c[k] \in Nat
        /\ d[k + 1] \in Nat /\ p[k + 1] \in Nat /\ p[k + 1] < d[k + 1]
    BY <1>1, <1>2, <1>3, <1>5
  <2>2. f[k + 1] = f[k] * d[k + 1] + p[k + 1] /\ c[k + 1] = c[k] * d[k + 1] + 0
    BY <1>2, <1>3, <2>1, ProductType
  <2>3. f[k + 1] < c[k + 1]
    BY <2>1, <2>2, Lexicographic
  <2>4. QED
    BY <2>1, <2>3
<1>6. 0 .. n \subseteq S
  <2> HIDE DEF S
  <2>1. QED
    BY <1>1, <1>4, <1>5, UpTo
<1>7. \A k \in 0 .. n : f[k] < c[k]
  BY <1>6
<1>8. QED
  BY <1>7 DEF n, f, c

LEMMA Regroup ==
    ASSUME NEW a \in Nat, NEW b \in Nat, NEW c \in Nat
    PROVE  (a * b) * c = a * (b * c)
  OBVIOUS

\* What lies above a level times what it strides over is the whole field.
LEMMA CountStride ==
    ASSUME NEW d \in Shape
    PROVE  /\ \A k \in 1 .. Len(d) : Count(d)[k] * Stride(d)[k] = Size(d)
           /\ Count(d)[Len(d)] * LeafSize = Size(d)
           /\ Size(d) \in Nat
<1> DEFINE n == Len(d)
           c == Count(d)
           st == Stride(d)
           S == {j \in 0 .. n - 1 : c[j + 1] * st[j + 1] = Size(d)}
<1>1. n \in Nat /\ n > 0 /\ n - 1 \in Nat /\ \A k \in 1 .. n : d[k] \in Nat
  BY ShapeType
<1>2. c \in [0 .. n -> Nat] /\ c[0] = 1 /\ \A k \in 1 .. n : c[k] = c[k - 1] * d[k]
  BY CountDef
<1>3. /\ st \in [1 .. n -> Nat]
      /\ st[n] = LeafSize
      /\ \A k \in 1 .. n - 1 : st[k] = d[k + 1] * st[k + 1]
  BY StrideDef
<1>4. Size(d) = d[1] * st[1]
  BY DEF Size
<1> HIDE DEF n, c, st
<1>5. 0 \in S
  <2>1. 1 \in 1 .. n /\ c[1] = c[0] * d[1] /\ d[1] \in Nat /\ c[0] = 1
    BY <1>1, <1>2
  <2>2. c[1] = d[1]
    BY <2>1
  <2>3. QED
    BY <1>1, <1>4, <2>2
<1>6. ASSUME NEW j \in 0 .. n - 1 - 1, j \in S PROVE j + 1 \in S
  <2>1. /\ j + 1 \in 1 .. n - 1 /\ j + 1 \in 0 .. n - 1 /\ j + 1 + 1 \in 1 .. n
        /\ j + 1 \in 0 .. n /\ j + 1 + 1 - 1 = j + 1
        /\ c[j + 1] * st[j + 1] = Size(d)
    BY <1>1, <1>6
  <2>2. c[j + 1] \in Nat /\ st[j + 1 + 1] \in Nat /\ d[j + 1 + 1] \in Nat
    BY <1>1, <1>2, <1>3, <2>1
  <2>3. c[j + 1 + 1] = c[j + 1] * d[j + 1 + 1] /\ st[j + 1] = d[j + 1 + 1] * st[j + 1 + 1]
    BY <1>2, <1>3, <2>1
  <2>4. c[j + 1 + 1] * st[j + 1 + 1] = c[j + 1] * st[j + 1]
    BY <2>2, <2>3, Regroup
  <2>5. QED
    BY <2>1, <2>4
<1>7. 0 .. n - 1 \subseteq S
  <2> HIDE DEF S
  <2>1. QED
    BY <1>1, <1>5, <1>6, UpTo
<1>8. ASSUME NEW k \in 1 .. n PROVE c[k] * st[k] = Size(d)
  <2>1. k - 1 \in S /\ k - 1 + 1 = k
    <3> HIDE DEF S
    <3>1. QED
      BY <1>1, <1>7
  <2>2. QED
    BY <2>1
<1>9. c[n] * LeafSize = Size(d)
  BY <1>1, <1>3, <1>8
<1>10. Size(d) \in Nat
  <2>1. d[1] \in Nat /\ st[1] \in Nat
    BY <1>1, <1>3
  <2>2. QED
    BY <1>4, <2>1, ProductType
<1>11. QED
  BY <1>8, <1>9, <1>10 DEF n, c, st

\* checked_element_offset agrees with the flat position.
LEMMA FlatOffset ==
    ASSUME NEW d \in Shape, NEW p \in Paths(d)
    PROVE  Offset(d, p) = Flat(d, p)[Len(d)] * LeafSize
<1> DEFINE n == Len(d)
           f == Flat(d, p)
           st == Stride(d)
           Eq(o) == o = [k \in 0 .. Len(d) |->
                            IF k = 0 THEN 0 ELSE o[k - 1] + p[k] * Stride(d)[k]]
           g == [k \in 0 .. n |-> IF k = 0 THEN 0 ELSE f[k] * st[k]]
<1>1. /\ n \in Nat /\ n > 0
      /\ \A k \in 1 .. n : d[k] \in Nat /\ p[k] \in Nat
  BY ShapeType, PathType
<1>2. f \in [0 .. n -> Nat] /\ f[0] = 0 /\ \A k \in 1 .. n : f[k] = f[k - 1] * d[k] + p[k]
  BY FlatDef
<1>3. /\ st \in [1 .. n -> Nat]
      /\ st[n] = LeafSize
      /\ \A k \in 1 .. n - 1 : st[k] = d[k + 1] * st[k + 1]
  BY StrideDef
<1>4. ASSUME NEW k \in 1 .. n PROVE g[k] = g[k - 1] + p[k] * st[k]
  <2> HIDE DEF n, f, st, Eq
  <2>1. f[k] = f[k - 1] * d[k] + p[k] /\ f[k - 1] \in Nat /\ d[k] \in Nat
        /\ p[k] \in Nat /\ st[k] \in Nat /\ k - 1 \in 0 .. n /\ k \in 0 .. n
    BY <1>1, <1>2, <1>3
  <2>2. ASSUME NEW a \in Nat, NEW b \in Nat, NEW c \in Nat
        PROVE  (a + b) * c = a * c + b * c
    OBVIOUS
  <2>3. f[k] * st[k] = (f[k - 1] * d[k]) * st[k] + p[k] * st[k]
    BY <2>1, <2>2, ProductType
  <2>4. g[k] = f[k] * st[k]
    BY <2>1
  <2>5. (f[k - 1] * d[k]) * st[k] = g[k - 1]
    <3>1. CASE k = 1
      <4>1. f[k - 1] = 0 /\ g[k - 1] = 0
        BY <1>2, <2>1, <3>1
      <4>2. QED
        BY <2>1, <4>1
    <3>2. CASE k # 1
      <4>1. k - 1 \in 1 .. n - 1 /\ k - 1 + 1 = k
        BY <1>1, <3>2
      <4>2. st[k - 1] = d[k] * st[k]
        BY <1>3, <4>1
      <4>3. g[k - 1] = f[k - 1] * st[k - 1]
        BY <2>1, <4>1
      <4>4. QED
        BY <2>1, <4>2, <4>3, Regroup
    <3>3. QED
      BY <3>1, <3>2
  <2>6. QED
    BY <2>3, <2>4, <2>5
<1>5. g[0] = 0
  BY <1>1
<1>6. Eq(g)
  <2>1. g = [k \in 0 .. n |-> g[k]]
    OBVIOUS
  <2> HIDE DEF g
  <2>2. ASSUME NEW k \in 0 .. n
        PROVE  g[k] = IF k = 0 THEN 0 ELSE g[k - 1] + p[k] * st[k]
    <3> HIDE DEF n, st, f, Eq
    <3>1. QED
      BY <1>1, <1>4, <1>5
  <2>3. QED
    BY <2>1, <2>2
<1> DEFINE o == CHOOSE h : Eq(h)
<1>7. Eq(o)
  <2> HIDE DEF Eq, g
  <2>1. QED
    BY <1>6
<1>8. Offset(d, p) = o[n]
  BY DEF Offset
<1>9. o[0] = 0 /\ \A k \in 1 .. n : o[k] = o[k - 1] + p[k] * st[k]
  <2> HIDE DEF o
  <2>1. o = [k \in 0 .. n |-> IF k = 0 THEN 0 ELSE o[k - 1] + p[k] * st[k]]
    BY <1>7
  <2> HIDE DEF n, st, Eq
  <2>2. QED
    BY <1>1, <2>1
<1> DEFINE S == {k \in 0 .. n : o[k] = g[k]}
<1> HIDE DEF o, n, st, f, Eq, g
<1>10. 0 \in S
  BY <1>1, <1>5, <1>9
<1>11. ASSUME NEW k \in 0 .. n - 1, k \in S PROVE k + 1 \in S
  <2>1. k + 1 \in 1 .. n /\ k + 1 - 1 = k /\ o[k] = g[k] /\ k + 1 \in 0 .. n
    BY <1>1, <1>11
  <2>2. QED
    BY <1>4, <1>9, <2>1
<1>12. 0 .. n \subseteq S
  <2> HIDE DEF S
  <2>1. QED
    BY <1>1, <1>10, <1>11, UpTo
<1>13. o[n] = g[n]
  BY <1>1, <1>12
<1>14. g[n] = f[n] * LeafSize
  BY <1>1, <1>3 DEF g
<1>15. QED
  BY <1>8, <1>13, <1>14 DEF f, n

\* No position saturates: they grow with the levels and stay below MaxIndex.
LEMMA FlatLimit ==
    ASSUME NEW d \in Shape, NEW p \in Paths(d)
    PROVE  \A k \in 1 .. Len(d) : Flat(d, p)[k] <= MaxIndex
<1> DEFINE n == Len(d)
           f == Flat(d, p)
           c == Count(d)
           S == {k \in 1 .. n : f[k] <= MaxIndex}
<1>1. /\ n \in Nat /\ n > 0
      /\ \A k \in 1 .. n : d[k] \in Nat /\ d[k] > 0 /\ p[k] \in Nat
  BY ShapeType, PathType
<1>2. f \in [0 .. n -> Nat] /\ \A k \in 1 .. n : f[k] = f[k - 1] * d[k] + p[k]
  BY FlatDef
<1>3. f[n] < c[n] /\ c[n] \in Nat /\ c[n] * LeafSize <= LeafSize * (MaxIndex + 1)
  BY <1>1, FlatBelowCount, CountDef, CountStride, SizeAssumption
<1>4. LeafSize \in Nat /\ LeafSize > 0 /\ MaxIndex \in Nat
  BY ShapeAssumption
<1> HIDE DEF n, f, c
<1>5. c[n] <= MaxIndex + 1
  <2>1. ASSUME NEW a \in Nat, NEW b \in Nat, NEW x \in Nat, x > 0, a * x <= x * b
        PROVE  a <= b
    BY <2>1
  <2>2. QED
    BY <1>3, <1>4, <2>1
<1>6. n \in S
  BY <1>1, <1>2, <1>3, <1>4, <1>5
<1>7. ASSUME NEW k \in 1 .. n - 1, k + 1 \in S PROVE k \in S
  <2>1. /\ k \in 1 .. n /\ k \in 0 .. n /\ k + 1 \in 1 .. n /\ k + 1 - 1 = k
        /\ f[k + 1] <= MaxIndex
    BY <1>1, <1>7
  <2>2. f[k + 1] = f[k] * d[k + 1] + p[k + 1]
    BY <1>2, <2>1
  <2>3. f[k] \in Nat /\ d[k + 1] \in Nat /\ d[k + 1] > 0 /\ p[k + 1] \in Nat
    BY <1>1, <1>2, <2>1
  <2>4. f[k] <= f[k] * d[k + 1] /\ f[k] * d[k + 1] \in Nat
    BY <2>3, Grows, ProductType
  <2>5. f[k] <= MaxIndex
    BY <1>4, <2>1, <2>2, <2>3, <2>4
  <2>6. QED
    BY <2>1, <2>5
<1>8. 1 .. n \subseteq S
  <2> HIDE DEF S
  <2>1. QED
    BY <1>1, <1>6, <1>7, DownTo
<1>9. QED
  BY <1>8 DEF n, f

\* One level of ArrayMut::flat or NestedArrayAdapter::position.
LEMMA ExactStep ==
    ASSUME NEW a \in Nat, NEW c \in Nat, NEW x \in Nat, a * c + x <= MaxIndex
    PROVE  /\ SatMul(a, c) = a * c
           /\ SatAdd(a * c, x) = a * c + x
           /\ a * c <= MaxIndex
<1>1. a * c \in Nat /\ MaxIndex \in Nat
  BY ProductType, ShapeAssumption
<1>2. QED
  BY <1>1 DEF SatMul, SatAdd

\* The position a leaf adapter is given is the flat position of its path.
LEMMA PositionExact ==
    ASSUME NEW d \in Shape, NEW p \in Paths(d), NEW m \in 0 .. Len(d) - 1, NEW b,
           b = Flat(d, p)[m] * d[m + 1]
    PROVE  Position(d, b, m, p) = Flat(d, p)[Len(d)]
<1> DEFINE n == Len(d)
           f == Flat(d, p)
           Eq(pos) == pos = [k \in m + 1 .. Len(d) |->
                                IF k = m + 1 THEN SatAdd(b, p[k])
                                ELSE SatAdd(SatMul(pos[k - 1], d[k]), p[k])]
           g == [k \in m + 1 .. n |-> f[k]]
           h == CHOOSE pos : Eq(pos)
<1>1. /\ n \in Nat /\ n > 0
      /\ \A k \in 1 .. n : d[k] \in Nat /\ p[k] \in Nat
  BY ShapeType, PathType
<1>2. f \in [0 .. n -> Nat] /\ \A k \in 1 .. n : f[k] = f[k - 1] * d[k] + p[k]
  BY FlatDef
<1>3. \A k \in 1 .. n : f[k] <= MaxIndex
  BY FlatLimit
<1>4. ASSUME NEW k \in 1 .. n
      PROVE  /\ SatMul(f[k - 1], d[k]) = f[k - 1] * d[k]
             /\ SatAdd(f[k - 1] * d[k], p[k]) = f[k]
  <2> HIDE DEF n, f, Eq, g, h
  <2>1. f[k - 1] \in Nat /\ d[k] \in Nat /\ p[k] \in Nat
        /\ f[k] = f[k - 1] * d[k] + p[k] /\ f[k] <= MaxIndex
    BY <1>1, <1>2, <1>3
  <2>2. QED
    BY <2>1, ExactStep
<1>5. Eq(g)
  <2>1. ASSUME NEW k \in m + 1 .. n
        PROVE  g[k] = IF k = m + 1 THEN SatAdd(b, p[k])
                      ELSE SatAdd(SatMul(g[k - 1], d[k]), p[k])
    <3> HIDE DEF n, f, Eq, h
    <3>1. k \in 1 .. n
      BY <1>1
    <3>2. CASE k = m + 1
      <4>1. k - 1 = m /\ b = f[m] * d[m + 1]
        BY <3>2 DEF f
      <4>2. QED
        BY <1>4, <3>1, <3>2, <4>1
    <3>3. CASE k # m + 1
      <4>1. g[k - 1] = f[k - 1]
        BY <1>1, <3>3
      <4>2. QED
        BY <1>4, <3>1, <3>3, <4>1
    <3>4. QED
      BY <3>2, <3>3
  <2>2. QED
    BY <2>1
<1>6. Eq(h)
  <2> HIDE DEF Eq, g
  <2>1. QED
    BY <1>5
<1>7. Position(d, b, m, p) = h[n]
  BY DEF Position
<1>8. \A k \in m + 1 .. n : h[k] = IF k = m + 1 THEN SatAdd(b, p[k])
                                   ELSE SatAdd(SatMul(h[k - 1], d[k]), p[k])
  <2> HIDE DEF h
  <2>1. h = [k \in m + 1 .. n |->
                IF k = m + 1 THEN SatAdd(b, p[k])
                ELSE SatAdd(SatMul(h[k - 1], d[k]), p[k])]
    BY <1>6
  <2> HIDE DEF Eq, n
  <2>2. QED
    BY <2>1
<1> DEFINE S == {j \in 0 .. n - (m + 1) : h[m + 1 + j] = f[m + 1 + j]}
<1>9. m \in Nat /\ n - (m + 1) \in Nat /\ b = f[m] * d[m + 1]
  BY <1>1
<1> HIDE DEF n, f, Eq, g, h
<1>10. 0 \in S
  <2>1. h[m + 1] = SatAdd(b, p[m + 1]) /\ m + 1 \in 1 .. n
    BY <1>1, <1>8, <1>9
  <2>2. h[m + 1] = f[m + 1]
    BY <1>4, <1>9, <2>1
  <2>3. QED
    BY <1>9, <2>2
<1>11. ASSUME NEW j \in 0 .. n - (m + 1) - 1, j \in S PROVE j + 1 \in S
  <2> DEFINE k == m + 1 + (j + 1)
  <2>1. /\ j + 1 \in 0 .. n - (m + 1)
        /\ k \in m + 1 .. n /\ k # m + 1 /\ k - 1 = m + 1 + j /\ k \in 1 .. n
    BY <1>1, <1>9
  <2>2. h[m + 1 + j] = f[m + 1 + j]
    BY <1>11
  <2> HIDE DEF k
  <2>3. h[k] = SatAdd(SatMul(h[k - 1], d[k]), p[k])
    BY <1>8, <2>1
  <2>4. h[k] = f[k]
    BY <1>4, <2>1, <2>2, <2>3
  <2>5. QED
    BY <2>1, <2>4 DEF k
<1>12. 0 .. n - (m + 1) \subseteq S
  <2> HIDE DEF S
  <2>1. QED
    BY <1>9, <1>10, <1>11, UpTo
<1>13. h[n] = f[n]
  <2>1. n - (m + 1) \in S /\ m + 1 + (n - (m + 1)) = n
    <3> HIDE DEF S
    <3>1. QED
      BY <1>1, <1>9, <1>12
  <2>2. QED
    BY <2>1
<1>14. QED
  BY <1>7, <1>13 DEF f, n

\* The same for the base of a row handle, from any element p of the row.
LEMMA RowBaseExact ==
    ASSUME NEW d \in Shape, NEW p \in Paths(d), NEW m \in Nat, m + 1 < Len(d), NEW b,
           b = Flat(d, p)[m] * d[m + 1]
    PROVE  RowBase(d, b, m, p[m + 1]) = Flat(d, p)[m + 1] * d[m + 2]
<1> DEFINE f == Flat(d, p)
<1>1. /\ Len(d) \in Nat /\ m + 1 \in 1 .. Len(d) /\ m + 2 \in 1 .. Len(d)
      /\ d[m + 1] \in Nat /\ d[m + 2] \in Nat /\ p[m + 1] \in Nat /\ p[m + 2] \in Nat
  BY ShapeType, PathType
<1>2. /\ f[m + 1] = f[m] * d[m + 1] + p[m + 1] /\ f[m + 1] <= MaxIndex
      /\ f[m + 2] = f[m + 1] * d[m + 2] + p[m + 2] /\ f[m + 2] <= MaxIndex
      /\ f[m] \in Nat /\ f[m + 1] \in Nat
  <2>1. m + 1 - 1 = m /\ m + 2 - 1 = m + 1 /\ m \in 0 .. Len(d) /\ m + 1 \in 0 .. Len(d)
    BY <1>1
  <2>2. /\ f \in [0 .. Len(d) -> Nat]
        /\ \A k \in 1 .. Len(d) : f[k] = f[k - 1] * d[k] + p[k]
    BY FlatDef
  <2>3. \A k \in 1 .. Len(d) : f[k] <= MaxIndex
    BY FlatLimit
  <2> HIDE DEF f
  <2>4. f[m] \in Nat /\ f[m + 1] \in Nat
    BY <2>1, <2>2
  <2>5. f[m + 1] = f[m] * d[m + 1] + p[m + 1] /\ f[m + 2] = f[m + 1] * d[m + 2] + p[m + 2]
    BY <1>1, <2>1, <2>2
  <2>6. f[m + 1] <= MaxIndex /\ f[m + 2] <= MaxIndex
    BY <1>1, <2>3
  <2>7. QED
    BY <2>4, <2>5, <2>6
<1> HIDE DEF f
<1>3. SatAdd(b, p[m + 1]) = f[m + 1]
  <2>1. f[m] * d[m + 1] + p[m + 1] <= MaxIndex
    BY <1>2
  <2>2. SatAdd(f[m] * d[m + 1], p[m + 1]) = f[m] * d[m + 1] + p[m + 1]
    BY <1>1, <1>2, <2>1, ExactStep
  <2>3. b = f[m] * d[m + 1]
    BY DEF f
  <2>4. QED
    BY <1>2, <2>2, <2>3
<1>4. SatMul(f[m + 1], d[m + 2]) = f[m + 1] * d[m + 2]
  <2>1. f[m + 1] * d[m + 2] + p[m + 2] <= MaxIndex
    BY <1>2
  <2>2. QED
    BY <1>1, <1>2, <2>1, ExactStep
<1>5. QED
  BY <1>3, <1>4 DEF RowBase, f

\* index_path_error inverts the flat position: the quotients by the lower
\* dimensions are the positions of the outer levels.
LEMMA IndexPathExact ==
    ASSUME NEW d \in Shape, NEW p \in Paths(d)
    PROVE  IndexPath(d, Flat(d, p)[Len(d)]) = p
<1> DEFINE n == Len(d)
           f == Flat(d, p)
           flat == Flat(d, p)[Len(d)]
           Eq(rest) == rest = [k \in DOMAIN d |->
                                  IF k = Len(d) THEN flat ELSE rest[k + 1] \div d[k + 1]]
           g == [k \in 1 .. n |-> f[k]]
           r == CHOOSE rest : Eq(rest)
<1>0. DOMAIN d = 1 .. n
  BY ShapeType
<1>1. /\ n \in Nat /\ n > 0
      /\ p \in [1 .. n -> Nat]
      /\ \A k \in 1 .. n : d[k] \in Nat /\ p[k] \in Nat /\ p[k] < d[k]
  BY ShapeType, PathType
<1>2. f \in [0 .. n -> Nat] /\ f[0] = 0 /\ \A k \in 1 .. n : f[k] = f[k - 1] * d[k] + p[k]
  BY FlatDef
<1>3. ASSUME NEW k \in 1 .. n
      PROVE  f[k] \div d[k] = f[k - 1] /\ f[k] % d[k] = p[k]
  <2> HIDE DEF n, f, flat, Eq, g, r
  <2>1. d[k] \in Nat /\ p[k] \in Nat /\ p[k] < d[k]
    BY <1>1
  <2>2. f[k - 1] \in Nat /\ f[k] = f[k - 1] * d[k] + p[k]
    BY <1>1, <1>2
  <2>3. /\ (f[k - 1] * d[k] + p[k]) \div d[k] = f[k - 1]
        /\ (f[k - 1] * d[k] + p[k]) % d[k] = p[k]
    BY <2>1, <2>2, DivModStep
  <2>4. QED
    BY <2>2, <2>3
<1>4. flat = f[n]
  OBVIOUS
<1>5. Eq(g)
  <2>1. ASSUME NEW k \in 1 .. n
        PROVE  g[k] = IF k = n THEN flat ELSE g[k + 1] \div d[k + 1]
    <3> HIDE DEF n, f, flat, Eq, r
    <3>1. CASE k = n
      BY <1>4, <3>1
    <3>2. CASE k # n
      <4>1. k + 1 \in 1 .. n /\ k + 1 - 1 = k
        BY <1>1, <3>2
      <4>2. g[k] = f[k] /\ g[k + 1] = f[k + 1]
        BY <4>1
      <4>3. f[k + 1] \div d[k + 1] = f[k]
        BY <1>3, <4>1
      <4>4. QED
        BY <3>2, <4>2, <4>3
    <3>3. QED
      BY <3>1, <3>2
  <2> HIDE DEF flat, f
  <2>2. g = [k \in DOMAIN d |-> g[k]]
    BY <1>0
  <2> HIDE DEF g
  <2>3. QED
    BY <1>0, <2>1, <2>2
<1>6. Eq(r)
  <2> HIDE DEF Eq, g
  <2>1. QED
    BY <1>5
<1>7. IndexPath(d, flat) = [k \in DOMAIN d |-> IF k = 1 THEN r[k] ELSE r[k] % d[k]]
  BY DEF IndexPath
<1>8. r[n] = f[n] /\ \A k \in 1 .. n - 1 : r[k] = r[k + 1] \div d[k + 1]
  <2> HIDE DEF r, f, flat
  <2>1. r = [k \in 1 .. n |-> IF k = n THEN flat ELSE r[k + 1] \div d[k + 1]]
    BY <1>0, <1>6
  <2> HIDE DEF Eq, n, g
  <2>2. n \in 1 .. n
    BY <1>1
  <2>3. r[n] = flat
    BY <2>1, <2>2
  <2>4. ASSUME NEW k \in 1 .. n - 1 PROVE r[k] = r[k + 1] \div d[k + 1]
    <3>1. k \in 1 .. n /\ k # n
      BY <1>1
    <3>2. QED
      BY <2>1, <3>1
  <2>5. QED
    BY <1>4, <2>3, <2>4
<1> DEFINE S == {k \in 1 .. n : r[k] = f[k]}
<1> HIDE DEF n, f, flat, Eq, g, r
<1>9. n \in S
  BY <1>1, <1>8
<1>10. ASSUME NEW k \in 1 .. n - 1, k + 1 \in S PROVE k \in S
  <2>1. k \in 1 .. n /\ k + 1 \in 1 .. n /\ k + 1 - 1 = k /\ r[k + 1] = f[k + 1]
    BY <1>1, <1>10
  <2>2. r[k] = f[k]
    BY <1>3, <1>8, <2>1
  <2>3. QED
    BY <2>1, <2>2
<1>11. 1 .. n \subseteq S
  <2> HIDE DEF S
  <2>1. QED
    BY <1>1, <1>9, <1>10, DownTo
<1>12. ASSUME NEW k \in 1 .. n PROVE p[k] = IF k = 1 THEN r[k] ELSE r[k] % d[k]
  <2>1. r[k] = f[k]
    BY <1>11
  <2>2. CASE k = 1
    <3>1. f[1] = f[0] * d[1] + p[1] /\ f[0] = 0 /\ d[1] \in Nat /\ p[1] \in Nat
      BY <1>1, <1>2, <2>2
    <3>2. f[1] = p[1]
      BY <3>1
    <3>3. QED
      BY <2>1, <2>2, <3>2
  <2>3. CASE k # 1
    BY <1>3, <2>1, <2>3
  <2>4. QED
    BY <2>2, <2>3
<1>13. p = [k \in DOMAIN d |-> IF k = 1 THEN r[k] ELSE r[k] % d[k]]
  BY <1>0, <1>1, <1>12
<1>14. QED
  BY <1>7, <1>13 DEF flat

-----------------------------------------------------------------------------
(* The order of the loops *)

\* The order of the loops is the order of the flat positions.
LEMMA BeforeIsLess ==
    ASSUME NEW d \in Shape, NEW p \in Paths(d), NEW q \in Paths(d), Before(p, q)
    PROVE  Flat(d, p)[Len(d)] < Flat(d, q)[Len(d)]
<1> DEFINE n == Len(d)
           f == Flat(d, p)
           g == Flat(d, q)
<1>1. /\ n \in Nat /\ n > 0
      /\ p \in [1 .. n -> Nat]
      /\ \A k \in 1 .. n : /\ d[k] \in Nat
                           /\ p[k] \in Nat /\ p[k] < d[k] /\ q[k] \in Nat /\ q[k] < d[k]
  BY ShapeType, PathType
<1>2. f \in [0 .. n -> Nat] /\ f[0] = 0 /\ \A k \in 1 .. n : f[k] = f[k - 1] * d[k] + p[k]
  BY FlatDef
<1>3. g \in [0 .. n -> Nat] /\ g[0] = 0 /\ \A k \in 1 .. n : g[k] = g[k - 1] * d[k] + q[k]
  BY FlatDef
<1>4. PICK m \in 1 .. n : p[m] < q[m] /\ \A j \in 1 .. m - 1 : p[j] = q[j]
  BY <1>1 DEF Before
<1> HIDE DEF n, f, g
<1> DEFINE S == {k \in 0 .. m - 1 : f[k] = g[k]}
           T == {j \in 0 .. n - m : f[m + j] < g[m + j]}
<1>5. m - 1 \in Nat /\ n - m \in Nat
  BY <1>1
<1>6. f[m - 1] = g[m - 1]
  <2>1. 0 \in S
    BY <1>2, <1>3, <1>5
  <2>2. ASSUME NEW k \in 0 .. m - 1 - 1, k \in S PROVE k + 1 \in S
    <3>1. k + 1 \in 1 .. m - 1 /\ k + 1 \in 0 .. m - 1 /\ k + 1 \in 1 .. n /\ k + 1 - 1 = k
          /\ f[k] = g[k]
      BY <1>1, <2>2
    <3>2. f[k + 1] = f[k] * d[k + 1] + p[k + 1] /\ g[k + 1] = g[k] * d[k + 1] + q[k + 1]
          /\ p[k + 1] = q[k + 1]
      BY <1>2, <1>3, <1>4, <3>1
    <3>3. QED
      BY <3>1, <3>2
  <2>3. 0 .. m - 1 \subseteq S
    <3> HIDE DEF S
    <3>1. QED
      BY <1>5, <2>1, <2>2, UpTo
  <2>4. QED
    BY <1>5, <2>3
<1>7. 0 \in T
  <2>1. /\ f[m] = f[m - 1] * d[m] + p[m] /\ g[m] = g[m - 1] * d[m] + q[m]
        /\ f[m - 1] \in Nat /\ d[m] \in Nat /\ p[m] \in Nat /\ q[m] \in Nat
        /\ f[m - 1] = g[m - 1] /\ p[m] < q[m]
    BY <1>1, <1>2, <1>3, <1>4, <1>6
  <2>2. f[m] < g[m]
    BY <2>1, ProductType
  <2>3. QED
    BY <1>5, <2>2
<1>8. ASSUME NEW j \in 0 .. n - m - 1, j \in T PROVE j + 1 \in T
  <2>1. /\ j + 1 \in 0 .. n - m /\ m + j \in 0 .. n /\ m + (j + 1) \in 1 .. n
        /\ m + (j + 1) - 1 = m + j /\ f[m + j] < g[m + j]
    BY <1>1, <1>8
  <2> DEFINE k == m + (j + 1)
  <2>2. k \in 1 .. n /\ k - 1 = m + j
    BY <2>1
  <2> HIDE DEF k
  <2>3. /\ f[k] = f[k - 1] * d[k] + p[k] /\ g[k] = g[k - 1] * d[k] + q[k]
        /\ f[k - 1] \in Nat /\ g[k - 1] \in Nat /\ f[k - 1] < g[k - 1]
        /\ d[k] \in Nat /\ p[k] \in Nat /\ q[k] \in Nat /\ p[k] < d[k]
    BY <1>1, <1>2, <1>3, <2>1, <2>2
  <2>4. f[k] < g[k]
    BY <2>3, Lexicographic
  <2>5. QED
    BY <2>1, <2>4 DEF k
<1>9. 0 .. n - m \subseteq T
  <2> HIDE DEF T
  <2>1. QED
    BY <1>5, <1>7, <1>8, UpTo
<1>10. f[n] < g[n]
  <2>1. n - m \in T /\ m + (n - m) = n
    <3> HIDE DEF T
    <3>1. QED
      BY <1>1, <1>5, <1>9
  <2>2. QED
    BY <2>1
<1>11. QED
  BY <1>10 DEF n, f, g

\* Of two different elements the loops visit one before the other.
LEMMA BeforeIsTotal ==
    ASSUME NEW d \in Shape, NEW p \in Paths(d), NEW q \in Paths(d), p # q
    PROVE  Before(p, q) \/ Before(q, p)
<1> DEFINE n == Len(d)
           D == {k \in 1 .. n : p[k] # q[k]}
<1>1. /\ n \in Nat /\ p \in [1 .. n -> Nat] /\ q \in [1 .. n -> Nat]
  BY ShapeType, PathType
<1> HIDE DEF n
<1>2. D # {} /\ D \subseteq Nat
  BY <1>1
<1>3. PICK m \in D : \A k \in D : m <= k
  <2> HIDE DEF D
  <2>1. QED
    BY <1>2, LeastNat
<1>4. m \in 1 .. n /\ p[m] # q[m] /\ \A j \in 1 .. m - 1 : p[j] = q[j]
  BY <1>1, <1>3
<1>5. p[m] \in Nat /\ q[m] \in Nat
  BY <1>1, <1>4
<1>6. CASE p[m] < q[m]
  BY <1>1, <1>4, <1>6 DEF Before
<1>7. CASE q[m] < p[m]
  BY <1>1, <1>4, <1>7 DEF Before
<1>8. QED
  BY <1>4, <1>5, <1>6, <1>7

\* First is the element an increasing loop meets first.
LEMMA FirstIsFirst ==
    ASSUME NEW d \in Shape, NEW X, X \subseteq Paths(d), X # {}
    PROVE  /\ First(X) \in X
           /\ \A q \in X : ~Before(q, First(X))
<1> DEFINE F(p) == Flat(d, p)[Len(d)]
           T == {F(p) : p \in X}
           Leads(p) == \A q \in X \ {p} : Before(p, q)
<1>1. ASSUME NEW p \in Paths(d) PROVE F(p) \in Nat
  BY FlatDef, ShapeType
<1>2. PICK p \in X : \A q \in X : F(p) <= F(q)
  <2> HIDE DEF F
  <2>1. T \subseteq Nat /\ T # {}
    BY <1>1
  <2>2. PICK t \in T : \A u \in T : t <= u
    <3> HIDE DEF T
    <3>1. QED
      BY <2>1, LeastNat
  <2>3. PICK p \in X : F(p) = t
    BY <2>2
  <2>4. QED
    BY <2>2, <2>3
<1>3. ASSUME NEW q \in X, NEW r \in X PROVE ~(Before(q, r) /\ F(r) <= F(q))
  <2>1. Before(q, r) => F(q) < F(r)
    BY BeforeIsLess
  <2> HIDE DEF F
  <2>2. QED
    BY <1>1, <2>1
<1>4. Leads(p)
  <2>1. ASSUME NEW q \in X \ {p} PROVE Before(p, q)
    <3> HIDE DEF F
    <3>1. QED
      BY <1>2, <1>3, BeforeIsTotal
  <2>2. QED
    BY <2>1
<1>5. First(X) = CHOOSE r \in X : Leads(r)
  BY DEF First
<1> HIDE DEF F
<1>6. First(X) \in X /\ Leads(First(X))
  <2> HIDE DEF Leads
  <2>1. QED
    BY <1>4, <1>5
<1>7. ASSUME NEW q \in X, Before(q, First(X)) PROVE FALSE
  <2>1. F(q) \in Nat /\ F(First(X)) \in Nat
    BY <1>1, <1>6
  <2>2. ~(F(First(X)) <= F(q)) 
    BY <1>3, <1>6, <1>7
  <2>3. q # First(X)
    BY <2>1, <2>2
  <2>4. Before(First(X), q)
    BY <1>6, <2>3
  <2>5. ~(F(q) <= F(First(X)))
    BY <1>3, <1>6, <2>4
  <2>6. QED
    BY <2>1, <2>2, <2>5
<1>8. QED
  BY <1>6, <1>7

-----------------------------------------------------------------------------
(* The bytes of a leaf *)

Memory(d) == [0 .. Size(d) - 1 -> Byte]
LeafBytes == [0 .. LeafSize - 1 -> Byte]

\* A leaf lies inside the field.
LEMMA LeafInside ==
    ASSUME NEW d \in Shape, NEW p \in Paths(d), NEW j \in 0 .. LeafSize - 1
    PROVE  /\ Offset(d, p) \in Nat
           /\ Offset(d, p) + j \in 0 .. Size(d) - 1
<1> DEFINE f == Flat(d, p)[Len(d)]
           c == Count(d)[Len(d)]
<1>1. f \in Nat /\ c \in Nat /\ f < c
  BY ShapeType, FlatDef, CountDef, FlatBelowCount
<1>2. Offset(d, p) = f * LeafSize /\ Size(d) = c * LeafSize /\ Size(d) \in Nat
  BY FlatOffset, CountStride
<1>3. LeafSize \in Nat /\ j \in Nat /\ j < LeafSize
  BY ShapeAssumption
<1> HIDE DEF f, c
<1>4. f * LeafSize + j < c * LeafSize + 0
  BY <1>1, <1>3, Lexicographic
<1>5. f * LeafSize \in Nat
  BY <1>1, <1>3, ProductType
<1>6. QED
  BY <1>2, <1>3, <1>4, <1>5

\* Two leaves share no byte.
LEMMA LeavesApart ==
    ASSUME NEW d \in Shape, NEW p \in Paths(d), NEW q \in Paths(d), p # q,
           NEW j \in 0 .. LeafSize - 1
    PROVE  (Offset(d, q) + j) - Offset(d, p) \notin 0 .. LeafSize - 1
<1> DEFINE f == Flat(d, p)[Len(d)]
           g == Flat(d, q)[Len(d)]
<1>1. f \in Nat /\ g \in Nat
  BY ShapeType, FlatDef
<1>2. Offset(d, p) = f * LeafSize /\ Offset(d, q) = g * LeafSize
  BY FlatOffset
<1>3. f < g \/ g < f
  BY BeforeIsTotal, BeforeIsLess
<1>4. LeafSize \in Nat /\ j \in Nat /\ j < LeafSize
  BY ShapeAssumption
<1> HIDE DEF f, g
<1>5. f * LeafSize \in Nat /\ g * LeafSize \in Nat
  BY <1>1, <1>4, ProductType
<1>6. ASSUME NEW i \in 0 .. LeafSize - 1, (g * LeafSize + j) - f * LeafSize = i PROVE FALSE
  <2>1. i \in Nat /\ i < LeafSize
    BY <1>4
  <2>2. CASE f < g
    <3>1. f * LeafSize + i < g * LeafSize + j
      BY <1>1, <1>4, <2>1, <2>2, Lexicographic
    <3>2. QED
      BY <1>4, <1>5, <1>6, <2>1, <3>1
  <2>3. CASE g < f
    <3>1. g * LeafSize + j < f * LeafSize + i
      BY <1>1, <1>4, <2>1, <2>3, Lexicographic
    <3>2. QED
      BY <1>4, <1>5, <1>6, <2>1, <3>1
  <2>4. QED
    BY <1>3, <2>2, <2>3
<1>7. QED
  BY <1>2, <1>6

LEMMA LeafType ==
    ASSUME NEW d \in Shape, NEW p \in Paths(d), NEW m \in Memory(d)
    PROVE  Leaf(d, m, p) \in LeafBytes
<1>1. \A j \in 0 .. LeafSize - 1 : m[Offset(d, p) + j] \in Byte
  BY LeafInside DEF Memory
<1>2. QED
  BY <1>1 DEF Leaf, LeafBytes

\* Storing a leaf changes that leaf and no other.
LEMMA StoreOne ==
    ASSUME NEW d \in Shape, NEW p \in Paths(d), NEW m \in Memory(d), NEW b \in LeafBytes
    PROVE  /\ StoreLeaf(d, m, p, b) \in Memory(d)
           /\ \A q \in Paths(d) :
                 Leaf(d, StoreLeaf(d, m, p, b), q) = IF q = p THEN b ELSE Leaf(d, m, q)
<1> DEFINE o == Offset(d, p)
           s == StoreLeaf(d, m, p, b)
<1>1. s = [a \in 0 .. Size(d) - 1 |-> IF a - o \in 0 .. LeafSize - 1 THEN b[a - o] ELSE m[a]]
  BY DEF StoreLeaf, Memory
<1> HIDE DEF s
<1>2. s \in Memory(d)
  <2>1. \A a \in 0 .. Size(d) - 1 :
           (IF a - o \in 0 .. LeafSize - 1 THEN b[a - o] ELSE m[a]) \in Byte
    <3> HIDE DEF o
    <3>1. QED
      BY DEF Memory, LeafBytes
  <2>2. QED
    BY <1>1, <2>1 DEF Memory
<1>3. ASSUME NEW q \in Paths(d), NEW j \in 0 .. LeafSize - 1
      PROVE  s[Offset(d, q) + j] = IF q = p THEN b[j] ELSE m[Offset(d, q) + j]
  <2>1. Offset(d, q) + j \in 0 .. Size(d) - 1 /\ Offset(d, q) \in Nat
    BY LeafInside
  <2>2. CASE q = p
    <3>1. (Offset(d, q) + j) - o = j
      <4>1. j \in Int
        BY ShapeAssumption
      <4>2. QED
        BY <2>1, <2>2, <4>1
    <3>2. QED
      BY <1>1, <2>1, <2>2, <3>1
  <2>3. CASE q # p
    <3>1. (Offset(d, q) + j) - o \notin 0 .. LeafSize - 1
      BY <2>3, LeavesApart
    <3> DEFINE a == Offset(d, q) + j
    <3>2. a \in 0 .. Size(d) - 1 /\ a - o \notin 0 .. LeafSize - 1
      BY <2>1, <3>1
    <3>3. s[a] = m[a]
      <4> HIDE DEF a, o
      <4>1. QED
        BY <1>1, <3>2
    <3>4. QED
      BY <2>3, <3>3
  <2>4. QED
    BY <2>2, <2>3
<1>4. b = [j \in 0 .. LeafSize - 1 |-> b[j]]
  BY DEF LeafBytes
<1>5. ASSUME NEW q \in Paths(d)
      PROVE  Leaf(d, s, q) = IF q = p THEN b ELSE Leaf(d, m, q)
  BY <1>3, <1>4 DEF Leaf
<1>6. QED
  BY <1>2, <1>5 DEF s

-----------------------------------------------------------------------------
(* The inductive invariant *)

\* The indices of the handle are in range and its base is the flat position
\* of its first element, whichever element of it is asked.
HandleExact ==
    /\ ~open => row = <<>> /\ base = 0
    /\ \A k \in 1 .. Len(row) : row[k] < dims[k]
    /\ \A p \in Block(dims, row) : base = Flat(dims, p)[Len(row)] * dims[Len(row) + 1]

\* A running call is a logical one under a handle, for elements of that
\* handle, or initializes every element while there is none.
CallFits ==
    /\ pc = "idle" => source = <<>> /\ pending = {} /\ form = "logical" /\ entry = mem
    /\ pc # "idle" => DOMAIN source \subseteq Block(dims, row)
    /\ pc \in {"preflight", "commit"} => result = Ok /\ (open <=> form = "logical")
    /\ pc = "commit" /\ form = "init" => DOMAIN source = Paths(dims)
    /\ pc = "preflight" /\ form = "init" => DOMAIN source = Paths(dims)

AllValid(m) == \A p \in Paths(dims) : Valid(Leaf(dims, m, p))

\* What is behind a pass is approved, or written; what is ahead of it is as
\* it was when the call began.
PassExact ==
    /\ pc = "preflight" =>
          /\ mem = entry
          /\ \A p \in DOMAIN source \ pending :
                Preflight(form, Leaf(dims, mem, p), source[p])
    /\ pc = "commit" =>
          /\ \A p \in DOMAIN source : Preflight(form, Leaf(dims, entry, p), source[p])
          /\ \A p \in Paths(dims) :
                Leaf(dims, mem, p) =
                    IF p \in DOMAIN source \ pending
                    THEN Commit(form, Leaf(dims, entry, p), source[p])
                    ELSE Leaf(dims, entry, p)

\* The elements under a handle are valid, between passes and as they were
\* when a call began.
LeavesValid ==
    /\ open /\ pc \in {"idle", "returned"} => AllValid(mem)
    /\ open /\ pc \in {"preflight", "commit"} => AllValid(entry)

ResultExact ==
    /\ RejectionNamesFirstElement
    /\ result.kind = "Access" => pc = "idle"
    /\ AccessNamesFirstElement

Inv == TypeOK /\ HandleExact /\ CallFits /\ PassExact /\ LeavesValid /\ ResultExact

LEMMA BlockType ==
    ASSUME NEW d, NEW prefix
    PROVE  Block(d, prefix) \subseteq Paths(d)
  BY DEF Block

\* The whole array is the block of the empty prefix, with base 0.
LEMMA WholeBlock ==
    ASSUME NEW d \in Shape
    PROVE  /\ Block(d, <<>>) = Paths(d)
           /\ Len(<<>>) = 0
           /\ \A p \in Paths(d) : Flat(d, p)[0] * d[0 + 1] = 0
<1>1. Block(d, <<>>) = Paths(d)
  BY DEF Block
<1>2. ASSUME NEW p \in Paths(d) PROVE Flat(d, p)[0] * d[0 + 1] = 0
  <2>1. Flat(d, p)[0] = 0 /\ d[1] \in Nat
    BY FlatDef, ShapeType
  <2>2. QED
    BY <2>1
<1>3. QED
  BY <1>1, <1>2

\* The path a failing element of the handle reports is its own.
LEMMA ReportedPath ==
    ASSUME TypeOK, HandleExact, NEW p \in Block(dims, row)
    PROVE  IndexPath(dims, Position(dims, base, Len(row), p)) = p
<1>1. dims \in Shape /\ p \in Paths(dims) /\ Len(row) \in 0 .. Len(dims) - 1
  BY BlockType, ShapeType DEF TypeOK
<1>2. base = Flat(dims, p)[Len(row)] * dims[Len(row) + 1]
  BY DEF HandleExact
<1>3. QED
  BY <1>1, <1>2, PositionExact, IndexPathExact

LEMMA InitInv == Init => Inv
<1> SUFFICES ASSUME Init PROVE Inv
  OBVIOUS
<1>1. dims \in Shape
  BY DEF Init
<1>2. TypeOK
  <2>1. row \in Seq(Nat) /\ Len(row) = 0 /\ DOMAIN source = {}
    BY DEF Init
  <2>2. Len(row) < Len(dims) /\ base \in 0 .. MaxIndex
    BY <1>1, <2>1, ShapeType, ShapeAssumption DEF Init
  <2>3. QED
    BY <2>1, <2>2 DEF Init, TypeOK
<1>3. HandleExact
  <2>1. \A p \in Block(dims, row) : base = Flat(dims, p)[Len(row)] * dims[Len(row) + 1]
    BY <1>1, WholeBlock DEF Init
  <2>2. QED
    BY <2>1 DEF Init, HandleExact
<1>4. CallFits /\ PassExact /\ LeavesValid
  BY DEF Init, CallFits, PassExact, LeavesValid
<1>5. ResultExact
  BY DEF Init, ResultExact, RejectionNamesFirstElement, AccessNamesFirstElement, Ok
<1>6. QED
  BY <1>2, <1>3, <1>4, <1>5 DEF Inv

\* Prove
LEMMA ProveInv == Inv /\ Prove => Inv'
<1> SUFFICES ASSUME Inv, Prove PROVE Inv'
  OBVIOUS
<1> USE DEF Inv
<1>1. TypeOK'
  BY DEF TypeOK, Prove
<1>2. HandleExact'
  BY DEF HandleExact, Prove
<1>3. CallFits' /\ PassExact'
  BY DEF CallFits, PassExact, Prove
<1>4. LeavesValid'
  BY DEF LeavesValid, Prove, AllValid, InvalidLeaves
<1>5. ResultExact'
  <2> DEFINE X == InvalidLeaves(dims, mem)
  <2>1. CASE X = {}
    BY <2>1 DEF ResultExact, RejectionNamesFirstElement, AccessNamesFirstElement, Prove, Ok
  <2>2. CASE X # {}
    <3>1. dims \in Shape /\ X \subseteq Paths(dims)
      BY DEF TypeOK, InvalidLeaves
    <3>2. First(X) \in X /\ \A q \in X : ~Before(q, First(X))
      <4> HIDE DEF X
      <4>1. QED
        BY <2>2, <3>1, FirstIsFirst
    <3>3. First(X) \in Block(dims, row)
      BY <3>1, <3>2, WholeBlock DEF HandleExact, Prove
    <3>4. result' = Error("Access", First(X))
      BY <2>2, <3>3, ReportedPath DEF Prove, ElementError
    <3>5. result'.kind = "Access" /\ result'.at = First(X)
      BY <3>4 DEF Error
    <3>6. mem' = mem /\ dims' = dims /\ pc' = "idle"
      BY DEF Prove
    <3>7. X' = X
      BY <3>6 DEF InvalidLeaves
    <3>8. QED
      BY <3>2, <3>5, <3>6, <3>7
         DEF ResultExact, RejectionNamesFirstElement, AccessNamesFirstElement
  <2>3. QED
    BY <2>1, <2>2
<1>6. QED
  BY <1>1, <1>2, <1>3, <1>4, <1>5

LEMMA GetMutInv ==
    ASSUME Inv, NEW i \in 0 .. dims[Len(row) + 1] - 1, GetMut(i)
    PROVE  Inv'
<1> USE DEF Inv
<1>1. /\ dims \in Shape /\ row \in Seq(Nat) /\ Len(row) \in Nat /\ Len(row) + 1 < Len(dims)
      /\ dims' = dims /\ mem' = mem /\ pc' = pc /\ open' = open /\ row' = Append(row, i)
      /\ i \in Nat /\ Len(row') = Len(row) + 1
      /\ \A k \in 1 .. Len(row) : row'[k] = row[k]
      /\ row'[Len(row) + 1] = i /\ base \in Nat
  <2>1. dims \in Shape /\ row \in Seq(Nat) /\ base \in Nat
    BY ShapeAssumption DEF TypeOK
  <2>2. Len(row) + 1 \in 1 .. Len(dims) /\ Len(row) \in Nat
    BY <2>1, ShapeType DEF GetMut
  <2>3. i \in Nat
    BY <2>1, <2>2, ShapeType
  <2>4. QED
    BY <2>1, <2>2, <2>3 DEF GetMut
<1>2. TypeOK'
  <2>1. base' \in 0 .. MaxIndex
    <3>1. dims[Len(row) + 2] \in Nat /\ MaxIndex \in Nat
      BY <1>1, ShapeType, ShapeAssumption
    <3>2. SatAdd(base, i) \in Nat
      BY <1>1, <3>1 DEF SatAdd
    <3>3. SatAdd(base, i) * dims[Len(row) + 2] \in Nat
      BY <3>1, <3>2, ProductType
    <3>4. QED
      BY <3>1, <3>3 DEF GetMut, RowBase, SatMul
  <2>2. row' \in Seq(Nat) /\ Len(row') < Len(dims)
    BY <1>1
  <2>3. QED
    BY <2>1, <2>2 DEF TypeOK, GetMut
<1>3. HandleExact'
  <2>1. open
    BY DEF GetMut
  <2>2. ASSUME NEW k \in 1 .. Len(row') PROVE row'[k] < dims[k]
    <3>1. CASE k = Len(row) + 1
      <4>1. dims[k] \in Nat
        BY <1>1, <3>1, ShapeType
      <4>2. QED
        BY <1>1, <3>1, <4>1
    <3>2. CASE k # Len(row) + 1
      <4>1. k \in 1 .. Len(row)
        BY <1>1, <3>2
      <4>2. QED
        BY <1>1, <4>1 DEF HandleExact
    <3>3. QED
      BY <3>1, <3>2
  <2>3. ASSUME NEW p \in Block(dims, row')
        PROVE  base' = Flat(dims, p)[Len(row')] * dims[Len(row') + 1]
    <3>1. p \in Paths(dims) /\ \A k \in 1 .. Len(row') : p[k] = row'[k]
      BY <1>1 DEF Block
    <3>2. p[Len(row) + 1] = i
      BY <1>1, <3>1
    <3>3. p \in Block(dims, row)
      BY <1>1, <3>1 DEF Block
    <3>4. base = Flat(dims, p)[Len(row)] * dims[Len(row) + 1]
      BY <3>3 DEF HandleExact
    <3>5. RowBase(dims, base, Len(row), i) = Flat(dims, p)[Len(row) + 1] * dims[Len(row) + 2]
      BY <1>1, <3>1, <3>2, <3>4, RowBaseExact
    <3>6. Len(row') + 1 = Len(row) + 2
      BY <1>1
    <3>7. QED
      BY <1>1, <3>5, <3>6 DEF GetMut
  <2>4. QED
    BY <1>1, <2>1, <2>2, <2>3 DEF HandleExact
<1>4. CallFits' /\ PassExact' /\ LeavesValid'
  BY DEF CallFits, PassExact, LeavesValid, GetMut, AllValid
<1>5. ResultExact'
  BY DEF ResultExact, RejectionNamesFirstElement, AccessNamesFirstElement, GetMut, Ok
<1>6. QED
  BY <1>2, <1>3, <1>4, <1>5

LEMMA DropInv == Inv /\ Drop => Inv'
<1> SUFFICES ASSUME Inv, Drop PROVE Inv'
  OBVIOUS
<1> USE DEF Inv
<1>1. dims \in Shape /\ dims' = dims /\ row' = <<>> /\ base' = 0 /\ mem' = mem /\ pc' = pc
      /\ open /\ pc = "idle"
  BY DEF Drop, TypeOK
<1>2. TypeOK'
  <2>1. row' \in Seq(Nat) /\ Len(row') = 0
    BY <1>1
  <2>2. Len(row') < Len(dims) /\ base' \in 0 .. MaxIndex
    BY <1>1, <2>1, ShapeType, ShapeAssumption
  <2>3. QED
    BY <2>1, <2>2 DEF Drop, TypeOK
<1>3. HandleExact'
  <2>1. \A p \in Block(dims, row') : base' = Flat(dims, p)[Len(row')] * dims[Len(row') + 1]
    BY <1>1, WholeBlock
  <2>2. QED
    BY <1>1, <2>1 DEF HandleExact
<1>4. CallFits' /\ PassExact' /\ LeavesValid'
  BY DEF CallFits, PassExact, LeavesValid, Drop, AllValid
<1>5. ResultExact'
  BY DEF ResultExact, RejectionNamesFirstElement, AccessNamesFirstElement, Drop, Ok
<1>6. QED
  BY <1>2, <1>3, <1>4, <1>5

\* The start of a write, from a handle or over stale bytes.
LEMMA BeginInv ==
    ASSUME Inv, pc = "idle", NEW f, NEW X, NEW src \in [X -> Value],
           X \subseteq Block(dims, row), BeginCall(f, src),
           \/ f = "logical" /\ open
           \/ f = "init" /\ ~open /\ X = Paths(dims)
    PROVE  Inv'
<1> USE DEF Inv
<1>1. /\ dims' = dims /\ mem' = mem /\ open' = open /\ row' = row /\ base' = base
      /\ pc' = "preflight" /\ form' = f /\ source' = src /\ pending' = X /\ entry' = mem
      /\ result' = Ok /\ DOMAIN src = X /\ \A p \in X : src[p] \in Value
  BY DEF BeginCall, handle
<1>2. TypeOK'
  BY <1>1, BlockType DEF TypeOK
<1>3. HandleExact'
  BY <1>1 DEF HandleExact
<1>4. CallFits'
  BY <1>1 DEF CallFits
<1>5. PassExact'
  BY <1>1 DEF PassExact
<1>6. LeavesValid'
  BY <1>1 DEF LeavesValid, AllValid
<1>7. ResultExact'
  BY <1>1 DEF ResultExact, RejectionNamesFirstElement, AccessNamesFirstElement, Ok
<1>8. QED
  BY <1>2, <1>3, <1>4, <1>5, <1>6, <1>7

\* A call refused by its index or length, or by the leaf's own handle.
LEMMA RefuseInv ==
    ASSUME Inv, pc = "idle", NEW error, error.kind # "Access", Refuse(error)
    PROVE  Inv'
<1> USE DEF Inv
<1>1. /\ dims' = dims /\ mem' = mem /\ open' = open /\ row' = row /\ base' = base
      /\ pc' = pc /\ form' = form /\ source' = source /\ pending' = pending /\ entry' = entry
      /\ result' = error
  BY DEF Refuse, handle
<1>2. TypeOK' /\ HandleExact'
  BY <1>1 DEF TypeOK, HandleExact
<1>3. CallFits' /\ PassExact' /\ LeavesValid'
  BY <1>1 DEF CallFits, PassExact, LeavesValid, AllValid
<1>4. ResultExact'
  BY <1>1 DEF ResultExact, RejectionNamesFirstElement, AccessNamesFirstElement
<1>5. QED
  BY <1>2, <1>3, <1>4

LEMMA SetAtInv ==
    ASSUME Inv, NEW i \in 0 .. dims[Len(row) + 1], SetAt(i)
    PROVE  Inv'
<1>1. CASE i >= dims[Len(row) + 1]
  <2>1. Refuse(Error("ArrayIndexOutOfBounds", <<i>>))
    BY <1>1 DEF SetAt
  <2>2. Error("ArrayIndexOutOfBounds", <<i>>).kind # "Access"
    BY DEF Error
  <2>3. QED
    BY <2>1, <2>2, RefuseInv DEF SetAt
<1>2. CASE ~(i >= dims[Len(row) + 1])
  <2> DEFINE X == Block(dims, Append(row, i))
  <2>1. PICK src \in [X -> Value] : BeginCall("logical", src)
    BY <1>2 DEF SetAt
  <2>2. X \subseteq Block(dims, row)
    <3>1. row \in Seq(Nat) /\ i \in Int
      BY DEF Inv, TypeOK
    <3>2. DOMAIN row \subseteq DOMAIN Append(row, i)
          /\ \A k \in DOMAIN row : Append(row, i)[k] = row[k]
      BY <3>1
    <3>3. QED
      BY <3>2 DEF Block
  <2> HIDE DEF X
  <2>3. QED
    BY <2>1, <2>2, BeginInv DEF SetAt
<1>3. QED
  BY <1>1, <1>2

LEMMA CopyFromInv ==
    ASSUME Inv, NEW n, CopyFrom(n)
    PROVE  Inv'
<1>1. CASE n # dims[Len(row) + 1]
  <2>1. Refuse(Error("ArrayLengthMismatch", <<>>))
    BY <1>1 DEF CopyFrom
  <2>2. Error("ArrayLengthMismatch", <<>>).kind # "Access"
    BY DEF Error
  <2>3. QED
    BY <2>1, <2>2, RefuseInv DEF CopyFrom
<1>2. CASE n = dims[Len(row) + 1]
  <2>1. PICK src \in [Block(dims, row) -> Value] : BeginCall("logical", src)
    BY <1>2 DEF CopyFrom
  <2>2. QED
    BY <2>1, BeginInv DEF CopyFrom
<1>3. QED
  BY <1>1, <1>2

LEMMA InitializeInv == Inv /\ Initialize => Inv'
<1> SUFFICES ASSUME Inv, Initialize PROVE Inv'
  OBVIOUS
<1>1. PICK src \in [Paths(dims) -> Value] : BeginCall("init", src)
  BY DEF Initialize
<1>2. Paths(dims) \subseteq Block(dims, row)
  BY WholeBlock DEF Inv, TypeOK, HandleExact, Initialize
<1>3. QED
  BY <1>1, <1>2, BeginInv DEF Initialize

\* The pass is at the first element that is left.
LEMMA PassFront ==
    ASSUME Inv, pending # {}, pc # "idle"
    PROVE  /\ First(pending) \in pending
           /\ \A q \in pending : ~Before(q, First(pending))
           /\ First(pending) \in DOMAIN source
           /\ First(pending) \in Paths(dims)
           /\ First(pending) \in Block(dims, row)
           /\ source[First(pending)] \in Value
<1>1. /\ dims \in Shape /\ pending \subseteq DOMAIN source /\ DOMAIN source \subseteq Paths(dims)
      /\ DOMAIN source \subseteq Block(dims, row) /\ \A p \in DOMAIN source : source[p] \in Value
  BY DEF Inv, TypeOK, CallFits
<1>2. First(pending) \in pending /\ \A q \in pending : ~Before(q, First(pending))
  BY <1>1, FirstIsFirst
<1>3. QED
  BY <1>1, <1>2

\* NestedArrayAdapter::preflight
LEMMA PreflightStepInv == Inv /\ PreflightStep => Inv'
<1> SUFFICES ASSUME Inv, PreflightStep PROVE Inv'
  OBVIOUS
<1> DEFINE p == First(pending)
<1>1. /\ pc = "preflight" /\ dims' = dims /\ mem' = mem /\ form' = form /\ source' = source
      /\ entry' = entry /\ open' = open /\ row' = row /\ base' = base
  BY DEF PreflightStep, handle
<1>2. HandleExact'
  BY <1>1 DEF Inv, HandleExact
<1>3. CASE pending = {}
  <2>1. pc' = "commit" /\ pending' = DOMAIN source /\ result' = result
    BY <1>3 DEF PreflightStep
  <2>2. TypeOK' /\ CallFits'
    BY <1>1, <2>1 DEF Inv, TypeOK, CallFits
  <2>3. PassExact'
    BY <1>1, <1>3, <2>1 DEF Inv, PassExact
  <2>4. LeavesValid'
    BY <1>1, <2>1 DEF Inv, LeavesValid, AllValid
  <2>5. ResultExact'
    BY <1>1, <2>1 DEF Inv, ResultExact, RejectionNamesFirstElement, AccessNamesFirstElement,
                      CallFits, Ok
  <2>6. QED
    BY <1>2, <2>2, <2>3, <2>4, <2>5 DEF Inv
<1>4. CASE pending # {} /\ Preflight(form, Leaf(dims, mem, p), source[p])
  <2>1. pending' = pending \ {p} /\ pc' = pc /\ result' = result
    BY <1>4 DEF PreflightStep
  <2>2. TypeOK' /\ CallFits'
    BY <1>1, <2>1 DEF Inv, TypeOK, CallFits
  <2>3. PassExact'
    BY <1>1, <1>4, <2>1 DEF Inv, PassExact
  <2>4. LeavesValid'
    BY <1>1, <2>1 DEF Inv, LeavesValid, AllValid
  <2>5. ResultExact'
    BY <1>1, <2>1 DEF Inv, ResultExact, RejectionNamesFirstElement, AccessNamesFirstElement,
                      CallFits, Ok
  <2>6. QED
    BY <1>2, <2>2, <2>3, <2>4, <2>5 DEF Inv
<1>5. CASE pending # {} /\ ~Preflight(form, Leaf(dims, mem, p), source[p])
  <2>1. /\ pc' = "returned" /\ pending' = pending
        /\ result' = ElementError("CapacityExceeded", p)
    BY <1>5 DEF PreflightStep
  <2>2. /\ p \in pending /\ (\A q \in pending : ~Before(q, p)) /\ p \in DOMAIN source
        /\ p \in Block(dims, row)
    BY <1>1, <1>5, PassFront
  <2> HIDE DEF p
  <2>3. result'.kind = "CapacityExceeded" /\ result'.at = p
    <3>1. IndexPath(dims, Position(dims, base, Len(row), p)) = p
      BY <2>2, ReportedPath DEF Inv
    <3>2. QED
      BY <2>1, <3>1 DEF ElementError, Error
  <2>4. TypeOK' /\ CallFits'
    BY <1>1, <2>1 DEF Inv, TypeOK, CallFits
  <2>5. PassExact'
    BY <2>1 DEF PassExact
  <2>6. LeavesValid'
    BY <1>1, <2>1 DEF Inv, LeavesValid, AllValid, PassExact
  <2>7. ResultExact'
    <3>1. mem = entry /\ \A q \in DOMAIN source \ pending :
                            Preflight(form, Leaf(dims, mem, q), source[q])
      BY <1>1 DEF Inv, PassExact
    <3>2. \A q \in DOMAIN source : Before(q, p) => Preflight(form, Leaf(dims, mem, q), source[q])
      BY <2>2, <3>1
    <3>3. RejectionNamesFirstElement'
      BY <1>1, <1>5, <2>2, <2>3, <3>1, <3>2 DEF RejectionNamesFirstElement
    <3>4. QED
      BY <2>3, <3>3 DEF ResultExact, AccessNamesFirstElement
  <2>8. QED
    BY <1>2, <2>4, <2>5, <2>6, <2>7 DEF Inv
<1>6. QED
  BY <1>3, <1>4, <1>5

\* What one commit writes.
LEMMA CommitOne ==
    ASSUME Inv, pc = "commit", pending # {}, CommitStep
    PROVE  LET p == First(pending)
           IN /\ p \in pending /\ p \in Paths(dims)
              /\ mem' \in Memory(dims)
              /\ \A q \in Paths(dims) :
                    Leaf(dims, mem', q) =
                        IF q = p THEN Commit(form, Leaf(dims, mem, p), source[p])
                        ELSE Leaf(dims, mem, q)
<1> DEFINE p == First(pending)
           b == Commit(form, Leaf(dims, mem, p), source[p])
<1>1. p \in pending /\ p \in Paths(dims) /\ source[p] \in Value
  BY PassFront
<1>2. dims \in Shape /\ mem \in Memory(dims) /\ form \in {"logical", "init"}
  BY DEF Inv, TypeOK, Memory
<1> HIDE DEF p
<1>3. Leaf(dims, mem, p) \in LeafBytes
  BY <1>1, <1>2, LeafType
<1>4. b \in LeafBytes
  BY <1>1, <1>2, <1>3, LeafAssumption DEF LeafBytes
<1>5. mem' = StoreLeaf(dims, mem, p, b)
  BY DEF CommitStep, p
<1> HIDE DEF b
<1>6. /\ mem' \in Memory(dims)
      /\ \A q \in Paths(dims) : Leaf(dims, mem', q) = IF q = p THEN b ELSE Leaf(dims, mem, q)
  BY <1>1, <1>2, <1>4, <1>5, StoreOne
<1>7. QED
  BY <1>1, <1>6 DEF p, b

LEMMA CommitStepInv == Inv /\ CommitStep => Inv'
<1> SUFFICES ASSUME Inv, CommitStep PROVE Inv'
  OBVIOUS
<1>1. /\ pc = "commit" /\ dims' = dims /\ form' = form /\ source' = source
      /\ entry' = entry /\ row' = row /\ base' = base /\ result' = result
      /\ dims \in Shape /\ entry \in Memory(dims) /\ form \in {"logical", "init"}
      /\ DOMAIN source \subseteq Paths(dims) /\ \A p \in DOMAIN source : source[p] \in Value
      /\ pending \subseteq DOMAIN source
      /\ result = Ok /\ (open <=> form = "logical")
      /\ (form = "init" => DOMAIN source = Paths(dims))
  BY DEF CommitStep, Inv, TypeOK, CallFits, Memory
<1>2. /\ \A p \in DOMAIN source : Preflight(form, Leaf(dims, entry, p), source[p])
      /\ \A p \in Paths(dims) :
            Leaf(dims, mem, p) =
                IF p \in DOMAIN source \ pending
                THEN Commit(form, Leaf(dims, entry, p), source[p])
                ELSE Leaf(dims, entry, p)
  BY <1>1 DEF Inv, PassExact
<1>3. CASE pending = {}
  <2>1. pc' = "returned" /\ open' = TRUE /\ mem' = mem /\ pending' = pending
    BY <1>3 DEF CommitStep
  <2>2. TypeOK' /\ CallFits'
    BY <1>1, <2>1 DEF Inv, TypeOK, CallFits
  <2>3. HandleExact'
    BY <1>1, <2>1 DEF Inv, HandleExact
  <2>4. PassExact'
    BY <2>1 DEF PassExact
  <2>5. LeavesValid'
    <3>1. ASSUME NEW p \in Paths(dims) PROVE Valid(Leaf(dims, mem, p))
      <4>1. Leaf(dims, entry, p) \in [0 .. LeafSize - 1 -> Byte]
        BY <1>1, LeafType DEF LeafBytes
      <4>2. form # "init" => Valid(Leaf(dims, entry, p))
        BY <1>1 DEF Inv, LeavesValid, AllValid
      <4>3. CASE p \in DOMAIN source
        <5>1. Leaf(dims, mem, p) = Commit(form, Leaf(dims, entry, p), source[p])
          BY <1>2, <1>3, <4>3
        <5>2. Preflight(form, Leaf(dims, entry, p), source[p])
          BY <1>2, <4>3
        <5>3. QED
          BY <1>1, <4>1, <4>2, <4>3, <5>1, <5>2, LeafAssumption
      <4>4. CASE p \notin DOMAIN source
        <5>1. Leaf(dims, mem, p) = Leaf(dims, entry, p) /\ form # "init"
          BY <1>1, <1>2, <4>4
        <5>2. QED
          BY <4>2, <5>1
      <4>5. QED
        BY <4>3, <4>4
    <3>2. QED
      BY <1>1, <2>1, <3>1 DEF LeavesValid, AllValid
  <2>6. ResultExact'
    BY <1>1, <2>1 DEF ResultExact, RejectionNamesFirstElement, AccessNamesFirstElement, Ok
  <2>7. QED
    BY <2>2, <2>3, <2>4, <2>5, <2>6 DEF Inv
<1>4. CASE pending # {}
  <2> DEFINE p == First(pending)
  <2>1. pc' = pc /\ open' = open /\ pending' = pending \ {p}
    BY <1>4 DEF CommitStep
  <2>2. /\ p \in pending /\ p \in Paths(dims) /\ mem' \in Memory(dims)
        /\ \A q \in Paths(dims) :
              Leaf(dims, mem', q) = IF q = p THEN Commit(form, Leaf(dims, mem, p), source[p])
                                    ELSE Leaf(dims, mem, q)
    BY <1>1, <1>4, CommitOne
  <2> HIDE DEF p
  <2>3. TypeOK' /\ CallFits'
    BY <1>1, <2>1, <2>2 DEF Inv, TypeOK, CallFits, Memory
  <2>4. HandleExact'
    BY <1>1, <2>1 DEF Inv, HandleExact
  <2>5. PassExact'
    <3>1. ASSUME NEW q \in Paths(dims)
          PROVE  Leaf(dims, mem', q) =
                    IF q \in DOMAIN source \ pending'
                    THEN Commit(form, Leaf(dims, entry, q), source[q])
                    ELSE Leaf(dims, entry, q)
      <4>1. CASE q = p
        <5>1. Leaf(dims, mem, p) = Leaf(dims, entry, p)
          BY <1>2, <2>2
        <5>2. p \in DOMAIN source \ pending'
          BY <1>1, <2>1, <2>2
        <5>3. QED
          BY <2>2, <4>1, <5>1, <5>2
      <4>2. CASE q # p
        <5>1. q \in DOMAIN source \ pending <=> q \in DOMAIN source \ pending'
          BY <2>1, <4>2
        <5>2. Leaf(dims, mem', q) = Leaf(dims, mem, q)
          BY <2>2, <4>2
        <5>3. QED
          BY <1>2, <5>1, <5>2
      <4>3. QED
        BY <4>1, <4>2
    <3>2. QED
      BY <1>1, <1>2, <2>1, <3>1 DEF PassExact
  <2>6. LeavesValid'
    BY <1>1, <2>1 DEF Inv, LeavesValid, AllValid
  <2>7. ResultExact'
    BY <1>1, <2>1 DEF ResultExact, RejectionNamesFirstElement, AccessNamesFirstElement, Ok
  <2>8. QED
    BY <2>3, <2>4, <2>5, <2>6, <2>7 DEF Inv
<1>5. QED
  BY <1>3, <1>4

LEMMA ReturnInv == Inv /\ Return => Inv'
<1> SUFFICES ASSUME Inv, Return PROVE Inv'
  OBVIOUS
<1>1. /\ dims' = dims /\ mem' = mem /\ open' = open /\ row' = row /\ base' = base
      /\ pc = "returned" /\ pc' = "idle" /\ form' = "logical" /\ source' = <<>>
      /\ pending' = {} /\ entry' = mem /\ result' = result
  BY DEF Return, handle
<1>2. TypeOK' /\ HandleExact'
  <2>1. DOMAIN source' = {}
    BY <1>1
  <2>2. QED
    BY <1>1, <2>1 DEF Inv, TypeOK, HandleExact
<1>3. CallFits' /\ PassExact' /\ LeavesValid'
  BY <1>1 DEF Inv, CallFits, PassExact, LeavesValid, AllValid
<1>4. ResultExact'
  BY <1>1 DEF Inv, ResultExact, RejectionNamesFirstElement, AccessNamesFirstElement
<1>5. QED
  BY <1>2, <1>3, <1>4 DEF Inv

\* The path of an element of an innermost handle.
LEMMA ElementPath ==
    ASSUME Inv, NEW i \in 0 .. dims[Len(row) + 1] - 1, Len(row) + 1 = Len(dims)
    PROVE  Append(row, i) \in Paths(dims)
<1> DEFINE p == Append(row, i)
           n == Len(dims)
           U == UNION {0 .. dims[k] - 1 : k \in DOMAIN dims}
<1>1. dims \in Shape /\ row \in Seq(Nat) /\ \A k \in 1 .. Len(row) : row[k] < dims[k]
  BY DEF Inv, TypeOK, HandleExact
<1>2. n \in Nat /\ DOMAIN dims = 1 .. n /\ Len(row) \in Nat /\ Len(row) + 1 = n
      /\ \A k \in 1 .. n : dims[k] \in Nat
  BY <1>1, ShapeType
<1>3. i \in Nat /\ i < dims[n]
  BY <1>2
<1>4. p \in Seq(Nat) /\ Len(p) = n /\ (\A k \in 1 .. Len(row) : p[k] = row[k]) /\ p[n] = i
  BY <1>1, <1>2, <1>3
<1> HIDE DEF p, n
<1>5. ASSUME NEW k \in 1 .. n PROVE p[k] \in 0 .. dims[k] - 1
  <2>1. CASE k = n
    BY <1>2, <1>3, <1>4, <2>1
  <2>2. CASE k # n
    <3>1. k \in 1 .. Len(row)
      BY <1>2, <2>2
    <3>2. p[k] \in Nat /\ p[k] < dims[k] /\ dims[k] \in Nat
      BY <1>1, <1>2, <1>4, <3>1
    <3>3. QED
      BY <3>2
  <2>3. QED
    BY <2>1, <2>2
<1>6. ASSUME NEW k \in 1 .. n PROVE p[k] \in U /\ p[k] < dims[k]
  BY <1>2, <1>5
<1>7. DOMAIN p = 1 .. n /\ p = [k \in DOMAIN p |-> p[k]]
  BY <1>2, <1>4
<1> HIDE DEF U
<1>8. p \in [1 .. n -> U]
  BY <1>6, <1>7
<1>9. QED
  BY <1>2, <1>6, <1>8 DEF Paths, U, p

LEMMA ElementSetInv ==
    ASSUME Inv, NEW i \in 0 .. dims[Len(row) + 1] - 1, NEW v \in Value, ElementSet(i, v)
    PROVE  Inv'
<1> DEFINE p == Append(row, i)
           b == Leaf(dims, mem, p)
           c == Commit("logical", b, v)
<1>1. p \in Paths(dims)
  BY ElementPath DEF ElementSet
<1>2. /\ dims \in Shape /\ mem \in Memory(dims) /\ pc = "idle" /\ open
      /\ source = <<>> /\ pending = {} /\ form = "logical" /\ AllValid(mem)
  BY DEF Inv, TypeOK, CallFits, LeavesValid, Memory, ElementSet
<1> HIDE DEF p
<1>3. b \in LeafBytes
  BY <1>1, <1>2, LeafType
<1>4. CASE Preflight("logical", b, v)
  <2>1. /\ mem' = StoreLeaf(dims, mem, p, c) /\ entry' = mem' /\ result' = Ok
        /\ dims' = dims /\ open' = open /\ row' = row /\ base' = base /\ pc' = pc
        /\ form' = form /\ source' = source /\ pending' = pending
    BY <1>4 DEF ElementSet, handle, p
  <2>2. c \in LeafBytes /\ Valid(c)
    <3>1. Valid(b)
      BY <1>1, <1>2 DEF AllValid
    <3> HIDE DEF b
    <3>2. QED
      BY <1>3, <1>4, <3>1, LeafAssumption DEF LeafBytes
  <2> HIDE DEF c, b
  <2>3. /\ mem' \in Memory(dims)
        /\ \A q \in Paths(dims) : Leaf(dims, mem', q) = IF q = p THEN c ELSE Leaf(dims, mem, q)
    BY <1>1, <1>2, <2>1, <2>2, StoreOne
  <2>4. TypeOK'
    BY <2>1, <2>3 DEF Inv, TypeOK, Memory
  <2>5. HandleExact'
    BY <2>1 DEF Inv, HandleExact
  <2>6. CallFits' /\ PassExact'
    BY <1>2, <2>1 DEF CallFits, PassExact
  <2>7. LeavesValid'
    <3>1. ASSUME NEW q \in Paths(dims) PROVE Valid(Leaf(dims, mem', q))
      BY <1>2, <2>2, <2>3 DEF AllValid
    <3>2. QED
      BY <1>2, <2>1, <3>1 DEF LeavesValid, AllValid
  <2>8. ResultExact'
    BY <2>1 DEF ResultExact, RejectionNamesFirstElement, AccessNamesFirstElement, Ok
  <2>9. QED
    BY <2>4, <2>5, <2>6, <2>7, <2>8 DEF Inv
<1>5. CASE ~Preflight("logical", b, v)
  <2>1. Refuse(Error("CapacityExceeded", <<>>))
    BY <1>5 DEF ElementSet, p
  <2>2. Error("CapacityExceeded", <<>>).kind # "Access"
    BY DEF Error
  <2>3. QED
    BY <1>2, <2>1, <2>2, RefuseInv
<1>6. QED
  BY <1>4, <1>5

LEMMA NextInv == Inv /\ [Next]_vars => Inv'
<1> SUFFICES ASSUME Inv, [Next]_vars PROVE Inv'
  OBVIOUS
<1>1. CASE Prove \/ Drop \/ Initialize \/ PreflightStep \/ CommitStep \/ Return
  BY <1>1, ProveInv, DropInv, InitializeInv, PreflightStepInv, CommitStepInv, ReturnInv
<1>2. CASE \E i \in 0 .. dims[Len(row) + 1] - 1 :
              GetMut(i) \/ \E v \in Value : ElementSet(i, v)
  BY <1>2, GetMutInv, ElementSetInv
<1>3. CASE \E i \in 0 .. dims[Len(row) + 1] : SetAt(i)
  BY <1>3, SetAtInv
<1>4. CASE \E n \in {dims[Len(row) + 1], dims[Len(row) + 1] + 1} : CopyFrom(n)
  BY <1>4, CopyFromInv
<1>5. CASE UNCHANGED vars
  BY <1>5 DEF vars, Inv, TypeOK, HandleExact, CallFits, PassExact, LeavesValid, AllValid,
              ResultExact, RejectionNamesFirstElement, AccessNamesFirstElement
<1>6. QED
  BY <1>1, <1>2, <1>3, <1>4, <1>5 DEF Next

\* The invariant of the two-pass write over nested arrays.
THEOREM Invariance == Spec => []Inv
<1>1. Init => Inv
  BY InitInv
<1>2. Inv /\ [Next]_vars => Inv'
  BY NextInv
<1>3. QED
  BY <1>1, <1>2, PTL DEF Spec

\* The bytes of every array keep their extent, a handle stays above the
\* leaves, and a pass visits only elements a value was offered for.
THEOREM ArrayTypes == Spec => []TypeOK
<1>1. Inv => TypeOK
  BY DEF Inv
<1>2. QED
  BY Invariance, <1>1, PTL

\* Whatever the shape and the writes, every element under a handle is valid,
\* so get, get_mut and the iterators never meet their unreachable! arms.
THEOREM ElementsAreValid == Spec => []ElementsStayValid
<1>1. Inv => ElementsStayValid
  BY DEF Inv, LeavesValid, AllValid, ElementsStayValid, InvalidLeaves
<1>2. QED
  BY Invariance, <1>1, PTL

\* A rejected write names the complete path of the first rejected value, at
\* any depth and from any row handle, and has written nothing.
THEOREM RejectionsNameFirstElement == Spec => []RejectionNamesFirstElement
<1>1. Inv => RejectionNamesFirstElement
  BY DEF Inv, ResultExact
<1>2. QED
  BY Invariance, <1>1, PTL

\* A failed proof of the array names its first invalid element.
THEOREM AccessesNameFirstElement == Spec => []AccessNamesFirstElement
<1>1. Inv => AccessNamesFirstElement
  BY DEF Inv, ResultExact
<1>2. QED
  BY Invariance, <1>1, PTL

-----------------------------------------------------------------------------
(* The array implements the element table *)

LEMMA ElementsDomain == DOMAIN Elements = Paths(dims)
  BY DEF Elements

\* A step that leaves shape and bytes alone, outside the commit pass.
LEMMA QuietStep ==
    ASSUME dims' = dims, mem' = mem, pc # "commit", pc' # "commit"
    PROVE  Elements' = Elements
<1>1. Elements = [p \in Paths(dims) |-> Leaf(dims, mem, p)]
  BY DEF Elements
<1>2. Elements' = [p \in Paths(dims') |-> Leaf(dims', mem', p)]
  BY DEF Elements
<1>3. QED
  BY <1>1, <1>2

LEMMA BeginRefines ==
    ASSUME Inv, pc = "idle", NEW f, NEW X, NEW src \in [X -> Value],
           X \subseteq Paths(dims), BeginCall(f, src)
    PROVE  Table!Next
<1>1. /\ dims' = dims /\ mem' = mem /\ pc' = "preflight" /\ source' = src
      /\ DOMAIN src \subseteq Paths(dims)
  BY DEF BeginCall
<1>2. Elements' = Elements
  BY <1>1, QuietStep
<1>3. Table!Ask
  BY <1>1, <1>2, ElementsDomain DEF Table!Ask
<1>4. QED
  BY <1>3 DEF Table!Next

LEMMA RefuseRefines ==
    ASSUME pc = "idle", NEW error, Refuse(error)
    PROVE  UNCHANGED <<Elements, pc = "preflight">>
<1>1. dims' = dims /\ mem' = mem /\ pc' = pc
  BY DEF Refuse
<1>2. Elements' = Elements
  BY <1>1, QuietStep
<1>3. QED
  BY <1>1, <1>2

LEMMA PreflightStepRefines ==
    ASSUME Inv, PreflightStep
    PROVE  [Table!Next]_<<Elements, pc = "preflight">>
<1> DEFINE p == First(pending)
<1>1. /\ pc = "preflight" /\ dims' = dims /\ mem' = mem /\ form' = form /\ source' = source
  BY DEF PreflightStep
<1>2. DOMAIN source \subseteq Paths(dims) /\ pending \subseteq DOMAIN source
      /\ \A q \in DOMAIN source \ pending : Preflight(form, Leaf(dims, mem, q), source[q])
  BY <1>1 DEF Inv, TypeOK, PassExact
<1>3. \A q \in Paths(dims) : Elements[q] = Leaf(dims, mem, q)
  BY <1>1 DEF Elements
<1>4. CASE pending = {}
  <2>1. pc' = "commit" /\ pending' = DOMAIN source
    BY <1>4 DEF PreflightStep
  <2>2. Table!Approved
    BY <1>2, <1>3, <1>4 DEF Table!Approved
  <2>3. Elements' = [q \in Paths(dims) |->
                        IF q \in DOMAIN source THEN Commit(form, Leaf(dims, mem, q), source[q])
                        ELSE Leaf(dims, mem, q)]
    BY <1>1, <2>1 DEF Elements
  <2>4. Elements' = [q \in DOMAIN Elements |->
                        IF q \in DOMAIN source THEN Commit(form, Elements[q], source[q])
                        ELSE Elements[q]]
    BY <1>3, <2>3, ElementsDomain
  <2>5. Table!Apply
    BY <1>1, <2>1, <2>2, <2>4 DEF Table!Apply
  <2>6. QED
    BY <2>5 DEF Table!Next
<1>5. CASE pending # {} /\ Preflight(form, Leaf(dims, mem, p), source[p])
  <2>1. pc' = pc
    BY <1>5 DEF PreflightStep
  <2>2. Elements' = Elements
    BY <1>1, <2>1, QuietStep
  <2>3. QED
    BY <2>1, <2>2
<1>6. CASE pending # {} /\ ~Preflight(form, Leaf(dims, mem, p), source[p])
  <2>1. pc' = "returned"
    BY <1>6 DEF PreflightStep
  <2>2. Elements' = Elements
    BY <1>1, <2>1, QuietStep
  <2>3. p \in DOMAIN source /\ p \in Paths(dims)
    BY <1>1, <1>6, PassFront
  <2>4. ~Table!Approved
    BY <1>3, <1>6, <2>3 DEF Table!Approved
  <2>5. Table!Reject
    BY <1>1, <2>1, <2>2, <2>4 DEF Table!Reject
  <2>6. QED
    BY <2>5 DEF Table!Next
<1>7. QED
  BY <1>4, <1>5, <1>6

LEMMA CommitStepRefines ==
    ASSUME Inv, CommitStep
    PROVE  UNCHANGED <<Elements, pc = "preflight">>
<1>1. pc = "commit" /\ dims' = dims /\ form' = form /\ source' = source
  BY DEF CommitStep
<1>2. CASE pending = {}
  <2>1. pc' = "returned" /\ mem' = mem /\ pending' = pending
    BY <1>2 DEF CommitStep
  <2>2. Elements' = Elements
    BY <1>1, <1>2, <2>1 DEF Elements
  <2>3. QED
    BY <1>1, <2>1, <2>2
<1>3. CASE pending # {}
  <2> DEFINE p == First(pending)
  <2>1. pc' = pc /\ pending' = pending \ {p}
    BY <1>3 DEF CommitStep
  <2>2. /\ p \in pending /\ p \in Paths(dims)
        /\ \A q \in Paths(dims) :
              Leaf(dims, mem', q) = IF q = p THEN Commit(form, Leaf(dims, mem, p), source[p])
                                    ELSE Leaf(dims, mem, q)
    BY <1>1, <1>3, CommitOne
  <2> HIDE DEF p
  <2>3. ASSUME NEW q \in Paths(dims)
        PROVE  (IF q \in pending' THEN Commit(form, Leaf(dims, mem', q), source[q])
                ELSE Leaf(dims, mem', q))
               = (IF q \in pending THEN Commit(form, Leaf(dims, mem, q), source[q])
                  ELSE Leaf(dims, mem, q))
    BY <2>1, <2>2
  <2>4. Elements = [q \in Paths(dims) |->
                       IF q \in pending THEN Commit(form, Leaf(dims, mem, q), source[q])
                       ELSE Leaf(dims, mem, q)]
    BY <1>1 DEF Elements
  <2>5. Elements' = [q \in Paths(dims) |->
                        IF q \in pending' THEN Commit(form, Leaf(dims, mem', q), source[q])
                        ELSE Leaf(dims, mem', q)]
    BY <1>1, <2>1 DEF Elements
  <2>6. Elements' = Elements
    BY <2>3, <2>4, <2>5
  <2>7. QED
    BY <2>1, <2>6
<1>4. QED
  BY <1>2, <1>3

LEMMA ElementSetRefines ==
    ASSUME Inv, NEW i \in 0 .. dims[Len(row) + 1] - 1, NEW v \in Value, ElementSet(i, v)
    PROVE  [Table!Next]_<<Elements, pc = "preflight">>
<1> DEFINE p == Append(row, i)
           b == Leaf(dims, mem, p)
           c == Commit("logical", b, v)
<1>1. p \in Paths(dims) /\ pc = "idle"
  BY ElementPath DEF ElementSet
<1>2. dims \in Shape /\ mem \in Memory(dims)
  BY DEF Inv, TypeOK, Memory
<1> HIDE DEF p
<1>3. b \in LeafBytes
  BY <1>1, <1>2, LeafType
<1>4. CASE Preflight("logical", b, v)
  <2>1. mem' = StoreLeaf(dims, mem, p, c) /\ dims' = dims /\ pc' = pc
    BY <1>4 DEF ElementSet, p
  <2>2. c \in LeafBytes
    <3> HIDE DEF b
    <3>1. QED
      BY <1>3, LeafAssumption DEF LeafBytes
  <2>3. Elements = [q \in Paths(dims) |-> Leaf(dims, mem, q)]
    BY <1>1 DEF Elements
  <2>4. Elements' = [q \in Paths(dims) |-> Leaf(dims, mem', q)]
    BY <1>1, <2>1 DEF Elements
  <2>5. Elements[p] = b
    BY <1>1, <2>3
  <2> HIDE DEF c, b
  <2>6. \A q \in Paths(dims) : Leaf(dims, mem', q) = IF q = p THEN c ELSE Leaf(dims, mem, q)
    BY <1>1, <1>2, <2>1, <2>2, StoreOne
  <2>7. Elements' = [Elements EXCEPT ![p] = c]
    BY <2>3, <2>4, <2>6
  <2>8. Elements' = [Elements EXCEPT ![p] = Commit("logical", Elements[p], v)]
    BY <2>5, <2>7 DEF c
  <2>9. p \in DOMAIN Elements /\ Preflight("logical", Elements[p], v)
    BY <1>1, <1>4, <2>5, ElementsDomain
  <2>10. Table!Assign
    BY <1>1, <2>1, <2>8, <2>9 DEF Table!Assign
  <2>11. QED
    BY <2>10 DEF Table!Next
<1>5. CASE ~Preflight("logical", b, v)
  <2>1. Refuse(Error("CapacityExceeded", <<>>))
    BY <1>5 DEF ElementSet, p
  <2>2. QED
    BY <1>1, <2>1, RefuseRefines
<1>6. QED
  BY <1>4, <1>5

LEMMA StepRefines == Inv /\ [Next]_vars => [Table!Next]_<<Elements, pc = "preflight">>
<1> SUFFICES ASSUME Inv, [Next]_vars
             PROVE  [Table!Next]_<<Elements, pc = "preflight">>
  OBVIOUS
<1>1. CASE Prove \/ Drop \/ Return
  <2>1. dims' = dims /\ mem' = mem /\ pc \in {"idle", "returned"} /\ pc' = "idle"
    BY <1>1 DEF Prove, Drop, Return
  <2>2. Elements' = Elements
    BY <2>1, QuietStep
  <2>3. QED
    BY <2>1, <2>2
<1>2. CASE Initialize
  <2>1. PICK src \in [Paths(dims) -> Value] : BeginCall("init", src)
    BY <1>2 DEF Initialize
  <2>2. QED
    BY <1>2, <2>1, BeginRefines DEF Initialize
<1>3. CASE PreflightStep
  BY <1>3, PreflightStepRefines
<1>4. CASE CommitStep
  BY <1>4, CommitStepRefines
<1>5. ASSUME NEW i \in 0 .. dims[Len(row) + 1] - 1, GetMut(i)
      PROVE  [Table!Next]_<<Elements, pc = "preflight">>
  <2>1. dims' = dims /\ mem' = mem /\ pc = "idle" /\ pc' = "idle"
    BY <1>5 DEF GetMut
  <2>2. Elements' = Elements
    BY <2>1, QuietStep
  <2>3. QED
    BY <2>1, <2>2
<1>6. ASSUME NEW i \in 0 .. dims[Len(row) + 1] - 1, NEW v \in Value, ElementSet(i, v)
      PROVE  [Table!Next]_<<Elements, pc = "preflight">>
  BY <1>6, ElementSetRefines
<1>7. ASSUME NEW i \in 0 .. dims[Len(row) + 1], SetAt(i)
      PROVE  [Table!Next]_<<Elements, pc = "preflight">>
  <2>1. CASE i >= dims[Len(row) + 1]
    <3>1. Refuse(Error("ArrayIndexOutOfBounds", <<i>>)) /\ pc = "idle"
      BY <1>7, <2>1 DEF SetAt
    <3>2. QED
      BY <3>1, RefuseRefines
  <2>2. CASE ~(i >= dims[Len(row) + 1])
    <3>1. PICK src \in [Block(dims, Append(row, i)) -> Value] : BeginCall("logical", src)
      BY <1>7, <2>2 DEF SetAt
    <3>2. QED
      BY <1>7, <3>1, BlockType, BeginRefines DEF SetAt
  <2>3. QED
    BY <2>1, <2>2
<1>8. ASSUME NEW n, CopyFrom(n)
      PROVE  [Table!Next]_<<Elements, pc = "preflight">>
  <2>1. CASE n # dims[Len(row) + 1]
    <3>1. Refuse(Error("ArrayLengthMismatch", <<>>)) /\ pc = "idle"
      BY <1>8, <2>1 DEF CopyFrom
    <3>2. QED
      BY <3>1, RefuseRefines
  <2>2. CASE n = dims[Len(row) + 1]
    <3>1. PICK src \in [Block(dims, row) -> Value] : BeginCall("logical", src)
      BY <1>8, <2>2 DEF CopyFrom
    <3>2. QED
      BY <1>8, <3>1, BlockType, BeginRefines DEF CopyFrom
  <2>3. QED
    BY <2>1, <2>2
<1>9. CASE UNCHANGED vars
  <2>1. UNCHANGED <<dims, mem, pc, form, source, pending>>
    BY <1>9 DEF vars
  <2>2. Elements' = Elements
    BY <2>1 DEF Elements
  <2>3. QED
    BY <2>1, <2>2
<1>10. QED
  BY <1>1, <1>2, <1>3, <1>4, <1>5, <1>6, <1>7, <1>8, <1>9 DEF Next

\* A fixed array of any shape implements its table of elements: a call
\* replaces exactly the elements it names, each with its own value, or none,
\* although the code writes them one by one at computed offsets.
THEOREM ArrayRefinement == Spec => ImplementsElementTable
<1>1. Init => Table!Init
  BY DEF Init, Table!Init
<1>2. Inv /\ [Next]_vars => [Table!Next]_<<Elements, pc = "preflight">>
  BY StepRefines
<1>3. QED
  BY <1>1, <1>2, Invariance, PTL DEF Spec, ImplementsElementTable, Table!Spec
=============================================================================
