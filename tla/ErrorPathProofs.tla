--------------------------- MODULE ErrorPathProofs --------------------------
(***************************************************************************)
(* The error of a refused operation leads to the first fault it met, for   *)
(* every schema tree, every input and any number of faults.                *)
(***************************************************************************)
EXTENDS ErrorPath, FiniteSetTheorems, SequenceTheorems, TLAPS

-----------------------------------------------------------------------------
(* The tree *)

LEMMA KidFacts ==
    ASSUME NEW n \in Node, NEW c \in KidsOf(n)
    PROVE  /\ c \in Node /\ c # Root /\ ParentOf(c) = n
           /\ n \in Nat /\ c \in Nat /\ n < c
           /\ Shape[n] \in {"record", "array", "option", "union"}
<1>1. c \in Node
  BY TreeAssumption DEF KidsOf
<1>2. c # Root
  BY <1>1, TreeAssumption
<1>3. \A m \in Node : c \in KidsOf(m) => m = n
  BY TreeAssumption
<1>4. ParentOf(c) = n
  BY <1>3 DEF ParentOf
<1>5. n < c /\ n \in Nat /\ c \in Nat
  BY <1>1, TreeAssumption, OrderAssumption
<1>6. Shape[n] \in {"record", "array", "option", "union"}
  BY TreeAssumption
<1>7. QED
  BY <1>1, <1>2, <1>4, <1>5, <1>6

LEMMA ParentFacts ==
    ASSUME NEW c \in Node, c # Root
    PROVE  /\ ParentOf(c) \in Node /\ c \in KidsOf(ParentOf(c))
           /\ ParentOf(c) \in Nat /\ c \in Nat /\ ParentOf(c) < c
<1>1. PICK n \in Node : c \in KidsOf(n)
  BY TreeAssumption
<1>2. ParentOf(c) = n
  BY <1>1, KidFacts
<1>3. QED
  BY <1>1, <1>2, KidFacts

\* A node without kids is nobody's parent.
LEMMA LeafFacts == ASSUME NEW n \in Node PROVE n \in Leaf <=> KidsOf(n) = {}
<1>1. Kids[n] \in Seq(Node)
  BY TreeAssumption
<1> DEFINE s == Kids[n]
<1>2. s = <<>> <=> DOMAIN s = {}
  <2>1. s \in Seq(Node) /\ Len(s) \in Nat /\ DOMAIN s = 1 .. Len(s)
    BY <1>1
  <2>2. s = <<>> <=> Len(s) = 0
    BY <2>1, EmptySeq
  <2>3. ASSUME NEW m \in Nat PROVE m = 0 <=> 1 .. m = {}
    <3>1. CASE m = 0
      BY <3>1
    <3>2. CASE m # 0
      <4>1. 1 \in 1 .. m
        BY <3>2
      <4>2. QED
        BY <3>2, <4>1
    <3>3. QED
      BY <3>1, <3>2
  <2>4. QED
    BY <2>1, <2>2, <2>3
<1>3. QED
  BY <1>2 DEF Leaf, KidsOf

LEMMA TagFacts ==
    ASSUME NEW u \in Node, Shape[u] = "union"
    PROVE  /\ u # Root /\ TagOf[u] \in Node /\ TagOf[u] # Root
           /\ ParentOf(TagOf[u]) = ParentOf(u) /\ Shape[ParentOf(u)] = "record"
           /\ TagOf[u] \in KidsOf(ParentOf(u))
           /\ Shape[TagOf[u]] = "enum" /\ TagOf[u] \in Leaf
<1>1. PICK r \in Node : /\ Shape[r] = "record" /\ {u, TagOf[u]} \subseteq KidsOf(r)
                        /\ Shape[TagOf[u]] = "enum"
  BY TagAssumption
<1>2. u \in KidsOf(r) /\ TagOf[u] \in KidsOf(r)
  BY <1>1
<1>3. TagOf[u] \in Node /\ u # Root /\ TagOf[u] # Root /\ ParentOf(u) = r /\ ParentOf(TagOf[u]) = r
  BY <1>2, KidFacts
<1>4. TagOf[u] \in Leaf
  <2>1. KidsOf(TagOf[u]) = {}
    BY <1>1, <1>3, TreeAssumption
  <2>2. QED
    BY <1>3, <2>1, LeafFacts
<1>5. QED
  BY <1>1, <1>2, <1>3, <1>4

-----------------------------------------------------------------------------
(* Recursion and induction from the root downwards *)

LEMMA MinimalNat ==
    ASSUME NEW T, T \subseteq Nat, T # {}
    PROVE  \E x \in T : \A y \in T : ~(y < x)
<1> DEFINE R == OpToRel(<, Nat)
<1>1. IsWellFoundedOn(R, Nat)
  BY NatLessThanWellFounded
<1>2. \A x, y \in Nat : x < y => <<x, y>> \in R
  BY DEF OpToRel
<1> HIDE DEF R
<1>3. PICK x \in T : \A y \in T : ~(<<y, x>> \in R)
  BY <1>1, WFMin
<1>4. QED
  BY <1>2, <1>3, Zenon

\* A set of naturals that is not empty has a least element.
LEMMA LeastNat ==
    ASSUME NEW T, T \subseteq Nat, T # {}
    PROVE  \E x \in T : \A y \in T : x <= y
<1>1. PICK x \in T : \A y \in T : ~(y < x)
  BY MinimalNat
<1>2. \A y \in T : x <= y
  BY <1>1
<1>3. QED
  BY <1>2

\* What holds of the root and of every kid of a node it holds of.
LEMMA TreeInduction ==
    ASSUME NEW T \in SUBSET Node, Root \in T,
           \A c \in Node : c # Root /\ ParentOf(c) \in T => c \in T
    PROVE  T = Node
<1>1. SUFFICES ASSUME Node \ T # {} PROVE FALSE
  OBVIOUS
<1> DEFINE U == Node \ T
<1>2. U \subseteq Nat
  BY TreeAssumption
<1>3. PICK c \in U : \A d \in U : c <= d
  BY <1>1, <1>2, LeastNat
<1>4. c \in Node /\ c # Root /\ c \notin T
  OBVIOUS
<1>5. ParentOf(c) \in Node /\ ParentOf(c) \in Nat /\ c \in Nat /\ ParentOf(c) < c
  BY <1>4, ParentFacts
<1>6. ParentOf(c) \notin U
  <2>1. SUFFICES ASSUME ParentOf(c) \in U PROVE FALSE
    OBVIOUS
  <2>2. c <= ParentOf(c)
    BY <1>3, <2>1
  <2>3. QED
    BY <1>5, <2>2
<1>7. QED
  BY <1>4, <1>5, <1>6

\* g is b at the root, and H of its value at the parent elsewhere.
Descends(g, S, b, H) ==
    /\ g \in [Node -> S]
    /\ g[Root] = b
    /\ \A n \in Node : n # Root => g[n] = H[<<n, g[ParentOf(n)]>>]

LEMMA TreeRecursion ==
    ASSUME NEW S, NEW b \in S, NEW H \in [Node \X S -> S]
    PROVE  \E g : Descends(g, S, b, H)
<1>1. PICK last \in Node : \A n \in Node : n <= last
  BY TreeAssumption
<1> DEFINE Upto(m, g) == \A n \in Node : n # Root /\ n < m => g[n] = H[<<n, g[ParentOf(n)]>>]
           Good(m) == \E g \in [Node -> S] : g[Root] = b /\ Upto(m, g)
           Bad == {m \in Nat : ~Good(m)}
<1>2. Good(0)
  <2> DEFINE g == [n \in Node |-> b]
  <2>1. g \in [Node -> S] /\ g[Root] = b
    BY TreeAssumption
  <2>2. Upto(0, g)
    BY TreeAssumption
  <2> HIDE DEF g, Upto
  <2>3. QED
    BY <2>1, <2>2
<1>3. ASSUME NEW m \in Nat, Good(m) PROVE Good(m + 1)
  <2>1. PICK g \in [Node -> S] : g[Root] = b /\ Upto(m, g)
    BY <1>3
  <2>2. CASE m \notin Node \/ m = Root
    <3>1. Upto(m + 1, g)
      <4>1. ASSUME NEW n \in Node, n # Root, n < m + 1 PROVE n < m
        <5>1. n \in Nat /\ n # m
          BY <2>2, <4>1, TreeAssumption
        <5>2. QED
          BY <4>1, <5>1
      <4>2. QED
        BY <2>1, <4>1
    <3> HIDE DEF Upto
    <3>2. QED
      BY <2>1, <3>1
  <2>3. CASE m \in Node /\ m # Root
    <3> DEFINE h == [g EXCEPT ![m] = H[<<m, g[ParentOf(m)]>>]]
    <3>1. ParentOf(m) \in Node
      BY <2>3, ParentFacts
    <3>2. h \in [Node -> S]
      BY <2>3, <3>1
    <3>3. h[Root] = b
      BY <2>1, <2>3, TreeAssumption
    <3>4. ASSUME NEW n \in Node, n # Root, n < m + 1
          PROVE  h[n] = H[<<n, h[ParentOf(n)]>>]
      <4>1. ParentOf(n) \in Node /\ ParentOf(n) \in Nat /\ n \in Nat /\ ParentOf(n) < n
        BY <3>4, ParentFacts
      <4>2. ParentOf(n) # m
        BY <3>4, <4>1
      <4>3. h[ParentOf(n)] = g[ParentOf(n)]
        BY <4>1, <4>2
      <4>4. CASE n = m
        BY <2>3, <4>3, <4>4
      <4>5. CASE n # m
        <5>1. n < m /\ h[n] = g[n]
          BY <3>4, <4>1, <4>5
        <5>2. QED
          BY <2>1, <3>4, <4>3, <5>1
      <4>6. QED
        BY <4>4, <4>5
    <3> HIDE DEF h
    <3>5. Upto(m + 1, h)
      BY <3>4
    <3> HIDE DEF Upto
    <3>6. QED
      BY <3>2, <3>3, <3>5
  <2>4. QED
    BY <2>2, <2>3
<1> HIDE DEF Good
<1>4. Bad = {}
  <2>1. SUFFICES ASSUME Bad # {} PROVE FALSE
    OBVIOUS
  <2>2. Bad \subseteq Nat
    OBVIOUS
  <2> HIDE DEF Bad
  <2>3. PICK m \in Bad : \A k \in Bad : m <= k
    BY <2>1, <2>2, LeastNat
  <2>4. m \in Nat /\ ~Good(m) /\ m # 0
    BY <1>2 DEF Bad
  <2>5. m - 1 \in Nat /\ ~(m <= m - 1) /\ (m - 1) + 1 = m
    BY <2>4
  <2>6. Good(m - 1)
    BY <2>3, <2>5 DEF Bad
  <2>7. QED
    BY <1>3, <2>4, <2>5, <2>6
<1>5. Good(last + 1)
  <2>1. last + 1 \in Nat
    BY TreeAssumption
  <2>2. QED
    BY <1>4, <2>1
<1>6. PICK g \in [Node -> S] : g[Root] = b /\ Upto(last + 1, g)
  BY <1>5 DEF Good
<1>7. \A n \in Node : n < last + 1
  BY <1>1, TreeAssumption
<1>8. Descends(g, S, b, H)
  BY <1>6, <1>7 DEF Descends
<1>9. QED
  BY <1>8

-----------------------------------------------------------------------------
(* The recursive definitions of the model *)

Segment ==
    {Field(n) : n \in Node} \cup {Variant(n) : n \in Node} \cup {Index(i) : i \in Nat}

LEMMA StepType == ASSUME NEW n \in Node, n # Root PROVE Step(n) \in Seq(Segment)
<1> DEFINE p == ParentOf(n)
           T == {k \in KidsOf(p) : k < n}
<1>1. p \in Node /\ n \in KidsOf(p) /\ Shape[p] \in {"record", "array", "option", "union"}
  BY ParentFacts, KidFacts
<1>2. Cardinality(T) \in Nat
  <2>1. \A k \in T : k \in Nat /\ k < n
    BY <1>1, KidFacts
  <2>2. n \in Nat
    BY TreeAssumption
  <2> HIDE DEF T
  <2>3. T \subseteq 0 .. n
    BY <2>1, <2>2
  <2>4. IsFiniteSet(0 .. n)
    BY <2>2, FS_Interval
  <2>5. IsFiniteSet(T)
    BY <2>3, <2>4, FS_Subset
  <2>6. QED
    BY <2>5, FS_CardinalityType
<1>3. Field(n) \in Segment /\ Variant(n) \in Segment /\ Index(Cardinality(T)) \in Segment
  BY <1>2 DEF Segment
<1>4. /\ Shape[p] = "record" => Step(n) = <<Field(n)>>
      /\ Shape[p] = "array" => Step(n) = <<Index(Cardinality(T))>>
      /\ Shape[p] = "union" => Step(n) = <<Variant(n)>>
      /\ Shape[p] = "option" => Step(n) = <<>>
  BY DEF Step
<1>5. ASSUME NEW x \in Segment PROVE <<x>> \in Seq(Segment)
  OBVIOUS
<1>6. <<>> \in Seq(Segment)
  OBVIOUS
<1> HIDE DEF p, T
<1>7. CASE Shape[p] = "record"
  BY <1>3, <1>4, <1>5, <1>7
<1>8. CASE Shape[p] = "array"
  BY <1>3, <1>4, <1>5, <1>8
<1>9. CASE Shape[p] = "union"
  BY <1>3, <1>4, <1>5, <1>9
<1>10. CASE Shape[p] = "option"
  BY <1>4, <1>6, <1>10
<1>11. QED
  BY <1>1, <1>7, <1>8, <1>9, <1>10

\* The path to a node extends the path to its parent.
LEMMA PathDef ==
    /\ PathTo(Root) = <<>>
    /\ \A n \in Node : PathTo(n) \in Seq(Segment)
    /\ \A n \in Node : n # Root => PathTo(n) = PathTo(ParentOf(n)) \o Step(n)
<1> DEFINE S == Seq(Segment)
           F(g) == [n \in Node |-> IF n = Root THEN <<>> ELSE g[ParentOf(n)] \o Step(n)]
           path == CHOOSE g : g = F(g)
           H == [x \in Node \X S |-> IF x[1] = Root THEN <<>> ELSE x[2] \o Step(x[1])]
<1>1. \A c : PathTo(c) = path[c]
  BY DEF PathTo
<1>2. H \in [Node \X S -> S]
  <2>1. ASSUME NEW x \in Node \X S
        PROVE  (IF x[1] = Root THEN <<>> ELSE x[2] \o Step(x[1])) \in S
    <3>1. x[1] \in Node /\ x[2] \in Seq(Segment)
      OBVIOUS
    <3>2. CASE x[1] = Root
      BY <3>2
    <3>3. CASE x[1] # Root
      BY <3>1, <3>3, StepType
    <3>4. QED
      BY <3>2, <3>3
  <2>2. QED
    BY <2>1
<1>3. \A n \in Node, v \in S : n # Root => H[<<n, v>>] = v \o Step(n)
  OBVIOUS
<1>4. <<>> \in S
  OBVIOUS
<1> HIDE DEF H, S
<1>5. PICK g : Descends(g, S, <<>>, H)
  BY <1>2, <1>4, TreeRecursion
<1>6. /\ g \in [Node -> S] /\ g[Root] = <<>>
      /\ \A n \in Node : n # Root => g[n] = g[ParentOf(n)] \o Step(n)
  <2>1. g \in [Node -> S] /\ g[Root] = <<>>
    BY <1>5 DEF Descends
  <2>2. ASSUME NEW n \in Node, n # Root PROVE g[n] = g[ParentOf(n)] \o Step(n)
    <3>1. g[n] = H[<<n, g[ParentOf(n)]>>]
      BY <1>5, <2>2 DEF Descends
    <3>2. g[ParentOf(n)] \in S
      BY <2>1, <2>2, ParentFacts
    <3>3. QED
      BY <1>3, <2>2, <3>1, <3>2
  <2>3. QED
    BY <2>1, <2>2
<1>7. g = F(g)
  BY <1>6, TreeAssumption
<1> HIDE DEF F
<1>8. path = F(path)
  BY <1>7
<1>9. /\ DOMAIN path = Node /\ path[Root] = <<>>
      /\ \A n \in Node : n # Root => path[n] = path[ParentOf(n)] \o Step(n)
  <2> HIDE DEF path
  <2>1. QED
    BY <1>8, TreeAssumption, Zenon DEF F
<1> HIDE DEF path
<1>10. \A n \in Node : path[n] \in S
  <2> DEFINE T == {n \in Node : path[n] \in S}
  <2>1. Root \in T
    BY <1>4, <1>9, TreeAssumption
  <2>2. ASSUME NEW c \in Node, c # Root, ParentOf(c) \in T PROVE c \in T
    <3>1. Step(c) \in S /\ path[ParentOf(c)] \in S
      BY <2>2, StepType DEF S
    <3>2. path[c] = path[ParentOf(c)] \o Step(c)
      BY <1>9, <2>2
    <3>3. path[c] \in S
      BY <3>1, <3>2, ConcatProperties DEF S
    <3>4. QED
      BY <3>3
  <2>3. T \in SUBSET Node
    OBVIOUS
  <2> HIDE DEF T
  <2>4. T = Node
    BY <2>1, <2>2, <2>3, TreeInduction
  <2>5. QED
    BY <2>4 DEF T
<1>11. QED
  BY <1>1, <1>9, <1>10 DEF S

\* Chosen and Reached for a given selection.
ChosenBy(t, n) ==
    LET p == ParentOf(n)
    IN /\ Shape[p] = "option" => t[p] = 1
       /\ Shape[p] = "union" => Kids[p][t[p]] = n

ReachedBy(t, c) ==
    LET reached[n \in Node] == n = Root \/ (reached[ParentOf(n)] /\ ChosenBy(t, n))
    IN reached[c]

LEMMA ReachedIs == \A c : Reached(c) = ReachedBy(taken, c)
  BY DEF Reached, ReachedBy, Chosen, ChosenBy

LEMMA ReachedDef ==
    ASSUME NEW t
    PROVE  /\ ReachedBy(t, Root)
           /\ \A n \in Node : n # Root =>
                 (ReachedBy(t, n) <=> ReachedBy(t, ParentOf(n)) /\ ChosenBy(t, n))
<1> DEFINE F(g) == [n \in Node |-> n = Root \/ (g[ParentOf(n)] /\ ChosenBy(t, n))]
           reached == CHOOSE g : g = F(g)
           H == [x \in Node \X BOOLEAN |-> x[1] = Root \/ (x[2] /\ ChosenBy(t, x[1]))]
<1>1. \A c : ReachedBy(t, c) = reached[c]
  BY DEF ReachedBy
<1>2. H \in [Node \X BOOLEAN -> BOOLEAN]
  OBVIOUS
<1>3. \A n \in Node, v \in BOOLEAN : H[<<n, v>>] = (n = Root \/ (v /\ ChosenBy(t, n)))
  OBVIOUS
<1> HIDE DEF H
<1>4. PICK g : Descends(g, BOOLEAN, TRUE, H)
  BY <1>2, TreeRecursion
<1>5. /\ g \in [Node -> BOOLEAN] /\ g[Root] = TRUE
      /\ \A n \in Node : n # Root => g[n] = (g[ParentOf(n)] /\ ChosenBy(t, n))
  <2>1. g \in [Node -> BOOLEAN] /\ g[Root] = TRUE
    BY <1>4 DEF Descends
  <2>2. ASSUME NEW n \in Node, n # Root PROVE g[n] = (g[ParentOf(n)] /\ ChosenBy(t, n))
    <3>1. g[n] = H[<<n, g[ParentOf(n)]>>]
      BY <1>4, <2>2 DEF Descends
    <3>2. g[ParentOf(n)] \in BOOLEAN
      BY <2>1, <2>2, ParentFacts
    <3>3. QED
      BY <1>3, <2>2, <3>1, <3>2
  <2>3. QED
    BY <2>1, <2>2
<1>6. g = F(g)
  <2>1. \A n \in Node : g[n] = (n = Root \/ (g[ParentOf(n)] /\ ChosenBy(t, n)))
    BY <1>5
  <2>2. QED
    BY <1>5, <2>1
<1> HIDE DEF F
<1>7. reached = F(reached)
  BY <1>6
<1> HIDE DEF reached
<1>8. /\ reached[Root]
      /\ \A n \in Node : n # Root => (reached[n] <=> reached[ParentOf(n)] /\ ChosenBy(t, n))
  BY <1>7, TreeAssumption, Zenon DEF F
<1>9. QED
  BY <1>1, <1>8

\* The nodes from the root to c.
LineOf(c) ==
    LET line[n \in Node] == IF n = Root THEN {Root} ELSE line[ParentOf(n)] \cup {n}
    IN line[c]

LEMMA LineDef ==
    /\ LineOf(Root) = {Root}
    /\ \A n \in Node : n # Root => LineOf(n) = LineOf(ParentOf(n)) \cup {n}
<1> DEFINE S == SUBSET Node
           F(g) == [n \in Node |-> IF n = Root THEN {Root} ELSE g[ParentOf(n)] \cup {n}]
           line == CHOOSE g : g = F(g)
           H == [x \in Node \X S |-> x[2] \cup {x[1]}]
<1>1. \A c : LineOf(c) = line[c]
  BY DEF LineOf
<1>2. H \in [Node \X S -> S]
  OBVIOUS
<1>3. \A n \in Node, v \in S : H[<<n, v>>] = v \cup {n}
  OBVIOUS
<1>4. {Root} \in S
  BY TreeAssumption
<1> HIDE DEF H, S
<1>5. PICK g : Descends(g, S, {Root}, H)
  BY <1>2, <1>4, TreeRecursion
<1>6. /\ g \in [Node -> S] /\ g[Root] = {Root}
      /\ \A n \in Node : n # Root => g[n] = g[ParentOf(n)] \cup {n}
  <2>1. g \in [Node -> S] /\ g[Root] = {Root}
    BY <1>5 DEF Descends
  <2>2. ASSUME NEW n \in Node, n # Root PROVE g[n] = g[ParentOf(n)] \cup {n}
    <3>1. g[n] = H[<<n, g[ParentOf(n)]>>]
      BY <1>5, <2>2 DEF Descends
    <3>2. g[ParentOf(n)] \in S
      BY <2>1, <2>2, ParentFacts
    <3>3. QED
      BY <1>3, <2>2, <3>1, <3>2
  <2>3. QED
    BY <2>1, <2>2
<1>7. g = F(g)
  BY <1>6, TreeAssumption
<1> HIDE DEF F
<1>8. line = F(line)
  BY <1>7
<1> HIDE DEF line
<1>9. /\ line[Root] = {Root}
      /\ \A n \in Node : n # Root => line[n] = line[ParentOf(n)] \cup {n}
  BY <1>8, TreeAssumption, Zenon DEF F
<1>10. QED
  BY <1>1, <1>9

-----------------------------------------------------------------------------
(* Lines *)

LEMMA LineFacts ==
    ASSUME NEW p \in Node
    PROVE  /\ LineOf(p) \subseteq Node /\ p \in LineOf(p) /\ Root \in LineOf(p)
           /\ \A k \in LineOf(p) : k <= p
<1> DEFINE Good(q) == /\ LineOf(q) \subseteq Node /\ q \in LineOf(q) /\ Root \in LineOf(q)
                      /\ \A k \in LineOf(q) : k <= q
           T == {q \in Node : Good(q)}
<1>1. Root \in T
  BY LineDef, TreeAssumption
<1>2. ASSUME NEW c \in Node, c # Root, ParentOf(c) \in T PROVE c \in T
  <2> DEFINE a == ParentOf(c)
  <2>1. LineOf(c) = LineOf(a) \cup {c}
    BY <1>2, LineDef
  <2>2. a \in Node /\ a \in Nat /\ c \in Nat /\ a < c
    BY <1>2, ParentFacts
  <2>3. LineOf(a) \subseteq Node /\ Root \in LineOf(a) /\ \A k \in LineOf(a) : k <= a
    BY <1>2
  <2>4. Node \subseteq Nat
    BY TreeAssumption
  <2> HIDE DEF a
  <2>5. ASSUME NEW k \in LineOf(a) PROVE k <= c
    <3>1. k \in Nat /\ k <= a
      BY <2>3, <2>4
    <3>2. QED
      BY <2>2, <3>1
  <2>6. QED
    BY <1>2, <2>1, <2>2, <2>3, <2>5
<1>3. T \in SUBSET Node
  OBVIOUS
<1> HIDE DEF T
<1>4. T = Node
  BY <1>1, <1>2, <1>3, TreeInduction
<1>5. QED
  BY <1>4 DEF T

LEMMA LineDown ==
    ASSUME NEW p \in Node, NEW m \in LineOf(p), m # p
    PROVE  \E k \in KidsOf(m) : k \in LineOf(p)
<1> DEFINE Good(q) == \A x \in LineOf(q) : x # q => \E k \in KidsOf(x) : k \in LineOf(q)
           T == {q \in Node : Good(q)}
<1>1. Root \in T
  BY LineDef, TreeAssumption
<1>2. ASSUME NEW c \in Node, c # Root, ParentOf(c) \in T PROVE c \in T
  <2> DEFINE a == ParentOf(c)
  <2>1. LineOf(c) = LineOf(a) \cup {c}
    BY <1>2, LineDef
  <2>2. c \in KidsOf(a)
    BY <1>2, ParentFacts
  <2>3. ASSUME NEW x \in LineOf(c), x # c PROVE \E k \in KidsOf(x) : k \in LineOf(c)
    <3>1. x \in LineOf(a)
      BY <2>1, <2>3
    <3>2. CASE x = a
      BY <2>1, <2>2, <3>2
    <3>3. CASE x # a
      <4>1. \E k \in KidsOf(x) : k \in LineOf(a)
        BY <1>2, <3>1, <3>3
      <4>2. QED
        BY <2>1, <4>1
    <3>4. QED
      BY <3>2, <3>3
  <2>4. QED
    BY <2>3
<1>3. T \in SUBSET Node
  OBVIOUS
<1> HIDE DEF T
<1>4. T = Node
  BY <1>1, <1>2, <1>3, TreeInduction
<1>5. QED
  BY <1>4 DEF T

\* What is above a reached node is reached.
LEMMA LineReached ==
    ASSUME NEW t, NEW p \in Node, ReachedBy(t, p), NEW k \in LineOf(p)
    PROVE  ReachedBy(t, k)
<1> DEFINE Good(q) == ReachedBy(t, q) => \A x \in LineOf(q) : ReachedBy(t, x)
           T == {q \in Node : Good(q)}
<1>1. Root \in T
  BY LineDef, TreeAssumption
<1>2. ASSUME NEW c \in Node, c # Root, ParentOf(c) \in T PROVE c \in T
  <2>1. LineOf(c) = LineOf(ParentOf(c)) \cup {c}
    BY <1>2, LineDef
  <2>2. ReachedBy(t, c) => ReachedBy(t, ParentOf(c))
    BY <1>2, ReachedDef
  <2>3. QED
    BY <1>2, <2>1, <2>2
<1>3. T \in SUBSET Node
  OBVIOUS
<1> HIDE DEF T
<1>4. T = Node
  BY <1>1, <1>2, <1>3, TreeInduction
<1>5. QED
  BY <1>4 DEF T

\* What a kid holds comes before the next kid.
LEMMA Preorder ==
    ASSUME NEW m \in Node, NEW k \in KidsOf(m), NEW next \in KidsOf(m), k < next,
           NEW p \in Node, k \in LineOf(p)
    PROVE  p < next
<1> DEFINE T == {q \in Node : k \in LineOf(q) => q < next}
<1>1. /\ k # Root /\ m < k /\ ParentOf(next) = m /\ next \in Node
      /\ m \in Nat /\ k \in Nat /\ next \in Nat
  BY KidFacts
<1>2. Root \in T
  BY <1>1, LineDef, TreeAssumption
<1>3. ASSUME NEW c \in Node, c # Root, ParentOf(c) \in T PROVE c \in T
  <2> DEFINE a == ParentOf(c)
  <2>1. SUFFICES ASSUME k \in LineOf(c) PROVE c < next
    BY <1>3
  <2>2. LineOf(c) = LineOf(a) \cup {c}
    BY <1>3, LineDef
  <2>3. a \in Node /\ c \in KidsOf(a) /\ a \in Nat /\ c \in Nat /\ a < c
    BY <1>3, ParentFacts
  <2>4. CASE c = k
    BY <2>4
  <2>5. CASE c # k
    <3>1. k \in LineOf(a) /\ a < next
      BY <1>3, <2>1, <2>2, <2>5
    <3>2. k <= a
      BY <2>3, <3>1, LineFacts
    <3>3. c # next
      <4>1. SUFFICES ASSUME c = next PROVE FALSE
        OBVIOUS
      <4>2. a = m
        BY <1>1, <4>1
      <4> HIDE DEF a
      <4>3. QED
        BY <1>1, <3>2, <4>2
    <3>4. ~(next < c)
      <4>1. SUFFICES ASSUME next < c PROVE FALSE
        OBVIOUS
      <4>2. a <= m
        BY <1>1, <2>3, <3>1, <4>1, OrderAssumption
      <4> HIDE DEF a
      <4>3. QED
        BY <1>1, <2>3, <3>2, <4>2
    <3> HIDE DEF a
    <3>5. QED
      BY <1>1, <2>3, <3>3, <3>4
  <2>6. QED
    BY <2>4, <2>5
<1>4. T \in SUBSET Node
  OBVIOUS
<1> HIDE DEF T
<1>5. T = Node
  BY <1>2, <1>3, <1>4, TreeInduction
<1>6. QED
  BY <1>5 DEF T

-----------------------------------------------------------------------------
(* What a check comes to *)

\* Visits for a given selection.
VisitsBy(t, n) ==
    CASE Shape[n] = "option" -> IF t[n] = 1 THEN Kids[n] ELSE <<>>
      [] Shape[n] = "union" -> <<Kids[n][t[n]]>>
      [] OTHER -> Kids[n]

LEMMA VisitsIs == \A n : Visits(n) = VisitsBy(taken, n)
  BY DEF Visits, VisitsBy

PicksOk(t) == \A u \in Node : Shape[u] = "union" => t[u] \in DOMAIN Kids[u]

Increasing(s) == \A i, j \in DOMAIN s : i < j => s[i] < s[j]

\* A check comes to the chosen kids, in order.
LEMMA VisitFacts ==
    ASSUME NEW t, PicksOk(t), NEW n \in Node
    PROVE  /\ VisitsBy(t, n) \in Seq(Node)
           /\ Increasing(VisitsBy(t, n))
           /\ Shape[n] = "array" => VisitsBy(t, n) = Kids[n]
           /\ \A j \in 1 .. Len(VisitsBy(t, n)) :
                 VisitsBy(t, n)[j] \in KidsOf(n) /\ ChosenBy(t, VisitsBy(t, n)[j])
           /\ \A k \in KidsOf(n) : ChosenBy(t, k) =>
                 \E j \in 1 .. Len(VisitsBy(t, n)) : VisitsBy(t, n)[j] = k
<1> DEFINE s == Kids[n]
           v == VisitsBy(t, n)
<1>1. s \in Seq(Node) /\ Increasing(s)
  BY TreeAssumption, OrderAssumption DEF Increasing
<1>2. KidsOf(n) = {s[j] : j \in 1 .. Len(s)}
  BY <1>1 DEF KidsOf
<1>3. \A k \in KidsOf(n) : ParentOf(k) = n
  BY KidFacts
<1>4. /\ Shape[n] = "option" /\ t[n] = 1 => v = s
      /\ Shape[n] = "option" /\ t[n] # 1 => v = <<>>
      /\ Shape[n] = "union" => v = <<s[t[n]]>>
      /\ Shape[n] # "option" /\ Shape[n] # "union" => v = s
  BY DEF VisitsBy
<1>5. \A k \in KidsOf(n) : ChosenBy(t, k) <=>
         (Shape[n] = "option" => t[n] = 1) /\ (Shape[n] = "union" => s[t[n]] = k)
  BY <1>3 DEF ChosenBy
<1>6. Shape[n] = "union" => t[n] \in 1 .. Len(s)
  BY <1>1 DEF PicksOk
<1>7. \A j \in 1 .. Len(s) : s[j] \in KidsOf(n)
  BY <1>2
<1> HIDE DEF s, v
<1>8. CASE v = s /\ Shape[n] # "union" /\ (Shape[n] = "option" => t[n] = 1)
  <2>1. \A k \in KidsOf(n) : ChosenBy(t, k)
    BY <1>5, <1>8
  <2>2. \A k \in KidsOf(n) : \E j \in 1 .. Len(s) : s[j] = k
    BY <1>2
  <2>3. v \in Seq(Node) /\ Increasing(v) /\ (Shape[n] = "array" => v = Kids[n])
    BY <1>1, <1>8 DEF s
  <2>4. \A j \in 1 .. Len(v) : v[j] \in KidsOf(n) /\ ChosenBy(t, v[j])
    BY <1>7, <1>8, <2>1
  <2>5. \A k \in KidsOf(n) : ChosenBy(t, k) => \E j \in 1 .. Len(v) : v[j] = k
    BY <1>8, <2>2
  <2>6. QED
    BY <2>3, <2>4, <2>5 DEF v
<1>9. CASE Shape[n] = "option" /\ t[n] # 1
  <2>1. v = <<>> /\ v \in Seq(Node) /\ 1 .. Len(v) = {} /\ DOMAIN v = {}
    <3>1. v = <<>> /\ Len(<<>>) = 0 /\ DOMAIN <<>> = 1 .. 0 /\ <<>> \in Seq(Node)
      BY <1>4, <1>9
    <3>2. 1 .. 0 = {}
      OBVIOUS
    <3>3. QED
      BY <3>1, <3>2
  <2>2. \A k \in KidsOf(n) : ~ChosenBy(t, k)
    BY <1>5, <1>9
  <2>3. QED
    BY <1>9, <2>1, <2>2 DEF v, Increasing
<1>10. CASE Shape[n] = "union"
  <2> DEFINE x == s[t[n]]
  <2>1. x \in KidsOf(n) /\ x \in Node
    BY <1>6, <1>7, <1>10, KidFacts
  <2>2. v = <<x>>
    BY <1>4, <1>10
  <2> HIDE DEF x
  <2>3. v \in Seq(Node) /\ 1 .. Len(v) = {1} /\ v[1] = x /\ DOMAIN v = {1}
    BY <2>1, <2>2
  <2>4. \A k \in KidsOf(n) : ChosenBy(t, k) <=> k = x
    BY <1>5, <1>10 DEF x
  <2>5. QED
    BY <1>10, <2>1, <2>3, <2>4 DEF v, Increasing
<1>11. QED
  BY <1>4, <1>8, <1>9, <1>10

\* The next node on the line to a reached one is visited.
LEMMA VisitOnLine ==
    ASSUME NEW t, PicksOk(t), NEW p \in Node, ReachedBy(t, p), NEW n \in LineOf(p), n # p
    PROVE  \E j \in 1 .. Len(VisitsBy(t, n)) : VisitsBy(t, n)[j] \in LineOf(p)
<1>1. n \in Node
  BY LineFacts
<1>2. PICK k \in KidsOf(n) : k \in LineOf(p)
  BY LineDown
<1>3. ReachedBy(t, k)
  BY <1>2, LineReached
<1>4. k \in Node /\ k # Root
  BY <1>1, KidFacts
<1>5. ChosenBy(t, k)
  BY <1>3, <1>4, ReachedDef
<1>6. \E j \in 1 .. Len(VisitsBy(t, n)) : VisitsBy(t, n)[j] = k
  BY <1>1, <1>5, VisitFacts
<1>7. QED
  BY <1>2, <1>6

\* A visited kid of a reached node is reached.
LEMMA VisitReached ==
    ASSUME NEW t, PicksOk(t), NEW n \in Node, ReachedBy(t, n),
           NEW j \in 1 .. Len(VisitsBy(t, n))
    PROVE  /\ VisitsBy(t, n)[j] \in Node /\ VisitsBy(t, n)[j] \in KidsOf(n)
           /\ ReachedBy(t, VisitsBy(t, n)[j])
<1> DEFINE k == VisitsBy(t, n)[j]
<1>1. k \in KidsOf(n) /\ ChosenBy(t, k)
  BY VisitFacts
<1> HIDE DEF k
<1>2. k \in Node /\ k # Root /\ ParentOf(k) = n
  BY <1>1, KidFacts
<1>3. ReachedBy(t, k)
  BY <1>1, <1>2, ReachedDef
<1>4. QED
  BY <1>1, <1>2, <1>3 DEF k

-----------------------------------------------------------------------------
(* Faulty places *)

InputOk(m, f, t) ==
    /\ m \in {"access", "preflight"}
    /\ DOMAIN f \subseteq Node
    /\ \A n \in DOMAIN f : f[n] \in Faults(m, n)
    /\ \A u \in DOMAIN f : Shape[u] = "union" => TagOf[u] \notin DOMAIN f
    /\ PicksOk(t)

\* Live for a given input.
LiveIn(m, t, c) == ReachedBy(t, c) /\ ~(m = "preflight" /\ c \in Tags)

CulpritsIn(m, f, t) == {c \in DOMAIN f : LiveIn(m, t, c)}

\* The check of p is the one that reports a fault of c.
Meets(m, f, p, c) ==
    c \in DOMAIN f /\ (p = c \/ (m = "access" /\ Shape[p] = "union" /\ TagOf[p] = c))

\* The check of p fails.
Broken(m, f, t, p) == p \in Node /\ LiveIn(m, t, p) /\ \E c : Meets(m, f, p, c)

\* No check of p or below it fails.
Clean(m, f, t, k) == \A p \in Node : Broken(m, f, t, p) => k \notin LineOf(p)

LEMMA CleanAll ==
    ASSUME NEW m, NEW f, NEW t, InputOk(m, f, t), Clean(m, f, t, Root)
    PROVE  CulpritsIn(m, f, t) = {}
<1>1. SUFFICES ASSUME NEW c \in CulpritsIn(m, f, t) PROVE FALSE
  OBVIOUS
<1>2. c \in Node /\ c \in DOMAIN f /\ LiveIn(m, t, c)
  BY DEF CulpritsIn, InputOk
<1>3. Broken(m, f, t, c)
  BY <1>2 DEF Broken, Meets
<1>4. QED
  BY <1>2, <1>3, LineFacts DEF Clean

\* A node whose own check passes is clean when what it visits is.
LEMMA CleanNode ==
    ASSUME NEW m, NEW f, NEW t, InputOk(m, f, t), NEW n \in Node,
           ~Broken(m, f, t, n),
           \A j \in 1 .. Len(VisitsBy(t, n)) : Clean(m, f, t, VisitsBy(t, n)[j])
    PROVE  Clean(m, f, t, n)
<1>1. SUFFICES ASSUME NEW p \in Node, Broken(m, f, t, p), n \in LineOf(p) PROVE FALSE
  BY DEF Clean
<1>2. PicksOk(t) /\ ReachedBy(t, p) /\ n # p
  BY <1>1 DEF Broken, LiveIn, InputOk
<1>3. PICK j \in 1 .. Len(VisitsBy(t, n)) : VisitsBy(t, n)[j] \in LineOf(p)
  BY <1>1, <1>2, VisitOnLine
<1>4. QED
  BY <1>1, <1>3 DEF Clean

LEMMA CleanLeaf ==
    ASSUME NEW m, NEW f, NEW t, InputOk(m, f, t), NEW n \in Leaf, ~Broken(m, f, t, n)
    PROVE  Clean(m, f, t, n)
<1>1. SUFFICES ASSUME NEW p \in Node, Broken(m, f, t, p), n \in LineOf(p) PROVE FALSE
  BY DEF Clean
<1>2. n \in Node /\ n # p /\ KidsOf(n) = {}
  BY <1>1, LeafFacts DEF Leaf
<1>3. QED
  BY <1>1, <1>2, LineDown

-----------------------------------------------------------------------------
(* The walk *)

\* The nodes being checked, each a visited kid of the one before.
StackOk(t, s) ==
    /\ s \in Seq([node : Node, done : Nat])
    /\ s # <<>> => s[1].node = Root
    /\ \A i \in 1 .. Len(s) :
          s[i].done <= Len(VisitsBy(t, s[i].node)) /\ ReachedBy(t, s[i].node)
    /\ \A i \in 1 .. Len(s) : i + 1 \in 1 .. Len(s) =>
          /\ s[i].done < Len(VisitsBy(t, s[i].node))
          /\ s[i + 1].node = VisitsBy(t, s[i].node)[s[i].done + 1]
    /\ \A i, j \in 1 .. Len(s) : i <= j => s[i].node \in LineOf(s[j].node)

\* The checks that are over have all passed.
Walked(m, f, t, s) ==
    /\ s = <<>> => Clean(m, f, t, Root)
    /\ \A i \in 1 .. Len(s) :
          /\ ~Broken(m, f, t, s[i].node)
          /\ \A j \in 1 .. s[i].done : Clean(m, f, t, VisitsBy(t, s[i].node)[j])

LEMMA StackTop ==
    ASSUME NEW t, PicksOk(t), NEW s, StackOk(t, s), s # <<>>
    PROVE  /\ Len(s) \in 1 .. Len(s) /\ Len(s) \in Nat /\ s[Len(s)].node \in Node
           /\ s[Len(s)].done \in Nat /\ ReachedBy(t, s[Len(s)].node)
           /\ s[Len(s)].done <= Len(VisitsBy(t, s[Len(s)].node))
           /\ Len(VisitsBy(t, s[Len(s)].node)) \in Nat
<1> DEFINE E == [node : Node, done : Nat]
<1>1. s \in Seq(E)
  BY DEF StackOk
<1>2. Len(s) \in Nat /\ Len(s) # 0
  BY <1>1, EmptySeq
<1>3. Len(s) \in 1 .. Len(s)
  BY <1>2
<1>4. s[Len(s)] \in E
  <2> HIDE DEF E
  <2>1. QED
    BY <1>1, <1>3, ElementOfSeq
<1>5. s[Len(s)].node \in Node /\ s[Len(s)].done \in Nat
  BY <1>4
<1>6. Len(VisitsBy(t, s[Len(s)].node)) \in Nat
  BY <1>5, VisitFacts
<1>7. QED
  BY <1>2, <1>3, <1>5, <1>6 DEF StackOk

\* One more kid of the innermost node is done.
LEMMA AdvancedIs ==
    ASSUME NEW s \in Seq([node : Node, done : Nat]), s # <<>>
    PROVE  /\ Advanced(s) \in Seq([node : Node, done : Nat])
           /\ Len(Advanced(s)) = Len(s) /\ Advanced(s) # <<>>
           /\ \A i \in 1 .. Len(s) :
                 /\ Advanced(s)[i].node = s[i].node
                 /\ i # Len(s) => Advanced(s)[i].done = s[i].done
                 /\ i = Len(s) => Advanced(s)[i].done = s[i].done + 1
<1> DEFINE E == [node : Node, done : Nat]
           a == Advanced(s)
           top == s[Len(s)]
<1>1. Len(s) \in Nat /\ Len(s) # 0 /\ DOMAIN s = 1 .. Len(s)
  BY EmptySeq
<1>2. Len(s) \in 1 .. Len(s)
  BY <1>1
<1>3. top \in E
  <2> HIDE DEF E
  <2>1. s \in Seq(E)
    BY DEF E
  <2>2. QED
    BY <1>2, <2>1, ElementOfSeq
<1>4. [top EXCEPT !.done = @ + 1] \in E
  BY <1>3
<1>5. a = [s EXCEPT ![Len(s)] = [top EXCEPT !.done = @ + 1]]
  BY DEF Advanced
<1>6. a \in Seq(E) /\ Len(a) = Len(s)
  BY <1>2, <1>4, <1>5
<1>7. \A i \in 1 .. Len(s) : i # Len(s) => a[i] = s[i]
  BY <1>1, <1>5
<1>8. a[Len(s)] = [top EXCEPT !.done = @ + 1]
  BY <1>1, <1>2, <1>5
<1>9. a[Len(s)].node = top.node /\ a[Len(s)].done = top.done + 1
  BY <1>3, <1>8
<1>10. a # <<>>
  BY <1>1, <1>6
<1> HIDE DEF a, top
<1>11. \A i \in 1 .. Len(s) : /\ a[i].node = s[i].node
                              /\ i # Len(s) => a[i].done = s[i].done
                              /\ i = Len(s) => a[i].done = s[i].done + 1
  BY <1>7, <1>9 DEF top
<1>12. QED
  BY <1>6, <1>10, <1>11 DEF a

\* The kid just looked at is clean: the walk goes on with the next one.
LEMMA WalkAdvances ==
    ASSUME NEW m, NEW f, NEW t, InputOk(m, f, t), NEW s, s # <<>>,
           StackOk(t, s), Walked(m, f, t, s),
           s[Len(s)].done < Len(VisitsBy(t, s[Len(s)].node)),
           Clean(m, f, t, VisitsBy(t, s[Len(s)].node)[s[Len(s)].done + 1])
    PROVE  StackOk(t, Advanced(s)) /\ Walked(m, f, t, Advanced(s))
<1> DEFINE a == Advanced(s)
           L == Len(s)
           v == VisitsBy(t, s[L].node)
<1>1. s \in Seq([node : Node, done : Nat]) /\ PicksOk(t)
  BY DEF StackOk, InputOk
<1>2. /\ a \in Seq([node : Node, done : Nat]) /\ Len(a) = L /\ a # <<>>
      /\ \A i \in 1 .. L : /\ a[i].node = s[i].node
                           /\ i # L => a[i].done = s[i].done
                           /\ i = L => a[i].done = s[i].done + 1
  BY <1>1, AdvancedIs
<1>3. L \in 1 .. L /\ L \in Nat /\ s[L].node \in Node /\ s[L].done \in Nat /\ Len(v) \in Nat
  BY <1>1, StackTop
<1>4. s[L].done < Len(v) /\ Clean(m, f, t, v[s[L].done + 1])
  OBVIOUS
<1> HIDE DEF a
<1>5. StackOk(t, a)
  <2>1. a[1].node = Root
    <3>1. 1 \in 1 .. L
      BY <1>3
    <3>2. QED
      BY <1>2, <3>1 DEF StackOk
  <2>2. ASSUME NEW i \in 1 .. L
        PROVE  a[i].done <= Len(VisitsBy(t, a[i].node)) /\ ReachedBy(t, a[i].node)
    <3>1. s[i].done <= Len(VisitsBy(t, s[i].node)) /\ ReachedBy(t, s[i].node)
      BY DEF StackOk
    <3>2. CASE i # L
      BY <1>2, <3>1, <3>2
    <3>3. CASE i = L
      <4>1. a[L].done = s[L].done + 1 /\ a[L].node = s[L].node
        BY <1>2, <1>3
      <4>2. a[L].done <= Len(v)
        BY <1>3, <1>4, <4>1
      <4>3. QED
        BY <3>1, <3>3, <4>1, <4>2
    <3>4. QED
      BY <3>2, <3>3
  <2>3. ASSUME NEW i \in 1 .. L, i + 1 \in 1 .. L
        PROVE  /\ a[i].done < Len(VisitsBy(t, a[i].node))
               /\ a[i + 1].node = VisitsBy(t, a[i].node)[a[i].done + 1]
    <3>1. i # L
      BY <1>3, <2>3
    <3>2. QED
      BY <1>2, <2>3, <3>1 DEF StackOk
  <2>4. \A i, j \in 1 .. L : i <= j => a[i].node \in LineOf(a[j].node)
    BY <1>2 DEF StackOk
  <2>5. QED
    BY <1>2, <2>1, <2>2, <2>3, <2>4 DEF StackOk
<1>6. Walked(m, f, t, a)
  <2>1. ASSUME NEW i \in 1 .. L, NEW j \in 1 .. a[i].done
        PROVE  Clean(m, f, t, VisitsBy(t, a[i].node)[j])
    <3>1. a[i].node = s[i].node
      BY <1>2
    <3>2. CASE j \in 1 .. s[i].done
      BY <3>1, <3>2 DEF Walked
    <3>3. CASE j \notin 1 .. s[i].done
      <4>1. i = L
        BY <1>2, <3>3
      <4>2. a[L].done = s[L].done + 1
        BY <1>2, <1>3
      <4>3. j = s[L].done + 1
        BY <1>3, <3>3, <4>1, <4>2
      <4>4. QED
        BY <1>4, <3>1, <4>1, <4>3
    <3>4. QED
      BY <3>2, <3>3
  <2>2. \A i \in 1 .. L : ~Broken(m, f, t, a[i].node)
    BY <1>2 DEF Walked
  <2>3. QED
    BY <1>2, <2>1, <2>2 DEF Walked
<1>7. QED
  BY <1>5, <1>6 DEF a

\* The kid just looked at holds more.
LEMMA WalkDescends ==
    ASSUME NEW m, NEW f, NEW t, InputOk(m, f, t), NEW s, s # <<>>,
           StackOk(t, s), Walked(m, f, t, s),
           s[Len(s)].done < Len(VisitsBy(t, s[Len(s)].node)),
           NEW n, n = VisitsBy(t, s[Len(s)].node)[s[Len(s)].done + 1],
           ~Broken(m, f, t, n)
    PROVE  /\ StackOk(t, Append(s, [node |-> n, done |-> 0]))
           /\ Walked(m, f, t, Append(s, [node |-> n, done |-> 0]))
<1> DEFINE e == [node |-> n, done |-> 0]
           a == Append(s, e)
           L == Len(s)
           v == VisitsBy(t, s[L].node)
           E == [node : Node, done : Nat]
<1>1. s \in Seq(E) /\ PicksOk(t)
  BY DEF StackOk, InputOk
<1>2. /\ L \in 1 .. L /\ L \in Nat /\ s[L].node \in Node /\ s[L].done \in Nat /\ Len(v) \in Nat
      /\ ReachedBy(t, s[L].node)
  BY <1>1, StackTop
<1>3. s[L].done + 1 \in 1 .. Len(v) /\ n = v[s[L].done + 1]
  BY <1>2
<1>4. n \in Node /\ n \in KidsOf(s[L].node) /\ ReachedBy(t, n)
  <2> HIDE DEF L
  <2>1. QED
    BY <1>1, <1>2, <1>3, VisitReached
<1>5. e \in E
  BY <1>4
<1>6. /\ a \in Seq(E) /\ Len(a) = L + 1 /\ a[L + 1] = e
      /\ \A i \in 1 .. L : a[i] = s[i]
  BY <1>1, <1>5
<1>7. e.node = n /\ e.done = 0
  OBVIOUS
<1>8. Len(VisitsBy(t, n)) \in Nat
  BY <1>1, <1>4, VisitFacts
<1>9. \A i \in 1 .. L + 1 : i \in 1 .. L \/ i = L + 1
  BY <1>2
<1>10. LineOf(n) = LineOf(s[L].node) \cup {n}
  BY <1>2, <1>4, KidFacts, LineDef
<1>11. a # <<>>
  BY <1>2, <1>6
<1> HIDE DEF a, e, L, v
<1>12. StackOk(t, a)
  <2>1. a[1].node = Root
    <3>1. 1 \in 1 .. L
      BY <1>2
    <3>2. QED
      BY <1>6, <3>1 DEF StackOk
  <2>2. ASSUME NEW i \in 1 .. L + 1
        PROVE  a[i].done <= Len(VisitsBy(t, a[i].node)) /\ ReachedBy(t, a[i].node)
    <3>1. CASE i \in 1 .. L
      BY <1>6, <3>1 DEF StackOk, L
    <3>2. CASE i = L + 1
      <4>1. a[i].node = n /\ a[i].done = 0
        BY <1>6, <1>7, <3>2
      <4>2. QED
        BY <1>4, <1>8, <4>1
    <3>3. QED
      BY <1>9, <3>1, <3>2
  <2>3. ASSUME NEW i \in 1 .. L + 1, i + 1 \in 1 .. L + 1
        PROVE  /\ a[i].done < Len(VisitsBy(t, a[i].node))
               /\ a[i + 1].node = VisitsBy(t, a[i].node)[a[i].done + 1]
    <3>1. i \in 1 .. L /\ (i = L \/ i + 1 \in 1 .. L)
      BY <1>2, <2>3
    <3>2. a[i] = s[i]
      BY <1>6, <3>1
    <3>3. CASE i = L
      <4>1. a[i + 1].node = n
        BY <1>6, <1>7, <3>3
      <4>2. QED
        BY <1>3, <3>2, <3>3, <4>1 DEF v, L
    <3>4. CASE i + 1 \in 1 .. L
      BY <1>6, <3>1, <3>2, <3>4 DEF StackOk, L
    <3>5. QED
      BY <3>1, <3>3, <3>4
  <2>4. ASSUME NEW i \in 1 .. L + 1, NEW j \in 1 .. L + 1, i <= j
        PROVE  a[i].node \in LineOf(a[j].node)
    <3>1. CASE j \in 1 .. L
      <4>1. i \in 1 .. L
        BY <1>2, <2>4, <3>1
      <4>2. QED
        BY <1>6, <2>4, <3>1, <4>1 DEF StackOk, L
    <3>2. CASE j = L + 1 /\ i \in 1 .. L
      <4>1. i <= L
        BY <1>2, <3>2
      <4>2. s[i].node \in LineOf(s[L].node)
        BY <1>2, <3>2, <4>1 DEF StackOk, L
      <4>3. QED
        BY <1>6, <1>7, <1>10, <3>2, <4>2
    <3>3. CASE j = L + 1 /\ i = L + 1
      BY <1>6, <1>7, <1>10, <3>3
    <3>4. QED
      BY <1>9, <3>1, <3>2, <3>3
  <2>5. QED
    BY <1>6, <2>1, <2>2, <2>3, <2>4 DEF StackOk
<1>13. Walked(m, f, t, a)
  <2>1. ASSUME NEW i \in 1 .. L + 1
        PROVE  /\ ~Broken(m, f, t, a[i].node)
               /\ \A j \in 1 .. a[i].done : Clean(m, f, t, VisitsBy(t, a[i].node)[j])
    <3>1. CASE i \in 1 .. L
      BY <1>6, <3>1 DEF Walked, L
    <3>2. CASE i = L + 1
      <4>1. a[i].node = n /\ a[i].done = 0
        BY <1>6, <1>7, <3>2
      <4>2. 1 .. 0 = {}
        OBVIOUS
      <4>3. QED
        BY <4>1, <4>2
    <3>3. QED
      BY <1>9, <3>1, <3>2
  <2>2. QED
    BY <1>6, <1>11, <2>1 DEF Walked
<1>14. QED
  BY <1>12, <1>13 DEF a, e

LEMMA FrontIs ==
    ASSUME NEW S, NEW s \in Seq(S), NEW l \in Nat, l + 1 = Len(s)
    PROVE  /\ SubSeq(s, 1, l) \in Seq(S) /\ Len(SubSeq(s, 1, l)) = l
           /\ \A i \in 1 .. l : SubSeq(s, 1, l)[i] = s[i]
<1>1. 1 \in 1 .. Len(s) + 1 /\ l \in 0 .. Len(s)
  OBVIOUS
<1>2. QED
  BY <1>1, SubSeqProperties

\* The enclosing nodes of a stack are a stack.
LEMMA StackBelow ==
    ASSUME NEW t, PicksOk(t), NEW s, StackOk(t, s), s # <<>>
    PROVE  /\ SubSeq(s, 1, Len(s) - 1) \in Seq([node : Node, done : Nat])
           /\ Len(SubSeq(s, 1, Len(s) - 1)) = Len(s) - 1
           /\ \A i \in 1 .. Len(s) - 1 : SubSeq(s, 1, Len(s) - 1)[i] = s[i]
           /\ StackOk(t, SubSeq(s, 1, Len(s) - 1))
<1> DEFINE E == [node : Node, done : Nat]
           L == Len(s)
           b == SubSeq(s, 1, L - 1)
<1>1. s \in Seq(E) /\ L \in Nat /\ L >= 1
  BY StackTop DEF StackOk
<1>2. b \in Seq(E) /\ Len(b) = L - 1 /\ \A i \in 1 .. L - 1 : b[i] = s[i]
  <2> HIDE DEF E, L
  <2>1. L - 1 \in Nat /\ (L - 1) + 1 = L
    BY <1>1
  <2>2. QED
    BY <1>1, <2>1, FrontIs DEF L
<1>3. \A i \in 1 .. L - 1 : i \in 1 .. L
  BY <1>1
<1> HIDE DEF b, E
<1>4. b # <<>> => b[1].node = Root
  <2>1. SUFFICES ASSUME b # <<>> PROVE b[1].node = Root
    OBVIOUS
  <2>2. L - 1 # 0 /\ L - 1 \in Nat
    BY <1>1, <1>2, <2>1, EmptySeq
  <2>3. 1 \in 1 .. L - 1
    <3> HIDE DEF L
    <3>1. QED
      BY <1>1, <2>2
  <2>4. QED
    BY <1>2, <2>3 DEF StackOk
<1>5. StackOk(t, b)
  BY <1>2, <1>3, <1>4 DEF StackOk, E
<1>6. QED
  BY <1>2, <1>5 DEF b, E

\* A node all of whose visits passed is left: its parent's walk goes on.
LEMMA WalkLeaves ==
    ASSUME NEW m, NEW f, NEW t, InputOk(m, f, t), NEW s, s # <<>>,
           StackOk(t, s), Walked(m, f, t, s),
           s[Len(s)].done = Len(VisitsBy(t, s[Len(s)].node)),
           NEW b, b = SubSeq(s, 1, Len(s) - 1),
           NEW next, next = IF b = <<>> THEN <<>> ELSE Advanced(b)
    PROVE  StackOk(t, next) /\ Walked(m, f, t, next)
<1> DEFINE L == Len(s)
           n == s[L].node
<1>1. PicksOk(t) /\ L \in 1 .. L /\ L \in Nat /\ L >= 1 /\ n \in Node
  BY StackTop DEF InputOk
<1>2. /\ StackOk(t, b) /\ Len(b) = L - 1 /\ b \in Seq([node : Node, done : Nat])
      /\ \A i \in 1 .. L - 1 : b[i] = s[i]
  BY <1>1, StackBelow
<1>3. Clean(m, f, t, n)
  <2>1. ~Broken(m, f, t, n)
    BY <1>1 DEF Walked
  <2>2. \A j \in 1 .. Len(VisitsBy(t, n)) : Clean(m, f, t, VisitsBy(t, n)[j])
    BY <1>1 DEF Walked
  <2> HIDE DEF n
  <2>3. QED
    BY <1>1, <2>1, <2>2, CleanNode
<1>4. CASE b = <<>>
  <2>1. L = 1
    <3>1. Len(b) = 0
      BY <1>2, <1>4, EmptySeq
    <3>2. QED
      BY <1>1, <1>2, <3>1
  <2>2. n = Root
    BY <2>1 DEF StackOk
  <2>3. Clean(m, f, t, Root)
    BY <1>3, <2>2
  <2>4. next = <<>> /\ 1 .. Len(next) = {} /\ next \in Seq([node : Node, done : Nat])
    <3>1. 1 .. 0 = {}
      OBVIOUS
    <3>2. next = <<>> /\ Len(next) = 0
      BY <1>4
    <3>3. QED
      BY <3>1, <3>2, EmptySeq
  <2> HIDE DEF n, L
  <2>5. StackOk(t, next)
    BY <2>4 DEF StackOk
  <2>6. Walked(m, f, t, next)
    BY <2>3, <2>4 DEF Walked
  <2>7. QED
    BY <2>5, <2>6
<1>5. CASE b # <<>>
  <2> DEFINE K == Len(b)
  <2>1. K \in 1 .. K /\ K \in Nat /\ K >= 1 /\ K + 1 = L /\ K \in 1 .. L /\ b[K] = s[K]
    <3>1. K \in 1 .. K /\ K \in Nat
      BY <1>1, <1>2, <1>5, StackTop
    <3>2. K = L - 1
      BY <1>2
    <3> HIDE DEF K, L
    <3>3. QED
      BY <1>1, <1>2, <3>1, <3>2
  <2>2. Walked(m, f, t, b)
    <3>1. \A i \in 1 .. K : i \in 1 .. L /\ i \in 1 .. L - 1
      BY <1>1, <1>2, <2>1
    <3>2. QED
      BY <1>2, <1>5, <3>1 DEF Walked
  <2>3. /\ b[K].done < Len(VisitsBy(t, b[K].node))
        /\ n = VisitsBy(t, b[K].node)[b[K].done + 1]
    BY <1>1, <2>1 DEF StackOk
  <2>4. next = Advanced(b)
    BY <1>5
  <2> HIDE DEF n, L
  <2>5. StackOk(t, Advanced(b)) /\ Walked(m, f, t, Advanced(b))
    BY <1>2, <1>3, <1>5, <2>2, <2>3, WalkAdvances
  <2>6. QED
    BY <2>4, <2>5
<1>6. QED
  BY <1>4, <1>5

\* Everything that fails comes no earlier than the kid the walk is at.
LEMMA Frontier ==
    ASSUME NEW m, NEW f, NEW t, InputOk(m, f, t), NEW s, s # <<>>,
           StackOk(t, s), Walked(m, f, t, s),
           s[Len(s)].done < Len(VisitsBy(t, s[Len(s)].node)),
           NEW n, n = VisitsBy(t, s[Len(s)].node)[s[Len(s)].done + 1],
           NEW p, Broken(m, f, t, p)
    PROVE  n <= p
<1> DEFINE L == Len(s)
           On == {i \in 1 .. L : s[i].node \in LineOf(p)}
<1>1. /\ PicksOk(t) /\ L \in 1 .. L /\ L \in Nat /\ s[L].node \in Node /\ s[L].done \in Nat
      /\ ReachedBy(t, s[L].node) /\ Len(VisitsBy(t, s[L].node)) \in Nat
  BY StackTop DEF InputOk
<1>2. s[L].done + 1 \in 1 .. Len(VisitsBy(t, s[L].node))
  BY <1>1
<1>3. n \in Node /\ n \in KidsOf(s[L].node) /\ n \in Nat
  <2>1. n \in Node /\ n \in KidsOf(s[L].node)
    BY <1>1, <1>2, VisitReached
  <2>2. QED
    BY <2>1, TreeAssumption
<1>4. LineOf(n) = LineOf(s[L].node) \cup {n}
  BY <1>1, <1>3, KidFacts, LineDef
<1>5. p \in Node /\ p \in Nat /\ ReachedBy(t, p)
  BY TreeAssumption DEF Broken, LiveIn
<1>6. PICK i \in On : \A h \in On : h <= i
  <2>1. 1 \in On
    <3>1. s[1].node = Root /\ 1 \in 1 .. L
      BY <1>1 DEF StackOk
    <3>2. QED
      BY <1>5, <3>1, LineFacts
  <2> DEFINE Up == {L - h : h \in On}
  <2>2. Up \subseteq Nat /\ Up # {}
    BY <1>1, <2>1
  <2> HIDE DEF Up
  <2>3. PICK x \in Up : \A y \in Up : x <= y
    BY <2>2, LeastNat
  <2>4. PICK h \in On : x = L - h
    BY DEF Up
  <2>5. ASSUME NEW g \in On PROVE g <= h
    <3>1. x <= L - g
      BY <2>3 DEF Up
    <3>2. QED
      BY <1>1, <2>4, <3>1
  <2>6. QED
    BY <2>5
<1> DEFINE x == s[i].node
           v == VisitsBy(t, x)
<1>7. i \in 1 .. L /\ x \in LineOf(p) /\ x \in Node /\ s[i].done \in Nat
  <2>1. i \in 1 .. L
    OBVIOUS
  <2>2. s[i] \in [node : Node, done : Nat]
    BY <2>1, ElementOfSeq DEF StackOk
  <2>3. QED
    BY <2>2
<1>8. x # p
  BY <1>7 DEF Walked
<1>9. PICK j \in 1 .. Len(v) : v[j] \in LineOf(p)
  BY <1>1, <1>5, <1>7, <1>8, VisitOnLine
<1>10. v \in Seq(Node) /\ Increasing(v) /\ \A g \in 1 .. Len(v) : v[g] \in KidsOf(x)
  BY <1>1, <1>7, VisitFacts
<1>11. ~(j \in 1 .. s[i].done)
  BY <1>5, <1>7, <1>9 DEF Walked, Clean
<1>12. j \in Nat /\ j > s[i].done /\ s[i].done + 1 <= j
  <2>1. j \in Nat /\ j >= 1
    BY <1>9, <1>10
  <2>2. QED
    BY <1>7, <1>11, <2>1
<1>13. v[j] \in Node /\ v[j] \in Nat /\ v[j] <= p
  <2>1. v[j] \in Node /\ v[j] <= p
    BY <1>5, <1>9, LineFacts
  <2>2. QED
    BY <2>1, TreeAssumption
<1>14. CASE i = L
  <2>1. v[s[i].done + 1] = n /\ s[i].done + 1 \in 1 .. Len(v)
    BY <1>2, <1>14
  <2>2. n <= v[j]
    <3>1. CASE j = s[i].done + 1
      BY <1>3, <2>1, <3>1
    <3>2. CASE j # s[i].done + 1
      <4>1. s[i].done + 1 < j
        BY <1>7, <1>12, <3>2
      <4>2. n < v[j]
        BY <1>9, <1>10, <2>1, <4>1 DEF Increasing
      <4>3. QED
        BY <1>3, <1>13, <4>2
    <3>3. QED
      BY <3>1, <3>2
  <2> HIDE DEF v
  <2>3. QED
    BY <1>3, <1>5, <1>13, <2>2
<1>15. CASE i # L
  <2> DEFINE k == s[i + 1].node
  <2>1. i + 1 \in 1 .. L /\ i + 1 <= L /\ ~(i + 1 <= i)
    BY <1>1, <1>7, <1>15
  <2>2. s[i].done < Len(v) /\ k = v[s[i].done + 1]
    BY <1>7, <2>1 DEF StackOk
  <2>3. s[i].done + 1 \in 1 .. Len(v)
    BY <1>7, <1>10, <2>2
  <2>4. k \notin LineOf(p)
    BY <1>6, <2>1
  <2>5. s[i].done + 1 < j
    BY <1>7, <1>9, <1>12, <2>2, <2>4
  <2>6. k < v[j] /\ k \in KidsOf(x) /\ v[j] \in KidsOf(x)
    BY <1>9, <1>10, <2>2, <2>3, <2>5 DEF Increasing
  <2>7. k \in LineOf(n)
    <3>1. k \in LineOf(s[L].node)
      BY <1>1, <2>1 DEF StackOk
    <3>2. QED
      BY <1>4, <3>1
  <2> HIDE DEF k, v, x
  <2>8. n < v[j]
    BY <1>3, <1>7, <2>6, <2>7, Preorder
  <2>9. QED
    BY <1>3, <1>5, <1>13, <2>8
<1>16. QED
  BY <1>14, <1>15

-----------------------------------------------------------------------------
(* The culprit *)

\* Rank and Culprit for a given input.
PlacesIn(m, c) == {c} \cup {u \in Of("union") : m = "access" /\ TagOf[u] = c}

RankIn(m, c) == Min(PlacesIn(m, c))

CulpritIn(m, f, t) ==
    CHOOSE c \in CulpritsIn(m, f, t) :
        \A d \in CulpritsIn(m, f, t) : RankIn(m, c) <= RankIn(m, d)

LEMMA CulpritIs ==
    /\ Culprits = CulpritsIn(mode, fault, taken)
    /\ Culprit = CulpritIn(mode, fault, taken)
<1>1. \A c : Live(c) <=> LiveIn(mode, taken, c)
  BY ReachedIs DEF Live, LiveIn, Skipped
<1>2. Culprits = CulpritsIn(mode, fault, taken)
  BY <1>1 DEF Culprits, CulpritsIn
<1>3. \A c : Rank(c) = RankIn(mode, c)
  BY DEF Rank, RankIn, PlacesIn
<1>4. Culprit = CulpritIn(mode, fault, taken)
  <2> DEFINE C == Culprits
             better(c, d) == RankIn(mode, c) <= RankIn(mode, d)
  <2>1. Culprit = CHOOSE c \in C : \A d \in C : better(c, d)
    BY <1>3 DEF Culprit
  <2>2. QED
    BY <1>2, <2>1 DEF CulpritIn
<1>5. QED
  BY <1>2, <1>4

LEMMA RankFacts ==
    ASSUME NEW m, NEW c \in Node
    PROVE  /\ RankIn(m, c) \in PlacesIn(m, c) /\ RankIn(m, c) \in Nat
           /\ PlacesIn(m, c) \subseteq Nat
           /\ \A u \in PlacesIn(m, c) : RankIn(m, c) <= u
<1> DEFINE S == PlacesIn(m, c)
<1>1. S \subseteq Nat /\ S # {}
  BY TreeAssumption DEF PlacesIn, Of
<1> HIDE DEF S
<1>2. \E x \in S : \A y \in S : x <= y
  BY <1>1, LeastNat
<1>3. Min(S) \in S /\ \A y \in S : Min(S) <= y
  BY <1>2 DEF Min
<1>4. RankIn(m, c) = Min(S)
  BY DEF RankIn, S
<1>5. QED
  BY <1>1, <1>3, <1>4 DEF S

\* Where a culprit ranks, the check fails.
LEMMA RankBroken ==
    ASSUME NEW m, NEW f, NEW t, InputOk(m, f, t), NEW c \in CulpritsIn(m, f, t)
    PROVE  Broken(m, f, t, RankIn(m, c))
<1> DEFINE u == RankIn(m, c)
<1>1. c \in Node /\ c \in DOMAIN f /\ ReachedBy(t, c) /\ LiveIn(m, t, c)
  BY DEF CulpritsIn, InputOk, LiveIn
<1>2. u \in PlacesIn(m, c)
  BY <1>1, RankFacts
<1> HIDE DEF u
<1>3. CASE u = c
  BY <1>1, <1>3 DEF Broken, Meets, u
<1>4. CASE u # c
  <2>1. u \in Node /\ Shape[u] = "union" /\ m = "access" /\ TagOf[u] = c
    BY <1>2, <1>4 DEF PlacesIn, Of
  <2>2. c # Root /\ u # Root /\ ParentOf(c) = ParentOf(u) /\ Shape[ParentOf(u)] = "record"
    BY <2>1, TagFacts
  <2>3. ReachedBy(t, ParentOf(u))
    BY <1>1, <2>2, ReachedDef
  <2>4. ChosenBy(t, u)
    BY <2>2 DEF ChosenBy
  <2>5. ReachedBy(t, u)
    BY <2>1, <2>2, <2>3, <2>4, ReachedDef
  <2>6. LiveIn(m, t, u)
    BY <2>1, <2>5 DEF LiveIn
  <2>7. QED
    BY <1>1, <2>1, <2>6 DEF Broken, Meets, u
<1>5. QED
  BY <1>3, <1>4

\* The node that reports: the tag's fault comes first.
FirstOf(m, f, n) ==
    IF m = "access" /\ Shape[n] = "union" /\ TagOf[n] \in DOMAIN f THEN TagOf[n] ELSE n

\* The first check that fails reports the culprit.
LEMMA FirstIsCulprit ==
    ASSUME NEW m, NEW f, NEW t, InputOk(m, f, t),
           NEW n \in Node, LiveIn(m, t, n), FirstOf(m, f, n) \in DOMAIN f,
           \A p : Broken(m, f, t, p) => n <= p
    PROVE  /\ CulpritIn(m, f, t) = FirstOf(m, f, n)
           /\ FirstOf(m, f, n) \in CulpritsIn(m, f, t)
<1> DEFINE x == FirstOf(m, f, n)
           C == CulpritsIn(m, f, t)
           tagged == m = "access" /\ Shape[n] = "union" /\ TagOf[n] \in DOMAIN f
<1>1. (tagged => x = TagOf[n]) /\ (~tagged => x = n)
  BY DEF FirstOf
<1>2. x \in DOMAIN f /\ x \in Node /\ n \in Nat
  BY TreeAssumption DEF InputOk
<1>3. LiveIn(m, t, x)
  <2>1. CASE ~tagged
    BY <1>1, <2>1
  <2>2. CASE tagged
    <3>1. /\ n # Root /\ x # Root /\ ParentOf(x) = ParentOf(n) /\ Shape[ParentOf(x)] = "record"
      BY <1>1, <2>2, TagFacts
    <3>2. ReachedBy(t, ParentOf(x))
      BY <3>1, ReachedDef DEF LiveIn
    <3>3. ChosenBy(t, x)
      BY <3>1 DEF ChosenBy
    <3>4. ReachedBy(t, x)
      BY <1>2, <3>1, <3>2, <3>3, ReachedDef
    <3>5. QED
      BY <2>2, <3>4 DEF LiveIn
  <2>3. QED
    BY <2>1, <2>2
<1>4. x \in C
  BY <1>2, <1>3 DEF CulpritsIn
<1>5. n \in PlacesIn(m, x)
  BY <1>1 DEF PlacesIn, Of
<1> HIDE DEF x
<1>6. RankIn(m, x) <= n /\ RankIn(m, x) \in Nat
  BY <1>2, <1>5, RankFacts
<1>7. ASSUME NEW d \in C
      PROVE  d \in DOMAIN f /\ d \in Node /\ RankIn(m, d) \in Nat /\ n <= RankIn(m, d)
  <2>1. d \in DOMAIN f /\ d \in Node
    BY DEF CulpritsIn, InputOk
  <2>2. Broken(m, f, t, RankIn(m, d))
    BY RankBroken
  <2>3. QED
    BY <2>1, <2>2, RankFacts
<1>8. ASSUME NEW d \in C PROVE RankIn(m, x) <= RankIn(m, d)
  <2>1. n <= RankIn(m, d) /\ RankIn(m, d) \in Nat
    BY <1>7
  <2>2. QED
    BY <1>2, <1>6, <2>1
<1>9. ASSUME NEW c \in C, \A d \in C : RankIn(m, c) <= RankIn(m, d) PROVE c = x
  <2>1. RankIn(m, c) <= RankIn(m, x)
    BY <1>4, <1>9
  <2>2. c \in DOMAIN f /\ c \in Node /\ RankIn(m, c) \in Nat /\ n <= RankIn(m, c)
    BY <1>7
  <2>3. RankIn(m, c) = n
    BY <1>2, <1>6, <2>1, <2>2
  <2>4. n \in PlacesIn(m, c)
    BY <2>2, <2>3, RankFacts
  <2>5. CASE n = c
    <3>1. ~tagged
      BY <2>2, <2>5 DEF InputOk
    <3>2. QED
      BY <1>1, <2>5, <3>1
  <2>6. CASE n # c
    <3>1. Shape[n] = "union" /\ m = "access" /\ TagOf[n] = c
      BY <2>4, <2>6 DEF PlacesIn, Of
    <3>2. QED
      BY <1>1, <2>2, <3>1
  <2>7. QED
    BY <2>5, <2>6
<1>10. CulpritIn(m, f, t) = x
  <2> DEFINE Best(c) == \A d \in C : RankIn(m, c) <= RankIn(m, d)
  <2>1. Best(x)
    BY <1>8
  <2>2. \A c \in C : Best(c) => c = x
    BY <1>9
  <2>3. CulpritIn(m, f, t) = CHOOSE c \in C : Best(c)
    BY DEF CulpritIn
  <2> HIDE DEF C, Best
  <2>4. QED
    BY <1>4, <2>1, <2>2, <2>3
<1>11. QED
  BY <1>4, <1>10 DEF x

-----------------------------------------------------------------------------
(* Unwinding *)

\* The failed node is a kid of the innermost one still to wrap it.
Joined(s, x) ==
    /\ s = <<>> => x = Root
    /\ s # <<>> =>
          /\ x \in KidsOf(s[Len(s)].node)
          /\ Shape[s[Len(s)].node] = "array" =>
                /\ s[Len(s)].done < Len(Kids[s[Len(s)].node])
                /\ x = Kids[s[Len(s)].node][s[Len(s)].done + 1]

\* As many elements come before the one a loop is at as it has done.
LEMMA IndexIs ==
    ASSUME NEW n \in Node, NEW i \in Nat, i < Len(Kids[n])
    PROVE  Cardinality({k \in KidsOf(n) : k < Kids[n][i + 1]}) = i
<1> DEFINE s == Kids[n]
           T == {k \in KidsOf(n) : k < s[i + 1]}
<1>1. s \in Seq(Node) /\ Increasing(s) /\ KidsOf(n) = {s[j] : j \in 1 .. Len(s)}
  BY TreeAssumption, OrderAssumption DEF Increasing, KidsOf
<1>2. Len(s) \in Nat /\ i + 1 \in 1 .. Len(s) /\ DOMAIN s = 1 .. Len(s)
  BY <1>1
<1>3. \A j \in 1 .. Len(s) : s[j] \in Nat
  <2>1. Node \subseteq Nat
    BY TreeAssumption
  <2> HIDE DEF s
  <2>2. QED
    BY <1>1, <2>1, ElementOfSeq
<1>4. \A j, k \in 1 .. Len(s) : j < k => s[j] < s[k]
  BY <1>1, <1>2 DEF Increasing
<1> HIDE DEF s
<1>5. ASSUME NEW j \in 1 .. Len(s) PROVE s[j] < s[i + 1] <=> j \in 1 .. i
  <2>1. CASE j \in 1 .. i
    BY <1>2, <1>4, <2>1
  <2>2. CASE j = i + 1
    BY <1>2, <1>3, <2>2
  <2>3. CASE j > i + 1
    <3>1. s[i + 1] < s[j] /\ s[j] \in Nat /\ s[i + 1] \in Nat
      BY <1>2, <1>3, <1>4, <2>3
    <3>2. ~(s[j] < s[i + 1])
      BY <3>1
    <3>3. QED
      BY <2>3, <3>2
  <2>4. QED
    BY <1>2, <2>1, <2>2, <2>3
<1>6. 1 .. i \subseteq 1 .. Len(s)
  BY <1>2
<1>7. T = {s[j] : j \in 1 .. i}
  BY <1>1, <1>5, <1>6
<1> DEFINE g == [j \in 1 .. i |-> s[j]]
<1>8. g \in Bijection(1 .. i, T)
  <2>1. ASSUME NEW j \in 1 .. i, NEW k \in 1 .. i, s[j] = s[k] PROVE j = k
    <3>1. j \in 1 .. Len(s) /\ k \in 1 .. Len(s) /\ s[j] \in Nat /\ s[k] \in Nat
      BY <1>3, <1>6
    <3>2. ~(s[j] < s[k]) /\ ~(s[k] < s[j])
      BY <2>1, <3>1
    <3>3. ~(j < k) /\ ~(k < j)
      BY <1>4, <3>1, <3>2
    <3>4. QED
      BY <3>1, <3>3
  <2>2. g \in [1 .. i -> T]
    BY <1>7
  <2>3. \A y \in T : \E j \in 1 .. i : g[j] = y
    BY <1>7
  <2>4. g \in Injection(1 .. i, T)
    BY <2>1, <2>2 DEF Injection, IsInjective
  <2>5. g \in Surjection(1 .. i, T)
    BY <2>2, <2>3 DEF Surjection
  <2>6. QED
    BY <2>4, <2>5 DEF Bijection
<1>9. IsFiniteSet(1 .. i) /\ Cardinality(1 .. i) = i
  BY FS_Interval
<1>10. Cardinality(T) = Cardinality(1 .. i)
  <2> HIDE DEF T, g
  <2>1. QED
    BY <1>8, <1>9, FS_Bijection DEF ExistsBijection
<1>11. QED
  BY <1>9, <1>10 DEF s

\* A node names its failed kid as the path does.
LEMMA SegmentsIs ==
    ASSUME PicksOk(taken), StackOk(taken, stack), stack # <<>>, Joined(stack, failed)
    PROVE  /\ Top.node \in Node /\ failed \in KidsOf(Top.node)
           /\ Segments(Top.node) = Step(failed)
<1> DEFINE n == Top.node
           T == {k \in KidsOf(n) : k < failed}
<1>1. n \in Node /\ Top.done \in Nat
  BY StackTop DEF Top
<1>2. failed \in KidsOf(n)
  BY DEF Joined, Top
<1>3. ParentOf(failed) = n /\ Shape[n] \in {"record", "array", "option", "union"}
  BY <1>1, <1>2, KidFacts
<1>4. /\ Shape[n] = "record" => Step(failed) = <<Field(failed)>>
      /\ Shape[n] = "array" => Step(failed) = <<Index(Cardinality(T))>>
      /\ Shape[n] = "union" => Step(failed) = <<Variant(failed)>>
      /\ Shape[n] = "option" => Step(failed) = <<>>
  BY <1>3 DEF Step
<1>5. /\ Shape[n] = "record" => Segments(n) = <<Field(failed)>>
      /\ Shape[n] = "array" => Segments(n) = <<Index(Top.done)>>
      /\ Shape[n] = "union" => Segments(n) = <<Variant(failed)>>
      /\ Shape[n] = "option" => Segments(n) = <<>>
  BY DEF Segments
<1>6. Shape[n] = "array" => Cardinality(T) = Top.done
  <2>1. SUFFICES ASSUME Shape[n] = "array" PROVE Cardinality(T) = Top.done
    OBVIOUS
  <2>2. Top.done < Len(Kids[n]) /\ failed = Kids[n][Top.done + 1]
    BY <2>1 DEF Joined, Top
  <2> HIDE DEF n
  <2>3. QED
    BY <1>1, <2>2, IndexIs
<1> HIDE DEF n, T
<1>7. Segments(n) = Step(failed)
  <2>1. CASE Shape[n] = "record"
    BY <1>4, <1>5, <2>1
  <2>2. CASE Shape[n] = "array"
    BY <1>4, <1>5, <1>6, <2>2
  <2>3. CASE Shape[n] = "union"
    BY <1>4, <1>5, <2>3
  <2>4. CASE Shape[n] = "option"
    BY <1>4, <1>5, <2>4
  <2>5. QED
    BY <1>3, <2>1, <2>2, <2>3, <2>4
<1>8. QED
  BY <1>1, <1>2, <1>7 DEF n

\* Once wrapped, the innermost node is the failed kid of the next.
LEMMA JoinedBelow ==
    ASSUME NEW t, PicksOk(t), NEW s, StackOk(t, s), s # <<>>
    PROVE  Joined(SubSeq(s, 1, Len(s) - 1), s[Len(s)].node)
<1> DEFINE L == Len(s)
           b == SubSeq(s, 1, L - 1)
           x == s[L].node
<1>1. L \in 1 .. L /\ L \in Nat /\ L >= 1 /\ x \in Node
  BY StackTop
<1>2. /\ StackOk(t, b) /\ Len(b) = L - 1 /\ b \in Seq([node : Node, done : Nat])
      /\ \A i \in 1 .. L - 1 : b[i] = s[i]
  BY StackBelow
<1> HIDE DEF b
<1>3. CASE b = <<>>
  <2>1. L = 1
    <3>1. Len(b) = 0
      BY <1>2, <1>3, EmptySeq
    <3> HIDE DEF L
    <3>2. QED
      BY <1>1, <1>2, <3>1
  <2>2. x = Root
    BY <2>1 DEF StackOk
  <2>3. QED
    BY <1>3, <2>2 DEF Joined, b
<1>4. CASE b # <<>>
  <2> DEFINE K == Len(b)
             n == b[K].node
  <2>1. K \in 1 .. K /\ K \in Nat /\ n \in Node /\ b[K].done \in Nat
    BY <1>2, <1>4, StackTop
  <2>2. ReachedBy(t, n) /\ Len(VisitsBy(t, n)) \in Nat
    BY <1>2, <1>4, StackTop
  <2>3. K + 1 = L /\ K \in 1 .. L /\ b[K] = s[K]
    <3>1. K = L - 1
      BY <1>2
    <3> HIDE DEF K, L
    <3>2. QED
      BY <1>1, <1>2, <2>1, <3>1
  <2>4. b[K].done < Len(VisitsBy(t, n)) /\ x = VisitsBy(t, n)[b[K].done + 1]
    BY <1>1, <2>3 DEF StackOk
  <2>5. b[K].done + 1 \in 1 .. Len(VisitsBy(t, n))
    <3> HIDE DEF n, K
    <3>1. QED
      BY <2>1, <2>2, <2>4
  <2>6. x \in KidsOf(n)
    <3> HIDE DEF n, K
    <3>1. QED
      BY <2>1, <2>2, <2>4, <2>5, VisitReached
  <2>7. Shape[n] = "array" => VisitsBy(t, n) = Kids[n]
    BY <2>1, VisitFacts
  <2>8. QED
    BY <1>4, <2>4, <2>6, <2>7 DEF Joined, b
<1>5. QED
  BY <1>3, <1>4

\* A chain that stops before more does not hide an element.
NotIndex(more) == more = <<>> \/ more[1].is # "Index"

Shows(x, chain, more) ==
    /\ chain = <<>> => NotIndex(more)
    /\ Shape[x] = "record" =>
          /\ chain # <<>> /\ chain[1].is = "Field"
          /\ Len(chain) = 1 => NotIndex(more)

\* The chain of an access error is the path from the failed node to the
\* culprit; the chain of a mutation error a part of it that starts there.
Unwound(m, f, t, x, e) ==
    LET c == CulpritIn(m, f, t)
    IN /\ m = "access" =>
             \E own \in {<<>>, <<NoSegment>>}, rest \in Seq(Segment) :
                 /\ e = [kind |-> f[c], chain |-> rest \o own]
                 /\ PathTo(c) = PathTo(x) \o rest
       /\ m = "preflight" =>
             \E kind : \E chain, more \in Seq(Segment) :
                 /\ e = [kind |-> kind, chain |-> chain] /\ kind # "none"
                 /\ PathTo(c) = PathTo(x) \o (chain \o more)
                 /\ Shows(x, chain, more)

LEMMA FaultKinds ==
    ASSUME NEW m, NEW n, NEW k \in Faults(m, n)
    PROVE  k # "none" /\ Shape[n] # "record"
  BY DEF Faults

Wrapped(e, outer) == [e EXCEPT !.chain = outer \o @]

LEMMA Wrapping ==
    ASSUME NEW e, NEW kind, NEW chain, e = [kind |-> kind, chain |-> chain], NEW outer
    PROVE  Wrapped(e, outer) = [kind |-> kind, chain |-> outer \o chain]
<1>1. e.chain = chain
  OBVIOUS
<1> DEFINE d == outer \o chain
<1>2. outer \o e.chain = d
  BY <1>1, Zenon
<1>3. [e EXCEPT !.chain = outer \o @] = [e EXCEPT !.chain = d]
  BY <1>2, Zenon
<1> HIDE DEF d
<1>4. [e EXCEPT !.chain = d] = [kind |-> kind, chain |-> d]
  OBVIOUS
<1>5. QED
  BY <1>3, <1>4 DEF d, Wrapped

LEMMA AccessUnwinds ==
    ASSUME NEW f, NEW t, NEW x \in Node, x # Root, CulpritIn("access", f, t) \in Node,
           NEW e, Unwound("access", f, t, x, e)
    PROVE  Unwound("access", f, t, ParentOf(x), Wrapped(e, Step(x)))
<1> DEFINE c == CulpritIn("access", f, t)
           S == Seq(Segment)
           g == Wrapped(e, Step(x))
           A == Segment \cup {NoSegment}
<1>1. PICK own \in {<<>>, <<NoSegment>>}, rest \in S :
         e = [kind |-> f[c], chain |-> rest \o own] /\ PathTo(c) = PathTo(x) \o rest
  BY DEF Unwound
<1>2. ParentOf(x) \in Node
  BY ParentFacts
<1>3. Step(x) \in S /\ PathTo(ParentOf(x)) \in S
  BY <1>2, StepType, PathDef
<1>4. PathTo(x) = PathTo(ParentOf(x)) \o Step(x)
  BY PathDef
<1>5. Step(x) \o rest \in S
  BY <1>3, ConcatProperties
<1>6. PathTo(c) = PathTo(ParentOf(x)) \o (Step(x) \o rest)
  <2>1. (PathTo(ParentOf(x)) \o Step(x)) \o rest = PathTo(ParentOf(x)) \o (Step(x) \o rest)
    BY <1>3, ConcatAssociative
  <2>2. QED
    BY <1>1, <1>4, <2>1, Zenon
<1>7. g = [kind |-> f[c], chain |-> Step(x) \o (rest \o own)]
  <2>1. e = [kind |-> f[c], chain |-> rest \o own]
    BY <1>1
  <2> DEFINE k == f[c]
             d == rest \o own
  <2>2. e = [kind |-> k, chain |-> d]
    BY <2>1
  <2> HIDE DEF k, d
  <2>3. g = [kind |-> k, chain |-> Step(x) \o d]
    BY <2>2, Wrapping
  <2>4. QED
    BY <2>3 DEF k, d
<1>8. Step(x) \o (rest \o own) = (Step(x) \o rest) \o own
  <2>1. Step(x) \in Seq(A) /\ rest \in Seq(A)
    BY <1>3, SeqMonotonic
  <2>2. own \in Seq(A)
    <3>1. NoSegment \in A
      OBVIOUS
    <3> HIDE DEF A
    <3>2. <<>> \in Seq(A) /\ <<NoSegment>> \in Seq(A)
      BY <3>1
    <3>3. QED
      BY <3>2, Zenon
  <2> HIDE DEF A
  <2>3. QED
    BY <2>1, <2>2, ConcatAssociative
<1> HIDE DEF g, S, c
<1>9. \E o \in {<<>>, <<NoSegment>>}, r \in S :
         g = [kind |-> f[c], chain |-> r \o o] /\ PathTo(c) = PathTo(ParentOf(x)) \o r
  BY <1>5, <1>6, <1>7, <1>8
<1>10. QED
  BY <1>9 DEF Unwound, g, S, c

LEMMA ConsFacts ==
    ASSUME NEW S, NEW a \in S, NEW u \in Seq(S)
    PROVE  /\ <<a>> \o u \in Seq(S) /\ <<a>> \o u # <<>> /\ (<<a>> \o u)[1] = a
           /\ Len(<<a>> \o u) = 1 => u = <<>>
<1>1. <<a>> \in Seq(S) /\ Len(<<a>>) = 1 /\ <<a>>[1] = a
  OBVIOUS
<1>2. Len(u) \in Nat
  OBVIOUS
<1> DEFINE s == <<a>>
<1> HIDE DEF s
<1>3. /\ s \o u \in Seq(S) /\ Len(s \o u) = Len(s) + Len(u)
      /\ \A i \in 1 .. Len(s) + Len(u) : (s \o u)[i] = IF i <= Len(s) THEN s[i] ELSE u[i - Len(s)]
  BY <1>1, ConcatProperties DEF s
<1>4. Len(s) = 1 /\ s[1] = a
  BY <1>1 DEF s
<1>5. (s \o u)[1] = a
  BY <1>2, <1>3, <1>4
<1>6. s \o u # <<>>
  BY <1>2, <1>3, <1>4, EmptySeq
<1>7. Len(s \o u) = 1 => u = <<>>
  BY <1>2, <1>3, <1>4, EmptySeq
<1>8. QED
  BY <1>3, <1>5, <1>6, <1>7 DEF s

\* The first segment of the names a parent gives.
LEMMA StepIs ==
    ASSUME NEW x \in Node, x # Root
    PROVE  LET n == ParentOf(x)
           IN /\ Shape[n] \in {"record", "array", "option", "union"}
              /\ Shape[n] = "option" => Step(x) = <<>>
              /\ Shape[n] # "option" => \E a \in Segment :
                    /\ Step(x) = <<a>>
                    /\ Shape[n] = "record" => a.is = "Field"
                    /\ Shape[n] = "union" => a.is = "Variant"
<1> DEFINE n == ParentOf(x)
           a == Step(x)[1]
<1>1. Shape[n] \in {"record", "array", "option", "union"}
  BY ParentFacts, KidFacts
<1>2. Step(x) \in Seq(Segment)
  BY StepType
<1>3. /\ Shape[n] = "record" => Step(x) = <<Field(x)>>
      /\ Shape[n] = "array" => Step(x) = <<Index(Cardinality({k \in KidsOf(n) : k < x}))>>
      /\ Shape[n] = "union" => Step(x) = <<Variant(x)>>
      /\ Shape[n] = "option" => Step(x) = <<>>
  BY DEF Step
<1>4. Field(x).is = "Field" /\ Variant(x).is = "Variant"
  BY DEF Field, Variant
<1>5. Shape[n] # "option" => Step(x) = <<a>> /\ a \in Segment
  <2>1. SUFFICES ASSUME Shape[n] # "option" PROVE Step(x) = <<a>> /\ a \in Segment
    OBVIOUS
  <2>2. \E b : Step(x) = <<b>>
    BY <1>1, <1>3, <2>1
  <2>3. Len(Step(x)) = 1 /\ Step(x) = <<a>>
    BY <2>2
  <2>4. 1 \in 1 .. Len(Step(x))
    BY <2>3
  <2>5. a \in Segment
    BY <1>2, <2>4, ElementOfSeq
  <2>6. QED
    BY <2>3, <2>5
<1>6. Shape[n] = "record" => a.is = "Field"
  BY <1>3, <1>4
<1>7. Shape[n] = "union" => a.is = "Variant"
  BY <1>3, <1>4
<1> HIDE DEF n, a
<1>8. Shape[n] # "option" => \E b \in Segment :
         /\ Step(x) = <<b>>
         /\ Shape[n] = "record" => b.is = "Field"
         /\ Shape[n] = "union" => b.is = "Variant"
  BY <1>5, <1>6, <1>7
<1>9. QED
  BY <1>1, <1>3, <1>8 DEF n

Rejoined(S, p, s, u, v) ==
    /\ (p \o s) \o (u \o v) = p \o (s \o (u \o v))
    /\ s \o (u \o v) = (s \o u) \o v
    /\ u \o v \in S /\ s \o u \in S /\ s \o (u \o v) \in S

LEMMA Rejoin ==
    ASSUME NEW S, NEW p \in Seq(S), NEW s \in Seq(S), NEW u \in Seq(S), NEW v \in Seq(S)
    PROVE  Rejoined(Seq(S), p, s, u, v)
<1>1. u \o v \in Seq(S) /\ s \o u \in Seq(S)
  BY ConcatProperties
<1> DEFINE w == u \o v
<1> HIDE DEF w
<1>2. w \in Seq(S)
  BY <1>1 DEF w
<1>3. (p \o s) \o w = p \o (s \o w) /\ s \o w \in Seq(S)
  BY <1>2, ConcatAssociative, ConcatProperties
<1>4. s \o (u \o v) = (s \o u) \o v
  BY ConcatAssociative
<1>5. QED
  BY <1>1, <1>3, <1>4 DEF w, Rejoined

\* What MutationError makes of the error e of x.
Rewrapped(n, x, e, g) ==
    /\ Shape[n] = "union" => g = [kind |-> "IncompleteUnionSwitch", chain |-> <<>>]
    /\ Shape[n] # "union" /\ Shape[x] = "record" =>
          g = [kind |-> "CapacityExceeded", chain |-> Step(x)]
    /\ Shape[n] # "union" /\ Shape[x] # "record" => g = Wrapped(e, Step(x))

\* A mutation error, wrapped or replaced, still starts on the path to the culprit.
LEMMA MutationUnwinds ==
    ASSUME NEW f, NEW t, NEW x \in Node, x # Root,
           NEW e, Unwound("preflight", f, t, x, e), NEW n, n = ParentOf(x),
           NEW g, Rewrapped(n, x, e, g)
    PROVE  Unwound("preflight", f, t, n, g)
<1> DEFINE c == CulpritIn("preflight", f, t)
           S == Seq(Segment)
           s == Step(x)
<1>1. PICK kind : \E chain, more \in S :
         /\ e = [kind |-> kind, chain |-> chain] /\ kind # "none"
         /\ PathTo(c) = PathTo(x) \o (chain \o more)
         /\ Shows(x, chain, more)
  BY DEF Unwound
<1>2. PICK chain \in S, more \in S :
         /\ e = [kind |-> kind, chain |-> chain] /\ kind # "none"
         /\ PathTo(c) = PathTo(x) \o (chain \o more)
         /\ Shows(x, chain, more)
  BY <1>1
<1>3. n \in Node /\ s \in S /\ PathTo(n) \in S /\ PathTo(x) = PathTo(n) \o s
  BY ParentFacts, StepType, PathDef
<1> HIDE DEF s
<1>4. /\ chain \o more \in S /\ s \o chain \in S /\ s \o (chain \o more) \in S
      /\ (PathTo(n) \o s) \o (chain \o more) = PathTo(n) \o (s \o (chain \o more))
      /\ s \o (chain \o more) = (s \o chain) \o more
  <2>1. Rejoined(S, PathTo(n), s, chain, more)
    BY <1>3, Rejoin
  <2>2. QED
    BY <2>1, Zenon DEF Rejoined
<1>5. PathTo(c) = PathTo(n) \o (s \o (chain \o more))
  <2>1. PathTo(c) = (PathTo(n) \o s) \o (chain \o more)
    BY <1>2, <1>3, Zenon
  <2>2. QED
    BY <1>4, <2>1, Zenon
<1>6. s \o (chain \o more) = (s \o chain) \o more
  BY <1>4
<1>7. s \o (chain \o more) \in S
  BY <1>4
<1>8. /\ Shape[n] \in {"record", "array", "option", "union"}
      /\ Shape[n] = "option" => s = <<>>
      /\ Shape[n] # "option" => \E a \in Segment :
            /\ s = <<a>>
            /\ Shape[n] = "record" => a.is = "Field"
            /\ Shape[n] = "union" => a.is = "Variant"
  BY StepIs DEF s
<1> DEFINE Result(k, d, r) == /\ g = [kind |-> k, chain |-> d] /\ k # "none"
                              /\ PathTo(c) = PathTo(n) \o (d \o r)
                              /\ Shows(n, d, r)
<1>9. SUFFICES \E k : \E d, r \in S : Result(k, d, r)
  BY Zenon DEF Unwound
<1> HIDE DEF S, c
<1>10. CASE Shape[n] = "union"
  <2> DEFINE r == s \o (chain \o more)
  <2>1. <<>> \o r = r /\ <<>> \in S
    BY <1>7, ConcatEmptySeq, EmptySeq DEF S
  <2>2. PICK a \in Segment : s = <<a>> /\ a.is = "Variant"
    BY <1>8, <1>10
  <2>3. r # <<>> /\ r[1] = a
    BY <1>4, <2>2, ConsFacts DEF S
  <2>4. NotIndex(r)
    BY <2>2, <2>3 DEF NotIndex
  <2>5. Shows(n, <<>>, r)
    BY <1>10, <2>4 DEF Shows
  <2>6. g = [kind |-> "IncompleteUnionSwitch", chain |-> <<>>]
    BY <1>10 DEF Rewrapped
  <2>7. PathTo(c) = PathTo(n) \o (<<>> \o r)
    BY <1>5, <2>1, Zenon
  <2>8. r \in S
    BY <1>7
  <2> HIDE DEF r
  <2>9. Result("IncompleteUnionSwitch", <<>>, r)
    BY <2>5, <2>6, <2>7
  <2> HIDE DEF Result
  <2>10. QED
    BY <2>1, <2>8, <2>9
<1>11. CASE Shape[n] # "union" /\ Shape[x] = "record"
  <2> DEFINE r == chain \o more
  <2>1. chain # <<>> /\ chain[1].is = "Field"
    BY <1>2, <1>11 DEF Shows
  <2>2. r # <<>> /\ r[1] = chain[1]
    <3>1. chain \in Seq(Segment) /\ more \in Seq(Segment)
      BY DEF S
    <3>2. Len(chain) \in Nat /\ Len(chain) # 0 /\ Len(more) \in Nat
      BY <2>1, <3>1, EmptySeq
    <3>3. /\ Len(r) = Len(chain) + Len(more)
          /\ r[1] = IF 1 <= Len(chain) THEN chain[1] ELSE more[1 - Len(chain)]
      <4>1. 1 \in 1 .. Len(chain) + Len(more)
        BY <3>2
      <4>2. QED
        BY <3>1, <4>1, ConcatProperties
    <3> HIDE DEF r
    <3>4. Len(r) # 0 /\ r[1] = chain[1]
      BY <3>2, <3>3
    <3>5. QED
      BY <3>4, EmptySeq
  <2>3. NotIndex(r)
    BY <2>1, <2>2 DEF NotIndex
  <2>4. Shows(n, s, r)
    <3>1. CASE Shape[n] = "record"
      <4>1. PICK a \in Segment : s = <<a>> /\ a.is = "Field"
        BY <1>8, <3>1
      <4>2. s # <<>> /\ s[1].is = "Field"
        BY <4>1
      <4>3. QED
        BY <2>3, <4>2 DEF Shows
    <3>2. CASE Shape[n] # "record"
      BY <2>3, <3>2 DEF Shows
    <3>3. QED
      BY <3>1, <3>2
  <2>5. g = [kind |-> "CapacityExceeded", chain |-> s]
    BY <1>11 DEF s, Rewrapped
  <2>6. r \in S
    BY <1>4
  <2>7. PathTo(c) = PathTo(n) \o (s \o r)
    BY <1>5
  <2> HIDE DEF r
  <2>8. Result("CapacityExceeded", s, r)
    BY <2>4, <2>5, <2>7
  <2> HIDE DEF Result
  <2>9. QED
    BY <1>3, <2>6, <2>8
<1>12. CASE Shape[n] # "union" /\ Shape[x] # "record"
  <2> DEFINE d == s \o chain
  <2>1. g = [kind |-> kind, chain |-> s \o chain]
    <3>1. g = Wrapped(e, s)
      BY <1>12 DEF s, Rewrapped
    <3>2. e = [kind |-> kind, chain |-> chain]
      BY <1>2
    <3>3. Wrapped(e, s) = [kind |-> kind, chain |-> s \o chain]
      BY <3>2, Wrapping
    <3>4. QED
      BY <3>1, <3>3, Zenon
  <2>2. chain = <<>> => NotIndex(more)
    BY <1>2 DEF Shows
  <2>3. Shows(n, d, more)
    <3>1. CASE Shape[n] = "option"
      <4>1. d = chain
        BY <1>8, <3>1, ConcatEmptySeq DEF S
      <4>2. QED
        BY <2>2, <3>1, <4>1 DEF Shows
    <3>2. CASE Shape[n] # "option"
      <4>1. PICK a \in Segment : s = <<a>> /\ (Shape[n] = "record" => a.is = "Field")
        BY <1>8, <3>2
      <4>2. d # <<>> /\ d[1] = a /\ (Len(d) = 1 => chain = <<>>)
        BY <4>1, ConsFacts DEF S
      <4> HIDE DEF d
      <4>3. QED
        BY <2>2, <4>1, <4>2 DEF Shows
    <3>3. QED
      BY <3>1, <3>2
  <2>4. PathTo(c) = PathTo(n) \o (d \o more)
    BY <1>5, <1>6, Zenon
  <2>5. d \in S /\ kind # "none" /\ g = [kind |-> kind, chain |-> d]
    BY <1>2, <1>4, <2>1
  <2> HIDE DEF d
  <2>6. Result(kind, d, more)
    BY <2>3, <2>4, <2>5
  <2> HIDE DEF Result
  <2>7. QED
    BY <2>5, <2>6
<1>13. QED
  BY <1>10, <1>11, <1>12

-----------------------------------------------------------------------------
(* Formatting *)

\* The path a formatted error shows.
Named(m, f, t, kind, word) ==
    LET c == CulpritIn(m, f, t)
    IN /\ kind # "none"
       /\ m = "access" => word = PathTo(c) /\ kind = f[c]
       /\ m = "preflight" =>
             /\ word # <<>>
             /\ \E more \in Seq(Segment) :
                   PathTo(c) = word \o more /\ (Len(word) = 1 => NotIndex(more))

\* What is written and what is left of the chain show the path.
Written(m, f, t, e, w) ==
    /\ w \in Seq(Segment)
    /\ \E kind : \E own \in {<<>>, <<NoSegment>>}, rest \in Seq(Segment) :
          /\ e = [kind |-> kind, chain |-> rest \o own]
          /\ Named(m, f, t, kind, w \o rest)

Blamed(m, f, t) == CulpritIn(m, f, t) \in CulpritsIn(m, f, t)

\* The error of the root is ready to be formatted.
LEMMA UnwoundWritten ==
    ASSUME NEW m, NEW f, NEW t, InputOk(m, f, t), Blamed(m, f, t),
           NEW e, Unwound(m, f, t, Root, e)
    PROVE  Written(m, f, t, e, <<>>)
<1> DEFINE c == CulpritIn(m, f, t)
           S == Seq(Segment)
<1>1. c \in Node /\ c \in DOMAIN f /\ f[c] # "none"
  BY FaultKinds DEF Blamed, CulpritsIn, InputOk
<1>2. \A s \in S : <<>> \o s = s /\ s \o <<>> = s
  BY ConcatEmptySeq
<1>3. PathTo(Root) = <<>> /\ <<>> \in S
  BY PathDef, EmptySeq
<1>4. CASE m = "access"
  <2>1. PICK own \in {<<>>, <<NoSegment>>}, rest \in S :
           e = [kind |-> f[c], chain |-> rest \o own] /\ PathTo(c) = PathTo(Root) \o rest
    BY <1>4 DEF Unwound
  <2>2. PathTo(c) = <<>> \o rest
    BY <1>3, <2>1
  <2>3. Named(m, f, t, f[c], <<>> \o rest)
    BY <1>1, <1>4, <2>2 DEF Named
  <2> HIDE DEF S, c
  <2>4. QED
    BY <1>3, <2>1, <2>3, Zenon DEF Written, S
<1>5. CASE m = "preflight"
  <2>1. PICK kind : \E chain, more \in S :
           /\ e = [kind |-> kind, chain |-> chain] /\ kind # "none"
           /\ PathTo(c) = PathTo(Root) \o (chain \o more)
           /\ Shows(Root, chain, more)
    BY <1>5 DEF Unwound
  <2>2. PICK chain \in S, more \in S :
           /\ e = [kind |-> kind, chain |-> chain] /\ kind # "none"
           /\ PathTo(c) = PathTo(Root) \o (chain \o more)
           /\ Shows(Root, chain, more)
    BY <2>1
  <2>3. chain \o more \in S
    BY ConcatProperties
  <2>4. PathTo(c) = chain \o more
    BY <1>2, <1>3, <2>2, <2>3, Zenon
  <2>5. chain # <<>> /\ (Len(chain) = 1 => NotIndex(more))
    BY <2>2, TreeAssumption DEF Shows
  <2>6. \E r \in S : PathTo(c) = chain \o r /\ (Len(chain) = 1 => NotIndex(r))
    <3> HIDE DEF S, c
    <3>1. QED
      BY <2>4, <2>5
  <2>7. Named(m, f, t, kind, chain)
    BY <1>5, <2>2, <2>5, <2>6 DEF Named
  <2>8. chain \o <<>> = chain /\ <<>> \o chain = chain
    BY <1>2
  <2>9. e = [kind |-> kind, chain |-> chain \o <<>>] /\ Named(m, f, t, kind, <<>> \o chain)
    BY <2>2, <2>7, <2>8, Zenon
  <2> HIDE DEF S, c
  <2>10. QED
    BY <1>3, <2>9, Zenon DEF Written, S
<1>6. QED
  BY <1>4, <1>5 DEF InputOk

LEMMA SegmentIsOne == NoSegment \notin Segment
<1>1. \A n : Field(n).is = "Field" /\ Variant(n).is = "Variant" /\ Index(n).is = "Index"
  BY DEF Field, Variant, Index
<1>2. NoSegment.is = "none"
  BY DEF NoSegment
<1>3. QED
  BY <1>1, <1>2 DEF Segment

HeadMoves(rest, own, w) ==
    /\ Head(rest \o own) = Head(rest) /\ Head(rest) \in Segment
    /\ Tail(rest \o own) = Tail(rest) \o own /\ Tail(rest) \in Seq(Segment)
    /\ Append(w, Head(rest)) \o Tail(rest) = w \o rest

LEMMA FormatHead ==
    ASSUME NEW rest \in Seq(Segment), rest # <<>>, NEW own \in Seq({NoSegment}),
           NEW w \in Seq(Segment)
    PROVE  HeadMoves(rest, own, w)
<1> DEFINE A == Segment \cup {NoSegment}
<1>1. rest \in Seq(A) /\ own \in Seq(A)
  BY SeqMonotonic
<1>2. Head(rest) \in Segment /\ Tail(rest) \in Seq(Segment)
  BY HeadTailProperties
<1> HIDE DEF A
<1>3. Head(rest \o own) = Head(rest) /\ Tail(rest \o own) = Tail(rest) \o own
  BY <1>1
<1>4. Append(w, Head(rest)) \o Tail(rest) = w \o rest
  BY <1>2
<1>5. QED
  BY <1>2, <1>3, <1>4 DEF HeadMoves

\* One turn of the formatter moves a segment from the chain to the path.
LEMMA WrittenStep ==
    ASSUME NEW m, NEW f, NEW t, NEW e, NEW w, Written(m, f, t, e, w), e.chain # <<>>,
           NEW v, v = IF Head(e.chain) = NoSegment THEN w ELSE Append(w, Head(e.chain)),
           NEW g, g = [e EXCEPT !.chain = Tail(@)]
    PROVE  Written(m, f, t, g, v)
<1> DEFINE S == Seq(Segment)
<1>1. PICK kind : \E own \in {<<>>, <<NoSegment>>}, rest \in S :
         e = [kind |-> kind, chain |-> rest \o own] /\ Named(m, f, t, kind, w \o rest)
  BY DEF Written
<1>2. PICK own \in {<<>>, <<NoSegment>>}, rest \in S :
         e = [kind |-> kind, chain |-> rest \o own] /\ Named(m, f, t, kind, w \o rest)
  BY <1>1
<1>3. e.chain = rest \o own /\ w \in S
  BY <1>2 DEF Written
<1> DEFINE d == Tail(e.chain)
<1>4. g = [kind |-> kind, chain |-> d]
  <2>1. g = [e EXCEPT !.chain = d]
    OBVIOUS
  <2> HIDE DEF d
  <2>2. QED
    BY <1>2, <2>1
<1>5. <<>> \in Seq({NoSegment}) /\ <<NoSegment>> \in Seq({NoSegment}) /\ <<>> \in S
  OBVIOUS
<1>6. own \in Seq({NoSegment})
  BY <1>5, Zenon
<1>7. CASE rest # <<>>
  <2>1. /\ Head(e.chain) = Head(rest) /\ Head(rest) \in Segment
        /\ d = Tail(rest) \o own /\ Tail(rest) \in S
        /\ Append(w, Head(rest)) \o Tail(rest) = w \o rest
    <3>1. HeadMoves(rest, own, w)
      BY <1>3, <1>6, <1>7, FormatHead
    <3>2. QED
      BY <1>3, <3>1, Zenon DEF HeadMoves
  <2>2. v = Append(w, Head(rest)) /\ v \in S
    BY <1>3, <2>1, SegmentIsOne, AppendProperties
  <2>3. Named(m, f, t, kind, v \o Tail(rest))
    BY <1>2, <2>1, <2>2, Zenon
  <2>4. g = [kind |-> kind, chain |-> Tail(rest) \o own]
    BY <1>4, <2>1, Zenon
  <2> HIDE DEF S
  <2>5. QED
    BY <2>1, <2>2, <2>3, <2>4, Zenon DEF Written, S
<1>8. CASE rest = <<>>
  <2>1. <<>> \o own = own
    BY <1>6, ConcatEmptySeq
  <2>2. e.chain = own
    BY <1>3, <1>8, <2>1, Zenon
  <2>3. own = <<NoSegment>>
    BY <2>2, Zenon
  <2>4. Head(e.chain) = NoSegment /\ d = <<>>
    <3>1. \A x : Head(<<x>>) = x /\ Tail(<<x>>) = <<>>
      OBVIOUS
    <3>2. QED
      BY <2>2, <2>3, <3>1, Zenon
  <2>5. v = w
    BY <2>4
  <2>6. <<>> \o <<>> = <<>>
    OBVIOUS
  <2>7. g = [kind |-> kind, chain |-> <<>> \o <<>>] /\ Named(m, f, t, kind, v \o <<>>)
    BY <1>2, <1>4, <1>8, <2>4, <2>5, <2>6, Zenon
  <2> HIDE DEF S
  <2>8. QED
    BY <1>3, <1>5, <2>5, <2>7, Zenon DEF Written, S
<1>9. QED
  BY <1>7, <1>8

LEMMA WrittenDone ==
    ASSUME NEW m, NEW f, NEW t, NEW e, NEW w, Written(m, f, t, e, w), e.chain = <<>>
    PROVE  Named(m, f, t, e.kind, w)
<1> DEFINE S == Seq(Segment)
           A == Segment \cup {NoSegment}
<1>1. PICK kind : \E own \in {<<>>, <<NoSegment>>}, rest \in S :
         e = [kind |-> kind, chain |-> rest \o own] /\ Named(m, f, t, kind, w \o rest)
  BY DEF Written
<1>2. PICK own \in {<<>>, <<NoSegment>>}, rest \in S :
         e = [kind |-> kind, chain |-> rest \o own] /\ Named(m, f, t, kind, w \o rest)
  BY <1>1
<1>3. rest \o own = <<>> /\ e.kind = kind /\ w \in S
  BY <1>2 DEF Written
<1>4. <<>> \in Seq({NoSegment}) /\ <<NoSegment>> \in Seq({NoSegment})
  OBVIOUS
<1>5. own \in Seq({NoSegment})
  BY <1>4, Zenon
<1>6. rest \in Seq(A) /\ own \in Seq(A)
  BY <1>5, SeqMonotonic
<1> HIDE DEF A
<1>7. rest = <<>>
  BY <1>3, <1>6, ConcatEqualIffEmpty
<1>8. w \o <<>> = w
  BY <1>3, ConcatEmptySeq
<1>9. Named(m, f, t, kind, w)
  BY <1>2, <1>7, <1>8, Zenon
<1>10. QED
  BY <1>3, <1>9, Zenon

\* A word that goes on without hiding an element is what a mutation shows.
LEMMA PrefixShown ==
    ASSUME NEW path, NEW word \in Seq(Segment), word # <<>>, NEW more \in Seq(Segment),
           path = word \o more, Len(word) = 1 => NotIndex(more)
    PROVE  /\ IsPrefixOf(word, path)
           /\ Len(path) >= 2 /\ path[2].is = "Index" => Len(word) >= 2
<1>1. Len(word) \in Nat /\ Len(word) # 0 /\ Len(more) \in Nat
  BY EmptySeq
<1>2. Len(path) = Len(word) + Len(more)
  BY ConcatProperties
<1>3. SubSeq(path, 1, Len(word)) = word
  <2>1. 1 \in 1 .. Len(word) /\ Len(word) \in 1 .. Len(word)
    BY <1>1
  <2>2. SubSeq(path, 1, Len(word)) = SubSeq(word, 1, Len(word))
    BY <2>1, SubSeqOfConcat1
  <2>3. QED
    BY <2>2, SubSeqFull
<1>4. IsPrefixOf(word, path)
  BY <1>1, <1>2, <1>3 DEF IsPrefixOf
<1>5. ASSUME Len(path) >= 2, path[2].is = "Index", ~(Len(word) >= 2) PROVE FALSE
  <2>1. Len(word) = 1
    <3>1. \A l \in Nat : l # 0 /\ ~(l >= 2) => l = 1
      OBVIOUS
    <3>2. QED
      BY <1>1, <1>5, <3>1, Zenon
  <2>2. 2 \in 1 .. Len(word) + Len(more) /\ ~(2 <= Len(word)) /\ 2 - Len(word) = 1
    BY <1>1, <1>2, <1>5, <2>1
  <2>3. path[2] = more[1]
    <3>1. path[2] = IF 2 <= Len(word) THEN word[2] ELSE more[2 - Len(word)]
      BY <2>2, ConcatProperties
    <3>2. QED
      BY <2>2, <3>1
  <2>4. more # <<>>
    <3>1. Len(more) # 0
      BY <1>1, <1>2, <1>5, <2>1
    <3>2. QED
      BY <3>1, EmptySeq
  <2>5. QED
    BY <1>5, <2>1, <2>3, <2>4 DEF NotIndex
<1>6. QED
  BY <1>4, <1>5

-----------------------------------------------------------------------------
(* The inductive invariant *)

Inv ==
    /\ pc \in {"idle", "walk", "wrap", "format", "done"}
    /\ pc = "idle" => error = NoError /\ text = <<>>
    /\ pc # "idle" => InputOk(mode, fault, taken)
    /\ pc = "walk" =>
          /\ StackOk(taken, stack) /\ Walked(mode, fault, taken, stack)
          /\ error = NoError /\ text = <<>>
    /\ pc = "wrap" =>
          /\ StackOk(taken, stack) /\ Joined(stack, failed)
          /\ Blamed(mode, fault, taken) /\ Unwound(mode, fault, taken, failed, error)
          /\ text = <<>>
    /\ pc = "format" =>
          Blamed(mode, fault, taken) /\ Written(mode, fault, taken, error, text)
    /\ pc = "done" =>
          \/ error = NoError /\ CulpritsIn(mode, fault, taken) = {}
          \/ Blamed(mode, fault, taken) /\ text \in Seq(Segment)
                /\ Named(mode, fault, taken, error.kind, text)

LEMMA InitInv == Init => Inv
  BY DEF Init, Inv

LEMMA InvNamesCulprit == Inv => ErrorNamesCulprit
<1>1. SUFFICES ASSUME Inv, pc = "done" PROVE ErrorNamesCulprit
  BY DEF ErrorNamesCulprit
<1> DEFINE C == CulpritsIn(mode, fault, taken)
           c == CulpritIn(mode, fault, taken)
<1>2. Culprits = C /\ Culprit = c
  BY CulpritIs
<1>3. CASE error = NoError /\ C = {}
  BY <1>2, <1>3 DEF NoError, ErrorNamesCulprit
<1>4. CASE Blamed(mode, fault, taken) /\ text \in Seq(Segment) /\ Named(mode, fault, taken, error.kind, text)
  <2>1. C # {} /\ error.kind # "none"
    BY <1>4 DEF Blamed, Named
  <2>2. mode = "access" => text = PathTo(c) /\ error.kind = fault[c]
    BY <1>4 DEF Named
  <2>3. ASSUME mode = "preflight"
        PROVE  /\ text # <<>> /\ IsPrefixOf(text, PathTo(c))
               /\ Len(PathTo(c)) >= 2 /\ PathTo(c)[2].is = "Index" => Len(text) >= 2
    <3>1. /\ text # <<>>
          /\ \E more \in Seq(Segment) :
                PathTo(c) = text \o more /\ (Len(text) = 1 => NotIndex(more))
      BY <1>4, <2>3 DEF Named
    <3> DEFINE path == PathTo(c)
    <3> HIDE DEF path
    <3>2. PICK more \in Seq(Segment) : path = text \o more /\ (Len(text) = 1 => NotIndex(more))
      BY <3>1 DEF path
    <3>3. IsPrefixOf(text, path) /\ (Len(path) >= 2 /\ path[2].is = "Index" => Len(text) >= 2)
      BY <1>4, <3>1, <3>2, PrefixShown
    <3>4. QED
      BY <3>1, <3>3 DEF path
  <2> HIDE DEF c, C
  <2>4. QED
    BY <1>2, <2>1, <2>2, <2>3 DEF ErrorNamesCulprit
<1>5. QED
  BY <1>1, <1>3, <1>4 DEF Inv

-----------------------------------------------------------------------------
(* Every action keeps it *)

LEMMA BeginInput ==
    ASSUME NEW m \in {"access", "preflight"}, NEW f \in FaultMaps(m), NEW t \in Takens,
           Consistent(f, t)
    PROVE  InputOk(m, f, t)
<1>1. DOMAIN f \subseteq Node /\ \A n \in DOMAIN f : f[n] \in Faults(m, n)
  <2>1. PICK bad \in UNION {kSubset(k, {n \in Node : Faults(m, n) # {}}) : k \in 0 .. MaxFaults} :
           f \in {g \in [bad -> UNION {Faults(m, n) : n \in bad}] :
                     \A n \in bad : g[n] \in Faults(m, n)}
    BY DEF FaultMaps
  <2>2. bad \subseteq Node
    BY DEF kSubset
  <2>3. DOMAIN f = bad /\ \A n \in bad : f[n] \in Faults(m, n)
    BY <2>1
  <2>4. QED
    BY <2>2, <2>3
<1>2. PicksOk(t)
  <2>1. \A n \in Of("option") \cup Of("union") : t[n] \in Selectable(n)
    BY DEF Takens
  <2>2. QED
    BY <2>1 DEF PicksOk, Of, Selectable
<1>3. QED
  BY <1>1, <1>2 DEF InputOk, Consistent

LEMMA BeginInv ==
    ASSUME Inv, NEW m \in {"access", "preflight"}, NEW f \in FaultMaps(m), NEW t \in Takens,
           Consistent(f, t), Begin(m, f, t)
    PROVE  Inv'
<1> DEFINE s == <<[node |-> Root, done |-> 0]>>
<1>1. /\ pc = "idle" /\ pc' = "walk" /\ mode' = m /\ fault' = f /\ taken' = t /\ stack' = s
      /\ error' = error /\ text' = text
  BY DEF Begin
<1>2. InputOk(m, f, t)
  BY BeginInput
<1>3. s \in Seq([node : Node, done : Nat]) /\ Len(s) = 1 /\ s[1].node = Root /\ s[1].done = 0
  BY TreeAssumption
<1>4. s # <<>> /\ 1 .. Len(s) = {1} /\ 1 .. 0 = {}
  BY <1>3
<1> HIDE DEF s
<1>5. StackOk(t, s)
  <2>1. Len(VisitsBy(t, Root)) \in Nat
    BY <1>2, TreeAssumption, VisitFacts DEF InputOk
  <2>2. ReachedBy(t, Root)
    BY ReachedDef
  <2>3. Root \in LineOf(Root)
    BY LineDef
  <2>4. s[1].done <= Len(VisitsBy(t, Root))
    BY <1>3, <2>1
  <2>5. ~(1 + 1 \in 1 .. Len(s))
    BY <1>4
  <2>6. QED
    BY <1>3, <1>4, <2>2, <2>3, <2>4, <2>5 DEF StackOk
<1>6. Walked(m, f, t, s)
  <2>1. ~Broken(m, f, t, Root)
    <3>1. Shape[Root] = "record"
      BY TreeAssumption
    <3>2. Root \notin DOMAIN f
      BY <1>2, <3>1, FaultKinds DEF InputOk
    <3>3. QED
      BY <3>1, <3>2 DEF Broken, Meets
  <2>2. QED
    BY <1>3, <1>4, <2>1 DEF Walked
<1>7. error = NoError /\ text = <<>>
  BY <1>1 DEF Inv
<1>8. QED
  BY <1>1, <1>2, <1>5, <1>6, <1>7 DEF Inv

LEMMA WalkInv == ASSUME Inv, WalkStep PROVE Inv'
<1> DEFINE n == Kid
           L == Len(stack)
           x == FirstOf(mode, fault, n)
<1>1. /\ pc = "walk" /\ stack # <<>> /\ InputOk(mode, fault, taken)
      /\ StackOk(taken, stack) /\ Walked(mode, fault, taken, stack)
      /\ error = NoError /\ text = <<>>
  BY DEF WalkStep, Inv
<1>2. PicksOk(taken)
  BY <1>1 DEF InputOk
<1>3. /\ stack[L].done < Len(VisitsBy(taken, stack[L].node))
      /\ n = VisitsBy(taken, stack[L].node)[stack[L].done + 1]
  BY VisitsIs DEF WalkStep, Kid, Top
<1>4. /\ L \in 1 .. L /\ L \in Nat /\ stack[L].node \in Node /\ stack[L].done \in Nat
      /\ ReachedBy(taken, stack[L].node) /\ Len(VisitsBy(taken, stack[L].node)) \in Nat
  BY <1>1, <1>2, StackTop
<1>5. stack[L].done + 1 \in 1 .. Len(VisitsBy(taken, stack[L].node))
  BY <1>3, <1>4
<1>6. n \in Node /\ n \in KidsOf(stack[L].node) /\ ReachedBy(taken, n)
  BY <1>2, <1>3, <1>4, <1>5, VisitReached
<1>7. LiveIn(mode, taken, n)
  BY <1>6 DEF WalkStep, Skipped, LiveIn
<1>8. \/ x \in DOMAIN fault /\ Fail(x)
      \/ /\ x \notin DOMAIN fault
         /\ stack' = IF n \in Leaf THEN Advanced(stack)
                     ELSE Append(stack, [node |-> n, done |-> 0])
         /\ UNCHANGED <<pc, mode, fault, taken, failed, error, text>>
  BY DEF WalkStep, Check, FirstOf
<1> HIDE DEF n, x
<1>9. CASE x \in DOMAIN fault /\ Fail(x)
  <2>1. /\ pc' = "wrap" /\ failed' = x
        /\ error' = [kind |-> fault[x], chain |-> OwnChain(x)]
        /\ mode' = mode /\ fault' = fault /\ taken' = taken /\ stack' = stack /\ text' = text
    BY <1>9 DEF Fail
  <2>2. \A p : Broken(mode, fault, taken, p) => n <= p
    <3>1. ASSUME NEW p, Broken(mode, fault, taken, p) PROVE n <= p
      BY <1>1, <1>3, <3>1, Frontier
    <3>2. QED
      BY <3>1
  <2>3. CulpritIn(mode, fault, taken) = x /\ x \in CulpritsIn(mode, fault, taken)
    BY <1>1, <1>6, <1>7, <1>9, <2>2, FirstIsCulprit DEF x
  <2>4. Blamed(mode, fault, taken)
    BY <2>3 DEF Blamed
  <2>5. x \in Node /\ fault[x] # "none" /\ Shape[x] # "record"
    BY <1>1, <1>9, FaultKinds DEF InputOk
  <2>6. Joined(stack, x)
    <3>1. CASE x = n
      <4>1. Shape[stack[L].node] = "array" => VisitsBy(taken, stack[L].node) = Kids[stack[L].node]
        BY <1>2, <1>4, VisitFacts
      <4>2. QED
        BY <1>1, <1>3, <1>6, <3>1, <4>1 DEF Joined
    <3>2. CASE x # n
      <4>1. Shape[n] = "union" /\ x = TagOf[n]
        BY <3>2 DEF x, FirstOf
      <4>2. ParentOf(n) = stack[L].node
        BY <1>4, <1>6, KidFacts
      <4>3. x \in KidsOf(stack[L].node) /\ Shape[stack[L].node] = "record"
        BY <1>6, <4>1, <4>2, TagFacts
      <4>4. QED
        BY <1>1, <4>3 DEF Joined
    <3>3. QED
      BY <3>1, <3>2
  <2>7. Unwound(mode, fault, taken, x, [kind |-> fault[x], chain |-> OwnChain(x)])
    <3> DEFINE S == Seq(Segment)
               P == PathTo(x)
    <3>1. P \in S /\ <<>> \in S
      BY <2>5, PathDef, EmptySeq
    <3>2. P \o <<>> = P /\ <<>> \o <<>> = <<>>
      BY <3>1, ConcatEmptySeq
    <3>3. CASE mode = "access"
      <4> DEFINE own == OwnChain(x)
      <4>1. own \in {<<>>, <<NoSegment>>}
        BY DEF OwnChain
      <4> HIDE DEF own
      <4>2. <<>> \o own = own
        <5>1. <<>> \in Seq({NoSegment}) /\ <<NoSegment>> \in Seq({NoSegment})
          OBVIOUS
        <5>2. own \in Seq({NoSegment})
          BY <4>1, <5>1, Zenon
        <5>3. QED
          BY <5>2, ConcatEmptySeq
      <4>3. [kind |-> fault[x], chain |-> own] = [kind |-> fault[x], chain |-> <<>> \o own]
        BY <4>2, Zenon
      <4>4. \E o \in {<<>>, <<NoSegment>>}, rest \in S :
               /\ [kind |-> fault[x], chain |-> own] = [kind |-> fault[x], chain |-> rest \o o]
               /\ PathTo(x) = PathTo(x) \o rest
        <5> HIDE DEF S
        <5>1. QED
          BY <3>1, <3>2, <4>1, <4>3, Zenon
      <4>5. QED
        BY <2>3, <3>3, <4>4, Zenon DEF Unwound, own
    <3>4. CASE mode = "preflight"
      <4>1. OwnChain(x) = <<>>
        BY <3>4 DEF OwnChain
      <4>2. Shows(x, <<>>, <<>>)
        BY <2>5 DEF Shows, NotIndex
      <4>3. PathTo(x) = PathTo(x) \o (<<>> \o <<>>)
        BY <3>2, Zenon
      <4>4. \E kind : \E chain, more \in S :
               /\ [kind |-> fault[x], chain |-> <<>>] = [kind |-> kind, chain |-> chain]
               /\ kind # "none"
               /\ PathTo(x) = PathTo(x) \o (chain \o more)
               /\ Shows(x, chain, more)
        <5> HIDE DEF S
        <5>1. QED
          BY <2>5, <3>1, <4>2, <4>3, Zenon
      <4>5. mode # "access"
        BY <3>4
      <4>6. QED
        BY <2>3, <4>1, <4>4, <4>5, Zenon DEF Unwound
    <3>5. QED
      BY <1>1, <3>3, <3>4 DEF InputOk
  <2>8. QED
    BY <1>1, <2>1, <2>4, <2>6, <2>7 DEF Inv
<1>10. CASE /\ x \notin DOMAIN fault
            /\ stack' = IF n \in Leaf THEN Advanced(stack)
                        ELSE Append(stack, [node |-> n, done |-> 0])
            /\ UNCHANGED <<pc, mode, fault, taken, failed, error, text>>
  <2>1. ~Broken(mode, fault, taken, n)
    BY <1>10 DEF Broken, Meets, x, FirstOf
  <2>2. StackOk(taken, stack') /\ Walked(mode, fault, taken, stack')
    <3>1. CASE n \in Leaf
      <4>1. Clean(mode, fault, taken, n)
        BY <1>1, <2>1, <3>1, CleanLeaf
      <4>2. StackOk(taken, Advanced(stack)) /\ Walked(mode, fault, taken, Advanced(stack))
        BY <1>1, <1>3, <4>1, WalkAdvances
      <4>3. stack' = Advanced(stack)
        BY <1>10, <3>1
      <4>4. QED
        BY <4>2, <4>3
    <3>2. CASE n \notin Leaf
      <4> DEFINE a == Append(stack, [node |-> n, done |-> 0])
      <4>1. StackOk(taken, a) /\ Walked(mode, fault, taken, a)
        BY <1>1, <1>3, <2>1, WalkDescends
      <4>2. stack' = a
        BY <1>10, <3>2
      <4> HIDE DEF a
      <4>3. QED
        BY <4>1, <4>2
    <3>3. QED
      BY <3>1, <3>2
  <2>3. QED
    BY <1>1, <1>10, <2>2 DEF Inv
<1>11. QED
  BY <1>8, <1>9, <1>10

LEMMA SkipInv == ASSUME Inv, SkipStep PROVE Inv'
<1> DEFINE n == Kid
           L == Len(stack)
<1>1. /\ pc = "walk" /\ stack # <<>> /\ InputOk(mode, fault, taken)
      /\ StackOk(taken, stack) /\ Walked(mode, fault, taken, stack)
      /\ error = NoError /\ text = <<>>
  BY DEF SkipStep, Inv
<1>2. /\ stack[L].done < Len(VisitsBy(taken, stack[L].node))
      /\ n = VisitsBy(taken, stack[L].node)[stack[L].done + 1]
  BY VisitsIs DEF SkipStep, Kid, Top
<1>3. /\ stack' = Advanced(stack) /\ mode = "preflight" /\ n \in Tags
      /\ UNCHANGED <<pc, mode, fault, taken, failed, error, text>>
  BY DEF SkipStep, Skipped
<1> HIDE DEF n
<1>4. n \in Leaf
  BY <1>3, TagFacts DEF Tags, Of
<1>5. ~Broken(mode, fault, taken, n)
  BY <1>3 DEF Broken, LiveIn
<1>6. Clean(mode, fault, taken, n)
  BY <1>1, <1>4, <1>5, CleanLeaf
<1>7. StackOk(taken, Advanced(stack)) /\ Walked(mode, fault, taken, Advanced(stack))
  BY <1>1, <1>2, <1>6, WalkAdvances
<1>8. QED
  BY <1>1, <1>3, <1>7 DEF Inv

LEMMA LeaveInv == ASSUME Inv, LeaveStep PROVE Inv'
<1> DEFINE b == SubSeq(stack, 1, Len(stack) - 1)
           next == IF b = <<>> THEN <<>> ELSE Advanced(b)
<1>1. /\ pc = "walk" /\ stack # <<>> /\ InputOk(mode, fault, taken)
      /\ StackOk(taken, stack) /\ Walked(mode, fault, taken, stack)
      /\ error = NoError /\ text = <<>>
  BY DEF LeaveStep, Inv
<1>2. stack[Len(stack)].done = Len(VisitsBy(taken, stack[Len(stack)].node))
  BY VisitsIs DEF LeaveStep, Top
<1>3. stack' = next /\ UNCHANGED <<pc, mode, fault, taken, failed, error, text>>
  BY DEF LeaveStep, Below
<1>4. StackOk(taken, next) /\ Walked(mode, fault, taken, next)
  BY <1>1, <1>2, WalkLeaves
<1> HIDE DEF next
<1>5. QED
  BY <1>1, <1>3, <1>4 DEF Inv

LEMMA SucceedInv == ASSUME Inv, Succeed PROVE Inv'
<1>1. /\ pc = "walk" /\ stack = <<>> /\ InputOk(mode, fault, taken)
      /\ Walked(mode, fault, taken, stack) /\ error = NoError
  BY DEF Succeed, Inv
<1>2. Clean(mode, fault, taken, Root)
  BY <1>1 DEF Walked
<1>3. CulpritsIn(mode, fault, taken) = {}
  BY <1>1, <1>2, CleanAll
<1>4. QED
  BY <1>1, <1>3 DEF Succeed, Inv

LEMMA WrapInv == ASSUME Inv, WrapStep PROVE Inv'
<1> DEFINE n == Top.node
           x == failed
           g == IF mode = "access" THEN AccessError(n) ELSE MutationError(n)
           b == SubSeq(stack, 1, Len(stack) - 1)
<1>1. /\ pc = "wrap" /\ stack # <<>> /\ InputOk(mode, fault, taken) /\ PicksOk(taken)
      /\ StackOk(taken, stack) /\ Joined(stack, failed) /\ Blamed(mode, fault, taken)
      /\ Unwound(mode, fault, taken, failed, error) /\ text = <<>>
  BY DEF WrapStep, Inv, InputOk
<1>2. /\ error' = g /\ failed' = n /\ stack' = b
      /\ UNCHANGED <<pc, mode, fault, taken, text>>
  BY DEF WrapStep, Below
<1>3. n \in Node /\ x \in KidsOf(n) /\ Segments(n) = Step(x)
  BY <1>1, SegmentsIs
<1>4. x \in Node /\ x # Root /\ ParentOf(x) = n
  BY <1>3, KidFacts
<1>5. StackOk(taken, b)
  BY <1>1, StackBelow
<1>6. Joined(b, n)
  BY <1>1, JoinedBelow DEF Top
<1>7. AccessError(n) = Wrapped(error, Step(x))
  BY <1>3 DEF AccessError, Wrapped
<1>8. Unwound(mode, fault, taken, n, g)
  <2>1. CASE mode = "access"
    <3>1. CulpritIn(mode, fault, taken) \in Node
      BY <1>1 DEF Blamed, CulpritsIn, InputOk
    <3>2. Unwound("access", fault, taken, n, Wrapped(error, Step(x)))
      BY <1>1, <1>4, <2>1, <3>1, AccessUnwinds
    <3>3. g = Wrapped(error, Step(x))
      BY <1>7, <2>1
    <3>4. QED
      BY <2>1, <3>2, <3>3
  <2>2. CASE mode = "preflight"
    <3>1. g = MutationError(n)
      BY <2>2
    <3>2. Rewrapped(n, x, error, MutationError(n))
      BY <1>3, <1>7 DEF Rewrapped, MutationError
    <3>3. Unwound("preflight", fault, taken, n, MutationError(n))
      BY <1>1, <1>4, <2>2, <3>2, MutationUnwinds
    <3>4. QED
      BY <2>2, <3>1, <3>3
  <2>3. QED
    BY <1>1, <2>1, <2>2 DEF InputOk
<1> HIDE DEF n, g, b
<1>9. QED
  BY <1>1, <1>2, <1>5, <1>6, <1>8 DEF Inv

LEMMA WrapDoneInv == ASSUME Inv, WrapDone PROVE Inv'
<1>1. /\ pc = "wrap" /\ stack = <<>> /\ InputOk(mode, fault, taken) /\ Joined(stack, failed)
      /\ Blamed(mode, fault, taken) /\ Unwound(mode, fault, taken, failed, error)
      /\ text = <<>>
  BY DEF WrapDone, Inv
<1>2. failed = Root
  BY <1>1 DEF Joined
<1>3. Written(mode, fault, taken, error, text)
  BY <1>1, <1>2, UnwoundWritten
<1>4. QED
  BY <1>1, <1>3 DEF WrapDone, Inv

LEMMA FormatInv == ASSUME Inv, FormatStep PROVE Inv'
<1>1. /\ pc = "format" /\ InputOk(mode, fault, taken) /\ Blamed(mode, fault, taken)
      /\ Written(mode, fault, taken, error, text) /\ error.chain # <<>>
  BY DEF FormatStep, Inv
<1> DEFINE v == IF Head(error.chain) = NoSegment THEN text ELSE Append(text, Head(error.chain))
           g == [error EXCEPT !.chain = Tail(@)]
<1>2. text' = v /\ error' = g /\ UNCHANGED <<pc, mode, fault, taken, stack, failed>>
  BY DEF FormatStep
<1>3. Written(mode, fault, taken, g, v)
  BY <1>1, WrittenStep
<1> HIDE DEF v, g
<1>4. QED
  BY <1>1, <1>2, <1>3 DEF Inv

LEMMA FormatDoneInv == ASSUME Inv, FormatDone PROVE Inv'
<1>1. /\ pc = "format" /\ InputOk(mode, fault, taken) /\ Blamed(mode, fault, taken)
      /\ Written(mode, fault, taken, error, text) /\ error.chain = <<>>
  BY DEF FormatDone, Inv
<1>2. Named(mode, fault, taken, error.kind, text)
  BY <1>1, WrittenDone
<1>3. text \in Seq(Segment)
  BY <1>1 DEF Written
<1>4. QED
  BY <1>1, <1>2, <1>3 DEF FormatDone, Inv

LEMMA NextInv == ASSUME Inv, [Next]_vars PROVE Inv'
<1>1. ASSUME NEW m \in {"access", "preflight"}, NEW f \in FaultMaps(m), NEW t \in Takens,
             Consistent(f, t), Begin(m, f, t)
      PROVE  Inv'
  BY <1>1, BeginInv
<1>2. CASE Finish
  BY <1>2 DEF Finish, Inv
<1>3. CASE UNCHANGED vars
  BY <1>3 DEF vars, Inv
<1>4. CASE WalkStep
  BY <1>4, WalkInv
<1>5. CASE SkipStep
  BY <1>5, SkipInv
<1>6. CASE LeaveStep
  BY <1>6, LeaveInv
<1>7. CASE Succeed
  BY <1>7, SucceedInv
<1>8. CASE WrapStep
  BY <1>8, WrapInv
<1>9. CASE WrapDone
  BY <1>9, WrapDoneInv
<1>10. CASE FormatStep
  BY <1>10, FormatInv
<1>11. CASE FormatDone
  BY <1>11, FormatDoneInv
<1>12. QED
  BY <1>1, <1>2, <1>3, <1>4, <1>5, <1>6, <1>7, <1>8, <1>9, <1>10, <1>11 DEF Next

\* A walk has found nothing wrong before the place it is at, an error that
\* unwinds carries the path from its node to the first fault, and what is
\* written followed by what is left of the chain is the path to show.
THEOREM WalkAndUnwind == Spec => []Inv
  BY InitInv, NextInv, PTL DEF Spec

\* An operation fails exactly when something it looks at is faulty, and the
\* formatted error leads to the first such place: to the fault itself, with
\* its kind, in an access; at least to the field, and to the element of an
\* array, in a mutation.  For every schema and any number of faults.
THEOREM ErrorsNameCulprit == Spec => []ErrorNamesCulprit
<1>1. Inv => ErrorNamesCulprit
  BY InvNamesCulprit
<1>2. QED
  BY <1>1, WalkAndUnwind, PTL
=============================================================================
