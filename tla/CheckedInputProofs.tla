------------------------- MODULE CheckedInputProofs -------------------------
(***************************************************************************)
(* The checked inputs for every machine word, every set of wire types with *)
(* any sizes and alignments, every slice and any number of records in it.  *)
(*                                                                         *)
(* The properties speak of neighbours (a record and the one before it, an  *)
(* input and the one it was selected from); a step needs the same of any   *)
(* two, so the inductive invariant carries the transitive forms as well.   *)
(***************************************************************************)
EXTENDS CheckedInput, SequenceTheorems, TLAPS

\* Outer contains the span of inner.
Within(inner, outer) ==
    /\ outer.addr <= inner.addr
    /\ inner.addr + inner.len <= outer.addr + outer.len

\* Records lie in the slice, in order, before the remainder.
RootsOrdered ==
    /\ \A i \in DOMAIN roots :
          slice.addr <= roots[i].addr /\ roots[i].addr + roots[i].len <= rest.addr
    /\ \A i, j \in DOMAIN roots : i < j => roots[i].addr + roots[i].len <= roots[j].addr

\* Every input of the path lies in the record the path started from.
PathInRecord == \A k \in DOMAIN path : Within(path[k], path[1])

IInv ==
    /\ TypeOK
    /\ InputsStayChecked
    /\ PathNested
    /\ StreamPartitioned
    /\ RootsOrdered
    /\ PathInRecord
    /\ slice.addr <= rest.addr

-----------------------------------------------------------------------------
(* The checks *)

\* What checked_range lets through lies in what is available: the sum is a
\* machine word and no larger.
LEMMA RangeFits ==
    ASSUME NEW available \in Usize, NEW offset \in Nat, NEW length \in Nat,
           CheckedRange(available, offset, length) = "Ok"
    PROVE  offset + length <= available
  BY SpanAssumption DEF CheckedRange, Usize

\* Every check answers with a declared result, never with unreachable.
LEMMA CheckResults ==
    ASSUME NEW w \in Wire, NEW a \in Nat, NEW n \in Nat, NEW m \in Nat, NEW k \in Nat
    PROVE  /\ FromChecked(w, a, n) \in Result \ {"unreachable"}
           /\ CheckedRange(m, k, n) \in Result \ {"unreachable"}
  BY DEF FromChecked, CheckedRange, Result

\* A selected input has the size and alignment of its type and lies in the
\* input it is selected from.
LEMMA SelectFits ==
    ASSUME NEW w \in Wire, NEW input \in Inputs, NEW offset \in Nat
    PROVE  /\ Select(w, input, offset) \in Result \ {"unreachable"}
           /\ Select(w, input, offset) = "Ok" =>
                 /\ offset + Size[w] <= input.len
                 /\ FromChecked(w, input.addr + offset, Size[w]) = "Ok"
<1>0. Size[w] \in Nat /\ input.len \in Usize /\ input.addr \in Nat /\ input.len \in Nat
  BY SpanAssumption DEF Inputs, Usize
<1>1. Select(w, input, offset) \in Result \ {"unreachable"}
  BY <1>0, CheckResults DEF Select
<1>2. ASSUME Select(w, input, offset) = "Ok"
      PROVE  CheckedRange(input.len, offset, Size[w]) = "Ok"
             /\ FromChecked(w, input.addr + offset, Size[w]) = "Ok"
  BY <1>2 DEF Select
<1> QED
  BY <1>0, <1>1, <1>2, RangeFits

\* A field of a field lies in the record.
LEMMA WithinTransitive ==
    ASSUME NEW x, NEW y, NEW z, Within(x, y), Within(y, z),
           x.addr \in Nat, x.len \in Nat, y.addr \in Nat, y.len \in Nat,
           z.addr \in Nat, z.len \in Nat
    PROVE  Within(x, z)
  BY DEF Within

\* Containment, byte by byte.
LEMMA WithinSpan ==
    ASSUME NEW x, NEW y, Within(x, y), NEW a \in Span(x),
           x.addr \in Nat, x.len \in Nat, y.addr \in Nat, y.len \in Nat
    PROVE  a \in Span(y)
  BY DEF Within, Span

-----------------------------------------------------------------------------
(* Initial states *)

LEMMA InitIInv == Init => IInv
<1> SUFFICES ASSUME Init PROVE IInv
  OBVIOUS
<1> USE DEF Init
<1>1. slice \in [addr : Usize, len : Usize] /\ slice.addr + slice.len < Word
  BY SpanAssumption DEF Usize
<1>2. TypeOK
  BY <1>1, SpanAssumption DEF TypeOK, Result
<1>3. InputsStayChecked /\ PathNested /\ StreamPartitioned /\ RootsOrdered /\ PathInRecord
  BY <1>1, SpanAssumption
  DEF InputsStayChecked, PathNested, StreamPartitioned, RootsOrdered, PathInRecord, Usize
<1> QED
  BY <1>1, <1>2, <1>3, SpanAssumption DEF IInv, Usize

-----------------------------------------------------------------------------
(* Steps *)

\* What the facts about the spans say; result and mem are apart.
Spans ==
    /\ slice \in Slices
    /\ rest \in [addr : Usize, len : Usize]
    /\ roots \in Seq(Inputs) /\ path \in Seq(Inputs)
    /\ \A i \in DOMAIN roots : FromChecked(roots[i].wire, roots[i].addr, roots[i].len) = "Ok"
    /\ \A k \in DOMAIN path : FromChecked(path[k].wire, path[k].addr, path[k].len) = "Ok"
    /\ PathNested
    /\ StreamPartitioned
    /\ RootsOrdered
    /\ PathInRecord
    /\ slice.addr <= rest.addr

Values ==
    /\ mem \in [Span(slice) -> Byte]
    /\ result \in Result \ {"unreachable"}

LEMMA Split == IInv <=> Spans /\ Values
<1>1. ASSUME roots \in Seq(Inputs), path \in Seq(Inputs)
      PROVE  (\A k \in DOMAIN path :
                 path[k].addr % Align[path[k].wire] = 0 /\ path[k].len = Size[path[k].wire])
             <=> \A k \in DOMAIN path : FromChecked(path[k].wire, path[k].addr, path[k].len) = "Ok"
  BY <1>1 DEF FromChecked
<1> QED
  BY <1>1, Zenon DEF IInv, Spans, Values, TypeOK, InputsStayChecked

LEMMA SplitPrimed == IInv' <=> Spans' /\ Values'
  BY Split, PTL

\* A record cut from the front of the remainder.
LEMMA RootAdded ==
    ASSUME Spans, path = <<>>, NEW w \in Wire,
           Size[w] <= rest.len,
           FromChecked(w, rest.addr, Size[w]) = "Ok",
           roots' = Append(roots, Input(w, rest.addr)),
           rest' = [addr |-> rest.addr + Size[w], len |-> rest.len - Size[w]],
           UNCHANGED <<slice, path>>
    PROVE  Spans'
<1> DEFINE new == Input(w, rest.addr)
<1>1. /\ slice \in [addr : Usize, len : Usize] /\ slice.addr + slice.len < Word
      /\ rest.addr \in Nat /\ rest.len \in Nat /\ Word \in Nat /\ Size[w] \in Usize
      /\ rest.addr + rest.len = slice.addr + slice.len
      /\ slice.addr \in Nat /\ slice.len \in Nat /\ Size[w] \in Nat
  BY SpanAssumption DEF Spans, Usize, StreamPartitioned
<1>2. new \in Inputs /\ rest' \in [addr : Usize, len : Usize]
  BY <1>1 DEF Input, Inputs, Usize, Spans
<1>3. /\ roots' \in Seq(Inputs) /\ roots \in Seq(Inputs)
      /\ Len(roots') = Len(roots) + 1 /\ Len(roots) \in Nat
      /\ DOMAIN roots' = 1 .. Len(roots) + 1 /\ DOMAIN roots = 1 .. Len(roots)
      /\ \A i \in 1 .. Len(roots) : roots'[i] = roots[i] /\ roots[i] \in Inputs
      /\ roots'[Len(roots) + 1] = new
  BY <1>2 DEF Spans
<1>4. new.wire = w /\ new.addr = rest.addr /\ new.len = Size[w]
  BY DEF Input
<1>5. \A i \in DOMAIN roots' : FromChecked(roots'[i].wire, roots'[i].addr, roots'[i].len) = "Ok"
  BY <1>3, <1>4 DEF Spans
<1>6. StreamPartitioned'
  <2>1. \A i \in DOMAIN roots' :
           roots'[i].addr = IF i = 1 THEN slice.addr ELSE roots'[i - 1].addr + roots'[i - 1].len
    <3> SUFFICES ASSUME NEW i \in DOMAIN roots'
                 PROVE  roots'[i].addr =
                           IF i = 1 THEN slice.addr ELSE roots'[i - 1].addr + roots'[i - 1].len
      OBVIOUS
    <3>1. CASE i \in 1 .. Len(roots)
      <4>1. i # 1 => i - 1 \in 1 .. Len(roots)
        BY <3>1, <1>3
      <4> QED
        BY <3>1, <4>1, <1>3 DEF Spans, StreamPartitioned
    <3>2. CASE i = Len(roots) + 1
      <4>1. CASE roots = <<>>
        BY <4>1, <3>2, <1>3, <1>4 DEF Spans, StreamPartitioned
      <4>2. CASE roots # <<>>
        <5>1. Len(roots) \in 1 .. Len(roots) /\ i # 1 /\ i - 1 = Len(roots)
          BY <4>2, <3>2, <1>3, EmptySeq
        <5> QED
          BY <5>1, <4>2, <3>2, <1>3, <1>4 DEF Spans, StreamPartitioned
      <4> QED
        BY <4>1, <4>2
    <3> QED
      BY <3>1, <3>2, <1>3
  <2>2. roots' # <<>> /\ rest'.addr = roots'[Len(roots')].addr + roots'[Len(roots')].len
    <3>1. Len(roots') \in 1 .. Len(roots) + 1 /\ Len(roots') = Len(roots) + 1
      BY <1>3
    <3>2. roots' # <<>>
      BY <1>3, EmptySeq
    <3>3. rest'.addr = rest.addr + Size[w]
      OBVIOUS
    <3> QED
      BY <1>3, <1>4, <3>1, <3>2, <3>3
  <2>3. rest'.addr + rest'.len = slice.addr + slice.len
    BY <1>1
  <2> QED
    BY <2>1, <2>2, <2>3 DEF StreamPartitioned
<1>7. RootsOrdered'
  <2>1. \A i \in 1 .. Len(roots) : roots[i].addr \in Nat /\ roots[i].len \in Nat
    BY <1>3 DEF Inputs, Usize
  <2>2. \A i \in DOMAIN roots' :
           slice.addr <= roots'[i].addr /\ roots'[i].addr + roots'[i].len <= rest.addr + Size[w]
    <3> SUFFICES ASSUME NEW i \in DOMAIN roots'
                 PROVE  /\ slice.addr <= roots'[i].addr
                        /\ roots'[i].addr + roots'[i].len <= rest.addr + Size[w]
      OBVIOUS
    <3>1. CASE i \in 1 .. Len(roots)
      <4>1. slice.addr <= roots[i].addr /\ roots[i].addr + roots[i].len <= rest.addr
        BY <3>1, <1>3 DEF Spans, RootsOrdered
      <4>2. roots'[i] = roots[i] /\ roots[i].addr \in Nat /\ roots[i].len \in Nat
        BY <3>1, <1>3, <2>1
      <4>3. roots[i].addr + roots[i].len <= rest.addr + Size[w]
        <5>1. \A a, b, c, d \in Nat : a + b <= c => a + b <= c + d
          OBVIOUS
        <5> QED
          BY <5>1, <1>1, <4>1, <4>2, Zenon
      <4> QED
        BY <4>1, <4>2, <4>3, Zenon
    <3>2. CASE i = Len(roots) + 1
      BY <3>2, <1>1, <1>3, <1>4, Len(roots) + 1 \in 1 .. Len(roots) + 1 DEF Spans
    <3> QED
      BY <3>1, <3>2, <1>3
  <2>3. \A i, j \in DOMAIN roots' : i < j => roots'[i].addr + roots'[i].len <= roots'[j].addr
    <3> SUFFICES ASSUME NEW i \in DOMAIN roots', NEW j \in DOMAIN roots', i < j
                 PROVE  roots'[i].addr + roots'[i].len <= roots'[j].addr
      OBVIOUS
    <3>1. i \in 1 .. Len(roots)
      BY <1>3
    <3>2. CASE j \in 1 .. Len(roots)
      BY <3>1, <3>2, <1>3 DEF Spans, RootsOrdered
    <3>3. CASE j = Len(roots) + 1
      BY <3>1, <3>3, <1>3, <1>4 DEF Spans, RootsOrdered
    <3> QED
      BY <3>2, <3>3, <1>3
  <2> QED
    BY <2>2, <2>3 DEF RootsOrdered
<1>8. slice' \in Slices /\ path' \in Seq(Inputs) /\ PathNested' /\ PathInRecord'
      /\ slice'.addr <= rest'.addr
      /\ \A k \in DOMAIN path' : FromChecked(path'[k].wire, path'[k].addr, path'[k].len) = "Ok"
  BY <1>1 DEF Spans, PathNested, PathInRecord
<1> QED
  BY <1>2, <1>3, <1>5, <1>6, <1>7, <1>8 DEF Spans

\* An input over one of the records starts a path.
LEMMA PathStarts ==
    ASSUME Spans, NEW i \in DOMAIN roots, path' = <<roots[i]>>,
           UNCHANGED <<slice, rest, roots>>
    PROVE  Spans'
<1>1. roots[i] \in Inputs
  BY DEF Spans
<1>2. path' \in Seq(Inputs) /\ Len(path') = 1 /\ DOMAIN path' = {1} /\ path'[1] = roots[i]
  BY <1>1
<1>3. roots[i].addr \in Nat /\ roots[i].len \in Nat
  BY <1>1 DEF Inputs, Usize
<1>4. PathNested'
  BY <1>2 DEF PathNested
<1>5. PathInRecord'
  BY <1>2, <1>3 DEF PathInRecord, Within
<1>6. \A k \in DOMAIN path' : FromChecked(path'[k].wire, path'[k].addr, path'[k].len) = "Ok"
  BY <1>2 DEF Spans
<1> QED
  BY <1>2, <1>4, <1>5, <1>6 DEF Spans, StreamPartitioned, RootsOrdered

\* A field input becomes the innermost one.
LEMMA PathDeepens ==
    ASSUME Spans, path # <<>>, NEW w \in Wire, NEW offset \in Nat,
           offset + Size[w] <= Top.len,
           FromChecked(w, Top.addr + offset, Size[w]) = "Ok",
           path' = Append(path, Input(w, Top.addr + offset)),
           UNCHANGED <<slice, rest, roots>>
    PROVE  Spans'
<1> DEFINE new == Input(w, Top.addr + offset)
           n == Len(path)
<1>1. path \in Seq(Inputs) /\ n \in Nat /\ n \in 1 .. n /\ DOMAIN path = 1 .. n
  BY EmptySeq DEF Spans
<1>2. /\ Top \in Inputs /\ Top.addr \in Nat /\ Top.len \in Nat
      /\ path[1] \in Inputs /\ path[1].addr \in Nat /\ path[1].len \in Nat
      /\ Size[w] \in Usize /\ Size[w] \in Nat /\ 1 \in 1 .. n
  <2>1. 1 \in 1 .. n
    BY <1>1
  <2>2. Top \in Inputs /\ path[1] \in Inputs
    BY <1>1, <2>1 DEF Top
  <2> QED
    BY <2>1, <2>2, SpanAssumption DEF Inputs, Usize
<1>3. Within(Top, path[1])
  BY <1>1 DEF Spans, PathInRecord, Top
<1>4. new.wire = w /\ new.addr = Top.addr + offset /\ new.len = Size[w]
  BY DEF Input
<1>5. Top.addr <= new.addr /\ new.addr + new.len <= Top.addr + Top.len
  <2>1. \A a, b, c, d \in Nat : b + c <= d => a <= a + b /\ (a + b) + c <= a + d
    OBVIOUS
  <2> QED
    BY <1>2, <1>4, <2>1, Zenon
<1>6. new.addr \in Nat /\ new.len \in Nat /\ Within(new, path[1])
  <2>1. new.addr \in Nat /\ new.len \in Nat
    BY <1>2, <1>4
  <2>2. Within(new, Top)
    BY <1>5, Zenon DEF Within
  <2> HIDE DEF new
  <2> QED
    BY <1>2, <1>3, <2>1, <2>2, WithinTransitive
<1>7. new \in Inputs
  <2>1. \E i \in DOMAIN roots : path[1] = roots[i]
    BY DEF Spans, PathNested
  <2>2. path[1].addr + path[1].len <= rest.addr
    BY <2>1 DEF Spans, RootsOrdered
  <2>3. new.addr \in Usize
    <3>1. rest.addr \in Usize /\ Word \in Nat
      BY SpanAssumption DEF Spans
    <3>2. \A a, b, c, e \in Nat : \A d \in 0 .. e - 1 : a + b <= c /\ c <= d => a \in 0 .. e - 1
      OBVIOUS
    <3>3. new.addr + new.len <= path[1].addr + path[1].len
      BY <1>6 DEF Within
    <3>4. path[1].addr + path[1].len \in Nat
      BY <1>2
    <3> HIDE DEF new
    <3> QED
      BY <3>1, <3>2, <3>3, <3>4, <2>2, <1>6, Zenon DEF Usize
  <2> QED
    BY <2>3, <1>2 DEF Input, Inputs
<1>8. /\ path' \in Seq(Inputs) /\ Len(path') = n + 1 /\ DOMAIN path' = 1 .. n + 1
      /\ \A k \in 1 .. n : path'[k] = path[k]
      /\ path'[n + 1] = new
  BY <1>1, <1>7
<1>9. PathNested'
  <2>1. \E i \in DOMAIN roots' : path'[1] = roots'[i]
    BY <1>2, <1>8 DEF Spans, PathNested
  <2>2. ASSUME NEW k \in 1 .. Len(path') - 1
        PROVE  /\ path'[k].addr <= path'[k + 1].addr
               /\ path'[k + 1].addr + path'[k + 1].len <= path'[k].addr + path'[k].len
    <3>1. k \in 1 .. n
      BY <1>1, <1>8
    <3>2. CASE k = n
      BY <3>2, <1>1, <1>5, <1>8, Zenon DEF Top
    <3>3. CASE k # n
      <4>1. k \in 1 .. n - 1 /\ k + 1 \in 1 .. n
        <5>1. \A m \in Nat : \A j \in 1 .. m : j # m => j \in 1 .. m - 1 /\ j + 1 \in 1 .. m
          OBVIOUS
        <5> QED
          BY <5>1, <3>1, <3>3, <1>1, Zenon
      <4>2. /\ path[k].addr <= path[k + 1].addr
            /\ path[k + 1].addr + path[k + 1].len <= path[k].addr + path[k].len
        BY <4>1 DEF Spans, PathNested
      <4> QED
        BY <3>1, <4>1, <4>2, <1>8, Zenon
    <3> QED
      BY <3>2, <3>3
  <2> QED
    BY <2>1, <2>2 DEF PathNested
<1>10. PathInRecord'
  <2> SUFFICES ASSUME NEW k \in DOMAIN path' PROVE Within(path'[k], path'[1])
    BY DEF PathInRecord, Within
  <2>1. path'[1] = path[1]
    BY <1>2, <1>8
  <2>2. CASE k \in 1 .. n
    BY <2>1, <2>2, <1>1, <1>8, Zenon DEF Spans, PathInRecord
  <2>3. CASE k = n + 1
    BY <2>1, <2>3, <1>6, <1>8, Zenon
  <2> QED
    BY <2>2, <2>3, <1>1, <1>8
<1>11. \A k \in DOMAIN path' : FromChecked(path'[k].wire, path'[k].addr, path'[k].len) = "Ok"
  BY <1>1, <1>4, <1>8 DEF Spans
<1> QED
  BY <1>8, <1>9, <1>10, <1>11 DEF Spans, StreamPartitioned, RootsOrdered

\* The borrow of the innermost input ends.
LEMMA PathShortens ==
    ASSUME Spans, path # <<>>, path' = SubSeq(path, 1, Len(path) - 1),
           UNCHANGED <<slice, rest, roots>>
    PROVE  Spans'
<1> DEFINE n == Len(path)
<1>1. path \in Seq(Inputs) /\ n \in Nat /\ n >= 1 /\ DOMAIN path = 1 .. n
  BY EmptySeq DEF Spans
<1>2. /\ path' \in Seq(Inputs) /\ Len(path') = n - 1 /\ DOMAIN path' = 1 .. n - 1
      /\ \A k \in 1 .. n - 1 : path'[k] = path[k] /\ k \in DOMAIN path
  BY <1>1
<1>3. PathNested'
  <2> SUFFICES ASSUME path' # <<>>
               PROVE  /\ \E i \in DOMAIN roots : path'[1] = roots[i]
                      /\ \A k \in 1 .. Len(path') - 1 :
                            /\ path'[k].addr <= path'[k + 1].addr
                            /\ path'[k + 1].addr + path'[k + 1].len <= path'[k].addr + path'[k].len
    BY DEF PathNested
  <2>1. 1 \in 1 .. n - 1
    BY <1>1, <1>2, EmptySeq
  <2>2. \A k \in 1 .. Len(path') - 1 :
           k \in 1 .. n - 1 /\ k + 1 \in 1 .. n - 1
    BY <1>1, <1>2
  <2> QED
    BY <1>2, <2>1, <2>2 DEF Spans, PathNested
<1>4. PathInRecord'
  <2> SUFFICES ASSUME NEW k \in DOMAIN path' PROVE Within(path'[k], path'[1])
    BY DEF PathInRecord, Within
  <2>1. k \in 1 .. n - 1 /\ 1 \in 1 .. n - 1
    BY <1>1, <1>2
  <2> QED
    BY <2>1, <1>2 DEF Spans, PathInRecord
<1>5. \A k \in DOMAIN path' : FromChecked(path'[k].wire, path'[k].addr, path'[k].len) = "Ok"
  BY <1>2 DEF Spans
<1> QED
  BY <1>2, <1>3, <1>4, <1>5 DEF Spans, StreamPartitioned, RootsOrdered

\* No step leaves the invariant.
LEMMA NextIInv == IInv /\ [Next]_vars => IInv'
<1> SUFFICES ASSUME IInv, [Next]_vars PROVE Spans' /\ Values'
  BY SplitPrimed
<1>0. Spans /\ Values
  BY Split
<1>1. /\ rest.addr \in Nat /\ rest.len \in Nat
      /\ \A i \in DOMAIN roots : roots[i] \in Inputs
      /\ path # <<>> => Top \in Inputs /\ Len(path) \in DOMAIN path
  <2>1. path # <<>> => Len(path) \in DOMAIN path
    BY <1>0, EmptySeq DEF Spans
  <2> QED
    BY <1>0, <2>1 DEF Spans, Usize, Top
<1>2. UNCHANGED <<slice, rest, roots, path>> => Spans'
  BY <1>0 DEF Spans, PathNested, StreamPartitioned, RootsOrdered, PathInRecord
<1>3. UNCHANGED <<slice, mem>> /\ result' \in Result \ {"unreachable"} => Values'
  BY <1>0 DEF Values, Span
<1>4. ASSUME NEW w \in Wire, NEW proves \in BOOLEAN, FromExact(w, proves)
      PROVE  Spans' /\ Values'
  <2>1. FromChecked(w, rest.addr, rest.len) \in Result \ {"unreachable"}
    BY <1>1, CheckResults
  <2>2. result' \in Result \ {"unreachable"}
    BY <1>4, <2>1 DEF FromExact, Result
  <2>3. CASE result' # "Ok"
    BY <1>2, <1>3, <1>4, <2>2, <2>3 DEF FromExact
  <2>4. CASE result' = "Ok"
    <3>1. FromChecked(w, rest.addr, rest.len) = "Ok" /\ rest.len = Size[w]
      BY <1>4, <2>4 DEF FromExact, FromChecked
    <3>2. /\ rest' = [addr |-> rest.addr + Size[w], len |-> rest.len - Size[w]]
          /\ path = <<>> /\ roots' = Append(roots, Input(w, rest.addr))
          /\ UNCHANGED <<slice, path, mem>>
      BY <1>1, <1>4, <2>4, <3>1 DEF FromExact
    <3>3. Spans'
      BY <1>0, <1>1, <3>1, <3>2, RootAdded
    <3> QED
      BY <1>3, <2>2, <3>2, <3>3
  <2> QED
    BY <2>3, <2>4
<1>5. ASSUME NEW w \in Wire, NEW proves \in BOOLEAN, FromPrefix(w, proves)
      PROVE  Spans' /\ Values'
  <2>1. Size[w] \in Nat
    BY SpanAssumption
  <2>2. FromChecked(w, rest.addr, Size[w]) \in Result \ {"unreachable"}
    BY <1>1, <2>1, CheckResults
  <2>3. result' \in Result \ {"unreachable"}
    BY <1>5, <2>2 DEF FromPrefix, Prefix, Result
  <2>4. CASE result' # "Ok"
    BY <1>2, <1>3, <1>5, <2>3, <2>4 DEF FromPrefix
  <2>5. CASE result' = "Ok"
    <3>1. FromChecked(w, rest.addr, Size[w]) = "Ok" /\ Size[w] <= rest.len
      BY <1>1, <1>5, <2>1, <2>5 DEF FromPrefix, Prefix
    <3>2. /\ rest' = [addr |-> rest.addr + Size[w], len |-> rest.len - Size[w]]
          /\ path = <<>> /\ roots' = Append(roots, Input(w, rest.addr))
          /\ UNCHANGED <<slice, path, mem>>
      BY <1>5, <2>5 DEF FromPrefix
    <3>3. Spans'
      BY <1>0, <3>1, <3>2, RootAdded
    <3> QED
      BY <1>3, <2>3, <3>2, <3>3
  <2> QED
    BY <2>4, <2>5
<1>6. ASSUME NEW i \in 1 .. Len(roots), Reborrow(i)
      PROVE  Spans' /\ Values'
  <2>1. i \in DOMAIN roots
    BY <1>0 DEF Spans
  <2>2. FromChecked(roots[i].wire, roots[i].addr, roots[i].len) = "Ok"
    BY <1>0, <2>1 DEF Spans
  <2>3. /\ path' = <<roots[i]>> /\ result' = "Ok"
        /\ UNCHANGED <<slice, rest, roots, mem>>
    BY <1>6, <2>2 DEF Reborrow
  <2> QED
    BY <1>0, <1>3, <2>1, <2>3, PathStarts DEF Result
<1>7. ASSUME NEW w \in Wire, NEW offset \in Nat, NEW outcome, path # <<>>,
             Descend(w, offset, outcome),
             outcome \in Result \ {"unreachable"},
             outcome = "Ok" => /\ offset + Size[w] <= Top.len
                               /\ FromChecked(w, Top.addr + offset, Size[w]) = "Ok"
      PROVE  Spans' /\ Values'
  <2>1. Values'
    BY <1>3, <1>7 DEF Descend
  <2>2. CASE outcome # "Ok"
    BY <1>2, <1>7, <2>1, <2>2 DEF Descend
  <2>3. CASE outcome = "Ok"
    <3>1. /\ path' = Append(path, Input(w, Top.addr + offset))
          /\ UNCHANGED <<slice, rest, roots>>
      BY <1>7, <2>3 DEF Descend
    <3> QED
      BY <1>0, <1>7, <2>1, <2>3, <3>1, PathDeepens
  <2> QED
    BY <2>2, <2>3
<1>8. ASSUME NEW w \in Wire, NEW n \in Usize, Subrange(w, n) \/ SubrangeMut(w, n)
      PROVE  Spans' /\ Values'
  <2>1. path # <<>> /\ n \in Nat
    BY <1>8, SpanAssumption DEF Subrange, SubrangeMut, Usize
  <2>2. FromChecked(Top.wire, Top.addr, Top.len) = "Ok"
    BY <1>0, <1>1, <2>1 DEF Spans, Top
  <2>3. Descend(w, n, Select(w, Top, n))
    BY <1>8, <2>2 DEF Subrange, SubrangeMut
  <2> QED
    BY <1>1, <1>7, <2>1, <2>3, SelectFits
<1>9. ASSUME NEW w \in Wire, NEW n \in Usize, ElementInputMut(w, n)
      PROVE  Spans' /\ Values'
  <2> DEFINE offset == n * Size[w]
             outcome == IF offset >= Word THEN "OffsetOverflow" ELSE Select(w, Top, offset)
  <2>1. path # <<>> /\ Descend(w, offset, outcome)
    BY <1>9 DEF ElementInputMut
  <2>2. offset \in Nat
    <3>1. n \in Nat /\ Size[w] \in Nat
      BY SpanAssumption DEF Usize
    <3> QED
      BY <3>1
  <2> HIDE DEF offset
  <2>3. /\ outcome \in Result \ {"unreachable"}
        /\ outcome = "Ok" => /\ offset + Size[w] <= Top.len
                             /\ FromChecked(w, Top.addr + offset, Size[w]) = "Ok"
    BY <1>1, <2>1, <2>2, SelectFits DEF Result
  <2> HIDE DEF outcome
  <2> QED
    BY <1>7, <2>1, <2>2, <2>3
<1>10. ASSUME NEW offset \in Usize, NEW length \in Usize, NEW b \in Byte,
              SubrangeBytesMut(offset, length, b)
       PROVE  Spans' /\ Values'
  <2>1. Top.len \in Nat /\ offset \in Nat /\ length \in Nat
    BY <1>1, <1>10, SpanAssumption DEF SubrangeBytesMut, Inputs, Usize
  <2>2. result' \in Result \ {"unreachable"}
    BY <1>10, <2>1, CheckResults, SMT DEF SubrangeBytesMut, CheckedRange, Result
  <2>3. mem' \in [Span(slice) -> Byte]
    BY <1>0, <1>10 DEF SubrangeBytesMut, Values
  <2> QED
    BY <1>2, <1>10, <2>2, <2>3 DEF SubrangeBytesMut, Values, Span
<1>11. ASSUME ClearAll PROVE Spans' /\ Values'
  <2>1. mem' \in [Span(slice) -> Byte]
    BY <1>0, <1>11, SpanAssumption DEF ClearAll, Values
  <2> QED
    BY <1>2, <1>11, <2>1 DEF ClearAll, Values, Span, Result
<1>12. ASSUME Release PROVE Spans' /\ Values'
  <2>1. /\ path # <<>> /\ path' = SubSeq(path, 1, Len(path) - 1)
        /\ UNCHANGED <<slice, rest, roots, mem>> /\ result' = "Ok"
    BY <1>12 DEF Release
  <2> QED
    BY <1>0, <1>3, <2>1, PathShortens DEF Result
<1>13. CASE UNCHANGED vars
  BY <1>0, <1>2, <1>3, <1>13 DEF vars, Values
<1> QED
  BY <1>4, <1>5, <1>6, <1>8, <1>9, <1>10, <1>11, <1>12, <1>13 DEF Next

-----------------------------------------------------------------------------
(* Theorems *)

\* The inductive invariant: every live input is checked, lies in its record,
\* and the records lie in order in the slice, before the remainder.
THEOREM Safety == Spec => []IInv
  BY InitIInv, NextIInv, PTL DEF Spec

\* Addresses and lengths stay machine words.
THEOREM TypeCorrect == Spec => []TypeOK
<1>1. IInv => TypeOK
  BY DEF IInv
<1> QED
  BY Safety, <1>1, PTL

\* Every live input keeps the size and the alignment of its type: the
\* unreachable! arms of shared_exact and exclusive_exact are dead.
THEOREM InputsChecked == Spec => []InputsStayChecked
<1>1. IInv => InputsStayChecked
  BY DEF IInv
<1> QED
  BY Safety, <1>1, PTL

\* A field input never leaves the input it was selected from.
THEOREM Nested == Spec => []PathNested
<1>1. IInv => PathNested
  BY DEF IInv
<1> QED
  BY Safety, <1>1, PTL

\* Prefix access cuts a slice into records and a remainder, with no gap and no
\* overlap.
THEOREM Partitioned == Spec => []StreamPartitioned
<1>1. IInv => StreamPartitioned
  BY DEF IInv
<1> QED
  BY Safety, <1>1, PTL

\* A byte that a step changes lies in the innermost input.
LEMMA WriteInTop ==
    ASSUME IInv, Next, NEW a \in Span(slice), mem'[a] # mem[a]
    PROVE  path # <<>> /\ a \in Span(Top)
<1>1. mem = [x \in Span(slice) |-> mem[x]]
  BY DEF IInv, TypeOK
<1>2. ASSUME NEW offset \in Usize, NEW length \in Usize, NEW b \in Byte,
             SubrangeBytesMut(offset, length, b)
      PROVE  path # <<>> /\ a \in Span(Top)
  <2>1. path # <<>> /\ result' = CheckedRange(Top.len, offset, length)
    BY <1>2 DEF SubrangeBytesMut
  <2>2. result' = "Ok" /\ a \in Top.addr + offset .. Top.addr + offset + length - 1
    BY <1>1, <1>2 DEF SubrangeBytesMut
  <2>3. Top \in Inputs
    <3>1. path \in Seq(Inputs) /\ Len(path) \in DOMAIN path
      BY <2>1, EmptySeq DEF IInv, TypeOK
    <3> QED
      BY <3>1 DEF Top
  <2>4. /\ offset \in Nat /\ length \in Nat /\ Top.addr \in Nat /\ Top.len \in Nat
        /\ Top.len \in Usize
    BY <2>3, SpanAssumption DEF Inputs, Usize
  <2>5. offset + length <= Top.len
    BY <2>1, <2>2, <2>4, RangeFits
  <2>6. \A o, l, s, n \in Nat :
           o + l <= n => \A x \in s + o .. s + o + l - 1 : x \in s .. s + n - 1
    OBVIOUS
  <2> QED
    BY <2>1, <2>2, <2>4, <2>5, <2>6, Zenon DEF Span
<1>3. CASE ClearAll
  BY <1>1, <1>3 DEF ClearAll
<1> QED
  BY <1>2, <1>3
  DEF Next, FromExact, FromPrefix, Reborrow, Descend, Subrange, SubrangeMut, ElementInputMut, Release

\* A write through one record changes no byte of another one of the stream
\* and none of the remainder.
THEOREM WritesConfined == Spec => WritesStayInOneRecord
<1>1. ASSUME IInv, [Next]_vars
      PROVE  [\A a \in Span(slice) : mem'[a] # mem[a] =>
                /\ a \in Span(path[1])
                /\ a \notin Span(rest)
                /\ \A i \in DOMAIN roots : roots[i] # path[1] => a \notin Span(roots[i])]_vars
  <2> SUFFICES ASSUME Next, NEW a \in Span(slice), mem'[a] # mem[a]
               PROVE  /\ a \in Span(path[1])
                      /\ a \notin Span(rest)
                      /\ \A i \in DOMAIN roots : roots[i] # path[1] => a \notin Span(roots[i])
    BY <1>1
  <2>1. path # <<>> /\ a \in Span(Top)
    BY <1>1, WriteInTop
  <2>2. /\ path \in Seq(Inputs) /\ roots \in Seq(Inputs)
        /\ rest.addr \in Nat /\ rest.len \in Nat
        /\ Len(path) \in DOMAIN path /\ 1 \in DOMAIN path
    BY <1>1, <2>1, EmptySeq, SpanAssumption DEF IInv, TypeOK, Usize
  <2>3. PICK j \in DOMAIN roots : path[1] = roots[j]
    BY <1>1, <2>1 DEF IInv, PathNested
  <2>4. Within(Top, path[1])
    BY <1>1, <2>2 DEF IInv, PathInRecord, Top
  <2>5. /\ Top.addr \in Nat /\ Top.len \in Nat
        /\ path[1].addr \in Nat /\ path[1].len \in Nat
        /\ \A i \in DOMAIN roots : roots[i].addr \in Nat /\ roots[i].len \in Nat
    <3>1. Top \in Inputs /\ path[1] \in Inputs /\ \A i \in DOMAIN roots : roots[i] \in Inputs
      BY <2>2 DEF Top
    <3>2. \A x \in Inputs : x.addr \in Nat /\ x.len \in Nat
      BY SpanAssumption DEF Inputs, Usize
    <3> QED
      BY <3>1, <3>2, Zenon
  <2>6. a \in Span(path[1])
    BY <2>1, <2>4, <2>5, WithinSpan
  <2>7. a \notin Span(rest)
    <3>1. path[1].addr + path[1].len <= rest.addr
      BY <1>1, <2>3 DEF IInv, RootsOrdered
    <3> QED
      BY <2>2, <2>5, <2>6, <3>1 DEF Span
  <2>8. ASSUME NEW i \in DOMAIN roots, roots[i] # path[1]
        PROVE  a \notin Span(roots[i])
    <3>1. i \in Nat /\ j \in Nat /\ i # j
      BY <2>2, <2>3, <2>8
    <3>2. \/ roots[i].addr + roots[i].len <= roots[j].addr
          \/ roots[j].addr + roots[j].len <= roots[i].addr
      BY <1>1, <3>1 DEF IInv, RootsOrdered
    <3> QED
      BY <2>3, <2>5, <2>6, <3>2 DEF Span
  <2> QED
    BY <2>6, <2>7, <2>8 DEF Span
<1> QED
  BY Safety, <1>1, PTL DEF Spec, WritesStayInOneRecord
=============================================================================
