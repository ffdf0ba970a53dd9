------------------------- MODULE ZeroValidityProofs -------------------------
(***************************************************************************)
(* The published facts about zero bytes are right for every program: any   *)
(* number of declarations, fields, variants and discriminants.             *)
(***************************************************************************)
EXTENDS ZeroValidity, TLAPS

\* The four facts are proved together: exactness of a record with a payload
\* needs the payload's, safety of an optional needs ZeroState's, and all of
\* them need the types of what is composed.
Inv ==
    /\ TypeOK /\ ConstantIsExact /\ ClearIsSound /\ ZeroStateIsSafe
    /\ PresentIsNotAbsent

\* What is right about one published type.
SoundWire(t) ==
    /\ t \in WireType
    /\ t.exact = t.accepts
    /\ t.clear = "ZeroValid" => t.accepts
    /\ t.accepts => t.zero = "ZeroValid"

SoundPayload(p) ==
    /\ p \in PayloadType
    /\ p.accepts \subseteq p.tags
    /\ p.exact = (0 \in p.accepts)
    /\ p.clear = "ZeroValid" => 0 \in p.accepts
    /\ p.accepts # {} => p.zero = "ZeroValid"

\* The invariant, one declaration at a time.
LEMMA InvParts ==
    Inv <=> /\ \A t \in wires : SoundWire(t)
            /\ \A p \in payloads : SoundPayload(p)
            /\ optionals \subseteq [cat : {"option"}, of : wires, length : Length]
            /\ PresentIsNotAbsent
BY DEF Inv, TypeOK, ConstantIsExact, ClearIsSound, ZeroStateIsSafe, SoundWire, SoundPayload

\* A scalar enum publishes what its decoder does with a raw zero.
LEMMA EnumSound ==
    ASSUME NEW D \in SUBSET Discriminant
    PROVE  SoundWire(ScalarEnum(D))
<1> DEFINE e == ScalarEnum(D)
<1>1. /\ e.tags = D
      /\ e.zero = Flag(0 \in D) /\ e.clear = Flag(0 \in D)
      /\ e.exact = (0 \in D) /\ e.accepts = (0 \in D)
  BY DEF ScalarEnum
<1>2. Flag(0 \in D) \in {"ZeroValid", "ZeroInvalid"}
  BY DEF Flag
<1>3. e \in WireType
  <2>1. ASSUME NEW b \in BOOLEAN, NEW s \in {"ZeroValid", "ZeroInvalid"}
        PROVE  [tags |-> D, zero |-> s, clear |-> s, exact |-> b, accepts |-> b] \in WireType
    BY Zenon DEF WireType
  <2>2. (0 \in D) \in BOOLEAN
    OBVIOUS
  <2> QED BY <1>2, <2>1, <2>2, Zenon DEF ScalarEnum
<1>4. (Flag(0 \in D) = "ZeroValid") <=> 0 \in D
  BY DEF Flag
<1> HIDE DEF e
<1> QED BY <1>1, <1>3, <1>4, Zenon DEF SoundWire, e

\* The cases of a field.
LEMMA FieldCases ==
    ASSUME NEW f \in Field
    PROVE  /\ f.cat \in {"scalar", "terminated", "path", "array", "option", "tagged"}
           /\ f.cat \in {"path", "array", "option"} => f.of \in wires
           /\ f.cat \in {"terminated", "array", "option"} => f.length \in Length
           /\ f.cat = "tagged" => f.of \in payloads
BY DEF Field

\* A record publishes what its proof does with zero bytes.
LEMMA RecordSound ==
    ASSUME Inv, NEW n \in 1 .. MaxFields, NEW fs \in [1 .. n -> Field],
           \A i \in DOMAIN fs : Accepted(fs[i]), Linked(fs)
    PROVE  SoundWire(Record(fs))
<1> DEFINE r == Record(fs)
<1>1. /\ \A t \in wires : SoundWire(t)
      /\ \A p \in payloads : SoundPayload(p)
  BY InvParts
<1>2. ASSUME NEW i \in DOMAIN fs
      PROVE  /\ FieldProves(fs, i) => FieldZeroIsValid(fs[i])
             /\ FieldState(fs[i], "clear") = "ZeroValid" => FieldZeroIsValid(fs[i])
             /\ FieldZeroIsValid(fs[i]) => FieldState(fs[i], "zero") = "ZeroValid"
  <2> DEFINE f == fs[i]
  <2>1. f \in Field
    OBVIOUS
  <2>2. CASE f.cat = "path"
    <3>1. SoundWire(f.of)
      BY <1>1, <2>1, <2>2, FieldCases
    <3> QED BY <2>2, <3>1, Zenon DEF SoundWire, FieldProves, FieldZeroIsValid, FieldState
  <2>3. CASE f.cat = "array"
    <3>1. SoundWire(f.of)
      BY <1>1, <2>1, <2>3, FieldCases
    <3>2. 1 \in 1 .. f.length
      <4>1. f.length # 0
        BY <2>3 DEF Accepted
      <4>2. f.length \in Nat
        BY <2>1, <2>3, FieldCases, DeclarationAssumption
      <4> QED BY <4>1, <4>2
    <3>3. FieldProves(fs, i) => f.of.accepts
      BY <2>3, <3>2 DEF FieldProves
    <3> QED BY <2>3, <3>1, <3>3, Zenon DEF SoundWire, FieldZeroIsValid, FieldState
  <2>4. CASE f.cat = "tagged"
    <3>1. SoundPayload(f.of)
      BY <1>1, <2>1, <2>4, FieldCases
    <3>2. f.of.exact => f.of.accepts # {}
      BY <3>1, Zenon DEF SoundPayload
    <3> QED
      BY <2>4, <3>1, <3>2, Zenon DEF SoundPayload, FieldProves, FieldZeroIsValid, FieldState
  <2>5. CASE f.cat \in {"scalar", "terminated", "option"}
    BY <2>5 DEF FieldZeroIsValid, FieldState
  <2> QED BY <2>1, <2>2, <2>3, <2>4, <2>5, FieldCases
\* The tag sibling of a payload field is a field of its own, so its proof is
\* among those the constant stands for.
<1>3. ASSUME \A j \in DOMAIN fs : FieldZeroIsValid(fs[j]), NEW i \in DOMAIN fs
      PROVE  FieldProves(fs, i)
  <2> DEFINE f == fs[i]
  <2>1. f \in Field
    OBVIOUS
  <2>2. ASSUME f.cat \in {"path", "array"}
        PROVE  f.of.accepts
    BY <1>1, <1>3, <2>1, <2>2, FieldCases, Zenon DEF SoundWire, FieldZeroIsValid
  <2>3. ASSUME f.cat = "tagged"
        PROVE  fs[f.tag].of.accepts /\ 0 \in f.of.accepts
    <3>1. SoundPayload(f.of) /\ f.of.exact
      BY <1>1, <1>3, <2>1, <2>3, FieldCases DEF FieldZeroIsValid
    <3>2. f.tag \in DOMAIN fs /\ fs[f.tag].cat = "path"
      BY <2>3 DEF Linked
    <3>3. fs[f.tag] \in Field
      BY <3>2
    <3>4. SoundWire(fs[f.tag].of) /\ fs[f.tag].of.exact
      BY <1>1, <1>3, <3>2, <3>3, FieldCases DEF FieldZeroIsValid
    <3> QED BY <3>1, <3>4, Zenon DEF SoundWire, SoundPayload
  <2>4. f.cat = "terminated" => f.length > 0
    BY <2>1, FieldCases, DeclarationAssumption DEF Accepted
  <2> QED BY <2>2, <2>3, <2>4 DEF FieldProves
<1>4. /\ r.tags = {}
      /\ r.zero = Flag(\A s \in {FieldState(fs[i], "zero") : i \in DOMAIN fs} : s = "ZeroValid")
      /\ r.clear = Flag(\A s \in {FieldState(fs[i], "clear") : i \in DOMAIN fs} : s = "ZeroValid")
      /\ r.exact = (\A i \in DOMAIN fs : FieldZeroIsValid(fs[i]))
      /\ r.accepts = (\A i \in DOMAIN fs : FieldProves(fs, i))
  BY DEF Record, OrChain
<1>5. /\ r.zero \in {"ZeroValid", "ZeroInvalid"} /\ r.clear \in {"ZeroValid", "ZeroInvalid"}
      /\ r.zero = "ZeroValid" <=> \A i \in DOMAIN fs : FieldState(fs[i], "zero") = "ZeroValid"
      /\ r.clear = "ZeroValid" <=> \A i \in DOMAIN fs : FieldState(fs[i], "clear") = "ZeroValid"
  BY <1>4, Zenon DEF Flag
<1>6. r.exact = r.accepts
  BY <1>2, <1>3, <1>4, Zenon
<1>7. (r.clear = "ZeroValid" => r.accepts) /\ (r.accepts => r.zero = "ZeroValid")
  BY <1>2, <1>3, <1>4, <1>5, Zenon
<1>8. r \in WireType
  BY <1>5, Zenon DEF Record, WireType
<1> HIDE DEF r
<1> QED BY <1>6, <1>7, <1>8, Zenon DEF SoundWire, r

\* A payload publishes what its proof does with zero bytes, tag by tag.
LEMMA PayloadSound ==
    ASSUME Inv, NEW e \in wires, NEW claimed \in SUBSET e.tags,
           NEW v \in [claimed -> wires \cup {Unit}], claimed # {}
    PROVE  SoundPayload(Payload(e, v))
<1> DEFINE p == Payload(e, v)
<1>1. \A d \in claimed : SoundWire(v[d])
  <2>1. SoundWire(Unit)
    BY DEF SoundWire, Unit, WireType
  <2> QED BY <2>1, InvParts
<1>2. claimed \subseteq Discriminant /\ e.tags \in SUBSET Discriminant
  BY InvParts DEF SoundWire, WireType
<1>3. /\ p.tags = e.tags
      /\ p.zero = Flag(\E s \in {v[d].zero : d \in claimed} : s = "ZeroValid")
      /\ p.clear = Flag(\A s \in {Flag(0 \in claimed)} \cup {v[d].clear : d \in claimed} :
                           s = "ZeroValid")
      /\ p.exact = (\E d \in claimed : d = 0 /\ v[d].exact)
      /\ p.accepts = {d \in claimed : v[d].accepts}
  BY DEF Payload, OrChain, AndChain
<1>4. /\ p.zero \in {"ZeroValid", "ZeroInvalid"} /\ p.clear \in {"ZeroValid", "ZeroInvalid"}
      /\ p.zero = "ZeroValid" <=> \E d \in claimed : v[d].zero = "ZeroValid"
      /\ p.clear = "ZeroValid" =>
            0 \in claimed /\ \A d \in claimed : v[d].clear = "ZeroValid"
  <2>1. /\ p.zero \in {"ZeroValid", "ZeroInvalid"} /\ p.clear \in {"ZeroValid", "ZeroInvalid"}
        /\ p.zero = "ZeroValid" <=> \E d \in claimed : v[d].zero = "ZeroValid"
    BY <1>3, Zenon DEF Flag
  <2>2. ASSUME p.clear = "ZeroValid"
        PROVE  \A s \in {Flag(0 \in claimed)} \cup {v[d].clear : d \in claimed} :
                  s = "ZeroValid"
    BY <1>3, <2>2, Zenon DEF Flag
  <2>3. Flag(0 \in claimed) = "ZeroValid" => 0 \in claimed
    BY DEF Flag
  <2> QED BY <2>1, <2>2, <2>3, Zenon
<1>5. p.accepts \subseteq p.tags
  BY <1>3
<1>6. p.exact = (0 \in p.accepts)
  <2>1. 0 \in p.accepts <=> \E d \in claimed : d = 0 /\ v[d].accepts
    BY <1>3
  <2>2. (\E d \in claimed : d = 0 /\ v[d].accepts) <=> \E d \in claimed : d = 0 /\ v[d].exact
    BY <1>1, Zenon DEF SoundWire
  <2>3. p.exact \in BOOLEAN /\ (p.exact <=> \E d \in claimed : d = 0 /\ v[d].exact)
    BY <1>3, Zenon
  <2>4. p.exact <=> 0 \in p.accepts
    BY <2>1, <2>2, <2>3
  <2> HIDE DEF p
  <2>5. CASE 0 \in p.accepts
    BY <2>3, <2>4, <2>5
  <2>6. CASE 0 \notin p.accepts
    BY <2>3, <2>4, <2>6
  <2> QED BY <2>5, <2>6
<1>7. p.clear = "ZeroValid" => 0 \in p.accepts
  BY <1>1, <1>3, <1>4, Zenon DEF SoundWire
<1>8. p.accepts # {} => p.zero = "ZeroValid"
  BY <1>1, <1>3, <1>4, Zenon DEF SoundWire
<1>9. p \in PayloadType
  BY <1>2, <1>3, <1>4, Zenon DEF Payload, PayloadType
<1> HIDE DEF p
<1> QED BY <1>5, <1>6, <1>7, <1>8, <1>9, Zenon DEF SoundPayload, p

\* One declaration keeps the invariant.
LEMMA Step == Inv /\ [Next]_vars => Inv'
<1> SUFFICES ASSUME Inv, [Next]_vars PROVE Inv'
  OBVIOUS
<1>1. /\ \A t \in wires : SoundWire(t)
      /\ \A p \in payloads : SoundPayload(p)
      /\ optionals \subseteq [cat : {"option"}, of : wires, length : Length]
      /\ PresentIsNotAbsent
  BY InvParts
<1>2. SUFFICES /\ \A t \in wires' : SoundWire(t)
               /\ \A p \in payloads' : SoundPayload(p)
               /\ optionals' \subseteq [cat : {"option"}, of : wires', length : Length]
               /\ PresentIsNotAbsent'
  BY DEF Inv, TypeOK, ConstantIsExact, ClearIsSound, ZeroStateIsSafe, SoundWire,
         SoundPayload, WireType, PayloadType
<1>3. ASSUME NEW D \in SUBSET Discriminant, DeclareEnum(D)
      PROVE  <1>2!1
  BY <1>1, <1>3, EnumSound DEF DeclareEnum, PresentIsNotAbsent
<1>4. ASSUME NEW n \in 1 .. MaxFields, NEW fs \in [1 .. n -> Field], DeclareRecord(fs)
      PROVE  <1>2!1
  <2>1. SoundWire(Record(fs))
    BY <1>4, RecordSound DEF DeclareRecord
  <2>2. ASSUME NEW i \in DOMAIN fs, fs[i].cat = "option"
        PROVE  /\ fs[i] \in [cat : {"option"}, of : wires', length : Length]
               /\ ~ \A k \in 1 .. fs[i].length : fs[i].of.accepts
    <3>1. fs[i] \in [cat : {"option"}, of : wires, length : Length]
      BY <2>2 DEF Field
    <3>2. fs[i].of.zero = "ZeroInvalid" /\ 1 \in 1 .. fs[i].length
      BY <1>4, <2>2, <3>1, DeclarationAssumption DEF DeclareRecord, Accepted
    <3>3. ~ fs[i].of.accepts
      BY <1>1, <3>1, <3>2 DEF SoundWire
    <3> QED BY <1>4, <3>1, <3>2, <3>3 DEF DeclareRecord
  <2>3. \A t \in wires' : SoundWire(t)
    BY <1>1, <1>4, <2>1 DEF DeclareRecord
  <2>4. /\ optionals' \subseteq [cat : {"option"}, of : wires', length : Length]
        /\ PresentIsNotAbsent'
    BY <1>1, <1>4, <2>2 DEF DeclareRecord, PresentIsNotAbsent
  <2> QED BY <1>1, <1>4, <2>3, <2>4 DEF DeclareRecord
<1>5. ASSUME NEW e \in wires, NEW claimed \in SUBSET e.tags,
             NEW v \in [claimed -> wires \cup {Unit}], DeclarePayload(e, v)
      PROVE  <1>2!1
  <2>1. SoundPayload(Payload(e, v))
    BY <1>5, PayloadSound DEF DeclarePayload
  <2> QED BY <1>1, <1>5, <2>1 DEF DeclarePayload, PresentIsNotAbsent
<1>6. CASE UNCHANGED vars
  BY <1>1, <1>6 DEF vars, PresentIsNotAbsent
<1> QED BY <1>3, <1>4, <1>5, <1>6 DEF Next

\* The invariant of every program: constants, states and optionals are right
\* together, whatever is declared in whatever order.
THEOREM Safety == Spec => []Inv
<1>1. Init => Inv
  BY DEF Init, Inv, TypeOK, ConstantIsExact, ClearIsSound, ZeroStateIsSafe,
         PresentIsNotAbsent
<1> QED BY <1>1, Step, PTL DEF Spec

\* What is published has its type.
THEOREM TypeCorrect == Spec => []TypeOK
<1>1. Inv => TypeOK BY DEF Inv
<1> QED BY <1>1, Safety, PTL

\* ZERO_IS_VALID is what access answers to the all-zero bytes.
THEOREM ExactConstant == Spec => []ConstantIsExact
<1>1. Inv => ConstantIsExact BY DEF Inv
<1> QED BY <1>1, Safety, PTL

\* clear() exists only where zero bytes are a valid record.
THEOREM ClearSound == Spec => []ClearIsSound
<1>1. Inv => ClearIsSound BY DEF Inv
<1> QED BY <1>1, Safety, PTL

\* A type or payload whose zero bytes may be accepted is marked ZeroValid.
THEOREM StateSafe == Spec => []ZeroStateIsSafe
<1>1. Inv => ZeroStateIsSafe BY DEF Inv
<1> QED BY <1>1, Safety, PTL

\* No optional can hold a value that reads back as None.
THEOREM SentinelSound == Spec => []PresentIsNotAbsent
<1>1. Inv => PresentIsNotAbsent BY DEF Inv
<1> QED BY <1>1, Safety, PTL
=============================================================================
