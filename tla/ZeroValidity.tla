---------------------------- MODULE ZeroValidity ----------------------------
(***************************************************************************)
(* What the macro computes about the all-zero bytes of every declaration,  *)
(* from the declaration alone, and what the generated proof answers when   *)
(* it is given those bytes:                                                *)
(*    ZeroState      an optional may hold the type only if ZeroInvalid     *)
(*    ClearState     clear() exists only if ZeroValid                      *)
(*    ZERO_IS_VALID  a zeroed buffer exists only if TRUE                   *)
(* A declaration is composed from what earlier declarations publish, never *)
(* from their bodies, so a type is known here by what it publishes (zero,  *)
(* clear, exact) and by whether its proof accepts zero bytes (accepts).    *)
(***************************************************************************)
EXTENDS Integers, FiniteSets

CONSTANTS
    Discriminant,   \* raw values of scalar enums
    Length,         \* array lengths and terminated capacities on offer
    MaxFields,      \* fields of one record
    MaxTypes        \* distinct types of one program (bound)

ASSUME DeclarationAssumption ==
    /\ Discriminant \subseteq Nat /\ Length \subseteq Nat
    /\ MaxFields \in Nat /\ MaxTypes \in Nat

-----------------------------------------------------------------------------
(* The two-state protocol *)

Flag(valid) == IF valid THEN "ZeroValid" ELSE "ZeroInvalid"

\* ZeroState::Or keeps ZeroValid only if both operands are; And, if one is.
\* Generated code only ever chains one of the two.
OrChain(states) == Flag(\A s \in states : s = "ZeroValid")
AndChain(states) == Flag(\E s \in states : s = "ZeroValid")

-----------------------------------------------------------------------------
VARIABLES
    wires,      \* declared records and scalar enums, as they publish themselves
    payloads,   \* declared tagged payloads
    optionals   \* the optional fields of declared records

vars == <<wires, payloads, optionals>>

\* tags: the discriminants of an enum, none for a record.
WireType ==
    [tags : SUBSET Discriminant, zero : {"ZeroValid", "ZeroInvalid"},
     clear : {"ZeroValid", "ZeroInvalid"}, exact : BOOLEAN, accepts : BOOLEAN]

\* tags: the discriminants of the tag enum; accepts: those under which the
\* proof accepts a zero payload.
PayloadType ==
    [tags : SUBSET Discriminant, zero : {"ZeroValid", "ZeroInvalid"},
     clear : {"ZeroValid", "ZeroInvalid"}, exact : BOOLEAN, accepts : SUBSET Discriminant]

\* Scalars, Booleans, fixed bytes and prefixed strings, and arrays of them,
\* are one category: every proof of theirs accepts zero bytes.
Field ==
    [cat : {"scalar"}]
        \cup [cat : {"terminated"}, length : Length]
        \cup [cat : {"path"}, of : wires]
        \cup [cat : {"array"}, of : wires, length : Length]
        \cup [cat : {"option"}, of : wires, length : Length]   \* length 1: Option<T>
        \cup [cat : {"tagged"}, of : payloads, tag : 1 .. MaxFields]

-----------------------------------------------------------------------------
(* Declarations *)

ScalarEnum(D) ==
    [tags |-> D, zero |-> Flag(0 \in D), clear |-> Flag(0 \in D),
     exact |-> 0 \in D, accepts |-> 0 \in D]

\* Mutant: a symbolic length is not asserted to be nonzero.
AcceptedAnyLength(f) == f.cat = "option" => f.of.zero = "ZeroInvalid"

\* array_length, nonzero_assertions, the capacity of terminated strings and
\* the OptionalWireType bound.
Accepted(f) ==
    /\ f.cat \in {"terminated", "array", "option"} => f.length # 0
    /\ f.cat = "option" => f.of.zero = "ZeroInvalid"

\* link_external_tags, and the tag type a payload names.
Linked(fs) ==
    \A i \in DOMAIN fs : fs[i].cat = "tagged" =>
        /\ fs[i].tag \in DOMAIN fs \ {i}
        /\ fs[fs[i].tag].cat = "path"
        /\ fs[fs[i].tag].of.tags = fs[i].of.tags
        /\ fs[i].of.tags # {}
        /\ \A j \in DOMAIN fs \ {i} : fs[j].cat = "tagged" => fs[j].tag # fs[i].tag

FieldState(f, projection) ==
    IF f.cat \in {"path", "array", "tagged"} THEN f.of[projection] ELSE "ZeroValid"

FieldZeroIsValid(f) == f.cat \in {"path", "array", "tagged"} => f.of.exact

\* The proof of field i over the zero bytes of its record.
FieldProves(fs, i) ==
    /\ fs[i].cat = "terminated" => fs[i].length > 0
    /\ fs[i].cat = "path" => fs[i].of.accepts
    /\ fs[i].cat = "array" => \A k \in 1 .. fs[i].length : fs[i].of.accepts
    /\ fs[i].cat = "tagged" => fs[fs[i].tag].of.accepts /\ 0 \in fs[i].of.accepts

Record(fs) ==
    [tags |-> {},
     zero |-> OrChain({FieldState(fs[i], "zero") : i \in DOMAIN fs}),
     clear |-> OrChain({FieldState(fs[i], "clear") : i \in DOMAIN fs}),
     exact |-> \A i \in DOMAIN fs : FieldZeroIsValid(fs[i]),
     accepts |-> \A i \in DOMAIN fs : FieldProves(fs, i)]

\* A unit variant's terms; its arm of the proof is Ok(()).
Unit ==
    [tags |-> {}, zero |-> "ZeroValid", clear |-> "ZeroValid", exact |-> TRUE,
     accepts |-> TRUE]

\* Mutant: a tag no variant claims is not refused.
PayloadUnknownTag(e, v) ==
    [tags |-> e.tags,
     zero |-> AndChain({v[d].zero : d \in DOMAIN v}),
     clear |-> OrChain({Flag(0 \in DOMAIN v)} \cup {v[d].clear : d \in DOMAIN v}),
     exact |-> \E d \in DOMAIN v : d = 0 /\ v[d].exact,
     accepts |-> {d \in Discriminant : d \in DOMAIN v => v[d].accepts}]

\* Mutant: clear() forgets that the zero tag must be claimed.
PayloadUnclaimed(e, v) ==
    [tags |-> e.tags,
     zero |-> AndChain({v[d].zero : d \in DOMAIN v}),
     clear |-> OrChain({v[d].clear : d \in DOMAIN v}),
     exact |-> \E d \in DOMAIN v : d = 0 /\ v[d].exact,
     accepts |-> {d \in DOMAIN v : v[d].accepts}]

\* Mutant: the two chains are swapped, so one zero-invalid variant suffices.
PayloadSwapped(e, v) ==
    [tags |-> e.tags,
     zero |-> OrChain({v[d].zero : d \in DOMAIN v}),
     clear |-> OrChain({Flag(0 \in DOMAIN v)} \cup {v[d].clear : d \in DOMAIN v}),
     exact |-> \E d \in DOMAIN v : d = 0 /\ v[d].exact,
     accepts |-> {d \in DOMAIN v : v[d].accepts}]

\* Variants v: claimed tag of enum e -> the type its newtype holds, or Unit.
Payload(e, v) ==
    [tags |-> e.tags,
     zero |-> AndChain({v[d].zero : d \in DOMAIN v}),
     clear |-> OrChain({Flag(0 \in DOMAIN v)} \cup {v[d].clear : d \in DOMAIN v}),
     exact |-> \E d \in DOMAIN v : d = 0 /\ v[d].exact,
     accepts |-> {d \in DOMAIN v : v[d].accepts}]

-----------------------------------------------------------------------------
Init == wires = {} /\ payloads = {} /\ optionals = {}

DeclareEnum(D) ==
    /\ D # {}
    /\ wires' = wires \cup {ScalarEnum(D)}
    /\ UNCHANGED <<payloads, optionals>>

DeclareRecord(fs) ==
    /\ \A i \in DOMAIN fs : Accepted(fs[i])
    /\ Linked(fs)
    /\ wires' = wires \cup {Record(fs)}
    /\ optionals' = optionals \cup {fs[i] : i \in {k \in DOMAIN fs : fs[k].cat = "option"}}
    /\ UNCHANGED payloads

DeclarePayload(e, v) ==
    /\ DOMAIN v # {}
    /\ payloads' = payloads \cup {Payload(e, v)}
    /\ UNCHANGED <<wires, optionals>>

Next ==
    /\ \/ \E D \in SUBSET Discriminant : DeclareEnum(D)
       \/ \E n \in 1 .. MaxFields : \E fs \in [1 .. n -> Field] : DeclareRecord(fs)
       \/ \E e \in wires : \E claimed \in SUBSET e.tags :
             \E v \in [claimed -> wires \cup {Unit}] : DeclarePayload(e, v)
    /\ Cardinality(wires') + Cardinality(payloads') <= MaxTypes

Spec == Init /\ [][Next]_vars

-----------------------------------------------------------------------------
(* Properties *)

\* What is published has its type, and a payload proof only ever accepts a
\* tag of its own enum: every other one is UnknownUnionTag.
TypeOK ==
    /\ wires \subseteq WireType
    /\ payloads \subseteq PayloadType
    /\ \A p \in payloads : p.accepts \subseteq p.tags
    /\ optionals \subseteq [cat : {"option"}, of : wires, length : Length]

\* ZERO_IS_VALID is exact: it is TRUE of a declaration if and only if access
\* accepts the all-zero bytes, for a payload under the zero tag.
ConstantIsExact ==
    /\ \A t \in wires : t.exact = t.accepts
    /\ \A p \in payloads : p.exact = (0 \in p.accepts)

\* A record that has clear() is accepted by its own proof after a clear():
\* the handle stays proved.
ClearIsSound ==
    /\ \A t \in wires : t.clear = "ZeroValid" => t.accepts
    /\ \A p \in payloads : p.clear = "ZeroValid" => 0 \in p.accepts

\* ZeroState errs on the safe side: a type whose proof accepts zero bytes, or
\* a payload with one such variant, is ZeroValid, so no Option may hold it.
ZeroStateIsSafe ==
    /\ \A t \in wires : t.accepts => t.zero = "ZeroValid"
    /\ \A p \in payloads : p.accepts # {} => p.zero = "ZeroValid"

\* No value an optional may hold is stored as all-zero bytes, which read back
\* as None, through any nesting of records, payloads and arrays.
PresentIsNotAbsent ==
    \A o \in optionals : ~ \A k \in 1 .. o.length : o.of.accepts
=============================================================================
