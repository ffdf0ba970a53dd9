----------------------------- MODULE WireLayout -----------------------------
(***************************************************************************)
(* The wire types of a program, declared one after the other: fixed        *)
(* arrays, payload unions and records, with align options on fields and on *)
(* the record.  A record is laid out field by field, and the padding       *)
(* ranges of its descriptor are emitted on the way.                        *)
(*                                                                         *)
(* What repr(C) gives arrays, unions and structs is the compiler's part;   *)
(* a later declaration sees the size and the alignment of an earlier one.  *)
(***************************************************************************)
EXTENDS Integers, Sequences, FiniteSets, FiniteSetsExt

CONSTANTS
    Leaf,        \* size and align of scalar and string wires
    AlignOption, \* values written in align = ...
    Length,      \* array lengths
    MaxFields,   \* bounds: fields of a record, size of a wire,
    MaxSize,     \* declarations of a program
    MaxTypes

None == 0   \* no align option

Layout == [size : 0 .. MaxSize, align : 1 .. MaxSize]

-----------------------------------------------------------------------------
(* repr(C), and the wrapper that raises an alignment *)

RoundUp(n, a) == ((n + a - 1) \div a) * a

ArrayWire(element, n) == [size |-> element.size * n, align |-> element.align]

\* Mutant: the union takes the alignment of its largest variant.
UnionWireLargest(variants) ==
    LET largest == CHOOSE t \in variants : \A u \in variants : u.size <= t.size
    IN [size |-> RoundUp(largest.size, largest.align), align |-> largest.align]

UnionWire(variants) ==
    LET align == Max({t.align : t \in variants})
    IN [size |-> RoundUp(Max({t.size : t \in variants}), align), align |-> align]

\* A unit variant is stored as one byte.
UnitWire == [size |-> 1, align |-> 1]

\* VALUE_OFFSET of AlignedWire<t, a>: the value follows the empty marker.
ValueOffset(t) == RoundUp(0, t.align)

AlignedWire(t, a) ==
    LET align == Max({a, t.align})
    IN [size |-> RoundUp(ValueOffset(t) + t.size, align), align |-> align]

\* wire_field_type, aligned_root_wire.
Storage(t, a) == IF a = None THEN t ELSE AlignedWire(t, a)

AlignmentMarker(a) == \E k \in 0 .. 29 : a = 2 ^ k

\* As the language has it, an alignment is a power of two and divides the
\* size of its type; a length is a usize.
ASSUME LeafAssumption ==
    \A t \in Leaf : t.size \in Nat /\ AlignmentMarker(t.align) /\ t.size % t.align = 0
ASSUME LengthAssumption == Length \subseteq Nat

-----------------------------------------------------------------------------
VARIABLES
    types,    \* wires declared so far
    arrays,   \* wire, element and length of the arrays among them
    unions,   \* wire and variants of the payloads among them
    align,    \* align option of the current record, or None
    fields,   \* its fields: offset in the struct, value wire, storage wire
    padding,  \* its padding ranges: start, end
    root      \* its wire once it is closed, or an empty set

vars == <<types, arrays, unions, align, fields, padding, root>>

Declared == types \cup Leaf
Open == root = {}

\* Between two declarations of a program that has room for one more.
Idle == (fields = <<>> \/ ~Open) /\ Cardinality(types) < MaxTypes

\* End of the last field in the struct: previous_end of the padding ranges,
\* where the value of an aligned root starts at VALUE_OFFSET (zero).
PreviousEnd ==
    IF fields = <<>> THEN 0 ELSE fields[Len(fields)].offset + fields[Len(fields)].storage.size

Struct ==
    LET strictest == Max({fields[i].storage.align : i \in DOMAIN fields})
    IN [size |-> RoundUp(PreviousEnd, strictest), align |-> strictest]

Init ==
    /\ types = {} /\ arrays = {} /\ unions = {}
    /\ align = None
    /\ fields = <<>> /\ padding = <<>> /\ root = {}

NoRecord == align' = None /\ fields' = <<>> /\ padding' = <<>> /\ root' = {}

DeclareArray(t, n) ==
    /\ Idle
    /\ n # 0
    /\ ArrayWire(t, n).size <= MaxSize
    /\ types' = types \cup {ArrayWire(t, n)}
    /\ arrays' = arrays \cup {[wire |-> ArrayWire(t, n), element |-> t, length |-> n]}
    /\ NoRecord
    /\ UNCHANGED unions

DeclarePayload(variants) ==
    /\ Idle
    /\ UnionWire(variants).size <= MaxSize
    /\ types' = types \cup {UnionWire(variants)}
    /\ unions' = unions \cup {[wire |-> UnionWire(variants), variants |-> variants]}
    /\ NoRecord
    /\ UNCHANGED arrays

BeginRecord(a) ==
    /\ Idle
    /\ a = None \/ AlignmentMarker(a)
    /\ align' = a
    /\ fields' = <<>> /\ padding' = <<>> /\ root' = {}
    /\ UNCHANGED <<types, arrays, unions>>

\* Mutant: what the wrapper adds after the value is not reported.
PaddingRangesShort(t, a, offset) ==
    <<[start |-> PreviousEnd, end |-> offset]>>
    \o IF a = None THEN <<>> ELSE <<[start |-> offset, end |-> offset + ValueOffset(t)]>>

\* struct_padding_ranges, for one field.
PaddingRanges(t, a, offset) ==
    <<[start |-> PreviousEnd, end |-> offset]>>
    \o IF a = None THEN <<>>
       ELSE <<[start |-> offset, end |-> offset + ValueOffset(t)],
              [start |-> offset + ValueOffset(t) + t.size,
               end |-> offset + Storage(t, a).size]>>

Field(t, a) ==
    /\ Open /\ Len(fields) < MaxFields /\ Cardinality(types) < MaxTypes
    /\ a = None \/ AlignmentMarker(a)
    /\ LET s == Storage(t, a)
           offset == RoundUp(PreviousEnd, s.align)
       IN /\ offset + s.size <= MaxSize
          /\ fields' = Append(fields, [offset |-> offset, value |-> t, storage |-> s])
          /\ padding' = padding \o PaddingRanges(t, a, offset)
    /\ UNCHANGED <<types, arrays, unions, align, root>>

\* The root wire, its trailing range, and its publication.
CloseRecord ==
    /\ Open /\ fields # <<>>
    /\ Storage(Struct, align).size \in 1 .. MaxSize
    /\ root' = {Storage(Struct, align)}
    /\ padding' = Append(padding, [start |-> PreviousEnd, end |-> Storage(Struct, align).size])
    /\ types' = types \cup root'
    /\ UNCHANGED <<arrays, unions, align, fields>>

Next ==
    \/ \E t \in Declared, n \in Length : DeclareArray(t, n)
    \/ \E t, u \in Declared \cup {UnitWire} : DeclarePayload({t, u})
    \/ \E a \in AlignOption \cup {None} : BeginRecord(a)
    \/ \E t \in Declared, a \in AlignOption \cup {None} : Field(t, a)
    \/ CloseRecord

Spec == Init /\ [][Next]_vars

-----------------------------------------------------------------------------
(* Properties *)

\* Layouts stay in range, and no array is empty.
TypeOK ==
    /\ types \subseteq Layout
    /\ arrays \subseteq [wire : types, element : Declared, length : Length \ {0}]
    /\ unions \subseteq [wire : types, variants : SUBSET (Declared \cup {UnitWire})]
    /\ align \in AlignOption \cup {None}
    /\ fields \in Seq([offset : 0 .. MaxSize, value : Declared, storage : Layout])
    /\ padding \in Seq([start : 0 .. MaxSize, end : 0 .. MaxSize])
    /\ root \subseteq types

\* The ABI assertion, and the two checks of subrange at any aligned address.
Fits(inner, offset, outer) ==
    /\ offset + inner.size <= outer.size
    /\ offset % inner.align = 0
    /\ outer.align % inner.align = 0

\* Whatever the generated code selects is accepted by subrange at every
\* aligned address: the storage of a field and the value in it, each element
\* of an array, each variant of a payload.  So the layout errors below a
\* proved root, answered with unreachable!, cannot occur.
SelectionsSucceed ==
    /\ \A r \in root : \A i \in DOMAIN fields :
          LET f == fields[i]
          IN /\ Fits(f.storage, ValueOffset(Struct) + f.offset, r)
             /\ Fits(f.value, ValueOffset(f.value), f.storage)
    /\ \A a \in arrays : \A k \in 0 .. a.length - 1 : Fits(a.element, k * a.element.size, a.wire)
    /\ \A u \in unions : \A v \in u.variants : Fits(v, 0, u.wire)

Covers(lo, hi, b) == lo <= b /\ b < hi

\* The padding a descriptor reports is exact: every byte of a record lies in
\* one field's value or in one padding range, and in no two of them.  So two
\* fields never share a byte either, which RecordHandle assumes.
PaddingIsExact ==
    \A r \in root : \A b \in 0 .. r.size - 1 :
        Cardinality({i \in DOMAIN fields :
                        LET start == fields[i].offset + ValueOffset(fields[i].value)
                        IN Covers(start, start + fields[i].value.size, b)})
        + Cardinality({i \in DOMAIN padding : Covers(padding[i].start, padding[i].end, b)}) = 1
=============================================================================
