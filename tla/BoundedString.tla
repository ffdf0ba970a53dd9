--------------------------- MODULE BoundedString ----------------------------
(***************************************************************************)
(* One bounded string field over its exact wire bytes: the four forms      *)
(* (str, CStr, U16Str, U16CStr), the declaration the macro accepts, the    *)
(* proof that reads the active part only, and the preflight and commit     *)
(* behind StringMut::set, StringMut::clear and the initialization of stale *)
(* bytes.  The declaration, width and order of the length prefix, and the  *)
(* offset of the data are those of the generated wire type.                *)
(***************************************************************************)
EXTENDS WireCodec, Sequences

CONSTANTS
    Declaration,  \* string declarations offered to the macro
    Utf8(_),      \* core::str::from_utf8 accepts the bytes
    Excess,       \* units by which offered texts may exceed the capacity
    NoText

Prefixed == {"str", "u16str"}
Terminated == {"cstr", "u16cstr"}

\* width is that of len_type, 0 for the terminated forms.
ASSUME DeclarationAssumption ==
    Declaration \subseteq
        [form : Prefixed \cup Terminated, cap : Nat, width : Width \cup {0}, order : Order]
ASSUME ExcessAssumption == Excess \in Nat
ASSUME Utf8Assumption == Utf8(<<>>)

\* The macro's checks on a string field.  A capacity the length type cannot
\* represent is not among them.
Accepted(d) ==
    \/ d.form \in Prefixed /\ d.width # 0
    \/ d.form \in Terminated /\ d.width = 0 /\ d.cap # 0

-----------------------------------------------------------------------------
(* Wire layout *)

UnitSize(d) == IF d.form \in {"str", "cstr"} THEN 1 ELSE 2

Unit(d) == 0 .. Values(UnitSize(d)) - 1

\* DATA_OFFSET: the prefix, then padding up to the unit's alignment.
DataOffset(d) == IF d.width = 1 THEN UnitSize(d) ELSE d.width

\* size_of the wire: the data, then padding up to the wire's alignment.
WireSize(d) ==
    LET end == DataOffset(d) + d.cap * UnitSize(d)
        align == IF d.width > UnitSize(d) THEN d.width ELSE UnitSize(d)
    IN end + ((align - (end % align)) % align)

Wire(d) == [0 .. WireSize(d) - 1 -> Byte]

UnitAt(d, m, k) ==
    FromBytes([j \in 0 .. UnitSize(d) - 1 |-> m[DataOffset(d) + (k - 1) * UnitSize(d) + j]],
              UnitSize(d), "native")

\* LengthWire::load.
PrefixAt(d, m) == FromBytes([j \in 0 .. d.width - 1 |-> m[j]], d.width, d.order)

-----------------------------------------------------------------------------
(* Proof *)

Active(d, m, n) == [k \in 1 .. n |-> UnitAt(d, m, k)]

\* n units precede the first terminator.
NulAfter(d, m, n) ==
    /\ UnitAt(d, m, n + 1) = 0
    /\ \A k \in 1 .. n : UnitAt(d, m, k) # 0

TextLength(d, m) ==
    IF d.form \in Prefixed
    THEN PrefixAt(d, m)
    ELSE CHOOSE n \in 0 .. d.cap - 1 : NulAfter(d, m, n)

Text(d, m) == Active(d, m, TextLength(d, m))

\* Mutant: the encoding of the whole capacity is checked.
ProofWhole(d, m) ==
    CASE d.form \in Prefixed ->
            IF PrefixAt(d, m) > d.cap THEN "LengthOutOfBounds"
            ELSE IF d.form = "str" /\ ~Utf8(Active(d, m, d.cap)) THEN "InvalidUtf8"
            ELSE "Ok"
      [] d.form \in Terminated ->
            IF \E n \in 0 .. d.cap - 1 : NulAfter(d, m, n) THEN "Ok" ELSE "MissingNul"

\* prove_str, prove_c_str, prove_u16_str, prove_u16_c_str.
Proof(d, m) ==
    CASE d.form \in Prefixed ->
            IF PrefixAt(d, m) > d.cap THEN "LengthOutOfBounds"
            ELSE IF d.form = "str" /\ ~Utf8(Text(d, m)) THEN "InvalidUtf8"
            ELSE "Ok"
      [] d.form \in Terminated ->
            IF \E n \in 0 .. d.cap - 1 : NulAfter(d, m, n) THEN "Ok" ELSE "MissingNul"

-----------------------------------------------------------------------------
(* Mutation *)

\* Logical values of the declared Rust type: UTF-8, or no interior nul.
IsText(d, v) ==
    /\ d.form = "str" => Utf8(v)
    /\ d.form \in Terminated => \A k \in DOMAIN v : v[k] # 0

Texts(d) ==
    {v \in UNION {[1 .. n -> Unit(d)] : n \in 0 .. d.cap + Excess} : IsText(d, v)}

\* The units a write stores: to_bytes_with_nul for the terminated forms.
Stored(d, v) == IF d.form \in Prefixed THEN v ELSE Append(v, 0)

\* Mutant: the representability check is missing.
PreflightUnchecked(d, v) ==
    IF Len(Stored(d, v)) > d.cap THEN "CapacityExceeded" ELSE "Ok"

\* preflight_str, preflight_c_str, preflight_u16_str, preflight_u16_c_str.
Preflight(d, v) ==
    IF Len(Stored(d, v)) > d.cap
    THEN "CapacityExceeded"
    ELSE IF d.form \in Prefixed /\ ~Represents(Len(v), d.width)
    THEN "LengthUnrepresentable"
    ELSE "Ok"

\* The data bytes of the first n units.
InUnits(d, n, a) == DataOffset(d) <= a /\ a < DataOffset(d) + n * UnitSize(d)

\* Mutant: units are stored in the prefix's byte order.
StoreUnitsInPrefixOrder(d, m, v) ==
    [a \in DOMAIN m |->
        IF InUnits(d, Len(v), a)
        THEN ToBytes(v[1 + (a - DataOffset(d)) \div UnitSize(d)], UnitSize(d), d.order)
                [(a - DataOffset(d)) % UnitSize(d)]
        ELSE m[a]]

\* store_native_u16s, copy_from_slice.
StoreUnits(d, m, v) ==
    [a \in DOMAIN m |->
        IF InUnits(d, Len(v), a)
        THEN ToBytes(v[1 + (a - DataOffset(d)) \div UnitSize(d)], UnitSize(d), "native")
                [(a - DataOffset(d)) % UnitSize(d)]
        ELSE m[a]]

\* LengthWire::store_preflighted, nothing for the terminated forms.
StorePrefix(d, m, n) ==
    [a \in DOMAIN m |-> IF a < d.width THEN ToBytes(n, d.width, d.order)[a] ELSE m[a]]

\* Mutant: the unused capacity is cleared.
CommitClearsTail(d, m, v) ==
    StorePrefix(d, StoreUnits(d, [a \in DOMAIN m |-> 0], Stored(d, v)), Len(v))

\* commit_str and its three counterparts: data, then prefix.
Commit(d, m, v) == StorePrefix(d, StoreUnits(d, m, Stored(d, v)), Len(v))

ASSUME NoTextAssumption == \A d \in Declaration : NoText \notin Texts(d)

-----------------------------------------------------------------------------
VARIABLES
    decl,     \* the field's declaration
    mem,      \* its wire bytes
    proved,   \* a StringMut is outstanding, or the field is initialized
    source,   \* the argument of the last set
    result    \* the last result

vars == <<decl, mem, proved, source, result>>

Init ==
    /\ decl \in {d \in Declaration : Accepted(d)}
    /\ mem \in Wire(decl)
    /\ proved = FALSE
    /\ source = <<>>
    /\ result = "Ok"

\* StringMut::prove.
Prove ==
    /\ ~proved
    /\ result' = Proof(decl, mem)
    /\ proved' = (Proof(decl, mem) = "Ok")
    /\ UNCHANGED <<decl, mem, source>>

\* StringMut::set, and the same preflight and commit over stale bytes when
\* a parent initializes the field.
Set(v) ==
    /\ source' = v
    /\ result' = Preflight(decl, v)
    /\ mem' = IF Preflight(decl, v) = "Ok" THEN Commit(decl, mem, v) ELSE mem
    /\ proved' = (proved \/ Preflight(decl, v) = "Ok")
    /\ UNCHANGED decl

\* StringMut::clear: the complete wire, padding included.
Clear ==
    /\ proved
    /\ mem' = [a \in DOMAIN mem |-> 0]
    /\ result' = "Ok"
    /\ UNCHANGED <<decl, proved, source>>

Next == Prove \/ Clear \/ \E v \in Texts(decl) : Set(v)

Spec == Init /\ [][Next]_vars

-----------------------------------------------------------------------------
(* Properties *)

\* The wire keeps its bytes in range and its size, whatever is stored.
TypeOK ==
    /\ decl \in Declaration /\ Accepted(decl)
    /\ mem \in Wire(decl)
    /\ proved \in BOOLEAN
    /\ source \in Texts(decl)
    /\ result \in {"Ok", "LengthOutOfBounds", "InvalidUtf8", "MissingNul",
                   "CapacityExceeded", "LengthUnrepresentable"}

\* StringMut::get never meets its unreachable! arm: after any sequence of
\* sets, rejected sets and clears the storage still passes the proof.
HandleStaysProved == proved => Proof(decl, mem) = "Ok"

\* The bytes that carry the text: the prefix and the stored units.
ActiveByte(d, m, a) ==
    a < d.width \/ InUnits(d, Len(Stored(d, Text(d, m))), a)

\* The proof and the text do not depend on unused capacity or padding: any
\* other value of such a byte gives the same verdict and the same text.
UnusedBytesIrrelevant ==
    Proof(decl, mem) = "Ok" =>
        \A a \in DOMAIN mem, b \in Byte :
            ~ActiveByte(decl, mem, a) =>
                LET other == [mem EXCEPT ![a] = b]
                IN Proof(decl, other) = "Ok" /\ Text(decl, other) = Text(decl, mem)

\* set writes the active bytes of the new text and nothing else: the tail
\* behind it and the padding keep their bytes.  Only clear erases them.
SetKeepsUnusedBytes ==
    [][\/ \A a \in DOMAIN mem' : mem'[a] = 0
       \/ \A a \in DOMAIN mem :
             mem'[a] # mem[a] => ActiveByte(decl, mem', a)]_vars

\* The longest text a declaration accepts.
LongestText(d) ==
    IF d.form \in Terminated THEN d.cap - 1
    ELSE IF Represents(d.cap, d.width) THEN d.cap ELSE Values(d.width) - 1

Abstract == INSTANCE BoundedText
    WITH kind <- decl,
         text <- IF proved THEN Text(decl, mem) ELSE NoText,
         outcome <- IF result = "Ok" THEN "Ok" ELSE "Error",
         Limit <- LongestText

\* The field implements the text cell of BoundedText: what was set is what is
\* read, over every byte order, prefix width and stale tail; a set fails
\* exactly when the text is too long, and then the old text remains.
ImplementsBoundedText == Abstract!Spec

\* What the documentation of StringMut::capacity says: "str and U16Str
\* capacities exclude the length prefix, so a value of up to capacity()
\* units is accepted".
CapacityIsAccepted ==
    proved /\ decl.form \in Prefixed =>
        \A v \in Texts(decl) : Len(v) <= decl.cap => Preflight(decl, v) = "Ok"
=============================================================================
