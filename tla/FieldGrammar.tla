---------------------------- MODULE FieldGrammar ----------------------------
(***************************************************************************)
(* What the analysis of one field accepts and what it makes of it: the     *)
(* field's zero options, the category of its type, and the options that    *)
(* category takes.                                                         *)
(*                                                                         *)
(* An attribute is a key with a value; a number literal that does not      *)
(* parse (a suffix, out of range) is -1.  A type is its wrappers, the      *)
(* outermost first, around a base: "Option", "lookalike" (another path     *)
(* that ends in Option) or "array" with its length; a length that is no    *)
(* literal or const path is -1, a symbolic one is positive.                *)
(***************************************************************************)
EXTENDS Integers, Sequences

Endian == {"native", "little", "big"}
FieldKey == {"capacity", "len_type", "endian", "align", "tag_field"}
StringCat == {"str", "CStr", "U16Str", "U16CStr"}

\* parse_alignment: a power of two no greater than 2^29.
AlignAccepted(n) == n \in {2 ^ k : k \in 0 .. 29}

\* The value parsers of parse_field_meta and parse_container_meta.
ValueAccepted(a) ==
    CASE a.key = "capacity" -> a.value >= 0
      [] a.key = "len_type" -> a.value \in {"u8", "u16", "u32"}
      [] a.key = "endian" -> a.value \in Endian
      [] a.key = "align" -> AlignAccepted(a.value)
      [] OTHER -> TRUE

\* A key is known, has a value of its kind and is not repeated, in one
\* attribute or across several.
AttrsAccepted(attrs, keys) ==
    /\ \A j \in DOMAIN attrs : attrs[j].key \in keys /\ ValueAccepted(attrs[j])
    /\ \A j, k \in DOMAIN attrs : attrs[j].key = attrs[k].key => j = k

\* The options read: the last value a key was given.
OptionsOf(attrs) ==
    [k \in {attrs[j].key : j \in DOMAIN attrs} |->
        LET last == CHOOSE j \in DOMAIN attrs :
                        /\ attrs[j].key = k
                        /\ \A i \in DOMAIN attrs : attrs[i].key = k => i <= j
        IN attrs[last].value]

Has(o, k) == k \in DOMAIN o

OptionOr(o, k, default) == IF Has(o, k) THEN o[k] ELSE default

-----------------------------------------------------------------------------
(* Classification.  A category is its leaf with the array depth around it  *)
(* and whether all of it is optional.                                      *)

Refused == [cat |-> "refused"]

Category(c) ==
    [cat |-> c, depth |-> 0, optional |-> FALSE, capacity |-> 0, len_type |-> "none",
     endian |-> "none", life |-> "none", tagged |-> FALSE, tag_field |-> 0]

\* borrowed_string: the capacity is required, the prefix is u32 by default.
BorrowedString(base, o) ==
    IF ~Has(o, "capacity") THEN Refused
    ELSE [Category(base.of) EXCEPT
            !.capacity = o["capacity"],
            !.len_type = IF base.of \in {"str", "U16Str"}
                         THEN OptionOr(o, "len_type", "u32") ELSE "none",
            !.life = base.life]

IsString(base) == base.is = "ref" /\ base.of \in StringCat

\* classify_field without wrappers.
ClassifyBase(base, o) ==
    CASE base.is \in {"primitive", "bool"} -> Category(base.is)
      [] IsString(base) -> BorrowedString(base, o)
      [] base.is = "ref" /\ base.of = "bytes" ->
            IF base.length > 0 THEN [Category("bytes") EXCEPT !.life = base.life] ELSE Refused
      [] base.is = "path" -> [Category("path") EXCEPT !.tagged = Has(o, "tag_field")]
      [] OTHER -> Refused

IsArray(w) == w.wrap = "array" /\ w.length > 0

\* classify_array_element, every level of a nested array.
ClassifyArray(wraps, base, o) ==
    LET leaf == IF base.is = "ref" /\ ~IsString(base) THEN Refused ELSE ClassifyBase(base, o)
    IN IF leaf = Refused \/ \E j \in DOMAIN wraps : ~IsArray(wraps[j]) THEN Refused
       ELSE [leaf EXCEPT !.depth = Len(wraps), !.tagged = FALSE]

\* classify_optional_inner: a path, or one array of paths.
ClassifyOptional(wraps, base) ==
    IF /\ base.is = "path"
       /\ wraps = <<>> \/ (Len(wraps) = 1 /\ IsArray(wraps[1]))
    THEN [Category("path") EXCEPT !.optional = TRUE, !.depth = Len(wraps)]
    ELSE Refused

ClassifyField(ty, o) ==
    IF ty.wraps = <<>> THEN ClassifyBase(ty.base, o)
    ELSE CASE Head(ty.wraps).wrap = "Option" -> ClassifyOptional(Tail(ty.wraps), ty.base)
           [] Head(ty.wraps).wrap = "array" -> ClassifyArray(ty.wraps, ty.base, o)
           [] Head(ty.wraps).wrap = "lookalike" -> Refused

-----------------------------------------------------------------------------
(* apply_field_options *)

\* Mutant: the options of an array or optional field are not looked at.
ApplicableUnchecked(c) ==
    CASE c.optional \/ c.depth > 0 -> FieldKey
      [] c.cat = "primitive" -> {"align", "endian"}
      [] c.cat \in {"str", "U16Str"} -> {"align", "capacity", "len_type", "endian"}
      [] c.cat \in {"CStr", "U16CStr"} -> {"align", "capacity"}
      [] c.cat = "path" -> {"align", "tag_field"}
      [] OTHER -> {"align"}

\* The options a category takes; an array of strings takes the string's.
Applicable(c) ==
    CASE c.optional \/ (c.depth > 0 /\ c.cat \notin StringCat) -> {"align"}
      [] ~c.optional /\ c.depth = 0 /\ c.cat = "primitive" -> {"align", "endian"}
      [] ~c.optional /\ c.cat \in {"str", "U16Str"} ->
            {"align", "capacity", "len_type", "endian"}
      [] ~c.optional /\ c.cat \in {"CStr", "U16CStr"} -> {"align", "capacity"}
      [] ~c.optional /\ c.depth = 0 /\ c.cat = "path" -> {"align", "tag_field"}
      [] OTHER -> {"align"}

ApplyFieldOptions(c, o, default) ==
    IF \/ ~(DOMAIN o \subseteq Applicable(c))
       \/ c.cat \in {"CStr", "U16CStr"} /\ c.capacity = 0
    THEN Refused
    ELSE IF c.cat \in {"str", "U16Str"}
    THEN [c EXCEPT !.endian = OptionOr(o, "endian", default)]
    ELSE c

\* One iteration of analyze_struct: the field's IR, or Refused.
FieldIr(d, default) ==
    LET o == OptionsOf(d.attrs)
        c == ClassifyField(d.ty, o)
        applied == IF c = Refused THEN Refused ELSE ApplyFieldOptions(c, o, default)
    IN IF ~AttrsAccepted(d.attrs, FieldKey) \/ applied = Refused THEN Refused
       ELSE [cat |-> "field", name |-> d.name, attrs |-> d.attrs, options |-> o,
             category |-> applied, wire_endian |-> OptionOr(o, "endian", default)]
=============================================================================
