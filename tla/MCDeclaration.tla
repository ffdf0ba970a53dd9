--------------------------- MODULE MCDeclaration ----------------------------
(***************************************************************************)
(* Items of at most three members.  The first field takes every type with  *)
(* up to two options (and three for a string); the later ones bring the    *)
(* names, tag links and lifetimes that can clash with it.                  *)
(***************************************************************************)
EXTENDS Declaration, TLC

Attr(k, v) == [key |-> k, value |-> v]

FieldAttrs ==
    {Attr("capacity", 0), Attr("capacity", 3), Attr("capacity", -1), Attr("len_type", "u8"),
     Attr("len_type", "u64"), Attr("endian", "little"), Attr("align", 4), Attr("align", 6),
     Attr("tag_field", <<"y">>), Attr("borrow", "a")}

AttrLists ==
    UNION {[1 .. n -> FieldAttrs] : n \in 0 .. 2}
    \cup {<<Attr("capacity", 3), Attr("len_type", "u8"), Attr("endian", "little")>>}

Array(n) == [wrap |-> "array", length |-> n]
Opt == [wrap |-> "Option", length |-> 0]
Lookalike == [wrap |-> "lookalike", length |-> 0]

Base(is, of, life, n) == [is |-> is, of |-> of, life |-> life, length |-> n]
Prim == Base("primitive", "u16", "none", 0)
Path == Base("path", "Child", "none", 0)
Str(of, life) == Base("ref", of, life, 0)
Ty(wraps, base) == [wraps |-> wraps, base |-> base]

Types ==
    {Ty(<<>>, b) : b \in {Prim, Base("bool", "bool", "none", 0), Path, Str("str", "a"),
                          Str("CStr", "a"), Base("ref", "bytes", "a", 2),
                          Base("ref", "bytes", "a", 0), Base("tuple", "tuple", "none", 0)}}
    \cup {Ty(<<Array(2)>>, b) : b \in {Prim, Path, Str("U16Str", "a"), Base("ref", "bytes", "a", 2)}}
    \cup {Ty(w, Str("U16CStr", "a")) : w \in {<<Array(2), Array(3)>>, <<Array(2), Array(0)>>}}
    \cup {Ty(w, Path) : w \in {<<Opt>>, <<Lookalike>>, <<Opt, Array(2)>>, <<Opt, Opt>>,
                               <<Array(2), Opt>>, <<Opt, Array(-1)>>}}
    \cup {Ty(<<Opt>>, Prim)}

Field(name, ty, attrs) == [name |-> name, ty |-> ty, attrs |-> attrs]

LaterTypes ==
    {<<Ty(<<>>, Prim), <<>> >>, <<Ty(<<>>, Path), <<>> >>,
     <<Ty(<<>>, Path), <<Attr("tag_field", <<"x">>)>> >>,
     <<Ty(<<>>, Path), <<Attr("tag_field", <<"y">>)>> >>,
     <<Ty(<<>>, Str("str", "b")), <<Attr("capacity", 3)>> >>}

MCFieldDecls(n) ==
    CASE n = 1 -> {Field(<<"x">>, ty, attrs) : ty \in Types, attrs \in AttrLists}
      [] n = 2 -> {Field(name, t[1], t[2]) : t \in LaterTypes,
                      name \in {<<"x">>, <<"x", "mut">>, <<"y">>, <<"clear">>}}
      [] OTHER -> {Field(name, t[1], t[2]) : name \in {<<"x", "mut">>, <<"y">>},
                      t \in {u \in LaterTypes : u[1].base # Str("str", "b")}}

MCContainerAttrs ==
    {Attr("endian", "big"), Attr("endian", "middle"), Attr("align", 8), Attr("align", 3),
     Attr("borrow", "a"), Attr("tag", "Kind")}

Variant(name, shape, raw) == [name |-> name, shape |-> shape, raw |-> raw]
MCScalarDecls ==
    {Variant(<<n>>, s, r) : n \in {"A", "B", "LAYOUT"}, s \in {"unit", "tuple"},
                            r \in {-1, 0, 3, 4, 7, 19, 300}}

TaggedVariant(name, shape, tags, inner) ==
    [name |-> name, shape |-> shape, tags |-> tags, inner |-> inner]
Tag(owner, value) == [owner |-> owner, value |-> value]
MCTaggedDecls ==
    {TaggedVariant(n, s, t, s = "newtype" /\ i) :
        n \in {<<"foo">>, <<"foo", "mut">>, <<"tag">>},
        s \in {"unit", "newtype", "option", "tuple"},
        t \in {<<>>, <<Tag("Kind", "A")>>, <<Tag("Kind", "B")>>, <<Tag("Other", "A")>>,
               <<Tag("none", "A")>>, <<Tag("Kind", "A"), Tag("Kind", "B")>>},
        i \in BOOLEAN}

MCReprs == {<<>>, <<"u8">>, <<"u16">>, <<"u32">>, <<"i8">>, <<"u8", "u16">>}
MCGenerics == {{}, {"a", "b"}}
=============================================================================
