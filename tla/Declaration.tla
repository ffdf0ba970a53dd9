---------------------------- MODULE Declaration -----------------------------
(***************************************************************************)
(* The analysis of one #[zero] item: container options, then the members   *)
(* in source order, the first fault refusing the item; then the tag links, *)
(* the borrowed lifetime and the generated names.  The input is chosen as  *)
(* the analysis reads it.                                                  *)
(*                                                                         *)
(* A name is the sequence of its words, so x_mut is <<"x", "mut">>.  A     *)
(* discriminant that is missing or no plain literal is -1.                 *)
(***************************************************************************)
EXTENDS FieldGrammar, WireCodec, Functions, FiniteSets

CONSTANTS
    MaxMembers,      \* bound on the fields or variants of an item
    ContainerAttrs,  \* attributes the item may carry
    FieldDecls(_),   \* declarations the n-th field may have
    ScalarDecls,     \* variants of a scalar enum
    TaggedDecls,     \* variants of a tagged enum
    Reprs,           \* repr lists of an enum
    Generics         \* sets of declared lifetimes

\* What syn hands over: lists of attributes, wrappers the classifier can tell
\* apart, and discriminants that are integers.
ASSUME DeclAssumption ==
    /\ MaxMembers \in Nat
    /\ \A n \in 1 .. MaxMembers : \A d \in FieldDecls(n) :
          /\ DOMAIN d.attrs \subseteq Nat
          /\ d.ty.wraps \in Seq([wrap : {"Option", "lookalike", "array"}, length : Int])
    /\ \A d \in ScalarDecls : d.raw \in Int

VARIABLES
    pc,        \* container, members, link, lifetimes, names, accepted, refused
    kind,      \* struct, scalar or tagged
    options,   \* container options read so far
    declared,  \* the item's lifetime parameters
    repr,      \* integer repr of a scalar enum
    members    \* IR of the fields or variants read so far

vars == <<pc, kind, options, declared, repr, members>>

ContainerKey == {"endian", "align", "crate", "borrow"}
ContainerEndian == OptionOr(options, "endian", "native")

Init ==
    /\ pc = "container"
    /\ kind = "none"
    /\ options = OptionsOf(<<>>)
    /\ declared = {}
    /\ repr = "none"
    /\ members = <<>>

Refuse == pc' = "refused" /\ UNCHANGED <<kind, options, declared, repr, members>>

Go(next) == pc' = next /\ UNCHANGED <<kind, options, declared, repr, members>>

\* parse_container_meta.
ContainerOption(a) ==
    /\ pc = "container"
    /\ IF a.key \notin ContainerKey \/ Has(options, a.key) \/ ~ValueAccepted(a)
         THEN Refuse
         ELSE /\ options' = [k \in DOMAIN options \cup {a.key} |->
                                IF k = a.key THEN a.value ELSE options[k]]
              /\ UNCHANGED <<pc, kind, declared, repr, members>>

\* The container options that have no meaning for a kind of item.
Inapplicable(k) ==
    CASE k = "struct" -> {}
      [] k = "scalar" -> {"align", "borrow"}
      [] k = "tagged" -> {"endian", "align", "borrow"}

\* scalar_repr: exactly one integer repr.
ReprAccepted(reprs) == Len(reprs) = 1 /\ reprs[1] \in {"u8", "u16", "u32"}

\* reject_misplaced_zero_attributes, then the dispatch of analyze and of
\* analyze_enum; misplaced: a zero attribute on a generic parameter.
BeginItem(k, lifetimes, reprs, misplaced) ==
    /\ pc = "container"
    /\ IF \/ misplaced \/ k \in {"union", "other"}
          \/ DOMAIN options \cap Inapplicable(k) # {}
          \/ k = "scalar" /\ ~ReprAccepted(reprs)
         THEN Refuse
         ELSE /\ pc' = "members"
              /\ kind' = k
              /\ declared' = lifetimes
              /\ repr' = IF k = "scalar" THEN reprs[1] ELSE "none"
              /\ UNCHANGED <<options, members>>

Read(ir) == members' = Append(members, ir) /\ UNCHANGED <<pc, kind, options, declared, repr>>

ReadField(d) ==
    /\ pc = "members" /\ kind = "struct" /\ Len(members) < MaxMembers
    /\ IF FieldIr(d, ContainerEndian) = Refused THEN Refuse
       ELSE Read(FieldIr(d, ContainerEndian))

ReprWidth == CASE repr = "u8" -> 1 [] repr = "u16" -> 2 [] repr = "u32" -> 4

\* Mutant: the discriminant is not compared with its repr.
DiscriminantAcceptedWide(d) ==
    /\ d.shape = "unit"
    /\ d.raw >= 0
    /\ \A j \in DOMAIN members : members[j].raw # d.raw

\* discriminant_value and the uniqueness check of analyze_scalar_variants.
DiscriminantAccepted(d) ==
    /\ d.shape = "unit"
    /\ d.raw >= 0
    /\ d.raw < Values(ReprWidth)
    /\ \A j \in DOMAIN members : members[j].raw # d.raw

ReadScalarVariant(d) ==
    /\ pc = "members" /\ kind = "scalar" /\ Len(members) < MaxMembers
    /\ IF DiscriminantAccepted(d) THEN Read(d) ELSE Refuse

\* variant_options, tag_owner_path and the shape of analyze_tagged_variants.
TagAccepted(d) ==
    /\ Len(d.tags) = 1
    /\ d.tags[1].owner # "none"
    /\ \A j \in DOMAIN members : /\ members[j].tags[1] # d.tags[1]
                                 /\ members[j].tags[1].owner = d.tags[1].owner
    /\ d.shape \in {"unit", "newtype"}

ReadTaggedVariant(d) ==
    /\ pc = "members" /\ kind = "tagged" /\ Len(members) < MaxMembers
    /\ IF TagAccepted(d) THEN Read(d) ELSE Refuse

EndMembers ==
    /\ pc = "members"
    /\ IF members = <<>> THEN Refuse
       ELSE Go(IF kind = "struct" THEN "link" ELSE "lifetimes")

-----------------------------------------------------------------------------
(* link_external_tags *)

\* The lookup of a logical name: of equal names the last one is found.
Lookup(name) ==
    LET found == {j \in DOMAIN members : members[j].name = name}
    IN IF found = {} THEN 0 ELSE CHOOSE j \in found : \A k \in found : k <= j

Tagged == {j \in DOMAIN members : members[j].category.tagged}

Sibling(j) == Lookup(members[j].options["tag_field"])

IsPlainPath(c) == c.cat = "path" /\ c.depth = 0 /\ ~c.optional /\ ~c.tagged

\* Mutant: a tag field may serve two payloads.
LinksAcceptedShared ==
    \A j \in Tagged : Sibling(j) \notin {0, j} /\ IsPlainPath(members[Sibling(j)].category)

LinksAccepted ==
    /\ \A j \in Tagged : Sibling(j) \notin {0, j} /\ IsPlainPath(members[Sibling(j)].category)
    /\ \A j, k \in Tagged : Sibling(j) = Sibling(k) => j = k

LinkExternalTags ==
    /\ pc = "link"
    /\ IF ~LinksAccepted THEN Refuse
       ELSE /\ members' = [j \in DOMAIN members |->
                              IF j \in Tagged
                              THEN [members[j] EXCEPT !.category.tag_field = Sibling(j)]
                              ELSE members[j]]
            /\ pc' = "lifetimes"
            /\ UNCHANGED <<kind, options, declared, repr>>

-----------------------------------------------------------------------------
(* generic_model *)

\* direct_lifetime; an optional field never borrows.
DirectLifetimes ==
    IF kind # "struct" THEN {}
    ELSE {members[j].category.life : j \in DOMAIN members} \ {"none"}

GenericModel ==
    /\ pc = "lifetimes"
    /\ IF Has(options, "borrow")
         THEN IF options["borrow"] \in declared \cap DirectLifetimes
              THEN Go("names") ELSE Refuse
         ELSE IF Cardinality(DirectLifetimes) <= 1 THEN Go("names") ELSE Refuse

-----------------------------------------------------------------------------
(* validate_generated_names *)

Mut(name) == Append(name, "mut")

RootNames == << <<"access">>, <<"access", "mut">>, <<"access", "prefix">>,
                <<"access", "mut", "prefix">>, <<"SCHEMA", "SIZE">>,
                <<"ZERO", "IS", "VALID">>, <<"SCHEMA", "ALIGN">>,
                <<"SCHEMA", "STRIDE">>, <<"LAYOUT">> >>

ReservedNames ==
    CASE kind = "struct" ->
            RootNames \o << <<"copy", "into">>, <<"copy", "from">>, <<"clear">> >>
      [] kind = "scalar" -> RootNames
      [] kind = "tagged" -> << <<"tag">>, <<"copy", "into">>, <<"copy", "from">> >>

\* is_tag_sibling.
IsTagSibling(j) == \E k \in DOMAIN members : members[k].category.tag_field = j

\* Mutant: only the getter's name is reserved.
MemberNamesGetter(j) == <<members[j].name>>

\* The names one member reserves.  A variant name is its words and its
\* spelling, which snake_case forgets.
MemberNames(j) ==
    CASE kind = "struct" ->
            IF IsTagSibling(j) THEN <<members[j].name>>
            ELSE <<members[j].name, Mut(members[j].name)>>
      [] kind = "scalar" -> <<members[j].name>>
      [] kind = "tagged" -> <<members[j].name, Mut(members[j].name)>>

AllMemberNames ==
    LET upTo[j \in 0 .. Len(members)] ==
            IF j = 0 THEN <<>> ELSE upTo[j - 1] \o MemberNames(j)
    IN upTo[Len(members)]

ValidateGeneratedNames ==
    /\ pc = "names"
    /\ IF IsInjective(ReservedNames \o AllMemberNames) THEN Go("accepted") ELSE Refuse

\* The expansion ends; the next item is expanded from nothing.
NextItem ==
    /\ pc \in {"accepted", "refused"}
    /\ pc' = "container" /\ kind' = "none" /\ options' = OptionsOf(<<>>)
    /\ declared' = {} /\ repr' = "none" /\ members' = <<>>

Next ==
    \/ \E a \in ContainerAttrs : ContainerOption(a)
    \/ \E k \in {"struct", "scalar", "tagged", "union", "other"}, l \in Generics,
          r \in Reprs, m \in BOOLEAN : BeginItem(k, l, r, m)
    \/ \E d \in FieldDecls(Len(members) + 1) : ReadField(d)
    \/ \E d \in ScalarDecls : ReadScalarVariant(d)
    \/ \E d \in TaggedDecls : ReadTaggedVariant(d)
    \/ EndMembers \/ LinkExternalTags \/ GenericModel \/ ValidateGeneratedNames
    \/ NextItem

Spec == Init /\ [][Next]_vars

-----------------------------------------------------------------------------
(* What the emitters generate from the IR of an accepted item *)

\* A method of a capability: the accessor of a member, or one of its own.
Own == [tag |-> <<"tag">>, clear |-> <<"clear">>,
        copy_into |-> <<"copy", "into">>, copy_from |-> <<"copy", "from">>]

MethodName(m) ==
    CASE m[2] = "get" -> members[m[1]].name
      [] m[2] = "mut" -> Mut(members[m[1]].name)
      [] OTHER -> Own[m[2]]

Getters == (DOMAIN members) \X {"get"}

\* emit_record_mutation_methods skips the external tag siblings.
Mutators == {j \in DOMAIN members : kind = "tagged" \/ ~IsTagSibling(j)} \X {"mut"}

\* getter_methods and copy_into; the accessors and tag() of a payload.
RefMethods ==
    Getters \cup ({0} \X (IF kind = "tagged" THEN {"tag", "copy_into"} ELSE {"copy_into"}))

MutMethods ==
    Mutators
    \cup (IF kind = "struct" THEN Getters \cup ({0} \X {"clear"}) ELSE {0} \X {"tag"})
    \cup ({0} \X {"copy_into", "copy_from"})

DistinctNames(methods) == IsInjective([m \in methods |-> MethodName(m)])

\* to_raw, then the store of the scalar wire; and back through from_raw.
ToRaw(j) == members[j].raw % Values(ReprWidth)

FromRaw(n) ==
    IF \E j \in DOMAIN members : ToRaw(j) = n
    THEN CHOOSE j \in DOMAIN members : ToRaw(j) = n /\ \A k \in 1 .. j - 1 : ToRaw(k) # n
    ELSE 0

Stored(j) == ToBytes(ToRaw(j), ReprWidth, ContainerEndian)
Loaded(b) == FromRaw(FromBytes(b, ReprWidth, ContainerEndian))

-----------------------------------------------------------------------------
(* Properties *)

Accepted(k) == pc = "accepted" /\ kind = k

\* The capabilities of an accepted item have no two methods of one name,
\* although a tag sibling gives its mutator's name free for another field
\* and snake_case maps different variants to one method.
MethodsAreDistinct ==
    Accepted("struct") \/ Accepted("tagged") =>
        DistinctNames(RefMethods) /\ DistinctNames(MutMethods)

\* Every payload of an accepted record has a tag of its own: the visited
\* fields and their siblings partition the fields, and the arms that skip a
\* tagged field without a sibling (record_preflight, record_commit) are dead.
TagLinksAreSound ==
    Accepted("struct") =>
        /\ \A j \in Tagged :
              LET t == members[j].category.tag_field
              IN /\ t \in DOMAIN members \ {j}
                 /\ IsPlainPath(members[t].category)
                 /\ members[t].name = members[j].options["tag_field"]
        /\ \A t \in DOMAIN members :
              Cardinality({j \in DOMAIN members : members[j].category.tag_field = t}) <= 1

\* Every attribute a field carries is where the emitters look for it, and a
\* field without its own byte order has the container's.
OptionsAreApplied ==
    Accepted("struct") =>
        \A j \in DOMAIN members :
            LET f == members[j]
                c == f.category
            IN /\ \A n \in DOMAIN f.attrs :
                     LET a == f.attrs[n]
                     IN CASE a.key = "capacity" -> c.capacity = a.value
                          [] a.key = "len_type" -> c.len_type = a.value
                          [] a.key = "endian" -> f.wire_endian = a.value
                          [] a.key = "align" -> f.options["align"] = a.value
                          [] a.key = "tag_field" -> c.tagged
               /\ c.cat \in {"str", "U16Str"} => c.endian = f.wire_endian
               /\ ~Has(f.options, "endian") => f.wire_endian = ContainerEndian

\* An accepted scalar enum reads back the variant it stored, in every width
\* and byte order.
EnumRoundTrips ==
    Accepted("scalar") => \A j \in DOMAIN members : Loaded(Stored(j)) = j

\* No option is accepted and then ignored: the payload of a tagged variant
\* carries no zero attribute.
MisplacedOptionsAreRefused ==
    Accepted("tagged") => \A j \in DOMAIN members : ~members[j].inner
=============================================================================
