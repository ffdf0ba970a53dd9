# A TLA+ verification of zero-schema

zero-schema is a `#![no_std]` Rust library and derive macro. A declaration
(`#[zero]` struct, enum or tagged union) becomes a `repr(C)` wire type; the
generated `access` and `access_mut` check foreign bytes in place, and what they
return (a reference or a mutable handle) reads and rewrites those bytes without
copying them. There are no threads, no I/O and no persistence: the hard part is
that a long sequence of in-place writes, some of them rejected half way, must
never leave bytes that the handle's own readers cannot decode.

The runtime is `src/src/*.rs`; the code that a derive emits is written as
templates in `src/zero-schema-macros/src/emit_*.rs`. The model follows the
emitted code, so its definitions point at both.

## Inventory

| component | state | operations | with whom | what makes it correct |
|---|---|---|---|---|
| record handle (`emit_patch`, `emit_mutation`, `emit_access`) | the record's bytes, the proof that a capability stands for | `access_mut`, `copy_from`, logical set, initialization, field mutators, `clear` | calls validate / preflight / commit of each field's child; a parent record calls the same on it | bytes under a capability are valid; rejection changes nothing; only the patched bytes change |
| record values (`emit_access`, `emit_patch`) | none of its own: read from the record's bytes | field getters, `copy_into`, `From<Logical>` of the patch | another record of the same schema, which takes the patch | the bytes read back are the value the calls denote; a value moves between records unchanged; an accepted call can be repeated |
| optional field (`mutation.rs` `OptionMut`) | storage span; all zero means absent | `get`, `get_mut`, `set`, patch `Some(None)`, `Some(Some(_))` | the record's two passes | a present value is never all zero; absence clears exactly the storage |
| tagged payload (`tagged.rs`) | payload bytes and the tag in a sibling field | same-variant patch, switch, payload handle | the record owns the tag store | the tag names a valid payload; it is stored last |
| bounded string (`strings.rs`, `StringMut`) | prefix, units, unused capacity | prove, set, clear | the record, arrays of strings | what is set is read; unused capacity is neither read nor written |
| integer codec (`wire.rs`) | none | to/from bytes in native, little, big order | strings, scalars, tags | round trip |
| fixed array (`array.rs`) | element wires | element get/set, `set`, `copy_from`, nested indices | the record, element adapters | two passes over elements; error paths name the element |
| checked input (`access.rs`, `mutation.rs`) | a byte span, its alignment | exact and prefix access, subrange, reborrow | everything above | a span never leaves its parent |
| zero validity (`__private.rs`, `emit_access.rs` 2101-2333) | constants | `ZeroState`, `ClearState`, `ZERO_IS_VALID` | gates `clear`, optionals, zeroed buffers | the constant agrees with validating all-zero bytes |
| declaration analysis (`parse.rs`, `analyze.rs`) | the item's options and the IR of the members read so far | read container options, fields, variants; link tags, choose the lifetime, reserve names; refuse at the first fault | the macro's front end; every emitter reads its IR | an accepted item has sound tag links, distinct methods, no ignored option, discriminants that fit |
| wire layout (`emit_wire.rs`, `wire.rs`) | sizes, alignments, offsets, padding ranges | place the fields | rustc's `repr(C)` | offsets the emitters select are in bounds and aligned |
| error paths (`emit_patch`, `emit_access`, `error.rs`) | the chain of errors of a refused operation | wrap a child's error, replace it, format the path | unwinds through records, arrays, optionals, payloads | the error names the first fault the operation looked at |

Hard behaviours: multi-field calls rejected part way, decisions taken twice from
bytes that change in between, stale bytes under a fresh value, sentinel
collisions, errors rewritten at every level they pass, the order of two dependent stores, lengths at the limit of their
prefix, long call sequences that meet an `unreachable!`. `PROJECT.json` lists
them at their lines.

## Modules

### RecordHandle

One record handle. `mem` maps byte offsets to bytes. The fields the two passes
visit are numbered in source order; each is *plain* (scalar, string, bytes,
array, nested record), *option* or *tagged*. What a field's child does is given
by six constant operators, the six functions the generated code calls on a child
(`Valid`, `IsComplete`, `Preflight`, `Commit`, `FromRaw`, `ToRaw`), restricted by
the named assumptions `ChildAssumption`, `TagAssumption`, `SentinelAssumption`
and by the layout assumption that fields are disjoint. The theorems give back,
for the record, what `ChildAssumption` asks of a child: an approved commit over
a valid record (or of a complete patch over stale bytes) yields a valid record,
within the record's own span. So the argument applies again one level up.

| action | code |
|---|---|
| `Produce`, `AccessMut`, `Release` | the buffer before a proof, the eager proof, the end of the borrow |
| `CopyFrom`, `SetLogical`, `InitializeStale` | the three ways into the two passes: `copy_from`, `preflight_logical`/`commit_logical`, `preflight_init`/`commit_init` |
| `PreflightStep` | `record_preflight`, one field per step, early return on the first error |
| `CommitStep`, `TagStep` | `record_commit`, one field per step; a switch is two stores, payload then tag |
| `CommitDone`, `Return` | the end of the call |
| `FieldSet`, `OptionSet`, `OptionGetMut`, `PayloadCopyFrom`, `VariantMut`, `Clear` | field-level mutators of the handle; `VariantMut` is a variant's accessor with the `copy_from` of the handle it gives |

The call is cut into one step per field, although nothing can interleave with
it, because the properties speak about the points between the fields: that is
where an error return leaves the bytes, and where the second pass reads bytes
the first part of it wrote.

### RecordValue, LogicalRecord

The reading side of the same record. `RecordValue` extends `RecordHandle` with
what the getters return (`FieldValue`, `CopyInto`) and with the patch made from
a logical value (`UpdateFrom`, `FromLogical`); reading changes nothing, so there
are no new actions. A child is known by four more operators (`Read`, `PatchFrom`,
`Patched`, `Initial`) under three contracts: `ReadAssumption` (what its reader
returns after an approved commit), `TransferAssumption` (a value that was read
makes a complete patch that is accepted) and `RepeatAssumption` (a patch that was
taken is taken again and changes nothing).

`LogicalRecord` is the promise: a cell that holds no value or one logical value;
a call is offered and then accepted, which replaces the value as the call says,
or rejected, which leaves it; a field mutator changes one field. It knows
nothing of bytes, passes, presence or tags. `RecordValue` implements it with
`Seen`: the value at entry while a call runs (the caller cannot look in
between), the value of the live bytes otherwise.

### WireCodec, BoundedString, BoundedText

`WireCodec` encodes an integer in 1, 2 or 4 bytes of `Radix` values in native,
little or big order; `Digit` cuts to the byte as the cast in
`LengthWire::store_preflighted` does. `BoundedString` is one string field over
its exact bytes: prefix, padding before 16-bit units, units, padding up to the
wire's alignment. `Accepted` is what the macro checks of a declaration, the four
`prove_*` functions are `Proof`, the four preflights and commits `Preflight` and
`Commit`. `Utf8` is a parameter, assumed only to accept the empty string.
`BoundedText` is the promise: a cell holding one text, a write replaces it if it
is not longer than the limit and changes nothing otherwise. `BoundedString`
implements it with the text read from the bytes as the abstract state.

### ArrayField, ElementTable

`ArrayField` is one array field of any depth. The code recurses through
`NestedArrayAdapter`, one adapter per level, and passes a flat position down so
that the leaf can report where it failed; the model names a leaf by its index
path and computes, as the code does, its byte offset (`Stride`, `Offset`), its
flat position with saturating arithmetic (`RowBase` for row handles, `Position`)
and the path decoded from it (`IndexPath`). `MaxIndex` stands for `usize::MAX`.
The leaf's prove, preflight and commit are constant operators, restricted by
`LeafAssumption`.

| action | code |
|---|---|
| `Prove`, `GetMut`, `Drop` | `ArrayMut::prove`, `get_mut` of a row, the end of the borrows |
| `SetAt`, `CopyFrom`, `Initialize` | the ways into the two passes, with their length and index checks |
| `PreflightStep`, `CommitStep`, `Return` | one leaf per step, in increasing order; early return on the first error |
| `ElementSet` | `get_mut` of a leaf and a set through the leaf's handle, which knows no position and reports none |

An index out of range is reported alone, without the indices of the enclosing
rows, as the design document says (`src/docs/zero-schema-design-rfc.md:1222`).
`ElementTable` is the promise: a function from paths to leaves, in which a call
replaces exactly the leaves it names or none.

### CheckedInput

The byte spans under all of the above. A caller holds a slice; `FromExact` and
`FromPrefix` (`access`, `access_prefix` and their `mut` forms) cut root inputs
from it, each prefix access from the remainder of the one before; `Reborrow`,
`Subrange`, `SubrangeMut` and `ElementInputMut` form the chain of nested inputs
(`path`) below one root; `SubrangeBytesMut` and `ClearAll` write through the
innermost one. Offsets, lengths and indices are *any* machine word, not only the
ones generated code passes, and sums and products that leave the word are the
`checked_add` and `checked_mul` errors. Whether the logical proof succeeds is a
free choice here. The borrow checker gives one exclusive chain at a time, which
is why `path` is a single sequence.

### ZeroValidity

What the macro derives about all-zero bytes. A program is declared one type at a
time; a type is represented by what it publishes to later declarations
(`ZeroState`, `ClearState`, `ZERO_IS_VALID`, its enum tags) and by what its
generated proof answers for zero bytes. This summary is all that composition
uses in the code too (associated types and constants of a trait), so two types
with the same summary are interchangeable. Categories whose zero bytes are
always valid (numbers, Booleans, bytes, prefixed strings) are one category.

`ClearIsSound` and `PresentIsNotAbsent` are, for the whole declaration language,
what `RecordHandle` assumes of one record (`ClearAssumption`,
`SentinelAssumption`). `AcceptedPatchTakesEffect` takes the second for granted:
that no present value is all zero is shown here, not there.

### WireLayout

Sizes, alignments and offsets. Arrays, payload unions and records are declared
one after the other; a record grows by one field per step, as the loops of
`emit_wire.rs` do, with its padding ranges. How `repr(C)` places a field is
rustc's part (`RoundUp`, external); `AlignedWire`, the root wrapper, the markers
and the ranges are the repository's. `SelectionsSucceed` states the two checks of
`CheckedInput!Select` for the offsets the generated code uses, at every aligned
address, and `PaddingIsExact` gives the disjointness `RecordHandle` assumes of
its regions.

### FieldGrammar, Declaration

The analysis of one `#[zero]` item. `FieldGrammar` is one field: the options its
attributes give, the category of its type through arrays and optionals, the
options that category takes, and the IR (`FieldIr`) or a refusal. `Declaration`
runs the item: `ContainerOption`, `BeginItem` (kind, inapplicable options, enum
repr), `ReadField`, `ReadScalarVariant` and `ReadTaggedVariant` in source order,
`EndMembers`, then `LinkExternalTags`, `GenericModel` and
`ValidateGeneratedNames`. Every refusal ends the item, as the `?` in the code
does. A name is the sequence of its words, so that `x_mut` beside `x` is a
collision that can be stated; a type is its wrappers around a base. The last
section says what the emitters generate from an accepted IR (the methods of the
capabilities, the raw value of a variant), and the properties compare the two:
what the analysis reserved against what is emitted.

`TagLinksAreSound` is what `RecordHandle` takes for granted when it gives every
tagged field a `TagWire` of its own.

### ErrorPath

How a refused operation names its cause. A schema is a tree of nodes; an input
marks some nodes faulty and says what each optional and union selects. The walk
(`WalkStep`, `SkipStep`, `LeaveStep`) visits the tree as `record_proof` and
`record_preflight` do, with the tag of a payload proved before it; a preflight
passes over the tag fields, which the payload's patch speaks for. The first
fault unwinds (`WrapStep`), each parent adding its segment to the child's error
or replacing it; the formatter writes the chain from the outside in
(`FormatStep`). Nodes are numbered in declaration order. `Culprit` is defined
without the walk, from the tree and the input alone. The arithmetic that turns a flat element position into indices is
in `ArrayField`; here an array reports the index it is at.

## Runs

| run | shows | bounds |
|---|---|---|
| `record_handle` | the eight properties of `RecordHandle` | seven bytes of two values; a plain leaf, an optional record of two leaves with a padding byte, a union with a unit variant and a payload variant, a third enum value that no variant claims and one raw value that no enum value claims; every patch, complete or partial, accepted or rejected at every field; every initial content |
| `record_value` | `ImplementsLogicalRecord`, `TransferReadsBack`, `AcceptedPatchRepeats` | the instance of `record_handle`; the values of all its valid records are offered to all of them |
| `bounded_string` | the five properties of `BoundedString`, refinement of `BoundedText` included | bytes of two values, so a one-byte prefix counts to 1 and a two-byte one to 3; capacities below, at and above; all widths and orders; every initial content; texts up to one unit past the capacity |
| `array_field` | the four properties of `ArrayField`, refinement of `ElementTable` included | shapes 3, 2x2, 1x3 and 2x1x2 (different lengths at different levels, a level of length one, three levels); leaves of two bytes of two values, one of the byte pairs invalid; `MaxIndex` is the last flat position, so one more would saturate; every initial content, sources with values that the leaf rejects |
| `zero_validity` | the five properties of `ZeroValidity` | six distinct types, records of up to three fields, enums over the raw values 0 and 1 (with and without a zero), payloads that claim any part of their enum, lengths 0 (to be refused) and 2 |
| `checked_input` | the five properties of `CheckedInput` | addresses below 12; slices that hold several records, too short ones and misaligned ones; wires of 1, 2 and 4 bytes; paths of depth three; every offset, length and index of the word |
| `wire_layout` | the two properties of `WireLayout` | three declarations on top of each other, records of two fields, leaves of one byte and of six bytes aligned to two, alignment four (raises everything) and three (refused), sizes up to 20. A program ends, so deadlock is not checked |
| `declaration` | the four properties of `Declaration` | up to three members, with names that collide after `_mut` or `snake_case`, a payload before and after its tag, shared and self links, options known, unknown, repeated, misplaced and of the wrong kind; bytes of four values, so that discriminants at and past the top of every repr are within reach |
| `error_path` | `ErrorNamesCulprit` | a tree of 36 nodes: a payload before and one after its tag, an array of records, an array of arrays, an optional record and an optional array, a nested record with a payload; every pair of faults, every selection, access and preflight |
| `string_capacity` | the documented meaning of `capacity()` fails | the model of `bounded_string` |
| `misplaced_option` | a documented refusal does not happen | the model of `declaration`, one member |
| `child_errors` | documented wrapping of errors does not happen | the model of `error_path`, one fault |

Small instances are enough for the cases at hand: a field interacts with another
only through the bytes and the place of the failing field, so one field of each
kind, with a later field that can fail, meets every order; the proofs remove the
bound altogether. With a byte of two values every width has its overflow within
reach.

Deadlock checking is on in the passing runs but `wire_layout`.

No fairness is assumed and no liveness is claimed: a call is straight-line code,
its fields unrolled when the macro expands, on the caller's thread; the other
components are functions without a loop over shared state, or machines whose
every step is the caller's. The one way a call could fail to return is a panic,
an `unreachable!` that is reached. That is a safety matter:
`CapabilityHoldsValidRecord`, `VerdictStillHolds` (the tag that a commit reads
again is known), `ElementsStayValid`, `InputsStayChecked` and `SelectionsSucceed`
say that the conditions of those arms are never met.

## Findings

Three places where the code does not do what its documents say. None damages
bytes.

`string_capacity`: the macro accepts a capacity that the declared `len_type`
cannot represent. `StringMut::capacity`'s documentation
(`src/src/mutation.rs:184`) says a value of up to `capacity()` units is accepted;
the design document (`src/docs/zero-schema-design-rfc.md:632`) says the capacity
must fit. The code rejects the longer values with `LengthUnrepresentable`; no
bytes are damaged (`HandleStaysProved` holds for these declarations too).

`misplaced_option`: a `#[zero(...)]` attribute on the payload of a tagged variant
is stripped without being read: `reject_misplaced_zero_attributes`
(`src/zero-schema-macros/src/analyze.rs:1797`) looks at generic parameters only,
and the analysis of a variant reads the variant's own attributes. The design
document (`src/docs/zero-schema-design-rfc.md:541`) and the macro's documentation
(`src/zero-schema-macros/src/lib.rs:44`) say misplaced options are errors.

`child_errors`: a mutation that is rejected inside a nested record is reported as
`CapacityExceeded` of the parent's field, and inside a payload as
`IncompleteUnionSwitch`, whatever the child's error was
(`src/zero-schema-macros/src/emit_patch.rs:432`). The design document
(`src/docs/zero-schema-design-rfc.md:1796`) says parents wrap concrete child
errors rather than erasing them. The proofs of an access do wrap; strings and
arrays keep their kind in both.

## Proofs

All theorems hold for every value of the constants that satisfies the named
assumptions.

*RecordProofs, the handle.* `CapabilityHoldsValidRecord` is not inductive: it says
nothing in the middle of a call. `PassInvariant` splits the record at the loop
index: during preflight the bytes are those at entry and every earlier field is
approved; during commit every earlier field is valid and the approval of every
later field still stands on the live bytes; a union between its two stores has a
valid payload for the tag about to be stored. The step from one field to the next
rests on a frame lemma: a commit of field f writes inside its region, so the
verdict and the validity of every other field, functions of their own region
only, are unchanged. `Safety` proves `TypeOK` and `PassInvariant`; the other
theorems about bytes follow from it (`FrameSound`, `TagOrder` and `EffectSound`
with a step argument of their own).

*RecordProofs, repetition.* `RepeatSound` states `AcceptedPatchRepeats`. The
second call takes other branches than the first, so the invariant does not
mention branches: a committed field is `Settled` when its slot holds a fixed point
of the child's commit, its tag patch belongs to its payload patch, and presence
and variant are the ones asked for. `SettledRepeats` then follows every form
through the verdict and both stores. What is proved of the record is what
`RepeatAssumption` asks of a child.

*RecordProofs, the value.* `Implementation` is the refinement of `LogicalRecord`,
`TransferSound` the property `TransferReadsBack`. Both rest on `CommitReaches`:
an approved update of one field makes its getter return the field's `Target`
(the updated value, or the first value over stale bytes), or leaves the target in
the slot that the tag store to come will select. `ValueInvariant` carries it
across the loop: committed fields have reached their goal, the others agree with
the bytes at entry. This is needed because the abstract value jumps once, at the
end, from the value at entry. Each mutator is the same lemma applied once;
`OptionMut::set` initializes even a present value, and equals an update because a
complete patch leaves nothing of the old value. `TransferField` shows that the
patch made from a value is approved over every valid record and over stale bytes,
and that its target is that value.

*BoundedStringProofs.* First `RoundTrip` of `WireCodec`, from division with
remainder applied once per byte; the widths are enumerated, the radix is not
(`DeclarationProofs` repeats it as a lemma for discriminants). Then layout facts (the prefix lies before the data, the
data inside the wire, a byte's address determines its unit and its place in it),
then what a store followed by a load returns (`UnitStored`, `PrefixStored`), then
`CommitReadsBack`: a committed text passes the proof and is the text read, over
any stale bytes; for the terminated forms this needs that the first terminator is
unique. The invariant is `TypeOK /\ HandleStaysProved`; `Implementation` is the
refinement of `BoundedText`, one lemma per action.

*CheckedInputProofs.* For every word size, set of wires, slice and number of
records. The properties relate neighbours (a record and the one before it, an
input and its parent); a step needs the same of any two, so `IInv` carries the
transitive forms: records are ordered pairwise and lie before the remainder, every input of
the path lies in the first. `Spans` and `Values` split the invariant so that each
kind of step (a record cut, a path started, deepened, shortened, a write) touches
one half. `WritesConfined` is the action property, from `WriteInTop`.

*ZeroValidityProofs.* For every set of discriminants and lengths and programs of
any size. The four facts are proved together: exactness of a record needs
exactness of its parts, soundness of `ClearState` for a payload needs that a
claimed tag is accepted, and `PresentIsNotAbsent` needs `ZeroStateIsSafe` of the
held type and that lengths are not zero.

*ArrayFieldProofs.* For every set of shapes, any number of levels and any lengths
and leaf sizes. The first half is arithmetic over the levels: the mixed-radix
position of a path (`Flat`) is below the number of elements, times the leaf size
it is the leaf's byte offset, and under `SizeAssumption` the saturating sums of
the code compute exactly it (`PositionExact`, `RowBaseExact`); hence `IndexPath`
gives the path back, leaves have bytes of their own, and the loops visit them in
the order of `Before`. The second half is the invariant: `HandleExact` (the base
of a row handle is the position of its first leaf), `CallFits` (a call
writes leaves of its handle, an initialization all of them), `PassExact` (in preflight the bytes are those at entry and every
earlier leaf was approved; in commit every earlier leaf holds its new bytes and
every later one its old), `LeavesValid` and `ResultExact`. `ElementsStayValid`
alone is not inductive: it says nothing inside a call. `ArrayRefinement` maps the
whole call to the step in which its last leaf is approved: from then on a leaf
that is not written yet counts as written.

*WireLayoutProofs.* For every set of leaves, lengths and align options, and
programs and records of any size. An accepted alignment is one of thirty powers
of two, so of two of them the larger is a multiple of the smaller; with rounding
up (`RoundUpIs`) this gives that a wire raised, repeated, united or enclosed still
fits (`StorageFits`, `ArrayFits`, `UnionFits`, `StructFits`). `PaddingIsExact`
speaks of closed records only; its invariant is `Partition` up to the running end
of the last field: every byte before it lies in exactly one value or range, no
later byte in any. `FieldPartition` extends it by the gap before a field, the
value and what the wrapper adds behind it; `TrailingPartition` by the tail.

*DeclarationProofs.* For items with any number of members, any names, types and
options. The invariant is what each stage of the analysis leaves to the next:
`FieldsSound` (every IR field carries its options where the emitters look),
`LinksSound` (no links before `link_external_tags`, paired ones after),
`RawsSound` (discriminants fit the repr and differ) and `NamesSound` (the list of
reserved and member names repeats nothing, once accepted). The link loop is a
recursive function; `LinkExternalTagsInv` follows it by an induction over its
steps. `MethodsAreDistinct` compares two independent descriptions, the list that
`validate_generated_names` builds and the methods that the emitters define:
`SlotsHaveOneName` gives every generated method a place of its own in the list.
`EnumRoundTrips` takes the round trip of `WireCodec`.

*ErrorPathProofs.* For every schema tree, every selection and any number of
faults. `ErrorNamesCulprit` is not inductive: it speaks of finished operations
only. `Inv` says what each phase leaves to the next.

- While the walk runs, `StackOk` (the stack is a path of the tree, each frame at a
  kid of its record) and `Walked` (under each frame, every kid already passed is
  `Clean`: nothing below it that the operation would look at is faulty). Because
  nodes are numbered in preorder and a payload's tag is looked at with the
  payload, this gives `Frontier`: whatever is `Broken` comes no earlier than the
  kid the walk is at. So a fault the walk meets is the culprit
  (`FirstIsCulprit`), and a walk that ends met none because there is none.
- While the error unwinds, `Unwound`. For an access, the path to the culprit is
  the path to the node that is failing followed by the chain built so far. For a
  mutation, whose parents replace errors, the chain is a beginning of the rest of
  that path, and a record whose array is at fault still gets its element shown
  (`Shows`).
- While the chain is formatted, `Written`: what is written and what is left of
  the chain show the path together.

The path to a node and what an operation reaches are recursive over parents, so
`TreeRecursion` first shows that such functions exist and `TreeInduction` that a
claim passed from parents to children holds everywhere.

Assumptions on constants. `ChildAssumption` and its like are the contracts of
opaque children; the runs evaluate them on an instance. `SizeAssumption` of
`ArrayField` says that the bytes of an array are no more than a machine word
counts elements of one leaf each, which Rust guarantees (no object exceeds
`isize::MAX` bytes, and a leaf has at least one). `DeclAssumption` says what `syn`
hands over: wrappers form a finite sequence, discriminants are integers.
`LeafAssumption` of `WireLayout` is the language's: an alignment is a power of two
up to 2^29 and divides the size. `TreeAssumption`, `OrderAssumption` and
`TagAssumption` of `ErrorPath` say that a schema is a finite tree (a `repr(C)` type
cannot contain itself), that declaration order numbers it in preorder, and that a
payload and its tag are fields of one record, which `TagLinksAreSound` shows of
what the analysis accepts.

Induction over the naturals is used in the form of the least element of a set
(`LeastNat`, from the library's well-foundedness of `<`): the set of levels or
steps at which the claim fails would have a least element. Recursive functions of
the models are shown to exist by the same argument (`RecursionUp`,
`RecursionDown`, `ConcatenationExists`, `TreeRecursion`) before anything is said of their values.

Left to TLC: that the assumptions on constants can be met together.

## Not modelled

Generic bounds, lifetimes and brands of the generated code are the Rust type
checker's business and have no run-time state. The exclusivity of a mutable borrow
is what lets a field-level mutator be one action. Names of generated adapters and
error types, and the hash in the support module's name, are built from strings
that the models do not spell out; a collision there is a compile error of the
generated code. Descriptors (`LAYOUT`) are modelled as far as their offsets,
sizes and padding go; their names and kinds are data. Signed, 64 bit, float and
Boolean scalars are opaque children of a record. The conformance fixtures, fuzz
targets, benches and CI scripts are outside the library.

## Plan

1. `RecordHandle` with its proofs (done).
2. `WireCodec`, `BoundedText`, `BoundedString` with their proofs (done).
3. `ElementTable`, `ArrayField` with their proofs (done).
4. `CheckedInput` with its proofs (done).
5. `ZeroValidity` with its proofs (done).
6. `WireLayout` with its proofs (done).
7. `LogicalRecord`, `RecordValue` with their proofs (done).
8. Scalars (signed, float, Boolean, enum) as a second codec, discharging
   `TagAssumption` and the contracts of a leaf.
9. `FieldGrammar`, `Declaration` with their proofs (done).
10. `ErrorPath` with its proofs (done).
