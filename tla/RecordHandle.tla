---------------------------- MODULE RecordHandle ----------------------------
(***************************************************************************)
(* The generated mutable handle of one record schema: the eager proof of   *)
(* access_mut, the two-pass copy_from (preflight every field, then commit  *)
(* every field), the same two passes run for a logical value or over stale *)
(* bytes, and the field-level mutators.                                    *)
(*                                                                         *)
(* Memory is the record's bytes.  A field's child (scalar, string, bytes,  *)
(* array, nested record, optional value, union variant) is opaque: it is   *)
(* known by the six operations the generated code calls on it, under the   *)
(* contract of the named assumptions.  The theorems of RecordProofs show   *)
(* that a record built from such children meets the same contract, so      *)
(* the contract holds at every nesting depth.                              *)
(***************************************************************************)
EXTENDS Integers

CONSTANTS
    Addr,        \* byte offsets of the record's wire
    Byte,        \* values of a byte; 0 is the sentinel byte
    N,           \* fields the two passes visit, in source order
    Kind,        \* "plain", "option" or "tagged" for each of them
    Storage,     \* declared storage span of a field (StorageWire)
    TagWire,     \* span of the scalar enum sibling of a tagged field
    Tag, NoTag,  \* enum values; NoTag: no value, or an unknown raw value
    Variant,     \* tags the variants of a tagged field claim
    Wire,        \* span of the child wire of a slot
    ChildPatch,  \* patches a slot accepts
    NoPatch,
    Clearable    \* the record's ClearState gate admits clear()

(***************************************************************************)
(* The child's operations.  A form is "patch" (preflight and commit),      *)
(* "logical" (preflight_logical, commit_logical) or "init" (the _init      *)
(* versions, which may not read the bytes they replace).                   *)
(***************************************************************************)
CONSTANTS
    Valid(_, _),             \* validate: slot, bytes
    IsComplete(_, _),        \* is_complete: slot, patch
    Preflight(_, _, _, _),   \* form, slot, bytes, patch
    Commit(_, _, _, _),      \* form, slot, bytes, patch
    FromRaw(_, _),           \* field, tag bytes
    ToRaw(_, _)              \* field, tag

Field == 1 .. N
Slot == Field \X (Tag \cup {NoTag})
Form == {"patch", "logical", "init"}
Bytes(S) == [S -> Byte]

\* The bytes a field owns: its storage and, for a payload, its tag sibling.
Region(f) == Storage[f] \cup TagWire[f]

ASSUME ShapeAssumption ==
    /\ N \in Nat
    /\ Byte \subseteq Nat /\ 0 \in Byte
    /\ NoTag \notin Tag
    /\ Clearable \in BOOLEAN
    /\ Kind \in [Field -> {"plain", "option", "tagged"}]
    /\ Variant \in [Field -> SUBSET Tag]
    /\ Storage \in [Field -> SUBSET Addr]
    /\ TagWire \in [Field -> SUBSET Addr]
    /\ Wire \in [Slot -> SUBSET Addr]

\* Fields occupy disjoint bytes, a child wire lies inside its storage.
ASSUME LayoutAssumption ==
    /\ \A s \in Slot : Wire[s] \subseteq Storage[s[1]]
    /\ \A f \in Field : Storage[f] \cap TagWire[f] = {}
    /\ \A f, g \in Field : f # g => Region(f) \cap Region(g) = {}

\* A scalar enum decodes what it encodes, and decodes nothing else to a tag.
ASSUME TagAssumption ==
    \A f \in Field :
        /\ \A b \in Bytes(TagWire[f]) : FromRaw(f, b) \in Tag \cup {NoTag}
        /\ Kind[f] = "tagged" =>
              \A t \in Tag : /\ ToRaw(f, t) \in Bytes(TagWire[f])
                             /\ FromRaw(f, ToRaw(f, t)) = t

\* What the generated code relies on in a child.
ASSUME ChildAssumption ==
    \A s \in Slot : \A b \in Bytes(Wire[s]) :
        /\ Valid(s, b) \in BOOLEAN
        /\ \A c \in ChildPatch[s], k \in Form :
              /\ Preflight(k, s, b, c) \in BOOLEAN
              /\ IsComplete(s, c) \in BOOLEAN
              /\ Commit(k, s, b, c) \in Bytes(Wire[s])
              /\ /\ Preflight(k, s, b, c)
                 /\ k = "init" => IsComplete(s, c)
                 /\ k # "init" => Valid(s, b)
                 => Valid(s, Commit(k, s, b, c))

\* An optional value's wire has ZeroState = ZeroInvalid.  That the gate means
\* what it says is PresentIsNotAbsent of ZeroValidity.
ASSUME SentinelAssumption ==
    \A f \in Field : Kind[f] = "option" =>
        \A b \in Bytes(Wire[<<f, NoTag>>]) :
            (\A a \in Wire[<<f, NoTag>>] : b[a] = 0) => ~Valid(<<f, NoTag>>, b)

-----------------------------------------------------------------------------
VARIABLES
    mem,      \* the record's bytes
    proved,   \* a capability is outstanding that vouches for the bytes
    pc,       \* idle, preflight, commit, tag (payload stored), returned
    form,     \* the form of the running call
    patch,    \* its argument
    i,        \* the field the running pass is at
    entry,    \* the bytes when the call began
    result    \* the last result: "Ok" or an error kind

call == <<form, patch, i, entry>>
vars == <<mem, proved, pc, form, patch, i, entry, result>>

Slice(m, S) == [a \in S |-> m[a]]

\* m with the exact span of b overwritten by b.
Store(m, b) == [a \in Addr |-> IF a \in DOMAIN b THEN b[a] ELSE m[a]]

Zeroes(S) == [a \in S |-> 0]
IsAllZero(m, S) == \A a \in S : m[a] = 0

-----------------------------------------------------------------------------
(* Validation *)

ChildValid(s, m) == Valid(s, Slice(m, Wire[s]))

CurrentTag(f, m) == FromRaw(f, Slice(m, TagWire[f]))

FieldValid(f, m) ==
    \/ /\ Kind[f] = "plain"
       /\ ChildValid(<<f, NoTag>>, m)
    \/ /\ Kind[f] = "option"
       /\ IsAllZero(m, Storage[f]) \/ ChildValid(<<f, NoTag>>, m)
    \/ /\ Kind[f] = "tagged"
       /\ CurrentTag(f, m) \in Variant[f]
       /\ ChildValid(<<f, CurrentTag(f, m)>>, m)

RecordValid(m) == \A f \in Field : FieldValid(f, m)

ASSUME ClearAssumption == Clearable => RecordValid(Zeroes(Addr))

-----------------------------------------------------------------------------
(* Patches: one update per visited field.  op is the outer Option of the   *)
(* patch field ("keep" is None, "none" is Some(None) of an optional), tag  *)
(* the patch of the tag sibling, to the variant a payload patch names.     *)

Keep == [op |-> "keep", tag |-> NoTag, to |-> NoTag, child |-> NoPatch]

SetUpdates(f, tags, t) ==
    {[op |-> "set", tag |-> g, to |-> t, child |-> c] :
        g \in tags, c \in ChildPatch[<<f, t>>]}

Updates(f) ==
    CASE Kind[f] = "plain" -> {Keep} \cup SetUpdates(f, {NoTag}, NoTag)
      [] Kind[f] = "option" ->
            {Keep, [Keep EXCEPT !.op = "none"]} \cup SetUpdates(f, {NoTag}, NoTag)
      [] Kind[f] = "tagged" ->
            {[Keep EXCEPT !.tag = g] : g \in Tag \cup {NoTag}}
            \cup UNION {SetUpdates(f, Tag \cup {NoTag}, t) : t \in Variant[f]}

Patches == {p \in [Field -> UNION {Updates(f) : f \in Field}] :
                \A f \in Field : p[f] \in Updates(f)}

NoCall == [f \in Field |-> Keep]

\* __zero_schema_is_complete of the generated patch, one field of it.
UpdateComplete(f, u) ==
    \/ Kind[f] = "option" /\ u.op = "none"
    \/ /\ u.op = "set"
       /\ IsComplete(<<f, u.to>>, u.child)
       /\ Kind[f] = "tagged" => u.tag # NoTag

PatchComplete(p) == \A f \in Field : UpdateComplete(f, p[f])

-----------------------------------------------------------------------------
(* The two passes, one field each *)

\* The form in which field f's child is preflighted and committed.  Each
\* pass reads presence and the current tag from the live bytes.
ChildForm(k, f, u, m) ==
    CASE Kind[f] = "plain" -> k
      [] Kind[f] = "option" ->
            IF k = "patch" /\ ~IsAllZero(m, Storage[f]) THEN "patch" ELSE "init"
      [] Kind[f] = "tagged" ->
            IF k # "init" /\ CurrentTag(f, m) = u.to THEN k ELSE "init"

ChildPreflight(k, f, u, m) ==
    Preflight(ChildForm(k, f, u, m), <<f, u.to>>, Slice(m, Wire[<<f, u.to>>]), u.child)

\* Mutant: the completeness check is missing.
ChildIncompleteUnchecked(k, f, u, m) == FALSE

\* An initializing child patch must be complete.
ChildIncomplete(k, f, u, m) ==
    ChildForm(k, f, u, m) = "init" /\ ~IsComplete(<<f, u.to>>, u.child)

PlainVerdict(k, f, u, m) ==
    IF u.op = "set" /\ ~ChildPreflight(k, f, u, m) THEN "CapacityExceeded" ELSE "Ok"

OptionVerdict(k, f, u, m) ==
    CASE u.op # "set" -> "Ok"
      [] u.op = "set" /\ ChildIncomplete(k, f, u, m) -> "IncompleteOptionalInitialization"
      [] u.op = "set" /\ ~ChildIncomplete(k, f, u, m) ->
            IF ChildPreflight(k, f, u, m) THEN "Ok" ELSE "CapacityExceeded"

TaggedVerdict(k, f, u, m) ==
    IF u.op = "keep"
    THEN IF u.tag = NoTag THEN "Ok" ELSE "TagOnlyPatch"
    ELSE IF u.tag # NoTag /\ u.tag # u.to
    THEN "TagMismatch"
    ELSE IF k # "init" /\ CurrentTag(f, m) = NoTag
    THEN "Access"
    ELSE IF ChildIncomplete(k, f, u, m) \/ ~ChildPreflight(k, f, u, m)
    THEN IF k = "logical" THEN "CapacityExceeded" ELSE "IncompleteUnionSwitch"
    ELSE "Ok"

Verdict(k, f, u, m) ==
    CASE Kind[f] = "plain" -> PlainVerdict(k, f, u, m)
      [] Kind[f] = "option" -> OptionVerdict(k, f, u, m)
      [] Kind[f] = "tagged" -> TaggedVerdict(k, f, u, m)

\* Mutant: clear_all runs one byte past the storage.
ClearStorageOverrun(f, m) ==
    Store(m, Zeroes(Storage[f] \cup {a \in Addr : a - 1 \in Storage[f]}))

\* clear_all over the complete declared storage of an optional field.
ClearStorage(f, m) == Store(m, Zeroes(Storage[f]))

\* Mutant: a commit normalizes the field's padding.
CommitChildClearsPadding(k, f, u, m) ==
    Store(ClearStorage(f, m), Commit(ChildForm(k, f, u, m), <<f, u.to>>,
                                     Slice(m, Wire[<<f, u.to>>]), u.child))

CommitChild(k, f, u, m) ==
    Store(m, Commit(ChildForm(k, f, u, m), <<f, u.to>>,
                    Slice(m, Wire[<<f, u.to>>]), u.child))

\* A payload of another variant (or of stale bytes) ends with a tag store.
StoresTag(k, f, u, m) ==
    Kind[f] = "tagged" /\ u.op = "set" /\ ChildForm(k, f, u, m) = "init"

\* Mutant: the tag is stored before the payload.
CommitFieldTagFirst(k, f, u, m) ==
    CASE u.op = "set" /\ ~StoresTag(k, f, u, m) -> CommitChild(k, f, u, m)
      [] u.op = "set" /\ StoresTag(k, f, u, m) -> Store(m, ToRaw(f, u.to))
      [] u.op = "none" -> ClearStorage(f, m)
      [] u.op = "keep" -> m

\* What the commit pass writes for field f, the tag store left out.
CommitField(k, f, u, m) ==
    CASE u.op = "set" -> CommitChild(k, f, u, m)
      [] u.op = "none" -> ClearStorage(f, m)
      [] u.op = "keep" -> m

\* Mutant: the switch forgets the tag.
StoreTagForgotten(f, u, m) == m

StoreTag(f, u, m) == Store(m, ToRaw(f, u.to))

-----------------------------------------------------------------------------
(* Actions *)

Init ==
    /\ mem \in Bytes(Addr)
    /\ proved = FALSE
    /\ pc = "idle"
    /\ form = "patch"
    /\ patch = NoCall
    /\ i = 1
    /\ entry = mem
    /\ result = "Ok"

\* The buffer's owner, or a foreign producer, writes while no capability exists.
Produce ==
    /\ pc = "idle" /\ ~proved
    /\ \E a \in Addr, b \in Byte : mem' = [mem EXCEPT ![a] = b]
    /\ entry' = mem'
    /\ result' = "Ok"
    /\ UNCHANGED <<proved, pc, form, patch, i>>

\* access_mut: one eager walk over every field.
AccessMut ==
    /\ pc = "idle" /\ ~proved
    /\ proved' = RecordValid(mem)
    /\ result' = IF RecordValid(mem) THEN "Ok" ELSE "Access"
    /\ UNCHANGED <<mem, pc, call>>

\* The capability's borrow ends.
Release ==
    /\ pc = "idle" /\ proved
    /\ proved' = FALSE
    /\ result' = "Ok"
    /\ UNCHANGED <<mem, pc, call>>

BeginCall(k, p) ==
    /\ pc' = "preflight"
    /\ form' = k
    /\ patch' = p
    /\ i' = 1
    /\ entry' = mem
    /\ result' = "Ok"
    /\ UNCHANGED <<mem, proved>>

\* copy_from: preflight_patch validates the current bytes before the patch.
CopyFrom(p) ==
    /\ pc = "idle" /\ proved
    /\ IF RecordValid(mem)
         THEN BeginCall("patch", p)
         ELSE result' = "Access" /\ UNCHANGED <<mem, proved, pc, call>>

\* A complete logical value over a valid record (an array element's set).
SetLogical(p) ==
    /\ pc = "idle" /\ proved
    /\ PatchComplete(p)
    /\ BeginCall("logical", p)

\* A parent initializes the record over whatever bytes its storage holds:
\* the parent has checked completeness and found no valid value here.
InitializeStale(p) ==
    /\ pc = "idle" /\ ~proved
    /\ PatchComplete(p)
    /\ BeginCall("init", p)

\* Mutant: each field is committed as soon as it is approved.
PreflightStepEager ==
    /\ pc = "preflight"
    /\ UNCHANGED <<proved, form, patch, entry>>
    /\ \/ /\ i \in Field /\ Verdict(form, i, patch[i], mem) = "Ok"
          /\ mem' = CommitField(form, i, patch[i], mem)
          /\ i' = i + 1
          /\ UNCHANGED <<pc, result>>
       \/ /\ i \in Field /\ Verdict(form, i, patch[i], mem) # "Ok"
          /\ result' = Verdict(form, i, patch[i], mem)
          /\ pc' = "returned"
          /\ UNCHANGED <<mem, i>>

\* Mutant: the preflight pass stops one field early.
PreflightStepShort ==
    /\ pc = "preflight"
    /\ UNCHANGED <<mem, proved, form, patch, entry>>
    /\ \/ /\ i < N /\ Verdict(form, i, patch[i], mem) = "Ok"
          /\ i' = i + 1
          /\ UNCHANGED <<pc, result>>
       \/ /\ i < N /\ Verdict(form, i, patch[i], mem) # "Ok"
          /\ result' = Verdict(form, i, patch[i], mem)
          /\ pc' = "returned"
          /\ UNCHANGED i
       \/ /\ i = N
          /\ i' = 1
          /\ pc' = "commit"
          /\ UNCHANGED result

PreflightStep ==
    /\ pc = "preflight"
    /\ UNCHANGED <<mem, proved, form, patch, entry>>
    /\ \/ /\ i \in Field /\ Verdict(form, i, patch[i], mem) = "Ok"
          /\ i' = i + 1
          /\ UNCHANGED <<pc, result>>
       \/ /\ i \in Field /\ Verdict(form, i, patch[i], mem) # "Ok"
          /\ result' = Verdict(form, i, patch[i], mem)
          /\ pc' = "returned"
          /\ UNCHANGED i
       \/ /\ i = N + 1
          /\ i' = 1
          /\ pc' = "commit"
          /\ UNCHANGED result

CommitStep ==
    /\ pc = "commit" /\ i \in Field
    /\ mem' = CommitField(form, i, patch[i], mem)
    /\ IF StoresTag(form, i, patch[i], mem)
         THEN pc' = "tag" /\ UNCHANGED i
         ELSE i' = i + 1 /\ UNCHANGED pc
    /\ UNCHANGED <<proved, form, patch, entry, result>>

\* Mutant: the loop advances twice over a switched union.
TagStepSkips ==
    /\ pc = "tag"
    /\ mem' = StoreTag(i, patch[i], mem)
    /\ pc' = "commit"
    /\ i' = i + 2
    /\ UNCHANGED <<proved, form, patch, entry, result>>

TagStep ==
    /\ pc = "tag"
    /\ mem' = StoreTag(i, patch[i], mem)
    /\ pc' = "commit"
    /\ i' = i + 1
    /\ UNCHANGED <<proved, form, patch, entry, result>>

CommitDone ==
    /\ pc = "commit" /\ i = N + 1
    /\ pc' = "returned"
    /\ result' = "Ok"
    /\ proved' = TRUE
    /\ UNCHANGED <<mem, call>>

Return ==
    /\ pc = "returned"
    /\ pc' = "idle"
    /\ form' = "patch" /\ patch' = NoCall /\ i' = 1 /\ entry' = mem
    /\ UNCHANGED <<mem, proved, result>>

-----------------------------------------------------------------------------
(* Field-level mutators: preflight and commit of one field, nothing else   *)
(* runs in between (the borrow is exclusive).                              *)

Mutate(ok, m, error) ==
    /\ pc = "idle" /\ proved
    /\ mem' = IF ok THEN m ELSE mem
    /\ entry' = mem'
    /\ result' = IF ok THEN "Ok" ELSE error
    /\ UNCHANGED <<proved, pc, form, patch, i>>

\* ScalarMut/StringMut/BytesMut/ArrayMut::set, or a nested record's copy_from.
FieldSet(f, u) ==
    /\ Kind[f] = "plain" /\ u.op = "set"
    /\ Mutate(ChildPreflight("patch", f, u, mem), CommitChild("patch", f, u, mem),
              "CapacityExceeded")

\* OptionMut::set: None clears the storage, Some initializes the value wire.
OptionSet(f, u) ==
    /\ Kind[f] = "option"
    /\ \/ /\ u.op = "none"
          /\ Mutate(TRUE, ClearStorage(f, mem), "Ok")
       \/ /\ u.op = "set" /\ IsComplete(<<f, NoTag>>, u.child)
          /\ Mutate(ChildPreflight("init", f, u, mem), CommitChild("init", f, u, mem),
                    "CapacityExceeded")

\* OptionMut::get_mut, then the child handle's copy_from.
OptionGetMut(f, u) ==
    /\ Kind[f] = "option" /\ u.op = "set"
    /\ ~IsAllZero(mem, Storage[f])
    /\ Mutate(ChildPreflight("patch", f, u, mem), CommitChild("patch", f, u, mem),
              "CapacityExceeded")

\* The payload handle's copy_from: it selected the current variant.
PayloadCopyFrom(f, u) ==
    /\ Kind[f] = "tagged" /\ u.op = "set"
    /\ IF u.to # CurrentTag(f, mem)
         THEN Mutate(FALSE, mem, "TagMismatch")
         ELSE Mutate(ChildPreflight("patch", f, u, mem),
                     CommitChild("patch", f, u, mem), "Layout")

\* A variant's accessor, which gives a handle for the current variant only,
\* then that handle's copy_from.
VariantMut(f, u) ==
    /\ Kind[f] = "tagged" /\ u.op = "set"
    /\ u.to = CurrentTag(f, mem)
    /\ Mutate(ChildPreflight("patch", f, u, mem), CommitChild("patch", f, u, mem),
              "CapacityExceeded")

\* clear(): zero-fill of the complete proved span.
Clear ==
    /\ Clearable
    /\ Mutate(TRUE, Zeroes(Addr), "Ok")

Next ==
    \/ Produce \/ AccessMut \/ Release
    \/ \E p \in Patches : CopyFrom(p) \/ SetLogical(p) \/ InitializeStale(p)
    \/ PreflightStep \/ CommitStep \/ TagStep \/ CommitDone \/ Return
    \/ \E f \in Field : \E u \in Updates(f) :
          \/ FieldSet(f, u) \/ OptionSet(f, u) \/ OptionGetMut(f, u)
          \/ PayloadCopyFrom(f, u) \/ VariantMut(f, u)
    \/ Clear

Spec == Init /\ [][Next]_vars

-----------------------------------------------------------------------------
(* Properties *)

ResultKind == {"Ok", "Access", "Layout", "CapacityExceeded", "TagOnlyPatch", "TagMismatch",
               "IncompleteOptionalInitialization", "IncompleteUnionSwitch"}

\* The state stays well formed: the passes never run past the last field, a
\* patch keeps its generated type, and no error kind is invented.
TypeOK ==
    /\ mem \in Bytes(Addr)
    /\ proved \in BOOLEAN
    /\ pc \in {"idle", "preflight", "commit", "tag", "returned"}
    /\ form \in Form
    /\ patch \in Patches
    /\ i \in 1 .. N + 1
    /\ pc = "tag" => i \in Field
    /\ entry \in Bytes(Addr)
    /\ result \in ResultKind

\* Whatever sequence of patches, logical writes, field mutators and clears
\* ran, successful or rejected, the bytes under an outstanding capability
\* are a valid record: the unreachable! arms of the generated accessors
\* ("a parent capability retains ...") are never taken.
CapabilityHoldsValidRecord ==
    pc = "idle" /\ proved => RecordValid(mem)

\* copy_from is all or nothing: when any field is rejected, however many
\* fields passed before it, not one byte has changed.
RejectLeavesBytes ==
    pc = "returned" /\ result # "Ok" => mem = entry

\* The commit pass decides presence and the current tag again from the live
\* bytes; its decision is the one preflight approved, for every field still
\* to be committed, whatever the earlier commits wrote.
VerdictStillHolds ==
    pc = "commit" =>
        \A f \in i .. N : Verdict(form, f, patch[f], mem) = "Ok"

\* The bytes an update may write.
Footprint(f, u) ==
    CASE u.op = "keep" -> {}
      [] u.op = "none" -> Storage[f]
      [] u.op = "set" -> Wire[<<f, u.to>>] \cup TagWire[f]

\* Padding, unpatched fields, the field-local padding of an optional value
\* and the bytes of a union outside the selected variant keep their value.
OnlyFootprintWritten ==
    \A a \in Addr : mem[a] # entry[a] => \E f \in Field : a \in Footprint(f, patch[f])

\* Between calls the call state is empty and, under a capability, the bytes
\* are valid.
IdleInvariant ==
    pc = "idle" => patch = NoCall /\ entry = mem /\ (proved => RecordValid(mem))

\* A patch or logical call runs under a capability; an initializing call
\* carries a complete patch and nobody vouches for the bytes until it is done.
CallInvariant ==
    /\ pc # "idle" => /\ form # "init" => proved
                      /\ form = "init" => PatchComplete(patch)
    /\ pc \in {"preflight", "commit", "tag"} /\ form = "init" => ~proved

\* Preflight writes nothing and has approved the fields before i.
PreflightInvariant ==
    pc = "preflight" =>
        /\ mem = entry
        /\ form # "init" => RecordValid(mem)
        /\ \A f \in Field : f < i => Verdict(form, f, patch[f], mem) = "Ok"

\* The commit pass: fields before i are valid, fields from i on are as the
\* preflight pass left them, and a field waiting for its tag store has a
\* valid payload.
CommitInvariant ==
    pc \in {"commit", "tag"} =>
        /\ \A f \in Field : f < i => FieldValid(f, mem)
        /\ \A f \in Field : f > i \/ (f = i /\ pc = "commit") =>
              /\ Verdict(form, f, patch[f], mem) = "Ok"
              /\ form # "init" => FieldValid(f, mem)
        /\ pc = "tag" => /\ Kind[i] = "tagged" /\ patch[i].op = "set"
                         /\ ChildValid(<<i, patch[i].to>>, mem)

ReturnInvariant ==
    pc = "returned" =>
        /\ result = "Ok" => RecordValid(mem)
        /\ result # "Ok" => mem = entry
        /\ proved => RecordValid(mem)

\* The inductive strengthening of the properties above: at every point of
\* the two passes the record splits into committed, valid fields and fields
\* whose approval still stands.
PassInvariant ==
    /\ IdleInvariant
    /\ CallInvariant
    /\ PreflightInvariant
    /\ CommitInvariant
    /\ ReturnInvariant

\* What an accepted update means for presence and for the selected variant.
TakesEffect(f, u, m) ==
    /\ Kind[f] = "option" /\ u.op = "none" => IsAllZero(m, Storage[f])
    /\ Kind[f] = "option" /\ u.op = "set" => ~IsAllZero(m, Storage[f])
    /\ Kind[f] = "tagged" /\ u.op = "set" => CurrentTag(f, m) = u.to

\* An accepted patch leaves Some(None) absent, Some(Some(_)) present and every
\* patched union on the variant its patch names, whatever the other fields of
\* the same call did.
AcceptedPatchTakesEffect ==
    pc = "returned" /\ result = "Ok" =>
        \A f \in Field : TakesEffect(f, patch[f], mem)

\* The tag is the last store of a union switch: the step that changes a
\* decoded tag leaves a field whose selected payload is already valid.
TagStoredLast ==
    [][\A f \in Field :
          /\ pc \in {"commit", "tag"}
          /\ Kind[f] = "tagged"
          /\ CurrentTag(f, mem') # CurrentTag(f, mem)
          => FieldValid(f, mem')]_vars
=============================================================================
